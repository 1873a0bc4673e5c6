--------------------- MODULE StreamingOrchestratorProofs ---------------------
(***************************************************************************)
(* Proofs about StreamingOrchestrator, for any parties, scenarios and      *)
(* bounds: a running orchestrator is never left to itself, an attempt      *)
(* never waits for what nobody will settle, ready means joined and         *)
(* published, and the party is told what the player last did.              *)
(*                                                                         *)
(* The invariant is stated of a desk and a wire apart, so that it also     *)
(* speaks of the moments inside a handler: the head of the wire has been   *)
(* taken off, or a closing connection has rejected the first invocations   *)
(* and not yet the others.  A second invariant, on top of the first, says  *)
(* where the latest word on the player is on its way to the party.         *)
(***************************************************************************)
EXTENDS StreamingOrchestrator, FiniteSetTheorems, WellFoundedInduction, TLAPS

Wire == Seq(Invocations)

(* Whose answer the orchestrator's present attempt may await.              *)
IsJoin(i) == i.op = "Join"
IsStart(i) == i.op = "Start"
Publishes(i) == i.op \in {"Notify", "Publish"}

(* No attempt is on record that was never made, a start that is under way  *)
(* has a number of its own, and the one in flight has not timed out.       *)
AttemptsFit(d, w) ==
  /\ d.inFlight <= d.lastAttempt
  /\ \A p \in Party : d.active[p] <= d.lastAttempt
  /\ \A a \in d.handled : 0 < a /\ a <= d.lastAttempt
  /\ \A k \in DOMAIN d.lifecycle :
       d.lifecycle[k].attempt <= d.lastAttempt /\ d.lifecycle[k].owner <= d.lastAttempt
  /\ \A k \in DOMAIN w : w[k].attempt <= d.lastAttempt
  /\ IsFiniteSet(d.late)

StartsFit(d, w) ==
  /\ \A k \in DOMAIN w : IsStart(w[k]) =>
       /\ w[k].attempt > 0
       /\ w[k].waiter \in {"nobody", "sync"}
       /\ w[k].attempt = d.inFlight => ~w[k].timedOut
  /\ \A j, k \in DOMAIN w :
       IsStart(w[j]) /\ IsStart(w[k]) /\ w[j].attempt = w[k].attempt => j = k

(* What the connection attempt waits for belongs to it; a join is the last *)
(* one on the wire, a publication says what the player does, unless that   *)
(* has changed since.                                                      *)
WaitersFit(d, w, on) ==
  /\ \A k \in DOMAIN w : w[k].waiter = "connect" =>
       /\ Running(d)
       /\ w[k].fresh
       /\ w[k].party = d.config.party
       /\ \/ IsJoin(w[k]) /\ d.step = "joining"
          \/ Publishes(w[k]) /\ d.step = "syncing"
       /\ IsJoin(w[k]) => \A j \in DOMAIN w : IsJoin(w[j]) => j <= k
       /\ \/ IsJoin(w[k])
          \/ d.behind
          \/ d.config.source = "aimp"
          \/ w[k].live = on
  /\ \A j, k \in DOMAIN w :
       w[j].waiter = "connect" /\ w[k].waiter = "connect" => j = k

(* What the first teardown waits for is its own, and a newer generation    *)
(* has superseded all teardowns.                                           *)
TeardownsFit(d, w) ==
  /\ \A k \in DOMAIN w : w[k].waiter = "teardown" =>
       /\ d.lifecycle # <<>>
       /\ \/ w[k].op = "End" /\ d.lifecycle[1].at = "ending"
          \/ w[k].op = "Reset" /\ d.lifecycle[1].at = "resetting"
  /\ \A j, k \in DOMAIN w :
       w[j].waiter = "teardown" /\ w[k].waiter = "teardown" => j = k
  /\ Running(d) => \A k \in DOMAIN d.lifecycle : ~d.lifecycle[k].fresh

(* What does not run does nothing.                                         *)
RestFits(d) ==
  ~Running(d) =>
    d.step = "idle" /\ ~d.ready /\ ~d.timer /\ ~d.coalescing /\ ~d.subscribed

LinkFits(d) ==
  /\ ~Connected(d) => d.wire = <<>>
  /\ d.step = "dialing" => d.link \in {"preparing", "starting"}
  /\ d.ready /\ d.link \in {"preparing", "starting"} => d.step = "dialing"
  /\ d.ready \/ d.step \in {"starting", "syncing"} => d.subscribed

(* An orchestrator that has joined.                                        *)
Settling(d) == Running(d) /\ (d.ready \/ d.step \in {"starting", "syncing"})

PartyFits(d) == Settling(d) => d.currentParty = d.config.party

(* It is down for its party, or will be when the wire is answered.         *)
JoinFits(d, w, at) ==
  Settling(d) /\ Connected(d) =>
    /\ \A k \in DOMAIN w : IsJoin(w[k]) => w[k].party = d.config.party
    /\ (\A k \in DOMAIN w : ~IsJoin(w[k])) => at = d.config.party

(* What an attempt waits for is under way.                                 *)
Awaits(d, w) ==
  /\ d.step = "joining" =>
       \E k \in DOMAIN w : IsJoin(w[k]) /\ w[k].waiter = "connect"
  /\ d.step = "syncing" =>
       \E k \in DOMAIN w : Publishes(w[k]) /\ w[k].waiter = "connect"
  /\ d.step = "starting" =>
       \E k \in DOMAIN w :
         IsStart(w[k]) /\ w[k].attempt = d.inFlight /\ w[k].party = d.config.party

Attended(d) ==
  Running(d) =>
    \/ d.blocked
    \/ d.timer
    \/ d.step # "idle"
    \/ d.ready /\ d.link \in {"connected", "reconnecting"}

(* All but what a handler restores before it returns.                      *)
Orderly(d, w, on) ==
  /\ d \in Desk
  /\ w \in Wire
  /\ AttemptsFit(d, w)
  /\ StartsFit(d, w)
  /\ WaitersFit(d, w, on)
  /\ TeardownsFit(d, w)
  /\ RestFits(d)
  /\ LinkFits(d)
  /\ PartyFits(d)

(* The invariant of a desk that has returned to the event loop.            *)
Fit(d, on, at) ==
  /\ Orderly(d, d.wire, on)
  /\ JoinFits(d, d.wire, at)
  /\ Awaits(d, d.wire)
  /\ Attended(d)

PlayerOn == sourceLive["cherryPlayPlayer"]

StreamingInv ==
  /\ Fit(desk, PlayerOn, joined)
  /\ session \in [Party -> Session \cup {NoSession}]
  /\ joined \in Party \cup {NoParty}
  /\ sourceLive \in [Source -> BOOLEAN]

-----------------------------------------------------------------------------
(* Induction over the invocations of a wire.                               *)

(* A set of numbers that has 0, and with each number below n the next one, *)
(* has n.                                                                  *)
LEMMA Reaches ==
  ASSUME NEW n \in Nat, NEW T \in SUBSET Nat, 0 \in T,
         \A k \in Nat : k < n /\ k \in T => k + 1 \in T
  PROVE  n \in T
<1> DEFINE Out == {k \in Nat : k <= n /\ k \notin T}
<1>1. ASSUME Out # {} PROVE FALSE
  <2>1. PICK m \in Out : \A y \in Out : ~ (<<y, m>> \in OpToRel(<, Nat))
    BY <1>1, NatLessThanWellFounded, WFMin
  <2>2. \A y \in Out : ~ (y < m)
    BY <2>1 DEF OpToRel
  <2>3. m # 0 /\ m - 1 \in Nat
    OBVIOUS
  <2>4. m - 1 \in T
    BY <2>2, <2>3
  <2> QED BY <2>3, <2>4
<1> QED BY <1>1

(* f[k] is what is left of d when the first k of w have been rejected.     *)
Rejecting(d, w, f, n) ==
  f = [k \in 0 .. n |-> IF k = 0 THEN d ELSE Reject(f[k - 1], w[k])]

(* There is such a function.                                               *)
LEMMA RejectingExists ==
  ASSUME NEW d, NEW w, NEW n \in Nat
  PROVE  \E f : Rejecting(d, w, f, n)
<1> DEFINE T == {m \in Nat : \E f : Rejecting(d, w, f, m)}
<1>1. 0 \in T
  <2> DEFINE f == [k \in 0 .. 0 |-> d]
  <2>1. Rejecting(d, w, f, 0)
    BY DEF Rejecting
  <2> QED BY <2>1
<1>2. ASSUME NEW m \in Nat, m \in T
      PROVE  m + 1 \in T
  <2>1. PICK f : Rejecting(d, w, f, m)
    BY <1>2
  <2> DEFINE g == [k \in 0 .. (m + 1) |-> IF k <= m THEN f[k] ELSE Reject(f[m], w[m + 1])]
  <2>2. Rejecting(d, w, g, m + 1)
    <3>1. ASSUME NEW k \in 0 .. (m + 1)
          PROVE  g[k] = IF k = 0 THEN d ELSE Reject(g[k - 1], w[k])
      <4>1. CASE k = m + 1
        <5>1. m \in 0 .. (m + 1) /\ m <= m /\ k - 1 = m /\ k # 0
          BY <4>1
        <5>2. g[k] = Reject(f[m], w[m + 1])
          BY <4>1
        <5>3. g[m] = f[m]
          BY <5>1
        <5> QED BY <4>1, <5>1, <5>2, <5>3
      <4>2. CASE k # m + 1
        <5>1. k \in 0 .. m
          BY <4>2
        <5>2. f[k] = IF k = 0 THEN d ELSE Reject(f[k - 1], w[k])
          BY <5>1, <2>1 DEF Rejecting
        <5>3. CASE k = 0
          BY <5>1, <5>2, <5>3
        <5>4. CASE k # 0
          <6>1. k - 1 \in 0 .. (m + 1) /\ k - 1 <= m
            BY <5>1, <5>4
          <6>2. g[k - 1] = f[k - 1]
            BY <6>1
          <6> QED BY <5>2, <5>4, <5>1, <6>2
        <5> QED BY <5>3, <5>4
      <4> QED BY <4>1, <4>2
    <3>2. g = [k \in 0 .. (m + 1) |-> g[k]]
      OBVIOUS
    <3> HIDE DEF g
    <3> QED BY <3>1, <3>2 DEF Rejecting
  <2> QED BY <2>2
<1>3. T \in SUBSET Nat
  OBVIOUS
<1> HIDE DEF T
<1>4. n \in T
  BY <1>1, <1>2, <1>3, Reaches
<1> QED BY <1>4 DEF T

(* What holds before the first rejection and is kept by each holds in the  *)
(* end.                                                                    *)
LEMMA CloseRejects ==
  ASSUME NEW d, NEW link, Len(d.wire) \in Nat,
         NEW Good,
         <<0, [d EXCEPT !.link = link, !.wire = <<>>]>> \in Good,
         \A k \in Nat : \A e : k < Len(d.wire) /\ <<k, e>> \in Good
             => <<k + 1, Reject(e, d.wire[k + 1])>> \in Good
  PROVE  <<Len(d.wire), CloseConnection(d, link)>> \in Good
<1> DEFINE n == Len(d.wire)
           base == [d EXCEPT !.link = link, !.wire = <<>>]
           f == CHOOSE f : Rejecting(base, d.wire, f, n)
           T == {k \in Nat : k <= n => <<k, f[k]>> \in Good}
<1>1. Rejecting(base, d.wire, f, n)
  BY RejectingExists
<1>2. CloseConnection(d, link) = f[n]
  BY DEF CloseConnection, Rejecting
<1> HIDE DEF f
<1>3. \A k \in 0 .. n : f[k] = IF k = 0 THEN base ELSE Reject(f[k - 1], d.wire[k])
  BY <1>1 DEF Rejecting
<1>4. 0 \in T
  <2>1. f[0] = base
    BY <1>3
  <2> QED BY <2>1
<1>5. ASSUME NEW k \in Nat, k < n, k \in T
      PROVE  k + 1 \in T
  <2>1. <<k, f[k]>> \in Good
    BY <1>5
  <2>2. k + 1 \in 0 .. n /\ k + 1 # 0 /\ (k + 1) - 1 = k
    BY <1>5
  <2>3. f[k + 1] = Reject(f[k], d.wire[k + 1])
    BY <1>3, <2>2
  <2>4. <<k + 1, f[k + 1]>> \in Good
    BY <2>1, <2>3, <1>5
  <2> QED BY <2>4
<1>6. T \in SUBSET Nat
  OBVIOUS
<1> HIDE DEF T
<1>7. n \in T
  BY <1>4, <1>5, <1>6, Reaches
<1> QED BY <1>2, <1>7 DEF T

(* The sessions after the first k invocations have been carried out.       *)
Carrying(s, w, f, n) ==
  f = [k \in 0 .. n |-> IF k = 0 THEN s ELSE Carry(f[k - 1], w[k])]

(* There is such a function.                                               *)
LEMMA CarryingExists ==
  ASSUME NEW s, NEW w, NEW n \in Nat
  PROVE  \E f : Carrying(s, w, f, n)
<1> DEFINE T == {m \in Nat : \E f : Carrying(s, w, f, m)}
<1>1. 0 \in T
  <2> DEFINE f == [k \in 0 .. 0 |-> s]
  <2>1. Carrying(s, w, f, 0)
    BY DEF Carrying
  <2> QED BY <2>1
<1>2. ASSUME NEW m \in Nat, m \in T
      PROVE  m + 1 \in T
  <2>1. PICK f : Carrying(s, w, f, m)
    BY <1>2
  <2> DEFINE g == [k \in 0 .. (m + 1) |-> IF k <= m THEN f[k] ELSE Carry(f[m], w[m + 1])]
  <2>2. Carrying(s, w, g, m + 1)
    <3>1. ASSUME NEW k \in 0 .. (m + 1)
          PROVE  g[k] = IF k = 0 THEN s ELSE Carry(g[k - 1], w[k])
      <4>1. CASE k = m + 1
        <5>1. m \in 0 .. (m + 1) /\ m <= m /\ k - 1 = m /\ k # 0
          BY <4>1
        <5>2. g[k] = Carry(f[m], w[m + 1])
          BY <4>1
        <5>3. g[m] = f[m]
          BY <5>1
        <5> QED BY <4>1, <5>1, <5>2, <5>3
      <4>2. CASE k # m + 1
        <5>1. k \in 0 .. m
          BY <4>2
        <5>2. f[k] = IF k = 0 THEN s ELSE Carry(f[k - 1], w[k])
          BY <5>1, <2>1 DEF Carrying
        <5>3. CASE k = 0
          BY <5>1, <5>2, <5>3
        <5>4. CASE k # 0
          <6>1. k - 1 \in 0 .. (m + 1) /\ k - 1 <= m
            BY <5>1, <5>4
          <6>2. g[k - 1] = f[k - 1]
            BY <6>1
          <6> QED BY <5>2, <5>4, <5>1, <6>2
        <5> QED BY <5>3, <5>4
      <4> QED BY <4>1, <4>2
    <3>2. g = [k \in 0 .. (m + 1) |-> g[k]]
      OBVIOUS
    <3> HIDE DEF g
    <3> QED BY <3>1, <3>2 DEF Carrying
  <2> QED BY <2>2
<1>3. T \in SUBSET Nat
  OBVIOUS
<1> HIDE DEF T
<1>4. n \in T
  BY <1>1, <1>2, <1>3, Reaches
<1> QED BY <1>4 DEF T

Sessions == [Party -> Session \cup {NoSession}]

(* The hub stores sessions and nothing else.                               *)
LEMMA CarryFits ==
  ASSUME NEW s \in Sessions, NEW i \in Invocations
  PROVE  Carry(s, i) \in Sessions
<1>1. i.party \in Party /\ i.live \in BOOLEAN
  BY DEF Invocations
<1>2. s[i.party] \in Session \cup {NoSession}
  BY <1>1 DEF Sessions
<1>3. Started(s[i.party], TRUE) \in Session
  BY <1>2 DEF Started, Session, Mode, Status
<1>4. s[i.party] # NoSession => Ended(s[i.party]) \in Session
  BY <1>2 DEF Ended, Session, Mode, Status
<1>5. Cleared(s[i.party]) \in Session
  BY <1>2 DEF Cleared, Session, Mode, Status
<1>6. Published(s[i.party], Dto(i.live)) \in Session
  BY <1>1, <1>2 DEF Published, Dto, Session, Mode, Status
<1> QED BY <1>1, <1>3, <1>4, <1>5, <1>6 DEF Carry, Sessions

(* However many of the invocations the hub carries out, what holds of the  *)
(* sessions before and is kept by each invocation holds in the end.        *)
LEMMA CarriesOut ==
  ASSUME NEW s, NEW w, Len(w) \in Nat, NEW t \in CarriedSome(s, w),
         NEW Good,
         s \in Good,
         \A k \in 1 .. Len(w) : \A r \in Good : Carry(r, w[k]) \in Good
  PROVE  t \in Good
<1> DEFINE n == Len(w)
           f == CHOOSE f : Carrying(s, w, f, n)
           T == {k \in Nat : k <= n => f[k] \in Good}
<1>1. Carrying(s, w, f, n)
  BY CarryingExists
<1>2. PICK m \in 0 .. n : t = f[m]
  BY DEF CarriedSome, Carrying
<1> HIDE DEF f
<1>3. \A k \in 0 .. n : f[k] = IF k = 0 THEN s ELSE Carry(f[k - 1], w[k])
  BY <1>1 DEF Carrying
<1>4. 0 \in T
  BY <1>3
<1>5. ASSUME NEW k \in Nat, k < n, k \in T
      PROVE  k + 1 \in T
  <2>1. k + 1 \in 0 .. n /\ k + 1 # 0 /\ (k + 1) - 1 = k /\ k + 1 \in 1 .. n
    BY <1>5
  <2>2. f[k + 1] = Carry(f[k], w[k + 1])
    BY <1>3, <2>1
  <2>3. f[k] \in Good
    BY <1>5
  <2>4. f[k + 1] \in Good
    BY <2>1, <2>2, <2>3
  <2> QED BY <2>4
<1>6. T \in SUBSET Nat
  OBVIOUS
<1>7. m \in Nat /\ m <= n
  OBVIOUS
<1> HIDE DEF T
<1>8. \A k \in Nat : k < m /\ k \in T => k + 1 \in T
  BY <1>5, <1>7
<1>9. m \in T
  BY <1>4, <1>6, <1>7, <1>8, Reaches
<1> QED BY <1>2, <1>7, <1>9 DEF T

(* Whatever the hub carries out of a wire, it has sessions.                *)
LEMMA CarriedFits ==
  ASSUME NEW s \in Sessions, NEW w \in Wire, NEW t \in CarriedSome(s, w)
  PROVE  t \in Sessions
<1>1. Len(w) \in Nat /\ \A k \in 1 .. Len(w) : w[k] \in Invocations
  BY DEF Wire
<1>2. \A k \in 1 .. Len(w) : \A r \in Sessions : Carry(r, w[k]) \in Sessions
  BY <1>1, CarryFits
<1> QED BY <1>1, <1>2, CarriesOut

(* Also when it has lost the connection.                                   *)
LEMMA LossFits ==
  ASSUME session \in Sessions, desk.wire \in Wire, ServerLoses
  PROVE  session' \in Sessions /\ joined' = NoParty
BY CarriedFits DEF ServerLoses

-----------------------------------------------------------------------------
(* The wire grows at its end and is answered at its head.                  *)

(* A wire without its head.                                                *)
LEMMA TailIs ==
  ASSUME NEW w \in Wire, w # <<>>
  PROVE  /\ Tail(w) \in Wire /\ Head(w) \in Invocations /\ Head(w) = w[1] /\ 1 \in DOMAIN w
         /\ \A k \in DOMAIN Tail(w) : k + 1 \in DOMAIN w /\ Tail(w)[k] = w[k + 1]
         /\ \A k \in DOMAIN w : k # 1 => k - 1 \in DOMAIN Tail(w) /\ Tail(w)[k - 1] = w[k]
BY DEF Wire

(* A wire with one more invocation.                                        *)
LEMMA AppendIs ==
  ASSUME NEW w \in Wire, NEW i \in Invocations
  PROVE  /\ Append(w, i) \in Wire
         /\ DOMAIN Append(w, i) = DOMAIN w \cup {Len(w) + 1}
         /\ Len(w) \in Nat /\ DOMAIN w = 1 .. Len(w)
         /\ Append(w, i)[Len(w) + 1] = i
         /\ \A k \in DOMAIN w : Append(w, i)[k] = w[k]
BY DEF Wire

(* A wire with several more.                                               *)
LEMMA JointIs ==
  ASSUME NEW w \in Wire, NEW q \in Wire
  PROVE  /\ w \o q \in Wire
         /\ \A k \in DOMAIN w : k \in DOMAIN (w \o q) /\ (w \o q)[k] = w[k]
         /\ \A k \in DOMAIN q : k + Len(w) \in DOMAIN (w \o q) /\ (w \o q)[k + Len(w)] = q[k]
         /\ \A k \in DOMAIN (w \o q) :
              \/ k \in DOMAIN w
              \/ k - Len(w) \in DOMAIN q /\ k = (k - Len(w)) + Len(w)
BY DEF Wire

(* The parts of the invariant without their head.                          *)
LEMMA HeadLeaves ==
  ASSUME NEW d, NEW w, NEW on, Orderly(d, w, on), w # <<>>
  PROVE  Orderly(d, Tail(w), on)
<1> USE DEF Orderly
<1>1. Tail(w) \in Wire
  BY TailIs
<1>2. AttemptsFit(d, Tail(w))
  BY TailIs DEF AttemptsFit
<1>3. StartsFit(d, Tail(w))
  <2>1. \A j, k \in DOMAIN Tail(w) :
          IsStart(Tail(w)[j]) /\ IsStart(Tail(w)[k]) /\ Tail(w)[j].attempt = Tail(w)[k].attempt
          => j = k
    BY TailIs DEF StartsFit, Wire
  <2> QED BY <2>1, TailIs DEF StartsFit
<1>4. WaitersFit(d, Tail(w), on)
  <2>1. ASSUME NEW k \in DOMAIN Tail(w), IsJoin(Tail(w)[k]), Tail(w)[k].waiter = "connect",
               NEW j \in DOMAIN Tail(w), IsJoin(Tail(w)[j])
        PROVE  j <= k
    BY <2>1, TailIs DEF WaitersFit, Wire
  <2>2. \A j, k \in DOMAIN Tail(w) :
          Tail(w)[j].waiter = "connect" /\ Tail(w)[k].waiter = "connect" => j = k
    BY TailIs DEF WaitersFit, Wire
  <2> QED BY <2>1, <2>2, TailIs DEF WaitersFit
<1>5. TeardownsFit(d, Tail(w))
  <2>1. \A j, k \in DOMAIN Tail(w) :
          Tail(w)[j].waiter = "teardown" /\ Tail(w)[k].waiter = "teardown" => j = k
    BY TailIs DEF TeardownsFit, Wire
  <2> QED BY <2>1, TailIs DEF TeardownsFit
<1> QED BY <1>1, <1>2, <1>3, <1>4, <1>5

(* The head is the only one of its kind.                                   *)
LEMMA HeadIsAlone ==
  ASSUME NEW d, NEW w, NEW on, Orderly(d, w, on), w # <<>>
  PROVE  /\ Head(w).waiter = "connect" => \A k \in DOMAIN Tail(w) : Tail(w)[k].waiter # "connect"
         /\ Head(w).waiter = "teardown" => \A k \in DOMAIN Tail(w) : Tail(w)[k].waiter # "teardown"
         /\ IsStart(Head(w)) =>
              \A k \in DOMAIN Tail(w) :
                IsStart(Tail(w)[k]) => Tail(w)[k].attempt # Head(w).attempt
         /\ IsJoin(Head(w)) /\ Head(w).waiter = "connect" =>
              \A k \in DOMAIN Tail(w) : ~IsJoin(Tail(w)[k])
BY TailIs DEF Orderly, WaitersFit, TeardownsFit, StartsFit, Wire

(* What is on the desk's own wire matters only to the link.                *)
LEMMA WireIsFree ==
  ASSUME NEW d, NEW w, NEW on, Orderly(d, w, on), NEW v \in Wire, ~Connected(d) => v = <<>>
  PROVE  Orderly([d EXCEPT !.wire = v], w, on)
<1> DEFINE e == [d EXCEPT !.wire = v]
<1>1. d \in Desk
  BY DEF Orderly
<1>2. /\ e \in Desk /\ e.wire = v
      /\ e.config = d.config /\ e.step = d.step /\ e.ready = d.ready /\ e.timer = d.timer
      /\ e.subscribed = d.subscribed /\ e.coalescing = d.coalescing /\ e.behind = d.behind
      /\ e.lastAttempt = d.lastAttempt /\ e.inFlight = d.inFlight /\ e.active = d.active
      /\ e.handled = d.handled /\ e.late = d.late /\ e.lifecycle = d.lifecycle
      /\ e.link = d.link /\ e.currentParty = d.currentParty
  BY <1>1 DEF Desk, Wire
<1> HIDE DEF e
<1>3. AttemptsFit(e, w) /\ StartsFit(e, w)
  BY <1>2 DEF Orderly, AttemptsFit, StartsFit
<1>4. WaitersFit(e, w, on)
  BY <1>2 DEF Orderly, WaitersFit, Running
<1>5. TeardownsFit(e, w)
  BY <1>2 DEF Orderly, TeardownsFit, Running
<1>6. RestFits(e) /\ LinkFits(e) /\ PartyFits(e)
  BY <1>2 DEF Orderly, RestFits, LinkFits, PartyFits, Running, Connected, Settling
<1> QED BY <1>2, <1>3, <1>4, <1>5, <1>6 DEF Orderly, e

(* An invocation nobody of the above waits for.                            *)
Plain(d, i) ==
  /\ i \in Invocations
  /\ ~IsStart(i)
  /\ i.waiter \notin {"connect", "teardown"}
  /\ i.attempt <= d.lastAttempt

(* Invocations nobody waits for leave the order of the wire as it is.      *)
LEMMA PlainFits ==
  ASSUME NEW d, NEW w, NEW on, Orderly(d, w, on),
         NEW q \in Wire, \A k \in DOMAIN q : Plain(d, q[k]) /\ ~IsJoin(q[k])
  PROVE  Orderly(d, w \o q, on)
<1> USE DEF Orderly
<1> DEFINE v == w \o q
<1>1. /\ v \in Wire
      /\ \A k \in DOMAIN w : k \in DOMAIN v /\ v[k] = w[k]
      /\ \A k \in DOMAIN v : (k \in DOMAIN w /\ v[k] = w[k]) \/ (Plain(d, v[k]) /\ ~IsJoin(v[k]))
  BY JointIs
<1> HIDE DEF v
<1>2. AttemptsFit(d, v)
  BY <1>1 DEF AttemptsFit, Plain
<1>3. StartsFit(d, v)
  BY <1>1 DEF StartsFit, Plain
<1>4. WaitersFit(d, v, on)
  BY <1>1 DEF WaitersFit, Plain
<1>5. TeardownsFit(d, v)
  BY <1>1 DEF TeardownsFit, Plain
<1> QED BY <1>1, <1>2, <1>3, <1>4, <1>5 DEF v

-----------------------------------------------------------------------------
(* What the methods change of the desk.                                    *)

(* All that is compared below, except for the step.                        *)
Alike(d, e) ==
  /\ e \in Desk
  /\ e.config = d.config /\ e.subscribed = d.subscribed /\ (d.behind => e.behind)
  /\ e.lastAttempt = d.lastAttempt /\ e.inFlight = d.inFlight /\ e.active = d.active
  /\ e.handled = d.handled /\ e.late = d.late /\ e.lifecycle = d.lifecycle
  /\ e.link = d.link /\ e.currentParty = d.currentParty /\ e.wire = d.wire
  /\ e.timer \/ e.coalescing => Running(d)

(* A desk alike in step and readiness is as orderly.                       *)
LEMMA AlikeFits ==
  ASSUME NEW d, NEW w, NEW on, Orderly(d, w, on), NEW e, Alike(d, e),
         e.step = d.step, e.ready => d.ready
  PROVE  Orderly(e, w, on)
<1>1. AttemptsFit(e, w) /\ StartsFit(e, w)
  BY DEF Alike, Orderly, AttemptsFit, StartsFit
<1>2. WaitersFit(e, w, on)
  BY DEF Alike, Orderly, WaitersFit, Running
<1>3. TeardownsFit(e, w)
  BY DEF Alike, Orderly, TeardownsFit, Running
<1>4. RestFits(e) /\ LinkFits(e) /\ PartyFits(e)
  BY DEF Alike, Orderly, RestFits, LinkFits, PartyFits, Running, Connected, Settling
<1> QED BY <1>1, <1>2, <1>3, <1>4 DEF Orderly, Alike

(* An attempt ends; nothing is left that it waits for.                     *)
LEMMA IdleFits ==
  ASSUME NEW d, NEW w, NEW on, Orderly(d, w, on), NEW e, Alike(d, e),
         e.step = "idle", \A k \in DOMAIN w : w[k].waiter # "connect",
         \/ ~e.ready
         \/ d.ready /\ d.step # "dialing"
         \/ Settling(d) /\ Connected(d)
  PROVE  Orderly(e, w, on)
<1>1. AttemptsFit(e, w) /\ StartsFit(e, w)
  BY DEF Alike, Orderly, AttemptsFit, StartsFit
<1>2. WaitersFit(e, w, on)
  BY DEF Alike, Orderly, WaitersFit, Running
<1>3. TeardownsFit(e, w)
  BY DEF Alike, Orderly, TeardownsFit, Running
<1>4. RestFits(e) /\ LinkFits(e) /\ PartyFits(e)
  BY DEF Alike, Orderly, RestFits, LinkFits, PartyFits, Running, Connected, Settling
<1> QED BY <1>1, <1>2, <1>3, <1>4 DEF Orderly, Alike

(* scheduleReconnect sets the timer and nothing else.                      *)
LEMMA ScheduleReconnectIs ==
  ASSUME NEW d \in Desk
  PROVE  LET e == ScheduleReconnect(d) IN
         /\ e \in Desk
         /\ e.config = d.config /\ e.step = d.step /\ e.ready = d.ready /\ e.blocked = d.blocked
         /\ e.subscribed = d.subscribed /\ e.behind = d.behind /\ e.coalescing = d.coalescing
         /\ e.lastAttempt = d.lastAttempt /\ e.inFlight = d.inFlight /\ e.active = d.active
         /\ e.handled = d.handled /\ e.late = d.late /\ e.lifecycle = d.lifecycle
         /\ e.link = d.link /\ e.currentParty = d.currentParty /\ e.wire = d.wire
         /\ e.timer <=> d.timer \/ Running(d)
         /\ e.liveSession = d.liveSession /\ e.dials = d.dials
BY DEF ScheduleReconnect, Desk, Running

(* Nothing that decides whether the orchestrator is attended to.           *)
Keeps(d, e) ==
  /\ e.config = d.config /\ e.step = d.step /\ e.ready = d.ready /\ e.blocked = d.blocked
  /\ e.link = d.link /\ e.currentParty = d.currentParty
  /\ d.timer => e.timer

(* It leaves the desk orderly.                                             *)
LEMMA ScheduleReconnectFits ==
  ASSUME NEW d, NEW w, NEW on, Orderly(d, w, on)
  PROVE  Orderly(ScheduleReconnect(d), w, on) /\ Keeps(d, ScheduleReconnect(d))
<1> DEFINE e == ScheduleReconnect(d)
<1>1. d \in Desk /\ RestFits(d)
  BY DEF Orderly
<1>2. Alike(d, e) /\ e.step = d.step /\ e.ready = d.ready /\ Keeps(d, e)
  BY <1>1, ScheduleReconnectIs DEF Alike, RestFits, Keeps
<1> QED BY <1>2, AlikeFits

(* A failed attempt leaves an orderly desk with a timer set.               *)
LEMMA ConnectFailsFits ==
  ASSUME NEW d, NEW w, NEW on, Orderly(d, w, on), \A k \in DOMAIN w : w[k].waiter # "connect"
  PROVE  LET e == ConnectFails(d) IN
         /\ Orderly(e, w, on)
         /\ Attended(e) /\ e.step = "idle" /\ ~e.ready
         /\ e.config = d.config /\ e.link = d.link /\ e.wire = d.wire
         /\ e.currentParty = d.currentParty
<1> DEFINE c == [d EXCEPT !.step = "idle", !.dials = FALSE, !.ready = FALSE]
           e == ConnectFails(d)
<1>1. d \in Desk /\ RestFits(d)
  BY DEF Orderly
<1>2. /\ c \in Desk
      /\ c.config = d.config /\ c.step = "idle" /\ ~c.ready /\ c.blocked = d.blocked
      /\ c.subscribed = d.subscribed /\ c.behind = d.behind /\ c.coalescing = d.coalescing
      /\ c.lastAttempt = d.lastAttempt /\ c.inFlight = d.inFlight /\ c.active = d.active
      /\ c.handled = d.handled /\ c.late = d.late /\ c.lifecycle = d.lifecycle
      /\ c.link = d.link /\ c.currentParty = d.currentParty /\ c.wire = d.wire
      /\ c.timer = d.timer
  BY <1>1 DEF Desk, Steps
<1>3. e = ScheduleReconnect(c)
  BY DEF ConnectFails
<1> HIDE DEF c, e
<1>4. Alike(d, e) /\ e.step = "idle" /\ ~e.ready /\ (e.timer <=> c.timer \/ Running(c))
  BY <1>1, <1>2, <1>3, ScheduleReconnectIs DEF Alike, RestFits, Running
<1>5. Attended(e)
  BY <1>2, <1>4 DEF Attended, Running, Alike
<1>6. Orderly(e, w, on)
  BY <1>4, IdleFits
<1> QED BY <1>4, <1>5, <1>6 DEF e, Alike

(* So does a failed publication, whose attempt goes on.                    *)
LEMMA PublishFailsFits ==
  ASSUME NEW d, NEW w, NEW on, Orderly(d, w, on)
  PROVE  LET e == PublishFails(d) IN
         /\ Orderly(e, w, on)
         /\ Attended(e) /\ e.step = d.step /\ ~e.ready /\ e.inFlight = d.inFlight
         /\ e.config = d.config /\ e.link = d.link /\ e.wire = d.wire
         /\ e.currentParty = d.currentParty
<1> DEFINE c == [d EXCEPT !.ready = FALSE]
           e == PublishFails(d)
<1>1. d \in Desk /\ RestFits(d)
  BY DEF Orderly
<1>2. /\ c \in Desk
      /\ c.config = d.config /\ c.step = d.step /\ ~c.ready /\ c.blocked = d.blocked
      /\ c.subscribed = d.subscribed /\ c.behind = d.behind /\ c.coalescing = d.coalescing
      /\ c.lastAttempt = d.lastAttempt /\ c.inFlight = d.inFlight /\ c.active = d.active
      /\ c.handled = d.handled /\ c.late = d.late /\ c.lifecycle = d.lifecycle
      /\ c.link = d.link /\ c.currentParty = d.currentParty /\ c.wire = d.wire
      /\ c.timer = d.timer
  BY <1>1 DEF Desk
<1>3. e = ScheduleReconnect(c)
  BY DEF PublishFails
<1> HIDE DEF c, e
<1>4. Alike(d, e) /\ e.step = d.step /\ ~e.ready /\ (e.timer <=> c.timer \/ Running(c))
  BY <1>1, <1>2, <1>3, ScheduleReconnectIs DEF Alike, RestFits, Running
<1>5. Attended(e)
  BY <1>2, <1>4 DEF Attended, Running, Alike
<1>6. Orderly(e, w, on)
  BY <1>4, AlikeFits
<1> QED BY <1>4, <1>5, <1>6 DEF e, Alike

(* An EndSession has returned.                                             *)
LEMMA EndReturnedFits ==
  ASSUME NEW d, NEW w, NEW on, Orderly(d, w, on), NEW i \in Invocations,
         i.waiter = "teardown" => /\ d.lifecycle # <<>>
                                  /\ \A k \in DOMAIN w : w[k].waiter # "teardown"
  PROVE  LET e == EndReturned(d, i) IN
         /\ Orderly(e, w, on) /\ Keeps(d, e)
         /\ e.wire = d.wire /\ e.inFlight = d.inFlight /\ e.lastAttempt = d.lastAttempt
<1> DEFINE c == [d EXCEPT !.active[i.party] = IF i.attempt # 0 /\ @ = i.attempt THEN 0 ELSE @]
           e == EndReturned(d, i)
<1>1. d \in Desk /\ i.party \in Party
  BY DEF Orderly, Invocations
<1>2. /\ c \in Desk
      /\ c.config = d.config /\ c.step = d.step /\ c.ready = d.ready /\ c.blocked = d.blocked
      /\ c.subscribed = d.subscribed /\ c.behind = d.behind /\ c.coalescing = d.coalescing
      /\ c.lastAttempt = d.lastAttempt /\ c.inFlight = d.inFlight
      /\ \A p \in Party : c.active[p] \in {0, d.active[p]}
      /\ c.handled = d.handled /\ c.late = d.late /\ c.lifecycle = d.lifecycle
      /\ c.link = d.link /\ c.currentParty = d.currentParty /\ c.wire = d.wire
      /\ c.timer = d.timer
  BY <1>1 DEF Desk
<1>a. EndReturned(d, i) =
        CASE i.waiter = "late" /\ i.fresh -> ScheduleReconnect(c)
          [] i.waiter = "teardown" ->
               [c EXCEPT !.lifecycle[1].at = "ended",
                         !.handled = @ \cup ({d.lifecycle[1].attempt} \ {0})]
          [] OTHER -> c
  BY DEF EndReturned
<1> HIDE DEF c
<1>3. Orderly(c, w, on)
  <2>1. AttemptsFit(c, w)
    <3>1. ASSUME NEW p \in Party
          PROVE  c.active[p] <= c.lastAttempt
      <4>1. d.active[p] <= d.lastAttempt
        BY DEF Orderly, AttemptsFit
      <4>2. d.lastAttempt \in Nat
        BY <1>1 DEF Desk
      <4> QED BY <1>2, <4>1, <4>2
    <3> QED BY <3>1, <1>2 DEF Orderly, AttemptsFit
  <2>2. StartsFit(c, w)
    BY <1>2 DEF Orderly, StartsFit
  <2>3. WaitersFit(c, w, on)
    BY <1>2 DEF Orderly, WaitersFit, Running
  <2>4. TeardownsFit(c, w)
    BY <1>2 DEF Orderly, TeardownsFit, Running
  <2>5. RestFits(c) /\ LinkFits(c) /\ PartyFits(c)
    BY <1>2 DEF Orderly, RestFits, LinkFits, PartyFits, Running, Connected, Settling
  <2> QED BY <1>2, <2>1, <2>2, <2>3, <2>4, <2>5 DEF Orderly
<1>4. Keeps(d, c)
  BY <1>2 DEF Keeps
<1>5. CASE i.waiter = "late" /\ i.fresh
  <2>1. e = ScheduleReconnect(c)
    BY <1>5, <1>a
  <2> QED BY <2>1, <1>2, <1>3, <1>4, ScheduleReconnectFits, ScheduleReconnectIs DEF Keeps
<1>6. CASE i.waiter = "teardown"
  <2>1. e = [c EXCEPT !.lifecycle[1].at = "ended",
                      !.handled = @ \cup ({d.lifecycle[1].attempt} \ {0})]
    BY <1>6, <1>a
  <2>2. /\ d.lifecycle \in Seq(Teardowns) /\ 1 \in DOMAIN d.lifecycle
        /\ d.lifecycle[1] \in Teardowns
    BY <1>1, <1>6 DEF Desk
  <2>3. [d.lifecycle[1] EXCEPT !.at = "ended"] \in Teardowns
    BY <2>2 DEF Teardowns
  <2>4. d.lifecycle[1].attempt \in Nat
    BY <2>2 DEF Teardowns
  <2> DEFINE l == [c.lifecycle EXCEPT ![1].at = "ended"]
             h == c.handled \cup ({d.lifecycle[1].attempt} \ {0})
  <2>5. /\ l \in Seq(Teardowns) /\ DOMAIN l = DOMAIN d.lifecycle
        /\ \A k \in DOMAIN l : l[k].fresh = d.lifecycle[k].fresh
                               /\ l[k].attempt = d.lifecycle[k].attempt
                               /\ l[k].owner = d.lifecycle[k].owner
    BY <1>2, <2>2, <2>3 DEF Teardowns
  <2>6. h \in SUBSET Nat
    BY <1>2, <2>4 DEF Desk
  <2>7. e = [c EXCEPT !.lifecycle = l, !.handled = h]
    BY <2>1, <1>2 DEF Desk
  <2> HIDE DEF l
  <2>8. /\ e \in Desk /\ e.lifecycle = l /\ e.handled = h
        /\ e.config = c.config /\ e.step = c.step /\ e.ready = c.ready /\ e.blocked = c.blocked
        /\ e.subscribed = c.subscribed /\ e.behind = c.behind /\ e.coalescing = c.coalescing
        /\ e.lastAttempt = c.lastAttempt /\ e.inFlight = c.inFlight /\ e.active = c.active
        /\ e.late = c.late
        /\ e.link = c.link /\ e.currentParty = c.currentParty /\ e.wire = c.wire
        /\ e.timer = c.timer
    BY <1>2, <2>5, <2>6, <2>7 DEF Desk
  <2> HIDE DEF e
  <2>9. AttemptsFit(e, w)
    <3>1. \A a \in h : 0 < a /\ a <= e.lastAttempt
      <4>1. \A a \in c.handled : 0 < a /\ a <= e.lastAttempt
        BY <1>3, <2>8 DEF Orderly, AttemptsFit
      <4>2. d.lifecycle[1].attempt <= e.lastAttempt
        BY <1>2, <2>2, <2>8 DEF Orderly, AttemptsFit
      <4> QED BY <2>4, <4>1, <4>2
    <3>2. \A k \in DOMAIN e.lifecycle :
            e.lifecycle[k].attempt <= e.lastAttempt /\ e.lifecycle[k].owner <= e.lastAttempt
      BY <1>2, <1>3, <2>5, <2>8 DEF Orderly, AttemptsFit
    <3> HIDE DEF h
    <3> QED BY <3>1, <3>2, <1>3, <2>8 DEF Orderly, AttemptsFit
  <2>10. StartsFit(e, w)
    BY <1>3, <2>8 DEF Orderly, StartsFit
  <2>11. WaitersFit(e, w, on)
    BY <1>3, <2>8 DEF Orderly, WaitersFit, Running
  <2>12. TeardownsFit(e, w)
    <3>1. \A k \in DOMAIN w : w[k].waiter # "teardown"
      BY <1>6
    <3>2. Running(e) => \A k \in DOMAIN e.lifecycle : ~e.lifecycle[k].fresh
      BY <1>2, <1>3, <2>5, <2>8 DEF Orderly, TeardownsFit, Running
    <3> QED BY <3>1, <3>2 DEF TeardownsFit
  <2>13. RestFits(e) /\ LinkFits(e) /\ PartyFits(e)
    BY <1>3, <2>8 DEF Orderly, RestFits, LinkFits, PartyFits, Running, Connected, Settling
  <2>14. Orderly(e, w, on)
    BY <1>3, <2>8, <2>9, <2>10, <2>11, <2>12, <2>13 DEF Orderly
  <2> QED BY <2>14, <2>8, <1>2 DEF Keeps, e
<1>7. CASE ~(i.waiter = "late" /\ i.fresh) /\ i.waiter # "teardown"
  <2>1. e = c
    BY <1>7, <1>a
  <2> QED BY <2>1, <1>2, <1>3, <1>4
<1> QED BY <1>5, <1>6, <1>7

(* The rest of the lifecycle.                                              *)
LEMMA PopFits ==
  ASSUME NEW d, NEW w, NEW on, Orderly(d, w, on), d.lifecycle # <<>>,
         \A k \in DOMAIN w : w[k].waiter # "teardown"
  PROVE  LET e == [d EXCEPT !.lifecycle = Tail(@)] IN
         /\ Orderly(e, w, on) /\ Keeps(d, e)
         /\ e.wire = d.wire /\ e.inFlight = d.inFlight
<1> DEFINE l == Tail(d.lifecycle)
           e == [d EXCEPT !.lifecycle = l]
<1>1. d \in Desk /\ d.lifecycle \in Seq(Teardowns)
  BY DEF Orderly, Desk
<1>2. /\ l \in Seq(Teardowns)
      /\ \A k \in DOMAIN l : k + 1 \in DOMAIN d.lifecycle /\ l[k] = d.lifecycle[k + 1]
  BY <1>1
<1> HIDE DEF l
<1>3. /\ e \in Desk /\ e.lifecycle = l
      /\ e.config = d.config /\ e.step = d.step /\ e.ready = d.ready /\ e.blocked = d.blocked
      /\ e.subscribed = d.subscribed /\ e.behind = d.behind /\ e.coalescing = d.coalescing
      /\ e.lastAttempt = d.lastAttempt /\ e.inFlight = d.inFlight /\ e.active = d.active
      /\ e.handled = d.handled /\ e.late = d.late
      /\ e.link = d.link /\ e.currentParty = d.currentParty /\ e.wire = d.wire
      /\ e.timer = d.timer
  BY <1>1, <1>2 DEF Desk
<1> HIDE DEF e
<1>4. AttemptsFit(e, w)
  BY <1>2, <1>3 DEF Orderly, AttemptsFit
<1>5. StartsFit(e, w)
  BY <1>3 DEF Orderly, StartsFit
<1>6. WaitersFit(e, w, on)
  BY <1>3 DEF Orderly, WaitersFit, Running
<1>7. TeardownsFit(e, w)
  BY <1>2, <1>3 DEF Orderly, TeardownsFit, Running
<1>8. RestFits(e) /\ LinkFits(e) /\ PartyFits(e)
  BY <1>3 DEF Orderly, RestFits, LinkFits, PartyFits, Running, Connected, Settling
<1>9. Orderly(e, w, on)
  BY <1>3, <1>4, <1>5, <1>6, <1>7, <1>8 DEF Orderly
<1> QED BY <1>3, <1>9 DEF Keeps, e, l

(* A start is settled: those who wait learn of it.                         *)
LEMMA SettleFits ==
  ASSUME NEW d, NEW w, NEW on, Orderly(d, w, on), NEW a, NEW started \in BOOLEAN,
         NEW late \in SUBSET d.late
  PROVE  LET e == Settle([d EXCEPT !.late = late], a, started) IN
         /\ Orderly(e, w, on) /\ Keeps(d, e)
         /\ e.wire = d.wire /\ e.lastAttempt = d.lastAttempt /\ e.late = late
         /\ e.inFlight = (IF d.inFlight = a THEN 0 ELSE d.inFlight)
<1> DEFINE c == [d EXCEPT !.late = late]
           l == [k \in DOMAIN d.lifecycle |->
                   IF d.lifecycle[k].pending /\ d.lifecycle[k].attempt = a
                   THEN [d.lifecycle[k] EXCEPT !.pending = FALSE, !.started = started]
                   ELSE d.lifecycle[k]]
           e == [c EXCEPT !.inFlight = IF d.inFlight = a THEN 0 ELSE d.inFlight,
                          !.lifecycle = l]
<1>1. d \in Desk /\ d.lifecycle \in Seq(Teardowns)
  BY DEF Orderly, Desk
<1>2. \A k \in DOMAIN d.lifecycle : d.lifecycle[k] \in Teardowns
  BY <1>1
<1>3. \A k \in DOMAIN d.lifecycle :
        [d.lifecycle[k] EXCEPT !.pending = FALSE, !.started = started] \in Teardowns
  BY <1>2 DEF Teardowns
<1>4. /\ l \in Seq(Teardowns) /\ DOMAIN l = DOMAIN d.lifecycle
      /\ \A k \in DOMAIN l : /\ l[k].fresh = d.lifecycle[k].fresh
                             /\ l[k].attempt = d.lifecycle[k].attempt
                             /\ l[k].owner = d.lifecycle[k].owner
                             /\ l[k].at = d.lifecycle[k].at
  <2>1. DOMAIN l = DOMAIN d.lifecycle /\ DOMAIN l = 1 .. Len(d.lifecycle)
        /\ Len(d.lifecycle) \in Nat
    BY <1>1
  <2>2. \A k \in DOMAIN l : l[k] \in Teardowns
    BY <1>2, <1>3
  <2>3. l \in [1 .. Len(d.lifecycle) -> Teardowns]
    BY <2>1, <2>2
  <2>4. l \in Seq(Teardowns)
    <3> HIDE DEF l
    <3> QED BY <2>1, <2>3
  <2>5. \A k \in DOMAIN l : /\ l[k].fresh = d.lifecycle[k].fresh
                             /\ l[k].attempt = d.lifecycle[k].attempt
                             /\ l[k].owner = d.lifecycle[k].owner
                             /\ l[k].at = d.lifecycle[k].at
    BY <1>2 DEF Teardowns
  <2> QED BY <2>1, <2>4, <2>5
<1>5. Settle(c, a, started) = e
  BY <1>1 DEF Settle, Desk
<1> HIDE DEF l
<1>6. /\ e \in Desk /\ e.lifecycle = l
      /\ e.config = d.config /\ e.step = d.step /\ e.ready = d.ready /\ e.blocked = d.blocked
      /\ e.subscribed = d.subscribed /\ e.behind = d.behind /\ e.coalescing = d.coalescing
      /\ e.lastAttempt = d.lastAttempt
      /\ e.inFlight = (IF d.inFlight = a THEN 0 ELSE d.inFlight)
      /\ e.active = d.active /\ e.handled = d.handled /\ e.late = late
      /\ e.link = d.link /\ e.currentParty = d.currentParty /\ e.wire = d.wire
      /\ e.timer = d.timer
  BY <1>1, <1>4 DEF Desk
<1> HIDE DEF e
<1>7. AttemptsFit(e, w)
  <2>1. IsFiniteSet(late)
    BY FS_Subset DEF Orderly, AttemptsFit
  <2>2. e.inFlight <= e.lastAttempt
    BY <1>1, <1>6 DEF Orderly, AttemptsFit, Desk
  <2>3. \A k \in DOMAIN e.lifecycle :
          e.lifecycle[k].attempt <= e.lastAttempt /\ e.lifecycle[k].owner <= e.lastAttempt
    BY <1>4, <1>6 DEF Orderly, AttemptsFit
  <2> QED BY <1>6, <2>1, <2>2, <2>3 DEF Orderly, AttemptsFit
<1>8. StartsFit(e, w)
  BY <1>6 DEF Orderly, StartsFit
<1>9. WaitersFit(e, w, on)
  BY <1>6 DEF Orderly, WaitersFit, Running
<1>10. TeardownsFit(e, w)
  <2>1. \A k \in DOMAIN w : w[k].waiter = "teardown" =>
          /\ e.lifecycle # <<>>
          /\ e.lifecycle[1].at = d.lifecycle[1].at
    <3>1. d.lifecycle # <<>> => 1 \in DOMAIN l
      BY <1>1, <1>4
    <3> QED BY <1>1, <1>4, <1>6, <3>1 DEF Orderly, TeardownsFit
  <2> QED BY <1>4, <1>6, <2>1 DEF Orderly, TeardownsFit, Running
<1>11. RestFits(e) /\ LinkFits(e) /\ PartyFits(e)
  BY <1>6 DEF Orderly, RestFits, LinkFits, PartyFits, Running, Connected, Settling
<1>12. Orderly(e, w, on)
  BY <1>6, <1>7, <1>8, <1>9, <1>10, <1>11 DEF Orderly
<1> QED BY <1>5, <1>6, <1>12 DEF Keeps

(* v is w and what was invoked since, no join.                             *)
Extends(w, v) ==
  /\ \A k \in DOMAIN w : k \in DOMAIN v /\ v[k] = w[k]
  /\ \A k \in DOMAIN v : k \in DOMAIN w \/ ~IsJoin(v[k])

(* A desk that keeps this is attended to and waits as before.              *)
LEMMA KeptFits ==
  ASSUME NEW d, NEW e, Keeps(d, e), NEW w, NEW v, Extends(w, v)
  PROVE  /\ Attended(d) => Attended(e)
         /\ \A at : JoinFits(d, w, at) => JoinFits(e, v, at)
         /\ e.inFlight = d.inFlight /\ Awaits(d, w) => Awaits(e, v)
BY DEF Keeps, Extends, Attended, JoinFits, Awaits, Running, Settling, Connected

Starts(starts) ==
  /\ IsFiniteSet(starts)
  /\ \A l \in starts : l.party \in Party /\ l.attempt \in Nat /\ l.fresh \in BOOLEAN

IsLateEnd(i) == i \in Invocations /\ i.op = "End" /\ i.waiter = "late" /\ i.attempt = 0

(* Ending late starts invokes their ends, or sets the timer, or does       *)
(* nothing.                                                                *)
LEMMA EndLateIs ==
  ASSUME NEW d \in Desk, NEW starts, Starts(starts)
  PROVE  \/ ~Connected(d) /\ EndLate(d, starts) \in {d, ScheduleReconnect(d)}
         \/ Connected(d) /\ \E q \in Wire :
              /\ \A k \in DOMAIN q : IsLateEnd(q[k])
              /\ \A k \in DOMAIN q : \E l \in starts :
                   q[k].party = l.party /\ d.active[l.party] <= l.attempt
              /\ EndLate(d, starts) = [d EXCEPT !.wire = d.wire \o q]
<1> DEFINE tooLate == {l \in starts : d.active[l.party] <= l.attempt}
           order == SetToSeq(tooLate)
           q == [k \in DOMAIN order |->
                   [EndOf(order[k].party, 0, "late") EXCEPT !.fresh = order[k].fresh]]
<1>1. IsFiniteSet(tooLate)
  BY FS_Subset DEF Starts
<1>2. order \in [1 .. Cardinality(tooLate) -> tooLate] /\ Cardinality(tooLate) \in Nat
  <2>1. \E f : f \in Bijection(1 .. Cardinality(tooLate), tooLate)
    BY <1>1, FS_CardinalityType DEF ExistsBijection
  <2>2. \E f \in [1 .. Cardinality(tooLate) -> tooLate] : IsInjective(f)
    BY <2>1 DEF Bijection, Injection, IsInjective
  <2> QED BY <1>1, <2>2, FS_CardinalityType DEF SetToSeq
<1>3. \A k \in DOMAIN order :
        order[k] \in starts /\ d.active[order[k].party] <= order[k].attempt
  BY <1>2
<1> HIDE DEF order
<1>4. \A k \in DOMAIN order :
        IsLateEnd([EndOf(order[k].party, 0, "late") EXCEPT !.fresh = order[k].fresh])
  BY <1>3 DEF Starts, IsLateEnd, EndOf, Invocation, Invocations
<1>5. q \in Wire /\ \A k \in DOMAIN q : IsLateEnd(q[k])
  <2>1. DOMAIN q = 1 .. Cardinality(tooLate) /\ \A k \in DOMAIN q : IsLateEnd(q[k])
    BY <1>2, <1>4
  <2> HIDE DEF q
  <2>2. q \in [1 .. Cardinality(tooLate) -> Invocations]
    <3>1. q = [k \in DOMAIN q |-> q[k]]
      BY DEF q
    <3> QED BY <2>1, <3>1 DEF IsLateEnd
  <2> HIDE DEF tooLate
  <2> QED BY <1>2, <2>1, <2>2 DEF Wire
<1>6. Connected(d) => EndLate(d, starts) = [d EXCEPT !.wire = d.wire \o q]
  BY DEF EndLate, Desk, order
<1>7. ~Connected(d) => EndLate(d, starts) \in {d, ScheduleReconnect(d)}
  BY DEF EndLate
<1>8. \A k \in DOMAIN q : \E l \in starts :
        q[k].party = l.party /\ d.active[l.party] <= l.attempt
  <2>1. \A k \in DOMAIN q : k \in DOMAIN order /\ q[k].party = order[k].party
    BY DEF EndOf, Invocation
  <2> HIDE DEF q
  <2> QED BY <1>3, <2>1
<1> HIDE DEF q
<1> QED BY <1>5, <1>6, <1>7, <1>8

(* v is the wire afterwards, of a desk whose wire is w.                    *)
LEMMA EndLateFits ==
  ASSUME NEW d, NEW w, NEW on, Orderly(d, w, on), NEW starts, Starts(starts),
         Connected(d) => d.wire = w
  PROVE  LET e == EndLate(d, starts)
             v == IF Connected(d) THEN e.wire ELSE w
         IN /\ Orderly(e, v, on) /\ Keeps(d, e) /\ Extends(w, v)
            /\ e.inFlight = d.inFlight /\ e.lastAttempt = d.lastAttempt
            /\ ~Connected(d) => e.wire = d.wire
<1> DEFINE e == EndLate(d, starts)
<1>1. d \in Desk /\ w \in Wire
  BY DEF Orderly
<1>2. CASE ~Connected(d)
  <2>1. e = d \/ e = ScheduleReconnect(d)
    BY <1>1, <1>2, EndLateIs
  <2>2. Orderly(e, w, on) /\ Keeps(d, e)
    BY <2>1, ScheduleReconnectFits DEF Keeps
  <2>3. e.inFlight = d.inFlight /\ e.wire = d.wire /\ e.lastAttempt = d.lastAttempt
    BY <1>1, <2>1, ScheduleReconnectIs
  <2> QED BY <1>2, <2>2, <2>3 DEF Extends
<1>3. CASE Connected(d)
  <2>1. PICK q \in Wire : /\ \A k \in DOMAIN q : IsLateEnd(q[k])
                          /\ e = [d EXCEPT !.wire = d.wire \o q]
    BY <1>1, <1>3, EndLateIs
  <2>2. Orderly(d, w \o q, on)
    <3>1. \A k \in DOMAIN q : Plain(d, q[k]) /\ ~IsJoin(q[k])
      BY <1>1, <2>1 DEF IsLateEnd, Plain, IsStart, IsJoin, Desk
    <3> QED BY <3>1, PlainFits
  <2>3. w \o q \in Wire
    BY <1>1, JointIs
  <2>4. Orderly(e, w \o q, on)
    <3> DEFINE v == w \o q
    <3>1. e = [d EXCEPT !.wire = v]
      BY <1>3, <2>1
    <3> HIDE DEF e, v
    <3>2. Orderly(d, v, on) /\ v \in Wire
      BY <2>2, <2>3 DEF v
    <3>3. Orderly([d EXCEPT !.wire = v], v, on)
      BY <1>3, <3>2, WireIsFree
    <3> QED BY <3>1, <3>3 DEF v
  <2>5. e.wire = w \o q /\ Keeps(d, e) /\ e.inFlight = d.inFlight /\ e.lastAttempt = d.lastAttempt
    BY <1>1, <1>3, <2>1 DEF Desk, Keeps
  <2>6. Extends(w, w \o q)
    <3>1. \A k \in DOMAIN q : ~IsJoin(q[k])
      BY <2>1 DEF IsLateEnd, IsJoin
    <3> QED BY <1>1, <3>1, JointIs DEF Extends
  <2> QED BY <1>3, <2>4, <2>5, <2>6
<1> QED BY <1>2, <1>3

-----------------------------------------------------------------------------
(* A start fails; the connection goes.                                     *)

(* An attempt goes on or has failed.                                       *)
GoesOn(d, e) ==
  \/ e.step = d.step /\ (e.ready => d.ready)
  \/ e.step = "idle" /\ ~e.ready

(* A failed start wakes those who wait for it, in whatever step they are.  *)
LEMMA StartFailsFits ==
  ASSUME NEW d \in Desk, NEW w, NEW on, NEW i \in Invocations,
         IsFiniteSet(d.late),
         Orderly(Settle([d EXCEPT !.late = @ \ {l \in d.late : l.newer = i.attempt}],
                        i.attempt, FALSE), w, on),
         Connected(d) => d.wire = w,
         (d.step = "starting" /\ d.inFlight = i.attempt) \/ Awaits(d, w)
  PROVE  LET e == StartFails(d, i)
             v == IF Connected(d) THEN e.wire ELSE w
         IN /\ Orderly(e, v, on) /\ Awaits(e, v) /\ Extends(w, v) /\ GoesOn(d, e)
            /\ Attended(d) => Attended(e)
            /\ \A at : JoinFits(d, w, at) => JoinFits(e, v, at)
            /\ e.config = d.config /\ e.link = d.link /\ e.currentParty = d.currentParty
            /\ ~Connected(d) => e.wire = d.wire
<1> DEFINE waiting == {l \in d.late : l.newer = i.attempt}
           b == [d EXCEPT !.late = d.late \ waiting]
           c == Settle(b, i.attempt, FALSE)
           m == EndLate(c, waiting)
           v == IF Connected(d) THEN m.wire ELSE w
           e == StartFails(d, i)
<1>1. Orderly(c, w, on)
  OBVIOUS
<1>2. /\ Keeps(d, c) /\ c.wire = d.wire
      /\ c.inFlight = (IF d.inFlight = i.attempt THEN 0 ELSE d.inFlight)
  BY DEF Settle, Desk, Keeps
<1>3. Starts(waiting)
  <2>1. IsFiniteSet(waiting)
    BY FS_Subset
  <2>2. d.late \subseteq Late
    BY DEF Desk
  <2> QED BY <2>1, <2>2 DEF Starts, Late
<1>4. e = CASE d.step = "starting" /\ d.inFlight = i.attempt -> ConnectFails(m)
            [] ~(d.step = "starting" /\ d.inFlight = i.attempt) /\ i.waiter = "sync" -> PublishFails(m)
            [] OTHER -> m
  BY DEF StartFails
<1> HIDE DEF c, waiting, e
<1>5. Connected(c) <=> Connected(d)
  BY <1>2 DEF Keeps, Connected
<1>6. /\ Orderly(m, v, on) /\ Keeps(c, m) /\ Extends(w, v)
      /\ m.inFlight = c.inFlight
      /\ ~Connected(d) => m.wire = d.wire
  <2>1. Connected(c) => c.wire = w
    BY <1>2, <1>5
  <2> QED BY <1>1, <1>2, <1>3, <1>5, <2>1, EndLateFits
<1> HIDE DEF m, v
<1>7. Keeps(d, m)
  BY <1>2, <1>6 DEF Keeps
<1>8. /\ Attended(d) => Attended(m)
      /\ \A at : JoinFits(d, w, at) => JoinFits(m, v, at)
  BY <1>6, <1>7, KeptFits
<1>a. CASE d.step = "starting" /\ d.inFlight = i.attempt
  <2>1. e = ConnectFails(m)
    BY <1>4, <1>a
  <2>2. \A k \in DOMAIN v : v[k].waiter # "connect"
    BY <1>a, <1>6, <1>7 DEF Orderly, WaitersFit, Keeps
  <2>3. /\ Orderly(e, v, on) /\ Attended(e) /\ e.step = "idle" /\ ~e.ready
        /\ e.config = m.config /\ e.link = m.link /\ e.wire = m.wire
        /\ e.currentParty = m.currentParty
    BY <1>6, <2>1, <2>2, ConnectFailsFits
  <2>4. Awaits(e, v) /\ \A at : JoinFits(e, v, at)
    BY <2>3 DEF Awaits, JoinFits, Settling
  <2> QED BY <1>6, <1>7, <2>3, <2>4 DEF Keeps, v, e, GoesOn
<1>b. ASSUME ~(d.step = "starting" /\ d.inFlight = i.attempt)
      PROVE  Awaits(m, v)
  <2>1. Awaits(d, w)
    BY <1>b
  <2>2. d.step = "starting" => m.inFlight = d.inFlight
    BY <1>b, <1>2, <1>6
  <2> QED BY <2>1, <2>2, <1>6, <1>7 DEF Keeps, Awaits, Extends
<1>c. CASE ~(d.step = "starting" /\ d.inFlight = i.attempt) /\ i.waiter = "sync"
  <2>1. e = PublishFails(m)
    BY <1>4, <1>c
  <2>2. /\ Orderly(e, v, on) /\ Attended(e) /\ e.step = m.step /\ ~e.ready
        /\ e.inFlight = m.inFlight
        /\ e.config = m.config /\ e.link = m.link /\ e.wire = m.wire
        /\ e.currentParty = m.currentParty
    BY <1>6, <2>1, PublishFailsFits
  <2>3. Awaits(e, v)
    BY <1>b, <1>c, <2>2 DEF Awaits
  <2>4. \A at : JoinFits(m, v, at) => JoinFits(e, v, at)
    BY <2>2 DEF JoinFits, Settling, Running, Connected
  <2> QED BY <1>6, <1>7, <1>8, <2>2, <2>3, <2>4 DEF Keeps, v, e, GoesOn
<1>d. CASE ~(d.step = "starting" /\ d.inFlight = i.attempt) /\ i.waiter # "sync"
  <2>1. e = m
    BY <1>4, <1>d
  <2> QED BY <1>6, <1>7, <1>8, <1>b, <1>d, <2>1 DEF Keeps, v, e, GoesOn
<1> QED BY <1>a, <1>c, <1>d

(* An invocation is rejected, the first of those that are left.            *)
LEMMA RejectFits ==
  ASSUME NEW d, NEW w, NEW on, Orderly(d, w, on), Awaits(d, w), w # <<>>,
         ~Connected(d), d.wire = <<>>
  PROVE  LET e == Reject(d, Head(w)) IN
         /\ Orderly(e, Tail(w), on) /\ Awaits(e, Tail(w)) /\ GoesOn(d, e)
         /\ Attended(d) => Attended(e)
         /\ e.wire = <<>> /\ e.config = d.config /\ e.link = d.link
<1> DEFINE i == Head(w)
           rest == Tail(w)
           e == Reject(d, i)
<1>1. d \in Desk /\ w \in Wire /\ i \in Invocations
  BY TailIs DEF Orderly
<1>2. Orderly(d, rest, on)
  BY HeadLeaves
<1>3. \A k \in DOMAIN w : w[k] # i => \E j \in DOMAIN rest : rest[j] = w[k]
  BY <1>1, TailIs
<1> HIDE DEF rest, i, e
<1>4. i.waiter # "connect" /\ ~(IsStart(i) /\ i.attempt = d.inFlight) => Awaits(d, rest)
  <2>1. ASSUME i.waiter # "connect", d.step = "joining"
        PROVE  \E k \in DOMAIN rest : IsJoin(rest[k]) /\ rest[k].waiter = "connect"
    <3>1. PICK k \in DOMAIN w : IsJoin(w[k]) /\ w[k].waiter = "connect"
      BY <2>1 DEF Awaits
    <3> QED BY <2>1, <3>1, <1>3
  <2>2. ASSUME i.waiter # "connect", d.step = "syncing"
        PROVE  \E k \in DOMAIN rest : Publishes(rest[k]) /\ rest[k].waiter = "connect"
    <3>1. PICK k \in DOMAIN w : Publishes(w[k]) /\ w[k].waiter = "connect"
      BY <2>2 DEF Awaits
    <3> QED BY <2>2, <3>1, <1>3
  <2>3. ASSUME ~(IsStart(i) /\ i.attempt = d.inFlight), d.step = "starting"
        PROVE  \E k \in DOMAIN rest :
                 IsStart(rest[k]) /\ rest[k].attempt = d.inFlight /\ rest[k].party = d.config.party
    <3>1. PICK k \in DOMAIN w :
            IsStart(w[k]) /\ w[k].attempt = d.inFlight /\ w[k].party = d.config.party
      BY <2>3 DEF Awaits
    <3> QED BY <2>3, <3>1, <1>3
  <2> QED BY <2>1, <2>2, <2>3 DEF Awaits
<1>5. i.waiter = "connect" => \A k \in DOMAIN rest : rest[k].waiter # "connect"
  BY HeadIsAlone DEF i, rest
<1>6. i.waiter = "teardown" => /\ d.lifecycle # <<>>
                               /\ \A k \in DOMAIN rest : rest[k].waiter # "teardown"
  BY <1>1, HeadIsAlone, TailIs DEF i, rest, Orderly, TeardownsFit
<1>7. IsStart(i) /\ i.attempt = d.inFlight => ~i.timedOut
  BY <1>1, TailIs DEF i, Orderly, StartsFit
<1>a. CASE i.op = "Start" /\ ~i.timedOut
  <2>1. e = StartFails(d, i)
    BY <1>a DEF e, Reject
  <2> DEFINE late == d.late \ {l \in d.late : l.newer = i.attempt}
  <2>2. Orderly(Settle([d EXCEPT !.late = late], i.attempt, FALSE), rest, on)
    BY <1>2, SettleFits
  <2>3. (d.step = "starting" /\ d.inFlight = i.attempt) \/ Awaits(d, rest)
    <3>1. i.waiter # "connect"
      BY <1>1, <1>a, TailIs DEF i, Orderly, StartsFit, IsStart
    <3>2. d.inFlight = i.attempt /\ d.step # "starting" => Awaits(d, rest)
      <4>1. ASSUME d.step \in {"joining", "syncing"}
            PROVE  \A k \in DOMAIN w : w[k].waiter = "connect" => \E j \in DOMAIN rest : rest[j] = w[k]
        BY <1>3, <3>1
      <4> QED BY <4>1 DEF Awaits
    <3> QED BY <1>4, <3>1, <3>2 DEF IsStart
  <2>4. IsFiniteSet(d.late)
    BY DEF Orderly, AttemptsFit
  <2>5. Orderly(Settle([d EXCEPT !.late = @ \ {l \in d.late : l.newer = i.attempt}],
                        i.attempt, FALSE), rest, on)
    BY <2>2
  <2> QED BY <1>1, <2>1, <2>3, <2>4, <2>5, StartFailsFits DEF e, i, rest
<1>b. CASE i.op = "End" /\ i.waiter # "newProject"
  <2>1. e = EndReturned(d, i)
    BY <1>b DEF e, Reject
  <2>2. i.waiter # "connect"
    BY <1>1, <1>b, TailIs DEF i, Orderly, WaitersFit, IsJoin, Publishes
  <2>3. Awaits(d, rest)
    BY <1>4, <1>b, <2>2 DEF IsStart
  <2>4. /\ Orderly(e, rest, on) /\ Keeps(d, e)
        /\ e.wire = d.wire /\ e.inFlight = d.inFlight
    BY <1>1, <1>2, <1>6, <2>1, EndReturnedFits
  <2>5. Extends(rest, rest)
    BY DEF Extends
  <2>6. Awaits(e, rest) /\ (Attended(d) => Attended(e))
    BY <2>3, <2>4, <2>5, KeptFits
  <2> QED BY <2>4, <2>6 DEF Keeps, e, i, rest, GoesOn
<1>c. CASE i.op = "Reset" /\ i.waiter = "teardown"
  <2>1. e = [d EXCEPT !.lifecycle = Tail(@)]
    BY <1>c DEF e, Reject
  <2>3. Awaits(d, rest)
    BY <1>4, <1>c DEF IsStart
  <2>4. /\ Orderly(e, rest, on) /\ Keeps(d, e)
        /\ e.wire = d.wire /\ e.inFlight = d.inFlight
    BY <1>2, <1>6, <1>c, <2>1, PopFits
  <2>5. Extends(rest, rest)
    BY DEF Extends
  <2>6. Awaits(e, rest) /\ (Attended(d) => Attended(e))
    BY <2>3, <2>4, <2>5, KeptFits
  <2> QED BY <2>4, <2>6 DEF Keeps, e, i, rest, GoesOn
<1>d. CASE i.op \in {"Join", "Notify", "Publish"} /\ i.waiter = "connect"
  <2>1. e = ConnectFails(d)
    BY <1>d DEF e, Reject
  <2>2. /\ Orderly(e, rest, on) /\ Attended(e) /\ e.step = "idle" /\ ~e.ready
        /\ e.config = d.config /\ e.link = d.link /\ e.wire = d.wire
    BY <1>2, <1>5, <1>d, <2>1, ConnectFailsFits
  <2>3. Awaits(e, rest)
    BY <2>2 DEF Awaits
  <2> QED BY <2>2, <2>3 DEF e, i, rest, GoesOn
<1>e. CASE i.op \in {"Notify", "Publish"} /\ i.waiter = "publish"
  <2>1. e = PublishFails(d)
    BY <1>e DEF e, Reject
  <2>2. /\ Orderly(e, rest, on) /\ Attended(e) /\ e.step = d.step /\ e.inFlight = d.inFlight
        /\ ~e.ready
        /\ e.config = d.config /\ e.link = d.link /\ e.wire = d.wire
    BY <1>2, <2>1, PublishFailsFits
  <2>3. Awaits(d, rest)
    BY <1>4, <1>e DEF IsStart
  <2>4. Awaits(e, rest)
    BY <2>2, <2>3 DEF Awaits
  <2> QED BY <2>2, <2>4 DEF e, i, rest, GoesOn
<1>f. ASSUME ~(i.op = "Start" /\ ~i.timedOut), ~(i.op = "End" /\ i.waiter # "newProject"),
             ~(i.op = "Reset" /\ i.waiter = "teardown"),
             ~(i.op \in {"Join", "Notify", "Publish"} /\ i.waiter = "connect"),
             ~(i.op \in {"Notify", "Publish"} /\ i.waiter = "publish")
      PROVE  /\ Orderly(e, rest, on) /\ Awaits(e, rest) /\ GoesOn(d, e)
             /\ Attended(d) => Attended(e)
             /\ e.wire = <<>> /\ e.config = d.config /\ e.link = d.link
  <2>1. e = d
    BY <1>f DEF e, Reject
  <2>2. i.waiter # "connect"
    BY <1>1, <1>f, TailIs DEF i, Orderly, WaitersFit, IsJoin, Publishes
  <2>3. Awaits(d, rest)
    BY <1>4, <1>7, <1>f, <2>2 DEF IsStart
  <2> QED BY <1>2, <2>1, <2>3 DEF GoesOn
<1> QED BY <1>a, <1>b, <1>c, <1>d, <1>e, <1>f DEF e, i, rest

(* The invocations that are left after the first k.                        *)
LEMMA RestIs ==
  ASSUME NEW w \in Wire, NEW k \in Nat
  PROVE  /\ SubSeq(w, 1, Len(w)) = w
         /\ SubSeq(w, Len(w) + 1, Len(w)) = <<>>
         /\ k < Len(w) => /\ SubSeq(w, k + 1, Len(w)) # <<>>
                          /\ Head(SubSeq(w, k + 1, Len(w))) = w[k + 1]
                          /\ Tail(SubSeq(w, k + 1, Len(w))) = SubSeq(w, (k + 1) + 1, Len(w))
<1>1. Len(w) \in Nat
  BY DEF Wire
<1>2. SubSeq(w, 1, Len(w)) = w
  BY DEF Wire
<1>3. SubSeq(w, Len(w) + 1, Len(w)) = <<>>
  BY <1>1 DEF Wire
<1>4. ASSUME k < Len(w)
      PROVE  /\ SubSeq(w, k + 1, Len(w)) # <<>>
             /\ Head(SubSeq(w, k + 1, Len(w))) = w[k + 1]
             /\ Tail(SubSeq(w, k + 1, Len(w))) = SubSeq(w, (k + 1) + 1, Len(w))
  <2> DEFINE v == SubSeq(w, k + 1, Len(w))
             u == SubSeq(w, (k + 1) + 1, Len(w))
  <2>1. v \in Wire /\ Len(v) = Len(w) - k /\ \A j \in 1 .. Len(v) : v[j] = w[k + j]
    BY <1>1, <1>4 DEF Wire
  <2>2. u \in Wire /\ Len(u) = Len(w) - (k + 1) /\ \A j \in 1 .. Len(u) : u[j] = w[(k + 1) + j]
    BY <1>1, <1>4 DEF Wire
  <2> HIDE DEF u, v
  <2>3. v # <<>> /\ Head(v) = w[k + 1]
    BY <1>1, <1>4, <2>1 DEF Wire
  <2>4. Tail(v) \in Wire /\ Len(Tail(v)) = Len(v) - 1 /\ \A j \in 1 .. Len(Tail(v)) : Tail(v)[j] = v[j + 1]
    BY <2>1, <2>3 DEF Wire
  <2>5. Len(Tail(v)) = Len(u) /\ \A j \in 1 .. Len(u) : Tail(v)[j] = u[j]
    BY <1>1, <1>4, <2>1, <2>2, <2>4
  <2>6. \A s, t \in Seq(Invocations) :
          Len(s) = Len(t) /\ (\A j \in 1 .. Len(t) : s[j] = t[j]) => s = t
    OBVIOUS
  <2>7. Tail(v) = u
    BY <2>2, <2>4, <2>5, <2>6 DEF Wire
  <2> QED BY <2>3, <2>7 DEF u, v
<1> QED BY <1>2, <1>3, <1>4

(* Every invocation under way is rejected, so no attempt waits any more.   *)
LEMMA CloseFits ==
  ASSUME NEW d, NEW on, Orderly(d, d.wire, on), Awaits(d, d.wire), NEW link \in Links,
         link # "connected",
         d.step = "dialing" \/ link \in {"preparing", "starting"} => link = d.link
  PROVE  LET e == CloseConnection(d, link) IN
         /\ Orderly(e, <<>>, on) /\ Awaits(e, <<>>) /\ GoesOn(d, e)
         /\ Attended([d EXCEPT !.link = link]) => Attended(e)
         /\ e.wire = <<>> /\ e.config = d.config /\ e.link = link
<1> DEFINE w == d.wire
           n == Len(w)
           base == [d EXCEPT !.link = link, !.wire = <<>>]
           Left(k, g) == /\ k <= n
                         /\ Orderly(g, SubSeq(w, k + 1, n), on)
                         /\ Awaits(g, SubSeq(w, k + 1, n))
                         /\ GoesOn(d, g)
                         /\ Attended(base) => Attended(g)
                         /\ g.wire = <<>> /\ g.config = d.config /\ g.link = link
           Good == {g \in Nat \X Desk : Left(g[1], g[2])}
<1>1. d \in Desk /\ w \in Wire /\ n \in Nat
  BY DEF Orderly, Wire
<1>2. /\ base \in Desk /\ base.wire = <<>> /\ base.link = link
      /\ base.config = d.config /\ base.step = d.step /\ base.ready = d.ready
      /\ base.blocked = d.blocked
      /\ base.subscribed = d.subscribed /\ base.behind = d.behind /\ base.coalescing = d.coalescing
      /\ base.lastAttempt = d.lastAttempt /\ base.inFlight = d.inFlight /\ base.active = d.active
      /\ base.handled = d.handled /\ base.late = d.late /\ base.lifecycle = d.lifecycle
      /\ base.currentParty = d.currentParty /\ base.timer = d.timer
  <2>1. <<>> \in Seq(Invocations)
    OBVIOUS
  <2> QED BY <1>1, <2>1 DEF Desk
<1> HIDE DEF base
<1>3. Orderly(base, w, on)
  <2>1. AttemptsFit(base, w) /\ StartsFit(base, w)
    BY <1>2 DEF Orderly, AttemptsFit, StartsFit
  <2>2. WaitersFit(base, w, on)
    BY <1>2 DEF Orderly, WaitersFit, Running
  <2>3. TeardownsFit(base, w)
    BY <1>2 DEF Orderly, TeardownsFit, Running
  <2>4. RestFits(base) /\ LinkFits(base) /\ PartyFits(base)
    BY <1>2 DEF Orderly, RestFits, LinkFits, PartyFits, Running, Connected, Settling
  <2> QED BY <1>1, <1>2, <2>1, <2>2, <2>3, <2>4 DEF Orderly
<1>4. Awaits(base, w) /\ GoesOn(d, base) /\ (Attended([d EXCEPT !.link = link]) => Attended(base))
  <2>1. /\ [d EXCEPT !.link = link].config = d.config /\ [d EXCEPT !.link = link].blocked = d.blocked
        /\ [d EXCEPT !.link = link].timer = d.timer /\ [d EXCEPT !.link = link].step = d.step
        /\ [d EXCEPT !.link = link].ready = d.ready /\ [d EXCEPT !.link = link].link = link
    BY <1>1 DEF Desk
  <2> QED BY <1>2, <2>1 DEF Awaits, GoesOn, Attended, Running
<1>5. <<0, base>> \in Good
  <2>1. SubSeq(w, 0 + 1, n) = w
    BY <1>1, RestIs
  <2>2. Left(0, base)
    <3> DEFINE rest == SubSeq(w, 0 + 1, n)
    <3>1. rest = w
      BY <2>1
    <3> HIDE DEF rest
    <3>2. Orderly(base, rest, on) /\ Awaits(base, rest)
      BY <1>3, <1>4, <3>1
    <3>3. 0 <= n
      BY <1>1
    <3>4. Attended(base) => Attended(base)
      OBVIOUS
    <3> QED BY <1>2, <1>4, <3>2, <3>3, <3>4 DEF rest
  <2> HIDE DEF Left
  <2> QED BY <1>2, <2>2
<1>6. ASSUME NEW k \in Nat, NEW g, k < n, <<k, g>> \in Good
      PROVE  <<k + 1, Reject(g, w[k + 1])>> \in Good
  <2> DEFINE rest == SubSeq(w, k + 1, n)
             e == Reject(g, w[k + 1])
  <2>1. /\ rest # <<>> /\ Head(rest) = w[k + 1]
        /\ Tail(rest) = SubSeq(w, (k + 1) + 1, n)
    BY <1>1, <1>6, RestIs
  <2>0. Left(k, g)
    <3> HIDE DEF Left
    <3> QED BY <1>6
  <2>2. /\ Orderly(g, rest, on) /\ Awaits(g, rest) /\ GoesOn(d, g)
        /\ Attended(base) => Attended(g)
        /\ g.wire = <<>> /\ g.config = d.config /\ g.link = link
    BY <2>0
  <2> HIDE DEF rest
  <2>3. /\ Orderly(e, Tail(rest), on) /\ Awaits(e, Tail(rest)) /\ GoesOn(g, e)
        /\ Attended(g) => Attended(e)
        /\ e.wire = <<>> /\ e.config = g.config /\ e.link = g.link
    BY <2>1, <2>2, RejectFits DEF Connected
  <2>4. GoesOn(d, e)
    BY <2>2, <2>3 DEF GoesOn
  <2>5. e \in Desk
    BY <2>3 DEF Orderly
  <2> HIDE DEF e
  <2>6. Left(k + 1, e)
    <3> DEFINE left == SubSeq(w, (k + 1) + 1, n)
    <3>1. Tail(rest) = left
      BY <2>1
    <3> HIDE DEF left
    <3>2. Orderly(e, left, on) /\ Awaits(e, left)
      BY <2>3, <3>1
    <3>3. k + 1 <= n
      BY <1>1, <1>6
    <3>4. Attended(base) => Attended(e)
      BY <2>2, <2>3
    <3> QED BY <2>2, <2>3, <2>4, <3>2, <3>3, <3>4 DEF left
  <2> HIDE DEF Left
  <2> QED BY <2>5, <2>6 DEF e
<1> DEFINE e == CloseConnection(d, link)
<1> HIDE DEF Good, Left
<1>7. \A k \in Nat : \A g : k < n /\ <<k, g>> \in Good => <<k + 1, Reject(g, w[k + 1])>> \in Good
  BY <1>6
<1>8. <<n, e>> \in Good
  BY <1>1, <1>5, <1>7, CloseRejects DEF base
<1> HIDE DEF e
<1>9. SubSeq(w, n + 1, n) = <<>>
  BY <1>1, RestIs
<1>10. Left(n, e)
  BY <1>8 DEF Good
<1> QED BY <1>4, <1>9, <1>10 DEF Left, e

(* disconnect, of a teardown or before the next attempt.                   *)
LEMMA DisconnectFits ==
  ASSUME NEW d, NEW on, Orderly(d, d.wire, on), Awaits(d, d.wire),
         ~Running(d) \/ d.step = "joining"
  PROVE  LET e == Disconnect(d) IN
         /\ Orderly(e, e.wire, on) /\ Awaits(e, e.wire) /\ Attended(e)
         /\ e.wire = <<>> /\ ~Connected(e) /\ e.config = d.config
         /\ e.ready => d.ready
<1> DEFINE link == IF d.link = "preparing" THEN d.link ELSE "none"
           c == CloseConnection(d, link)
           e == Disconnect(d)
<1>1. d \in Desk /\ link \in Links /\ link # "connected"
  BY DEF Orderly, Desk, Links
<1>2. d.step # "dialing"
  BY DEF Orderly, RestFits
<1>3. /\ Orderly(c, <<>>, on) /\ Awaits(c, <<>>) /\ GoesOn(d, c)
      /\ Attended([d EXCEPT !.link = link]) => Attended(c)
      /\ c.wire = <<>> /\ c.config = d.config /\ c.link = link
  BY <1>1, <1>2, CloseFits
<1>4. e = [c EXCEPT !.currentParty = NoParty]
  BY DEF Disconnect
<1>5. Attended([d EXCEPT !.link = link])
  <2>1. [d EXCEPT !.link = link].config = d.config /\ [d EXCEPT !.link = link].step = d.step
    BY <1>1 DEF Desk
  <2> QED BY <2>1 DEF Attended, Running
<1>6. ~Settling(c)
  BY <1>3 DEF Awaits, GoesOn, Settling, Running
<1> HIDE DEF c, link, e
<1>7. c \in Desk
  BY <1>3 DEF Orderly
<1>8. /\ e \in Desk /\ e.wire = <<>> /\ e.link = c.link
      /\ e.config = c.config /\ e.step = c.step /\ e.ready = c.ready /\ e.blocked = c.blocked
      /\ e.subscribed = c.subscribed /\ e.behind = c.behind /\ e.coalescing = c.coalescing
      /\ e.lastAttempt = c.lastAttempt /\ e.inFlight = c.inFlight /\ e.active = c.active
      /\ e.handled = c.handled /\ e.late = c.late /\ e.lifecycle = c.lifecycle
      /\ e.timer = c.timer
  BY <1>3, <1>4, <1>7 DEF Desk
<1>9. Orderly(e, <<>>, on)
  <2>1. AttemptsFit(e, <<>>) /\ StartsFit(e, <<>>)
    BY <1>3, <1>8 DEF Orderly, AttemptsFit, StartsFit
  <2>2. WaitersFit(e, <<>>, on)
    BY <1>3, <1>8 DEF Orderly, WaitersFit, Running
  <2>3. TeardownsFit(e, <<>>)
    BY <1>3, <1>8 DEF Orderly, TeardownsFit, Running
  <2>4. RestFits(e) /\ LinkFits(e) /\ PartyFits(e)
    BY <1>3, <1>6, <1>8 DEF Orderly, RestFits, LinkFits, PartyFits, Running, Connected, Settling
  <2> QED BY <1>3, <1>8, <2>1, <2>2, <2>3, <2>4 DEF Orderly
<1> QED BY <1>1, <1>3, <1>5, <1>8, <1>9 DEF Awaits, Attended, Running, Connected, GoesOn, e

-----------------------------------------------------------------------------
(* What handlers do to a desk and its own wire.                            *)

(* The parts that do not change when nothing waits.                        *)
Akin(d, e) ==
  /\ e \in Desk
  /\ e.config = d.config
  /\ e.lastAttempt = d.lastAttempt /\ e.inFlight = d.inFlight /\ e.active = d.active
  /\ e.handled = d.handled /\ e.late = d.late /\ e.lifecycle = d.lifecycle

(* With no attempt waiting, the other parts need to hold only of the new   *)
(* desk.                                                                   *)
LEMMA FreeFits ==
  ASSUME NEW d, NEW w, NEW on, Orderly(d, w, on), NEW e, Akin(d, e),
         \A k \in DOMAIN w : w[k].waiter # "connect",
         RestFits(e), LinkFits(e), PartyFits(e), NEW on2
  PROVE  Orderly(e, w, on2)
<1>1. AttemptsFit(e, w) /\ StartsFit(e, w)
  BY DEF Akin, Orderly, AttemptsFit, StartsFit
<1>2. WaitersFit(e, w, on2)
  BY DEF WaitersFit
<1>3. TeardownsFit(e, w)
  BY DEF Akin, Orderly, TeardownsFit, Running
<1> QED BY <1>1, <1>2, <1>3 DEF Orderly, Akin

(* What is invoked is the last on the wire.                                *)
LEMMA InvokeIs ==
  ASSUME NEW d \in Desk, NEW i \in Invocations
  PROVE  LET e == Invoke(d, i) IN
         /\ e \in Desk /\ e.wire = Append(d.wire, i)
         /\ Keeps(d, e) /\ Akin(d, e)
         /\ e.subscribed = d.subscribed /\ e.behind = d.behind /\ e.coalescing = d.coalescing
         /\ e.timer = d.timer /\ e.liveSession = d.liveSession
         /\ e = [d EXCEPT !.wire = Append(d.wire, i)]
<1> DEFINE v == Append(d.wire, i)
           e == [d EXCEPT !.wire = v]
<1>1. v \in Wire
  BY AppendIs DEF Desk, Wire
<1> HIDE DEF v
<1>2. e \in Desk /\ e.wire = v
  BY <1>1 DEF Desk, Wire
<1>3. /\ e.config = d.config /\ e.step = d.step /\ e.ready = d.ready /\ e.blocked = d.blocked
      /\ e.subscribed = d.subscribed /\ e.behind = d.behind /\ e.coalescing = d.coalescing
      /\ e.lastAttempt = d.lastAttempt /\ e.inFlight = d.inFlight /\ e.active = d.active
      /\ e.handled = d.handled /\ e.late = d.late /\ e.lifecycle = d.lifecycle
      /\ e.link = d.link /\ e.currentParty = d.currentParty
      /\ e.timer = d.timer /\ e.liveSession = d.liveSession
  BY DEF Desk
<1>4. Invoke(d, i) = e
  BY DEF Invoke, v
<1> HIDE DEF e
<1>5. Keeps(d, e) /\ Akin(d, e)
  BY <1>2, <1>3 DEF Keeps, Akin
<1> QED BY <1>2, <1>3, <1>4, <1>5 DEF v, e

(* An invocation that is no join extends the wire.                         *)
LEMMA InvokeExtends ==
  ASSUME NEW d \in Desk, NEW i \in Invocations, ~IsJoin(i)
  PROVE  Extends(d.wire, Append(d.wire, i))
BY AppendIs DEF Desk, Wire, Extends

(* What nobody waits for may be invoked at any time.                       *)
LEMMA InvokePlainFits ==
  ASSUME NEW d, NEW on, Orderly(d, d.wire, on), Connected(d), NEW i, Plain(d, i), ~IsJoin(i)
  PROVE  LET e == Invoke(d, i) IN
         /\ Orderly(e, e.wire, on) /\ Keeps(d, e) /\ Extends(d.wire, e.wire)
         /\ e.inFlight = d.inFlight /\ Akin(d, e)
<1> DEFINE q == <<i>>
           v == d.wire \o q
           e == Invoke(d, i)
<1>1. d \in Desk /\ i \in Invocations /\ d.wire \in Wire
  BY DEF Orderly, Plain
<1>2. q \in Wire /\ \A k \in DOMAIN q : Plain(d, q[k]) /\ ~IsJoin(q[k])
  BY <1>1 DEF Wire
<1>3. v = Append(d.wire, i) /\ v \in Wire
  BY <1>1 DEF Wire
<1> HIDE DEF q
<1>4. Orderly(d, v, on)
  BY <1>2, PlainFits
<1> HIDE DEF v
<1>5. Orderly([d EXCEPT !.wire = v], v, on)
  BY <1>3, <1>4, WireIsFree
<1>6. /\ e.wire = v /\ e = [d EXCEPT !.wire = v] /\ Keeps(d, e) /\ Akin(d, e)
  BY <1>1, <1>3, InvokeIs
<1> HIDE DEF e
<1>7. Extends(d.wire, e.wire)
  BY <1>1, <1>3, <1>6, InvokeExtends
<1> QED BY <1>5, <1>6, <1>7 DEF Akin, e

(* A desk that invokes something plain is as fit as before.                *)
LEMMA PlainIsFit ==
  ASSUME NEW d, NEW on, NEW at, Fit(d, on, at), Connected(d), NEW i, Plain(d, i), ~IsJoin(i)
  PROVE  LET e == Invoke(d, i) IN
         Fit(e, on, at) /\ Keeps(d, e) /\ Akin(d, e)
<1> DEFINE e == Invoke(d, i)
<1>1. /\ Orderly(e, e.wire, on) /\ Keeps(d, e) /\ Extends(d.wire, e.wire)
      /\ e.inFlight = d.inFlight /\ Akin(d, e)
  BY InvokePlainFits DEF Fit
<1> HIDE DEF e
<1>2. JoinFits(e, e.wire, at) /\ Awaits(e, e.wire) /\ Attended(e)
  BY <1>1, KeptFits DEF Fit
<1> QED BY <1>1, <1>2 DEF Fit, e

(* The connection attempt waits for what it invokes.                       *)
LEMMA InvokeAwaitedFits ==
  ASSUME NEW d, NEW on, Orderly(d, d.wire, on), Connected(d), Running(d),
         \A k \in DOMAIN d.wire : d.wire[k].waiter # "connect",
         NEW i \in Invocations, i.waiter = "connect", i.fresh, i.attempt <= d.lastAttempt,
         i.party = d.config.party,
         \/ IsJoin(i) /\ d.step = "joining"
         \/ /\ Publishes(i) /\ d.step = "syncing"
            /\ d.behind \/ d.config.source = "aimp" \/ i.live = on
  PROVE  LET e == Invoke(d, i) IN
         /\ Orderly(e, e.wire, on) /\ Awaits(e, e.wire) /\ Attended(e)
         /\ Keeps(d, e)
         /\ \A k \in DOMAIN d.wire : k \in DOMAIN e.wire /\ e.wire[k] = d.wire[k]
         /\ \A k \in DOMAIN e.wire : k \in DOMAIN d.wire \/ e.wire[k] = i
         /\ \E k \in DOMAIN e.wire : e.wire[k] = i
<1> DEFINE w == d.wire
           v == Append(w, i)
           e == Invoke(d, i)
<1>1. d \in Desk /\ w \in Wire
  BY DEF Orderly
<1>2. /\ v \in Wire
      /\ \A k \in DOMAIN w : k \in DOMAIN v /\ v[k] = w[k] /\ k < Len(w) + 1
      /\ Len(w) + 1 \in DOMAIN v /\ v[Len(w) + 1] = i
      /\ \A k \in DOMAIN v : k \in DOMAIN w \/ k = Len(w) + 1
      /\ \A k \in DOMAIN v : k <= Len(w) + 1
  BY <1>1, AppendIs
<1>3. /\ e.wire = v /\ e = [d EXCEPT !.wire = v] /\ Keeps(d, e)
  BY <1>1, InvokeIs
<1> HIDE DEF v, e
<1>4. AttemptsFit(d, v)
  BY <1>2 DEF Orderly, AttemptsFit
<1>5. StartsFit(d, v)
  BY <1>2 DEF Orderly, StartsFit, IsStart, IsJoin, Publishes
<1>6. WaitersFit(d, v, on)
  BY <1>2 DEF WaitersFit
<1>7. TeardownsFit(d, v)
  BY <1>2 DEF Orderly, TeardownsFit
<1>8. Orderly(d, v, on)
  BY <1>2, <1>4, <1>5, <1>6, <1>7 DEF Orderly
<1>9. Orderly([d EXCEPT !.wire = v], v, on)
  BY <1>2, <1>8, WireIsFree
<1>10. Awaits(e, v) /\ Attended(e)
  BY <1>2, <1>3 DEF Awaits, Attended, Keeps
<1> QED BY <1>2, <1>3, <1>9, <1>10 DEF e, v

(* A teardown waits for what it invokes.                                   *)
LEMMA InvokeTeardownFits ==
  ASSUME NEW d, NEW on, Orderly(d, d.wire, on), Connected(d),
         \A k \in DOMAIN d.wire : d.wire[k].waiter # "teardown",
         NEW i \in Invocations, i.waiter = "teardown", i.attempt <= d.lastAttempt,
         d.lifecycle # <<>>,
         \/ i.op = "End" /\ d.lifecycle[1].at = "ending"
         \/ i.op = "Reset" /\ d.lifecycle[1].at = "resetting"
  PROVE  LET e == Invoke(d, i) IN
         /\ Orderly(e, e.wire, on) /\ Keeps(d, e) /\ Extends(d.wire, e.wire)
         /\ e.inFlight = d.inFlight
<1> DEFINE w == d.wire
           v == Append(w, i)
           e == Invoke(d, i)
<1>1. d \in Desk /\ w \in Wire
  BY DEF Orderly
<1>2. /\ v \in Wire
      /\ \A k \in DOMAIN w : k \in DOMAIN v /\ v[k] = w[k]
      /\ Len(w) + 1 \in DOMAIN v /\ v[Len(w) + 1] = i
      /\ \A k \in DOMAIN v : k \in DOMAIN w \/ k = Len(w) + 1
  BY <1>1, AppendIs, SMTT(30)
<1>3. /\ e.wire = v /\ e = [d EXCEPT !.wire = v] /\ Keeps(d, e) /\ Akin(d, e)
  BY <1>1, InvokeIs
<1>4. Extends(w, v)
  BY <1>1, InvokeExtends DEF IsJoin
<1> HIDE DEF v, e
<1>5. AttemptsFit(d, v)
  BY <1>2 DEF Orderly, AttemptsFit
<1>6. StartsFit(d, v)
  BY <1>2 DEF Orderly, StartsFit, IsStart
<1>7. WaitersFit(d, v, on)
  BY <1>2 DEF Orderly, WaitersFit, IsJoin
<1>8. TeardownsFit(d, v)
  BY <1>2 DEF Orderly, TeardownsFit
<1>9. Orderly(d, v, on)
  BY <1>2, <1>5, <1>6, <1>7, <1>8 DEF Orderly
<1>10. Orderly([d EXCEPT !.wire = v], v, on)
  BY <1>2, <1>9, WireIsFree
<1> QED BY <1>3, <1>4, <1>10 DEF e, Akin

(* A start for its own party: it waits for the one under way, or makes a   *)
(* new attempt.                                                            *)
LEMMA StartSessionFits ==
  ASSUME NEW d, NEW on, Orderly(d, d.wire, on), Connected(d), Running(d),
         NEW waiter \in {"nobody", "sync"},
         d.step # "starting" => Awaits(d, d.wire)
  PROVE  LET e == StartSession(d, d.config.party, waiter) IN
         /\ Orderly(e, e.wire, on) /\ Keeps(d, e) /\ Awaits(e, e.wire)
         /\ e.liveSession = d.liveSession
         /\ \A at : JoinFits(d, d.wire, at) => JoinFits(e, e.wire, at)
<1> DEFINE w == d.wire
           p == d.config.party
           e == StartSession(d, p, waiter)
<1>1. d \in Desk /\ w \in Wire /\ p \in Party /\ d.lastAttempt \in Nat /\ d.inFlight \in Nat
  BY DEF Orderly, Desk, Running, Config
<1>2. \A k \in DOMAIN w : w[k] \in Invocations /\ k \in Nat
  BY <1>1 DEF Wire
<1>a. CASE StartPending(d, p)
  <2> DEFINE v == [k \in DOMAIN w |->
                     IF w[k].op = "Start" /\ w[k].attempt = d.inFlight /\ waiter = "sync"
                     THEN [w[k] EXCEPT !.waiter = waiter] ELSE w[k]]
  <2>1. e = [d EXCEPT !.wire = v]
    BY <1>a DEF StartSession
  <2>2. \A k \in DOMAIN w : [w[k] EXCEPT !.waiter = waiter] \in Invocations
    BY <1>2 DEF Invocations
  <2>3. /\ DOMAIN v = DOMAIN w
        /\ \A k \in DOMAIN w :
             /\ v[k] \in Invocations
             /\ v[k].op = w[k].op /\ v[k].party = w[k].party /\ v[k].attempt = w[k].attempt
             /\ v[k].timedOut = w[k].timedOut /\ v[k].fresh = w[k].fresh /\ v[k].live = w[k].live
             /\ v[k].waiter = w[k].waiter \/ (IsStart(w[k]) /\ v[k].waiter = "sync")
    BY <1>2, <2>2 DEF Invocations, IsStart
  <2>4. v \in Wire
    <3> HIDE DEF v
    <3>1. DOMAIN v = 1 .. Len(w) /\ Len(w) \in Nat
      BY <1>1, <2>3 DEF Wire
    <3>2. v = [k \in DOMAIN v |-> v[k]]
      BY DEF v
    <3>3. v \in [1 .. Len(w) -> Invocations]
      BY <2>3, <3>1, <3>2
    <3> QED BY <3>1, <3>3 DEF Wire
  <2> HIDE DEF v
  <2>5. AttemptsFit(d, v)
    BY <2>3 DEF Orderly, AttemptsFit
  <2>6. StartsFit(d, v)
    BY <2>3 DEF Orderly, StartsFit, IsStart
  <2>7. \A k \in DOMAIN w : (v[k].waiter = "connect" => w[k].waiter = "connect")
                            /\ (v[k].waiter = "teardown" => w[k].waiter = "teardown")
    BY <2>3
  <2>8. WaitersFit(d, v, on)
    <3>1. \A k \in DOMAIN w : IsJoin(v[k]) <=> IsJoin(w[k])
      BY <2>3 DEF IsJoin
    <3>2. \A k \in DOMAIN w : Publishes(v[k]) <=> Publishes(w[k])
      BY <2>3 DEF Publishes
    <3> QED BY <2>3, <2>7, <3>1, <3>2 DEF Orderly, WaitersFit
  <2>9. TeardownsFit(d, v)
    BY <2>3, <2>7 DEF Orderly, TeardownsFit
  <2>10. Orderly(d, v, on)
    BY <2>4, <2>5, <2>6, <2>8, <2>9 DEF Orderly
  <2>11. Orderly(e, v, on)
    BY <2>1, <2>4, <2>10, WireIsFree
  <2>12. e.wire = v /\ Keeps(d, e) /\ e.inFlight = d.inFlight /\ e.liveSession = d.liveSession
    BY <1>1, <2>1 DEF Desk, Keeps
  <2>13. Awaits(e, v)
    <3>1. e.step = "joining" =>
            \E k \in DOMAIN v : IsJoin(v[k]) /\ v[k].waiter = "connect"
      BY <2>3, <2>12 DEF Awaits, Keeps, IsJoin, IsStart
    <3>2. e.step = "syncing" =>
            \E k \in DOMAIN v : Publishes(v[k]) /\ v[k].waiter = "connect"
      BY <2>3, <2>12 DEF Awaits, Keeps, Publishes, IsStart
    <3>3. \E k \in DOMAIN v :
            IsStart(v[k]) /\ v[k].attempt = e.inFlight /\ v[k].party = e.config.party
      BY <1>a, <2>3, <2>12 DEF StartPending, Keeps, IsStart
    <3> QED BY <3>1, <3>2, <3>3 DEF Awaits
  <2>14. \A at : JoinFits(d, w, at) => JoinFits(e, v, at)
    BY <2>3, <2>12 DEF JoinFits, Keeps, IsJoin, Settling, Running, Connected
  <2> QED BY <2>11, <2>12, <2>13, <2>14
<1>b. CASE ~StartPending(d, p)
  <2> DEFINE a == d.lastAttempt + 1
             c == [d EXCEPT !.lastAttempt = a, !.inFlight = a]
             i == [Invocation("Start", p, waiter) EXCEPT !.attempt = a]
             v == Append(w, i)
  <2>1. e = Invoke(c, i)
    BY <1>b DEF StartSession
  <2>4. a \in Nat /\ a > d.lastAttempt /\ a > 0
    BY <1>1
  <2> HIDE DEF a, p, e
  <2>2. /\ i \in Invocations /\ i.op = "Start" /\ i.attempt = a /\ i.party = p
        /\ i.waiter = waiter /\ ~i.timedOut
    BY <1>1, <2>4 DEF Invocation, Invocations
  <2>3. /\ c \in Desk /\ c.wire = w /\ c.lastAttempt = a /\ c.inFlight = a
        /\ Keeps(d, c) /\ c.active = d.active /\ c.handled = d.handled /\ c.late = d.late
        /\ c.lifecycle = d.lifecycle /\ c.subscribed = d.subscribed /\ c.behind = d.behind
        /\ c.coalescing = d.coalescing /\ c.timer = d.timer /\ c.liveSession = d.liveSession
    BY <1>1, <2>4 DEF Desk, Keeps
  <2>5. e.wire = Append(c.wire, i)
    BY <2>1, <2>2, <2>3, InvokeIs
  <2>6. /\ v \in Wire
        /\ \A k \in DOMAIN w : k \in DOMAIN v /\ v[k] = w[k]
        /\ Len(w) + 1 \in DOMAIN v /\ v[Len(w) + 1] = i
        /\ \A k \in DOMAIN v : k \in DOMAIN w \/ k = Len(w) + 1
    BY <1>1, <2>2, AppendIs
  <2>7. Extends(w, v)
    BY <1>1, <2>2, InvokeExtends DEF IsJoin
  <2>8. e.wire = v
    BY <2>3, <2>5
  <2> HIDE DEF i, v
  <2>e. /\ e \in Desk /\ Keeps(c, e) /\ Akin(c, e)
        /\ e.subscribed = c.subscribed /\ e.behind = c.behind /\ e.coalescing = c.coalescing
        /\ e.timer = c.timer /\ e.liveSession = c.liveSession
    BY <2>1, <2>2, <2>3, InvokeIs
  <2> HIDE DEF c, e
  <2>f. /\ Keeps(d, e) /\ e.lastAttempt = a /\ e.inFlight = a
        /\ e.active = d.active /\ e.handled = d.handled /\ e.late = d.late
        /\ e.lifecycle = d.lifecycle /\ e.subscribed = d.subscribed /\ e.behind = d.behind
        /\ e.coalescing = d.coalescing /\ e.timer = d.timer /\ e.liveSession = d.liveSession
    BY <2>3, <2>e DEF Keeps, Akin
  <2>9. AttemptsFit(e, v)
    <3> HIDE DEF a
    <3>1. \A n \in Nat : n <= d.lastAttempt => n <= a
      BY <1>1, <2>4
    <3>2. \A q \in Party : d.active[q] \in Nat /\ d.active[q] <= a
      BY <1>1, <3>1 DEF Orderly, AttemptsFit, Desk
    <3>3. \A n \in d.handled : n <= a
      BY <1>1, <3>1 DEF Orderly, AttemptsFit, Desk
    <3>4. \A k \in DOMAIN d.lifecycle : d.lifecycle[k].attempt <= a /\ d.lifecycle[k].owner <= a
      <4>1. \A k \in DOMAIN d.lifecycle : d.lifecycle[k].attempt \in Nat /\ d.lifecycle[k].owner \in Nat
        <5>1. d.lifecycle \in Seq(Teardowns)
          BY <1>1 DEF Desk
        <5>2. \A k \in DOMAIN d.lifecycle : d.lifecycle[k] \in Teardowns
          BY <5>1
        <5> QED BY <5>2 DEF Teardowns
      <4> QED BY <4>1, <3>1 DEF Orderly, AttemptsFit
    <3>5. \A k \in DOMAIN v : v[k].attempt <= a
      <4>1. \A k \in DOMAIN w : w[k].attempt \in Nat /\ w[k].attempt <= d.lastAttempt
        BY <1>2 DEF Orderly, AttemptsFit, Invocations
      <4>2. a <= a
        BY <2>4
      <4> QED BY <4>1, <4>2, <3>1, <2>6, <2>2
    <3> QED BY <2>f, <2>4, <3>2, <3>3, <3>4, <3>5 DEF Orderly, AttemptsFit
  <2>10. \A k \in DOMAIN w : w[k].attempt # a
    BY <1>1, <1>2, <2>4 DEF Orderly, AttemptsFit, Invocations
  <2>11. StartsFit(e, v)
    <3> HIDE DEF a
    <3>1. ASSUME NEW k \in DOMAIN v, IsStart(v[k])
          PROVE  /\ v[k].attempt > 0
                 /\ v[k].waiter \in {"nobody", "sync"}
                 /\ v[k].attempt = e.inFlight => ~v[k].timedOut
      <4>1. CASE k \in DOMAIN w
        BY <3>1, <4>1, <2>6, <2>10, <2>f DEF Orderly, StartsFit
      <4>2. CASE k = Len(w) + 1
        BY <4>2, <2>2, <2>4, <2>6
      <4> QED BY <4>1, <4>2, <2>6
    <3>2. ASSUME NEW j \in DOMAIN v, NEW k \in DOMAIN v, IsStart(v[j]), IsStart(v[k]),
                 v[j].attempt = v[k].attempt
          PROVE  j = k
      <4>1. CASE j \in DOMAIN w /\ k \in DOMAIN w
        BY <3>2, <4>1, <2>6 DEF Orderly, StartsFit
      <4> QED BY <3>2, <4>1, <2>2, <2>6, <2>10
    <3> QED BY <3>1, <3>2 DEF StartsFit
  <2>12. WaitersFit(e, v, on)
    <3>1. \A k \in DOMAIN v : v[k].waiter = "connect" => k \in DOMAIN w
      BY <2>2, <2>6
    <3>2. \A k \in DOMAIN v : IsJoin(v[k]) => k \in DOMAIN w
      BY <2>2, <2>6 DEF IsJoin
    <3> QED BY <2>6, <2>f, <3>1, <3>2 DEF Orderly, WaitersFit, Keeps, Running
  <2>13. TeardownsFit(e, v)
    <3>1. \A k \in DOMAIN v : v[k].waiter = "teardown" => k \in DOMAIN w
      BY <2>2, <2>6
    <3> QED BY <2>6, <2>f, <3>1 DEF Orderly, TeardownsFit, Keeps, Running
  <2>14. RestFits(e) /\ LinkFits(e) /\ PartyFits(e)
    BY <2>f DEF Orderly, RestFits, LinkFits, PartyFits, Running, Connected, Settling, Keeps
  <2>15. Orderly(e, v, on)
    BY <2>e, <2>6, <2>9, <2>11, <2>12, <2>13, <2>14 DEF Orderly
  <2>16. Awaits(e, v)
    <3>1. \E k \in DOMAIN v :
            IsStart(v[k]) /\ v[k].attempt = e.inFlight /\ v[k].party = e.config.party
      BY <2>2, <2>6, <2>f DEF IsStart, Keeps, p
    <3> QED BY <3>1, <2>f, <2>6 DEF Awaits, Keeps
  <2>17. \A at : JoinFits(d, w, at) => JoinFits(e, v, at)
    BY <2>7, <2>f, KeptFits
  <2> QED BY <2>8, <2>15, <2>16, <2>17, <2>f DEF e, p
<1> QED BY <1>a, <1>b

-----------------------------------------------------------------------------
(* A new generation.                                                       *)

(* The older generation's invocations are awaited by nobody, its teardowns *)
(* and late starts are stale.                                              *)
LEMMA SupersededIs ==
  ASSUME NEW d, NEW on, Orderly(d, d.wire, on)
  PROVE  LET e == Superseded(d) IN
         /\ e \in Desk /\ e.step = "idle"
         /\ e.config = d.config /\ e.ready = d.ready /\ e.blocked = d.blocked
         /\ e.subscribed = d.subscribed /\ e.behind = d.behind /\ e.coalescing = d.coalescing
         /\ e.lastAttempt = d.lastAttempt /\ e.inFlight = d.inFlight /\ e.active = d.active
         /\ e.handled = d.handled /\ IsFiniteSet(e.late)
         /\ e.link = d.link /\ e.currentParty = d.currentParty /\ e.timer = d.timer
         /\ e.liveSession = d.liveSession
         /\ DOMAIN e.lifecycle = DOMAIN d.lifecycle
         /\ \A k \in DOMAIN e.lifecycle :
              /\ ~e.lifecycle[k].fresh
              /\ e.lifecycle[k].at = d.lifecycle[k].at
              /\ e.lifecycle[k].attempt = d.lifecycle[k].attempt
              /\ e.lifecycle[k].owner = d.lifecycle[k].owner
         /\ DOMAIN e.wire = DOMAIN d.wire
         /\ \A k \in DOMAIN e.wire :
              /\ e.wire[k].op = d.wire[k].op /\ e.wire[k].party = d.wire[k].party
              /\ e.wire[k].attempt = d.wire[k].attempt
              /\ e.wire[k].timedOut = d.wire[k].timedOut
              /\ e.wire[k].waiter \in {"nobody", d.wire[k].waiter} \ {"connect"}
<1> DEFINE w == d.wire
           s == d.lifecycle
           t == {[l EXCEPT !.fresh = FALSE] : l \in d.late}
           l == [k \in DOMAIN s |-> [s[k] EXCEPT !.fresh = FALSE]]
           v == [k \in DOMAIN w |-> Orphaned(w[k])]
           e == [d EXCEPT !.step = "idle", !.dials = FALSE, !.late = t, !.lifecycle = l,
                          !.wire = v]
<1>1. d \in Desk /\ w \in Wire /\ s \in Seq(Teardowns) /\ d.late \subseteq Late
  BY DEF Orderly, Desk
<1>2. Superseded(d) = e
  BY <1>1 DEF Superseded, Desk
<1>3. IsFiniteSet(t) /\ t \subseteq Late
  <2>1. IsFiniteSet(d.late)
    BY DEF Orderly, AttemptsFit
  <2>2. \A x \in d.late : [x EXCEPT !.fresh = FALSE] \in Late
    BY <1>1 DEF Late
  <2>3. IsFiniteSet(t)
    <3> DEFINE f == [x \in d.late |-> [x EXCEPT !.fresh = FALSE]]
    <3>1. f \in Surjection(d.late, t)
      BY DEF Surjection
    <3> HIDE DEF f, t
    <3> QED BY <2>1, <3>1, FS_Surjection
  <2> QED BY <2>2, <2>3
<1>4. /\ l \in Seq(Teardowns) /\ DOMAIN l = DOMAIN s
      /\ \A k \in DOMAIN l : ~l[k].fresh /\ l[k].at = s[k].at /\ l[k].attempt = s[k].attempt
                              /\ l[k].owner = s[k].owner
  <2>1. \A k \in DOMAIN s : s[k] \in Teardowns
    BY <1>1
  <2>2. \A k \in DOMAIN s : [s[k] EXCEPT !.fresh = FALSE] \in Teardowns
    BY <2>1 DEF Teardowns
  <2>3. DOMAIN l = DOMAIN s /\ \A k \in DOMAIN l :
          l[k] \in Teardowns /\ ~l[k].fresh /\ l[k].at = s[k].at /\ l[k].attempt = s[k].attempt
                              /\ l[k].owner = s[k].owner
    BY <2>1, <2>2 DEF Teardowns
  <2>4. DOMAIN s = 1 .. Len(s) /\ Len(s) \in Nat
    BY <1>1
  <2>5. l = [k \in DOMAIN l |-> l[k]]
    OBVIOUS
  <2> HIDE DEF l
  <2>6. l \in [1 .. Len(s) -> Teardowns]
    BY <2>3, <2>4, <2>5
  <2> QED BY <2>3, <2>4, <2>6
<1>5. /\ v \in Wire /\ DOMAIN v = DOMAIN w
      /\ \A k \in DOMAIN v :
           /\ v[k].op = w[k].op /\ v[k].party = w[k].party /\ v[k].attempt = w[k].attempt
           /\ v[k].timedOut = w[k].timedOut
           /\ v[k].waiter \in {"nobody", w[k].waiter} \ {"connect"}
  <2>1. \A k \in DOMAIN w : w[k] \in Invocations
    BY <1>1 DEF Wire
  <2>2. DOMAIN v = DOMAIN w /\ \A k \in DOMAIN v :
          /\ v[k] \in Invocations
          /\ v[k].op = w[k].op /\ v[k].party = w[k].party /\ v[k].attempt = w[k].attempt
          /\ v[k].timedOut = w[k].timedOut
          /\ v[k].waiter \in {"nobody", w[k].waiter} \ {"connect"}
    BY <2>1, ZenonT(60) DEF Invocations, Orphaned
  <2>3. DOMAIN w = 1 .. Len(w) /\ Len(w) \in Nat
    BY <1>1 DEF Wire
  <2>4. v = [k \in DOMAIN v |-> v[k]]
    OBVIOUS
  <2> HIDE DEF v
  <2>5. v \in [1 .. Len(w) -> Invocations]
    BY <2>2, <2>3, <2>4
  <2> QED BY <2>2, <2>3, <2>5 DEF Wire
<1> HIDE DEF t, l, v
<1>6. /\ e \in Desk /\ e.step = "idle"
      /\ e.config = d.config /\ e.ready = d.ready /\ e.blocked = d.blocked
      /\ e.subscribed = d.subscribed /\ e.behind = d.behind /\ e.coalescing = d.coalescing
      /\ e.lastAttempt = d.lastAttempt /\ e.inFlight = d.inFlight /\ e.active = d.active
      /\ e.handled = d.handled /\ e.late = t
      /\ e.link = d.link /\ e.currentParty = d.currentParty /\ e.timer = d.timer
      /\ e.liveSession = d.liveSession /\ e.lifecycle = l /\ e.wire = v
  BY <1>1, <1>3, <1>4, <1>5 DEF Desk, Wire, Steps
<1> HIDE DEF e
<1> QED BY <1>2, <1>3, <1>4, <1>5, <1>6

(* A desk of a new generation, in what the invariant says of it.           *)
Renewed(d, e) ==
  /\ e \in Desk
  /\ e.lastAttempt = d.lastAttempt /\ e.inFlight = d.inFlight /\ e.active = d.active
  /\ e.handled = d.handled /\ e.wire = Superseded(d).wire /\ e.late = Superseded(d).late
  /\ e.link = d.link
  /\ ~e.ready
  /\ ~e.timer
  /\ \/ e.step = "checking" /\ Running(e)
     \/ e.step = "idle" /\ ~Running(e) /\ ~e.coalescing /\ ~e.subscribed

(* Whatever the old generation left under way, the new one is fit.         *)
LEMMA RenewedFits ==
  ASSUME NEW d, NEW on, Orderly(d, d.wire, on), NEW e, Renewed(d, e), NEW on2, NEW at,
         \A k \in DOMAIN d.lifecycle : /\ k \in DOMAIN e.lifecycle
                                       /\ e.lifecycle[k].at = d.lifecycle[k].at,
         \A k \in DOMAIN e.lifecycle : e.lifecycle[k].attempt <= d.lastAttempt /\ e.lifecycle[k].owner <= d.lastAttempt,
         Running(e) => \A k \in DOMAIN e.lifecycle : ~e.lifecycle[k].fresh
  PROVE  Fit(e, on2, at)
<1> DEFINE c == Superseded(d)
           v == e.wire
           w == d.wire
<1>1. /\ IsFiniteSet(c.late) /\ v = c.wire /\ e \in Desk
      /\ DOMAIN v = DOMAIN w
      /\ \A k \in DOMAIN v :
           /\ v[k].op = w[k].op /\ v[k].party = w[k].party /\ v[k].attempt = w[k].attempt
           /\ v[k].timedOut = w[k].timedOut
           /\ v[k].waiter \in {"nobody", w[k].waiter} \ {"connect"}
  <2>1. v = c.wire /\ e \in Desk
    BY DEF Renewed
  <2>2. /\ IsFiniteSet(c.late)
        /\ DOMAIN c.wire = DOMAIN w
        /\ \A k \in DOMAIN c.wire :
             /\ c.wire[k].op = w[k].op /\ c.wire[k].party = w[k].party
             /\ c.wire[k].attempt = w[k].attempt
             /\ c.wire[k].timedOut = w[k].timedOut
             /\ c.wire[k].waiter \in {"nobody", w[k].waiter} \ {"connect"}
    BY SupersededIs
  <2> HIDE DEF c, v, w
  <2> QED BY <2>1, <2>2
<1>2. v \in Wire /\ w \in Wire /\ d \in Desk
  BY <1>1 DEF Desk, Wire, Orderly
<1> HIDE DEF v, c
<1>3. AttemptsFit(e, v)
  BY <1>1 DEF Orderly, AttemptsFit, Renewed, c
<1>4. StartsFit(e, v)
  BY <1>1 DEF Orderly, StartsFit, Renewed, IsStart
<1>5. WaitersFit(e, v, on2)
  BY <1>1 DEF WaitersFit
<1>6. TeardownsFit(e, v)
  <2>1. ASSUME NEW k \in DOMAIN v, v[k].waiter = "teardown"
        PROVE  /\ e.lifecycle # <<>>
               /\ \/ v[k].op = "End" /\ e.lifecycle[1].at = "ending"
                  \/ v[k].op = "Reset" /\ e.lifecycle[1].at = "resetting"
    <3>1. w[k].waiter = "teardown" /\ v[k].op = w[k].op
      BY <1>1, <2>1
    <3>2. /\ d.lifecycle # <<>>
          /\ \/ w[k].op = "End" /\ d.lifecycle[1].at = "ending"
             \/ w[k].op = "Reset" /\ d.lifecycle[1].at = "resetting"
      BY <1>1, <3>1 DEF Orderly, TeardownsFit
    <3>3. 1 \in DOMAIN d.lifecycle
      BY <1>2, <3>2 DEF Desk
    <3>4. 1 \in DOMAIN e.lifecycle /\ e.lifecycle[1].at = d.lifecycle[1].at
      BY <3>3
    <3> QED BY <3>1, <3>2, <3>4
  <2>2. \A j, k \in DOMAIN v : v[j].waiter = "teardown" /\ v[k].waiter = "teardown" => j = k
    BY <1>1 DEF Orderly, TeardownsFit
  <2> QED BY <2>1, <2>2 DEF TeardownsFit
<1>7. LinkFits(e)
  <2>1. ~Connected(e) => v = <<>>
    BY <1>1, <1>2 DEF Orderly, LinkFits, Renewed, Connected, Wire
  <2> QED BY <2>1 DEF LinkFits, Renewed, v
<1>8. RestFits(e) /\ PartyFits(e)
  BY DEF RestFits, PartyFits, Renewed, Settling
<1>9. Orderly(e, v, on2)
  BY <1>1, <1>2, <1>3, <1>4, <1>5, <1>6, <1>7, <1>8 DEF Orderly
<1>10. JoinFits(e, v, at) /\ Awaits(e, v) /\ Attended(e)
  BY DEF JoinFits, Awaits, Attended, Renewed, Settling
<1> QED BY <1>9, <1>10 DEF Fit, v

(* connect begins with the check of the party.                             *)
LEMMA ConnectIs ==
  ASSUME NEW d \in Desk, d.step = "idle"
  PROVE  LET e == Connect(d) IN
         /\ e \in Desk /\ e.step = "checking" /\ ~e.timer /\ ~e.blocked
         /\ e.config = d.config /\ e.ready = d.ready /\ e.wire = d.wire
         /\ e.subscribed = d.subscribed /\ e.behind = d.behind /\ e.coalescing = d.coalescing
         /\ e.lastAttempt = d.lastAttempt /\ e.inFlight = d.inFlight /\ e.active = d.active
         /\ e.handled = d.handled /\ e.late = d.late /\ e.lifecycle = d.lifecycle
         /\ e.link = d.link /\ e.currentParty = d.currentParty
BY DEF Connect, Desk, Steps

(* recover, whether it supersedes the present attempt or leaves it.        *)
LEMMA RecoverFits ==
  ASSUME NEW d, NEW on, NEW at, Fit(d, on, at), NEW supersede \in BOOLEAN
  PROVE  /\ Fit(Recover(d, supersede), on, at)
         /\ Recover(d, supersede).ready => d.ready
         /\ LET e == Recover(d, supersede) IN e = d \/ (~e.ready /\ e.step = "checking")
<1>1. CASE ~Running(d) \/ (d.step # "idle" /\ ~supersede)
  BY <1>1 DEF Recover
<1>2. CASE Running(d) /\ (d.step = "idle" \/ supersede)
  <2> DEFINE s == Superseded(d)
             c == [s EXCEPT !.ready = FALSE, !.timer = FALSE]
             e == Connect(c)
  <2>1. Orderly(d, d.wire, on)
    BY DEF Fit
  <2>2. /\ s \in Desk /\ s.step = "idle" /\ s.config = d.config
        /\ s.lastAttempt = d.lastAttempt /\ s.inFlight = d.inFlight /\ s.active = d.active
        /\ s.handled = d.handled /\ s.link = d.link
        /\ DOMAIN s.lifecycle = DOMAIN d.lifecycle
        /\ \A k \in DOMAIN s.lifecycle :
             /\ ~s.lifecycle[k].fresh
             /\ s.lifecycle[k].at = d.lifecycle[k].at
             /\ s.lifecycle[k].attempt = d.lifecycle[k].attempt
             /\ s.lifecycle[k].owner = d.lifecycle[k].owner
    BY <2>1, SupersededIs
  <2> HIDE DEF s
  <2>3. /\ c \in Desk /\ c.step = "idle" /\ c.config = s.config /\ ~c.ready
        /\ c.lastAttempt = s.lastAttempt /\ c.inFlight = s.inFlight /\ c.active = s.active
        /\ c.handled = s.handled /\ c.link = s.link /\ c.late = s.late /\ c.wire = s.wire
        /\ c.lifecycle = s.lifecycle
    BY <2>2 DEF Desk
  <2> HIDE DEF c
  <2>4. Recover(d, supersede) = e
    BY <1>2 DEF Recover, c, s
  <2>5. /\ e \in Desk /\ e.step = "checking" /\ ~e.timer /\ e.config = c.config /\ ~e.ready
        /\ e.lastAttempt = c.lastAttempt /\ e.inFlight = c.inFlight /\ e.active = c.active
        /\ e.handled = c.handled /\ e.link = c.link /\ e.late = c.late /\ e.wire = c.wire
        /\ e.lifecycle = c.lifecycle
    BY <2>3, ConnectIs
  <2> HIDE DEF e
  <2>6. Renewed(d, e)
    BY <1>2, <2>2, <2>3, <2>5 DEF Renewed, s, Running
  <2>7. \A k \in DOMAIN e.lifecycle : e.lifecycle[k].attempt <= d.lastAttempt /\ e.lifecycle[k].owner <= d.lastAttempt
    BY <2>1, <2>2, <2>3, <2>5 DEF Orderly, AttemptsFit
  <2>8. Fit(e, on, at)
    BY <2>1, <2>2, <2>3, <2>5, <2>6, <2>7, RenewedFits, ZenonT(60)
  <2> QED BY <2>3, <2>4, <2>5, <2>8
<1> QED BY <1>1, <1>2

(* stopInternal is the old generation's end.                               *)
LEMMA StopInternalIs ==
  ASSUME NEW d, NEW on, Orderly(d, d.wire, on)
  PROVE  LET e == StopInternal(d) IN
         /\ e \in Desk /\ e.step = "idle" /\ ~e.ready /\ ~e.timer /\ ~e.coalescing
         /\ ~e.subscribed
         /\ e.lastAttempt = d.lastAttempt /\ e.inFlight = d.inFlight /\ e.active = d.active
         /\ e.handled = d.handled /\ e.link = d.link
         /\ e.late = Superseded(d).late /\ e.wire = Superseded(d).wire
         /\ DOMAIN e.lifecycle = DOMAIN d.lifecycle
         /\ \A k \in DOMAIN e.lifecycle :
              /\ ~e.lifecycle[k].fresh
              /\ e.lifecycle[k].at = d.lifecycle[k].at
              /\ e.lifecycle[k].attempt = d.lifecycle[k].attempt
              /\ e.lifecycle[k].owner = d.lifecycle[k].owner
<1> DEFINE s == Superseded(d)
           e == [s EXCEPT !.ready = FALSE, !.liveSession = FALSE, !.timer = FALSE,
                          !.coalescing = FALSE, !.subscribed = FALSE]
<1>1. /\ s \in Desk /\ s.step = "idle"
      /\ s.lastAttempt = d.lastAttempt /\ s.inFlight = d.inFlight /\ s.active = d.active
      /\ s.handled = d.handled /\ s.link = d.link
      /\ DOMAIN s.lifecycle = DOMAIN d.lifecycle
      /\ \A k \in DOMAIN s.lifecycle :
           /\ ~s.lifecycle[k].fresh
           /\ s.lifecycle[k].at = d.lifecycle[k].at
           /\ s.lifecycle[k].attempt = d.lifecycle[k].attempt
           /\ s.lifecycle[k].owner = d.lifecycle[k].owner
  BY SupersededIs
<1> HIDE DEF s
<1>2. /\ e \in Desk /\ e.step = "idle" /\ ~e.ready /\ ~e.timer /\ ~e.coalescing /\ ~e.subscribed
      /\ e.lastAttempt = s.lastAttempt /\ e.inFlight = s.inFlight /\ e.active = s.active
      /\ e.handled = s.handled /\ e.link = s.link /\ e.late = s.late /\ e.wire = s.wire
      /\ e.lifecycle = s.lifecycle
  BY <1>1 DEF Desk
<1>3. StopInternal(d) = e
  BY DEF StopInternal, s
<1> HIDE DEF e
<1> QED BY <1>1, <1>2, <1>3 DEF s

(* A desk taken down is fit, and does not run.                             *)
LEMMA TakeDownFits ==
  ASSUME NEW d, NEW on, Orderly(d, d.wire, on), Running(d), NEW isLive \in BOOLEAN,
         NEW on2, NEW at
  PROVE  LET e == TakeDown(d, isLive) IN Fit(e, on2, at) /\ ~Running(e)
<1> DEFINE p == d.config.party
           pending == StartPending(d, p)
           t == [party |-> p, hadLive |-> d.liveSession \/ isLive, owner |-> d.active[p],
                 pending |-> pending, attempt |-> IF pending THEN d.inFlight ELSE 0,
                 started |-> FALSE, fresh |-> TRUE, at |-> "queued"]
           s == StopInternal(d)
           l == Append(s.lifecycle, t)
           e == [s EXCEPT !.config = NoConfig, !.lifecycle = l]
<1>1. d \in Desk /\ p \in Party /\ d.active[p] \in Nat /\ d.inFlight \in Nat /\ d.lastAttempt \in Nat
      /\ d.inFlight <= d.lastAttempt /\ d.active[p] <= d.lastAttempt /\ d.liveSession \in BOOLEAN
  BY DEF Orderly, Desk, Running, Config, AttemptsFit
<1>2. pending \in BOOLEAN
  BY DEF StartPending
<1> HIDE DEF pending
<1>3. t \in Teardowns /\ t.attempt <= d.lastAttempt /\ t.owner <= d.lastAttempt
  BY <1>1, <1>2 DEF Teardowns
<1> HIDE DEF t
<1>4. /\ s \in Desk /\ s.step = "idle" /\ ~s.ready /\ ~s.timer /\ ~s.coalescing /\ ~s.subscribed
      /\ s.lastAttempt = d.lastAttempt /\ s.inFlight = d.inFlight /\ s.active = d.active
      /\ s.handled = d.handled /\ s.link = d.link
      /\ s.late = Superseded(d).late /\ s.wire = Superseded(d).wire
      /\ DOMAIN s.lifecycle = DOMAIN d.lifecycle
      /\ \A k \in DOMAIN s.lifecycle :
           /\ ~s.lifecycle[k].fresh
           /\ s.lifecycle[k].at = d.lifecycle[k].at
           /\ s.lifecycle[k].attempt = d.lifecycle[k].attempt
           /\ s.lifecycle[k].owner = d.lifecycle[k].owner
  BY StopInternalIs
<1>5. TakeDown(d, isLive) = e
  BY <1>4 DEF TakeDown, t, pending, Desk
<1> HIDE DEF s
<1>6. s.lifecycle \in Seq(Teardowns)
  BY <1>4 DEF Desk
<1>7. /\ l \in Seq(Teardowns)
      /\ \A k \in DOMAIN s.lifecycle : k \in DOMAIN l /\ l[k] = s.lifecycle[k]
      /\ \A k \in DOMAIN l : k \in DOMAIN s.lifecycle \/ l[k] = t
  BY <1>3, <1>6
<1> HIDE DEF l
<1>8. /\ e \in Desk /\ e.step = "idle" /\ ~e.ready /\ ~e.timer /\ ~e.coalescing /\ ~e.subscribed
      /\ e.lastAttempt = s.lastAttempt /\ e.inFlight = s.inFlight /\ e.active = s.active
      /\ e.handled = s.handled /\ e.link = s.link /\ e.late = s.late /\ e.wire = s.wire
      /\ e.lifecycle = l /\ e.config = NoConfig
  BY <1>4, <1>7 DEF Desk
<1> HIDE DEF e
<1>9. Renewed(d, e) /\ ~Running(e)
  BY <1>4, <1>8 DEF Renewed, Running
<1>10. \A k \in DOMAIN e.lifecycle : e.lifecycle[k].attempt <= d.lastAttempt /\ e.lifecycle[k].owner <= d.lastAttempt
  <2>1. \A k \in DOMAIN s.lifecycle :
          s.lifecycle[k].attempt <= d.lastAttempt /\ s.lifecycle[k].owner <= d.lastAttempt
    BY <1>4 DEF Orderly, AttemptsFit
  <2> QED BY <1>3, <1>7, <1>8, <2>1
<1>11. \A k \in DOMAIN d.lifecycle : /\ k \in DOMAIN e.lifecycle
                                     /\ e.lifecycle[k].at = d.lifecycle[k].at
  BY <1>4, <1>7, <1>8
<1>12. Fit(e, on2, at)
  BY <1>9, <1>10, <1>11, RenewedFits
<1> QED BY <1>5, <1>9, <1>12

-----------------------------------------------------------------------------
(* Publishing and starting.                                                *)

(* liveSession, and late starts that go, matter to nothing below.          *)
LEMMA LiveIsFree ==
  ASSUME NEW d, NEW w, NEW on, Orderly(d, w, on), NEW live \in BOOLEAN,
         NEW late \in SUBSET d.late
  PROVE  LET e == [d EXCEPT !.late = late, !.liveSession = live] IN
         /\ Orderly(e, w, on) /\ Keeps(d, e)
         /\ e.wire = d.wire /\ e.inFlight = d.inFlight /\ e.lastAttempt = d.lastAttempt
         /\ e.subscribed = d.subscribed
<1> DEFINE e == [d EXCEPT !.late = late, !.liveSession = live]
<1>1. d \in Desk
  BY DEF Orderly
<1>2. /\ e \in Desk /\ e.late = late
      /\ e.config = d.config /\ e.step = d.step /\ e.ready = d.ready /\ e.blocked = d.blocked
      /\ e.subscribed = d.subscribed /\ e.behind = d.behind /\ e.coalescing = d.coalescing
      /\ e.lastAttempt = d.lastAttempt /\ e.inFlight = d.inFlight /\ e.active = d.active
      /\ e.handled = d.handled /\ e.lifecycle = d.lifecycle
      /\ e.link = d.link /\ e.currentParty = d.currentParty /\ e.wire = d.wire
      /\ e.timer = d.timer
  BY <1>1 DEF Desk
<1> HIDE DEF e
<1>3. AttemptsFit(e, w)
  <2>1. IsFiniteSet(late)
    BY FS_Subset DEF Orderly, AttemptsFit
  <2> QED BY <1>2, <2>1 DEF Orderly, AttemptsFit
<1>4. StartsFit(e, w)
  BY <1>2 DEF Orderly, StartsFit
<1>5. WaitersFit(e, w, on)
  BY <1>2 DEF Orderly, WaitersFit, Running
<1>6. TeardownsFit(e, w)
  BY <1>2 DEF Orderly, TeardownsFit, Running
<1>7. RestFits(e) /\ LinkFits(e) /\ PartyFits(e)
  BY <1>2 DEF Orderly, RestFits, LinkFits, PartyFits, Running, Connected, Settling
<1>8. Orderly(e, w, on)
  BY <1>2, <1>3, <1>4, <1>5, <1>6, <1>7 DEF Orderly
<1> QED BY <1>2, <1>8 DEF Keeps, e

(* A fit desk may believe what it likes of its session.                    *)
LEMMA LiveIsFit ==
  ASSUME NEW d, NEW on, NEW at, Fit(d, on, at), NEW live \in BOOLEAN
  PROVE  LET e == [d EXCEPT !.liveSession = live] IN
         Fit(e, on, at) /\ Keeps(d, e) /\ e.wire = d.wire
<1> DEFINE late == d.late
           e == [d EXCEPT !.late = late, !.liveSession = live]
<1>1. d \in Desk /\ Orderly(d, d.wire, on)
  BY DEF Fit, Orderly
<1>2. [d EXCEPT !.liveSession = live] = e
  BY <1>1 DEF Desk
<1>3. late \in SUBSET d.late
  OBVIOUS
<1> HIDE DEF late
<1>4. Orderly(e, d.wire, on) /\ Keeps(d, e) /\ e.wire = d.wire /\ e.inFlight = d.inFlight
  BY <1>1, <1>3, LiveIsFree, ZenonT(60)
<1> HIDE DEF e
<1>5. JoinFits(e, e.wire, at) /\ Awaits(e, e.wire) /\ Attended(e)
  <2>1. Extends(d.wire, d.wire)
    BY DEF Extends
  <2> QED BY <1>4, <2>1, KeptFits DEF Fit
<1> QED BY <1>2, <1>4, <1>5 DEF Fit

(* A synchronization that ends makes the desk ready on its party.          *)
LEMMA BecomeReadyFits ==
  ASSUME NEW d, NEW on, Orderly(d, d.wire, on), Connected(d), d.step = "syncing",
         \A k \in DOMAIN d.wire : d.wire[k].waiter # "connect",
         NEW at, JoinFits(d, d.wire, at)
  PROVE  Fit(BecomeReady(d), on, at) /\ BecomeReady(d).config = d.config
<1> DEFINE e == BecomeReady(d)
<1>1. d \in Desk /\ Running(d) /\ RestFits(d)
  BY DEF Orderly, RestFits
<1>2. Alike(d, e) /\ e.step = "idle" /\ e.ready /\ ~e.timer
  BY <1>1 DEF BecomeReady, Alike, Desk, Steps, RestFits
<1> HIDE DEF e
<1>3. Orderly(e, d.wire, on)
  BY <1>1, <1>2, IdleFits DEF Settling
<1>4. JoinFits(e, d.wire, at) /\ Awaits(e, d.wire) /\ Attended(e)
  BY <1>1, <1>2 DEF JoinFits, Awaits, Attended, Alike, Settling, Running, Connected
<1> QED BY <1>2, <1>3, <1>4 DEF Fit, Alike, e

(* A turn of the synchronization.                                          *)
LEMMA SynchronizeFits ==
  ASSUME sourceLive \in [Source -> BOOLEAN],
         NEW d, Orderly(d, d.wire, PlayerOn), Connected(d), Running(d), d.subscribed,
         d.currentParty = d.config.party,
         \A k \in DOMAIN d.wire : d.wire[k].waiter # "connect",
         \A k \in DOMAIN d.wire : IsJoin(d.wire[k]) => d.wire[k].party = d.config.party,
         NEW at, (\A k \in DOMAIN d.wire : ~IsJoin(d.wire[k])) => at = d.config.party
  PROVE  LET e == Synchronize(d) IN
         /\ Fit(e, PlayerOn, at) /\ e.config = d.config
         /\ e.ready => d.ready \/ d.config.source = "aimp"
         /\ e.link = d.link
<1> DEFINE c == [d EXCEPT !.step = "syncing", !.behind = FALSE]
           e == Synchronize(d)
<1>1. d \in Desk
  BY DEF Orderly
<1>2. /\ c \in Desk /\ c.step = "syncing" /\ ~c.behind
      /\ c.config = d.config /\ c.ready = d.ready /\ c.blocked = d.blocked
      /\ c.subscribed = d.subscribed /\ c.coalescing = d.coalescing
      /\ c.lastAttempt = d.lastAttempt /\ c.inFlight = d.inFlight /\ c.active = d.active
      /\ c.handled = d.handled /\ c.late = d.late /\ c.lifecycle = d.lifecycle
      /\ c.link = d.link /\ c.currentParty = d.currentParty /\ c.wire = d.wire
      /\ c.timer = d.timer
  BY <1>1 DEF Desk, Steps
<1>3. e = IF NothingToPublish(d) THEN BecomeReady(c) ELSE Publish(c, "connect")
  BY DEF Synchronize
<1> HIDE DEF c, e
<1>4. Orderly(c, d.wire, PlayerOn)
  <2>1. Akin(d, c)
    BY <1>2 DEF Akin
  <2>2. RestFits(c) /\ LinkFits(c) /\ PartyFits(c)
    BY <1>2 DEF RestFits, LinkFits, PartyFits, Running, Connected, Settling
  <2> QED BY <2>1, <2>2, FreeFits
<1>5. JoinFits(c, c.wire, at)
  BY <1>2 DEF JoinFits
<1>6. CASE NothingToPublish(d)
  <2>1. Fit(BecomeReady(c), PlayerOn, at) /\ BecomeReady(c).config = c.config
    BY <1>2, <1>4, <1>5, BecomeReadyFits DEF Connected
  <2>2. d.config.source = "aimp"
    BY <1>6 DEF NothingToPublish
  <2>3. BecomeReady(c).link = c.link
    BY <1>2 DEF BecomeReady, Desk
  <2> QED BY <1>2, <1>3, <1>6, <2>1, <2>2, <2>3 DEF e
<1>7. CASE ~NothingToPublish(d)
  <2> DEFINE i == [Invocation("Notify", c.config.party, "connect") EXCEPT !.live = Live(c)]
  <2>1. c.config \in Config
    BY <1>2 DEF Desk, Running
  <2>2. Live(c) \in BOOLEAN
    BY DEF Live
  <2>3. /\ i \in Invocations /\ i.waiter = "connect" /\ i.fresh /\ i.attempt = 0
        /\ i.party = c.config.party /\ i.op = "Notify" /\ i.live = Live(c)
    BY <2>1, <2>2 DEF Invocation, Invocations, Config
  <2>4. c.config.source = "aimp" \/ i.live = PlayerOn
    <3>1. sourceLive[c.config.source] \in BOOLEAN /\ c.config.source \in Source
      BY <2>1 DEF Config
    <3>2. Live(c) = sourceLive[c.config.source]
      BY <1>2, <3>1 DEF Live, Running
    <3> QED BY <2>3, <3>1, <3>2 DEF Source, PlayerOn
  <2>5. e = Invoke(c, i)
    BY <1>3, <1>7 DEF Publish
  <2> HIDE DEF i
  <2>6. c.lastAttempt \in Nat /\ i.attempt <= c.lastAttempt
    BY <1>2, <2>3 DEF Desk
  <2>7. Connected(c) /\ Running(c) /\ Orderly(c, c.wire, PlayerOn)
        /\ \A k \in DOMAIN c.wire : c.wire[k].waiter # "connect"
    BY <1>2, <1>4 DEF Connected, Running
  <2>8. Publishes(i) /\ ~IsJoin(i)
    BY <2>3 DEF Publishes, IsJoin
  <2>9. /\ Orderly(e, e.wire, PlayerOn) /\ Awaits(e, e.wire) /\ Attended(e) /\ Keeps(c, e)
    BY <1>2, <2>3, <2>4, <2>5, <2>6, <2>7, <2>8, InvokeAwaitedFits
  <2>10. Extends(c.wire, e.wire)
    BY <1>2, <2>3, <2>5, <2>8, InvokeIs, InvokeExtends
  <2>11. JoinFits(e, e.wire, at)
    BY <1>5, <2>9, <2>10, KeptFits
  <2> QED BY <1>2, <2>9, <2>11 DEF Fit, Keeps, e
<1> QED BY <1>6, <1>7

(* The join has been answered.                                             *)
LEMMA JoinedFits ==
  ASSUME sourceLive \in [Source -> BOOLEAN],
         NEW d, Orderly(d, d.wire, PlayerOn), Connected(d), d.step = "joining",
         d.currentParty = d.config.party,
         \A k \in DOMAIN d.wire : d.wire[k].waiter # "connect" /\ ~IsJoin(d.wire[k])
  PROVE  LET e == Joined(d) IN
         /\ Fit(e, PlayerOn, d.config.party) /\ e.config = d.config
         /\ e.ready => d.ready \/ d.config.source = "aimp"
         /\ e.link = d.link
<1> DEFINE c == [d EXCEPT !.subscribed = TRUE]
           s == [c EXCEPT !.step = "starting"]
           live == c.liveSession /\ Live(d)
           n == [c EXCEPT !.liveSession = live]
           p == d.config.party
           e == Joined(d)
<1>1. d \in Desk /\ Running(d)
  BY DEF Orderly, RestFits
<1>2. e = IF Live(d) /\ ~d.liveSession THEN StartSession(s, p, "nobody") ELSE Synchronize(n)
  BY DEF Joined
<1> DEFINE As(x) ==
             /\ x \in Desk /\ x.subscribed
             /\ x.config = d.config /\ x.ready = d.ready /\ x.blocked = d.blocked
             /\ x.behind = d.behind /\ x.coalescing = d.coalescing
             /\ x.lastAttempt = d.lastAttempt /\ x.inFlight = d.inFlight /\ x.active = d.active
             /\ x.handled = d.handled /\ x.late = d.late /\ x.lifecycle = d.lifecycle
             /\ x.link = d.link /\ x.currentParty = d.currentParty /\ x.wire = d.wire
             /\ x.timer = d.timer
<1>3. As(s) /\ As(n)
  <2>1. Live(d) \in BOOLEAN
    BY DEF Live
  <2>2. As(c)
    BY <1>1 DEF Desk
  <2>3. live \in BOOLEAN
    BY <2>1, <2>2 DEF Desk
  <2> HIDE DEF c, live
  <2>4. As(s)
    BY <2>2, ZenonT(60) DEF Desk, Steps
  <2>5. As(n)
    BY <2>2, <2>3, ZenonT(60) DEF Desk
  <2> QED BY <2>4, <2>5
<1>4. s.step = "starting" /\ n.step = "joining"
  BY <1>1 DEF Desk
<1> HIDE DEF s, n, e, c
<1>5. \A x \in {s, n} : Orderly(x, x.wire, PlayerOn) /\ Connected(x) /\ Running(x)
  <2>1. ASSUME NEW x \in {s, n}
        PROVE  Orderly(x, x.wire, PlayerOn) /\ Connected(x) /\ Running(x)
    <3>1. Akin(d, x)
      BY <1>3 DEF Akin
    <3>2. RestFits(x) /\ LinkFits(x) /\ PartyFits(x)
      BY <1>1, <1>3, <1>4 DEF RestFits, LinkFits, PartyFits, Running, Connected, Settling
    <3>3. Orderly(x, d.wire, PlayerOn)
      BY <3>1, <3>2, FreeFits
    <3> QED BY <1>1, <1>3, <3>3 DEF Connected, Running
  <2> QED BY <2>1
<1>6. CASE Live(d) /\ ~d.liveSession
  <2>1. e = StartSession(s, s.config.party, "nobody")
    BY <1>2, <1>3, <1>6
  <2>2. JoinFits(s, s.wire, p)
    BY <1>3 DEF JoinFits
  <2>3. /\ Orderly(e, e.wire, PlayerOn) /\ Keeps(s, e) /\ Awaits(e, e.wire)
        /\ JoinFits(e, e.wire, p)
    BY <1>4, <1>5, <2>1, <2>2, StartSessionFits
  <2>4. Attended(e)
    BY <1>4, <2>3 DEF Attended, Keeps
  <2> QED BY <1>3, <2>3, <2>4 DEF Fit, Keeps, e
<1>7. CASE ~(Live(d) /\ ~d.liveSession)
  <2>1. e = Synchronize(n)
    BY <1>2, <1>7
  <2>2. /\ Fit(Synchronize(n), PlayerOn, p) /\ Synchronize(n).config = n.config
        /\ Synchronize(n).ready => n.ready \/ n.config.source = "aimp"
        /\ Synchronize(n).link = n.link
    BY <1>3, <1>5, SynchronizeFits, ZenonT(60)
  <2> QED BY <1>3, <2>1, <2>2 DEF e
<1> QED BY <1>6, <1>7

(* An answered start: what became of it, and what waits goes on waiting.   *)
LEMMA StartArrivesFits ==
  ASSUME NEW d, NEW on, Orderly(d, d.wire, on), Connected(d),
         NEW i \in Invocations, IsStart(i), i.attempt <= d.lastAttempt
  PROVE  LET e == StartArrives(d, i) IN
         /\ Orderly(e, e.wire, on) /\ Keeps(d, e) /\ Extends(d.wire, e.wire)
         /\ e.inFlight = d.inFlight
<1> DEFINE e == StartArrives(d, i)
           a == i.attempt
           w == d.wire
<1>1. d \in Desk /\ i.party \in Party /\ a \in Nat /\ i.fresh \in BOOLEAN /\ w \in Wire
  BY DEF Orderly, Invocations
<1>2. Extends(w, w)
  BY DEF Extends
<1>a. CASE a \in d.handled
  <2> DEFINE h == d.handled \ {a}
  <2>1. e = [d EXCEPT !.handled = h]
    BY <1>a DEF StartArrives
  <2>2. /\ e \in Desk /\ e.handled = h
        /\ e.config = d.config /\ e.step = d.step /\ e.ready = d.ready /\ e.blocked = d.blocked
        /\ e.subscribed = d.subscribed /\ e.behind = d.behind /\ e.coalescing = d.coalescing
        /\ e.lastAttempt = d.lastAttempt /\ e.inFlight = d.inFlight /\ e.active = d.active
        /\ e.late = d.late /\ e.lifecycle = d.lifecycle
        /\ e.link = d.link /\ e.currentParty = d.currentParty /\ e.wire = w
        /\ e.timer = d.timer
    BY <1>1, <2>1 DEF Desk
  <2> HIDE DEF e
  <2>3. AttemptsFit(e, w)
    BY <2>2 DEF Orderly, AttemptsFit
  <2>4. StartsFit(e, w)
    BY <2>2 DEF Orderly, StartsFit
  <2>5. WaitersFit(e, w, on)
    BY <2>2 DEF Orderly, WaitersFit, Running
  <2>6. TeardownsFit(e, w)
    BY <2>2 DEF Orderly, TeardownsFit, Running
  <2>7. RestFits(e) /\ LinkFits(e) /\ PartyFits(e)
    BY <2>2 DEF Orderly, RestFits, LinkFits, PartyFits, Running, Connected, Settling
  <2>8. Orderly(e, w, on)
    BY <1>1, <2>2, <2>3, <2>4, <2>5, <2>6, <2>7 DEF Orderly
  <2> QED BY <1>2, <2>2, <2>8 DEF Keeps, e
<1>b. CASE a \notin d.handled /\ ~i.timedOut
  <2> DEFINE c == [d EXCEPT !.active[i.party] = a]
             n == EndOf(i.party, a, "nobody")
  <2>1. /\ c \in Desk /\ \A p \in Party : c.active[p] \in {a, d.active[p]}
        /\ c.config = d.config /\ c.step = d.step /\ c.ready = d.ready /\ c.blocked = d.blocked
        /\ c.subscribed = d.subscribed /\ c.behind = d.behind /\ c.coalescing = d.coalescing
        /\ c.lastAttempt = d.lastAttempt /\ c.inFlight = d.inFlight /\ c.handled = d.handled
        /\ c.late = d.late /\ c.lifecycle = d.lifecycle
        /\ c.link = d.link /\ c.currentParty = d.currentParty /\ c.wire = w
        /\ c.timer = d.timer
    BY <1>1 DEF Desk
  <2>2. e = IF Requested(d, i.party) \/ d.inFlight = a THEN c ELSE EndSession(c, n)
    BY <1>b DEF StartArrives
  <2> HIDE DEF c
  <2>3. AttemptsFit(c, w)
    <3>1. \A p \in Party : c.active[p] <= c.lastAttempt
      BY <2>1 DEF Orderly, AttemptsFit
    <3> QED BY <2>1, <3>1 DEF Orderly, AttemptsFit
  <2>4. StartsFit(c, w)
    BY <2>1 DEF Orderly, StartsFit
  <2>5. WaitersFit(c, w, on)
    BY <2>1 DEF Orderly, WaitersFit, Running
  <2>6. TeardownsFit(c, w)
    BY <2>1 DEF Orderly, TeardownsFit, Running
  <2>7. RestFits(c) /\ LinkFits(c) /\ PartyFits(c)
    BY <2>1 DEF Orderly, RestFits, LinkFits, PartyFits, Running, Connected, Settling
  <2>8. Orderly(c, c.wire, on) /\ Keeps(d, c) /\ Connected(c)
    BY <1>1, <2>1, <2>3, <2>4, <2>5, <2>6, <2>7 DEF Orderly, Keeps, Connected
  <2>9. CASE Requested(d, i.party) \/ d.inFlight = a
    BY <1>2, <2>1, <2>2, <2>8, <2>9
  <2>10. CASE ~(Requested(d, i.party) \/ d.inFlight = a)
    <3>1. e = Invoke(c, n)
      BY <2>2, <2>8, <2>10 DEF EndSession
    <3>2. Plain(c, n) /\ ~IsJoin(n)
      BY <1>1, <2>1 DEF Plain, EndOf, Invocation, Invocations, IsStart, IsJoin
    <3> HIDE DEF n, e
    <3>3. /\ Orderly(e, e.wire, on) /\ Keeps(c, e) /\ Extends(c.wire, e.wire)
          /\ e.inFlight = c.inFlight
      BY <2>8, <3>1, <3>2, InvokePlainFits
    <3> QED BY <2>1, <2>8, <3>3 DEF Keeps, e
  <2> QED BY <2>9, <2>10
<1>c. CASE /\ a \notin d.handled /\ i.timedOut
           /\ d.active[i.party] <= a /\ StartPending(d, i.party) /\ d.inFlight > a
  <2> DEFINE l == [party |-> i.party, attempt |-> a, fresh |-> i.fresh, newer |-> d.inFlight]
             t == d.late \cup {l}
  <2>1. e = [d EXCEPT !.late = t]
    BY <1>c DEF StartArrives
  <2>2. l \in Late
    BY <1>1 DEF Late, Desk
  <2>3. t \subseteq Late /\ IsFiniteSet(t)
    <3>1. IsFiniteSet(d.late)
      BY DEF Orderly, AttemptsFit
    <3>2. IsFiniteSet(t)
      BY <3>1, FS_AddElement
    <3> QED BY <1>1, <2>2, <3>2 DEF Desk
  <2> HIDE DEF t
  <2>4. /\ e \in Desk /\ e.late = t
        /\ e.config = d.config /\ e.step = d.step /\ e.ready = d.ready /\ e.blocked = d.blocked
        /\ e.subscribed = d.subscribed /\ e.behind = d.behind /\ e.coalescing = d.coalescing
        /\ e.lastAttempt = d.lastAttempt /\ e.inFlight = d.inFlight /\ e.active = d.active
        /\ e.handled = d.handled /\ e.lifecycle = d.lifecycle
        /\ e.link = d.link /\ e.currentParty = d.currentParty /\ e.wire = w
        /\ e.timer = d.timer
    BY <1>1, <2>1, <2>3 DEF Desk
  <2> HIDE DEF e
  <2>5. AttemptsFit(e, w)
    BY <2>3, <2>4 DEF Orderly, AttemptsFit
  <2>6. StartsFit(e, w)
    BY <2>4 DEF Orderly, StartsFit
  <2>7. WaitersFit(e, w, on)
    BY <2>4 DEF Orderly, WaitersFit, Running
  <2>8. TeardownsFit(e, w)
    BY <2>4 DEF Orderly, TeardownsFit, Running
  <2>9. RestFits(e) /\ LinkFits(e) /\ PartyFits(e)
    BY <2>4 DEF Orderly, RestFits, LinkFits, PartyFits, Running, Connected, Settling
  <2>10. Orderly(e, w, on)
    BY <1>1, <2>4, <2>5, <2>6, <2>7, <2>8, <2>9 DEF Orderly
  <2> QED BY <1>2, <2>4, <2>10 DEF Keeps, e
<1>d. CASE /\ a \notin d.handled /\ i.timedOut
           /\ ~(d.active[i.party] <= a /\ StartPending(d, i.party) /\ d.inFlight > a)
  <2>1. e = EndLate(d, {i})
    BY <1>d DEF StartArrives
  <2>2. Starts({i})
    BY <1>1, FS_Singleton DEF Starts
  <2> HIDE DEF e
  <2>3. /\ Orderly(e, e.wire, on) /\ Keeps(d, e) /\ Extends(w, e.wire)
        /\ e.inFlight = d.inFlight
    BY <2>1, <2>2, EndLateFits
  <2> QED BY <2>3 DEF e
<1> QED BY <1>a, <1>b, <1>c, <1>d

(* A start that works ends the wait of its attempt with a synchronization. *)
LEMMA StartSucceedsFits ==
  ASSUME sourceLive \in [Source -> BOOLEAN],
         NEW d, Orderly(d, d.wire, PlayerOn), Connected(d), Attended(d),
         NEW i \in Invocations, IsStart(i), i.attempt <= d.lastAttempt,
         i.attempt = d.inFlight => ~i.timedOut,
         (d.step = "starting" /\ d.inFlight = i.attempt) \/ Awaits(d, d.wire),
         NEW at, JoinFits(d, d.wire, at)
  PROVE  LET e == StartSucceeds(d, i) IN
         /\ Fit(e, PlayerOn, at) /\ e.config = d.config
         /\ e.ready => d.ready \/ d.config.source = "aimp"
         /\ e.link = d.link
<1> DEFINE c == StartArrives(d, i)
           a == i.attempt
           s == Settle(c, a, TRUE)
           late == {l \in s.late : l.newer # a}
           live == s.liveSession \/ i.waiter = "sync"
           b == [s EXCEPT !.late = late, !.liveSession = live]
           f == [b EXCEPT !.liveSession = TRUE]
           e == StartSucceeds(d, i)
<1>1. /\ Orderly(c, c.wire, PlayerOn) /\ Keeps(d, c) /\ Extends(d.wire, c.wire)
      /\ c.inFlight = d.inFlight
  BY StartArrivesFits
<1>2. e = CASE i.timedOut -> c
            [] ~i.timedOut /\ d.step = "starting" /\ d.inFlight = a -> Synchronize(f)
            [] OTHER -> b
  BY DEF StartSucceeds
<1>3. Attended(c) /\ JoinFits(c, c.wire, at) /\ (Awaits(d, d.wire) => Awaits(c, c.wire))
  BY <1>1, KeptFits
<1> HIDE DEF c, e
<1>a. CASE i.timedOut
  <2>1. e = c /\ Awaits(d, d.wire)
    BY <1>a, <1>2
  <2> QED BY <1>1, <1>3, <2>1 DEF Fit, Keeps, e
<1>4. /\ Orderly(s, c.wire, PlayerOn) /\ Keeps(c, s) /\ s.wire = c.wire
      /\ s.inFlight = (IF c.inFlight = a THEN 0 ELSE c.inFlight)
  <2> DEFINE all == c.late
  <2>1. c \in Desk
    BY <1>1 DEF Orderly
  <2>2. [c EXCEPT !.late = all] = c
    BY <2>1 DEF Desk
  <2>3. all \in SUBSET c.late
    OBVIOUS
  <2> HIDE DEF all, s
  <2>4. \A started \in BOOLEAN :
          LET m == Settle([c EXCEPT !.late = all], a, started) IN
          /\ Orderly(m, c.wire, PlayerOn) /\ Keeps(c, m) /\ m.wire = c.wire
          /\ m.inFlight = (IF c.inFlight = a THEN 0 ELSE c.inFlight)
    <3>1. Orderly(c, c.wire, PlayerOn) /\ all \in SUBSET c.late
      BY <1>1, <2>3
    <3>2. \A started \in BOOLEAN :
            Orderly(Settle([c EXCEPT !.late = all], a, started), c.wire, PlayerOn)
      BY <3>1, SettleFits
    <3>3. \A started \in BOOLEAN : Keeps(c, Settle([c EXCEPT !.late = all], a, started))
      BY <3>1, SettleFits
    <3>4. \A started \in BOOLEAN : Settle([c EXCEPT !.late = all], a, started).wire = c.wire
      BY <2>1 DEF Settle, Desk
    <3>5. \A started \in BOOLEAN :
            Settle([c EXCEPT !.late = all], a, started).inFlight
              = (IF c.inFlight = a THEN 0 ELSE c.inFlight)
      BY <3>1, SettleFits
    <3> QED BY <3>2, <3>3, <3>4, <3>5
  <2> QED BY <2>2, <2>4 DEF s
<1>5. s \in Desk
  BY <1>4 DEF Orderly
<1> HIDE DEF s
<1>6. late \in SUBSET s.late /\ live \in BOOLEAN
  BY <1>5 DEF Desk
<1> HIDE DEF late, live
<1>7. /\ Orderly(b, c.wire, PlayerOn) /\ Keeps(s, b)
      /\ b.wire = c.wire /\ b.inFlight = s.inFlight
  <2>1. b.wire = s.wire /\ b.inFlight = s.inFlight
    BY <1>5 DEF Desk
  <2>2. \A l \in BOOLEAN :
          LET m == [s EXCEPT !.late = late, !.liveSession = l] IN
          Orderly(m, c.wire, PlayerOn) /\ Keeps(s, m)
    BY <1>4, <1>6, LiveIsFree
  <2> QED BY <1>4, <1>6, <2>1, <2>2
<1> HIDE DEF b
<1>8. Keeps(d, b) /\ Orderly(b, b.wire, PlayerOn) /\ Extends(d.wire, b.wire)
  BY <1>1, <1>4, <1>7 DEF Keeps
<1>9. Attended(b) /\ JoinFits(b, b.wire, at)
  BY <1>8, KeptFits
<1>b. CASE ~i.timedOut /\ d.step = "starting" /\ d.inFlight = a
  <2>1. e = Synchronize(f)
    BY <1>b, <1>2
  <2> DEFINE all == b.late
             g == [b EXCEPT !.late = all, !.liveSession = TRUE]
  <2>2. b \in Desk
    BY <1>8 DEF Orderly
  <2>3. f = g
    BY <2>2 DEF Desk
  <2>4. all \in SUBSET b.late
    OBVIOUS
  <2> HIDE DEF all
  <2>5. Orderly(g, b.wire, PlayerOn) /\ Keeps(b, g) /\ g.wire = b.wire
    BY <1>8, <2>4, LiveIsFree
  <2> HIDE DEF f, g
  <2>6. /\ Keeps(d, f) /\ Orderly(f, f.wire, PlayerOn) /\ f.wire = b.wire
    BY <1>8, <2>3, <2>5 DEF Keeps
  <2>7. f.step = "starting" /\ Running(f) /\ f.subscribed /\ Connected(f)
        /\ f.currentParty = f.config.party /\ Settling(b) /\ Connected(b)
    BY <1>b, <1>8, <2>6 DEF Orderly, RestFits, LinkFits, PartyFits, Keeps, Settling, Connected, Running
  <2>8. \A k \in DOMAIN f.wire : f.wire[k].waiter # "connect"
    BY <2>6, <2>7 DEF Orderly, WaitersFit
  <2>9. /\ \A k \in DOMAIN f.wire : IsJoin(f.wire[k]) => f.wire[k].party = f.config.party
        /\ (\A k \in DOMAIN f.wire : ~IsJoin(f.wire[k])) => at = f.config.party
    <3>1. f.config = b.config
      BY <1>8, <2>6 DEF Keeps
    <3> QED BY <1>9, <2>6, <2>7, <3>1 DEF JoinFits
  <2>10. LET m == Synchronize(f) IN
         /\ Fit(m, PlayerOn, at) /\ m.config = f.config
         /\ m.ready => f.ready \/ f.config.source = "aimp"
         /\ m.link = f.link
    BY <2>6, <2>7, <2>8, <2>9, SynchronizeFits
  <2> QED BY <2>1, <2>6, <2>10 DEF Keeps, e
<1>c. CASE ~i.timedOut /\ ~(d.step = "starting" /\ d.inFlight = a)
  <2>1. e = b
    BY <1>c, <1>2
  <2>2. d.step = "starting" => b.inFlight = d.inFlight
    BY <1>c, <1>1, <1>4, <1>7
  <2>3. Awaits(b, b.wire)
    BY <1>c, <1>8, <2>2 DEF Awaits, Keeps, Extends
  <2> QED BY <1>8, <1>9, <2>1, <2>3 DEF Fit, Keeps, e
<1> QED BY <1>a, <1>b, <1>c

-----------------------------------------------------------------------------
(* The sources change.                                                     *)

(* A publication under way no longer says what the player does.            *)
LEMMA SourceChangesFits ==
  ASSUME NEW d, NEW on, NEW at, Fit(d, on, at), NEW on2
  PROVE  LET e == SourceChanges(d) IN
         /\ Fit(e, on2, at) /\ Keeps(d, e) /\ e.wire = d.wire /\ e.active = d.active
         /\ e.lastAttempt = d.lastAttempt
<1> DEFINE e == SourceChanges(d)
           w == d.wire
<1>1. d \in Desk /\ Orderly(d, w, on)
  BY DEF Fit, Orderly
<1>2. /\ e \in Desk
      /\ e.config = d.config /\ e.step = d.step /\ e.ready = d.ready /\ e.blocked = d.blocked
      /\ e.subscribed = d.subscribed /\ (d.subscribed => e.behind)
      /\ e.coalescing => d.coalescing \/ d.subscribed
      /\ e.lastAttempt = d.lastAttempt /\ e.inFlight = d.inFlight /\ e.active = d.active
      /\ e.handled = d.handled /\ e.late = d.late /\ e.lifecycle = d.lifecycle
      /\ e.link = d.link /\ e.currentParty = d.currentParty /\ e.wire = w
      /\ e.timer = d.timer
  <2>1. CASE d.subscribed
    <3>1. e = [d EXCEPT !.behind = TRUE, !.coalescing = TRUE]
      BY <2>1 DEF SourceChanges
    <3> QED BY <1>1, <2>1, <3>1 DEF Desk
  <2>2. CASE ~d.subscribed
    BY <1>1, <2>2 DEF SourceChanges
  <2> QED BY <2>1, <2>2
<1> HIDE DEF e
<1>3. AttemptsFit(e, w) /\ StartsFit(e, w)
  BY <1>1, <1>2 DEF Orderly, AttemptsFit, StartsFit
<1>4. WaitersFit(e, w, on2)
  <2>1. d.step = "syncing" => e.behind
    BY <1>1, <1>2 DEF Orderly, LinkFits
  <2> QED BY <1>1, <1>2, <2>1 DEF Orderly, WaitersFit, Running
<1>5. TeardownsFit(e, w)
  BY <1>1, <1>2 DEF Orderly, TeardownsFit, Running
<1>6. RestFits(e) /\ LinkFits(e) /\ PartyFits(e)
  BY <1>1, <1>2 DEF Orderly, RestFits, LinkFits, PartyFits, Running, Connected, Settling
<1>7. Orderly(e, w, on2) /\ Keeps(d, e)
  BY <1>1, <1>2, <1>3, <1>4, <1>5, <1>6 DEF Orderly, Keeps
<1>8. JoinFits(e, w, at) /\ Awaits(e, w) /\ Attended(e)
  <2>1. Extends(w, w)
    BY DEF Extends
  <2> QED BY <1>2, <1>7, <2>1, KeptFits DEF Fit
<1> QED BY <1>2, <1>7, <1>8 DEF Fit, e

(* What plays does not matter to an orchestrator on AIMP, nor to one that  *)
(* does not run.                                                           *)
LEMMA OtherSourceFits ==
  ASSUME NEW d, NEW on, NEW at, Fit(d, on, at), NEW on2,
         on2 = on \/ ~(Running(d) /\ d.config.source = "cherryPlayPlayer")
  PROVE  Fit(d, on2, at)
<1>1. WaitersFit(d, d.wire, on2)
  <2>1. d \in Desk
    BY DEF Fit, Orderly
  <2>2. Running(d) => d.config.source \in {"cherryPlayPlayer", "aimp"}
    BY <2>1 DEF Desk, Running, Config, Source
  <2> QED BY <2>2 DEF Fit, Orderly, WaitersFit
<1> QED BY <1>1 DEF Fit, Orderly

(* The synchronization of the session starts or ends it, as the source     *)
(* says.                                                                   *)
LEMMA SyncLiveSessionFits ==
  ASSUME NEW d, NEW on, NEW at, Fit(d, on, at), NEW isLive \in BOOLEAN
  PROVE  LET e == SyncLiveSession(d, isLive) IN
         Fit(e, on, at) /\ Keeps(d, e)
<1> DEFINE p == d.config.party
           e == SyncLiveSession(d, isLive)
<1>1. d \in Desk /\ Orderly(d, d.wire, on)
  BY DEF Fit, Orderly
<1>2. CASE ~(Running(d) /\ d.ready /\ Connected(d))
  BY <1>2 DEF SyncLiveSession, Keeps
<1>3. CASE Running(d) /\ d.ready /\ Connected(d) /\ isLive
  <2>1. e = IF d.liveSession THEN d ELSE StartSession(d, p, "sync")
    BY <1>3 DEF SyncLiveSession
  <2>2. CASE d.liveSession
    BY <2>1, <2>2 DEF Keeps
  <2>3. CASE ~d.liveSession
    <3> DEFINE n == StartSession(d, p, "sync")
    <3>1. /\ Orderly(n, n.wire, on) /\ Keeps(d, n) /\ Awaits(n, n.wire)
          /\ JoinFits(n, n.wire, at)
      BY <1>1, <1>3, StartSessionFits DEF Fit
    <3> HIDE DEF n
    <3>2. Attended(n)
      BY <3>1 DEF Fit, Attended, Keeps, Running
    <3> QED BY <2>1, <2>3, <3>1, <3>2 DEF Fit, n
  <2> QED BY <2>2, <2>3
<1>4. CASE Running(d) /\ d.ready /\ Connected(d) /\ ~isLive
  <2> DEFINE i == EndOf(p, d.active[p], "nobody")
             j == Invocation("Reset", p, "nobody")
             b == Invoke(d, i)
             c == Invoke(b, j)
             m == IF d.liveSession /\ d.config.source = "aimp" THEN c ELSE d
  <2>1. p \in Party /\ d.active[p] \in Nat /\ d.active[p] <= d.lastAttempt /\ d.lastAttempt \in Nat
    BY <1>1, <1>4 DEF Desk, Running, Config, Orderly, AttemptsFit
  <2>2. Plain(d, i) /\ ~IsJoin(i)
    BY <2>1 DEF Plain, EndOf, Invocation, Invocations, IsStart, IsJoin
  <2>3. e = [m EXCEPT !.liveSession = FALSE]
    BY <1>4 DEF SyncLiveSession
  <2> HIDE DEF i, e
  <2>4. Fit(b, on, at) /\ Keeps(d, b) /\ Akin(d, b)
    BY <1>4, <2>2, PlainIsFit
  <2> HIDE DEF b
  <2>5. Connected(b) /\ b.lastAttempt = d.lastAttempt
    BY <1>4, <2>4 DEF Keeps, Connected, Akin
  <2>6. Plain(b, j) /\ ~IsJoin(j)
    BY <2>1, <2>5 DEF Plain, Invocation, Invocations, IsStart, IsJoin
  <2> HIDE DEF j
  <2>7. Fit(c, on, at) /\ Keeps(b, c)
    BY <2>4, <2>5, <2>6, PlainIsFit
  <2> HIDE DEF c
  <2>8. Fit(m, on, at) /\ Keeps(d, m)
    BY <2>4, <2>7 DEF Keeps
  <2> HIDE DEF m
  <2>9. Fit(e, on, at) /\ Keeps(m, e)
    BY <2>3, <2>8, LiveIsFit
  <2> QED BY <2>8, <2>9 DEF Keeps, e
<1> QED BY <1>2, <1>3, <1>4

-----------------------------------------------------------------------------
(* Every action of the specification, but the answers: it restores the     *)
(* invariant and makes nobody ready.                                       *)

NotNewlyReady == desk'.ready => desk.ready

(* What the invariant says of the desk, taken apart.                       *)
LEMMA DeskIs ==
  ASSUME StreamingInv
  PROVE  /\ desk \in Desk /\ Orderly(desk, desk.wire, PlayerOn) /\ desk.wire \in Wire
         /\ Fit(desk, PlayerOn, joined)
         /\ sourceLive \in [Source -> BOOLEAN] /\ PlayerOn \in BOOLEAN
         /\ Running(desk) => desk.config \in Config /\ desk.config.party \in Party
                             /\ desk.config.source \in Source
         /\ desk.step # "idle" => Running(desk)
         /\ desk.step \notin {"joining", "syncing"} =>
              \A k \in DOMAIN desk.wire : desk.wire[k].waiter # "connect"
         /\ ~Connected(desk) => desk.wire = <<>>
BY DEF StreamingInv, Fit, Orderly, Desk, Wire, PlayerOn, Source, Running, Config, RestFits,
       WaitersFit, LinkFits

(* The sessions, the hub and the sources stay as they are.                 *)
LEMMA DeskRestored ==
  ASSUME StreamingInv, Fit(desk', PlayerOn, joined), UNCHANGED <<session, joined, sourceLive>>
  PROVE  StreamingInv'
BY DEF StreamingInv, PlayerOn

(* A desk that no longer has a connection.                                 *)
LEMMA DeskDisconnected ==
  ASSUME StreamingInv, Orderly(desk', desk'.wire, PlayerOn), Awaits(desk', desk'.wire),
         Attended(desk'), ~Connected(desk'), ServerLoses, UNCHANGED sourceLive
  PROVE  StreamingInv'
<1>1. session' \in Sessions /\ joined' = NoParty
  BY DeskIs, LossFits DEF StreamingInv, Sessions
<1>2. JoinFits(desk', desk'.wire, joined')
  BY DEF JoinFits
<1> QED BY <1>1, <1>2 DEF StreamingInv, Fit, Sessions, PlayerOn

(* Users.                                                                  *)

(* start.                                                                  *)
LEMMA StartKeeps ==
  ASSUME StreamingInv, NEW c \in Config, Start(c)
  PROVE  StreamingInv' /\ NotNewlyReady
<1> DEFINE d == desk
           s == StopInternal(d)
           t == [s EXCEPT !.config = c]
           e == Connect(t)
<1>1. Orderly(d, d.wire, PlayerOn) /\ d \in Desk
  BY DeskIs
<1>2. /\ s \in Desk /\ s.step = "idle" /\ ~s.ready
      /\ s.lastAttempt = d.lastAttempt /\ s.inFlight = d.inFlight /\ s.active = d.active
      /\ s.handled = d.handled /\ s.link = d.link
      /\ s.late = Superseded(d).late /\ s.wire = Superseded(d).wire
      /\ DOMAIN s.lifecycle = DOMAIN d.lifecycle
      /\ \A k \in DOMAIN s.lifecycle :
           /\ ~s.lifecycle[k].fresh
           /\ s.lifecycle[k].at = d.lifecycle[k].at
           /\ s.lifecycle[k].attempt = d.lifecycle[k].attempt
           /\ s.lifecycle[k].owner = d.lifecycle[k].owner
  BY <1>1, StopInternalIs
<1>3. desk' = e
  BY DEF Start
<1> HIDE DEF s
<1>4. /\ t \in Desk /\ t.step = "idle" /\ ~t.ready /\ t.config = c
      /\ t.lastAttempt = s.lastAttempt /\ t.inFlight = s.inFlight /\ t.active = s.active
      /\ t.handled = s.handled /\ t.link = s.link /\ t.late = s.late /\ t.wire = s.wire
      /\ t.lifecycle = s.lifecycle
  BY <1>2 DEF Desk
<1> HIDE DEF t
<1>5. /\ e \in Desk /\ e.step = "checking" /\ ~e.timer /\ e.config = c /\ ~e.ready
      /\ e.lastAttempt = t.lastAttempt /\ e.inFlight = t.inFlight /\ e.active = t.active
      /\ e.handled = t.handled /\ e.link = t.link /\ e.late = t.late /\ e.wire = t.wire
      /\ e.lifecycle = t.lifecycle
  BY <1>4, ConnectIs
<1> HIDE DEF e
<1>6. Renewed(d, e)
  BY <1>2, <1>4, <1>5, StreamingAssumption DEF Renewed, Running
<1>7. \A k \in DOMAIN e.lifecycle : e.lifecycle[k].attempt <= d.lastAttempt
                                       /\ e.lifecycle[k].owner <= d.lastAttempt
  BY <1>1, <1>2, <1>4, <1>5 DEF Orderly, AttemptsFit
<1>8. Fit(e, PlayerOn, joined)
  BY <1>1, <1>2, <1>4, <1>5, <1>6, <1>7, RenewedFits, ZenonT(60)
<1> QED BY <1>3, <1>5, <1>8, DeskRestored DEF Start, NotNewlyReady

(* stop.                                                                   *)
LEMMA StopKeeps ==
  ASSUME StreamingInv, Stop
  PROVE  StreamingInv' /\ NotNewlyReady
<1>1. Live(desk) \in BOOLEAN
  BY DEF Live
<1>2. Fit(desk', PlayerOn, joined) /\ ~Running(desk')
  BY <1>1, DeskIs, TakeDownFits DEF Stop
<1>3. ~desk'.ready
  BY <1>2 DEF Fit, Orderly, RestFits
<1> QED BY <1>2, <1>3, DeskRestored DEF Stop, NotNewlyReady

(* The button, and the network that returns.                               *)
LEMMA ReconnectKeeps ==
  ASSUME StreamingInv, Reconnect
  PROVE  StreamingInv' /\ NotNewlyReady
<1>1. PICK supersede \in BOOLEAN : desk' = Recover(desk, supersede)
  BY DEF Reconnect
<1>2. Fit(desk', PlayerOn, joined) /\ (desk'.ready => desk.ready)
  BY <1>1, DeskIs, RecoverFits
<1> QED BY <1>2, DeskRestored DEF Reconnect, NotNewlyReady

(* What the sources' handlers begin with.                                  *)
LEMMA SourceTurns ==
  ASSUME StreamingInv, NEW s \in Source, NEW live \in BOOLEAN,
         sourceLive' = [sourceLive EXCEPT ![s] = live]
  PROVE  /\ sourceLive' \in [Source -> BOOLEAN]
         /\ Fit(SourceChanges(desk), PlayerOn', joined)
         /\ Keeps(desk, SourceChanges(desk))
         /\ s = "aimp" \/ ~PlaysFrom(s) => Fit(desk, PlayerOn', joined)
<1>1. sourceLive \in [Source -> BOOLEAN] /\ Fit(desk, PlayerOn, joined)
  BY DeskIs
<1>2. sourceLive' \in [Source -> BOOLEAN]
  BY <1>1
<1>3. s = "aimp" => PlayerOn' = PlayerOn
  BY <1>1 DEF PlayerOn, Source
<1>4. Fit(SourceChanges(desk), PlayerOn', joined) /\ Keeps(desk, SourceChanges(desk))
  BY <1>1, SourceChangesFits
<1>5. s = "aimp" \/ ~PlaysFrom(s) => Fit(desk, PlayerOn', joined)
  BY <1>1, <1>3, OtherSourceFits DEF PlaysFrom, Source
<1> QED BY <1>2, <1>4, <1>5

(* A source goes on air.                                                   *)
LEMMA GoLiveKeeps ==
  ASSUME StreamingInv, NEW s \in Source, GoLive(s)
  PROVE  StreamingInv' /\ NotNewlyReady /\ desk'.config = desk.config
<1>1. /\ sourceLive' \in [Source -> BOOLEAN]
      /\ Fit(SourceChanges(desk), PlayerOn', joined) /\ Keeps(desk, SourceChanges(desk))
      /\ ~PlaysFrom(s) => Fit(desk, PlayerOn', joined)
  BY SourceTurns DEF GoLive
<1>2. LET e == SyncLiveSession(SourceChanges(desk), TRUE) IN
      Fit(e, PlayerOn', joined) /\ Keeps(SourceChanges(desk), e)
  BY <1>1, SyncLiveSessionFits
<1>3. desk' = IF PlaysFrom(s) THEN SyncLiveSession(SourceChanges(desk), TRUE) ELSE desk
  BY DEF GoLive
<1>4. Fit(desk', PlayerOn', joined) /\ Keeps(desk, desk')
  BY <1>1, <1>2, <1>3 DEF Keeps
<1> QED BY <1>1, <1>4 DEF GoLive, StreamingInv, NotNewlyReady, Keeps

(* A source goes off air.                                                  *)
LEMMA StopLiveKeeps ==
  ASSUME StreamingInv, NEW s \in Source, StopLive(s)
  PROVE  StreamingInv' /\ NotNewlyReady /\ desk'.config = desk.config
<1>1. PICK heard \in BOOLEAN :
        LET c == IF PlaysFrom(s) /\ heard THEN SourceChanges(desk) ELSE desk
            e == IF s = "cherryPlayPlayer" /\ Running(c) /\ Connected(c)
                 THEN Invoke(c, Invocation("Reset", c.config.party, "stop")) ELSE c
        IN /\ s = "cherryPlayPlayer" => heard
           /\ desk' = IF PlaysFrom(s) THEN SyncLiveSession(e, FALSE) ELSE e
  BY DEF StopLive
<1> DEFINE c == IF PlaysFrom(s) /\ heard THEN SourceChanges(desk) ELSE desk
           i == Invocation("Reset", c.config.party, "stop")
           e == IF s = "cherryPlayPlayer" /\ Running(c) /\ Connected(c) THEN Invoke(c, i) ELSE c
<1>2. /\ sourceLive' \in [Source -> BOOLEAN]
      /\ Fit(SourceChanges(desk), PlayerOn', joined) /\ Keeps(desk, SourceChanges(desk))
      /\ s = "aimp" \/ ~PlaysFrom(s) => Fit(desk, PlayerOn', joined)
  BY SourceTurns DEF StopLive
<1>3. Fit(c, PlayerOn', joined) /\ Keeps(desk, c)
  BY <1>1, <1>2 DEF Keeps, Source
<1> HIDE DEF c
<1>4. Fit(e, PlayerOn', joined) /\ Keeps(c, e)
  <2>1. CASE s = "cherryPlayPlayer" /\ Running(c) /\ Connected(c)
    <3>1. c \in Desk
      BY <1>3 DEF Fit, Orderly
    <3>2. Plain(c, i) /\ ~IsJoin(i)
      BY <2>1, <3>1 DEF Plain, Invocation, Invocations, IsStart, IsJoin, Desk, Running, Config
    <3> HIDE DEF i
    <3>3. Fit(Invoke(c, i), PlayerOn', joined) /\ Keeps(c, Invoke(c, i))
      BY <1>3, <2>1, <3>2, PlainIsFit
    <3> QED BY <2>1, <3>3
  <2>2. CASE ~(s = "cherryPlayPlayer" /\ Running(c) /\ Connected(c))
    BY <1>3, <2>2 DEF Keeps
  <2> QED BY <2>1, <2>2
<1>5. desk' = IF PlaysFrom(s) THEN SyncLiveSession(e, FALSE) ELSE e
  BY <1>1 DEF c
<1> HIDE DEF e
<1>6. Fit(SyncLiveSession(e, FALSE), PlayerOn', joined) /\ Keeps(e, SyncLiveSession(e, FALSE))
  BY <1>4, SyncLiveSessionFits
<1>7. Fit(desk', PlayerOn', joined) /\ Keeps(desk, desk')
  BY <1>3, <1>4, <1>5, <1>6 DEF Keeps
<1> QED BY <1>2, <1>7 DEF StopLive, StreamingInv, NotNewlyReady, Keeps

(* A new project.                                                          *)
LEMMA NewProjectKeeps ==
  ASSUME StreamingInv, NewProject
  PROVE  StreamingInv' /\ NotNewlyReady /\ desk'.config = desk.config
<1>1. CASE /\ ~Running(desk) /\ UNCHANGED desk
           /\ sourceLive' = [sourceLive EXCEPT !["cherryPlayPlayer"] = FALSE]
  <2>1. sourceLive' \in [Source -> BOOLEAN] /\ Fit(desk, PlayerOn', joined)
    BY <1>1, SourceTurns DEF PlaysFrom, Source
  <2> QED BY <1>1, <2>1 DEF NewProject, StreamingInv, NotNewlyReady
<1>2. CASE /\ Running(desk) /\ Connected(desk) /\ UNCHANGED sourceLive
           /\ LET p == desk.config.party
                  c == IF PlaysFrom("cherryPlayPlayer") THEN SourceChanges(desk) ELSE desk
              IN desk' = Invoke(c, EndOf(p, c.active[p], "newProject"))
  <2> DEFINE p == desk.config.party
             c == IF PlaysFrom("cherryPlayPlayer") THEN SourceChanges(desk) ELSE desk
             i == EndOf(p, c.active[p], "newProject")
  <2>1. Fit(c, PlayerOn, joined) /\ Keeps(desk, c)
    BY DeskIs, SourceChangesFits DEF Keeps
  <2>2. desk' = Invoke(c, i)
    BY <1>2
  <2> HIDE DEF c
  <2>3. p \in Party /\ Connected(c) /\ c \in Desk
    BY <1>2, <2>1, DeskIs DEF Keeps, Connected, Fit, Orderly
  <2>4. c.active[p] \in Nat /\ c.active[p] <= c.lastAttempt
    BY <2>1, <2>3 DEF Fit, Orderly, AttemptsFit, Desk
  <2>5. Plain(c, i) /\ ~IsJoin(i)
    BY <2>3, <2>4 DEF Plain, EndOf, Invocation, Invocations, IsStart, IsJoin
  <2> HIDE DEF i
  <2>6. Fit(desk', PlayerOn, joined) /\ Keeps(c, desk')
    BY <2>1, <2>2, <2>3, <2>5, PlainIsFit
  <2> QED BY <1>2, <2>1, <2>6, DeskRestored DEF NewProject, NotNewlyReady, Keeps
<1> QED BY <1>1, <1>2 DEF NewProject

(* AIMP's hook synchronizes once more.                                     *)
LEMMA SyncAimpKeeps ==
  ASSUME StreamingInv, SyncAimp
  PROVE  StreamingInv' /\ NotNewlyReady /\ desk'.config = desk.config
<1>1. sourceLive["aimp"] \in BOOLEAN
  BY DeskIs DEF Source
<1>2. Fit(desk', PlayerOn, joined) /\ Keeps(desk, desk')
  BY <1>1, DeskIs, SyncLiveSessionFits DEF SyncAimp
<1> QED BY <1>2, DeskRestored DEF SyncAimp, NotNewlyReady, Keeps

(* The network, and the eight seconds.                                     *)

(* A connection attempt ends here, or one begins, on the same wire.        *)
LEMMA TurnFits ==
  ASSUME StreamingInv, NEW e, Akin(desk, e), e.wire = desk.wire,
         \A k \in DOMAIN desk.wire : desk.wire[k].waiter # "connect",
         e.currentParty = desk.currentParty, e.ready => desk.ready,
         e.subscribed = desk.subscribed, e.coalescing => desk.coalescing,
         e.timer \/ e.step # "idle" => Running(e),
         e.step \in {"idle", "checking", "dialing"},
         e.step = "dialing" => e.link \in {"preparing", "starting"},
         e.ready /\ e.link \in {"preparing", "starting"} => e.step = "dialing",
         e.link = desk.link \/ (~Connected(e) /\ ~Connected(desk)),
         Attended(e)
  PROVE  Fit(e, PlayerOn, joined)
<1>1. Orderly(desk, desk.wire, PlayerOn) /\ Fit(desk, PlayerOn, joined) /\ desk \in Desk
  BY DeskIs
<1>2. RestFits(e)
  BY <1>1 DEF Orderly, RestFits, Akin, Running
<1>3. LinkFits(e)
  BY <1>1 DEF Orderly, LinkFits, Akin, Connected
<1>4. PartyFits(e) /\ JoinFits(e, e.wire, joined)
  BY <1>1 DEF Fit, Orderly, PartyFits, JoinFits, Settling, Running, Akin, Connected
<1>5. Awaits(e, e.wire)
  BY DEF Awaits
<1>6. Orderly(e, desk.wire, PlayerOn)
  BY <1>1, <1>2, <1>3, <1>4, FreeFits
<1> QED BY <1>4, <1>5, <1>6 DEF Fit

(* The party is missing.                                                   *)
LEMMA PartyIsMissingKeeps ==
  ASSUME StreamingInv, PartyIsMissing
  PROVE  StreamingInv' /\ NotNewlyReady
<1> DEFINE e == [desk EXCEPT !.step = "idle", !.blocked = TRUE]
<1>1. desk \in Desk /\ desk' = e
  BY DeskIs DEF PartyIsMissing
<1>2. /\ Akin(desk, e) /\ e.wire = desk.wire /\ e.currentParty = desk.currentParty
      /\ e.ready = desk.ready /\ e.subscribed = desk.subscribed
      /\ e.coalescing = desk.coalescing /\ e.timer = desk.timer /\ e.step = "idle"
      /\ e.link = desk.link /\ e.blocked
  BY <1>1 DEF Akin, Desk, Steps
<1> HIDE DEF e
<1>3. \A k \in DOMAIN desk.wire : desk.wire[k].waiter # "connect"
  BY DeskIs DEF PartyIsMissing
<1>4. e.timer => Running(e)
  BY <1>2, DeskIs DEF Orderly, RestFits, Akin, Running
<1>5. Attended(e)
  BY <1>2 DEF Attended
<1>6. ~(e.ready /\ e.link \in {"preparing", "starting"})
  BY <1>2, DeskIs DEF PartyIsMissing, Orderly, LinkFits
<1>7. Fit(e, PlayerOn, joined)
  BY <1>2, <1>3, <1>4, <1>5, <1>6, TurnFits
<1> QED BY <1>1, <1>2, <1>7, DeskRestored DEF PartyIsMissing, NotNewlyReady

(* A failed attempt: not ready, and a timer is set.                        *)
LEMMA FailedFits ==
  ASSUME StreamingInv, desk.step \notin {"joining", "syncing"}, Running(desk),
         NEW link \in Links, link = desk.link \/ (link # "connected" /\ ~Connected(desk)),
         NEW ready \in BOOLEAN, ready => desk.ready,
         ready => link \notin {"preparing", "starting"}
  PROVE  LET e == ScheduleReconnect([desk EXCEPT !.step = "idle", !.dials = FALSE,
                                                 !.ready = ready, !.link = link])
         IN  Fit(e, PlayerOn, joined) /\ (e.ready => desk.ready)
<1> DEFINE c == [desk EXCEPT !.step = "idle", !.dials = FALSE, !.ready = ready, !.link = link]
           e == ScheduleReconnect(c)
<1>1. desk \in Desk
  BY DeskIs
<1>2. /\ c \in Desk /\ Akin(desk, c) /\ c.wire = desk.wire /\ c.currentParty = desk.currentParty
      /\ (c.ready <=> ready) /\ c.subscribed = desk.subscribed
      /\ c.coalescing = desk.coalescing /\ c.step = "idle"
      /\ c.link = link
  BY <1>1 DEF Akin, Desk, Steps
<1> HIDE DEF c
<1>3. /\ Akin(desk, e) /\ e.wire = desk.wire /\ e.currentParty = desk.currentParty
      /\ (e.ready <=> ready) /\ e.subscribed = desk.subscribed
      /\ e.coalescing = desk.coalescing /\ e.step = "idle"
      /\ e.link = link /\ (e.timer <=> c.timer \/ Running(c))
  BY <1>2, ScheduleReconnectIs DEF Akin
<1> HIDE DEF e
<1>4. \A k \in DOMAIN desk.wire : desk.wire[k].waiter # "connect"
  BY DeskIs
<1>5. Running(e) /\ e.timer
  BY <1>2, <1>3 DEF Akin, Running
<1>6. Attended(e)
  BY <1>5 DEF Attended
<1>7. Fit(e, PlayerOn, joined)
  BY <1>3, <1>4, <1>5, <1>6, TurnFits DEF Connected
<1> QED BY <1>3, <1>7 DEF c, e

(* The check of the party fails.                                           *)
LEMMA CheckFailsKeeps ==
  ASSUME StreamingInv, CheckFails
  PROVE  StreamingInv' /\ NotNewlyReady
<1> DEFINE link == desk.link
           ready == desk.ready
<1>1. desk \in Desk /\ link \in Links /\ ready \in BOOLEAN /\ desk.step = "checking"
  BY DeskIs DEF Desk, CheckFails
<1>2. /\ Running(desk)
      /\ ready => link \notin {"preparing", "starting"}
  BY <1>1, DeskIs DEF Orderly, LinkFits
<1> DEFINE c == [desk EXCEPT !.step = "idle"]
           e == ScheduleReconnect(c)
<1>3. /\ c \in Desk /\ Akin(desk, c) /\ c.wire = desk.wire
      /\ c.currentParty = desk.currentParty /\ c.ready = desk.ready
      /\ c.subscribed = desk.subscribed /\ c.coalescing = desk.coalescing /\ c.step = "idle"
      /\ c.link = desk.link
  BY <1>1 DEF Akin, Desk, Steps
<1>4. desk' = e
  BY DEF CheckFails
<1> HIDE DEF c
<1>5. /\ Akin(desk, e) /\ e.wire = desk.wire /\ e.currentParty = desk.currentParty
      /\ e.ready = desk.ready /\ e.subscribed = desk.subscribed
      /\ e.coalescing = desk.coalescing /\ e.step = "idle"
      /\ e.link = desk.link /\ (e.timer <=> c.timer \/ Running(c))
  BY <1>3, ScheduleReconnectIs DEF Akin
<1> HIDE DEF e
<1>6. Running(e) /\ e.timer
  BY <1>2, <1>3, <1>5 DEF Akin, Running
<1>7. Attended(e)
  BY <1>6 DEF Attended
<1>8. \A k \in DOMAIN desk.wire : desk.wire[k].waiter # "connect"
  BY <1>1, DeskIs
<1>9. Fit(e, PlayerOn, joined)
  BY <1>2, <1>5, <1>6, <1>7, <1>8, TurnFits
<1> QED BY <1>4, <1>5, <1>9, DeskRestored DEF CheckFails, NotNewlyReady

(* A dial begins, or the one under way is waited for.                      *)
LEMMA DialIs ==
  ASSUME NEW d \in Desk
  PROVE  LET e == Dial(d) IN
         /\ Akin(d, e) /\ e.wire = d.wire /\ e.currentParty = d.currentParty
         /\ e.ready = d.ready /\ e.subscribed = d.subscribed
         /\ e.coalescing = d.coalescing /\ e.step = "dialing" /\ e.timer = d.timer
         /\ e.link \in {"preparing", "starting"}
BY ZenonT(60) DEF Dial, Akin, Desk, Steps, Links

(* A dial fails, for those who wait for it.                                *)
LEMMA DialFailsKeeps ==
  ASSUME StreamingInv, DialFails
  PROVE  StreamingInv' /\ NotNewlyReady
<1> DEFINE none == "none"
           c == [desk EXCEPT !.link = none]
<1>1. desk \in Desk /\ desk.link \in {"preparing", "starting"} /\ ~Connected(desk)
      /\ desk.wire = <<>>
  BY DeskIs DEF DialFails, Connected
<1>2. /\ c \in Desk /\ Akin(desk, c) /\ c.wire = desk.wire
      /\ c.currentParty = desk.currentParty /\ c.ready = desk.ready
      /\ c.subscribed = desk.subscribed /\ c.coalescing = desk.coalescing /\ c.step = desk.step
      /\ c.link = "none" /\ c.timer = desk.timer /\ c.blocked = desk.blocked
  BY <1>1 DEF Akin, Desk, Links
<1>3. desk' = CASE desk.step # "dialing" -> c
                [] desk.step = "dialing" /\ desk.dials -> ConnectFails(c)
                [] desk.step = "dialing" /\ ~desk.dials -> Dial(c)
  BY DEF DialFails
<1>4. \A k \in DOMAIN desk.wire : desk.wire[k].waiter # "connect"
  BY <1>1
<1>5. desk.step \notin {"joining", "syncing", "starting"}
  BY <1>1, DeskIs DEF Fit, Awaits
<1>6. desk.timer => Running(desk)
  BY DeskIs DEF Orderly, RestFits
<1>7. Running(c) <=> Running(desk)
  BY <1>2 DEF Akin, Running
<1>a. CASE desk.step # "dialing"
  <2>1. desk' = c /\ ~desk.ready
    BY <1>1, <1>3, <1>a, DeskIs DEF Orderly, LinkFits
  <2> HIDE DEF c
  <2>2. Attended(c)
    BY <1>2, <1>7, <2>1, DeskIs DEF Attended, Fit
  <2>3. c.step \in {"idle", "checking"}
    BY <1>1, <1>2, <1>5, <1>a DEF Desk, Steps
  <2>4. c.step # "idle" => Running(c)
    BY <1>2, <1>7, DeskIs
  <2>5. ~Connected(c)
    BY <1>2 DEF Connected
  <2>6. Fit(c, PlayerOn, joined)
    BY <1>1, <1>2, <1>4, <1>6, <1>7, <2>1, <2>2, <2>3, <2>4, <2>5, TurnFits
  <2> QED BY <1>2, <2>1, <2>6, DeskRestored DEF DialFails, NotNewlyReady
<1>b. CASE desk.step = "dialing" /\ desk.dials
  <2> DEFINE s == [desk EXCEPT !.step = "idle", !.dials = FALSE, !.ready = FALSE, !.link = none]
  <2>1. desk' = ScheduleReconnect(s)
    <3>1. [c EXCEPT !.step = "idle", !.dials = FALSE, !.ready = FALSE] = s
      BY <1>1 DEF Desk
    <3> QED BY <1>3, <1>b, <3>1 DEF ConnectFails
  <2>2. Running(desk) /\ none \in Links /\ none # "connected" /\ FALSE \in BOOLEAN
    BY <1>b, DeskIs DEF Links
  <2> HIDE DEF none
  <2>3. Fit(desk', PlayerOn, joined) /\ (desk'.ready => desk.ready)
    BY <1>1, <1>b, <2>1, <2>2, FailedFits
  <2> QED BY <2>3, DeskRestored DEF DialFails, NotNewlyReady
<1>c. CASE desk.step = "dialing" /\ ~desk.dials
  <2> DEFINE e == Dial(c)
  <2>1. desk' = e
    BY <1>3, <1>c
  <2> HIDE DEF c
  <2>2. /\ Akin(c, e) /\ e.wire = c.wire /\ e.currentParty = c.currentParty
        /\ e.ready = c.ready /\ e.subscribed = c.subscribed
        /\ e.coalescing = c.coalescing /\ e.step = "dialing" /\ e.timer = c.timer
        /\ e.link \in {"preparing", "starting"}
    BY <1>2, DialIs
  <2> HIDE DEF e
  <2>3. Akin(desk, e) /\ Running(e) /\ Attended(e) /\ ~Connected(e)
    BY <1>2, <1>c, <2>2, DeskIs DEF Akin, Running, Attended, Connected
  <2>4. Fit(e, PlayerOn, joined)
    BY <1>1, <1>2, <1>4, <2>2, <2>3, TurnFits
  <2> QED BY <1>2, <2>1, <2>2, <2>4, DeskRestored DEF DialFails, NotNewlyReady
<1> QED BY <1>a, <1>b, <1>c

(* The connection is lost.                                                 *)
LEMMA LoseKeeps ==
  ASSUME StreamingInv, Lose
  PROVE  StreamingInv' /\ NotNewlyReady
<1> DEFINE link == "reconnecting"
<1>1. /\ desk \in Desk /\ Connected(desk) /\ link \in Links /\ link # "connected"
      /\ Orderly(desk, desk.wire, PlayerOn) /\ Awaits(desk, desk.wire) /\ Attended(desk)
      /\ desk.step # "dialing"
  BY DeskIs DEF Lose, Links, Fit, Orderly, LinkFits, Connected
<1>2. Attended([desk EXCEPT !.link = link])
  BY <1>1 DEF Attended, Desk, Running
<1>3. desk' = CloseConnection(desk, link) /\ link \notin {"preparing", "starting"}
  BY DEF Lose
<1>4. link = "reconnecting"
  OBVIOUS
<1> HIDE DEF link
<1>5. /\ Orderly(desk', <<>>, PlayerOn) /\ Awaits(desk', <<>>) /\ GoesOn(desk, desk')
      /\ Attended(desk') /\ desk'.wire = <<>> /\ desk'.link = link
  BY <1>1, <1>2, <1>3, CloseFits
<1>6. ~Connected(desk')
  BY <1>1, <1>5 DEF Connected
<1> QED BY <1>5, <1>6, DeskDisconnected DEF Lose, NotNewlyReady, GoesOn

(* The attempt gives the dial up; the dial goes on.                        *)
LEMMA DialTimesOutKeeps ==
  ASSUME StreamingInv, DialTimesOut
  PROVE  StreamingInv' /\ NotNewlyReady
<1>1. \A k \in DOMAIN desk.wire : desk.wire[k].waiter # "connect"
  BY DeskIs DEF DialTimesOut
<1>2. /\ Orderly(desk', desk.wire, PlayerOn)
      /\ Attended(desk') /\ desk'.step = "idle" /\ ~desk'.ready
      /\ desk'.wire = desk.wire
  BY <1>1, DeskIs, ConnectFailsFits DEF DialTimesOut
<1>3. Fit(desk', PlayerOn, joined)
  BY <1>2 DEF Fit, JoinFits, Awaits, Settling
<1> QED BY <1>2, <1>3, DeskRestored DEF DialTimesOut, NotNewlyReady

(* The attempt gives the join up, and the connection with it.              *)
LEMMA JoinTimesOutKeeps ==
  ASSUME StreamingInv, JoinTimesOut
  PROVE  StreamingInv' /\ NotNewlyReady
<1>1. /\ Orderly(desk', desk'.wire, PlayerOn) /\ Awaits(desk', desk'.wire) /\ Attended(desk')
      /\ ~Connected(desk') /\ (desk'.ready => desk.ready)
  BY DeskIs, DisconnectFits DEF JoinTimesOut, Fit
<1> QED BY <1>1, DeskDisconnected DEF JoinTimesOut, NotNewlyReady

(* Some invocations are not awaited any more, starts have timed out.       *)
LEMMA ChangedFits ==
  ASSUME NEW d, NEW w, NEW on, Orderly(d, w, on), NEW v \in Wire, DOMAIN v = DOMAIN w,
         \A k \in DOMAIN w :
           /\ v[k].op = w[k].op /\ v[k].party = w[k].party /\ v[k].attempt = w[k].attempt
           /\ v[k].fresh = w[k].fresh /\ v[k].live = w[k].live
           /\ v[k].waiter \in {w[k].waiter, "nobody"}
           /\ v[k].timedOut = w[k].timedOut \/ w[k].attempt # d.inFlight
  PROVE  Orderly(d, v, on)
<1>1. AttemptsFit(d, v)
  BY DEF Orderly, AttemptsFit
<1>2. StartsFit(d, v)
  <2>1. \A k \in DOMAIN w : v[k].attempt = d.inFlight => v[k].timedOut = w[k].timedOut
    OBVIOUS
  <2> QED BY <2>1 DEF Orderly, StartsFit, IsStart
<1>3. WaitersFit(d, v, on)
  <2>1. \A k \in DOMAIN w : v[k].waiter = "connect" => w[k].waiter = "connect"
    OBVIOUS
  <2>2. \A k \in DOMAIN w : IsJoin(v[k]) <=> IsJoin(w[k])
    BY DEF IsJoin
  <2>3. \A k \in DOMAIN w : Publishes(v[k]) <=> Publishes(w[k])
    BY DEF Publishes
  <2> QED BY <2>1, <2>2, <2>3 DEF Orderly, WaitersFit
<1>4. TeardownsFit(d, v)
  <2>1. \A k \in DOMAIN w : v[k].waiter = "teardown" => w[k].waiter = "teardown"
    OBVIOUS
  <2> QED BY <2>1 DEF Orderly, TeardownsFit
<1> QED BY <1>1, <1>2, <1>3, <1>4 DEF Orderly

(* A start times out: it fails for those who wait, and may still arrive.   *)
LEMMA StartTimesOutKeeps ==
  ASSUME StreamingInv, NEW k \in DOMAIN desk.wire, StartTimesOut(k)
  PROVE  StreamingInv' /\ NotNewlyReady
<1> DEFINE w == desk.wire
           i == w[k]
           late == desk.late \ {l \in desk.late : l.newer = i.attempt}
           v == [w EXCEPT ![k] = [i EXCEPT !.timedOut = TRUE, !.waiter = "nobody"]]
           d == [desk EXCEPT !.wire = v]
           s == Settle([desk EXCEPT !.late = late], i.attempt, FALSE)
           t == Settle([d EXCEPT !.late = late], i.attempt, FALSE)
<1>1. /\ desk \in Desk /\ w \in Wire /\ Orderly(desk, w, PlayerOn) /\ i \in Invocations
      /\ IsStart(i) /\ i.attempt > 0 /\ i.waiter # "connect"
  BY DeskIs DEF StartTimesOut, IsStart, Wire, Orderly, StartsFit
<1>2. Connected(desk)
  BY <1>1, DeskIs DEF Wire
<1>3. /\ v \in Wire /\ DOMAIN v = DOMAIN w
      /\ \A j \in DOMAIN w :
           /\ v[j].op = w[j].op /\ v[j].party = w[j].party /\ v[j].attempt = w[j].attempt
           /\ v[j].fresh = w[j].fresh /\ v[j].live = w[j].live
           /\ v[j].waiter \in {w[j].waiter, "nobody"}
           /\ v[j].timedOut = w[j].timedOut \/ j = k
           /\ j # k => v[j] = w[j]
  <2> DEFINE n == [i EXCEPT !.timedOut = TRUE, !.waiter = "nobody"]
  <2>1. /\ n \in Invocations
        /\ n.op = i.op /\ n.party = i.party /\ n.attempt = i.attempt
        /\ n.fresh = i.fresh /\ n.live = i.live /\ n.waiter = "nobody"
    BY <1>1 DEF Invocations
  <2>3. v = [w EXCEPT ![k] = n]
    OBVIOUS
  <2> HIDE DEF n, v
  <2>2. v \in Wire /\ DOMAIN v = DOMAIN w /\ v[k] = n /\ \A j \in DOMAIN w : j # k => v[j] = w[j]
    BY <1>1, <2>1, <2>3 DEF Wire
  <2> QED BY <2>1, <2>2
<1>4. desk' = StartFails(d, i)
  <2>1. [desk EXCEPT !.wire[k].timedOut = TRUE, !.wire[k].waiter = "nobody"] = d
    BY <1>1 DEF Desk, Wire, Invocations
  <2> QED BY <2>1 DEF StartTimesOut
<1> HIDE DEF v
<1>5. /\ d \in Desk /\ d.wire = v /\ Keeps(desk, d) /\ d.late = desk.late
      /\ d.inFlight = desk.inFlight /\ d.lifecycle = desk.lifecycle
  BY <1>1, <1>3 DEF Desk, Wire, Keeps
<1>6. late \in SUBSET desk.late /\ FALSE \in BOOLEAN
  OBVIOUS
<1>7. /\ Orderly(s, w, PlayerOn) /\ Keeps(desk, s)
      /\ s.inFlight = (IF desk.inFlight = i.attempt THEN 0 ELSE desk.inFlight)
  <2> HIDE DEF late
  <2>1. \A started \in BOOLEAN :
          LET m == Settle([desk EXCEPT !.late = late], i.attempt, started) IN
          Orderly(m, w, PlayerOn) /\ Keeps(desk, m)
    BY <1>1, <1>6, SettleFits
  <2>2. s.inFlight = (IF desk.inFlight = i.attempt THEN 0 ELSE desk.inFlight)
    BY <1>1 DEF Settle, Desk
  <2> QED BY <1>6, <2>1, <2>2
<1>8. s.inFlight # i.attempt
  <2> HIDE DEF s, i
  <2>1. i.attempt # 0
    BY <1>1
  <2> QED BY <1>7, <2>1
<1>9. Orderly(s, v, PlayerOn)
  <2> HIDE DEF s
  <2> QED BY <1>3, <1>7, <1>8, ChangedFits
<1>10. t = [s EXCEPT !.wire = v]
  <2> DEFINE n == IF desk.inFlight = i.attempt THEN 0 ELSE desk.inFlight
             m == [j \in DOMAIN desk.lifecycle |->
                     IF desk.lifecycle[j].pending /\ desk.lifecycle[j].attempt = i.attempt
                     THEN [desk.lifecycle[j] EXCEPT !.pending = FALSE, !.started = FALSE]
                     ELSE desk.lifecycle[j]]
  <2> HIDE DEF late, i
  <2>1. s = [[desk EXCEPT !.late = late] EXCEPT !.inFlight = n, !.lifecycle = m]
    BY <1>1 DEF Settle, Desk
  <2>2. t = [[d EXCEPT !.late = late] EXCEPT !.inFlight = n, !.lifecycle = m]
    <3> HIDE DEF d
    <3>1. /\ [d EXCEPT !.late = late].inFlight = desk.inFlight
          /\ [d EXCEPT !.late = late].lifecycle = desk.lifecycle
      BY <1>5 DEF Desk
    <3> QED BY <3>1 DEF Settle
  <2> HIDE DEF n, m, s, t
  <2> QED BY <1>1, <2>1, <2>2 DEF Desk
<1>11. Orderly(t, v, PlayerOn)
  <2>1. Connected(s)
    BY <1>2, <1>7 DEF Keeps, Connected
  <2> HIDE DEF s, t
  <2> QED BY <1>3, <1>9, <1>10, <2>1, WireIsFree
<1>12. (d.step = "starting" /\ d.inFlight = i.attempt) \/ Awaits(d, v)
  <2>1. Awaits(desk, w)
    BY DeskIs DEF Fit
  <2>2. d.step = desk.step /\ d.config = desk.config
    BY <1>5 DEF Keeps
  <2>3. ~IsJoin(i) /\ ~Publishes(i)
    BY <1>1 DEF IsJoin, Publishes, IsStart
  <2> HIDE DEF d
  <2>4. ASSUME ~(d.step = "starting" /\ d.inFlight = i.attempt)
        PROVE  Awaits(d, v)
    <3>1. d.step = "joining" => \E j \in DOMAIN v : IsJoin(v[j]) /\ v[j].waiter = "connect"
      BY <1>3, <2>1, <2>2, <2>3 DEF Awaits
    <3>2. d.step = "syncing" => \E j \in DOMAIN v : Publishes(v[j]) /\ v[j].waiter = "connect"
      BY <1>3, <2>1, <2>2, <2>3 DEF Awaits
    <3>3. ASSUME d.step = "starting"
          PROVE  \E j \in DOMAIN v :
                   IsStart(v[j]) /\ v[j].attempt = d.inFlight /\ v[j].party = d.config.party
      <4>1. PICK j \in DOMAIN w :
              IsStart(w[j]) /\ w[j].attempt = desk.inFlight /\ w[j].party = desk.config.party
        BY <2>1, <2>2, <3>3 DEF Awaits
      <4>2. v[j] = w[j] /\ j \in DOMAIN v
        BY <1>3, <1>5, <2>4, <3>3, <4>1
      <4> QED BY <1>5, <2>2, <4>1, <4>2
    <3> QED BY <3>1, <3>2, <3>3 DEF Awaits
  <2> QED BY <2>4
<1>13. IsFiniteSet(d.late)
  BY <1>1, <1>5 DEF Orderly, AttemptsFit
<1>14. t = Settle([d EXCEPT !.late = @ \ {l \in d.late : l.newer = i.attempt}], i.attempt, FALSE)
  BY <1>5
<1>15. Attended(d) /\ JoinFits(d, v, joined) /\ Connected(d)
  <2>1. Attended(desk) /\ JoinFits(desk, w, joined)
    BY DeskIs DEF Fit
  <2>2. \A j \in DOMAIN w : IsJoin(v[j]) <=> IsJoin(w[j])
    BY <1>3 DEF IsJoin
  <2> QED BY <1>2, <1>3, <1>5, <2>1, <2>2
          DEF Keeps, Attended, JoinFits, Running, Settling, Connected
<1> HIDE DEF d, t, i
<1>16. LET e == StartFails(d, i)
           u == IF Connected(d) THEN e.wire ELSE v
       IN /\ Orderly(e, u, PlayerOn) /\ Awaits(e, u) /\ GoesOn(d, e)
          /\ Attended(d) => Attended(e)
          /\ \A at : JoinFits(d, v, at) => JoinFits(e, u, at)
  BY <1>1, <1>5, <1>11, <1>12, <1>13, <1>14, StartFailsFits
<1>17. Fit(desk', PlayerOn, joined) /\ GoesOn(d, desk')
  BY <1>4, <1>15, <1>16 DEF Fit
<1> QED BY <1>5, <1>17, DeskRestored DEF StartTimesOut, NotNewlyReady, GoesOn, Keeps

(* A publication times out.                                                *)
LEMMA PublishTimesOutKeeps ==
  ASSUME StreamingInv, NEW k \in DOMAIN desk.wire, PublishTimesOut(k)
  PROVE  StreamingInv' /\ NotNewlyReady
<1> DEFINE w == desk.wire
           i == w[k]
           v == [w EXCEPT ![k] = [i EXCEPT !.waiter = "nobody"]]
           c == [desk EXCEPT !.wire = v]
<1>1. /\ desk \in Desk /\ w \in Wire /\ Orderly(desk, w, PlayerOn) /\ i \in Invocations
      /\ Publishes(i)
  BY DeskIs DEF PublishTimesOut, Publishes, Wire
<1>2. Connected(desk)
  BY <1>1, DeskIs DEF Wire
<1>3. /\ v \in Wire /\ DOMAIN v = DOMAIN w
      /\ \A j \in DOMAIN w :
           /\ v[j].op = w[j].op /\ v[j].party = w[j].party /\ v[j].attempt = w[j].attempt
           /\ v[j].fresh = w[j].fresh /\ v[j].live = w[j].live
           /\ v[j].waiter \in {w[j].waiter, "nobody"}
           /\ v[j].timedOut = w[j].timedOut
           /\ j # k => v[j] = w[j]
      /\ v[k].waiter = "nobody"
  <2>1. [i EXCEPT !.waiter = "nobody"] \in Invocations
    BY <1>1 DEF Invocations
  <2> QED BY <1>1, <2>1 DEF Wire, Invocations
<1>4. [desk EXCEPT !.wire[k].waiter = "nobody"] = c
  BY <1>1 DEF Desk, Wire, Invocations
<1>5. desk' = CASE i.waiter = "connect" -> ConnectFails(c)
                [] i.waiter = "publish" -> PublishFails(c)
                [] i.waiter = "stop" -> c
  BY <1>4 DEF PublishTimesOut
<1>6. i.waiter \in {"connect", "publish", "stop"}
  BY DEF PublishTimesOut
<1> HIDE DEF v
<1>7. c.wire = v /\ Keeps(desk, c) /\ c.inFlight = desk.inFlight
  BY <1>1, <1>3 DEF Desk, Wire, Keeps
<1>8. Orderly(c, v, PlayerOn)
  <2>1. Orderly(desk, v, PlayerOn)
    BY <1>1, <1>3, ChangedFits
  <2> QED BY <1>2, <1>3, <2>1, WireIsFree
<1>9. Attended(c) /\ JoinFits(c, v, joined)
  <2>1. Attended(desk) /\ JoinFits(desk, w, joined)
    BY DeskIs DEF Fit
  <2>2. \A j \in DOMAIN w : IsJoin(v[j]) <=> IsJoin(w[j])
    BY <1>3 DEF IsJoin
  <2> QED BY <1>3, <1>7, <2>1, <2>2 DEF Keeps, Attended, JoinFits, Running, Settling, Connected
<1>10. i.waiter # "connect" => Awaits(c, v)
  <2>1. Awaits(desk, w)
    BY DeskIs DEF Fit
  <2>2. \A j \in DOMAIN w : (IsJoin(v[j]) <=> IsJoin(w[j])) /\ (IsStart(v[j]) <=> IsStart(w[j]))
                            /\ (Publishes(v[j]) <=> Publishes(w[j]))
    BY <1>3 DEF IsJoin, IsStart, Publishes
  <2>3. ASSUME i.waiter # "connect", NEW j \in DOMAIN w, w[j].waiter = "connect"
        PROVE  v[j].waiter = "connect"
    BY <1>3, <2>3
  <2> QED BY <1>3, <1>7, <2>1, <2>2, <2>3 DEF Awaits, Keeps
<1> HIDE DEF c
<1>11. Fit(desk', PlayerOn, joined) /\ (desk'.ready => desk.ready)
  <2>1. CASE i.waiter = "connect"
    <3>1. \A j \in DOMAIN v : v[j].waiter # "connect"
      BY <1>1, <1>3, <2>1 DEF Orderly, WaitersFit
    <3>2. desk' = ConnectFails(c)
      BY <1>5, <2>1
    <3>3. /\ Orderly(desk', v, PlayerOn) /\ Attended(desk') /\ desk'.step = "idle" /\ ~desk'.ready
          /\ desk'.wire = c.wire
      BY <1>8, <3>1, <3>2, ConnectFailsFits
    <3> QED BY <1>7, <3>3 DEF Fit, JoinFits, Awaits, Settling
  <2>2. CASE i.waiter = "publish"
    <3>1. desk' = PublishFails(c)
      BY <1>5, <2>2
    <3>2. /\ Orderly(desk', v, PlayerOn) /\ Attended(desk') /\ desk'.step = c.step /\ ~desk'.ready
          /\ desk'.inFlight = c.inFlight /\ desk'.config = c.config /\ desk'.wire = c.wire
          /\ desk'.link = c.link
      BY <1>8, <3>1, PublishFailsFits
    <3>3. Awaits(desk', v) /\ JoinFits(desk', v, joined)
      BY <1>9, <1>10, <2>2, <3>2 DEF Awaits, JoinFits, Settling, Running, Connected
    <3> QED BY <1>7, <3>2, <3>3 DEF Fit
  <2>3. CASE i.waiter = "stop"
    BY <1>5, <1>7, <1>8, <1>9, <1>10, <2>3 DEF Fit, Keeps
  <2> QED BY <1>6, <2>1, <2>2, <2>3
<1> QED BY <1>11, DeskRestored DEF PublishTimesOut, NotNewlyReady

(* The event loop.                                                         *)

(* It joins once it is connected.                                          *)
LEMMA JoinPartyFits ==
  ASSUME NEW d, NEW on, Orderly(d, d.wire, on), Connected(d), Running(d),
         \A k \in DOMAIN d.wire :
           IsJoin(d.wire[k]) /\ d.ready => d.wire[k].party = d.config.party,
         d.step \in {"checking", "dialing"}, NEW at
  PROVE  LET e == JoinParty(d) IN Fit(e, on, at) /\ e.ready = d.ready
<1> DEFINE c == [d EXCEPT !.step = "joining", !.dials = FALSE]
           i == Invocation("Join", d.config.party, "connect")
           e == JoinParty(d)
<1>1. d \in Desk /\ d.config.party \in Party /\ d.lastAttempt \in Nat
  BY DEF Orderly, Desk, Running, Config
<1>2. \A k \in DOMAIN d.wire : d.wire[k].waiter # "connect"
  BY DEF Orderly, WaitersFit
<1>3. /\ c \in Desk /\ Akin(d, c) /\ c.wire = d.wire /\ c.step = "joining" /\ c.ready = d.ready
      /\ c.link = d.link /\ c.subscribed = d.subscribed /\ c.currentParty = d.currentParty
      /\ c.timer = d.timer /\ c.coalescing = d.coalescing /\ c.config = d.config
      /\ c.lastAttempt = d.lastAttempt
  BY <1>1 DEF Desk, Steps, Akin
<1>4. e = Invoke(c, i)
  BY DEF JoinParty
<1>5. /\ i \in Invocations /\ i.waiter = "connect" /\ i.fresh /\ i.attempt = 0
      /\ i.party = d.config.party /\ IsJoin(i)
  BY <1>1 DEF Invocation, Invocations, IsJoin
<1> HIDE DEF c, i, e
<1>6. Orderly(c, c.wire, on) /\ Connected(c) /\ Running(c)
  <2>1. RestFits(c) /\ LinkFits(c) /\ PartyFits(c)
    BY <1>3 DEF Orderly, RestFits, LinkFits, PartyFits, Running, Connected, Settling
  <2>2. Orderly(c, d.wire, on)
    BY <1>2, <1>3, <2>1, FreeFits
  <2> QED BY <1>3, <2>2 DEF Connected, Running
<1>7. /\ i.attempt <= c.lastAttempt /\ i.party = c.config.party
      /\ \A k \in DOMAIN c.wire : c.wire[k].waiter # "connect"
  BY <1>1, <1>2, <1>3, <1>5
<1>8. /\ Orderly(e, e.wire, on) /\ Awaits(e, e.wire) /\ Attended(e) /\ Keeps(c, e)
      /\ \A k \in DOMAIN e.wire : k \in DOMAIN c.wire \/ e.wire[k] = i
      /\ \A k \in DOMAIN c.wire : k \in DOMAIN e.wire /\ e.wire[k] = c.wire[k]
      /\ \E k \in DOMAIN e.wire : e.wire[k] = i
  BY <1>3, <1>4, <1>5, <1>6, <1>7, InvokeAwaitedFits
<1>9. JoinFits(e, e.wire, at)
  BY <1>3, <1>5, <1>8 DEF JoinFits, Keeps, Settling, Running
<1> QED BY <1>3, <1>8, <1>9 DEF Fit, Keeps, e

(* The party exists.                                                       *)
LEMMA PartyExistsKeeps ==
  ASSUME StreamingInv, PartyExists
  PROVE  StreamingInv' /\ NotNewlyReady
<1>1. desk \in Desk /\ Running(desk) /\ desk.step = "checking" /\ Orderly(desk, desk.wire, PlayerOn)
  BY DeskIs DEF PartyExists
<1>2. CASE Connected(desk)
  <2>1. desk' = JoinParty(desk)
    BY <1>2 DEF PartyExists
  <2>2. \A k \in DOMAIN desk.wire :
          IsJoin(desk.wire[k]) /\ desk.ready => desk.wire[k].party = desk.config.party
    BY <1>1, <1>2, DeskIs DEF Fit, JoinFits, Settling
  <2>3. Fit(desk', PlayerOn, joined) /\ desk'.ready = desk.ready
    BY <1>1, <1>2, <2>1, <2>2, JoinPartyFits
  <2> QED BY <2>3, DeskRestored DEF PartyExists, NotNewlyReady
<1>3. CASE ~Connected(desk)
  <2> DEFINE e == Dial(desk)
  <2>1. desk' = e
    BY <1>3 DEF PartyExists
  <2>2. /\ Akin(desk, e) /\ e.wire = desk.wire /\ e.currentParty = desk.currentParty
        /\ e.ready = desk.ready /\ e.subscribed = desk.subscribed
        /\ e.coalescing = desk.coalescing /\ e.step = "dialing" /\ e.timer = desk.timer
        /\ e.link \in {"preparing", "starting"}
    BY <1>1, DialIs
  <2> HIDE DEF e
  <2>3. Running(e) /\ Attended(e) /\ ~Connected(e)
    BY <1>1, <2>2 DEF Akin, Running, Attended, Connected
  <2>4. \A k \in DOMAIN desk.wire : desk.wire[k].waiter # "connect"
    BY <1>1, DeskIs
  <2>5. Fit(e, PlayerOn, joined)
    BY <1>3, <2>2, <2>3, <2>4, TurnFits
  <2> QED BY <2>1, <2>2, <2>5, DeskRestored DEF PartyExists, NotNewlyReady
<1> QED BY <1>2, <1>3

(* A step of the link alone, with nothing on the wire.                     *)
LEMMA LinkFitsStill ==
  ASSUME StreamingInv, ~Connected(desk), NEW link \in Links,
         desk.ready /\ link \in {"preparing", "starting"} => desk.step = "dialing",
         desk.step = "dialing" => link \in {"preparing", "starting", "connected"}
  PROVE  LET e == [desk EXCEPT !.link = link] IN
         /\ Akin(desk, e) /\ e.wire = <<>> /\ e.ready = desk.ready /\ e.step = desk.step
         /\ e.link = link /\ e.currentParty = desk.currentParty /\ e.timer = desk.timer
         /\ e.blocked = desk.blocked /\ e.subscribed = desk.subscribed
         /\ e.coalescing = desk.coalescing
         /\ RestFits(e) /\ PartyFits(e) /\ Awaits(e, <<>>)
         /\ desk.step # "dialing" \/ link # "connected" => Orderly(e, <<>>, PlayerOn)
<1> DEFINE e == [desk EXCEPT !.link = link]
<1>1. desk \in Desk /\ desk.wire = <<>> /\ Orderly(desk, desk.wire, PlayerOn)
      /\ Awaits(desk, desk.wire)
  BY DeskIs DEF Fit
<1>2. /\ Akin(desk, e) /\ e.wire = <<>> /\ e.ready = desk.ready /\ e.step = desk.step
      /\ e.link = link /\ e.currentParty = desk.currentParty /\ e.timer = desk.timer
      /\ e.blocked = desk.blocked /\ e.subscribed = desk.subscribed
      /\ e.coalescing = desk.coalescing
  BY <1>1 DEF Desk, Akin
<1> HIDE DEF e
<1>3. RestFits(e) /\ PartyFits(e) /\ Awaits(e, <<>>)
  BY <1>1, <1>2 DEF Orderly, RestFits, PartyFits, Awaits, Settling, Running, Akin
<1>4. desk.step # "dialing" \/ link # "connected" => Orderly(e, <<>>, PlayerOn)
  <2>1. ASSUME desk.step # "dialing" \/ link # "connected"
        PROVE  LinkFits(e)
    BY <1>1, <1>2, <2>1 DEF Orderly, LinkFits, Connected, Akin
  <2>2. \A k \in DOMAIN desk.wire : desk.wire[k].waiter # "connect"
    BY <1>1
  <2>3. ASSUME desk.step # "dialing" \/ link # "connected"
        PROVE  Orderly(e, desk.wire, PlayerOn)
    BY <1>1, <1>2, <1>3, <2>1, <2>2, <2>3, FreeFits
  <2> QED BY <1>1, <2>3
<1> QED BY <1>2, <1>3, <1>4 DEF e

(* A dial gets its connection object.                                      *)
LEMMA DialStartsKeeps ==
  ASSUME StreamingInv, DialStarts
  PROVE  StreamingInv' /\ NotNewlyReady
<1> DEFINE link == "starting"
<1>1. /\ ~Connected(desk) /\ link \in Links /\ link # "connected"
      /\ desk.ready => desk.step = "dialing"
      /\ link \in {"preparing", "starting"}
  BY DeskIs DEF DialStarts, Links, Connected, Orderly, LinkFits
<1>2. desk' = [desk EXCEPT !.link = link]
  BY DEF DialStarts
<1> HIDE DEF link
<1>3. LET e == [desk EXCEPT !.link = link] IN
      /\ Akin(desk, e) /\ e.wire = <<>> /\ e.ready = desk.ready /\ e.step = desk.step
      /\ e.link = link /\ e.timer = desk.timer /\ e.blocked = desk.blocked
      /\ Awaits(e, <<>>) /\ Orderly(e, <<>>, PlayerOn)
  BY <1>1, LinkFitsStill
<1>4. Attended(desk')
  BY <1>1, <1>2, <1>3, DeskIs DEF Fit, Attended, Running, Akin
<1>5. JoinFits(desk', <<>>, joined)
  BY <1>1, <1>2, <1>3 DEF JoinFits, Connected
<1>6. Fit(desk', PlayerOn, joined)
  BY <1>2, <1>3, <1>4, <1>5 DEF Fit
<1> QED BY <1>2, <1>3, <1>6, DeskRestored DEF DialStarts, NotNewlyReady

(* A dial succeeds, with or without an attempt that waits for it.          *)
LEMMA DialSucceedsKeeps ==
  ASSUME StreamingInv, DialSucceeds
  PROVE  StreamingInv' /\ NotNewlyReady
<1> DEFINE link == "connected"
           c == [desk EXCEPT !.link = link]
<1>1. /\ ~Connected(desk) /\ link \in Links /\ link \notin {"preparing", "starting"}
      /\ desk.ready => desk.step = "dialing"
      /\ desk.wire = <<>> /\ desk \in Desk /\ (desk.ready => desk.subscribed)
  BY DeskIs DEF DialSucceeds, Links, Connected, Orderly, LinkFits
<1>2. desk' = IF desk.step = "dialing" THEN JoinParty(c) ELSE c
  BY DEF DialSucceeds
<1>d. link = "connected"
  OBVIOUS
<1> HIDE DEF link
<1>3. /\ Akin(desk, c) /\ c.wire = <<>> /\ c.ready = desk.ready /\ c.step = desk.step
      /\ c.link = link /\ c.timer = desk.timer /\ c.blocked = desk.blocked
      /\ c.subscribed = desk.subscribed /\ RestFits(c) /\ PartyFits(c)
      /\ Awaits(c, <<>>)
      /\ desk.step # "dialing" => Orderly(c, <<>>, PlayerOn)
  BY <1>1, <1>d, LinkFitsStill
<1> HIDE DEF c
<1>4. CASE desk.step = "dialing"
  <2>1. \A k \in DOMAIN desk.wire : desk.wire[k].waiter # "connect"
    BY <1>1
  <2> DEFINE b == [c EXCEPT !.step = "checking"]
  <2>3. /\ Akin(desk, b) /\ b.wire = <<>> /\ b.ready = desk.ready /\ b.step = "checking"
        /\ b.link = link /\ b.currentParty = c.currentParty /\ b.timer = c.timer
        /\ b.coalescing = c.coalescing /\ b.subscribed = c.subscribed
    BY <1>3 DEF Akin, Desk, Steps
  <2>2. LinkFits(b)
    BY <1>1, <1>3, <1>d, <2>3 DEF LinkFits, Connected
  <2>4. JoinParty(c) = JoinParty(b)
    <3>1. [c EXCEPT !.step = "joining", !.dials = FALSE] = [b EXCEPT !.step = "joining", !.dials = FALSE]
      BY <1>3 DEF Akin, Desk
    <3>2. c.config = b.config
      BY <1>3, <2>3 DEF Akin
    <3> HIDE DEF b
    <3> QED BY <3>1, <3>2 DEF JoinParty
  <2> HIDE DEF b
  <2>5. Running(desk)
    BY <1>4, DeskIs
  <2>6. RestFits(b) /\ PartyFits(b)
    BY <1>3, <2>3, <2>5 DEF RestFits, PartyFits, Settling, Running, Akin
  <2>7. Orderly(b, desk.wire, PlayerOn)
    BY <1>1, <2>1, <2>2, <2>3, <2>6, FreeFits, DeskIs
  <2>8. Connected(b) /\ Running(b) /\ Orderly(b, b.wire, PlayerOn)
        /\ b.step \in {"checking", "dialing"}
    BY <1>1, <1>d, <2>3, <2>5, <2>7 DEF Connected, Running, Akin
  <2>9. Fit(JoinParty(b), PlayerOn, joined) /\ JoinParty(b).ready = b.ready
    BY <2>3, <2>8, JoinPartyFits
  <2> QED BY <1>2, <1>4, <2>3, <2>4, <2>9, DeskRestored DEF DialSucceeds, NotNewlyReady
<1>5. CASE desk.step # "dialing"
  <2>1. desk' = c /\ ~c.ready
    BY <1>1, <1>2, <1>3, <1>5
  <2>2. Attended(c)
    BY <1>3, <2>1, DeskIs DEF Fit, Attended, Running, Akin
  <2>3. JoinFits(c, <<>>, joined)
    BY <1>3, <2>1 DEF JoinFits, Settling, Awaits
  <2>4. Fit(c, PlayerOn, joined)
    BY <1>3, <1>5, <2>2, <2>3 DEF Fit
  <2> QED BY <2>1, <2>4, DeskRestored DEF DialSucceeds, NotNewlyReady
<1> QED BY <1>4, <1>5

(* The client has reconnected and joins the party it knows of.             *)
LEMMA ReconnectedKeeps ==
  ASSUME StreamingInv, Reconnected
  PROVE  StreamingInv' /\ NotNewlyReady
<1> DEFINE link == "connected"
           c == [desk EXCEPT !.link = link]
           i == Invocation("Join", desk.currentParty, "rejoin")
<1>1. /\ ~Connected(desk) /\ link \in Links /\ link \notin {"preparing", "starting"}
      /\ desk.step # "dialing"
      /\ desk.wire = <<>> /\ desk \in Desk
  BY DeskIs DEF Reconnected, Links, Connected, Orderly, LinkFits
<1>2. desk' = IF desk.currentParty = NoParty THEN c ELSE Invoke(c, i)
  BY DEF Reconnected
<1>d. link = "connected"
  OBVIOUS
<1> HIDE DEF link
<1>3. /\ Akin(desk, c) /\ c.wire = <<>> /\ c.ready = desk.ready /\ c.step = desk.step
      /\ c.link = link /\ c.timer = desk.timer /\ c.blocked = desk.blocked
      /\ c.currentParty = desk.currentParty
      /\ PartyFits(c) /\ Awaits(c, <<>>)
      /\ Orderly(c, <<>>, PlayerOn)
  BY <1>1, LinkFitsStill
<1> HIDE DEF c
<1>4. Connected(c) /\ Attended(c) /\ c \in Desk
  BY <1>3, <1>d, DeskIs DEF Fit, Attended, Running, Akin, Connected
<1>5. CASE desk.currentParty = NoParty
  <2>1. desk' = c
    BY <1>2, <1>5
  <2>2. ~Settling(c)
    <3>1. Running(c) => c.config.party \in Party
      BY <1>4 DEF Desk, Running, Config
    <3> QED BY <1>3, <1>5, <3>1, StreamingAssumption DEF PartyFits, Settling
  <2>3. Fit(c, PlayerOn, joined)
    BY <1>3, <1>4, <2>2 DEF Fit, JoinFits
  <2> QED BY <1>3, <2>1, <2>3, DeskRestored DEF Reconnected, NotNewlyReady
<1>6. CASE desk.currentParty # NoParty
  <2>1. desk' = Invoke(c, i)
    BY <1>2, <1>6
  <2>2. i \in Invocations /\ i.party = desk.currentParty /\ IsJoin(i) /\ Plain(c, i)
        /\ i.waiter = "rejoin"
    BY <1>1, <1>4, <1>6 DEF Invocation, Invocations, IsJoin, Plain, IsStart, Desk
  <2> DEFINE e == Invoke(c, i)
             v == Append(c.wire, i)
  <2>3. v = <<i>> /\ v \in Wire
    BY <1>3, <2>2 DEF Wire
  <2> HIDE DEF i
  <2>4. e.wire = v /\ e = [c EXCEPT !.wire = v] /\ Keeps(c, e)
    BY <1>4, <2>2, InvokeIs
  <2> HIDE DEF e, v
  <2>5. Orderly(c, v, PlayerOn)
    <3>1. AttemptsFit(c, v) /\ StartsFit(c, v)
      BY <1>3, <2>2, <2>3 DEF Orderly, AttemptsFit, StartsFit, Plain
    <3>2. WaitersFit(c, v, PlayerOn)
      BY <2>2, <2>3 DEF WaitersFit
    <3>3. TeardownsFit(c, v)
      BY <1>3, <2>2, <2>3 DEF Orderly, TeardownsFit
    <3> QED BY <1>3, <2>3, <3>1, <3>2, <3>3 DEF Orderly
  <2>6. Orderly(e, v, PlayerOn)
    BY <1>4, <2>3, <2>4, <2>5, WireIsFree
  <2>7. Attended(e) /\ Awaits(e, v)
    BY <1>3, <1>4, <2>4 DEF Attended, Awaits, Keeps, Running
  <2>8. JoinFits(e, v, joined)
    BY <1>3, <2>2, <2>3, <2>4 DEF JoinFits, PartyFits, Keeps, Settling, Running
  <2>9. Fit(e, PlayerOn, joined)
    BY <2>4, <2>6, <2>7, <2>8 DEF Fit
  <2> QED BY <1>3, <2>1, <2>4, <2>9, DeskRestored DEF Reconnected, NotNewlyReady, Keeps, e
<1> QED BY <1>5, <1>6

(* The client has given reconnecting up.                                   *)
LEMMA ExhaustedKeeps ==
  ASSUME StreamingInv, Exhausted
  PROVE  StreamingInv' /\ NotNewlyReady
<1> DEFINE link == "none"
           c == [desk EXCEPT !.link = link]
<1>1. /\ ~Connected(desk) /\ link \in Links /\ link \notin {"preparing", "starting", "connected"}
      /\ desk.step # "dialing"
  BY DeskIs DEF Exhausted, Links, Connected, Orderly, LinkFits
<1>2. desk' = ScheduleReconnect(c)
  BY DEF Exhausted
<1> HIDE DEF link
<1>3. /\ Akin(desk, c) /\ c.wire = <<>> /\ c.ready = desk.ready /\ c.step = desk.step
      /\ c.link = link /\ c.timer = desk.timer /\ c.blocked = desk.blocked
      /\ Awaits(c, <<>>)
      /\ Orderly(c, <<>>, PlayerOn)
  BY <1>1, LinkFitsStill
<1> HIDE DEF c
<1>4. /\ Orderly(desk', <<>>, PlayerOn) /\ Keeps(c, desk')
  BY <1>2, <1>3, ScheduleReconnectFits
<1>5. desk'.wire = <<>> /\ (desk'.timer <=> c.timer \/ Running(c))
  BY <1>2, <1>3, ScheduleReconnectIs DEF Akin
<1>6. Attended(desk') /\ Awaits(desk', <<>>) /\ JoinFits(desk', <<>>, joined)
  BY <1>1, <1>3, <1>4, <1>5 DEF Attended, Awaits, JoinFits, Keeps, Running, Connected
<1>7. Fit(desk', PlayerOn, joined)
  BY <1>4, <1>5, <1>6 DEF Fit
<1> QED BY <1>3, <1>4, <1>7, DeskRestored DEF Exhausted, NotNewlyReady, Keeps

(* The reconnect timer.                                                    *)
LEMMA TimerFiresKeeps ==
  ASSUME StreamingInv, TimerFires
  PROVE  StreamingInv' /\ NotNewlyReady
<1> DEFINE c == [desk EXCEPT !.timer = FALSE]
<1>1. desk \in Desk /\ Orderly(desk, desk.wire, PlayerOn) /\ Fit(desk, PlayerOn, joined)
      /\ Running(desk) /\ (desk.coalescing => Running(desk))
  BY DeskIs DEF TimerFires, Orderly, RestFits
<1>2. /\ c \in Desk /\ Alike(desk, c) /\ Akin(desk, c) /\ c.step = desk.step
      /\ c.ready = desk.ready /\ ~c.timer /\ c.blocked = desk.blocked
      /\ c.wire = desk.wire /\ c.currentParty = desk.currentParty /\ c.link = desk.link
      /\ c.subscribed = desk.subscribed /\ c.coalescing = desk.coalescing
  BY <1>1 DEF Alike, Akin, Desk
<1>3. desk' = Connect(c)
  BY DEF TimerFires
<1> HIDE DEF c
<1>4. CASE desk.step # "idle"
  <2>1. desk' = c
    BY <1>2, <1>3, <1>4 DEF Connect
  <2>2. Orderly(c, desk.wire, PlayerOn)
    BY <1>1, <1>2, AlikeFits
  <2>3. Attended(c) /\ Awaits(c, c.wire) /\ JoinFits(c, c.wire, joined)
    BY <1>1, <1>2, <1>4 DEF Attended, Fit, Awaits, JoinFits, Settling, Running, Connected, Akin
  <2>4. Fit(c, PlayerOn, joined)
    BY <1>2, <2>2, <2>3 DEF Fit
  <2> QED BY <1>2, <2>1, <2>4, DeskRestored DEF TimerFires, NotNewlyReady
<1>5. CASE desk.step = "idle"
  <2> DEFINE e == Connect(c)
  <2>1. /\ e \in Desk /\ e.step = "checking" /\ ~e.timer
        /\ e.config = c.config /\ e.ready = c.ready /\ e.wire = c.wire
        /\ e.subscribed = c.subscribed /\ e.coalescing = c.coalescing
        /\ e.lastAttempt = c.lastAttempt /\ e.inFlight = c.inFlight /\ e.active = c.active
        /\ e.handled = c.handled /\ e.late = c.late /\ e.lifecycle = c.lifecycle
        /\ e.link = c.link /\ e.currentParty = c.currentParty
    BY <1>2, <1>5, ConnectIs
  <2> HIDE DEF e
  <2>2. Akin(desk, e) /\ Running(e) /\ Attended(e)
    BY <1>1, <1>2, <2>1 DEF Akin, Running, Attended
  <2>3. ~(e.ready /\ e.link \in {"preparing", "starting"})
    BY <1>1, <1>2, <1>5, <2>1 DEF Orderly, LinkFits
  <2>4. \A k \in DOMAIN desk.wire : desk.wire[k].waiter # "connect"
    BY <1>5, DeskIs
  <2>5. e.wire = desk.wire /\ e.ready = desk.ready /\ e.currentParty = desk.currentParty
        /\ e.subscribed = desk.subscribed /\ e.coalescing = desk.coalescing
        /\ e.link = desk.link
    BY <1>2, <2>1
  <2>6. Fit(e, PlayerOn, joined)
    BY <2>1, <2>2, <2>3, <2>4, <2>5, TurnFits
  <2> QED BY <1>3, <2>5, <2>6, DeskRestored DEF TimerFires, NotNewlyReady, e
<1> QED BY <1>4, <1>5

(* The timer of the coalesced publication.                                 *)
LEMMA PublishChangesKeeps ==
  ASSUME StreamingInv, PublishChanges
  PROVE  StreamingInv' /\ NotNewlyReady
<1> DEFINE c == [desk EXCEPT !.coalescing = FALSE]
<1>1. desk \in Desk /\ Orderly(desk, desk.wire, PlayerOn) /\ Fit(desk, PlayerOn, joined)
      /\ Running(desk)
  BY DeskIs DEF PublishChanges, Orderly, RestFits
<1>2. /\ c \in Desk /\ Alike(desk, c) /\ Akin(desk, c) /\ c.step = desk.step
      /\ c.ready = desk.ready /\ c.timer = desk.timer /\ c.blocked = desk.blocked
      /\ c.wire = desk.wire /\ c.currentParty = desk.currentParty /\ c.link = desk.link
      /\ c.config = desk.config
  BY <1>1 DEF Alike, Akin, Desk
<1>3. desk' = CASE ~Connected(c) -> PublishFails(c)
                [] Connected(c) /\ NothingToPublish(c) -> c
                [] Connected(c) /\ ~NothingToPublish(c) -> Publish(c, "publish")
  BY DEF PublishChanges
<1> HIDE DEF c
<1>4. Orderly(c, c.wire, PlayerOn)
  BY <1>1, <1>2, AlikeFits
<1>5. Attended(c) /\ Awaits(c, c.wire) /\ JoinFits(c, c.wire, joined)
  BY <1>1, <1>2 DEF Attended, Fit, Awaits, JoinFits, Settling, Running, Connected, Akin
<1>6. Fit(c, PlayerOn, joined)
  BY <1>4, <1>5 DEF Fit
<1>7. CASE ~Connected(c)
  <2> DEFINE e == PublishFails(c)
  <2>1. /\ Orderly(e, c.wire, PlayerOn)
        /\ Attended(e) /\ e.step = c.step /\ ~e.ready /\ e.inFlight = c.inFlight
        /\ e.config = c.config /\ e.link = c.link /\ e.wire = c.wire
    BY <1>4, PublishFailsFits
  <2>2. desk' = e
    BY <1>3, <1>7
  <2> HIDE DEF e
  <2>3. Awaits(e, e.wire) /\ JoinFits(e, e.wire, joined)
    BY <1>5, <1>7, <2>1 DEF Awaits, JoinFits, Connected
  <2>4. Fit(e, PlayerOn, joined)
    BY <2>1, <2>3 DEF Fit
  <2> QED BY <2>1, <2>2, <2>4, DeskRestored DEF PublishChanges, NotNewlyReady
<1>8. CASE Connected(c) /\ NothingToPublish(c)
  BY <1>2, <1>3, <1>6, <1>8, DeskRestored DEF PublishChanges, NotNewlyReady
<1>9. CASE Connected(c) /\ ~NothingToPublish(c)
  <2> DEFINE live == Live(c)
             i == [Invocation("Notify", c.config.party, "publish") EXCEPT !.live = live]
  <2>1. desk' = Invoke(c, i)
    BY <1>3, <1>9 DEF Publish
  <2>2. c.lastAttempt \in Nat /\ c.config.party \in Party /\ c.config.source \in Source
    BY <1>1, <1>2, DeskIs DEF Desk
  <2>3. live \in BOOLEAN
    BY DEF Live
  <2> HIDE DEF live
  <2>6. i \in Invocations /\ i.waiter = "publish" /\ i.op = "Notify" /\ i.attempt = 0
    BY <2>2, <2>3 DEF Invocation, Invocations
  <2> HIDE DEF i
  <2>4. Plain(c, i) /\ ~IsJoin(i)
    BY <2>2, <2>6 DEF Plain, IsStart, IsJoin
  <2>5. Fit(Invoke(c, i), PlayerOn, joined) /\ Keeps(c, Invoke(c, i))
    BY <1>6, <1>9, <2>4, PlainIsFit
  <2> QED BY <1>2, <2>1, <2>5, DeskRestored DEF PublishChanges, NotNewlyReady, Keeps
<1> QED BY <1>7, <1>8, <1>9

(* The first teardown, which waits for no invocation, goes on.             *)
LEMMA GoesOnFits ==
  ASSUME NEW d, NEW w, NEW on, Orderly(d, w, on), d.lifecycle # <<>>,
         \A k \in DOMAIN w : w[k].waiter # "teardown",
         NEW at \in {"queued", "waiting", "ending", "ended", "resetting"},
         NEW e, e = [d EXCEPT !.lifecycle[1].at = at]
  PROVE  /\ Orderly(e, w, on) /\ Keeps(d, e)
         /\ e.wire = d.wire /\ e.inFlight = d.inFlight /\ e.lastAttempt = d.lastAttempt
         /\ e.lifecycle # <<>> /\ e.lifecycle[1].at = at
<1> DEFINE l == [d.lifecycle EXCEPT ![1].at = at]
<1>1. d \in Desk /\ d.lifecycle \in Seq(Teardowns) /\ 1 \in DOMAIN d.lifecycle
      /\ d.lifecycle[1] \in Teardowns
  BY DEF Orderly, Desk
<1>2. [d.lifecycle[1] EXCEPT !.at = at] \in Teardowns
  BY <1>1 DEF Teardowns
<1>3. /\ l \in Seq(Teardowns) /\ DOMAIN l = DOMAIN d.lifecycle
      /\ \A k \in DOMAIN l : l[k].fresh = d.lifecycle[k].fresh
                             /\ l[k].attempt = d.lifecycle[k].attempt
                             /\ l[k].owner = d.lifecycle[k].owner
      /\ l[1].at = at /\ l # <<>>
  BY <1>1, <1>2 DEF Teardowns
<1>4. e = [d EXCEPT !.lifecycle = l]
  BY <1>1 DEF Desk
<1> HIDE DEF l
<1>5. /\ e \in Desk /\ e.lifecycle = l
      /\ e.config = d.config /\ e.step = d.step /\ e.ready = d.ready /\ e.blocked = d.blocked
      /\ e.subscribed = d.subscribed /\ e.behind = d.behind /\ e.coalescing = d.coalescing
      /\ e.lastAttempt = d.lastAttempt /\ e.inFlight = d.inFlight /\ e.active = d.active
      /\ e.handled = d.handled /\ e.late = d.late
      /\ e.link = d.link /\ e.currentParty = d.currentParty /\ e.wire = d.wire
      /\ e.timer = d.timer
  BY <1>1, <1>3, <1>4 DEF Desk
<1>6. AttemptsFit(e, w)
  BY <1>3, <1>5 DEF Orderly, AttemptsFit
<1>7. StartsFit(e, w) /\ WaitersFit(e, w, on)
  BY <1>5 DEF Orderly, StartsFit, WaitersFit, Running
<1>8. TeardownsFit(e, w)
  BY <1>3, <1>5 DEF Orderly, TeardownsFit, Running
<1>9. RestFits(e) /\ LinkFits(e) /\ PartyFits(e)
  BY <1>5 DEF Orderly, RestFits, LinkFits, PartyFits, Running, Connected, Settling
<1>10. Orderly(e, w, on)
  BY <1>5, <1>6, <1>7, <1>8, <1>9 DEF Orderly
<1> QED BY <1>3, <1>5, <1>10 DEF Keeps

(* The first teardown is not in a call of its own.                         *)
LEMMA TearingDownIs ==
  ASSUME StreamingInv, NEW ats, TearingDown(ats), ats \subseteq {"queued", "waiting", "ended"}
  PROVE  /\ desk.lifecycle # <<>> /\ Head(desk.lifecycle) = desk.lifecycle[1]
         /\ desk.lifecycle[1] \in Teardowns /\ 1 \in DOMAIN desk.lifecycle
         /\ \A k \in DOMAIN desk.wire : desk.wire[k].waiter # "teardown"
         /\ UNCHANGED <<session, joined, sourceLive>>
         /\ desk.lifecycle[1].fresh => ~Running(desk)
<1>1. desk \in Desk /\ Orderly(desk, desk.wire, PlayerOn)
  BY DeskIs
<1>2. desk.lifecycle # <<>> /\ Head(desk.lifecycle) = desk.lifecycle[1]
      /\ desk.lifecycle[1] \in Teardowns /\ 1 \in DOMAIN desk.lifecycle
  BY <1>1 DEF TearingDown, Desk
<1>3. desk.lifecycle[1].at \notin {"ending", "resetting"}
  BY <1>2 DEF TearingDown
<1>4. TeardownsFit(desk, desk.wire)
  BY <1>1 DEF Orderly
<1> QED BY <1>2, <1>3, <1>4 DEF TeardownsFit, TearingDown

(* The wire is as it was or longer, and no join is new on it.              *)
LEMMA TeardownRestored ==
  ASSUME StreamingInv, UNCHANGED <<session, joined, sourceLive>>,
         Orderly(desk', desk'.wire, PlayerOn), Keeps(desk, desk'),
         Extends(desk.wire, desk'.wire), desk'.inFlight = desk.inFlight
  PROVE  StreamingInv' /\ NotNewlyReady /\ desk'.config = desk.config
<1>1. Attended(desk) /\ JoinFits(desk, desk.wire, joined) /\ Awaits(desk, desk.wire)
  BY DEF StreamingInv, Fit
<1>2. Attended(desk') /\ JoinFits(desk', desk'.wire, joined) /\ Awaits(desk', desk'.wire)
  BY <1>1, KeptFits
<1>3. Fit(desk', PlayerOn, joined)
  BY <1>2 DEF Fit
<1> QED BY <1>3, DeskRestored DEF NotNewlyReady, Keeps

(* A teardown waits for the start under way.                               *)
LEMMA TeardownWaitsKeeps ==
  ASSUME StreamingInv, TeardownWaits
  PROVE  StreamingInv' /\ NotNewlyReady /\ desk'.config = desk.config
<1>1. TearingDown({"queued"}) /\ {"queued"} \subseteq {"queued", "waiting", "ended"}
  BY DEF TeardownWaits
<1>2. /\ desk.lifecycle # <<>>
      /\ \A k \in DOMAIN desk.wire : desk.wire[k].waiter # "teardown"
      /\ UNCHANGED <<session, joined, sourceLive>>
  BY <1>1, TearingDownIs
<1> DEFINE at == "waiting"
<1>5. desk' = [desk EXCEPT !.lifecycle[1].at = at]
  BY DEF TeardownWaits
<1>6. at \in {"queued", "waiting", "ending", "ended", "resetting"}
  OBVIOUS
<1> HIDE DEF at
<1>3. /\ Orderly(desk', desk.wire, PlayerOn) /\ Keeps(desk, desk')
      /\ desk'.wire = desk.wire /\ desk'.inFlight = desk.inFlight
  BY <1>2, <1>5, <1>6, DeskIs, GoesOnFits
<1>4. Extends(desk.wire, desk'.wire)
  BY <1>3 DEF Extends
<1> QED BY <1>2, <1>3, <1>4, TeardownRestored

(* It ends the session.                                                    *)
LEMMA TeardownEndsKeeps ==
  ASSUME StreamingInv, TeardownEnds
  PROVE  StreamingInv' /\ NotNewlyReady /\ desk'.config = desk.config
<1> DEFINE ats == {"queued", "waiting"}
           at == "ending"
           c == [desk EXCEPT !.lifecycle[1].at = at]
           t == desk.lifecycle[1]
           i == EndOf(t.party, t.owner, "teardown")
<1>1. TearingDown(ats) /\ ats \subseteq {"queued", "waiting", "ended"}
  BY DEF TeardownEnds
<1> HIDE DEF ats
<1>2. /\ desk.lifecycle # <<>> /\ Head(desk.lifecycle) = t /\ t \in Teardowns
      /\ 1 \in DOMAIN desk.lifecycle
      /\ \A k \in DOMAIN desk.wire : desk.wire[k].waiter # "teardown"
      /\ UNCHANGED <<session, joined, sourceLive>>
  BY <1>1, TearingDownIs
<1>3. desk' = EndSession(c, i)
  BY <1>2 DEF TeardownEnds
<1>4. /\ i \in Invocations /\ i.waiter = "teardown" /\ i.op = "End" /\ i.attempt = t.owner
      /\ ~IsJoin(i)
  BY <1>2 DEF EndOf, Invocation, Invocations, Teardowns, IsJoin
<1>5. t.owner <= desk.lastAttempt
  BY <1>2, DeskIs DEF Orderly, AttemptsFit
<1>9. at \in {"queued", "waiting", "ending", "ended", "resetting"}
      /\ c = [desk EXCEPT !.lifecycle[1].at = at] /\ at = "ending"
  OBVIOUS
<1> HIDE DEF i, t, at, c
<1>6. /\ Orderly(c, desk.wire, PlayerOn) /\ Keeps(desk, c)
      /\ c.wire = desk.wire /\ c.inFlight = desk.inFlight /\ c.lastAttempt = desk.lastAttempt
      /\ c.lifecycle # <<>> /\ c.lifecycle[1].at = at
  BY <1>2, <1>9, DeskIs, GoesOnFits
<1>7. CASE Connected(c)
  <2>1. desk' = Invoke(c, i)
    BY <1>3, <1>7 DEF EndSession
  <2>2. /\ Orderly(desk', desk'.wire, PlayerOn) /\ Keeps(c, desk')
        /\ Extends(desk.wire, desk'.wire) /\ desk'.inFlight = c.inFlight
    <3>1. i.attempt <= c.lastAttempt
      BY <1>4, <1>5, <1>6
    <3>2. \A k \in DOMAIN c.wire : c.wire[k].waiter # "teardown"
      BY <1>2, <1>6
    <3>3. c.lifecycle # <<>> /\ i.op = "End" /\ c.lifecycle[1].at = "ending"
      BY <1>4, <1>6, <1>9
    <3>4. Orderly(c, c.wire, PlayerOn)
      BY <1>6
    <3> QED BY <1>4, <1>6, <1>7, <2>1, <3>1, <3>2, <3>3, <3>4, InvokeTeardownFits
  <2>3. Keeps(desk, desk')
    BY <1>6, <2>2 DEF Keeps
  <2> QED BY <1>2, <1>6, <2>2, <2>3, TeardownRestored
<1>8. CASE ~Connected(c)
  <2>1. desk' = EndReturned(c, i)
    BY <1>3, <1>8 DEF EndSession
  <2>2. /\ Orderly(desk', desk.wire, PlayerOn) /\ Keeps(c, desk')
        /\ desk'.wire = c.wire /\ desk'.inFlight = c.inFlight
    BY <1>2, <1>4, <1>6, <2>1, EndReturnedFits
  <2>3. Keeps(desk, desk') /\ Extends(desk.wire, desk'.wire)
    BY <1>6, <2>2 DEF Keeps, Extends
  <2> QED BY <1>2, <1>6, <2>2, <2>3, TeardownRestored
<1> QED BY <1>7, <1>8

(* It resets the playback, or disconnects at once.                         *)
LEMMA TeardownResetsKeeps ==
  ASSUME StreamingInv, TeardownResets
  PROVE  StreamingInv' /\ NotNewlyReady /\ desk'.config = desk.config
<1> DEFINE ats == {"queued", "waiting", "ended"}
           at == "resetting"
           c == [desk EXCEPT !.lifecycle[1].at = at]
           e == [desk EXCEPT !.lifecycle = Tail(@)]
           t == desk.lifecycle[1]
           i == Invocation("Reset", t.party, "teardown")
<1>1. TearingDown(ats) /\ ats \subseteq {"queued", "waiting", "ended"}
  BY DEF TeardownResets
<1> HIDE DEF ats
<1>2. /\ desk.lifecycle # <<>> /\ Head(desk.lifecycle) = t /\ t \in Teardowns
      /\ \A k \in DOMAIN desk.wire : desk.wire[k].waiter # "teardown"
      /\ UNCHANGED <<session, joined, sourceLive>>
      /\ t.fresh => ~Running(desk)
  BY <1>1, TearingDownIs
<1>3. desk' = IF Connected(desk) THEN Invoke(c, i) ELSE Disconnect(e)
  BY <1>2 DEF TeardownResets
<1>4. ~Running(desk)
  BY <1>2 DEF TeardownResets
<1>5. desk \in Desk /\ Orderly(desk, desk.wire, PlayerOn) /\ Fit(desk, PlayerOn, joined)
  BY DeskIs
<1>6. CASE Connected(desk)
  <2>1. /\ i \in Invocations /\ i.waiter = "teardown" /\ i.op = "Reset"
        /\ i.attempt <= desk.lastAttempt /\ ~IsJoin(i)
    BY <1>2, <1>5 DEF Invocation, Invocations, Teardowns, IsJoin, Desk
  <2>2. desk' = Invoke(c, i)
    BY <1>3, <1>6
  <2>7. at \in {"queued", "waiting", "ending", "ended", "resetting"}
        /\ c = [desk EXCEPT !.lifecycle[1].at = at] /\ at = "resetting"
    OBVIOUS
  <2> HIDE DEF i, t, at, c
  <2>3. /\ Orderly(c, desk.wire, PlayerOn) /\ Keeps(desk, c)
        /\ c.wire = desk.wire /\ c.inFlight = desk.inFlight /\ c.lastAttempt = desk.lastAttempt
        /\ c.lifecycle # <<>> /\ c.lifecycle[1].at = at
    BY <1>2, <1>5, <2>7, GoesOnFits
  <2>4. Connected(c)
    BY <1>6, <2>3 DEF Keeps, Connected
  <2>5. /\ Orderly(desk', desk'.wire, PlayerOn) /\ Keeps(c, desk')
        /\ Extends(desk.wire, desk'.wire) /\ desk'.inFlight = c.inFlight
    BY <1>2, <2>1, <2>2, <2>3, <2>4, <2>7, InvokeTeardownFits, ZenonT(60)
  <2>6. Keeps(desk, desk')
    BY <2>3, <2>5 DEF Keeps
  <2> QED BY <1>2, <2>3, <2>5, <2>6, TeardownRestored
<1>7. CASE ~Connected(desk)
  <2>1. desk' = Disconnect(e)
    BY <1>3, <1>7
  <2>2. /\ Orderly(e, desk.wire, PlayerOn) /\ Keeps(desk, e)
        /\ e.wire = desk.wire /\ e.inFlight = desk.inFlight
    BY <1>2, <1>5, PopFits
  <2> HIDE DEF e
  <2>3. ~Running(e) /\ Awaits(e, e.wire)
    BY <1>4, <1>5, <2>2 DEF Keeps, Running, Fit, Awaits, Orderly, RestFits
  <2>4. /\ Orderly(desk', desk'.wire, PlayerOn) /\ Awaits(desk', desk'.wire)
        /\ Attended(desk') /\ ~Connected(desk')
        /\ desk'.config = e.config
        /\ desk'.ready => e.ready
    BY <2>1, <2>2, <2>3, DisconnectFits
  <2>5. Fit(desk', PlayerOn, joined)
    BY <2>4 DEF Fit, JoinFits
  <2> QED BY <1>2, <2>2, <2>4, <2>5, DeskRestored DEF NotNewlyReady, Keeps
<1> QED BY <1>6, <1>7

(* Superseded, it returns.                                                 *)
LEMMA TeardownReturnsKeeps ==
  ASSUME StreamingInv, TeardownReturns
  PROVE  StreamingInv' /\ NotNewlyReady /\ desk'.config = desk.config
<1> DEFINE ats == {"queued", "waiting", "ended"}
<1>1. TearingDown(ats) /\ ats \subseteq {"queued", "waiting", "ended"}
  BY DEF TeardownReturns
<1> HIDE DEF ats
<1>2. /\ desk.lifecycle # <<>>
      /\ \A k \in DOMAIN desk.wire : desk.wire[k].waiter # "teardown"
      /\ UNCHANGED <<session, joined, sourceLive>>
  BY <1>1, TearingDownIs
<1>3. /\ Orderly(desk', desk.wire, PlayerOn) /\ Keeps(desk, desk')
      /\ desk'.wire = desk.wire /\ desk'.inFlight = desk.inFlight
  BY <1>2, DeskIs, PopFits DEF TeardownReturns
<1>4. Extends(desk.wire, desk'.wire)
  BY <1>3 DEF Extends
<1> QED BY <1>2, <1>3, <1>4, TeardownRestored

-----------------------------------------------------------------------------
(* The answers.                                                            *)

(* The desk without the head of its wire, and the head.                    *)
Answering(c, i) ==
  /\ desk.wire # <<>>
  /\ c = [desk EXCEPT !.wire = Tail(@)]
  /\ i = Head(desk.wire)

(* The hub has the desktop down for this party then.                       *)
JoinedBy(i) == IF IsJoin(i) THEN i.party ELSE joined

(* Nobody becomes ready, except on AIMP or on the answer to a publication  *)
(* that says the latest.                                                   *)
ReadyAsBefore(c, i, e) ==
  e.ready => \/ desk.ready
             \/ e.config.source = "aimp"
             \/ /\ i.op = "Publish" /\ i.waiter = "connect" /\ ~c.behind
                /\ e.config = c.config

(* The desk without the head of its wire is orderly.                       *)
LEMMA AnsweringIs ==
  ASSUME StreamingInv, NEW c, NEW i, Answering(c, i)
  PROVE  /\ c \in Desk /\ i \in Invocations /\ i.party \in Party /\ i.attempt <= c.lastAttempt
         /\ Connected(c) /\ Keeps(desk, c) /\ c.behind = desk.behind
         /\ Orderly(c, c.wire, PlayerOn) /\ Attended(c)
         /\ JoinFits(c, c.wire, JoinedBy(i))
         /\ IsJoin(i) /\ Settling(c) => i.party = c.config.party
<1>1. desk \in Desk /\ Orderly(desk, desk.wire, PlayerOn) /\ Fit(desk, PlayerOn, joined)
      /\ desk.wire \in Wire /\ desk.wire # <<>> /\ Connected(desk)
  BY DeskIs DEF Answering
<1> DEFINE w == desk.wire
           v == Tail(w)
<1>2. v \in Wire /\ i \in Invocations /\ i = w[1] /\ 1 \in DOMAIN w
      /\ (\A k \in DOMAIN v : k + 1 \in DOMAIN w /\ v[k] = w[k + 1])
      /\ (\A k \in DOMAIN w : k # 1 => k - 1 \in DOMAIN v /\ v[k - 1] = w[k])
  BY <1>1, TailIs DEF Answering
<1>3. c = [desk EXCEPT !.wire = v]
  BY DEF Answering
<1> HIDE DEF v
<1>4. /\ c \in Desk /\ c.wire = v /\ Keeps(desk, c) /\ c.behind = desk.behind
      /\ c.lastAttempt = desk.lastAttempt
  BY <1>1, <1>2, <1>3 DEF Desk, Wire, Keeps
<1>5. Orderly(desk, v, PlayerOn)
  BY <1>1, HeadLeaves DEF v
<1>6. Orderly(c, v, PlayerOn)
  BY <1>1, <1>2, <1>3, <1>5, WireIsFree
<1>7. Connected(c) /\ Attended(c)
  BY <1>1, <1>4 DEF Keeps, Connected, Attended, Fit, Running
<1>8. i.party \in Party /\ i.attempt <= c.lastAttempt
  BY <1>1, <1>2, <1>4 DEF Invocations, Orderly, AttemptsFit
<1>9. Settling(c) => Settling(desk) /\ c.config = desk.config
  BY <1>4 DEF Keeps, Settling, Running
<1>10. JoinFits(desk, w, joined)
  BY <1>1 DEF Fit
<1>11. IsJoin(i) /\ Settling(c) => i.party = c.config.party
  BY <1>1, <1>2, <1>9, <1>10 DEF JoinFits
<1>12. JoinFits(c, v, JoinedBy(i))
  <2> SUFFICES ASSUME Settling(c)
               PROVE  /\ \A k \in DOMAIN v : IsJoin(v[k]) => v[k].party = c.config.party
                      /\ (\A k \in DOMAIN v : ~IsJoin(v[k])) => JoinedBy(i) = c.config.party
    BY DEF JoinFits
  <2>1. \A k \in DOMAIN v : IsJoin(v[k]) => v[k].party = c.config.party
    BY <1>1, <1>2, <1>9, <1>10 DEF JoinFits
  <2>2. CASE IsJoin(i)
    BY <1>11, <2>1, <2>2 DEF JoinedBy
  <2>3. CASE ~IsJoin(i)
    <3>1. (\A k \in DOMAIN v : ~IsJoin(v[k])) => \A k \in DOMAIN w : ~IsJoin(w[k])
      BY <1>2, <2>3
    <3>2. (\A k \in DOMAIN w : ~IsJoin(w[k])) => joined = desk.config.party
      BY <1>1, <1>9, <1>10 DEF JoinFits
    <3> QED BY <1>9, <2>1, <2>3, <3>1, <3>2 DEF JoinedBy
  <2> QED BY <2>2, <2>3
<1> QED BY <1>2, <1>4, <1>6, <1>7, <1>8, <1>11, <1>12

(* Whoever waited for the head waits for nothing else.                     *)
LEMMA AnsweringWaits ==
  ASSUME StreamingInv, NEW c, NEW i, Answering(c, i)
  PROVE  /\ i.waiter = "connect" =>
              /\ Running(c) /\ i.fresh /\ i.party = c.config.party
              /\ \/ IsJoin(i) /\ c.step = "joining"
                 \/ Publishes(i) /\ c.step = "syncing"
              /\ \A k \in DOMAIN c.wire : c.wire[k].waiter # "connect"
              /\ IsJoin(i) => \A k \in DOMAIN c.wire : ~IsJoin(c.wire[k])
              /\ IsJoin(i) \/ c.behind \/ c.config.source = "aimp" \/ i.live = PlayerOn
         /\ i.waiter = "teardown" =>
              /\ c.lifecycle # <<>> /\ 1 \in DOMAIN c.lifecycle
              /\ c.lifecycle[1].fresh => ~Running(c)
              /\ \A k \in DOMAIN c.wire : c.wire[k].waiter # "teardown"
         /\ IsStart(i) =>
              /\ i.waiter # "connect"
              /\ i.attempt = c.inFlight => ~i.timedOut
         /\ i.waiter # "connect" =>
              \/ IsStart(i) /\ c.step = "starting" /\ c.inFlight = i.attempt
              \/ Awaits(c, c.wire)
<1>1. desk \in Desk /\ Orderly(desk, desk.wire, PlayerOn) /\ Awaits(desk, desk.wire)
      /\ desk.wire \in Wire /\ desk.wire # <<>>
  BY DeskIs DEF Answering, Fit
<1> DEFINE w == desk.wire
           v == Tail(w)
<1>2. v \in Wire /\ i \in Invocations /\ i = w[1] /\ 1 \in DOMAIN w
      /\ (\A k \in DOMAIN w : k # 1 => k - 1 \in DOMAIN v /\ v[k - 1] = w[k])
  BY <1>1, TailIs DEF Answering
<1>3. /\ i.waiter = "connect" => \A k \in DOMAIN v : v[k].waiter # "connect"
      /\ i.waiter = "teardown" => \A k \in DOMAIN v : v[k].waiter # "teardown"
      /\ IsJoin(i) /\ i.waiter = "connect" => \A k \in DOMAIN v : ~IsJoin(v[k])
  BY <1>1, HeadIsAlone DEF Answering
<1>4. c = [desk EXCEPT !.wire = v]
  BY DEF Answering
<1> HIDE DEF v
<1>5. /\ c.wire = v /\ c.config = desk.config /\ c.step = desk.step /\ c.behind = desk.behind
      /\ c.lifecycle = desk.lifecycle /\ c.inFlight = desk.inFlight
  BY <1>1, <1>4 DEF Desk
<1>6. i.waiter = "connect" =>
        /\ Running(c) /\ i.fresh /\ i.party = c.config.party
        /\ \/ IsJoin(i) /\ c.step = "joining"
           \/ Publishes(i) /\ c.step = "syncing"
        /\ IsJoin(i) \/ c.behind \/ c.config.source = "aimp" \/ i.live = PlayerOn
  BY <1>1, <1>2, <1>5 DEF Orderly, WaitersFit, Running
<1>7. i.waiter = "teardown" =>
        /\ c.lifecycle # <<>> /\ 1 \in DOMAIN c.lifecycle
        /\ c.lifecycle[1].fresh => ~Running(c)
  <2> SUFFICES ASSUME i.waiter = "teardown"
               PROVE  /\ c.lifecycle # <<>> /\ 1 \in DOMAIN c.lifecycle
                      /\ c.lifecycle[1].fresh => ~Running(c)
    OBVIOUS
  <2>1. desk.lifecycle # <<>>
    BY <1>1, <1>2 DEF Orderly, TeardownsFit
  <2>2. 1 \in DOMAIN desk.lifecycle
    BY <1>1, <2>1 DEF Desk
  <2>3. Running(desk) => ~desk.lifecycle[1].fresh
    BY <1>1, <2>2 DEF Orderly, TeardownsFit
  <2> QED BY <1>5, <2>1, <2>2, <2>3 DEF Running
<1>8. IsStart(i) => /\ i.waiter # "connect"
                    /\ i.attempt = c.inFlight => ~i.timedOut
  BY <1>1, <1>2, <1>5 DEF Orderly, StartsFit
<1>9. ASSUME i.waiter # "connect",
             ~(IsStart(i) /\ c.step = "starting" /\ c.inFlight = i.attempt)
      PROVE  Awaits(c, v)
  BY <1>1, <1>2, <1>5, <1>9 DEF Awaits
<1> QED BY <1>3, <1>5, <1>6, <1>7, <1>8, <1>9

(* An answer that nobody acts upon.                                        *)
LEMMA PlainAnswerIs ==
  ASSUME StreamingInv, NEW c, NEW i, Answering(c, i), i.waiter # "connect", ~IsStart(i)
  PROVE  Fit(c, PlayerOn, JoinedBy(i))
BY AnsweringIs, AnsweringWaits DEF Fit

(* What keeps all that the invariant says of the link and the wire.        *)
LEMMA KeptAnswerFits ==
  ASSUME StreamingInv, NEW c, NEW i, Answering(c, i), i.waiter # "connect", ~IsStart(i),
         NEW e, Orderly(e, c.wire, PlayerOn), Keeps(c, e), e.wire = c.wire,
         e.inFlight = c.inFlight
  PROVE  Fit(e, PlayerOn, JoinedBy(i))
<1>1. Fit(c, PlayerOn, JoinedBy(i))
  BY PlainAnswerIs
<1>2. Extends(c.wire, c.wire)
  BY DEF Extends
<1>3. Attended(e) /\ Awaits(e, c.wire)
  BY <1>1, <1>2, KeptFits DEF Fit
<1>4. JoinFits(c, c.wire, JoinedBy(i))
  BY <1>1 DEF Fit
<1>5. JoinFits(e, c.wire, JoinedBy(i))
  BY <1>2, <1>4, KeptFits
<1> QED BY <1>3, <1>5 DEF Fit

(* The hub has the desktop down for p.                                     *)
LEMMA PartyTurnsFits ==
  ASSUME NEW d, NEW w, NEW on, Orderly(d, w, on), NEW p \in Party \cup {NoParty},
         Settling(d) => p = d.config.party
  PROVE  LET e == [d EXCEPT !.currentParty = p] IN
         /\ Orderly(e, w, on) /\ e.wire = d.wire
         /\ e.config = d.config /\ e.step = d.step /\ e.ready = d.ready
         /\ e.blocked = d.blocked /\ e.timer = d.timer /\ e.link = d.link
         /\ e.inFlight = d.inFlight /\ e.currentParty = p
<1> DEFINE e == [d EXCEPT !.currentParty = p]
<1>1. d \in Desk
  BY DEF Orderly
<1>2. /\ e \in Desk /\ e.currentParty = p
      /\ e.config = d.config /\ e.step = d.step /\ e.ready = d.ready /\ e.blocked = d.blocked
      /\ e.subscribed = d.subscribed /\ e.behind = d.behind /\ e.coalescing = d.coalescing
      /\ e.lastAttempt = d.lastAttempt /\ e.inFlight = d.inFlight /\ e.active = d.active
      /\ e.handled = d.handled /\ e.late = d.late /\ e.lifecycle = d.lifecycle
      /\ e.link = d.link /\ e.wire = d.wire /\ e.timer = d.timer
  BY <1>1 DEF Desk
<1> HIDE DEF e
<1>3. AttemptsFit(e, w) /\ StartsFit(e, w)
  BY <1>2 DEF Orderly, AttemptsFit, StartsFit
<1>4. WaitersFit(e, w, on)
  BY <1>2 DEF Orderly, WaitersFit, Running
<1>5. TeardownsFit(e, w)
  BY <1>2 DEF Orderly, TeardownsFit, Running
<1>6. RestFits(e) /\ LinkFits(e)
  BY <1>2 DEF Orderly, RestFits, LinkFits, Running, Connected
<1>7. PartyFits(e)
  BY <1>2 DEF PartyFits, Settling, Running
<1>8. Orderly(e, w, on)
  BY <1>2, <1>3, <1>4, <1>5, <1>6, <1>7 DEF Orderly
<1> QED BY <1>2, <1>8 DEF e

(* The hub has joined the desktop to a party.                              *)
LEMMA JoinAnswered ==
  ASSUME StreamingInv, NEW c, NEW i, Answering(c, i), i.op = "Join"
  PROVE  LET e == Answered(c, i) IN
         Fit(e, PlayerOn, JoinedBy(i)) /\ ReadyAsBefore(c, i, e)
<1>1. /\ c \in Desk /\ i \in Invocations /\ i.party \in Party /\ Connected(c)
      /\ Orderly(c, c.wire, PlayerOn) /\ Keeps(desk, c) /\ Attended(c)
      /\ JoinFits(c, c.wire, JoinedBy(i))
      /\ Settling(c) => i.party = c.config.party
      /\ c.ready = desk.ready
      /\ IsJoin(i) /\ ~IsStart(i) /\ JoinedBy(i) = i.party
  BY AnsweringIs DEF IsJoin, IsStart, JoinedBy, Keeps
<1>2. Answered(c, i) =
        CASE i.waiter = "connect" -> Joined([c EXCEPT !.currentParty = i.party])
          [] i.waiter = "rejoin" ->
               IF Running(c) /\ c.config.party = c.currentParty THEN Recover(c, FALSE) ELSE c
          [] i.waiter = "nobody" -> [c EXCEPT !.currentParty = i.party]
          [] OTHER -> c
  BY DEF Answered, ProjectGoes
<1> DEFINE p == i.party
           s == [c EXCEPT !.currentParty = p]
<1>3. p \in Party \cup {NoParty} /\ (Settling(c) => p = c.config.party)
  BY <1>1
<1> HIDE DEF p
<1>4. /\ Orderly(s, c.wire, PlayerOn) /\ s.wire = c.wire
      /\ s.config = c.config /\ s.step = c.step /\ s.ready = c.ready
      /\ s.blocked = c.blocked /\ s.timer = c.timer /\ s.link = c.link
      /\ s.inFlight = c.inFlight /\ s.currentParty = p
  BY <1>1, <1>3, PartyTurnsFits
<1>5. s = [c EXCEPT !.currentParty = i.party] /\ p = i.party
  BY DEF p
<1> HIDE DEF s
<1>6. CASE i.waiter = "connect"
  <2>1. /\ Running(c) /\ i.party = c.config.party /\ c.step = "joining"
        /\ \A k \in DOMAIN c.wire : c.wire[k].waiter # "connect" /\ ~IsJoin(c.wire[k])
    BY <1>1, <1>6, AnsweringWaits DEF IsJoin, Publishes
  <2>2. sourceLive \in [Source -> BOOLEAN]
    BY DeskIs
  <2>3. Orderly(s, s.wire, PlayerOn) /\ Connected(s) /\ s.step = "joining"
        /\ s.currentParty = s.config.party /\ s.config.party = i.party
        /\ \A k \in DOMAIN s.wire : s.wire[k].waiter # "connect" /\ ~IsJoin(s.wire[k])
    BY <1>1, <1>4, <1>5, <2>1 DEF Connected
  <2>4. LET e == Joined(s) IN
        /\ Fit(e, PlayerOn, s.config.party) /\ e.config = s.config
        /\ e.ready => s.ready \/ s.config.source = "aimp"
    BY <2>2, <2>3, JoinedFits
  <2>5. Answered(c, i) = Joined(s)
    BY <1>2, <1>5, <1>6
  <2> QED BY <1>1, <1>4, <2>3, <2>4, <2>5 DEF ReadyAsBefore
<1>7. CASE i.waiter = "rejoin"
  <2>1. Fit(c, PlayerOn, JoinedBy(i))
    BY <1>1, <1>7, PlainAnswerIs
  <2> DEFINE supersede == FALSE
  <2>2. supersede \in BOOLEAN
    OBVIOUS
  <2>3. Answered(c, i) \in {Recover(c, supersede), c}
    BY <1>2, <1>7
  <2> HIDE DEF supersede
  <2>4. Fit(Recover(c, supersede), PlayerOn, JoinedBy(i))
        /\ (Recover(c, supersede).ready => c.ready)
    BY <2>1, <2>2, RecoverFits
  <2> QED BY <1>1, <2>1, <2>3, <2>4 DEF ReadyAsBefore
<1>8. CASE i.waiter = "nobody"
  <2>1. Awaits(c, c.wire)
    BY <1>1, <1>8, AnsweringWaits
  <2>2. Awaits(s, s.wire) /\ Attended(s) /\ JoinFits(s, s.wire, JoinedBy(i))
    BY <1>1, <1>4, <2>1 DEF Awaits, Attended, JoinFits, Settling, Running, Connected
  <2>3. Fit(s, PlayerOn, JoinedBy(i))
    BY <1>4, <2>2 DEF Fit
  <2>4. Answered(c, i) = s
    BY <1>2, <1>5, <1>8
  <2> QED BY <1>1, <1>4, <2>3, <2>4 DEF ReadyAsBefore
<1>9. CASE i.waiter \notin {"connect", "rejoin", "nobody"}
  <2>1. Fit(c, PlayerOn, JoinedBy(i))
    BY <1>1, <1>9, PlainAnswerIs
  <2>2. Answered(c, i) = c
    BY <1>2, <1>9
  <2> QED BY <1>1, <2>1, <2>2 DEF ReadyAsBefore
<1> QED BY <1>6, <1>7, <1>8, <1>9

(* A session has started.                                                  *)
LEMMA StartAnswered ==
  ASSUME StreamingInv, NEW c, NEW i, Answering(c, i), i.op = "Start"
  PROVE  LET e == Answered(c, i) IN
         Fit(e, PlayerOn, JoinedBy(i)) /\ ReadyAsBefore(c, i, e)
<1>1. /\ i \in Invocations /\ i.attempt <= c.lastAttempt /\ Connected(c)
      /\ Orderly(c, c.wire, PlayerOn) /\ Keeps(desk, c) /\ Attended(c)
      /\ JoinFits(c, c.wire, JoinedBy(i)) /\ IsStart(i)
      /\ c.ready = desk.ready
  BY AnsweringIs DEF IsStart, Keeps
<1>2. /\ i.attempt = c.inFlight => ~i.timedOut
      /\ (c.step = "starting" /\ c.inFlight = i.attempt) \/ Awaits(c, c.wire)
  BY <1>1, AnsweringWaits
<1>3. sourceLive \in [Source -> BOOLEAN]
  BY DeskIs
<1>4. Answered(c, i) = StartSucceeds(c, i)
  BY DEF Answered, ProjectGoes
<1>5. LET e == StartSucceeds(c, i) IN
      /\ Fit(e, PlayerOn, JoinedBy(i)) /\ e.config = c.config
      /\ e.ready => c.ready \/ c.config.source = "aimp"
  BY <1>1, <1>2, <1>3, StartSucceedsFits
<1> QED BY <1>1, <1>4, <1>5 DEF ReadyAsBefore

(* A session has ended, or none was there.                                 *)
LEMMA EndAnswered ==
  ASSUME StreamingInv, NEW c, NEW i, Answering(c, i), i.op = "End"
  PROVE  LET e == Answered(c, i) IN
         Fit(e, PlayerOn, JoinedBy(i)) /\ ReadyAsBefore(c, i, e)
<1> DEFINE e == EndReturned(c, i)
<1>1. /\ c \in Desk /\ i \in Invocations /\ i.party \in Party /\ Connected(c)
      /\ Orderly(c, c.wire, PlayerOn) /\ Keeps(desk, c)
      /\ ~IsStart(i)
      /\ c.ready = desk.ready
  BY AnsweringIs DEF IsStart, Keeps
<1>2. i.waiter # "connect"
  BY AnsweringWaits DEF IsJoin, Publishes
<1>3. i.waiter = "teardown" => /\ c.lifecycle # <<>>
                               /\ \A k \in DOMAIN c.wire : c.wire[k].waiter # "teardown"
  BY AnsweringWaits
<1>4. /\ Orderly(e, c.wire, PlayerOn) /\ Keeps(c, e)
      /\ e.wire = c.wire /\ e.inFlight = c.inFlight /\ e.lastAttempt = c.lastAttempt
  BY <1>1, <1>3, EndReturnedFits
<1>5. Answered(c, i) =
        IF i.waiter = "newProject"
        THEN Invoke([e EXCEPT !.liveSession = FALSE],
                    Invocation("Reset", i.party, "newProject"))
        ELSE e
  BY DEF Answered, ProjectGoes
<1> HIDE DEF e
<1>6. Fit(e, PlayerOn, JoinedBy(i))
  BY <1>1, <1>2, <1>4, KeptAnswerFits
<1>7. CASE i.waiter = "newProject"
  <2> DEFINE live == FALSE
             s == [e EXCEPT !.liveSession = live]
             r == Invocation("Reset", i.party, "newProject")
  <2>1. live \in BOOLEAN
    OBVIOUS
  <2>2. Answered(c, i) = Invoke(s, r)
    BY <1>5, <1>7
  <2> HIDE DEF live
  <2>3. Fit(s, PlayerOn, JoinedBy(i)) /\ Keeps(e, s)
    BY <1>6, <2>1, LiveIsFit
  <2> HIDE DEF s
  <2>4. Connected(s) /\ s.lastAttempt \in Nat
    BY <1>1, <1>4, <2>3 DEF Keeps, Connected, Fit, Orderly, Desk
  <2>5. r \in Invocations /\ r.op = "Reset" /\ r.waiter = "newProject" /\ r.attempt = 0
    BY <1>1 DEF Invocation, Invocations
  <2> HIDE DEF r
  <2>6. Plain(s, r) /\ ~IsJoin(r)
    BY <2>4, <2>5 DEF Plain, IsStart, IsJoin
  <2>7. Fit(Invoke(s, r), PlayerOn, JoinedBy(i)) /\ Keeps(s, Invoke(s, r))
    BY <2>3, <2>4, <2>6, PlainIsFit
  <2> QED BY <1>1, <1>4, <2>2, <2>3, <2>7 DEF ReadyAsBefore, Keeps
<1>8. CASE i.waiter # "newProject"
  BY <1>1, <1>4, <1>5, <1>6, <1>8 DEF ReadyAsBefore, Keeps
<1> QED BY <1>7, <1>8

(* The playback is reset; on2 is what plays once the project has gone.     *)
LEMMA ResetAnswered ==
  ASSUME StreamingInv, NEW c, NEW i, Answering(c, i), i.op = "Reset",
         NEW on2 \in BOOLEAN, on2 # PlayerOn => ProjectGoes(i)
  PROVE  LET e == Answered(c, i) IN
         Fit(e, on2, JoinedBy(i)) /\ ReadyAsBefore(c, i, e)
<1>1. /\ c \in Desk /\ i \in Invocations /\ i.party \in Party /\ Connected(c)
      /\ Orderly(c, c.wire, PlayerOn) /\ Keeps(desk, c)
      /\ ~IsStart(i)
      /\ c.ready = desk.ready
  BY AnsweringIs DEF IsStart, Keeps
<1>2. i.waiter # "connect"
  BY AnsweringWaits DEF IsJoin, Publishes
<1>3. Fit(c, PlayerOn, JoinedBy(i))
  BY <1>1, <1>2, PlainAnswerIs
<1>4. Answered(c, i) =
        CASE i.waiter = "teardown" ->
               LET s == [c EXCEPT !.lifecycle = Tail(@)] IN
               IF c.lifecycle[1].fresh THEN Disconnect(s) ELSE s
          [] i.waiter = "newProject" /\ Running(c) ->
               TakeDown(c, c.config.source = "aimp" /\ Live(c))
          [] i.waiter = "stop" /\ Running(c) /\ c.ready ->
               IF NothingToPublish(c) THEN c ELSE Publish(c, "stop")
          [] OTHER -> c
  BY DEF Answered, ProjectGoes
<1>5. i.waiter # "newProject" => on2 = PlayerOn
  BY DEF ProjectGoes
<1>6. CASE i.waiter = "teardown"
  <2> DEFINE s == [c EXCEPT !.lifecycle = Tail(@)]
  <2>1. /\ c.lifecycle # <<>>
        /\ c.lifecycle[1].fresh => ~Running(c)
        /\ \A k \in DOMAIN c.wire : c.wire[k].waiter # "teardown"
    BY <1>6, AnsweringWaits
  <2>2. /\ Orderly(s, c.wire, PlayerOn) /\ Keeps(c, s)
        /\ s.wire = c.wire /\ s.inFlight = c.inFlight
    BY <1>1, <2>1, PopFits
  <2>3. Answered(c, i) = IF c.lifecycle[1].fresh THEN Disconnect(s) ELSE s
    BY <1>4, <1>6
  <2> HIDE DEF s
  <2>4. Fit(s, PlayerOn, JoinedBy(i))
    BY <1>1, <1>2, <2>2, KeptAnswerFits
  <2>5. CASE c.lifecycle[1].fresh
    <3> DEFINE e == Disconnect(s)
    <3>1. ~Running(s)
      BY <2>1, <2>2, <2>5 DEF Keeps, Running
    <3>2. /\ Orderly(e, e.wire, PlayerOn) /\ Awaits(e, e.wire) /\ Attended(e)
          /\ ~Connected(e)
          /\ e.ready => s.ready
      BY <2>2, <2>4, <3>1, DisconnectFits DEF Fit
    <3> HIDE DEF e
    <3>3. Fit(e, PlayerOn, JoinedBy(i))
      BY <3>2 DEF Fit, JoinFits
    <3> QED BY <1>1, <1>5, <1>6, <2>2, <2>3, <2>5, <3>2, <3>3 DEF ReadyAsBefore, Keeps, e
  <2>6. CASE ~c.lifecycle[1].fresh
    BY <1>1, <1>5, <1>6, <2>2, <2>3, <2>4, <2>6 DEF ReadyAsBefore, Keeps
  <2> QED BY <2>5, <2>6
<1>7. CASE i.waiter = "newProject" /\ Running(c)
  <2> DEFINE isLive == c.config.source = "aimp" /\ Live(c)
             e == TakeDown(c, isLive)
  <2>1. isLive \in BOOLEAN
    OBVIOUS
  <2>2. Answered(c, i) = e
    BY <1>4, <1>7
  <2> HIDE DEF isLive
  <2>3. Fit(e, on2, JoinedBy(i)) /\ ~Running(e)
    BY <1>1, <1>7, <2>1, TakeDownFits
  <2> HIDE DEF e
  <2>4. ~e.ready
    BY <2>3 DEF Fit, Orderly, RestFits
  <2> QED BY <2>2, <2>3, <2>4 DEF ReadyAsBefore
<1>8. CASE i.waiter = "newProject" /\ ~Running(c)
  <2>1. Answered(c, i) = c
    BY <1>4, <1>8
  <2>2. Fit(c, on2, JoinedBy(i))
    BY <1>3, <1>8, OtherSourceFits
  <2> QED BY <1>1, <2>1, <2>2 DEF ReadyAsBefore
<1>9. CASE i.waiter = "stop" /\ Running(c) /\ c.ready /\ ~NothingToPublish(c)
  <2> DEFINE live == Live(c)
             r == [Invocation("Notify", c.config.party, "stop") EXCEPT !.live = live]
  <2>1. Answered(c, i) = Invoke(c, r)
    BY <1>4, <1>9 DEF Publish
  <2>2. c.config.party \in Party /\ c.lastAttempt \in Nat
    BY <1>1, <1>9 DEF Desk, Running, Config
  <2>3. live \in BOOLEAN
    BY DEF Live
  <2> HIDE DEF live
  <2>4. r \in Invocations /\ r.op = "Notify" /\ r.waiter = "stop" /\ r.attempt = 0
    BY <2>2, <2>3 DEF Invocation, Invocations
  <2> HIDE DEF r
  <2>5. Plain(c, r) /\ ~IsJoin(r)
    BY <2>2, <2>4 DEF Plain, IsStart, IsJoin
  <2>6. Fit(Invoke(c, r), PlayerOn, JoinedBy(i)) /\ Keeps(c, Invoke(c, r))
    BY <1>1, <1>3, <2>5, PlainIsFit
  <2> QED BY <1>1, <1>5, <1>9, <2>1, <2>6 DEF ReadyAsBefore, Keeps
<1>10. CASE /\ i.waiter \notin {"teardown", "newProject"}
            /\ ~(i.waiter = "stop" /\ Running(c) /\ c.ready /\ ~NothingToPublish(c))
  <2>1. Answered(c, i) = c
    BY <1>4, <1>10
  <2> QED BY <1>1, <1>3, <1>5, <1>10, <2>1 DEF ReadyAsBefore
<1> QED BY <1>6, <1>7, <1>8, <1>9, <1>10

(* The first half of a publication: the second follows.                    *)
LEMMA NotifyAnswered ==
  ASSUME StreamingInv, NEW c, NEW i, Answering(c, i), i.op = "Notify"
  PROVE  LET e == Answered(c, i) IN
         Fit(e, PlayerOn, JoinedBy(i)) /\ ReadyAsBefore(c, i, e)
<1> DEFINE r == [i EXCEPT !.op = "Publish"]
<1>1. /\ c \in Desk /\ i \in Invocations /\ i.party \in Party /\ Connected(c)
      /\ Orderly(c, c.wire, PlayerOn) /\ Keeps(desk, c) /\ i.attempt <= c.lastAttempt
      /\ JoinFits(c, c.wire, JoinedBy(i))
      /\ ~IsStart(i) /\ ~IsJoin(i)
      /\ c.ready = desk.ready
  BY AnsweringIs DEF IsStart, IsJoin, Keeps
<1>2. Answered(c, i) =
        IF i.fresh /\ i.waiter \in {"connect", "publish", "stop"} THEN Invoke(c, r) ELSE c
  BY DEF Answered, ProjectGoes
<1>3. /\ r \in Invocations /\ r.op = "Publish" /\ r.waiter = i.waiter /\ r.fresh = i.fresh
      /\ r.attempt = i.attempt /\ r.party = i.party /\ r.live = i.live
  BY <1>1 DEF Invocations
<1>4. ~IsStart(r) /\ ~IsJoin(r) /\ Publishes(r)
  BY <1>3 DEF IsStart, IsJoin, Publishes
<1> HIDE DEF r
<1>5. CASE i.waiter = "connect"
  <2>1. /\ Running(c) /\ i.fresh /\ i.party = c.config.party /\ c.step = "syncing"
        /\ \A k \in DOMAIN c.wire : c.wire[k].waiter # "connect"
        /\ c.behind \/ c.config.source = "aimp" \/ i.live = PlayerOn
    BY <1>1, <1>5, AnsweringWaits DEF IsJoin
  <2> DEFINE e == Invoke(c, r)
  <2>2. /\ r.attempt <= c.lastAttempt /\ r.waiter = "connect" /\ r.fresh
        /\ r.party = c.config.party
        /\ c.behind \/ c.config.source = "aimp" \/ r.live = PlayerOn
    BY <1>1, <1>3, <1>5, <2>1
  <2>3. /\ Orderly(e, e.wire, PlayerOn) /\ Awaits(e, e.wire) /\ Attended(e) /\ Keeps(c, e)
    BY <1>1, <1>3, <1>4, <2>1, <2>2, InvokeAwaitedFits
  <2>4. Extends(c.wire, e.wire)
    BY <1>1, <1>3, <1>4, InvokeIs, InvokeExtends
  <2>5. Answered(c, i) = e
    BY <1>2, <1>5, <2>1
  <2> HIDE DEF e
  <2>6. JoinFits(e, e.wire, JoinedBy(i))
    BY <1>1, <2>3, <2>4, KeptFits
  <2> QED BY <1>1, <2>3, <2>5, <2>6 DEF Fit, ReadyAsBefore, Keeps
<1>6. CASE i.waiter # "connect"
  <2>1. Fit(c, PlayerOn, JoinedBy(i))
    BY <1>1, <1>6, PlainAnswerIs
  <2>2. CASE i.fresh /\ i.waiter \in {"publish", "stop"}
    <3>1. Plain(c, r)
      BY <1>1, <1>3, <1>4, <2>2 DEF Plain
    <3>2. Fit(Invoke(c, r), PlayerOn, JoinedBy(i)) /\ Keeps(c, Invoke(c, r))
      BY <1>1, <1>4, <2>1, <3>1, PlainIsFit
    <3> QED BY <1>1, <1>2, <2>2, <3>2 DEF ReadyAsBefore, Keeps
  <2>3. CASE ~(i.fresh /\ i.waiter \in {"publish", "stop"})
    BY <1>1, <1>2, <1>6, <2>1, <2>3 DEF ReadyAsBefore
  <2> QED BY <2>2, <2>3
<1> QED BY <1>5, <1>6

(* The state is published; the attempt repeats it or is ready.             *)
LEMMA PublishAnswered ==
  ASSUME StreamingInv, NEW c, NEW i, Answering(c, i), i.op = "Publish"
  PROVE  LET e == Answered(c, i) IN
         Fit(e, PlayerOn, JoinedBy(i)) /\ ReadyAsBefore(c, i, e)
<1>1. /\ c \in Desk /\ i \in Invocations /\ Connected(c)
      /\ Orderly(c, c.wire, PlayerOn) /\ Keeps(desk, c)
      /\ JoinFits(c, c.wire, JoinedBy(i))
      /\ ~IsStart(i) /\ ~IsJoin(i)
      /\ c.ready = desk.ready
  BY AnsweringIs DEF IsStart, IsJoin, Keeps
<1>2. Answered(c, i) = IF i.waiter = "connect"
                       THEN IF c.behind THEN Synchronize(c) ELSE BecomeReady(c)
                       ELSE c
  BY DEF Answered, ProjectGoes
<1>3. CASE i.waiter = "connect"
  <2>1. /\ Running(c) /\ c.step = "syncing"
        /\ \A k \in DOMAIN c.wire : c.wire[k].waiter # "connect"
    BY <1>1, <1>3, AnsweringWaits DEF IsJoin
  <2>2. c.subscribed /\ c.currentParty = c.config.party /\ Settling(c)
    BY <1>1, <2>1 DEF Orderly, LinkFits, PartyFits, Settling
  <2>3. CASE c.behind
    <3>1. /\ \A k \in DOMAIN c.wire : IsJoin(c.wire[k]) => c.wire[k].party = c.config.party
          /\ (\A k \in DOMAIN c.wire : ~IsJoin(c.wire[k])) => JoinedBy(i) = c.config.party
      BY <1>1, <2>2 DEF JoinFits
    <3>2. sourceLive \in [Source -> BOOLEAN]
      BY DeskIs
    <3>3. LET e == Synchronize(c) IN
          /\ Fit(e, PlayerOn, JoinedBy(i)) /\ e.config = c.config
          /\ e.ready => c.ready \/ c.config.source = "aimp"
      BY <1>1, <2>1, <2>2, <3>1, <3>2, SynchronizeFits
    <3> QED BY <1>1, <1>2, <1>3, <2>3, <3>3 DEF ReadyAsBefore
  <2>4. CASE ~c.behind
    <3>1. Fit(BecomeReady(c), PlayerOn, JoinedBy(i)) /\ BecomeReady(c).config = c.config
      BY <1>1, <2>1, BecomeReadyFits
    <3> QED BY <1>2, <1>3, <2>4, <3>1 DEF ReadyAsBefore
  <2> QED BY <2>3, <2>4
<1>4. CASE i.waiter # "connect"
  <2>1. Fit(c, PlayerOn, JoinedBy(i))
    BY <1>1, <1>4, PlainAnswerIs
  <2> QED BY <1>1, <1>2, <1>4, <2>1 DEF ReadyAsBefore
<1> QED BY <1>3, <1>4

(* Every answer restores the invariant.                                    *)
LEMMA RespondKeeps ==
  ASSUME StreamingInv, Respond
  PROVE  /\ StreamingInv'
         /\ \E c, i : /\ Answering(c, i) /\ ReadyAsBefore(c, i, desk')
                      /\ desk' = Answered(c, i)
                      /\ Connected(desk') => session' = Carry(session, i)
                      /\ ~ProjectGoes(i) => UNCHANGED sourceLive
<1> DEFINE c == [desk EXCEPT !.wire = Tail(@)]
           i == Head(desk.wire)
<1>1. Answering(c, i) /\ desk' = Answered(c, i)
  BY DEF Respond, Answering
<1>2. /\ session' \in IF Connected(desk') THEN {Carry(session, i)}
                       ELSE CarriedSome(Carry(session, i), Tail(desk.wire))
      /\ joined' = CASE ~Connected(desk') -> NoParty
                     [] Connected(desk') /\ i.op = "Join" -> i.party
                     [] Connected(desk') /\ i.op # "Join" -> joined
      /\ sourceLive' = IF ProjectGoes(i)
                       THEN [sourceLive EXCEPT !["cherryPlayPlayer"] = FALSE]
                       ELSE sourceLive
  BY DEF Respond
<1> HIDE DEF c, i
<1>3. i \in Invocations /\ i.party \in Party
  BY <1>1, AnsweringIs
<1>4. sourceLive \in [Source -> BOOLEAN] /\ session \in Sessions
      /\ joined \in Party \cup {NoParty}
  BY DEF StreamingInv, Sessions
<1>5. sourceLive' \in [Source -> BOOLEAN] /\ PlayerOn' \in BOOLEAN
  BY <1>2, <1>4 DEF PlayerOn, Source
<1>6. PlayerOn' # PlayerOn => ProjectGoes(i)
  BY <1>2 DEF PlayerOn
<1>7. session' \in Sessions
  <2>1. Carry(session, i) \in Sessions
    BY <1>3, <1>4, CarryFits
  <2>2. Tail(desk.wire) \in Wire
    BY DeskIs, TailIs DEF Respond
  <2> QED BY <1>2, <2>1, <2>2, CarriedFits
<1>8. Fit(desk', PlayerOn', JoinedBy(i)) /\ ReadyAsBefore(c, i, desk')
  <2>1. CASE i.op = "Reset"
    BY <1>1, <1>5, <1>6, <2>1, ResetAnswered
  <2>2. CASE i.op # "Reset"
    <3>1. PlayerOn' = PlayerOn
      BY <1>6, <2>2 DEF ProjectGoes
    <3>2. i.op \in {"Join", "Start", "End", "Notify", "Publish"}
      BY <1>3, <2>2 DEF Invocations
    <3> QED BY <1>1, <3>1, <3>2, JoinAnswered, StartAnswered, EndAnswered, NotifyAnswered,
               PublishAnswered
  <2> QED BY <2>1, <2>2
<1>9. Connected(desk') => joined' = JoinedBy(i)
  BY <1>2 DEF JoinedBy, IsJoin
<1>10. Fit(desk', PlayerOn', joined')
  BY <1>8, <1>9 DEF Fit, JoinFits
<1>11. joined' \in Party \cup {NoParty}
  BY <1>2, <1>3, <1>4
<1>12. StreamingInv'
  BY <1>5, <1>7, <1>10, <1>11 DEF StreamingInv, Sessions
<1> QED BY <1>1, <1>2, <1>8, <1>12

-----------------------------------------------------------------------------
(* What the party hears of the player.                                     *)

(* The player is the orchestrator's source.                                *)
Player(d) == Running(d) /\ d.config.source = "cherryPlayPlayer"

(* What the server has for the party is as the player is: on or off.       *)
IsRight(s, on) == s # NoSession /\ s.mode = Dto(on).mode

(* An invocation that a publication of what it says will follow.           *)
WillPublish(i, p) ==
  i.op = "Notify" /\ i.party = p /\ i.fresh /\ i.waiter \in {"connect", "publish", "stop"}

(* The hub leaves the mode of the party's session alone or puts it right.  *)
Right(i, p, on) ==
  i.party = p =>
    /\ i.op = "Start" => on
    /\ i.op \in {"End", "Reset"} => ~on
    /\ i.op = "Publish" => i.live = on

RightAfter(w, n, p, on) == \A k \in DOMAIN w : k > n => Right(w[k], p, on)
LatestAfter(w, n, p, on) ==
  \A k \in DOMAIN w : k > n /\ WillPublish(w[k], p) => w[k].live = on

(* The last word on the party has been said, is on its way, or is known to *)
(* the scheduled publication that will say it.                             *)
Said(w, s, p, on) ==
  IsRight(s, on) /\ RightAfter(w, 0, p, on) /\ LatestAfter(w, 0, p, on)
OnItsWay(w, p, on) ==
  \E k \in DOMAIN w :
    /\ w[k].op = "Publish" /\ w[k].party = p /\ w[k].live = on
    /\ RightAfter(w, k, p, on) /\ LatestAfter(w, 0, p, on)
Announced(w, p, on) ==
  \E k \in DOMAIN w :
    /\ WillPublish(w[k], p) /\ w[k].waiter = "publish" /\ w[k].live = on
    /\ LatestAfter(w, k, p, on)
Told(w, s, p, on) == Said(w, s, p, on) \/ OnItsWay(w, p, on) \/ Announced(w, p, on)

(* What will make the orchestrator go or begin anew.                       *)
Departs(i) == i.op \in {"End", "Reset"} /\ i.waiter = "newProject"
ProjectIsGoing(w) == \E k \in DOMAIN w : Departs(w[k])
Rejoins(w) == \E k \in DOMAIN w : IsJoin(w[k]) /\ w[k].waiter = "rejoin"

(* The publication that an attempt waits for is the last word.  A start    *)
(* precedes it, and with it all that ends a start that came too late.      *)
SyncFits(d, w, on) ==
  d.step = "syncing" /\ ~d.behind =>
    \A a \in DOMAIN w : w[a].waiter = "connect" =>
      LET n == IF w[a].op = "Publish" THEN 0 ELSE a IN
      /\ \A k \in DOMAIN w : k > n => ~IsStart(w[k])
      /\ w[a].op = "Publish" => \A k \in DOMAIN w : k > a => w[k].waiter # "late"
      /\ \/ ProjectIsGoing(w)
         \/ /\ LatestAfter(w, n, d.config.party, on)
            /\ w[a].op = "Publish" => RightAfter(w, a, d.config.party, on)

(* Nothing under way takes a ready orchestrator's session off the air, and *)
(* a start that fails makes it try again.                                  *)
CalmFits(d, w) ==
  d.ready /\ d.step = "idle" =>
    \A k \in DOMAIN w :
      w[k].waiter # "late" /\ (IsStart(w[k]) => w[k].waiter = "sync" /\ ~w[k].timedOut)

(* A ready orchestrator tries again only when its client has given up.     *)
TimerFits(d) ==
  d.ready /\ (d.step = "checking" \/ (d.step = "idle" /\ d.timer)) => d.link = "none"

(* The party has been told, or will be.                                    *)
ToldFits(d, w, s, on) ==
  d.ready /\ d.step = "idle" /\ Connected(d) =>
    \/ d.coalescing
    \/ ProjectIsGoing(w)
    \/ Rejoins(w)
    \/ Told(w, s[d.config.party], d.config.party, on)

Tells(d, w, s, on) ==
  Player(d) => SyncFits(d, w, on) /\ CalmFits(d, w) /\ TimerFits(d) /\ ToldFits(d, w, s, on)

PublishingInv == StreamingInv /\ Tells(desk, desk.wire, session, PlayerOn)

(* Nothing is asked of an attempt that has not come to its publication.    *)
LEMMA UnreadyTells ==
  ASSUME NEW e, NEW w, NEW s, NEW on,
         \/ e.step \in {"dialing", "joining", "starting"}
         \/ ~e.ready /\ e.step # "syncing"
  PROVE  Tells(e, w, s, on)
BY DEF Tells, SyncFits, CalmFits, TimerFits, ToldFits

(* Nor of a desk without a connection, but that it lets its client try.    *)
LEMMA OfflineTells ==
  ASSUME NEW e, NEW on2, NEW at, Fit(e, on2, at), ~Connected(e),
         e.link = "none" \/ TimerFits(e), NEW s, NEW on
  PROVE  Tells(e, e.wire, s, on)
<1>1. e.wire = <<>>
  BY DEF Fit, Orderly, LinkFits
<1>2. e.step # "syncing"
  BY <1>1 DEF Fit, Awaits
<1>3. SyncFits(e, e.wire, on) /\ CalmFits(e, e.wire) /\ ToldFits(e, e.wire, s, on)
  BY <1>1, <1>2 DEF SyncFits, CalmFits, ToldFits
<1>4. TimerFits(e)
  BY DEF TimerFits
<1> QED BY <1>3, <1>4 DEF Tells

(* What tells the same.                                                    *)
SameTale(d, e) ==
  /\ e.config = d.config /\ e.step = d.step /\ e.link = d.link
  /\ e.ready => d.ready
  /\ d.behind => e.behind
  /\ d.coalescing => e.coalescing

(* A desk that changes in nothing else goes on telling.                    *)
LEMMA SameTells ==
  ASSUME NEW d, NEW w, NEW s, NEW on, Tells(d, w, s, on), NEW e, SameTale(d, e),
         e.timer => d.timer \/ ~e.ready \/ e.step # "idle"
  PROVE  Tells(e, w, s, on)
<1> SUFFICES ASSUME Player(e)
             PROVE  SyncFits(e, w, on) /\ CalmFits(e, w) /\ TimerFits(e) /\ ToldFits(e, w, s, on)
  BY DEF Tells
<1>1. SyncFits(d, w, on) /\ CalmFits(d, w) /\ TimerFits(d) /\ ToldFits(d, w, s, on)
  BY DEF Tells, Player, Running, SameTale
<1>2. SyncFits(e, w, on)
  BY <1>1 DEF SyncFits, SameTale
<1>3. CalmFits(e, w)
  BY <1>1 DEF CalmFits, SameTale
<1>4. TimerFits(e)
  BY <1>1 DEF TimerFits, SameTale
<1>5. ToldFits(e, w, s, on)
  BY <1>1 DEF ToldFits, SameTale, Connected
<1> QED BY <1>2, <1>3, <1>4, <1>5

(* An orchestrator that has heard of a change tells it later.              *)
LEMMA StirredTells ==
  ASSUME NEW e, NEW w, NEW s, NEW on, e.behind, e.coalescing,
         Player(e) => CalmFits(e, w) /\ TimerFits(e)
  PROVE  Tells(e, w, s, on)
BY DEF Tells, SyncFits, ToldFits

(* An invocation that takes nothing back.                                  *)
Mild(i, p, on) ==
  /\ i \in Invocations
  /\ ~IsStart(i)
  /\ i.waiter \notin {"late", "connect"}
  /\ Right(i, p, on)
  /\ WillPublish(i, p) => i.live = on

(* It may be invoked at any time.                                          *)
LEMMA MildTells ==
  ASSUME NEW d, NEW w \in Wire, NEW s, NEW on, Tells(d, w, s, on),
         NEW i, Player(d) => Mild(i, d.config.party, on), i \in Invocations
  PROVE  Tells(d, Append(w, i), s, on)
<1> DEFINE v == Append(w, i)
           p == d.config.party
<1>1. /\ \A k \in DOMAIN w : k \in DOMAIN v /\ v[k] = w[k]
      /\ \A k \in DOMAIN v : k \in DOMAIN w \/ v[k] = i
  BY AppendIs
<1> HIDE DEF v
<1> SUFFICES ASSUME Player(d)
             PROVE  SyncFits(d, v, on) /\ CalmFits(d, v) /\ TimerFits(d) /\ ToldFits(d, v, s, on)
  BY DEF Tells, v
<1>2. SyncFits(d, w, on) /\ CalmFits(d, w) /\ TimerFits(d) /\ ToldFits(d, w, s, on)
  BY DEF Tells
<1>3. Mild(i, p, on)
  OBVIOUS
<1>4. /\ ProjectIsGoing(w) => ProjectIsGoing(v)
      /\ Rejoins(w) => Rejoins(v)
  BY <1>1 DEF ProjectIsGoing, Rejoins
<1>5. ASSUME NEW n
      PROVE  /\ RightAfter(w, n, p, on) => RightAfter(v, n, p, on)
             /\ LatestAfter(w, n, p, on) => LatestAfter(v, n, p, on)
  BY <1>1, <1>3 DEF RightAfter, LatestAfter, Mild
<1>6. SyncFits(d, v, on)
  <2> SUFFICES ASSUME d.step = "syncing", ~d.behind,
                      NEW a \in DOMAIN v, v[a].waiter = "connect",
                      NEW n, n = (IF v[a].op = "Publish" THEN 0 ELSE a)
               PROVE  /\ \A k \in DOMAIN v : k > n => ~IsStart(v[k])
                      /\ v[a].op = "Publish" =>
                           \A k \in DOMAIN v : k > a => v[k].waiter # "late"
                      /\ \/ ProjectIsGoing(v)
                         \/ /\ LatestAfter(v, n, p, on)
                            /\ v[a].op = "Publish" => RightAfter(v, a, p, on)
    BY DEF SyncFits
  <2>1. a \in DOMAIN w /\ v[a] = w[a]
    BY <1>1, <1>3 DEF Mild
  <2>2. /\ \A k \in DOMAIN w : k > n => ~IsStart(w[k])
        /\ w[a].op = "Publish" => \A k \in DOMAIN w : k > a => w[k].waiter # "late"
        /\ \/ ProjectIsGoing(w)
           \/ /\ LatestAfter(w, n, p, on)
              /\ w[a].op = "Publish" => RightAfter(w, a, p, on)
    BY <1>2, <2>1 DEF SyncFits
  <2>3. \A k \in DOMAIN v : k > n => ~IsStart(v[k])
    BY <1>1, <1>3, <2>2 DEF Mild
  <2>4. v[a].op = "Publish" => \A k \in DOMAIN v : k > a => v[k].waiter # "late"
    BY <1>1, <1>3, <2>1, <2>2 DEF Mild
  <2> QED BY <1>4, <1>5, <2>1, <2>2, <2>3, <2>4
<1>7. CalmFits(d, v)
  BY <1>1, <1>2, <1>3 DEF CalmFits, Mild
<1>8. ASSUME NEW t, Told(w, t, p, on)
      PROVE  Told(v, t, p, on)
  <2>1. Said(w, t, p, on) => Said(v, t, p, on)
    BY <1>5 DEF Said
  <2>2. OnItsWay(w, p, on) => OnItsWay(v, p, on)
    BY <1>1, <1>5 DEF OnItsWay
  <2>3. Announced(w, p, on) => Announced(v, p, on)
    BY <1>1, <1>5 DEF Announced
  <2> QED BY <1>8, <2>1, <2>2, <2>3 DEF Told
<1>9. ToldFits(d, v, s, on)
  BY <1>2, <1>4, <1>8 DEF ToldFits
<1> QED BY <1>2, <1>6, <1>7, <1>9

(* The party's session is right after the hub has carried out what is      *)
(* right, or a publication of what the player does.                        *)
LEMMA CarryIsRight ==
  ASSUME NEW s \in Sessions, NEW i \in Invocations, NEW p \in Party, NEW on \in BOOLEAN
  PROVE  /\ IsRight(s[p], on) /\ Right(i, p, on) => IsRight(Carry(s, i)[p], on)
         /\ i.op = "Publish" /\ i.party = p /\ i.live = on => IsRight(Carry(s, i)[p], on)
<1>1. i.party \in Party /\ i.live \in BOOLEAN
      /\ i.op \in {"Join", "Start", "End", "Reset", "Notify", "Publish"}
  BY DEF Invocations
<1>2. s[p] \in Session \cup {NoSession}
  BY DEF Sessions
<1>3. CASE i.party # p
  <2>1. Carry(s, i)[p] = s[p]
    BY <1>1, <1>3 DEF Carry, Sessions
  <2> QED BY <1>3, <2>1
<1>4. CASE i.party = p
  <2>1. /\ i.op = "Start" => Carry(s, i)[p] = Started(s[p], TRUE)
        /\ i.op = "End" /\ s[p] # NoSession => Carry(s, i)[p] = Ended(s[p])
        /\ i.op = "Reset" => Carry(s, i)[p] = Cleared(s[p])
        /\ i.op = "Publish" => Carry(s, i)[p] = Published(s[p], Dto(i.live))
        /\ i.op \in {"Join", "Notify"} => Carry(s, i)[p] = s[p]
    BY <1>1, <1>4 DEF Carry, Sessions
  <2>2. CASE i.op = "Start"
    <3>1. Started(s[p], TRUE).mode = "Session" /\ Started(s[p], TRUE) \in Session
      BY <1>2 DEF Started, Session, Mode, Status
    <3> QED BY <1>4, <2>1, <2>2, <3>1, NoSessionAssumption DEF IsRight, Right, Dto
  <2>3. CASE i.op = "End"
    <3>1. s[p] # NoSession =>
            Ended(s[p]).mode = "Preparation" /\ Ended(s[p]) \in Session
      BY <1>2 DEF Ended, Session, Mode, Status
    <3> QED BY <1>4, <2>1, <2>3, <3>1, NoSessionAssumption DEF IsRight, Right, Dto
  <2>4. CASE i.op = "Reset"
    <3>1. Cleared(s[p]).mode = "Preparation" /\ Cleared(s[p]) \in Session
      BY <1>2 DEF Cleared, Session, Mode, Status
    <3> QED BY <1>4, <2>1, <2>4, <3>1, NoSessionAssumption DEF IsRight, Right, Dto
  <2>5. CASE i.op = "Publish"
    <3>1. /\ Published(s[p], Dto(i.live)).mode = Dto(i.live).mode
          /\ Published(s[p], Dto(i.live)) \in Session
      BY <1>1, <1>2 DEF Published, Dto, Session, Mode, Status
    <3> QED BY <1>4, <2>1, <2>5, <3>1, NoSessionAssumption DEF IsRight, Right
  <2> QED BY <1>1, <2>1, <2>2, <2>3, <2>4, <2>5
<1> QED BY <1>3, <1>4

(* What the party was told stays told when the head of the wire has been   *)
(* carried out and answered.                                               *)
LEMMA ToldStays ==
  ASSUME NEW w \in Wire, w # <<>>, NEW s \in Sessions, NEW p \in Party, NEW on \in BOOLEAN,
         Told(w, s[p], p, on), ~WillPublish(Head(w), p)
  PROVE  Told(Tail(w), Carry(s, Head(w))[p], p, on)
<1> DEFINE i == Head(w)
           v == Tail(w)
<1>1. /\ i \in Invocations /\ i = w[1] /\ 1 \in DOMAIN w /\ v \in Wire
      /\ \A k \in DOMAIN v : k + 1 \in DOMAIN w /\ v[k] = w[k + 1] /\ k \in Nat /\ k >= 1
      /\ \A k \in DOMAIN w : k # 1 => k - 1 \in DOMAIN v /\ v[k - 1] = w[k]
      /\ \A k \in DOMAIN w : k \in Nat /\ k >= 1
  BY TailIs DEF Wire
<1> HIDE DEF i, v
<1>2. ASSUME NEW n \in Nat
      PROVE  /\ RightAfter(w, n + 1, p, on) => RightAfter(v, n, p, on)
             /\ LatestAfter(w, n + 1, p, on) => LatestAfter(v, n, p, on)
             /\ RightAfter(w, n, p, on) => RightAfter(v, n, p, on)
             /\ LatestAfter(w, n, p, on) => LatestAfter(v, n, p, on)
  <2>1. \A k \in DOMAIN v : k > n => k + 1 > n + 1 /\ k + 1 > n
    BY <1>1
  <2> QED BY <1>1, <2>1 DEF RightAfter, LatestAfter
<1>3. ASSUME Said(w, s[p], p, on)
      PROVE  Said(v, Carry(s, i)[p], p, on)
  <2>1. Right(i, p, on)
    BY <1>1, <1>3 DEF Said, RightAfter
  <2>2. IsRight(Carry(s, i)[p], on)
    BY <1>1, <1>3, <2>1, CarryIsRight DEF Said
  <2> QED BY <1>2, <1>3, <2>2 DEF Said
<1>4. ASSUME OnItsWay(w, p, on)
      PROVE  Said(v, Carry(s, i)[p], p, on) \/ OnItsWay(v, p, on)
  <2>1. PICK k \in DOMAIN w :
          /\ w[k].op = "Publish" /\ w[k].party = p /\ w[k].live = on
          /\ RightAfter(w, k, p, on) /\ LatestAfter(w, 0, p, on)
    BY <1>4 DEF OnItsWay
  <2>2. CASE k = 1
    <3>1. IsRight(Carry(s, i)[p], on)
      BY <1>1, <2>1, <2>2, CarryIsRight
    <3>2. RightAfter(v, 0, p, on)
      <4>1. RightAfter(w, 0 + 1, p, on)
        BY <2>1, <2>2
      <4> QED BY <1>2, <4>1
    <3> QED BY <1>2, <2>1, <3>1, <3>2 DEF Said
  <2>3. CASE k # 1
    <3>1. k - 1 \in DOMAIN v /\ v[k - 1] = w[k] /\ k - 1 \in Nat /\ (k - 1) + 1 = k
      BY <1>1, <2>3
    <3>2. RightAfter(v, k - 1, p, on) /\ LatestAfter(v, 0, p, on)
      BY <1>2, <2>1, <3>1
    <3> QED BY <2>1, <3>1, <3>2 DEF OnItsWay
  <2> QED BY <2>2, <2>3
<1>5. ASSUME Announced(w, p, on)
      PROVE  Announced(v, p, on)
  <2>1. PICK k \in DOMAIN w :
          /\ WillPublish(w[k], p) /\ w[k].waiter = "publish" /\ w[k].live = on
          /\ LatestAfter(w, k, p, on)
    BY <1>5 DEF Announced
  <2>2. k # 1
    BY <1>1, <2>1 DEF i
  <2>3. k - 1 \in DOMAIN v /\ v[k - 1] = w[k] /\ k - 1 \in Nat /\ (k - 1) + 1 = k
    BY <1>1, <2>2
  <2>4. LatestAfter(v, k - 1, p, on)
    BY <1>2, <2>1, <2>3
  <2> QED BY <2>1, <2>3, <2>4 DEF Announced
<1> QED BY <1>3, <1>4, <1>5 DEF Told, i, v

(* The rest of the wire is as the attempt's publication needs it.          *)
LEMMA SyncStays ==
  ASSUME NEW d, NEW w \in Wire, w # <<>>, NEW on, SyncFits(d, w, on),
         ~Departs(Head(w))
  PROVE  SyncFits(d, Tail(w), on)
<1> DEFINE v == Tail(w)
           p == d.config.party
<1>1. /\ Head(w) = w[1]
      /\ \A k \in DOMAIN v : k + 1 \in DOMAIN w /\ v[k] = w[k + 1] /\ k \in Nat /\ k >= 1
      /\ \A k \in DOMAIN w : k # 1 => k - 1 \in DOMAIN v /\ v[k - 1] = w[k]
  BY TailIs DEF Wire
<1>2. ProjectIsGoing(w) => ProjectIsGoing(v)
  BY <1>1 DEF ProjectIsGoing
<1> HIDE DEF v
<1> SUFFICES ASSUME d.step = "syncing", ~d.behind,
                    NEW a \in DOMAIN v, v[a].waiter = "connect",
                    NEW n, n = (IF v[a].op = "Publish" THEN 0 ELSE a)
             PROVE  /\ \A k \in DOMAIN v : k > n => ~IsStart(v[k])
                    /\ v[a].op = "Publish" =>
                         \A k \in DOMAIN v : k > a => v[k].waiter # "late"
                    /\ \/ ProjectIsGoing(v)
                       \/ /\ LatestAfter(v, n, p, on)
                          /\ v[a].op = "Publish" => RightAfter(v, a, p, on)
  BY DEF SyncFits, v
<1> DEFINE b == a + 1
           m == IF w[b].op = "Publish" THEN 0 ELSE b
<1>3. b \in DOMAIN w /\ w[b] = v[a] /\ a \in Nat
  BY <1>1
<1>4. /\ \A k \in DOMAIN w : k > m => ~IsStart(w[k])
      /\ w[b].op = "Publish" => \A k \in DOMAIN w : k > b => w[k].waiter # "late"
      /\ \/ ProjectIsGoing(w)
         \/ /\ LatestAfter(w, m, p, on)
            /\ w[b].op = "Publish" => RightAfter(w, b, p, on)
  BY <1>3 DEF SyncFits
<1>5. \A k \in DOMAIN v : /\ k > n => k + 1 > m
                          /\ k > a => k + 1 > b
  BY <1>1, <1>3
<1>6. (\A k \in DOMAIN v : k > n => ~IsStart(v[k]))
  BY <1>1, <1>4, <1>5
<1>7. v[a].op = "Publish" => \A k \in DOMAIN v : k > a => v[k].waiter # "late"
  BY <1>1, <1>3, <1>4, <1>5
<1>8. LatestAfter(w, m, p, on) => LatestAfter(v, n, p, on)
  BY <1>1, <1>5 DEF LatestAfter
<1>9. RightAfter(w, b, p, on) => RightAfter(v, a, p, on)
  BY <1>1, <1>5 DEF RightAfter
<1> QED BY <1>2, <1>3, <1>4, <1>6, <1>7, <1>8, <1>9

(* An answer that changes nothing on the desk.                             *)
LEMMA HeadTells ==
  ASSUME NEW d, NEW w \in Wire, w # <<>>, NEW s \in Sessions, NEW on \in BOOLEAN,
         Tells(d, w, s, on), Player(d) => d.config.party \in Party,
         ~Departs(Head(w)),
         IsJoin(Head(w)) /\ Head(w).waiter = "rejoin" => d.step # "idle",
         d.step # "idle" \/ ~WillPublish(Head(w), d.config.party)
  PROVE  Tells(d, Tail(w), Carry(s, Head(w)), on)
<1> DEFINE i == Head(w)
           v == Tail(w)
           p == d.config.party
<1>1. /\ i = w[1] /\ i \in Invocations
      /\ \A k \in DOMAIN v : k + 1 \in DOMAIN w /\ v[k] = w[k + 1]
      /\ \A k \in DOMAIN w : k # 1 => k - 1 \in DOMAIN v /\ v[k - 1] = w[k]
  BY TailIs
<1> SUFFICES ASSUME Player(d)
             PROVE  /\ SyncFits(d, v, on) /\ CalmFits(d, v) /\ TimerFits(d)
                    /\ ToldFits(d, v, Carry(s, i), on)
  BY DEF Tells
<1>2. SyncFits(d, w, on) /\ CalmFits(d, w) /\ TimerFits(d) /\ ToldFits(d, w, s, on)
  BY DEF Tells
<1>3. SyncFits(d, v, on)
  BY <1>2, SyncStays
<1>4. CalmFits(d, v)
  BY <1>1, <1>2 DEF CalmFits
<1>5. ToldFits(d, v, Carry(s, i), on)
  <2> SUFFICES ASSUME d.ready, d.step = "idle", Connected(d), ~d.coalescing
               PROVE  \/ ProjectIsGoing(v)
                      \/ Rejoins(v)
                      \/ Told(v, Carry(s, i)[p], p, on)
    BY DEF ToldFits
  <2>1. ProjectIsGoing(w) => ProjectIsGoing(v)
    BY <1>1 DEF ProjectIsGoing
  <2>2. Rejoins(w) => Rejoins(v)
    BY <1>1 DEF Rejoins
  <2>3. Told(w, s[p], p, on) => Told(v, Carry(s, i)[p], p, on)
    BY ToldStays
  <2> QED BY <1>2, <2>1, <2>2, <2>3 DEF ToldFits
<1> QED BY <1>2, <1>3, <1>4, <1>5

(* The last word is announced on a free wire, and no other word follows.   *)
LEMMA SynchronizeTells ==
  ASSUME NEW d \in Desk, d.wire \in Wire, Running(d), sourceLive \in [Source -> BOOLEAN],
         \A k \in DOMAIN d.wire : d.wire[k].waiter # "connect", NEW s
  PROVE  LET e == Synchronize(d) IN Tells(e, e.wire, s, PlayerOn)
<1> DEFINE c == [d EXCEPT !.step = "syncing", !.behind = FALSE]
           i == [Invocation("Notify", c.config.party, "connect") EXCEPT !.live = Live(c)]
           e == Synchronize(d)
<1>1. c \in Desk /\ c.config = d.config /\ c.wire = d.wire /\ c.step = "syncing"
  BY DEF Desk, Steps
<1>2. e.config = d.config
  BY <1>1 DEF Synchronize, Publish, Invoke, BecomeReady, Desk
<1> SUFFICES ASSUME Player(e)
             PROVE  Tells(e, e.wire, s, PlayerOn)
  BY DEF Tells
<1>3. d.config.source = "cherryPlayPlayer" /\ d.config.party \in Party
  BY <1>2 DEF Player, Running, Desk, Config
<1>4. e = Invoke(c, i)
  BY <1>1, <1>3 DEF Synchronize, Publish, NothingToPublish
<1>5. i \in Invocations /\ i.waiter = "connect" /\ i.op = "Notify"
  <2>1. Live(c) \in BOOLEAN
    BY <1>1, <1>3 DEF Live, Source, Running
  <2> QED BY <1>1, <1>3, <2>1 DEF Invocation, Invocations
<1> HIDE DEF c, i, e
<1>6. /\ e.wire = Append(d.wire, i) /\ e.step = "syncing"
  BY <1>1, <1>4, <1>5, InvokeIs DEF Keeps
<1>7. SyncFits(e, e.wire, PlayerOn)
  <2>1. ASSUME NEW a \in DOMAIN e.wire, e.wire[a].waiter = "connect"
        PROVE  a = Len(d.wire) + 1 /\ e.wire[a] = i /\ Len(d.wire) \in Nat
    BY <1>5, <1>6, <2>1, AppendIs
  <2>2. DOMAIN e.wire = 1 .. (Len(d.wire) + 1)
    BY <1>5, <1>6, AppendIs
  <2>3. ASSUME NEW a \in DOMAIN e.wire, e.wire[a].waiter = "connect"
        PROVE  e.wire[a].op # "Publish" /\ \A k \in DOMAIN e.wire : ~(k > a)
    BY <1>5, <2>1, <2>2, <2>3
  <2> QED BY <2>3 DEF SyncFits, LatestAfter
<1>8. CalmFits(e, e.wire) /\ TimerFits(e) /\ ToldFits(e, e.wire, s, PlayerOn)
  BY <1>6 DEF CalmFits, TimerFits, ToldFits
<1> QED BY <1>7, <1>8 DEF Tells, e

(* The second half of a publication says what the first half announced.    *)
LEMMA NotifyTells ==
  ASSUME NEW d, NEW w \in Wire, w # <<>>, NEW s \in Sessions, NEW on \in BOOLEAN,
         Tells(d, w, s, on), Player(d) => d.config.party \in Party,
         NEW i, i = Head(w), i.op = "Notify", i.fresh,
         i.waiter \in {"connect", "publish", "stop"},
         i.waiter = "connect" =>
           d.step = "syncing" /\ \A k \in DOMAIN Tail(w) : Tail(w)[k].waiter # "connect",
         NEW r, r = [i EXCEPT !.op = "Publish"]
  PROVE  Tells(d, Append(Tail(w), r), Carry(s, i), on)
<1> DEFINE t == Tail(w)
           v == Append(t, r)
           p == d.config.party
<1>1. /\ i = w[1] /\ i \in Invocations /\ t \in Wire /\ 1 \in DOMAIN w
      /\ \A k \in DOMAIN t : k + 1 \in DOMAIN w /\ t[k] = w[k + 1] /\ k \in Nat /\ k >= 1
      /\ \A k \in DOMAIN w : k # 1 => k - 1 \in DOMAIN t /\ t[k - 1] = w[k]
      /\ \A k \in DOMAIN w : k \in Nat /\ k >= 1
  BY TailIs DEF Wire
<1>2. /\ r \in Invocations /\ r.op = "Publish" /\ r.waiter = i.waiter /\ r.live = i.live
      /\ r.party = i.party
  BY <1>1 DEF Invocations
<1>3. /\ DOMAIN v = DOMAIN t \cup {Len(t) + 1} /\ Len(t) \in Nat /\ DOMAIN t = 1 .. Len(t)
      /\ v[Len(t) + 1] = r
      /\ \A k \in DOMAIN t : v[k] = t[k]
  BY <1>1, <1>2, AppendIs
<1>4. Carry(s, i) = s
  BY DEF Carry
<1>5. /\ ~IsStart(r) /\ ~WillPublish(r, p) /\ r.waiter \notin {"late", "newProject"}
      /\ i.live = on \/ i.party # p => Right(r, p, on)
  BY <1>2 DEF IsStart, WillPublish, Right
<1>t. i.waiter = "connect" => \A k \in DOMAIN t : t[k].waiter # "connect"
  OBVIOUS
<1> HIDE DEF v, t
<1>v. /\ \A k \in DOMAIN v :
           \/ k \in DOMAIN t /\ v[k] = t[k] /\ k + 1 \in DOMAIN w /\ v[k] = w[k + 1]
           \/ k = Len(t) + 1 /\ v[k] = r
      /\ \A k \in DOMAIN w : k # 1 => k - 1 \in DOMAIN v /\ v[k - 1] = w[k]
  BY <1>1, <1>3
<1>r. \A k \in DOMAIN v :
        \/ k \in DOMAIN t /\ k + 1 \in DOMAIN w /\ v[k] = w[k + 1]
        \/ v[k].waiter # "late" /\ ~IsStart(v[k])
  BY <1>v, <1>5
<1>6. ProjectIsGoing(w) => ProjectIsGoing(v)
  BY <1>1, <1>v DEF ProjectIsGoing, Departs
<1> SUFFICES ASSUME Player(d)
             PROVE  /\ SyncFits(d, v, on) /\ CalmFits(d, v) /\ TimerFits(d)
                    /\ ToldFits(d, v, s, on)
  BY <1>4 DEF Tells, v, t
<1>7. SyncFits(d, w, on) /\ CalmFits(d, w) /\ TimerFits(d) /\ ToldFits(d, w, s, on)
  BY DEF Tells
<1>8. ASSUME NEW n \in Nat, LatestAfter(w, n, p, on) \/ LatestAfter(w, n + 1, p, on)
      PROVE  LatestAfter(v, n, p, on)
  <2>1. ASSUME NEW k \in DOMAIN v, k > n, WillPublish(v[k], p)
        PROVE  v[k].live = on
    <3>1. k \in DOMAIN t /\ v[k] = t[k]
      BY <1>3, <1>5, <2>1
    <3>2. k + 1 > n + 1 /\ k + 1 > n
      BY <1>1, <2>1, <3>1
    <3> QED BY <1>1, <1>8, <2>1, <3>1, <3>2 DEF LatestAfter
  <2> QED BY <2>1 DEF LatestAfter
<1>9. ASSUME NEW n \in Nat, RightAfter(w, n, p, on) \/ RightAfter(w, n + 1, p, on),
             Right(r, p, on)
      PROVE  RightAfter(v, n, p, on)
  <2>1. ASSUME NEW k \in DOMAIN v, k > n
        PROVE  Right(v[k], p, on)
    <3>1. CASE k \in DOMAIN t
      <4>1. k + 1 > n + 1 /\ k + 1 > n
        BY <1>1, <2>1, <3>1
      <4> QED BY <1>1, <1>3, <1>9, <3>1, <4>1 DEF RightAfter
    <3>2. CASE k \notin DOMAIN t
      BY <1>3, <1>9, <3>2
    <3> QED BY <3>1, <3>2
  <2> QED BY <2>1 DEF RightAfter
<1>10. SyncFits(d, v, on)
  <2> SUFFICES ASSUME d.step = "syncing", ~d.behind,
                      NEW a \in DOMAIN v, v[a].waiter = "connect",
                      NEW n, n = (IF v[a].op = "Publish" THEN 0 ELSE a)
               PROVE  /\ \A k \in DOMAIN v : k > n => ~IsStart(v[k])
                      /\ v[a].op = "Publish" =>
                           \A k \in DOMAIN v : k > a => v[k].waiter # "late"
                      /\ \/ ProjectIsGoing(v)
                         \/ /\ LatestAfter(v, n, p, on)
                            /\ v[a].op = "Publish" => RightAfter(v, a, p, on)
    BY DEF SyncFits
  <2>1. CASE i.waiter = "connect"
    <3>1. a = Len(t) + 1 /\ v[a] = r /\ n = 0
      BY <1>2, <1>t, <1>v, <2>1
    <3>2. \A k \in DOMAIN v : ~(k > a)
      BY <1>3, <3>1
    <3>3. /\ \A k \in DOMAIN w : k > 1 => ~IsStart(w[k])
          /\ ProjectIsGoing(w) \/ LatestAfter(w, 1, p, on)
      BY <1>1, <1>7, <2>1 DEF SyncFits
    <3>4. \A k \in DOMAIN v : ~IsStart(v[k])
      <4>1. \A k \in DOMAIN t : k + 1 > 1
        BY <1>1
      <4> QED BY <1>1, <1>3, <1>5, <3>3, <4>1
    <3>5. LatestAfter(w, 1, p, on) => LatestAfter(v, 0, p, on)
      <4>1. 0 + 1 = 1
        OBVIOUS
      <4> QED BY <1>8, <4>1
    <3> QED BY <1>6, <3>1, <3>2, <3>3, <3>4, <3>5 DEF RightAfter
  <2>2. CASE i.waiter # "connect"
    <3> DEFINE b == a + 1
               m == IF w[b].op = "Publish" THEN 0 ELSE b
    <3>1. a \in DOMAIN t /\ v[a] = t[a] /\ a \in Nat /\ b \in DOMAIN w /\ w[b] = v[a]
      BY <1>1, <1>2, <1>3, <2>2
    <3>2. /\ \A k \in DOMAIN w : k > m => ~IsStart(w[k])
          /\ w[b].op = "Publish" => \A k \in DOMAIN w : k > b => w[k].waiter # "late"
          /\ \/ ProjectIsGoing(w)
             \/ /\ LatestAfter(w, m, p, on)
                /\ w[b].op = "Publish" => RightAfter(w, b, p, on)
      BY <1>7, <3>1 DEF SyncFits
    <3>3. \A k \in DOMAIN t : /\ k > n => k + 1 > m
                              /\ k > a => k + 1 > b
      BY <1>1, <3>1
    <3>4. (\A k \in DOMAIN v : k > n => ~IsStart(v[k]))
      BY <1>v, <1>5, <3>2, <3>3
    <3>5. v[a].op = "Publish" => \A k \in DOMAIN v : k > a => v[k].waiter # "late"
      BY <1>r, <3>1, <3>2, <3>3
    <3>6. LatestAfter(w, m, p, on) => LatestAfter(v, n, p, on)
      <4>1. m = n \/ m = n + 1
        BY <3>1
      <4>2. n \in Nat
        BY <3>1
      <4> QED BY <1>8, <4>1, <4>2
    <3>7. LatestAfter(w, 0, p, on) => Right(r, p, on)
      <4>1. LatestAfter(w, 0, p, on) /\ i.party = p => i.live = on
        BY <1>1 DEF LatestAfter, WillPublish
      <4> QED BY <1>5, <4>1
    <3>8. v[a].op = "Publish" /\ LatestAfter(w, m, p, on) /\ RightAfter(w, b, p, on)
            => RightAfter(v, a, p, on)
      BY <1>9, <3>1, <3>7
    <3> QED BY <1>6, <3>1, <3>2, <3>4, <3>5, <3>6, <3>8
  <2> QED BY <2>1, <2>2
<1>11. CalmFits(d, v)
  BY <1>r, <1>7 DEF CalmFits
<1>12. ASSUME Told(w, s[p], p, on)
       PROVE  Told(v, s[p], p, on)
  <2>1. LatestAfter(w, 0, p, on) => Right(r, p, on)
    <3>1. LatestAfter(w, 0, p, on) /\ i.party = p => i.live = on
      BY <1>1 DEF LatestAfter, WillPublish
    <3> QED BY <1>5, <3>1
  <2>2. Said(w, s[p], p, on) => Said(v, s[p], p, on)
    BY <1>8, <1>9, <2>1 DEF Said
  <2>3. ASSUME OnItsWay(w, p, on)
        PROVE  OnItsWay(v, p, on)
    <3>1. PICK k \in DOMAIN w :
            /\ w[k].op = "Publish" /\ w[k].party = p /\ w[k].live = on
            /\ RightAfter(w, k, p, on) /\ LatestAfter(w, 0, p, on)
      BY <2>3 DEF OnItsWay
    <3>2. k - 1 \in DOMAIN t /\ v[k - 1] = w[k] /\ k - 1 \in Nat /\ (k - 1) + 1 = k
          /\ k - 1 \in DOMAIN v
      BY <1>1, <1>3, <3>1
    <3>3. RightAfter(v, k - 1, p, on) /\ LatestAfter(v, 0, p, on)
      BY <1>8, <1>9, <2>1, <3>1, <3>2
    <3> QED BY <3>1, <3>2, <3>3 DEF OnItsWay
  <2>4. ASSUME Announced(w, p, on)
        PROVE  OnItsWay(v, p, on) \/ Announced(v, p, on)
    <3>1. PICK k \in DOMAIN w :
            /\ WillPublish(w[k], p) /\ w[k].waiter = "publish" /\ w[k].live = on
            /\ LatestAfter(w, k, p, on)
      BY <2>4 DEF Announced
    <3>2. CASE k = 1
      <4> DEFINE l == Len(t) + 1
      <4>1. l \in DOMAIN v /\ v[l] = r /\ \A j \in DOMAIN v : ~(j > l)
        BY <1>3
      <4>2. r.party = p /\ r.live = on
        BY <1>1, <1>2, <3>1, <3>2 DEF WillPublish
      <4>3. LatestAfter(v, 0, p, on)
        <5>1. 0 + 1 = 1
          OBVIOUS
        <5> QED BY <1>8, <3>1, <3>2, <5>1
      <4> QED BY <1>2, <4>1, <4>2, <4>3 DEF OnItsWay, RightAfter
    <3>3. CASE k # 1
      <4>1. k - 1 \in DOMAIN t /\ v[k - 1] = w[k] /\ k - 1 \in Nat /\ (k - 1) + 1 = k
            /\ k - 1 \in DOMAIN v
        BY <1>1, <1>3, <3>1, <3>3
      <4>2. LatestAfter(v, k - 1, p, on)
        BY <1>8, <3>1, <4>1
      <4> QED BY <3>1, <4>1, <4>2 DEF Announced
    <3> QED BY <3>2, <3>3
  <2> QED BY <1>12, <2>2, <2>3, <2>4 DEF Told
<1>13. ToldFits(d, v, s, on)
  <2>1. Rejoins(w) => Rejoins(v)
    BY <1>1, <1>3 DEF Rejoins, IsJoin
  <2> QED BY <1>6, <1>7, <1>12, <2>1 DEF ToldFits
<1> QED BY <1>7, <1>10, <1>11, <1>13

-----------------------------------------------------------------------------
(* Users and stores.                                                       *)

(* A desk that does not run with the player tells nothing.                 *)
LEMMA OthersTell ==
  ASSUME NEW e, ~Player(e), NEW w, NEW s, NEW on
  PROVE  Tells(e, w, s, on)
BY DEF Tells

(* start begins anew.                                                      *)
LEMMA StartTells ==
  ASSUME PublishingInv, NEW c \in Config, Start(c)
  PROVE  Tells(desk', desk'.wire, session', PlayerOn')
<1> DEFINE s == StopInternal(desk)
           t == [s EXCEPT !.config = c]
<1>1. s \in Desk /\ s.step = "idle" /\ ~s.ready
  BY DeskIs, StopInternalIs DEF PublishingInv
<1> HIDE DEF s
<1>2. t \in Desk /\ t.step = "idle" /\ ~t.ready
  BY <1>1 DEF Desk
<1>3. desk' = Connect(t)
  BY DEF Start, s
<1> HIDE DEF t
<1>4. desk'.step = "checking" /\ ~desk'.ready
  BY <1>2, <1>3, ConnectIs
<1> QED BY <1>4, UnreadyTells

(* stop takes it down.                                                     *)
LEMMA StopTells ==
  ASSUME PublishingInv, Stop
  PROVE  Tells(desk', desk'.wire, session', PlayerOn')
<1>1. Orderly(desk, desk.wire, PlayerOn) /\ Running(desk) /\ desk' = TakeDown(desk, Live(desk))
  BY DeskIs DEF PublishingInv, Stop
<1>2. Live(desk) \in BOOLEAN
  BY <1>1 DEF Live
<1>3. ~Running(desk')
  BY <1>1, <1>2, TakeDownFits
<1> QED BY <1>3, OthersTell DEF Player

(* Reconnecting begins anew or goes on.                                    *)
LEMMA ReconnectTells ==
  ASSUME PublishingInv, Reconnect
  PROVE  Tells(desk', desk'.wire, session', PlayerOn')
<1>1. PICK b \in BOOLEAN : desk' = Recover(desk, b)
  BY DEF Reconnect
<1>2. desk' = desk \/ (~desk'.ready /\ desk'.step = "checking")
  BY <1>1, DeskIs, RecoverFits DEF PublishingInv
<1>3. session' = session /\ PlayerOn' = PlayerOn
  BY DEF Reconnect, PlayerOn
<1> QED BY <1>2, <1>3, UnreadyTells DEF PublishingInv

(* An orchestrator that plays from the player hears of every change of it. *)
Stirred(d, e) ==
  \/ e = d /\ ~e.ready /\ e.step # "syncing"
  \/ /\ e.behind /\ e.coalescing
     /\ CalmFits(e, e.wire) /\ TimerFits(e)

(* A change of the player stirs an orchestrator that plays from it.        *)
LEMMA ChangesStir ==
  ASSUME PublishingInv, Player(desk)
  PROVE  /\ Stirred(desk, SourceChanges(desk)) /\ SourceChanges(desk) \in Desk
         /\ Keeps(desk, SourceChanges(desk)) /\ SourceChanges(desk).wire = desk.wire
         /\ SourceChanges(desk).active = desk.active
<1> DEFINE e == SourceChanges(desk)
<1>1. desk \in Desk /\ LinkFits(desk)
  BY DeskIs DEF PublishingInv, Orderly
<1>2. CalmFits(desk, desk.wire) /\ TimerFits(desk)
  BY DEF PublishingInv, Tells
<1>3. CASE desk.subscribed
  <2>1. /\ e \in Desk /\ e.wire = desk.wire /\ e.ready = desk.ready /\ e.step = desk.step
        /\ e.timer = desk.timer /\ e.link = desk.link /\ e.behind /\ e.coalescing
        /\ e.config = desk.config /\ e.blocked = desk.blocked
        /\ e.currentParty = desk.currentParty /\ e.active = desk.active
    BY <1>1, <1>3 DEF SourceChanges, Desk
  <2> HIDE DEF e
  <2>2. CalmFits(e, e.wire) /\ TimerFits(e)
    BY <1>2, <2>1 DEF CalmFits, TimerFits
  <2> QED BY <2>1, <2>2 DEF Stirred, Keeps, e
<1>4. CASE ~desk.subscribed
  BY <1>1, <1>4 DEF SourceChanges, LinkFits, Stirred, Keeps
<1> QED BY <1>3, <1>4

(* What is stirred tells it.                                               *)
LEMMA StirredIsTold ==
  ASSUME NEW d, NEW e, Stirred(d, e), NEW s, NEW on
  PROVE  Tells(e, e.wire, s, on)
BY UnreadyTells, StirredTells DEF Stirred

(* An invocation that does not end anything late leaves it stirred.        *)
LEMMA InvokeStirs ==
  ASSUME NEW d, NEW c \in Desk, Stirred(d, c), c.ready, NEW i \in Invocations,
         i.waiter # "late", IsStart(i) => i.waiter = "sync" /\ ~i.timedOut
  PROVE  Stirred(d, Invoke(c, i))
<1> DEFINE e == Invoke(c, i)
<1>1. /\ e.wire = Append(c.wire, i) /\ e.ready = c.ready /\ e.step = c.step /\ e.link = c.link
      /\ e.timer = c.timer /\ e.behind = c.behind /\ e.coalescing = c.coalescing
  BY InvokeIs DEF Keeps
<1>2. c.wire \in Wire /\ c.behind /\ c.coalescing /\ CalmFits(c, c.wire) /\ TimerFits(c)
  BY DEF Stirred, Desk, Wire
<1> HIDE DEF e
<1>3. \A k \in DOMAIN e.wire : (k \in DOMAIN c.wire /\ e.wire[k] = c.wire[k]) \/ e.wire[k] = i
  BY <1>1, <1>2, AppendIs
<1>4. CalmFits(e, e.wire)
  BY <1>1, <1>2, <1>3 DEF CalmFits
<1>5. TimerFits(e)
  BY <1>1, <1>2 DEF TimerFits
<1> QED BY <1>1, <1>2, <1>4, <1>5 DEF Stirred, e

(* Nor does the hook's effect.                                             *)
LEMMA SyncStirs ==
  ASSUME NEW d, NEW c \in Desk, Stirred(d, c), c.config \in Config, Player(c),
         NEW isLive \in BOOLEAN
  PROVE  Stirred(d, SyncLiveSession(c, isLive))
<1> DEFINE e == SyncLiveSession(c, isLive)
           p == c.config.party
<1>1. p \in Party /\ c.config.source # "aimp"
  BY DEF Config, Player
<1>2. CASE ~(Running(c) /\ c.ready /\ Connected(c)) \/ (isLive /\ c.liveSession)
  <2>1. e = c
    BY <1>2 DEF SyncLiveSession
  <2> QED BY <2>1
<1>3. CASE Running(c) /\ c.ready /\ Connected(c) /\ ~isLive
  <2>1. e = [c EXCEPT !.liveSession = FALSE]
    BY <1>1, <1>3 DEF SyncLiveSession
  <2>2. /\ e.wire = c.wire /\ e.ready = c.ready /\ e.step = c.step /\ e.link = c.link
        /\ e.timer = c.timer /\ e.behind = c.behind /\ e.coalescing = c.coalescing
    BY <2>1 DEF Desk
  <2> HIDE DEF e
  <2> QED BY <1>3, <2>2 DEF Stirred, CalmFits, TimerFits, e
<1>4. CASE Running(c) /\ c.ready /\ Connected(c) /\ isLive /\ ~c.liveSession
  <2>1. e = StartSession(c, p, "sync")
    BY <1>4 DEF SyncLiveSession
  <2>2. c.behind /\ c.coalescing /\ CalmFits(c, c.wire) /\ TimerFits(c)
    BY <1>4 DEF Stirred
  <2>3. CASE StartPending(c, p)
    <3> DEFINE v == [k \in DOMAIN c.wire |->
                       IF c.wire[k].op = "Start" /\ c.wire[k].attempt = c.inFlight
                       THEN [c.wire[k] EXCEPT !.waiter = "sync"] ELSE c.wire[k]]
    <3>1. e = [c EXCEPT !.wire = v]
      BY <2>1, <2>3 DEF StartSession
    <3>2. \A k \in DOMAIN c.wire : c.wire[k] \in Invocations
      BY DEF Desk
    <3>3. /\ DOMAIN v = DOMAIN c.wire
          /\ \A k \in DOMAIN c.wire :
               v[k] = c.wire[k] \/ (v[k].waiter = "sync" /\ v[k].timedOut = c.wire[k].timedOut
                                      /\ v[k].op = c.wire[k].op)
      BY <3>2 DEF Invocations
    <3> HIDE DEF v
    <3>4. /\ e.wire = v /\ e.ready = c.ready /\ e.step = c.step /\ e.link = c.link
          /\ e.timer = c.timer /\ e.behind = c.behind /\ e.coalescing = c.coalescing
      BY <3>1 DEF Desk
    <3> HIDE DEF e
    <3>5. CalmFits(e, e.wire)
      BY <2>2, <3>3, <3>4 DEF CalmFits, IsStart
    <3>6. TimerFits(e)
      BY <2>2, <3>4 DEF TimerFits
    <3> QED BY <2>2, <3>4, <3>5, <3>6 DEF Stirred, e
  <2>4. CASE ~StartPending(c, p)
    <3> DEFINE a == c.lastAttempt + 1
               b == [c EXCEPT !.lastAttempt = a, !.inFlight = a]
               i == [Invocation("Start", p, "sync") EXCEPT !.attempt = a]
    <3>1. e = Invoke(b, i)
      BY <2>1, <2>4 DEF StartSession
    <3>2. a \in Nat
      BY DEF Desk
    <3>3. /\ i \in Invocations /\ i.waiter = "sync" /\ ~i.timedOut
      BY <1>1, <3>2 DEF Invocation, Invocations
    <3>4. /\ b \in Desk /\ b.wire = c.wire /\ b.ready = c.ready /\ b.step = c.step
          /\ b.link = c.link /\ b.timer = c.timer /\ b.behind = c.behind
          /\ b.coalescing = c.coalescing
      BY <3>2 DEF Desk
    <3> HIDE DEF b, i
    <3>5. Stirred(d, b)
      BY <1>4, <2>2, <3>4 DEF Stirred, CalmFits, TimerFits
    <3> QED BY <1>4, <3>1, <3>3, <3>4, <3>5, InvokeStirs
  <2> QED BY <2>3, <2>4
<1> QED BY <1>2, <1>3, <1>4

(* A source goes on the air.                                               *)
LEMMA GoLiveTells ==
  ASSUME PublishingInv, NEW s \in Source, GoLive(s)
  PROVE  Tells(desk', desk'.wire, session', PlayerOn')
<1> DEFINE c == SourceChanges(desk)
<1>1. desk'.config = desk.config
  BY GoLiveKeeps DEF PublishingInv
<1>2. desk' = (IF PlaysFrom(s) THEN SyncLiveSession(c, TRUE) ELSE desk) /\ session' = session
      /\ sourceLive' = [sourceLive EXCEPT ![s] = TRUE]
  BY DEF GoLive
<1>3. CASE ~Player(desk)
  BY <1>1, <1>3, OthersTell DEF Player, Running
<1>4. CASE Player(desk) /\ PlaysFrom(s)
  <2>1. Stirred(desk, c) /\ c \in Desk /\ Keeps(desk, c)
    BY <1>4, ChangesStir
  <2>2. c.config \in Config /\ Player(c)
    BY <1>4, <2>1, DeskIs DEF PublishingInv, Keeps, Player, Running
  <2> HIDE DEF c
  <2>3. Stirred(desk, SyncLiveSession(c, TRUE))
    BY <2>1, <2>2, SyncStirs
  <2> QED BY <1>2, <1>4, <2>3, StirredIsTold
<1>5. CASE Player(desk) /\ ~PlaysFrom(s)
  <2>1. desk' = desk /\ PlayerOn' = PlayerOn
    BY <1>2, <1>5 DEF Player, PlaysFrom, PlayerOn
  <2> QED BY <1>2, <2>1 DEF PublishingInv
<1> QED BY <1>3, <1>4, <1>5

(* A source goes off the air.                                              *)
LEMMA StopLiveTells ==
  ASSUME PublishingInv, NEW s \in Source, StopLive(s)
  PROVE  Tells(desk', desk'.wire, session', PlayerOn')
<1>1. desk'.config = desk.config
  BY StopLiveKeeps DEF PublishingInv
<1>2. PICK heard \in BOOLEAN :
        LET c == IF PlaysFrom(s) /\ heard THEN SourceChanges(desk) ELSE desk
            e == IF s = "cherryPlayPlayer" /\ Running(c) /\ Connected(c)
                 THEN Invoke(c, Invocation("Reset", c.config.party, "stop")) ELSE c
        IN /\ s = "cherryPlayPlayer" => heard
           /\ desk' = IF PlaysFrom(s) THEN SyncLiveSession(e, FALSE) ELSE e
  BY DEF StopLive
<1>3. session' = session /\ sourceLive' = [sourceLive EXCEPT ![s] = FALSE]
  BY DEF StopLive
<1>4. CASE ~Player(desk)
  BY <1>1, <1>4, OthersTell DEF Player, Running
<1>5. CASE Player(desk) /\ PlaysFrom(s)
  <2> DEFINE c == SourceChanges(desk)
             i == Invocation("Reset", c.config.party, "stop")
             e == IF Running(c) /\ Connected(c) THEN Invoke(c, i) ELSE c
  <2>1. /\ Stirred(desk, c) /\ c \in Desk /\ Keeps(desk, c) /\ c.wire = desk.wire
    BY <1>5, ChangesStir
  <2>2. c.config \in Config /\ Player(c)
    BY <1>5, <2>1, DeskIs DEF PublishingInv, Keeps, Player, Running
  <2>3. desk' = SyncLiveSession(e, FALSE)
    BY <1>2, <1>5 DEF PlaysFrom, Player
  <2>4. i \in Invocations /\ i.waiter = "stop" /\ ~IsStart(i)
    BY <2>2 DEF Config, Invocation, Invocations, IsStart
  <2> HIDE DEF c, i
  <2>5. CASE c.ready \/ ~(Running(c) /\ Connected(c))
    <3>1. Stirred(desk, e) /\ e \in Desk /\ e.config = c.config
      BY <2>1, <2>4, <2>5, InvokeStirs, InvokeIs DEF Keeps
    <3> HIDE DEF e
    <3>2. Player(e) /\ e.config \in Config
      BY <2>2, <3>1 DEF Player, Running
    <3>3. Stirred(desk, SyncLiveSession(e, FALSE))
      BY <3>1, <3>2, SyncStirs
    <3> QED BY <2>3, <3>3, StirredIsTold
  <2>6. CASE ~c.ready /\ Running(c) /\ Connected(c)
    <3>1. /\ e \in Desk /\ ~e.ready /\ e.step = c.step
          /\ e.behind = c.behind /\ e.coalescing = c.coalescing
      BY <2>1, <2>4, <2>6, InvokeIs DEF Keeps
    <3> HIDE DEF e
    <3>2. desk' = e
      BY <2>3, <3>1 DEF SyncLiveSession
    <3>3. CASE c.step # "syncing"
      BY <3>1, <3>2, <3>3, UnreadyTells
    <3>4. CASE c.step = "syncing"
      <4>1. e.behind /\ e.coalescing
        BY <2>1, <3>1, <3>4 DEF Stirred
      <4>2. CalmFits(e, e.wire) /\ TimerFits(e)
        BY <3>1 DEF CalmFits, TimerFits
      <4> QED BY <3>2, <4>1, <4>2, StirredTells
    <3> QED BY <3>3, <3>4
  <2> QED BY <2>5, <2>6
<1>6. CASE Player(desk) /\ ~PlaysFrom(s)
  <2>1. s = "aimp"
    BY <1>6 DEF Player, PlaysFrom, Source
  <2>2. desk' = desk /\ PlayerOn' = PlayerOn
    BY <1>2, <1>3, <1>6, <2>1 DEF PlayerOn
  <2> QED BY <1>3, <2>2 DEF PublishingInv
<1> QED BY <1>4, <1>5, <1>6

(* A new project ends the session of the old one.                          *)
LEMMA NewProjectTells ==
  ASSUME PublishingInv, NewProject
  PROVE  Tells(desk', desk'.wire, session', PlayerOn')
<1>1. desk'.config = desk.config
  BY NewProjectKeeps DEF PublishingInv
<1>2. CASE ~Player(desk)
  BY <1>1, <1>2, OthersTell DEF Player, Running
<1>3. CASE Player(desk)
  <2> DEFINE p == desk.config.party
             c == SourceChanges(desk)
             i == EndOf(p, c.active[p], "newProject")
             e == Invoke(c, i)
  <2>1. desk' = e
    BY <1>3 DEF NewProject, Player, PlaysFrom
  <2>2. /\ Stirred(desk, c) /\ c \in Desk /\ Keeps(desk, c)
    BY <1>3, ChangesStir
  <2>3. p \in Party
    BY <1>3, DeskIs DEF PublishingInv, Player
  <2> HIDE DEF c
  <2>4. i \in Invocations /\ i.waiter = "newProject" /\ ~IsStart(i)
    BY <2>2, <2>3 DEF EndOf, Invocation, Invocations, IsStart, Desk
  <2> HIDE DEF i
  <2>5. CASE c.ready
    BY <2>1, <2>2, <2>4, <2>5, InvokeStirs, StirredIsTold
  <2>6. CASE ~c.ready
    <3>1. /\ ~e.ready /\ e.step = c.step
          /\ e.behind = c.behind /\ e.coalescing = c.coalescing
      BY <2>2, <2>4, <2>6, InvokeIs DEF Keeps
    <3> HIDE DEF e
    <3>2. CASE c.step # "syncing"
      BY <2>1, <3>1, <3>2, UnreadyTells
    <3>3. CASE c.step = "syncing"
      <4>1. e.behind /\ e.coalescing
        BY <2>2, <3>1, <3>3 DEF Stirred
      <4>2. CalmFits(e, e.wire) /\ TimerFits(e)
        BY <3>1 DEF CalmFits, TimerFits
      <4> QED BY <2>1, <4>1, <4>2, StirredTells
    <3> QED BY <3>2, <3>3
  <2> QED BY <2>5, <2>6
<1> QED BY <1>2, <1>3

(* AIMP says nothing of the player.                                        *)
LEMMA SyncAimpTells ==
  ASSUME PublishingInv, SyncAimp
  PROVE  Tells(desk', desk'.wire, session', PlayerOn')
<1>1. desk'.config = desk.config /\ desk.config.source = "aimp"
  BY SyncAimpKeeps DEF PublishingInv, SyncAimp, PlaysFrom
<1> QED BY <1>1, OthersTell DEF Player

-----------------------------------------------------------------------------
(* Failures.                                                               *)

(* What a failure leaves fit and without a connection tells what it did.   *)
LEMMA OfflineIsTold ==
  ASSUME StreamingInv', ~Connected(desk'), desk'.link = "none" \/ TimerFits(desk')
  PROVE  Tells(desk', desk'.wire, session', PlayerOn')
<1>1. Fit(desk', PlayerOn', joined')
  BY DEF StreamingInv
<1> QED BY <1>1, OfflineTells

(* What the present invariant says to the player's orchestrator.           *)
LEMMA PlayerIs ==
  ASSUME PublishingInv
  PROVE  /\ StreamingInv
         /\ Player(desk) =>
              /\ SyncFits(desk, desk.wire, PlayerOn) /\ CalmFits(desk, desk.wire)
              /\ TimerFits(desk) /\ ToldFits(desk, desk.wire, session, PlayerOn)
BY DEF PublishingInv, Tells

(* A desk that checked the party goes idle.                                *)
LEMMA CheckEnds ==
  ASSUME PublishingInv, StreamingInv', desk.step = "checking", desk'.ready => desk.ready,
         desk'.step = "idle", desk'.link = desk.link, desk'.config = desk.config
  PROVE  Tells(desk', desk'.wire, session', PlayerOn')
<1>1. CASE ~Player(desk)
  BY <1>1, OthersTell DEF Player, Running
<1>2. CASE ~desk'.ready
  BY <1>2, UnreadyTells
<1>3. CASE Player(desk) /\ desk'.ready
  <2>1. desk'.link = "none"
    BY <1>3, PlayerIs DEF TimerFits
  <2> QED BY <2>1, OfflineIsTold DEF Connected
<1> QED BY <1>1, <1>2, <1>3

(* The party is missing.                                                   *)
LEMMA PartyIsMissingTells ==
  ASSUME PublishingInv, PartyIsMissing
  PROVE  Tells(desk', desk'.wire, session', PlayerOn')
<1>1. StreamingInv' /\ desk \in Desk
  BY PartyIsMissingKeeps, DeskIs DEF PublishingInv
<1>2. /\ desk'.ready = desk.ready /\ desk'.step = "idle" /\ desk'.link = desk.link
      /\ desk'.config = desk.config /\ desk.step = "checking"
  BY <1>1 DEF PartyIsMissing, Desk
<1> QED BY <1>1, <1>2, CheckEnds

(* The check of the party fails.                                           *)
LEMMA CheckFailsTells ==
  ASSUME PublishingInv, CheckFails
  PROVE  Tells(desk', desk'.wire, session', PlayerOn')
<1> DEFINE c == [desk EXCEPT !.step = "idle"]
<1>1. StreamingInv' /\ desk \in Desk
  BY CheckFailsKeeps, DeskIs DEF PublishingInv
<1>2. /\ c \in Desk /\ c.ready = desk.ready /\ c.step = "idle" /\ c.link = desk.link
      /\ c.config = desk.config /\ desk.step = "checking"
  BY <1>1 DEF CheckFails, Desk, Steps
<1>3. desk' = ScheduleReconnect(c)
  BY DEF CheckFails
<1> HIDE DEF c
<1>4. /\ desk'.ready = desk.ready /\ desk'.step = "idle" /\ desk'.link = desk.link
      /\ desk'.config = desk.config
  BY <1>2, <1>3, ScheduleReconnectIs
<1> QED BY <1>1, <1>2, <1>4, CheckEnds

(* A dial fails, for those who wait for it.                                *)
LEMMA DialFailsTells ==
  ASSUME PublishingInv, DialFails
  PROVE  Tells(desk', desk'.wire, session', PlayerOn')
<1> DEFINE c == [desk EXCEPT !.link = "none"]
<1>1. StreamingInv' /\ desk \in Desk
  BY DialFailsKeeps, DeskIs DEF PublishingInv
<1>2. c \in Desk /\ c.link = "none"
  BY <1>1 DEF Desk, Links
<1>3. desk' = CASE desk.step # "dialing" -> c
                [] desk.step = "dialing" /\ desk.dials -> ConnectFails(c)
                [] desk.step = "dialing" /\ ~desk.dials -> Dial(c)
  BY DEF DialFails
<1> HIDE DEF c
<1>4. CASE desk.step # "dialing"
  BY <1>1, <1>2, <1>3, <1>4, OfflineIsTold DEF Connected
<1>5. CASE desk.step = "dialing" /\ desk.dials
  <2> DEFINE e == [c EXCEPT !.step = "idle", !.dials = FALSE, !.ready = FALSE]
  <2>1. e \in Desk /\ e.step = "idle" /\ ~e.ready
    BY <1>2 DEF Desk, Steps
  <2>2. desk' = ScheduleReconnect(e)
    BY <1>3, <1>5 DEF ConnectFails
  <2> HIDE DEF e
  <2>3. desk'.step = "idle" /\ ~desk'.ready
    BY <2>1, <2>2, ScheduleReconnectIs
  <2> QED BY <2>3, UnreadyTells
<1>6. CASE desk.step = "dialing" /\ ~desk.dials
  <2>1. desk'.step = "dialing"
    BY <1>2, <1>3, <1>6, DialIs
  <2> QED BY <2>1, UnreadyTells
<1> QED BY <1>4, <1>5, <1>6

(* The attempt gives the dial up.                                          *)
LEMMA DialTimesOutTells ==
  ASSUME PublishingInv, DialTimesOut
  PROVE  Tells(desk', desk'.wire, session', PlayerOn')
<1>1. \A k \in DOMAIN desk.wire : desk.wire[k].waiter # "connect"
  BY DeskIs DEF DialTimesOut, PublishingInv
<1>2. desk'.step = "idle" /\ ~desk'.ready
  BY <1>1, DeskIs, ConnectFailsFits DEF DialTimesOut, PublishingInv
<1> QED BY <1>2, UnreadyTells

(* The attempt gives the join up, and with it the connection it was on.    *)
LEMMA JoinTimesOutTells ==
  ASSUME PublishingInv, JoinTimesOut
  PROVE  Tells(desk', desk'.wire, session', PlayerOn')
<1> DEFINE c == CloseConnection(desk, "none")
<1>1. StreamingInv' /\ Orderly(desk, desk.wire, PlayerOn) /\ Awaits(desk, desk.wire)
  BY JoinTimesOutKeeps, DeskIs DEF PublishingInv, Fit
<1>2. Connected(desk) /\ desk.step = "joining"
  BY <1>1 DEF JoinTimesOut, Awaits, Orderly, LinkFits
<1>3. desk' = [c EXCEPT !.currentParty = NoParty]
  BY <1>2 DEF JoinTimesOut, Disconnect, Connected
<1>4. c.link = "none" /\ c \in Desk
  <2>1. "none" \in Links
    BY DEF Links
  <2> QED BY <1>1, <1>2, <2>1, CloseFits DEF Orderly
<1> HIDE DEF c
<1>5. desk'.link = "none"
  BY <1>3, <1>4 DEF Desk
<1> QED BY <1>1, <1>5, OfflineIsTold DEF Connected

(* The same attempts and teardowns are on record.                          *)
SameRecord(d, e) ==
  /\ e.inFlight = d.inFlight /\ e.lastAttempt = d.lastAttempt /\ e.handled = d.handled
  /\ e.active = d.active /\ e.late = d.late /\ e.liveSession = d.liveSession
  /\ e.lifecycle = d.lifecycle

(* The timer records nothing.                                              *)
LEMMA ScheduleReconnectRecords ==
  ASSUME NEW d \in Desk
  PROVE  SameRecord(d, ScheduleReconnect(d))
BY DEF ScheduleReconnect, SameRecord, Desk

(* The promise of attempt a is settled.                                    *)
Settles(d, e, a) ==
  /\ e.inFlight = (IF d.inFlight = a THEN 0 ELSE d.inFlight)
  /\ e.lastAttempt = d.lastAttempt /\ e.handled = d.handled /\ e.active = d.active
  /\ e.late \subseteq d.late /\ e.liveSession = d.liveSession
  /\ DOMAIN e.lifecycle = DOMAIN d.lifecycle
  /\ \A k \in DOMAIN e.lifecycle :
       /\ e.lifecycle[k].attempt = d.lifecycle[k].attempt
       /\ e.lifecycle[k].at = d.lifecycle[k].at
       /\ e.lifecycle[k].party = d.lifecycle[k].party
       /\ e.lifecycle[k].fresh = d.lifecycle[k].fresh
       /\ e.lifecycle[k].pending <=> d.lifecycle[k].pending /\ d.lifecycle[k].attempt # a

(* The promise of a start is settled: what it tells does not change.        *)
LEMMA SettleIs ==
  ASSUME NEW d \in Desk, NEW a, NEW started \in BOOLEAN
  PROVE  LET e == Settle(d, a, started) IN
         /\ e \in Desk /\ e.config = d.config /\ e.link = d.link /\ e.behind = d.behind
         /\ e.coalescing = d.coalescing /\ e.wire = d.wire /\ e.step = d.step
         /\ e.ready = d.ready /\ e.timer = d.timer
         /\ Settles(d, e, a) /\ e.late = d.late
<1> DEFINE e == Settle(d, a, started)
           l == d.lifecycle
           s == [k \in DOMAIN l |->
                   IF l[k].pending /\ l[k].attempt = a
                   THEN [l[k] EXCEPT !.pending = FALSE, !.started = started] ELSE l[k]]
           n == IF d.inFlight = a THEN 0 ELSE d.inFlight
<1>1. e = [d EXCEPT !.inFlight = n, !.lifecycle = s]
  BY DEF Settle
<1>2. l \in Seq(Teardowns) /\ n \in Nat
  BY DEF Desk
<1> HIDE DEF l, n
<1>3. s \in Seq(Teardowns)
  <2>1. ASSUME NEW k \in DOMAIN s
        PROVE  s[k] \in Teardowns
    <3> DEFINE t == l[k]
    <3>1. t \in Teardowns
      BY <1>2
    <3> HIDE DEF t
    <3>2. [t EXCEPT !.pending = FALSE, !.started = started] \in Teardowns
      BY <3>1 DEF Teardowns
    <3> QED BY <3>1, <3>2 DEF t
  <2>2. DOMAIN s = 1 .. Len(l) /\ Len(l) \in Nat
    BY <1>2
  <2> HIDE DEF s
  <2>3. s = [k \in DOMAIN s |-> s[k]]
    BY DEF s
  <2> QED BY <2>1, <2>2, <2>3
<1>5. /\ DOMAIN s = DOMAIN l
      /\ \A k \in DOMAIN l :
           /\ s[k].attempt = l[k].attempt /\ s[k].at = l[k].at /\ s[k].party = l[k].party
           /\ s[k].fresh = l[k].fresh
           /\ s[k].pending <=> l[k].pending /\ l[k].attempt # a
  <2>1. \A k \in DOMAIN l : l[k] \in Teardowns
    BY <1>2
  <2>2. ASSUME NEW k \in DOMAIN l
        PROVE  /\ s[k].attempt = l[k].attempt /\ s[k].at = l[k].at /\ s[k].party = l[k].party
               /\ s[k].fresh = l[k].fresh
               /\ s[k].pending <=> l[k].pending /\ l[k].attempt # a
    <3> DEFINE t == l[k]
    <3>1. t \in Teardowns
      BY <2>1
    <3>2. s[k] = IF t.pending /\ t.attempt = a
                 THEN [t EXCEPT !.pending = FALSE, !.started = started] ELSE t
      OBVIOUS
    <3> HIDE DEF t, s
    <3>3. /\ s[k].attempt = t.attempt /\ s[k].at = t.at /\ s[k].party = t.party /\ s[k].fresh = t.fresh
          /\ s[k].pending <=> t.pending /\ t.attempt # a
      BY <3>1, <3>2 DEF Teardowns
    <3> QED BY <3>3 DEF t
  <2> QED BY <2>2
<1> HIDE DEF s, e
<1>4. /\ e \in Desk /\ e.config = d.config /\ e.link = d.link /\ e.behind = d.behind
      /\ e.coalescing = d.coalescing /\ e.wire = d.wire /\ e.step = d.step
      /\ e.ready = d.ready /\ e.timer = d.timer
  BY <1>1, <1>2, <1>3 DEF Desk
<1>6. /\ e.inFlight = n /\ e.lifecycle = s
      /\ e.lastAttempt = d.lastAttempt /\ e.handled = d.handled /\ e.active = d.active
      /\ e.late = d.late /\ e.liveSession = d.liveSession
  BY <1>1, <1>2, <1>3 DEF Desk
<1>7. Settles(d, e, a)
  BY <1>5, <1>6 DEF Settles, n, l
<1> QED BY <1>4, <1>6, <1>7 DEF e

(* What a failed start leaves of the desk.                                 *)
LEMMA StartFailsIs ==
  ASSUME NEW d \in Desk, NEW i \in Invocations, IsFiniteSet(d.late)
  PROVE  LET e == StartFails(d, i) IN
         /\ e.config = d.config /\ e.link = d.link
         /\ e.behind = d.behind /\ e.coalescing = d.coalescing
         /\ \E q \in Wire : (\A k \in DOMAIN q : IsLateEnd(q[k])) /\ e.wire = d.wire \o q
         /\ \/ d.step = "starting" /\ e.step = "idle" /\ ~e.ready
            \/ i.waiter = "sync" /\ e.step = d.step /\ ~e.ready
            \/ i.waiter # "sync" /\ e.step = d.step /\ e.ready = d.ready
         /\ Settles(d, e, i.attempt)
<1> DEFINE waiting == {l \in d.late : l.newer = i.attempt}
           b == [d EXCEPT !.late = d.late \ waiting]
           c == Settle(b, i.attempt, FALSE)
           m == EndLate(c, waiting)
           e == StartFails(d, i)
<1>1. Starts(waiting)
  <2>1. IsFiniteSet(waiting)
    BY FS_Subset
  <2>2. d.late \subseteq Late
    BY DEF Desk
  <2> QED BY <2>1, <2>2 DEF Starts, Late
<1>2. /\ c \in Desk /\ c.config = d.config /\ c.link = d.link /\ c.behind = d.behind
      /\ c.coalescing = d.coalescing /\ c.wire = d.wire /\ c.step = d.step /\ c.ready = d.ready
      /\ Settles(d, c, i.attempt)
  <2>1. /\ b \in Desk /\ b.config = d.config /\ b.link = d.link /\ b.behind = d.behind
        /\ b.coalescing = d.coalescing /\ b.wire = d.wire /\ b.step = d.step
        /\ b.ready = d.ready
        /\ b.inFlight = d.inFlight /\ b.lastAttempt = d.lastAttempt /\ b.handled = d.handled
        /\ b.active = d.active /\ b.late \subseteq d.late /\ b.liveSession = d.liveSession
        /\ b.lifecycle = d.lifecycle
    BY DEF Desk
  <2> HIDE DEF b
  <2>2. /\ c \in Desk /\ c.config = b.config /\ c.link = b.link /\ c.behind = b.behind
        /\ c.coalescing = b.coalescing /\ c.wire = b.wire /\ c.step = b.step
        /\ c.ready = b.ready /\ Settles(b, c, i.attempt)
    BY <2>1, SettleIs
  <2> HIDE DEF c
  <2>3. Settles(d, c, i.attempt)
    BY <2>1, <2>2 DEF Settles
  <2> QED BY <2>1, <2>2, <2>3
<1>3. e = CASE d.step = "starting" /\ d.inFlight = i.attempt -> ConnectFails(m)
            [] ~(d.step = "starting" /\ d.inFlight = i.attempt) /\ i.waiter = "sync" -> PublishFails(m)
            [] OTHER -> m
  BY DEF StartFails
<1> HIDE DEF c, waiting, e
<1>4. /\ m \in Desk /\ m.config = d.config /\ m.link = d.link /\ m.behind = d.behind
      /\ m.coalescing = d.coalescing /\ m.step = d.step /\ m.ready = d.ready
      /\ Settles(d, m, i.attempt)
      /\ \E q \in Wire : (\A k \in DOMAIN q : IsLateEnd(q[k])) /\ m.wire = d.wire \o q
  <2>0. c.wire \in Wire /\ <<>> \in Wire /\ c.wire \o <<>> = c.wire
    BY <1>2 DEF Desk, Wire
  <2>1. CASE Connected(c)
    <3>0. \E q \in Wire :
            /\ \A k \in DOMAIN q : IsLateEnd(q[k])
            /\ \A k \in DOMAIN q : \E l \in waiting :
                 q[k].party = l.party /\ c.active[l.party] <= l.attempt
            /\ m = [c EXCEPT !.wire = c.wire \o q]
      <4>1. \/ ~Connected(c) /\ EndLate(c, waiting) \in {c, ScheduleReconnect(c)}
            \/ Connected(c) /\ \E q \in Wire :
                 /\ \A k \in DOMAIN q : IsLateEnd(q[k])
                 /\ \A k \in DOMAIN q : \E l \in waiting :
                      q[k].party = l.party /\ c.active[l.party] <= l.attempt
                 /\ EndLate(c, waiting) = [c EXCEPT !.wire = c.wire \o q]
        BY <1>1, <1>2, EndLateIs
      <4> QED BY <2>1, <4>1
    <3>1. PICK q \in Wire : (\A k \in DOMAIN q : IsLateEnd(q[k])) /\ m = [c EXCEPT !.wire = c.wire \o q]
      <4> HIDE DEF m
      <4> QED BY <3>0
    <3>2. c.wire \o q \in Wire
      BY <2>0, JointIs
    <3> HIDE DEF m
    <3>3. Settles(d, m, i.attempt)
      BY <1>2, <3>1 DEF Settles, Desk
    <3> QED BY <1>2, <3>1, <3>2, <3>3 DEF Desk, Wire
  <2>2. CASE ~Connected(c)
    <3>1. m = c \/ m = ScheduleReconnect(c)
      BY <1>1, <1>2, <2>2, EndLateIs
    <3>2. /\ m \in Desk /\ m.config = c.config /\ m.link = c.link /\ m.behind = c.behind
          /\ m.coalescing = c.coalescing /\ m.step = c.step /\ m.ready = c.ready
          /\ m.wire = c.wire
      BY <1>2, <3>1, ScheduleReconnectIs
    <3>3. m.wire = d.wire \o <<>> /\ \A k \in DOMAIN <<>> : IsLateEnd(<<>>[k])
      BY <1>2, <2>0, <3>2
    <3>4. SameRecord(c, m)
      BY <1>2, <3>1, ScheduleReconnectRecords DEF SameRecord
    <3> HIDE DEF m
    <3>5. Settles(d, m, i.attempt)
      BY <1>2, <3>4 DEF Settles, SameRecord
    <3> QED BY <1>2, <2>0, <3>2, <3>3, <3>5
  <2> QED BY <2>1, <2>2
<1> HIDE DEF m
<1>5. CASE d.step = "starting" /\ d.inFlight = i.attempt
  <2> DEFINE f == [m EXCEPT !.step = "idle", !.dials = FALSE, !.ready = FALSE]
  <2>1. /\ f \in Desk /\ f.config = m.config /\ f.link = m.link /\ f.behind = m.behind
        /\ f.coalescing = m.coalescing /\ f.step = "idle" /\ ~f.ready /\ f.wire = m.wire
        /\ SameRecord(m, f)
    BY <1>4 DEF Desk, Steps, SameRecord
  <2>2. e = ScheduleReconnect(f)
    BY <1>3, <1>5 DEF ConnectFails
  <2> HIDE DEF f
  <2>3. /\ e.config = m.config /\ e.link = m.link /\ e.behind = m.behind
        /\ e.coalescing = m.coalescing /\ e.step = "idle" /\ ~e.ready /\ e.wire = m.wire
    BY <2>1, <2>2, ScheduleReconnectIs
  <2>4. SameRecord(f, e)
    BY <2>1, <2>2, ScheduleReconnectRecords
  <2>5. Settles(d, e, i.attempt)
    BY <1>4, <2>1, <2>4 DEF Settles, SameRecord
  <2> QED BY <1>4, <1>5, <2>3, <2>5 DEF e
<1>6. CASE ~(d.step = "starting" /\ d.inFlight = i.attempt) /\ i.waiter = "sync"
  <2> DEFINE f == [m EXCEPT !.ready = FALSE]
  <2>1. /\ f \in Desk /\ f.config = m.config /\ f.link = m.link /\ f.behind = m.behind
        /\ f.coalescing = m.coalescing /\ f.step = m.step /\ ~f.ready /\ f.wire = m.wire
        /\ SameRecord(m, f)
    BY <1>4 DEF Desk, SameRecord
  <2>2. e = ScheduleReconnect(f)
    BY <1>3, <1>6 DEF PublishFails
  <2> HIDE DEF f
  <2>3. /\ e.config = m.config /\ e.link = m.link /\ e.behind = m.behind
        /\ e.coalescing = m.coalescing /\ e.step = m.step /\ ~e.ready /\ e.wire = m.wire
    BY <2>1, <2>2, ScheduleReconnectIs
  <2>4. SameRecord(f, e)
    BY <2>1, <2>2, ScheduleReconnectRecords
  <2>5. Settles(d, e, i.attempt)
    BY <1>4, <2>1, <2>4 DEF Settles, SameRecord
  <2> QED BY <1>4, <1>6, <2>3, <2>5 DEF e
<1>7. CASE ~(d.step = "starting" /\ d.inFlight = i.attempt) /\ i.waiter # "sync"
  BY <1>3, <1>4, <1>7 DEF e
<1> QED BY <1>5, <1>6, <1>7

(* A rejection that leaves a ready orchestrator ready sets no timer, but   *)
(* for a late end or a start nobody waits for.                             *)
LEMMA RejectIsCalm ==
  ASSUME NEW d \in Desk, IsFiniteSet(d.late), NEW i \in Invocations, i.waiter # "late",
         IsStart(i) => i.waiter = "sync" /\ ~i.timedOut, d.step = "idle"
  PROVE  Reject(d, i).ready => Reject(d, i).timer = d.timer
<1>1. i.op \in {"Join", "Start", "End", "Reset", "Notify", "Publish"}
  BY DEF Invocations
<1>2. CASE i.op = "Start"
  <2>1. Reject(d, i) = StartFails(d, i) /\ i.waiter = "sync"
    BY <1>2 DEF Reject, IsStart
  <2> QED BY <2>1, StartFailsIs
<1>3. CASE i.op = "End" /\ i.waiter # "newProject"
  <2>1. Reject(d, i) = EndReturned(d, i)
    BY <1>3 DEF Reject
  <2> QED BY <2>1 DEF EndReturned, Desk
<1>4. CASE i.op = "Reset" /\ i.waiter = "teardown"
  <2>1. Reject(d, i) = [d EXCEPT !.lifecycle = Tail(@)]
    BY <1>4 DEF Reject
  <2> QED BY <2>1 DEF Desk
<1>5. CASE i.op \in {"Join", "Notify", "Publish"} /\ i.waiter = "connect"
  <2>1. Reject(d, i) = ConnectFails(d)
    BY <1>5 DEF Reject
  <2>2. ~ConnectFails(d).ready
    BY DEF ConnectFails, ScheduleReconnect, Desk
  <2> QED BY <2>1, <2>2
<1>6. CASE i.op \in {"Notify", "Publish"} /\ i.waiter = "publish"
  <2>1. Reject(d, i) = PublishFails(d)
    BY <1>6 DEF Reject
  <2>2. ~PublishFails(d).ready
    BY DEF PublishFails, ScheduleReconnect, Desk
  <2> QED BY <2>1, <2>2
<1>7. CASE \/ i.op = "End" /\ i.waiter = "newProject"
           \/ i.op = "Reset" /\ i.waiter # "teardown"
           \/ i.op = "Join" /\ i.waiter # "connect"
           \/ i.op \in {"Notify", "Publish"} /\ i.waiter \notin {"connect", "publish"}
  BY <1>7 DEF Reject
<1> QED BY <1>1, <1>2, <1>3, <1>4, <1>5, <1>6, <1>7

(* So the connection's end sets no timer for an orchestrator that stays    *)
(* ready: its client will reconnect.                                       *)
LEMMA CloseIsCalm ==
  ASSUME NEW d, NEW on, Orderly(d, d.wire, on), Awaits(d, d.wire), NEW link \in Links,
         link # "connected", link \notin {"preparing", "starting"},
         d.ready, d.step = "idle", ~d.timer, CalmFits(d, d.wire)
  PROVE  LET e == CloseConnection(d, link) IN e.ready => ~e.timer
<1> DEFINE w == d.wire
           n == Len(w)
           base == [d EXCEPT !.link = link, !.wire = <<>>]
           Left(k, g) == /\ k <= n
                         /\ Orderly(g, SubSeq(w, k + 1, n), on)
                         /\ Awaits(g, SubSeq(w, k + 1, n))
                         /\ g.step = "idle" /\ (g.ready => ~g.timer)
                         /\ g.wire = <<>> /\ g.link = link
           Good == {g \in Nat \X Desk : Left(g[1], g[2])}
<1>1. d \in Desk /\ w \in Wire /\ n \in Nat
  BY DEF Orderly, Wire
<1>2. /\ base \in Desk /\ base.wire = <<>> /\ base.link = link
      /\ base.config = d.config /\ base.step = d.step /\ base.ready = d.ready
      /\ base.blocked = d.blocked
      /\ base.subscribed = d.subscribed /\ base.behind = d.behind /\ base.coalescing = d.coalescing
      /\ base.lastAttempt = d.lastAttempt /\ base.inFlight = d.inFlight /\ base.active = d.active
      /\ base.handled = d.handled /\ base.late = d.late /\ base.lifecycle = d.lifecycle
      /\ base.currentParty = d.currentParty /\ base.timer = d.timer
  <2>1. <<>> \in Seq(Invocations)
    OBVIOUS
  <2> QED BY <1>1, <2>1 DEF Desk
<1> HIDE DEF base
<1>3. Orderly(base, w, on)
  <2>1. AttemptsFit(base, w) /\ StartsFit(base, w)
    BY <1>2 DEF Orderly, AttemptsFit, StartsFit
  <2>2. WaitersFit(base, w, on)
    BY <1>2 DEF Orderly, WaitersFit, Running
  <2>3. TeardownsFit(base, w)
    BY <1>2 DEF Orderly, TeardownsFit, Running
  <2>4. RestFits(base) /\ LinkFits(base) /\ PartyFits(base)
    BY <1>2 DEF Orderly, RestFits, LinkFits, PartyFits, Running, Connected, Settling
  <2> QED BY <1>1, <1>2, <2>1, <2>2, <2>3, <2>4 DEF Orderly
<1>4. Awaits(base, w)
  BY <1>2 DEF Awaits
<1>5. <<0, base>> \in Good
  <2>1. SubSeq(w, 0 + 1, n) = w
    BY <1>1, RestIs
  <2>2. Left(0, base)
    <3> DEFINE rest == SubSeq(w, 0 + 1, n)
    <3>1. rest = w
      BY <2>1
    <3> HIDE DEF rest
    <3>2. Orderly(base, rest, on) /\ Awaits(base, rest)
      BY <1>3, <1>4, <3>1
    <3>3. 0 <= n
      BY <1>1
    <3> QED BY <1>2, <3>2, <3>3 DEF rest
  <2> HIDE DEF Left
  <2> QED BY <1>2, <2>2
<1>6. ASSUME NEW k \in Nat, NEW g, k < n, <<k, g>> \in Good
      PROVE  <<k + 1, Reject(g, w[k + 1])>> \in Good
  <2> DEFINE rest == SubSeq(w, k + 1, n)
             e == Reject(g, w[k + 1])
  <2>1. /\ rest # <<>> /\ Head(rest) = w[k + 1]
        /\ Tail(rest) = SubSeq(w, (k + 1) + 1, n)
    BY <1>1, <1>6, RestIs
  <2>0. Left(k, g) /\ g \in Desk
    <3> HIDE DEF Left
    <3> QED BY <1>6
  <2>2. /\ Orderly(g, rest, on) /\ Awaits(g, rest) /\ g.step = "idle" /\ (g.ready => ~g.timer)
        /\ g.wire = <<>> /\ g.link = link
    BY <2>0
  <2> HIDE DEF rest
  <2>3. /\ Orderly(e, Tail(rest), on) /\ Awaits(e, Tail(rest)) /\ GoesOn(g, e)
        /\ e.wire = <<>> /\ e.link = g.link
    BY <2>1, <2>2, RejectFits DEF Connected
  <2>4. e.step = "idle" /\ (e.ready => g.ready)
    BY <2>2, <2>3 DEF GoesOn
  <2>5. k + 1 \in DOMAIN w /\ w[k + 1] \in Invocations
    BY <1>1, <1>6 DEF Wire
  <2>6. e.ready => e.timer = g.timer
    <3>1. w[k + 1].waiter # "late"
          /\ (IsStart(w[k + 1]) => w[k + 1].waiter = "sync" /\ ~w[k + 1].timedOut)
      BY <2>5 DEF CalmFits
    <3>2. IsFiniteSet(g.late)
      BY <2>2 DEF Orderly, AttemptsFit
    <3> QED BY <2>0, <2>2, <2>5, <3>1, <3>2, RejectIsCalm
  <2>7. e \in Desk
    BY <2>3 DEF Orderly
  <2> HIDE DEF e
  <2>8. Left(k + 1, e)
    <3> DEFINE left == SubSeq(w, (k + 1) + 1, n)
    <3>1. Tail(rest) = left
      BY <2>1
    <3> HIDE DEF left
    <3>2. Orderly(e, left, on) /\ Awaits(e, left)
      BY <2>3, <3>1
    <3>3. k + 1 <= n
      BY <1>1, <1>6
    <3> QED BY <2>2, <2>3, <2>4, <2>6, <3>2, <3>3 DEF left
  <2> HIDE DEF Left
  <2> QED BY <2>7, <2>8 DEF e
<1> DEFINE e == CloseConnection(d, link)
<1> HIDE DEF Good, Left
<1>7. \A k \in Nat : \A g : k < n /\ <<k, g>> \in Good => <<k + 1, Reject(g, w[k + 1])>> \in Good
  BY <1>6
<1>8. <<n, e>> \in Good
  BY <1>1, <1>5, <1>7, CloseRejects DEF base
<1> HIDE DEF e
<1>9. Left(n, e)
  BY <1>8 DEF Good
<1> QED BY <1>9 DEF Left, e

(* The connection is lost.                                                 *)
LEMMA LoseTells ==
  ASSUME PublishingInv, Lose
  PROVE  Tells(desk', desk'.wire, session', PlayerOn')
<1> DEFINE link == "reconnecting"
<1>1. /\ StreamingInv' /\ Connected(desk) /\ desk' = CloseConnection(desk, link)
      /\ Orderly(desk, desk.wire, PlayerOn) /\ Awaits(desk, desk.wire)
  BY LoseKeeps, DeskIs DEF PublishingInv, Fit, Lose
<1>2. link \in Links /\ link # "connected" /\ link \notin {"preparing", "starting"}
  BY DEF Links
<1> HIDE DEF link
<1>3. desk.step # "dialing"
  BY <1>1 DEF Orderly, LinkFits, Connected
<1>4. GoesOn(desk, desk') /\ desk'.config = desk.config /\ desk'.link = link
  BY <1>1, <1>2, <1>3, CloseFits
<1>5. ~Connected(desk')
  BY <1>2, <1>4 DEF Connected
<1>6. CASE ~Player(desk)
  BY <1>4, <1>6, OthersTell DEF Player, Running
<1>7. CASE Player(desk)
  <2>1. CalmFits(desk, desk.wire) /\ TimerFits(desk)
    BY <1>7, PlayerIs
  <2>2. desk.link # "none"
    BY <1>1 DEF Connected
  <2>3. ASSUME desk'.ready, desk'.step = "idle"
        PROVE  ~desk'.timer
    <3>1. desk.ready /\ desk.step = "idle"
      BY <1>4, <2>3 DEF GoesOn
    <3>2. ~desk.timer
      BY <2>1, <2>2, <3>1 DEF TimerFits
    <3> QED BY <1>1, <1>2, <2>1, <2>3, <3>1, <3>2, CloseIsCalm
  <2>4. desk'.ready => desk'.step # "checking"
    BY <1>4, <2>1, <2>2 DEF GoesOn, TimerFits
  <2>5. TimerFits(desk')
    BY <2>3, <2>4 DEF TimerFits
  <2> QED BY <1>1, <1>5, <2>5, OfflineIsTold
<1> QED BY <1>6, <1>7

(* Invocations that fewer wait for, and the ends of late starts after      *)
(* them, are as an attempt's publication needs them.                       *)
LEMMA SyncChanged ==
  ASSUME NEW d, NEW w \in Wire, NEW on, SyncFits(d, w, on),
         NEW e, e.config = d.config, e.step = d.step, e.behind = d.behind,
         NEW u \in Wire,
         \A k \in DOMAIN w :
           /\ k \in DOMAIN u
           /\ u[k].op = w[k].op /\ u[k].party = w[k].party /\ u[k].fresh = w[k].fresh
           /\ u[k].live = w[k].live
           /\ \/ u[k].waiter = w[k].waiter
              \/ u[k].waiter = "nobody" /\ w[k].waiter # "newProject",
         \A k \in DOMAIN u : k \in DOMAIN w \/ IsLateEnd(u[k]),
         DOMAIN u = DOMAIN w \/ \E k \in DOMAIN w : IsStart(w[k])
  PROVE  SyncFits(e, u, on)
<1> DEFINE p == d.config.party
<1> SUFFICES ASSUME d.step = "syncing", ~d.behind,
                    NEW a \in DOMAIN u, u[a].waiter = "connect",
                    NEW n, n = (IF u[a].op = "Publish" THEN 0 ELSE a)
             PROVE  /\ \A k \in DOMAIN u : k > n => ~IsStart(u[k])
                    /\ u[a].op = "Publish" =>
                         \A k \in DOMAIN u : k > a => u[k].waiter # "late"
                    /\ \/ ProjectIsGoing(u)
                       \/ /\ LatestAfter(u, n, p, on)
                          /\ u[a].op = "Publish" => RightAfter(u, a, p, on)
  BY DEF SyncFits
<1>1. a \in DOMAIN w /\ w[a].waiter = "connect" /\ w[a].op = u[a].op
  BY DEF IsLateEnd
<1>2. /\ \A k \in DOMAIN w : k > n => ~IsStart(w[k])
      /\ w[a].op = "Publish" => \A k \in DOMAIN w : k > a => w[k].waiter # "late"
      /\ \/ ProjectIsGoing(w)
         \/ /\ LatestAfter(w, n, p, on)
            /\ w[a].op = "Publish" => RightAfter(w, a, p, on)
  BY <1>1 DEF SyncFits
<1>3. u[a].op = "Publish" => DOMAIN u = DOMAIN w
  <2>1. \A k \in DOMAIN w : k > 0
    BY DEF Wire
  <2> QED BY <1>1, <1>2, <2>1
<1>4. \A k \in DOMAIN u : k > n => ~IsStart(u[k])
  BY <1>2 DEF IsStart, IsLateEnd
<1>5. u[a].op = "Publish" => \A k \in DOMAIN u : k > a => u[k].waiter # "late"
  BY <1>1, <1>2, <1>3
<1>6. ProjectIsGoing(w) => ProjectIsGoing(u)
  BY DEF ProjectIsGoing, Departs
<1>7. LatestAfter(w, n, p, on) => LatestAfter(u, n, p, on)
  BY DEF LatestAfter, WillPublish, IsLateEnd
<1>8. u[a].op = "Publish" /\ RightAfter(w, a, p, on) => RightAfter(u, a, p, on)
  BY <1>3 DEF RightAfter, Right
<1> QED BY <1>1, <1>2, <1>4, <1>5, <1>6, <1>7, <1>8

(* An attempt that publishes tells when it publishes the last word.        *)
LEMMA SyncingTells ==
  ASSUME NEW e, NEW w, NEW s, NEW on, e.step = "syncing", SyncFits(e, w, on)
  PROVE  Tells(e, w, s, on)
BY DEF Tells, CalmFits, TimerFits, ToldFits

(* A start times out.                                                      *)
LEMMA StartTimesOutTells ==
  ASSUME PublishingInv, NEW k \in DOMAIN desk.wire, StartTimesOut(k)
  PROVE  Tells(desk', desk'.wire, session', PlayerOn')
<1> DEFINE w == desk.wire
           i == w[k]
           n == [i EXCEPT !.timedOut = TRUE, !.waiter = "nobody"]
           v == [w EXCEPT ![k] = n]
           d == [desk EXCEPT !.wire = v]
<1>1. /\ desk \in Desk /\ w \in Wire /\ Orderly(desk, w, PlayerOn) /\ i \in Invocations
      /\ IsStart(i) /\ i.waiter \in {"nobody", "sync"}
      /\ desk.link # "none"
  BY DeskIs DEF PublishingInv, StartTimesOut, IsStart, Wire, Orderly, StartsFit, Connected
<1>2. /\ n \in Invocations /\ n.op = i.op /\ n.party = i.party /\ n.fresh = i.fresh
      /\ n.live = i.live /\ n.waiter = "nobody"
  BY <1>1 DEF Invocations
<1>3. desk' = StartFails(d, i)
  <2>1. [desk EXCEPT !.wire[k].timedOut = TRUE, !.wire[k].waiter = "nobody"] = d
    BY <1>1 DEF Desk, Wire, Invocations
  <2> QED BY <2>1 DEF StartTimesOut
<1>4. PlayerOn' = PlayerOn
  BY DEF StartTimesOut, PlayerOn
<1> HIDE DEF n
<1>5. v \in Wire /\ DOMAIN v = DOMAIN w /\ v[k] = n /\ \A j \in DOMAIN w : j # k => v[j] = w[j]
  BY <1>1, <1>2 DEF Wire
<1> HIDE DEF v
<1>6. /\ d \in Desk /\ d.wire = v /\ d.late = desk.late /\ d.config = desk.config
      /\ d.behind = desk.behind /\ d.step = desk.step /\ d.ready = desk.ready
  BY <1>1, <1>5 DEF Desk, Wire
<1>7. IsFiniteSet(d.late)
  BY <1>1, <1>6 DEF Orderly, AttemptsFit
<1> HIDE DEF d
<1>8. /\ desk'.config = d.config /\ desk'.behind = d.behind
      /\ \E q \in Wire : (\A j \in DOMAIN q : IsLateEnd(q[j])) /\ desk'.wire = d.wire \o q
      /\ \/ d.step = "starting" /\ desk'.step = "idle" /\ ~desk'.ready
         \/ i.waiter = "sync" /\ desk'.step = d.step /\ ~desk'.ready
         \/ i.waiter # "sync" /\ desk'.step = d.step /\ desk'.ready = d.ready
  BY <1>1, <1>3, <1>6, <1>7, StartFailsIs
<1>9. CASE ~Player(desk)
  BY <1>6, <1>8, <1>9, OthersTell DEF Player, Running
<1>10. CASE desk'.step \in {"dialing", "joining", "starting"}
  BY <1>10, UnreadyTells
<1>11. CASE Player(desk) /\ desk'.step \in {"idle", "checking"}
  <2>1. ~desk'.ready
    <3>1. desk.ready /\ i.waiter # "sync" => desk.step \notin {"idle", "checking"}
      BY <1>1, <1>11, PlayerIs DEF CalmFits, TimerFits
    <3> QED BY <1>6, <1>8, <1>11, <3>1
  <2> QED BY <1>11, <2>1, UnreadyTells
<1>12. CASE Player(desk) /\ desk'.step = "syncing"
  <2>1. PICK q \in Wire : (\A j \in DOMAIN q : IsLateEnd(q[j])) /\ desk'.wire = v \o q
    BY <1>6, <1>8
  <2> DEFINE u == v \o q
  <2>2. /\ u \in Wire
        /\ \A j \in DOMAIN v : j \in DOMAIN u /\ u[j] = v[j]
        /\ \A j \in DOMAIN u : j \in DOMAIN v \/ IsLateEnd(u[j])
    <3>1. /\ u \in Wire
          /\ \A j \in DOMAIN v : j \in DOMAIN u /\ u[j] = v[j]
          /\ \A j \in DOMAIN q : j + Len(v) \in DOMAIN u /\ u[j + Len(v)] = q[j]
          /\ \A j \in DOMAIN u :
               \/ j \in DOMAIN v
               \/ j - Len(v) \in DOMAIN q /\ j = (j - Len(v)) + Len(v)
      BY <1>5, JointIs
    <3> HIDE DEF u
    <3>2. ASSUME NEW j \in DOMAIN u, j \notin DOMAIN v
          PROVE  IsLateEnd(u[j])
      <4> DEFINE l == j - Len(v)
      <4>1. l \in DOMAIN q /\ j = l + Len(v)
        BY <3>1, <3>2
      <4> HIDE DEF l
      <4> QED BY <2>1, <3>1, <4>1
    <3> QED BY <3>1, <3>2
  <2> HIDE DEF u
  <2>3. \A j \in DOMAIN w :
          /\ j \in DOMAIN u
          /\ u[j].op = w[j].op /\ u[j].party = w[j].party /\ u[j].fresh = w[j].fresh
          /\ u[j].live = w[j].live
          /\ \/ u[j].waiter = w[j].waiter
             \/ u[j].waiter = "nobody" /\ w[j].waiter # "newProject"
    BY <1>1, <1>2, <1>5, <2>2
  <2>4. SyncFits(desk, w, PlayerOn)
    BY <1>12, PlayerIs
  <2>5. desk'.config = desk.config /\ desk'.step = desk.step /\ desk'.behind = desk.behind
    BY <1>6, <1>8, <1>12
  <2>6. SyncFits(desk', u, PlayerOn)
    BY <1>1, <1>5, <2>2, <2>3, <2>4, <2>5, SyncChanged
  <2> QED BY <1>4, <1>12, <2>1, <2>6, SyncingTells DEF u
<1> QED BY <1>1, <1>6, <1>8, <1>9, <1>10, <1>11, <1>12 DEF Desk, Steps

(* A publication times out.                                                *)
LEMMA PublishTimesOutTells ==
  ASSUME PublishingInv, NEW k \in DOMAIN desk.wire, PublishTimesOut(k)
  PROVE  Tells(desk', desk'.wire, session', PlayerOn')
<1> DEFINE w == desk.wire
           i == w[k]
           n == [i EXCEPT !.waiter = "nobody"]
           v == [w EXCEPT ![k] = n]
           c == [desk EXCEPT !.wire = v]
<1>1. /\ desk \in Desk /\ w \in Wire /\ Orderly(desk, w, PlayerOn) /\ i \in Invocations
      /\ i.op \in {"Notify", "Publish"} /\ i.waiter \in {"connect", "publish", "stop"}
  BY DeskIs DEF PublishingInv, PublishTimesOut, Wire
<1>2. /\ n \in Invocations /\ n.op = i.op /\ n.party = i.party /\ n.fresh = i.fresh
      /\ n.live = i.live /\ n.waiter = "nobody"
  BY <1>1 DEF Invocations
<1>3. [desk EXCEPT !.wire[k].waiter = "nobody"] = c
  BY <1>1 DEF Desk, Wire, Invocations
<1>4. /\ desk' = CASE i.waiter = "connect" -> ConnectFails(c)
                   [] i.waiter = "publish" -> PublishFails(c)
                   [] i.waiter = "stop" -> c
      /\ session' = session /\ PlayerOn' = PlayerOn
  BY <1>3 DEF PublishTimesOut, PlayerOn
<1> HIDE DEF n
<1>5. v \in Wire /\ DOMAIN v = DOMAIN w /\ v[k] = n /\ \A j \in DOMAIN w : j # k => v[j] = w[j]
  BY <1>1, <1>2 DEF Wire
<1> HIDE DEF v
<1>6. /\ c \in Desk /\ c.wire = v /\ c.config = desk.config /\ c.behind = desk.behind
      /\ c.step = desk.step /\ c.ready = desk.ready /\ c.link = desk.link
      /\ c.timer = desk.timer /\ c.coalescing = desk.coalescing
  BY <1>1, <1>5 DEF Desk, Wire
<1> HIDE DEF c
<1>7. \A j \in DOMAIN w :
        /\ j \in DOMAIN v
        /\ v[j].op = w[j].op /\ v[j].party = w[j].party /\ v[j].fresh = w[j].fresh
        /\ v[j].live = w[j].live
        /\ \/ v[j].waiter = w[j].waiter
           \/ j = k /\ v[j].waiter = "nobody" /\ w[j].waiter # "newProject"
  BY <1>1, <1>2, <1>5
<1>8. CASE i.waiter = "connect"
  <2> DEFINE f == [c EXCEPT !.step = "idle", !.dials = FALSE, !.ready = FALSE]
  <2>1. f \in Desk /\ f.step = "idle" /\ ~f.ready
    BY <1>6 DEF Desk, Steps
  <2>2. desk' = ScheduleReconnect(f)
    BY <1>4, <1>8 DEF ConnectFails
  <2> HIDE DEF f
  <2>3. desk'.step = "idle" /\ ~desk'.ready
    BY <2>1, <2>2, ScheduleReconnectIs
  <2> QED BY <2>3, UnreadyTells
<1>9. CASE i.waiter = "publish"
  <2> DEFINE f == [c EXCEPT !.ready = FALSE]
  <2>1. /\ f \in Desk /\ f.step = c.step /\ ~f.ready /\ f.config = c.config
        /\ f.behind = c.behind /\ f.wire = c.wire
    BY <1>6 DEF Desk
  <2>2. desk' = ScheduleReconnect(f)
    BY <1>4, <1>9 DEF PublishFails
  <2> HIDE DEF f
  <2>3. /\ desk'.step = desk.step /\ ~desk'.ready /\ desk'.config = desk.config
        /\ desk'.behind = desk.behind /\ desk'.wire = v
    BY <1>6, <2>1, <2>2, ScheduleReconnectIs
  <2>4. CASE ~Player(desk)
    BY <2>3, <2>4, OthersTell DEF Player, Running
  <2>5. CASE desk.step # "syncing"
    BY <2>3, <2>5, UnreadyTells
  <2>6. CASE Player(desk) /\ desk.step = "syncing"
    <3>1. SyncFits(desk, w, PlayerOn)
      BY <2>6, PlayerIs
    <3>2. SyncFits(desk', v, PlayerOn)
      BY <1>1, <1>5, <1>7, <2>3, <3>1, SyncChanged
    <3> QED BY <1>4, <2>3, <2>6, <3>2, SyncingTells
  <2> QED BY <2>4, <2>5, <2>6
<1>10. CASE i.waiter = "stop"
  <2>1. desk' = c
    BY <1>4, <1>10
  <2>2. CASE ~Player(desk)
    BY <1>6, <2>1, <2>2, OthersTell DEF Player, Running
  <2>3. CASE Player(desk)
    <3> DEFINE p == desk.config.party
    <3>1. /\ SyncFits(desk, w, PlayerOn) /\ CalmFits(desk, w) /\ TimerFits(desk)
          /\ ToldFits(desk, w, session, PlayerOn)
      BY <2>3, PlayerIs
    <3>2. SyncFits(c, v, PlayerOn)
      BY <1>1, <1>5, <1>6, <1>7, <3>1, SyncChanged
    <3>3. CalmFits(c, v)
      <4>1. \A j \in DOMAIN w : v[j].waiter = "late" => w[j].waiter = "late"
        BY <1>7
      <4>2. \A j \in DOMAIN v : IsStart(v[j]) => v[j] = w[j]
        BY <1>1, <1>2, <1>5 DEF IsStart
      <4> QED BY <1>5, <1>6, <3>1, <4>1, <4>2 DEF CalmFits
    <3>4. TimerFits(c)
      BY <1>6, <3>1 DEF TimerFits
    <3>5. \A m : /\ RightAfter(w, m, p, PlayerOn) => RightAfter(v, m, p, PlayerOn)
                 /\ LatestAfter(w, m, p, PlayerOn) => LatestAfter(v, m, p, PlayerOn)
      BY <1>5, <1>7 DEF RightAfter, Right, LatestAfter, WillPublish
    <3>6. ASSUME Told(w, session[p], p, PlayerOn)
          PROVE  Told(v, session[p], p, PlayerOn)
      <4>1. Said(w, session[p], p, PlayerOn) => Said(v, session[p], p, PlayerOn)
        BY <3>5 DEF Said
      <4>2. OnItsWay(w, p, PlayerOn) => OnItsWay(v, p, PlayerOn)
        BY <1>5, <1>7, <3>5 DEF OnItsWay
      <4>3. Announced(w, p, PlayerOn) => Announced(v, p, PlayerOn)
        BY <1>5, <1>7, <1>10, <3>5 DEF Announced, WillPublish
      <4> QED BY <3>6, <4>1, <4>2, <4>3 DEF Told
    <3>7. ProjectIsGoing(w) => ProjectIsGoing(v)
      BY <1>7 DEF ProjectIsGoing, Departs
    <3>8. Rejoins(w) => Rejoins(v)
      BY <1>1, <1>5 DEF Rejoins, IsJoin
    <3>9. ToldFits(c, v, session, PlayerOn)
      BY <1>6, <3>1, <3>6, <3>7, <3>8 DEF ToldFits, Connected
    <3> QED BY <1>4, <1>6, <2>1, <3>2, <3>3, <3>4, <3>9 DEF Tells
  <2> QED BY <2>2, <2>3
<1> QED BY <1>1, <1>8, <1>9, <1>10

-----------------------------------------------------------------------------
(* The event loop tells, too.                                              *)

(* The party exists.                                                       *)
LEMMA PartyExistsTells ==
  ASSUME PublishingInv, PartyExists
  PROVE  Tells(desk', desk'.wire, session', PlayerOn')
<1>1. desk \in Desk
  BY DeskIs DEF PublishingInv
<1>2. JoinParty(desk).step = "joining" /\ Dial(desk).step = "dialing"
  BY <1>1, DialIs DEF JoinParty, Invoke, Desk
<1> QED BY <1>2, UnreadyTells DEF PartyExists

(* Without a connection no attempt publishes.                              *)
LEMMA OfflineIs ==
  ASSUME StreamingInv, ~Connected(desk)
  PROVE  /\ desk \in Desk /\ desk.wire = <<>> /\ desk.step # "syncing"
         /\ desk.ready /\ desk.link \in {"preparing", "starting"} => desk.step = "dialing"
<1>1. /\ desk \in Desk /\ Orderly(desk, desk.wire, PlayerOn) /\ Awaits(desk, desk.wire)
      /\ desk.wire = <<>>
  BY DeskIs DEF Fit
<1> QED BY <1>1 DEF Orderly, LinkFits, Awaits

(* A dial gets its connection object.                                      *)
LEMMA DialStartsTells ==
  ASSUME PublishingInv, DialStarts
  PROVE  Tells(desk', desk'.wire, session', PlayerOn')
<1>1. /\ desk \in Desk /\ desk.step # "syncing" /\ (desk.ready => desk.step = "dialing")
  BY OfflineIs DEF PublishingInv, DialStarts, Connected
<1>2. desk'.step = desk.step /\ desk'.ready = desk.ready
  BY <1>1 DEF DialStarts, Desk
<1> QED BY <1>1, <1>2, UnreadyTells

(* A dial succeeds.                                                        *)
LEMMA DialSucceedsTells ==
  ASSUME PublishingInv, DialSucceeds
  PROVE  Tells(desk', desk'.wire, session', PlayerOn')
<1> DEFINE c == [desk EXCEPT !.link = "connected"]
<1>1. /\ desk \in Desk /\ desk.step # "syncing" /\ (desk.ready => desk.step = "dialing")
  BY OfflineIs DEF PublishingInv, DialSucceeds, Connected
<1>2. desk' = IF desk.step = "dialing" THEN JoinParty(c) ELSE c
  BY DEF DialSucceeds
<1>3. c \in Desk /\ c.step = desk.step /\ c.ready = desk.ready
  BY <1>1 DEF Desk, Links
<1> HIDE DEF c
<1>4. JoinParty(c).step = "joining"
  BY <1>3 DEF JoinParty, Invoke, Desk
<1> QED BY <1>1, <1>2, <1>3, <1>4, UnreadyTells

(* The client has reconnected: the answer to its join begins anew.         *)
LEMMA ReconnectedTells ==
  ASSUME PublishingInv, Reconnected
  PROVE  Tells(desk', desk'.wire, session', PlayerOn')
<1> DEFINE c == [desk EXCEPT !.link = "connected"]
           i == Invocation("Join", desk.currentParty, "rejoin")
<1>1. /\ desk \in Desk /\ desk.step # "syncing" /\ desk.wire = <<>>
      /\ desk.link = "reconnecting"
  BY OfflineIs DEF PublishingInv, Reconnected, Connected
<1>2. desk' = IF desk.currentParty = NoParty THEN c ELSE Invoke(c, i)
  BY DEF Reconnected
<1>3. /\ c \in Desk /\ c.step = desk.step /\ c.ready = desk.ready /\ c.wire = <<>>
      /\ c.timer = desk.timer /\ c.config = desk.config
  BY <1>1 DEF Desk, Links
<1>4. desk.currentParty # NoParty =>
        i \in Invocations /\ IsJoin(i) /\ i.waiter = "rejoin" /\ ~IsStart(i)
  BY <1>1 DEF Desk, Invocation, Invocations, IsJoin, IsStart
<1> HIDE DEF c, i
<1>5. /\ desk'.step = desk.step /\ desk'.ready = desk.ready /\ desk'.timer = desk.timer
      /\ desk'.config = desk.config
      /\ desk'.wire = (IF desk.currentParty = NoParty THEN <<>> ELSE Append(<<>>, i))
  BY <1>2, <1>3, <1>4, InvokeIs DEF Keeps
<1>6. CASE ~Player(desk)
  BY <1>5, <1>6, OthersTell DEF Player, Running
<1>7. CASE ~desk.ready
  BY <1>1, <1>5, <1>7, UnreadyTells
<1>8. CASE Player(desk) /\ desk.ready
  <2>1. desk.currentParty = desk.config.party /\ desk.config.party \in Party
    BY <1>8, DeskIs DEF PublishingInv, Orderly, PartyFits, Settling, Player
  <2>2. desk'.wire = <<i>> /\ IsJoin(i) /\ i.waiter = "rejoin" /\ ~IsStart(i)
    BY <1>4, <1>5, <2>1, StreamingAssumption
  <2>3. \A k \in DOMAIN desk'.wire : desk'.wire[k] = i
    BY <2>2
  <2>4. 1 \in DOMAIN desk'.wire
    BY <2>2
  <2>5. CalmFits(desk', desk'.wire)
    BY <2>2, <2>3 DEF CalmFits
  <2>6. TimerFits(desk')
    BY <1>1, <1>5, <1>8, PlayerIs DEF TimerFits
  <2>7. Rejoins(desk'.wire)
    BY <2>2, <2>3, <2>4 DEF Rejoins
  <2> QED BY <1>1, <1>5, <2>5, <2>6, <2>7 DEF Tells, SyncFits, ToldFits
<1> QED BY <1>6, <1>7, <1>8

(* The client has given reconnecting up.                                   *)
LEMMA ExhaustedTells ==
  ASSUME PublishingInv, Exhausted
  PROVE  Tells(desk', desk'.wire, session', PlayerOn')
<1> DEFINE c == [desk EXCEPT !.link = "none"]
<1>1. StreamingInv' /\ desk \in Desk
  BY ExhaustedKeeps, DeskIs DEF PublishingInv
<1>2. c \in Desk /\ c.link = "none" /\ desk' = ScheduleReconnect(c)
  BY <1>1 DEF Exhausted, Desk, Links
<1> HIDE DEF c
<1>3. desk'.link = "none"
  BY <1>2, ScheduleReconnectIs
<1> QED BY <1>1, <1>3, OfflineIsTold DEF Connected

(* The reconnect timer.                                                    *)
LEMMA TimerFiresTells ==
  ASSUME PublishingInv, TimerFires
  PROVE  Tells(desk', desk'.wire, session', PlayerOn')
<1> DEFINE c == [desk EXCEPT !.timer = FALSE]
<1>1. StreamingInv' /\ desk \in Desk /\ desk.timer
  BY TimerFiresKeeps, DeskIs DEF PublishingInv, TimerFires
<1>2. /\ c \in Desk /\ c.step = desk.step /\ c.ready = desk.ready /\ c.link = desk.link
      /\ c.config = desk.config /\ c.behind = desk.behind /\ c.coalescing = desk.coalescing
      /\ c.wire = desk.wire /\ ~c.timer
  BY <1>1 DEF Desk
<1>3. desk' = Connect(c) /\ session' = session /\ PlayerOn' = PlayerOn
  BY DEF TimerFires, PlayerOn
<1> HIDE DEF c
<1>4. CASE desk.step = "idle"
  <2>1. /\ desk'.step = "checking" /\ desk'.ready = desk.ready /\ desk'.link = desk.link
        /\ desk'.config = desk.config
    BY <1>2, <1>3, <1>4, ConnectIs
  <2>2. CASE ~Player(desk)
    BY <2>1, <2>2, OthersTell DEF Player, Running
  <2>3. CASE ~desk.ready
    BY <2>1, <2>3, UnreadyTells
  <2>4. CASE Player(desk) /\ desk.ready
    <3>1. desk'.link = "none"
      BY <1>1, <1>4, <2>1, <2>4, PlayerIs DEF TimerFits
    <3> QED BY <1>1, <3>1, OfflineIsTold DEF Connected
  <2> QED BY <2>2, <2>3, <2>4
<1>5. CASE desk.step # "idle"
  <2>1. desk' = c
    BY <1>2, <1>3, <1>5 DEF Connect
  <2>2. Tells(desk, desk.wire, session, PlayerOn)
    BY DEF PublishingInv
  <2>3. SameTale(desk, c)
    BY <1>2 DEF SameTale
  <2> QED BY <1>2, <1>3, <2>1, <2>2, <2>3, SameTells
<1> QED BY <1>4, <1>5

(* The timer of the coalesced publication: it announces what the player    *)
(* does now.                                                               *)
LEMMA PublishChangesTells ==
  ASSUME PublishingInv, PublishChanges
  PROVE  Tells(desk', desk'.wire, session', PlayerOn')
<1> DEFINE c == [desk EXCEPT !.coalescing = FALSE]
<1>1. desk \in Desk /\ desk.wire \in Wire /\ PlayerOn \in BOOLEAN
  BY DeskIs DEF PublishingInv
<1>2. /\ c \in Desk /\ c.step = desk.step /\ c.ready = desk.ready /\ c.link = desk.link
      /\ c.config = desk.config /\ c.behind = desk.behind /\ c.wire = desk.wire
      /\ c.timer = desk.timer
  BY <1>1 DEF Desk
<1>3. /\ desk' = CASE ~Connected(c) -> PublishFails(c)
                   [] Connected(c) /\ NothingToPublish(c) -> c
                   [] Connected(c) /\ ~NothingToPublish(c) -> Publish(c, "publish")
      /\ session' = session /\ PlayerOn' = PlayerOn /\ desk.coalescing
  BY DEF PublishChanges, PlayerOn
<1> HIDE DEF c
<1>4. CASE ~Connected(c)
  <2> DEFINE f == [c EXCEPT !.ready = FALSE]
  <2>1. f \in Desk /\ f.step = c.step /\ ~f.ready
    BY <1>2 DEF Desk
  <2>2. desk' = ScheduleReconnect(f)
    BY <1>3, <1>4 DEF PublishFails
  <2> HIDE DEF f
  <2>3. desk'.step = desk.step /\ ~desk'.ready
    BY <1>2, <2>1, <2>2, ScheduleReconnectIs
  <2>4. desk.step # "syncing"
    BY <1>2, <1>4, OfflineIs DEF PublishingInv, Connected
  <2> QED BY <2>3, <2>4, UnreadyTells
<1>5. CASE Connected(c) /\ NothingToPublish(c)
  <2>1. desk' = c /\ c.config.source = "aimp"
    BY <1>3, <1>5 DEF NothingToPublish
  <2> QED BY <2>1, OthersTell DEF Player
<1>6. CASE Connected(c) /\ ~NothingToPublish(c)
  <2> DEFINE p == desk.config.party
             i == [Invocation("Notify", c.config.party, "publish") EXCEPT !.live = Live(c)]
             w == desk.wire
             v == Append(w, i)
  <2>1. desk' = Invoke(c, i)
    BY <1>3, <1>6 DEF Publish
  <2>2. desk'.config = desk.config
    BY <1>2, <2>1 DEF Invoke, Desk
  <2>3. CASE ~Player(desk)
    BY <2>2, <2>3, OthersTell DEF Player, Running
  <2>4. CASE Player(desk)
    <3>1. p \in Party /\ Live(c) = PlayerOn
      BY <1>2, <2>4, DeskIs DEF PublishingInv, Player, Live, PlayerOn, Running
    <3>2. /\ i \in Invocations /\ i.op = "Notify" /\ i.party = p /\ i.live = PlayerOn
          /\ i.fresh /\ i.waiter = "publish"
      BY <1>1, <1>2, <3>1 DEF Invocation, Invocations
    <3> HIDE DEF i
    <3>3. /\ desk'.wire = v /\ desk'.step = desk.step /\ desk'.ready = desk.ready
          /\ desk'.link = desk.link /\ desk'.behind = desk.behind /\ desk'.timer = desk.timer
      BY <1>2, <2>1, <3>2, InvokeIs DEF Keeps
    <3>4. Mild(i, p, PlayerOn)
      BY <3>2 DEF Mild, IsStart, Right
    <3>5. Tells(desk, w, session, PlayerOn)
      BY DEF PublishingInv
    <3>6. Tells(desk, v, session, PlayerOn)
      BY <1>1, <3>2, <3>4, <3>5, MildTells
    <3>7. SyncFits(desk, v, PlayerOn) /\ CalmFits(desk, v) /\ TimerFits(desk)
      BY <2>4, <3>6 DEF Tells
    <3>8. SyncFits(desk', v, PlayerOn) /\ CalmFits(desk', v) /\ TimerFits(desk')
      BY <2>2, <3>3, <3>7 DEF SyncFits, CalmFits, TimerFits
    <3>9. Announced(v, p, PlayerOn)
      <4> DEFINE l == Len(w) + 1
      <4>1. l \in DOMAIN v /\ v[l] = i /\ \A k \in DOMAIN v : ~(k > l)
        BY <1>1, <3>2, AppendIs
      <4> QED BY <3>2, <4>1 DEF Announced, WillPublish, LatestAfter
    <3>10. ToldFits(desk', v, session, PlayerOn)
      BY <2>2, <3>9 DEF ToldFits, Told
    <3> QED BY <1>3, <3>3, <3>8, <3>10 DEF Tells
  <2> QED BY <2>3, <2>4
<1> QED BY <1>3, <1>4, <1>5, <1>6

(* A teardown is of an orchestrator that does not run, or it returns.      *)
LEMMA TeardownTells ==
  ASSUME PublishingInv, Teardown
  PROVE  Tells(desk', desk'.wire, session', PlayerOn')
<1>1. CASE TeardownWaits
  <2>1. desk'.config = desk.config /\ ~Running(desk)
    BY <1>1, TeardownWaitsKeeps, TearingDownIs DEF PublishingInv, TeardownWaits
  <2> QED BY <2>1, OthersTell DEF Player, Running
<1>2. CASE TeardownEnds
  <2>1. desk'.config = desk.config /\ ~Running(desk)
    BY <1>2, TeardownEndsKeeps, TearingDownIs DEF PublishingInv, TeardownEnds
  <2> QED BY <2>1, OthersTell DEF Player, Running
<1>3. CASE TeardownResets
  <2>1. desk'.config = desk.config /\ ~Running(desk)
    BY <1>3, TeardownResetsKeeps, TearingDownIs DEF PublishingInv, TeardownResets
  <2> QED BY <2>1, OthersTell DEF Player, Running
<1>4. CASE TeardownReturns
  <2>1. desk \in Desk /\ Tells(desk, desk.wire, session, PlayerOn)
    BY DeskIs DEF PublishingInv
  <2>2. /\ desk' = [desk EXCEPT !.lifecycle = Tail(@)]
        /\ session' = session /\ PlayerOn' = PlayerOn
    BY <1>4 DEF TeardownReturns, TearingDown, PlayerOn
  <2>3. SameTale(desk, desk') /\ desk'.timer = desk.timer /\ desk'.wire = desk.wire
    BY <2>1, <2>2 DEF SameTale, Desk
  <2>4. Tells(desk', desk.wire, session, PlayerOn)
    BY <2>1, <2>3, SameTells
  <2> QED BY <2>2, <2>3, <2>4
<1> QED BY <1>1, <1>2, <1>3, <1>4 DEF Teardown

-----------------------------------------------------------------------------
(* The answers tell, too.                                                  *)

(* The desk that answers, and what it was told before.                     *)
LEMMA AnswererIs ==
  ASSUME PublishingInv, NEW c, NEW i, Answering(c, i)
  PROVE  /\ c \in Desk /\ i \in Invocations /\ c.wire = Tail(desk.wire) /\ c.wire \in Wire
         /\ desk.wire \in Wire /\ desk.wire # <<>> /\ i = Head(desk.wire)
         /\ SameTale(desk, c) /\ c.ready = desk.ready /\ c.timer = desk.timer
         /\ c.behind = desk.behind /\ c.coalescing = desk.coalescing
         /\ Connected(c) /\ Orderly(c, c.wire, PlayerOn)
         /\ Player(desk) <=> Player(c)
         /\ Player(c) => c.config.party \in Party /\ (Live(c) <=> PlayerOn)
         /\ session \in Sessions /\ PlayerOn \in BOOLEAN
         /\ Tells(desk, desk.wire, session, PlayerOn)
<1>1. StreamingInv /\ Tells(desk, desk.wire, session, PlayerOn)
  BY DEF PublishingInv
<1>2. /\ desk \in Desk /\ desk.wire \in Wire /\ PlayerOn \in BOOLEAN
      /\ sourceLive \in [Source -> BOOLEAN]
      /\ Running(desk) => desk.config.party \in Party
  BY <1>1, DeskIs
<1>3. desk.wire # <<>> /\ i = Head(desk.wire) /\ c = [desk EXCEPT !.wire = Tail(@)]
  BY DEF Answering
<1>4. /\ c.wire = Tail(desk.wire) /\ c.config = desk.config /\ c.step = desk.step
      /\ c.link = desk.link /\ c.ready = desk.ready /\ c.timer = desk.timer
      /\ c.behind = desk.behind /\ c.coalescing = desk.coalescing
  BY <1>2, <1>3 DEF Desk
<1>5. c \in Desk /\ i \in Invocations /\ Connected(c) /\ Orderly(c, c.wire, PlayerOn)
  BY <1>1, AnsweringIs
<1>6. c.wire \in Wire
  BY <1>5 DEF Orderly
<1>7. session \in Sessions
  BY <1>1 DEF StreamingInv, Sessions
<1>8. (Player(desk) <=> Player(c)) /\ (Player(c) => (Live(c) <=> PlayerOn))
  BY <1>2, <1>4 DEF Player, Running, Live, PlayerOn, Source
<1>9. Player(c) => c.config.party \in Party
  BY <1>2, <1>4 DEF Player, Running
<1> QED BY <1>1, <1>2, <1>3, <1>4, <1>5, <1>6, <1>7, <1>8, <1>9 DEF SameTale

(* An answer that changes nothing of the tale.                             *)
LEMMA AnswerTells ==
  ASSUME PublishingInv, NEW c, NEW i, Answering(c, i), ~Departs(i),
         IsJoin(i) /\ i.waiter = "rejoin" => c.step # "idle",
         c.step # "idle" \/ ~WillPublish(i, c.config.party),
         NEW e, SameTale(c, e), e.wire = c.wire,
         e.timer => c.timer \/ ~e.ready \/ e.step # "idle"
  PROVE  Tells(e, e.wire, Carry(session, i), PlayerOn)
<1>1. /\ c.wire = Tail(desk.wire) /\ desk.wire \in Wire /\ desk.wire # <<>>
      /\ i = Head(desk.wire) /\ SameTale(desk, c) /\ c.timer = desk.timer
      /\ Player(desk) => desk.config.party \in Party
      /\ session \in Sessions /\ PlayerOn \in BOOLEAN
      /\ Tells(desk, desk.wire, session, PlayerOn)
  BY AnswererIs DEF SameTale
<1>2. c.step = desk.step /\ c.config = desk.config
  BY <1>1 DEF SameTale
<1>3. Tells(desk, Tail(desk.wire), Carry(session, i), PlayerOn)
  BY <1>1, <1>2, HeadTells
<1>4. SameTale(desk, e)
  BY <1>1 DEF SameTale
<1>5. Tells(e, Tail(desk.wire), Carry(session, i), PlayerOn)
  BY <1>1, <1>3, <1>4, SameTells
<1> QED BY <1>1, <1>5

(* An attempt that starts a session starts it.                             *)
LEMMA StartSessionStep ==
  ASSUME NEW d \in Desk, NEW p, NEW waiter
  PROVE  StartSession(d, p, waiter).step = d.step
BY DEF StartSession, Invoke, Desk

(* The join that an attempt waited for: it starts the session or publishes.*)
LEMMA JoinedTells ==
  ASSUME NEW d \in Desk, d.wire \in Wire, Running(d), sourceLive \in [Source -> BOOLEAN],
         \A k \in DOMAIN d.wire : d.wire[k].waiter # "connect", NEW s
  PROVE  LET e == Joined(d) IN Tells(e, e.wire, s, PlayerOn)
<1> DEFINE c == [d EXCEPT !.subscribed = TRUE]
           a == [c EXCEPT !.step = "starting"]
           live == c.liveSession /\ Live(d)
           b == [c EXCEPT !.liveSession = live]
<1>1. c \in Desk /\ c.wire = d.wire /\ c.config = d.config
  BY DEF Desk
<1> HIDE DEF c
<1>2. CASE Live(d) /\ ~d.liveSession
  <2>1. a \in Desk /\ a.step = "starting"
    BY <1>1 DEF Desk, Steps
  <2>2. Joined(d) = StartSession(a, d.config.party, "nobody")
    BY <1>2 DEF Joined, c
  <2> HIDE DEF a
  <2>3. Joined(d).step = "starting"
    BY <2>1, <2>2, StartSessionStep
  <2> QED BY <2>3, UnreadyTells
<1>3. CASE ~(Live(d) /\ ~d.liveSession)
  <2>1. live \in BOOLEAN
    BY <1>1 DEF Desk, Live
  <2>2. Joined(d) = Synchronize(b)
    BY <1>3 DEF Joined, c
  <2> HIDE DEF live
  <2>3. b \in Desk /\ b.wire = d.wire /\ b.config = d.config
    BY <1>1, <2>1 DEF Desk
  <2> HIDE DEF b
  <2>4. Running(b) /\ b.wire \in Wire /\ \A k \in DOMAIN b.wire : b.wire[k].waiter # "connect"
    BY <2>3 DEF Running
  <2>5. LET e == Synchronize(b) IN Tells(e, e.wire, s, PlayerOn)
    BY <2>3, <2>4, SynchronizeTells
  <2> QED BY <2>2, <2>5
<1> QED BY <1>2, <1>3

(* A join is answered.                                                     *)
LEMMA JoinAnswerTells ==
  ASSUME PublishingInv, NEW c, NEW i, Answering(c, i), i.op = "Join"
  PROVE  LET e == Answered(c, i) IN Tells(e, e.wire, Carry(session, i), PlayerOn)
<1> DEFINE s == [c EXCEPT !.currentParty = i.party]
           e == Answered(c, i)
<1>1. /\ c \in Desk /\ i \in Invocations /\ c.wire \in Wire /\ Orderly(c, c.wire, PlayerOn)
  BY AnswererIs
<1>2. StreamingInv /\ sourceLive \in [Source -> BOOLEAN] /\ i.party \in Party
  BY <1>1, DeskIs DEF PublishingInv, Invocations
<1>3. e = CASE i.waiter = "connect" -> Joined(s)
            [] i.waiter = "rejoin" ->
                 IF Running(c) /\ c.config.party = c.currentParty THEN Recover(c, FALSE) ELSE c
            [] i.waiter = "nobody" -> s
            [] OTHER -> c
  BY DEF Answered, ProjectGoes
<1>4. /\ s \in Desk /\ s.wire = c.wire /\ s.config = c.config /\ s.step = c.step
      /\ s.link = c.link /\ s.ready = c.ready /\ s.behind = c.behind
      /\ s.coalescing = c.coalescing /\ s.timer = c.timer
  BY <1>1, <1>2 DEF Desk
<1> HIDE DEF s, e
<1>5. SameTale(c, s) /\ SameTale(c, c) /\ ~WillPublish(i, c.config.party) /\ ~Departs(i)
  BY <1>4 DEF SameTale, WillPublish, Departs
<1>6. CASE i.waiter = "connect"
  <2>1. Running(c) /\ \A k \in DOMAIN c.wire : c.wire[k].waiter # "connect"
    BY <1>2, <1>6, AnsweringWaits
  <2>2. Running(s) /\ s.wire \in Wire /\ \A k \in DOMAIN s.wire : s.wire[k].waiter # "connect"
    BY <1>1, <1>4, <2>1 DEF Running
  <2>3. LET j == Joined(s) IN Tells(j, j.wire, Carry(session, i), PlayerOn)
    BY <1>2, <1>4, <2>2, JoinedTells
  <2> QED BY <1>3, <1>6, <2>3 DEF e
<1>7. CASE i.waiter = "rejoin" /\ c.step # "idle"
  <2>1. e = c
    BY <1>3, <1>7 DEF Recover
  <2> QED BY <1>5, <1>7, <2>1, AnswerTells DEF e
<1>8. CASE i.waiter = "rejoin" /\ c.step = "idle" /\ Running(c) /\ c.config.party = c.currentParty
  <2> DEFINE x == Superseded(c)
             y == [x EXCEPT !.ready = FALSE, !.timer = FALSE]
  <2>1. x \in Desk /\ x.step = "idle"
    BY <1>1, SupersededIs
  <2>2. e = Connect(y)
    BY <1>3, <1>8 DEF Recover
  <2> HIDE DEF x
  <2>3. y \in Desk /\ y.step = "idle" /\ ~y.ready
    BY <2>1 DEF Desk
  <2> HIDE DEF y
  <2>4. e.step = "checking" /\ ~e.ready
    BY <2>2, <2>3, ConnectIs
  <2> QED BY <2>4, UnreadyTells DEF e
<1>9. CASE /\ i.waiter = "rejoin" /\ c.step = "idle"
           /\ ~(Running(c) /\ c.config.party = c.currentParty)
  <2>1. e = c
    BY <1>3, <1>9
  <2>2. ~Player(c) \/ ~c.ready
    BY <1>1, <1>9 DEF Orderly, PartyFits, Settling, Player
  <2> QED BY <1>9, <2>1, <2>2, OthersTell, UnreadyTells DEF e
<1>10. CASE i.waiter = "nobody"
  <2>1. e = s
    BY <1>3, <1>10
  <2> QED BY <1>4, <1>5, <1>10, <2>1, AnswerTells DEF e
<1>11. CASE i.waiter \notin {"connect", "rejoin", "nobody"}
  <2>1. e = c
    BY <1>3, <1>11
  <2> QED BY <1>5, <1>11, <2>1, AnswerTells DEF e
<1> QED BY <1>6, <1>7, <1>8, <1>9, <1>10, <1>11

(* A session has started: what the wire is then.                           *)
LEMMA StartArrivesIs ==
  ASSUME NEW d \in Desk, NEW on, Orderly(d, d.wire, on), Connected(d),
         NEW i \in Invocations, IsStart(i), i.attempt <= d.lastAttempt
  PROVE  LET e == StartArrives(d, i) IN
         /\ e \in Desk /\ SameTale(d, e) /\ e.ready = d.ready /\ e.timer = d.timer
         /\ e.behind = d.behind /\ e.coalescing = d.coalescing
         /\ \/ e.wire = d.wire
            \/ /\ ~i.timedOut /\ ~Requested(d, i.party)
               /\ e.wire = Append(d.wire, EndOf(i.party, i.attempt, "nobody"))
            \/ /\ i.timedOut
               /\ \E q \in Wire : (\A k \in DOMAIN q : IsLateEnd(q[k])) /\ e.wire = d.wire \o q
<1> DEFINE e == StartArrives(d, i)
           a == i.attempt
           Same(m) == /\ m \in Desk /\ m.config = d.config /\ m.step = d.step /\ m.link = d.link
                      /\ m.ready = d.ready /\ m.timer = d.timer
                      /\ m.behind = d.behind /\ m.coalescing = d.coalescing
<1>1. i.party \in Party /\ a \in Nat /\ d.wire \in Wire
  BY DEF Invocations, Orderly
<1>2. e \in Desk
  BY StartArrivesFits DEF Orderly
<1>3. CASE a \in d.handled
  <2>1. e = [d EXCEPT !.handled = d.handled \ {a}]
    BY <1>3 DEF StartArrives
  <2> HIDE DEF e
  <2>2. Same(e) /\ e.wire = d.wire
    BY <1>2, <2>1 DEF Desk
  <2> QED BY <2>2 DEF SameTale, e
<1>4. CASE a \notin d.handled /\ ~i.timedOut
  <2> DEFINE c == [d EXCEPT !.active[i.party] = a]
             n == EndOf(i.party, a, "nobody")
  <2>1. Same(c) /\ c.wire = d.wire
    BY <1>1 DEF Desk
  <2>2. e = IF Requested(d, i.party) \/ d.inFlight = a THEN c ELSE EndSession(c, n)
    BY <1>4 DEF StartArrives
  <2> HIDE DEF c
  <2>3. Connected(c)
    BY <2>1 DEF Connected
  <2>4. e = c \/ (~Requested(d, i.party) /\ e = Invoke(c, n))
    BY <2>2, <2>3 DEF EndSession
  <2>5. n \in Invocations
    BY <1>1 DEF EndOf, Invocation, Invocations
  <2> HIDE DEF e, n
  <2>6. CASE e = c
    BY <2>1, <2>6 DEF SameTale, e
  <2>7. CASE ~Requested(d, i.party) /\ e = Invoke(c, n)
    <3>1. c \in Desk
      BY <2>1
    <3>2. e \in Desk /\ e.wire = Append(c.wire, n) /\ Keeps(c, e) /\ e.timer = c.timer
          /\ e.behind = c.behind /\ e.coalescing = c.coalescing
      BY <2>5, <2>7, <3>1, InvokeIs
    <3>3. Same(e) /\ e.wire = Append(d.wire, n)
      BY <2>1, <3>2 DEF Keeps
    <3> QED BY <1>4, <2>7, <3>3 DEF SameTale, e, n
  <2> QED BY <2>4, <2>6, <2>7
<1>5. CASE /\ a \notin d.handled /\ i.timedOut
           /\ d.active[i.party] <= a /\ StartPending(d, i.party) /\ d.inFlight > a
  <2> DEFINE t == d.late \cup {[party |-> i.party, attempt |-> a, fresh |-> i.fresh,
                                newer |-> d.inFlight]}
  <2>1. e = [d EXCEPT !.late = t]
    BY <1>5 DEF StartArrives
  <2> HIDE DEF e, t
  <2>2. Same(e) /\ e.wire = d.wire
    BY <1>2, <2>1 DEF Desk
  <2> QED BY <2>2 DEF SameTale, e
<1>6. CASE /\ a \notin d.handled /\ i.timedOut
           /\ ~(d.active[i.party] <= a /\ StartPending(d, i.party) /\ d.inFlight > a)
  <2>1. e = EndLate(d, {i})
    BY <1>6 DEF StartArrives
  <2>2. Starts({i})
    BY <1>1, FS_Singleton DEF Starts, Invocations
  <2> HIDE DEF e
  <2>3. PICK q \in Wire : /\ \A k \in DOMAIN q : IsLateEnd(q[k])
                          /\ e = [d EXCEPT !.wire = d.wire \o q]
    BY <2>1, <2>2, EndLateIs
  <2>4. Same(e) /\ e.wire = d.wire \o q
    BY <1>2, <2>3 DEF Desk
  <2> QED BY <1>6, <2>3, <2>4 DEF SameTale, e
<1> QED BY <1>3, <1>4, <1>5, <1>6

(* What follows the head follows it still when the wire has grown.         *)
LEMMA TailOfJoint ==
  ASSUME NEW w \in Wire, w # <<>>, NEW q \in Wire
  PROVE  Tail(w) \o q = Tail(w \o q) /\ w \o q # <<>> /\ Head(w \o q) = Head(w)
<1>1. Len(w) \in Nat /\ Len(w) >= 1 /\ Len(q) \in Nat
  BY DEF Wire
<1>2. /\ w \o q \in Wire /\ Len(w \o q) = Len(w) + Len(q)
      /\ Tail(w) \in Wire /\ Len(Tail(w)) = Len(w) - 1
  BY <1>1 DEF Wire
<1>3. w \o q # <<>> /\ Head(w \o q) = Head(w)
  BY <1>1, <1>2 DEF Wire
<1>4. /\ Len(Tail(w) \o q) = Len(Tail(w \o q))
      /\ Tail(w) \o q \in Wire /\ Tail(w \o q) \in Wire
  BY <1>1, <1>2, <1>3 DEF Wire
<1>5. \A k \in 1 .. Len(Tail(w) \o q) : (Tail(w) \o q)[k] = Tail(w \o q)[k]
  BY <1>1, <1>2, <1>3 DEF Wire
<1>6. Tail(w) \o q = Tail(w \o q)
  <2> DEFINE s == Tail(w) \o q
             t == Tail(w \o q)
  <2>1. \A x, y \in Wire : Len(x) = Len(y) /\ (\A k \in 1 .. Len(x) : x[k] = y[k]) => x = y
    BY DEF Wire
  <2>2. Len(s) = Len(t) /\ s \in Wire /\ t \in Wire /\ \A k \in 1 .. Len(s) : s[k] = t[k]
    BY <1>4, <1>5
  <2> HIDE DEF s, t
  <2>3. s = t
    BY <2>1, <2>2
  <2> QED BY <2>3 DEF s, t
<1> QED BY <1>3, <1>6

(* A start that came too late and what ends it do not disturb an attempt   *)
(* that publishes; a ready desk has none.                                  *)
LEMMA LateStartTells ==
  ASSUME PublishingInv, NEW c, NEW i, Answering(c, i), IsStart(i), i.timedOut,
         NEW e, SameTale(c, e), e.ready = c.ready, e.behind = c.behind,
         NEW q \in Wire, \A k \in DOMAIN q : IsLateEnd(q[k]), e.wire = c.wire \o q, NEW s
  PROVE  Tells(e, e.wire, s, PlayerOn)
<1> DEFINE w == desk.wire
           u == w \o q
<1>1. /\ c \in Desk /\ c.wire = Tail(w) /\ w \in Wire /\ w # <<>> /\ i = Head(w)
      /\ c.step = desk.step /\ c.config = desk.config /\ c.ready = desk.ready
      /\ c.behind = desk.behind /\ Connected(c) /\ c.link = desk.link
      /\ i \in Invocations
      /\ Player(desk) <=> Player(c)
  BY AnswererIs DEF SameTale
<1>2. i = w[1] /\ 1 \in DOMAIN w
  BY <1>1, TailIs
<1>3. e.step = desk.step /\ e.config = desk.config /\ e.ready = desk.ready
      /\ e.behind = desk.behind
  BY <1>1 DEF SameTale
<1>4. CASE ~Player(desk)
  BY <1>3, <1>4, OthersTell DEF Player, Running
<1>5. CASE desk.step \in {"dialing", "joining", "starting"}
  BY <1>3, <1>5, UnreadyTells
<1>6. CASE Player(desk) /\ desk.step \in {"idle", "checking"}
  <2>1. desk.step = "idle" => ~desk.ready
    BY <1>2, <1>6, PlayerIs DEF CalmFits
  <2>2. desk.step = "checking" => ~desk.ready
    BY <1>1, <1>6, PlayerIs DEF TimerFits, Connected
  <2> QED BY <1>3, <1>6, <2>1, <2>2, UnreadyTells
<1>7. CASE Player(desk) /\ desk.step = "syncing"
  <2>1. /\ u \in Wire
        /\ \A k \in DOMAIN w : k \in DOMAIN u /\ u[k] = w[k]
        /\ \A k \in DOMAIN u : k \in DOMAIN w \/ IsLateEnd(u[k])
    <3>1. /\ u \in Wire
          /\ \A k \in DOMAIN w : k \in DOMAIN u /\ u[k] = w[k]
          /\ \A k \in DOMAIN q : k + Len(w) \in DOMAIN u /\ u[k + Len(w)] = q[k]
          /\ \A k \in DOMAIN u :
               \/ k \in DOMAIN w
               \/ k - Len(w) \in DOMAIN q /\ k = (k - Len(w)) + Len(w)
      BY <1>1, JointIs
    <3> HIDE DEF u
    <3>2. ASSUME NEW k \in DOMAIN u, k \notin DOMAIN w
          PROVE  IsLateEnd(u[k])
      <4> DEFINE l == k - Len(w)
      <4>1. l \in DOMAIN q /\ k = l + Len(w)
        BY <3>1, <3>2
      <4> HIDE DEF l
      <4> QED BY <3>1, <4>1
    <3> QED BY <3>1, <3>2
  <2>2. SyncFits(desk, w, PlayerOn)
    BY <1>7, PlayerIs
  <2>3. e.wire = Tail(u) /\ u # <<>> /\ Head(u) = i
    BY <1>1, TailOfJoint
  <2> HIDE DEF u
  <2>4. SyncFits(e, u, PlayerOn)
    BY <1>1, <1>2, <1>3, <2>1, <2>2, SyncChanged
  <2>5. SyncFits(e, Tail(u), PlayerOn)
    BY <2>1, <2>3, <2>4, SyncStays DEF Departs, IsStart
  <2> QED BY <1>3, <1>7, <2>3, <2>5, SyncingTells
<1>8. desk.step \in Steps
  BY DeskIs DEF PublishingInv, Desk
<1> QED BY <1>4, <1>5, <1>6, <1>7, <1>8 DEF Steps

(* A start is answered.                                                    *)
LEMMA StartAnswerTells ==
  ASSUME PublishingInv, NEW c, NEW i, Answering(c, i), i.op = "Start"
  PROVE  LET e == Answered(c, i) IN Tells(e, e.wire, Carry(session, i), PlayerOn)
<1> DEFINE b == StartArrives(c, i)
           a == i.attempt
           m == Settle(b, a, TRUE)
           late == {l \in m.late : l.newer # a}
           live == m.liveSession \/ i.waiter = "sync"
           n == [m EXCEPT !.late = late, !.liveSession = live]
           f == [n EXCEPT !.liveSession = TRUE]
           e == Answered(c, i)
           s == Carry(session, i)
<1>1. /\ c \in Desk /\ i \in Invocations /\ c.wire \in Wire /\ Orderly(c, c.wire, PlayerOn)
      /\ Connected(c)
      /\ Player(c) => c.config.party \in Party /\ (Live(c) <=> PlayerOn)
  BY AnswererIs
<1>2. StreamingInv /\ sourceLive \in [Source -> BOOLEAN] /\ IsStart(i)
      /\ i.attempt <= c.lastAttempt /\ i.party \in Party /\ a \in Nat
  BY <1>1, DeskIs, AnsweringIs DEF PublishingInv, IsStart, Invocations
<1>3. e = CASE i.timedOut -> b
            [] ~i.timedOut /\ c.step = "starting" /\ c.inFlight = a -> Synchronize(f)
            [] OTHER -> n
  BY DEF Answered, ProjectGoes, StartSucceeds
<1>4. /\ b \in Desk /\ SameTale(c, b) /\ b.ready = c.ready /\ b.timer = c.timer
      /\ b.behind = c.behind /\ b.coalescing = c.coalescing
      /\ \/ b.wire = c.wire
         \/ /\ ~i.timedOut /\ ~Requested(c, i.party)
            /\ b.wire = Append(c.wire, EndOf(i.party, i.attempt, "nobody"))
         \/ /\ i.timedOut
            /\ \E q \in Wire : (\A k \in DOMAIN q : IsLateEnd(q[k])) /\ b.wire = c.wire \o q
  BY <1>1, <1>2, StartArrivesIs
<1> HIDE DEF b, e
<1>5. ~Departs(i) /\ ~WillPublish(i, c.config.party) /\ ~IsJoin(i)
  BY <1>2 DEF Departs, WillPublish, IsStart, IsJoin
<1>6. CASE i.timedOut
  <2>1. e = b
    BY <1>3, <1>6
  <2>2. CASE b.wire = c.wire
    BY <1>4, <1>5, <2>1, <2>2, AnswerTells DEF e
  <2>3. CASE b.wire # c.wire
    <3>1. PICK q \in Wire : (\A k \in DOMAIN q : IsLateEnd(q[k])) /\ b.wire = c.wire \o q
      BY <1>4, <1>6, <2>3
    <3> QED BY <1>2, <1>4, <1>6, <2>1, <3>1, LateStartTells DEF e
  <2> QED BY <2>2, <2>3
<1>7. /\ n \in Desk /\ n.wire = b.wire /\ SameTale(c, n) /\ n.timer = c.timer
      /\ f \in Desk /\ f.wire = b.wire /\ f.config = c.config
  <2>1. /\ m \in Desk /\ m.config = b.config /\ m.link = b.link /\ m.behind = b.behind
        /\ m.coalescing = b.coalescing /\ m.wire = b.wire /\ m.step = b.step
        /\ m.ready = b.ready /\ m.timer = b.timer
    BY <1>4, SettleIs
  <2> HIDE DEF m
  <2>2. late \in SUBSET Late /\ live \in BOOLEAN
    BY <2>1 DEF Desk
  <2> HIDE DEF late, live
  <2>3. /\ n \in Desk /\ n.config = m.config /\ n.link = m.link /\ n.behind = m.behind
        /\ n.coalescing = m.coalescing /\ n.wire = m.wire /\ n.step = m.step
        /\ n.ready = m.ready /\ n.timer = m.timer
    BY <2>1, <2>2 DEF Desk
  <2> HIDE DEF n
  <2>4. f \in Desk /\ f.wire = n.wire /\ f.config = n.config
    BY <2>3 DEF Desk
  <2> HIDE DEF f
  <2>5. SameTale(c, n) /\ n.timer = c.timer /\ f.config = c.config
    BY <1>4, <2>1, <2>3, <2>4 DEF SameTale
  <2> QED BY <2>1, <2>3, <2>4, <2>5
<1> HIDE DEF n, f
<1>8. CASE ~i.timedOut /\ c.step = "starting" /\ c.inFlight = a
  <2>1. e = Synchronize(f)
    BY <1>3, <1>8
  <2>2. Running(c) /\ \A k \in DOMAIN c.wire : c.wire[k].waiter # "connect"
    BY <1>1, <1>8 DEF Orderly, RestFits, WaitersFit
  <2>3. f.wire \in Wire /\ \A k \in DOMAIN f.wire : f.wire[k].waiter # "connect"
    <3>1. CASE b.wire = c.wire
      BY <1>1, <1>7, <2>2, <3>1
    <3>2. CASE b.wire # c.wire
      <4> DEFINE r == EndOf(i.party, i.attempt, "nobody")
      <4>1. b.wire = Append(c.wire, r) /\ r \in Invocations /\ r.waiter = "nobody"
        BY <1>2, <1>4, <1>8, <3>2 DEF EndOf, Invocation, Invocations
      <4> HIDE DEF r
      <4> DEFINE w == c.wire
                 v == Append(w, r)
      <4>2. /\ v \in Wire /\ DOMAIN v = DOMAIN w \cup {Len(w) + 1}
            /\ v[Len(w) + 1] = r /\ \A k \in DOMAIN w : v[k] = w[k]
        BY <1>1, <4>1, AppendIs
      <4>3. f.wire = v
        BY <1>7, <4>1
      <4> HIDE DEF v
      <4>4. v \in Wire /\ \A k \in DOMAIN v : v[k].waiter # "connect"
        BY <2>2, <4>1, <4>2
      <4> QED BY <4>3, <4>4
    <3> QED BY <3>1, <3>2
  <2>4. Running(f)
    BY <1>7, <2>2 DEF Running
  <2>5. LET x == Synchronize(f) IN Tells(x, x.wire, s, PlayerOn)
    BY <1>2, <1>7, <2>3, <2>4, SynchronizeTells
  <2> QED BY <2>1, <2>5 DEF e
<1>9. CASE ~i.timedOut /\ ~(c.step = "starting" /\ c.inFlight = a)
  <2>1. e = n
    BY <1>3, <1>9
  <2>2. CASE b.wire = c.wire
    <3>1. n.wire = c.wire
      BY <1>7, <2>2
    <3> QED BY <1>5, <1>7, <2>1, <3>1, AnswerTells DEF e
  <2>3. CASE b.wire # c.wire
    <3> DEFINE r == EndOf(i.party, i.attempt, "nobody")
    <3>1. n.wire = Append(c.wire, r) /\ ~Requested(c, i.party)
      BY <1>4, <1>7, <1>9, <2>3
    <3>2. /\ r \in Invocations /\ r.op = "End" /\ r.waiter = "nobody" /\ r.party = i.party
      BY <1>2 DEF EndOf, Invocation, Invocations
    <3> HIDE DEF r
    <3>3. Player(c) => Mild(r, c.config.party, PlayerOn)
      <4>1. Player(c) /\ i.party = c.config.party => ~PlayerOn
        BY <1>1, <3>1 DEF Requested
      <4> QED BY <3>2, <4>1 DEF Mild, Right, IsStart, WillPublish
    <3>4. SameTale(c, c)
      BY DEF SameTale
    <3>5. Tells(c, c.wire, s, PlayerOn)
      BY <1>5, <3>4, AnswerTells
    <3>6. Tells(c, Append(c.wire, r), s, PlayerOn)
      BY <1>1, <3>2, <3>3, <3>5, MildTells
    <3>7. Tells(n, Append(c.wire, r), s, PlayerOn)
      BY <1>7, <3>6, SameTells
    <3> QED BY <2>1, <3>1, <3>7 DEF e
  <2> QED BY <2>2, <2>3
<1> QED BY <1>6, <1>8, <1>9

(* An EndSession is answered.                                              *)
LEMMA EndAnswerTells ==
  ASSUME PublishingInv, NEW c, NEW i, Answering(c, i), i.op = "End"
  PROVE  LET e == Answered(c, i) IN Tells(e, e.wire, Carry(session, i), PlayerOn)
<1> DEFINE b == EndReturned(c, i)
           f == [b EXCEPT !.liveSession = FALSE]
           r == Invocation("Reset", i.party, "newProject")
           e == Answered(c, i)
           w == desk.wire
           s == Carry(session, i)
<1>1. /\ c \in Desk /\ i \in Invocations /\ c.wire = Tail(w) /\ w \in Wire /\ w # <<>>
      /\ i = Head(w) /\ SameTale(desk, c) /\ c.behind = desk.behind /\ c.timer = desk.timer
      /\ c.ready = desk.ready /\ Connected(c) /\ Orderly(c, c.wire, PlayerOn) /\ c.wire \in Wire
      /\ Player(desk) <=> Player(c)
  BY AnswererIs
<1>2. StreamingInv /\ i.party \in Party
  BY <1>1 DEF PublishingInv, Invocations
<1>3. e = IF i.waiter = "newProject" THEN Invoke(f, r) ELSE b
  BY DEF Answered, ProjectGoes
<1>4. /\ b \in Desk /\ b.config = c.config /\ b.step = c.step /\ b.link = c.link
      /\ b.ready = c.ready /\ b.behind = c.behind /\ b.coalescing = c.coalescing
      /\ b.wire = c.wire /\ (b.timer = c.timer \/ (i.waiter = "late" /\ i.fresh))
  <2>1. i.waiter = "teardown" => /\ c.lifecycle # <<>>
                                 /\ \A k \in DOMAIN c.wire : c.wire[k].waiter # "teardown"
    BY <1>2, AnsweringWaits
  <2>0. Orderly(c, c.wire, PlayerOn) /\ i \in Invocations
    BY <1>1
  <2>2. /\ Orderly(b, c.wire, PlayerOn) /\ Keeps(c, b)
        /\ b.wire = c.wire /\ b.inFlight = c.inFlight /\ b.lastAttempt = c.lastAttempt
    BY <2>0, <2>1, EndReturnedFits
  <2>3. /\ b.behind = c.behind /\ b.coalescing = c.coalescing
        /\ b.timer = c.timer \/ (i.waiter = "late" /\ i.fresh)
    BY <1>1 DEF EndReturned, ScheduleReconnect, Desk
  <2>4. b \in Desk
    BY <2>2 DEF Orderly
  <2> QED BY <2>2, <2>3, <2>4 DEF Keeps
<1> HIDE DEF b, e
<1>5. CASE i.waiter # "newProject"
  <2>1. e = b
    BY <1>3, <1>5
  <2>2. CASE ~Player(c)
    BY <1>4, <2>1, <2>2, OthersTell DEF Player, Running, e
  <2>3. CASE Player(c)
    <3>1. i.waiter = "late" => ~c.ready \/ c.step # "idle"
      <4>1. 1 \in DOMAIN w /\ w[1] = i
        BY <1>1, TailIs
      <4>2. CalmFits(desk, w)
        BY <1>1, <2>3, PlayerIs
      <4> QED BY <1>1, <4>1, <4>2 DEF CalmFits, SameTale
    <3>2. /\ SameTale(c, b) /\ ~Departs(i) /\ ~IsJoin(i) /\ ~WillPublish(i, c.config.party)
          /\ b.timer => c.timer \/ ~b.ready \/ b.step # "idle"
      BY <1>4, <1>5, <3>1 DEF SameTale, Departs, IsJoin, WillPublish
    <3> QED BY <1>4, <2>1, <3>2, AnswerTells DEF e
  <2> QED BY <2>2, <2>3
<1>6. CASE i.waiter = "newProject"
  <2>1. e = Invoke(f, r)
    BY <1>3, <1>6
  <2>2. /\ f \in Desk /\ f.config = c.config /\ f.step = c.step /\ f.link = c.link
        /\ f.ready = c.ready /\ f.behind = c.behind /\ f.coalescing = c.coalescing
        /\ f.wire = c.wire /\ f.timer = c.timer
    BY <1>4, <1>6 DEF Desk
  <2>3. r \in Invocations /\ r.op = "Reset" /\ r.waiter = "newProject"
    BY <1>2 DEF Invocation, Invocations
  <2> HIDE DEF f, r
  <2> DEFINE t == Tail(w)
             v == Append(t, r)
  <2>4. /\ e.wire = v /\ e.config = desk.config /\ e.step = desk.step /\ e.link = desk.link
        /\ e.ready = desk.ready /\ e.behind = desk.behind /\ e.timer = desk.timer
    <3>1. /\ e.wire = Append(f.wire, r) /\ Keeps(f, e) /\ e.behind = f.behind
          /\ e.timer = f.timer
      BY <2>1, <2>2, <2>3, InvokeIs
    <3> QED BY <1>1, <2>2, <3>1 DEF Keeps, SameTale
  <2>5. CASE ~Player(desk)
    BY <2>4, <2>5, OthersTell DEF Player, Running, e
  <2>6. CASE Player(desk)
    <3>1. /\ \A k \in DOMAIN t : k + 1 \in DOMAIN w /\ t[k] = w[k + 1] /\ k \in Nat
          /\ \A k \in DOMAIN w : k \in Nat /\ k >= 1
      BY <1>1, TailIs DEF Wire
    <3>w. t \in Wire
      BY <1>1
    <3> HIDE DEF t
    <3>2. /\ DOMAIN v = DOMAIN t \cup {Len(t) + 1} /\ v[Len(t) + 1] = r
          /\ \A k \in DOMAIN t : v[k] = t[k]
      BY <2>3, <3>w, AppendIs
    <3> HIDE DEF v
    <3>3. \A k \in DOMAIN v :
            \/ k \in DOMAIN t /\ v[k] = w[k + 1] /\ k + 1 \in DOMAIN w /\ k \in Nat
            \/ v[k] = r
      BY <3>1, <3>2
    <3>4. ProjectIsGoing(v)
      BY <2>3, <3>2 DEF ProjectIsGoing, Departs
    <3>5. SyncFits(desk, w, PlayerOn) /\ CalmFits(desk, w) /\ TimerFits(desk)
      BY <2>6, PlayerIs
    <3>6. SyncFits(e, v, PlayerOn)
      <4> SUFFICES ASSUME desk.step = "syncing", ~desk.behind,
                          NEW a \in DOMAIN v, v[a].waiter = "connect",
                          NEW n, n = (IF v[a].op = "Publish" THEN 0 ELSE a)
                   PROVE  /\ \A k \in DOMAIN v : k > n => ~IsStart(v[k])
                          /\ v[a].op = "Publish" =>
                               \A k \in DOMAIN v : k > a => v[k].waiter # "late"
        BY <2>4, <3>4 DEF SyncFits
      <4> DEFINE b2 == a + 1
                 m == IF w[b2].op = "Publish" THEN 0 ELSE b2
      <4>1. b2 \in DOMAIN w /\ w[b2] = v[a] /\ a \in Nat
        BY <2>3, <3>3
      <4>2. /\ \A k \in DOMAIN w : k > m => ~IsStart(w[k])
            /\ w[b2].op = "Publish" => \A k \in DOMAIN w : k > b2 => w[k].waiter # "late"
        BY <3>5, <4>1 DEF SyncFits
      <4>3. \A k \in Nat : /\ k > n => k + 1 > m
                           /\ k > a => k + 1 > b2
        BY <4>1
      <4>4. \A k \in DOMAIN v : k > n => ~IsStart(v[k])
        BY <2>3, <3>3, <4>2, <4>3 DEF IsStart
      <4>5. v[a].op = "Publish" => \A k \in DOMAIN v : k > a => v[k].waiter # "late"
        BY <2>3, <3>3, <4>1, <4>2, <4>3
      <4> QED BY <4>4, <4>5
    <3>7. CalmFits(e, v)
      BY <2>3, <2>4, <3>3, <3>5 DEF CalmFits, IsStart
    <3>8. TimerFits(e) /\ ToldFits(e, v, s, PlayerOn)
      BY <2>4, <3>4, <3>5 DEF TimerFits, ToldFits
    <3> QED BY <2>4, <3>6, <3>7, <3>8 DEF Tells, e, v, t
  <2> QED BY <2>5, <2>6
<1> QED BY <1>5, <1>6

(* A reset is answered; on2 is what plays once the project has gone.       *)
LEMMA ResetAnswerTells ==
  ASSUME PublishingInv, NEW c, NEW i, Answering(c, i), i.op = "Reset",
         NEW on2, on2 # PlayerOn => ProjectGoes(i)
  PROVE  LET e == Answered(c, i) IN Tells(e, e.wire, Carry(session, i), on2)
<1> DEFINE e == Answered(c, i)
           s == Carry(session, i)
           l == [c EXCEPT !.lifecycle = Tail(@)]
<1>1. /\ c \in Desk /\ i \in Invocations /\ Connected(c) /\ Orderly(c, c.wire, PlayerOn)
      /\ c.wire \in Wire
      /\ Player(c) => c.config.party \in Party /\ (Live(c) <=> PlayerOn)
      /\ PlayerOn \in BOOLEAN
  BY AnswererIs
<1>2. StreamingInv /\ i.waiter # "connect" /\ ~IsStart(i)
  BY AnsweringWaits DEF IsJoin, Publishes, PublishingInv, IsStart
<1>3. e = CASE i.waiter = "teardown" -> IF c.lifecycle[1].fresh THEN Disconnect(l) ELSE l
            [] i.waiter = "newProject" /\ Running(c) ->
                 TakeDown(c, c.config.source = "aimp" /\ Live(c))
            [] i.waiter = "stop" /\ Running(c) /\ c.ready ->
                 IF NothingToPublish(c) THEN c ELSE Publish(c, "stop")
            [] OTHER -> c
  BY DEF Answered, ProjectGoes
<1>4. i.waiter # "newProject" => on2 = PlayerOn /\ ~Departs(i)
  BY DEF ProjectGoes, Departs
<1>5. /\ ~IsJoin(i) /\ ~WillPublish(i, c.config.party) /\ SameTale(c, c)
  BY DEF IsJoin, WillPublish, SameTale
<1>6. i.waiter # "newProject" => Tells(c, c.wire, s, PlayerOn)
  BY <1>4, <1>5, AnswerTells
<1> HIDE DEF e, s
<1>7. CASE i.waiter = "teardown"
  <2>1. /\ c.lifecycle # <<>>
        /\ c.lifecycle[1].fresh => ~Running(c)
        /\ \A k \in DOMAIN c.wire : c.wire[k].waiter # "teardown"
    BY <1>2, <1>7, AnsweringWaits
  <2>2. Orderly(l, c.wire, PlayerOn) /\ Keeps(c, l) /\ l.wire = c.wire /\ l.inFlight = c.inFlight
    BY <1>1, <2>1, PopFits
  <2>3. SameTale(c, l) /\ l.timer = c.timer
    BY <1>1 DEF SameTale, Desk
  <2>4. e = IF c.lifecycle[1].fresh THEN Disconnect(l) ELSE l
    BY <1>3, <1>7
  <2> HIDE DEF l
  <2>5. CASE c.lifecycle[1].fresh
    <3>1. Fit(l, PlayerOn, JoinedBy(i))
      BY <1>2, <2>2, KeptAnswerFits
    <3>2. ~Running(l)
      BY <2>1, <2>2, <2>5 DEF Keeps, Running
    <3>3. Disconnect(l).config = l.config
      BY <2>2, <3>1, <3>2, DisconnectFits DEF Fit
    <3> QED BY <2>4, <2>5, <3>2, <3>3, OthersTell DEF Player, Running, e
  <2>6. CASE ~c.lifecycle[1].fresh
    <3>1. Tells(l, c.wire, s, PlayerOn)
      BY <1>6, <1>7, <2>3, SameTells
    <3> QED BY <1>4, <1>7, <2>2, <2>4, <2>6, <3>1 DEF e, s
  <2> QED BY <2>5, <2>6
<1>8. CASE i.waiter = "newProject" /\ Running(c)
  <2> DEFINE isLive == c.config.source = "aimp" /\ Live(c)
  <2>1. isLive \in BOOLEAN
    OBVIOUS
  <2>2. e = TakeDown(c, isLive)
    BY <1>3, <1>8
  <2> HIDE DEF isLive
  <2>3. ~Running(e)
    BY <1>1, <1>8, <2>1, <2>2, TakeDownFits
  <2> QED BY <2>3, OthersTell DEF Player, e
<1>9. CASE i.waiter = "newProject" /\ ~Running(c)
  <2>1. e = c
    BY <1>3, <1>9
  <2> QED BY <1>9, <2>1, OthersTell DEF Player, e
<1>10. CASE i.waiter = "stop" /\ Running(c) /\ c.ready /\ ~NothingToPublish(c)
  <2> DEFINE live == Live(c)
             r == [Invocation("Notify", c.config.party, "stop") EXCEPT !.live = live]
  <2>1. e = Invoke(c, r)
    BY <1>3, <1>10 DEF Publish
  <2>2. c.config.party \in Party /\ live \in BOOLEAN
    BY <1>1, <1>10 DEF Desk, Running, Config, Live
  <2> HIDE DEF live
  <2>3. r \in Invocations /\ r.op = "Notify" /\ r.waiter = "stop" /\ r.live = live
    BY <2>2 DEF Invocation, Invocations
  <2> HIDE DEF r
  <2>4. Player(c) => Mild(r, c.config.party, PlayerOn)
    <3>1. Player(c) => r.live = PlayerOn
      BY <1>1, <2>2, <2>3 DEF live
    <3> QED BY <2>3, <3>1 DEF Mild, Right, IsStart, WillPublish
  <2>5. Tells(c, Append(c.wire, r), s, PlayerOn)
    BY <1>1, <1>6, <1>10, <2>3, <2>4, MildTells
  <2>6. /\ e.wire = Append(c.wire, r) /\ Keeps(c, e) /\ e.behind = c.behind
        /\ e.coalescing = c.coalescing /\ e.timer = c.timer
    BY <1>1, <2>1, <2>3, InvokeIs
  <2>7. SameTale(c, e)
    BY <2>6 DEF SameTale, Keeps
  <2>8. Tells(e, Append(c.wire, r), s, PlayerOn)
    BY <2>5, <2>6, <2>7, SameTells
  <2> QED BY <1>4, <1>10, <2>6, <2>8 DEF e, s
<1>11. CASE /\ i.waiter \notin {"teardown", "newProject"}
            /\ ~(i.waiter = "stop" /\ Running(c) /\ c.ready /\ ~NothingToPublish(c))
  <2>1. e = c
    BY <1>3, <1>11
  <2> QED BY <1>4, <1>6, <1>11, <2>1 DEF e, s
<1> QED BY <1>7, <1>8, <1>9, <1>10, <1>11

(* A NotifyStateChanged is answered, and the second half follows.          *)
LEMMA NotifyAnswerTells ==
  ASSUME PublishingInv, NEW c, NEW i, Answering(c, i), i.op = "Notify"
  PROVE  LET e == Answered(c, i) IN Tells(e, e.wire, Carry(session, i), PlayerOn)
<1> DEFINE r == [i EXCEPT !.op = "Publish"]
           e == Answered(c, i)
           w == desk.wire
           s == Carry(session, i)
           follows == i.fresh /\ i.waiter \in {"connect", "publish", "stop"}
<1>1. /\ c \in Desk /\ i \in Invocations /\ c.wire = Tail(w) /\ w \in Wire /\ w # <<>>
      /\ i = Head(w) /\ SameTale(desk, c) /\ c.behind = desk.behind /\ c.timer = desk.timer
      /\ c.coalescing = desk.coalescing
      /\ Player(desk) => desk.config.party \in Party
      /\ session \in Sessions /\ PlayerOn \in BOOLEAN
      /\ Tells(desk, w, session, PlayerOn)
  BY AnswererIs DEF SameTale
<1>2. e = IF follows THEN Invoke(c, r) ELSE c
  BY DEF Answered, ProjectGoes
<1> HIDE DEF e
<1>3. CASE follows
  <2>1. i.waiter = "connect" =>
          desk.step = "syncing" /\ \A k \in DOMAIN Tail(w) : Tail(w)[k].waiter # "connect"
    <3>1. StreamingInv
      BY DEF PublishingInv
    <3>2. i.waiter = "connect" =>
            c.step = "syncing" /\ \A k \in DOMAIN c.wire : c.wire[k].waiter # "connect"
      BY <3>1, AnsweringWaits DEF IsJoin
    <3> QED BY <1>1, <3>2 DEF SameTale
  <2>2. Tells(desk, Append(Tail(w), r), s, PlayerOn)
    BY <1>1, <1>3, <2>1, NotifyTells
  <2>3. r \in Invocations
    BY <1>1 DEF Invocations
  <2> HIDE DEF r
  <2>4. e = Invoke(c, r)
    BY <1>2, <1>3
  <2>5. /\ e.wire = Append(c.wire, r) /\ Keeps(c, e) /\ e.behind = c.behind
        /\ e.coalescing = c.coalescing /\ e.timer = c.timer
    BY <1>1, <2>3, <2>4, InvokeIs
  <2>6. SameTale(desk, e) /\ e.timer = desk.timer
    BY <1>1, <2>5 DEF SameTale, Keeps
  <2>7. Tells(e, Append(Tail(w), r), s, PlayerOn)
    BY <2>2, <2>6, SameTells
  <2> QED BY <1>1, <2>5, <2>7 DEF e
<1>4. CASE ~follows
  <2>1. e = c
    BY <1>2, <1>4
  <2>2. ~Departs(i) /\ ~IsJoin(i) /\ ~WillPublish(i, c.config.party) /\ SameTale(c, c)
    BY <1>4 DEF Departs, IsJoin, WillPublish, SameTale
  <2> QED BY <2>1, <2>2, AnswerTells DEF e
<1> QED BY <1>3, <1>4

(* The attempt's publication was the last word: the desk becomes ready.    *)
LEMMA BecomeReadyTells ==
  ASSUME PublishingInv, NEW c, NEW i, Answering(c, i), i.op = "Publish",
         i.waiter = "connect", ~c.behind
  PROVE  LET e == BecomeReady(c) IN Tells(e, e.wire, Carry(session, i), PlayerOn)
<1> DEFINE e == BecomeReady(c)
           w == desk.wire
           t == Tail(w)
           p == desk.config.party
           s == Carry(session, i)
           on == PlayerOn
<1>1. /\ c \in Desk /\ i \in Invocations /\ c.wire = t /\ w \in Wire /\ w # <<>>
      /\ i = Head(w) /\ SameTale(desk, c) /\ c.behind = desk.behind /\ Connected(c)
      /\ Player(desk) => p \in Party
      /\ session \in Sessions /\ on \in BOOLEAN
  BY AnswererIs DEF SameTale
<1>2. /\ e.config = desk.config /\ e.wire = t /\ e.step = "idle" /\ ~e.timer
  BY <1>1 DEF BecomeReady, Desk, SameTale
<1>3. StreamingInv
  BY DEF PublishingInv
<1>4. /\ i.party = c.config.party /\ c.step = "syncing"
      /\ c.behind \/ c.config.source = "aimp" \/ i.live = on
  BY <1>3, AnsweringWaits DEF IsJoin
<1> HIDE DEF e
<1>5. CASE ~Player(desk)
  BY <1>2, <1>5, OthersTell DEF Player, Running, e
<1>6. CASE Player(desk)
  <2>1. /\ w[1] = i /\ 1 \in DOMAIN w /\ t \in Wire
        /\ \A k \in DOMAIN t : k + 1 \in DOMAIN w /\ t[k] = w[k + 1] /\ k \in Nat /\ k >= 1
        /\ \A k \in DOMAIN w : k # 1 => k - 1 \in DOMAIN t /\ t[k - 1] = w[k]
        /\ \A k \in DOMAIN w : k \in Nat /\ k >= 1
    BY <1>1, TailIs DEF Wire
  <2>2. i.party = p /\ i.live = on /\ desk.step = "syncing" /\ ~desk.behind
    BY <1>1, <1>4, <1>6 DEF SameTale, Player
  <2>3. /\ \A k \in DOMAIN w : k > 0 => ~IsStart(w[k])
        /\ \A k \in DOMAIN w : k > 1 => w[k].waiter # "late"
        /\ \/ ProjectIsGoing(w)
           \/ LatestAfter(w, 0, p, on) /\ RightAfter(w, 1, p, on)
    <3>1. SyncFits(desk, w, on)
      BY <1>6, PlayerIs
    <3> QED BY <2>1, <2>2, <3>1 DEF SyncFits
  <2> HIDE DEF t
  <2>4. \A k \in DOMAIN t : k + 1 > 1 /\ k + 1 > 0
    BY <2>1
  <2>5. CalmFits(e, t)
    <3>1. \A k \in DOMAIN t : t[k].waiter # "late" /\ ~IsStart(t[k])
      BY <2>1, <2>3, <2>4
    <3> QED BY <3>1 DEF CalmFits
  <2>6. SyncFits(e, t, on) /\ TimerFits(e)
    BY <1>2 DEF SyncFits, TimerFits
  <2>7. CASE ProjectIsGoing(w)
    <3>1. ProjectIsGoing(t)
      BY <2>1, <2>7 DEF ProjectIsGoing, Departs
    <3> QED BY <1>2, <2>5, <2>6, <3>1 DEF Tells, ToldFits, e
  <2>8. CASE LatestAfter(w, 0, p, on) /\ RightAfter(w, 1, p, on)
    <3>1. LatestAfter(t, 0, p, on)
      BY <2>1, <2>4, <2>8 DEF LatestAfter
    <3>2. RightAfter(t, 0, p, on)
      BY <2>1, <2>4, <2>8 DEF RightAfter
    <3>3. IsRight(s[p], on)
      BY <1>1, <1>6, <2>2, CarryIsRight
    <3>4. Told(t, s[p], p, on)
      BY <3>1, <3>2, <3>3 DEF Told, Said
    <3> QED BY <1>2, <2>5, <2>6, <3>4 DEF Tells, ToldFits, e
  <2> QED BY <2>3, <2>7, <2>8
<1> QED BY <1>5, <1>6

(* A publication is answered: the attempt repeats it or is ready.          *)
LEMMA PublishAnswerTells ==
  ASSUME PublishingInv, NEW c, NEW i, Answering(c, i), i.op = "Publish"
  PROVE  LET e == Answered(c, i) IN Tells(e, e.wire, Carry(session, i), PlayerOn)
<1> DEFINE e == Answered(c, i)
<1>1. e = IF i.waiter = "connect"
          THEN IF c.behind THEN Synchronize(c) ELSE BecomeReady(c)
          ELSE c
  BY DEF Answered, ProjectGoes
<1> HIDE DEF e
<1>2. CASE i.waiter = "connect" /\ c.behind
  <2>1. StreamingInv /\ c \in Desk /\ c.wire \in Wire
    BY AnswererIs DEF PublishingInv
  <2>2. /\ Running(c) /\ sourceLive \in [Source -> BOOLEAN]
        /\ \A k \in DOMAIN c.wire : c.wire[k].waiter # "connect"
    BY <1>2, <2>1, AnsweringWaits, DeskIs
  <2>3. LET x == Synchronize(c) IN Tells(x, x.wire, Carry(session, i), PlayerOn)
    BY <2>1, <2>2, SynchronizeTells
  <2>4. e = Synchronize(c)
    BY <1>1, <1>2
  <2> QED BY <2>3, <2>4 DEF e
<1>3. CASE i.waiter = "connect" /\ ~c.behind
  <2>1. LET x == BecomeReady(c) IN Tells(x, x.wire, Carry(session, i), PlayerOn)
    BY <1>3, BecomeReadyTells
  <2>2. e = BecomeReady(c)
    BY <1>1, <1>3
  <2> QED BY <2>1, <2>2 DEF e
<1>4. CASE i.waiter # "connect"
  <2>1. e = c
    BY <1>1, <1>4
  <2>2. ~Departs(i) /\ ~IsJoin(i) /\ ~WillPublish(i, c.config.party) /\ SameTale(c, c)
    BY DEF Departs, IsJoin, WillPublish, SameTale
  <2> QED BY <2>1, <2>2, AnswerTells DEF e
<1> QED BY <1>2, <1>3, <1>4

(* The party is told whatever the hub answers.                             *)
LEMMA RespondTells ==
  ASSUME PublishingInv, Respond
  PROVE  Tells(desk', desk'.wire, session', PlayerOn')
<1> DEFINE c == [desk EXCEPT !.wire = Tail(@)]
           i == Head(desk.wire)
<1>1. /\ Answering(c, i) /\ desk' = Answered(c, i)
      /\ Connected(desk') => session' = Carry(session, i)
  BY DEF Respond, Answering
<1>2. PlayerOn' # PlayerOn => ProjectGoes(i)
  BY DEF Respond, PlayerOn
<1> HIDE DEF c, i
<1> SUFFICES Tells(desk', desk'.wire, Carry(session, i), PlayerOn')
  BY <1>1 DEF Tells, ToldFits
<1>3. i.op \in {"Join", "Start", "End", "Reset", "Notify", "Publish"}
  BY <1>1, AnswererIs DEF Invocations
<1>4. CASE i.op = "Reset"
  BY <1>1, <1>2, <1>4, ResetAnswerTells
<1>5. CASE i.op # "Reset"
  <2>1. PlayerOn' = PlayerOn
    BY <1>2, <1>5 DEF ProjectGoes
  <2> QED BY <1>1, <1>3, <1>5, <2>1, JoinAnswerTells, StartAnswerTells, EndAnswerTells,
             NotifyAnswerTells, PublishAnswerTells
<1> QED BY <1>4, <1>5

-----------------------------------------------------------------------------
(* The theorems.                                                           *)

(* Nothing is under way at first.                                          *)
LEMMA StreamingInit == Init => StreamingInv
<1> SUFFICES ASSUME Init PROVE StreamingInv
  OBVIOUS
<1>1. /\ desk.config = NoConfig /\ desk.step = "idle" /\ ~desk.ready /\ ~desk.timer
      /\ ~desk.subscribed /\ ~desk.coalescing
      /\ desk.lastAttempt = 0 /\ desk.inFlight = 0
      /\ \A p \in Party : desk.active[p] = 0
      /\ desk.handled = {} /\ desk.late = {}
      /\ desk.lifecycle = <<>> /\ desk.link = "none" /\ desk.wire = <<>>
  BY DEF Init, InitialDesk
<1>2. desk \in Desk
  <2>1. <<>> \in Seq(Teardowns) /\ <<>> \in Seq(Invocations)
    OBVIOUS
  <2> QED BY <2>1 DEF Init, InitialDesk, Desk, Steps, Links
<1>3. ~Running(desk) /\ ~Settling(desk)
  BY <1>1 DEF Running, Settling
<1>4. AttemptsFit(desk, <<>>)
  BY <1>1, FS_EmptySet DEF AttemptsFit
<1>5. StartsFit(desk, <<>>) /\ WaitersFit(desk, <<>>, PlayerOn) /\ TeardownsFit(desk, <<>>)
  BY <1>3 DEF StartsFit, WaitersFit, TeardownsFit
<1>6. RestFits(desk) /\ LinkFits(desk) /\ PartyFits(desk)
  BY <1>1, <1>3 DEF RestFits, LinkFits, PartyFits
<1>7. <<>> \in Wire
  BY DEF Wire
<1>8. Fit(desk, PlayerOn, joined)
  BY <1>1, <1>2, <1>3, <1>4, <1>5, <1>6, <1>7 DEF Fit, Orderly, JoinFits, Awaits, Attended
<1> QED BY <1>8 DEF Init, StreamingInv

(* Every other step makes nobody ready.                                    *)
LEMMA StepKeeps ==
  ASSUME StreamingInv, [Next]_streamingVars, ~Respond
  PROVE  StreamingInv' /\ NotNewlyReady
<1>1. CASE UNCHANGED streamingVars
  <2>1. Fit(desk', PlayerOn, joined) /\ UNCHANGED <<session, joined, sourceLive>>
        /\ NotNewlyReady
    BY <1>1, DeskIs DEF streamingVars, NotNewlyReady
  <2> QED BY <2>1, DeskRestored
<1>2. CASE Progress
  <2>1. CASE PartyExists
    BY <2>1, PartyExistsKeeps
  <2>2. CASE DialStarts
    BY <2>2, DialStartsKeeps
  <2>3. CASE DialSucceeds
    BY <2>3, DialSucceedsKeeps
  <2>4. CASE Reconnected
    BY <2>4, ReconnectedKeeps
  <2>5. CASE Exhausted
    BY <2>5, ExhaustedKeeps
  <2>6. CASE TimerFires
    BY <2>6, TimerFiresKeeps
  <2>7. CASE PublishChanges
    BY <2>7, PublishChangesKeeps
  <2>8. CASE Teardown
    BY <2>8, TeardownWaitsKeeps, TeardownEndsKeeps, TeardownResetsKeeps, TeardownReturnsKeeps
       DEF Teardown
  <2> QED BY <1>2, <2>1, <2>2, <2>3, <2>4, <2>5, <2>6, <2>7, <2>8 DEF Progress
<1>3. CASE Commands
  <2>1. CASE \E c \in Config : Start(c)
    BY <2>1, StartKeeps
  <2>2. CASE Stop
    BY <2>2, StopKeeps
  <2>3. CASE Reconnect
    BY <2>3, ReconnectKeeps
  <2>4. CASE \E s \in Source : GoLive(s) \/ StopLive(s)
    BY <2>4, GoLiveKeeps, StopLiveKeeps
  <2>5. CASE NewProject
    BY <2>5, NewProjectKeeps
  <2>6. CASE SyncAimp
    BY <2>6, SyncAimpKeeps
  <2> QED BY <1>3, <2>1, <2>2, <2>3, <2>4, <2>5, <2>6 DEF Commands
<1>4. CASE Failures
  <2>1. CASE PartyIsMissing
    BY <2>1, PartyIsMissingKeeps
  <2>2. CASE CheckFails
    BY <2>2, CheckFailsKeeps
  <2>3. CASE DialFails
    BY <2>3, DialFailsKeeps
  <2>4. CASE Lose
    BY <2>4, LoseKeeps
  <2>5. CASE DialTimesOut
    BY <2>5, DialTimesOutKeeps
  <2>6. CASE JoinTimesOut
    BY <2>6, JoinTimesOutKeeps
  <2>7. CASE \E k \in DOMAIN desk.wire : StartTimesOut(k) \/ PublishTimesOut(k)
    BY <2>7, StartTimesOutKeeps, PublishTimesOutKeeps
  <2> QED BY <1>4, <2>1, <2>2, <2>3, <2>4, <2>5, <2>6, <2>7 DEF Failures
<1> QED BY <1>1, <1>2, <1>3, <1>4 DEF Next

(* The inductive invariant: what the orchestrator's promises, teardowns    *)
(* and timers are to each other whenever it is back in the event loop.     *)
THEOREM StreamingInvariantHolds == Spec => []StreamingInv
<1>1. StreamingInv /\ [Next]_streamingVars => StreamingInv'
  BY RespondKeeps, StepKeeps
<1> QED BY <1>1, StreamingInit, PTL DEF Spec

(* Every variable has its type, and no attempt is on record that was never *)
(* made.                                                                   *)
THEOREM StreamingTypesHold == Spec => []StreamingTypeOK
<1>1. StreamingInv => StreamingTypeOK
  BY DEF StreamingInv, Fit, Orderly, AttemptsFit, StreamingTypeOK, Attempts
<1> QED BY <1>1, StreamingInvariantHolds, PTL

(* A running orchestrator is never left to itself, whatever timed out,     *)
(* failed or was superseded.                                               *)
THEOREM NeverStuckHolds == Spec => []NeverStuck
<1>1. StreamingInv => NeverStuck
  BY DEF StreamingInv, Fit, Attended, NeverStuck
<1> QED BY <1>1, StreamingInvariantHolds, PTL

(* A connection attempt never waits for a promise that nobody will settle. *)
THEOREM ConnectWaitsHolds == Spec => []ConnectWaits
<1>1. StreamingInv => ConnectWaits
  <2> SUFFICES ASSUME StreamingInv PROVE ConnectWaits
    OBVIOUS
  <2>1. Awaits(desk, desk.wire) /\ LinkFits(desk) /\ desk.wire \in Wire
    BY DEF StreamingInv, Fit, Orderly
  <2>2. desk.step = "dialing" => desk.link \in {"preparing", "starting"}
    BY <2>1 DEF LinkFits
  <2>3. desk.step = "joining" =>
          \E k \in DOMAIN desk.wire :
            desk.wire[k].op \in {"Join"} /\ desk.wire[k].waiter = "connect"
    BY <2>1 DEF Awaits, IsJoin
  <2>4. desk.step = "syncing" =>
          \E k \in DOMAIN desk.wire :
            desk.wire[k].op \in {"Notify", "Publish"} /\ desk.wire[k].waiter = "connect"
    BY <2>1 DEF Awaits, Publishes
  <2>5. desk.step = "starting" => StartPending(desk, desk.config.party)
    BY <2>1 DEF Awaits, IsStart, StartPending
  <2> QED BY <2>2, <2>3, <2>4, <2>5 DEF ConnectWaits
<1> QED BY <1>1, StreamingInvariantHolds, PTL

(* An orchestrator that is ready on a connection is down at the hub for    *)
(* its own party, unless it is joining again after a reconnection.         *)
THEOREM ReadyMeansJoinedHolds == Spec => []ReadyMeansJoined
<1>1. StreamingInv => ReadyMeansJoined
  BY DEF StreamingInv, Fit, JoinFits, Settling, IsJoin, ReadyMeansJoined
<1> QED BY <1>1, StreamingInvariantHolds, PTL

(* The orchestrator becomes ready only with the latest state published: it *)
(* repeats a publication that the player's changes overtook.               *)
THEOREM ReadyWithLatestHolds == Spec => ReadyWithLatest
<1>1. ASSUME StreamingInv, [Next]_streamingVars, ~desk.ready, desk'.ready,
             desk'.config.source = "cherryPlayPlayer"
      PROVE  session'[desk'.config.party].mode
               = Dto(sourceLive'["cherryPlayPlayer"]).mode
  <2>1. Respond
    BY <1>1, StepKeeps DEF NotNewlyReady
  <2>2. PICK c, i : /\ Answering(c, i) /\ ReadyAsBefore(c, i, desk')
                    /\ desk' = Answered(c, i)
                    /\ Connected(desk') => session' = Carry(session, i)
                    /\ ~ProjectGoes(i) => UNCHANGED sourceLive
    BY <1>1, <2>1, RespondKeeps
  <2>3. /\ i.op = "Publish" /\ i.waiter = "connect" /\ ~c.behind
        /\ desk'.config = c.config
    BY <1>1, <2>2 DEF ReadyAsBefore
  <2>4. i.party = c.config.party /\ i.live = PlayerOn
    BY <1>1, <2>2, <2>3, AnsweringWaits DEF IsJoin
  <2>5. sourceLive' = sourceLive
    BY <2>2, <2>3 DEF ProjectGoes
  <2>6. i.party \in Party /\ session \in Sessions
    BY <1>1, <2>2, AnsweringIs DEF StreamingInv, Sessions
  <2>7. session' = [session EXCEPT ![i.party] = Published(@, Dto(i.live))]
    <3>1. Connected(c) /\ c \in Desk
      BY <1>1, <2>2, AnsweringIs
    <3>2. desk' = BecomeReady(c)
      BY <2>2, <2>3 DEF Answered, ProjectGoes
    <3>3. Connected(desk')
      BY <3>1, <3>2 DEF BecomeReady, Desk, Connected
    <3> QED BY <2>2, <2>3, <3>3 DEF Carry
  <2>8. session'[i.party] = Published(session[i.party], Dto(i.live))
    BY <2>6, <2>7 DEF Sessions
  <2>9. session'[i.party].mode = Dto(i.live).mode
    BY <2>8 DEF Published, Dto
  <2> QED BY <2>3, <2>4, <2>5, <2>9 DEF PlayerOn
<1>2. StreamingInv /\ [Next]_streamingVars =>
        [~desk.ready /\ desk'.ready /\ desk'.config.source = "cherryPlayPlayer"
           => session'[desk'.config.party].mode
                = Dto(sourceLive'["cherryPlayPlayer"]).mode]_streamingVars
  BY <1>1
<1> QED BY <1>2, StreamingInvariantHolds, PTL DEF Spec, ReadyWithLatest

(* Initially no orchestrator has anything to tell.                         *)
LEMMA PublishingInit == Init => PublishingInv
<1> SUFFICES ASSUME Init PROVE PublishingInv
  OBVIOUS
<1>1. StreamingInv
  BY StreamingInit
<1>2. ~Player(desk)
  BY DEF Init, InitialDesk, Player, Running
<1> QED BY <1>1, <1>2, OthersTell DEF PublishingInv

(* Every step tells.                                                       *)
LEMMA PublishingNext ==
  ASSUME PublishingInv, [Next]_streamingVars
  PROVE  PublishingInv'
<1>1. StreamingInv
  BY DEF PublishingInv
<1>2. StreamingInv'
  BY <1>1, StepKeeps, RespondKeeps
<1>3. Tells(desk', desk'.wire, session', PlayerOn')
  <2>1. CASE UNCHANGED streamingVars
    BY <2>1 DEF PublishingInv, streamingVars, PlayerOn
  <2>2. CASE Progress
    BY <2>2, RespondTells, PartyExistsTells, DialStartsTells, DialSucceedsTells,
       ReconnectedTells, ExhaustedTells, TimerFiresTells, PublishChangesTells, TeardownTells
       DEF Progress
  <2>3. CASE Commands
    <3>1. CASE \E c \in Config : Start(c)
      BY <3>1, StartTells
    <3>2. CASE \E s \in Source : GoLive(s) \/ StopLive(s)
      BY <3>2, GoLiveTells, StopLiveTells
    <3>3. CASE Stop \/ Reconnect \/ NewProject \/ SyncAimp
      BY <3>3, StopTells, ReconnectTells, NewProjectTells, SyncAimpTells
    <3> QED BY <2>3, <3>1, <3>2, <3>3 DEF Commands
  <2>4. CASE Failures
    <3>1. CASE \E k \in DOMAIN desk.wire : StartTimesOut(k) \/ PublishTimesOut(k)
      BY <3>1, StartTimesOutTells, PublishTimesOutTells
    <3>2. CASE \/ PartyIsMissing \/ CheckFails \/ DialFails \/ Lose
               \/ DialTimesOut \/ JoinTimesOut
      BY <3>2, PartyIsMissingTells, CheckFailsTells, DialFailsTells, LoseTells,
         DialTimesOutTells, JoinTimesOutTells
    <3> QED BY <2>4, <3>1, <3>2 DEF Failures
  <2> QED BY <2>1, <2>2, <2>3, <2>4 DEF Next
<1> QED BY <1>2, <1>3 DEF PublishingInv

(* In every reachable state the party has been told what the player does,  *)
(* or it is on its way, or something is that will tell it.                 *)
THEOREM PublishingInvariantHolds == Spec => []PublishingInv
<1>1. PublishingInv /\ [Next]_streamingVars => PublishingInv'
  BY PublishingNext
<1> QED BY <1>1, PublishingInit, PTL DEF Spec

(* Whatever failed, was superseded, came late or was overtaken meanwhile:  *)
(* when all is answered, the server's state of the party is the player's.  *)
THEOREM PublishedIsLatestHolds == Spec => []PublishedIsLatest
<1>1. PublishingInv => PublishedIsLatest
  <2> SUFFICES ASSUME PublishingInv, Settled, desk.config.source = "cherryPlayPlayer"
               PROVE  session[desk.config.party].mode = Dto(Live(desk)).mode
    BY DEF PublishedIsLatest
  <2>1. /\ desk.wire = <<>> /\ ~desk.coalescing /\ desk.step = "idle" /\ desk.ready
        /\ Connected(desk) /\ Player(desk)
    BY DEF Settled, Quiet, Player
  <2>2. ToldFits(desk, desk.wire, session, PlayerOn)
    BY <2>1, PlayerIs
  <2>3. Said(desk.wire, session[desk.config.party], desk.config.party, PlayerOn)
    BY <2>1, <2>2 DEF ToldFits, ProjectIsGoing, Rejoins, Told, OnItsWay, Announced
  <2>4. Live(desk) = PlayerOn
    <3>1. sourceLive \in [Source -> BOOLEAN]
      BY DeskIs DEF PublishingInv
    <3> QED BY <2>1, <3>1 DEF Live, Player, PlayerOn, Source
  <2> QED BY <2>3, <2>4 DEF Said, IsRight
<1> QED BY <1>1, PublishingInvariantHolds, PTL
=============================================================================
