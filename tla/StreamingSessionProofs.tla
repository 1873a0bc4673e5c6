------------------------ MODULE StreamingSessionProofs ------------------------
(***************************************************************************)
(* The party's session and the orchestrator, for any parties, scenarios    *)
(* and bounds: the session it believes in is on the air, and a teardown    *)
(* leaves none on the air.                                                 *)
(*                                                                         *)
(* Each has an inductive invariant of its own on top of that of            *)
(* StreamingOrchestratorProofs, again of a desk, a wire and the sessions   *)
(* of the hub: which start is the orchestrator's and what may stand behind *)
(* it on the wire, and what is behind the reset of a teardown.             *)
(***************************************************************************)
EXTENDS StreamingOrchestratorProofs

-----------------------------------------------------------------------------
(* The session that the orchestrator believes in.                          *)

(* A start whose promise is open.                                          *)
Pending(i) == IsStart(i) /\ ~i.timedOut

(* What takes a party's session off the air.                               *)
Ends(i, p) == i.op \in {"End", "Reset"} /\ i.party = p

(* A pending start whose success the orchestrator will make its own.       *)
Ours(d, w, k) ==
  /\ Pending(w[k])
  /\ \/ Settling(d)
     \/ w[k].waiter = "sync"
     \/ \E j \in DOMAIN w : j < k /\ IsJoin(w[j]) /\ w[j].waiter = "connect"

(* One start at most is pending, under the latest number: starts that came *)
(* late have older ones, no teardown has ended it, and the teardowns that  *)
(* know of it still wait for it.                                           *)
NumbersFit(d, w) ==
  /\ d.inFlight \in {0, d.lastAttempt}
  /\ d.inFlight \notin d.handled
  /\ \A l \in d.late : l.attempt < d.lastAttempt
  /\ \A k \in DOMAIN d.lifecycle :
       /\ d.lifecycle[k].attempt = d.inFlight /\ d.inFlight # 0 => d.lifecycle[k].pending
       /\ d.lifecycle[k].at = "ending" => ~d.lifecycle[k].pending
  /\ \A k \in DOMAIN w : Pending(w[k]) => w[k].attempt = d.inFlight
  /\ \A k \in DOMAIN w : Ours(d, w, k) => Running(d) /\ w[k].party = d.config.party

(* It leaves the session of the configured party on the air.               *)
StaysLive(i, c) ==
  /\ ~Ends(i, c.party)
  /\ c.source = "aimp" /\ i.op = "Publish" /\ i.party = c.party => i.live

(* Nothing behind the orchestrator's start takes its session off the air.  *)
OursFit(d, w, on) ==
  \A k \in DOMAIN w : Ours(d, w, k) =>
    on /\ \A j \in DOMAIN w : j > k => StaysLive(w[j], d.config)

(* The session it believes in is on the air and will stay there: older     *)
(* starts that come, or came, late have a lower number.                    *)
AirFits(d, w, s, on) ==
  d.liveSession =>
    LET p == d.config.party IN
    /\ Running(d) /\ on /\ d.inFlight = 0
    /\ s[p] # NoSession /\ s[p].active
    /\ d.config.source = "aimp" => s[p].mode = "Session"
    /\ \A k \in DOMAIN w :
         /\ StaysLive(w[k], d.config)
         /\ IsStart(w[k]) /\ w[k].party = p => w[k].attempt < d.active[p]
    /\ \A l \in d.late : l.party = p => l.attempt < d.active[p]

(* No project goes, no player has stopped, AIMP publishes that it is on.   *)
WordsFit(d, w) ==
  /\ \A k \in DOMAIN w : w[k].waiter \notin {"newProject", "stop"}
  /\ Running(d) /\ d.config.source = "aimp" =>
       \A k \in DOMAIN w : WillPublish(w[k], w[k].party) => w[k].live

(* While no source stops of itself, what is on the wire ends as it should. *)
Airs(d, w, s, on) ==
  /\ NumbersFit(d, w)
  /\ NoSourceStops => OursFit(d, w, on) /\ AirFits(d, w, s, on) /\ WordsFit(d, w)

LiveInv == StreamingInv /\ Airs(desk, desk.wire, session, Live(desk))

(* All pending starts are the orchestrator's.                              *)
Claims(d, w, on) ==
  \A k \in DOMAIN w : Pending(w[k]) =>
    /\ Running(d) /\ w[k].party = d.config.party
    /\ NoSourceStops => on /\ \A j \in DOMAIN w : j > k => StaysLive(w[j], d.config)

(* Once it has joined they are.                                            *)
LEMMA SettlingClaims ==
  ASSUME NEW d, NEW w, NEW s, NEW on, Airs(d, w, s, on), Settling(d)
  PROVE  Claims(d, w, on)
BY DEF Airs, NumbersFit, OursFit, Ours, Claims

(* An invocation as it was, except that nobody may wait for it any more.   *)
Fainter(i, j) ==
  /\ j.op = i.op /\ j.party = i.party /\ j.attempt = i.attempt
  /\ j.timedOut = i.timedOut /\ j.live = i.live
  /\ j.waiter \in {i.waiter, "nobody"}
  /\ j.fresh => i.fresh

(* A wire as it was, fainter or longer, without another start.             *)
GoesOnAs(w, v) ==
  /\ \A k \in DOMAIN v : k \in DOMAIN w => Fainter(w[k], v[k])
  /\ \A k \in DOMAIN v : k \notin DOMAIN w => ~IsStart(v[k])

(* A desk with the same attempts on record, or with fewer.                 *)
Records(d, e) ==
  /\ e.inFlight = d.inFlight /\ e.lastAttempt = d.lastAttempt
  /\ e.handled \subseteq d.handled
  /\ \A l \in e.late : \E m \in d.late : l.attempt = m.attempt /\ l.party = m.party
  /\ \A k \in DOMAIN e.lifecycle : \E j \in DOMAIN d.lifecycle :
       /\ e.lifecycle[k].attempt = d.lifecycle[j].attempt
       /\ e.lifecycle[k].pending = d.lifecycle[j].pending
       /\ e.lifecycle[k].at = "ending" => d.lifecycle[j].at = "ending" \/ ~d.lifecycle[j].pending

(* The orchestrator's starts are those it had.                             *)
LEMMA OursWere ==
  ASSUME NEW d, NEW e, NEW w \in Wire, NEW v \in Wire, GoesOnAs(w, v),
         Settling(e) => Settling(d), NEW k \in DOMAIN v, Ours(e, v, k)
  PROVE  k \in DOMAIN w /\ Ours(d, w, k)
<1>1. DOMAIN w = 1 .. Len(w) /\ DOMAIN v = 1 .. Len(v) /\ Len(w) \in Nat /\ Len(v) \in Nat
  BY DEF Wire
<1>2. k \in DOMAIN w /\ Pending(w[k])
  BY DEF GoesOnAs, Ours, Pending, Fainter, IsStart
<1>3. CASE Settling(e) \/ v[k].waiter = "sync"
  BY <1>2, <1>3 DEF Ours, GoesOnAs, Fainter
<1>4. CASE \E j \in DOMAIN v : j < k /\ IsJoin(v[j]) /\ v[j].waiter = "connect"
  <2>1. PICK j \in DOMAIN v : j < k /\ IsJoin(v[j]) /\ v[j].waiter = "connect"
    BY <1>4
  <2>2. j \in DOMAIN w
    BY <1>1, <1>2, <2>1
  <2>3. IsJoin(w[j]) /\ w[j].waiter = "connect"
    BY <2>1, <2>2 DEF GoesOnAs, Fainter, IsJoin
  <2> QED BY <1>2, <2>1, <2>2, <2>3 DEF Ours
<1> QED BY <1>3, <1>4 DEF Ours

(* Its numbers fit as before.                                              *)
LEMMA NumbersStay ==
  ASSUME NEW d, NEW e, NEW w \in Wire, NEW v \in Wire, NumbersFit(d, w),
         GoesOnAs(w, v), Records(d, e), e.config = d.config,
         Settling(e) => Settling(d)
  PROVE  NumbersFit(e, v)
<1>1. \A k \in DOMAIN v : Pending(v[k]) => k \in DOMAIN w /\ Pending(w[k])
                                           /\ w[k].attempt = v[k].attempt
  BY DEF GoesOnAs, Fainter, Pending, IsStart
<1>2. ASSUME NEW k \in DOMAIN v, Ours(e, v, k)
      PROVE  Running(e) /\ v[k].party = e.config.party
  <2>1. k \in DOMAIN w /\ Ours(d, w, k)
    BY <1>2, OursWere
  <2>2. v[k].party = w[k].party
    BY <2>1 DEF GoesOnAs, Fainter
  <2> QED BY <2>1, <2>2 DEF NumbersFit, Running
<1>3. \A k \in DOMAIN e.lifecycle :
       /\ e.lifecycle[k].attempt = e.inFlight /\ e.inFlight # 0 => e.lifecycle[k].pending
       /\ e.lifecycle[k].at = "ending" => ~e.lifecycle[k].pending
  BY DEF NumbersFit, Records
<1>4. \A l \in e.late : l.attempt < e.lastAttempt
  BY DEF NumbersFit, Records
<1> QED BY <1>1, <1>2, <1>3, <1>4 DEF NumbersFit, Records

(* What the orchestrator may invoke while its session is on the air.       *)
Harmless(i, c) ==
  /\ i.op \in {"Join", "Notify", "Publish"} /\ i.waiter \notin {"newProject", "stop"}
  /\ c.source = "aimp" /\ i.op # "Join" => i.live

(* A desk that keeps its attempts and invokes nothing but that.            *)
LEMMA AirsStay ==
  ASSUME NEW d, NEW e, NEW w \in Wire, NEW v \in Wire, NEW s, NEW on, NEW on2,
         Airs(d, w, s, on), GoesOnAs(w, v), Records(d, e), e.config = d.config,
         Settling(e) => Settling(d),
         NoSourceStops =>
           /\ on => on2
           /\ e.liveSession => d.liveSession
           /\ e.active = d.active
           /\ Running(d) => \A k \in DOMAIN v : k \notin DOMAIN w => Harmless(v[k], d.config)
           /\ \A k \in DOMAIN v : k \notin DOMAIN w => v[k].waiter \notin {"newProject", "stop"}
  PROVE  Airs(e, v, s, on2)
<1>1. NumbersFit(e, v)
  BY NumbersStay DEF Airs
<1> SUFFICES ASSUME NoSourceStops
             PROVE  OursFit(e, v, on2) /\ AirFits(e, v, s, on2) /\ WordsFit(e, v)
  BY <1>1 DEF Airs
<1>2. OursFit(d, w, on) /\ AirFits(d, w, s, on) /\ WordsFit(d, w) /\ NumbersFit(d, w)
  BY DEF Airs
<1>3. \A k \in DOMAIN v : k \in DOMAIN w /\ StaysLive(w[k], d.config) => StaysLive(v[k], e.config)
  BY DEF GoesOnAs, Fainter, StaysLive, Ends
<1>4. Running(d) => \A k \in DOMAIN v : k \notin DOMAIN w => StaysLive(v[k], e.config)
  BY DEF Harmless, StaysLive, Ends
<1>5. OursFit(e, v, on2)
  <2> SUFFICES ASSUME NEW k \in DOMAIN v, Ours(e, v, k)
               PROVE  on2 /\ \A j \in DOMAIN v : j > k => StaysLive(v[j], e.config)
    BY DEF OursFit
  <2>1. k \in DOMAIN w /\ Ours(d, w, k)
    BY OursWere
  <2>2. on /\ (\A j \in DOMAIN w : j > k => StaysLive(w[j], d.config)) /\ Running(d)
    BY <1>2, <2>1 DEF OursFit, NumbersFit
  <2> QED BY <1>3, <1>4, <2>2
<1>6. AirFits(e, v, s, on2)
  <2> SUFFICES ASSUME e.liveSession
               PROVE  AirFits(e, v, s, on2)
    BY DEF AirFits
  <2>1. d.liveSession /\ Running(d)
    BY <1>2 DEF AirFits
  <2>2. \A k \in DOMAIN v : StaysLive(v[k], e.config)
    BY <1>2, <1>3, <1>4, <2>1 DEF AirFits
  <2>3. \A k \in DOMAIN v : IsStart(v[k]) /\ v[k].party = e.config.party =>
          v[k].attempt < e.active[e.config.party]
    BY <1>2, <2>1 DEF AirFits, GoesOnAs, Fainter, IsStart
  <2>4. \A l \in e.late : l.party = e.config.party => l.attempt < e.active[e.config.party]
    BY <1>2, <2>1 DEF AirFits, Records
  <2> QED BY <1>2, <2>1, <2>2, <2>3, <2>4 DEF AirFits, Running, Records
<1>7. WordsFit(e, v)
  <2>1. \A k \in DOMAIN v : v[k].waiter \notin {"newProject", "stop"}
    BY <1>2 DEF WordsFit, GoesOnAs, Fainter
  <2>2. ASSUME Running(e), e.config.source = "aimp", NEW k \in DOMAIN v,
               WillPublish(v[k], v[k].party)
        PROVE  v[k].live
    <3>1. Running(d) /\ d.config.source = "aimp"
      BY <2>2 DEF Running
    <3>2. CASE k \in DOMAIN w
      <4>1. Fainter(w[k], v[k])
        BY <3>2 DEF GoesOnAs
      <4>2. WillPublish(w[k], w[k].party)
        BY <2>2, <4>1 DEF Fainter, WillPublish
      <4> QED BY <1>2, <3>1, <3>2, <4>1, <4>2 DEF WordsFit, Fainter
    <3>3. CASE k \notin DOMAIN w
      BY <2>2, <3>1, <3>3 DEF Harmless, WillPublish
    <3> QED BY <3>2, <3>3
  <2> QED BY <2>1, <2>2 DEF WordsFit
<1> QED BY <1>5, <1>6, <1>7

(* The session stays on the air when an invocation is carried out.         *)
LEMMA CarryStays ==
  ASSUME NEW c \in Config, NEW s \in Sessions, NEW i \in Invocations, StaysLive(i, c),
         s[c.party] # NoSession, s[c.party].active,
         c.source = "aimp" => s[c.party].mode = "Session"
  PROVE  LET r == Carry(s, i) IN
         /\ r[c.party] # NoSession /\ r[c.party].active
         /\ c.source = "aimp" => r[c.party].mode = "Session"
<1> DEFINE p == c.party
           q == i.party
           r == Carry(s, i)
<1>1. p \in Party /\ q \in Party /\ i.op \in {"Join", "Start", "End", "Reset", "Notify", "Publish"}
  BY DEF Config, Invocations
<1>2. s[p] \in Session
  BY <1>1 DEF Sessions
<1>3. r \in Sessions /\ r[p] \in Session \cup {NoSession}
  BY <1>1, CarryFits DEF Sessions
<1>4. CASE q # p \/ i.op \in {"Join", "Notify"}
  <2>1. r[p] = s[p]
    BY <1>1, <1>4 DEF Carry, Sessions
  <2> QED BY <2>1
<1>5. CASE q = p /\ i.op = "Start"
  <2>1. r[p] = Started(s[p], TRUE)
    BY <1>1, <1>5 DEF Carry, Sessions
  <2>2. Started(s[p], TRUE) \in Session /\ Started(s[p], TRUE).active
        /\ Started(s[p], TRUE).mode = "Session"
    BY <1>2 DEF Started, Session, Mode, Status
  <2> QED BY <2>1, <2>2, NoSessionAssumption
<1>6. CASE q = p /\ i.op = "Publish"
  <2>1. r[p] = Published(s[p], Dto(i.live))
    BY <1>1, <1>6 DEF Carry, Sessions
  <2>2. Published(s[p], Dto(i.live)).active
        /\ (i.live => Published(s[p], Dto(i.live)).mode = "Session")
    BY <1>2 DEF Published, Dto
  <2>3. Published(s[p], Dto(i.live)) \in Session
    BY <1>2 DEF Published, Dto, Session, Mode, Status, Invocations
  <2> QED BY <1>6, <2>1, <2>2, <2>3, NoSessionAssumption DEF StaysLive
<1>7. ~(q = p /\ i.op \in {"End", "Reset"})
  BY DEF StaysLive, Ends
<1> QED BY <1>1, <1>4, <1>5, <1>6, <1>7

(* It stays there while the wire is carried out, all of it or some.        *)
LEMMA CarriedStays ==
  ASSUME NEW d \in Desk, NEW w \in Wire, NEW s \in Sessions, NEW on, AirFits(d, w, s, on),
         NEW t \in CarriedSome(s, w)
  PROVE  AirFits(d, w, t, on)
<1> SUFFICES ASSUME d.liveSession PROVE AirFits(d, w, t, on)
  BY DEF AirFits
<1> DEFINE c == d.config
           Good == {r \in Sessions : /\ r[c.party] # NoSession /\ r[c.party].active
                                     /\ c.source = "aimp" => r[c.party].mode = "Session"}
<1>1. c \in Config
  BY DEF AirFits, Running, Desk
<1>2. s \in Good
  BY DEF AirFits
<1>3. Len(w) \in Nat /\ \A k \in 1 .. Len(w) : w[k] \in Invocations /\ StaysLive(w[k], c)
  BY DEF AirFits, Wire
<1>4. \A k \in 1 .. Len(w) : \A r \in Good : Carry(r, w[k]) \in Good
  BY <1>1, <1>3, CarryStays, CarryFits
<1> HIDE DEF Good
<1>5. t \in Good
  BY <1>2, <1>3, <1>4, CarriesOut
<1> QED BY <1>5 DEF Good, AirFits

(* The rest of the wire.                                                   *)
LEMMA TailAirs ==
  ASSUME NEW d, NEW w \in Wire, w # <<>>, NEW s, NEW on, Airs(d, w, s, on)
  PROVE  Airs(d, Tail(w), s, on)
<1> DEFINE v == Tail(w)
<1>1. /\ \A k \in DOMAIN v : k + 1 \in DOMAIN w /\ v[k] = w[k + 1]
      /\ \A k \in DOMAIN v : k \in Nat
  BY TailIs DEF Wire
<1> HIDE DEF v
<1>2. \A k \in DOMAIN v : Ours(d, v, k) => Ours(d, w, k + 1)
  <2> SUFFICES ASSUME NEW k \in DOMAIN v, Ours(d, v, k) PROVE Ours(d, w, k + 1)
    OBVIOUS
  <2>1. Pending(w[k + 1])
    BY <1>1 DEF Ours
  <2>2. CASE Settling(d) \/ v[k].waiter = "sync"
    BY <1>1, <2>1, <2>2 DEF Ours
  <2>3. CASE \E j \in DOMAIN v : j < k /\ IsJoin(v[j]) /\ v[j].waiter = "connect"
    <3>1. PICK j \in DOMAIN v : j < k /\ IsJoin(v[j]) /\ v[j].waiter = "connect"
      BY <2>3
    <3>2. j + 1 \in DOMAIN w /\ j + 1 < k + 1 /\ IsJoin(w[j + 1]) /\ w[j + 1].waiter = "connect"
      BY <1>1, <3>1
    <3> QED BY <2>1, <3>2 DEF Ours
  <2> QED BY <2>2, <2>3 DEF Ours
<1>3. NumbersFit(d, v)
  BY <1>1, <1>2 DEF Airs, NumbersFit
<1>4. ASSUME NoSourceStops
      PROVE  OursFit(d, v, on) /\ AirFits(d, v, s, on) /\ WordsFit(d, v)
  <2>1. OursFit(d, w, on) /\ AirFits(d, w, s, on) /\ WordsFit(d, w)
    BY <1>4 DEF Airs
  <2>2. OursFit(d, v, on)
    <3> SUFFICES ASSUME NEW k \in DOMAIN v, Ours(d, v, k)
                 PROVE  on /\ \A j \in DOMAIN v : j > k => StaysLive(v[j], d.config)
      BY DEF OursFit
    <3>1. k + 1 \in DOMAIN w /\ Ours(d, w, k + 1)
      BY <1>1, <1>2
    <3>2. on /\ \A j \in DOMAIN w : j > k + 1 => StaysLive(w[j], d.config)
      BY <2>1, <3>1 DEF OursFit
    <3> QED BY <1>1, <3>2
  <2> QED BY <1>1, <2>1, <2>2 DEF WordsFit, AirFits
<1> QED BY <1>3, <1>4 DEF Airs, v

(* The head is answered and has been carried out.                          *)
LEMMA HeadAirs ==
  ASSUME NEW d \in Desk, NEW w \in Wire, w # <<>>, NEW s \in Sessions, NEW on,
         Airs(d, w, s, on)
  PROVE  /\ Airs(d, Tail(w), Carry(s, Head(w)), on)
         /\ NoSourceStops =>
              /\ Head(w).waiter \notin {"newProject", "stop"}
              /\ d.liveSession => StaysLive(Head(w), d.config)
              /\ Running(d) /\ d.config.source = "aimp" /\ WillPublish(Head(w), Head(w).party)
                   => Head(w).live
<1> DEFINE v == Tail(w)
           i == Head(w)
<1>1. i \in Invocations /\ i = w[1] /\ 1 \in DOMAIN w
  BY TailIs
<1>2. Airs(d, v, s, on)
  BY TailAirs
<1> HIDE DEF v, i
<1>3. ASSUME NoSourceStops
      PROVE  /\ AirFits(d, v, Carry(s, i), on)
             /\ i.waiter \notin {"newProject", "stop"}
             /\ d.liveSession => StaysLive(i, d.config)
             /\ Running(d) /\ d.config.source = "aimp" /\ WillPublish(i, i.party) => i.live
  <2>1. AirFits(d, w, s, on) /\ WordsFit(d, w) /\ AirFits(d, v, s, on)
    BY <1>2, <1>3 DEF Airs
  <2>2. d.liveSession => StaysLive(i, d.config)
    BY <1>1, <2>1 DEF AirFits
  <2>3. AirFits(d, v, Carry(s, i), on)
    <3> SUFFICES ASSUME d.liveSession PROVE AirFits(d, v, Carry(s, i), on)
      BY DEF AirFits
    <3>1. d.config \in Config
      BY <2>1 DEF AirFits, Running, Desk
    <3>2. LET r == Carry(s, i) IN
          /\ r[d.config.party] # NoSession /\ r[d.config.party].active
          /\ d.config.source = "aimp" => r[d.config.party].mode = "Session"
      BY <1>1, <2>1, <2>2, <3>1, CarryStays DEF AirFits
    <3> QED BY <2>1, <3>2 DEF AirFits
  <2>4. /\ i.waiter \notin {"newProject", "stop"}
        /\ Running(d) /\ d.config.source = "aimp" /\ WillPublish(i, i.party) => i.live
    BY <1>1, <2>1 DEF WordsFit
  <2> QED BY <2>2, <2>3, <2>4
<1> QED BY <1>2, <1>3 DEF Airs, v, i

(* Without an orchestrator nothing is claimed of the sessions.             *)
LEMMA DownAirs ==
  ASSUME NEW e, NEW v, NEW s, NEW on, NumbersFit(e, v), ~Running(e), ~e.liveSession,
         NoSourceStops => \A k \in DOMAIN v : v[k].waiter \notin {"newProject", "stop"}
  PROVE  Airs(e, v, s, on)
BY DEF Airs, NumbersFit, OursFit, AirFits, WordsFit

(* A new generation claims nothing either, except what it believes already.*)
LEMMA RenewedAirs ==
  ASSUME NEW d, NEW e, NEW w \in Wire, NEW v \in Wire, NEW s, NEW on, NEW on2,
         Airs(d, w, s, on), GoesOnAs(w, v), Records(d, e),
         DOMAIN v = DOMAIN w,
         ~Settling(e), ~e.liveSession,
         \A k \in DOMAIN v : ~v[k].fresh /\ v[k].waiter \notin {"connect", "sync"}
  PROVE  Airs(e, v, s, on2)
<1>1. \A k \in DOMAIN v : ~Ours(e, v, k)
  BY DEF Ours
<1>2. \A k \in DOMAIN v : Pending(v[k]) => v[k].attempt = e.inFlight
  BY DEF GoesOnAs, Fainter, Pending, IsStart, Airs, NumbersFit, Records
<1>3. \A k \in DOMAIN e.lifecycle :
       /\ e.lifecycle[k].attempt = e.inFlight /\ e.inFlight # 0 => e.lifecycle[k].pending
       /\ e.lifecycle[k].at = "ending" => ~e.lifecycle[k].pending
  BY DEF Airs, NumbersFit, Records
<1>4. \A l \in e.late : l.attempt < e.lastAttempt
  BY DEF Airs, NumbersFit, Records
<1>5. NumbersFit(e, v)
  BY <1>1, <1>2, <1>3, <1>4 DEF Airs, NumbersFit, Records
<1>6. NoSourceStops => WordsFit(e, v)
  BY DEF Airs, WordsFit, GoesOnAs, Fainter, WillPublish
<1> QED BY <1>1, <1>5, <1>6 DEF Airs, OursFit, AirFits

(* A desk with the same record and wire, wherever its attempt stands.      *)
LEMMA ClaimsStay ==
  ASSUME NEW d, NEW e, NEW w, NEW s, NEW on, Airs(d, w, s, on), Claims(d, w, on),
         SameRecord(d, e), e.config = d.config
  PROVE  Airs(e, w, s, on) /\ Claims(e, w, on)
<1>1. \A k \in DOMAIN w : Ours(e, w, k) => Pending(w[k])
  BY DEF Ours
<1>2. Claims(e, w, on)
  BY DEF Claims, Running
<1>3. NumbersFit(e, w)
  BY <1>1, <1>2 DEF Airs, NumbersFit, Claims, SameRecord
<1>4. NoSourceStops => OursFit(e, w, on)
  BY <1>1, <1>2 DEF OursFit, Claims
<1>5. NoSourceStops => AirFits(e, w, s, on) /\ WordsFit(e, w)
  BY DEF Airs, AirFits, WordsFit, Running, SameRecord
<1> QED BY <1>2, <1>3, <1>4, <1>5 DEF Airs

(* The orchestrator starts its party's session, or waits with others for   *)
(* the start that is pending: it is the only one.                          *)
LEMMA StartSessionAirs ==
  ASSUME NEW d, NEW x, Orderly(d, d.wire, x), Running(d), NEW waiter \in {"nobody", "sync"},
         NEW s, NEW on, Airs(d, d.wire, s, on), Claims(d, d.wire, on),
         NoSourceStops => on /\ ~d.liveSession
  PROVE  LET e == StartSession(d, d.config.party, waiter) IN Airs(e, e.wire, s, on)
<1> DEFINE w == d.wire
           p == d.config.party
           e == StartSession(d, p, waiter)
<1>1. d \in Desk /\ w \in Wire /\ p \in Party /\ d.lastAttempt \in Nat /\ d.inFlight \in Nat
  BY DEF Orderly, Desk, Running, Config
<1>2. \A k \in DOMAIN w : w[k] \in Invocations /\ k \in Nat
  BY <1>1 DEF Wire
<1>3. CASE StartPending(d, p)
  <2> DEFINE v == [k \in DOMAIN w |->
                     IF w[k].op = "Start" /\ w[k].attempt = d.inFlight /\ waiter = "sync"
                     THEN [w[k] EXCEPT !.waiter = waiter] ELSE w[k]]
  <2>1. e = [d EXCEPT !.wire = v]
    BY <1>3 DEF StartSession
  <2>2. /\ DOMAIN v = DOMAIN w
        /\ \A k \in DOMAIN w :
             /\ v[k].op = w[k].op /\ v[k].party = w[k].party /\ v[k].attempt = w[k].attempt
             /\ v[k].timedOut = w[k].timedOut /\ v[k].fresh = w[k].fresh /\ v[k].live = w[k].live
             /\ v[k].waiter = w[k].waiter \/ v[k].waiter = "sync"
    BY <1>2 DEF Invocations
  <2> HIDE DEF v, e
  <2>3. e.wire = v /\ SameRecord(d, e) /\ e.config = d.config
    BY <1>1, <2>1 DEF Desk, SameRecord
  <2>4. Claims(d, v, on)
    <3>1. \A k \in DOMAIN w : /\ Pending(v[k]) <=> Pending(w[k])
                              /\ StaysLive(v[k], d.config) <=> StaysLive(w[k], d.config)
      BY <2>2 DEF Pending, IsStart, StaysLive, Ends
    <3> QED BY <2>2, <3>1 DEF Claims
  <2>5. Airs(d, v, s, on)
    <3>1. \A k \in DOMAIN w : /\ Pending(v[k]) <=> Pending(w[k])
                              /\ StaysLive(v[k], d.config) <=> StaysLive(w[k], d.config)
                              /\ IsStart(v[k]) <=> IsStart(w[k])
                              /\ WillPublish(v[k], v[k].party) => WillPublish(w[k], w[k].party)
      BY <2>2 DEF Pending, IsStart, StaysLive, Ends, WillPublish
    <3>2. \A k \in DOMAIN v : Ours(d, v, k) => Pending(v[k])
      BY DEF Ours
    <3>3. NumbersFit(d, v)
      BY <2>2, <2>4, <3>1, <3>2 DEF Airs, NumbersFit, Claims
    <3>4. NoSourceStops => OursFit(d, v, on)
      BY <2>4, <3>2 DEF OursFit, Claims
    <3>5. NoSourceStops => AirFits(d, v, s, on)
      BY DEF Airs, AirFits
    <3>6. NoSourceStops => WordsFit(d, v)
      BY <2>2, <3>1 DEF Airs, WordsFit
    <3> QED BY <3>3, <3>4, <3>5, <3>6 DEF Airs
  <2> QED BY <2>3, <2>4, <2>5, ClaimsStay DEF e
<1>4. CASE ~StartPending(d, p)
  <2> DEFINE a == d.lastAttempt + 1
             c == [d EXCEPT !.lastAttempt = a, !.inFlight = a]
             i == [Invocation("Start", p, waiter) EXCEPT !.attempt = a]
             v == Append(w, i)
  <2>1. e = Invoke(c, i)
    BY <1>4 DEF StartSession
  <2>2. a \in Nat /\ a > d.lastAttempt /\ a > 0
    BY <1>1
  <2> HIDE DEF a, p, e
  <2>3. /\ i \in Invocations /\ i.op = "Start" /\ i.attempt = a /\ i.party = p
        /\ i.waiter = waiter /\ ~i.timedOut
    BY <1>1, <2>2 DEF Invocation, Invocations
  <2>4. /\ c \in Desk /\ c.wire = w /\ c.lastAttempt = a /\ c.inFlight = a
        /\ c.config = d.config /\ c.active = d.active /\ c.handled = d.handled
        /\ c.late = d.late /\ c.lifecycle = d.lifecycle /\ c.liveSession = d.liveSession
    BY <1>1, <2>2 DEF Desk
  <2>5. /\ DOMAIN v = DOMAIN w \cup {Len(w) + 1} /\ v[Len(w) + 1] = i
        /\ \A k \in DOMAIN w : v[k] = w[k] /\ k < Len(w) + 1
    BY <1>1, <2>3, AppendIs
  <2> HIDE DEF i, c
  <2>6. e.wire = Append(c.wire, i) /\ Akin(c, e) /\ e.liveSession = c.liveSession
    BY <2>1, <2>3, <2>4, InvokeIs
  <2>7. /\ e.wire = v /\ e.config = d.config /\ e.lastAttempt = a /\ e.inFlight = a
        /\ e.handled = d.handled /\ e.late = d.late /\ e.lifecycle = d.lifecycle
        /\ e.liveSession = d.liveSession
    BY <2>4, <2>6 DEF Akin
  <2> HIDE DEF v
  <2>8. \A k \in DOMAIN w : ~Pending(w[k])
    <3> SUFFICES ASSUME NEW k \in DOMAIN w, Pending(w[k]) PROVE FALSE
      OBVIOUS
    <3>1. w[k].party = p /\ w[k].attempt = d.inFlight
      BY DEF Claims, Airs, NumbersFit, p
    <3> QED BY <1>4, <3>1 DEF StartPending, Pending, IsStart
  <2>9. \A k \in DOMAIN v : Pending(v[k]) => k = Len(w) + 1
    BY <2>5, <2>8
  <2>10. \A k \in DOMAIN v : Ours(e, v, k) => k = Len(w) + 1
    BY <2>9 DEF Ours
  <2>11. NumbersFit(e, v)
    <3>1. \A k \in DOMAIN v : Pending(v[k]) => v[k].attempt = e.inFlight
      BY <2>3, <2>5, <2>7, <2>9
    <3>2. \A k \in DOMAIN v : Ours(e, v, k) => Running(e) /\ v[k].party = e.config.party
      BY <2>3, <2>5, <2>7, <2>10 DEF Running, p
    <3>3. \A l \in e.late : l.attempt < e.lastAttempt
      <4>1. \A l \in d.late : l.attempt \in Nat /\ l.attempt < d.lastAttempt
        BY <1>1 DEF Desk, Late, Airs, NumbersFit
      <4> QED BY <1>1, <2>2, <2>7, <4>1
    <3>4. \A k \in DOMAIN e.lifecycle : e.lifecycle[k].attempt # e.inFlight
      <4>1. \A k \in DOMAIN d.lifecycle :
              d.lifecycle[k].attempt \in Nat /\ d.lifecycle[k].attempt <= d.lastAttempt
        <5>1. d.lifecycle \in Seq(Teardowns)
          BY <1>1 DEF Desk
        <5>2. \A k \in DOMAIN d.lifecycle : d.lifecycle[k] \in Teardowns
          BY <5>1
        <5> QED BY <5>2 DEF Teardowns, Orderly, AttemptsFit
      <4> QED BY <1>1, <2>2, <2>7, <4>1
    <3>5. e.inFlight \notin e.handled
      <4>1. \A n \in d.handled : n \in Nat /\ n <= d.lastAttempt
        BY <1>1 DEF Desk, Orderly, AttemptsFit
      <4> QED BY <1>1, <2>2, <2>7, <4>1
    <3>6. \A k \in DOMAIN e.lifecycle :
            e.lifecycle[k].at = "ending" => ~e.lifecycle[k].pending
      BY <2>7 DEF Airs, NumbersFit
    <3> QED BY <2>7, <3>1, <3>2, <3>3, <3>4, <3>5, <3>6 DEF NumbersFit
  <2>12. NoSourceStops => OursFit(e, v, on)
    <3>1. \A j \in DOMAIN v : ~(j > Len(w) + 1)
      BY <1>1, <2>5 DEF Wire
    <3> QED BY <2>10, <3>1 DEF OursFit
  <2>13. NoSourceStops => AirFits(e, v, s, on)
    BY <2>7 DEF AirFits
  <2>14. NoSourceStops => WordsFit(e, v)
    BY <2>3, <2>5, <2>7 DEF Airs, WordsFit, Running, WillPublish
  <2>15. Airs(e, e.wire, s, on)
    BY <2>7, <2>11, <2>12, <2>13, <2>14 DEF Airs
  <2> QED BY <2>15 DEF e, p
<1> QED BY <1>3, <1>4

(* A desk that invokes what is mild.                                       *)
LEMMA InvokeAirs ==
  ASSUME NEW d \in Desk, NEW i \in Invocations, ~IsStart(i), NEW s, NEW on,
         Airs(d, d.wire, s, on),
         NoSourceStops =>
           /\ Running(d) => Harmless(i, d.config)
           /\ i.waiter \notin {"newProject", "stop"}
  PROVE  LET e == Invoke(d, i) IN Airs(e, e.wire, s, on)
<1> DEFINE e == Invoke(d, i)
           w == d.wire
           v == Append(w, i)
<1>1. w \in Wire
  BY DEF Desk, Wire
<1>2. /\ v \in Wire /\ v[Len(w) + 1] = i
      /\ \A k \in DOMAIN w : v[k] = w[k]
      /\ \A k \in DOMAIN v : k \in DOMAIN w \/ k = Len(w) + 1
  BY <1>1, AppendIs
<1>3. e.wire = v /\ Akin(d, e) /\ Keeps(d, e) /\ e.liveSession = d.liveSession
  BY InvokeIs
<1> HIDE DEF e, v
<1>4. GoesOnAs(w, v)
  BY <1>2 DEF GoesOnAs, Fainter
<1>5. Records(d, e) /\ e.config = d.config /\ (Settling(e) => Settling(d))
  BY <1>3 DEF Records, Akin, Keeps, Settling, Running
<1>6. NoSourceStops =>
        /\ Running(d) => \A k \in DOMAIN v : k \notin DOMAIN w => Harmless(v[k], d.config)
        /\ \A k \in DOMAIN v : k \notin DOMAIN w => v[k].waiter \notin {"newProject", "stop"}
  BY <1>2
<1>7. e.active = d.active
  BY <1>3 DEF Akin
<1>8. Airs(e, v, s, on)
  BY <1>1, <1>2, <1>3, <1>4, <1>5, <1>6, <1>7, AirsStay
<1> QED BY <1>3, <1>8 DEF e

(* Publishing the full state.                                              *)
LEMMA PublishAirs ==
  ASSUME NEW d \in Desk, Running(d), ~NothingToPublish(d), NEW s, NEW on,
         sourceLive \in [Source -> BOOLEAN],
         NEW waiter \in {"connect", "publish", "stop"}, NoSourceStops => waiter # "stop",
         Airs(d, d.wire, s, on)
  PROVE  LET e == Publish(d, waiter) IN Airs(e, e.wire, s, on)
<1> DEFINE i == [Invocation("Notify", d.config.party, waiter) EXCEPT !.live = Live(d)]
<1>1. Live(d) \in BOOLEAN /\ d.config.party \in Party
  BY DEF Live, Running, Desk, Config
<1>2. i \in Invocations /\ i.op = "Notify" /\ i.waiter = waiter /\ i.live = Live(d)
  BY <1>1 DEF Invocation, Invocations
<1>3. Publish(d, waiter) = Invoke(d, i)
  BY DEF Publish
<1> HIDE DEF i
<1>4. NoSourceStops => Harmless(i, d.config) /\ i.waiter \notin {"newProject", "stop"}
  BY <1>2 DEF Harmless, NothingToPublish
<1>5. LET e == Invoke(d, i) IN Airs(e, e.wire, s, on)
  BY <1>2, <1>4, InvokeAirs DEF IsStart
<1> QED BY <1>3, <1>5

(* An attempt that has joined publishes, or AIMP has nothing to publish.   *)
LEMMA SynchronizeAirs ==
  ASSUME NEW d \in Desk, Running(d), NEW s, NEW on, sourceLive \in [Source -> BOOLEAN],
         Airs(d, d.wire, s, on), Claims(d, d.wire, on)
  PROVE  LET e == Synchronize(d) IN Airs(e, e.wire, s, on)
<1> DEFINE c == [d EXCEPT !.step = "syncing", !.behind = FALSE]
<1>1. c \in Desk /\ c.wire = d.wire /\ SameRecord(d, c) /\ c.config = d.config
  BY DEF Desk, Steps, SameRecord
<1>2. Synchronize(d) = IF NothingToPublish(d) THEN BecomeReady(c) ELSE Publish(c, "connect")
  BY DEF Synchronize
<1> HIDE DEF c
<1>3. Airs(c, c.wire, s, on) /\ Claims(c, c.wire, on)
  BY <1>1, ClaimsStay
<1>4. CASE NothingToPublish(d)
  <2>1. /\ BecomeReady(c).wire = c.wire /\ SameRecord(c, BecomeReady(c))
        /\ BecomeReady(c).config = c.config
    BY <1>1 DEF BecomeReady, Desk, SameRecord
  <2> QED BY <1>2, <1>3, <1>4, <2>1, ClaimsStay
<1>5. CASE ~NothingToPublish(d)
  <2>1. ~NothingToPublish(c) /\ Running(c)
    BY <1>1, <1>5 DEF NothingToPublish, Live, Running
  <2>2. LET e == Publish(c, "connect") IN Airs(e, e.wire, s, on)
    BY <1>1, <1>3, <2>1, PublishAirs
  <2> QED BY <1>2, <1>5, <2>2
<1> QED BY <1>4, <1>5

(* Nothing on record has changed.                                          *)
LEMMA AirsSame ==
  ASSUME NEW d, NEW e, NEW w \in Wire, NEW s, NEW on, Airs(d, w, s, on),
         SameRecord(d, e), e.config = d.config, Settling(e) => Settling(d)
  PROVE  Airs(e, w, s, on)
<1>1. GoesOnAs(w, w)
  BY DEF GoesOnAs, Fainter
<1>2. Records(d, e)
  BY DEF SameRecord, Records
<1> QED BY <1>1, <1>2, AirsStay DEF SameRecord

(* What an attempt or a publication that fails leaves as it was.           *)
LEMMA FailuresAir ==
  ASSUME NEW d \in Desk, NEW w \in Wire, NEW s, NEW on, Airs(d, w, s, on)
  PROVE  /\ Airs(ConnectFails(d), w, s, on)
         /\ Airs(PublishFails(d), w, s, on)
         /\ Airs(ScheduleReconnect(d), w, s, on)
<1>1. \A c \in Desk : Airs(c, w, s, on) => Airs(ScheduleReconnect(c), w, s, on)
  <2> SUFFICES ASSUME NEW c \in Desk, Airs(c, w, s, on)
               PROVE  Airs(ScheduleReconnect(c), w, s, on)
    OBVIOUS
  <2> DEFINE e == ScheduleReconnect(c)
  <2>1. SameRecord(c, e)
    BY ScheduleReconnectRecords
  <2>2. e.config = c.config /\ e.step = c.step /\ e.ready = c.ready
    BY ScheduleReconnectIs
  <2> HIDE DEF e
  <2>3. Airs(e, w, s, on)
    BY <2>1, <2>2, AirsSame DEF Settling, Running
  <2> QED BY <2>3 DEF e
<1>2. Airs(ConnectFails(d), w, s, on)
  <2> DEFINE c == [d EXCEPT !.step = "idle", !.dials = FALSE, !.ready = FALSE]
  <2>1. c \in Desk /\ SameRecord(d, c) /\ c.config = d.config /\ ~Settling(c)
    BY DEF Desk, Steps, SameRecord, Settling
  <2>2. ConnectFails(d) = ScheduleReconnect(c)
    BY DEF ConnectFails
  <2> HIDE DEF c
  <2>3. Airs(c, w, s, on)
    BY <2>1, AirsSame
  <2> QED BY <1>1, <2>1, <2>2, <2>3
<1>3. Airs(PublishFails(d), w, s, on)
  <2> DEFINE c == [d EXCEPT !.ready = FALSE]
  <2>1. c \in Desk /\ SameRecord(d, c) /\ c.config = d.config /\ (Settling(c) => Settling(d))
    BY DEF Desk, SameRecord, Settling, Running
  <2>2. PublishFails(d) = ScheduleReconnect(c)
    BY DEF PublishFails
  <2> HIDE DEF c
  <2>3. Airs(c, w, s, on)
    BY <2>1, AirsSame
  <2> QED BY <1>1, <2>1, <2>2, <2>3
<1> QED BY <1>1, <1>2, <1>3

(* A start's promise is settled: it was the pending one, if any was.       *)
LEMMA SettledAirs ==
  ASSUME NEW d, NEW w, NEW e, NEW s, NEW on, NEW v \in Wire, NEW x,
         Airs(d, w, s, on), d \in Desk, AttemptsFit(d, w),
         NEW a \in Nat, a = d.inFlight, a # 0, Settles(d, e, a), e.config = d.config,
         \A k \in DOMAIN v : ~Pending(v[k]),
         NoSourceStops => WordsFit(d, v)
  PROVE  Airs(e, v, s, on)
<1>1. \A k \in DOMAIN v : ~Ours(e, v, k)
  BY DEF Ours
<1>2. e.inFlight = 0 /\ e.lastAttempt = d.lastAttempt /\ e.handled = d.handled
      /\ e.late \subseteq d.late /\ e.liveSession = d.liveSession
      /\ DOMAIN e.lifecycle = DOMAIN d.lifecycle
  BY DEF Settles
<1>3. 0 \notin d.handled
  BY DEF AttemptsFit
<1>4. \A k \in DOMAIN e.lifecycle : e.lifecycle[k].at = "ending" => ~e.lifecycle[k].pending
  BY <1>2 DEF Settles, Airs, NumbersFit
<1>5. \A l \in e.late : l.attempt < e.lastAttempt
  BY <1>2 DEF Airs, NumbersFit
<1>6. NumbersFit(e, v)
  BY <1>1, <1>2, <1>3, <1>4, <1>5 DEF NumbersFit
<1>7. NoSourceStops => ~e.liveSession
  BY <1>2 DEF Airs, AirFits
<1>8. NoSourceStops => WordsFit(e, v)
  BY DEF WordsFit, Running
<1> QED BY <1>1, <1>6, <1>7, <1>8 DEF Airs, OursFit, AirFits

(* An EndSession has returned, of another party if this one's session is   *)
(* on the air.                                                             *)
LEMMA EndReturnedAirs ==
  ASSUME NEW d, NEW w, NEW x, Orderly(d, w, x), NEW i \in Invocations,
         i.waiter = "teardown" => d.lifecycle # <<>> /\ d.lifecycle[1].at = "ending",
         NEW s, NEW on, Airs(d, w, s, on),
         NoSourceStops /\ d.liveSession => i.party # d.config.party
  PROVE  LET e == EndReturned(d, i) IN
         /\ Airs(e, w, s, on) /\ e.liveSession = d.liveSession
         /\ e.config = d.config /\ e.step = d.step /\ e.ready = d.ready
<1> DEFINE c == [d EXCEPT !.active[i.party] = IF i.attempt # 0 /\ @ = i.attempt THEN 0 ELSE @]
           e == EndReturned(d, i)
<1>1. d \in Desk /\ w \in Wire /\ i.party \in Party
  BY DEF Orderly, Invocations
<1>2. /\ c \in Desk
      /\ c.config = d.config /\ c.step = d.step /\ c.ready = d.ready
      /\ c.lastAttempt = d.lastAttempt /\ c.inFlight = d.inFlight
      /\ \A p \in Party : p # i.party => c.active[p] = d.active[p]
      /\ c.handled = d.handled /\ c.late = d.late /\ c.lifecycle = d.lifecycle
      /\ c.liveSession = d.liveSession
  BY <1>1 DEF Desk
<1>3. EndReturned(d, i) =
        CASE i.waiter = "late" /\ i.fresh -> ScheduleReconnect(c)
          [] i.waiter = "teardown" ->
               [c EXCEPT !.lifecycle[1].at = "ended",
                         !.handled = @ \cup ({d.lifecycle[1].attempt} \ {0})]
          [] OTHER -> c
  BY DEF EndReturned
<1> HIDE DEF c
<1>4. Settling(c) <=> Settling(d)
  BY <1>2 DEF Settling, Running
<1>5. Airs(c, w, s, on)
  <2>1. NumbersFit(c, w)
    BY <1>2, <1>4 DEF Airs, NumbersFit, Ours, Running
  <2>2. ASSUME NoSourceStops
        PROVE  OursFit(c, w, on) /\ AirFits(c, w, s, on) /\ WordsFit(c, w)
    <3>1. OursFit(d, w, on) /\ AirFits(d, w, s, on) /\ WordsFit(d, w)
      BY <2>2 DEF Airs
    <3>2. d.liveSession => d.config.party \in Party /\ c.active[d.config.party] = d.active[d.config.party]
      BY <1>1, <1>2, <2>2, <3>1 DEF AirFits, Running, Desk, Config
    <3>3. AirFits(c, w, s, on)
      BY <1>2, <3>1, <3>2 DEF AirFits, Running
    <3> QED BY <1>2, <1>4, <3>1, <3>3 DEF OursFit, Ours, WordsFit, Running
  <2> QED BY <2>1, <2>2 DEF Airs
<1>6. CASE i.waiter = "late" /\ i.fresh
  <2>1. e = ScheduleReconnect(c)
    BY <1>3, <1>6
  <2>2. e.liveSession = c.liveSession /\ e.config = c.config /\ e.step = c.step /\ e.ready = c.ready
    BY <1>2, <2>1, ScheduleReconnectIs
  <2> QED BY <1>1, <1>2, <1>5, <2>1, <2>2, FailuresAir
<1>7. CASE i.waiter = "teardown"
  <2> DEFINE t == c.lifecycle[1]
             l == [c.lifecycle EXCEPT ![1].at = "ended"]
             h == c.handled \cup ({t.attempt} \ {0})
  <2>1. e = [c EXCEPT !.lifecycle = l, !.handled = h]
    BY <1>2, <1>3, <1>7 DEF Desk
  <2>2. c.lifecycle \in Seq(Teardowns) /\ 1 \in DOMAIN c.lifecycle
    BY <1>2, <1>7 DEF Desk
  <2>3. t \in Teardowns /\ t.at = "ending"
    BY <1>2, <1>7, <2>2
  <2>4. ~t.pending
    BY <1>5, <2>2, <2>3 DEF Airs, NumbersFit
  <2>5. c.inFlight \notin h
    BY <1>5, <2>2, <2>4 DEF Airs, NumbersFit
  <2>6. /\ DOMAIN l = DOMAIN c.lifecycle
        /\ \A k \in DOMAIN l : /\ l[k].attempt = c.lifecycle[k].attempt
                               /\ l[k].pending = c.lifecycle[k].pending
                               /\ l[k].at = "ending" => c.lifecycle[k].at = "ending"
    BY <2>2, <2>3 DEF Teardowns
  <2> HIDE DEF l, h, t
  <2>7. /\ e.lifecycle = l /\ e.handled = h
        /\ e.config = c.config /\ e.step = c.step /\ e.ready = c.ready
        /\ e.lastAttempt = c.lastAttempt /\ e.inFlight = c.inFlight /\ e.active = c.active
        /\ e.late = c.late /\ e.liveSession = c.liveSession
    BY <1>2, <2>1 DEF Desk
  <2> HIDE DEF e
  <2>8. Settling(e) <=> Settling(c)
    BY <2>7 DEF Settling, Running
  <2>9. NumbersFit(e, w)
    BY <1>5, <2>5, <2>6, <2>7, <2>8 DEF Airs, NumbersFit, Ours, Running
  <2>10. NoSourceStops => OursFit(e, w, on) /\ AirFits(e, w, s, on) /\ WordsFit(e, w)
    BY <1>5, <2>7, <2>8 DEF Airs, OursFit, Ours, AirFits, WordsFit, Running
  <2>11. Airs(e, w, s, on)
    BY <2>9, <2>10 DEF Airs
  <2> QED BY <1>2, <2>7, <2>11 DEF e
<1>8. CASE ~(i.waiter = "late" /\ i.fresh) /\ i.waiter # "teardown"
  <2>1. e = c
    BY <1>3, <1>8
  <2> QED BY <1>2, <1>5, <2>1
<1> QED BY <1>6, <1>7, <1>8

(* The next teardown takes its turn.                                       *)
LEMMA PopAirs ==
  ASSUME NEW d \in Desk, NEW w \in Wire, d.lifecycle # <<>>, NEW s, NEW on, Airs(d, w, s, on)
  PROVE  Airs([d EXCEPT !.lifecycle = Tail(@)], w, s, on)
<1> DEFINE e == [d EXCEPT !.lifecycle = Tail(@)]
<1>1. d.lifecycle \in Seq(Teardowns)
  BY DEF Desk
<1>2. \A k \in DOMAIN Tail(d.lifecycle) :
        k + 1 \in DOMAIN d.lifecycle /\ Tail(d.lifecycle)[k] = d.lifecycle[k + 1]
  BY <1>1
<1>3. /\ e.lifecycle = Tail(d.lifecycle) /\ e.config = d.config /\ e.step = d.step
      /\ e.ready = d.ready /\ e.inFlight = d.inFlight /\ e.lastAttempt = d.lastAttempt
      /\ e.handled = d.handled /\ e.late = d.late /\ e.liveSession = d.liveSession
      /\ e.active = d.active
  BY DEF Desk
<1> HIDE DEF e
<1>4. Records(d, e)
  BY <1>2, <1>3 DEF Records
<1>5. GoesOnAs(w, w)
  BY DEF GoesOnAs, Fainter
<1>6. Airs(e, w, s, on)
  BY <1>3, <1>4, <1>5, AirsStay DEF Settling, Running
<1> QED BY <1>6 DEF e

(* A rejected invocation.                                                  *)
LEMMA RejectAirs ==
  ASSUME NEW d, NEW w, NEW x, Orderly(d, w, x), w # <<>>, NEW s, NEW on, Airs(d, w, s, on)
  PROVE  Airs(Reject(d, Head(w)), Tail(w), s, on)
<1> DEFINE i == Head(w)
           v == Tail(w)
           e == Reject(d, i)
<1>1. d \in Desk /\ w \in Wire /\ v \in Wire /\ i \in Invocations /\ i = w[1] /\ 1 \in DOMAIN w
  BY TailIs DEF Orderly
<1>2. Airs(d, v, s, on) /\ Orderly(d, v, x)
  BY <1>1, TailAirs, HeadLeaves
<1>3. IsStart(i) => \A k \in DOMAIN v : IsStart(v[k]) => v[k].attempt # i.attempt
  BY <1>1, HeadIsAlone
<1> HIDE DEF i, v
<1>4. i.op \in {"Join", "Start", "End", "Reset", "Notify", "Publish"}
  BY <1>1 DEF Invocations
<1>5. CASE i.op = "Start" /\ ~i.timedOut
  <2>1. i.attempt = d.inFlight /\ i.attempt \in Nat /\ i.attempt # 0
    BY <1>1, <1>5 DEF Airs, NumbersFit, Pending, IsStart, Orderly, StartsFit, Invocations
  <2>2. \A k \in DOMAIN v : ~Pending(v[k])
    BY <1>2, <1>3, <1>5, <2>1 DEF Airs, NumbersFit, Pending, IsStart
  <2>3. e = StartFails(d, i)
    BY <1>5 DEF Reject
  <2>4. e.config = d.config /\ Settles(d, e, i.attempt)
    <3>1. IsFiniteSet(d.late)
      BY DEF Orderly, AttemptsFit
    <3> QED BY <1>1, <2>3, <3>1, StartFailsIs
  <2> HIDE DEF e
  <2>5. AttemptsFit(d, v) /\ (NoSourceStops => WordsFit(d, v))
    BY <1>2 DEF Airs, Orderly
  <2>6. Airs(e, v, s, on)
    BY <1>1, <1>2, <2>1, <2>2, <2>4, <2>5, SettledAirs
  <2> QED BY <2>6 DEF i, v, e
<1>6. CASE i.op = "End" /\ i.waiter # "newProject"
  <2>1. e = EndReturned(d, i)
    BY <1>6 DEF Reject
  <2>2. i.waiter = "teardown" => d.lifecycle # <<>> /\ d.lifecycle[1].at = "ending"
    BY <1>1, <1>6 DEF Orderly, TeardownsFit
  <2>3. NoSourceStops /\ d.liveSession => i.party # d.config.party
    BY <1>1, <1>6 DEF Airs, AirFits, StaysLive, Ends
  <2> QED BY <1>1, <1>2, <2>1, <2>2, <2>3, EndReturnedAirs DEF i, v
<1>7. CASE i.op = "Reset" /\ i.waiter = "teardown"
  <2>1. e = [d EXCEPT !.lifecycle = Tail(@)]
    BY <1>7 DEF Reject
  <2>2. d.lifecycle # <<>>
    BY <1>1, <1>7 DEF Orderly, TeardownsFit
  <2> QED BY <1>1, <1>2, <2>1, <2>2, PopAirs DEF i, v
<1>8. CASE i.op \in {"Join", "Notify", "Publish"} /\ i.waiter = "connect"
  <2>1. e = ConnectFails(d)
    BY <1>8 DEF Reject
  <2> QED BY <1>1, <1>2, <2>1, FailuresAir DEF i, v
<1>9. CASE i.op \in {"Notify", "Publish"} /\ i.waiter = "publish"
  <2>1. e = PublishFails(d)
    BY <1>9 DEF Reject
  <2> QED BY <1>1, <1>2, <2>1, FailuresAir DEF i, v
<1>10. CASE /\ ~(i.op = "Start" /\ ~i.timedOut)
            /\ ~(i.op = "End" /\ i.waiter # "newProject")
            /\ ~(i.op = "Reset" /\ i.waiter = "teardown")
            /\ ~(i.op \in {"Join", "Notify", "Publish"} /\ i.waiter = "connect")
            /\ ~(i.op \in {"Notify", "Publish"} /\ i.waiter = "publish")
  <2>1. e = d
    BY <1>10 DEF Reject
  <2> QED BY <1>2, <2>1 DEF i, v
<1> QED BY <1>5, <1>6, <1>7, <1>8, <1>9, <1>10

(* All are rejected.                                                       *)
LEMMA CloseAirs ==
  ASSUME NEW d, NEW x, Orderly(d, d.wire, x), Awaits(d, d.wire), NEW link \in Links,
         link # "connected",
         d.step = "dialing" \/ link \in {"preparing", "starting"} => link = d.link,
         NEW s, NEW on, Airs(d, d.wire, s, on)
  PROVE  Airs(CloseConnection(d, link), <<>>, s, on)
<1> DEFINE w == d.wire
           n == Len(w)
           base == [d EXCEPT !.link = link, !.wire = <<>>]
           Left(k, g) == /\ k <= n
                         /\ Orderly(g, SubSeq(w, k + 1, n), x)
                         /\ Awaits(g, SubSeq(w, k + 1, n))
                         /\ Airs(g, SubSeq(w, k + 1, n), s, on)
                         /\ g.wire = <<>> /\ g.link = link
           Good == {g \in Nat \X Desk : Left(g[1], g[2])}
<1>1. d \in Desk /\ w \in Wire /\ n \in Nat
  BY DEF Orderly, Wire
<1>2. /\ base \in Desk /\ base.wire = <<>> /\ base.link = link
      /\ base.config = d.config /\ base.step = d.step /\ base.ready = d.ready
      /\ base.subscribed = d.subscribed /\ base.behind = d.behind /\ base.coalescing = d.coalescing
      /\ base.lastAttempt = d.lastAttempt /\ base.inFlight = d.inFlight /\ base.active = d.active
      /\ base.handled = d.handled /\ base.late = d.late /\ base.lifecycle = d.lifecycle
      /\ base.currentParty = d.currentParty /\ base.timer = d.timer
      /\ base.liveSession = d.liveSession
  <2>1. <<>> \in Seq(Invocations)
    OBVIOUS
  <2> QED BY <1>1, <2>1 DEF Desk
<1> HIDE DEF base
<1>3. Orderly(base, w, x)
  <2>1. AttemptsFit(base, w) /\ StartsFit(base, w)
    BY <1>2 DEF Orderly, AttemptsFit, StartsFit
  <2>2. WaitersFit(base, w, x)
    BY <1>2 DEF Orderly, WaitersFit, Running
  <2>3. TeardownsFit(base, w)
    BY <1>2 DEF Orderly, TeardownsFit, Running
  <2>4. RestFits(base) /\ LinkFits(base) /\ PartyFits(base)
    BY <1>2 DEF Orderly, RestFits, LinkFits, PartyFits, Running, Connected, Settling
  <2> QED BY <1>1, <1>2, <2>1, <2>2, <2>3, <2>4 DEF Orderly
<1>4. Awaits(base, w) /\ Airs(base, w, s, on)
  <2>1. SameRecord(d, base) /\ (Settling(base) => Settling(d))
    BY <1>2 DEF SameRecord, Settling, Running
  <2>2. Airs(base, w, s, on)
    BY <1>1, <1>2, <2>1, AirsSame
  <2> QED BY <1>2, <2>2 DEF Awaits
<1>5. <<0, base>> \in Good
  <2>1. SubSeq(w, 0 + 1, n) = w
    BY <1>1, RestIs
  <2>2. Left(0, base)
    <3> DEFINE rest == SubSeq(w, 0 + 1, n)
    <3>1. rest = w
      BY <2>1
    <3> HIDE DEF rest
    <3>2. Orderly(base, rest, x) /\ Awaits(base, rest) /\ Airs(base, rest, s, on)
      BY <1>3, <1>4, <3>1
    <3>3. 0 <= n
      BY <1>1
    <3> QED BY <1>2, <3>2, <3>3 DEF rest
  <2> HIDE DEF Left
  <2> QED BY <1>2, <2>2
<1>6. ASSUME NEW k \in Nat, NEW g, k < n, <<k, g>> \in Good
      PROVE  <<k + 1, Reject(g, w[k + 1])>> \in Good
  <2> DEFINE rest == SubSeq(w, k + 1, n)
             e == Reject(g, w[k + 1])
  <2>1. /\ rest # <<>> /\ Head(rest) = w[k + 1]
        /\ Tail(rest) = SubSeq(w, (k + 1) + 1, n)
    BY <1>1, <1>6, RestIs
  <2>0. Left(k, g)
    <3> HIDE DEF Left
    <3> QED BY <1>6
  <2>2. /\ Orderly(g, rest, x) /\ Awaits(g, rest) /\ Airs(g, rest, s, on)
        /\ g.wire = <<>> /\ g.link = link
    BY <2>0
  <2> HIDE DEF rest
  <2>3. /\ Orderly(e, Tail(rest), x) /\ Awaits(e, Tail(rest))
        /\ e.wire = <<>> /\ e.link = g.link
    BY <2>1, <2>2, RejectFits DEF Connected
  <2>4. Airs(e, Tail(rest), s, on)
    BY <2>1, <2>2, RejectAirs
  <2>5. e \in Desk
    BY <2>3 DEF Orderly
  <2> HIDE DEF e
  <2>6. Left(k + 1, e)
    <3> DEFINE left == SubSeq(w, (k + 1) + 1, n)
    <3>1. Tail(rest) = left
      BY <2>1
    <3> HIDE DEF left
    <3>2. Orderly(e, left, x) /\ Awaits(e, left) /\ Airs(e, left, s, on)
      BY <2>3, <2>4, <3>1
    <3>3. k + 1 <= n
      BY <1>1, <1>6
    <3> QED BY <2>2, <2>3, <3>2, <3>3 DEF left
  <2> HIDE DEF Left
  <2> QED BY <2>5, <2>6 DEF e
<1> DEFINE e == CloseConnection(d, link)
<1> HIDE DEF Good, Left
<1>7. \A k \in Nat : \A g : k < n /\ <<k, g>> \in Good => <<k + 1, Reject(g, w[k + 1])>> \in Good
  BY <1>6
<1>8. <<n, e>> \in Good
  BY <1>1, <1>5, <1>7, CloseRejects DEF base
<1> HIDE DEF e
<1>9. SubSeq(w, n + 1, n) = <<>>
  BY <1>1, RestIs
<1>10. Left(n, e)
  BY <1>8 DEF Good
<1> QED BY <1>9, <1>10 DEF Left, e

(* The hub may carry out what it has.                                      *)
LEMMA LossAirs ==
  ASSUME NEW d \in Desk, NEW w \in Wire, NEW s \in Sessions, NEW on, Airs(d, w, s, on),
         NEW t \in CarriedSome(s, w)
  PROVE  Airs(d, w, t, on)
BY CarriedStays DEF Airs

(* disconnect closes the connection and forgets the party.                 *)
LEMMA DisconnectAirs ==
  ASSUME NEW d, NEW x, Orderly(d, d.wire, x), Awaits(d, d.wire),
         ~Running(d) \/ d.step = "joining",
         NEW s, NEW on, Airs(d, d.wire, s, on)
  PROVE  LET e == Disconnect(d) IN Airs(e, e.wire, s, on) /\ e.config = d.config
<1> DEFINE link == IF d.link = "preparing" THEN d.link ELSE "none"
           c == CloseConnection(d, link)
           e == Disconnect(d)
<1>1. d \in Desk /\ link \in Links /\ link # "connected"
  BY DEF Orderly, Desk, Links
<1>2. d.step # "dialing"
  BY DEF Orderly, RestFits
<1>3. Airs(c, <<>>, s, on)
  BY <1>1, <1>2, CloseAirs
<1>4. Orderly(c, <<>>, x) /\ c.wire = <<>> /\ c.config = d.config
  BY <1>1, <1>2, CloseFits
<1>5. e = [c EXCEPT !.currentParty = NoParty]
  BY DEF Disconnect
<1> HIDE DEF c, e
<1>6. c \in Desk
  BY <1>4 DEF Orderly
<1>7. /\ SameRecord(c, e) /\ e.config = c.config /\ e.wire = <<>>
      /\ e.step = c.step /\ e.ready = c.ready
  BY <1>4, <1>5, <1>6 DEF Desk, SameRecord
<1>8. Airs(e, <<>>, s, on)
  <2>1. <<>> \in Wire
    BY DEF Wire
  <2>2. Settling(e) => Settling(c)
    BY <1>7 DEF Settling, Running
  <2> QED BY <1>3, <1>7, <2>1, <2>2, AirsSame
<1> QED BY <1>4, <1>7, <1>8 DEF e

(* The attempt of the old generation ends; all it has on record stays.     *)
LEMMA SupersededGoesOn ==
  ASSUME NEW d, NEW x, Orderly(d, d.wire, x)
  PROVE  LET e == Superseded(d) IN
         /\ e.wire \in Wire /\ DOMAIN e.wire = DOMAIN d.wire
         /\ GoesOnAs(d.wire, e.wire) /\ Records(d, e)
         /\ \A k \in DOMAIN e.wire :
              /\ ~e.wire[k].fresh
              /\ e.wire[k].waiter \notin {"connect", "sync", "publish"}
         /\ e.config = d.config /\ e.active = d.active /\ e.liveSession = d.liveSession
<1> DEFINE w == d.wire
           s == d.lifecycle
           t == {[l EXCEPT !.fresh = FALSE] : l \in d.late}
           l == [k \in DOMAIN s |-> [s[k] EXCEPT !.fresh = FALSE]]
           v == [k \in DOMAIN w |-> Orphaned(w[k])]
           e == [d EXCEPT !.step = "idle", !.dials = FALSE, !.late = t, !.lifecycle = l,
                          !.wire = v]
<1>1. d \in Desk /\ w \in Wire /\ s \in Seq(Teardowns) /\ d.late \subseteq Late
  BY DEF Orderly, Desk
<1>2. Superseded(d) = e
  BY <1>1 DEF Superseded, Desk
<1>3. \A y \in t : \E m \in d.late : y.attempt = m.attempt /\ y.party = m.party
  BY <1>1 DEF Late
<1>4. /\ DOMAIN l = DOMAIN s
      /\ \A k \in DOMAIN l : l[k].at = s[k].at /\ l[k].attempt = s[k].attempt
                             /\ l[k].pending = s[k].pending
  <2>1. \A k \in DOMAIN s : s[k] \in Teardowns
    BY <1>1
  <2> QED BY <2>1 DEF Teardowns
<1>5. /\ DOMAIN v = DOMAIN w
      /\ \A k \in DOMAIN v :
           /\ Fainter(w[k], v[k]) /\ ~v[k].fresh
           /\ v[k].waiter \notin {"connect", "sync", "publish"}
  <2>1. \A k \in DOMAIN w : w[k] \in Invocations
    BY <1>1 DEF Wire
  <2>2. \A i \in Invocations : /\ Fainter(i, Orphaned(i)) /\ ~Orphaned(i).fresh
                               /\ Orphaned(i).waiter \notin {"connect", "sync", "publish"}
    BY DEF Invocations, Orphaned, Fainter
  <2>3. DOMAIN v = DOMAIN w /\ \A k \in DOMAIN w : v[k] = Orphaned(w[k])
    OBVIOUS
  <2> HIDE DEF v
  <2> QED BY <2>1, <2>2, <2>3
<1> HIDE DEF t, l, v
<1>6. /\ e.config = d.config /\ e.active = d.active /\ e.liveSession = d.liveSession
      /\ e.inFlight = d.inFlight /\ e.lastAttempt = d.lastAttempt /\ e.handled = d.handled
      /\ e.late = t /\ e.lifecycle = l /\ e.wire = v
  BY <1>1 DEF Desk
<1>7. e.wire \in Wire
  BY <1>2, SupersededIs DEF Desk, Wire
<1> HIDE DEF e
<1>8. Records(d, e)
  BY <1>3, <1>4, <1>6 DEF Records
<1>9. GoesOnAs(w, v)
  BY <1>5 DEF GoesOnAs
<1> QED BY <1>2, <1>5, <1>6, <1>7, <1>8, <1>9

(* The parts of the invariant.                                             *)
LEMMA LiveIs ==
  ASSUME LiveInv
  PROVE  /\ desk \in Desk /\ desk.wire \in Wire /\ session \in Sessions
         /\ sourceLive \in [Source -> BOOLEAN]
         /\ Orderly(desk, desk.wire, PlayerOn) /\ Awaits(desk, desk.wire)
         /\ Airs(desk, desk.wire, session, Live(desk))
BY DEF LiveInv, StreamingInv, Fit, Orderly, Sessions

(* A step that leaves sessions and sources alone.                          *)
LEMMA StillAirs ==
  ASSUME session' = session, sourceLive' = sourceLive, desk'.config = desk.config,
         Airs(desk', desk'.wire, session, Live(desk))
  PROVE  Airs(desk', desk'.wire, session', Live(desk)')
<1>1. Live(desk)' = Live(desk)
  BY DEF Live, Running
<1> QED BY <1>1

(* And what is on record.                                                  *)
LEMMA QuietAirs ==
  ASSUME LiveInv, session' = session, sourceLive' = sourceLive,
         SameRecord(desk, desk'), desk'.config = desk.config, desk'.wire = desk.wire,
         Settling(desk') => Settling(desk)
  PROVE  Airs(desk', desk'.wire, session', Live(desk)')
<1>1. Airs(desk', desk.wire, session, Live(desk))
  BY LiveIs, AirsSame
<1> QED BY <1>1, StillAirs

(* Attempts to connect, and what they invoke.                              *)
LEMMA PartyIsMissingAirs ==
  ASSUME LiveInv, PartyIsMissing
  PROVE  Airs(desk', desk'.wire, session', Live(desk)')
<1>1. desk' = [desk EXCEPT !.step = "idle", !.blocked = TRUE]
      /\ session' = session /\ sourceLive' = sourceLive
  BY DEF PartyIsMissing
<1>2. /\ SameRecord(desk, desk') /\ desk'.config = desk.config /\ desk'.wire = desk.wire
      /\ Settling(desk') => Settling(desk)
  BY <1>1, LiveIs DEF Desk, SameRecord, Settling, Running
<1> QED BY <1>1, <1>2, QuietAirs

(* The check, or the dial, fails.                                          *)
LEMMA CheckFailsAirs ==
  ASSUME LiveInv, CheckFails
  PROVE  Airs(desk', desk'.wire, session', Live(desk)')
<1> DEFINE c == [desk EXCEPT !.step = "idle"]
<1>1. desk' = ScheduleReconnect(c) /\ session' = session /\ sourceLive' = sourceLive
  BY DEF CheckFails
<1>2. /\ c \in Desk /\ SameRecord(desk, c) /\ c.config = desk.config /\ c.wire = desk.wire
      /\ c.step = "idle" /\ c.ready = desk.ready
  BY LiveIs DEF Desk, Steps, SameRecord
<1> HIDE DEF c
<1>3. /\ SameRecord(c, desk') /\ desk'.config = c.config /\ desk'.wire = c.wire
      /\ desk'.step = c.step /\ desk'.ready = c.ready
  BY <1>1, <1>2, ScheduleReconnectIs, ScheduleReconnectRecords
<1>4. /\ SameRecord(desk, desk')
      /\ Settling(desk') => Settling(desk)
  BY <1>2, <1>3 DEF SameRecord, Settling, Running
<1> QED BY <1>1, <1>2, <1>3, <1>4, QuietAirs

(* A failed attempt.                                                       *)
LEMMA ConnectFailsAirs ==
  ASSUME LiveInv, session' = session, sourceLive' = sourceLive,
         NEW c \in Desk, SameRecord(desk, c), c.config = desk.config, c.wire = desk.wire,
         Settling(c) => Settling(desk), desk' = ConnectFails(c)
  PROVE  Airs(desk', desk'.wire, session', Live(desk)')
<1>1. Airs(c, c.wire, session, Live(desk))
  BY LiveIs, AirsSame
<1>2. desk'.config = c.config /\ desk'.wire = c.wire
  BY DEF ConnectFails, ScheduleReconnect, Desk
<1>3. c.wire \in Wire
  BY LiveIs
<1>4. Airs(desk', desk'.wire, session, Live(desk))
  BY <1>1, <1>2, <1>3, FailuresAir
<1> QED BY <1>2, <1>4, StillAirs

(* The dial fails; another attempt may have waited for it.                 *)
LEMMA DialFailsAirs ==
  ASSUME LiveInv, DialFails
  PROVE  Airs(desk', desk'.wire, session', Live(desk)')
<1> DEFINE c == [desk EXCEPT !.link = "none"]
<1>1. /\ session' = session /\ sourceLive' = sourceLive
      /\ \/ desk' = c
         \/ desk' = ConnectFails(c)
         \/ desk.step = "dialing" /\ desk' = Dial(c)
  BY DEF DialFails
<1>2. /\ c \in Desk /\ SameRecord(desk, c) /\ c.config = desk.config /\ c.wire = desk.wire
      /\ c.step = desk.step /\ c.ready = desk.ready
  BY LiveIs DEF Desk, Links, SameRecord
<1> HIDE DEF c
<1>3. Settling(c) => Settling(desk)
  BY <1>2 DEF Settling, Running
<1>4. CASE desk' = c
  BY <1>1, <1>2, <1>3, <1>4, QuietAirs
<1>5. CASE desk' = ConnectFails(c)
  BY <1>1, <1>2, <1>3, <1>5, ConnectFailsAirs
<1>6. CASE desk' = Dial(c)
  <2>1. /\ SameRecord(c, desk') /\ desk'.config = c.config /\ desk'.wire = c.wire
        /\ desk'.step = "dialing" /\ desk'.ready = c.ready
    BY <1>2, <1>6 DEF Dial, Desk, SameRecord
  <2>2. SameRecord(desk, desk') /\ (Settling(desk') => Settling(desk))
    BY <1>2, <2>1 DEF SameRecord, Settling, Running
  <2> QED BY <1>1, <1>2, <2>1, <2>2, QuietAirs
<1> QED BY <1>1, <1>4, <1>5, <1>6

(* The dial takes too long.                                                *)
LEMMA DialTimesOutAirs ==
  ASSUME LiveInv, DialTimesOut
  PROVE  Airs(desk', desk'.wire, session', Live(desk)')
<1>1. desk' = ConnectFails(desk) /\ session' = session /\ sourceLive' = sourceLive
  BY DEF DialTimesOut
<1> QED BY <1>1, LiveIs, ConnectFailsAirs DEF SameRecord

(* A desk that joins.                                                      *)
LEMMA JoinPartyAirs ==
  ASSUME LiveInv, session' = session, sourceLive' = sourceLive, Running(desk),
         NEW c \in Desk, SameRecord(desk, c), c.config = desk.config, c.wire = desk.wire,
         c.ready = desk.ready, desk' = JoinParty(c)
  PROVE  Airs(desk', desk'.wire, session', Live(desk)')
<1> DEFINE b == [c EXCEPT !.step = "joining", !.dials = FALSE]
           i == Invocation("Join", c.config.party, "connect")
<1>1. /\ b \in Desk /\ SameRecord(c, b) /\ b.config = c.config /\ b.wire = c.wire
      /\ Settling(b) => Settling(desk)
  BY DEF Desk, Steps, SameRecord, Settling, Running
<1>2. desk' = Invoke(b, i)
  BY DEF JoinParty
<1>3. i \in Invocations /\ i.op = "Join" /\ i.waiter = "connect"
  BY LiveIs DEF Invocation, Invocations, Desk, Running, Config
<1> HIDE DEF b, i
<1>4. SameRecord(desk, b)
  BY <1>1 DEF SameRecord
<1>5. Airs(b, b.wire, session, Live(desk))
  BY <1>1, <1>4, LiveIs, AirsSame
<1>6. LET e == Invoke(b, i) IN Airs(e, e.wire, session, Live(desk))
  BY <1>1, <1>3, <1>5, InvokeAirs DEF IsStart, Harmless
<1>7. Invoke(b, i).config = b.config
  BY <1>1, <1>3, InvokeIs DEF Keeps
<1> QED BY <1>1, <1>2, <1>6, <1>7, StillAirs

(* The party exists.                                                       *)
LEMMA PartyExistsAirs ==
  ASSUME LiveInv, PartyExists
  PROVE  Airs(desk', desk'.wire, session', Live(desk)')
<1>1. /\ desk.step = "checking" /\ session' = session /\ sourceLive' = sourceLive
      /\ desk' = IF Connected(desk) THEN JoinParty(desk) ELSE Dial(desk)
  BY DEF PartyExists
<1>2. Running(desk)
  BY <1>1, LiveIs DEF Orderly, RestFits
<1>3. CASE Connected(desk)
  BY <1>1, <1>2, <1>3, LiveIs, JoinPartyAirs DEF SameRecord
<1>4. CASE ~Connected(desk)
  <2>1. desk' = Dial(desk)
    BY <1>1, <1>4
  <2>2. /\ SameRecord(desk, desk') /\ desk'.config = desk.config /\ desk'.wire = desk.wire
        /\ desk'.step = "dialing" /\ desk'.ready = desk.ready
    BY <2>1, LiveIs DEF Dial, Desk, SameRecord
  <2> QED BY <1>1, <2>2, QuietAirs DEF Settling, Running
<1> QED BY <1>3, <1>4

(* The connection starts.                                                  *)
LEMMA DialStartsAirs ==
  ASSUME LiveInv, DialStarts
  PROVE  Airs(desk', desk'.wire, session', Live(desk)')
<1>1. desk' = [desk EXCEPT !.link = "starting"] /\ session' = session /\ sourceLive' = sourceLive
  BY DEF DialStarts
<1>2. /\ SameRecord(desk, desk') /\ desk'.config = desk.config /\ desk'.wire = desk.wire
      /\ desk'.step = desk.step /\ desk'.ready = desk.ready
  BY <1>1, LiveIs DEF Desk, SameRecord
<1> QED BY <1>1, <1>2, QuietAirs DEF Settling, Running

(* And is there.                                                           *)
LEMMA DialSucceedsAirs ==
  ASSUME LiveInv, DialSucceeds
  PROVE  Airs(desk', desk'.wire, session', Live(desk)')
<1> DEFINE c == [desk EXCEPT !.link = "connected"]
<1>1. /\ session' = session /\ sourceLive' = sourceLive
      /\ desk' = IF desk.step = "dialing" THEN JoinParty(c) ELSE c
  BY DEF DialSucceeds
<1>2. /\ c \in Desk /\ SameRecord(desk, c) /\ c.config = desk.config /\ c.wire = desk.wire
      /\ c.step = desk.step /\ c.ready = desk.ready
  BY LiveIs DEF Desk, Links, SameRecord
<1> HIDE DEF c
<1>3. CASE desk.step = "dialing"
  <2>1. Running(desk)
    BY <1>3, LiveIs DEF Orderly, RestFits
  <2> QED BY <1>1, <1>2, <1>3, <2>1, JoinPartyAirs
<1>4. CASE desk.step # "dialing"
  BY <1>1, <1>2, <1>4, QuietAirs DEF Settling, Running
<1> QED BY <1>3, <1>4

(* The client reconnects, and joins again.                                 *)
LEMMA ReconnectedAirs ==
  ASSUME LiveInv, Reconnected
  PROVE  Airs(desk', desk'.wire, session', Live(desk)')
<1> DEFINE c == [desk EXCEPT !.link = "connected"]
           i == Invocation("Join", desk.currentParty, "rejoin")
<1>1. /\ session' = session /\ sourceLive' = sourceLive
      /\ desk' = IF desk.currentParty = NoParty THEN c ELSE Invoke(c, i)
  BY DEF Reconnected
<1>2. /\ c \in Desk /\ SameRecord(desk, c) /\ c.config = desk.config /\ c.wire = desk.wire
      /\ c.step = desk.step /\ c.ready = desk.ready
  BY LiveIs DEF Desk, Links, SameRecord
<1>3. desk.currentParty # NoParty => i \in Invocations
  BY LiveIs DEF Desk, Invocation, Invocations
<1>4. i.op = "Join" /\ i.waiter = "rejoin"
  BY DEF Invocation
<1> HIDE DEF c, i
<1>5. CASE desk.currentParty = NoParty
  BY <1>1, <1>2, <1>5, QuietAirs DEF Settling, Running
<1>6. CASE desk.currentParty # NoParty
  <2>1. Airs(c, c.wire, session, Live(desk))
    BY <1>2, LiveIs, AirsSame DEF Settling, Running
  <2>2. LET e == Invoke(c, i) IN Airs(e, e.wire, session, Live(desk))
    BY <1>2, <1>3, <1>4, <1>6, <2>1, InvokeAirs DEF IsStart, Harmless
  <2>3. Invoke(c, i).config = c.config
    BY <1>2, <1>3, <1>6, InvokeIs DEF Keeps
  <2> QED BY <1>1, <1>2, <1>6, <2>2, <2>3, StillAirs
<1> QED BY <1>5, <1>6

(* Or gives up.                                                            *)
LEMMA ExhaustedAirs ==
  ASSUME LiveInv, Exhausted
  PROVE  Airs(desk', desk'.wire, session', Live(desk)')
<1> DEFINE c == [desk EXCEPT !.link = "none"]
<1>1. desk' = ScheduleReconnect(c) /\ session' = session /\ sourceLive' = sourceLive
  BY DEF Exhausted
<1>2. /\ c \in Desk /\ SameRecord(desk, c) /\ c.config = desk.config /\ c.wire = desk.wire
      /\ c.step = desk.step /\ c.ready = desk.ready
  BY LiveIs DEF Desk, Links, SameRecord
<1> HIDE DEF c
<1>3. /\ SameRecord(c, desk') /\ desk'.config = c.config /\ desk'.wire = c.wire
      /\ desk'.step = c.step /\ desk'.ready = c.ready
  BY <1>1, <1>2, ScheduleReconnectIs, ScheduleReconnectRecords
<1>4. /\ SameRecord(desk, desk')
      /\ Settling(desk') => Settling(desk)
  BY <1>2, <1>3 DEF SameRecord, Settling, Running
<1> QED BY <1>1, <1>2, <1>3, <1>4, QuietAirs

(* The timer starts the next attempt.                                      *)
LEMMA TimerFiresAirs ==
  ASSUME LiveInv, TimerFires
  PROVE  Airs(desk', desk'.wire, session', Live(desk)')
<1>1. desk' = Connect([desk EXCEPT !.timer = FALSE])
      /\ session' = session /\ sourceLive' = sourceLive
  BY DEF TimerFires
<1>2. /\ SameRecord(desk, desk') /\ desk'.config = desk.config /\ desk'.wire = desk.wire
      /\ desk'.step \in {desk.step, "checking"} /\ desk'.ready = desk.ready
  BY <1>1, LiveIs DEF Connect, Desk, SameRecord
<1> QED BY <1>1, <1>2, QuietAirs DEF Settling, Running

(* The player's changes are published.                                     *)
LEMMA PublishChangesAirs ==
  ASSUME LiveInv, PublishChanges
  PROVE  Airs(desk', desk'.wire, session', Live(desk)')
<1> DEFINE c == [desk EXCEPT !.coalescing = FALSE]
<1>1. /\ session' = session /\ sourceLive' = sourceLive /\ desk.coalescing
      /\ desk' = CASE ~Connected(c) -> PublishFails(c)
                   [] Connected(c) /\ NothingToPublish(c) -> c
                   [] Connected(c) /\ ~NothingToPublish(c) -> Publish(c, "publish")
  BY DEF PublishChanges
<1>2. /\ c \in Desk /\ SameRecord(desk, c) /\ c.config = desk.config /\ c.wire = desk.wire
      /\ c.step = desk.step /\ c.ready = desk.ready
  BY LiveIs DEF Desk, SameRecord
<1>3. Running(c)
  BY <1>1, <1>2, LiveIs DEF Orderly, RestFits, Running
<1> HIDE DEF c
<1>4. Airs(c, c.wire, session, Live(desk))
  BY <1>2, LiveIs, AirsSame DEF Settling, Running
<1>5. CASE desk' = PublishFails(c)
  <2>1. desk'.config = c.config /\ desk'.wire = c.wire
    BY <1>2, <1>5 DEF PublishFails, ScheduleReconnect, Desk
  <2>2. Airs(desk', desk'.wire, session, Live(desk))
    BY <1>2, <1>4, <1>5, <2>1, LiveIs, FailuresAir
  <2> QED BY <1>1, <1>2, <2>1, <2>2, StillAirs
<1>6. CASE desk' = c
  BY <1>1, <1>2, <1>4, <1>6, StillAirs
<1>7. CASE ~NothingToPublish(c) /\ desk' = Publish(c, "publish")
  <2>1. LET e == Publish(c, "publish") IN Airs(e, e.wire, session, Live(desk))
    BY <1>2, <1>3, <1>4, <1>7, LiveIs, PublishAirs
  <2>2. desk'.config = c.config
    BY <1>2, <1>7 DEF Publish, Invoke, Desk
  <2> QED BY <1>1, <1>2, <1>7, <2>1, <2>2, StillAirs
<1> QED BY <1>1, <1>5, <1>6, <1>7

(* The connection is lost, or given up while joining.                      *)
LEMMA LoseAirs ==
  ASSUME LiveInv, Lose
  PROVE  Airs(desk', desk'.wire, session', Live(desk)')
<1> DEFINE link == "reconnecting"
<1>1. /\ Connected(desk) /\ desk' = CloseConnection(desk, link)
      /\ session' \in CarriedSome(session, desk.wire) /\ sourceLive' = sourceLive
      /\ link \in Links /\ link # "connected" /\ link \notin {"preparing", "starting"}
  BY DEF Lose, ServerLoses, Links
<1> HIDE DEF link
<1>2. desk.step # "dialing"
  BY <1>1, LiveIs DEF Orderly, LinkFits, Connected
<1>3. Airs(desk, desk.wire, session', Live(desk))
  BY <1>1, LiveIs, LossAirs
<1>4. Airs(desk', <<>>, session', Live(desk))
  BY <1>1, <1>2, <1>3, LiveIs, CloseAirs
<1>5. desk'.wire = <<>> /\ desk'.config = desk.config
  BY <1>1, <1>2, LiveIs, CloseFits
<1>6. Live(desk)' = Live(desk)
  BY <1>1, <1>5 DEF Live, Running
<1> QED BY <1>4, <1>5, <1>6

(* The attempt gives up while it joins.                                    *)
LEMMA JoinTimesOutAirs ==
  ASSUME LiveInv, JoinTimesOut
  PROVE  Airs(desk', desk'.wire, session', Live(desk)')
<1>1. /\ desk.step = "joining" /\ desk' = Disconnect(desk)
      /\ session' \in CarriedSome(session, desk.wire) /\ sourceLive' = sourceLive
  BY DEF JoinTimesOut, ServerLoses
<1>2. Airs(desk, desk.wire, session', Live(desk))
  BY <1>1, LiveIs, LossAirs
<1>3. Airs(desk', desk'.wire, session', Live(desk)) /\ desk'.config = desk.config
  BY <1>1, <1>2, LiveIs, DisconnectAirs
<1>4. Live(desk)' = Live(desk)
  BY <1>1, <1>3 DEF Live, Running
<1> QED BY <1>3, <1>4

(* A start takes too long.                                                 *)
LEMMA StartTimesOutAirs ==
  ASSUME LiveInv, NEW k \in DOMAIN desk.wire, StartTimesOut(k)
  PROVE  Airs(desk', desk'.wire, session', Live(desk)')
<1> DEFINE w == desk.wire
           i == w[k]
           n == [i EXCEPT !.timedOut = TRUE, !.waiter = "nobody"]
           v == [w EXCEPT ![k] = n]
           d == [desk EXCEPT !.wire = v]
           a == i.attempt
<1>1. /\ desk \in Desk /\ w \in Wire /\ Orderly(desk, w, PlayerOn) /\ i \in Invocations
      /\ Pending(i) /\ a \in Nat /\ a # 0 /\ a = desk.inFlight
      /\ session' = session /\ sourceLive' = sourceLive
      /\ Airs(desk, w, session, Live(desk))
  <2>1. /\ desk \in Desk /\ w \in Wire /\ Orderly(desk, w, PlayerOn)
        /\ Airs(desk, w, session, Live(desk))
    BY LiveIs
  <2>2. Pending(i) /\ session' = session /\ sourceLive' = sourceLive
    BY DEF StartTimesOut, Pending, IsStart
  <2>3. i \in Invocations
    BY <2>1 DEF Wire
  <2>4. a \in Nat /\ a # 0 /\ a = desk.inFlight
    BY <2>1, <2>2, <2>3 DEF Airs, NumbersFit, Pending, IsStart, Orderly, StartsFit, Invocations
  <2> QED BY <2>1, <2>2, <2>3, <2>4
<1>2. n \in Invocations /\ n.timedOut /\ n.waiter = "nobody" /\ n.op = "Start"
  BY <1>1 DEF Invocations, Pending, IsStart
<1>3. desk' = StartFails(d, i)
  <2>1. [desk EXCEPT !.wire[k].timedOut = TRUE, !.wire[k].waiter = "nobody"] = d
    BY <1>1 DEF Desk, Wire, Invocations
  <2> QED BY <2>1 DEF StartTimesOut
<1> HIDE DEF n
<1>4. v \in Wire /\ DOMAIN v = DOMAIN w /\ v[k] = n /\ \A j \in DOMAIN w : j # k => v[j] = w[j]
  BY <1>1, <1>2 DEF Wire
<1> HIDE DEF v
<1>5. d \in Desk /\ d.wire = v /\ SameRecord(desk, d) /\ d.config = desk.config
  BY <1>1, <1>4 DEF Desk, Wire, SameRecord
<1>6. IsFiniteSet(d.late)
  BY <1>1, <1>5 DEF Orderly, AttemptsFit, SameRecord
<1> HIDE DEF d, i
<1>7. /\ desk'.config = d.config /\ Settles(d, desk', a)
      /\ \E q \in Wire : (\A j \in DOMAIN q : IsLateEnd(q[j])) /\ desk'.wire = d.wire \o q
  <2> DEFINE e == StartFails(d, i)
  <2>1. /\ e.config = d.config
        /\ \E q \in Wire : (\A j \in DOMAIN q : IsLateEnd(q[j])) /\ e.wire = d.wire \o q
        /\ Settles(d, e, a)
    BY <1>1, <1>5, <1>6, StartFailsIs
  <2> HIDE DEF e
  <2> QED BY <1>3, <2>1 DEF e
<1>8. PICK q \in Wire : (\A j \in DOMAIN q : IsLateEnd(q[j])) /\ desk'.wire = v \o q
  BY <1>5, <1>7
<1> DEFINE u == v \o q
<1>9. /\ u \in Wire
      /\ \A j \in DOMAIN u : j \in DOMAIN v \/ IsLateEnd(u[j])
      /\ \A j \in DOMAIN v : j \in DOMAIN u /\ u[j] = v[j]
  BY <1>4, <1>8, JointIs
<1> HIDE DEF u
<1>10. \A j \in DOMAIN u : ~Pending(u[j])
  <2> SUFFICES ASSUME NEW j \in DOMAIN u, Pending(u[j]) PROVE FALSE
    OBVIOUS
  <2>1. j \in DOMAIN w /\ u[j] = v[j] /\ j # k /\ u[j] = w[j]
    BY <1>2, <1>4, <1>9 DEF IsLateEnd, Pending, IsStart
  <2>2. w[j].attempt = desk.inFlight
    BY <1>1, <2>1 DEF Airs, NumbersFit
  <2> QED BY <1>1, <2>1, <2>2 DEF Orderly, StartsFit, Pending, IsStart, i
<1>11. NoSourceStops => WordsFit(desk, u)
  <2> SUFFICES ASSUME NoSourceStops PROVE WordsFit(desk, u)
    OBVIOUS
  <2>1. \A j \in DOMAIN u : \/ j \in DOMAIN w /\ u[j] = w[j]
                            \/ u[j].waiter \in {"late", "nobody"} /\ u[j].op \in {"End", "Start"}
    BY <1>2, <1>4, <1>9 DEF IsLateEnd
  <2> QED BY <1>1, <2>1 DEF Airs, WordsFit, WillPublish
<1>12. Settles(desk, desk', a)
  BY <1>5, <1>7 DEF Settles, SameRecord
<1>13. AttemptsFit(desk, w)
  BY <1>1 DEF Orderly
<1>14. Airs(desk', u, session, Live(desk))
  BY <1>1, <1>5, <1>7, <1>9, <1>10, <1>11, <1>12, <1>13, SettledAirs
<1> QED BY <1>1, <1>5, <1>7, <1>8, <1>14, StillAirs DEF u

(* A publication takes too long.                                           *)
LEMMA PublishTimesOutAirs ==
  ASSUME LiveInv, NEW k \in DOMAIN desk.wire, PublishTimesOut(k)
  PROVE  Airs(desk', desk'.wire, session', Live(desk)')
<1> DEFINE w == desk.wire
           i == w[k]
           n == [i EXCEPT !.waiter = "nobody"]
           v == [w EXCEPT ![k] = n]
           c == [desk EXCEPT !.wire = v]
<1>1. /\ desk \in Desk /\ w \in Wire /\ i \in Invocations
      /\ Airs(desk, w, session, Live(desk))
  BY LiveIs DEF Wire
<1>2. n \in Invocations /\ Fainter(i, n)
  BY <1>1 DEF Invocations, Fainter
<1>3. [desk EXCEPT !.wire[k].waiter = "nobody"] = c
  BY <1>1 DEF Desk, Wire, Invocations
<1>4. /\ desk' \in {ConnectFails(c), PublishFails(c), c}
      /\ session' = session /\ sourceLive' = sourceLive
  <2>1. /\ desk' = CASE i.waiter = "connect" -> ConnectFails(c)
                     [] i.waiter = "publish" -> PublishFails(c)
                     [] i.waiter = "stop" -> c
        /\ i.waiter \in {"connect", "publish", "stop"}
        /\ session' = session /\ sourceLive' = sourceLive
    BY <1>3 DEF PublishTimesOut
  <2> HIDE DEF c, i
  <2> QED BY <2>1
<1> HIDE DEF n
<1>5. v \in Wire /\ DOMAIN v = DOMAIN w /\ v[k] = n /\ \A j \in DOMAIN w : j # k => v[j] = w[j]
  BY <1>1, <1>2 DEF Wire
<1> HIDE DEF v
<1>6. /\ c \in Desk /\ c.wire = v /\ SameRecord(desk, c) /\ c.config = desk.config
      /\ c.step = desk.step /\ c.ready = desk.ready
  BY <1>1, <1>5 DEF Desk, Wire, SameRecord
<1> HIDE DEF c
<1>7. GoesOnAs(w, v)
  BY <1>2, <1>5 DEF GoesOnAs, Fainter
<1>8. Airs(c, v, session, Live(desk))
  <2>1. Records(desk, c)
    BY <1>6 DEF SameRecord, Records
  <2>2. Settling(c) => Settling(desk)
    BY <1>6 DEF Settling, Running
  <2> QED BY <1>1, <1>5, <1>6, <1>7, <2>1, <2>2, AirsStay DEF SameRecord
<1>9. desk'.config = c.config /\ desk'.wire = c.wire
  BY <1>4, <1>6 DEF ConnectFails, PublishFails, ScheduleReconnect, Desk
<1>10. Airs(desk', v, session, Live(desk))
  BY <1>4, <1>5, <1>6, <1>8, FailuresAir
<1> QED BY <1>4, <1>6, <1>9, <1>10, StillAirs

(* The old generation's end.                                               *)
LEMMA StopInternalAirs ==
  ASSUME NEW d, NEW x, Orderly(d, d.wire, x), NEW s, NEW on, NEW on2, Airs(d, d.wire, s, on)
  PROVE  LET e == StopInternal(d) IN
         /\ e.wire \in Wire /\ Airs(e, e.wire, s, on2)
         /\ \A k \in DOMAIN e.wire : /\ ~e.wire[k].fresh
                                     /\ e.wire[k].waiter \notin {"connect", "sync"}
         /\ ~e.liveSession /\ ~e.ready /\ e.step = "idle" /\ e \in Desk
<1> DEFINE c == Superseded(d)
           e == [c EXCEPT !.ready = FALSE, !.liveSession = FALSE, !.timer = FALSE,
                          !.coalescing = FALSE, !.subscribed = FALSE]
<1>1. /\ c.wire \in Wire /\ DOMAIN c.wire = DOMAIN d.wire
      /\ GoesOnAs(d.wire, c.wire) /\ Records(d, c)
      /\ \A k \in DOMAIN c.wire :
           /\ ~c.wire[k].fresh
           /\ c.wire[k].waiter \notin {"connect", "sync", "publish"}
  BY SupersededGoesOn
<1>2. c \in Desk /\ c.step = "idle" /\ d.wire \in Wire
  BY SupersededIs DEF Orderly
<1>3. StopInternal(d) = e
  BY DEF StopInternal
<1> HIDE DEF c
<1>4. /\ e.wire = c.wire /\ ~e.ready /\ e.step = "idle" /\ ~e.liveSession /\ e \in Desk
      /\ e.inFlight = c.inFlight /\ e.lastAttempt = c.lastAttempt /\ e.handled = c.handled
      /\ e.late = c.late /\ e.lifecycle = c.lifecycle
  BY <1>2 DEF Desk
<1> HIDE DEF e
<1>5. Records(d, e) /\ ~Settling(e)
  BY <1>1, <1>4 DEF Records, Settling
<1>6. Airs(e, c.wire, s, on2)
  BY <1>1, <1>2, <1>4, <1>5, RenewedAirs
<1> QED BY <1>1, <1>3, <1>4, <1>6

(* What has not joined claims no start that nobody of it waits for.        *)
LEMMA FreshAirs ==
  ASSUME NEW d, NEW e, NEW w, NEW s, NEW on, Airs(d, w, s, on),
         e.inFlight = d.inFlight, e.lastAttempt = d.lastAttempt, e.handled = d.handled,
         e.late = d.late, e.lifecycle = d.lifecycle,
         ~e.liveSession, ~Settling(e),
         \A k \in DOMAIN w : ~w[k].fresh /\ w[k].waiter \notin {"connect", "sync"}
  PROVE  Airs(e, w, s, on)
<1>1. \A k \in DOMAIN w : ~Ours(e, w, k)
  BY DEF Ours
<1>2. NumbersFit(e, w)
  BY <1>1 DEF Airs, NumbersFit
<1>3. NoSourceStops => WordsFit(e, w)
  BY DEF Airs, WordsFit, WillPublish
<1> QED BY <1>1, <1>2, <1>3 DEF Airs, OursFit, AirFits

(* The user starts streaming, or streams to another party.                 *)
LEMMA StartAirs ==
  ASSUME LiveInv, NEW c \in Config, Start(c)
  PROVE  Airs(desk', desk'.wire, session', Live(desk)')
<1> DEFINE b == StopInternal(desk)
           on == Live(desk)'
<1>1. desk' = Connect([b EXCEPT !.config = c]) /\ session' = session
  BY DEF Start
<1> HIDE DEF on
<1>2. /\ b.wire \in Wire /\ Airs(b, b.wire, session, on)
      /\ \A k \in DOMAIN b.wire : /\ ~b.wire[k].fresh
                                  /\ b.wire[k].waiter \notin {"connect", "sync"}
      /\ ~b.liveSession /\ ~b.ready /\ b.step = "idle" /\ b \in Desk
  BY LiveIs, StopInternalAirs
<1> HIDE DEF b
<1>3. /\ desk'.inFlight = b.inFlight /\ desk'.lastAttempt = b.lastAttempt
      /\ desk'.handled = b.handled /\ desk'.late = b.late /\ desk'.lifecycle = b.lifecycle
      /\ ~desk'.liveSession /\ ~desk'.ready /\ desk'.step = "checking" /\ desk'.wire = b.wire
  BY <1>1, <1>2 DEF Connect, Desk
<1>4. Airs(desk', b.wire, session, on)
  BY <1>2, <1>3, FreshAirs DEF Settling
<1> QED BY <1>1, <1>3, <1>4 DEF on

(* A desk is taken down.                                                   *)
LEMMA TakeDownAirs ==
  ASSUME NEW d, NEW x, Orderly(d, d.wire, x), NEW isLive,
         NEW s, NEW on, NEW on2, Airs(d, d.wire, s, on)
  PROVE  LET e == TakeDown(d, isLive) IN Airs(e, e.wire, s, on2)
<1> DEFINE p == d.config.party
           pending == StartPending(d, p)
           t == [party |-> p, hadLive |-> d.liveSession \/ isLive, owner |-> d.active[p],
                 pending |-> pending, attempt |-> IF pending THEN d.inFlight ELSE 0,
                 started |-> FALSE, fresh |-> TRUE, at |-> "queued"]
           b == StopInternal(d)
           l == Append(b.lifecycle, t)
           e == [b EXCEPT !.config = NoConfig, !.lifecycle = l]
<1>1. /\ b.wire \in Wire /\ Airs(b, b.wire, s, on2)
      /\ \A k \in DOMAIN b.wire : /\ ~b.wire[k].fresh
                                  /\ b.wire[k].waiter \notin {"connect", "sync"}
      /\ ~b.liveSession /\ ~b.ready /\ b.step = "idle" /\ b \in Desk
  BY StopInternalAirs
<1>2. b.inFlight = d.inFlight
  BY StopInternalIs
<1>3. TakeDown(d, isLive) = e
  BY <1>1 DEF TakeDown, Desk
<1>4. /\ t.pending = pending /\ t.attempt = (IF pending THEN d.inFlight ELSE 0)
      /\ t.at = "queued"
  OBVIOUS
<1> HIDE DEF b, t, pending
<1>5. \A k \in DOMAIN l : (k \in DOMAIN b.lifecycle /\ l[k] = b.lifecycle[k]) \/ l[k] = t
  <2>1. b.lifecycle \in Seq(Teardowns)
    BY <1>1 DEF Desk
  <2> QED BY <2>1
<1> HIDE DEF l
<1>6. /\ e.inFlight = b.inFlight /\ e.lastAttempt = b.lastAttempt
      /\ e.handled = b.handled /\ e.late = b.late /\ e.lifecycle = l /\ e.wire = b.wire
      /\ ~e.liveSession /\ ~Running(e)
  BY <1>1 DEF Desk, Running
<1> HIDE DEF e
<1>7. NumbersFit(e, b.wire)
  <2>1. \A k \in DOMAIN b.wire : ~Ours(e, b.wire, k)
    BY <1>1, <1>6 DEF Ours, Settling
  <2>2. \A k \in DOMAIN l :
          /\ l[k].attempt = e.inFlight /\ e.inFlight # 0 => l[k].pending
          /\ l[k].at = "ending" => ~l[k].pending
    BY <1>1, <1>2, <1>4, <1>5, <1>6 DEF Airs, NumbersFit
  <2> QED BY <1>1, <1>6, <2>1, <2>2 DEF Airs, NumbersFit
<1>8. NoSourceStops => \A k \in DOMAIN b.wire : b.wire[k].waiter \notin {"newProject", "stop"}
  BY <1>1 DEF Airs, WordsFit
<1>9. Airs(e, b.wire, s, on2)
  BY <1>6, <1>7, <1>8, DownAirs
<1> QED BY <1>3, <1>6, <1>9

(* The user stops.                                                         *)
LEMMA StopAirs ==
  ASSUME LiveInv, Stop
  PROVE  Airs(desk', desk'.wire, session', Live(desk)')
<1> DEFINE on == Live(desk)'
           isLive == Live(desk)
<1>1. desk' = TakeDown(desk, isLive) /\ session' = session
  BY DEF Stop
<1> HIDE DEF on, isLive
<1>2. Airs(desk', desk'.wire, session, on)
  BY <1>1, LiveIs, TakeDownAirs
<1> QED BY <1>1, <1>2 DEF on

(* The user, or the network, asks for another attempt.                     *)
LEMMA RecoverAirs ==
  ASSUME NEW d, NEW x, Orderly(d, d.wire, x), NEW s, NEW on, Airs(d, d.wire, s, on),
         NEW supersede \in BOOLEAN
  PROVE  LET e == Recover(d, supersede) IN
         Airs(e, e.wire, s, on) /\ e.config = d.config
<1>1. CASE ~Running(d) \/ (d.step # "idle" /\ ~supersede)
  BY <1>1 DEF Recover
<1>2. CASE Running(d) /\ (d.step = "idle" \/ supersede)
  <2> DEFINE c == Superseded(d)
             e == Connect([c EXCEPT !.ready = FALSE, !.timer = FALSE])
  <2>1. /\ c.wire \in Wire /\ DOMAIN c.wire = DOMAIN d.wire
        /\ GoesOnAs(d.wire, c.wire) /\ Records(d, c)
        /\ c.config = d.config /\ c.active = d.active /\ c.liveSession = d.liveSession
    BY SupersededGoesOn
  <2>2. c \in Desk /\ c.step = "idle" /\ d.wire \in Wire
    BY SupersededIs DEF Orderly
  <2>3. Recover(d, supersede) = e
    BY <1>2 DEF Recover
  <2> HIDE DEF c
  <2>4. /\ e.wire = c.wire /\ ~e.ready /\ e.step = "checking"
        /\ e.liveSession = c.liveSession /\ e.config = c.config /\ e.active = c.active
        /\ e.inFlight = c.inFlight /\ e.lastAttempt = c.lastAttempt /\ e.handled = c.handled
        /\ e.late = c.late /\ e.lifecycle = c.lifecycle
    BY <2>2 DEF Connect, Desk
  <2> HIDE DEF e
  <2>5. Records(d, e) /\ ~Settling(e)
    BY <2>1, <2>4 DEF Records, Settling
  <2>6. Airs(e, c.wire, s, on)
    BY <2>1, <2>2, <2>4, <2>5, AirsStay
  <2> QED BY <2>1, <2>3, <2>4, <2>6
<1> QED BY <1>1, <1>2

(* Either way.                                                             *)
LEMMA ReconnectAirs ==
  ASSUME LiveInv, Reconnect
  PROVE  Airs(desk', desk'.wire, session', Live(desk)')
<1>1. PICK supersede \in BOOLEAN : desk' = Recover(desk, supersede)
  BY DEF Reconnect
<1>2. Airs(desk', desk'.wire, session, Live(desk)) /\ desk'.config = desk.config
  BY <1>1, LiveIs, RecoverAirs
<1> QED BY <1>2, StillAirs DEF Reconnect

(* The user's sources.                                                     *)

(* A desk on whose sources a word or none is said.                         *)
LEMMA LouderAirs ==
  ASSUME NEW d, NEW e, d.wire \in Wire, NEW s, NEW on, NEW on2, Airs(d, d.wire, s, on),
         SameRecord(d, e), e.config = d.config, e.wire = d.wire,
         Settling(e) => Settling(d), NoSourceStops => (on => on2)
  PROVE  Airs(e, e.wire, s, on2)
<1>1. GoesOnAs(d.wire, d.wire)
  BY DEF GoesOnAs, Fainter
<1>2. Records(d, e)
  BY DEF Records, SameRecord
<1> QED BY <1>1, <1>2, AirsStay DEF SameRecord

(* The hook starts the session of a source that is on the air; it ends one *)
(* only where a source may stop.                                           *)
LEMMA SyncAirs ==
  ASSUME NEW d \in Desk, NEW x, NEW isLive \in BOOLEAN, isLive => Orderly(d, d.wire, x),
         NEW s, NEW on, Airs(d, d.wire, s, on), NoSourceStops => isLive /\ on
  PROVE  LET e == SyncLiveSession(d, isLive) IN Airs(e, e.wire, s, on) /\ e.config = d.config
<1> DEFINE e == SyncLiveSession(d, isLive)
           p == d.config.party
           i == EndOf(p, d.active[p], "nobody")
           j == Invocation("Reset", p, "nobody")
           r == Invoke(d, i)
           c == Invoke(r, j)
<1>1. CASE ~(Running(d) /\ d.ready /\ Connected(d))
  BY <1>1 DEF SyncLiveSession
<1>2. CASE Running(d) /\ d.ready /\ Connected(d) /\ isLive
  <2>1. CASE d.liveSession
    BY <1>2, <2>1 DEF SyncLiveSession
  <2>2. CASE ~d.liveSession
    <3>1. e = StartSession(d, p, "sync")
      BY <1>2, <2>2 DEF SyncLiveSession
    <3>2. Claims(d, d.wire, on)
      BY <1>2, SettlingClaims DEF Settling
    <3>3. Airs(e, e.wire, s, on)
      BY <1>2, <2>2, <3>1, <3>2, StartSessionAirs
    <3>4. e.config = d.config
      BY <3>1 DEF StartSession, Invoke, Desk
    <3> QED BY <3>3, <3>4
  <2> QED BY <2>1, <2>2
<1>3. CASE Running(d) /\ d.ready /\ Connected(d) /\ ~isLive
  <2>1. p \in Party /\ ~NoSourceStops
    BY <1>3 DEF Desk, Config, Running
  <2>2. i \in Invocations /\ j \in Invocations /\ ~IsStart(i) /\ ~IsStart(j)
    <3>1. d.active[p] \in Nat
      BY <2>1 DEF Desk
    <3> QED BY <2>1, <3>1 DEF EndOf, Invocation, Invocations, IsStart
  <2> DEFINE g == IF d.liveSession /\ d.config.source = "aimp" THEN c ELSE d
  <2>3. e = [g EXCEPT !.liveSession = FALSE]
    BY <1>3 DEF SyncLiveSession
  <2> HIDE DEF i, j, e
  <2>4. g \in Desk /\ g.config = d.config /\ Airs(g, g.wire, s, on)
    <3>1. r \in Desk /\ r.config = d.config /\ Airs(r, r.wire, s, on)
      BY <2>1, <2>2, InvokeAirs, InvokeIs DEF Akin
    <3> HIDE DEF r
    <3>2. c \in Desk /\ c.config = d.config /\ Airs(c, c.wire, s, on)
      BY <2>1, <2>2, <3>1, InvokeAirs, InvokeIs DEF Akin
    <3> QED BY <3>1, <3>2
  <2> HIDE DEF g
  <2>5. /\ e.config = g.config /\ e.wire = g.wire /\ Records(g, e)
        /\ Settling(e) => Settling(g)
    BY <2>3, <2>4 DEF Desk, Records, Settling, Running
  <2>6. g.wire \in Wire /\ GoesOnAs(g.wire, g.wire)
    BY <2>4 DEF Desk, Wire, GoesOnAs, Fainter
  <2>7. Airs(e, e.wire, s, on)
    BY <2>1, <2>4, <2>5, <2>6, AirsStay
  <2> QED BY <2>4, <2>5, <2>7 DEF e
<1> QED BY <1>1, <1>2, <1>3

(* A change of the source that the subscribers hear of.                    *)
LEMMA SourceChangesRecords ==
  ASSUME NEW d \in Desk
  PROVE  LET e == SourceChanges(d) IN
         /\ e \in Desk /\ SameRecord(d, e) /\ e.config = d.config /\ e.wire = d.wire
         /\ Settling(e) <=> Settling(d)
         /\ Connected(e) <=> Connected(d)
<1> DEFINE e == SourceChanges(d)
<1>1. e \in {d, [d EXCEPT !.behind = TRUE, !.coalescing = TRUE]}
  BY DEF SourceChanges
<1>2. /\ e \in Desk /\ SameRecord(d, e) /\ e.config = d.config /\ e.wire = d.wire
      /\ e.step = d.step /\ e.ready = d.ready /\ e.link = d.link
  BY <1>1 DEF Desk, SameRecord
<1> HIDE DEF e
<1>3. (Settling(e) <=> Settling(d)) /\ (Connected(e) <=> Connected(d))
  BY <1>2 DEF Settling, Running, Connected
<1> QED BY <1>2, <1>3 DEF e

(* A source goes on the air.                                               *)
LEMMA GoLiveAirs ==
  ASSUME LiveInv, NEW s \in Source, GoLive(s)
  PROVE  Airs(desk', desk'.wire, session', Live(desk)')
<1> DEFINE c == SourceChanges(desk)
<1>1. /\ sourceLive' = [sourceLive EXCEPT ![s] = TRUE] /\ session' = session
      /\ desk' = IF PlaysFrom(s) THEN SyncLiveSession(c, TRUE) ELSE desk
  BY DEF GoLive
<1>2. CASE PlaysFrom(s)
  <2>1. c \in Desk /\ c.config = desk.config /\ Airs(c, c.wire, session, TRUE)
    BY LiveIs, LouderAirs, SourceChangesRecords
  <2>2. \E x : Orderly(c, c.wire, x)
    <3>1. Fit(desk, PlayerOn, joined)
      BY DEF LiveInv, StreamingInv
    <3> QED BY <3>1, SourceChangesFits DEF Fit
  <2>3. desk' = SyncLiveSession(c, TRUE)
    BY <1>1, <1>2
  <2> HIDE DEF c
  <2>4. Airs(desk', desk'.wire, session, TRUE) /\ desk'.config = c.config
    BY <2>1, <2>2, <2>3, SyncAirs
  <2>5. Live(desk)' = TRUE
    BY <1>1, <1>2, <2>1, <2>4, LiveIs DEF Live, Running, PlaysFrom
  <2> QED BY <1>1, <2>4, <2>5
<1>3. CASE ~PlaysFrom(s)
  <2>1. desk' = desk
    BY <1>1, <1>3
  <2>2. Running(desk) => desk.config.source \in Source \ {s}
    BY <1>3, LiveIs DEF Running, PlaysFrom, Desk, Config
  <2>3. Running(desk) => sourceLive'[desk.config.source] = sourceLive[desk.config.source]
    BY <1>1, <2>2, LiveIs
  <2>4. Live(desk)' = Live(desk)
    BY <2>1, <2>3 DEF Live, Running
  <2> QED BY <1>1, <2>1, <2>4, LiveIs
<1> QED BY <1>2, <1>3

(* Where a source may stop, only the numbers count.                        *)
LEMMA NumbersAir ==
  ASSUME ~NoSourceStops, NEW d, NEW w, NEW s, NEW on, NEW t, NEW on2, Airs(d, w, s, on)
  PROVE  Airs(d, w, t, on2)
BY DEF Airs

(* A source goes off the air.                                              *)
LEMMA StopLiveAirs ==
  ASSUME LiveInv, NEW s \in Source, StopLive(s)
  PROVE  Airs(desk', desk'.wire, session', Live(desk)')
<1>1. PICK heard \in BOOLEAN :
        LET c == IF PlaysFrom(s) /\ heard THEN SourceChanges(desk) ELSE desk
            e == IF s = "cherryPlayPlayer" /\ Running(c) /\ Connected(c)
                 THEN Invoke(c, Invocation("Reset", c.config.party, "stop")) ELSE c
        IN desk' = IF PlaysFrom(s) THEN SyncLiveSession(e, FALSE) ELSE e
  BY DEF StopLive
<1> DEFINE c == IF PlaysFrom(s) /\ heard THEN SourceChanges(desk) ELSE desk
           i == Invocation("Reset", c.config.party, "stop")
           e == IF s = "cherryPlayPlayer" /\ Running(c) /\ Connected(c) THEN Invoke(c, i) ELSE c
           on == Live(desk)
<1>2. ~NoSourceStops
  BY DEF StopLive, Disturbed, NoSourceStops
<1>3. c \in Desk /\ Airs(c, c.wire, session, on)
  <2> DEFINE h == SourceChanges(desk)
  <2>1. h \in Desk /\ Airs(h, h.wire, session, on)
    BY LiveIs, LouderAirs, SourceChangesRecords
  <2> HIDE DEF h, on
  <2>2. c \in {h, desk}
    BY DEF h
  <2> QED BY <2>1, <2>2, LiveIs DEF on
<1>4. desk' = IF PlaysFrom(s) THEN SyncLiveSession(e, FALSE) ELSE e
  BY <1>1
<1> HIDE DEF c, on
<1>5. e \in Desk /\ Airs(e, e.wire, session, on)
  <2>1. CASE Running(c)
    <3>1. i \in Invocations /\ ~IsStart(i)
      BY <1>3, <2>1 DEF Invocation, Invocations, IsStart, Desk, Running, Config
    <3> HIDE DEF i
    <3> DEFINE r == Invoke(c, i)
    <3>2. r \in Desk /\ Airs(r, r.wire, session, on)
      BY <1>2, <1>3, <3>1, InvokeAirs, InvokeIs
    <3> QED BY <1>3, <3>2
  <2>2. CASE ~Running(c)
    BY <1>3, <2>2
  <2> QED BY <2>1, <2>2
<1> HIDE DEF e
<1> DEFINE r == SyncLiveSession(e, FALSE)
<1>6. Airs(r, r.wire, session, on)
  BY <1>2, <1>5, SyncAirs
<1>7. Airs(desk', desk'.wire, session, on)
  BY <1>4, <1>5, <1>6
<1> QED BY <1>2, <1>7, NumbersAir

(* A new project.                                                          *)
LEMMA NewProjectAirs ==
  ASSUME LiveInv, NewProject
  PROVE  Airs(desk', desk'.wire, session', Live(desk)')
<1>1. ~NoSourceStops
  BY DEF NewProject, Disturbed, NoSourceStops
<1>2. CASE desk' = desk
  BY <1>1, <1>2, LiveIs, NumbersAir
<1>3. CASE /\ Running(desk)
           /\ LET p == desk.config.party
                  c == IF PlaysFrom("cherryPlayPlayer") THEN SourceChanges(desk) ELSE desk
              IN desk' = Invoke(c, EndOf(p, c.active[p], "newProject"))
  <2> DEFINE p == desk.config.party
             c == IF PlaysFrom("cherryPlayPlayer") THEN SourceChanges(desk) ELSE desk
             i == EndOf(p, c.active[p], "newProject")
  <2>1. c \in Desk /\ Airs(c, c.wire, session, Live(desk))
    BY LiveIs, LouderAirs, SourceChangesRecords
  <2>2. desk' = Invoke(c, i)
    BY <1>3
  <2> HIDE DEF c
  <2>3. i \in Invocations /\ ~IsStart(i)
    <3>1. p \in Party /\ c.active[p] \in Nat
      BY <1>3, <2>1, LiveIs DEF Desk, Config, Running
    <3> QED BY <3>1 DEF EndOf, Invocation, Invocations, IsStart
  <2> HIDE DEF i
  <2>4. Airs(desk', desk'.wire, session, Live(desk))
    BY <1>1, <2>1, <2>2, <2>3, InvokeAirs
  <2> QED BY <1>1, <2>4, NumbersAir
<1> QED BY <1>2, <1>3 DEF NewProject

(* AIMP's hook synchronizes once more: it finds the session of a source    *)
(* that is on, or none.                                                    *)
LEMMA SyncAimpAirs ==
  ASSUME LiveInv, SyncAimp
  PROVE  Airs(desk', desk'.wire, session', Live(desk)')
<1> DEFINE isLive == sourceLive["aimp"]
<1>1. /\ Running(desk) /\ desk.config.source = "aimp" /\ desk' = SyncLiveSession(desk, isLive)
      /\ desk' # desk /\ session' = session /\ sourceLive' = sourceLive
  BY DEF SyncAimp, PlaysFrom
<1>2. isLive \in BOOLEAN /\ Live(desk) = isLive
  BY <1>1, LiveIs DEF Live, Source
<1>3. ASSUME NoSourceStops, ~isLive
      PROVE  FALSE
  <2>1. ~desk.liveSession
    BY <1>2, <1>3, LiveIs DEF Airs, AirFits
  <2>2. desk' = desk \/ desk' = [desk EXCEPT !.liveSession = FALSE]
    BY <1>1, <1>3, <2>1 DEF SyncLiveSession
  <2>3. [desk EXCEPT !.liveSession = FALSE] = desk
    BY <2>1, LiveIs DEF Desk
  <2> QED BY <1>1, <2>2, <2>3
<1> HIDE DEF isLive
<1>4. Airs(desk', desk'.wire, session, Live(desk)) /\ desk'.config = desk.config
  BY <1>1, <1>2, <1>3, LiveIs, SyncAirs
<1> QED BY <1>1, <1>4, StillAirs

(* The teardowns.                                                          *)

(* The first teardown goes on, to the end of the session only once its     *)
(* start is settled.                                                       *)
LEMMA OnwardAirs ==
  ASSUME NEW d \in Desk, d.wire \in Wire, d.lifecycle # <<>>,
         NEW at \in {"queued", "waiting", "ending", "ended", "resetting"},
         at = "ending" => ~d.lifecycle[1].pending,
         NEW s, NEW on, Airs(d, d.wire, s, on),
         NEW e, e = [d EXCEPT !.lifecycle[1].at = at]
  PROVE  /\ Airs(e, e.wire, s, on) /\ e \in Desk /\ e.wire = d.wire /\ e.config = d.config
         /\ e.lifecycle # <<>> /\ e.lifecycle[1].at = at
<1> DEFINE l == [d.lifecycle EXCEPT ![1].at = at]
<1>1. d.lifecycle \in Seq(Teardowns)
  BY DEF Desk
<1>2. /\ 1 \in DOMAIN d.lifecycle /\ d.lifecycle[1] \in Teardowns
      /\ \A k \in DOMAIN d.lifecycle : d.lifecycle[k] \in Teardowns
  BY <1>1
<1>3. [d.lifecycle[1] EXCEPT !.at = at] \in Teardowns
  BY <1>2 DEF Teardowns
<1>4. /\ l \in Seq(Teardowns) /\ DOMAIN l = DOMAIN d.lifecycle /\ l # <<>> /\ l[1].at = at
      /\ \A k \in DOMAIN l :
           /\ l[k].attempt = d.lifecycle[k].attempt /\ l[k].pending = d.lifecycle[k].pending
           /\ l[k].at = "ending" => d.lifecycle[k].at = "ending" \/ ~d.lifecycle[k].pending
  BY <1>1, <1>2, <1>3 DEF Teardowns
<1>5. e = [d EXCEPT !.lifecycle = l]
  BY DEF Desk
<1> HIDE DEF l
<1>6. /\ e \in Desk /\ e.lifecycle = l /\ e.config = d.config /\ e.step = d.step
      /\ e.ready = d.ready /\ e.lastAttempt = d.lastAttempt /\ e.inFlight = d.inFlight
      /\ e.active = d.active /\ e.handled = d.handled /\ e.late = d.late
      /\ e.liveSession = d.liveSession /\ e.wire = d.wire
  BY <1>4, <1>5 DEF Desk
<1>7. Records(d, e) /\ (Settling(e) => Settling(d))
  BY <1>4, <1>6 DEF Records, Settling, Running
<1>8. GoesOnAs(d.wire, e.wire)
  BY <1>6 DEF GoesOnAs, Fainter
<1>9. Airs(e, e.wire, s, on)
  BY <1>6, <1>7, <1>8, AirsStay
<1> QED BY <1>4, <1>6, <1>9

(* What a teardown does not change.                                        *)
LEMMA TearingDownAirs ==
  ASSUME LiveInv, NEW ats, TearingDown(ats), ats \subseteq {"queued", "waiting", "ended"},
         desk'.config = desk.config, Airs(desk', desk'.wire, session, Live(desk))
  PROVE  Airs(desk', desk'.wire, session', Live(desk)')
<1>1. session' = session /\ sourceLive' = sourceLive
  BY DEF TearingDown
<1> QED BY <1>1, StillAirs

(* A teardown waits for the start under way.                               *)
LEMMA TeardownWaitsAirs ==
  ASSUME LiveInv, TeardownWaits
  PROVE  Airs(desk', desk'.wire, session', Live(desk)')
<1> DEFINE at == "waiting"
           ats == {"queued"}
<1>1. TearingDown(ats) /\ ats \subseteq {"queued", "waiting", "ended"}
  BY DEF TeardownWaits
<1>2. desk.lifecycle # <<>> /\ desk' = [desk EXCEPT !.lifecycle[1].at = at]
  BY DEF TeardownWaits, TearingDown
<1>3. at \in {"queued", "waiting", "ending", "ended", "resetting"} /\ at # "ending"
  OBVIOUS
<1> HIDE DEF at, ats
<1>4. Airs(desk', desk'.wire, session, Live(desk)) /\ desk'.config = desk.config
  BY <1>2, <1>3, LiveIs, OnwardAirs
<1> QED BY <1>1, <1>4, TearingDownAirs

(* It ends the session: the orchestrator has stopped and believes in none. *)
LEMMA TeardownEndsAirs ==
  ASSUME LiveInv, TeardownEnds
  PROVE  Airs(desk', desk'.wire, session', Live(desk)')
<1> DEFINE ats == {"queued", "waiting"}
           at == "ending"
           c == [desk EXCEPT !.lifecycle[1].at = at]
           t == desk.lifecycle[1]
           i == EndOf(t.party, t.owner, "teardown")
<1>1. TearingDown(ats) /\ ats \subseteq {"queued", "waiting", "ended"}
  BY DEF TeardownEnds
<1> HIDE DEF ats
<1>2. /\ desk.lifecycle # <<>> /\ Head(desk.lifecycle) = t /\ t \in Teardowns
      /\ \A k \in DOMAIN desk.wire : desk.wire[k].waiter # "teardown"
      /\ t.fresh => ~Running(desk)
  BY <1>1, TearingDownIs DEF LiveInv
<1>3. desk' = EndSession(c, i) /\ ~t.pending /\ ~Running(desk)
  BY <1>2 DEF TeardownEnds
<1>4. /\ i \in Invocations /\ i.waiter = "teardown" /\ i.op = "End" /\ ~IsStart(i)
  BY <1>2 DEF EndOf, Invocation, Invocations, Teardowns, IsStart
<1>5. at \in {"queued", "waiting", "ending", "ended", "resetting"}
      /\ c = [desk EXCEPT !.lifecycle[1].at = at] /\ at = "ending"
  OBVIOUS
<1>6. ~desk.lifecycle[1].pending
  BY <1>3
<1> HIDE DEF i, t, at, c
<1>7. /\ Airs(c, c.wire, session, Live(desk)) /\ c \in Desk /\ c.config = desk.config
      /\ c.wire = desk.wire /\ c.lifecycle # <<>> /\ c.lifecycle[1].at = "ending"
  <2>1. /\ Airs(c, c.wire, session, Live(desk)) /\ c \in Desk /\ c.wire = desk.wire
        /\ c.config = desk.config /\ c.lifecycle # <<>> /\ c.lifecycle[1].at = at
    BY <1>2, <1>5, <1>6, LiveIs, OnwardAirs
  <2> QED BY <1>5, <2>1
<1>8. Orderly(c, c.wire, PlayerOn)
  <2>1. Orderly(c, desk.wire, PlayerOn)
    BY <1>2, <1>5, LiveIs, GoesOnFits
  <2> QED BY <1>7, <2>1
<1>9. ~Running(c)
  BY <1>3, <1>7 DEF Running
<1>10. Airs(desk', desk'.wire, session, Live(desk)) /\ desk'.config = desk.config
  <2>1. CASE Connected(c)
    <3>1. desk' = Invoke(c, i)
      BY <1>3, <2>1 DEF EndSession
    <3>2. desk'.config = c.config
      BY <1>4, <1>7, <3>1, InvokeIs DEF Akin
    <3>3. Airs(desk', desk'.wire, session, Live(desk))
      BY <1>4, <1>7, <1>9, <3>1, InvokeAirs
    <3> QED BY <1>7, <3>2, <3>3
  <2>2. CASE ~Connected(c)
    <3>1. desk' = EndReturned(c, i)
      BY <1>3, <2>2 DEF EndSession
    <3>2. NoSourceStops => ~c.liveSession
      BY <1>7, <1>9 DEF Airs, AirFits
    <3>3. Airs(desk', c.wire, session, Live(desk)) /\ desk'.config = c.config
      BY <1>4, <1>7, <1>8, <3>1, <3>2, EndReturnedAirs
    <3>4. desk'.wire = c.wire
      BY <1>2, <1>4, <1>7, <1>8, <3>1, EndReturnedFits
    <3> QED BY <1>7, <3>3, <3>4
  <2> QED BY <2>1, <2>2
<1> QED BY <1>1, <1>10, TearingDownAirs

(* It resets the playback, or disconnects at once.                         *)
LEMMA TeardownResetsAirs ==
  ASSUME LiveInv, TeardownResets
  PROVE  Airs(desk', desk'.wire, session', Live(desk)')
<1> DEFINE ats == {"queued", "waiting", "ended"}
           at == "resetting"
           c == [desk EXCEPT !.lifecycle[1].at = at]
           e == [desk EXCEPT !.lifecycle = Tail(@)]
           t == desk.lifecycle[1]
           i == Invocation("Reset", t.party, "teardown")
<1>1. TearingDown(ats) /\ ats \subseteq {"queued", "waiting", "ended"}
  BY DEF TeardownResets
<1> HIDE DEF ats
<1>2. /\ desk.lifecycle # <<>> /\ Head(desk.lifecycle) = t /\ t \in Teardowns
      /\ \A k \in DOMAIN desk.wire : desk.wire[k].waiter # "teardown"
      /\ t.fresh => ~Running(desk)
  BY <1>1, TearingDownIs DEF LiveInv
<1>3. /\ desk' = IF Connected(desk) THEN Invoke(c, i) ELSE Disconnect(e)
      /\ ~Running(desk)
  BY <1>2 DEF TeardownResets
<1>4. CASE Connected(desk)
  <2>1. i \in Invocations /\ i.waiter = "teardown" /\ ~IsStart(i)
    BY <1>2 DEF Invocation, Invocations, Teardowns, IsStart
  <2>2. at \in {"queued", "waiting", "ending", "ended", "resetting"}
        /\ c = [desk EXCEPT !.lifecycle[1].at = at] /\ at # "ending"
    OBVIOUS
  <2>3. desk' = Invoke(c, i)
    BY <1>3, <1>4
  <2> HIDE DEF i, t, at, c
  <2>4. Airs(c, c.wire, session, Live(desk)) /\ c \in Desk /\ c.config = desk.config
    BY <1>2, <2>2, LiveIs, OnwardAirs
  <2>5. ~Running(c)
    BY <1>3, <2>4 DEF Running
  <2>6. desk'.config = c.config
    BY <2>1, <2>3, <2>4, InvokeIs DEF Akin
  <2>7. Airs(desk', desk'.wire, session, Live(desk))
    BY <2>1, <2>3, <2>4, <2>5, InvokeAirs
  <2> QED BY <1>1, <2>4, <2>6, <2>7, TearingDownAirs
<1>5. CASE ~Connected(desk)
  <2>1. desk' = Disconnect(e)
    BY <1>3, <1>5
  <2>2. /\ Orderly(e, desk.wire, PlayerOn) /\ Keeps(desk, e)
        /\ e.wire = desk.wire
    BY <1>2, LiveIs, PopFits
  <2>3. Airs(e, desk.wire, session, Live(desk))
    BY <1>2, LiveIs, PopAirs
  <2> HIDE DEF e
  <2>4. ~Running(e) /\ Awaits(e, e.wire)
    BY <1>3, LiveIs, <2>2 DEF Keeps, Running, Awaits, Orderly, RestFits
  <2>5. Orderly(e, e.wire, PlayerOn) /\ Airs(e, e.wire, session, Live(desk))
    BY <2>2, <2>3
  <2>6. Airs(desk', desk'.wire, session, Live(desk)) /\ desk'.config = e.config
    BY <2>1, <2>4, <2>5, DisconnectAirs
  <2> QED BY <1>1, <2>2, <2>6, TearingDownAirs DEF Keeps
<1> QED BY <1>4, <1>5

(* Superseded, it returns.                                                 *)
LEMMA TeardownReturnsAirs ==
  ASSUME LiveInv, TeardownReturns
  PROVE  Airs(desk', desk'.wire, session', Live(desk)')
<1> DEFINE ats == {"queued", "waiting", "ended"}
<1>1. TearingDown(ats) /\ ats \subseteq {"queued", "waiting", "ended"}
  BY DEF TeardownReturns
<1> HIDE DEF ats
<1>2. desk.lifecycle # <<>> /\ desk' = [desk EXCEPT !.lifecycle = Tail(@)]
  BY DEF TeardownReturns, TearingDown
<1>3. desk'.wire = desk.wire /\ desk'.config = desk.config
  BY <1>2, LiveIs DEF Desk
<1>4. Airs(desk', desk'.wire, session, Live(desk))
  BY <1>2, <1>3, LiveIs, PopAirs
<1> QED BY <1>1, <1>3, <1>4, TearingDownAirs

(* The answers.                                                            *)

(* What the hub has carried out with the answer i: the invocation itself,  *)
(* and some of the others if the desktop disconnects.                      *)
Outcome(t, c, i) ==
  t = Carry(session, i) \/ t \in CarriedSome(Carry(session, i), c.wire)

(* The desk without the head of its wire, once the head is carried out.    *)
LEMMA HeardAirs ==
  ASSUME LiveInv, NEW c, NEW i, Answering(c, i), NEW t, Outcome(t, c, i)
  PROVE  /\ c \in Desk /\ i \in Invocations /\ c.wire \in Wire /\ Orderly(c, c.wire, PlayerOn)
         /\ i.party \in Party /\ i.attempt <= c.lastAttempt /\ Connected(c)
         /\ c.wire = Tail(desk.wire) /\ c.config = desk.config
         /\ c.step = desk.step /\ c.ready = desk.ready
         /\ SameRecord(desk, c)
         /\ desk.wire \in Wire /\ desk.wire # <<>> /\ i = Head(desk.wire)
         /\ Carry(session, i) \in Sessions
         /\ Airs(c, c.wire, t, Live(desk))
         /\ NoSourceStops =>
              /\ i.waiter \notin {"newProject", "stop"}
              /\ c.liveSession => StaysLive(i, c.config)
              /\ Running(c) /\ c.config.source = "aimp" /\ WillPublish(i, i.party) => i.live
<1> DEFINE on == Live(desk)
           s == Carry(session, i)
           w == desk.wire
<1>1. /\ desk \in Desk /\ w \in Wire /\ w # <<>> /\ i = Head(w) /\ session \in Sessions
      /\ c = [desk EXCEPT !.wire = Tail(@)] /\ Airs(desk, w, session, on)
  BY LiveIs DEF Answering
<1>2. /\ c \in Desk /\ i \in Invocations /\ Orderly(c, c.wire, PlayerOn)
      /\ i.party \in Party /\ i.attempt <= c.lastAttempt /\ Connected(c)
  BY AnsweringIs DEF LiveInv
<1>3. /\ c.wire = Tail(w) /\ c.config = desk.config /\ c.step = desk.step
      /\ c.ready = desk.ready /\ SameRecord(desk, c)
  BY <1>1 DEF Desk, SameRecord
<1>4. c.wire \in Wire /\ s \in Sessions
  BY <1>1, <1>2, CarryFits DEF Orderly
<1> HIDE DEF on
<1>5. /\ Airs(desk, Tail(w), s, on)
      /\ NoSourceStops =>
           /\ i.waiter \notin {"newProject", "stop"}
           /\ desk.liveSession => StaysLive(i, desk.config)
           /\ Running(desk) /\ desk.config.source = "aimp" /\ WillPublish(i, i.party) => i.live
  BY <1>1, HeadAirs
<1>6. Airs(c, c.wire, s, on)
  BY <1>3, <1>4, <1>5, AirsSame DEF Settling, Running
<1> HIDE DEF s
<1>7. Airs(c, c.wire, t, on)
  BY <1>2, <1>4, <1>6, LossAirs DEF Outcome, s
<1> QED BY <1>1, <1>2, <1>3, <1>4, <1>5, <1>7 DEF SameRecord, Running, on, s

(* A session has ended, another than the one on the air.                   *)
LEMMA EndAnswerAirs ==
  ASSUME LiveInv, NEW c, NEW i, Answering(c, i), i.op = "End", NEW t, Outcome(t, c, i)
  PROVE  LET e == Answered(c, i) IN Airs(e, e.wire, t, Live(desk)) /\ e.config = c.config
<1> DEFINE b == EndReturned(c, i)
           f == [b EXCEPT !.liveSession = FALSE]
           r == Invocation("Reset", i.party, "newProject")
           e == Answered(c, i)
           on == Live(desk)
<1>1. /\ c \in Desk /\ i \in Invocations /\ c.wire \in Wire /\ Orderly(c, c.wire, PlayerOn)
      /\ i.party \in Party /\ Airs(c, c.wire, t, on)
      /\ NoSourceStops => i.waiter # "newProject" /\ (c.liveSession => StaysLive(i, c.config))
  BY HeardAirs
<1> HIDE DEF on
<1>2. e = IF i.waiter = "newProject" THEN Invoke(f, r) ELSE b
  BY DEF Answered, ProjectGoes
<1>3. i.waiter = "teardown" =>
        /\ c.lifecycle # <<>> /\ c.lifecycle[1].at = "ending"
        /\ \A k \in DOMAIN c.wire : c.wire[k].waiter # "teardown"
  <2>1. i.waiter = "teardown" =>
          /\ c.lifecycle # <<>>
          /\ \A k \in DOMAIN c.wire : c.wire[k].waiter # "teardown"
    BY AnsweringWaits DEF LiveInv
  <2>2. i.waiter = "teardown" => desk.lifecycle[1].at = "ending"
    <3>1. TeardownsFit(desk, desk.wire) /\ i = desk.wire[1] /\ 1 \in DOMAIN desk.wire
      BY HeardAirs, LiveIs, TailIs DEF Orderly
    <3> QED BY <3>1 DEF TeardownsFit
  <2>3. c.lifecycle = desk.lifecycle
    BY HeardAirs DEF SameRecord
  <2> QED BY <2>1, <2>2, <2>3
<1>4. b.wire = c.wire /\ b \in Desk
  <2>1. Orderly(b, c.wire, PlayerOn) /\ b.wire = c.wire
    BY <1>1, <1>3, EndReturnedFits
  <2> QED BY <2>1 DEF Orderly
<1>5. NoSourceStops /\ c.liveSession => i.party # c.config.party
  BY <1>1 DEF StaysLive, Ends
<1>6. Airs(b, b.wire, t, on) /\ b.config = c.config
  BY <1>1, <1>3, <1>4, <1>5, EndReturnedAirs
<1> HIDE DEF b, e
<1>7. CASE i.waiter # "newProject"
  BY <1>2, <1>6, <1>7 DEF e, on
<1>8. CASE i.waiter = "newProject"
  <2>1. ~NoSourceStops
    BY <1>1, <1>8
  <2>2. r \in Invocations /\ ~IsStart(r)
    BY <1>1 DEF Invocation, Invocations, IsStart
  <2> HIDE DEF r
  <2>3. /\ f \in Desk /\ f.wire = b.wire /\ f.config = b.config
        /\ Records(b, f) /\ (Settling(f) => Settling(b))
    BY <1>4 DEF Desk, Records, Settling, Running
  <2>4. b.wire \in Wire /\ GoesOnAs(b.wire, b.wire)
    BY <1>4 DEF Desk, Wire, GoesOnAs, Fainter
  <2> HIDE DEF f
  <2>5. Airs(f, f.wire, t, on)
    BY <1>6, <2>1, <2>3, <2>4, AirsStay
  <2>6. LET m == Invoke(f, r) IN Airs(m, m.wire, t, on) /\ m.config = f.config
    BY <2>1, <2>2, <2>3, <2>5, InvokeAirs, InvokeIs DEF Akin
  <2> QED BY <1>2, <1>6, <1>8, <2>3, <2>6 DEF e, on
<1> QED BY <1>7, <1>8

(* The playback is reset, of another party than the one on the air.        *)
LEMMA ResetAnswerAirs ==
  ASSUME LiveInv, NEW c, NEW i, Answering(c, i), i.op = "Reset", NEW t, Outcome(t, c, i)
  PROVE  LET e == Answered(c, i) IN
         Airs(e, e.wire, t, Live(desk)) /\ (~ProjectGoes(i) => e.config = c.config)
<1> DEFINE on == Live(desk)
           e == Answered(c, i)
<1>1. /\ c \in Desk /\ i \in Invocations /\ c.wire \in Wire /\ Orderly(c, c.wire, PlayerOn)
      /\ i.party \in Party /\ Airs(c, c.wire, t, on)
      /\ NoSourceStops => i.waiter # "stop"
  BY HeardAirs
<1> HIDE DEF on
<1>2. e = CASE i.waiter = "teardown" ->
                 LET s == [c EXCEPT !.lifecycle = Tail(@)] IN
                 IF c.lifecycle[1].fresh THEN Disconnect(s) ELSE s
            [] i.waiter = "newProject" /\ Running(c) ->
                 TakeDown(c, c.config.source = "aimp" /\ Live(c))
            [] i.waiter = "stop" /\ Running(c) /\ c.ready ->
                 IF NothingToPublish(c) THEN c ELSE Publish(c, "stop")
            [] OTHER -> c
  BY DEF Answered, ProjectGoes
<1> HIDE DEF e
<1>3. CASE i.waiter = "teardown"
  <2> DEFINE s == [c EXCEPT !.lifecycle = Tail(@)]
  <2>1. /\ c.lifecycle # <<>>
        /\ c.lifecycle[1].fresh => ~Running(c)
        /\ \A k \in DOMAIN c.wire : c.wire[k].waiter # "teardown"
    BY <1>3, AnsweringWaits DEF LiveInv
  <2>2. Orderly(s, c.wire, PlayerOn) /\ Keeps(c, s) /\ s.wire = c.wire /\ s.inFlight = c.inFlight
    BY <1>1, <2>1, PopFits
  <2>3. Airs(s, s.wire, t, on)
    BY <1>1, <2>1, <2>2, PopAirs
  <2>4. e = IF c.lifecycle[1].fresh THEN Disconnect(s) ELSE s
    BY <1>2, <1>3
  <2> HIDE DEF s
  <2>5. CASE c.lifecycle[1].fresh
    <3>1. ~Running(s)
      BY <2>1, <2>2, <2>5 DEF Keeps, Running
    <3>2. Awaits(s, s.wire)
      BY <2>2, <3>1 DEF Awaits, Orderly, RestFits
    <3>3. LET m == Disconnect(s) IN Airs(m, m.wire, t, on) /\ m.config = s.config
      BY <2>2, <2>3, <3>1, <3>2, DisconnectAirs
    <3> QED BY <2>2, <2>4, <2>5, <3>3 DEF Keeps, e, on
  <2>6. CASE ~c.lifecycle[1].fresh
    BY <2>2, <2>3, <2>4, <2>6 DEF Keeps, e, on
  <2> QED BY <2>5, <2>6
<1>4. CASE i.waiter = "newProject" /\ Running(c)
  <2> DEFINE isLive == c.config.source = "aimp" /\ Live(c)
  <2>1. e = TakeDown(c, isLive)
    BY <1>2, <1>4
  <2> HIDE DEF isLive
  <2>2. Airs(e, e.wire, t, on)
    BY <1>1, <2>1, TakeDownAirs
  <2> QED BY <1>4, <2>2 DEF ProjectGoes, e, on
<1>5. CASE i.waiter = "stop" /\ Running(c) /\ c.ready /\ ~NothingToPublish(c)
  <2> DEFINE stop == "stop"
             m == Publish(c, stop)
  <2>1. e = m
    BY <1>2, <1>5
  <2>2. m.config = c.config
    BY <1>1 DEF Publish, Invoke, Desk
  <2>3. stop \in {"connect", "publish", "stop"} /\ (NoSourceStops => stop # "stop")
    BY <1>1, <1>5
  <2>4. sourceLive \in [Source -> BOOLEAN]
    BY LiveIs
  <2> HIDE DEF stop
  <2>5. Airs(m, m.wire, t, on)
    BY <1>1, <1>5, <2>3, <2>4, PublishAirs
  <2> QED BY <2>1, <2>2, <2>5 DEF e, on
<1>6. CASE /\ i.waiter # "teardown" /\ ~(i.waiter = "newProject" /\ Running(c))
           /\ ~(i.waiter = "stop" /\ Running(c) /\ c.ready /\ ~NothingToPublish(c))
  <2>1. e = c
    BY <1>2, <1>6
  <2> QED BY <1>1, <2>1 DEF e, on
<1> QED BY <1>3, <1>4, <1>5, <1>6

(* The first half of a publication: the second says the same.              *)
LEMMA NotifyAnswerAirs ==
  ASSUME LiveInv, NEW c, NEW i, Answering(c, i), i.op = "Notify", NEW t, Outcome(t, c, i)
  PROVE  LET e == Answered(c, i) IN Airs(e, e.wire, t, Live(desk)) /\ e.config = c.config
<1> DEFINE on == Live(desk)
           e == Answered(c, i)
           r == [i EXCEPT !.op = "Publish"]
<1>1. /\ c \in Desk /\ i \in Invocations /\ Airs(c, c.wire, t, on)
      /\ NoSourceStops =>
           /\ i.waiter \notin {"newProject", "stop"}
           /\ Running(c) /\ c.config.source = "aimp" /\ WillPublish(i, i.party) => i.live
  BY HeardAirs
<1> HIDE DEF on
<1>2. e = IF i.fresh /\ i.waiter \in {"connect", "publish", "stop"} THEN Invoke(c, r) ELSE c
  BY DEF Answered, ProjectGoes
<1>3. r \in Invocations /\ r.op = "Publish" /\ r.waiter = i.waiter /\ r.live = i.live
  BY <1>1 DEF Invocations
<1> HIDE DEF e, r
<1>4. CASE i.fresh /\ i.waiter \in {"connect", "publish", "stop"}
  <2>1. NoSourceStops =>
          /\ Running(c) => Harmless(r, c.config)
          /\ r.waiter \notin {"newProject", "stop"}
    BY <1>1, <1>3, <1>4 DEF Harmless, WillPublish
  <2>2. LET m == Invoke(c, r) IN Airs(m, m.wire, t, on) /\ m.config = c.config
    BY <1>1, <1>3, <2>1, InvokeAirs, InvokeIs DEF Akin, IsStart
  <2> QED BY <1>2, <1>4, <2>2 DEF e, on
<1>5. CASE ~(i.fresh /\ i.waiter \in {"connect", "publish", "stop"})
  BY <1>1, <1>2, <1>5 DEF e, on
<1> QED BY <1>4, <1>5

(* The second half: the attempt that waited for it publishes once more, or *)
(* is ready.                                                               *)
LEMMA PublishAnswerAirs ==
  ASSUME LiveInv, NEW c, NEW i, Answering(c, i), i.op = "Publish", NEW t, Outcome(t, c, i)
  PROVE  LET e == Answered(c, i) IN Airs(e, e.wire, t, Live(desk)) /\ e.config = c.config
<1> DEFINE on == Live(desk)
           e == Answered(c, i)
<1>1. c \in Desk /\ c.wire \in Wire /\ i \in Invocations /\ Airs(c, c.wire, t, on)
  BY HeardAirs
<1> HIDE DEF on
<1>2. e = IF i.waiter = "connect"
          THEN IF c.behind THEN Synchronize(c) ELSE BecomeReady(c)
          ELSE c
  BY DEF Answered, ProjectGoes
<1> HIDE DEF e
<1>3. CASE i.waiter = "connect"
  <2>1. Running(c) /\ c.step = "syncing"
    BY <1>3, AnsweringWaits DEF LiveInv, IsJoin
  <2>2. CASE c.behind
    <3> DEFINE m == Synchronize(c)
    <3>1. Claims(c, c.wire, on)
      BY <1>1, <2>1, SettlingClaims DEF Settling
    <3>2. Airs(m, m.wire, t, on)
      BY <1>1, <2>1, <3>1, LiveIs, SynchronizeAirs
    <3>3. m.config = c.config
      BY <1>1 DEF Synchronize, BecomeReady, Publish, Invoke, Desk
    <3> QED BY <1>2, <1>3, <2>2, <3>2, <3>3 DEF e, on
  <2>3. CASE ~c.behind
    <3> DEFINE m == BecomeReady(c)
    <3>1. SameRecord(c, m) /\ m.config = c.config /\ m.wire = c.wire
      BY <1>1 DEF BecomeReady, SameRecord, Desk
    <3> HIDE DEF m
    <3>2. Airs(m, m.wire, t, on)
      BY <1>1, <2>1, <3>1, AirsSame DEF Settling
    <3> QED BY <1>2, <1>3, <2>3, <3>1, <3>2 DEF e, on, m
  <2> QED BY <2>2, <2>3
<1>4. CASE i.waiter # "connect"
  BY <1>1, <1>2, <1>4 DEF e, on
<1> QED BY <1>3, <1>4

(* The orchestrator has joined: the pending starts are its own.            *)
LEMMA JoinClaims ==
  ASSUME LiveInv, NEW c, NEW i, Answering(c, i), i.op = "Join", i.waiter = "connect"
  PROVE  Claims(c, c.wire, Live(desk))
<1> DEFINE w == desk.wire
           on == Live(desk)
<1>1. /\ w \in Wire /\ w # <<>> /\ i = Head(w) /\ c.wire = Tail(w)
      /\ c.config = desk.config /\ Airs(desk, w, session, on)
  <2>1. Outcome(Carry(session, i), c, i)
    BY DEF Outcome
  <2>2. c.wire = Tail(w) /\ c.config = desk.config /\ w \in Wire /\ w # <<>> /\ i = Head(w)
    BY <2>1, HeardAirs
  <2> QED BY <2>2, LiveIs
<1> HIDE DEF on
<1>2. /\ i = w[1] /\ 1 \in DOMAIN w /\ DOMAIN w \subseteq Nat /\ DOMAIN Tail(w) \subseteq Nat
      /\ \A k \in DOMAIN Tail(w) : k + 1 \in DOMAIN w /\ Tail(w)[k] = w[k + 1] /\ k >= 1
  <2>1. DOMAIN w = 1 .. Len(w) /\ Len(w) \in Nat /\ Len(w) # 0
    BY <1>1 DEF Wire
  <2>2. DOMAIN Tail(w) = 1 .. (Len(w) - 1) /\ \A k \in 1 .. (Len(w) - 1) : Tail(w)[k] = w[k + 1]
    BY <1>1, <2>1 DEF Wire
  <2> QED BY <1>1, <2>1, <2>2
<1> SUFFICES ASSUME NEW k \in DOMAIN c.wire, Pending(c.wire[k])
             PROVE  /\ Running(c) /\ c.wire[k].party = c.config.party
                    /\ NoSourceStops =>
                         on /\ \A j \in DOMAIN c.wire : j > k => StaysLive(c.wire[j], c.config)
  BY DEF Claims, on
<1>3. k + 1 \in DOMAIN w /\ c.wire[k] = w[k + 1] /\ 1 < k + 1
  BY <1>1, <1>2
<1>4. Ours(desk, w, k + 1)
  BY <1>2, <1>3 DEF Ours, IsJoin
<1>5. Running(desk) /\ w[k + 1].party = desk.config.party
  BY <1>1, <1>3, <1>4 DEF Airs, NumbersFit
<1>6. NoSourceStops => on /\ \A j \in DOMAIN w : j > k + 1 => StaysLive(w[j], desk.config)
  BY <1>1, <1>3, <1>4 DEF Airs, OursFit
<1>7. NoSourceStops => on /\ \A j \in DOMAIN c.wire : j > k => StaysLive(c.wire[j], c.config)
  <2> SUFFICES ASSUME NoSourceStops, NEW j \in DOMAIN c.wire, j > k
               PROVE  StaysLive(c.wire[j], c.config)
    BY <1>6
  <2>1. j + 1 \in DOMAIN w /\ c.wire[j] = w[j + 1] /\ j + 1 > k + 1
    BY <1>1, <1>2
  <2> QED BY <1>1, <1>6, <2>1
<1> QED BY <1>1, <1>3, <1>5, <1>7 DEF Running

(* It starts its session, or publishes.                                    *)
LEMMA JoinedAirs ==
  ASSUME sourceLive \in [Source -> BOOLEAN],
         NEW d, Orderly(d, d.wire, PlayerOn), Connected(d), d.step = "joining",
         d.currentParty = d.config.party,
         \A k \in DOMAIN d.wire : d.wire[k].waiter # "connect",
         NEW s, NEW on, on = Live(d), Airs(d, d.wire, s, on), Claims(d, d.wire, on)
  PROVE  LET e == Joined(d) IN Airs(e, e.wire, s, on) /\ e.config = d.config
<1> DEFINE c == [d EXCEPT !.subscribed = TRUE]
           a == [c EXCEPT !.step = "starting"]
           live == c.liveSession /\ Live(d)
           b == [c EXCEPT !.liveSession = live]
           e == Joined(d)
           Same(x) ==
             /\ x \in Desk /\ x.subscribed
             /\ x.config = d.config /\ x.ready = d.ready /\ x.blocked = d.blocked
             /\ x.behind = d.behind /\ x.coalescing = d.coalescing
             /\ x.lastAttempt = d.lastAttempt /\ x.inFlight = d.inFlight /\ x.active = d.active
             /\ x.handled = d.handled /\ x.late = d.late /\ x.lifecycle = d.lifecycle
             /\ x.link = d.link /\ x.currentParty = d.currentParty /\ x.wire = d.wire
             /\ x.timer = d.timer
<1>1. d \in Desk /\ Running(d) /\ d.wire \in Wire
  BY DEF Orderly, RestFits
<1>2. e = IF on /\ ~d.liveSession THEN StartSession(a, d.config.party, "nobody")
          ELSE Synchronize(b)
  BY DEF Joined
<1>3. /\ Same(a) /\ a.step = "starting" /\ a.liveSession = d.liveSession
      /\ Same(b) /\ b.step = "joining" /\ (b.liveSession => d.liveSession)
  <2>1. Live(d) \in BOOLEAN
    BY DEF Live
  <2>2. Same(c) /\ c.liveSession = d.liveSession /\ c.step = "joining"
    BY <1>1 DEF Desk
  <2>3. live \in BOOLEAN /\ (live => d.liveSession)
    BY <2>1, <2>2 DEF Desk
  <2> HIDE DEF c, live
  <2>4. Same(a) /\ a.step = "starting" /\ a.liveSession = d.liveSession
    BY <2>2, ZenonT(60) DEF Desk, Steps
  <2>5. Same(b) /\ b.step = "joining"
    BY <2>2, <2>3, ZenonT(60) DEF Desk
  <2>6. b.liveSession = live
    BY <2>2 DEF Desk
  <2> QED BY <2>3, <2>4, <2>5, <2>6
<1> HIDE DEF a, b, c, e
<1>4. CASE on /\ ~d.liveSession
  <2> DEFINE nobody == "nobody"
             m == StartSession(a, a.config.party, nobody)
  <2>1. e = m
    BY <1>2, <1>3, <1>4
  <2>2. SameRecord(d, a) /\ Akin(d, a) /\ Running(a)
    BY <1>1, <1>3 DEF SameRecord, Akin, Running
  <2>3. Airs(a, a.wire, s, on) /\ Claims(a, a.wire, on)
    BY <1>3, <2>2, ClaimsStay
  <2>4. RestFits(a) /\ LinkFits(a) /\ PartyFits(a)
    BY <1>1, <1>3 DEF RestFits, LinkFits, PartyFits, Running, Connected, Settling
  <2>5. Orderly(a, a.wire, PlayerOn)
    BY <1>3, <2>2, <2>4, FreeFits
  <2>6. nobody \in {"nobody", "sync"}
    OBVIOUS
  <2> HIDE DEF nobody
  <2>7. Airs(m, m.wire, s, on)
    BY <1>3, <1>4, <2>2, <2>3, <2>5, <2>6, StartSessionAirs
  <2>8. m.config = a.config
    BY <1>3 DEF StartSession, Invoke, Desk
  <2> QED BY <1>3, <2>1, <2>7, <2>8 DEF e
<1>5. CASE ~(on /\ ~d.liveSession)
  <2> DEFINE m == Synchronize(b)
  <2>1. e = m
    BY <1>2, <1>5
  <2>2. GoesOnAs(d.wire, d.wire) /\ Records(d, b) /\ Running(b)
    BY <1>1, <1>3 DEF GoesOnAs, Fainter, Records, Running, Wire
  <2>3. Settling(b) => Settling(d)
    BY <1>1, <1>3 DEF Settling, Running
  <2>4. Airs(b, b.wire, s, on)
    BY <1>1, <1>3, <2>2, <2>3, AirsStay
  <2>5. Claims(b, b.wire, on)
    BY <1>3 DEF Claims, Running
  <2>6. Airs(m, m.wire, s, on)
    BY <1>3, <2>2, <2>4, <2>5, SynchronizeAirs
  <2>7. m.config = b.config
    BY <1>3 DEF Synchronize, BecomeReady, Publish, Invoke, Desk
  <2> QED BY <1>3, <2>1, <2>6, <2>7 DEF e
<1> QED BY <1>4, <1>5

(* A join is answered.                                                     *)
LEMMA JoinAnswerAirs ==
  ASSUME LiveInv, NEW c, NEW i, Answering(c, i), i.op = "Join", NEW t, Outcome(t, c, i)
  PROVE  LET e == Answered(c, i) IN Airs(e, e.wire, t, Live(desk)) /\ e.config = c.config
<1> DEFINE s == [c EXCEPT !.currentParty = i.party]
           e == Answered(c, i)
           on == Live(desk)
<1>1. /\ c \in Desk /\ i \in Invocations /\ c.wire \in Wire /\ Orderly(c, c.wire, PlayerOn)
      /\ i.party \in Party /\ Airs(c, c.wire, t, on) /\ c.config = desk.config /\ Connected(c)
  BY HeardAirs
<1>2. sourceLive \in [Source -> BOOLEAN] /\ StreamingInv
  BY LiveIs DEF LiveInv
<1>3. on = Live(c)
  BY <1>1 DEF Live, Running
<1> HIDE DEF on
<1>4. e = CASE i.waiter = "connect" -> Joined(s)
            [] i.waiter = "rejoin" ->
                 IF Running(c) /\ c.config.party = c.currentParty THEN Recover(c, FALSE) ELSE c
            [] i.waiter = "nobody" -> s
            [] OTHER -> c
  BY DEF Answered, ProjectGoes
<1>5. /\ SameRecord(c, s) /\ s.config = c.config /\ s.wire = c.wire /\ s.step = c.step
      /\ s.ready = c.ready /\ s.link = c.link /\ s.currentParty = i.party
  BY <1>1 DEF Desk, SameRecord
<1> HIDE DEF s, e
<1>6. Airs(s, s.wire, t, on)
  BY <1>1, <1>5, AirsSame DEF Settling, Running
<1>7. CASE i.waiter = "connect"
  <2>1. /\ Running(c) /\ c.step = "joining" /\ i.party = c.config.party
        /\ \A k \in DOMAIN c.wire : c.wire[k].waiter # "connect"
    BY <1>2, <1>7, AnsweringWaits DEF Publishes
  <2>2. Claims(c, c.wire, on)
    BY <1>7, JoinClaims DEF on
  <2>3. Claims(s, s.wire, on)
    BY <1>5, <2>2 DEF Claims, Running
  <2>4. Settling(c) => i.party = c.config.party
    BY <2>1
  <2>5. Orderly(s, s.wire, PlayerOn)
    BY <1>1, <1>5, <2>4, PartyTurnsFits DEF s
  <2>6. Connected(s) /\ on = Live(s)
    BY <1>1, <1>3, <1>5 DEF Connected, Live, Running
  <2>7. LET m == Joined(s) IN Airs(m, m.wire, t, on) /\ m.config = s.config
    BY <1>2, <1>5, <1>6, <2>1, <2>3, <2>5, <2>6, JoinedAirs
  <2> QED BY <1>4, <1>5, <1>7, <2>7 DEF e, on
<1>8. CASE i.waiter = "rejoin"
  <2> DEFINE no == FALSE
             m == Recover(c, no)
  <2>1. no \in BOOLEAN
    OBVIOUS
  <2>2. e \in {c, Recover(c, FALSE)}
    BY <1>4, <1>8
  <2> HIDE DEF no
  <2>3. Airs(m, m.wire, t, on) /\ m.config = c.config
    BY <1>1, <2>1, RecoverAirs
  <2> QED BY <1>1, <2>2, <2>3 DEF e, on, no
<1>9. CASE i.waiter \notin {"connect", "rejoin"}
  <2>1. e \in {c, s}
    BY <1>4, <1>9
  <2> QED BY <1>1, <1>5, <1>6, <2>1 DEF e, on
<1> QED BY <1>7, <1>8, <1>9

(* A start at the head of the wire, and what is behind it.                 *)
LEMMA HeadStartIs ==
  ASSUME LiveInv, NEW c, NEW i, Answering(c, i), i.op = "Start"
  PROVE  /\ c \in Desk /\ i \in Invocations /\ c.wire \in Wire /\ Connected(c)
         /\ Orderly(c, c.wire, PlayerOn) /\ Airs(c, c.wire, Carry(session, i), Live(desk))
         /\ c.config = desk.config
         /\ i.party \in Party /\ i.attempt \in Nat /\ i.attempt # 0
         /\ i.attempt <= c.lastAttempt /\ i.waiter \in {"nobody", "sync"}
         /\ c.inFlight \in {0, c.lastAttempt}
         /\ i.timedOut => i.attempt # c.inFlight
         /\ ~i.timedOut =>
              /\ i.attempt = c.inFlight /\ i.attempt \notin c.handled
              /\ \A k \in DOMAIN c.wire : ~Pending(c.wire[k])
         /\ \A k \in DOMAIN c.wire : IsStart(c.wire[k]) => c.wire[k].attempt # i.attempt
         /\ NoSourceStops /\ c.liveSession =>
              /\ c.inFlight = 0 /\ c.config.party \in Party
              /\ i.party = c.config.party => i.attempt < c.active[i.party]
         /\ ~i.timedOut /\ (i.waiter = "sync" \/ c.step = "starting") =>
              /\ Running(c) /\ i.party = c.config.party
              /\ NoSourceStops =>
                   Live(desk) /\ \A k \in DOMAIN c.wire : StaysLive(c.wire[k], c.config)
<1> DEFINE w == desk.wire
           on == Live(desk)
<1>1. /\ c \in Desk /\ i \in Invocations /\ c.wire \in Wire /\ Connected(c)
      /\ Orderly(c, c.wire, PlayerOn) /\ Airs(c, c.wire, Carry(session, i), on)
      /\ c.config = desk.config /\ i.party \in Party /\ i.attempt <= c.lastAttempt
      /\ c.wire = Tail(w) /\ w \in Wire /\ w # <<>> /\ i = Head(w)
      /\ c.step = desk.step /\ c.ready = desk.ready /\ SameRecord(desk, c)
  <2>1. Outcome(Carry(session, i), c, i)
    BY DEF Outcome
  <2> QED BY <2>1, HeardAirs
<1>2. Airs(desk, w, session, on) /\ Orderly(desk, w, PlayerOn)
  BY LiveIs
<1> HIDE DEF on
<1>3. /\ i = w[1] /\ 1 \in DOMAIN w
      /\ \A k \in DOMAIN c.wire : k + 1 \in DOMAIN w /\ c.wire[k] = w[k + 1] /\ k + 1 > 1
  <2>1. i = w[1] /\ 1 \in DOMAIN w
    BY <1>1, TailIs
  <2>2. \A k \in DOMAIN c.wire : k + 1 \in DOMAIN w /\ c.wire[k] = w[k + 1] /\ k \in Nat /\ k >= 1
    BY <1>1, TailIs DEF Wire
  <2> QED BY <2>1, <2>2
<1>4. IsStart(i)
  BY DEF IsStart
<1>5. /\ i.attempt \in Nat /\ i.attempt # 0 /\ i.waiter \in {"nobody", "sync"}
      /\ i.timedOut => i.attempt # c.inFlight
  BY <1>1, <1>2, <1>3, <1>4 DEF Orderly, StartsFit, SameRecord, Invocations
<1>6. \A k \in DOMAIN c.wire : IsStart(c.wire[k]) => c.wire[k].attempt # i.attempt
  BY <1>1, <1>2, <1>4, HeadIsAlone
<1>7. c.inFlight \in {0, c.lastAttempt} /\ c.inFlight \notin c.handled
  BY <1>1, <1>2 DEF Airs, NumbersFit, SameRecord
<1>8. ~i.timedOut => i.attempt = c.inFlight
  BY <1>1, <1>2, <1>3, <1>4 DEF Airs, NumbersFit, Pending, SameRecord
<1>9. ~i.timedOut => \A k \in DOMAIN c.wire : ~Pending(c.wire[k])
  BY <1>1, <1>6, <1>8 DEF Airs, NumbersFit, Pending
<1>10. NoSourceStops /\ c.liveSession =>
              /\ c.inFlight = 0 /\ c.config.party \in Party
              /\ i.party = c.config.party => i.attempt < c.active[i.party]
  BY <1>1, <1>2, <1>3, <1>4 DEF Airs, AirFits, SameRecord, Running, Desk, Config
<1>11. ASSUME ~i.timedOut, i.waiter = "sync" \/ c.step = "starting"
       PROVE  /\ Running(c) /\ i.party = c.config.party
              /\ NoSourceStops =>
                   on /\ \A k \in DOMAIN c.wire : StaysLive(c.wire[k], c.config)
  <2>1. c.step = "starting" => Settling(desk)
    BY <1>1, <1>2 DEF Orderly, RestFits, Settling
  <2>2. Ours(desk, w, 1)
    BY <1>3, <1>4, <1>11, <2>1 DEF Ours, Pending
  <2>3. Running(c) /\ i.party = c.config.party
    BY <1>1, <1>2, <1>3, <2>2 DEF Airs, NumbersFit, Running
  <2>4. NoSourceStops => on /\ \A j \in DOMAIN w : j > 1 => StaysLive(w[j], desk.config)
    BY <1>2, <1>3, <2>2 DEF Airs, OursFit
  <2> QED BY <1>1, <1>3, <2>3, <2>4
<1> QED BY <1>1, <1>5, <1>6, <1>7, <1>8, <1>9, <1>10, <1>11 DEF on

(* A start that was given up has come late: it is ended, or left to the    *)
(* newer one, or a teardown has ended it.                                  *)
LEMMA LateStartAirs ==
  ASSUME LiveInv, NEW c, NEW i, Answering(c, i), i.op = "Start", i.timedOut,
         NEW t, Outcome(t, c, i)
  PROVE  LET e == StartArrives(c, i) IN Airs(e, e.wire, t, Live(desk)) /\ e.config = c.config
<1> DEFINE e == StartArrives(c, i)
           a == i.attempt
           w == c.wire
           on == Live(desk)
<1>1. /\ c \in Desk /\ i \in Invocations /\ w \in Wire /\ Connected(c)
      /\ Orderly(c, w, PlayerOn) /\ i.party \in Party /\ a \in Nat /\ a # 0
      /\ a <= c.lastAttempt /\ c.inFlight \in {0, c.lastAttempt} /\ a # c.inFlight
      /\ NoSourceStops /\ c.liveSession =>
           /\ c.inFlight = 0
           /\ i.party = c.config.party => a < c.active[i.party]
  BY HeadStartIs
<1>2. Airs(c, w, t, on)
  BY HeardAirs
<1>3. \A p \in Party : c.active[p] \in Nat
  BY <1>1 DEF Desk
<1> HIDE DEF on
<1>4. CASE a \in c.handled
  <2> DEFINE h == c.handled \ {a}
  <2>1. e = [c EXCEPT !.handled = h]
    BY <1>4 DEF StartArrives
  <2> HIDE DEF e
  <2>2. /\ e.handled = h /\ e.config = c.config /\ e.wire = w /\ e.step = c.step
        /\ e.ready = c.ready /\ e.lastAttempt = c.lastAttempt /\ e.inFlight = c.inFlight
        /\ e.active = c.active /\ e.late = c.late /\ e.lifecycle = c.lifecycle
        /\ e.liveSession = c.liveSession
    BY <1>1, <2>1 DEF Desk
  <2>3. GoesOnAs(w, w) /\ Records(c, e) /\ (Settling(e) => Settling(c))
    BY <1>1, <2>2 DEF GoesOnAs, Fainter, Records, Settling, Running
  <2>4. Airs(e, w, t, on)
    BY <1>1, <1>2, <2>2, <2>3, AirsStay
  <2> QED BY <2>2, <2>4 DEF e, on
<1>5. CASE /\ a \notin c.handled
           /\ c.active[i.party] <= a /\ StartPending(c, i.party) /\ c.inFlight > a
  <2> DEFINE l == [party |-> i.party, attempt |-> a, fresh |-> i.fresh, newer |-> c.inFlight]
             s == c.late \cup {l}
  <2>1. e = [c EXCEPT !.late = s]
    BY <1>5 DEF StartArrives
  <2> HIDE DEF e, s
  <2>2. /\ e.handled = c.handled /\ e.config = c.config /\ e.wire = w /\ e.step = c.step
        /\ e.ready = c.ready /\ e.lastAttempt = c.lastAttempt /\ e.inFlight = c.inFlight
        /\ e.active = c.active /\ e.late = s /\ e.lifecycle = c.lifecycle
        /\ e.liveSession = c.liveSession
    BY <1>1, <2>1 DEF Desk
  <2>3. c.inFlight = c.lastAttempt /\ a < c.lastAttempt /\ c.inFlight # 0
    BY <1>1, <1>5 DEF Desk
  <2>4. \A m \in s : m.attempt < c.lastAttempt
    BY <1>2, <2>3 DEF Airs, NumbersFit, s
  <2>5. \A k \in DOMAIN w : Ours(e, w, k) <=> Ours(c, w, k)
    BY <2>2 DEF Ours, Settling, Running
  <2>6. NumbersFit(e, w)
    BY <1>2, <2>2, <2>4, <2>5 DEF Airs, NumbersFit, Running
  <2>7. NoSourceStops => ~e.liveSession
    BY <1>1, <2>2, <2>3
  <2>8. NoSourceStops => OursFit(e, w, on) /\ WordsFit(e, w)
    BY <1>2, <2>2, <2>5 DEF Airs, OursFit, WordsFit, Running
  <2>9. Airs(e, w, t, on)
    BY <2>6, <2>7, <2>8 DEF Airs, AirFits
  <2> QED BY <2>2, <2>9 DEF e, on
<1>6. CASE /\ a \notin c.handled
           /\ ~(c.active[i.party] <= a /\ StartPending(c, i.party) /\ c.inFlight > a)
  <2>1. e = EndLate(c, {i})
    BY <1>6 DEF StartArrives
  <2>2. Starts({i})
    BY <1>1, FS_Singleton DEF Starts, Invocations
  <2> HIDE DEF e
  <2>3. PICK q \in Wire :
          /\ \A k \in DOMAIN q : IsLateEnd(q[k])
          /\ \A k \in DOMAIN q : q[k].party = i.party /\ c.active[i.party] <= a
          /\ e = [c EXCEPT !.wire = w \o q]
    <3> DEFINE one == {i}
               m == EndLate(c, one)
    <3>1. Starts(one) /\ e = m /\ \A l \in one : l = i
      BY <2>1, <2>2
    <3> HIDE DEF one
    <3>2. \E q \in Wire :
            /\ \A k \in DOMAIN q : IsLateEnd(q[k])
            /\ \A k \in DOMAIN q : \E l \in one :
                 q[k].party = l.party /\ c.active[l.party] <= l.attempt
            /\ m = [c EXCEPT !.wire = c.wire \o q]
      BY <1>1, <3>1, EndLateIs
    <3> HIDE DEF m
    <3> QED BY <3>1, <3>2
  <2> DEFINE u == w \o q
  <2>4. /\ u \in Wire
        /\ \A k \in DOMAIN w : k \in DOMAIN u /\ u[k] = w[k]
        /\ \A k \in DOMAIN u : k \in DOMAIN w \/
             (IsLateEnd(u[k]) /\ u[k].party = i.party /\ c.active[i.party] <= a)
    <3>1. /\ u \in Wire
          /\ \A k \in DOMAIN w : k \in DOMAIN u /\ u[k] = w[k]
          /\ \A k \in DOMAIN q : k + Len(w) \in DOMAIN u /\ u[k + Len(w)] = q[k]
          /\ \A k \in DOMAIN u :
               \/ k \in DOMAIN w
               \/ k - Len(w) \in DOMAIN q /\ k = (k - Len(w)) + Len(w)
      BY <1>1, JointIs
    <3> HIDE DEF u
    <3>2. ASSUME NEW k \in DOMAIN u, k \notin DOMAIN w
          PROVE  IsLateEnd(u[k]) /\ u[k].party = i.party /\ c.active[i.party] <= a
      <4> DEFINE m == k - Len(w)
      <4>1. m \in DOMAIN q /\ k = m + Len(w)
        BY <3>1, <3>2
      <4> HIDE DEF m
      <4> QED BY <2>3, <3>1, <4>1
    <3> QED BY <3>1, <3>2
  <2> HIDE DEF u
  <2>5. /\ e.handled = c.handled /\ e.config = c.config /\ e.wire = u /\ e.step = c.step
        /\ e.ready = c.ready /\ e.lastAttempt = c.lastAttempt /\ e.inFlight = c.inFlight
        /\ e.active = c.active /\ e.late = c.late /\ e.lifecycle = c.lifecycle
        /\ e.liveSession = c.liveSession
    BY <1>1, <2>3 DEF Desk, u
  <2>6. GoesOnAs(w, u)
    BY <2>4 DEF GoesOnAs, Fainter, IsLateEnd, IsStart
  <2>7. Records(c, e) /\ (Settling(e) => Settling(c))
    BY <2>5 DEF Records, Settling, Running
  <2>8. NumbersFit(e, u)
    BY <1>1, <1>2, <2>4, <2>5, <2>6, <2>7, NumbersStay DEF Airs
  <2>9. ASSUME NoSourceStops
        PROVE  OursFit(e, u, on) /\ AirFits(e, u, t, on) /\ WordsFit(e, u)
    <3>1. OursFit(c, w, on) /\ AirFits(c, w, t, on) /\ WordsFit(c, w) /\ NumbersFit(c, w)
      BY <1>2, <2>9 DEF Airs
    <3>2. ASSUME NEW k \in DOMAIN u, Ours(e, u, k)
          PROVE  on /\ \A j \in DOMAIN u : j > k => StaysLive(u[j], e.config)
      <4>1. k \in DOMAIN w /\ Ours(c, w, k)
        BY <1>1, <2>4, <2>6, <2>7, <3>2, OursWere
      <4>2. on /\ (\A j \in DOMAIN w : j > k => StaysLive(w[j], c.config))
        BY <3>1, <4>1 DEF OursFit
      <4>3. Pending(w[k]) /\ w[k].party = c.config.party /\ w[k].attempt = c.inFlight
        BY <3>1, <4>1 DEF NumbersFit, Ours
      <4>4. c.inFlight # 0
        <5>1. w[k].attempt > 0
          BY <1>1, <4>1, <4>3 DEF Orderly, StartsFit, Pending
        <5> QED BY <4>3, <5>1
      <4>5. c.inFlight > a
        BY <1>1, <4>4 DEF Desk
      <4>6. i.party = c.config.party => StartPending(c, i.party)
        BY <4>1, <4>3 DEF StartPending, Pending, IsStart
      <4>7. i.party = c.config.party => ~(c.active[i.party] <= a)
        BY <1>6, <4>5, <4>6
      <4>8. \A j \in DOMAIN u : j \notin DOMAIN w => StaysLive(u[j], e.config)
        BY <2>4, <2>5, <4>7 DEF StaysLive, Ends, IsLateEnd
      <4> QED BY <2>4, <2>5, <4>2, <4>8
    <3>3. OursFit(e, u, on)
      BY <3>2 DEF OursFit
    <3>4. AirFits(e, u, t, on)
      <4> SUFFICES ASSUME c.liveSession PROVE AirFits(e, u, t, on)
        BY <2>5 DEF AirFits
      <4>1. i.party = c.config.party => ~(c.active[i.party] <= a)
        BY <1>1, <1>3, <2>9
      <4>2. \A j \in DOMAIN u : j \notin DOMAIN w => StaysLive(u[j], e.config) /\ ~IsStart(u[j])
        BY <2>4, <2>5, <4>1 DEF StaysLive, Ends, IsLateEnd, IsStart
      <4> QED BY <2>4, <2>5, <3>1, <4>2 DEF AirFits, Running
    <3>5. WordsFit(e, u)
      <4>1. \A k \in DOMAIN u : \/ k \in DOMAIN w /\ u[k] = w[k]
                                \/ u[k].waiter = "late" /\ u[k].op = "End"
        BY <2>4 DEF IsLateEnd
      <4> QED BY <2>5, <3>1, <4>1 DEF WordsFit, WillPublish, Running
    <3> QED BY <3>3, <3>4, <3>5
  <2>10. Airs(e, u, t, on)
    BY <2>8, <2>9 DEF Airs
  <2> QED BY <2>5, <2>10 DEF e, on
<1> QED BY <1>4, <1>5, <1>6

(* The session that a pending start has brought is on the air.             *)
LEMMA StartedAirs ==
  ASSUME LiveInv, NEW c, NEW i, Answering(c, i), i.op = "Start", ~i.timedOut,
         NEW t, Outcome(t, c, i), NEW m, m \in Desk, m.wire = c.wire,
         m.config = c.config, m.inFlight = 0, m.lastAttempt = c.lastAttempt,
         m.handled = c.handled, m.late \subseteq c.late,
         m.active = [c.active EXCEPT ![i.party] = i.attempt],
         DOMAIN m.lifecycle = DOMAIN c.lifecycle,
         \A k \in DOMAIN m.lifecycle :
           /\ m.lifecycle[k].at = c.lifecycle[k].at
           /\ m.lifecycle[k].pending => c.lifecycle[k].pending,
         m.liveSession => c.liveSession \/ i.waiter = "sync" \/ c.step = "starting"
  PROVE  Airs(m, m.wire, t, Live(desk))
<1> DEFINE w == c.wire
           on == Live(desk)
           a == i.attempt
           s == Carry(session, i)
           p == c.config.party
<1>1. /\ c \in Desk /\ w \in Wire /\ Orderly(c, w, PlayerOn) /\ Airs(c, w, s, on)
      /\ i \in Invocations /\ a # 0 /\ a = c.inFlight /\ a = c.lastAttempt /\ a \notin c.handled
      /\ \A k \in DOMAIN w : ~Pending(w[k])
      /\ \A k \in DOMAIN w : IsStart(w[k]) => w[k].attempt # a
      /\ NoSourceStops /\ c.liveSession => c.inFlight = 0
      /\ i.waiter = "sync" \/ c.step = "starting" =>
           /\ Running(c) /\ i.party = p
           /\ NoSourceStops => on /\ \A k \in DOMAIN w : StaysLive(w[k], c.config)
  BY HeadStartIs
<1>2. session \in Sessions /\ s \in Sessions
  BY <1>1, LiveIs, CarryFits
<1> HIDE DEF on
<1>3. \A k \in DOMAIN w : ~Ours(m, w, k)
  BY <1>1 DEF Ours
<1>4. NumbersFit(m, w)
  <2>1. 0 \notin m.handled
    BY <1>1 DEF Orderly, AttemptsFit
  <2>2. \A l \in m.late : l.attempt < m.lastAttempt
    BY <1>1 DEF Airs, NumbersFit
  <2>3. \A k \in DOMAIN m.lifecycle : m.lifecycle[k].at = "ending" => ~m.lifecycle[k].pending
    BY <1>1 DEF Airs, NumbersFit
  <2> QED BY <1>1, <1>3, <2>1, <2>2, <2>3 DEF NumbersFit
<1>5. ASSUME NoSourceStops
      PROVE  OursFit(m, w, on) /\ AirFits(m, w, s, on) /\ WordsFit(m, w)
  <2>1. WordsFit(m, w)
    BY <1>1, <1>5 DEF Airs, WordsFit, Running
  <2>2. AirFits(m, w, s, on)
    <3> SUFFICES ASSUME m.liveSession PROVE AirFits(m, w, s, on)
      BY DEF AirFits
    <3>1. /\ Running(m) /\ i.party = p /\ on
          /\ \A k \in DOMAIN w : StaysLive(w[k], m.config)
      BY <1>1, <1>5 DEF Running
    <3>2. p \in Party /\ a \in Nat /\ m.active[p] = a
      BY <1>1, <3>1 DEF Desk, Running, Config, Invocations
    <3>3. \A k \in DOMAIN w : IsStart(w[k]) /\ w[k].party = p => w[k].attempt < m.active[p]
      <4> SUFFICES ASSUME NEW k \in DOMAIN w, IsStart(w[k]) PROVE w[k].attempt < a
        BY <3>2
      <4>1. w[k] \in Invocations
        BY <1>1 DEF Wire
      <4>2. w[k].attempt \in Nat /\ w[k].attempt <= a /\ w[k].attempt # a
        BY <1>1, <4>1 DEF Orderly, AttemptsFit, Invocations
      <4> QED BY <3>2, <4>2
    <3>4. \A l \in m.late : l.attempt < m.active[p]
      BY <1>1, <3>2 DEF Airs, NumbersFit
    <3>5. s[p] # NoSession /\ s[p].active /\ s[p].mode = "Session"
      <4>1. session[p] \in Session \cup {NoSession} /\ i.op = "Start"
        BY <1>2, <3>2 DEF Sessions
      <4>2. s[p] = Started(session[p], TRUE)
        BY <1>2, <3>1, <3>2 DEF Carry, Sessions
      <4>3. Started(session[p], TRUE) \in Session /\ Started(session[p], TRUE).active
            /\ Started(session[p], TRUE).mode = "Session"
        BY <4>1 DEF Started, Session, Mode, Status
      <4> QED BY <4>2, <4>3, NoSessionAssumption
    <3> QED BY <3>1, <3>3, <3>4, <3>5 DEF AirFits
  <2> QED BY <1>3, <2>1, <2>2 DEF OursFit
<1>6. Airs(m, w, s, on)
  BY <1>4, <1>5 DEF Airs
<1> HIDE DEF s
<1>7. Airs(m, w, t, on)
  BY <1>1, <1>2, <1>6, LossAirs DEF Outcome, s
<1> QED BY <1>7 DEF on

(* A start is answered.                                                    *)
LEMMA StartAnswerAirs ==
  ASSUME LiveInv, NEW c, NEW i, Answering(c, i), i.op = "Start", NEW t, Outcome(t, c, i)
  PROVE  LET e == Answered(c, i) IN Airs(e, e.wire, t, Live(desk)) /\ e.config = c.config
<1> DEFINE b == StartArrives(c, i)
           a == i.attempt
           m == Settle(b, a, TRUE)
           late == {l \in m.late : l.newer # a}
           live == m.liveSession \/ i.waiter = "sync"
           n == [m EXCEPT !.late = late, !.liveSession = live]
           f == [n EXCEPT !.liveSession = TRUE]
           e == Answered(c, i)
           on == Live(desk)
<1>1. /\ c \in Desk /\ i \in Invocations /\ c.wire \in Wire /\ i.party \in Party /\ a \in Nat
      /\ Orderly(c, c.wire, PlayerOn) /\ a # 0
      /\ ~i.timedOut => a = c.inFlight /\ a \notin c.handled
                        /\ \A k \in DOMAIN c.wire : ~Pending(c.wire[k])
  BY HeadStartIs
<1>2. e = CASE i.timedOut -> b
            [] ~i.timedOut /\ c.step = "starting" /\ c.inFlight = a -> Synchronize(f)
            [] OTHER -> n
  BY DEF Answered, StartSucceeds, ProjectGoes
<1> HIDE DEF on, e
<1>3. CASE i.timedOut
  <2>1. Airs(b, b.wire, t, on) /\ b.config = c.config
    BY <1>3, LateStartAirs DEF on
  <2> HIDE DEF b
  <2> QED BY <1>2, <1>3, <2>1 DEF e, on
<1>4. CASE ~i.timedOut
  <2>1. b = [c EXCEPT !.active[i.party] = a]
    BY <1>1, <1>4 DEF StartArrives
  <2> HIDE DEF b
  <2>2. /\ b \in Desk /\ b.config = c.config /\ b.wire = c.wire /\ b.step = c.step
        /\ b.inFlight = c.inFlight /\ b.lastAttempt = c.lastAttempt /\ b.handled = c.handled
        /\ b.late = c.late /\ b.lifecycle = c.lifecycle /\ b.liveSession = c.liveSession
        /\ b.active = [c.active EXCEPT ![i.party] = a]
    BY <1>1, <2>1 DEF Desk
  <2>3. /\ m \in Desk /\ m.config = b.config /\ m.wire = b.wire /\ m.step = b.step
        /\ Settles(b, m, a) /\ m.late = b.late
    <3> DEFINE yes == TRUE
               g == Settle(b, a, yes)
    <3>1. yes \in BOOLEAN
      OBVIOUS
    <3> HIDE DEF yes
    <3>2. /\ g \in Desk /\ g.config = b.config /\ g.wire = b.wire /\ g.step = b.step
          /\ Settles(b, g, a) /\ g.late = b.late
      BY <2>2, <3>1, SettleIs
    <3> QED BY <3>2 DEF yes
  <2> HIDE DEF m
  <2> DEFINE From(x) ==
        /\ x \in Desk /\ x.wire = c.wire /\ x.config = c.config /\ x.inFlight = 0
        /\ x.lastAttempt = c.lastAttempt /\ x.handled = c.handled /\ x.late \subseteq c.late
        /\ x.active = [c.active EXCEPT ![i.party] = a]
        /\ DOMAIN x.lifecycle = DOMAIN c.lifecycle
        /\ \A k \in DOMAIN x.lifecycle :
             /\ x.lifecycle[k].at = c.lifecycle[k].at
             /\ x.lifecycle[k].pending => c.lifecycle[k].pending
  <2>4. From(m) /\ m.liveSession = c.liveSession
    BY <1>1, <1>4, <2>2, <2>3 DEF Settles
  <2>5. late \subseteq m.late /\ late \subseteq Late
    BY <2>3 DEF Desk
  <2>6. live \in BOOLEAN /\ (live => c.liveSession \/ i.waiter = "sync")
    BY <1>1, <2>2, <2>4 DEF Desk
  <2> HIDE DEF late, live
  <2>7. /\ n \in Desk /\ n.wire = m.wire /\ n.config = m.config /\ n.inFlight = m.inFlight
        /\ n.lastAttempt = m.lastAttempt /\ n.handled = m.handled /\ n.late = late
        /\ n.active = m.active /\ n.lifecycle = m.lifecycle /\ n.liveSession = live
        /\ n.step = m.step
    BY <2>4, <2>5, <2>6 DEF Desk
  <2> HIDE DEF n
  <2>8. /\ f \in Desk /\ f.wire = n.wire /\ f.config = n.config /\ f.inFlight = n.inFlight
        /\ f.lastAttempt = n.lastAttempt /\ f.handled = n.handled /\ f.late = n.late
        /\ f.active = n.active /\ f.lifecycle = n.lifecycle /\ f.step = n.step
    BY <2>7 DEF Desk
  <2> HIDE DEF f
  <2>9. From(n) /\ From(f)
    BY <2>4, <2>5, <2>7, <2>8
  <2>10. CASE c.step = "starting"
    <3> DEFINE g == Synchronize(f)
    <3>1. e = g
      BY <1>1, <1>2, <1>4, <2>10
    <3>2. Airs(f, f.wire, t, on)
      BY <1>4, <2>9, <2>10, StartedAirs DEF on
    <3>3. Running(f)
      BY <1>1, <2>9, <2>10 DEF Orderly, RestFits, Running
    <3>4. Claims(f, f.wire, on)
      BY <1>1, <1>4, <2>9 DEF Claims
    <3>5. sourceLive \in [Source -> BOOLEAN]
      BY LiveIs
    <3>6. Airs(g, g.wire, t, on)
      BY <2>9, <3>2, <3>3, <3>4, <3>5, SynchronizeAirs
    <3>7. g.config = f.config
      BY <2>9 DEF Synchronize, BecomeReady, Publish, Invoke, Desk
    <3> QED BY <2>9, <3>1, <3>6, <3>7 DEF e, on
  <2>11. CASE c.step # "starting"
    <3>1. e = n
      BY <1>2, <1>4, <2>11
    <3>2. Airs(n, n.wire, t, on)
      BY <1>4, <2>6, <2>7, <2>9, StartedAirs DEF on
    <3> QED BY <2>9, <3>1, <3>2 DEF e, on
  <2> QED BY <2>10, <2>11
<1> QED BY <1>3, <1>4

(* An answer arrives.                                                      *)
LEMMA RespondAirs ==
  ASSUME LiveInv, Respond
  PROVE  Airs(desk', desk'.wire, session', Live(desk)')
<1> DEFINE i == Head(desk.wire)
           c == [desk EXCEPT !.wire = Tail(@)]
           t == session'
           e == Answered(c, i)
<1>1. desk.wire # <<>> /\ desk' = e
      /\ sourceLive' = IF ProjectGoes(i) THEN [sourceLive EXCEPT !["cherryPlayPlayer"] = FALSE]
                       ELSE sourceLive
  BY DEF Respond
<1>2. Answering(c, i)
  BY <1>1 DEF Answering
<1>3. c.wire = Tail(desk.wire)
  BY LiveIs DEF Desk
<1>4. t \in IF Connected(e) THEN {Carry(session, i)}
            ELSE CarriedSome(Carry(session, i), Tail(desk.wire))
  BY DEF Respond
<1> HIDE DEF c, i, e
<1>5. t = Carry(session, i) \/ t \in CarriedSome(Carry(session, i), c.wire)
  BY <1>3, <1>4
<1> HIDE DEF t
<1>6. Outcome(t, c, i)
  BY <1>5 DEF Outcome
<1>7. /\ i \in Invocations /\ c.config = desk.config
      /\ NoSourceStops => i.waiter \notin {"newProject", "stop"}
  BY <1>2, <1>6, HeardAirs
<1>8. i.op \in {"Join", "Start", "End", "Reset", "Notify", "Publish"}
  BY <1>7 DEF Invocations
<1>9. Airs(e, e.wire, t, Live(desk)) /\ (~ProjectGoes(i) => e.config = c.config)
  BY <1>2, <1>6, <1>8, JoinAnswerAirs, StartAnswerAirs, EndAnswerAirs, ResetAnswerAirs,
     NotifyAnswerAirs, PublishAnswerAirs DEF e
<1>10. CASE ProjectGoes(i)
  <2>1. ~NoSourceStops
    BY <1>7, <1>10 DEF ProjectGoes
  <2>2. Airs(e, e.wire, t, Live(desk)')
    BY <1>9, <2>1, NumbersAir
  <2> QED BY <1>1, <2>2 DEF t
<1>11. CASE ~ProjectGoes(i)
  <2>1. desk'.config = desk.config /\ sourceLive' = sourceLive
    BY <1>1, <1>7, <1>9, <1>11
  <2>2. Live(desk)' = Live(desk)
    BY <2>1 DEF Live, Running
  <2> QED BY <1>1, <1>9, <1>11, <2>2 DEF t
<1> QED BY <1>10, <1>11

(* No step of the system changes what may happen to it.                    *)
LEMMA ScenarioStays ==
  ASSUME [Next]_streamingVars
  PROVE  UNCHANGED scenario
<1>1. CASE Progress
  <2>1. Respond => UNCHANGED scenario
    BY DEF Respond
  <2>2. PartyExists => UNCHANGED scenario
    BY DEF PartyExists
  <2>3. DialStarts => UNCHANGED scenario
    BY DEF DialStarts
  <2>4. DialSucceeds => UNCHANGED scenario
    BY DEF DialSucceeds
  <2>5. Reconnected => UNCHANGED scenario
    BY DEF Reconnected
  <2>6. Exhausted => UNCHANGED scenario
    BY DEF Exhausted
  <2>7. TimerFires => UNCHANGED scenario
    BY DEF TimerFires
  <2>8. PublishChanges => UNCHANGED scenario
    BY DEF PublishChanges
  <2>9. TeardownWaits => UNCHANGED scenario
    BY DEF TeardownWaits, TearingDown
  <2>10. TeardownEnds => UNCHANGED scenario
    BY DEF TeardownEnds, TearingDown
  <2>11. TeardownResets => UNCHANGED scenario
    BY DEF TeardownResets, TearingDown
  <2>12. TeardownReturns => UNCHANGED scenario
    BY DEF TeardownReturns, TearingDown
  <2> QED BY <1>1, <2>1, <2>2, <2>3, <2>4, <2>5, <2>6, <2>7, <2>8, <2>9, <2>10, <2>11, <2>12
          DEF Progress, Teardown
<1>2. CASE Commands
  <2>1. \A c \in Config : Start(c) => UNCHANGED scenario
    BY DEF Start, Disturbed
  <2>2. Stop => UNCHANGED scenario
    BY DEF Stop, Disturbed
  <2>3. Reconnect => UNCHANGED scenario
    BY DEF Reconnect, Disturbed
  <2>4. \A s \in Source : GoLive(s) => UNCHANGED scenario
    BY DEF GoLive, Disturbed
  <2>5. \A s \in Source : StopLive(s) => UNCHANGED scenario
    BY DEF StopLive, Disturbed
  <2>6. NewProject => UNCHANGED scenario
    BY DEF NewProject, Disturbed
  <2>7. SyncAimp => UNCHANGED scenario
    BY DEF SyncAimp, Disturbed
  <2> QED BY <1>2, <2>1, <2>2, <2>3, <2>4, <2>5, <2>6, <2>7
          DEF Commands
<1>3. CASE Failures
  <2>1. PartyIsMissing => UNCHANGED scenario
    BY DEF PartyIsMissing, Disturbed
  <2>2. CheckFails => UNCHANGED scenario
    BY DEF CheckFails, Disturbed
  <2>3. DialFails => UNCHANGED scenario
    BY DEF DialFails, Disturbed
  <2>4. Lose => UNCHANGED scenario
    BY DEF Lose, Disturbed
  <2>5. DialTimesOut => UNCHANGED scenario
    BY DEF DialTimesOut, Disturbed
  <2>6. JoinTimesOut => UNCHANGED scenario
    BY DEF JoinTimesOut, Disturbed
  <2>7. \A k : StartTimesOut(k) => UNCHANGED scenario
    BY DEF StartTimesOut, Disturbed
  <2>8. \A k : PublishTimesOut(k) => UNCHANGED scenario
    BY DEF PublishTimesOut, Disturbed
  <2> QED BY <1>3, <2>1, <2>2, <2>3, <2>4, <2>5, <2>6, <2>7, <2>8
          DEF Failures
<1>4. CASE UNCHANGED streamingVars
  BY <1>4 DEF streamingVars
<1> QED BY <1>1, <1>2, <1>3, <1>4 DEF Next

(* Initially there is nothing to take off the air.                         *)
LEMMA LiveInit == Init => LiveInv
<1> SUFFICES ASSUME Init PROVE LiveInv
  OBVIOUS
<1>1. StreamingInv
  BY StreamingInit
<1>2. /\ ~Running(desk) /\ ~desk.liveSession /\ desk.inFlight = 0 /\ desk.lastAttempt = 0
      /\ desk.handled = {} /\ desk.late = {} /\ desk.lifecycle = <<>> /\ desk.wire = <<>>
  BY DEF Init, InitialDesk, Running
<1>3. NumbersFit(desk, desk.wire)
  BY <1>2 DEF NumbersFit
<1>4. Airs(desk, desk.wire, session, Live(desk))
  BY <1>2, <1>3, DownAirs
<1> QED BY <1>1, <1>4 DEF LiveInv

(* Every step keeps the session of the party on the air.                   *)
LEMMA LiveNext ==
  ASSUME LiveInv, [Next]_streamingVars
  PROVE  LiveInv'
<1>1. StreamingInv
  BY DEF LiveInv
<1>2. StreamingInv'
  BY <1>1, StepKeeps, RespondKeeps
<1>3. Airs(desk', desk'.wire, session', Live(desk)')
  <2>1. CASE UNCHANGED streamingVars
    <3>1. desk' = desk /\ session' = session /\ sourceLive' = sourceLive
      BY <2>1 DEF streamingVars
    <3> QED BY <3>1, StillAirs DEF LiveInv
  <2>2. CASE Progress
    <3>1. CASE Teardown
      BY <3>1, TeardownWaitsAirs, TeardownEndsAirs, TeardownResetsAirs, TeardownReturnsAirs
         DEF Teardown
    <3>2. CASE ~Teardown
      BY <2>2, <3>2, RespondAirs, PartyExistsAirs, DialStartsAirs, DialSucceedsAirs,
         ReconnectedAirs, ExhaustedAirs, TimerFiresAirs, PublishChangesAirs DEF Progress
    <3> QED BY <3>1, <3>2
  <2>3. CASE Commands
    <3>1. CASE \E c \in Config : Start(c)
      BY <3>1, StartAirs
    <3>2. CASE \E s \in Source : GoLive(s) \/ StopLive(s)
      BY <3>2, GoLiveAirs, StopLiveAirs
    <3>3. CASE Stop \/ Reconnect \/ NewProject \/ SyncAimp
      BY <3>3, StopAirs, ReconnectAirs, NewProjectAirs, SyncAimpAirs
    <3> QED BY <2>3, <3>1, <3>2, <3>3 DEF Commands
  <2>4. CASE Failures
    <3>1. CASE \E k \in DOMAIN desk.wire : StartTimesOut(k) \/ PublishTimesOut(k)
      BY <3>1, StartTimesOutAirs, PublishTimesOutAirs
    <3>2. CASE \/ PartyIsMissing \/ CheckFails \/ DialFails \/ Lose
               \/ DialTimesOut \/ JoinTimesOut
      BY <3>2, PartyIsMissingAirs, CheckFailsAirs, DialFailsAirs, LoseAirs,
         DialTimesOutAirs, JoinTimesOutAirs
    <3> QED BY <2>4, <3>1, <3>2 DEF Failures
  <2> QED BY <2>1, <2>2, <2>3, <2>4 DEF Next
<1>4. NoSourceStops' = NoSourceStops
  BY ScenarioStays DEF NoSourceStops
<1>5. Airs(desk, desk.wire, session, Live(desk))'
  BY <1>3, <1>4 DEF Airs
<1> QED BY <1>2, <1>5 DEF LiveInv

(* In every reachable state the session that the orchestrator believes in  *)
(* is on the air, and nothing on its way takes it off.                     *)
THEOREM LiveInvariantHolds == Spec => []LiveInv
<1>1. LiveInv /\ [Next]_streamingVars => LiveInv'
  BY LiveNext
<1> QED BY <1>1, LiveInit, PTL DEF Spec

(* On the air means on the air: no start that comes late, no retry and no  *)
(* teardown of before ends a session that a newer start began.             *)
THEOREM LiveSessionIsRealHolds == Spec => []LiveSessionIsReal
<1>1. LiveInv /\ PublishedIsLatest => LiveSessionIsReal
  <2> SUFFICES ASSUME LiveInv, PublishedIsLatest,
                      Settled, desk.liveSession, Live(desk), NoSourceStops
               PROVE  HasEffectiveActiveSession(session[desk.config.party])
    BY DEF LiveSessionIsReal
  <2> DEFINE s == session[desk.config.party]
  <2>1. /\ s # NoSession /\ s.active
        /\ desk.config.source = "aimp" => s.mode = "Session"
        /\ Running(desk)
    BY DEF LiveInv, Airs, AirFits
  <2>2. desk.config.source \in Source
    BY <2>1, LiveIs DEF Desk, Running, Config
  <2>3. desk.config.source = "cherryPlayPlayer" => s.mode = "Session"
    BY DEF PublishedIsLatest, Dto
  <2> QED BY <2>1, <2>2, <2>3 DEF HasEffectiveActiveSession, Source
<1> QED BY <1>1, LiveInvariantHolds, PublishedIsLatestHolds, PTL

-----------------------------------------------------------------------------
(* What a teardown leaves on the server, on a network without failures.    *)

(* A teardown's reset of the playback.                                     *)
Resets(i) == i.op = "Reset" /\ i.waiter = "teardown"

(* All that the desktop does is about these parties; and no start is       *)
(* behind the reset of a teardown that will then disconnect.               *)
Within(d, w, P) ==
  /\ Running(d) => d.config.party \in P
  /\ \A l \in d.late : l.party \in P
  /\ \A k \in DOMAIN d.lifecycle : d.lifecycle[k].party \in P
  /\ \A k \in DOMAIN w : ~IsJoin(w[k]) => w[k].party \in P
  /\ ~Running(d) /\ d.lifecycle # <<>> /\ d.lifecycle[1].fresh =>
       \A j, k \in DOMAIN w : Resets(w[j]) /\ j < k => ~IsStart(w[k])

(* Other parties have no session.                                          *)
Silent(s, P) == \A p \in Party \ P : s[p] = NoSession

(* No party has a session on the air.                                     *)
OffAir(s) == \A p \in Party : ~HasEffectiveActiveSession(s[p])

(* One party, and nothing but users interferes.                            *)
OnlyUsers == OneParty /\ scenario.kinds \subseteq Users

(* While only users interfere, a desktop without a connection has left     *)
(* nothing on the air.                                                     *)
EndedInv ==
  /\ StreamingInv
  /\ OnlyUsers =>
       /\ Within(desk, desk.wire, scenario.parties)
       /\ Silent(session, scenario.parties)
       /\ ~Connected(desk) => OffAir(session)

(* The same teardowns or fewer, of the same parties, and a wire that goes  *)
(* on without a start.                                                     *)
LEMMA WithinStays ==
  ASSUME NEW P, NEW d, NEW e, NEW w \in Wire, NEW v \in Wire, Within(d, w, P),
         e.config = d.config,
         \A l \in e.late : \E m \in d.late : l.party = m.party,
         \A k \in DOMAIN e.lifecycle : \E j \in DOMAIN d.lifecycle :
           e.lifecycle[k].party = d.lifecycle[j].party,
         \/ ~Running(e) /\ e.lifecycle # <<>> /\ e.lifecycle[1].fresh =>
              d.lifecycle # <<>> /\ d.lifecycle[1].fresh
         \/ \A k \in DOMAIN v : ~Resets(v[k]),
         \A k \in DOMAIN v : k \in DOMAIN w =>
           /\ v[k].op = w[k].op /\ v[k].party = w[k].party
           /\ v[k].waiter \in {w[k].waiter, "nobody"},
         \A k \in DOMAIN v : k \notin DOMAIN w =>
           /\ ~IsJoin(v[k]) => v[k].party \in P
           /\ ~Running(e) => ~IsStart(v[k])
  PROVE  Within(e, v, P)
<1>1. DOMAIN w = 1 .. Len(w) /\ DOMAIN v = 1 .. Len(v) /\ Len(w) \in Nat /\ Len(v) \in Nat
  BY DEF Wire
<1>2. /\ Running(e) => e.config.party \in P
      /\ \A l \in e.late : l.party \in P
      /\ \A k \in DOMAIN e.lifecycle : e.lifecycle[k].party \in P
  BY DEF Within, Running
<1>3. \A k \in DOMAIN v : ~IsJoin(v[k]) => v[k].party \in P
  BY DEF Within, IsJoin
<1>4. ASSUME ~Running(e), e.lifecycle # <<>>, e.lifecycle[1].fresh,
             NEW j \in DOMAIN v, NEW k \in DOMAIN v, Resets(v[j]), j < k, IsStart(v[k])
      PROVE  FALSE
  <2>1. k \in DOMAIN w
    BY <1>4
  <2>2. j \in DOMAIN w
    BY <1>1, <1>4, <2>1
  <2>3. Resets(w[j]) /\ IsStart(w[k])
    BY <1>4, <2>1, <2>2 DEF Resets, IsStart
  <2>4. d.lifecycle # <<>> /\ d.lifecycle[1].fresh /\ ~Running(d)
    BY <1>4 DEF Running
  <2> QED BY <1>4, <2>1, <2>2, <2>3, <2>4 DEF Within
<1> QED BY <1>2, <1>3, <1>4 DEF Within

(* A desk with the same teardowns and the same wire.                       *)
LEMMA WithinSame ==
  ASSUME NEW P, NEW d, NEW e, NEW w, Within(d, w, P), e.config = d.config,
         e.late = d.late, e.lifecycle = d.lifecycle
  PROVE  Within(e, w, P)
BY DEF Within, Running

(* One invocation more.                                                    *)
LEMMA InvokeWithin ==
  ASSUME NEW P, NEW d \in Desk, NEW i \in Invocations, Within(d, d.wire, P),
         ~IsJoin(i) => i.party \in P, Running(d) \/ ~IsStart(i)
  PROVE  LET e == Invoke(d, i) IN
         Within(e, e.wire, P) /\ e.link = d.link /\ e.config = d.config /\ e \in Desk
<1> DEFINE e == Invoke(d, i)
           w == d.wire
           v == Append(w, i)
<1>1. w \in Wire
  BY DEF Desk, Wire
<1>2. /\ v \in Wire
      /\ \A k \in DOMAIN w : v[k] = w[k]
      /\ \A k \in DOMAIN v : k \in DOMAIN w \/ v[k] = i
  BY <1>1, AppendIs
<1>3. e \in Desk /\ e.wire = v /\ Akin(d, e) /\ Keeps(d, e)
  BY InvokeIs
<1> HIDE DEF e, v
<1>4. e.config = d.config /\ e.late = d.late /\ e.lifecycle = d.lifecycle /\ e.link = d.link
  BY <1>3 DEF Akin, Keeps
<1>5. Within(e, v, P)
  <2>1. \A k \in DOMAIN v : k \in DOMAIN w =>
          /\ v[k].op = w[k].op /\ v[k].party = w[k].party
          /\ v[k].waiter \in {w[k].waiter, "nobody"}
    BY <1>2
  <2>2. \A k \in DOMAIN v : k \notin DOMAIN w =>
          /\ ~IsJoin(v[k]) => v[k].party \in P
          /\ ~Running(e) => ~IsStart(v[k])
    BY <1>2, <1>4 DEF Running
  <2>3. /\ \A l \in e.late : \E m \in d.late : l.party = m.party
        /\ \A k \in DOMAIN e.lifecycle : \E j \in DOMAIN d.lifecycle :
             e.lifecycle[k].party = d.lifecycle[j].party
        /\ ~Running(e) /\ e.lifecycle # <<>> /\ e.lifecycle[1].fresh =>
             d.lifecycle # <<>> /\ d.lifecycle[1].fresh
    BY <1>4
  <2> QED BY <1>1, <1>2, <1>4, <2>1, <2>2, <2>3, WithinStays
<1> QED BY <1>3, <1>4, <1>5 DEF e

(* A start of the orchestrator's.                                          *)
LEMMA StartSessionWithin ==
  ASSUME NEW P, NEW d \in Desk, Running(d), Within(d, d.wire, P),
         NEW waiter \in {"nobody", "sync"}
  PROVE  LET e == StartSession(d, d.config.party, waiter) IN
         Within(e, e.wire, P) /\ e.link = d.link /\ e.config = d.config
<1> DEFINE p == d.config.party
           w == d.wire
           e == StartSession(d, p, waiter)
           a == d.lastAttempt + 1
           i == [Invocation("Start", p, waiter) EXCEPT !.attempt = a]
           c == [d EXCEPT !.lastAttempt = a, !.inFlight = a]
           v == [k \in DOMAIN w |->
                   IF w[k].op = "Start" /\ w[k].attempt = d.inFlight /\ waiter = "sync"
                   THEN [w[k] EXCEPT !.waiter = waiter] ELSE w[k]]
<1>1. p \in P /\ p \in Party /\ w \in Wire /\ a \in Nat
  BY DEF Within, Desk, Config, Running, Wire
<1>2. e = IF StartPending(d, p) THEN [d EXCEPT !.wire = v] ELSE Invoke(c, i)
  BY DEF StartSession
<1>3. CASE StartPending(d, p)
  <2>1. \A k \in DOMAIN w : w[k] \in Invocations
    BY <1>1 DEF Wire
  <2>2. DOMAIN v = DOMAIN w /\ \A k \in DOMAIN v : v[k].op = w[k].op /\ v[k].party = w[k].party
    BY <2>1 DEF Invocations
  <2>3. e = [d EXCEPT !.wire = v]
    BY <1>2, <1>3
  <2> HIDE DEF e, v
  <2>4. /\ e.config = d.config /\ e.late = d.late /\ e.lifecycle = d.lifecycle
        /\ e.link = d.link /\ e.wire = v
    BY <2>3 DEF Desk
  <2>5. \A k \in DOMAIN v : ~IsJoin(v[k]) => v[k].party \in P
    BY <2>2 DEF Within, IsJoin
  <2>6. Within(e, v, P)
    BY <2>4, <2>5 DEF Within, Running
  <2> QED BY <2>4, <2>6 DEF e
<1>4. CASE ~StartPending(d, p)
  <2>1. i \in Invocations /\ i.party = p
    BY <1>1 DEF Invocation, Invocations
  <2>2. /\ c \in Desk /\ c.config = d.config /\ c.late = d.late /\ c.lifecycle = d.lifecycle
        /\ c.link = d.link /\ c.wire = d.wire
    BY <1>1 DEF Desk
  <2>3. e = Invoke(c, i)
    BY <1>2, <1>4
  <2> HIDE DEF i, c, e
  <2>4. Within(c, c.wire, P) /\ Running(c)
    BY <2>2, WithinSame DEF Running
  <2>5. Within(e, e.wire, P) /\ e.link = c.link /\ e.config = c.config
    BY <1>1, <2>1, <2>2, <2>3, <2>4, InvokeWithin
  <2> QED BY <2>2, <2>5 DEF e
<1> QED BY <1>3, <1>4

(* A publication of the orchestrator's.                                    *)
LEMMA PublishWithin ==
  ASSUME NEW P, NEW d \in Desk, Running(d), Within(d, d.wire, P), sourceLive \in [Source -> BOOLEAN],
         NEW waiter \in {"connect", "publish", "stop"}
  PROVE  LET e == Publish(d, waiter) IN
         Within(e, e.wire, P) /\ e.link = d.link /\ e.config = d.config
<1> DEFINE i == [Invocation("Notify", d.config.party, waiter) EXCEPT !.live = Live(d)]
           e == Publish(d, waiter)
<1>1. d.config.party \in Party /\ d.config.party \in P /\ Live(d) \in BOOLEAN
  BY DEF Within, Desk, Config, Running, Live
<1>2. i \in Invocations /\ i.party = d.config.party
  BY <1>1 DEF Invocation, Invocations
<1>3. e = Invoke(d, i)
  BY DEF Publish
<1> HIDE DEF i, e
<1>4. Within(e, e.wire, P) /\ e.link = d.link /\ e.config = d.config
  BY <1>1, <1>2, <1>3, InvokeWithin
<1> QED BY <1>4 DEF e

(* A turn of the synchronization.                                          *)
LEMMA SynchronizeWithin ==
  ASSUME NEW P, NEW d \in Desk, Running(d), Within(d, d.wire, P),
         sourceLive \in [Source -> BOOLEAN]
  PROVE  LET e == Synchronize(d) IN
         Within(e, e.wire, P) /\ e.link = d.link /\ e.config = d.config
<1> DEFINE c == [d EXCEPT !.step = "syncing", !.behind = FALSE]
           connect == "connect"
           e == Synchronize(d)
           m == Publish(c, connect)
           b == BecomeReady(c)
<1>1. e = IF NothingToPublish(d) THEN b ELSE m
  BY DEF Synchronize
<1>2. /\ c \in Desk /\ c.config = d.config /\ c.late = d.late /\ c.lifecycle = d.lifecycle
      /\ c.link = d.link /\ c.wire = d.wire
  BY DEF Desk, Steps
<1>3. connect \in {"connect", "publish", "stop"}
  OBVIOUS
<1> HIDE DEF c, connect, e
<1>4. Within(c, c.wire, P) /\ Running(c)
  BY <1>2, WithinSame DEF Running
<1>5. Within(m, m.wire, P) /\ m.link = c.link /\ m.config = c.config
  BY <1>2, <1>3, <1>4, PublishWithin
<1>6. /\ b.config = c.config /\ b.late = c.late /\ b.lifecycle = c.lifecycle
      /\ b.link = c.link /\ b.wire = c.wire
  BY <1>2 DEF BecomeReady, Desk
<1> HIDE DEF m, b
<1>7. Within(b, b.wire, P)
  BY <1>4, <1>6, WithinSame
<1> QED BY <1>1, <1>2, <1>5, <1>6, <1>7 DEF e

(* A new generation has no teardown of its own.                            *)
LEMMA SupersededWithin ==
  ASSUME NEW P, NEW d, NEW x, Orderly(d, d.wire, x), Within(d, d.wire, P)
  PROVE  LET e == Superseded(d) IN
         /\ Within(e, e.wire, P) /\ e.link = d.link /\ e.config = d.config
         /\ \A k \in DOMAIN e.lifecycle : e.lifecycle[k].party \in P
<1> DEFINE s == d.lifecycle
           t == {[l EXCEPT !.fresh = FALSE] : l \in d.late}
           l == [k \in DOMAIN s |-> [s[k] EXCEPT !.fresh = FALSE]]
           e == Superseded(d)
<1>1. d \in Desk /\ s \in Seq(Teardowns) /\ d.late \subseteq Late
  BY DEF Orderly, Desk
<1>2. e.late = t /\ e.lifecycle = l
  BY <1>1 DEF Superseded, Desk
<1>3. \A y \in t : y.party \in P
  BY <1>1 DEF Late, Within
<1>4. DOMAIN l = DOMAIN s /\ \A k \in DOMAIN l : l[k].party \in P
  <2>1. \A k \in DOMAIN s : s[k] \in Teardowns
    BY <1>1
  <2> QED BY <2>1 DEF Teardowns, Within
<1>5. /\ e.config = d.config /\ e.link = d.link /\ DOMAIN e.wire = DOMAIN d.wire
      /\ \A k \in DOMAIN e.wire :
           e.wire[k].op = d.wire[k].op /\ e.wire[k].party = d.wire[k].party
      /\ \A k \in DOMAIN e.lifecycle : ~e.lifecycle[k].fresh
      /\ e \in Desk
  BY SupersededIs
<1> HIDE DEF e, t, l
<1>6. e.lifecycle # <<>> => ~e.lifecycle[1].fresh
  BY <1>5 DEF Desk
<1>7. \A k \in DOMAIN e.wire : ~IsJoin(e.wire[k]) => e.wire[k].party \in P
  BY <1>5 DEF IsJoin, Within
<1>8. Running(e) => e.config.party \in P
  BY <1>5 DEF Within, Running
<1>9. Within(e, e.wire, P)
  BY <1>2, <1>3, <1>4, <1>6, <1>7, <1>8 DEF Within
<1> QED BY <1>2, <1>4, <1>5, <1>9 DEF e

(* The orchestrator stops.                                                 *)
LEMMA StopInternalWithin ==
  ASSUME NEW P, NEW d, NEW x, Orderly(d, d.wire, x), Within(d, d.wire, P)
  PROVE  LET e == StopInternal(d) IN
         Within(e, e.wire, P) /\ e.link = d.link /\ e.config = d.config
<1> DEFINE c == Superseded(d)
           e == StopInternal(d)
<1>1. c \in Desk
  BY SupersededIs
<1>2. Within(c, c.wire, P) /\ c.link = d.link /\ c.config = d.config
  BY SupersededWithin
<1>3. e = [c EXCEPT !.ready = FALSE, !.liveSession = FALSE, !.timer = FALSE,
                    !.coalescing = FALSE, !.subscribed = FALSE]
  BY DEF StopInternal
<1> HIDE DEF c, e
<1>4. /\ e.config = c.config /\ e.late = c.late /\ e.lifecycle = c.lifecycle
      /\ e.link = c.link /\ e.wire = c.wire
  BY <1>1, <1>3 DEF Desk
<1> QED BY <1>2, <1>4, WithinSame DEF e

(* Another party is the orchestrator's.                                    *)
LEMMA StartsWithin ==
  ASSUME NEW P, NEW d, NEW x, Orderly(d, d.wire, x), Within(d, d.wire, P),
         NEW g \in Config, g.party \in P
  PROVE  LET e == Connect([StopInternal(d) EXCEPT !.config = g]) IN
         Within(e, e.wire, P) /\ e.link = d.link
<1> DEFINE c == StopInternal(d)
           b == [c EXCEPT !.config = g]
           e == Connect(b)
<1>1. Within(c, c.wire, P) /\ c.link = d.link
  BY StopInternalWithin
<1>2. c \in Desk /\ c.step = "idle"
  BY StopInternalIs
<1> HIDE DEF c
<1>3. /\ b \in Desk /\ b.config = g /\ b.late = c.late /\ b.lifecycle = c.lifecycle
      /\ b.link = c.link /\ b.wire = c.wire /\ b.step = "idle"
  BY <1>2 DEF Desk
<1> HIDE DEF b
<1>4. Running(b)
  BY <1>3, StreamingAssumption DEF Running
<1>5. Within(b, b.wire, P)
  BY <1>1, <1>3, <1>4 DEF Within
<1>6. /\ e.config = b.config /\ e.late = b.late /\ e.lifecycle = b.lifecycle
      /\ e.link = b.link /\ e.wire = b.wire
  BY <1>3, ConnectIs
<1> HIDE DEF e
<1>7. Within(e, e.wire, P)
  BY <1>5, <1>6, WithinSame
<1> QED BY <1>1, <1>3, <1>6, <1>7 DEF e, b, c

(* recover goes on with what is under way.                                 *)
LEMMA RecoverWithin ==
  ASSUME NEW P, NEW d, NEW x, Orderly(d, d.wire, x), Within(d, d.wire, P),
         NEW supersede \in BOOLEAN
  PROVE  LET e == Recover(d, supersede) IN
         Within(e, e.wire, P) /\ e.link = d.link /\ e.config = d.config
<1> DEFINE c == Superseded(d)
           b == [c EXCEPT !.ready = FALSE, !.timer = FALSE]
           e == Recover(d, supersede)
           m == Connect(b)
<1>1. e = d \/ e = m
  BY DEF Recover
<1>2. Within(c, c.wire, P) /\ c.link = d.link /\ c.config = d.config
  BY SupersededWithin
<1>3. c \in Desk /\ c.step = "idle"
  BY SupersededIs
<1> HIDE DEF c
<1>4. /\ b \in Desk /\ b.config = c.config /\ b.late = c.late /\ b.lifecycle = c.lifecycle
      /\ b.link = c.link /\ b.wire = c.wire /\ b.step = "idle"
  BY <1>3 DEF Desk
<1> HIDE DEF b
<1>5. /\ m.config = b.config /\ m.late = b.late /\ m.lifecycle = b.lifecycle
      /\ m.link = b.link /\ m.wire = b.wire
  BY <1>4, ConnectIs
<1> HIDE DEF m, e
<1>6. Within(m, m.wire, P)
  <2>1. Within(b, b.wire, P)
    BY <1>2, <1>4, WithinSame
  <2> QED BY <1>5, <2>1, WithinSame
<1> QED BY <1>1, <1>2, <1>4, <1>5, <1>6 DEF e

(* A teardown that is the first one has no reset under way yet.            *)
LEMMA TakeDownWithin ==
  ASSUME NEW P, NEW d, NEW x, Orderly(d, d.wire, x), Running(d), Within(d, d.wire, P),
         NEW isLive
  PROVE  LET e == TakeDown(d, isLive) IN Within(e, e.wire, P) /\ e.link = d.link
<1> DEFINE p == d.config.party
           pending == StartPending(d, p)
           t == [party |-> p, hadLive |-> d.liveSession \/ isLive, owner |-> d.active[p],
                 pending |-> pending, attempt |-> IF pending THEN d.inFlight ELSE 0,
                 started |-> FALSE, fresh |-> TRUE, at |-> "queued"]
           c == StopInternal(d)
           l == Append(c.lifecycle, t)
           e == TakeDown(d, isLive)
<1>1. e = [c EXCEPT !.config = NoConfig, !.lifecycle = l] /\ t.party = p
  BY DEF TakeDown
<1>2. Within(c, c.wire, P) /\ c.link = d.link
  BY StopInternalWithin
<1>3. /\ c \in Desk /\ \A k \in DOMAIN c.lifecycle : ~c.lifecycle[k].fresh
      /\ c.wire = Superseded(d).wire
      /\ DOMAIN c.lifecycle = DOMAIN d.lifecycle
  BY StopInternalIs
<1>4. /\ DOMAIN c.wire = DOMAIN d.wire
      /\ \A k \in DOMAIN c.wire : c.wire[k].waiter \in {"nobody", d.wire[k].waiter}
  BY <1>3, SupersededIs
<1>5. p \in P
  BY DEF Within
<1> HIDE DEF c, t
<1>6. /\ c.lifecycle \in Seq(Teardowns) /\ d.lifecycle \in Seq(Teardowns)
  BY <1>3 DEF Desk, Orderly
<1>7. \A k \in DOMAIN l : l[k].party \in P
  <2>1. \A k \in DOMAIN l : (k \in DOMAIN c.lifecycle /\ l[k] = c.lifecycle[k]) \/ l[k] = t
    BY <1>6
  <2> HIDE DEF l
  <2> QED BY <1>1, <1>2, <1>5, <2>1 DEF Within
<1>8. CASE c.lifecycle # <<>>
  <2>1. 1 \in DOMAIN c.lifecycle /\ l[1] = c.lifecycle[1]
    BY <1>6, <1>8
  <2>2. ~l[1].fresh
    BY <1>3, <2>1
  <2> HIDE DEF l
  <2>3. e.late = c.late /\ e.lifecycle = l /\ e.wire = c.wire /\ e.link = c.link
        /\ ~Running(e)
    BY <1>1, <1>3 DEF Desk, Running
  <2> HIDE DEF e
  <2>4. Within(e, e.wire, P)
    BY <1>2, <1>7, <2>2, <2>3 DEF Within
  <2> QED BY <1>2, <2>3, <2>4 DEF e
<1>9. CASE c.lifecycle = <<>>
  <2>1. d.lifecycle = <<>>
    <3>1. 1 \notin DOMAIN c.lifecycle
      BY <1>9
    <3>2. d.lifecycle # <<>> => 1 \in DOMAIN d.lifecycle
      BY <1>6
    <3> QED BY <1>3, <3>1, <3>2
  <2>2. \A k \in DOMAIN d.wire : d.wire[k].waiter # "teardown"
    BY <2>1 DEF Orderly, TeardownsFit
  <2>3. \A k \in DOMAIN c.wire : ~Resets(c.wire[k])
    BY <1>4, <2>2 DEF Resets
  <2> HIDE DEF l
  <2>4. e.late = c.late /\ e.lifecycle = l /\ e.wire = c.wire /\ e.link = c.link
        /\ ~Running(e)
    BY <1>1, <1>3 DEF Desk, Running
  <2> HIDE DEF e
  <2>5. Within(e, e.wire, P)
    BY <1>2, <1>7, <2>3, <2>4 DEF Within
  <2> QED BY <1>2, <2>4, <2>5 DEF e
<1> QED BY <1>8, <1>9

(* A teardown goes: the next one is the first, and has not asked yet.      *)
LEMMA PopWithin ==
  ASSUME NEW P, NEW d \in Desk, NEW w, d.lifecycle # <<>>, Within(d, w, P),
         \A k \in DOMAIN w : w[k].waiter # "teardown"
  PROVE  LET e == [d EXCEPT !.lifecycle = Tail(@)] IN
         /\ Within(e, w, P) /\ e.link = d.link /\ e.config = d.config /\ e.wire = d.wire
         /\ e \in Desk
<1> DEFINE s == d.lifecycle
           l == Tail(s)
           e == [d EXCEPT !.lifecycle = l]
<1>1. s \in Seq(Teardowns)
  BY DEF Desk
<1>2. l \in Seq(Teardowns) /\ \A k \in DOMAIN l : k + 1 \in DOMAIN s /\ l[k] = s[k + 1]
  BY <1>1
<1> HIDE DEF l
<1>3. /\ e.late = d.late /\ e.lifecycle = l /\ e.link = d.link /\ e.config = d.config
      /\ e.wire = d.wire /\ e \in Desk
  BY <1>2 DEF Desk
<1> HIDE DEF e
<1>4. \A k \in DOMAIN e.lifecycle : e.lifecycle[k].party \in P
  BY <1>2, <1>3 DEF Within
<1>5. \A k \in DOMAIN w : ~Resets(w[k])
  BY DEF Resets
<1>6. Within(e, w, P)
  BY <1>3, <1>4, <1>5 DEF Within, Running
<1> QED BY <1>3, <1>6 DEF e, l

(* An end that is answered or not to be had.                               *)
LEMMA EndReturnedWithin ==
  ASSUME NEW P, NEW d \in Desk, NEW w, NEW i \in Invocations, Within(d, w, P),
         i.waiter = "teardown" => d.lifecycle # <<>>
  PROVE  LET e == EndReturned(d, i) IN
         /\ Within(e, w, P) /\ e.link = d.link /\ e.config = d.config /\ e.wire = d.wire
         /\ e.lifecycle # <<>> => d.lifecycle # <<>>
<1> DEFINE p == i.party
           n == IF i.attempt # 0 /\ d.active[p] = i.attempt THEN 0 ELSE d.active[p]
           c == [d EXCEPT !.active[p] = n]
           e == EndReturned(d, i)
<1>1. /\ c \in Desk /\ c.late = d.late /\ c.lifecycle = d.lifecycle
      /\ c.link = d.link /\ c.config = d.config /\ c.wire = d.wire
  <2>1. p \in Party /\ n \in Nat
    BY DEF Invocations, Desk
  <2> QED BY <2>1 DEF Desk
<1>2. Within(c, w, P)
  BY <1>1, WithinSame
<1>3. CASE i.waiter = "late" /\ i.fresh
  <2>1. e = ScheduleReconnect(c)
    BY <1>3 DEF EndReturned
  <2>2. SameRecord(c, e)
    BY <1>1, <2>1, ScheduleReconnectRecords
  <2>3. e.link = c.link /\ e.config = c.config /\ e.wire = c.wire
    BY <1>1, <2>1 DEF ScheduleReconnect, Desk
  <2> HIDE DEF e, c
  <2>4. Within(e, w, P)
    BY <1>2, <2>2, <2>3, WithinSame DEF SameRecord
  <2> QED BY <1>1, <2>2, <2>3, <2>4 DEF e, SameRecord
<1>4. CASE i.waiter = "teardown"
  <2> DEFINE h == c.handled \cup ({d.lifecycle[1].attempt} \ {0})
             l == [c.lifecycle EXCEPT ![1].at = "ended"]
  <2>1. e = [c EXCEPT !.lifecycle = l, !.handled = h]
    BY <1>1, <1>4 DEF EndReturned, Desk
  <2>2. d.lifecycle \in Seq(Teardowns) /\ d.lifecycle # <<>>
    BY <1>4 DEF Desk
  <2>3. 1 \in DOMAIN d.lifecycle /\ \A k \in DOMAIN d.lifecycle : d.lifecycle[k] \in Teardowns
    BY <2>2
  <2>4. /\ DOMAIN l = DOMAIN d.lifecycle
        /\ \A k \in DOMAIN l : /\ l[k].party = d.lifecycle[k].party
                               /\ l[k].fresh = d.lifecycle[k].fresh
    BY <1>1, <2>3 DEF Teardowns
  <2> HIDE DEF l, h, c
  <2>5. /\ e.late = d.late /\ e.lifecycle = l /\ e.link = d.link /\ e.config = d.config
        /\ e.wire = d.wire
    BY <1>1, <2>1 DEF Desk
  <2> HIDE DEF e
  <2>6. Within(e, w, P)
    BY <2>2, <2>3, <2>4, <2>5 DEF Within, Running
  <2> QED BY <2>2, <2>5, <2>6 DEF e
<1>5. CASE ~(i.waiter = "late" /\ i.fresh) /\ i.waiter # "teardown"
  <2>1. e = c
    BY <1>5 DEF EndReturned
  <2> QED BY <1>1, <1>2, <2>1
<1> QED BY <1>3, <1>4, <1>5

(* The first teardown goes on.                                             *)
LEMMA OnwardWithin ==
  ASSUME NEW P, NEW d \in Desk, d.lifecycle # <<>>, NEW w, Within(d, w, P),
         NEW at \in {"queued", "waiting", "ending", "ended", "resetting"},
         NEW e, e = [d EXCEPT !.lifecycle[1].at = at]
  PROVE  /\ Within(e, w, P) /\ e.link = d.link /\ e.config = d.config /\ e.wire = d.wire
         /\ e \in Desk /\ e.lifecycle # <<>>
<1> DEFINE l == [d.lifecycle EXCEPT ![1].at = at]
<1>1. d.lifecycle \in Seq(Teardowns)
  BY DEF Desk
<1>2. 1 \in DOMAIN d.lifecycle /\ \A k \in DOMAIN d.lifecycle : d.lifecycle[k] \in Teardowns
  BY <1>1
<1>3. [d.lifecycle[1] EXCEPT !.at = at] \in Teardowns
  BY <1>2 DEF Teardowns
<1>4. /\ l \in Seq(Teardowns) /\ DOMAIN l = DOMAIN d.lifecycle /\ l # <<>>
      /\ \A k \in DOMAIN l : /\ l[k].party = d.lifecycle[k].party
                             /\ l[k].fresh = d.lifecycle[k].fresh
  BY <1>1, <1>2, <1>3 DEF Teardowns
<1>7. e = [d EXCEPT !.lifecycle = l]
  BY DEF Desk
<1> HIDE DEF l
<1>5. /\ e.late = d.late /\ e.lifecycle = l /\ e.link = d.link /\ e.config = d.config
      /\ e.wire = d.wire /\ e \in Desk
  BY <1>4, <1>7 DEF Desk
<1>6. Within(e, w, P)
  BY <1>2, <1>4, <1>5 DEF Within, Running
<1> QED BY <1>4, <1>5, <1>6

(* Ends of late starts of these parties.                                   *)
LEMMA EndsWithin ==
  ASSUME NEW P, NEW d, NEW w \in Wire, NEW q \in Wire, Within(d, w, P),
         \A k \in DOMAIN q : q[k].op = "End" /\ q[k].party \in P
  PROVE  Within(d, w \o q, P) /\ w \o q \in Wire
<1> DEFINE v == w \o q
<1>1. v \in Wire
  BY DEF Wire
<1>2. \A k \in DOMAIN v : \/ k \in DOMAIN w /\ v[k] = w[k]
                          \/ k \notin DOMAIN w /\ \E j \in DOMAIN q : v[k] = q[j]
  <2>1. ASSUME NEW k \in DOMAIN v, k \notin DOMAIN w
        PROVE  \E j \in DOMAIN q : v[k] = q[j]
    <3>1. k - Len(w) \in DOMAIN q /\ v[k] = q[k - Len(w)]
      BY <2>1 DEF Wire
    <3> QED BY <3>1
  <2>2. \A k \in DOMAIN w : v[k] = w[k]
    BY DEF Wire
  <2> QED BY <2>1, <2>2
<1> HIDE DEF v
<1>3. \A k \in DOMAIN v : k \in DOMAIN w =>
        /\ v[k].op = w[k].op /\ v[k].party = w[k].party
        /\ v[k].waiter \in {w[k].waiter, "nobody"}
  BY <1>2
<1>4. \A k \in DOMAIN v : k \notin DOMAIN w =>
        /\ ~IsJoin(v[k]) => v[k].party \in P
        /\ ~Running(d) => ~IsStart(v[k])
  BY <1>2 DEF IsJoin, IsStart
<1>5. Within(d, v, P)
  BY <1>1, <1>3, <1>4, WithinStays
<1> QED BY <1>1, <1>5 DEF v

(* Late starts are ended.                                                  *)
LEMMA EndLateWithin ==
  ASSUME NEW P, NEW d \in Desk, NEW starts, Starts(starts), Within(d, d.wire, P),
         \A l \in starts : l.party \in P
  PROVE  LET e == EndLate(d, starts) IN
         /\ Within(e, e.wire, P) /\ e.link = d.link /\ e.config = d.config
         /\ e.lifecycle = d.lifecycle /\ (~Connected(d) => e.wire = d.wire)
<1> DEFINE e == EndLate(d, starts)
<1>1. CASE ~Connected(d) /\ e \in {d, ScheduleReconnect(d)}
  <2>1. SameRecord(d, e)
    BY <1>1, ScheduleReconnectRecords DEF SameRecord
  <2>2. e.link = d.link /\ e.config = d.config /\ e.wire = d.wire
    BY <1>1 DEF ScheduleReconnect, Desk
  <2> HIDE DEF e
  <2>3. Within(e, d.wire, P)
    BY <2>1, <2>2, WithinSame DEF SameRecord
  <2> QED BY <2>1, <2>2, <2>3 DEF e, SameRecord
<1>2. ASSUME Connected(d),
             NEW q \in Wire, \A k \in DOMAIN q : IsLateEnd(q[k]),
             \A k \in DOMAIN q : \E l \in starts :
               q[k].party = l.party /\ d.active[l.party] <= l.attempt,
             e = [d EXCEPT !.wire = d.wire \o q]
      PROVE  /\ Within(e, e.wire, P) /\ e.link = d.link /\ e.config = d.config
             /\ e.lifecycle = d.lifecycle
  <2> DEFINE v == d.wire \o q
  <2>1. d.wire \in Wire
    BY DEF Desk, Wire
  <2>2. \A k \in DOMAIN q : q[k].op = "End" /\ q[k].party \in P
    BY <1>2 DEF IsLateEnd
  <2>3. Within(d, v, P) /\ v \in Wire
    BY <2>1, <2>2, EndsWithin
  <2> HIDE DEF v
  <2>4. e = [d EXCEPT !.wire = v]
    BY <1>2 DEF v
  <2> HIDE DEF e
  <2>5. /\ e.late = d.late /\ e.lifecycle = d.lifecycle /\ e.link = d.link
        /\ e.config = d.config /\ e.wire = v
    BY <2>4 DEF Desk
  <2>6. Within(e, v, P)
    BY <2>3, <2>5, WithinSame
  <2> QED BY <2>5, <2>6
<1> HIDE DEF e
<1>3. \/ ~Connected(d) /\ e \in {d, ScheduleReconnect(d)}
      \/ Connected(d) /\ \E q \in Wire :
           /\ \A k \in DOMAIN q : IsLateEnd(q[k])
           /\ \A k \in DOMAIN q : \E l \in starts :
                q[k].party = l.party /\ d.active[l.party] <= l.attempt
           /\ e = [d EXCEPT !.wire = d.wire \o q]
  BY EndLateIs DEF e
<1> QED BY <1>1, <1>2, <1>3 DEF e

(* A start that worked, of one of these parties.                           *)
LEMMA StartArrivesWithin ==
  ASSUME NEW P, NEW d, NEW on, Orderly(d, d.wire, on), Connected(d), Within(d, d.wire, P),
         NEW i \in Invocations, IsStart(i), i.attempt <= d.lastAttempt, i.party \in P
  PROVE  LET e == StartArrives(d, i) IN
         Within(e, e.wire, P) /\ e.link = d.link /\ e.config = d.config /\ e \in Desk
<1> DEFINE w == d.wire
           e == StartArrives(d, i)
           i1 == {i}
<1>1. d \in Desk /\ w \in Wire /\ i.party \in Party /\ i.attempt \in Nat
  BY DEF Orderly, Invocations
<1>2. e \in Desk
  BY <1>1, StartArrivesIs
<1>3. CASE i.attempt \in d.handled
  <2> DEFINE h == d.handled \ {i.attempt}
  <2>1. e = [d EXCEPT !.handled = h]
    BY <1>3 DEF StartArrives
  <2> HIDE DEF e, h
  <2>2. /\ e.config = d.config /\ e.late = d.late /\ e.lifecycle = d.lifecycle
        /\ e.link = d.link /\ e.wire = d.wire
    BY <1>1, <2>1 DEF Desk
  <2> QED BY <1>2, <2>2, WithinSame DEF e
<1>4. CASE i.attempt \notin d.handled /\ ~i.timedOut
  <2> DEFINE a == [d.active EXCEPT ![i.party] = i.attempt]
             c == [d EXCEPT !.active = a]
             j == EndOf(i.party, i.attempt, "nobody")
             m == Invoke(c, j)
  <2>1. e = c \/ e = EndSession(c, j)
    BY <1>4 DEF StartArrives
  <2>2. /\ c \in Desk /\ c.config = d.config /\ c.late = d.late /\ c.lifecycle = d.lifecycle
        /\ c.link = d.link /\ c.wire = d.wire
    BY <1>1 DEF Desk
  <2>3. j \in Invocations /\ j.party = i.party /\ j.op = "End"
    BY <1>1 DEF EndOf, Invocation, Invocations
  <2> HIDE DEF a, c, j, e
  <2>4. Within(c, c.wire, P)
    BY <2>2, WithinSame
  <2>5. ~IsStart(j)
    BY <2>3 DEF IsStart
  <2>6. Within(m, m.wire, P) /\ m.link = c.link /\ m.config = c.config
    BY <2>2, <2>3, <2>4, <2>5, InvokeWithin
  <2>7. e = c \/ e = m
    BY <2>1, <2>2 DEF EndSession, Connected
  <2> HIDE DEF m
  <2> QED BY <1>2, <2>2, <2>4, <2>6, <2>7 DEF e
<1>5. CASE i.attempt \notin d.handled /\ i.timedOut
  <2> DEFINE l == [party |-> i.party, attempt |-> i.attempt, fresh |-> i.fresh, newer |-> d.inFlight]
             t == d.late \cup {l}
             m == EndLate(d, i1)
  <2>1. e = [d EXCEPT !.late = t] \/ e = m
    BY <1>5 DEF StartArrives
  <2>2. Starts(i1)
    BY <1>1, FS_Singleton DEF Starts, Invocations
  <2>3. \A k \in i1 : k.party \in P
    OBVIOUS
  <2> HIDE DEF i1
  <2>4. Within(m, m.wire, P) /\ m.link = d.link /\ m.config = d.config
    BY <1>1, <2>2, <2>3, EndLateWithin
  <2>5. \A k \in t : k.party \in P
    BY DEF Within
  <2> HIDE DEF t, m, e
  <2>6. CASE e = [d EXCEPT !.late = t]
    <3>1. /\ e.config = d.config /\ e.late = t /\ e.lifecycle = d.lifecycle
          /\ e.link = d.link /\ e.wire = d.wire
      BY <1>1, <2>6 DEF Desk
    <3>2. Within(e, e.wire, P)
      BY <2>5, <3>1 DEF Within, Running
    <3> QED BY <1>2, <3>1, <3>2 DEF e
  <2> QED BY <1>2, <2>1, <2>4, <2>6 DEF e
<1> QED BY <1>3, <1>4, <1>5

(* The promise of a start is settled.                                      *)
LEMMA SettlesWithin ==
  ASSUME NEW P, NEW d, NEW e, NEW w, NEW a, Within(d, w, P), Settles(d, e, a),
         d.lifecycle \in Seq(Teardowns), e.lifecycle \in Seq(Teardowns),
         e.config = d.config
  PROVE  Within(e, w, P) /\ (e.lifecycle # <<>> => d.lifecycle # <<>>)
<1>1. DOMAIN e.lifecycle = DOMAIN d.lifecycle /\ e.late \subseteq d.late
  BY DEF Settles
<1>2. \A k \in DOMAIN e.lifecycle :
        /\ e.lifecycle[k].party = d.lifecycle[k].party
        /\ e.lifecycle[k].fresh = d.lifecycle[k].fresh
  BY DEF Settles
<1>3. e.lifecycle # <<>> => d.lifecycle # <<>> /\ 1 \in DOMAIN e.lifecycle
  <2>1. e.lifecycle # <<>> => 1 \in DOMAIN e.lifecycle
    OBVIOUS
  <2>2. 1 \in DOMAIN d.lifecycle => d.lifecycle # <<>>
    OBVIOUS
  <2> QED BY <1>1, <2>1, <2>2
<1> QED BY <1>1, <1>2, <1>3 DEF Within, Running

(* startSession returns to those who wait for it.                          *)
LEMMA StartSucceedsWithin ==
  ASSUME NEW P, NEW d, NEW on, Orderly(d, d.wire, on), Connected(d), Within(d, d.wire, P),
         sourceLive \in [Source -> BOOLEAN],
         NEW i \in Invocations, IsStart(i), i.attempt <= d.lastAttempt, i.party \in P
  PROVE  LET e == StartSucceeds(d, i) IN
         Within(e, e.wire, P) /\ e.link = d.link /\ e.config = d.config
<1> DEFINE c == StartArrives(d, i)
           b == Settle(c, i.attempt, TRUE)
           t == {l \in b.late : l.newer # i.attempt}
           x == b.liveSession \/ i.waiter = "sync"
           m == [b EXCEPT !.late = t, !.liveSession = x]
           n == [m EXCEPT !.liveSession = TRUE]
           s == Synchronize(n)
           e == StartSucceeds(d, i)
<1>1. Within(c, c.wire, P) /\ c.link = d.link /\ c.config = d.config /\ c \in Desk
  BY StartArrivesWithin
<1>2. /\ d.step = "starting" => Running(d)
      /\ \/ e = c \/ e = m
         \/ d.step = "starting" /\ e = s
  <2>1. e = CASE i.timedOut -> c
              [] ~i.timedOut /\ d.step = "starting" /\ d.inFlight = i.attempt -> s
              [] OTHER -> m
    BY DEF StartSucceeds
  <2> HIDE DEF c, e, m, s
  <2> QED BY <2>1 DEF Orderly, RestFits
<1> HIDE DEF c
<1>3. /\ b \in Desk /\ b.config = c.config /\ b.link = c.link /\ b.wire = c.wire
      /\ Settles(c, b, i.attempt)
  <2> DEFINE tt == TRUE
  <2>1. tt \in BOOLEAN
    OBVIOUS
  <2> HIDE DEF tt
  <2> DEFINE bb == Settle(c, i.attempt, tt)
  <2>2. /\ bb \in Desk /\ bb.config = c.config /\ bb.link = c.link /\ bb.wire = c.wire
        /\ Settles(c, bb, i.attempt)
    BY <1>1, <2>1, SettleIs
  <2> QED BY <2>2 DEF tt
<1> HIDE DEF b
<1>4. Within(b, b.wire, P)
  <2>1. b.lifecycle \in Seq(Teardowns) /\ c.lifecycle \in Seq(Teardowns)
    BY <1>1, <1>3 DEF Desk
  <2> QED BY <1>1, <1>3, <2>1, SettlesWithin
<1>5. t \subseteq b.late /\ x \in BOOLEAN
  BY <1>3 DEF Desk
<1> HIDE DEF t, x
<1>6. /\ m \in Desk /\ m.config = b.config /\ m.link = b.link /\ m.wire = b.wire
      /\ m.late = t /\ m.lifecycle = b.lifecycle
  BY <1>3, <1>5 DEF Desk
<1> HIDE DEF m
<1>7. Within(m, m.wire, P)
  BY <1>4, <1>5, <1>6 DEF Within, Running
<1>8. /\ n \in Desk /\ n.config = m.config /\ n.link = m.link /\ n.wire = m.wire
      /\ n.late = m.late /\ n.lifecycle = m.lifecycle
  BY <1>6 DEF Desk
<1> HIDE DEF n
<1>9. Within(n, n.wire, P)
  BY <1>7, <1>8, WithinSame
<1>10. Running(n) => Within(s, s.wire, P) /\ s.link = n.link /\ s.config = n.config
  BY <1>8, <1>9, SynchronizeWithin
<1> HIDE DEF s, e
<1>11. Running(d) => Running(n)
  BY <1>1, <1>3, <1>6, <1>8 DEF Running
<1> QED BY <1>1, <1>2, <1>3, <1>6, <1>7, <1>8, <1>10, <1>11 DEF e

(* The party is joined: the session starts, or the state is published.     *)
LEMMA JoinedWithin ==
  ASSUME NEW P, NEW d \in Desk, Running(d), Within(d, d.wire, P),
         sourceLive \in [Source -> BOOLEAN]
  PROVE  LET e == Joined(d) IN
         Within(e, e.wire, P) /\ e.link = d.link /\ e.config = d.config
<1> DEFINE c == [d EXCEPT !.subscribed = TRUE]
           b == [c EXCEPT !.step = "starting"]
           l == d.liveSession /\ Live(d)
           n == [c EXCEPT !.liveSession = l]
           nobody == "nobody"
           e == Joined(d)
           m == StartSession(b, d.config.party, nobody)
           s == Synchronize(n)
<1>1. e = m \/ e = s
  <2>1. c.liveSession = d.liveSession
    BY DEF Desk
  <2> QED BY <2>1 DEF Joined
<1>2. l \in BOOLEAN /\ nobody \in {"nobody", "sync"}
  BY DEF Desk, Live, Running, Config
<1> HIDE DEF l, nobody
<1>3. /\ b \in Desk /\ b.config = d.config /\ b.link = d.link /\ b.wire = d.wire
      /\ b.late = d.late /\ b.lifecycle = d.lifecycle
  BY DEF Desk, Steps
<1>4. /\ n \in Desk /\ n.config = d.config /\ n.link = d.link /\ n.wire = d.wire
      /\ n.late = d.late /\ n.lifecycle = d.lifecycle
  BY <1>2 DEF Desk
<1> HIDE DEF b, n, e
<1>5. Running(b) /\ Running(n) /\ Within(b, b.wire, P) /\ Within(n, n.wire, P)
  BY <1>3, <1>4, WithinSame DEF Running
<1>6. Within(m, m.wire, P) /\ m.link = b.link /\ m.config = b.config
  <2> DEFINE mm == StartSession(b, b.config.party, nobody)
  <2>1. Within(mm, mm.wire, P) /\ mm.link = b.link /\ mm.config = b.config
    BY <1>2, <1>3, <1>5, StartSessionWithin
  <2>2. mm = m
    BY <1>3
  <2> HIDE DEF m, mm
  <2> QED BY <2>1, <2>2
<1>7. Within(s, s.wire, P) /\ s.link = n.link /\ s.config = n.config
  BY <1>4, <1>5, SynchronizeWithin
<1> HIDE DEF m, s
<1> QED BY <1>1, <1>3, <1>4, <1>6, <1>7 DEF e

(* The source's changes are noted.                                         *)
LEMMA SourceChangesWithin ==
  ASSUME NEW P, NEW d \in Desk, Within(d, d.wire, P)
  PROVE  LET e == SourceChanges(d) IN
         /\ Within(e, e.wire, P) /\ e.link = d.link /\ e.config = d.config /\ e \in Desk
<1> DEFINE e == SourceChanges(d)
<1>1. e \in Desk /\ SameRecord(d, e) /\ e.config = d.config /\ e.wire = d.wire
  BY SourceChangesRecords
<1>2. e.link = d.link
  BY DEF SourceChanges, Desk
<1> HIDE DEF e
<1> QED BY <1>1, <1>2, WithinSame DEF e, SameRecord

(* The live session begins or ends with the source.                        *)
LEMMA SyncWithin ==
  ASSUME NEW P, NEW d \in Desk, Within(d, d.wire, P), NEW isLive \in BOOLEAN
  PROVE  LET e == SyncLiveSession(d, isLive) IN
         Within(e, e.wire, P) /\ e.link = d.link /\ e.config = d.config
<1> DEFINE p == d.config.party
           sync == "sync"
           nobody == "nobody"
           i == EndOf(p, d.active[p], nobody)
           j == Invocation("Reset", p, nobody)
           b == Invoke(d, i)
           c == Invoke(b, j)
           m == StartSession(d, p, sync)
           On == Running(d) /\ d.ready /\ Connected(d)
           x == IF d.liveSession /\ d.config.source = "aimp" THEN c ELSE d
           y == [x EXCEPT !.liveSession = FALSE]
           e == SyncLiveSession(d, isLive)
<1>1. e = CASE ~Running(d) \/ ~d.ready \/ ~Connected(d) -> d
            [] Running(d) /\ d.ready /\ Connected(d) /\ isLive -> IF d.liveSession THEN d ELSE m
            [] Running(d) /\ d.ready /\ Connected(d) /\ ~isLive -> y
  BY DEF SyncLiveSession
<1> HIDE DEF e, y, m
<1>2. \/ e = d
      \/ On /\ e \in {m, y}
  BY <1>1
<1>3. ASSUME On
      PROVE  /\ Within(m, m.wire, P) /\ m.link = d.link /\ m.config = d.config
             /\ Within(y, y.wire, P) /\ y.link = d.link /\ y.config = d.config
  <2>1. Running(d) /\ p \in P /\ p \in Party
    BY <1>3 DEF Within, Desk, Config, Running
  <2>2. sync \in {"nobody", "sync"}
    OBVIOUS
  <2> HIDE DEF sync
  <2>3. Within(m, m.wire, P) /\ m.link = d.link /\ m.config = d.config
    BY <2>1, <2>2, StartSessionWithin DEF m
  <2>4. /\ i \in Invocations /\ i.party = p /\ ~IsStart(i)
        /\ j \in Invocations /\ j.party = p /\ ~IsStart(j)
    BY <2>1 DEF EndOf, Invocation, Invocations, Desk, IsStart
  <2> HIDE DEF i, j
  <2>5. Within(b, b.wire, P) /\ b.link = d.link /\ b.config = d.config /\ b \in Desk
    BY <2>1, <2>4, InvokeWithin
  <2> HIDE DEF b
  <2>6. Within(c, c.wire, P) /\ c.link = b.link /\ c.config = b.config /\ c \in Desk
    BY <2>1, <2>4, <2>5, InvokeWithin
  <2> HIDE DEF c
  <2>7. Within(x, x.wire, P) /\ x.link = d.link /\ x.config = d.config /\ x \in Desk
    BY <2>5, <2>6
  <2> HIDE DEF x
  <2>8. /\ y.config = x.config /\ y.link = x.link /\ y.wire = x.wire
        /\ y.late = x.late /\ y.lifecycle = x.lifecycle
    BY <2>7 DEF y, Desk
  <2>9. Within(y, y.wire, P)
    BY <2>7, <2>8, WithinSame
  <2> QED BY <2>3, <2>7, <2>8, <2>9
<1> QED BY <1>2, <1>3 DEF e

(* One invocation is rejected.                                             *)
LEMMA RejectWithin ==
  ASSUME NEW P, NEW d, NEW w, NEW on, Orderly(d, w, on), Awaits(d, w), w # <<>>,
         ~Connected(d), d.wire = <<>>, Within(d, <<>>, P)
  PROVE  LET e == Reject(d, Head(w)) IN Within(e, <<>>, P)
<1> DEFINE i == Head(w)
           e == Reject(d, i)
<1>1. d \in Desk /\ w \in Wire /\ i \in Invocations /\ i = w[1] /\ 1 \in DOMAIN w
  BY TailIs DEF Orderly
<1>2. IsFiniteSet(d.late)
  BY DEF Orderly, AttemptsFit
<1>3. i.waiter = "teardown" => d.lifecycle # <<>>
  BY <1>1 DEF Orderly, TeardownsFit
<1> HIDE DEF i
<1>4. CASE i.op = "Start" /\ ~i.timedOut
  <2> DEFINE m == StartFails(d, i)
  <2>1. e = m
    BY <1>4 DEF Reject
  <2>2. Settles(d, m, i.attempt) /\ m.config = d.config
    BY <1>1, <1>2, StartFailsIs
  <2>3. e \in Desk
    BY RejectFits DEF Orderly, i
  <2> HIDE DEF m, e
  <2>4. e.lifecycle \in Seq(Teardowns) /\ d.lifecycle \in Seq(Teardowns)
    BY <1>1, <2>3 DEF Desk
  <2> QED BY <2>1, <2>2, <2>4, SettlesWithin DEF e, i
<1>5. CASE i.op = "End" /\ i.waiter # "newProject"
  <2> DEFINE m == EndReturned(d, i)
             none == <<>>
  <2>1. e = m
    BY <1>5 DEF Reject
  <2> HIDE DEF none
  <2>2. Within(m, none, P)
    BY <1>1, <1>3, EndReturnedWithin DEF none
  <2> QED BY <2>1, <2>2 DEF i, none
<1>6. CASE i.op = "Reset" /\ i.waiter = "teardown"
  <2> DEFINE m == [d EXCEPT !.lifecycle = Tail(@)]
             none == <<>>
  <2>1. e = m
    BY <1>6 DEF Reject
  <2>2. \A k \in DOMAIN none : none[k].waiter # "teardown"
    OBVIOUS
  <2> HIDE DEF none
  <2>3. Within(m, none, P)
    BY <1>1, <1>3, <1>6, <2>2, PopWithin DEF none
  <2> QED BY <2>1, <2>3 DEF i, none
<1>7. CASE /\ ~(i.op = "Start" /\ ~i.timedOut)
           /\ ~(i.op = "End" /\ i.waiter # "newProject")
           /\ ~(i.op = "Reset" /\ i.waiter = "teardown")
  <2> DEFINE f == [d EXCEPT !.step = "idle", !.dials = FALSE, !.ready = FALSE]
             g == [d EXCEPT !.ready = FALSE]
  <2>1. e \in {d, ScheduleReconnect(f), ScheduleReconnect(g)}
    BY <1>7 DEF Reject, ConnectFails, PublishFails
  <2>2. /\ f \in Desk /\ f.config = d.config /\ f.late = d.late /\ f.lifecycle = d.lifecycle
        /\ g \in Desk /\ g.config = d.config /\ g.late = d.late /\ g.lifecycle = d.lifecycle
    BY <1>1 DEF Desk, Steps
  <2> HIDE DEF e, f, g
  <2>3. e.config = d.config /\ e.late = d.late /\ e.lifecycle = d.lifecycle
    BY <2>1, <2>2 DEF ScheduleReconnect, Desk
  <2> QED BY <2>3, WithinSame DEF e, i
<1> QED BY <1>4, <1>5, <1>6, <1>7

(* With the wire goes what is on it.                                       *)
LEMMA EmptyWithin ==
  ASSUME NEW P, NEW d, NEW w, Within(d, w, P)
  PROVE  Within(d, <<>>, P)
BY DEF Within

(* The connection closes, and nothing is under way.                        *)
LEMMA CloseWithin ==
  ASSUME NEW P, NEW d, NEW x, Orderly(d, d.wire, x), Awaits(d, d.wire), NEW link \in Links,
         link # "connected",
         d.step = "dialing" \/ link \in {"preparing", "starting"} => link = d.link,
         Within(d, d.wire, P)
  PROVE  Within(CloseConnection(d, link), <<>>, P)
<1> DEFINE w == d.wire
           n == Len(w)
           base == [d EXCEPT !.link = link, !.wire = <<>>]
           Left(k, g) == /\ k <= n
                         /\ Orderly(g, SubSeq(w, k + 1, n), x)
                         /\ Awaits(g, SubSeq(w, k + 1, n))
                         /\ Within(g, <<>>, P)
                         /\ g.wire = <<>> /\ g.link = link
           Good == {g \in Nat \X Desk : Left(g[1], g[2])}
<1>1. d \in Desk /\ w \in Wire /\ n \in Nat
  BY DEF Orderly, Wire
<1>2. /\ base \in Desk /\ base.wire = <<>> /\ base.link = link
      /\ base.config = d.config /\ base.step = d.step /\ base.ready = d.ready
      /\ base.subscribed = d.subscribed /\ base.behind = d.behind /\ base.coalescing = d.coalescing
      /\ base.lastAttempt = d.lastAttempt /\ base.inFlight = d.inFlight /\ base.active = d.active
      /\ base.handled = d.handled /\ base.late = d.late /\ base.lifecycle = d.lifecycle
      /\ base.currentParty = d.currentParty /\ base.timer = d.timer
      /\ base.liveSession = d.liveSession
  <2>1. <<>> \in Seq(Invocations)
    OBVIOUS
  <2> QED BY <1>1, <2>1 DEF Desk
<1> HIDE DEF base
<1>3. Orderly(base, w, x)
  <2>1. AttemptsFit(base, w) /\ StartsFit(base, w)
    BY <1>2 DEF Orderly, AttemptsFit, StartsFit
  <2>2. WaitersFit(base, w, x)
    BY <1>2 DEF Orderly, WaitersFit, Running
  <2>3. TeardownsFit(base, w)
    BY <1>2 DEF Orderly, TeardownsFit, Running
  <2>4. RestFits(base) /\ LinkFits(base) /\ PartyFits(base)
    BY <1>2 DEF Orderly, RestFits, LinkFits, PartyFits, Running, Connected, Settling
  <2> QED BY <1>1, <1>2, <2>1, <2>2, <2>3, <2>4 DEF Orderly
<1>4. Awaits(base, w) /\ Within(base, <<>>, P)
  <2>1. Within(d, <<>>, P)
    BY EmptyWithin
  <2> QED BY <1>2, <2>1, WithinSame DEF Awaits
<1>5. <<0, base>> \in Good
  <2>1. SubSeq(w, 0 + 1, n) = w
    BY <1>1, RestIs
  <2>2. Left(0, base)
    <3> DEFINE rest == SubSeq(w, 0 + 1, n)
    <3>1. rest = w
      BY <2>1
    <3> HIDE DEF rest
    <3>2. Orderly(base, rest, x) /\ Awaits(base, rest)
      BY <1>3, <1>4, <3>1
    <3>3. 0 <= n
      BY <1>1
    <3> QED BY <1>2, <1>4, <3>2, <3>3 DEF rest
  <2> HIDE DEF Left
  <2> QED BY <1>2, <2>2
<1>6. ASSUME NEW k \in Nat, NEW g, k < n, <<k, g>> \in Good
      PROVE  <<k + 1, Reject(g, w[k + 1])>> \in Good
  <2> DEFINE rest == SubSeq(w, k + 1, n)
             e == Reject(g, w[k + 1])
  <2>1. /\ rest # <<>> /\ Head(rest) = w[k + 1]
        /\ Tail(rest) = SubSeq(w, (k + 1) + 1, n)
    BY <1>1, <1>6, RestIs
  <2>0. Left(k, g)
    <3> HIDE DEF Left
    <3> QED BY <1>6
  <2>2. /\ Orderly(g, rest, x) /\ Awaits(g, rest) /\ Within(g, <<>>, P)
        /\ g.wire = <<>> /\ g.link = link
    BY <2>0
  <2> HIDE DEF rest
  <2>3. /\ Orderly(e, Tail(rest), x) /\ Awaits(e, Tail(rest))
        /\ e.wire = <<>> /\ e.link = g.link
    BY <2>1, <2>2, RejectFits DEF Connected
  <2>4. Within(e, <<>>, P)
    BY <2>1, <2>2, RejectWithin DEF Connected
  <2>5. e \in Desk
    BY <2>3 DEF Orderly
  <2> HIDE DEF e
  <2>6. Left(k + 1, e)
    <3> DEFINE left == SubSeq(w, (k + 1) + 1, n)
    <3>1. Tail(rest) = left
      BY <2>1
    <3> HIDE DEF left
    <3>2. Orderly(e, left, x) /\ Awaits(e, left)
      BY <2>3, <3>1
    <3>3. k + 1 <= n
      BY <1>1, <1>6
    <3> QED BY <2>2, <2>3, <2>4, <3>2, <3>3 DEF left
  <2> HIDE DEF Left
  <2> QED BY <2>5, <2>6 DEF e
<1> DEFINE e == CloseConnection(d, link)
<1> HIDE DEF Good, Left
<1>7. \A k \in Nat : \A g : k < n /\ <<k, g>> \in Good => <<k + 1, Reject(g, w[k + 1])>> \in Good
  BY <1>6
<1>8. <<n, e>> \in Good
  BY <1>1, <1>5, <1>7, CloseRejects DEF base
<1> HIDE DEF e
<1>9. Left(n, e)
  BY <1>8 DEF Good
<1> QED BY <1>9 DEF Left, e

(* disconnect leaves nothing on the wire.                                  *)
LEMMA DisconnectWithin ==
  ASSUME NEW P, NEW d, NEW x, Orderly(d, d.wire, x), Awaits(d, d.wire),
         ~Running(d), Within(d, d.wire, P)
  PROVE  LET e == Disconnect(d) IN Within(e, e.wire, P)
<1> DEFINE link == IF d.link = "preparing" THEN d.link ELSE "none"
           c == CloseConnection(d, link)
           e == Disconnect(d)
<1>1. d \in Desk /\ link \in Links /\ link # "connected"
  BY DEF Orderly, Desk, Links
<1>2. d.step # "dialing"
  BY DEF Orderly, RestFits
<1>3. Within(c, <<>>, P)
  BY <1>1, <1>2, CloseWithin
<1>4. Orderly(c, <<>>, x) /\ c.wire = <<>> /\ c.config = d.config
  BY <1>1, <1>2, CloseFits
<1>5. e = [c EXCEPT !.currentParty = NoParty]
  BY DEF Disconnect
<1> HIDE DEF c, e
<1>6. c \in Desk
  BY <1>4 DEF Orderly
<1>7. /\ e.config = c.config /\ e.wire = <<>> /\ e.late = c.late /\ e.lifecycle = c.lifecycle
  BY <1>4, <1>5, <1>6 DEF Desk
<1>8. Within(e, <<>>, P)
  BY <1>3, <1>7, WithinSame
<1> QED BY <1>7, <1>8 DEF e

(* A step that carries out nothing on the server and keeps the connection. *)
Quietly(P) ==
  /\ Within(desk', desk'.wire, P)
  /\ session' = session
  /\ Connected(desk) => Connected(desk')

(* Nothing that the hub will be asked is another.                          *)
LEMMA SameQuietly ==
  ASSUME NEW P, Within(desk, desk.wire, P), UNCHANGED session,
         desk'.config = desk.config, desk'.late = desk.late,
         desk'.lifecycle = desk.lifecycle, desk'.wire = desk.wire,
         Connected(desk) => Connected(desk')
  PROVE  Quietly(P)
BY WithinSame DEF Quietly

(* A start takes the desktop's connection along.                           *)
LEMMA StartQuietly ==
  ASSUME StreamingInv, NEW P, Within(desk, desk.wire, P), P = scenario.parties,
         NEW g \in Config, Start(g)
  PROVE  Quietly(P)
<1> DEFINE e == Connect([StopInternal(desk) EXCEPT !.config = g])
<1>1. g.party \in P /\ desk' = e /\ session' = session
  BY DEF Start
<1>2. Within(e, e.wire, P) /\ e.link = desk.link
  BY <1>1, DeskIs, StartsWithin
<1> HIDE DEF e
<1> QED BY <1>1, <1>2 DEF Quietly, Connected

(* The desktop keeps the connection until it has torn down.                *)
LEMMA StopQuietly ==
  ASSUME StreamingInv, NEW P, Within(desk, desk.wire, P), Stop
  PROVE  Quietly(P)
<1> DEFINE e == TakeDown(desk, Live(desk))
<1>1. Running(desk) /\ desk' = e /\ session' = session
  BY DEF Stop
<1>2. Within(e, e.wire, P) /\ e.link = desk.link
  BY <1>1, DeskIs, TakeDownWithin
<1> HIDE DEF e
<1> QED BY <1>1, <1>2 DEF Quietly, Connected

(* Recovery keeps a connection that works.                                 *)
LEMMA ReconnectQuietly ==
  ASSUME StreamingInv, NEW P, Within(desk, desk.wire, P), Reconnect
  PROVE  Quietly(P)
<1>1. PICK supersede \in BOOLEAN : desk' = Recover(desk, supersede)
  BY DEF Reconnect
<1> DEFINE e == Recover(desk, supersede)
<1>2. Within(e, e.wire, P) /\ e.link = desk.link
  BY DeskIs, RecoverWithin
<1> HIDE DEF e
<1>3. desk' = e /\ session' = session
  BY <1>1 DEF Reconnect, e
<1> QED BY <1>2, <1>3 DEF Quietly, Connected

(* Going live starts the party's session.                                  *)
LEMMA GoLiveQuietly ==
  ASSUME StreamingInv, NEW P, Within(desk, desk.wire, P), NEW s \in Source, GoLive(s)
  PROVE  Quietly(P)
<1> DEFINE on == TRUE
           c == SourceChanges(desk)
           e == SyncLiveSession(c, on)
<1>1. desk \in Desk
  BY DeskIs
<1>2. desk' \in {desk, e} /\ session' = session
  BY DEF GoLive
<1>3. on \in BOOLEAN
  OBVIOUS
<1> HIDE DEF on, c, e
<1>4. Within(c, c.wire, P) /\ c.link = desk.link /\ c.config = desk.config /\ c \in Desk
  BY <1>1, SourceChangesWithin DEF c
<1>5. Within(e, e.wire, P) /\ e.link = c.link
  BY <1>3, <1>4, SyncWithin DEF e
<1> QED BY <1>2, <1>4, <1>5 DEF Quietly, Connected

(* Going off air ends and resets the party's.                              *)
LEMMA StopLiveQuietly ==
  ASSUME StreamingInv, NEW P, Within(desk, desk.wire, P), NEW s \in Source, StopLive(s)
  PROVE  Quietly(P)
<1> DEFINE off == FALSE
           stop == "stop"
           b == SourceChanges(desk)
           i(c) == Invocation("Reset", c.config.party, stop)
           f(c) == IF s = "cherryPlayPlayer" /\ Running(c) /\ Connected(c)
                   THEN Invoke(c, i(c)) ELSE c
           Sound(c) == Within(c, c.wire, P) /\ c.link = desk.link /\ c \in Desk
<1>1. Sound(desk) /\ off \in BOOLEAN
  BY DeskIs
<1> HIDE DEF off
<1>2. session' = session /\ \E c \in {b, desk} : desk' \in {f(c), SyncLiveSession(f(c), off)}
  BY DEF StopLive, off
<1>3. Sound(b)
  BY <1>1, SourceChangesWithin
<1>4. ASSUME NEW c, Sound(c)
      PROVE  Sound(f(c))
  <2>1. CASE s = "cherryPlayPlayer" /\ Running(c) /\ Connected(c)
    <3> DEFINE j == i(c)
               m == Invoke(c, j)
    <3>1. c.config.party \in P /\ c.config.party \in Party
      BY <1>4, <2>1 DEF Within, Desk, Config, Running
    <3>2. j \in Invocations /\ j.party = c.config.party /\ ~IsStart(j)
      BY <3>1 DEF Invocation, Invocations, IsStart
    <3> HIDE DEF j
    <3>3. Within(m, m.wire, P) /\ m.link = c.link /\ m \in Desk
      BY <1>4, <3>1, <3>2, InvokeWithin
    <3> HIDE DEF m
    <3>4. f(c) = m
      BY <2>1 DEF m, j
    <3> QED BY <1>4, <3>3, <3>4
  <2>2. CASE ~(s = "cherryPlayPlayer" /\ Running(c) /\ Connected(c))
    BY <1>4, <2>2
  <2> QED BY <2>1, <2>2
<1> HIDE DEF f, b
<1>5. PICK c \in {b, desk} : desk' \in {f(c), SyncLiveSession(f(c), off)}
  BY <1>2
<1> DEFINE g == f(c)
           e == SyncLiveSession(g, off)
<1>6. Sound(g)
  BY <1>1, <1>3, <1>4, <1>5
<1> HIDE DEF g
<1>7. Within(e, e.wire, P) /\ e.link = g.link
  BY <1>1, <1>6, SyncWithin
<1> HIDE DEF e
<1>8. desk' \in {g, e}
  BY <1>5 DEF g, e
<1> QED BY <1>2, <1>6, <1>7, <1>8 DEF Quietly, Connected

(* A new project ends the party's session.                                 *)
LEMMA NewProjectQuietly ==
  ASSUME StreamingInv, NEW P, Within(desk, desk.wire, P), NewProject
  PROVE  Quietly(P)
<1> DEFINE p == desk.config.party
           newProject == "newProject"
           c == IF PlaysFrom("cherryPlayPlayer") THEN SourceChanges(desk) ELSE desk
           i == EndOf(p, c.active[p], newProject)
           e == Invoke(c, i)
<1>1. session' = session
  BY DEF NewProject
<1>2. CASE UNCHANGED desk
  BY <1>1, <1>2, SameQuietly
<1>3. CASE Running(desk) /\ Connected(desk) /\ desk' = e
  <2>1. desk \in Desk
    BY DeskIs
  <2>2. Within(c, c.wire, P) /\ c.link = desk.link /\ c \in Desk
    BY <2>1, SourceChangesWithin
  <2> HIDE DEF c
  <2>3. p \in P /\ p \in Party
    BY <1>3, <2>1 DEF Within, Desk, Config, Running
  <2>4. i \in Invocations /\ i.party = p /\ ~IsStart(i)
    BY <2>2, <2>3 DEF EndOf, Invocation, Invocations, Desk, IsStart
  <2> HIDE DEF i
  <2>5. Within(e, e.wire, P) /\ e.link = c.link
    BY <2>2, <2>3, <2>4, InvokeWithin
  <2> HIDE DEF e
  <2> QED BY <1>1, <1>3, <2>2, <2>5 DEF Quietly, Connected
<1> QED BY <1>2, <1>3 DEF NewProject

(* AIMP's changes start or end the party's.                                *)
LEMMA SyncAimpQuietly ==
  ASSUME StreamingInv, NEW P, Within(desk, desk.wire, P), SyncAimp
  PROVE  Quietly(P)
<1> DEFINE on == sourceLive["aimp"]
           e == SyncLiveSession(desk, on)
<1>1. desk \in Desk /\ on \in BOOLEAN
  BY DeskIs DEF Source
<1>2. desk' = e /\ session' = session
  BY DEF SyncAimp
<1> HIDE DEF on
<1>3. Within(e, e.wire, P) /\ e.link = desk.link
  BY <1>1, SyncWithin
<1> HIDE DEF e
<1> QED BY <1>2, <1>3 DEF Quietly, Connected

(* A desk that joins.                                                      *)
LEMMA JoinPartyQuietly ==
  ASSUME StreamingInv, NEW P, Within(desk, desk.wire, P), UNCHANGED session, Running(desk),
         NEW c \in Desk, c.config = desk.config, c.late = desk.late,
         c.lifecycle = desk.lifecycle, c.wire = desk.wire, Connected(c),
         desk' = JoinParty(c)
  PROVE  Quietly(P)
<1> DEFINE b == [c EXCEPT !.step = "joining", !.dials = FALSE]
           i == Invocation("Join", c.config.party, "connect")
           e == Invoke(b, i)
<1>1. /\ b \in Desk /\ b.config = c.config /\ b.late = c.late /\ b.lifecycle = c.lifecycle
      /\ b.wire = c.wire /\ b.link = c.link
  BY DEF Desk, Steps
<1>2. desk' = e
  BY DEF JoinParty
<1>3. i \in Invocations /\ IsJoin(i) /\ ~IsStart(i)
  BY DEF Invocation, Invocations, Desk, Running, Config, IsJoin, IsStart
<1> HIDE DEF b, i
<1>4. Within(b, b.wire, P)
  BY <1>1, WithinSame
<1>5. Within(e, e.wire, P) /\ e.link = b.link
  BY <1>1, <1>3, <1>4, InvokeWithin
<1> HIDE DEF e
<1> QED BY <1>1, <1>2, <1>5 DEF Quietly, Connected

(* The party exists.                                                       *)
LEMMA PartyExistsQuietly ==
  ASSUME StreamingInv, NEW P, Within(desk, desk.wire, P), PartyExists
  PROVE  Quietly(P)
<1>1. /\ desk.step = "checking" /\ session' = session
      /\ desk' = IF Connected(desk) THEN JoinParty(desk) ELSE Dial(desk)
  BY DEF PartyExists
<1>2. Running(desk) /\ desk \in Desk
  BY <1>1, DeskIs
<1>3. CASE Connected(desk)
  BY <1>1, <1>2, <1>3, JoinPartyQuietly
<1>4. CASE ~Connected(desk)
  <2>1. /\ desk'.config = desk.config /\ desk'.wire = desk.wire /\ desk'.late = desk.late
        /\ desk'.lifecycle = desk.lifecycle
    BY <1>1, <1>2, <1>4 DEF Dial, Desk
  <2> QED BY <1>1, <1>4, <2>1, SameQuietly
<1> QED BY <1>3, <1>4

(* The connection starts.                                                  *)
LEMMA DialStartsQuietly ==
  ASSUME StreamingInv, NEW P, Within(desk, desk.wire, P), DialStarts
  PROVE  Quietly(P)
<1>1. desk' = [desk EXCEPT !.link = "starting"] /\ session' = session /\ ~Connected(desk)
  BY DEF DialStarts, Connected
<1>2. /\ desk'.config = desk.config /\ desk'.wire = desk.wire /\ desk'.late = desk.late
      /\ desk'.lifecycle = desk.lifecycle
  BY <1>1, DeskIs DEF Desk
<1> QED BY <1>1, <1>2, SameQuietly

(* And is there.                                                           *)
LEMMA DialSucceedsQuietly ==
  ASSUME StreamingInv, NEW P, Within(desk, desk.wire, P), DialSucceeds
  PROVE  Quietly(P)
<1> DEFINE c == [desk EXCEPT !.link = "connected"]
<1>1. /\ session' = session /\ desk' = IF desk.step = "dialing" THEN JoinParty(c) ELSE c
      /\ desk.step = "dialing" => Running(desk)
  BY DeskIs DEF DialSucceeds
<1>2. /\ c \in Desk /\ c.config = desk.config /\ c.wire = desk.wire /\ c.late = desk.late
      /\ c.lifecycle = desk.lifecycle /\ Connected(c)
  BY DeskIs DEF Desk, Links, Connected
<1> HIDE DEF c
<1> QED BY <1>1, <1>2, JoinPartyQuietly, SameQuietly

(* The client reconnects, and joins again.                                 *)
LEMMA ReconnectedQuietly ==
  ASSUME StreamingInv, NEW P, Within(desk, desk.wire, P), Reconnected
  PROVE  Quietly(P)
<1> DEFINE c == [desk EXCEPT !.link = "connected"]
           i == Invocation("Join", desk.currentParty, "rejoin")
           e == Invoke(c, i)
<1>1. session' = session /\ desk' = IF desk.currentParty = NoParty THEN c ELSE e
  BY DEF Reconnected
<1>2. /\ c \in Desk /\ c.config = desk.config /\ c.wire = desk.wire /\ c.late = desk.late
      /\ c.lifecycle = desk.lifecycle /\ Connected(c)
  BY DeskIs DEF Desk, Links, Connected
<1>3. desk.currentParty # NoParty => i \in Invocations
  BY DeskIs DEF Desk, Invocation, Invocations
<1>4. IsJoin(i) /\ ~IsStart(i)
  BY DEF Invocation, IsJoin, IsStart
<1> HIDE DEF c, i
<1>5. CASE desk.currentParty = NoParty
  BY <1>1, <1>2, <1>5, SameQuietly
<1>6. CASE desk.currentParty # NoParty
  <2>1. Within(c, c.wire, P)
    BY <1>2, WithinSame
  <2>2. Within(e, e.wire, P) /\ e.link = c.link
    BY <1>2, <1>3, <1>4, <1>6, <2>1, InvokeWithin
  <2> HIDE DEF e
  <2> QED BY <1>1, <1>2, <1>6, <2>2 DEF Quietly, Connected
<1> QED BY <1>5, <1>6

(* Or gives up.                                                            *)
LEMMA ExhaustedQuietly ==
  ASSUME StreamingInv, NEW P, Within(desk, desk.wire, P), Exhausted
  PROVE  Quietly(P)
<1> DEFINE c == [desk EXCEPT !.link = "none"]
<1>1. desk' = ScheduleReconnect(c) /\ session' = session /\ ~Connected(desk)
  BY DEF Exhausted, Connected
<1>2. /\ c \in Desk /\ c.config = desk.config /\ c.wire = desk.wire /\ c.late = desk.late
      /\ c.lifecycle = desk.lifecycle
  BY DeskIs DEF Desk, Links
<1> HIDE DEF c
<1>3. /\ desk'.config = c.config /\ desk'.wire = c.wire /\ desk'.late = c.late
      /\ desk'.lifecycle = c.lifecycle
  BY <1>1, <1>2 DEF ScheduleReconnect, Desk
<1> QED BY <1>1, <1>2, <1>3, SameQuietly

(* The timer starts the next attempt.                                      *)
LEMMA TimerFiresQuietly ==
  ASSUME StreamingInv, NEW P, Within(desk, desk.wire, P), TimerFires
  PROVE  Quietly(P)
<1>1. desk' = Connect([desk EXCEPT !.timer = FALSE]) /\ session' = session
  BY DEF TimerFires
<1>2. /\ desk'.config = desk.config /\ desk'.wire = desk.wire /\ desk'.late = desk.late
      /\ desk'.lifecycle = desk.lifecycle /\ desk'.link = desk.link
  BY <1>1, DeskIs DEF Connect, Desk
<1> QED BY <1>1, <1>2, SameQuietly DEF Connected

(* The player's changes are published.                                     *)
LEMMA PublishChangesQuietly ==
  ASSUME StreamingInv, NEW P, Within(desk, desk.wire, P), PublishChanges
  PROVE  Quietly(P)
<1> DEFINE c == [desk EXCEPT !.coalescing = FALSE]
           publish == "publish"
           f == PublishFails(c)
           m == Publish(c, publish)
<1>1. /\ session' = session /\ desk.coalescing
      /\ \/ ~Connected(c) /\ desk' = f
         \/ Connected(c) /\ desk' \in {c, m}
  BY DEF PublishChanges
<1>2. Running(desk) /\ desk \in Desk
  BY <1>1, DeskIs DEF Orderly, RestFits
<1>3. /\ c \in Desk /\ c.config = desk.config /\ c.wire = desk.wire /\ c.late = desk.late
      /\ c.lifecycle = desk.lifecycle /\ c.link = desk.link
  BY <1>2 DEF Desk
<1>4. publish \in {"connect", "publish", "stop"}
  OBVIOUS
<1> HIDE DEF c, publish
<1>5. Running(c) /\ Within(c, c.wire, P)
  BY <1>2, <1>3, WithinSame DEF Running
<1>6. Within(m, m.wire, P) /\ m.link = c.link
  BY <1>3, <1>4, <1>5, DeskIs, PublishWithin
<1>7. f.config = c.config /\ f.wire = c.wire /\ f.late = c.late /\ f.lifecycle = c.lifecycle
  BY <1>3 DEF PublishFails, ScheduleReconnect, Desk
<1> HIDE DEF f, m
<1>8. CASE desk' = m
  BY <1>1, <1>3, <1>6, <1>8 DEF Quietly, Connected
<1>9. CASE desk' = c
  BY <1>1, <1>3, <1>9, SameQuietly DEF Connected
<1>10. CASE ~Connected(c) /\ desk' = f
  BY <1>1, <1>3, <1>7, <1>10, SameQuietly DEF Connected
<1> QED BY <1>1, <1>8, <1>9, <1>10

(* The first teardown waits for a start.                                   *)
LEMMA TeardownWaitsQuietly ==
  ASSUME StreamingInv, NEW P, Within(desk, desk.wire, P), TeardownWaits
  PROVE  Quietly(P)
<1> DEFINE at == "waiting"
           e == [desk EXCEPT !.lifecycle[1].at = at]
<1>1. desk.lifecycle # <<>> /\ desk' = e /\ session' = session
  BY DEF TeardownWaits, TearingDown
<1>2. at \in {"queued", "waiting", "ending", "ended", "resetting"}
      /\ e = [desk EXCEPT !.lifecycle[1].at = at]
  OBVIOUS
<1> HIDE DEF at, e
<1>3. Within(e, desk.wire, P) /\ e.link = desk.link /\ e.wire = desk.wire
  BY <1>1, <1>2, DeskIs, OnwardWithin
<1> QED BY <1>1, <1>3 DEF Quietly, Connected

(* It ends the session.                                                    *)
LEMMA TeardownEndsQuietly ==
  ASSUME StreamingInv, NEW P, Within(desk, desk.wire, P), TeardownEnds
  PROVE  Quietly(P)
<1> DEFINE ats == {"queued", "waiting"}
           at == "ending"
           c == [desk EXCEPT !.lifecycle[1].at = at]
           t == desk.lifecycle[1]
           i == EndOf(t.party, t.owner, "teardown")
           m == Invoke(c, i)
           r == EndReturned(c, i)
<1>1. TearingDown(ats) /\ ats \subseteq {"queued", "waiting", "ended"}
  BY DEF TeardownEnds
<1> HIDE DEF ats
<1>2. /\ desk.lifecycle # <<>> /\ Head(desk.lifecycle) = t /\ t \in Teardowns
      /\ 1 \in DOMAIN desk.lifecycle
  BY <1>1, TearingDownIs
<1>3. desk' = EndSession(c, i) /\ session' = session
  BY <1>1, <1>2 DEF TeardownEnds, TearingDown
<1>4. i \in Invocations /\ ~IsStart(i) /\ i.party = t.party /\ t.party \in P
  BY <1>2 DEF EndOf, Invocation, Invocations, Teardowns, IsStart, Within
<1>5. at \in {"queued", "waiting", "ending", "ended", "resetting"}
      /\ c = [desk EXCEPT !.lifecycle[1].at = at]
  OBVIOUS
<1> HIDE DEF i, t, at, c
<1>6. /\ Within(c, desk.wire, P) /\ c.link = desk.link /\ c.config = desk.config
      /\ c.wire = desk.wire /\ c \in Desk /\ c.lifecycle # <<>>
  <2>1. desk \in Desk /\ desk.lifecycle # <<>>
    BY <1>2, DeskIs
  <2>2. Within(c, desk.wire, P) /\ c.link = desk.link /\ c.wire = desk.wire
    BY <1>5, <2>1, OnwardWithin
  <2>3. c \in Desk
    BY <1>5, <2>1, OnwardWithin
  <2>4. c.lifecycle # <<>>
    BY <1>5, <2>1, OnwardWithin
  <2>5. c.config = desk.config
    BY <1>5, <2>1, OnwardWithin
  <2> QED BY <2>2, <2>3, <2>4, <2>5
<1>7. Within(c, c.wire, P)
  BY <1>6
<1>8. Within(m, m.wire, P) /\ m.link = c.link
  BY <1>4, <1>6, <1>7, InvokeWithin
<1>9. Within(r, r.wire, P) /\ r.link = c.link
  <2>1. Within(r, c.wire, P) /\ r.link = c.link /\ r.wire = c.wire
    BY <1>4, <1>6, <1>7, EndReturnedWithin
  <2> QED BY <2>1
<1>10. desk' \in {m, r}
  BY <1>3 DEF EndSession
<1> HIDE DEF m, r
<1> QED BY <1>3, <1>6, <1>8, <1>9, <1>10 DEF Quietly, Connected

(* It resets the playback; without a connection it is over.                *)
LEMMA TeardownResetsQuietly ==
  ASSUME StreamingInv, NEW P, Within(desk, desk.wire, P), TeardownResets
  PROVE  Quietly(P)
<1> DEFINE ats == {"queued", "waiting", "ended"}
           at == "resetting"
           c == [desk EXCEPT !.lifecycle[1].at = at]
           e == [desk EXCEPT !.lifecycle = Tail(@)]
           t == desk.lifecycle[1]
           i == Invocation("Reset", t.party, "teardown")
           m == Invoke(c, i)
<1>1. TearingDown(ats) /\ ats \subseteq {"queued", "waiting", "ended"}
  BY DEF TeardownResets
<1> HIDE DEF ats
<1>2. /\ desk.lifecycle # <<>> /\ Head(desk.lifecycle) = t /\ t \in Teardowns
      /\ 1 \in DOMAIN desk.lifecycle
      /\ \A k \in DOMAIN desk.wire : desk.wire[k].waiter # "teardown"
      /\ t.fresh => ~Running(desk)
  BY <1>1, TearingDownIs
<1>3. /\ desk' = IF Connected(desk) THEN m ELSE Disconnect(e)
      /\ ~Running(desk) /\ session' = session
  BY <1>1, <1>2 DEF TeardownResets, TearingDown
<1>4. CASE Connected(desk)
  <2>1. i \in Invocations /\ ~IsStart(i) /\ i.party = t.party /\ t.party \in P
    BY <1>2 DEF Invocation, Invocations, Teardowns, IsStart, Within
  <2>2. at \in {"queued", "waiting", "ending", "ended", "resetting"}
        /\ c = [desk EXCEPT !.lifecycle[1].at = at]
    OBVIOUS
  <2>3. desk' = m
    BY <1>3, <1>4
  <2> HIDE DEF i, t, at, c
  <2>4. /\ Within(c, desk.wire, P) /\ c.link = desk.link /\ c.config = desk.config
        /\ c.wire = desk.wire /\ c \in Desk /\ c.lifecycle # <<>>
    <3>1. desk \in Desk /\ desk.lifecycle # <<>>
      BY <1>2, DeskIs
    <3>2. Within(c, desk.wire, P) /\ c.link = desk.link /\ c.wire = desk.wire
      BY <2>2, <3>1, OnwardWithin
    <3>3. c \in Desk
      BY <2>2, <3>1, OnwardWithin
    <3>4. c.lifecycle # <<>>
      BY <2>2, <3>1, OnwardWithin
    <3>5. c.config = desk.config
      BY <2>2, <3>1, OnwardWithin
    <3> QED BY <3>2, <3>3, <3>4, <3>5
  <2>5. Within(c, c.wire, P)
    BY <2>4
  <2>6. Within(m, m.wire, P) /\ m.link = c.link
    BY <2>1, <2>4, <2>5, InvokeWithin
  <2> HIDE DEF m
  <2> QED BY <1>3, <2>3, <2>4, <2>6 DEF Quietly, Connected
<1>5. CASE ~Connected(desk)
  <2>1. desk' = Disconnect(e)
    BY <1>3, <1>5
  <2>2. /\ Orderly(e, desk.wire, PlayerOn) /\ Keeps(desk, e)
        /\ e.wire = desk.wire
    BY <1>2, DeskIs, PopFits
  <2>3. Within(e, desk.wire, P)
    BY <1>2, DeskIs, PopWithin
  <2> HIDE DEF e
  <2>4. ~Running(e) /\ Awaits(e, e.wire)
    BY <1>3, DeskIs, <2>2 DEF Keeps, Running, Awaits, Orderly, RestFits
  <2>5. Orderly(e, e.wire, PlayerOn) /\ Within(e, e.wire, P)
    BY <2>2, <2>3
  <2>6. Within(desk', desk'.wire, P)
    BY <2>1, <2>4, <2>5, DisconnectWithin
  <2> QED BY <1>3, <1>5, <2>6 DEF Quietly
<1> QED BY <1>4, <1>5

(* Superseded, it returns.                                                 *)
LEMMA TeardownReturnsQuietly ==
  ASSUME StreamingInv, NEW P, Within(desk, desk.wire, P), TeardownReturns
  PROVE  Quietly(P)
<1> DEFINE ats == {"queued", "waiting", "ended"}
           e == [desk EXCEPT !.lifecycle = Tail(@)]
<1>1. TearingDown(ats) /\ ats \subseteq {"queued", "waiting", "ended"}
  BY DEF TeardownReturns
<1> HIDE DEF ats
<1>2. desk.lifecycle # <<>> /\ desk' = e /\ session' = session
  BY DEF TeardownReturns, TearingDown
<1>3. \A k \in DOMAIN desk.wire : desk.wire[k].waiter # "teardown"
  BY <1>1, TearingDownIs
<1>4. Within(e, desk.wire, P) /\ e.link = desk.link /\ e.wire = desk.wire
  BY <1>2, <1>3, DeskIs, PopWithin
<1> HIDE DEF e
<1> QED BY <1>2, <1>4 DEF Quietly, Connected

(* What is answered, and what is still under way.                          *)
LEMMA HeardWithin ==
  ASSUME StreamingInv, NEW P, Within(desk, desk.wire, P), NEW c, NEW i, Answering(c, i)
  PROVE  /\ c \in Desk /\ i \in Invocations /\ c.wire \in Wire /\ Connected(c)
         /\ Orderly(c, c.wire, PlayerOn) /\ i.attempt <= c.lastAttempt
         /\ sourceLive \in [Source -> BOOLEAN]
         /\ Within(c, c.wire, P)
         /\ ~IsJoin(i) => i.party \in P
         /\ i.waiter = "connect" => Running(c)
         /\ i.waiter = "teardown" =>
              c.lifecycle # <<>> /\ \A k \in DOMAIN c.wire : c.wire[k].waiter # "teardown"
         /\ Resets(i) /\ c.lifecycle[1].fresh =>
              ~Running(c) /\ Awaits(c, c.wire) /\ \A k \in DOMAIN c.wire : ~IsStart(c.wire[k])
<1> DEFINE w == desk.wire
           v == Tail(w)
<1>1. /\ c \in Desk /\ i \in Invocations /\ Connected(c) /\ i.attempt <= c.lastAttempt
      /\ Orderly(c, c.wire, PlayerOn)
  BY AnsweringIs
<1>2. w \in Wire /\ w # <<>> /\ desk \in Desk /\ sourceLive \in [Source -> BOOLEAN]
  BY DeskIs DEF Answering
<1>3. i = w[1] /\ 1 \in DOMAIN w /\ \A k \in DOMAIN v : k + 1 \in DOMAIN w /\ v[k] = w[k + 1]
  BY <1>2, TailIs DEF Answering
<1>4. v \in Wire
  BY <1>2, TailIs
<1>5. c = [desk EXCEPT !.wire = v]
  BY DEF Answering
<1> HIDE DEF v
<1>6. /\ c.wire = v /\ c.config = desk.config /\ c.late = desk.late
      /\ c.lifecycle = desk.lifecycle
  BY <1>2, <1>5 DEF Desk
<1>7. DOMAIN v \subseteq Nat
  BY <1>4 DEF Wire
<1>8. ASSUME ~Running(desk), desk.lifecycle # <<>>, desk.lifecycle[1].fresh,
             NEW j \in DOMAIN w, NEW k \in DOMAIN w, Resets(w[j]), j < k
      PROVE  ~IsStart(w[k])
  BY <1>8 DEF Within
<1>9. Within(c, v, P)
  <2>1. ASSUME ~Running(c), c.lifecycle # <<>>, c.lifecycle[1].fresh,
               NEW j \in DOMAIN v, NEW k \in DOMAIN v, Resets(v[j]), j < k
        PROVE  ~IsStart(v[k])
    <3>1. j + 1 \in DOMAIN w /\ k + 1 \in DOMAIN w /\ j + 1 < k + 1
      BY <1>3, <1>7, <2>1
    <3>2. Resets(w[j + 1]) /\ ~Running(desk)
      BY <1>3, <1>6, <2>1 DEF Running
    <3> QED BY <1>3, <1>6, <1>8, <2>1, <3>1, <3>2
  <2>2. \A k \in DOMAIN v : ~IsJoin(v[k]) => v[k].party \in P
    BY <1>3 DEF Within
  <2> QED BY <1>6, <2>1, <2>2 DEF Within, Running
<1>10. ~IsJoin(i) => i.party \in P
  BY <1>3 DEF Within
<1>11. /\ i.waiter = "connect" => Running(c)
       /\ i.waiter = "teardown" =>
            /\ c.lifecycle # <<>>
            /\ c.lifecycle[1].fresh => ~Running(c)
            /\ \A k \in DOMAIN c.wire : c.wire[k].waiter # "teardown"
       /\ i.waiter # "connect" =>
            \/ IsStart(i) /\ c.step = "starting" /\ c.inFlight = i.attempt
            \/ Awaits(c, c.wire)
  BY AnsweringWaits
<1>12. ASSUME Resets(i), c.lifecycle[1].fresh
       PROVE  ~Running(c) /\ Awaits(c, c.wire) /\ \A k \in DOMAIN c.wire : ~IsStart(c.wire[k])
  <2>1. c.lifecycle # <<>> /\ ~Running(c) /\ Awaits(c, c.wire)
    BY <1>11, <1>12 DEF Resets, IsStart
  <2>2. ASSUME NEW k \in DOMAIN v
        PROVE  ~IsStart(v[k])
    <3>1. k + 1 \in DOMAIN w /\ 1 < k + 1 /\ v[k] = w[k + 1]
      BY <1>3, <1>4, <2>2 DEF Wire
    <3>2. ~Running(desk) /\ desk.lifecycle # <<>> /\ desk.lifecycle[1].fresh
      BY <1>6, <1>12, <2>1 DEF Running
    <3> QED BY <1>3, <1>8, <1>12, <3>1, <3>2
  <2> QED BY <1>6, <2>1, <2>2
<1> QED BY <1>1, <1>2, <1>4, <1>6, <1>9, <1>10, <1>11, <1>12

(* A join is answered.                                                     *)
LEMMA JoinAnswerWithin ==
  ASSUME StreamingInv, NEW P, Within(desk, desk.wire, P), NEW c, NEW i, Answering(c, i),
         i.op = "Join"
  PROVE  LET e == Answered(c, i) IN Within(e, e.wire, P) /\ e.link = c.link
<1> DEFINE b == [c EXCEPT !.currentParty = i.party]
           no == FALSE
           m == Joined(b)
           r == Recover(c, no)
           e == Answered(c, i)
<1>1. /\ c \in Desk /\ Orderly(c, c.wire, PlayerOn) /\ sourceLive \in [Source -> BOOLEAN]
      /\ Within(c, c.wire, P)
      /\ i.waiter = "connect" => Running(c)
  BY HeardWithin
<1>2. i.party \in Party
  BY HeardWithin DEF Invocations
<1>3. e = CASE i.waiter = "connect" -> m
            [] i.waiter = "rejoin" -> IF Running(c) /\ c.config.party = c.currentParty THEN r ELSE c
            [] i.waiter = "nobody" -> b
            [] OTHER -> c
  BY DEF Answered, ProjectGoes
<1>4. /\ b \in Desk /\ b.config = c.config /\ b.late = c.late /\ b.lifecycle = c.lifecycle
      /\ b.wire = c.wire /\ b.link = c.link
  BY <1>1, <1>2 DEF Desk
<1>5. no \in BOOLEAN
  OBVIOUS
<1> HIDE DEF b, no, e
<1>6. Within(b, b.wire, P) /\ (Running(c) => Running(b))
  <2>1. Within(c, b.wire, P)
    BY <1>1, <1>4
  <2>2. Within(b, b.wire, P)
    BY <1>4, <2>1, WithinSame
  <2> QED BY <1>4, <2>2 DEF Running
<1>7. ASSUME Running(c)
      PROVE  Within(m, m.wire, P) /\ m.link = b.link /\ m.config = b.config
  BY <1>1, <1>4, <1>6, <1>7, JoinedWithin
<1>8. Within(r, r.wire, P) /\ r.link = c.link /\ r.config = c.config
  BY <1>1, <1>5, RecoverWithin
<1> HIDE DEF m, r
<1>9. \/ i.waiter = "connect" /\ e = m
      \/ e \in {r, b, c}
  BY <1>3
<1> QED BY <1>1, <1>4, <1>6, <1>7, <1>8, <1>9 DEF e

(* A start is.                                                             *)
LEMMA StartAnswerWithin ==
  ASSUME StreamingInv, NEW P, Within(desk, desk.wire, P), NEW c, NEW i, Answering(c, i),
         i.op = "Start"
  PROVE  LET e == Answered(c, i) IN Within(e, e.wire, P) /\ e.link = c.link
<1> DEFINE m == StartSucceeds(c, i)
           e == Answered(c, i)
<1>1. e = m
  BY DEF Answered, ProjectGoes
<1>2. IsStart(i) /\ ~IsJoin(i)
  BY DEF IsStart, IsJoin
<1>3. /\ c \in Desk /\ Orderly(c, c.wire, PlayerOn) /\ i \in Invocations /\ Connected(c)
      /\ Within(c, c.wire, P) /\ sourceLive \in [Source -> BOOLEAN]
      /\ i.attempt <= c.lastAttempt /\ i.party \in P
  BY <1>2, HeardWithin
<1>4. Within(m, m.wire, P) /\ m.link = c.link /\ m.config = c.config
  BY <1>2, <1>3, StartSucceedsWithin
<1> HIDE DEF m, e
<1> QED BY <1>1, <1>4 DEF e

(* An end is, a new project's goes on to the reset.                        *)
LEMMA EndAnswerWithin ==
  ASSUME StreamingInv, NEW P, Within(desk, desk.wire, P), NEW c, NEW i, Answering(c, i),
         i.op = "End"
  PROVE  LET e == Answered(c, i) IN Within(e, e.wire, P) /\ e.link = c.link
<1> DEFINE r == EndReturned(c, i)
           b == [r EXCEPT !.liveSession = FALSE]
           j == Invocation("Reset", i.party, "newProject")
           m == Invoke(b, j)
           e == Answered(c, i)
<1>1. /\ c \in Desk /\ Orderly(c, c.wire, PlayerOn) /\ i \in Invocations
      /\ Within(c, c.wire, P)
      /\ i.waiter = "teardown" =>
           c.lifecycle # <<>> /\ \A k \in DOMAIN c.wire : c.wire[k].waiter # "teardown"
  BY HeardWithin
<1>2. i.party \in P /\ i.party \in Party
  BY HeardWithin DEF Invocations, IsJoin
<1>3. e \in {r, m}
  BY DEF Answered, ProjectGoes
<1>4. Within(r, c.wire, P) /\ r.link = c.link /\ r.wire = c.wire
  BY <1>1, EndReturnedWithin
<1>5. r \in Desk
  BY <1>1, EndReturnedFits DEF Orderly
<1>6. j \in Invocations /\ j.party = i.party /\ ~IsStart(j)
  BY <1>2 DEF Invocation, Invocations, IsStart
<1> HIDE DEF r, j, e
<1>7. /\ b \in Desk /\ b.config = r.config /\ b.late = r.late /\ b.lifecycle = r.lifecycle
      /\ b.wire = r.wire /\ b.link = r.link
  BY <1>5 DEF Desk
<1> HIDE DEF b
<1>8. Within(b, b.wire, P) /\ Within(r, r.wire, P)
  BY <1>4, <1>7, WithinSame
<1>9. Within(m, m.wire, P) /\ m.link = b.link
  BY <1>2, <1>6, <1>7, <1>8, InvokeWithin
<1> HIDE DEF m
<1> QED BY <1>3, <1>4, <1>7, <1>8, <1>9 DEF e

(* A teardown's reset is: it disconnects, unless it is superseded.         *)
LEMMA TornDownWithin ==
  ASSUME StreamingInv, NEW P, Within(desk, desk.wire, P), NEW c, NEW i, Answering(c, i),
         Resets(i)
  PROVE  LET e == Answered(c, i) IN
         Within(e, e.wire, P) /\ (e.link = c.link \/ c.lifecycle[1].fresh)
<1> DEFINE b == [c EXCEPT !.lifecycle = Tail(@)]
           m == Disconnect(b)
           e == Answered(c, i)
<1>1. /\ c \in Desk /\ Orderly(c, c.wire, PlayerOn) /\ i \in Invocations
      /\ Within(c, c.wire, P)
      /\ i.waiter = "teardown" =>
           c.lifecycle # <<>> /\ \A k \in DOMAIN c.wire : c.wire[k].waiter # "teardown"
      /\ Resets(i) /\ c.lifecycle[1].fresh => ~Running(c) /\ Awaits(c, c.wire)
  BY HeardWithin
<1>2. i.op = "Reset" /\ i.waiter = "teardown"
  BY DEF Resets
<1>3. e = IF c.lifecycle[1].fresh THEN m ELSE b
  BY <1>2 DEF Answered, ProjectGoes
<1>4. Within(b, c.wire, P) /\ b.link = c.link /\ b.wire = c.wire
  BY <1>1, <1>2, PopWithin
<1>5. Orderly(b, c.wire, PlayerOn) /\ Keeps(c, b) /\ b.inFlight = c.inFlight
  BY <1>1, <1>2, PopFits
<1> HIDE DEF b, e
<1>6. CASE c.lifecycle[1].fresh
  <2>1. ~Running(b) /\ Awaits(b, b.wire)
    BY <1>1, <1>4, <1>5, <1>6 DEF Keeps, Running, Awaits
  <2>2. Within(b, b.wire, P) /\ Orderly(b, b.wire, PlayerOn)
    BY <1>4, <1>5
  <2>3. Within(m, m.wire, P)
    BY <2>1, <2>2, DisconnectWithin
  <2> HIDE DEF m
  <2> QED BY <1>3, <1>6, <2>3 DEF e
<1>7. CASE ~c.lifecycle[1].fresh
  BY <1>3, <1>4, <1>7 DEF e
<1> QED BY <1>6, <1>7

(* Every other reset is: the new project's takes down what runs.           *)
LEMMA ResetAnswerWithin ==
  ASSUME StreamingInv, NEW P, Within(desk, desk.wire, P), NEW c, NEW i, Answering(c, i),
         i.op = "Reset", ~Resets(i)
  PROVE  LET e == Answered(c, i) IN Within(e, e.wire, P) /\ e.link = c.link
<1> DEFINE stop == "stop"
           isLive == c.config.source = "aimp" /\ Live(c)
           t == TakeDown(c, isLive)
           m == Publish(c, stop)
           e == Answered(c, i)
<1>1. /\ c \in Desk /\ Orderly(c, c.wire, PlayerOn) /\ sourceLive \in [Source -> BOOLEAN]
      /\ Within(c, c.wire, P)
  BY HeardWithin
<1>2. i.waiter # "teardown"
  BY DEF Resets
<1>3. \/ e = c
      \/ Running(c) /\ e \in {t, m}
  BY <1>2 DEF Answered, ProjectGoes
<1>4. stop \in {"connect", "publish", "stop"}
  OBVIOUS
<1> HIDE DEF isLive, stop, e
<1>5. ASSUME Running(c)
      PROVE  Within(t, t.wire, P) /\ t.link = c.link
  BY <1>1, <1>5, TakeDownWithin
<1>6. ASSUME Running(c)
      PROVE  Within(m, m.wire, P) /\ m.link = c.link /\ m.config = c.config
  BY <1>1, <1>4, <1>6, PublishWithin
<1> HIDE DEF t, m
<1> QED BY <1>1, <1>3, <1>5, <1>6 DEF e

(* A notification is, and the state follows it.                            *)
LEMMA NotifyAnswerWithin ==
  ASSUME StreamingInv, NEW P, Within(desk, desk.wire, P), NEW c, NEW i, Answering(c, i),
         i.op = "Notify"
  PROVE  LET e == Answered(c, i) IN Within(e, e.wire, P) /\ e.link = c.link
<1> DEFINE j == [i EXCEPT !.op = "Publish"]
           m == Invoke(c, j)
           e == Answered(c, i)
<1>1. c \in Desk /\ Within(c, c.wire, P) /\ i \in Invocations
  BY HeardWithin
<1>2. i.party \in P
  BY HeardWithin DEF IsJoin
<1>3. e \in {c, m}
  BY DEF Answered, ProjectGoes
<1>4. j \in Invocations /\ j.party = i.party /\ ~IsStart(j)
  BY <1>1 DEF Invocations, IsStart
<1> HIDE DEF j, e
<1>5. Within(m, m.wire, P) /\ m.link = c.link /\ m.config = c.config
  BY <1>1, <1>2, <1>4, InvokeWithin
<1> HIDE DEF m
<1> QED BY <1>1, <1>3, <1>5 DEF e

(* A publication is.                                                       *)
LEMMA PublishAnswerWithin ==
  ASSUME StreamingInv, NEW P, Within(desk, desk.wire, P), NEW c, NEW i, Answering(c, i),
         i.op = "Publish"
  PROVE  LET e == Answered(c, i) IN Within(e, e.wire, P) /\ e.link = c.link
<1> DEFINE s == Synchronize(c)
           b == BecomeReady(c)
           e == Answered(c, i)
<1>1. /\ c \in Desk /\ Within(c, c.wire, P) /\ sourceLive \in [Source -> BOOLEAN]
      /\ i.waiter = "connect" => Running(c)
  BY HeardWithin
<1>2. \/ e = c
      \/ i.waiter = "connect" /\ e \in {s, b}
  BY DEF Answered, ProjectGoes
<1>3. ASSUME Running(c)
      PROVE  Within(s, s.wire, P) /\ s.link = c.link /\ s.config = c.config
  BY <1>1, <1>3, SynchronizeWithin
<1>4. /\ b.config = c.config /\ b.late = c.late /\ b.lifecycle = c.lifecycle
      /\ b.link = c.link /\ b.wire = c.wire
  BY <1>1 DEF BecomeReady, Desk
<1> HIDE DEF s, b, e
<1>5. Within(b, b.wire, P)
  BY <1>1, <1>4, WithinSame
<1> QED BY <1>1, <1>2, <1>3, <1>4, <1>5 DEF e

(* The hub's answers: only a teardown's disconnects.                       *)
LEMMA AnswerWithin ==
  ASSUME StreamingInv, NEW P, Within(desk, desk.wire, P), NEW c, NEW i, Answering(c, i)
  PROVE  LET e == Answered(c, i) IN
         /\ Within(e, e.wire, P)
         /\ \/ e.link = c.link
            \/ Resets(i) /\ c.lifecycle[1].fresh
<1> DEFINE e == Answered(c, i)
<1>1. i.op \in {"Join", "Start", "End", "Reset", "Notify", "Publish"}
  BY HeardWithin DEF Invocations
<1> HIDE DEF e
<1>2. ASSUME Resets(i)
      PROVE  Within(e, e.wire, P) /\ (e.link = c.link \/ c.lifecycle[1].fresh)
  BY <1>2, TornDownWithin DEF e
<1>3. ASSUME ~Resets(i)
      PROVE  Within(e, e.wire, P) /\ e.link = c.link
  <2>1. i.op = "Join" => Within(e, e.wire, P) /\ e.link = c.link
    BY JoinAnswerWithin DEF e
  <2>2. i.op = "Start" => Within(e, e.wire, P) /\ e.link = c.link
    BY StartAnswerWithin DEF e
  <2>3. i.op = "End" => Within(e, e.wire, P) /\ e.link = c.link
    BY EndAnswerWithin DEF e
  <2>4. i.op = "Reset" => Within(e, e.wire, P) /\ e.link = c.link
    BY <1>3, ResetAnswerWithin DEF e
  <2>5. i.op = "Notify" => Within(e, e.wire, P) /\ e.link = c.link
    BY NotifyAnswerWithin DEF e
  <2>6. i.op = "Publish" => Within(e, e.wire, P) /\ e.link = c.link
    BY PublishAnswerWithin DEF e
  <2> QED BY <1>1, <2>1, <2>2, <2>3, <2>4, <2>5, <2>6
<1> QED BY <1>2, <1>3 DEF e

-----------------------------------------------------------------------------
(* The sessions on the server.                                             *)

(* What is done about these parties starts no session of another.          *)
LEMMA CarrySilent ==
  ASSUME NEW P, NEW s \in Sessions, NEW i \in Invocations, Silent(s, P),
         ~IsJoin(i) => i.party \in P
  PROVE  Silent(Carry(s, i), P)
<1> DEFINE t == Carry(s, i)
<1>1. ASSUME NEW p \in Party, p # i.party
      PROVE  t[p] = s[p]
  BY <1>1 DEF Carry, Sessions
<1>2. IsJoin(i) => t = s
  BY DEF Carry, IsJoin
<1> HIDE DEF t
<1> QED BY <1>1, <1>2 DEF Silent, t

(* After the reset no party is on the air, and nothing but a start would   *)
(* put it there.                                                           *)
Off(s, p) == s[p] # NoSession /\ ~s[p].active

(* Only a start puts it back on the air.                                   *)
LEMMA CarryOff ==
  ASSUME NEW s \in Sessions, NEW i \in Invocations, NEW p \in Party
  PROVE  /\ i.op = "Reset" /\ i.party = p => Off(Carry(s, i), p)
         /\ Off(s, p) /\ ~IsStart(i) => Off(Carry(s, i), p)
<1> DEFINE t == Carry(s, i)
<1>1. i.party \in Party
  BY DEF Invocations
<1>2. i.party # p => t[p] = s[p]
  BY <1>1 DEF Carry, Sessions
<1>3. s[p] \in Session \cup {NoSession}
  BY DEF Sessions
<1>4. ASSUME i.op = "Reset", i.party = p
      PROVE  Off(t, p)
  <2>1. t[p] = Cleared(s[p])
    BY <1>4 DEF Carry, Sessions
  <2>2. Cleared(s[p]) \in Session /\ ~Cleared(s[p]).active
    BY <1>3 DEF Cleared, Session, Mode, Status
  <2> HIDE DEF t
  <2> QED BY <2>1, <2>2, NoSessionAssumption DEF Off
<1>5. ASSUME Off(s, p), ~IsStart(i), i.party = p
      PROVE  Off(t, p)
  <2>1. t[p] \in {s[p], Ended(s[p]), Cleared(s[p]), Published(s[p], Dto(i.live))}
    BY <1>1, <1>5 DEF Carry, IsStart, Sessions
  <2>2. s[p] \in Session /\ ~s[p].active
    BY <1>3, <1>5 DEF Off
  <2> HIDE DEF t
  <2>3. Ended(s[p]) \in Session /\ ~Ended(s[p]).active
    BY <2>2 DEF Ended, Session, Mode, Status
  <2>4. Cleared(s[p]) \in Session /\ ~Cleared(s[p]).active
    BY <2>2 DEF Cleared, Session, Mode, Status
  <2>5. /\ Published(s[p], Dto(i.live)) \in Session
        /\ ~Published(s[p], Dto(i.live)).active
    BY <2>2, NoSessionAssumption DEF Published, Session, Dto, Mode, Status
  <2> QED BY <1>5, <2>1, <2>2, <2>3, <2>4, <2>5, NoSessionAssumption DEF Off
<1> HIDE DEF t
<1> QED BY <1>2, <1>4, <1>5 DEF Off, t

(* On a network without failures nothing fails.                            *)
LEMMA NothingFails ==
  ASSUME scenario.kinds \subseteq Users
  PROVE  ~Failures
<1>1. \A kind \in Network : ~Disturbed(kind)
  BY DEF Users, Network, Disturbed
<1>2. ~Disturbed("Missing") /\ ~Disturbed("CheckFailure") /\ ~Disturbed("DialFailure")
      /\ ~Disturbed("Loss") /\ ~Disturbed("Timeout")
  BY <1>1 DEF Network
<1>3. ~PartyIsMissing /\ ~CheckFails /\ ~DialFails /\ ~Lose /\ ~DialTimesOut /\ ~JoinTimesOut
  BY <1>2 DEF PartyIsMissing, CheckFails, DialFails, Lose, DialTimesOut, JoinTimesOut
<1>4. \A k : ~StartTimesOut(k) /\ ~PublishTimesOut(k)
  BY <1>2 DEF StartTimesOut, PublishTimesOut
<1> QED BY <1>3, <1>4 DEF Failures

(* Every other step carries out nothing.                                   *)
LEMMA StepQuietly ==
  ASSUME StreamingInv, [Next]_streamingVars, ~Respond, scenario.kinds \subseteq Users,
         NEW P, P = scenario.parties, Within(desk, desk.wire, P)
  PROVE  Quietly(P)
<1>1. CASE UNCHANGED streamingVars
  <2>1. desk' = desk /\ session' = session
    BY <1>1 DEF streamingVars
  <2> QED BY <2>1, SameQuietly
<1>2. CASE Progress
  <2>1. CASE Teardown
    BY <2>1, TeardownWaitsQuietly, TeardownEndsQuietly, TeardownResetsQuietly,
       TeardownReturnsQuietly DEF Teardown
  <2>2. CASE ~Teardown
    BY <1>2, <2>2, PartyExistsQuietly, DialStartsQuietly, DialSucceedsQuietly,
       ReconnectedQuietly, ExhaustedQuietly, TimerFiresQuietly, PublishChangesQuietly
       DEF Progress
  <2> QED BY <2>1, <2>2
<1>3. CASE Commands
  <2>1. CASE \E c \in Config : Start(c)
    BY <2>1, StartQuietly
  <2>2. CASE \E s \in Source : GoLive(s) \/ StopLive(s)
    BY <2>2, GoLiveQuietly, StopLiveQuietly
  <2>3. CASE Stop \/ Reconnect \/ NewProject \/ SyncAimp
    BY <2>3, StopQuietly, ReconnectQuietly, NewProjectQuietly, SyncAimpQuietly
  <2> QED BY <1>3, <2>1, <2>2, <2>3 DEF Commands
<1> QED BY <1>1, <1>2, <1>3, NothingFails DEF Next

(* Of one party, the sessions that have been reset.                        *)
Resettled(P) ==
  {r \in Sessions : Silent(r, P) /\ \A p \in P \cap Party : Off(r, p)}

(* The teardown of the only party disconnects, and leaves it off the air,  *)
(* whatever the hub still carries out.                                     *)
LEMMA TornDownIsOff ==
  ASSUME StreamingInv, NEW P, \A p, q \in P : p = q, Within(desk, desk.wire, P),
         Silent(session, P), NEW c, NEW i, Answering(c, i), Resets(i),
         c.lifecycle[1].fresh, NEW t \in CarriedSome(Carry(session, i), c.wire)
  PROVE  Silent(t, P) /\ OffAir(t)
<1> DEFINE s == Carry(session, i)
           w == c.wire
           Good == Resettled(P)
<1>1. /\ i \in Invocations /\ w \in Wire /\ Within(c, w, P)
      /\ ~IsJoin(i) => i.party \in P
      /\ Resets(i) /\ c.lifecycle[1].fresh =>
           ~Running(c) /\ Awaits(c, c.wire) /\ \A k \in DOMAIN c.wire : ~IsStart(c.wire[k])
  BY HeardWithin
<1>2. i.op = "Reset" /\ i.party \in P /\ i.party \in Party
  BY <1>1 DEF Resets, IsJoin, Invocations
<1>3. session \in Sessions
  BY DEF StreamingInv, Sessions
<1>4. s \in Good
  <2>1. s \in Sessions
    BY <1>1, <1>3, CarryFits
  <2>2. Silent(s, P)
    BY <1>1, <1>3, CarrySilent
  <2>3. \A p \in P \cap Party : Off(s, p)
    BY <1>1, <1>2, <1>3, CarryOff
  <2> HIDE DEF s
  <2> QED BY <2>1, <2>2, <2>3 DEF Resettled
<1>5. ASSUME NEW k \in 1 .. Len(w), NEW r \in Good
      PROVE  Carry(r, w[k]) \in Good
  <2> DEFINE j == w[k]
             x == Carry(r, j)
  <2>1. k \in DOMAIN w
    BY <1>1 DEF Wire
  <2>2. j \in Invocations /\ ~IsStart(j) /\ (~IsJoin(j) => j.party \in P)
    BY <1>1, <2>1 DEF Wire, Within
  <2>3. r \in Sessions /\ Silent(r, P) /\ \A p \in P \cap Party : Off(r, p)
    BY <1>5 DEF Resettled
  <2> HIDE DEF j
  <2>4. x \in Sessions
    BY <2>2, <2>3, CarryFits
  <2>5. Silent(x, P)
    BY <2>2, <2>3, CarrySilent
  <2>6. \A p \in P \cap Party : Off(x, p)
    BY <2>2, <2>3, CarryOff
  <2> HIDE DEF x
  <2>7. x \in Good
    BY <2>4, <2>5, <2>6 DEF Resettled
  <2> QED BY <2>7 DEF x, j
<1>6. Len(w) \in Nat
  BY <1>1 DEF Wire
<1> HIDE DEF s, Good
<1>7. t \in Good
  <2>1. t \in CarriedSome(s, w)
    BY DEF s
  <2> HIDE DEF w
  <2> QED BY <1>4, <1>5, <1>6, <2>1, CarriesOut
<1> QED BY <1>7 DEF Good, Resettled, Silent, Off, OffAir, HasEffectiveActiveSession

(* An answer leaves the other parties without a session, and a desktop     *)
(* that disconnects leaves its own off the air.                            *)
LEMMA RespondEnds ==
  ASSUME StreamingInv, NEW P, \A p, q \in P : p = q, Within(desk, desk.wire, P),
         Silent(session, P), Respond
  PROVE  /\ Within(desk', desk'.wire, P) /\ Silent(session', P)
         /\ ~Connected(desk') => OffAir(session')
<1> DEFINE i == Head(desk.wire)
           c == [desk EXCEPT !.wire = Tail(@)]
           s == Carry(session, i)
           t == session'
           e == Answered(c, i)
<1>1. desk.wire # <<>> /\ desk' = e
  BY DEF Respond
<1>2. Answering(c, i)
  BY <1>1 DEF Answering
<1>3. c.wire = Tail(desk.wire)
  BY DeskIs DEF Desk
<1>4. t \in IF Connected(e) THEN {s} ELSE CarriedSome(s, Tail(desk.wire))
  BY DEF Respond
<1> HIDE DEF c, i, e, t
<1>5. i \in Invocations /\ (~IsJoin(i) => i.party \in P) /\ Connected(c)
  BY <1>2, HeardWithin
<1>6. /\ Within(e, e.wire, P)
      /\ \/ e.link = c.link
         \/ Resets(i) /\ c.lifecycle[1].fresh
  BY <1>2, AnswerWithin DEF e
<1>7. CASE Connected(e)
  <2>1. session \in Sessions
    BY DEF StreamingInv, Sessions
  <2>2. Silent(s, P)
    BY <1>5, <2>1, CarrySilent
  <2> HIDE DEF s
  <2>3. t = s
    BY <1>4, <1>7
  <2> QED BY <1>1, <1>6, <1>7, <2>2, <2>3 DEF t
<1>8. CASE ~Connected(e)
  <2>1. Resets(i) /\ c.lifecycle[1].fresh
    BY <1>5, <1>6, <1>8 DEF Connected
  <2>2. t \in CarriedSome(Carry(session, i), c.wire)
    BY <1>3, <1>4, <1>8
  <2>3. Silent(t, P) /\ OffAir(t)
    BY <1>2, <2>1, <2>2, TornDownIsOff
  <2> QED BY <1>1, <1>6, <2>3 DEF t
<1> QED BY <1>7, <1>8

-----------------------------------------------------------------------------

(* At first there is no session.                                           *)
LEMMA EndedInit == Init => EndedInv
<1> SUFFICES ASSUME Init PROVE EndedInv
  OBVIOUS
<1>1. StreamingInv
  BY StreamingInit
<1>2. ~Running(desk) /\ desk.late = {} /\ desk.lifecycle = <<>> /\ desk.wire = <<>>
  BY DEF Init, InitialDesk, Running
<1>3. Within(desk, desk.wire, scenario.parties)
  BY <1>2 DEF Within
<1>4. \A p \in Party : session[p] = NoSession
  BY DEF Init
<1> QED BY <1>1, <1>3, <1>4 DEF EndedInv, Silent, OffAir, HasEffectiveActiveSession

(* Every step keeps it so.                                                 *)
LEMMA EndedNext ==
  ASSUME EndedInv, [Next]_streamingVars
  PROVE  EndedInv'
<1> DEFINE P == scenario.parties
<1>1. StreamingInv
  BY DEF EndedInv
<1>2. StreamingInv'
  BY <1>1, StepKeeps, RespondKeeps
<1>3. scenario' = scenario
  BY ScenarioStays
<1>4. OnlyUsers' <=> OnlyUsers
  BY <1>3 DEF OnlyUsers, OneParty
<1>5. ASSUME OnlyUsers
      PROVE  /\ Within(desk', desk'.wire, P) /\ Silent(session', P)
             /\ ~Connected(desk') => OffAir(session')
  <2>1. /\ Within(desk, desk.wire, P) /\ Silent(session, P)
        /\ ~Connected(desk) => OffAir(session)
        /\ scenario.kinds \subseteq Users
        /\ \A p, q \in P : p = q
    BY <1>5 DEF EndedInv, OnlyUsers, OneParty
  <2>2. CASE Respond
    BY <1>1, <2>1, <2>2, RespondEnds
  <2>3. CASE ~Respond
    <3> DEFINE Q == P
    <3>1. Q = scenario.parties /\ Within(desk, desk.wire, Q)
      BY <2>1
    <3> HIDE DEF Q
    <3>2. Quietly(Q)
      BY <1>1, <2>1, <2>3, <3>1, StepQuietly
    <3>3. Quietly(P)
      BY <3>1, <3>2
    <3> QED BY <2>1, <3>3 DEF Quietly
  <2> QED BY <2>2, <2>3
<1>6. OnlyUsers' => /\ Within(desk, desk.wire, P)'
                    /\ Silent(session, P)'
                    /\ (~Connected(desk) => OffAir(session))'
  <2> SUFFICES ASSUME OnlyUsers'
               PROVE  /\ Within(desk', desk'.wire, P') /\ Silent(session', P')
                      /\ ~Connected(desk') => OffAir(session')
    BY DEF Within, Silent, Connected, OffAir, Running, Resets, IsStart, IsJoin
  <2> QED BY <1>3, <1>4, <1>5
<1> QED BY <1>2, <1>6 DEF EndedInv

(* In every reachable state, whoever has no connection has left nothing on *)
(* the air.                                                                *)
THEOREM EndedInvariantHolds == Spec => []EndedInv
<1>1. EndedInv /\ [Next]_streamingVars => EndedInv'
  BY EndedNext
<1> QED BY <1>1, EndedInit, PTL DEF Spec

(* On a network without failures, after a teardown the hub has no session  *)
(* of the party left on the air, also when it came while a start was under *)
(* way.                                                                    *)
THEOREM StoppedMeansEndedHolds == Spec => []StoppedMeansEnded
<1>1. EndedInv => StoppedMeansEnded
  BY DEF EndedInv, StoppedMeansEnded, OnlyUsers, Connected, OffAir
<1> QED BY <1>1, EndedInvariantHolds, PTL
=============================================================================
