-------------------------- MODULE PartyViewerProofs --------------------------
(***************************************************************************)
(* What a viewer's page shows, for any scenario and any number of          *)
(* operations, broken connections and failed calls.                        *)
(*                                                                         *)
(* The page is right when all is quiet because of what is on its way       *)
(* before: the last message that says something about the status, the      *)
(* playlist, the playback or the timers says what is true of the party, or *)
(* the full state will be read after the group is joined.                  *)
(***************************************************************************)
EXTENDS PartyViewer, TLAPS

Calls == {"join", "rejoin", "state"}
Parties == [life : {"Ready", "Completed"}, session : Session \cup {NoSession},
            organizer : BOOLEAN, mark : {"never", "within", "past"}, list : Nat]
Nets == [link : {"off", "up", "retry"}, group : BOOLEAN, flag : BOOLEAN, code : BOOLEAN]
Hooks == [status : {"disconnected", "connecting", "connected"},
          stage : {"none", "dial", "settle", "join"}, first : BOOLEAN, tried : BOOLEAN]
Pages == [status : DisplayStatuses \cup {None}, playing : BOOLEAN,
          timer : {"none", "end", "freeze"}, list : Nat \cup {None},
          loading : BOOLEAN, error : BOOLEAN, reachable : BOOLEAN, recent : BOOLEAN]
Fetches == [1 .. 2 -> Fetch \cup {None}]

TypesFit ==
  /\ allowed \in Scenarios
  /\ party \in Parties /\ party.list <= ops
  /\ serving \in Service \cup {None}
  /\ net \in Nets /\ calls \in Seq(Calls) /\ inbox \in Seq(Message)
  /\ hook \in Hooks
  /\ page \in Pages /\ (page.list # None => page.list <= ops)
  /\ fetches \in Fetches
  /\ ops \in 0 .. MaxOps /\ drops \in 0 .. MaxDrops
  /\ serving # None => serving.read.list <= ops
  /\ \A i \in DOMAIN inbox : inbox[i].kind = "answer" => inbox[i].state.list <= ops
-----------------------------------------------------------------------------
(* The connection.                                                         *)

Asked == \E i \in DOMAIN calls : calls[i] = "state"
Joining == IsJoin \/ \E i \in DOMAIN calls : calls[i] # "state"
JoinedPending == \E i \in DOMAIN inbox : inbox[i].kind = "joined"

(* The link, the flag and the stage of connect().                          *)
LinkFits ==
  /\ net.flag <=> net.link # "off"
  /\ net.link # "up" => calls = <<>> /\ inbox = <<>> /\ serving = None /\ ~net.group
  /\ hook.stage = "dial" => net.link = "off"
  /\ hook.stage = "join" => net.link = "up"
  /\ ~hook.tried => hook.stage = "none" /\ net.link = "off"

(* A join is called once, by connect(), and a party is joined again before *)
(* anything else.                                                          *)
OneJoin ==
  /\ \A i, j \in DOMAIN calls : calls[i] = "join" /\ calls[j] = "join" => i = j
  /\ \A i, j \in DOMAIN inbox : inbox[i].kind = "joined" /\ inbox[j].kind = "joined" => i = j
  /\ \A i \in DOMAIN calls : calls[i] = "join" =>
       hook.stage = "join" /\ ~JoinedPending /\ (serving # None => serving.call # "join")
  /\ serving # None /\ serving.call = "join" => hook.stage = "join" /\ ~JoinedPending
  /\ JoinedPending => hook.stage = "join"
  /\ \A i \in DOMAIN calls : calls[i] = "rejoin" => i = 1 /\ serving = None /\ ~net.group
  /\ serving # None /\ serving.call = "rejoin" => ~net.group

(* The service knows the party's code once it has joined, and a connection *)
(* that is up is in the group or will be.                                  *)
GroupFits ==
  /\ Joining \/ JoinedPending => net.code
  /\ Reached =>
       /\ net.link # "off" => net.code \/ (hook.stage = "settle" /\ net.link = "up")
       /\ net.link = "up" => net.group \/ hook.stage = "settle" \/ Joining
       /\ ~net.group => \A i \in DOMAIN inbox : inbox[i].kind = "answer"

ConnectionFits ==
  /\ LinkFits /\ OneJoin /\ GroupFits
  /\ Without({"early"}) /\ hook.stage # "none" => hook.status # "connected"
-----------------------------------------------------------------------------
(* What the page is told.  Bears are the messages that say something about *)
(* a part of the page, Good those that say the truth.                      *)

NoneIn(q, bears) == \A i \in DOMAIN q : q[i] \notin bears
LastIn(q, bears, good) ==
  \/ NoneIn(q, bears)
  \/ \E i \in DOMAIN q :
       /\ q[i] \in bears /\ q[i] \in good
       /\ \A j \in DOMAIN q : i < j => q[j] \notin bears

StatusBears == {m \in Message : m.kind \in {"status", "answer", "ended", "reset"}}
Given(m) ==
  IF m.kind = "status" THEN m.status
  ELSE IF m.kind = "answer" THEN m.state.status ELSE "StartingSoon"
StatusGood(p) == {m \in StatusBears : Given(m) = StatusOf(p)}

ListBears == {m \in Message : m.kind \in {"answer", "playlist"}}
ListGood(p) == {m \in ListBears : m.kind = "answer" => m.state.list = p.list}

PlayBears == {m \in Message : \/ m.kind \in {"session", "preparation", "reset", "position"}
                              \/ m.kind = "answer" /\ m.state.playing}
PlayGood == {m \in PlayBears : m.kind \notin {"preparation", "reset"}}

TimerBears == {m \in Message : m.kind \in {"started", "online", "offline", "ended", "reset",
                                           "session", "preparation"}}
TimerGood == {m \in TimerBears : m.kind \notin {"offline", "ended"}}

StatusTold ==
  /\ LastIn(inbox, StatusBears, StatusGood(party))
  /\ NoneIn(inbox, StatusBears) => page.status = StatusOf(party)
ListTold ==
  /\ LastIn(inbox, ListBears, ListGood(party))
  /\ NoneIn(inbox, ListBears) => page.list = party.list \/ \E i \in 1 .. 2 : fetches[i] # None
PlayTold ==
  /\ LastIn(inbox, PlayBears, PlayGood)
  /\ NoneIn(inbox, PlayBears) => page.playing
TimersTold ==
  /\ LastIn(inbox, TimerBears, TimerGood)
  /\ NoneIn(inbox, TimerBears) => page.timer = "none" \/ hook.status # "connected"

(* The full state will be read once the group is joined.                   *)
WillAsk ==
  \/ hook.status # "connected"
  \/ ~net.group /\ IsJoin /\ Asked
  \/ /\ ~net.group
     /\ \E i, j \in DOMAIN calls : i < j /\ calls[i] # "state" /\ calls[j] = "state"
  \/ net.group /\ (Asked \/ \E i \in DOMAIN inbox : Asks(inbox[i]))
Reading == net.group /\ serving # None /\ serving.call = "state"

Up == net.link = "up" /\ Reached /\ Without({"early"})
OnAir == party.organizer /\ StatusOf(party) = "Live"

GroupComes == Up /\ ~net.group => WillAsk
StatusComes ==
  Up /\ Without({"state"}) => WillAsk \/ Reading \/ (net.group /\ StatusTold)
ListComes ==
  net.link = "up" /\ allowed = {} => WillAsk \/ Reading \/ (net.group /\ ListTold)
PlayComes ==
  Up /\ OnAir => WillAsk \/ (Reading /\ serving.read.playing) \/ (net.group /\ PlayTold)
TimersFit ==
  /\ Up /\ OnAir /\ net.group => TimersTold
  /\ Up /\ ~net.group /\ hook.status = "connected" => page.timer = "none"

(* What the server reads stays true until it answers, without that race.   *)
ReadIsTrue ==
  Without({"state"}) /\ serving # None /\ serving.call = "state" =>
    serving.read = StateOf(party)

(* Without the throttle a change of the playlist is not dropped.           *)
FetchFollows ==
  allowed = {} =>
    /\ Pending("playlist") => ~page.recent
    /\ \A i, j \in DOMAIN inbox :
         inbox[i].kind = "playlist" /\ inbox[j].kind = "playlist" => i = j

ViewerInv ==
  /\ TypesFit /\ ConnectionFits
  /\ ReadIsTrue /\ FetchFollows
  /\ GroupComes /\ StatusComes /\ ListComes /\ PlayComes /\ TimersFit
-----------------------------------------------------------------------------
(* Sequences of messages.                                                  *)

LEMMA Joint ==
  ASSUME NEW S, NEW q \in Seq(S), NEW r \in Seq(S)
  PROVE  /\ q \o r \in Seq(S)
         /\ \A i \in DOMAIN q : i \in Nat /\ i <= Len(q) /\ i \in DOMAIN (q \o r) /\ (q \o r)[i] = q[i]
         /\ \A j \in DOMAIN r : /\ j \in Nat /\ Len(q) + j \in DOMAIN (q \o r)
                                /\ (q \o r)[Len(q) + j] = r[j]
         /\ \A i \in DOMAIN (q \o r) :
              i \in DOMAIN q \/ \E j \in DOMAIN r : i = Len(q) + j
         /\ Len(q) \in Nat /\ \A j \in DOMAIN r : 1 <= j
<1> DEFINE v == q \o r
<1>1. /\ v \in Seq(S) /\ Len(v) = Len(q) + Len(r) /\ Len(q) \in Nat /\ Len(r) \in Nat
      /\ DOMAIN v = 1 .. Len(v) /\ DOMAIN q = 1 .. Len(q) /\ DOMAIN r = 1 .. Len(r)
      /\ \A i \in 1 .. Len(v) : v[i] = IF i <= Len(q) THEN q[i] ELSE r[i - Len(q)]
  OBVIOUS
<1> HIDE DEF v
<1>2. \A i \in DOMAIN q : i \in Nat /\ i <= Len(q) /\ i \in DOMAIN v /\ v[i] = q[i]
  BY <1>1
<1>3. \A j \in DOMAIN r : j \in Nat /\ Len(q) + j \in DOMAIN v /\ v[Len(q) + j] = r[j] /\ 1 <= j
  BY <1>1
<1>4. ASSUME NEW i \in DOMAIN v
      PROVE  i \in DOMAIN q \/ \E j \in DOMAIN r : i = Len(q) + j
  <2>1. CASE i <= Len(q)
    BY <1>1, <2>1
  <2>2. CASE ~(i <= Len(q))
    <3>1. i - Len(q) \in DOMAIN r /\ i = Len(q) + (i - Len(q))
      BY <1>1, <2>2
    <3> QED BY <3>1
  <2> QED BY <2>1, <2>2
<1> QED BY <1>1, <1>2, <1>3, <1>4 DEF v

LEMMA Rear ==
  ASSUME NEW S, NEW q \in Seq(S), q # <<>>
  PROVE  /\ Head(q) \in S /\ Tail(q) \in Seq(S) /\ 1 \in DOMAIN q /\ q[1] = Head(q)
         /\ \A i \in DOMAIN Tail(q) : /\ i \in Nat /\ 1 <= i
                                      /\ i + 1 \in DOMAIN q /\ Tail(q)[i] = q[i + 1]
         /\ \A i \in DOMAIN q : i \in Nat /\ (i = 1 \/ i - 1 \in DOMAIN Tail(q))
OBVIOUS
(* The first message has been received.                                    *)
LEMMA Received ==
  ASSUME NEW S, NEW q \in Seq(S), q # <<>>, NEW bears, NEW good
  PROVE  /\ LastIn(q, bears, good) => LastIn(Tail(q), bears, good)
         /\ LastIn(q, bears, good) /\ NoneIn(Tail(q), bears) /\ Head(q) \in bears => Head(q) \in good
         /\ NoneIn(Tail(q), bears) /\ Head(q) \notin bears => NoneIn(q, bears)
<1> DEFINE v == Tail(q)
<1>1. /\ 1 \in DOMAIN q /\ q[1] = Head(q)
      /\ \A i \in DOMAIN v : i \in Nat /\ 1 <= i /\ i + 1 \in DOMAIN q /\ v[i] = q[i + 1]
      /\ \A i \in DOMAIN q : i \in Nat /\ (i = 1 \/ i - 1 \in DOMAIN v)
  BY Rear
<1> HIDE DEF v
<1>2. NoneIn(q, bears) => NoneIn(v, bears)
  BY <1>1 DEF NoneIn
<1>3. ASSUME NoneIn(v, bears), NEW j \in DOMAIN q, j # 1 PROVE q[j] \notin bears
  <2>1. j \in Nat /\ j - 1 \in DOMAIN v /\ v[j - 1] = q[(j - 1) + 1]
    BY <1>1, <1>3
  <2>2. (j - 1) + 1 = j
    BY <2>1
  <2> QED BY <1>3, <2>1, <2>2 DEF NoneIn
<1>4. NoneIn(v, bears) /\ Head(q) \notin bears => NoneIn(q, bears)
  BY <1>1, <1>3 DEF NoneIn
<1>5. ASSUME LastIn(q, bears, good), ~NoneIn(q, bears), ~NoneIn(v, bears)
      PROVE  LastIn(v, bears, good)
  <2>1. PICK i \in DOMAIN q : /\ q[i] \in bears /\ q[i] \in good
                              /\ \A j \in DOMAIN q : i < j => q[j] \notin bears
    BY <1>5 DEF LastIn
  <2>2. PICK k \in DOMAIN v : v[k] \in bears
    BY <1>5 DEF NoneIn
  <2>3. k + 1 \in DOMAIN q /\ q[k + 1] \in bears /\ 1 <= k /\ k \in Nat /\ i \in Nat
    BY <1>1, <2>2
  <2>4. i # 1
    BY <2>1, <2>3
  <2>5. i - 1 \in DOMAIN v /\ (i - 1) + 1 = i /\ v[i - 1] = q[i]
    BY <1>1, <2>3, <2>4
  <2>6. ASSUME NEW j \in DOMAIN v, i - 1 < j PROVE v[j] \notin bears
    <3>1. j \in Nat /\ j + 1 \in DOMAIN q /\ v[j] = q[j + 1] /\ i < j + 1
      BY <1>1, <2>3, <2>6
    <3> QED BY <2>1, <3>1
  <2> QED BY <2>1, <2>5, <2>6 DEF LastIn
<1>6. ASSUME LastIn(q, bears, good), NoneIn(v, bears), Head(q) \in bears
      PROVE  Head(q) \in good
  <2>1. ~NoneIn(q, bears)
    BY <1>1, <1>6 DEF NoneIn
  <2>2. PICK i \in DOMAIN q : q[i] \in bears /\ q[i] \in good
    BY <1>6, <2>1 DEF LastIn
  <2>3. i = 1
    BY <1>3, <1>6, <2>2
  <2> QED BY <1>1, <2>2, <2>3
<1>7. LastIn(q, bears, good) => LastIn(v, bears, good)
  BY <1>2, <1>5 DEF LastIn
<1> QED BY <1>4, <1>6, <1>7 DEF v

(* Messages come that say nothing about it, or end with the truth.         *)
LEMMA Came ==
  ASSUME NEW S, NEW q \in Seq(S), NEW r \in Seq(S), NEW bears, NEW good
  PROVE  /\ NoneIn(r, bears) /\ LastIn(q, bears, good) => LastIn(q \o r, bears, good)
         /\ NoneIn(q \o r, bears) <=> NoneIn(q, bears) /\ NoneIn(r, bears)
         /\ LastIn(r, bears, good) /\ ~NoneIn(r, bears) => LastIn(q \o r, bears, good)
<1> DEFINE v == q \o r
<1>1. /\ \A i \in DOMAIN q : i \in Nat /\ i <= Len(q) /\ i \in DOMAIN v /\ v[i] = q[i]
      /\ \A j \in DOMAIN r : /\ j \in Nat /\ 1 <= j /\ Len(q) + j \in DOMAIN v
                             /\ v[Len(q) + j] = r[j]
      /\ \A i \in DOMAIN v : i \in DOMAIN q \/ \E j \in DOMAIN r : i = Len(q) + j
      /\ Len(q) \in Nat
  BY Joint
<1> HIDE DEF v
<1>2. NoneIn(v, bears) <=> NoneIn(q, bears) /\ NoneIn(r, bears)
  BY <1>1 DEF NoneIn
<1>3. ASSUME NoneIn(r, bears), LastIn(q, bears, good), ~NoneIn(q, bears)
      PROVE  LastIn(v, bears, good)
  <2>1. PICK i \in DOMAIN q : /\ q[i] \in bears /\ q[i] \in good
                              /\ \A j \in DOMAIN q : i < j => q[j] \notin bears
    BY <1>3 DEF LastIn
  <2>2. i \in DOMAIN v /\ v[i] = q[i]
    BY <1>1
  <2>3. ASSUME NEW j \in DOMAIN v, i < j PROVE v[j] \notin bears
    <3>1. CASE j \in DOMAIN q
      BY <1>1, <2>1, <2>3, <3>1
    <3>2. CASE \E k \in DOMAIN r : j = Len(q) + k
      BY <1>1, <1>3, <3>2 DEF NoneIn
    <3> QED BY <1>1, <3>1, <3>2
  <2> QED BY <2>1, <2>2, <2>3 DEF LastIn
<1>4. ASSUME LastIn(r, bears, good), ~NoneIn(r, bears) PROVE LastIn(v, bears, good)
  <2>1. PICK k \in DOMAIN r : /\ r[k] \in bears /\ r[k] \in good
                              /\ \A j \in DOMAIN r : k < j => r[j] \notin bears
    BY <1>4 DEF LastIn
  <2>2. Len(q) + k \in DOMAIN v /\ v[Len(q) + k] = r[k] /\ k \in Nat /\ 1 <= k
    BY <1>1
  <2>3. ASSUME NEW j \in DOMAIN v, Len(q) + k < j PROVE v[j] \notin bears
    <3>1. j \notin DOMAIN q
      <4>1. j \in DOMAIN q => j <= Len(q) /\ j \in Nat
        BY <1>1
      <4> QED BY <1>1, <2>2, <2>3, <4>1
    <3>2. PICK l \in DOMAIN r : j = Len(q) + l
      BY <1>1, <3>1
    <3>3. k < l
      BY <1>1, <2>2, <2>3, <3>2
    <3> QED BY <1>1, <2>1, <3>2, <3>3
  <2> QED BY <2>1, <2>2, <2>3 DEF LastIn
<1> QED BY <1>2, <1>3, <1>4 DEF v, LastIn
-----------------------------------------------------------------------------
(* Messages, sessions and statuses.                                        *)

Kinds == {"started", "ended", "reset", "changed", "playlist", "position",
          "session", "preparation", "online", "offline", "error", "joined", "rejoined"}
Told(status) == [kind |-> "status", status |-> status]
Answer(state) == [kind |-> "answer", state |-> state]

LEMMA Messages ==
  /\ \A k \in Kinds : Msg(k) \in Message /\ Msg(k).kind = k
  /\ \A s \in DisplayStatuses :
       Told(s) \in Message /\ Told(s).kind = "status" /\ Told(s).status = s
  /\ \A s \in State : Answer(s) \in Message /\ Answer(s).kind = "answer" /\ Answer(s).state = s
  /\ \A m \in Message : /\ m.kind = "status" => m.status \in DisplayStatuses
                        /\ m.kind = "answer" => m.state \in State
<1>1. \A k \in Kinds : Msg(k) \in Message /\ Msg(k).kind = k
  BY DEF Msg, Message, Kinds
<1>2. \A s \in DisplayStatuses :
        Told(s) \in Message /\ Told(s).kind = "status" /\ Told(s).status = s
  BY DEF Told, Message
<1>3. \A s \in State :
        Answer(s) \in Message /\ Answer(s).kind = "answer" /\ Answer(s).state = s
  BY DEF Answer, Message
<1>4. \A m \in Message : m.kind = "status" => m.status \in DisplayStatuses
  BY DEF Message
<1>5. \A m \in Message : m.kind = "answer" => m.state \in State
  BY DEF Message
<1> QED BY <1>1, <1>2, <1>3, <1>4, <1>5

LEMMA Sessions ==
  ASSUME NEW s \in Session \cup {NoSession}
  PROVE  /\ Started(s, TRUE) \in Session
         /\ Cleared(s) \in Session /\ ~HasEffectiveActiveSession(Cleared(s))
         /\ \A dto \in Snapshots :
              /\ Published(s, dto) \in Session /\ dto.mode \in Mode
              /\ HasEffectiveActiveSession(Published(s, dto)) => dto.mode = "Session"
         /\ s # NoSession => Ended(s) \in Session /\ ~HasEffectiveActiveSession(Ended(s))
         /\ s # NoSession => Positioned(s) \in Session
         /\ s # NoSession => (HasEffectiveActiveSession(Positioned(s))
                                <=> HasEffectiveActiveSession(s))
         /\ ~HasEffectiveActiveSession(NoSession)
<1>1. Started(s, TRUE) \in Session
  BY NoSessionAssumption DEF Started, Session, Mode, Status
<1>2. Cleared(s) \in Session /\ ~HasEffectiveActiveSession(Cleared(s))
  BY NoSessionAssumption DEF Cleared, Session, Mode, Status, HasEffectiveActiveSession
<1>3. ASSUME NEW dto \in Snapshots
      PROVE  /\ Published(s, dto) \in Session /\ dto.mode \in Mode
             /\ HasEffectiveActiveSession(Published(s, dto)) => dto.mode = "Session"
  <2>1. PICK m \in Mode : dto = [mode |-> m, status |-> "Playing", started |-> TRUE, marks |-> TRUE]
    BY DEF Snapshots
  <2>2. Published(s, dto) \in Session /\ Published(s, dto).mode = dto.mode /\ dto.mode \in Mode
    BY <2>1, NoSessionAssumption DEF Published, Session, Mode, Status
  <2> QED BY <2>2 DEF HasEffectiveActiveSession
<1>4. s # NoSession => Ended(s) \in Session /\ ~HasEffectiveActiveSession(Ended(s))
  BY NoSessionAssumption DEF Ended, Session, Mode, Status, HasEffectiveActiveSession
<1>5. s # NoSession => /\ Positioned(s) \in Session
                       /\ HasEffectiveActiveSession(Positioned(s))
                            <=> HasEffectiveActiveSession(s)
  BY NoSessionAssumption DEF Positioned, Session, Mode, Status, HasEffectiveActiveSession
<1> QED BY <1>1, <1>2, <1>3, <1>4, <1>5 DEF HasEffectiveActiveSession

(* The status of a party that is ready depends on these.                   *)
LEMMA StatusFacts ==
  ASSUME NEW p \in Parties
  PROVE  /\ StatusOf(p) \in DisplayStatuses /\ StateOf(p) \in State
         /\ StateOf(p).status = StatusOf(p) /\ StateOf(p).list = p.list
         /\ StateOf(p).playing = (p.session # NoSession)
         /\ p.organizer /\ StatusOf(p) = "Live" =>
              p.life = "Ready" /\ HasEffectiveActiveSession(p.session)
         /\ StatusOf(p) \in {"Live", "OrganizerOffline"} => HasEffectiveActiveSession(p.session)
         /\ \A q \in Parties :
              /\ p.life = q.life /\ p.organizer = q.organizer
              /\ HasEffectiveActiveSession(p.session) <=> HasEffectiveActiveSession(q.session)
              /\ p.organizer \/ p.mark = q.mark
              => StatusOf(p) = StatusOf(q)
<1>1. /\ p.life \in {"Ready", "Completed"} /\ p.organizer \in BOOLEAN
      /\ p.mark \in {"never", "within", "past"} /\ p.list \in Nat
  BY DEF Parties
<1>2. StatusOf(p) \in DisplayStatuses
  BY <1>1 DEF StatusOf, Compute, DisplayStatuses
<1>3. /\ StateOf(p) \in State /\ StateOf(p).status = StatusOf(p)
      /\ StateOf(p).list = p.list /\ StateOf(p).playing = (p.session # NoSession)
  BY <1>1, <1>2 DEF StateOf, State
<1>4. p.organizer /\ StatusOf(p) = "Live" =>
        p.life = "Ready" /\ HasEffectiveActiveSession(p.session)
  BY <1>1 DEF StatusOf, Compute
<1>5. StatusOf(p) \in {"Live", "OrganizerOffline"} => HasEffectiveActiveSession(p.session)
  BY <1>1 DEF StatusOf, Compute
<1>6. ASSUME NEW q \in Parties, p.life = q.life, p.organizer = q.organizer,
             HasEffectiveActiveSession(p.session) <=> HasEffectiveActiveSession(q.session),
             p.organizer \/ p.mark = q.mark
      PROVE  StatusOf(p) = StatusOf(q)
  BY <1>1, <1>6 DEF StatusOf, Compute
<1> QED BY <1>2, <1>3, <1>4, <1>5, <1>6
-----------------------------------------------------------------------------
(* What the group hears when the party changes.                            *)

LEMMA One ==
  ASSUME NEW S, NEW x \in S, NEW bears, NEW good
  PROVE  /\ <<x>> \in Seq(S) /\ Len(<<x>>) = 1 /\ <<x>>[1] = x /\ DOMAIN <<x>> = 1 .. 1
         /\ NoneIn(<<x>>, bears) <=> x \notin bears
         /\ x \notin bears \/ x \in good => LastIn(<<x>>, bears, good)
<1>1. /\ <<x>> \in Seq(S) /\ Len(<<x>>) = 1 /\ <<x>>[1] = x /\ DOMAIN <<x>> = 1 .. 1
      /\ \A i \in DOMAIN <<x>> : i = 1
  OBVIOUS
<1>2. NoneIn(<<x>>, bears) <=> x \notin bears
  BY <1>1 DEF NoneIn
<1>3. ASSUME x \in bears, x \in good PROVE LastIn(<<x>>, bears, good)
  <2>1. 1 \in DOMAIN <<x>> /\ \A j \in DOMAIN <<x>> : ~(1 < j)
    BY <1>1
  <2> QED BY <1>1, <1>3, <2>1 DEF LastIn
<1> QED BY <1>1, <1>2, <1>3 DEF LastIn

On(p) == p.organizer /\ StatusOf(p) = "Live"

HearsStatus(new, ms) ==
  \/ ~NoneIn(ms, StatusBears) /\ LastIn(ms, StatusBears, StatusGood(new))
  \/ NoneIn(ms, StatusBears) /\ StatusOf(new) = StatusOf(party)
  \/ \E i \in DOMAIN ms : Asks(ms[i])
HearsList(new, ms) ==
  \/ new.list = party.list /\ \A i \in DOMAIN ms : ms[i].kind # "playlist"
  \/ /\ ms = <<Msg("playlist")>>
     /\ net.group => "throttle" \in allowed \/ ~(page.recent \/ Pending("playlist"))
HearsPlay(ms) ==
  \/ ~NoneIn(ms, PlayBears) /\ LastIn(ms, PlayBears, PlayGood)
  \/ NoneIn(ms, PlayBears) /\ OnAir
  \/ \E i \in DOMAIN ms : Asks(ms[i])
HearsTimers(ms) ==
  \/ ~NoneIn(ms, TimerBears) /\ LastIn(ms, TimerBears, TimerGood)
  \/ NoneIn(ms, TimerBears) /\ OnAir

Hears(new, ms) ==
  /\ new \in Parties /\ ms \in Seq(Message)
  /\ \A i \in DOMAIN ms : ms[i].kind \notin {"answer", "joined"}
  /\ HearsStatus(new, ms) /\ HearsList(new, ms)
  /\ On(new) => HearsPlay(ms) /\ HearsTimers(ms)

(* A message with the status after others.                                 *)
LEMMA StatusLast ==
  ASSUME TypesFit, NEW new \in Parties, new.list = party.list,
         NEW first \in Seq(Message),
         \A i \in DOMAIN first : first[i].kind \notin {"answer", "joined", "playlist"},
         On(new) => HearsPlay(first) /\ HearsTimers(first)
  PROVE  Hears(new, first \o <<[kind |-> "status", status |-> StatusOf(new)]>>)
<1> DEFINE told == Told(StatusOf(new))
           ms == first \o <<told>>
<1>1. told \in Message /\ told.kind = "status" /\ told.status = StatusOf(new)
  BY StatusFacts, Messages
<1>2. told \notin PlayBears /\ told \notin TimerBears /\ told \in StatusBears
  BY <1>1 DEF PlayBears, TimerBears, StatusBears
<1>3. told \in StatusGood(new)
  BY <1>1, <1>2 DEF StatusGood, Given
<1> HIDE DEF told
<1>4. <<told>> \in Seq(Message) /\ DOMAIN <<told>> = 1 .. 1 /\ <<told>>[1] = told
  BY <1>1, One
<1>5. /\ ms \in Seq(Message)
      /\ \A i \in DOMAIN first : i \in DOMAIN ms /\ ms[i] = first[i]
      /\ \A i \in DOMAIN ms : ms[i] = told \/ \E j \in DOMAIN first : ms[i] = first[j]
  BY <1>4, Joint
<1>6. ~NoneIn(ms, StatusBears) /\ LastIn(ms, StatusBears, StatusGood(new))
  <2>1. ~NoneIn(<<told>>, StatusBears) /\ LastIn(<<told>>, StatusBears, StatusGood(new))
    BY <1>1, <1>2, <1>3, One
  <2> QED BY <2>1, <1>4, Came
<1>7. /\ NoneIn(ms, PlayBears) <=> NoneIn(first, PlayBears)
      /\ LastIn(first, PlayBears, PlayGood) => LastIn(ms, PlayBears, PlayGood)
  <2>1. NoneIn(<<told>>, PlayBears)
    BY <1>1, <1>2, One
  <2> QED BY <2>1, <1>4, Came
<1>8. /\ NoneIn(ms, TimerBears) <=> NoneIn(first, TimerBears)
      /\ LastIn(first, TimerBears, TimerGood) => LastIn(ms, TimerBears, TimerGood)
  <2>1. NoneIn(<<told>>, TimerBears)
    BY <1>1, <1>2, One
  <2> QED BY <2>1, <1>4, Came
<1>9. (\E i \in DOMAIN first : Asks(first[i])) => \E i \in DOMAIN ms : Asks(ms[i])
  BY <1>5
<1>10. \A i \in DOMAIN ms : ms[i].kind \notin {"answer", "joined", "playlist"}
  BY <1>1, <1>5
<1> HIDE DEF ms
<1>11. Hears(new, ms)
  BY <1>5, <1>6, <1>7, <1>8, <1>9, <1>10
     DEF Hears, HearsStatus, HearsList, HearsPlay, HearsTimers
<1> QED BY <1>11 DEF ms, told, Told

OneFirst(kind) == <<Msg(kind)>>

(* What the first messages of an operation say.                            *)
LEMMA FirstMessage ==
  ASSUME NEW kind \in Kinds
  PROVE  /\ OneFirst(kind) \in Seq(Message)
         /\ DOMAIN OneFirst(kind) = 1 .. 1 /\ OneFirst(kind)[1] = Msg(kind)
         /\ Msg(kind) \in Message /\ Msg(kind).kind = kind
         /\ NoneIn(OneFirst(kind), StatusBears) <=> kind \notin {"ended", "reset"}
         /\ NoneIn(OneFirst(kind), PlayBears)
              <=> kind \notin {"session", "preparation", "reset", "position"}
         /\ kind \in {"session", "position"} => LastIn(OneFirst(kind), PlayBears, PlayGood)
         /\ NoneIn(OneFirst(kind), TimerBears)
              <=> kind \notin {"started", "online", "offline", "ended", "reset",
                               "session", "preparation"}
         /\ kind \in {"started", "online", "reset", "session", "preparation"} =>
              LastIn(OneFirst(kind), TimerBears, TimerGood)
<1> DEFINE m == Msg(kind)
<1>1. m \in Message /\ m.kind = kind /\ kind # "answer" /\ kind # "status"
  BY Messages DEF Kinds
<1>2. /\ m \in StatusBears <=> kind \in {"ended", "reset"}
      /\ m \in PlayBears <=> kind \in {"session", "preparation", "reset", "position"}
      /\ m \in TimerBears <=> kind \in {"started", "online", "offline", "ended", "reset",
                                        "session", "preparation"}
      /\ kind \in {"session", "position"} => m \in PlayGood
      /\ kind \in {"started", "online", "reset", "session", "preparation"} => m \in TimerGood
  BY <1>1 DEF StatusBears, PlayBears, TimerBears, PlayGood, TimerGood
<1> HIDE DEF m
<1>3. <<m>> \in Seq(Message) /\ DOMAIN <<m>> = 1 .. 1 /\ <<m>>[1] = m
  BY <1>1, One
<1>4. NoneIn(<<m>>, StatusBears) <=> m \notin StatusBears
  BY <1>1, One
<1>5. /\ NoneIn(<<m>>, PlayBears) <=> m \notin PlayBears
      /\ m \in PlayGood => LastIn(<<m>>, PlayBears, PlayGood)
  BY <1>1, One
<1>6. /\ NoneIn(<<m>>, TimerBears) <=> m \notin TimerBears
      /\ m \in TimerGood => LastIn(<<m>>, TimerBears, TimerGood)
  BY <1>1, One
<1>7. <<m>> = OneFirst(kind) /\ m = Msg(kind)
  BY DEF m, OneFirst
<1> QED BY <1>1, <1>2, <1>3, <1>4, <1>5, <1>6, <1>7

LEMMA PartyStep ==
  ASSUME TypesFit,
         Organize \/ OrganizerJoins \/ OrganizerLeaves \/ GraceEnds \/ Complete \/ SavePlaylist
  PROVE  /\ \E ms \in Seq(Message) : Become(party', ms) /\ Hears(party', ms)
         /\ ops' \in 0 .. MaxOps /\ ops <= ops' /\ party'.list <= ops'
<1>1. /\ party \in Parties /\ party.list <= ops /\ ops \in 0 .. MaxOps /\ MaxOps \in Nat
      /\ party.session \in Session \cup {NoSession} /\ party.list \in Nat
      /\ party.organizer \in BOOLEAN
  BY ViewerAssumption DEF TypesFit, Parties
<1>2. ASSUME NEW new, NEW ms \in Seq(Message), new.list = party.list,
             Operation(new, ms), Hears(new, ms)
      PROVE  /\ \E q \in Seq(Message) : Become(party', q) /\ Hears(party', q)
             /\ ops' \in 0 .. MaxOps /\ ops <= ops' /\ party'.list <= ops'
  <2>1. party' = new /\ Become(party', ms) /\ ops < MaxOps /\ ops' = ops + 1
    BY <1>2 DEF Operation, Become
  <2> QED BY <1>1, <1>2, <2>1
<1>3. ASSUME NEW new \in Parties, new.list = party.list, NEW first \in Seq(Message),
             \A i \in DOMAIN first : first[i].kind \notin {"answer", "joined", "playlist"},
             On(new) => HearsPlay(first) /\ HearsTimers(first),
             WithStatus(new, first)
      PROVE  /\ \E q \in Seq(Message) : Become(party', q) /\ Hears(party', q)
             /\ ops' \in 0 .. MaxOps /\ ops <= ops' /\ party'.list <= ops'
  <2> DEFINE ms == first \o <<[kind |-> "status", status |-> StatusOf(new)]>>
  <2>1. Hears(new, ms)
    BY <1>3, StatusLast
  <2>2. ms \in Seq(Message) /\ Operation(new, ms)
    BY <1>3, <2>1 DEF Hears, WithStatus
  <2> HIDE DEF ms
  <2> QED BY <1>2, <1>3, <2>1, <2>2
<1>4. CASE Organize
  <2>0. party.organizer
    BY <1>4 DEF Organize
  <2>1. CASE WithStatus([party EXCEPT !.session = Started(@, TRUE)], <<Msg("started")>>)
    <3> DEFINE new == [party EXCEPT !.session = Started(@, TRUE)]
    <3>1. new \in Parties /\ new.list = party.list
      BY <1>1, Sessions DEF Parties
    <3>2. HearsPlay(OneFirst("started")) /\ HearsTimers(OneFirst("started"))
      BY FirstMessage DEF Kinds, HearsPlay, HearsTimers, Asks
    <3>3. OneFirst("started") \in Seq(Message)
          /\ \A i \in DOMAIN OneFirst("started") :
               OneFirst("started")[i].kind \notin {"answer", "joined", "playlist"}
      BY FirstMessage DEF Kinds
    <3>4. WithStatus(new, OneFirst("started"))
      BY <2>1 DEF OneFirst
    <3> HIDE DEF new
    <3> QED BY <1>3, <3>1, <3>2, <3>3, <3>4
  <2>2. CASE WithStatus([party EXCEPT !.session = IF @ = NoSession THEN @ ELSE Ended(@)],
                        <<Msg("ended")>>)
    <3> DEFINE new == [party EXCEPT !.session = IF @ = NoSession THEN @ ELSE Ended(@)]
    <3>1. /\ new \in Parties /\ new.list = party.list
          /\ ~HasEffectiveActiveSession(new.session)
      <4>1. CASE party.session = NoSession
        BY <1>1, <4>1, Sessions DEF Parties
      <4>2. CASE party.session # NoSession
        BY <1>1, <4>2, Sessions DEF Parties
      <4> QED BY <4>1, <4>2
    <3>2. ~On(new)
      BY <3>1, StatusFacts DEF On
    <3>3. OneFirst("ended") \in Seq(Message)
          /\ \A i \in DOMAIN OneFirst("ended") :
               OneFirst("ended")[i].kind \notin {"answer", "joined", "playlist"}
      BY FirstMessage DEF Kinds
    <3>4. WithStatus(new, OneFirst("ended"))
      BY <2>2 DEF OneFirst
    <3> HIDE DEF new
    <3> QED BY <1>3, <3>1, <3>2, <3>3, <3>4
  <2>3. CASE WithStatus([party EXCEPT !.session = Cleared(@)], <<Msg("ended"), Msg("reset")>>)
    <3> DEFINE new == [party EXCEPT !.session = Cleared(@)]
               first == <<Msg("ended"), Msg("reset")>>
    <3>1. /\ new \in Parties /\ new.list = party.list
          /\ ~HasEffectiveActiveSession(new.session)
      BY <1>1, Sessions DEF Parties
    <3>2. ~On(new)
      BY <3>1, StatusFacts DEF On
    <3>3. /\ first \in Seq(Message)
          /\ \A i \in DOMAIN first : first[i].kind \notin {"answer", "joined", "playlist"}
      <4>1. /\ Msg("ended") \in Message /\ Msg("ended").kind = "ended"
            /\ Msg("reset") \in Message /\ Msg("reset").kind = "reset"
        BY Messages DEF Kinds
      <4>2. \A a, b \in Message : /\ <<a, b>> \in Seq(Message)
                                  /\ \A i \in DOMAIN <<a, b>> : <<a, b>>[i] \in {a, b}
        OBVIOUS
      <4> QED BY <4>1, <4>2
    <3>4. WithStatus(new, first)
      BY <2>3
    <3> HIDE DEF new, first
    <3> QED BY <1>3, <3>1, <3>2, <3>3, <3>4
  <2>4. ASSUME NEW dto \in Snapshots,
               WithStatus([party EXCEPT !.session = Published(@, dto)], <<FullState(dto.mode)>>)
        PROVE  /\ \E q \in Seq(Message) : Become(party', q) /\ Hears(party', q)
               /\ ops' \in 0 .. MaxOps /\ ops <= ops' /\ party'.list <= ops'
    <3> DEFINE new == [party EXCEPT !.session = Published(@, dto)]
               kind == IF dto.mode = "Session" THEN "session" ELSE "preparation"
    <3>1. new \in Parties /\ new.list = party.list /\ new.session = Published(party.session, dto)
      BY <1>1, Sessions DEF Parties
    <3>2. On(new) => dto.mode = "Session"
      <4>1. On(new) => HasEffectiveActiveSession(new.session)
        BY <3>1, StatusFacts DEF On
      <4>2. HasEffectiveActiveSession(Published(party.session, dto)) => dto.mode = "Session"
        BY <1>1, Sessions
      <4> HIDE DEF new
      <4> QED BY <3>1, <4>1, <4>2
    <3>3. kind \in Kinds /\ FullState(dto.mode) = Msg(kind) /\ kind \in {"session", "preparation"}
      BY DEF Kinds, FullState
    <3>4. On(new) => kind = "session"
      BY <3>2
    <3>5. WithStatus(new, OneFirst(kind))
      BY <2>4, <3>3 DEF OneFirst
    <3> HIDE DEF new, kind
    <3>6. OneFirst(kind) \in Seq(Message)
          /\ \A i \in DOMAIN OneFirst(kind) :
               OneFirst(kind)[i].kind \notin {"answer", "joined", "playlist"}
      BY <3>3, FirstMessage
    <3>7. On(new) => HearsPlay(OneFirst(kind)) /\ HearsTimers(OneFirst(kind))
      BY <3>3, <3>4, FirstMessage DEF HearsPlay, HearsTimers
    <3> QED BY <1>3, <3>1, <3>5, <3>6, <3>7
  <2>5. CASE /\ party.session # NoSession
             /\ Operation([party EXCEPT !.session = Positioned(@)], <<Msg("position")>>)
    <3> DEFINE new == [party EXCEPT !.session = Positioned(@)]
    <3>1. /\ new \in Parties /\ new.list = party.list /\ new.life = party.life
          /\ new.organizer = party.organizer /\ new.mark = party.mark
          /\ HasEffectiveActiveSession(party.session) <=> HasEffectiveActiveSession(new.session)
      BY <1>1, <2>5, Sessions DEF Parties
    <3>2. StatusOf(party) = StatusOf(new)
      BY <1>1, <3>1, StatusFacts
    <3>3. Operation(new, OneFirst("position"))
      BY <2>5 DEF OneFirst
    <3> HIDE DEF new
    <3>4. /\ OneFirst("position") \in Seq(Message)
          /\ NoneIn(OneFirst("position"), StatusBears) /\ ~NoneIn(OneFirst("position"), PlayBears)
          /\ LastIn(OneFirst("position"), PlayBears, PlayGood)
          /\ NoneIn(OneFirst("position"), TimerBears)
          /\ \A i \in DOMAIN OneFirst("position") : OneFirst("position")[i].kind = "position"
      BY FirstMessage DEF Kinds
    <3>5. Hears(new, OneFirst("position"))
      BY <3>1, <3>2, <3>4
         DEF Hears, HearsStatus, HearsList, HearsPlay, HearsTimers, On, OnAir
    <3> QED BY <1>2, <3>1, <3>3, <3>4, <3>5
  <2> QED BY <1>4, <2>1, <2>2, <2>3, <2>4, <2>5 DEF Organize
<1>5. CASE OrganizerJoins
  <2> DEFINE new == [party EXCEPT !.organizer = TRUE, !.mark = "never"]
  <2>1. new \in Parties /\ new.list = party.list
    BY <1>1 DEF Parties
  <2>2. HearsPlay(OneFirst("online")) /\ HearsTimers(OneFirst("online"))
    BY FirstMessage DEF Kinds, HearsPlay, HearsTimers, Asks
  <2>3. OneFirst("online") \in Seq(Message)
        /\ \A i \in DOMAIN OneFirst("online") :
             OneFirst("online")[i].kind \notin {"answer", "joined", "playlist"}
    BY FirstMessage DEF Kinds
  <2>4. WithStatus(new, OneFirst("online"))
    BY <1>5 DEF OrganizerJoins, OneFirst
  <2> HIDE DEF new
  <2> QED BY <1>3, <2>1, <2>2, <2>3, <2>4
<1>6. CASE OrganizerLeaves
  <2> DEFINE new == [party EXCEPT !.organizer = FALSE, !.mark = "within"]
  <2>1. new \in Parties /\ new.list = party.list /\ ~On(new)
    BY <1>1 DEF Parties, On
  <2>2. OneFirst("offline") \in Seq(Message)
        /\ \A i \in DOMAIN OneFirst("offline") :
             OneFirst("offline")[i].kind \notin {"answer", "joined", "playlist"}
    BY FirstMessage DEF Kinds
  <2>3. WithStatus(new, OneFirst("offline"))
    BY <1>6 DEF OrganizerLeaves, OneFirst
  <2> HIDE DEF new
  <2> QED BY <1>3, <2>1, <2>2, <2>3
<1>7. CASE GraceEnds
  <2> DEFINE new == [party EXCEPT !.mark = "past"]
             ms == <<>> \o <<[kind |-> "status", status |-> StatusOf(new)]>>
  <2>1. /\ new \in Parties /\ new.list = party.list /\ new.life = party.life
        /\ new.organizer = party.organizer /\ new.session = party.session
    BY <1>1 DEF Parties
  <2>2. On(new) => OnAir
    <3>1. new.organizer => StatusOf(new) = StatusOf(party)
      BY <1>1, <2>1, StatusFacts
    <3> QED BY <2>1, <3>1 DEF On, OnAir
  <2>3. <<[kind |-> "status", status |-> StatusOf(new)]>> \in Seq(Message)
    <3>1. [kind |-> "status", status |-> StatusOf(new)] \in Message
      BY <2>1, StatusFacts, Messages DEF Told
    <3> HIDE DEF new
    <3> QED BY <3>1
  <2>4. Become(new, ms) /\ ops' = ops
    <3>1. ms = <<[kind |-> "status", status |-> StatusOf(new)]>>
      BY <2>3
    <3> QED BY <1>7, <3>1 DEF GraceEnds
  <2> HIDE DEF new
  <2>5. /\ <<>> \in Seq(Message) /\ DOMAIN <<>> = {}
        /\ NoneIn(<<>>, PlayBears) /\ NoneIn(<<>>, TimerBears)
    BY DEF NoneIn
  <2>6. On(new) => HearsPlay(<<>>) /\ HearsTimers(<<>>)
    BY <2>2, <2>5 DEF HearsPlay, HearsTimers
  <2>7. Hears(new, ms)
    BY <2>1, <2>5, <2>6, StatusLast
  <2> HIDE DEF ms
  <2>8. ms \in Seq(Message) /\ party' = new
    BY <2>4, <2>7 DEF Hears, Become
  <2> QED BY <1>1, <2>1, <2>4, <2>7, <2>8
<1>8. CASE Complete
  <2> DEFINE new == [party EXCEPT !.life = "Completed"]
  <2>1. new \in Parties /\ new.list = party.list /\ new.life = "Completed"
    BY <1>1 DEF Parties
  <2>2. ~On(new)
    BY <2>1, StatusFacts DEF On
  <2>3. Operation(new, OneFirst("changed"))
    BY <1>8 DEF Complete, OneFirst
  <2> HIDE DEF new
  <2>4. /\ OneFirst("changed") \in Seq(Message)
        /\ 1 \in DOMAIN OneFirst("changed") /\ Asks(OneFirst("changed")[1])
        /\ \A i \in DOMAIN OneFirst("changed") : OneFirst("changed")[i].kind = "changed"
    BY FirstMessage DEF Kinds, Asks
  <2>5. Hears(new, OneFirst("changed"))
    BY <2>1, <2>2, <2>4 DEF Hears, HearsStatus, HearsList
  <2> QED BY <1>2, <2>1, <2>3, <2>4, <2>5
<1>9. CASE SavePlaylist
  <2> DEFINE new == [party EXCEPT !.list = @ + 1]
  <2>1. /\ new \in Parties /\ new.list = party.list + 1 /\ new.life = party.life
        /\ new.organizer = party.organizer /\ new.mark = party.mark
        /\ new.session = party.session
    BY <1>1 DEF Parties
  <2>2. StatusOf(party) = StatusOf(new)
    BY <1>1, <2>1, StatusFacts
  <2>3. /\ Operation(new, OneFirst("playlist"))
        /\ net.group => "throttle" \in allowed \/ ~(page.recent \/ Pending("playlist"))
    BY <1>9 DEF SavePlaylist, OneFirst
  <2> HIDE DEF new
  <2>4. /\ OneFirst("playlist") \in Seq(Message)
        /\ NoneIn(OneFirst("playlist"), StatusBears) /\ NoneIn(OneFirst("playlist"), PlayBears)
        /\ NoneIn(OneFirst("playlist"), TimerBears)
        /\ \A i \in DOMAIN OneFirst("playlist") : OneFirst("playlist")[i].kind = "playlist"
    BY FirstMessage DEF Kinds
  <2>5. Hears(new, OneFirst("playlist"))
    BY <2>1, <2>2, <2>3, <2>4
       DEF Hears, HearsStatus, HearsList, HearsPlay, HearsTimers, On, OnAir, OneFirst
  <2>6. party' = new /\ Become(party', OneFirst("playlist")) /\ ops < MaxOps /\ ops' = ops + 1
    BY <2>3 DEF Operation, Become
  <2> QED BY <1>1, <2>1, <2>4, <2>5, <2>6
<1> QED BY <1>4, <1>5, <1>6, <1>7, <1>8, <1>9
-----------------------------------------------------------------------------
(* The page alone: timers and fetches.                                     *)

(* Nothing about the connection changes.                                   *)
LEMMA SameConnection ==
  ASSUME ViewerInv, UNCHANGED <<allowed, party, serving, net, calls, inbox, hook>>
  PROVE  /\ ConnectionFits' /\ ReadIsTrue' /\ GroupComes'
         /\ WillAsk' <=> WillAsk
         /\ Reading' <=> Reading
         /\ Up' <=> Up
         /\ OnAir' <=> OnAir
<1>1. /\ Asked' <=> Asked
      /\ Joining' <=> Joining
      /\ JoinedPending' <=> JoinedPending
      /\ IsJoin' <=> IsJoin
      /\ Reached' <=> Reached
  BY DEF Asked, Joining, JoinedPending, IsJoin, Reached, Without
<1>2. LinkFits' /\ OneJoin' /\ GroupFits'
  <2>1. LinkFits'
    BY DEF ViewerInv, ConnectionFits, LinkFits
  <2>2. OneJoin'
    BY <1>1 DEF ViewerInv, ConnectionFits, OneJoin
  <2>3. GroupFits'
    BY <1>1 DEF ViewerInv, ConnectionFits, GroupFits
  <2> QED BY <2>1, <2>2, <2>3
<1>3. ConnectionFits'
  BY <1>2 DEF ViewerInv, ConnectionFits, Without
<1>4. /\ WillAsk' <=> WillAsk
      /\ Reading' <=> Reading
      /\ Up' <=> Up
      /\ OnAir' <=> OnAir
  <2>1. WillAsk' <=> WillAsk
    BY <1>1 DEF WillAsk, Asks
  <2>2. Reading' <=> Reading
    BY DEF Reading
  <2>3. Up' <=> Up
    BY <1>1 DEF Up, Without
  <2>4. OnAir' <=> OnAir
    BY DEF OnAir, StatusOf
  <2> QED BY <2>1, <2>2, <2>3, <2>4
<1>5. ReadIsTrue' /\ GroupComes'
  BY <1>4 DEF ViewerInv, ReadIsTrue, GroupComes, Without, StateOf, StatusOf
<1> QED BY <1>3, <1>4, <1>5

LEMMA Statuses ==
  ASSUME TypesFit
  PROVE  StatusOf(party) \in DisplayStatuses /\ StateOf(party) \in State
BY StatusFacts DEF TypesFit

(* A timer of a page that hears of a party on air runs out only if what    *)
(* will stop it also says that there is playback.                          *)
LEMMA TimerFiresStep == ASSUME ViewerInv, TimerFires PROVE ViewerInv'
<1>1. /\ UNCHANGED <<allowed, party, serving, net, calls, inbox, hook, fetches, ops, drops>>
      /\ page.timer # "none"
      /\ page' = [page EXCEPT !.timer = "none", !.playing = FALSE]
  BY DEF TimerFires
<1>2. TypesFit /\ page \in Pages
  BY DEF ViewerInv, TypesFit
<1>3. /\ page' \in Pages /\ page'.status = page.status /\ page'.list = page.list
      /\ page'.timer = "none" /\ page'.recent = page.recent
  BY <1>1, <1>2 DEF Pages
<1>4. /\ ConnectionFits' /\ ReadIsTrue' /\ GroupComes'
      /\ WillAsk' <=> WillAsk
      /\ Reading' <=> Reading
      /\ Up' <=> Up
      /\ OnAir' <=> OnAir
  BY <1>1, SameConnection
<1>5. TypesFit'
  BY <1>1, <1>2, <1>3 DEF TypesFit
<1>6. FetchFollows'
  BY <1>1, <1>3 DEF ViewerInv, FetchFollows, Pending
<1>7. StatusComes' /\ ListComes'
  BY <1>1, <1>3, <1>4
     DEF ViewerInv, StatusComes, ListComes, StatusTold, ListTold, Without, LastIn, NoneIn,
         StatusGood, ListGood, StatusOf
<1>8. TimersFit'
  BY <1>1, <1>3, <1>4 DEF ViewerInv, TimersFit, TimersTold, LastIn, NoneIn
<1>9. ASSUME Up, OnAir, net.group, ~WillAsk, PlayTold PROVE PlayTold'
  <2>1. ~NoneIn(inbox, TimerBears) /\ LastIn(inbox, TimerBears, TimerGood)
    BY <1>1, <1>9 DEF ViewerInv, TimersFit, TimersTold, WillAsk
  <2>2. PICK i \in DOMAIN inbox : inbox[i] \in TimerBears /\ inbox[i] \in TimerGood
    BY <2>1 DEF LastIn
  <2>3. ~Asks(inbox[i])
    BY <1>9 DEF WillAsk
  <2>4. inbox[i] \in PlayBears
    BY <2>2, <2>3 DEF TimerBears, TimerGood, PlayBears, Asks
  <2> QED BY <1>1, <1>9, <2>4 DEF PlayTold, LastIn, NoneIn
<1>10. PlayComes'
  BY <1>1, <1>4, <1>9 DEF ViewerInv, PlayComes
<1> QED BY <1>4, <1>5, <1>6, <1>7, <1>8, <1>10 DEF ViewerInv

(* What the page is told stays true when a fetch is done.                  *)
LEMMA FetchStep ==
  ASSUME ViewerInv,
         UNCHANGED <<allowed, party, serving, net, calls, inbox, hook, ops>>,
         page' \in Pages, page'.list # None => page'.list <= ops,
         fetches' \in Fetches, drops' \in 0 .. MaxDrops,
         page'.timer = page.timer, page'.playing = page.playing,
         page'.status = page.status \/ page'.status = StatusOf(party),
         allowed = {} => /\ page'.recent => page.recent \/ ~Pending("playlist")
                         /\ \/ page'.list = party.list
                            \/ \E i \in 1 .. 2 : fetches'[i] # None
                            \/ page'.list = page.list /\ fetches' = fetches
  PROVE  ViewerInv'
<1>1. /\ ConnectionFits' /\ ReadIsTrue' /\ GroupComes'
      /\ WillAsk' <=> WillAsk
      /\ Reading' <=> Reading
      /\ Up' <=> Up
      /\ OnAir' <=> OnAir
  BY SameConnection
<1>2. TypesFit'
  BY DEF ViewerInv, TypesFit
<1>3. FetchFollows'
  BY DEF ViewerInv, FetchFollows, Pending
<1>4. TimersFit'
  BY <1>1 DEF ViewerInv, TimersFit, TimersTold, LastIn, NoneIn
<1>5. PlayComes'
  BY <1>1 DEF ViewerInv, PlayComes, PlayTold, LastIn, NoneIn
<1>6. StatusTold => StatusTold'
  BY DEF StatusTold, LastIn, NoneIn, StatusGood, StatusOf
<1>7. StatusComes'
  BY <1>1, <1>6 DEF ViewerInv, StatusComes, Without
<1>8. allowed = {} /\ ListTold => ListTold'
  BY DEF ListTold, LastIn, NoneIn, ListGood
<1>9. ListComes'
  BY <1>1, <1>8 DEF ViewerInv, ListComes
<1> QED BY <1>1, <1>2, <1>3, <1>4, <1>5, <1>7, <1>9 DEF ViewerInv

LEMMA Faults == ASSUME TypesFit, Fault PROVE drops' \in 0 .. MaxDrops
BY ViewerAssumption DEF Fault, TypesFit

LEMMA Starts ==
  ASSUME TypesFit, NEW silent \in BOOLEAN, StartFetch(silent)
  PROVE  fetches' \in Fetches /\ \E i \in 1 .. 2 : fetches'[i] # None
<1>1. PICK i \in 1 .. 2, info \in BOOLEAN :
        fetches' = [fetches EXCEPT ![i] = [silent |-> silent, info |-> info]]
  BY DEF StartFetch
<1>2. [silent |-> silent, info |-> info] \in Fetch /\ None \notin Fetch
  BY ViewerAssumption DEF Fetch
<1>3. fetches \in [1 .. 2 -> Fetch \cup {None}]
  BY DEF TypesFit, Fetches
<1> DEFINE f == [silent |-> silent, info |-> info]
<1> HIDE DEF f
<1>4. fetches' = [fetches EXCEPT ![i] = f] /\ f \in Fetch /\ f # None
  BY <1>1, <1>2 DEF f
<1> QED BY <1>3, <1>4 DEF Fetches

LEMMA PageStep ==
  ASSUME ViewerInv,
         \/ TimerFires \/ TwoSecondsPass \/ Retry
         \/ \E i \in 1 .. 2 : FetchDone(i) \/ FetchFails(i)
  PROVE  ViewerInv'
<1>0. /\ TypesFit /\ page \in Pages /\ (page.list # None => page.list <= ops)
      /\ party.list <= ops /\ party.list \in Nat /\ fetches \in [1 .. 2 -> Fetch \cup {None}]
      /\ drops \in 0 .. MaxDrops /\ StatusOf(party) \in DisplayStatuses
  BY Statuses DEF ViewerInv, TypesFit, Parties, Fetches
<1>1. ASSUME NEW i \in 1 .. 2, FetchDone(i) PROVE ViewerInv'
  <2>1. /\ fetches[i] # None /\ fetches' = [fetches EXCEPT ![i] = None] /\ drops' = drops
        /\ UNCHANGED <<allowed, party, serving, net, calls, inbox, hook, ops>>
        /\ page' = [page EXCEPT
             !.list = party.list,
             !.status = IF fetches[i].info THEN StatusOf(party) ELSE @,
             !.loading = @ /\ fetches[i].silent]
    BY <1>1 DEF FetchDone, FreeSlot, UnchangedButPage
  <2>2. fetches[i].info \in BOOLEAN /\ fetches[i].silent \in BOOLEAN
    BY <1>0, <2>1 DEF Fetch
  <2>3. /\ page' \in Pages /\ page'.list = party.list
        /\ page'.timer = page.timer /\ page'.playing = page.playing
        /\ page'.status = page.status \/ page'.status = StatusOf(party)
        /\ page'.recent = page.recent
    BY <1>0, <2>1, <2>2 DEF Pages
  <2>4. fetches' \in Fetches
    BY <1>0, <2>1 DEF Fetches
  <2> QED BY <1>0, <2>1, <2>3, <2>4, FetchStep
<1>2. ASSUME NEW i \in 1 .. 2, FetchFails(i) PROVE ViewerInv'
  <2>1. /\ fetches[i] # None /\ fetches' = [fetches EXCEPT ![i] = None]
        /\ UNCHANGED <<allowed, party, serving, net, calls, inbox, hook, ops>>
        /\ page' = [page EXCEPT !.error = TRUE, !.reachable = FALSE,
                                !.loading = @ /\ fetches[i].silent]
        /\ allowed # {} /\ Fault
    BY <1>2 DEF FetchFails, FreeSlot, UnchangedButPage
  <2>2. fetches[i].silent \in BOOLEAN
    BY <1>0, <2>1 DEF Fetch
  <2>3. /\ page' \in Pages /\ page'.list = page.list
        /\ page'.timer = page.timer /\ page'.playing = page.playing
        /\ page'.status = page.status
    BY <1>0, <2>1, <2>2 DEF Pages
  <2>4. fetches' \in Fetches
    BY <1>0, <2>1 DEF Fetches
  <2>5. drops' \in 0 .. MaxDrops
    BY <1>0, <2>1, Faults
  <2> QED BY <1>0, <2>1, <2>3, <2>4, <2>5, FetchStep
<1>3. CASE TwoSecondsPass
  <2>1. /\ UNCHANGED <<allowed, party, serving, net, calls, inbox, hook, ops>>
        /\ fetches' = fetches /\ drops' = drops /\ page' = [page EXCEPT !.recent = FALSE]
    BY <1>3 DEF TwoSecondsPass, UnchangedButPage
  <2>2. /\ page' \in Pages /\ page'.list = page.list
        /\ page'.timer = page.timer /\ page'.playing = page.playing
        /\ page'.status = page.status /\ ~page'.recent
    BY <1>0, <2>1 DEF Pages
  <2>3. fetches' \in Fetches
    BY <1>0, <2>1 DEF Fetches
  <2> QED BY <1>0, <2>1, <2>2, <2>3, FetchStep
<1>4. CASE Retry
  <2>1. /\ UNCHANGED <<allowed, party, serving, net, calls, inbox, hook, ops>>
        /\ StartFetch(FALSE) /\ drops' = drops
        /\ allowed = {} => ~Pending("playlist")
        /\ page' = [page EXCEPT !.loading = TRUE, !.error = FALSE, !.reachable = TRUE,
                                !.recent = TRUE]
    BY <1>4 DEF Retry, UnchangedButPage
  <2>2. /\ page' \in Pages /\ page'.list = page.list
        /\ page'.timer = page.timer /\ page'.playing = page.playing
        /\ page'.status = page.status
    BY <1>0, <2>1 DEF Pages
  <2>3. fetches' \in Fetches /\ \E i \in 1 .. 2 : fetches'[i] # None
    BY <1>0, <2>1, Starts
  <2> QED BY <1>0, <2>1, <2>2, <2>3, FetchStep
<1> QED BY <1>1, <1>2, <1>3, <1>4, TimerFiresStep
-----------------------------------------------------------------------------
(* The party changes and its group hears of it.                            *)

LEMMA PartyChangeStep ==
  ASSUME ViewerInv,
         Organize \/ OrganizerJoins \/ OrganizerLeaves \/ GraceEnds \/ Complete \/ SavePlaylist
  PROVE  ViewerInv'
<1>1. TypesFit
  BY DEF ViewerInv
<1>2. PICK ms \in Seq(Message) : Become(party', ms) /\ Hears(party', ms)
  BY <1>1, PartyStep
<1>3. ops' \in 0 .. MaxOps /\ ops <= ops' /\ party'.list <= ops'
  BY <1>1, PartyStep
<1>4. /\ UNCHANGED <<allowed, serving, net, calls, hook, page, fetches, drops>>
      /\ inbox' = IF net.group THEN inbox \o ms ELSE inbox
      /\ serving # None /\ serving.call = "state" => "state" \in allowed
  BY <1>2 DEF Become
<1>5. /\ party' \in Parties /\ \A i \in DOMAIN ms : ms[i].kind \notin {"answer", "joined"}
      /\ HearsStatus(party', ms) /\ HearsList(party', ms)
      /\ OnAir' => HearsPlay(ms) /\ HearsTimers(ms)
  BY <1>2 DEF Hears, On, OnAir
<1> DEFINE all == inbox \o ms
<1>6. /\ inbox \in Seq(Message) /\ inbox' \in Seq(Message)
      /\ \A i \in DOMAIN inbox : i \in DOMAIN inbox' /\ inbox'[i] = inbox[i]
      /\ \A i \in DOMAIN inbox' : \/ i \in DOMAIN inbox /\ inbox'[i] = inbox[i]
                                  \/ net.group /\ \E j \in DOMAIN ms : inbox'[i] = ms[j]
      /\ net.group => \A j \in DOMAIN ms : \E i \in DOMAIN inbox' : inbox'[i] = ms[j]
  <2>1. inbox \in Seq(Message)
    BY <1>1 DEF TypesFit
  <2>2. CASE net.group
    <3>1. /\ all \in Seq(Message)
          /\ \A i \in DOMAIN inbox : i \in DOMAIN all /\ all[i] = inbox[i]
          /\ \A i \in DOMAIN all : i \in DOMAIN inbox \/ \E j \in DOMAIN ms : i = Len(inbox) + j
          /\ \A j \in DOMAIN ms : Len(inbox) + j \in DOMAIN all /\ all[Len(inbox) + j] = ms[j]
      BY <2>1, Joint
    <3>2. inbox' = all
      BY <1>4, <2>2
    <3> HIDE DEF all
    <3> QED BY <2>1, <2>2, <3>1, <3>2
  <2>3. CASE ~net.group
    BY <1>4, <2>1, <2>3
  <2> QED BY <2>2, <2>3
<1>7. TypesFit'
  <2>1. \A i \in DOMAIN inbox' : inbox'[i].kind = "answer" => inbox'[i].state.list <= ops'
    <3> SUFFICES ASSUME NEW i \in DOMAIN inbox', inbox'[i].kind = "answer"
                 PROVE  inbox'[i].state.list <= ops'
      OBVIOUS
    <3>1. i \in DOMAIN inbox /\ inbox'[i] = inbox[i]
      BY <1>5, <1>6
    <3>2. inbox[i] \in Message
      BY <1>6, <3>1
    <3>3. inbox[i].state.list <= ops /\ inbox[i].state.list \in Nat
      BY <1>1, <3>1, <3>2, Messages DEF TypesFit, State
    <3> QED BY <1>1, <1>3, <3>1, <3>3 DEF TypesFit
  <2>2. page.list # None => page.list <= ops'
    BY <1>1, <1>3 DEF TypesFit, Pages
  <2>3. serving # None => serving.read.list <= ops'
    <3>1. serving # None => serving.read.list \in Nat
      BY <1>1 DEF TypesFit, Service, State
    <3> QED BY <1>1, <1>3, <3>1 DEF TypesFit
  <2> QED BY <1>1, <1>3, <1>4, <1>5, <1>6, <2>1, <2>2, <2>3 DEF TypesFit
<1>8. /\ IsJoin' <=> IsJoin
      /\ Asked' <=> Asked
      /\ Joining' <=> Joining
      /\ JoinedPending' <=> JoinedPending
      /\ Reached' <=> Reached
      /\ Up' <=> Up
      /\ Reading' <=> Reading
  <2>1. JoinedPending' <=> JoinedPending
    BY <1>5, <1>6 DEF JoinedPending
  <2> QED BY <1>4, <2>1 DEF IsJoin, Asked, Joining, Reached, Without, Up, Reading
<1>9. ConnectionFits'
  <2>1. LinkFits'
    BY <1>4 DEF ViewerInv, ConnectionFits, LinkFits
  <2>2. OneJoin'
    <3>1. \A i, j \in DOMAIN inbox' :
            inbox'[i].kind = "joined" /\ inbox'[j].kind = "joined" => i = j
      BY <1>5, <1>6 DEF ViewerInv, ConnectionFits, OneJoin
    <3> QED BY <1>4, <1>8, <3>1 DEF ViewerInv, ConnectionFits, OneJoin
  <2>3. GroupFits'
    BY <1>4, <1>8 DEF ViewerInv, ConnectionFits, GroupFits
  <2> QED BY <1>4, <2>1, <2>2, <2>3 DEF ViewerInv, ConnectionFits, Without
<1>10. WillAsk => WillAsk'
  <2>1. (\E i \in DOMAIN inbox : Asks(inbox[i])) => \E i \in DOMAIN inbox' : Asks(inbox'[i])
    BY <1>6
  <2> QED BY <1>4, <1>8, <2>1 DEF WillAsk, Asks
<1>11. GroupComes'
  BY <1>4, <1>8, <1>10 DEF ViewerInv, GroupComes
<1>12. ReadIsTrue'
  BY <1>4 DEF ReadIsTrue, Without
<1>13. net.group /\ (\E i \in DOMAIN ms : Asks(ms[i])) => WillAsk'
  BY <1>4, <1>6 DEF WillAsk, Asks
<1>14. net.group => inbox' = inbox \o ms
  BY <1>4
<1>15. ASSUME net.group, NEW bears, NEW good
       PROVE  /\ NoneIn(ms, bears) /\ LastIn(inbox, bears, good) => LastIn(inbox', bears, good)
              /\ NoneIn(inbox', bears) <=> NoneIn(inbox, bears) /\ NoneIn(ms, bears)
              /\ LastIn(ms, bears, good) /\ ~NoneIn(ms, bears) => LastIn(inbox', bears, good)
  <2>1. /\ NoneIn(ms, bears) /\ LastIn(inbox, bears, good) => LastIn(all, bears, good)
        /\ NoneIn(all, bears) <=> NoneIn(inbox, bears) /\ NoneIn(ms, bears)
        /\ LastIn(ms, bears, good) /\ ~NoneIn(ms, bears) => LastIn(all, bears, good)
    <3>1. inbox \in Seq(Message) /\ ms \in Seq(Message)
      BY <1>6
    <3> QED BY <3>1, Came
  <2>2. all = inbox'
    BY <1>14, <1>15
  <2> HIDE DEF all
  <2> QED BY <2>1, <2>2
<1>16. ~net.group /\ Up => WillAsk
  BY DEF ViewerInv, GroupComes
<1>17. StatusComes'
  <2> SUFFICES ASSUME Up, Without({"state"}), net.group, ~WillAsk, ~WillAsk'
               PROVE  StatusTold'
    BY <1>4, <1>8, <1>10, <1>16 DEF StatusComes, Without
  <2>1. StatusTold
    BY <1>4 DEF ViewerInv, StatusComes, Reading, Without
  <2>2. CASE ~NoneIn(ms, StatusBears) /\ LastIn(ms, StatusBears, StatusGood(party'))
    <3>1. /\ LastIn(inbox', StatusBears, StatusGood(party'))
          /\ ~NoneIn(inbox', StatusBears)
      BY <1>15, <2>2
    <3> QED BY <3>1 DEF StatusTold, LastIn, NoneIn, StatusGood, StatusOf
  <2>3. CASE NoneIn(ms, StatusBears) /\ StatusOf(party') = StatusOf(party)
    <3>1. StatusGood(party') = StatusGood(party)
      BY <2>3 DEF StatusGood
    <3>2. /\ LastIn(inbox', StatusBears, StatusGood(party'))
          /\ NoneIn(inbox', StatusBears) => NoneIn(inbox, StatusBears)
      BY <1>15, <2>1, <2>3, <3>1 DEF StatusTold
    <3>3. NoneIn(inbox', StatusBears) => page'.status = StatusOf(party')
      BY <1>4, <2>1, <2>3, <3>2 DEF StatusTold
    <3> QED BY <3>2, <3>3 DEF StatusTold, LastIn, NoneIn, StatusGood, StatusOf
  <2> QED BY <1>5, <1>13, <2>2, <2>3 DEF HearsStatus
<1>18. ListComes'
  <2> SUFFICES ASSUME Up, allowed = {}, net.group, ~WillAsk, ~WillAsk'
               PROVE  ListTold'
    <3>1. net.link = "up" /\ allowed = {} => Up
      BY DEF Up, Reached, Without
    <3> QED BY <1>4, <1>8, <1>10, <1>16, <3>1 DEF ListComes
  <2>1. ListTold
    BY <1>4 DEF ViewerInv, ListComes, Reading, Up
  <2>2. CASE party'.list = party.list /\ \A i \in DOMAIN ms : ms[i].kind # "playlist"
    <3>1. NoneIn(ms, ListBears) /\ ListGood(party') = ListGood(party)
      BY <1>5, <2>2 DEF NoneIn, ListBears, ListGood
    <3>2. /\ LastIn(inbox', ListBears, ListGood(party'))
          /\ NoneIn(inbox', ListBears) => NoneIn(inbox, ListBears)
      BY <1>15, <2>1, <3>1 DEF ListTold
    <3>3. NoneIn(inbox', ListBears) =>
            page'.list = party'.list \/ \E i \in 1 .. 2 : fetches'[i] # None
      BY <1>4, <2>1, <2>2, <3>2 DEF ListTold
    <3> QED BY <3>2, <3>3 DEF ListTold, LastIn, NoneIn, ListGood
  <2>3. CASE ms = <<Msg("playlist")>>
    <3>1. /\ Msg("playlist") \in Message /\ Msg("playlist") \in ListBears
          /\ Msg("playlist") \in ListGood(party')
      BY Messages DEF Kinds, ListBears, ListGood
    <3>2. ~NoneIn(ms, ListBears) /\ LastIn(ms, ListBears, ListGood(party'))
      BY <2>3, <3>1, One
    <3>3. LastIn(inbox', ListBears, ListGood(party')) /\ ~NoneIn(inbox', ListBears)
      BY <1>15, <3>2
    <3> QED BY <3>3 DEF ListTold, LastIn, NoneIn, ListGood
  <2> QED BY <1>5, <2>2, <2>3 DEF HearsList
<1>19. PlayComes'
  <2> SUFFICES ASSUME Up, OnAir', net.group, ~WillAsk, ~WillAsk',
                      ~(Reading /\ serving.read.playing)
               PROVE  PlayTold'
    BY <1>4, <1>8, <1>10, <1>16 DEF PlayComes
  <2>1. CASE ~NoneIn(ms, PlayBears) /\ LastIn(ms, PlayBears, PlayGood)
    <3>1. LastIn(inbox', PlayBears, PlayGood) /\ ~NoneIn(inbox', PlayBears)
      BY <1>15, <2>1
    <3> QED BY <3>1 DEF PlayTold, LastIn, NoneIn
  <2>2. CASE NoneIn(ms, PlayBears) /\ OnAir
    <3>1. PlayTold
      BY <2>2 DEF ViewerInv, PlayComes
    <3>2. /\ LastIn(inbox', PlayBears, PlayGood)
          /\ NoneIn(inbox', PlayBears) => NoneIn(inbox, PlayBears)
      BY <1>15, <2>2, <3>1 DEF PlayTold
    <3> QED BY <1>4, <3>1, <3>2 DEF PlayTold, LastIn, NoneIn
  <2> QED BY <1>5, <1>13, <2>1, <2>2 DEF HearsPlay
<1>20. TimersFit'
  <2>1. ASSUME Up, OnAir', net.group PROVE TimersTold'
    <3>1. CASE ~NoneIn(ms, TimerBears) /\ LastIn(ms, TimerBears, TimerGood)
      <4>1. LastIn(inbox', TimerBears, TimerGood) /\ ~NoneIn(inbox', TimerBears)
        BY <1>15, <2>1, <3>1
      <4> QED BY <4>1 DEF TimersTold, LastIn, NoneIn
    <3>2. CASE NoneIn(ms, TimerBears) /\ OnAir
      <4>1. TimersTold
        BY <2>1, <3>2 DEF ViewerInv, TimersFit
      <4>2. /\ LastIn(inbox', TimerBears, TimerGood)
            /\ NoneIn(inbox', TimerBears) => NoneIn(inbox, TimerBears)
        BY <1>15, <2>1, <3>2, <4>1 DEF TimersTold
      <4> QED BY <1>4, <4>1, <4>2 DEF TimersTold, LastIn, NoneIn
    <3> QED BY <1>5, <2>1, <3>1, <3>2 DEF HearsTimers
  <2> QED BY <1>4, <1>8, <2>1 DEF ViewerInv, TimersFit
<1>21. FetchFollows'
  <2> SUFFICES ASSUME allowed = {}
               PROVE  /\ Pending("playlist")' => ~page.recent
                      /\ \A i, j \in DOMAIN inbox' :
                           inbox'[i].kind = "playlist" /\ inbox'[j].kind = "playlist" => i = j
    BY <1>4 DEF FetchFollows
  <2>1. /\ Pending("playlist") => ~page.recent
        /\ \A i, j \in DOMAIN inbox :
             inbox[i].kind = "playlist" /\ inbox[j].kind = "playlist" => i = j
    BY DEF ViewerInv, FetchFollows
  <2>2. CASE ~net.group \/ \A i \in DOMAIN ms : ms[i].kind # "playlist"
    BY <1>6, <2>1, <2>2 DEF Pending
  <2>3. CASE net.group /\ ms = <<Msg("playlist")>> /\ ~page.recent /\ ~Pending("playlist")
    <3>1. /\ DOMAIN ms = 1 .. 1
          /\ \A i \in DOMAIN all : i \in DOMAIN inbox \/ \E j \in DOMAIN ms : i = Len(inbox) + j
          /\ \A i \in DOMAIN inbox : all[i] = inbox[i]
          /\ Len(inbox) \in Nat
      BY <1>6, <2>3, One, Joint
    <3>2. inbox' = all
      BY <1>4, <2>3
    <3> HIDE DEF all
    <3>3. \A i \in DOMAIN inbox' : inbox'[i].kind = "playlist" => i = Len(inbox) + 1
      BY <2>3, <3>1, <3>2 DEF Pending
    <3> QED BY <2>3, <3>3
  <2> QED BY <1>5, <2>2, <2>3 DEF HearsList
<1> QED BY <1>7, <1>9, <1>11, <1>12, <1>17, <1>18, <1>19, <1>20, <1>21 DEF ViewerInv
-----------------------------------------------------------------------------
(* The server takes a call and answers it.                                 *)

LEMMA ReadStep == ASSUME ViewerInv, Read PROVE ViewerInv'
<1>1. TypesFit /\ calls \in Seq(Calls) /\ inbox \in Seq(Message) /\ StateOf(party) \in State
  BY Statuses DEF ViewerInv, TypesFit
<1>2. /\ UNCHANGED <<allowed, party, net, inbox, hook, page, fetches, ops, drops>>
      /\ serving = None /\ calls # <<>> /\ calls' = Tail(calls)
      /\ serving' = [call |-> Head(calls), read |-> StateOf(party), session |-> party.session]
  BY DEF Read
<1>3. /\ Head(calls) \in Calls /\ calls' \in Seq(Calls) /\ 1 \in DOMAIN calls
      /\ calls[1] = Head(calls)
      /\ \A i \in DOMAIN calls' : /\ i \in Nat /\ 1 <= i
                                  /\ i + 1 \in DOMAIN calls /\ calls'[i] = calls[i + 1]
      /\ \A i \in DOMAIN calls : i \in Nat /\ (i = 1 \/ i - 1 \in DOMAIN calls')
  BY <1>1, <1>2, Rear
<1>4. /\ serving' \in Service /\ serving' # None
      /\ serving'.call = Head(calls) /\ serving'.read = StateOf(party)
      /\ serving'.read.list <= ops /\ (serving'.read.playing <=> party.session # NoSession)
  <2>1. /\ party.session \in Session \cup {NoSession} /\ party.list <= ops
        /\ StateOf(party).list = party.list
        /\ StateOf(party).playing = (party.session # NoSession)
    BY <1>1, StatusFacts DEF TypesFit, Parties
  <2>2. serving' \in Service
    BY <1>1, <1>2, <1>3, <2>1 DEF Service, Calls
  <2> QED BY <1>2, <2>1, <2>2, ViewerAssumption
<1>5. TypesFit'
  BY <1>1, <1>2, <1>3, <1>4 DEF TypesFit
<1>6. /\ IsJoin' <=> Head(calls) # "state"
      /\ ~IsJoin
      /\ Joining' <=> Joining
      /\ JoinedPending' <=> JoinedPending
      /\ Reached' <=> Reached
      /\ Up' <=> Up
      /\ OnAir' <=> OnAir
  <2>1. /\ IsJoin' <=> Head(calls) # "state"
        /\ ~IsJoin
    BY <1>2, <1>4 DEF IsJoin
  <2>2. ASSUME Joining PROVE Joining'
    <3>1. PICK i \in DOMAIN calls : calls[i] # "state"
      BY <2>1, <2>2 DEF Joining
    <3>2. CASE i = 1
      BY <1>3, <2>1, <3>1, <3>2 DEF Joining
    <3>3. CASE i # 1
      <4>1. i - 1 \in DOMAIN calls' /\ (i - 1) + 1 = i
        BY <1>3, <3>3
      <4>2. calls'[i - 1] = calls[i]
        BY <1>3, <4>1
      <4> QED BY <3>1, <4>1, <4>2 DEF Joining
    <3> QED BY <3>2, <3>3
  <2>3. Joining' => Joining
    BY <1>3, <2>1 DEF Joining
  <2> QED BY <1>2, <2>1, <2>2, <2>3 DEF JoinedPending, Reached, Without, Up, OnAir, StatusOf
<1>7. ConnectionFits'
  <2>0. LinkFits /\ OneJoin /\ GroupFits
    BY DEF ViewerInv, ConnectionFits
  <2>1. net.link = "up"
    BY <1>2, <2>0 DEF LinkFits
  <2>2. LinkFits'
    BY <1>2, <2>0, <2>1 DEF LinkFits
  <2>3. OneJoin'
    <3>1. \A i, j \in DOMAIN calls' : calls'[i] = "join" /\ calls'[j] = "join" => i = j
      <4> SUFFICES ASSUME NEW i \in DOMAIN calls', NEW j \in DOMAIN calls',
                          calls'[i] = "join", calls'[j] = "join"
                   PROVE  i = j
        OBVIOUS
      <4>1. i + 1 = j + 1 /\ i \in Nat /\ j \in Nat
        BY <1>3, <2>0 DEF OneJoin
      <4> QED BY <4>1
    <3>2. \A i \in DOMAIN calls' : calls'[i] # "rejoin"
      <4> SUFFICES ASSUME NEW i \in DOMAIN calls', calls'[i] = "rejoin" PROVE FALSE
        OBVIOUS
      <4>1. i + 1 = 1 /\ i \in Nat /\ 1 <= i
        BY <1>3, <2>0 DEF OneJoin
      <4> QED BY <4>1
    <3>3. \A i \in DOMAIN calls' : calls'[i] = "join" =>
            hook'.stage = "join" /\ ~JoinedPending' /\ serving'.call # "join"
      <4> SUFFICES ASSUME NEW i \in DOMAIN calls', calls'[i] = "join"
                   PROVE  hook'.stage = "join" /\ ~JoinedPending' /\ serving'.call # "join"
        OBVIOUS
      <4>1. i + 1 \in DOMAIN calls /\ calls[i + 1] = "join" /\ i + 1 # 1
        BY <1>3
      <4>2. calls[1] # "join"
        BY <1>3, <2>0, <4>1 DEF OneJoin
      <4> QED BY <1>2, <1>3, <1>4, <1>6, <2>0, <4>1, <4>2 DEF OneJoin
    <3>4. serving'.call = "join" => hook'.stage = "join" /\ ~JoinedPending'
      BY <1>2, <1>3, <1>4, <1>6, <2>0 DEF OneJoin
    <3>5. serving'.call = "rejoin" => ~net'.group
      BY <1>2, <1>3, <1>4, <2>0 DEF OneJoin
    <3>6. /\ \A i, j \in DOMAIN inbox' :
               inbox'[i].kind = "joined" /\ inbox'[j].kind = "joined" => i = j
          /\ JoinedPending' => hook'.stage = "join"
      BY <1>2, <1>6, <2>0 DEF OneJoin
    <3> QED BY <3>1, <3>2, <3>3, <3>4, <3>5, <3>6 DEF OneJoin
  <2>4. GroupFits'
    BY <1>2, <1>6, <2>0 DEF GroupFits
  <2> QED BY <1>2, <2>2, <2>3, <2>4 DEF ViewerInv, ConnectionFits, Without
<1>8. WillAsk => WillAsk' \/ (Reading' /\ net.group)
  <2>1. CASE hook.status # "connected"
    BY <1>2, <2>1 DEF WillAsk
  <2>2. CASE ~net.group /\ \E i, j \in DOMAIN calls : i < j /\ calls[i] # "state" /\ calls[j] = "state"
    <3>1. PICK i \in DOMAIN calls, j \in DOMAIN calls :
            i < j /\ calls[i] # "state" /\ calls[j] = "state"
      BY <2>2
    <3>2. /\ i \in Nat /\ j \in Nat /\ 1 <= i
          /\ j - 1 \in DOMAIN calls' /\ calls'[j - 1] = calls[j]
      <4>1. i \in Nat /\ j \in Nat /\ 1 <= i /\ j # 1
        BY <1>1, <3>1
      <4>2. j - 1 \in DOMAIN calls' /\ (j - 1) + 1 = j
        BY <1>3, <4>1
      <4> QED BY <1>3, <4>1, <4>2
    <3>3. CASE i = 1
      BY <1>2, <1>3, <1>6, <2>2, <3>1, <3>2, <3>3 DEF WillAsk, Asked
    <3>4. CASE i # 1
      <4>1. i - 1 \in DOMAIN calls' /\ (i - 1) + 1 = i
        BY <1>3, <3>4
      <4>2. calls'[i - 1] = calls[i] /\ i - 1 < j - 1
        BY <1>3, <3>1, <3>2, <4>1
      <4> QED BY <1>2, <2>2, <3>1, <3>2, <4>1, <4>2 DEF WillAsk
    <3> QED BY <3>3, <3>4
  <2>3. CASE net.group /\ Asked
    <3>1. PICK j \in DOMAIN calls : calls[j] = "state"
      BY <2>3 DEF Asked
    <3>2. CASE j = 1
      BY <1>2, <1>3, <1>4, <2>3, <3>1, <3>2 DEF Reading
    <3>3. CASE j # 1
      <4>1. j - 1 \in DOMAIN calls' /\ (j - 1) + 1 = j
        BY <1>3, <3>3
      <4>2. calls'[j - 1] = calls[j]
        BY <1>3, <4>1
      <4> QED BY <1>2, <2>3, <3>1, <4>1, <4>2 DEF WillAsk, Asked
    <3> QED BY <3>2, <3>3
  <2>4. CASE net.group /\ \E i \in DOMAIN inbox : Asks(inbox[i])
    BY <1>2, <2>4 DEF WillAsk, Asks
  <2> QED BY <1>6, <2>1, <2>2, <2>3, <2>4 DEF WillAsk
<1>9. ~Reading
  BY <1>2 DEF Reading
<1>10. /\ StatusTold' <=> StatusTold
       /\ ListTold' <=> ListTold
       /\ PlayTold' <=> PlayTold
       /\ TimersTold' <=> TimersTold
  BY <1>2 DEF StatusTold, ListTold, PlayTold, TimersTold, LastIn, NoneIn, StatusGood, ListGood,
     StatusOf
<1>11. ReadIsTrue'
  BY <1>2, <1>4 DEF ReadIsTrue, StateOf, StatusOf
<1>12. FetchFollows'
  BY <1>2 DEF ViewerInv, FetchFollows, Pending
<1>13. GroupComes'
  BY <1>2, <1>6, <1>8 DEF ViewerInv, GroupComes
<1>14. StatusComes'
  BY <1>2, <1>6, <1>8, <1>9, <1>10 DEF ViewerInv, StatusComes, Without
<1>15. ListComes'
  BY <1>2, <1>8, <1>9, <1>10 DEF ViewerInv, ListComes
<1>16. PlayComes'
  <2>1. OnAir => party.session # NoSession
    BY <1>1, StatusFacts DEF OnAir, TypesFit, HasEffectiveActiveSession
  <2> QED BY <1>2, <1>4, <1>6, <1>8, <1>9, <1>10, <2>1 DEF ViewerInv, PlayComes
<1>17. TimersFit'
  BY <1>2, <1>6, <1>10 DEF ViewerInv, TimersFit
<1> QED BY <1>5, <1>7, <1>11, <1>12, <1>13, <1>14, <1>15, <1>16, <1>17 DEF ViewerInv

(* One message more.                                                       *)
LEMMA OneMore ==
  ASSUME NEW S, NEW q \in Seq(S), NEW x \in S
  PROVE  /\ q \o <<x>> \in Seq(S) /\ Append(q, x) = q \o <<x>> /\ Len(q) \in Nat
         /\ \A i \in DOMAIN q : /\ i \in Nat /\ i <= Len(q)
                                /\ i \in DOMAIN (q \o <<x>>) /\ (q \o <<x>>)[i] = q[i]
         /\ Len(q) + 1 \in DOMAIN (q \o <<x>>) /\ (q \o <<x>>)[Len(q) + 1] = x
         /\ \A i \in DOMAIN (q \o <<x>>) : i \in DOMAIN q \/ i = Len(q) + 1
         /\ \A bears, good :
              /\ NoneIn(q \o <<x>>, bears) <=> NoneIn(q, bears) /\ x \notin bears
              /\ x \notin bears /\ LastIn(q, bears, good) => LastIn(q \o <<x>>, bears, good)
              /\ x \in bears /\ x \in good => LastIn(q \o <<x>>, bears, good)
<1>1. <<x>> \in Seq(S) /\ DOMAIN <<x>> = 1 .. 1 /\ <<x>>[1] = x
  OBVIOUS
<1> DEFINE v == q \o <<x>>
<1>2. /\ v \in Seq(S) /\ Len(q) \in Nat
      /\ \A i \in DOMAIN q : i \in Nat /\ i <= Len(q) /\ i \in DOMAIN v /\ v[i] = q[i]
      /\ \A j \in DOMAIN <<x>> : Len(q) + j \in DOMAIN v /\ v[Len(q) + j] = <<x>>[j]
      /\ \A i \in DOMAIN v : i \in DOMAIN q \/ \E j \in DOMAIN <<x>> : i = Len(q) + j
  BY <1>1, Joint
<1>3. Append(q, x) = v
  OBVIOUS
<1>4. ASSUME NEW bears, NEW good
      PROVE  /\ NoneIn(v, bears) <=> NoneIn(q, bears) /\ x \notin bears
             /\ x \notin bears /\ LastIn(q, bears, good) => LastIn(v, bears, good)
             /\ x \in bears /\ x \in good => LastIn(v, bears, good)
  <2>1. /\ NoneIn(<<x>>, bears) <=> x \notin bears
        /\ x \in good => LastIn(<<x>>, bears, good)
    BY One
  <2>2. /\ NoneIn(<<x>>, bears) /\ LastIn(q, bears, good) => LastIn(v, bears, good)
        /\ NoneIn(v, bears) <=> NoneIn(q, bears) /\ NoneIn(<<x>>, bears)
        /\ LastIn(<<x>>, bears, good) /\ ~NoneIn(<<x>>, bears) => LastIn(v, bears, good)
    BY <1>1, Came
  <2> HIDE DEF v
  <2> QED BY <2>1, <2>2
<1> HIDE DEF v
<1>5. /\ Len(q) + 1 \in DOMAIN v /\ v[Len(q) + 1] = x
      /\ \A i \in DOMAIN v : i \in DOMAIN q \/ i = Len(q) + 1
  BY <1>1, <1>2
<1> QED BY <1>2, <1>3, <1>4, <1>5 DEF v

(* The state that was read says what is true, unless it changed since.     *)
LEMMA AnswerStateStep == ASSUME ViewerInv, AnswerState PROVE ViewerInv'
<1> DEFINE x == Answer(serving.read)
<1>1. TypesFit /\ inbox \in Seq(Message)
  BY DEF ViewerInv, TypesFit
<1>2. /\ serving # None /\ serving.call = "state" /\ serving' = None
      /\ inbox' = Append(inbox, x)
      /\ UNCHANGED <<allowed, party, net, calls, hook, page, fetches, ops, drops>>
  BY DEF AnswerState, IsJoin, Answer
<1>3. /\ x \in Message /\ x.kind = "answer" /\ x.state = serving.read
      /\ serving.read.list <= ops
  <2>1. serving.read \in State
    BY <1>1, <1>2 DEF TypesFit, Service
  <2> QED BY <1>1, <1>2, <2>1, Messages DEF TypesFit
<1> HIDE DEF x
<1>4. /\ inbox' \in Seq(Message) /\ Len(inbox) \in Nat
      /\ \A i \in DOMAIN inbox : i \in DOMAIN inbox' /\ inbox'[i] = inbox[i]
      /\ \A i \in DOMAIN inbox' : i \in DOMAIN inbox \/ inbox'[i] = x
      /\ \A bears, good :
              /\ NoneIn(inbox', bears) <=> NoneIn(inbox, bears) /\ x \notin bears
              /\ x \notin bears /\ LastIn(inbox, bears, good) => LastIn(inbox', bears, good)
              /\ x \in bears /\ x \in good => LastIn(inbox', bears, good)
  <2> DEFINE v == inbox \o <<x>>
  <2>1. /\ v \in Seq(Message) /\ Append(inbox, x) = v /\ Len(inbox) \in Nat
        /\ \A i \in DOMAIN inbox : i \in DOMAIN v /\ v[i] = inbox[i]
        /\ v[Len(inbox) + 1] = x
        /\ \A i \in DOMAIN v : i \in DOMAIN inbox \/ i = Len(inbox) + 1
        /\ \A bears, good :
              /\ NoneIn(v, bears) <=> NoneIn(inbox, bears) /\ x \notin bears
              /\ x \notin bears /\ LastIn(inbox, bears, good) => LastIn(v, bears, good)
              /\ x \in bears /\ x \in good => LastIn(v, bears, good)
    BY <1>1, <1>3, OneMore
  <2> HIDE DEF v
  <2>2. inbox' = v
    BY <1>2, <2>1
  <2> QED BY <2>1, <2>2
<1>5. TypesFit'
  BY <1>1, <1>2, <1>3, <1>4 DEF TypesFit
<1>6. /\ ~IsJoin /\ ~IsJoin' /\ ~Reading'
      /\ Asked' <=> Asked
      /\ Joining' <=> Joining
      /\ JoinedPending' <=> JoinedPending
      /\ Reached' <=> Reached
      /\ Up' <=> Up
      /\ OnAir' <=> OnAir
      /\ Reading <=> net.group
  <2>1. JoinedPending' <=> JoinedPending
    BY <1>3, <1>4 DEF JoinedPending
  <2> QED BY <1>2, <2>1
          DEF IsJoin, Asked, Joining, Reached, Without, Up, Reading, OnAir, StatusOf
<1>7. ConnectionFits'
  <2>0. LinkFits /\ OneJoin /\ GroupFits
    BY DEF ViewerInv, ConnectionFits
  <2>1. LinkFits'
    BY <1>2, <2>0 DEF LinkFits
  <2>2. OneJoin'
    <3>1. \A i, j \in DOMAIN inbox' :
            inbox'[i].kind = "joined" /\ inbox'[j].kind = "joined" => i = j
      BY <1>3, <1>4, <2>0 DEF OneJoin
    <3> QED BY <1>2, <1>6, <2>0, <3>1 DEF OneJoin
  <2>3. GroupFits'
    <3>1. Reached /\ ~net.group => \A i \in DOMAIN inbox' : inbox'[i].kind = "answer"
      BY <1>3, <1>4, <2>0 DEF GroupFits
    <3> QED BY <1>2, <1>6, <2>0, <3>1 DEF GroupFits
  <2> QED BY <1>2, <2>1, <2>2, <2>3 DEF ViewerInv, ConnectionFits, Without
<1>8. WillAsk => WillAsk'
  <2>1. (\E i \in DOMAIN inbox : Asks(inbox[i])) => \E i \in DOMAIN inbox' : Asks(inbox'[i])
    BY <1>4
  <2> QED BY <1>2, <1>6, <2>1 DEF WillAsk, Asks
<1>9. ReadIsTrue'
  BY <1>2 DEF ReadIsTrue
<1>10. FetchFollows'
  BY <1>2, <1>3, <1>4 DEF ViewerInv, FetchFollows, Pending
<1>11. GroupComes'
  BY <1>2, <1>6, <1>8 DEF ViewerInv, GroupComes
<1>12. Without({"state"}) => serving.read = StateOf(party)
  BY <1>2 DEF ViewerInv, ReadIsTrue
<1>13. /\ StateOf(party).status = StatusOf(party) /\ StateOf(party).list = party.list
  BY <1>1, StatusFacts DEF TypesFit
<1>14. Without({"state"}) => StatusTold'
  <2> SUFFICES ASSUME Without({"state"}) PROVE StatusTold'
    OBVIOUS
  <2>1. x \in StatusBears /\ x \in StatusGood(party)
    BY <1>3, <1>12, <1>13 DEF StatusBears, StatusGood, Given
  <2>2. LastIn(inbox', StatusBears, StatusGood(party)) /\ ~NoneIn(inbox', StatusBears)
    BY <1>4, <2>1
  <2> QED BY <1>2, <2>2 DEF StatusTold, LastIn, NoneIn, StatusGood, StatusOf
<1>15. Without({"state"}) => ListTold'
  <2> SUFFICES ASSUME Without({"state"}) PROVE ListTold'
    OBVIOUS
  <2>1. x \in ListBears /\ x \in ListGood(party)
    BY <1>3, <1>12, <1>13 DEF ListBears, ListGood
  <2>2. LastIn(inbox', ListBears, ListGood(party)) /\ ~NoneIn(inbox', ListBears)
    BY <1>4, <2>1
  <2> QED BY <1>2, <2>2 DEF ListTold, LastIn, NoneIn, ListGood
<1>16. StatusComes'
  BY <1>2, <1>6, <1>8, <1>14 DEF ViewerInv, StatusComes, Without
<1>17. ListComes'
  <2>1. allowed = {} => Without({"state"})
    BY DEF Without
  <2> QED BY <1>2, <1>6, <1>8, <1>15, <2>1 DEF ViewerInv, ListComes
<1>18. PlayComes'
  <2>1. ASSUME serving.read.playing \/ PlayTold PROVE PlayTold'
    <3>1. x \in PlayBears <=> serving.read.playing
      BY <1>3 DEF PlayBears
    <3>2. x \in PlayBears => x \in PlayGood
      BY <1>3 DEF PlayGood
    <3>3. /\ LastIn(inbox', PlayBears, PlayGood)
          /\ NoneIn(inbox', PlayBears) => NoneIn(inbox, PlayBears) /\ ~serving.read.playing
      BY <1>4, <2>1, <3>1, <3>2 DEF PlayTold
    <3> QED BY <1>2, <2>1, <3>3 DEF PlayTold, LastIn, NoneIn
  <2> QED BY <1>2, <1>6, <1>8, <2>1 DEF ViewerInv, PlayComes
<1>19. TimersFit'
  <2>1. ASSUME TimersTold PROVE TimersTold'
    <3>1. x \notin TimerBears
      BY <1>3 DEF TimerBears
    <3>2. /\ LastIn(inbox', TimerBears, TimerGood)
          /\ NoneIn(inbox', TimerBears) => NoneIn(inbox, TimerBears)
      BY <1>4, <2>1, <3>1 DEF TimersTold
    <3> QED BY <1>2, <2>1, <3>2 DEF TimersTold, LastIn, NoneIn
  <2> QED BY <1>2, <1>6, <2>1 DEF ViewerInv, TimersFit
<1> QED BY <1>5, <1>7, <1>9, <1>10, <1>11, <1>16, <1>17, <1>18, <1>19 DEF ViewerInv

(* A viewer whose join was refused is outside the group; the invariant     *)
(* claims nothing of its page.                                             *)
LEMMA RefuseJoinStep == ASSUME ViewerInv, RefuseJoin PROVE ViewerInv'
<1> DEFINE e == Msg("error")
           mid == inbox \o <<e>>
           all == mid \o <<Completion>>
<1>1. TypesFit /\ inbox \in Seq(Message)
  BY DEF ViewerInv, TypesFit
<1>2. /\ IsJoin /\ "refused" \in allowed /\ Fault /\ serving' = None
      /\ inbox' = inbox \o <<Msg("error"), Completion>>
      /\ UNCHANGED <<allowed, party, net, calls, hook, page, fetches, ops>>
  BY DEF RefuseJoin
<1>3. /\ e \in Message /\ e.kind = "error" /\ Completion \in Message
      /\ Completion.kind \in {"joined", "rejoined"}
      /\ Completion.kind = "joined" <=> serving.call = "join"
  BY Messages DEF Kinds, Completion
<1> HIDE DEF e
<1>4. /\ inbox' \in Seq(Message) /\ Len(inbox) \in Nat
      /\ \A i \in DOMAIN inbox : i \in DOMAIN inbox' /\ inbox'[i] = inbox[i]
      /\ \A i \in DOMAIN inbox' : \/ i \in DOMAIN inbox
                                  \/ inbox'[i].kind = "error"
                                  \/ i = Len(inbox) + 2 /\ inbox'[i] = Completion
  <2>1. /\ mid \in Seq(Message) /\ Len(mid) = Len(inbox) + 1 /\ Len(inbox) \in Nat
        /\ \A i \in DOMAIN inbox : i \in DOMAIN mid /\ mid[i] = inbox[i]
        /\ mid[Len(inbox) + 1] = e
        /\ \A i \in DOMAIN mid : i \in DOMAIN inbox \/ i = Len(inbox) + 1
    <3>1. Len(mid) = Len(inbox) + 1
      BY <1>1, <1>3
    <3> QED BY <1>1, <1>3, <3>1, OneMore
  <2> HIDE DEF mid
  <2>2. /\ all \in Seq(Message)
        /\ \A i \in DOMAIN mid : i \in DOMAIN all /\ all[i] = mid[i]
        /\ all[Len(mid) + 1] = Completion
        /\ \A i \in DOMAIN all : i \in DOMAIN mid \/ i = Len(mid) + 1
    BY <1>3, <2>1, OneMore
  <2>3. inbox' = all
    <3>1. \A c \in Message : inbox \o <<e, c>> = (inbox \o <<e>>) \o <<c>>
      BY <1>1, <1>3
    <3> QED BY <1>2, <1>3, <3>1 DEF all, mid, e
  <2> HIDE DEF all
  <2>4. ASSUME NEW i \in DOMAIN inbox'
        PROVE  \/ i \in DOMAIN inbox
               \/ inbox'[i].kind = "error"
               \/ i = Len(inbox) + 2 /\ inbox'[i] = Completion
    <3>1. CASE i = Len(mid) + 1
      BY <2>1, <2>2, <2>3, <3>1
    <3>2. CASE i = Len(inbox) + 1
      BY <1>3, <2>1, <2>2, <2>3, <3>2
    <3> QED BY <2>1, <2>2, <2>3, <3>1, <3>2
  <2> QED BY <2>1, <2>2, <2>3, <2>4
<1>5. TypesFit'
  <2>1. \A i \in DOMAIN inbox' : inbox'[i].kind = "answer" => inbox'[i].state.list <= ops
    BY <1>1, <1>3, <1>4 DEF TypesFit
  <2>2. drops' \in 0 .. MaxDrops
    BY <1>1, <1>2, Faults
  <2> QED BY <1>1, <1>2, <1>4, <2>1, <2>2 DEF TypesFit
<1>6. /\ serving # None /\ ~IsJoin'
      /\ Joining' => Joining
      /\ Joining
      /\ JoinedPending' <=> JoinedPending \/ serving.call = "join"
      /\ ~Reached'
  <2>1. JoinedPending' => JoinedPending \/ serving.call = "join"
    BY <1>3, <1>4 DEF JoinedPending
  <2>2. serving.call = "join" => JoinedPending'
    <3>1. /\ inbox' = inbox \o <<e, Completion>>
          /\ \A c \in Message : Len(inbox) + 2 \in DOMAIN (inbox \o <<e, c>>)
                                /\ (inbox \o <<e, c>>)[Len(inbox) + 2] = c
      BY <1>1, <1>2, <1>3 DEF e
    <3> QED BY <1>3, <3>1 DEF JoinedPending
  <2>3. JoinedPending => JoinedPending'
    BY <1>4 DEF JoinedPending
  <2> QED BY <1>2, <2>1, <2>2, <2>3 DEF IsJoin, Joining, Reached, Without
<1>7. ConnectionFits'
  <2>0. LinkFits /\ OneJoin /\ GroupFits
    BY DEF ViewerInv, ConnectionFits
  <2>1. LinkFits'
    BY <1>2, <1>6, <2>0 DEF LinkFits
  <2>2. OneJoin'
    <3>1. \A i, j \in DOMAIN inbox' :
            inbox'[i].kind = "joined" /\ inbox'[j].kind = "joined" => i = j
      <4> SUFFICES ASSUME NEW i \in DOMAIN inbox', NEW j \in DOMAIN inbox',
                          inbox'[i].kind = "joined", inbox'[j].kind = "joined"
                   PROVE  i = j
        OBVIOUS
      <4>1. CASE serving.call = "join"
        <5>1. ~JoinedPending
          BY <1>6, <2>0, <4>1 DEF OneJoin
        <5>2. i \notin DOMAIN inbox /\ j \notin DOMAIN inbox
          BY <1>4, <5>1 DEF JoinedPending
        <5> QED BY <1>4, <5>2
      <4>2. CASE serving.call # "join"
        <5>1. i \in DOMAIN inbox /\ j \in DOMAIN inbox
          BY <1>3, <1>4, <4>2
        <5> QED BY <1>4, <2>0, <5>1 DEF OneJoin
      <4> QED BY <4>1, <4>2
    <3>2. \A i \in DOMAIN calls' : calls'[i] = "join" =>
            hook'.stage = "join" /\ ~JoinedPending' /\ (serving' # None => serving'.call # "join")
      BY <1>2, <1>6, <2>0 DEF OneJoin
    <3>3. JoinedPending' => hook'.stage = "join"
      BY <1>2, <1>6, <2>0 DEF OneJoin
    <3>4. \A i \in DOMAIN calls' : calls'[i] # "rejoin"
      BY <1>2, <1>6, <2>0 DEF OneJoin
    <3> QED BY <1>2, <2>0, <3>1, <3>2, <3>3, <3>4 DEF OneJoin
  <2>3. GroupFits'
    BY <1>2, <1>6, <2>0 DEF GroupFits
  <2> QED BY <1>2, <2>1, <2>2, <2>3 DEF ViewerInv, ConnectionFits, Without
<1>8. ~Up' /\ allowed' # {}
  BY <1>2, <1>6 DEF Up
<1>9. ReadIsTrue'
  BY <1>2 DEF ReadIsTrue
<1> QED BY <1>5, <1>7, <1>8, <1>9
        DEF ViewerInv, FetchFollows, GroupComes, StatusComes, ListComes, PlayComes, TimersFit

(* In the group: what asks for the full state is already behind the join.  *)
LEMMA AnswerJoinStep == ASSUME ViewerInv, AnswerJoin PROVE ViewerInv'
<1> DEFINE f == IF serving.session = NoSession THEN <<>>
                ELSE <<FullState(serving.session.mode)>>
           mid == inbox \o f
           all == mid \o <<Completion>>
<1>1. TypesFit /\ inbox \in Seq(Message) /\ net \in Nets
  BY DEF ViewerInv, TypesFit
<1>2. /\ IsJoin /\ serving' = None /\ net' = [net EXCEPT !.group = TRUE]
      /\ inbox' = all
      /\ UNCHANGED <<allowed, party, calls, hook, page, fetches, ops, drops>>
  BY DEF AnswerJoin
<1>3. /\ Completion \in Message /\ Completion.kind \in {"joined", "rejoined"}
      /\ Completion.kind = "joined" <=> serving.call = "join"
  BY Messages DEF Kinds, Completion
<1>4. /\ f \in Seq(Message)
      /\ \A i \in DOMAIN f : f[i].kind \in {"session", "preparation"}
      /\ LastIn(f, TimerBears, TimerGood)
  <2>1. CASE serving.session = NoSession
    <3>1. f = <<>>
      BY <2>1
    <3> QED BY <3>1 DEF LastIn, NoneIn
  <2>2. CASE serving.session # NoSession
    <3> DEFINE k == IF serving.session.mode = "Session" THEN "session" ELSE "preparation"
    <3>1. f = OneFirst(k) /\ k \in {"session", "preparation"}
      BY <2>2 DEF FullState, OneFirst
    <3> HIDE DEF k, f
    <3>2. k \in Kinds
      BY <3>1 DEF Kinds
    <3>3. /\ OneFirst(k) \in Seq(Message) /\ DOMAIN OneFirst(k) = 1 .. 1
          /\ OneFirst(k)[1].kind = k /\ LastIn(OneFirst(k), TimerBears, TimerGood)
      BY <3>1, <3>2, FirstMessage
    <3> QED BY <3>1, <3>3
  <2> QED BY <2>1, <2>2
<1> HIDE DEF f
<1>5. /\ mid \in Seq(Message) /\ Len(mid) \in Nat
      /\ \A i \in DOMAIN inbox : i \in DOMAIN mid /\ mid[i] = inbox[i]
      /\ \A i \in DOMAIN mid : \/ i \in DOMAIN inbox
                               \/ mid[i].kind \in {"session", "preparation"}
      /\ LastIn(inbox, TimerBears, TimerGood) => LastIn(mid, TimerBears, TimerGood)
      /\ NoneIn(mid, TimerBears) => NoneIn(inbox, TimerBears)
  <2>1. /\ mid \in Seq(Message)
        /\ \A i \in DOMAIN inbox : i \in DOMAIN mid /\ mid[i] = inbox[i]
        /\ \A i \in DOMAIN mid : i \in DOMAIN inbox \/ \E j \in DOMAIN f : i = Len(inbox) + j
        /\ \A j \in DOMAIN f : mid[Len(inbox) + j] = f[j]
    BY <1>1, <1>4, Joint
  <2>2. /\ NoneIn(f, TimerBears) /\ LastIn(inbox, TimerBears, TimerGood) =>
             LastIn(mid, TimerBears, TimerGood)
        /\ NoneIn(mid, TimerBears) => NoneIn(inbox, TimerBears)
        /\ LastIn(f, TimerBears, TimerGood) /\ ~NoneIn(f, TimerBears) =>
             LastIn(mid, TimerBears, TimerGood)
    BY <1>1, <1>4, Came
  <2> HIDE DEF mid
  <2>3. Len(mid) \in Nat
    BY <2>1
  <2> QED BY <1>4, <2>1, <2>2, <2>3
<1> HIDE DEF mid
<1>6. /\ inbox' \in Seq(Message)
      /\ \A i \in DOMAIN inbox : i \in DOMAIN inbox' /\ inbox'[i] = inbox[i]
      /\ \A i \in DOMAIN inbox' : \/ i \in DOMAIN inbox
                                  \/ inbox'[i].kind \in {"session", "preparation"}
                                  \/ i = Len(mid) + 1 /\ inbox'[i] = Completion
      /\ Len(mid) + 1 \in DOMAIN inbox' /\ inbox'[Len(mid) + 1] = Completion
      /\ LastIn(inbox, TimerBears, TimerGood) => LastIn(inbox', TimerBears, TimerGood)
      /\ NoneIn(inbox', TimerBears) => NoneIn(inbox, TimerBears)
  <2>1. /\ all \in Seq(Message)
        /\ \A i \in DOMAIN mid : i \in DOMAIN all /\ all[i] = mid[i]
        /\ Len(mid) + 1 \in DOMAIN all /\ all[Len(mid) + 1] = Completion
        /\ \A i \in DOMAIN all : i \in DOMAIN mid \/ i = Len(mid) + 1
        /\ NoneIn(all, TimerBears) => NoneIn(mid, TimerBears)
        /\ Completion \notin TimerBears /\ LastIn(mid, TimerBears, TimerGood) =>
             LastIn(all, TimerBears, TimerGood)
    BY <1>3, <1>5, OneMore
  <2>2. Completion \notin TimerBears
    BY <1>3 DEF TimerBears
  <2> HIDE DEF all
  <2>3. \A i \in DOMAIN all : \/ i \in DOMAIN inbox
                              \/ all[i].kind \in {"session", "preparation"}
                              \/ i = Len(mid) + 1 /\ all[i] = Completion
    BY <1>5, <2>1
  <2> QED BY <1>2, <1>5, <2>1, <2>2, <2>3
<1> HIDE DEF all
<1>7. /\ net' \in Nets /\ net'.group /\ net'.link = net.link
      /\ net'.flag = net.flag /\ net'.code = net.code
  BY <1>1, <1>2 DEF Nets
<1>8. TypesFit'
  <2>1. \A i \in DOMAIN inbox' : inbox'[i].kind = "answer" => inbox'[i].state.list <= ops
    BY <1>1, <1>3, <1>6 DEF TypesFit
  <2> QED BY <1>1, <1>2, <1>6, <1>7, <2>1 DEF TypesFit
<1>9. /\ serving # None /\ ~IsJoin' /\ Joining
      /\ Asked' <=> Asked
      /\ JoinedPending' <=> JoinedPending \/ serving.call = "join"
      /\ Reached' <=> Reached
      /\ Up' <=> Up
      /\ OnAir' <=> OnAir
      /\ ~Reading
  <2>1. JoinedPending' => JoinedPending \/ serving.call = "join"
    BY <1>3, <1>6 DEF JoinedPending
  <2>2. JoinedPending \/ serving.call = "join" => JoinedPending'
    BY <1>3, <1>6 DEF JoinedPending
  <2> QED BY <1>2, <1>7, <2>1, <2>2
          DEF IsJoin, Joining, Asked, Reached, Without, Up, OnAir, StatusOf, Reading
<1>10. ConnectionFits'
  <2>0. LinkFits /\ OneJoin /\ GroupFits
    BY DEF ViewerInv, ConnectionFits
  <2>1. LinkFits'
    BY <1>2, <1>7, <1>9, <2>0 DEF LinkFits
  <2>2. OneJoin'
    <3>1. \A i, j \in DOMAIN inbox' :
            inbox'[i].kind = "joined" /\ inbox'[j].kind = "joined" => i = j
      <4> SUFFICES ASSUME NEW i \in DOMAIN inbox', NEW j \in DOMAIN inbox',
                          inbox'[i].kind = "joined", inbox'[j].kind = "joined"
                   PROVE  i = j
        OBVIOUS
      <4>1. CASE serving.call = "join"
        <5>1. ~JoinedPending
          BY <1>9, <2>0, <4>1 DEF OneJoin
        <5>2. i \notin DOMAIN inbox /\ j \notin DOMAIN inbox
          BY <1>6, <5>1 DEF JoinedPending
        <5> QED BY <1>6, <5>2
      <4>2. CASE serving.call # "join"
        <5>1. i \in DOMAIN inbox /\ j \in DOMAIN inbox
          BY <1>3, <1>6, <4>2
        <5> QED BY <1>6, <2>0, <5>1 DEF OneJoin
      <4> QED BY <4>1, <4>2
    <3>2. \A i \in DOMAIN calls' : calls'[i] = "join" =>
            hook'.stage = "join" /\ ~JoinedPending' /\ (serving' # None => serving'.call # "join")
      BY <1>2, <1>9, <2>0 DEF OneJoin
    <3>3. JoinedPending' => hook'.stage = "join"
      BY <1>2, <1>9, <2>0 DEF OneJoin
    <3>4. \A i \in DOMAIN calls' : calls'[i] # "rejoin"
      BY <1>2, <1>9, <2>0 DEF OneJoin
    <3> QED BY <1>2, <2>0, <3>1, <3>2, <3>3, <3>4 DEF OneJoin
  <2>3. GroupFits'
    BY <1>2, <1>7, <1>9, <2>0 DEF GroupFits
  <2> QED BY <1>2, <2>1, <2>2, <2>3 DEF ViewerInv, ConnectionFits, Without
<1>11. net.group /\ Up => hook.status # "connected"
  <2>1. net.group => serving.call = "join"
    BY <1>2, <1>9, <1>1 DEF ViewerInv, ConnectionFits, OneJoin, IsJoin, TypesFit, Service
  <2>2. serving.call = "join" => hook.stage = "join"
    BY <1>9 DEF ViewerInv, ConnectionFits, OneJoin
  <2> QED BY <2>1, <2>2 DEF ViewerInv, ConnectionFits, Up
<1>12. Up => WillAsk'
  <2>1. Up => WillAsk
    BY <1>11 DEF ViewerInv, GroupComes, WillAsk
  <2>2. (\E i \in DOMAIN inbox : Asks(inbox[i])) => \E i \in DOMAIN inbox' : Asks(inbox'[i])
    BY <1>6
  <2>3. (\E i, j \in DOMAIN calls : i < j /\ calls[i] # "state" /\ calls[j] = "state") => Asked
    BY DEF Asked
  <2> QED BY <1>2, <1>7, <1>9, <2>1, <2>2, <2>3 DEF WillAsk, Asks
<1>13. net.link = "up" /\ allowed = {} => Up
  BY DEF Up, Reached, Without
<1>14. GroupComes' /\ StatusComes' /\ ListComes' /\ PlayComes'
  BY <1>2, <1>7, <1>9, <1>12, <1>13 DEF GroupComes, StatusComes, ListComes, PlayComes
<1>15. ReadIsTrue'
  BY <1>2 DEF ReadIsTrue
<1>16. FetchFollows'
  <2>1. \A i \in DOMAIN inbox' : inbox'[i].kind = "playlist" => i \in DOMAIN inbox
    BY <1>3, <1>6
  <2> QED BY <1>2, <1>6, <2>1 DEF ViewerInv, FetchFollows, Pending
<1>17. TimersFit'
  <2> SUFFICES ASSUME Up, OnAir PROVE TimersTold'
    BY <1>7, <1>9 DEF TimersFit
  <2>1. CASE net.group
    BY <1>2, <1>6, <1>11, <2>1 DEF ViewerInv, TimersFit, TimersTold, LastIn, NoneIn
  <2>2. CASE ~net.group
    <3>1. NoneIn(inbox, TimerBears)
      BY <2>2 DEF ViewerInv, ConnectionFits, GroupFits, Up, NoneIn, TimerBears
    <3>2. LastIn(inbox', TimerBears, TimerGood)
      BY <1>6, <3>1 DEF LastIn
    <3>3. page.timer = "none" \/ hook.status # "connected"
      BY <2>2 DEF ViewerInv, TimersFit
    <3> QED BY <1>2, <3>2, <3>3 DEF TimersTold, LastIn, NoneIn
  <2> QED BY <2>1, <2>2
<1> QED BY <1>8, <1>10, <1>14, <1>15, <1>16, <1>17 DEF ViewerInv
-----------------------------------------------------------------------------
(* The page receives a message.                                            *)

(* Asking for the full state puts the call behind all others.              *)
LEMMA Asking ==
  ASSUME calls \in Seq(Calls), NEW asks \in BOOLEAN, calls' = CallsAsking(asks)
  PROVE  /\ calls' \in Seq(Calls)
         /\ \A i \in DOMAIN calls : i \in Nat /\ i \in DOMAIN calls' /\ calls'[i] = calls[i]
         /\ \A i \in DOMAIN calls' : i \in Nat /\ (i \in DOMAIN calls \/ calls'[i] = "state")
         /\ asks /\ net.link = "up" =>
              \E j \in DOMAIN calls' : /\ calls'[j] = "state"
                                       /\ \A i \in DOMAIN calls' : i < j \/ i = j
         /\ net.link # "up" \/ ~asks => calls' = calls
<1>1. CASE asks /\ net.link = "up" /\ (calls = <<>> \/ calls[Len(calls)] # "state")
  <2> DEFINE v == Append(calls, "state")
  <2>1. "state" \in Calls
    BY DEF Calls
  <2>2. /\ v \in Seq(Calls) /\ Len(v) = Len(calls) + 1 /\ Len(calls) \in Nat
        /\ DOMAIN v = 1 .. Len(v) /\ DOMAIN calls = 1 .. Len(calls)
        /\ \A i \in 1 .. Len(calls) : v[i] = calls[i]
        /\ v[Len(calls) + 1] = "state"
    BY <2>1
  <2> HIDE DEF v
  <2>3. calls' = v
    BY <1>1 DEF CallsAsking, v
  <2>4. Len(calls) + 1 \in DOMAIN v /\ \A i \in DOMAIN v : i < Len(calls) + 1 \/ i = Len(calls) + 1
    BY <2>2
  <2>5. /\ \A i \in DOMAIN calls : i \in Nat /\ i \in DOMAIN v /\ v[i] = calls[i]
        /\ \A i \in DOMAIN v : i \in Nat /\ (i \in DOMAIN calls \/ i = Len(calls) + 1)
    BY <2>2
  <2>6. \E j \in DOMAIN v : v[j] = "state" /\ \A i \in DOMAIN v : i < j \/ i = j
    BY <2>2, <2>4
  <2> QED BY <1>1, <2>2, <2>3, <2>5, <2>6
<1>2. CASE ~(asks /\ net.link = "up" /\ (calls = <<>> \/ calls[Len(calls)] # "state"))
  <2>1. calls' = calls
    BY <1>2 DEF CallsAsking
  <2>2. ASSUME asks, net.link = "up"
        PROVE  \E j \in DOMAIN calls : /\ calls[j] = "state"
                                       /\ \A i \in DOMAIN calls : i < j \/ i = j
    <3>1. calls # <<>> /\ calls[Len(calls)] = "state"
      BY <1>2, <2>2
    <3>2. /\ Len(calls) \in DOMAIN calls
          /\ \A i \in DOMAIN calls : i < Len(calls) \/ i = Len(calls)
      BY <3>1
    <3> QED BY <3>1, <3>2
  <2> QED BY <2>1, <2>2
<1> QED BY <1>1, <1>2

(* A message is received and the connection stays as it is.                *)
LEMMA Heard ==
  ASSUME ViewerInv, NEW m, Deliver(m), NEW asks \in BOOLEAN, Asks(m) => asks,
         calls' = CallsAsking(asks), hook' = hook
  PROVE  /\ ConnectionFits' /\ ReadIsTrue' /\ GroupComes' /\ net.link = "up"
         /\ WillAsk => WillAsk'
         /\ asks /\ net.group => WillAsk'
         /\ Reading' <=> Reading
         /\ Up' <=> Up
         /\ OnAir' <=> OnAir
         /\ calls' \in Seq(Calls)
<1>1. TypesFit /\ calls \in Seq(Calls) /\ inbox \in Seq(Message)
  BY DEF ViewerInv, TypesFit
<1>2. /\ inbox # <<>> /\ m = Head(inbox) /\ inbox' = Tail(inbox)
      /\ UNCHANGED <<allowed, party, serving, net, ops, drops>>
  BY DEF Deliver
<1>3. /\ 1 \in DOMAIN inbox /\ inbox[1] = m
      /\ \A i \in DOMAIN inbox' : i \in Nat /\ i + 1 \in DOMAIN inbox /\ inbox'[i] = inbox[i + 1]
      /\ \A i \in DOMAIN inbox : i \in Nat /\ (i = 1 \/ i - 1 \in DOMAIN inbox')
  BY <1>1, <1>2, Rear
<1>4. LinkFits /\ OneJoin /\ GroupFits
  BY DEF ViewerInv, ConnectionFits
<1>5. net.link = "up"
  BY <1>2, <1>4 DEF LinkFits
<1>6. /\ calls' \in Seq(Calls)
      /\ \A i \in DOMAIN calls : i \in Nat /\ i \in DOMAIN calls' /\ calls'[i] = calls[i]
      /\ \A i \in DOMAIN calls' : i \in Nat /\ (i \in DOMAIN calls \/ calls'[i] = "state")
      /\ asks => \E j \in DOMAIN calls' : /\ calls'[j] = "state"
                                          /\ \A i \in DOMAIN calls' : i < j \/ i = j
  BY <1>1, <1>5, Asking
<1>7. /\ IsJoin' <=> IsJoin
      /\ Joining' <=> Joining
      /\ Asked => Asked'
      /\ asks => Asked'
      /\ JoinedPending' => JoinedPending
      /\ Reached' <=> Reached
      /\ Reading' <=> Reading
      /\ Up' <=> Up
      /\ OnAir' <=> OnAir
  <2>1. IsJoin' <=> IsJoin
    BY <1>2 DEF IsJoin
  <2>2. Joining' <=> Joining
    BY <1>6, <2>1 DEF Joining
  <2>3. /\ Asked => Asked'
        /\ asks => Asked'
    BY <1>6 DEF Asked
  <2>4. JoinedPending' => JoinedPending
    BY <1>3 DEF JoinedPending
  <2> QED BY <1>2, <2>1, <2>2, <2>3, <2>4 DEF Reached, Without, Reading, Up, OnAir, StatusOf
<1>8. ConnectionFits'
  <2>1. LinkFits'
    BY <1>2, <1>4, <1>5 DEF LinkFits
  <2>2. OneJoin'
    <3>1. \A i, j \in DOMAIN inbox' :
            inbox'[i].kind = "joined" /\ inbox'[j].kind = "joined" => i = j
      <4> SUFFICES ASSUME NEW i \in DOMAIN inbox', NEW j \in DOMAIN inbox',
                          inbox'[i].kind = "joined", inbox'[j].kind = "joined"
                   PROVE  i = j
        OBVIOUS
      <4>1. i + 1 = j + 1 /\ i \in Nat /\ j \in Nat
        BY <1>3, <1>4 DEF OneJoin
      <4> QED BY <4>1
    <3>2. \A i \in DOMAIN calls' : calls'[i] # "state" => i \in DOMAIN calls /\ calls'[i] = calls[i]
      BY <1>6
    <3>3. \A i, j \in DOMAIN calls' : calls'[i] = "join" /\ calls'[j] = "join" => i = j
      BY <1>4, <3>2 DEF OneJoin
    <3>4. \A i \in DOMAIN calls' : calls'[i] = "join" =>
            hook'.stage = "join" /\ ~JoinedPending' /\ (serving' # None => serving'.call # "join")
      BY <1>2, <1>4, <1>7, <3>2 DEF OneJoin
    <3>5. \A i \in DOMAIN calls' : calls'[i] = "rejoin" =>
            i = 1 /\ serving' = None /\ ~net'.group
      BY <1>2, <1>4, <3>2 DEF OneJoin
    <3> QED BY <1>2, <1>4, <1>7, <3>1, <3>3, <3>4, <3>5 DEF OneJoin
  <2>3. GroupFits'
    BY <1>2, <1>3, <1>4, <1>7 DEF GroupFits
  <2> QED BY <1>2, <2>1, <2>2, <2>3 DEF ViewerInv, ConnectionFits, Without
<1>9. WillAsk => WillAsk'
  <2>1. CASE hook.status # "connected" \/ (~net.group /\ IsJoin /\ Asked) \/ (net.group /\ Asked)
    BY <1>2, <1>7, <2>1 DEF WillAsk
  <2>2. CASE ~net.group /\ \E i, j \in DOMAIN calls : i < j /\ calls[i] # "state" /\ calls[j] = "state"
    BY <1>2, <1>6, <2>2 DEF WillAsk
  <2>3. ASSUME net.group, NEW i \in DOMAIN inbox, Asks(inbox[i]) PROVE WillAsk'
    <3>1. CASE i = 1
      BY <1>2, <1>3, <1>7, <2>3, <3>1 DEF WillAsk
    <3>2. CASE i # 1
      <4>1. i - 1 \in DOMAIN inbox' /\ (i - 1) + 1 = i
        BY <1>3, <3>2
      <4>2. inbox'[i - 1] = inbox[i]
        BY <1>3, <4>1
      <4> QED BY <1>2, <2>3, <4>1, <4>2 DEF WillAsk, Asks
    <3> QED BY <3>1, <3>2
  <2> QED BY <2>1, <2>2, <2>3 DEF WillAsk
<1>10. asks /\ net.group => WillAsk'
  BY <1>2, <1>7 DEF WillAsk
<1>11. GroupComes'
  BY <1>2, <1>7, <1>9 DEF ViewerInv, GroupComes
<1>12. ReadIsTrue'
  BY <1>2 DEF ViewerInv, ReadIsTrue, Without, StateOf, StatusOf
<1> QED BY <1>5, <1>6, <1>7, <1>8, <1>9, <1>10, <1>11, <1>12

(* What the first message says of a part of the page.                      *)
LEMMA FirstSays ==
  ASSUME TypesFit, NEW m, Deliver(m)
  PROVE  /\ m \in Message /\ inbox' \in Seq(Message)
         /\ \A i \in DOMAIN inbox' : i + 1 \in DOMAIN inbox /\ inbox'[i] = inbox[i + 1] /\ i \in Nat
         /\ 1 \in DOMAIN inbox /\ inbox[1] = m
         /\ \A bears, good :
              LastIn(inbox, bears, good) =>
                /\ LastIn(inbox', bears, good)
                /\ NoneIn(inbox', bears) => m \in good \/ (m \notin bears /\ NoneIn(inbox, bears))
<1>1. /\ inbox \in Seq(Message) /\ inbox # <<>> /\ m = Head(inbox) /\ inbox' = Tail(inbox)
  BY DEF Deliver, TypesFit
<1>2. /\ m \in Message /\ inbox' \in Seq(Message) /\ 1 \in DOMAIN inbox /\ inbox[1] = m
      /\ \A i \in DOMAIN inbox' : i + 1 \in DOMAIN inbox /\ inbox'[i] = inbox[i + 1] /\ i \in Nat
  BY <1>1, Rear
<1>3. ASSUME NEW bears, NEW good, LastIn(inbox, bears, good)
      PROVE  /\ LastIn(inbox', bears, good)
             /\ NoneIn(inbox', bears) => m \in good \/ (m \notin bears /\ NoneIn(inbox, bears))
  <2>1. /\ LastIn(Tail(inbox), bears, good)
        /\ NoneIn(Tail(inbox), bears) /\ m \in bears => m \in good
        /\ NoneIn(Tail(inbox), bears) /\ m \notin bears => NoneIn(inbox, bears)
    BY <1>1, <1>3, Received
  <2> QED BY <1>1, <2>1
<1> QED BY <1>2, <1>3

LEMMA PageHears ==
  ASSUME NEW p \in Pages, NEW m \in Message, m.kind \notin {"playlist", "joined"},
         net.link = "up", NEW new, new = PageAsking(PageAfter(m, p), Asks(m))
  PROVE  /\ new \in Pages /\ new.recent = p.recent
         /\ m \in StatusBears => new.status = Given(m)
         /\ m \notin StatusBears => new.status = p.status
         /\ m.kind = "answer" => new.list = m.state.list /\ new.timer = p.timer
         /\ m.kind # "answer" => new.list = p.list
         /\ m \in PlayGood \/ (m \notin PlayBears /\ p.playing) => new.playing
         /\ m \in TimerGood \/ (m \notin TimerBears /\ p.timer = "none") => new.timer = "none"
<1> DEFINE after == PageAfter(m, p)
<1>1. new = IF m.kind \in {"started", "changed", "online"} THEN [after EXCEPT !.timer = "none"]
            ELSE after
  BY DEF PageAsking, Asks
<1>2. /\ m.kind = "status" => m.status \in DisplayStatuses
      /\ m.kind = "answer" => m.state \in State
      /\ "StartingSoon" \in DisplayStatuses
  BY Messages DEF DisplayStatuses
<1>3. CASE m.kind \in {"started", "online", "changed"}
  <2>1. new = [p EXCEPT !.timer = "none"]
    BY <1>1, <1>3 DEF PageAfter, Pages
  <2>2. /\ new \in Pages /\ new.recent = p.recent /\ new.status = p.status
        /\ new.list = p.list /\ new.playing = p.playing /\ new.timer = "none"
    BY <2>1 DEF Pages
  <2>3. m \notin StatusBears /\ m \notin PlayGood
    BY <1>3 DEF StatusBears, PlayGood, PlayBears
  <2> QED BY <1>3, <2>2, <2>3
<1>4. CASE m.kind = "offline"
  <2>1. new = [p EXCEPT !.timer = "freeze"]
    BY <1>1, <1>4 DEF PageAfter
  <2>2. /\ new \in Pages /\ new.recent = p.recent /\ new.status = p.status
        /\ new.list = p.list /\ new.playing = p.playing
    BY <2>1 DEF Pages
  <2>3. m \notin StatusBears /\ m \notin PlayGood /\ m \in TimerBears /\ m \notin TimerGood
    BY <1>4 DEF StatusBears, PlayGood, PlayBears, TimerBears, TimerGood
  <2> QED BY <1>4, <2>2, <2>3
<1>5. CASE m.kind = "ended"
  <2>1. new = [p EXCEPT !.timer = "end", !.status = "StartingSoon"]
    BY <1>1, <1>5 DEF PageAfter
  <2>2. /\ new \in Pages /\ new.recent = p.recent /\ new.status = "StartingSoon"
        /\ new.list = p.list /\ new.playing = p.playing
    BY <1>2, <2>1 DEF Pages
  <2>3. /\ m \in StatusBears /\ m \notin PlayGood /\ m \in TimerBears /\ m \notin TimerGood
        /\ Given(m) = "StartingSoon"
    BY <1>5 DEF StatusBears, PlayGood, PlayBears, TimerBears, TimerGood, Given
  <2> QED BY <1>5, <2>2, <2>3
<1>6. CASE m.kind = "reset"
  <2>1. new = [p EXCEPT !.timer = "none", !.playing = FALSE, !.status = "StartingSoon"]
    BY <1>1, <1>6 DEF PageAfter
  <2>2. /\ new \in Pages /\ new.recent = p.recent /\ new.status = "StartingSoon"
        /\ new.list = p.list /\ new.timer = "none"
    BY <1>2, <2>1 DEF Pages
  <2>3. /\ m \in StatusBears /\ m \notin PlayGood /\ m \in PlayBears
        /\ Given(m) = "StartingSoon"
    BY <1>6 DEF StatusBears, PlayGood, PlayBears, Given
  <2> QED BY <1>6, <2>2, <2>3
<1>7. CASE m.kind \in {"session", "preparation"}
  <2>1. new = [p EXCEPT !.timer = "none", !.playing = (m.kind = "session")]
    BY <1>1, <1>7 DEF PageAfter
  <2>2. /\ new \in Pages /\ new.recent = p.recent /\ new.status = p.status
        /\ new.list = p.list /\ new.timer = "none" /\ new.playing = (m.kind = "session")
    BY <2>1 DEF Pages
  <2>3. /\ m \notin StatusBears /\ m \in PlayBears
        /\ m \in PlayGood => m.kind = "session"
    BY <1>7 DEF StatusBears, PlayGood, PlayBears
  <2> QED BY <1>7, <2>2, <2>3
<1>8. CASE m.kind = "position"
  <2>1. new = [p EXCEPT !.playing = TRUE]
    BY <1>1, <1>8 DEF PageAfter
  <2>2. /\ new \in Pages /\ new.recent = p.recent /\ new.status = p.status
        /\ new.list = p.list /\ new.timer = p.timer /\ new.playing
    BY <2>1 DEF Pages
  <2>3. m \notin StatusBears /\ m \notin TimerGood
    BY <1>8 DEF StatusBears, TimerGood, TimerBears
  <2> QED BY <1>8, <2>2, <2>3
<1>9. CASE m.kind = "status"
  <2>1. new = [p EXCEPT !.status = m.status]
    BY <1>1, <1>9 DEF PageAfter
  <2>2. /\ new \in Pages /\ new.recent = p.recent /\ new.status = m.status
        /\ new.list = p.list /\ new.timer = p.timer /\ new.playing = p.playing
    BY <1>2, <1>9, <2>1 DEF Pages
  <2>3. /\ m \in StatusBears /\ Given(m) = m.status
        /\ m \notin TimerGood /\ m \notin PlayGood
    BY <1>9 DEF StatusBears, Given, TimerGood, TimerBears, PlayGood, PlayBears
  <2> QED BY <1>9, <2>2, <2>3
<1>10. CASE m.kind = "error"
  <2>1. new = [p EXCEPT !.error = TRUE, !.reachable = FALSE]
    BY <1>1, <1>10 DEF PageAfter
  <2>2. /\ new \in Pages /\ new.recent = p.recent /\ new.status = p.status
        /\ new.list = p.list /\ new.timer = p.timer /\ new.playing = p.playing
    BY <2>1 DEF Pages
  <2>3. /\ m \notin StatusBears /\ m \notin TimerGood /\ m \notin PlayGood
    BY <1>10 DEF StatusBears, Given, TimerGood, TimerBears, PlayGood, PlayBears
  <2> QED BY <1>10, <2>2, <2>3
<1>11. CASE m.kind = "answer"
  <2>1. new = [p EXCEPT !.status = m.state.status, !.list = m.state.list,
                        !.playing = @ \/ m.state.playing]
    BY <1>1, <1>11 DEF PageAfter
  <2>2. /\ m.state.status \in DisplayStatuses /\ m.state.list \in Nat /\ m.state.playing \in BOOLEAN
    BY <1>2, <1>11 DEF State
  <2>3. /\ new \in Pages /\ new.recent = p.recent /\ new.status = m.state.status
        /\ new.list = m.state.list /\ new.timer = p.timer
        /\ new.playing = (p.playing \/ m.state.playing)
    BY <2>1, <2>2 DEF Pages
  <2>4. /\ m \in StatusBears /\ Given(m) = m.state.status /\ m \notin TimerGood
        /\ m \in PlayGood => m.state.playing
    BY <1>11 DEF StatusBears, Given, TimerGood, TimerBears, PlayGood, PlayBears
  <2> QED BY <1>11, <2>3, <2>4
<1>12. CASE m.kind = "rejoined"
  <2>1. new = p
    BY <1>1, <1>12 DEF PageAfter
  <2>2. /\ m \notin StatusBears /\ m \notin TimerGood /\ m \notin PlayGood
    BY <1>12 DEF StatusBears, Given, TimerGood, TimerBears, PlayGood, PlayBears
  <2> QED BY <1>12, <2>1, <2>2
<1>13. m.kind \in {"started", "online", "changed", "offline", "ended", "reset", "session",
                   "preparation", "position", "status", "error", "answer", "rejoined"}
  BY DEF Message
<1> QED BY <1>3, <1>4, <1>5, <1>6, <1>7, <1>8, <1>9, <1>10, <1>11, <1>12, <1>13

LEMMA ReceiveStep == ASSUME ViewerInv, Receive PROVE ViewerInv'
<1>1. PICK m \in {inbox[i] : i \in DOMAIN inbox} :
        /\ Deliver(m) /\ m.kind \notin {"playlist", "joined"}
        /\ page' = PageAsking(PageAfter(m, page), Asks(m))
        /\ calls' = CallsAsking(Asks(m))
        /\ hook' = hook /\ fetches' = fetches
  BY DEF Receive
<1>2. /\ TypesFit /\ page \in Pages
      /\ UNCHANGED <<allowed, party, serving, net, ops, drops>>
  BY <1>1 DEF ViewerInv, TypesFit, Deliver
<1>3. /\ m \in Message /\ inbox' \in Seq(Message)
      /\ \A i \in DOMAIN inbox' : i + 1 \in DOMAIN inbox /\ inbox'[i] = inbox[i + 1] /\ i \in Nat
      /\ 1 \in DOMAIN inbox /\ inbox[1] = m
      /\ \A bears, good :
           LastIn(inbox, bears, good) =>
             /\ LastIn(inbox', bears, good)
             /\ NoneIn(inbox', bears) => m \in good \/ (m \notin bears /\ NoneIn(inbox, bears))
  BY <1>1, <1>2, FirstSays
<1>4. Asks(m) \in BOOLEAN
  BY DEF Asks
<1>5. /\ ConnectionFits' /\ ReadIsTrue' /\ GroupComes' /\ net.link = "up"
      /\ WillAsk => WillAsk'
      /\ Reading' <=> Reading
      /\ Up' <=> Up
      /\ OnAir' <=> OnAir
      /\ calls' \in Seq(Calls)
  BY <1>1, <1>4, Heard
<1>6. /\ page' \in Pages /\ page'.recent = page.recent
      /\ m \in StatusBears => page'.status = Given(m)
      /\ m \notin StatusBears => page'.status = page.status
      /\ m.kind = "answer" => page'.list = m.state.list /\ page'.timer = page.timer
      /\ m.kind # "answer" => page'.list = page.list
      /\ m \in PlayGood \/ (m \notin PlayBears /\ page.playing) => page'.playing
      /\ m \in TimerGood \/ (m \notin TimerBears /\ page.timer = "none") => page'.timer = "none"
  BY <1>1, <1>2, <1>3, <1>5, PageHears
<1>7. TypesFit'
  <2>1. page'.list # None => page'.list <= ops
    BY <1>2, <1>3, <1>6 DEF TypesFit
  <2>2. \A i \in DOMAIN inbox' : inbox'[i].kind = "answer" => inbox'[i].state.list <= ops
    BY <1>2, <1>3 DEF TypesFit
  <2> QED BY <1>1, <1>2, <1>3, <1>5, <1>6, <2>1, <2>2 DEF TypesFit
<1>8. FetchFollows'
  <2> SUFFICES ASSUME allowed = {}
               PROVE  /\ Pending("playlist")' => ~page.recent
                      /\ \A i, j \in DOMAIN inbox' :
                           inbox'[i].kind = "playlist" /\ inbox'[j].kind = "playlist" => i = j
    BY <1>2, <1>6 DEF FetchFollows
  <2>1. Pending("playlist")' => Pending("playlist")
    BY <1>3 DEF Pending
  <2>2. ASSUME NEW i \in DOMAIN inbox', NEW j \in DOMAIN inbox',
               inbox'[i].kind = "playlist", inbox'[j].kind = "playlist"
        PROVE  i = j
    <3>1. i + 1 = j + 1 /\ i \in Nat /\ j \in Nat
      BY <1>3, <2>2 DEF ViewerInv, FetchFollows
    <3> QED BY <3>1
  <2> QED BY <2>1, <2>2 DEF ViewerInv, FetchFollows
<1>9. StatusTold => StatusTold'
  <2> SUFFICES ASSUME StatusTold PROVE StatusTold'
    OBVIOUS
  <2>1. /\ LastIn(inbox', StatusBears, StatusGood(party))
        /\ NoneIn(inbox', StatusBears) =>
             m \in StatusGood(party) \/ (m \notin StatusBears /\ NoneIn(inbox, StatusBears))
    BY <1>3 DEF StatusTold
  <2>2. NoneIn(inbox', StatusBears) => page'.status = StatusOf(party)
    BY <1>6, <2>1 DEF StatusTold, StatusGood
  <2> QED BY <1>2, <2>1, <2>2 DEF StatusTold, LastIn, NoneIn, StatusGood, StatusOf
<1>10. ListTold => ListTold'
  <2> SUFFICES ASSUME ListTold PROVE ListTold'
    OBVIOUS
  <2>1. /\ LastIn(inbox', ListBears, ListGood(party))
        /\ NoneIn(inbox', ListBears) =>
             m \in ListGood(party) \/ (m \notin ListBears /\ NoneIn(inbox, ListBears))
    BY <1>3 DEF ListTold
  <2>2. /\ m \in ListGood(party) => m.kind = "answer" /\ m.state.list = party.list
        /\ m \notin ListBears => m.kind # "answer"
    BY <1>1, <1>3 DEF ListGood, ListBears
  <2>3. NoneIn(inbox', ListBears) => page'.list = party.list \/ \E i \in 1 .. 2 : fetches[i] # None
    BY <1>6, <2>1, <2>2 DEF ListTold
  <2> QED BY <1>1, <1>2, <2>1, <2>3 DEF ListTold, LastIn, NoneIn, ListGood
<1>11. PlayTold => PlayTold'
  <2> SUFFICES ASSUME PlayTold PROVE PlayTold'
    OBVIOUS
  <2>1. /\ LastIn(inbox', PlayBears, PlayGood)
        /\ NoneIn(inbox', PlayBears) =>
             m \in PlayGood \/ (m \notin PlayBears /\ NoneIn(inbox, PlayBears))
    BY <1>3 DEF PlayTold
  <2>2. NoneIn(inbox', PlayBears) => page'.playing
    BY <1>6, <2>1 DEF PlayTold
  <2> QED BY <2>1, <2>2 DEF PlayTold, LastIn, NoneIn
<1>12. TimersTold => TimersTold'
  <2> SUFFICES ASSUME TimersTold PROVE TimersTold'
    OBVIOUS
  <2>1. /\ LastIn(inbox', TimerBears, TimerGood)
        /\ NoneIn(inbox', TimerBears) =>
             m \in TimerGood \/ (m \notin TimerBears /\ NoneIn(inbox, TimerBears))
    BY <1>3 DEF TimersTold
  <2>2. NoneIn(inbox', TimerBears) => page'.timer = "none" \/ hook'.status # "connected"
    BY <1>1, <1>6, <2>1 DEF TimersTold
  <2> QED BY <2>1, <2>2 DEF TimersTold, LastIn, NoneIn
<1>13. StatusComes' /\ ListComes' /\ PlayComes'
  <2>1. StatusComes'
    BY <1>2, <1>5, <1>9 DEF ViewerInv, StatusComes, Without
  <2>2. ListComes'
    BY <1>2, <1>5, <1>10 DEF ViewerInv, ListComes
  <2>3. PlayComes'
    BY <1>2, <1>5, <1>11 DEF ViewerInv, PlayComes
  <2> QED BY <2>1, <2>2, <2>3
<1>14. TimersFit'
  <2>1. Up /\ ~net.group => m.kind = "answer"
    BY <1>3 DEF ViewerInv, ConnectionFits, GroupFits, Up
  <2> QED BY <1>1, <1>2, <1>5, <1>6, <1>12, <2>1 DEF ViewerInv, TimersFit
<1> QED BY <1>5, <1>7, <1>8, <1>13, <1>14 DEF ViewerInv

LEMMA PlaylistChangedStep == ASSUME ViewerInv, PlaylistChanged PROVE ViewerInv'
<1> DEFINE m == Msg("playlist")
<1>1. /\ Deliver(m) /\ calls' = calls /\ hook' = hook
      /\ IF page.recent
         THEN UNCHANGED <<page, fetches>>
         ELSE StartFetch(TRUE) /\ page' = [page EXCEPT !.recent = TRUE]
  BY DEF PlaylistChanged
<1>2. /\ TypesFit /\ page \in Pages /\ fetches \in Fetches
      /\ UNCHANGED <<allowed, party, serving, net, ops, drops>>
  BY <1>1 DEF ViewerInv, TypesFit, Deliver
<1>3. m.kind = "playlist" /\ ~Asks(m)
  BY DEF Msg, Asks
<1> HIDE DEF m
<1>4. /\ inbox' \in Seq(Message) /\ m \in Message
      /\ \A i \in DOMAIN inbox' : i + 1 \in DOMAIN inbox /\ inbox'[i] = inbox[i + 1] /\ i \in Nat
      /\ 1 \in DOMAIN inbox /\ inbox[1] = m
      /\ \A bears, good :
           LastIn(inbox, bears, good) =>
             /\ LastIn(inbox', bears, good)
             /\ NoneIn(inbox', bears) => m \in good \/ (m \notin bears /\ NoneIn(inbox, bears))
  BY <1>1, <1>2, FirstSays
<1>5. calls' = CallsAsking(FALSE)
  BY <1>1 DEF CallsAsking
<1>6. /\ ConnectionFits' /\ ReadIsTrue' /\ GroupComes' /\ net.link = "up"
      /\ WillAsk => WillAsk'
      /\ Reading' <=> Reading
      /\ Up' <=> Up
      /\ OnAir' <=> OnAir
      /\ calls' \in Seq(Calls)
  BY <1>1, <1>3, <1>5, Heard
<1>7. /\ page' \in Pages /\ fetches' \in Fetches /\ page'.status = page.status
      /\ page'.list = page.list /\ page'.playing = page.playing /\ page'.timer = page.timer
      /\ page.recent => fetches' = fetches
      /\ ~page.recent => \E i \in 1 .. 2 : fetches'[i] # None
  <2>1. CASE page.recent
    BY <1>1, <1>2, <2>1
  <2>2. CASE ~page.recent
    <3>1. fetches' \in Fetches /\ \E i \in 1 .. 2 : fetches'[i] # None
      BY <1>1, <1>2, <2>2, Starts
    <3> QED BY <1>1, <1>2, <2>2, <3>1 DEF Pages
  <2> QED BY <2>1, <2>2
<1>8. TypesFit'
  <2>1. \A i \in DOMAIN inbox' : inbox'[i].kind = "answer" => inbox'[i].state.list <= ops
    BY <1>2, <1>4 DEF TypesFit
  <2> QED BY <1>1, <1>2, <1>4, <1>6, <1>7, <2>1 DEF TypesFit
<1>9. ASSUME allowed = {}
      PROVE  ~page.recent /\ \A i \in DOMAIN inbox' : inbox'[i].kind # "playlist"
  <2>1. ~page.recent
    BY <1>3, <1>4, <1>9 DEF ViewerInv, FetchFollows, Pending
  <2>2. ASSUME NEW i \in DOMAIN inbox', inbox'[i].kind = "playlist" PROVE FALSE
    <3>1. i + 1 \in DOMAIN inbox /\ inbox[i + 1].kind = "playlist" /\ i \in Nat
      BY <1>4, <2>2
    <3>2. i + 1 = 1
      BY <1>3, <1>4, <1>9, <3>1 DEF ViewerInv, FetchFollows
    <3>3. 1 <= i
      BY <1>4, <2>2
    <3> QED BY <3>1, <3>2, <3>3
  <2> QED BY <2>1, <2>2
<1>10. FetchFollows'
  BY <1>2, <1>9 DEF FetchFollows, Pending
<1>11. /\ m \notin StatusBears /\ m \notin PlayBears /\ m \notin TimerBears
       /\ m \notin PlayGood /\ m \notin TimerGood /\ m \notin StatusGood(party)
  BY <1>3 DEF StatusBears, PlayBears, TimerBears, PlayGood, TimerGood, StatusGood
<1>12. StatusTold => StatusTold'
  <2> SUFFICES ASSUME StatusTold PROVE StatusTold'
    OBVIOUS
  <2>1. /\ LastIn(inbox', StatusBears, StatusGood(party))
        /\ NoneIn(inbox', StatusBears) => NoneIn(inbox, StatusBears)
    BY <1>4, <1>11 DEF StatusTold
  <2> QED BY <1>2, <1>7, <2>1 DEF StatusTold, LastIn, NoneIn, StatusGood, StatusOf
<1>13. allowed = {} /\ ListTold => ListTold'
  <2> SUFFICES ASSUME allowed = {}, ListTold PROVE ListTold'
    OBVIOUS
  <2>1. LastIn(inbox', ListBears, ListGood(party))
    BY <1>4 DEF ListTold
  <2> QED BY <1>2, <1>7, <1>9, <2>1 DEF ListTold, LastIn, NoneIn, ListGood
<1>14. PlayTold => PlayTold'
  <2> SUFFICES ASSUME PlayTold PROVE PlayTold'
    OBVIOUS
  <2>1. /\ LastIn(inbox', PlayBears, PlayGood)
        /\ NoneIn(inbox', PlayBears) => NoneIn(inbox, PlayBears)
    BY <1>4, <1>11 DEF PlayTold
  <2> QED BY <1>7, <2>1 DEF PlayTold, LastIn, NoneIn
<1>15. TimersTold => TimersTold'
  <2> SUFFICES ASSUME TimersTold PROVE TimersTold'
    OBVIOUS
  <2>1. /\ LastIn(inbox', TimerBears, TimerGood)
        /\ NoneIn(inbox', TimerBears) => NoneIn(inbox, TimerBears)
    BY <1>4, <1>11 DEF TimersTold
  <2> QED BY <1>1, <1>7, <2>1 DEF TimersTold, LastIn, NoneIn
<1>16. StatusComes' /\ ListComes' /\ PlayComes'
  <2>1. StatusComes'
    BY <1>2, <1>6, <1>12 DEF ViewerInv, StatusComes, Without
  <2>2. ListComes'
    BY <1>2, <1>6, <1>13 DEF ViewerInv, ListComes
  <2>3. PlayComes'
    BY <1>2, <1>6, <1>14 DEF ViewerInv, PlayComes
  <2> QED BY <2>1, <2>2, <2>3
<1>17. TimersFit'
  BY <1>1, <1>2, <1>6, <1>7, <1>15 DEF ViewerInv, TimersFit
<1> QED BY <1>6, <1>8, <1>10, <1>16, <1>17 DEF ViewerInv

(* connect() is through: the page asks, and the party is joined or will be *)
(* before that call.                                                       *)
LEMMA JoinedStep == ASSUME ViewerInv, Joined PROVE ViewerInv'
<1> DEFINE m == Msg("joined")
           asks == hook.first \/ hook.status # "connected"
<1>1. /\ Deliver(m) /\ fetches' = fetches
      /\ page' = PageAsking(page, asks) /\ calls' = CallsAsking(asks)
      /\ hook' = [hook EXCEPT !.status = "connected", !.stage = "none", !.first = FALSE]
  BY DEF Joined
<1>2. /\ TypesFit /\ page \in Pages /\ hook \in Hooks /\ calls \in Seq(Calls)
      /\ UNCHANGED <<allowed, party, serving, net, ops, drops>>
  BY <1>1 DEF ViewerInv, TypesFit, Deliver
<1>3. m.kind = "joined"
  BY DEF Msg
<1> HIDE DEF m
<1>4. /\ inbox' \in Seq(Message) /\ m \in Message /\ inbox # <<>>
      /\ \A i \in DOMAIN inbox' : i + 1 \in DOMAIN inbox /\ inbox'[i] = inbox[i + 1] /\ i \in Nat
      /\ 1 \in DOMAIN inbox /\ inbox[1] = m
      /\ \A bears, good :
           LastIn(inbox, bears, good) =>
             /\ LastIn(inbox', bears, good)
             /\ NoneIn(inbox', bears) => m \in good \/ (m \notin bears /\ NoneIn(inbox, bears))
  BY <1>1, <1>2, FirstSays DEF Deliver
<1>5. LinkFits /\ OneJoin /\ GroupFits
  BY DEF ViewerInv, ConnectionFits
<1>6. /\ JoinedPending /\ hook.stage = "join" /\ net.link = "up"
      /\ hook.tried
  BY <1>2, <1>3, <1>4, <1>5 DEF OneJoin, LinkFits, JoinedPending, Hooks
<1>7. asks \in BOOLEAN
  BY <1>2 DEF Hooks
<1>8. Up => hook.status # "connected"
  BY <1>6 DEF ViewerInv, ConnectionFits, Up
<1>9. Up => asks
  BY <1>8
<1> HIDE DEF asks
<1>10. /\ calls' \in Seq(Calls)
       /\ \A i \in DOMAIN calls : i \in Nat /\ i \in DOMAIN calls' /\ calls'[i] = calls[i]
       /\ \A i \in DOMAIN calls' : i \in Nat /\ (i \in DOMAIN calls \/ calls'[i] = "state")
       /\ asks => \E j \in DOMAIN calls' : /\ calls'[j] = "state"
                                           /\ \A i \in DOMAIN calls' : i < j \/ i = j
  BY <1>1, <1>2, <1>6, <1>7, Asking
<1>11. /\ hook' \in Hooks /\ hook'.status = "connected" /\ hook'.stage = "none" /\ hook'.tried
       /\ page' \in Pages /\ page'.list = page.list /\ page'.recent = page.recent
       /\ asks => page'.timer = "none"
  <2>1. hook' \in Hooks /\ hook'.status = "connected" /\ hook'.stage = "none" /\ hook'.tried
    BY <1>1, <1>2, <1>6 DEF Hooks
  <2>2. /\ page' \in Pages /\ page'.list = page.list /\ page'.recent = page.recent
        /\ asks => page'.timer = "none"
    BY <1>1, <1>2, <1>6, <1>7 DEF PageAsking, Pages
  <2> QED BY <2>1, <2>2
<1>12. TypesFit'
  <2>1. \A i \in DOMAIN inbox' : inbox'[i].kind = "answer" => inbox'[i].state.list <= ops
    BY <1>2, <1>4 DEF TypesFit
  <2> QED BY <1>1, <1>2, <1>4, <1>10, <1>11, <2>1 DEF TypesFit
<1>13. /\ IsJoin' <=> IsJoin
       /\ Joining' <=> Joining
       /\ Reached' <=> Reached
       /\ Up' <=> Up
       /\ OnAir' <=> OnAir
  <2>1. IsJoin' <=> IsJoin
    BY <1>2 DEF IsJoin
  <2>2. Joining' <=> Joining
    BY <1>10, <2>1 DEF Joining
  <2> QED BY <1>2, <2>1, <2>2 DEF Reached, Without, Up, OnAir, StatusOf
<1>14. ~JoinedPending'
  <2> SUFFICES ASSUME NEW i \in DOMAIN inbox', inbox'[i].kind = "joined" PROVE FALSE
    BY DEF JoinedPending
  <2>1. i + 1 = 1 /\ i \in Nat /\ 1 <= i
    BY <1>3, <1>4, <1>5 DEF OneJoin
  <2> QED BY <2>1
<1>15. ConnectionFits'
  <2>1. LinkFits'
    BY <1>2, <1>5, <1>6, <1>11 DEF LinkFits
  <2>2. OneJoin'
    <3>1. \A i, j \in DOMAIN inbox' :
            inbox'[i].kind = "joined" /\ inbox'[j].kind = "joined" => i = j
      BY <1>14 DEF JoinedPending
    <3>2. \A i \in DOMAIN calls' : calls'[i] # "state" => i \in DOMAIN calls /\ calls'[i] = calls[i]
      BY <1>10
    <3>3. \A i \in DOMAIN calls' : calls'[i] # "join"
      BY <1>5, <1>6, <3>2 DEF OneJoin
    <3>4. serving # None => serving.call # "join"
      BY <1>5, <1>6 DEF OneJoin
    <3>5. \A i \in DOMAIN calls' : calls'[i] = "rejoin" =>
            i = 1 /\ serving' = None /\ ~net'.group
      BY <1>2, <1>5, <3>2 DEF OneJoin
    <3> QED BY <1>2, <1>5, <1>14, <3>1, <3>3, <3>4, <3>5 DEF OneJoin
  <2>3. GroupFits'
    BY <1>2, <1>4, <1>5, <1>6, <1>11, <1>13, <1>14 DEF GroupFits
  <2> QED BY <1>11, <2>1, <2>2, <2>3 DEF ConnectionFits
<1>16. Up => WillAsk'
  <2> SUFFICES ASSUME Up PROVE WillAsk'
    OBVIOUS
  <2>1. PICK j \in DOMAIN calls' : calls'[j] = "state" /\ \A i \in DOMAIN calls' : i < j \/ i = j
    BY <1>9, <1>10
  <2>2. CASE net.group
    BY <1>2, <2>1, <2>2 DEF WillAsk, Asked
  <2>3. CASE ~net.group
    <3>1. Joining
      BY <1>5, <1>6, <2>3 DEF GroupFits, Up
    <3>2. CASE IsJoin
      BY <1>2, <1>13, <2>1, <2>3, <3>2 DEF WillAsk, Asked
    <3>3. CASE \E i \in DOMAIN calls : calls[i] # "state"
      <4>1. PICK i \in DOMAIN calls : calls[i] # "state"
        BY <3>3
      <4>2. i \in DOMAIN calls' /\ calls'[i] # "state" /\ i < j
        BY <1>10, <2>1, <4>1
      <4> QED BY <1>2, <2>1, <2>3, <4>2 DEF WillAsk
    <3> QED BY <3>1, <3>2, <3>3 DEF Joining
  <2> QED BY <2>2, <2>3
<1>17. net.link = "up" /\ allowed = {} => Up
  BY DEF Up, Reached, Without
<1>18. GroupComes' /\ StatusComes' /\ ListComes' /\ PlayComes'
  BY <1>2, <1>13, <1>16, <1>17 DEF GroupComes, StatusComes, ListComes, PlayComes
<1>19. ReadIsTrue'
  BY <1>2 DEF ViewerInv, ReadIsTrue, Without, StateOf, StatusOf
<1>20. FetchFollows'
  <2>1. Pending("playlist")' => Pending("playlist")
    BY <1>4 DEF Pending
  <2>2. ASSUME allowed = {}, NEW i \in DOMAIN inbox', NEW j \in DOMAIN inbox',
               inbox'[i].kind = "playlist", inbox'[j].kind = "playlist"
        PROVE  i = j
    <3>1. i + 1 = j + 1 /\ i \in Nat /\ j \in Nat
      BY <1>4, <2>2 DEF ViewerInv, FetchFollows
    <3> QED BY <3>1
  <2> QED BY <1>2, <1>11, <2>1, <2>2 DEF ViewerInv, FetchFollows
<1>21. TimersFit'
  <2>1. Up => page'.timer = "none"
    BY <1>9, <1>11
  <2>2. Up /\ OnAir /\ net.group => LastIn(inbox', TimerBears, TimerGood)
    BY <1>4 DEF ViewerInv, TimersFit, TimersTold
  <2> QED BY <1>2, <1>13, <2>1, <2>2 DEF TimersFit, TimersTold, LastIn, NoneIn
<1> QED BY <1>12, <1>15, <1>18, <1>19, <1>20, <1>21 DEF ViewerInv
-----------------------------------------------------------------------------
(* The connection comes and goes.                                          *)

(* Nothing is claimed of a page that is not connected.                     *)
LEMMA Away ==
  ASSUME ViewerInv, TypesFit', ConnectionFits',
         UNCHANGED <<allowed, party, fetches, ops>>,
         page'.recent = page.recent,
         inbox' = inbox \/ inbox' = <<>>,
         serving' = serving \/ serving' = None,
         net'.group => net.group,
         Up' => hook'.status # "connected"
  PROVE  ViewerInv'
<1>1. Up' => WillAsk'
  BY DEF WillAsk
<1>2. net'.link = "up" /\ allowed = {} => Up'
  BY DEF Up, Reached, Without
<1>3. GroupComes' /\ StatusComes' /\ ListComes' /\ PlayComes'
  BY <1>1, <1>2 DEF GroupComes, StatusComes, ListComes, PlayComes
<1>4. ReadIsTrue'
  BY DEF ViewerInv, ReadIsTrue, Without, StateOf, StatusOf
<1>5. FetchFollows'
  BY DEF ViewerInv, FetchFollows, Pending
<1>6. TimersFit'
  <2>1. ASSUME Up', OnAir', net'.group PROVE TimersTold'
    <3>1. CASE inbox' = <<>>
      BY <2>1, <3>1 DEF TimersTold, LastIn, NoneIn
    <3>2. CASE inbox' = inbox
      <4>1. net.group /\ net.link = "up"
        BY <2>1 DEF ViewerInv, ConnectionFits, LinkFits
      <4>2. Up /\ OnAir
        BY <2>1, <4>1 DEF Up, OnAir, Reached, Without, StatusOf
      <4>3. LastIn(inbox, TimerBears, TimerGood)
        BY <4>1, <4>2 DEF ViewerInv, TimersFit, TimersTold
      <4> QED BY <2>1, <3>2, <4>3 DEF TimersTold, LastIn, NoneIn
    <3> QED BY <3>1, <3>2
  <2> QED BY <2>1 DEF TimersFit
<1> QED BY <1>3, <1>4, <1>5, <1>6 DEF ViewerInv

LEMMA Failing ==
  ASSUME TypesFit
  PROVE  /\ Failed(hook) \in Hooks /\ Failed(hook).status = "disconnected"
         /\ Failed(hook).stage = "none" /\ Failed(hook).tried = hook.tried
         /\ PageFailed \in Pages /\ PageFailed.recent = page.recent
         /\ PageFailed.list = page.list
<1>1. hook \in Hooks /\ page \in Pages
  BY DEF TypesFit
<1>2. hook.first \in BOOLEAN
  BY <1>1 DEF Hooks
<1> QED BY <1>1, <1>2 DEF Failed, PageFailed, Hooks, Pages

LEMMA BeginConnectStep == ASSUME ViewerInv, FirstConnect \/ PeriodicConnect PROVE ViewerInv'
<1>1. TypesFit /\ LinkFits /\ OneJoin /\ GroupFits
  BY DEF ViewerInv, ConnectionFits
<1>2. PICK first \in BOOLEAN : BeginConnect(first)
  BY DEF FirstConnect, PeriodicConnect
<1>3. hook.stage = "none"
  BY <1>1 DEF FirstConnect, PeriodicConnect, LinkFits
<1>4. /\ hook' = [status |-> "connecting", stage |-> IF net.flag THEN "settle" ELSE "dial",
                  first |-> first, tried |-> TRUE]
      /\ UNCHANGED <<serving, net, calls, inbox, page, drops, allowed, party, fetches, ops>>
  BY <1>2 DEF BeginConnect, UnchangedByNet
<1>5. /\ hook' \in Hooks /\ hook'.status = "connecting" /\ hook'.tried
      /\ hook'.stage \in {"settle", "dial"} /\ (hook'.stage = "settle" <=> net.flag)
  BY <1>4 DEF Hooks
<1>6. TypesFit'
  BY <1>1, <1>4, <1>5 DEF TypesFit
<1>7. /\ IsJoin' <=> IsJoin
      /\ Joining' <=> Joining
      /\ JoinedPending' <=> JoinedPending
      /\ Reached' <=> Reached
  BY <1>4 DEF IsJoin, Joining, JoinedPending, Reached, Without
<1>8. ConnectionFits'
  <2>1. LinkFits'
    BY <1>1, <1>4, <1>5 DEF LinkFits
  <2>2. OneJoin'
    BY <1>1, <1>3, <1>4, <1>7 DEF OneJoin
  <2>3. GroupFits'
    BY <1>1, <1>3, <1>4, <1>7 DEF GroupFits
  <2> QED BY <1>5, <2>1, <2>2, <2>3 DEF ConnectionFits
<1> QED BY <1>4, <1>5, <1>6, <1>8, Away

LEMMA DialStep == ASSUME ViewerInv, Dial \/ DialFails PROVE ViewerInv'
<1>1. /\ TypesFit /\ LinkFits /\ OneJoin /\ GroupFits /\ net \in Nets /\ hook \in Hooks
      /\ page \in Pages
  BY DEF ViewerInv, ConnectionFits, TypesFit
<1>2. /\ hook.stage = "dial" /\ net.link = "off" /\ hook.tried
      /\ calls = <<>> /\ inbox = <<>> /\ serving = None /\ ~net.group
      /\ UNCHANGED <<allowed, party, fetches, ops, calls, inbox, serving>>
  BY <1>1 DEF Dial, DialFails, LinkFits, UnchangedByNet, Hooks
<1>3. ~Joining' /\ ~JoinedPending' /\ OneJoin'
  BY <1>2 DEF Joining, JoinedPending, IsJoin, OneJoin
<1>4. CASE Dial
  <2>1. /\ net' = [net EXCEPT !.link = "up", !.flag = TRUE, !.group = FALSE]
        /\ hook' = [hook EXCEPT !.stage = "settle"] /\ page' = page /\ drops' = drops
    BY <1>4 DEF Dial
  <2>2. /\ net' \in Nets /\ net'.link = "up" /\ net'.flag /\ ~net'.group
        /\ hook' \in Hooks /\ hook'.stage = "settle" /\ hook'.status = hook.status
        /\ hook'.tried
    BY <1>1, <1>2, <2>1 DEF Nets, Hooks
  <2>3. TypesFit'
    BY <1>1, <1>2, <2>1, <2>2 DEF TypesFit
  <2>4. Without({"early"})' => hook'.status # "connected"
    BY <1>2, <2>2 DEF ViewerInv, ConnectionFits, Without
  <2>5. ConnectionFits'
    <3>1. LinkFits'
      BY <1>2, <2>2 DEF LinkFits
    <3>2. GroupFits'
      BY <1>2, <1>3, <2>2 DEF GroupFits
    <3> QED BY <1>3, <2>4, <3>1, <3>2 DEF ConnectionFits
  <2> QED BY <1>2, <2>1, <2>2, <2>3, <2>4, <2>5, Away DEF Up
<1>5. CASE DialFails
  <2>1. hook' = Failed(hook) /\ page' = PageFailed /\ net' = net /\ Fault
    BY <1>5 DEF DialFails
  <2>2. /\ hook' \in Hooks /\ hook'.status = "disconnected" /\ hook'.stage = "none"
        /\ hook'.tried /\ page' \in Pages /\ page'.recent = page.recent /\ page'.list = page.list
    BY <1>1, <1>2, <2>1, Failing
  <2>3. drops' \in 0 .. MaxDrops
    BY <1>1, <2>1, Faults
  <2>4. TypesFit'
    BY <1>1, <1>2, <2>1, <2>2, <2>3 DEF TypesFit
  <2>5. ConnectionFits'
    <3>1. LinkFits'
      BY <1>1, <1>2, <2>1, <2>2 DEF LinkFits
    <3>2. GroupFits'
      BY <1>2, <1>3, <2>1 DEF GroupFits
    <3> QED BY <1>3, <2>2, <3>1, <3>2 DEF ConnectionFits
  <2> QED BY <1>2, <2>1, <2>2, <2>4, <2>5, Away
<1> QED BY <1>4, <1>5

LEMMA SettleStep == ASSUME ViewerInv, Settle PROVE ViewerInv'
<1>1. /\ TypesFit /\ LinkFits /\ OneJoin /\ GroupFits /\ net \in Nets /\ hook \in Hooks
      /\ page \in Pages /\ calls \in Seq(Calls)
  BY DEF ViewerInv, ConnectionFits, TypesFit
<1>2. /\ hook.stage = "settle" /\ hook.tried
      /\ UNCHANGED <<allowed, party, fetches, ops, inbox, serving, drops>>
  BY <1>1 DEF Settle, LinkFits, UnchangedByNet, Hooks
<1>3. CASE net.link = "up"
  <2> DEFINE v == calls \o <<"join">>
  <2>1. /\ net' = [net EXCEPT !.code = TRUE] /\ calls' = Append(calls, "join")
        /\ hook' = [hook EXCEPT !.stage = "join"] /\ page' = page
    BY <1>3 DEF Settle
  <2>2. /\ net' \in Nets /\ net'.link = "up" /\ net'.flag = net.flag /\ net'.code
        /\ net'.group = net.group
        /\ hook' \in Hooks /\ hook'.stage = "join" /\ hook'.status = hook.status /\ hook'.tried
    BY <1>1, <1>2, <1>3, <2>1 DEF Nets, Hooks
  <2>3. /\ calls' \in Seq(Calls) /\ Len(calls) \in Nat
        /\ \A i \in DOMAIN calls : i \in DOMAIN calls' /\ calls'[i] = calls[i]
        /\ Len(calls) + 1 \in DOMAIN calls' /\ calls'[Len(calls) + 1] = "join"
        /\ \A i \in DOMAIN calls' : i \in DOMAIN calls \/ i = Len(calls) + 1
    <3>1. "join" \in Calls
      BY DEF Calls
    <3>2. /\ v \in Seq(Calls) /\ Append(calls, "join") = v /\ Len(calls) \in Nat
          /\ \A i \in DOMAIN calls : i \in DOMAIN v /\ v[i] = calls[i]
          /\ Len(calls) + 1 \in DOMAIN v /\ v[Len(calls) + 1] = "join"
          /\ \A i \in DOMAIN v : i \in DOMAIN calls \/ i = Len(calls) + 1
      BY <1>1, <3>1, OneMore
    <3> HIDE DEF v
    <3> QED BY <2>1, <3>2
  <2>4. TypesFit'
    BY <1>1, <1>2, <2>1, <2>2, <2>3 DEF TypesFit
  <2>5. Without({"early"})' => hook'.status # "connected"
    BY <1>2, <2>2 DEF ViewerInv, ConnectionFits, Without
  <2>6. Joining' /\ (JoinedPending' <=> JoinedPending) /\ ~JoinedPending
    BY <1>1, <1>2, <2>3 DEF Joining, JoinedPending, OneJoin
  <2>7. ConnectionFits'
    <3>1. LinkFits'
      BY <1>1, <1>2, <1>3, <2>2 DEF LinkFits
    <3>2. OneJoin'
      <4>1. \A i \in DOMAIN calls' : calls'[i] = "join" => i = Len(calls) + 1
        BY <1>1, <1>2, <2>3 DEF OneJoin
      <4>2. serving' # None => serving'.call # "join"
        BY <1>1, <1>2 DEF OneJoin
      <4>3. \A i \in DOMAIN calls' : calls'[i] = "rejoin" => i \in DOMAIN calls /\ calls[i] = "rejoin"
        BY <2>3
      <4>4. \A i, j \in DOMAIN inbox' :
              inbox'[i].kind = "joined" /\ inbox'[j].kind = "joined" => i = j
        BY <2>6 DEF JoinedPending
      <4>5. \A i \in DOMAIN calls' : calls'[i] = "rejoin" =>
              i = 1 /\ serving' = None /\ ~net'.group
        BY <1>1, <1>2, <2>2, <4>3 DEF OneJoin
      <4> QED BY <1>1, <1>2, <2>2, <2>6, <4>1, <4>2, <4>4, <4>5 DEF OneJoin
    <3>3. GroupFits'
      BY <1>1, <1>2, <2>2, <2>6 DEF GroupFits, Reached, Without
    <3> QED BY <2>5, <3>1, <3>2, <3>3 DEF ConnectionFits
  <2> QED BY <1>2, <2>1, <2>2, <2>4, <2>5, <2>7, Away DEF Up
<1>4. CASE net.link # "up"
  <2>1. hook' = Failed(hook) /\ page' = PageFailed /\ net' = net /\ calls' = calls
    BY <1>4 DEF Settle
  <2>2. /\ hook' \in Hooks /\ hook'.status = "disconnected" /\ hook'.stage = "none"
        /\ hook'.tried /\ page' \in Pages /\ page'.recent = page.recent /\ page'.list = page.list
    BY <1>1, <1>2, <2>1, Failing
  <2>3. calls = <<>> /\ inbox = <<>> /\ serving = None
    BY <1>1, <1>4 DEF LinkFits
  <2>4. TypesFit'
    BY <1>1, <1>2, <2>1, <2>2 DEF TypesFit
  <2>5. ~Joining' /\ ~JoinedPending' /\ OneJoin'
    BY <1>2, <2>1, <2>3 DEF Joining, JoinedPending, IsJoin, OneJoin
  <2>6. ConnectionFits'
    <3>1. LinkFits'
      BY <1>1, <1>2, <1>4, <2>1, <2>2 DEF LinkFits
    <3>2. GroupFits'
      BY <1>1, <1>2, <1>4, <2>1, <2>5 DEF GroupFits, Reached, Without
    <3> QED BY <2>2, <2>5, <3>1, <3>2 DEF ConnectionFits
  <2> QED BY <1>2, <2>1, <2>2, <2>4, <2>6, Away
<1> QED BY <1>3, <1>4

LEMMA DropStep == ASSUME ViewerInv, Drop PROVE ViewerInv'
<1>1. /\ TypesFit /\ LinkFits /\ OneJoin /\ GroupFits /\ net \in Nets /\ hook \in Hooks
      /\ page \in Pages
  BY DEF ViewerInv, ConnectionFits, TypesFit
<1>2. /\ net.link = "up" /\ Fault
      /\ net.code \/ "deaf" \in allowed
      /\ net' = [net EXCEPT !.link = "retry", !.group = FALSE]
      /\ calls' = <<>> /\ inbox' = <<>> /\ serving' = None
      /\ IF hook.stage = "join"
         THEN hook' = Failed(hook) /\ page' = PageFailed
         ELSE UNCHANGED <<hook, page>>
      /\ UNCHANGED <<allowed, party, fetches, ops>>
  BY DEF Drop, UnchangedByNet
<1>3. /\ net' \in Nets /\ net'.link = "retry" /\ ~net'.group /\ net'.flag = net.flag
      /\ net'.code = net.code
  BY <1>1, <1>2 DEF Nets
<1>4. /\ hook' \in Hooks /\ hook'.stage # "join" /\ hook'.tried = hook.tried
      /\ hook'.stage = "none" \/ (hook'.stage = hook.stage /\ hook'.status = hook.status)
      /\ page' \in Pages /\ page'.recent = page.recent /\ page'.list = page.list
  <2>1. CASE hook.stage = "join"
    BY <1>1, <1>2, <2>1, Failing
  <2>2. CASE hook.stage # "join"
    BY <1>1, <1>2, <2>2
  <2> QED BY <2>1, <2>2
<1>5. drops' \in 0 .. MaxDrops
  BY <1>1, <1>2, Faults
<1>6. TypesFit'
  BY <1>1, <1>2, <1>3, <1>4, <1>5 DEF TypesFit
<1>7. ~Joining' /\ ~JoinedPending' /\ OneJoin'
  BY <1>2 DEF Joining, JoinedPending, IsJoin, OneJoin
<1>8. ConnectionFits'
  <2>1. LinkFits'
    BY <1>1, <1>2, <1>3, <1>4 DEF LinkFits
  <2>2. GroupFits'
    BY <1>2, <1>3, <1>7 DEF GroupFits, Reached, Without
  <2>3. Without({"early"})' /\ hook'.stage # "none" => hook'.status # "connected"
    BY <1>2, <1>4 DEF ViewerInv, ConnectionFits, Without
  <2> QED BY <1>7, <2>1, <2>2, <2>3 DEF ConnectionFits
<1>9. ~Up'
  BY <1>3 DEF Up
<1> QED BY <1>2, <1>3, <1>4, <1>6, <1>8, <1>9, Away

LEMMA RetryStep == ASSUME ViewerInv, Reconnected \/ GiveUp PROVE ViewerInv'
<1>1. /\ TypesFit /\ LinkFits /\ OneJoin /\ GroupFits /\ net \in Nets /\ hook \in Hooks
      /\ page \in Pages
  BY DEF ViewerInv, ConnectionFits, TypesFit
<1>2. /\ net.link = "retry" /\ hook.status # "connected" /\ ~net.group
      /\ calls = <<>> /\ inbox = <<>> /\ serving = None /\ hook.tried
      /\ hook.stage \in {"none", "settle"}
      /\ UNCHANGED <<allowed, party, fetches, ops, inbox, serving, hook, page>>
  BY <1>1 DEF Reconnected, GiveUp, UnchangedByNet, LinkFits, Hooks
<1>3. CASE Reconnected
  <2>1. /\ net' = [net EXCEPT !.link = "up", !.flag = TRUE] /\ drops' = drops
        /\ calls' = IF net.code THEN Append(calls, "rejoin") ELSE calls
    BY <1>3 DEF Reconnected
  <2>2. /\ net' \in Nets /\ net'.link = "up" /\ ~net'.group /\ net'.flag
        /\ net'.code = net.code
    BY <1>1, <1>2, <2>1 DEF Nets
  <2>3. /\ calls' \in Seq(Calls)
        /\ \A i \in DOMAIN calls' : i = 1 /\ calls'[i] = "rejoin" /\ net.code
        /\ net.code => 1 \in DOMAIN calls'
    <3>1. Append(<<>>, "rejoin") = <<"rejoin">> /\ <<"rejoin">> \in Seq(Calls)
      BY DEF Calls
    <3>2. /\ DOMAIN <<"rejoin">> = 1 .. 1 /\ <<"rejoin">>[1] = "rejoin"
          /\ \A i \in 1 .. 1 : i = 1
      OBVIOUS
    <3>3. <<>> \in Seq(Calls) /\ DOMAIN <<>> = {}
      OBVIOUS
    <3>4. CASE net.code
      <4>1. calls' = <<"rejoin">>
        BY <1>2, <2>1, <3>1, <3>4
      <4> QED BY <3>1, <3>2, <3>4, <4>1
    <3>5. CASE ~net.code
      BY <1>2, <2>1, <3>3, <3>5
    <3> QED BY <3>4, <3>5
  <2>4. TypesFit'
    BY <1>1, <1>2, <2>1, <2>2, <2>3 DEF TypesFit
  <2>5. /\ ~JoinedPending' /\ ~IsJoin'
        /\ Joining' <=> net.code
    BY <1>2, <2>3 DEF JoinedPending, Joining, IsJoin
  <2>6. ConnectionFits'
    <3>1. LinkFits'
      BY <1>2, <2>2 DEF LinkFits
    <3>2. OneJoin'
      BY <1>2, <2>2, <2>3, <2>5 DEF OneJoin
    <3>3. GroupFits'
      BY <1>1, <1>2, <2>2, <2>5 DEF GroupFits, Reached, Without
    <3> QED BY <1>2, <3>1, <3>2, <3>3 DEF ConnectionFits
  <2> QED BY <1>2, <2>2, <2>4, <2>6, Away
<1>4. CASE GiveUp
  <2>1. /\ net' = [net EXCEPT !.link = "off", !.flag = FALSE] /\ calls' = calls /\ Fault
    BY <1>4 DEF GiveUp
  <2>2. /\ net' \in Nets /\ net'.link = "off" /\ ~net'.group /\ ~net'.flag
    BY <1>1, <1>2, <2>1 DEF Nets
  <2>3. drops' \in 0 .. MaxDrops
    BY <1>1, <2>1, Faults
  <2>4. TypesFit'
    BY <1>1, <1>2, <2>1, <2>2, <2>3 DEF TypesFit
  <2>5. ~Joining' /\ ~JoinedPending' /\ OneJoin'
    BY <1>2, <2>1 DEF Joining, JoinedPending, IsJoin, OneJoin
  <2>6. ConnectionFits'
    <3>1. LinkFits'
      BY <1>2, <2>1, <2>2 DEF LinkFits
    <3>2. GroupFits'
      BY <1>2, <2>2, <2>5 DEF GroupFits
    <3> QED BY <1>2, <2>5, <3>1, <3>2 DEF ConnectionFits
  <2> QED BY <1>2, <2>2, <2>4, <2>6, Away
<1> QED BY <1>3, <1>4

(* The poll finds the connection: the page asks, in the group or behind    *)
(* the call that joins it.                                                 *)
LEMMA PollStep == ASSUME ViewerInv, Poll PROVE ViewerInv'
<1>1. /\ TypesFit /\ LinkFits /\ OneJoin /\ GroupFits /\ hook \in Hooks /\ page \in Pages
      /\ calls \in Seq(Calls)
  BY DEF ViewerInv, ConnectionFits, TypesFit
<1>2. UNCHANGED <<allowed, party, fetches, ops, inbox, serving, net, drops>>
  BY DEF Poll, UnchangedByNet
<1>3. CASE net.link # "up"
  <2>1. hook' = [hook EXCEPT !.status = "disconnected"] /\ calls' = calls /\ page' = page
    BY <1>3 DEF Poll, PageAsking, CallsAsking
  <2>2. /\ hook' \in Hooks /\ hook'.status = "disconnected" /\ hook'.stage = hook.stage
        /\ hook'.tried = hook.tried
    BY <1>1, <2>1 DEF Hooks
  <2>3. TypesFit'
    BY <1>1, <1>2, <2>1, <2>2 DEF TypesFit
  <2>4. calls = <<>> /\ inbox = <<>> /\ serving = None
    BY <1>1, <1>3 DEF LinkFits
  <2>5. ~Joining' /\ ~JoinedPending' /\ OneJoin'
    BY <1>2, <2>1, <2>4 DEF Joining, JoinedPending, IsJoin, OneJoin
  <2>6. ConnectionFits'
    <3>1. LinkFits'
      BY <1>1, <1>2, <2>1, <2>2 DEF LinkFits
    <3>2. GroupFits'
      BY <1>1, <1>2, <1>3, <2>2, <2>5 DEF GroupFits, Reached, Without
    <3> QED BY <2>2, <2>5, <3>1, <3>2 DEF ConnectionFits
  <2> QED BY <1>2, <2>1, <2>2, <2>3, <2>6, Away
<1>4. CASE net.link = "up"
  <2>1. /\ hook.status # "connected" /\ (hook.stage = "none" \/ "early" \in allowed)
        /\ hook' = [hook EXCEPT !.status = "connected"]
        /\ page' = PageAsking(page, hook'.status = "connected")
        /\ calls' = CallsAsking(hook'.status = "connected")
    BY <1>4 DEF Poll
  <2>2. /\ hook' \in Hooks /\ hook'.status = "connected" /\ hook'.stage = hook.stage
        /\ hook'.tried = hook.tried
    BY <1>1, <2>1 DEF Hooks
  <2>3. calls' = CallsAsking(TRUE) /\ page' = [page EXCEPT !.timer = "none"]
    <3>1. (hook'.status = "connected") = TRUE
      BY <2>2
    <3> QED BY <1>4, <2>1, <3>1 DEF PageAsking
  <2>4. /\ page' \in Pages /\ page'.timer = "none" /\ page'.recent = page.recent
        /\ page'.list = page.list
    BY <1>1, <2>3 DEF Pages
  <2>5. /\ calls' \in Seq(Calls)
        /\ \A i \in DOMAIN calls : i \in Nat /\ i \in DOMAIN calls' /\ calls'[i] = calls[i]
        /\ \A i \in DOMAIN calls' : i \in Nat /\ (i \in DOMAIN calls \/ calls'[i] = "state")
        /\ \E j \in DOMAIN calls' : /\ calls'[j] = "state"
                                    /\ \A i \in DOMAIN calls' : i < j \/ i = j
    <3>1. TRUE \in BOOLEAN
      OBVIOUS
    <3> QED BY <1>1, <1>4, <2>3, <3>1, Asking
  <2>6. TypesFit'
    BY <1>1, <1>2, <2>2, <2>4, <2>5 DEF TypesFit
  <2>7. /\ IsJoin' <=> IsJoin
        /\ Joining' <=> Joining
        /\ JoinedPending' <=> JoinedPending
        /\ Reached' <=> Reached
        /\ Up' <=> Up
        /\ OnAir' <=> OnAir
    <3>1. Joining' <=> Joining
      BY <1>2, <2>5 DEF Joining, IsJoin
    <3> QED BY <1>2, <3>1 DEF IsJoin, JoinedPending, Reached, Without, Up, OnAir, StatusOf
  <2>8. ConnectionFits'
    <3>1. LinkFits'
      BY <1>1, <1>2, <1>4, <2>2 DEF LinkFits
    <3>2. OneJoin'
      <4>1. \A i \in DOMAIN calls' : calls'[i] # "state" => i \in DOMAIN calls /\ calls'[i] = calls[i]
        BY <2>5
      <4>2. \A i, j \in DOMAIN calls' : calls'[i] = "join" /\ calls'[j] = "join" => i = j
        BY <1>1, <4>1 DEF OneJoin
      <4>3. \A i \in DOMAIN calls' : calls'[i] = "join" =>
              hook'.stage = "join" /\ ~JoinedPending' /\ (serving' # None => serving'.call # "join")
        BY <1>1, <1>2, <2>2, <2>7, <4>1 DEF OneJoin
      <4>4. \A i \in DOMAIN calls' : calls'[i] = "rejoin" =>
              i = 1 /\ serving' = None /\ ~net'.group
        BY <1>1, <1>2, <4>1 DEF OneJoin
      <4> QED BY <1>1, <1>2, <2>2, <2>7, <4>2, <4>3, <4>4 DEF OneJoin
    <3>3. GroupFits'
      BY <1>1, <1>2, <2>2, <2>7 DEF GroupFits
    <3>4. Without({"early"})' => hook'.stage = "none"
      BY <1>2, <2>1, <2>2 DEF Without
    <3> QED BY <3>1, <3>2, <3>3, <3>4 DEF ConnectionFits
  <2>9. Up => WillAsk'
    <3> SUFFICES ASSUME Up PROVE WillAsk'
      OBVIOUS
    <3>1. PICK j \in DOMAIN calls' : calls'[j] = "state" /\ \A i \in DOMAIN calls' : i < j \/ i = j
      BY <2>5
    <3>2. CASE net.group
      BY <1>2, <3>1, <3>2 DEF WillAsk, Asked
    <3>3. CASE ~net.group
      <4>1. Joining
        BY <1>1, <2>1, <3>3 DEF GroupFits, Up, Without
      <4>2. CASE IsJoin
        BY <1>2, <2>7, <3>1, <3>3, <4>2 DEF WillAsk, Asked
      <4>3. CASE \E i \in DOMAIN calls : calls[i] # "state"
        <5>1. PICK i \in DOMAIN calls : calls[i] # "state"
          BY <4>3
        <5>2. i \in DOMAIN calls' /\ calls'[i] # "state" /\ i < j
          BY <2>5, <3>1, <5>1
        <5> QED BY <1>2, <3>1, <3>3, <5>2 DEF WillAsk
      <4> QED BY <4>1, <4>2, <4>3 DEF Joining
    <3> QED BY <3>2, <3>3
  <2>10. net.link = "up" /\ allowed = {} => Up
    BY DEF Up, Reached, Without
  <2>11. GroupComes' /\ StatusComes' /\ ListComes' /\ PlayComes'
    BY <1>2, <2>7, <2>9, <2>10 DEF GroupComes, StatusComes, ListComes, PlayComes
  <2>12. ReadIsTrue' /\ FetchFollows'
    BY <1>2, <2>4 DEF ViewerInv, ReadIsTrue, FetchFollows, Pending, Without, StateOf, StatusOf
  <2>13. TimersFit'
    BY <1>2, <2>4, <2>7 DEF ViewerInv, TimersFit, TimersTold, LastIn, NoneIn
  <2> QED BY <2>6, <2>8, <2>11, <2>12, <2>13 DEF ViewerInv
<1> QED BY <1>3, <1>4
-----------------------------------------------------------------------------
(* The invariant.                                                          *)

LEMMA InitViewerInvariant == Init => ViewerInv
<1> SUFFICES ASSUME Init PROVE ViewerInv
  OBVIOUS
<1>1. /\ serving = None /\ calls = <<>> /\ inbox = <<>> /\ ops = 0 /\ drops = 0
      /\ net = [link |-> "off", group |-> FALSE, flag |-> FALSE, code |-> FALSE]
      /\ hook = [status |-> "disconnected", stage |-> "none", first |-> FALSE, tried |-> FALSE]
      /\ page = [status |-> None, playing |-> FALSE, timer |-> "none", list |-> None,
                 loading |-> TRUE, error |-> FALSE, reachable |-> TRUE, recent |-> TRUE]
      /\ fetches = [i \in 1 .. 2 |-> IF i = 1 THEN [silent |-> FALSE, info |-> TRUE] ELSE None]
      /\ allowed \in Scenarios
  BY DEF Init
<1>2. party \in Parties /\ party.list = 0
  <2>1. PICK on \in BOOLEAN :
          party = [life |-> "Ready", organizer |-> on, mark |-> "never", list |-> 0,
                   session |-> IF on THEN Started(NoSession, TRUE) ELSE NoSession]
    BY DEF Init
  <2>2. Started(NoSession, TRUE) \in Session
    BY Sessions
  <2> QED BY <2>1, <2>2 DEF Parties
<1>3. TypesFit
  <2>1. page \in Pages /\ page.list = None
    BY <1>1, ViewerAssumption DEF Pages
  <2>2. fetches \in Fetches
    BY <1>1 DEF Fetches, Fetch
  <2>3. net \in Nets /\ hook \in Hooks
    BY <1>1 DEF Nets, Hooks
  <2>4. ops \in 0 .. MaxOps /\ drops \in 0 .. MaxDrops
    BY <1>1, ViewerAssumption
  <2> QED BY <1>1, <1>2, <2>1, <2>2, <2>3, <2>4 DEF TypesFit
<1>4. net.link = "off" /\ hook.status = "disconnected" /\ hook.stage = "none" /\ ~net.flag /\ ~net.group
  BY <1>1
<1>5. ~Joining /\ ~JoinedPending /\ OneJoin
  BY <1>1 DEF Joining, JoinedPending, IsJoin, OneJoin
<1>6. ConnectionFits
  BY <1>1, <1>4, <1>5 DEF ConnectionFits, LinkFits, GroupFits
<1>7. ReadIsTrue /\ FetchFollows
  BY <1>1 DEF ReadIsTrue, FetchFollows, Pending
<1> QED BY <1>3, <1>4, <1>6, <1>7
        DEF ViewerInv, GroupComes, StatusComes, ListComes, PlayComes, TimersFit, Up

LEMMA KeptViewerInvariant == ViewerInv /\ [Next]_vars => ViewerInv'
<1> SUFFICES ASSUME ViewerInv, [Next]_vars PROVE ViewerInv'
  OBVIOUS
<1>1. CASE Organize \/ OrganizerJoins \/ OrganizerLeaves \/ GraceEnds \/ Complete \/ SavePlaylist
  BY <1>1, PartyChangeStep
<1>2. CASE Server \/ RefuseJoin
  BY <1>2, ReadStep, AnswerJoinStep, AnswerStateStep, RefuseJoinStep DEF Server
<1>3. CASE Browser
  BY <1>3, ReceiveStep, PlaylistChangedStep, JoinedStep DEF Browser
<1>4. CASE \/ TimerFires \/ TwoSecondsPass \/ Retry
           \/ \E i \in 1 .. 2 : FetchDone(i) \/ FetchFails(i)
  BY <1>4, PageStep
<1>5. CASE Connecting \/ DialFails
  BY <1>5, BeginConnectStep, DialStep, SettleStep DEF Connecting
<1>6. CASE Drop \/ Reconnected \/ GiveUp \/ Poll
  BY <1>6, DropStep, RetryStep, PollStep
<1>7. CASE UNCHANGED vars
  <2>1. /\ UNCHANGED <<allowed, party, serving, net, calls, inbox, hook, ops>>
        /\ page' = page /\ fetches' = fetches /\ drops' = drops
    BY <1>7 DEF vars
  <2>2. TypesFit
    BY DEF ViewerInv
  <2> QED BY <2>1, <2>2, FetchStep DEF TypesFit
<1> QED BY <1>1, <1>2, <1>3, <1>4, <1>5, <1>6, <1>7 DEF Next

(* The invariant holds whatever races may happen together and however      *)
(* often the party changes and the connection breaks.                      *)
THEOREM ViewerInvariantHolds == Spec => []ViewerInv
<1>1. Init => ViewerInv
  BY InitViewerInvariant
<1>2. ViewerInv /\ [Next]_vars => ViewerInv'
  BY KeptViewerInvariant
<1> QED BY <1>1, <1>2, PTL DEF Spec

(* What the server, the page and the connection hold is what their types   *)
(* say: connect() is at one of its stages, and nothing is on its way over  *)
(* a connection that is not up.                                            *)
THEOREM ViewerTypesHold == Spec => []ViewerTypeOK
<1>1. ViewerInv => ViewerTypeOK
  <2> SUFFICES ASSUME ViewerInv PROVE ViewerTypeOK
    OBVIOUS
  <2>1. TypesFit /\ LinkFits
    BY DEF ViewerInv, ConnectionFits
  <2>2. party.list \in 0 .. MaxOps /\ page.list \in 0 .. MaxOps \cup {None}
    <3>1. /\ party.list \in Nat /\ party.list <= ops /\ ops \in 0 .. MaxOps /\ MaxOps \in Nat
          /\ page.list \in Nat \cup {None} /\ (page.list # None => page.list <= ops)
      BY <2>1, ViewerAssumption DEF TypesFit, Parties, Pages
    <3> QED BY <3>1
  <2>3. party \in [life : {"Ready", "Completed"}, session : Session \cup {NoSession},
                   organizer : BOOLEAN, mark : {"never", "within", "past"}, list : 0 .. MaxOps]
    BY <2>1, <2>2 DEF TypesFit, Parties
  <2>4. page \in [status : DisplayStatuses \cup {None}, playing : BOOLEAN,
                  timer : {"none", "end", "freeze"}, list : 0 .. MaxOps \cup {None},
                  loading : BOOLEAN, error : BOOLEAN, reachable : BOOLEAN, recent : BOOLEAN]
    BY <2>1, <2>2 DEF TypesFit, Pages
  <2>5. \A i \in DOMAIN inbox : inbox[i] \in Message
    BY <2>1 DEF TypesFit
  <2> QED BY <2>1, <2>3, <2>4, <2>5 DEF ViewerTypeOK, TypesFit, LinkFits, Calls, Nets, Hooks, Fetches
<1> QED BY <1>1, ViewerInvariantHolds, PTL

(* Nothing is on its way: what the invariant says is about the page.       *)
LEMMA QuietFacts ==
  ASSUME ViewerInv, Quiet
  PROVE  /\ hook.status = "connected" /\ net.link = "up" /\ ~WillAsk /\ ~Reading
         /\ \A bears : NoneIn(inbox, bears)
         /\ \A i \in 1 .. 2 : fetches[i] = None
         /\ Reached => net.group
<1>1. /\ net.link = "up" /\ hook.status = "connected" /\ hook.stage = "none"
      /\ calls = <<>> /\ inbox = <<>> /\ serving = None
      /\ \A i \in 1 .. 2 : fetches[i] = None
  BY DEF Quiet, FreeSlot
<1>2. ~Joining /\ ~WillAsk /\ ~Reading
  BY <1>1 DEF Joining, IsJoin, WillAsk, Asked, Reading
<1>3. \A bears : NoneIn(inbox, bears)
  BY <1>1 DEF NoneIn
<1>4. Reached => net.group
  BY <1>1, <1>2 DEF ViewerInv, ConnectionFits, GroupFits
<1> QED BY <1>1, <1>2, <1>3, <1>4

(* A page that is connected hears of the party: useSignalR joins it after  *)
(* every connection, signalRService joins it again after a reconnect, and  *)
(* no call is forgotten in between.                                        *)
THEOREM ConnectedPagesAreJoined == Spec => []ConnectedMeansJoined
<1>1. ViewerInv => ConnectedMeansJoined
  BY QuietFacts DEF ConnectedMeansJoined
<1> QED BY <1>1, ViewerInvariantHolds, PTL

(* A page at rest shows the party's status and its playlist: messages and  *)
(* answers come in the order in which the server read and changed the      *)
(* party, and the full state is asked for after every join.                *)
THEOREM QuietPagesAreRight == Spec => []QuietPageIsRight
<1>1. ViewerInv => QuietPageIsRight
  <2> SUFFICES ASSUME ViewerInv, Quiet, allowed = {}
               PROVE  page.status = StatusOf(party) /\ page.list = party.list
    BY DEF QuietPageIsRight
  <2>1. /\ net.link = "up" /\ ~WillAsk /\ ~Reading /\ NoneIn(inbox, StatusBears)
        /\ NoneIn(inbox, ListBears) /\ \A i \in 1 .. 2 : fetches[i] = None
    BY QuietFacts
  <2>2. Up /\ Without({"state"})
    BY <2>1 DEF Up, Reached, Without
  <2>3. page.status = StatusOf(party)
    BY <2>1, <2>2 DEF ViewerInv, StatusComes, StatusTold
  <2>4. page.list = party.list
    BY <2>1 DEF ViewerInv, ListComes, ListTold
  <2> QED BY <2>3, <2>4
<1> QED BY <1>1, ViewerInvariantHolds, PTL

(* A timer that was set for the organizer's absence or for the end of an   *)
(* earlier session is stopped, or what it cleared is sent again, before    *)
(* the page of a live party comes to rest.                                 *)
THEOREM LivePagesHavePlayback == Spec => []LiveHasPlayback
<1>1. ViewerInv => LiveHasPlayback
  <2> SUFFICES ASSUME ViewerInv, Quiet, Reached, Without({"early"}), OnAir
               PROVE  page.playing
    BY DEF LiveHasPlayback, OnAir
  <2>1. net.link = "up" /\ ~WillAsk /\ ~Reading /\ NoneIn(inbox, PlayBears)
    BY QuietFacts
  <2> QED BY <2>1 DEF ViewerInv, PlayComes, PlayTold, Up
<1> QED BY <1>1, ViewerInvariantHolds, PTL

(* Once the session is over and the timers have run out, the status the    *)
(* page was told keeps the player away.                                    *)
THEOREM NoPlayerIsLeft == Spec => []NoPlayerOffAir
<1>1. ViewerInv => NoPlayerOffAir
  <2> SUFFICES ASSUME ViewerInv, Quiet, Reached, Without({"early", "state"}),
                      page.timer = "none", ~HasEffectiveActiveSession(party.session)
               PROVE  ~ShowsPlayer
    BY DEF NoPlayerOffAir
  <2>1. net.link = "up" /\ ~WillAsk /\ ~Reading /\ NoneIn(inbox, StatusBears)
    BY QuietFacts
  <2>2. Up /\ Without({"state"})
    BY <2>1 DEF Up, Without
  <2>3. page.status = StatusOf(party)
    BY <2>1, <2>2 DEF ViewerInv, StatusComes, StatusTold
  <2>4. party \in Parties /\ page.status \in DisplayStatuses
    BY <2>3, Statuses DEF ViewerInv, TypesFit
  <2>5. page.status \notin {"Live", "OrganizerOffline"} /\ page.status # None
    BY <2>3, <2>4, StatusFacts, ViewerAssumption
  <2> QED BY <2>5 DEF ShowsPlayer, ViewerStatus
<1> QED BY <1>1, ViewerInvariantHolds, PTL
=============================================================================
