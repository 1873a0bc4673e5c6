-------------------------- MODULE PartyCatalogProofs --------------------------
(***************************************************************************)
(* The safety properties of PartyCatalog, for any number of parties,       *)
(* requests, codes and playlists, any limit, enforced or not.              *)
(*                                                                         *)
(* The inductive invariant says what a request may be doing and for which  *)
(* party (RequestsFit), that a party is created once (CreatedOnce), that   *)
(* whoever was granted a future slot still finds it free (Granted), and    *)
(* that a request whose EF context already holds what it asks for has been *)
(* seen to have its way (KnownIsShown).                                    *)
(***************************************************************************)
EXTENDS PartyCatalog, FiniteSetTheorems, TLAPS

(* The request has its party in the EF context.                            *)
Tracking == {"found", "relist"}

(* A counted request holds the lock until it has written; the second write *)
(* follows only a request that names the visibility and finds its own card *)
(* in the EF context; all but a creation are about a stored party.         *)
RequestFits(r) ==
    /\ lock = r <=>
         \/ req[r].stage = "granted"
         \/ req[r].stage = "found" /\ req[r].kind = "metadata" /\ Enforce
    /\ req[r].stage = "granted" => Enforce /\ req[r].kind \in {"create", "metadata"}
    /\ req[r].stage \in Tracking => req[r].kind # "create" /\ req[r].tracked \in Row
    /\ req[r].stage = "relist" =>
         /\ Enforce /\ req[r].kind = "metadata" /\ req[r].names
         /\ req[r].tracked.date = req[r].copy.date
    /\ req[r].kind = "visibility" => req[r].names
    /\ req[r].kind = "playlist" => ~req[r].names
RequestsFit ==
    \A r \in Request : Busy(r) =>
        RequestFits(r) /\ (req[r].kind = "create" <=> ~Exists(req[r].party))

(* Nobody else works on a party that is being created.                     *)
CreatedOnce ==
    \A r, s \in Request :
        Busy(r) /\ Busy(s) /\ req[r].party = req[s].party /\ req[r].kind = "create" => r = s

(* The holder of the lock was counted: its party fits under the limit.     *)
Granted ==
    Enforce /\ ~slipped /\ lock # NoRequest =>
        LET p == req[lock].party IN
        req[lock].kind = "create" \/ (Alive(p) /\ CountsAsFuture(req[lock].copy.date))
          => Cardinality(Future \cup {p}) <= MaxFuture

(* What a request read as it asks for it was so when it read it.           *)
KnownIsShown ==
    \A r \in Request :
        Busy(r) /\ req[r].stage \in Tracking /\ AsAsked(req[r], req[r].tracked) => r \in shown

CatalogInv ==
    /\ CatalogTypeOK
    /\ RequestsFit
    /\ CreatedOnce
    /\ UniqueCodes
    /\ LimitHolds
    /\ Granted
    /\ KnownIsShown
-----------------------------------------------------------------------------
(* What a request does to the tables.                                      *)

(* The rows the repository's updates make of the one in the EF context.    *)
LEMMA Rewritten ==
    ASSUME NEW row \in Row, NEW copy \in Row
    PROVE  /\ UpdateAsync(row, copy) \in Row
           /\ UpdateAsync(row, copy).date = copy.date
           /\ UpdateAsync(row, copy).listed = row.listed
           /\ UpdateAsync(row, copy).songs = copy.songs
           /\ \A names \in BOOLEAN :
                LET new == UpdateMetadataAsync(row, copy, names) IN
                /\ new \in Row /\ new.date = copy.date /\ new.songs = row.songs
                /\ new.listed = IF names THEN copy.listed ELSE row.listed
           /\ LET new == [row EXCEPT !.listed = copy.listed] IN
                new \in Row /\ new.date = row.date /\ new.songs = row.songs
                /\ new.listed = copy.listed
BY DEF Row, UpdateAsync, UpdateMetadataAsync, ApplyTo

(* A request under way is a typed record, its party and its copy are, too. *)
LEMMA Works ==
    ASSUME CatalogTypeOK, NEW r \in Request, Busy(r)
    PROVE  /\ req[r] \in Work /\ req[r].party \in Party
           /\ req[r].copy \in Row /\ req[r].names \in BOOLEAN
BY DEF CatalogTypeOK, Busy, Work

LEMMA RowsTyped ==
    ASSUME CatalogTypeOK, NEW p \in Party, Exists(p)
    PROVE  rows[p] \in Row
BY DEF CatalogTypeOK, Exists

(* SaveChanges touches one row, and of that the columns that differ.       *)
LEMMA Saves ==
    ASSUME CatalogTypeOK, NEW p \in Party, Exists(p), NEW tracked \in Row, NEW new \in Row,
           SaveChanges(p, tracked, new)
    PROVE  /\ rows' \in [Party -> Row \cup {NoRow}]
           /\ \A q \in Party : q # p => rows'[q] = rows[q]
           /\ rows'[p] \in Row /\ rows'[p].alive = rows[p].alive
           /\ rows'[p].code = rows[p].code
           /\ rows'[p].date = Sent(rows[p].date, tracked.date, new.date)
           /\ rows'[p].listed = Sent(rows[p].listed, tracked.listed, new.listed)
           /\ rows'[p].songs = Sent(rows[p].songs, tracked.songs, new.songs)
<1> DEFINE row == Merged(rows[p], tracked, new)
<1>1. rows[p] \in Row
  BY RowsTyped
<1>2. rows' = [rows EXCEPT ![p] = row]
  BY DEF SaveChanges
<1>3. /\ row \in Row /\ row.alive = rows[p].alive /\ row.code = rows[p].code
      /\ row.date = Sent(rows[p].date, tracked.date, new.date)
      /\ row.listed = Sent(rows[p].listed, tracked.listed, new.listed)
      /\ row.songs = Sent(rows[p].songs, tracked.songs, new.songs)
  BY <1>1 DEF Row, Sent, Merged
<1> HIDE DEF row
<1>4. /\ rows' \in [Party -> Row \cup {NoRow}] /\ rows'[p] = row
      /\ \A q \in Party : q # p => rows'[q] = rows[q]
  BY <1>2, <1>3 DEF CatalogTypeOK
<1> QED BY <1>3, <1>4

(* A new request.                                                          *)
LEMMA Begun ==
    ASSUME CatalogTypeOK, NEW r \in Request, NEW p \in Party, NEW copy \in Row,
           NEW names \in BOOLEAN,
           NEW kind \in {"create", "metadata", "playlist", "visibility"},
           Begin(r, kind, p, copy, names)
    PROVE  /\ req' \in [Request -> Work \cup {Idle}]
           /\ \A s \in Request : s # r => req'[s] = req[s]
           /\ ~Busy(r) /\ Busy(r)'
           /\ req'[r].kind = kind /\ req'[r].stage = "checked" /\ req'[r].party = p
           /\ req'[r].copy = copy /\ req'[r].names = names
           /\ UNCHANGED <<rows, lock, slipped>>
<1> DEFINE w == [kind |-> kind, stage |-> "checked", party |-> p, copy |-> copy,
                 names |-> names, tracked |-> NoRow]
<1>1. w \in Work
  BY DEF Work
<1>2. w # Idle
  BY <1>1, RecordAssumption
<1>3. req' = [req EXCEPT ![r] = w]
  BY DEF Begin
<1> HIDE DEF w
<1>4. req' \in [Request -> Work \cup {Idle}] /\ req'[r] = w
  BY <1>1, <1>3 DEF CatalogTypeOK
<1>5. \A s \in Request : s # r => req'[s] = req[s]
  BY <1>3 DEF CatalogTypeOK
<1> QED BY <1>2, <1>4, <1>5 DEF Begin, Busy, w

(* Every arrival begins a request that fits.                               *)
LEMMA Arrivals ==
    ASSUME CatalogTypeOK, NEW r \in Request, Arrive(r)
    PROVE  \E kind \in {"create", "metadata", "playlist", "visibility"},
              p \in Party, copy \in Row, names \in BOOLEAN :
             /\ Begin(r, kind, p, copy, names)
             /\ kind = "visibility" => names
             /\ kind = "playlist" => ~names
             /\ kind = "create" => \A s \in Request : Busy(s) => req[s].party # p
             /\ kind = "create" <=> ~Exists(p)
<1>1. PICK p \in Party, date \in Date, flag \in BOOLEAN, listed \in BOOLEAN :
        \/ \E c \in Code, songs \in Playlist : BeginCreate(r, p, date, listed, c, songs)
        \/ \E names \in BOOLEAN : BeginMetadata(r, p, flag, date, names, listed)
        \/ \E songs \in Playlist : BeginPlaylist(r, p, songs)
        \/ BeginVisibility(r, p, listed)
  BY DEF Arrive
<1>2. Alive(p) => rows[p] \in Row /\ Exists(p)
  BY RowsTyped DEF Alive
<1>3. CASE \E c \in Code, songs \in Playlist : BeginCreate(r, p, date, listed, c, songs)
  <2> PICK c \in Code, songs \in Playlist : BeginCreate(r, p, date, listed, c, songs)
    BY <1>3
  <2> DEFINE copy == [alive |-> TRUE, code |-> c, date |-> date, listed |-> listed,
                      songs |-> songs]
  <2>1. copy \in Row
    BY DEF Row
  <2> QED BY <2>1 DEF BeginCreate
<1>4. CASE \E names \in BOOLEAN : BeginMetadata(r, p, flag, date, names, listed)
  <2> PICK names \in BOOLEAN : BeginMetadata(r, p, flag, date, names, listed)
    BY <1>4
  <2> DEFINE copy == [rows[p] EXCEPT !.date = IF flag THEN @ ELSE date,
                                     !.listed = IF names THEN listed ELSE @]
  <2>1. copy \in Row
    BY <1>2 DEF Row, BeginMetadata
  <2> QED BY <1>2, <2>1 DEF BeginMetadata
<1>5. CASE \E songs \in Playlist : BeginPlaylist(r, p, songs)
  <2> PICK songs \in Playlist : BeginPlaylist(r, p, songs)
    BY <1>5
  <2>1. [rows[p] EXCEPT !.songs = songs] \in Row
    BY <1>2 DEF Row, BeginPlaylist
  <2> QED BY <1>2, <2>1 DEF BeginPlaylist
<1>6. CASE BeginVisibility(r, p, listed)
  <2>1. [rows[p] EXCEPT !.listed = listed] \in Row
    BY <1>2, <1>6 DEF Row, BeginVisibility
  <2> QED BY <1>2, <1>6, <2>1 DEF BeginVisibility
<1> QED BY <1>1, <1>3, <1>4, <1>5, <1>6
(* What a step of a request leaves of it, and what it may do to the lock.  *)
Advances(r) ==
    /\ Busy(r)
    /\ req' \in [Request -> Work \cup {Idle}]
    /\ \A s \in Request : s # r => req'[s] = req[s]
    /\ \/ /\ req'[r] = Idle
          /\ lock' = IF lock = r THEN NoRequest ELSE lock
       \/ /\ TakeLockAndCount(r) /\ ~OverLimit(r)
          /\ req'[r] = [req[r] EXCEPT !.stage = "granted"] /\ Busy(r)'
          /\ lock = NoRequest /\ lock' = r
          /\ Enforce /\ req[r].kind \in {"create", "metadata"}
       \/ /\ Find(r) /\ Alive(req[r].party)
          /\ req'[r] = [req[r] EXCEPT !.stage = "found", !.tracked = rows[req[r].party]]
          /\ Busy(r)' /\ lock' = lock
       \/ /\ WriteLimited(r) /\ req[r].names
          /\ req'[r] = [req[r] EXCEPT !.stage = "relist",
                                     !.tracked = UpdateAsync(@, req[r].copy)]
          /\ Busy(r)' /\ req[r].kind = "metadata"
          /\ lock' = IF lock = r THEN NoRequest ELSE lock

LEMMA Advanced ==
    ASSUME CatalogTypeOK, RequestsFit, NEW r \in Request, Proceed(r)
    PROVE  Advances(r)
<1>1. Busy(r)
  BY DEF Proceed, TakeLockAndCount, InsertParty, Find, Found, WriteMetadata, WriteLimited,
         WriteListed, WritePlaylist, WriteVisibility
<1>2. req[r] \in Work /\ req[r].party \in Party /\ req[r].copy \in Row
  BY <1>1, Works
<1>3. ASSUME Answer(r)
      PROVE  /\ req' \in [Request -> Work \cup {Idle}] /\ req'[r] = Idle
             /\ \A s \in Request : s # r => req'[s] = req[s]
  BY <1>3 DEF Answer, CatalogTypeOK
<1>4. ASSUME NEW w \in Work, req' = [req EXCEPT ![r] = w]
      PROVE  /\ req' \in [Request -> Work \cup {Idle}]
             /\ req'[r] = w /\ Busy(r)'
             /\ \A s \in Request : s # r => req'[s] = req[s]
  BY <1>4, RecordAssumption DEF CatalogTypeOK, Busy
<1>5. CASE TakeLockAndCount(r)
  <2>1. CASE OverLimit(r)
    BY <1>1, <1>3, <1>5, <2>1, CatalogAssumption DEF TakeLockAndCount, Advances
  <2>2. CASE ~OverLimit(r)
    <3>1. [req[r] EXCEPT !.stage = "granted"] \in Work
      BY <1>2 DEF Work
    <3>2. req' = [req EXCEPT ![r] = [req[r] EXCEPT !.stage = "granted"]]
      BY <1>5, <2>2 DEF TakeLockAndCount
    <3> QED BY <1>1, <1>4, <1>5, <2>2, <3>1, <3>2 DEF TakeLockAndCount, Advances
  <2> QED BY <2>1, <2>2
<1>6. CASE InsertParty(r)
  BY <1>1, <1>3, <1>6 DEF InsertParty, EndTransaction, Advances
<1>7. CASE Find(r)
  <2>1. CASE ~Alive(req[r].party)
    BY <1>1, <1>3, <1>7, <2>1 DEF Find, EndTransaction, Advances
  <2>2. CASE Alive(req[r].party)
    <3> DEFINE w == [req[r] EXCEPT !.stage = "found", !.tracked = rows[req[r].party]]
    <3>1. w \in Work
      BY <1>2, <2>2, RowsTyped DEF Work, Alive
    <3>2. req' = [req EXCEPT ![r] = w]
      BY <1>7, <2>2 DEF Find
    <3>3. req' \in [Request -> Work \cup {Idle}] /\ req'[r] = w /\ Busy(r)'
          /\ \A s \in Request : s # r => req'[s] = req[s]
      BY <1>4, <3>1, <3>2
    <3> QED BY <1>1, <1>7, <2>2, <3>3 DEF Find, Advances
  <2> QED BY <2>1, <2>2
<1>8. CASE WriteLimited(r)
  <2>1. CASE req[r].names
    <3> DEFINE new == UpdateAsync(req[r].tracked, req[r].copy)
               w == [req[r] EXCEPT !.stage = "relist", !.tracked = new]
    <3>1. new \in Row
      BY <1>1, <1>2, <1>8, Rewritten DEF WriteLimited, Found, RequestsFit, RequestFits, Tracking
    <3>2. w \in Work
      BY <1>2, <3>1 DEF Work
    <3>3. req' = [req EXCEPT ![r] = w]
      BY <1>8, <2>1 DEF WriteLimited
    <3>4. req' \in [Request -> Work \cup {Idle}] /\ req'[r] = w /\ Busy(r)'
          /\ \A s \in Request : s # r => req'[s] = req[s]
      BY <1>4, <3>2, <3>3
    <3> QED BY <1>1, <1>8, <2>1, <3>4 DEF WriteLimited, Found, EndTransaction, Advances
  <2>2. CASE ~req[r].names
    BY <1>1, <1>3, <1>8, <2>2 DEF WriteLimited, EndTransaction, Advances
  <2> QED BY <2>1, <2>2
<1>9. CASE WriteMetadata(r) \/ WriteListed(r) \/ WritePlaylist(r) \/ WriteVisibility(r)
  <2>1. lock # r
    BY <1>1, <1>9 DEF RequestsFit, RequestFits, WriteMetadata, WriteListed, WritePlaylist,
       WriteVisibility, Found
  <2> QED BY <1>1, <1>3, <1>9, <2>1 DEF WriteMetadata, WriteListed, WritePlaylist,
             WriteVisibility, Advances
<1> QED BY <1>5, <1>6, <1>7, <1>8, <1>9 DEF Proceed
(* What the request in EF's context becomes at its next SaveChanges.       *)
New(r) ==
    LET w == req[r] IN
    CASE w.stage = "relist" -> UpdateMetadataAsync(w.tracked, w.copy, TRUE)
      [] w.stage # "relist" /\ w.kind = "metadata" /\ ~Enforce ->
           UpdateMetadataAsync(w.tracked, w.copy, w.names)
      [] w.stage # "relist" /\ w.kind = "visibility" ->
           [w.tracked EXCEPT !.listed = w.copy.listed]
      [] OTHER -> UpdateAsync(w.tracked, w.copy)

Writes(r) ==
    /\ req[r].stage \in Tracking
    /\ SaveChanges(req[r].party, req[r].tracked, New(r))
    /\ \/ WriteMetadata(r) \/ WriteLimited(r) \/ WriteListed(r)
       \/ WritePlaylist(r) \/ WriteVisibility(r)

(* A request inserts its party, saves what it changed of it, or reads.     *)
LEMMA Touches ==
    ASSUME CatalogTypeOK, RequestsFit, NEW r \in Request, Proceed(r)
    PROVE  \/ InsertParty(r) \/ Writes(r)
           \/ UNCHANGED <<rows, slipped>> /\ (Find(r) \/ TakeLockAndCount(r) \/ WriteListed(r))
<1>1. CASE WriteMetadata(r)
  BY <1>1 DEF WriteMetadata, Found, Writes, New, Tracking
<1>2. CASE WriteLimited(r)
  BY <1>2 DEF WriteLimited, Found, Writes, New, Tracking
<1>3. CASE WriteListed(r)
  BY <1>3 DEF WriteListed, Writes, New, Tracking
<1>4. CASE WritePlaylist(r)
  BY <1>4 DEF WritePlaylist, Found, Writes, New, Tracking
<1>5. CASE WriteVisibility(r)
  BY <1>5 DEF WriteVisibility, Found, Writes, New, Tracking
<1>6. CASE Find(r) \/ TakeLockAndCount(r)
  BY <1>6 DEF Find, TakeLockAndCount
<1> QED BY <1>1, <1>2, <1>3, <1>4, <1>5, <1>6 DEF Proceed

(* The columns that a SaveChanges leaves, each by who may change it.       *)
LEMMA Written ==
    ASSUME CatalogTypeOK, RequestsFit, NEW r \in Request, Busy(r), Writes(r)
    PROVE  LET p == req[r].party
               w == req[r] IN
           /\ p \in Party /\ Exists(p) /\ w.tracked \in Row
           /\ rows' \in [Party -> Row \cup {NoRow}]
           /\ \A q \in Party : q # p => rows'[q] = rows[q]
           /\ rows'[p] \in Row /\ rows'[p].alive = rows[p].alive
           /\ rows'[p].code = rows[p].code
           /\ rows'[p].date = Sent(rows[p].date, w.tracked.date, New(r).date)
           /\ rows'[p].listed = Sent(rows[p].listed, w.tracked.listed, New(r).listed)
           /\ rows'[p].songs = Sent(rows[p].songs, w.tracked.songs, New(r).songs)
           /\ New(r).date = w.copy.date \/ New(r).date = w.tracked.date
           /\ w.stage = "relist" \/ w.kind = "visibility" => New(r).date = w.tracked.date
           /\ New(r).listed = w.tracked.listed \/ (w.names /\ New(r).listed = w.copy.listed)
           /\ \/ New(r).songs = w.tracked.songs
              \/ New(r).songs = w.copy.songs /\ (~Enforce => w.kind = "playlist")
           /\ w.kind = "playlist" => New(r).songs = w.copy.songs
           /\ (w.names /\ ~WriteLimited(r)) => New(r).listed = w.copy.listed
<1> DEFINE p == req[r].party
           w == req[r]
<1>1. /\ p \in Party /\ w.copy \in Row /\ w.names \in BOOLEAN
      /\ w.tracked \in Row /\ w.kind # "create" /\ Exists(p)
      /\ w.stage = "relist" => Enforce /\ w.kind = "metadata" /\ w.names
                                /\ w.tracked.date = w.copy.date
      /\ w.kind = "visibility" => w.names
      /\ w.kind = "playlist" => ~w.names
      /\ w.kind \in {"metadata", "playlist", "visibility"}
  BY Works DEF RequestsFit, RequestFits, Writes, Work
<1>2. /\ New(r) \in Row
      /\ New(r).date = w.copy.date \/ New(r).date = w.tracked.date
      /\ w.stage = "relist" \/ w.kind = "visibility" => New(r).date = w.tracked.date
      /\ New(r).listed = w.tracked.listed \/ (w.names /\ New(r).listed = w.copy.listed)
      /\ \/ New(r).songs = w.tracked.songs
         \/ New(r).songs = w.copy.songs /\ (~Enforce => w.kind = "playlist")
      /\ w.kind = "playlist" => New(r).songs = w.copy.songs
  <2>1. CASE w.stage = "relist"
    BY <1>1, <2>1, Rewritten DEF New
  <2>2. CASE w.stage # "relist" /\ w.kind = "metadata" /\ ~Enforce
    BY <1>1, <2>2, Rewritten DEF New
  <2>3. CASE w.stage # "relist" /\ w.kind = "visibility"
    BY <1>1, <2>3, Rewritten DEF New
  <2>4. CASE w.stage # "relist" /\ ~(w.kind = "metadata" /\ ~Enforce)
             /\ w.kind # "visibility"
    BY <1>1, <2>4, Rewritten DEF New
  <2> QED BY <2>1, <2>2, <2>3, <2>4
<1>3. w.names /\ ~WriteLimited(r) => New(r).listed = w.copy.listed
  <2> SUFFICES ASSUME w.names, ~WriteLimited(r) PROVE New(r).listed = w.copy.listed
    OBVIOUS
  <2>1. WriteMetadata(r) \/ WriteListed(r) \/ WriteVisibility(r)
    BY <1>1 DEF Writes, WritePlaylist, Found
  <2>2. CASE w.stage = "relist"
    BY <1>1, <2>2, Rewritten DEF New
  <2>3. CASE w.stage # "relist" /\ WriteMetadata(r)
    BY <1>1, <2>3, Rewritten DEF New, WriteMetadata, Found
  <2>4. CASE w.stage # "relist" /\ WriteVisibility(r)
    BY <1>1, <2>4, Rewritten DEF New, WriteVisibility, Found
  <2> QED BY <2>1, <2>2, <2>3, <2>4 DEF WriteListed
<1>4. SaveChanges(p, w.tracked, New(r))
  BY DEF Writes
<1> HIDE DEF w
<1>5. /\ rows' \in [Party -> Row \cup {NoRow}]
      /\ \A q \in Party : q # p => rows'[q] = rows[q]
      /\ rows'[p] \in Row /\ rows'[p].alive = rows[p].alive
      /\ rows'[p].code = rows[p].code
      /\ rows'[p].date = Sent(rows[p].date, w.tracked.date, New(r).date)
      /\ rows'[p].listed = Sent(rows[p].listed, w.tracked.listed, New(r).listed)
      /\ rows'[p].songs = Sent(rows[p].songs, w.tracked.songs, New(r).songs)
  BY <1>1, <1>2, <1>4, Saves
<1> QED BY <1>1, <1>2, <1>3, <1>5 DEF w

(* What a step of a request leaves of a row: the row is inserted, or it is *)
(* written again, under the same code and neither deleted nor revived.     *)
RowAdvances(r, p) ==
    \/ rows'[p] = rows[p]
    \/ /\ InsertParty(r) /\ CodeFree(req[r].copy.code)
       /\ req[r].party = p /\ ~Exists(p) /\ rows'[p] = req[r].copy
    \/ /\ Exists(p) /\ req[r].party = p /\ ~InsertParty(r) /\ rows'[p] \in Row
       /\ rows'[p].alive = rows[p].alive /\ rows'[p].code = rows[p].code

LEMMA RowsAdvance ==
    ASSUME CatalogTypeOK, RequestsFit, NEW r \in Request, Proceed(r)
    PROVE  /\ rows' \in [Party -> Row \cup {NoRow}]
           /\ \A p \in Party : RowAdvances(r, p)
<1>1. Busy(r) /\ req[r].party \in Party /\ req[r].copy \in Row
  BY Advanced, Works DEF Advances
<1>2. CASE InsertParty(r)
  <2>1. ~Exists(req[r].party)
    BY <1>1, <1>2 DEF InsertParty, RequestsFit, RequestFits
  <2> QED BY <1>1, <1>2, <2>1 DEF InsertParty, RowAdvances, CatalogTypeOK
<1>3. CASE Writes(r)
  <2>1. ~InsertParty(r)
    BY <1>1, <1>3 DEF InsertParty, RequestsFit, RequestFits, Writes
  <2> QED BY <1>1, <1>3, <2>1, Written DEF RowAdvances
<1>4. CASE UNCHANGED rows
  BY <1>4 DEF RowAdvances, CatalogTypeOK
<1> QED BY <1>2, <1>3, <1>4, Touches

(* With the limit enforced, a step makes a party one of the future only    *)
(* under the lock, or it has slipped.                                      *)
Enters(r) ==
    \/ InsertParty(r)
    \/ /\ WriteLimited(r)
       /\ Alive(req[r].party) /\ CountsAsFuture(req[r].copy.date)

LEMMA FutureAdvances ==
    ASSUME CatalogTypeOK, RequestsFit, NEW r \in Request, Proceed(r), Enforce, ~slipped'
    PROVE  /\ ~slipped
           /\ \/ Future' \subseteq Future
              \/ Enters(r) /\ Future' \subseteq Future \cup {req[r].party}
<1>1. PICK q \in Party : Busy(r) /\ req[r].party = q
  BY Advanced, Works DEF Advances
<1>2. ~slipped
  BY DEF Proceed, TakeLockAndCount, InsertParty, Find, WriteMetadata, WriteLimited,
     WriteListed, WritePlaylist, WriteVisibility
<1>3. \A p \in Party : p # q => rows'[p] = rows[p]
  BY RowsAdvance, <1>1 DEF RowAdvances
<1>4. Future' \subseteq Future \cup {q}
  BY <1>3 DEF Future, Alive, Exists
<1>5. CASE InsertParty(r)
  BY <1>1, <1>2, <1>4, <1>5 DEF Enters
<1>6. CASE rows' = rows
  BY <1>2, <1>6 DEF Future, Alive, Exists
<1>7. CASE Writes(r)
  <2>1. /\ Exists(q) /\ rows'[q] \in Row /\ rows'[q].alive = rows[q].alive
        /\ \/ rows'[q].date = rows[q].date
           \/ /\ rows'[q].date = req[r].copy.date
              /\ WriteLimited(r) \/ WritePlaylist(r)
    <3>1. /\ Exists(q) /\ rows'[q] \in Row /\ rows'[q].alive = rows[q].alive
          /\ rows'[q].date = Sent(rows[q].date, req[r].tracked.date, New(r).date)
          /\ New(r).date = req[r].copy.date \/ New(r).date = req[r].tracked.date
          /\ req[r].stage = "relist" \/ req[r].kind = "visibility"
               => New(r).date = req[r].tracked.date
      BY <1>1, <1>7, Written
    <3>2. \/ WriteLimited(r) \/ WritePlaylist(r)
          \/ req[r].stage = "relist" \/ req[r].kind = "visibility"
      BY <1>7 DEF Writes, WriteMetadata, WriteListed, WriteVisibility, Found
    <3> QED BY <3>1, <3>2 DEF Sent
  <2>2. Alive(q)' <=> Alive(q)
    BY <2>1, RecordAssumption DEF Alive, Exists
  <2>3. CASE q \in Future \/ q \notin Future'
    BY <1>2, <1>4, <2>3
  <2>4. CASE q \notin Future /\ q \in Future'
    <3>1. Alive(q) /\ ~CountsAsFuture(rows[q].date) /\ CountsAsFuture(rows'[q].date)
      BY <1>1, <2>2, <2>4 DEF Future
    <3>2. ~WritePlaylist(r)
      BY <1>1, <3>1 DEF WritePlaylist, Slips
    <3>3. WriteLimited(r) /\ CountsAsFuture(req[r].copy.date)
      BY <2>1, <3>1, <3>2
    <3> QED BY <1>1, <1>2, <1>4, <3>1, <3>3 DEF Enters
  <2> QED BY <2>3, <2>4
<1> QED BY <1>5, <1>6, <1>7, Touches
-----------------------------------------------------------------------------
(* The invariant, one lemma per part.                                      *)

LEMMA TypesStep == CatalogTypeOK /\ RequestsFit /\ [Next]_vars => CatalogTypeOK'
<1> SUFFICES ASSUME CatalogTypeOK, RequestsFit, [Next]_vars PROVE CatalogTypeOK'
  OBVIOUS
<1>1. ASSUME NEW r \in Request, Arrive(r) PROVE CatalogTypeOK'
  <2>1. PICK kind \in {"create", "metadata", "playlist", "visibility"}, p \in Party,
             copy \in Row, names \in BOOLEAN : Begin(r, kind, p, copy, names)
    BY <1>1, Arrivals
  <2>2. shown' \subseteq Request
    BY <2>1 DEF Begin, Watch
  <2> QED BY <2>1, <2>2, Begun DEF CatalogTypeOK, Busy
<1>2. ASSUME NEW r \in Request, Proceed(r) PROVE CatalogTypeOK'
  <2>1. Busy(r) /\ req[r] \in Work /\ req[r].copy \in Row /\ req[r].party \in Party
    BY <1>2, Advanced, Works DEF Advances
  <2>2. req' \in [Request -> Work \cup {Idle}] /\ rows' \in [Party -> Row \cup {NoRow}]
    BY <1>2, Advanced, RowsAdvance DEF Advances, CatalogTypeOK
  <2>3. lock' \in Request \cup {NoRequest}
        /\ (lock' # NoRequest => req'[lock'] # Idle /\ req'[lock'].stage \in {"granted", "found"})
    <3>1. /\ \A s \in Request : s # r => req'[s] = req[s]
          /\ lock \in Request \cup {NoRequest}
          /\ lock # NoRequest => req[lock] # Idle /\ req[lock].stage \in {"granted", "found"}
      BY <1>2, Advanced DEF Advances, CatalogTypeOK
    <3>2. CASE lock' = IF lock = r THEN NoRequest ELSE lock
      BY <3>1, <3>2
    <3>3. CASE req'[r] # Idle /\ req'[r].stage \in {"granted", "found"} /\ lock' \in {lock, r}
      BY <3>1, <3>3
    <3>4. \/ lock' = IF lock = r THEN NoRequest ELSE lock
          \/ req'[r] # Idle /\ req'[r].stage \in {"granted", "found"} /\ lock' \in {lock, r}
      BY <1>2, <2>1, Advanced DEF Advances, Busy, Work
    <3> QED BY <3>2, <3>3, <3>4
  <2>4. shown' \subseteq Request /\ slipped' \in BOOLEAN
    BY <1>2 DEF Proceed, TakeLockAndCount, InsertParty, Find, WriteMetadata, WriteLimited,
       WriteListed, WritePlaylist, WriteVisibility, Watch, CatalogTypeOK
  <2> QED BY <2>2, <2>3, <2>4 DEF CatalogTypeOK
<1>3. ASSUME NEW p \in Party, DeleteParty(p) PROVE CatalogTypeOK'
  <2>1. [rows[p] EXCEPT !.alive = FALSE] \in Row
    BY <1>3, RowsTyped DEF DeleteParty, Alive, Row
  <2>2. rows' \in [Party -> Row \cup {NoRow}] /\ shown' \subseteq Request
    BY <1>3, <2>1 DEF DeleteParty, CatalogTypeOK, Watch
  <2> QED BY <1>3, <2>2 DEF DeleteParty, CatalogTypeOK
<1>4. CASE UNCHANGED vars
  BY <1>4 DEF vars, CatalogTypeOK
<1> QED BY <1>1, <1>2, <1>3, <1>4 DEF Next

LEMMA RequestsFitStep ==
    CatalogTypeOK /\ RequestsFit /\ CreatedOnce /\ [Next]_vars
      => RequestsFit' /\ CreatedOnce'
<1> SUFFICES ASSUME CatalogTypeOK, RequestsFit, CreatedOnce, [Next]_vars
             PROVE  RequestsFit' /\ CreatedOnce'
  OBVIOUS
<1>1. ASSUME NEW r \in Request, Arrive(r) PROVE RequestsFit' /\ CreatedOnce'
  <2>1. PICK kind \in {"create", "metadata", "playlist", "visibility"}, p \in Party,
             copy \in Row, names \in BOOLEAN :
          /\ Begin(r, kind, p, copy, names)
          /\ kind = "visibility" => names
          /\ kind = "playlist" => ~names
          /\ kind = "create" => \A s \in Request : Busy(s) => req[s].party # p
          /\ kind = "create" <=> ~Exists(p)
    BY <1>1, Arrivals
  <2>2. /\ \A s \in Request : s # r => req'[s] = req[s]
        /\ ~Busy(r) /\ req'[r].kind = kind /\ req'[r].stage = "checked"
        /\ req'[r].party = p /\ req'[r].names = names
        /\ UNCHANGED <<rows, lock>>
    BY <2>1, Begun
  <2>3. RequestsFit'
    <3>1. lock # r
      BY <2>2, CatalogAssumption DEF CatalogTypeOK, Busy
    <3> QED BY <2>1, <2>2, <3>1 DEF RequestsFit, RequestFits, Busy, Exists, Tracking
  <2>4. \A s \in Request : Busy(s) /\ req[s].kind = "create" => ~Exists(req[s].party)
    BY DEF RequestsFit, RequestFits
  <2>5. CreatedOnce'
    BY <2>1, <2>2, <2>4 DEF CreatedOnce, Busy
  <2> QED BY <2>3, <2>5
<1>2. ASSUME NEW r \in Request, Proceed(r) PROVE RequestsFit' /\ CreatedOnce'
  <2>1. Advances(r)
    BY <1>2, Advanced
  <2>2. /\ req'[r] # Idle => Busy(r) /\ req'[r].kind = req[r].kind
                             /\ req'[r].party = req[r].party /\ req'[r].names = req[r].names
        /\ \A s \in Request : s # r => req'[s] = req[s]
    BY <2>1, Works DEF Advances, Work
  <2>3. CreatedOnce'
    BY <2>2 DEF CreatedOnce, Busy
  <2>4. ASSUME NEW s \in Request, Busy(s)'
        PROVE  req'[s].kind = "create" <=> ~Exists(req[s].party)'
    <3>1. PICK p \in Party : req'[s].party = p /\ req[s].party = p /\ Busy(s)
                              /\ req'[s].kind = req[s].kind
      BY <2>2, <2>4, Works DEF Busy
    <3>2. RowAdvances(r, p)
      BY <1>2, RowsAdvance
    <3>3. ~(InsertParty(r) /\ req[r].party = p)
      BY <2>2, <2>4, <3>1 DEF InsertParty, MayWrite, CreatedOnce, Answer, Busy, CatalogTypeOK
    <3>4. Exists(p)' <=> Exists(p)
      BY <3>2, <3>3, RecordAssumption DEF RowAdvances, Exists, Alive
    <3> QED BY <3>1, <3>4 DEF RequestsFit, RequestFits, Exists
  <2>5. ASSUME NEW s \in Request, Busy(s)', s # r
        PROVE  RequestFits(s)'
    <3>1. req'[s] = req[s] /\ Busy(s) /\ RequestFits(s)
      BY <2>2, <2>5 DEF Busy, RequestsFit, RequestFits
    <3>2. lock' = s <=> lock = s
      <4>1. lock = s => lock # NoRequest
        BY CatalogAssumption
      <4> QED BY <2>1, <2>5, <4>1, CatalogAssumption DEF Advances
    <3> QED BY <3>1, <3>2 DEF RequestFits
  <2>6. ASSUME Busy(r)' PROVE RequestFits(r)'
    <3>1. /\ Busy(r) /\ RequestFits(r) /\ req[r] \in Work /\ req[r].copy \in Row
          /\ req[r].party \in Party
      BY <2>1, Works DEF Advances, RequestsFit, RequestFits
    <3>2. CASE TakeLockAndCount(r) /\ req'[r] = [req[r] EXCEPT !.stage = "granted"]
               /\ lock' = r /\ Enforce /\ req[r].kind \in {"create", "metadata"}
      BY <3>1, <3>2 DEF RequestFits, Work, Tracking
    <3>3. CASE /\ Find(r) /\ Alive(req[r].party) /\ lock' = lock
               /\ req'[r] = [req[r] EXCEPT !.stage = "found", !.tracked = rows[req[r].party]]
      <4>1. rows[req[r].party] \in Row
        BY <3>1, <3>3, RowsTyped DEF Alive
      <4>2. req[r].kind # "create"
            /\ req[r].stage = (IF Enforce /\ req[r].kind = "metadata" THEN "granted" ELSE "checked")
        BY <3>1, <3>3 DEF Find, MayWrite
      <4>3. /\ req'[r].stage = "found" /\ req'[r].tracked \in Row
            /\ req'[r].kind = req[r].kind /\ req'[r].names = req[r].names
        BY <3>1, <3>3, <4>1 DEF Work
      <4> QED BY <3>1, <3>3, <4>2, <4>3 DEF RequestFits, Tracking
    <3>4. CASE /\ WriteLimited(r) /\ req[r].names /\ req[r].kind = "metadata"
               /\ req'[r] = [req[r] EXCEPT !.stage = "relist",
                                          !.tracked = UpdateAsync(@, req[r].copy)]
               /\ lock' = IF lock = r THEN NoRequest ELSE lock
      <4>1. req[r].tracked \in Row /\ Enforce /\ req[r].stage = "found"
        BY <3>1, <3>4 DEF WriteLimited, Found, RequestFits, Tracking
      <4>2. UpdateAsync(req[r].tracked, req[r].copy) \in Row
            /\ UpdateAsync(req[r].tracked, req[r].copy).date = req[r].copy.date
        BY <3>1, <4>1, Rewritten
      <4>3. /\ req'[r].stage = "relist" /\ req'[r].tracked \in Row
            /\ req'[r].kind = "metadata" /\ req'[r].names
            /\ req'[r].tracked.date = req'[r].copy.date
        BY <3>1, <3>4, <4>2 DEF Work
      <4> QED BY <3>1, <3>4, <4>1, <4>3, CatalogAssumption DEF RequestFits, Tracking
    <3> QED BY <2>1, <2>6, <3>2, <3>3, <3>4 DEF Advances, Busy
  <2> QED BY <2>3, <2>4, <2>5, <2>6, <2>2 DEF RequestsFit, RequestFits, Busy
<1>3. ASSUME NEW p \in Party, DeleteParty(p) PROVE RequestsFit' /\ CreatedOnce'
  <2>1. \A q \in Party : Exists(q)' <=> Exists(q)
    <3>1. rows[p] \in Row /\ rows' = [rows EXCEPT ![p] = [rows[p] EXCEPT !.alive = FALSE]]
      BY <1>3, RowsTyped DEF DeleteParty, Alive
    <3>2. [rows[p] EXCEPT !.alive = FALSE] \in Row
      BY <3>1 DEF Row
    <3> QED BY <3>1, <3>2, RecordAssumption DEF Exists, CatalogTypeOK
  <2>2. UNCHANGED <<req, lock>>
    BY <1>3 DEF DeleteParty
  <2> QED BY <2>1, <2>2, Works DEF RequestsFit, RequestFits, CreatedOnce, Busy
<1>4. CASE UNCHANGED vars
  BY <1>4 DEF vars, RequestsFit, RequestFits, CreatedOnce, Busy, Exists
<1> QED BY <1>1, <1>2, <1>3, <1>4 DEF Next

LEMMA CodesStep ==
    CatalogTypeOK /\ RequestsFit /\ UniqueCodes /\ [Next]_vars => UniqueCodes'
<1> SUFFICES ASSUME CatalogTypeOK, RequestsFit, UniqueCodes, [Next]_vars PROVE UniqueCodes'
  OBVIOUS
<1>1. ASSUME NEW r \in Request, Arrive(r) PROVE UniqueCodes'
  BY <1>1, Arrivals DEF Begin, UniqueCodes, Exists
<1>2. ASSUME NEW r \in Request, Proceed(r) PROVE UniqueCodes'
  <2> SUFFICES ASSUME NEW p \in Party, NEW q \in Party, p # q, Exists(p)', Exists(q)'
               PROVE  rows'[p].code # rows'[q].code
    BY DEF UniqueCodes
  <2>1. RowAdvances(r, p) /\ RowAdvances(r, q)
    BY <1>2, RowsAdvance
  <2> QED BY <2>1 DEF RowAdvances, CodeFree, UniqueCodes, Exists, Alive
<1>3. ASSUME NEW p \in Party, DeleteParty(p) PROVE UniqueCodes'
  <2>1. /\ rows[p] \in Row /\ Exists(p)
       /\ rows' = [rows EXCEPT ![p] = [rows[p] EXCEPT !.alive = FALSE]]
    BY <1>3, RowsTyped DEF DeleteParty, Alive
  <2>2. [rows[p] EXCEPT !.alive = FALSE].code = rows[p].code
    BY <2>1 DEF Row
  <2> QED BY <2>1, <2>2 DEF UniqueCodes, Exists, CatalogTypeOK
<1>4. CASE UNCHANGED vars
  BY <1>4 DEF vars, UniqueCodes, Exists
<1> QED BY <1>1, <1>2, <1>3, <1>4 DEF Next

LEMMA FewerStayWithin ==
    ASSUME NEW S, NEW T \in SUBSET Party, S \subseteq T, Cardinality(T) <= MaxFuture
    PROVE  Cardinality(S) <= MaxFuture
<1>1. IsFiniteSet(T)
  BY CatalogAssumption, FS_Subset
<1>2. Cardinality(S) <= Cardinality(T) /\ IsFiniteSet(S)
  BY <1>1, FS_Subset
<1> QED BY <1>1, <1>2, CatalogAssumption, FS_CardinalityType

(* A request that takes the lock fits under the limit with its party.      *)
LEMMA GrantedFits ==
    ASSUME CatalogTypeOK, RequestsFit, LimitHolds, Enforce, ~slipped, NEW r \in Request, Busy(r),
           ~OverLimit(r),
           \/ req[r].kind = "create"
           \/ /\ req[r].kind = "metadata" /\ Alive(req[r].party)
              /\ CountsAsFuture(req[r].copy.date)
    PROVE  Cardinality(Future \cup {req[r].party}) <= MaxFuture
<1>1. PICK p \in Party : req[r].party = p
  BY Works
<1>2. IsFiniteSet(Future) /\ Cardinality(Future) <= MaxFuture /\ Cardinality(Future) \in Nat
  BY CatalogAssumption, FS_Subset, FS_CardinalityType DEF Future, LimitHolds
<1>3. CASE p \in Future
  <2>1. Future \cup {p} = Future
    BY <1>3
  <2> QED BY <1>1, <1>2, <2>1
<1>4. CASE p \notin Future
  <2>1. ~(Cardinality(Future \ {p}) >= MaxFuture)
    BY <1>1, <1>4 DEF OverLimit, Future
  <2>2. Future \ {p} = Future
    BY <1>4
  <2>3. Cardinality(Future \cup {p}) = Cardinality(Future) + 1
    BY <1>2, <1>4, FS_AddElement
  <2>4. ~(Cardinality(Future) >= MaxFuture)
    BY <2>1, <2>2
  <2>5. Cardinality(Future) + 1 <= MaxFuture
    BY <1>2, <2>4, CatalogAssumption
  <2> QED BY <1>1, <2>3, <2>5
<1> QED BY <1>3, <1>4

LEMMA LimitStep ==
    CatalogTypeOK /\ RequestsFit /\ LimitHolds /\ Granted /\ [Next]_vars
      => LimitHolds' /\ Granted'
<1> SUFFICES ASSUME CatalogTypeOK, RequestsFit, LimitHolds, Granted, [Next]_vars
             PROVE  LimitHolds' /\ Granted'
  OBVIOUS
<1>1. ASSUME NEW r \in Request, Arrive(r) PROVE LimitHolds' /\ Granted'
  <2>1. PICK kind \in {"create", "metadata", "playlist", "visibility"}, p \in Party,
             copy \in Row, names \in BOOLEAN : Begin(r, kind, p, copy, names)
    BY <1>1, Arrivals
  <2>2. /\ UNCHANGED <<rows, lock, slipped>> /\ ~Busy(r)
        /\ \A s \in Request : s # r => req'[s] = req[s]
    BY <2>1, Begun
  <2>3. lock # NoRequest => req'[lock] = req[lock]
    BY <2>2 DEF CatalogTypeOK, Busy
  <2>4. Future' = Future /\ \A q \in Party : Alive(q)' = Alive(q)
    BY <2>2 DEF Future, Alive, Exists
  <2> QED BY <2>2, <2>3, <2>4 DEF LimitHolds, Granted, Alive, Exists
<1>2. ASSUME NEW r \in Request, Proceed(r) PROVE LimitHolds' /\ Granted'
  <2> SUFFICES ASSUME Enforce, ~slipped' PROVE LimitHolds' /\ Granted'
    BY <1>2, Advanced DEF Advances, LimitHolds, Granted
  <2>1. Advances(r) /\ ~slipped
    BY <1>2, Advanced, FutureAdvances
  <2>2. PICK p \in Party : req[r].party = p
    BY <2>1, Works DEF Advances
  <2>3. Cardinality(Future) <= MaxFuture
    BY <2>1 DEF LimitHolds
  <2>4. LimitHolds'
    <3>1. CASE Future' \subseteq Future
      BY <2>3, <3>1, FewerStayWithin DEF LimitHolds, Future
    <3>2. CASE Enters(r) /\ Future' \subseteq Future \cup {p}
      <4>1. \/ req[r].stage = "granted" /\ req[r].kind = "create"
            \/ req[r].stage = "found" /\ req[r].kind = "metadata"
        BY <3>2 DEF Enters, InsertParty, WriteLimited, MayWrite, Found
      <4>2. lock = r
        BY <2>1, <4>1 DEF RequestsFit, RequestFits, Advances
      <4>3. Cardinality(Future \cup {p}) <= MaxFuture
        BY <2>1, <2>2, <3>2, <4>1, <4>2, CatalogAssumption
        DEF Granted, Enters, InsertParty, MayWrite
      <4>4. Future \cup {p} \in SUBSET Party
        BY DEF Future
      <4> QED BY <3>2, <4>3, <4>4, FewerStayWithin DEF LimitHolds
    <3> QED BY <1>2, <2>2, <3>1, <3>2, FutureAdvances
  <2>5. Granted'
    <3>1. CASE lock' = NoRequest
      BY <3>1 DEF Granted
    <3>2. CASE lock' # NoRequest /\ lock' = lock /\ lock # r
      <4>1. PICK s \in Request : s = lock /\ req'[s] = req[s] /\ Busy(s) /\ lock' = s
        BY <2>1, <3>2 DEF Advances, CatalogTypeOK, Busy
      <4>2. PICK q \in Party : req[s].party = q
        BY <4>1, Works
      <4>3. Future' \subseteq Future
        <5>1. ~Enters(r)
          BY <2>1, <3>2 DEF Enters, InsertParty, WriteLimited, Found, MayWrite,
             RequestsFit, RequestFits, Advances
        <5> QED BY <1>2, <5>1, FutureAdvances
      <4>4. req[s].kind # "create" /\ Alive(q)' => Alive(q)
        <5>1. RowAdvances(r, q)
          BY <1>2, RowsAdvance
        <5> QED BY <4>1, <4>2, <5>1 DEF RowAdvances, RequestsFit, RequestFits, Alive, Exists
      <4>5. ASSUME req[s].kind = "create" \/ (Alive(q)' /\ CountsAsFuture(req[s].copy.date))
            PROVE  Cardinality(Future' \cup {q}) <= MaxFuture
        <5>1. Cardinality(Future \cup {q}) <= MaxFuture
          BY <2>1, <4>1, <4>2, <4>4, <4>5, CatalogAssumption DEF Granted
        <5>2. Future \cup {q} \in SUBSET Party
          BY DEF Future
        <5> QED BY <4>3, <5>1, <5>2, FewerStayWithin
      <4> QED BY <4>1, <4>2, <4>5 DEF Granted
    <3>3. CASE TakeLockAndCount(r) /\ ~OverLimit(r) /\ lock' = r
      <4>1. UNCHANGED rows /\ Future' = Future
        BY <3>3 DEF TakeLockAndCount, Future, Alive, Exists
      <4>2. req'[r].kind = req[r].kind /\ req'[r].party = p /\ req'[r].copy = req[r].copy
            /\ req[r].kind \in {"create", "metadata"}
        <5>1. req[r] \in Work /\ req' = [req EXCEPT ![r] = [req[r] EXCEPT !.stage = "granted"]]
          BY <2>1, <3>3, Works DEF TakeLockAndCount, Advances
        <5> QED BY <2>2, <3>3, <5>1 DEF Work, CatalogTypeOK, TakeLockAndCount
      <4> QED BY <2>1, <2>2, <3>3, <4>1, <4>2, GrantedFits DEF Granted, Advances, Alive, Exists
    <3>4. CASE Find(r) /\ Alive(req[r].party) /\ lock' = lock /\ lock = r
               /\ req'[r] = [req[r] EXCEPT !.stage = "found", !.tracked = rows[req[r].party]]
      <4>1. UNCHANGED rows /\ Future' = Future
        BY <3>4 DEF Find, Future, Alive, Exists
      <4>2. req'[r].kind = req[r].kind /\ req'[r].party = p /\ req'[r].copy = req[r].copy
        BY <2>1, <2>2, <3>4, Works DEF Work, Advances
      <4> QED BY <2>1, <2>2, <3>4, <4>1, <4>2, CatalogAssumption DEF Granted, Alive, Exists
    <3> QED BY <2>1, <3>1, <3>2, <3>3, <3>4 DEF Advances
  <2> QED BY <2>4, <2>5
<1>3. ASSUME NEW p \in Party, DeleteParty(p) PROVE LimitHolds' /\ Granted'
  <2>1. UNCHANGED <<req, lock, slipped>>
    BY <1>3 DEF DeleteParty
  <2>2. \A q \in Party : Alive(q)' => Alive(q) /\ rows'[q] = rows[q]
    <3>1. rows[p] \in Row /\ rows' = [rows EXCEPT ![p] = [rows[p] EXCEPT !.alive = FALSE]]
      BY <1>3, RowsTyped DEF DeleteParty, Alive
    <3> QED BY <3>1 DEF Alive, Exists, Row, CatalogTypeOK
  <2>3. Future' \subseteq Future
    BY <2>2 DEF Future
  <2>4. LimitHolds'
    BY <2>1, <2>3, FewerStayWithin DEF LimitHolds, Future
  <2>5. ASSUME lock # NoRequest
        PROVE  \E q \in Party : req[lock].party = q /\ Future' \cup {q} \subseteq Future \cup {q}
                                /\ Future \cup {q} \in SUBSET Party
    BY <2>3, <2>5, Works DEF CatalogTypeOK, Busy, Future
  <2>6. Granted'
    BY <2>1, <2>2, <2>5, FewerStayWithin DEF Granted
  <2> QED BY <2>4, <2>6
<1>4. CASE UNCHANGED vars
  BY <1>4 DEF vars, LimitHolds, Granted, Future, Alive, Exists
<1> QED BY <1>1, <1>2, <1>3, <1>4 DEF Next
(* A request sees its party as it asks for it the moment it finds it so,   *)
(* and what it has seen it does not forget.                                *)
LEMMA KnownStep ==
    CatalogTypeOK /\ RequestsFit /\ KnownIsShown /\ [Next]_vars => KnownIsShown'
<1> SUFFICES ASSUME CatalogTypeOK, RequestsFit, KnownIsShown, [Next]_vars,
                    NEW s \in Request, Busy(s)', req'[s].stage \in Tracking,
                    AsAsked(req[s], req[s].tracked)'
             PROVE  s \in shown'
  BY DEF KnownIsShown
<1>1. ASSUME req'[s] = req[s], Watch PROVE s \in shown'
  BY <1>1 DEF KnownIsShown, AsAsked, Busy, Watch
<1>2. ASSUME NEW r \in Request, Arrive(r) PROVE s \in shown'
  <2>1. PICK kind \in {"create", "metadata", "playlist", "visibility"}, p \in Party,
             copy \in Row, names \in BOOLEAN : Begin(r, kind, p, copy, names)
    BY <1>2, Arrivals
  <2>2. s # r /\ req'[s] = req[s] /\ Watch
    BY <2>1, Begun DEF Begin, Tracking
  <2> QED BY <1>1, <2>2
<1>3. ASSUME NEW r \in Request, Proceed(r) PROVE s \in shown'
  <2>1. Watch
    BY <1>3 DEF Proceed, TakeLockAndCount, InsertParty, Find, WriteMetadata, WriteLimited,
       WriteListed, WritePlaylist, WriteVisibility
  <2>2. Advances(r)
    BY <1>3, Advanced
  <2>3. CASE s # r
    BY <1>1, <2>1, <2>2, <2>3 DEF Advances
  <2>4. CASE s = r /\ req'[r] = [req[r] EXCEPT !.stage = "granted"]
    BY <2>2, <2>4, Works DEF Advances, Work, Tracking
  <2>5. CASE /\ s = r /\ Find(r) /\ Alive(req[r].party)
             /\ req'[r] = [req[r] EXCEPT !.stage = "found", !.tracked = rows[req[r].party]]
    <3>1. req'[r].tracked = rows[req[r].party] /\ req'[r].party = req[r].party
      BY <2>2, <2>5, Works DEF Advances, Work
    <3>2. rows' = rows /\ Exists(req[r].party)
      BY <2>5 DEF Find, Alive
    <3> QED BY <2>1, <2>5, <3>1, <3>2 DEF Watch, HasEffect, AsAsked, Exists
  <2>6. CASE /\ s = r /\ WriteLimited(r) /\ req[r].names
             /\ req'[r] = [req[r] EXCEPT !.stage = "relist",
                                        !.tracked = UpdateAsync(@, req[r].copy)]
    <3>1. Busy(r) /\ req[r].stage = "found" /\ req[r].kind = "metadata" /\ req[r].tracked \in Row
      BY <2>6 DEF WriteLimited, Found, RequestsFit, RequestFits, Tracking
    <3>2. UpdateAsync(req[r].tracked, req[r].copy).listed = req[r].tracked.listed
      BY <2>2, <3>1, Works, Rewritten DEF Advances
    <3>3. /\ req'[r].kind = "metadata" /\ req'[r].names = req[r].names
          /\ req'[r].copy = req[r].copy /\ req'[r].tracked.listed = req[r].tracked.listed
      BY <2>6, <3>1, <3>2, Works DEF Work
    <3>4. AsAsked(req[r], req[r].tracked)
      BY <2>6, <3>1, <3>3 DEF AsAsked
    <3> QED BY <2>1, <2>6, <3>1, <3>4 DEF KnownIsShown, Tracking, Watch
  <2> QED BY <2>2, <2>3, <2>4, <2>5, <2>6 DEF Advances, Busy
<1>4. ASSUME NEW p \in Party, DeleteParty(p) PROVE s \in shown'
  BY <1>1, <1>4 DEF DeleteParty
<1>5. CASE UNCHANGED vars
  BY <1>5 DEF vars, KnownIsShown, AsAsked, Busy
<1> QED BY <1>2, <1>3, <1>4, <1>5 DEF Next

(* A step changes no visibility but to what a request on its way names.    *)
LEMMA VisibilityStep ==
    ASSUME CatalogTypeOK, RequestsFit, [Next]_vars, NEW p \in Party, Exists(p),
           rows'[p].listed # rows[p].listed
    PROVE  \E r \in Request :
             /\ Busy(r) /\ req[r].party = p /\ req[r].names
             /\ rows'[p].listed = req[r].copy.listed
<1>1. ASSUME NEW r \in Request, Arrive(r) PROVE FALSE
  BY <1>1, Arrivals DEF Begin
<1>2. ASSUME NEW q \in Party, DeleteParty(q) PROVE FALSE
  <2>1. rows' = [rows EXCEPT ![q] = [rows[q] EXCEPT !.alive = FALSE]] /\ rows[q] \in Row
    BY <1>2, RowsTyped DEF DeleteParty, Alive
  <2>2. [rows[q] EXCEPT !.alive = FALSE].listed = rows[q].listed
    BY <2>1 DEF Row
  <2> QED BY <2>1, <2>2 DEF CatalogTypeOK
<1>3. PICK r \in Request : Proceed(r)
  BY <1>1, <1>2 DEF Next, vars
<1>4. Busy(r) /\ ~InsertParty(r) /\ req[r].party = p
  BY <1>3, Advanced, RowsAdvance DEF Advances, RowAdvances, InsertParty, RequestsFit, RequestFits
<1>5. Writes(r)
  BY <1>3, <1>4, Touches
<1>6. /\ rows'[p].listed = Sent(rows[p].listed, req[r].tracked.listed, New(r).listed)
      /\ \/ New(r).listed = req[r].tracked.listed
         \/ req[r].names /\ New(r).listed = req[r].copy.listed
  BY <1>4, <1>5, Written
<1> QED BY <1>4, <1>6 DEF Sent

(* Without the limit it changes no songs but to those of a playlist.       *)
LEMMA SongsStep ==
    ASSUME CatalogTypeOK, RequestsFit, [Next]_vars, NEW p \in Party, Exists(p), ~Enforce,
           rows'[p].songs # rows[p].songs
    PROVE  \E r \in Request :
             /\ Busy(r) /\ req[r].party = p /\ req[r].kind = "playlist"
             /\ rows'[p].songs = req[r].copy.songs
<1>1. ASSUME NEW r \in Request, Arrive(r) PROVE FALSE
  BY <1>1, Arrivals DEF Begin
<1>2. ASSUME NEW q \in Party, DeleteParty(q) PROVE FALSE
  <2>1. rows' = [rows EXCEPT ![q] = [rows[q] EXCEPT !.alive = FALSE]] /\ rows[q] \in Row
    BY <1>2, RowsTyped DEF DeleteParty, Alive
  <2>2. [rows[q] EXCEPT !.alive = FALSE].songs = rows[q].songs
    BY <2>1 DEF Row
  <2> QED BY <2>1, <2>2 DEF CatalogTypeOK
<1>3. PICK r \in Request : Proceed(r)
  BY <1>1, <1>2 DEF Next, vars
<1>4. Busy(r) /\ ~InsertParty(r) /\ req[r].party = p
  BY <1>3, Advanced, RowsAdvance DEF Advances, RowAdvances, InsertParty, RequestsFit, RequestFits
<1>5. Writes(r)
  BY <1>3, <1>4, Touches
<1>6. /\ rows'[p].songs = Sent(rows[p].songs, req[r].tracked.songs, New(r).songs)
      /\ \/ New(r).songs = req[r].tracked.songs
         \/ New(r).songs = req[r].copy.songs /\ req[r].kind = "playlist"
  BY <1>4, <1>5, Written
<1> QED BY <1>4, <1>6 DEF Sent

(* A request that is answered after it found its party either had read it  *)
(* as it wanted it, or has just sent the column.                           *)
LEMMA AnswerStep ==
    ASSUME CatalogTypeOK, RequestsFit, KnownIsShown, [Next]_vars,
           NEW r \in Request, Busy(r), ~Busy(r)', req[r].stage \in Tracking,
           Alive(req[r].party)
    PROVE  r \in shown \/ AsAsked(req[r], rows'[req[r].party])
<1> DEFINE p == req[r].party
           w == req[r]
<1>1. ASSUME NEW s \in Request, Arrive(s) PROVE FALSE
  <2>1. PICK kind \in {"create", "metadata", "playlist", "visibility"}, q \in Party,
             copy \in Row, names \in BOOLEAN : Begin(s, kind, q, copy, names)
    BY <1>1, Arrivals
  <2>2. ~Busy(s) /\ \A t \in Request : t # s => req'[t] = req[t]
    BY <2>1, Begun
  <2> QED BY <2>2 DEF Busy
<1>2. ASSUME NEW q \in Party, DeleteParty(q) PROVE FALSE
  BY <1>2 DEF DeleteParty, Busy
<1>3. Proceed(r)
  <2>1. PICK s \in Request : Proceed(s)
    BY <1>1, <1>2 DEF Next, vars, Busy
  <2>2. s = r
    BY <2>1, Advanced DEF Advances, Busy
  <2> QED BY <2>1, <2>2
<1>4. ~Find(r) /\ ~TakeLockAndCount(r) /\ ~InsertParty(r)
  BY DEF Find, TakeLockAndCount, InsertParty, MayWrite, Tracking
<1>5. Writes(r)
  <2>1. WriteListed(r) => SaveChanges(p, w.tracked, New(r))
    BY DEF WriteListed, New
  <2> QED BY <1>3, <1>4, <2>1, Touches DEF Writes
<1>6. WriteLimited(r) => ~w.names
  <2> SUFFICES ASSUME WriteLimited(r), w.names PROVE FALSE
    OBVIOUS
  <2> DEFINE new == [req[r] EXCEPT !.stage = "relist",
                                   !.tracked = UpdateAsync(req[r].tracked, req[r].copy)]
  <2>1. UpdateAsync(req[r].tracked, req[r].copy) \in Row
    BY Works, Rewritten DEF RequestsFit, RequestFits
  <2>2. new \in Work
    BY <2>1, Works DEF Work
  <2>3. req' = [req EXCEPT ![r] = new]
    BY DEF WriteLimited
  <2> HIDE DEF new
  <2>4. req'[r] = new
    BY <2>3 DEF CatalogTypeOK
  <2> QED BY <2>2, <2>4, RecordAssumption DEF Busy
<1>7. /\ rows'[p].listed = Sent(rows[p].listed, w.tracked.listed, New(r).listed)
      /\ rows'[p].songs = Sent(rows[p].songs, w.tracked.songs, New(r).songs)
      /\ w.kind = "playlist" => New(r).songs = w.copy.songs
      /\ w.names /\ ~WriteLimited(r) => New(r).listed = w.copy.listed
  BY <1>5, Written
<1>8. w.kind = "playlist" => ~w.names
  BY DEF RequestsFit, RequestFits
<1>9. AsAsked(w, w.tracked) => r \in shown
  BY DEF KnownIsShown
<1> QED BY <1>6, <1>7, <1>8, <1>9 DEF AsAsked, Sent
-----------------------------------------------------------------------------
(* The theorems.                                                           *)

(* The invariant holds of every reachable state.                           *)
THEOREM CatalogInvariantHolds == Spec => []CatalogInv
<1>1. Init => CatalogInv
  <2> SUFFICES ASSUME Init PROVE CatalogInv
    OBVIOUS
  <2>1. CatalogTypeOK /\ RequestsFit /\ CreatedOnce
    BY DEF Init, CatalogTypeOK, RequestsFit, RequestFits, CreatedOnce, Busy
  <2>2. \A p \in Party : ~Exists(p)
    BY DEF Init, Exists
  <2>3. UniqueCodes /\ KnownIsShown
    BY <2>2 DEF Init, UniqueCodes, KnownIsShown, Busy
  <2>4. Future = {}
    BY <2>2 DEF Future, Alive
  <2>5. LimitHolds
    BY <2>4, FS_EmptySet, CatalogAssumption DEF LimitHolds
  <2>6. Granted
    BY DEF Init, Granted
  <2> QED BY <2>1, <2>3, <2>5, <2>6 DEF CatalogInv
<1>2. CatalogInv /\ [Next]_vars => CatalogInv'
  BY TypesStep, RequestsFitStep, CodesStep, LimitStep, KnownStep DEF CatalogInv
<1> QED BY <1>1, <1>2, PTL DEF Spec

(* The tables, the lock and the requests in flight keep their types.       *)
THEOREM CatalogTypesHold == Spec => []CatalogTypeOK
<1>1. CatalogInv => CatalogTypeOK
  BY DEF CatalogInv
<1> QED BY <1>1, CatalogInvariantHolds, PTL

(* No two parties ever have the same short code, although CreatePartyAsync *)
(* looks it up before it inserts.                                          *)
THEOREM CodesAreUnique == Spec => []UniqueCodes
<1>1. CatalogInv => UniqueCodes
  BY DEF CatalogInv
<1> QED BY <1>1, CatalogInvariantHolds, PTL

(* The advisory lock keeps the number of future parties within the limit   *)
(* as long as no write outside it has put a party back into the future.    *)
THEOREM LimitIsKept == Spec => []LimitHolds
<1>1. CatalogInv => LimitHolds
  BY DEF CatalogInv
<1> QED BY <1>1, CatalogInvariantHolds, PTL

(* Neither an edit of the card nor a playlist brings an older visibility   *)
(* back: it changes only to what a request on its way names.               *)
THEOREM VisibilityIsAsAsked == Spec => VisibilityAsAsked
<1> DEFINE Kept == \A p \in Party :
         Exists(p) /\ rows'[p].listed # rows[p].listed =>
             \E r \in Request :
                 /\ Busy(r) /\ req[r].party = p /\ req[r].names
                 /\ rows'[p].listed = req[r].copy.listed
<1>1. CatalogInv /\ [Next]_vars => [Kept]_vars
  BY VisibilityStep DEF CatalogInv
<1> QED BY <1>1, CatalogInvariantHolds, PTL DEF Spec, VisibilityAsAsked

(* With the limit off, editing the card never brings an older playlist     *)
(* back.                                                                   *)
THEOREM EditsKeepPlaylists == Spec => PlaylistSurvivesEdits
<1> DEFINE Kept == \A p \in Party :
         ~Enforce /\ Exists(p) /\ rows'[p].songs # rows[p].songs =>
             \E r \in Request :
                 /\ Busy(r) /\ req[r].party = p /\ req[r].kind = "playlist"
                 /\ rows'[p].songs = req[r].copy.songs
<1>1. CatalogInv /\ [Next]_vars => [Kept]_vars
  BY SongsStep DEF CatalogInv
<1> QED BY <1>1, CatalogInvariantHolds, PTL DEF Spec, PlaylistSurvivesEdits

(* Whoever is answered has been given what the request asked for, for a    *)
(* moment at least, although SaveChanges sends only what differs from a    *)
(* row that was read earlier.                                              *)
THEOREM AnswersAreShown == Spec => AnsweredIsShown
<1> DEFINE Seen == \A r \in Request :
         /\ Busy(r) /\ ~Busy(r)' /\ req[r].stage \in {"found", "relist"}
         /\ Alive(req[r].party)
         => r \in shown \/ AsAsked(req[r], rows'[req[r].party])
<1>1. CatalogInv /\ [Next]_vars => [Seen]_vars
  BY AnswerStep DEF CatalogInv, Tracking
<1> QED BY <1>1, CatalogInvariantHolds, PTL DEF Spec, AnsweredIsShown
=============================================================================
