---------------------------- MODULE PartyCatalog ----------------------------
(***************************************************************************)
(* The parties of one organizer as the HTTP API keeps them: creating,      *)
(* editing the card (UpdatePartyMetadataAsync), replacing the playlist     *)
(* (UpdatePartyPlaylistAsync) and deleting (PartyService.cs), and the      *)
(* administrator's SetCatalogVisibilityAsync, over EfPartyRepository.cs.   *)
(* Every request reads the whole party and works on its copy.  To write it *)
(* back the repository reads the row once more, into the request's EF      *)
(* context, sets the copy's values there, and SaveChanges sends the        *)
(* columns that differ from what was read.  The limit of future parties is *)
(* guarded by a database lock that only some of those writes take.         *)
(*                                                                         *)
(* A row is [alive, code, date, listed, songs]; date stands for all the    *)
(* columns ApplyTo sets.                                                   *)
(***************************************************************************)
EXTENDS Naturals, FiniteSets

CONSTANTS
    Party,      \* party ids
    Request,    \* HTTP requests in flight at the same time
    Code,       \* short codes
    Playlist,   \* playlists
    MaxFuture,  \* AuthConstants.MaxFuturePartiesPerOrganizer
    Enforce,    \* PartyLimits:EnforceFuturePartyLimit, read from appsettings
    NoRow, NoRequest, Idle

ASSUME CatalogAssumption ==
    /\ MaxFuture \in Nat /\ Enforce \in BOOLEAN
    /\ IsFiniteSet(Party)
    /\ NoRequest \notin Request

VARIABLES
    rows,       \* the table "parties": party -> row or NoRow
    lock,       \* holder of pg_advisory_xact_lock(organizer), or NoRequest
    req,        \* request -> what it is doing, or Idle
    shown,      \* ghost: requests whose party has been as they ask since they began
    slipped     \* ghost: a write outside the lock took a future slot

vars == <<rows, lock, req, shown, slipped>>

\* EventDateTime against the clock; a party without a date counts as future.
Date == {"future", "past"}
Row == [alive : BOOLEAN, code : Code, date : Date, listed : BOOLEAN,
        songs : Playlist]
\* names: the request names the visibility; tracked: the row in the EF context.
Work == [kind : {"create", "metadata", "playlist", "visibility"},
         stage : {"checked", "granted", "found", "relist"},
         party : Party, copy : Row, names : BOOLEAN, tracked : Row \cup {NoRow}]

ASSUME RecordAssumption == Idle \notin Work /\ NoRow \notin Row

Exists(p) == rows[p] # NoRow
Alive(p) == Exists(p) /\ rows[p].alive
CountsAsFuture(date) == date = "future"
Future == {p \in Party : Alive(p) /\ CountsAsFuture(rows[p].date)}

CatalogTypeOK ==
    /\ rows \in [Party -> Row \cup {NoRow}]
    /\ lock \in Request \cup {NoRequest}
    /\ req \in [Request -> Work \cup {Idle}]
    /\ shown \subseteq Request
    /\ slipped \in BOOLEAN
    /\ lock # NoRequest => req[lock] # Idle /\ req[lock].stage \in {"granted", "found"}

Init ==
    /\ rows = [p \in Party |-> NoRow]
    /\ lock = NoRequest
    /\ req = [r \in Request |-> Idle]
    /\ shown = {}
    /\ slipped = FALSE
-----------------------------------------------------------------------------
Busy(r) == req[r] # Idle

\* The row is what the request asks for: its visibility, if it names one, and
\* its songs, if they are its subject.
AsAsked(w, row) ==
    /\ w.names => row.listed = w.copy.listed
    /\ w.kind = "playlist" => row.songs = w.copy.songs
HasEffect(r) == Exists(req[r].party) /\ AsAsked(req[r], rows[req[r].party])
Watch == shown' = {r \in Request : Busy(r)' /\ (r \in shown \/ HasEffect(r)')}

Answer(r) == req' = [req EXCEPT ![r] = Idle]
Begin(r, kind, p, copy, names) ==
    /\ ~Busy(r)
    /\ req' = [req EXCEPT ![r] = [kind |-> kind, stage |-> "checked",
         party |-> p, copy |-> copy, names |-> names, tracked |-> NoRow]]
    /\ UNCHANGED <<rows, lock, slipped>>
    /\ Watch

\* CreatePartyAsync up to the transaction: a short code that no living party
\* has, a new id.
BeginCreate(r, p, date, listed, c, songs) ==
    /\ ~Exists(p)
    /\ \A s \in Request : Busy(s) => req[s].party # p
    /\ \A q \in Party : Alive(q) => rows[q].code # c
    /\ Begin(r, "create", p, [alive |-> TRUE, code |-> c, date |-> date,
             listed |-> listed, songs |-> songs], TRUE)

\* UpdatePartyMetadataAsync up to the repository: the party read, and the
\* date (keep: not in the request) and the visibility copied over it.
BeginMetadata(r, p, keep, date, names, listed) ==
    /\ Alive(p)
    /\ Begin(r, "metadata", p,
             [rows[p] EXCEPT !.date = IF keep THEN @ ELSE date,
                             !.listed = IF names THEN listed ELSE @], names)

\* UpdatePartyPlaylistAsync up to UpdateAsync.
BeginPlaylist(r, p, songs) ==
    /\ Alive(p)
    /\ Begin(r, "playlist", p, [rows[p] EXCEPT !.songs = songs], FALSE)

\* Mutant: one more than the limit.
OverLimitByOne(r) ==
    LET p == req[r].party IN
    /\ CountsAsFuture(req[r].copy.date) \/ req[r].kind = "create"
    /\ req[r].kind = "metadata" => Alive(p) /\ ~CountsAsFuture(rows[p].date)
    /\ Cardinality(Future \ {p}) > MaxFuture

\* SetCatalogVisibilityAsync of the administrator, one at a time per party.
BeginVisibility(r, p, listed) ==
    /\ Alive(p) /\ rows[p].listed # listed
    /\ \A s \in Request :
         Busy(s) /\ req[s].kind = "visibility" => req[s].party # p
    /\ Begin(r, "visibility", p, [rows[p] EXCEPT !.listed = listed], TRUE)

\* The count under the lock.  An update is counted only when it brings the
\* stored date from the past into the future (EntersFutureSet).
OverLimit(r) ==
    LET p == req[r].party IN
    /\ CountsAsFuture(req[r].copy.date) \/ req[r].kind = "create"
    /\ req[r].kind = "metadata" => Alive(p) /\ ~CountsAsFuture(rows[p].date)
    /\ Cardinality(Future \ {p}) >= MaxFuture

\* SELECT pg_advisory_xact_lock waits until the lock is free; then the count.
\* A refused request ends the transaction: 403 future_party_limit_reached.
TakeLockAndCount(r) ==
    /\ Enforce
    /\ Busy(r) /\ req[r].stage = "checked" /\ req[r].kind \in {"create", "metadata"}
    /\ lock = NoRequest
    /\ IF OverLimit(r)
       THEN Answer(r) /\ UNCHANGED lock
       ELSE /\ req' = [req EXCEPT ![r].stage = "granted"]
            /\ lock' = r
    /\ UNCHANGED <<rows, slipped>>
    /\ Watch

\* The write may go ahead: granted under the lock where the limit is enforced.
MayWrite(r) ==
    req[r].stage = IF Enforce /\ req[r].kind \in {"create", "metadata"}
                   THEN "granted" ELSE "checked"

\* The commit or the rollback of r's transaction.
EndTransaction(r) == lock' = IF lock = r THEN NoRequest ELSE lock

\* Mutant: the index covers the living parties only.
CodeFreeOfLiving(c) == \A q \in Party : Alive(q) => rows[q].code # c

\* AddWithinTransactionAsync.  The unique index on ShortCode covers deleted
\* rows too: a violation rolls the transaction back.
CodeFree(c) == \A q \in Party : Exists(q) => rows[q].code # c

InsertParty(r) ==
    LET copy == req[r].copy IN
    /\ Busy(r) /\ req[r].kind = "create" /\ MayWrite(r)
    /\ rows' = IF CodeFree(copy.code)
               THEN [rows EXCEPT ![req[r].party] = copy] ELSE rows
    /\ EndTransaction(r)
    /\ Answer(r)
    /\ UNCHANGED slipped
    /\ Watch

\* Mutant: the visibility too.
ApplyToAll(row, copy) == [row EXCEPT !.date = copy.date, !.listed = copy.listed]

\* Party.ApplyTo: the columns of the card, neither the short code, nor the
\* visibility, nor the deletion mark.
ApplyTo(row, copy) == [row EXCEPT !.date = copy.date]
UpdateAsync(row, copy) == [ApplyTo(row, copy) EXCEPT !.songs = copy.songs]
\* Mutant: the songs of the copy too.
UpdateMetadataAsyncAll(row, copy, names) ==
    [UpdateAsync(row, copy) EXCEPT !.listed = IF names THEN copy.listed ELSE @]
UpdateMetadataAsync(row, copy, names) ==
    [ApplyTo(row, copy) EXCEPT !.listed = IF names THEN copy.listed ELSE @]

\* The SELECT of UpdateAsync, of UpdateMetadataAsync and of the administrator's
\* SetCatalogVisibilityAsync: a deleted row is not found and not written.
Find(r) ==
    LET p == req[r].party IN
    /\ Busy(r) /\ req[r].kind # "create" /\ MayWrite(r)
    /\ IF Alive(p)
       THEN /\ req' = [req EXCEPT ![r].stage = "found", ![r].tracked = rows[p]]
            /\ UNCHANGED lock
       ELSE Answer(r) /\ EndTransaction(r)
    /\ UNCHANGED <<rows, slipped>>
    /\ Watch

Found(r, kind) == Busy(r) /\ req[r].stage = "found" /\ req[r].kind = kind

\* SaveChanges: an UPDATE by the id with the columns that are no longer what
\* was read (the songs have a ValueComparer); the others stay as they are by now.
Sent(stored, tracked, new) == IF new = tracked THEN stored ELSE new
Merged(row, tracked, new) ==
    [row EXCEPT !.date = Sent(@, tracked.date, new.date),
                !.listed = Sent(@, tracked.listed, new.listed),
                !.songs = Sent(@, tracked.songs, new.songs)]
SaveChanges(p, tracked, new) ==
    rows' = [rows EXCEPT ![p] = Merged(@, tracked, new)]

\* Without the limit the card is written by UpdateMetadataAsync.
WriteMetadata(r) ==
    LET w == req[r] IN
    /\ ~Enforce
    /\ Found(r, "metadata")
    /\ SaveChanges(w.party, w.tracked, UpdateMetadataAsync(w.tracked, w.copy, w.names))
    /\ Answer(r)
    /\ UNCHANGED <<lock, slipped>>
    /\ Watch

\* Mutant: UpdateAsync alone.
WriteLimitedOnce(r) ==
    LET w == req[r] IN
    /\ Enforce
    /\ Found(r, "metadata")
    /\ SaveChanges(w.party, w.tracked, UpdateAsync(w.tracked, w.copy))
    /\ EndTransaction(r)
    /\ Answer(r)
    /\ UNCHANGED slipped
    /\ Watch

\* UpdateIfFuturePartyLimitNotReachedAsync after the count: UpdateAsync and
\* the commit.  A request that names the visibility goes on to
\* UpdateMetadataAsync, in the same EF context.
WriteLimited(r) ==
    LET w == req[r]
        new == UpdateAsync(w.tracked, w.copy)
    IN
    /\ Enforce
    /\ Found(r, "metadata")
    /\ SaveChanges(w.party, w.tracked, new)
    /\ EndTransaction(r)
    /\ IF w.names
       THEN req' = [req EXCEPT ![r].stage = "relist", ![r].tracked = new]
       ELSE Answer(r)
    /\ UNCHANGED slipped
    /\ Watch

\* Its SELECT fails for a party deleted meanwhile; otherwise EF goes on with the
\* row it tracks, whose card is the copy's already.
WriteListed(r) ==
    LET w == req[r] IN
    /\ Busy(r) /\ w.stage = "relist"
    /\ IF Alive(w.party)
       THEN SaveChanges(w.party, w.tracked, UpdateMetadataAsync(w.tracked, w.copy, TRUE))
       ELSE UNCHANGED rows
    /\ Answer(r)
    /\ UNCHANGED <<lock, slipped>>
    /\ Watch

\* A step brings a living party from the past into the future.
Slips(p) == Alive(p) /\ ~CountsAsFuture(rows[p].date) /\ CountsAsFuture(rows'[p].date)

\* UpdateAsync of UpdatePartyPlaylistAsync: no lock and no count.
WritePlaylist(r) ==
    LET w == req[r] IN
    /\ Found(r, "playlist")
    /\ SaveChanges(w.party, w.tracked, UpdateAsync(w.tracked, w.copy))
    /\ slipped' = (slipped \/ Slips(w.party))
    /\ Answer(r)
    /\ UNCHANGED lock
    /\ Watch

WriteVisibility(r) ==
    LET w == req[r] IN
    /\ Found(r, "visibility")
    /\ SaveChanges(w.party, w.tracked, [w.tracked EXCEPT !.listed = w.copy.listed])
    /\ Answer(r)
    /\ UNCHANGED <<lock, slipped>>
    /\ Watch

\* DeleteAsync marks the row.
DeleteParty(p) ==
    /\ Alive(p)
    /\ rows' = [rows EXCEPT ![p].alive = FALSE]
    /\ UNCHANGED <<lock, req, slipped>>
    /\ Watch

Proceed(r) == \/ TakeLockAndCount(r) \/ InsertParty(r) \/ Find(r)
              \/ WriteMetadata(r) \/ WriteLimited(r) \/ WriteListed(r)
              \/ WritePlaylist(r) \/ WriteVisibility(r)

Arrive(r) == \E p \in Party, date \in Date, flag, listed \in BOOLEAN :
    \/ \E c \in Code, songs \in Playlist : BeginCreate(r, p, date, listed, c, songs)
    \/ \E names \in BOOLEAN : BeginMetadata(r, p, flag, date, names, listed)
    \/ \E songs \in Playlist : BeginPlaylist(r, p, songs)
    \/ BeginVisibility(r, p, listed)

Next == \/ \E r \in Request : Arrive(r) \/ Proceed(r)
        \/ \E p \in Party : DeleteParty(p)

Spec == Init /\ [][Next]_vars
-----------------------------------------------------------------------------
\* No two parties have the same short code, although the code is looked up
\* before the party is inserted and deleted parties keep theirs.
UniqueCodes == \A p, q \in Party :
    p # q /\ Exists(p) /\ Exists(q) => rows[p].code # rows[q].code

\* The limit of future parties holds however creations and edits overlap, as
\* long as no write outside the lock has put a party back into the future.
LimitHolds == Enforce /\ ~slipped => Cardinality(Future) <= MaxFuture

\* The visibility of a party changes only to what a request on its way names:
\* neither an edit of the card nor a playlist brings an older one back.
VisibilityAsAsked ==
    [][\A p \in Party :
         Exists(p) /\ rows'[p].listed # rows[p].listed =>
             \E r \in Request :
                 /\ Busy(r) /\ req[r].party = p /\ req[r].names
                 /\ rows'[p].listed = req[r].copy.listed]_vars

\* With the limit off, as the program is delivered, the songs change only to
\* those of a playlist on its way: an edit of the card brings no older ones back.
PlaylistSurvivesEdits ==
    [][\A p \in Party :
         ~Enforce /\ Exists(p) /\ rows'[p].songs # rows[p].songs =>
             \E r \in Request :
                 /\ Busy(r) /\ req[r].party = p /\ req[r].kind = "playlist"
                 /\ rows'[p].songs = req[r].copy.songs]_vars

\* A request that found its party is not answered before the party was, for a
\* moment at least, what it asks for, although SaveChanges sends only columns
\* that differ from a row read earlier and other requests write in between.
AnsweredIsShown ==
    [][\A r \in Request :
         /\ Busy(r) /\ ~Busy(r)' /\ req[r].stage \in {"found", "relist"}
         /\ Alive(req[r].party)
         => r \in shown \/ AsAsked(req[r], rows'[req[r].party])]_vars

\* What CONTRACTS.md promises of the limit when it is enforced.
FutureWithinLimit == Enforce => Cardinality(Future) <= MaxFuture
=============================================================================
