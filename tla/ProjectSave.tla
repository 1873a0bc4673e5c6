----------------------------- MODULE ProjectSave -----------------------------
(***************************************************************************)
(* Saving a project (electron/ipc/project.ts and the renderer's AppHeader  *)
(* and projectStore).  A plain save writes the .cherry file; a portable    *)
(* one first copies the tracks next to it and afterwards deletes the       *)
(* copies that the previous .cherry used and the new one does not.  The    *)
(* handler is asynchronous: between its steps the user goes on working,    *)
(* another save may run, an operation may fail, the application may die.   *)
(*                                                                         *)
(* All tracks are in the main playlist and their files have the same base  *)
(* name, so a copy is known by the number its name ends in: 01.mp3,        *)
(* 01_2.mp3, ...  The folders of groups and collections are left out, and  *)
(* with them a track that moves from one to another.  There is one project *)
(* folder.                                                                 *)
(***************************************************************************)
EXTENDS Naturals, FiniteSets

CONSTANTS
    Song,           \* audio files outside the project folder
    Cherry,         \* the .cherry files that may be in the project folder
    Package,        \* the one "Save as portable" creates the folder with
    None, Torn,
    Scenarios,      \* which disturbances may happen together, see below
    MaxCopies,      \* bound: the highest suffix of a copy
    MaxSaves,       \* bound: saves running at once
    MaxEdits,       \* bound: edits of the playlist
    MaxFaults       \* bound: failures and crashes

\* "fault": a file operation fails, a song disappears, the application dies
\* "busy": edits, loading and further saves while a plain save runs
\* "undo": a track removed before a save is put back after it
\* "shared": a second .cherry is saved in the same folder
Disturbance == {"fault", "busy", "undo", "shared"}
Copy == 1 .. MaxCopies

ASSUME SaveAssumption ==
    /\ Package \in Cherry /\ None \notin Cherry /\ None \notin Song
    /\ Song \cap Copy = {} /\ None \notin Copy
    /\ Scenarios \subseteq SUBSET Disturbance
    /\ MaxCopies \in Nat /\ MaxSaves \in Nat \ {0}
    /\ MaxEdits \in Nat /\ MaxFaults \in Nat

VARIABLES
    allowed,        \* the disturbances of this behaviour
    \* the renderer
    project,        \* the tracks of the playlist, paths absolute
    undoable,       \* tracks the undo history can put back
    isDirty, filePath, portableMode,
    \* the disk
    songs,          \* songs that are still there
    copies,         \* copy -> the song whose audio it holds
    cherry,         \* contents of the .cherry files
    saves,          \* running handlers of project:save and savePortableAs
    edits, faults

vars == <<allowed, project, undoable, isDirty, filePath, portableMode, songs,
          copies, cherry, saves, edits, faults>>

Track == [song : Song, path : Song \cup Copy]
Original(s) == [song |-> s, path |-> s]
Document == [portable : BOOLEAN, tracks : SUBSET Track]
ASSUME ContentAssumption ==
    None \notin Document /\ Torn \notin Document /\ None # Torn

IsCopy(t) == t.path \in Copy
FileExists(t) == IF IsCopy(t) THEN copies[t.path] # None ELSE t.path \in songs

Idle == [stage |-> "idle"]
Stages == {"previous", "check", "copy", "named", "open", "write", "sweep",
           "answer", "stage", "rename"}
Save == [stage : Stages, kind : {"save", "saveAs", "package"}, file : Cherry,
         portable : BOOLEAN, todo : SUBSET Track, done : SUBSET Track,
         previous : SUBSET Copy, name : Copy \cup {None}]
Running == {i \in DOMAIN saves : saves[i] # Idle}
FolderExists == (\E f \in Cherry : cherry[f] # None)
                \/ (\E n \in Copy : copies[n] # None)

SaveTypeOK ==
    /\ allowed \in Scenarios
    /\ project \subseteq Track /\ undoable \subseteq Track
    /\ isDirty \in BOOLEAN /\ portableMode \in BOOLEAN
    /\ filePath \in Cherry \cup {None}
    /\ songs \subseteq Song
    /\ copies \in [Copy -> Song \cup {None}]
    /\ cherry \in [Cherry -> Document \cup {None, Torn}]
    /\ saves \in [1 .. MaxSaves -> Save \cup {Idle}]
    /\ edits \in 0 .. MaxEdits /\ faults \in 0 .. MaxFaults
    /\ \A i \in Running : \A t \in saves[i].done : IsCopy(t)
-----------------------------------------------------------------------------
Init ==
    /\ allowed \in Scenarios
    /\ project = {} /\ undoable = {}
    /\ isDirty = FALSE /\ filePath = None /\ portableMode = FALSE
    /\ songs = Song
    /\ copies = [n \in Copy |-> None]
    /\ cherry = [f \in Cherry |-> None]
    /\ saves = [i \in 1 .. MaxSaves |-> Idle]
    /\ edits = 0 /\ faults = 0

UnchangedWindow == UNCHANGED <<project, undoable, isDirty, filePath, portableMode>>
UnchangedDisk == UNCHANGED <<songs, copies, cherry>>
Undisturbed == UNCHANGED <<allowed, edits, faults>>
\* The user acts while nothing is being saved; in the scenario "busy", also while
\* plain saves run (the dialog of "Save as" stays over the window until it is done).
UserMayAct ==
    \A i \in Running : "busy" \in allowed /\ saves[i].kind = "save"

Move(i, stage) == saves' = [saves EXCEPT ![i].stage = stage]
At(i, stage) == saves[i] # Idle /\ saves[i].stage = stage
-----------------------------------------------------------------------------
(* The renderer. *)

\* addItem, removeItem and undo of either: the store marks itself dirty.
Edit ==
    /\ UserMayAct /\ edits < MaxEdits
    /\ \E t \in {Original(s) : s \in songs} \cup project \cup undoable :
         /\ project' = IF t \in project THEN project \ {t} ELSE project \cup {t}
         /\ undoable' = undoable \cup {t}
    /\ isDirty' = TRUE
    /\ edits' = edits + 1
    /\ UNCHANGED <<allowed, filePath, portableMode, saves, faults>>
    /\ UnchangedDisk

Begin(kind, file, portable, stage) ==
    /\ \E i \in DOMAIN saves :
         /\ saves[i] = Idle
         /\ saves' = [saves EXCEPT ![i] =
              [stage |-> stage, kind |-> kind, file |-> file,
               portable |-> portable, todo |-> project, done |-> {},
               previous |-> {}, name |-> None]]
    /\ UnchangedWindow /\ UnchangedDisk /\ Undisturbed

\* AppHeader.handleSave: the project as it is now goes to the main process.
HandleSave ==
    /\ UserMayAct /\ filePath # None
    /\ Begin("save", filePath, portableMode,
             IF portableMode THEN "previous" ELSE "open")

\* AppHeader.runSaveAsFromModal without the checkbox.
SaveAs(f) ==
    /\ UserMayAct
    /\ "shared" \in allowed \/ \A g \in Cherry \ {f} : cherry[g] = None
    /\ Begin("saveAs", f, portableMode,
             IF portableMode THEN "previous" ELSE "open")

\* With the checkbox: savePortableProjectAsPackage into a new folder.
SavePortableAs ==
    /\ UserMayAct /\ ~FolderExists
    /\ Begin("package", Package, TRUE, "stage")

\* AppHeader.handleLoad and loadProject, which clears the undo history.
Load(f) ==
    /\ UserMayAct /\ cherry[f] \in Document
    /\ filePath # f \/ project # cherry[f].tracks
    /\ project' = cherry[f].tracks
    /\ undoable' = IF "undo" \in allowed THEN cherry[f].tracks ELSE {}
    /\ isDirty' = FALSE /\ filePath' = f
    /\ portableMode' = cherry[f].portable
    /\ UNCHANGED saves /\ UnchangedDisk /\ Undisturbed

\* The answer reaches the renderer, which resets the dirty mark; after a package it
\* then sets the portable mode, and that marks the project dirty again.
Saved(i) ==
    /\ At(i, "answer")
    /\ isDirty' = (saves[i].kind = "package")
    /\ filePath' = IF saves[i].kind = "save" THEN filePath ELSE saves[i].file
    /\ portableMode' = (portableMode \/ saves[i].kind = "package")
    /\ undoable' = IF "undo" \in allowed THEN undoable ELSE {}
    /\ saves' = [saves EXCEPT ![i] = Idle]
    /\ UNCHANGED project /\ UnchangedDisk /\ Undisturbed
-----------------------------------------------------------------------------
(* The handler of project:save. *)

PortableCopies(doc) == {t.path : t \in {u \in doc.tracks : IsCopy(u)}}

\* readPreviousPortableTrackPaths: a file that does not parse has none.
ReadPrevious(i) ==
    /\ At(i, "previous")
    /\ LET old == cherry[saves[i].file] IN
       saves' = [saves EXCEPT ![i].stage = "check", ![i].previous =
           IF old \in Document /\ old.portable THEN PortableCopies(old) ELSE {}]
    /\ UnchangedWindow /\ UnchangedDisk /\ Undisturbed

\* Mutant: not strict, a missing source is left out.
CheckSourcesSkipping(i) ==
    /\ At(i, "check")
    /\ saves' = [saves EXCEPT ![i].stage = "copy",
                   ![i].todo = {t \in @ : FileExists(t)}]
    /\ UnchangedWindow /\ UnchangedDisk /\ Undisturbed

\* copyTracksForPortableMode, strictSourceFiles: before anything is copied,
\* every source must be there.  The handler then answers with an error.
CheckSources(i) ==
    /\ At(i, "check")
    /\ saves' = IF \A t \in saves[i].todo : FileExists(t)
                THEN [saves EXCEPT ![i].stage = "copy"]
                ELSE [saves EXCEPT ![i] = Idle]
    /\ UnchangedWindow /\ UnchangedDisk /\ Undisturbed

\* A track already in tracks/ stays where it is.
KeepCopy(i) ==
    /\ At(i, "copy")
    /\ \E t \in saves[i].todo :
         /\ IsCopy(t)
         /\ saves' = IF FileExists(t)
                     THEN [saves EXCEPT ![i].todo = @ \ {t}, ![i].done = @ \cup {t}]
                     ELSE [saves EXCEPT ![i] = Idle]
    /\ UnchangedWindow /\ UnchangedDisk /\ Undisturbed

\* Mutant: without looking what is there.
FirstName(n) == n = 1

\* resolveUniqueDestPath: the first name that is not taken.
FirstFree(n) == copies[n] = None /\ \A m \in Copy : m < n => copies[m] # None
ChooseName(i) ==
    /\ At(i, "copy")
    /\ \E t \in saves[i].todo : ~IsCopy(t)
    /\ \E n \in Copy :
         /\ FirstFree(n)
         /\ saves' = [saves EXCEPT ![i].stage = "named", ![i].name = n]
    /\ UnchangedWindow /\ UnchangedDisk /\ Undisturbed

\* copyFileWithRetry: writes over a file that is there meanwhile.
CopyFile(i) ==
    /\ At(i, "named")
    /\ \E t \in saves[i].todo :
         /\ ~IsCopy(t) /\ FileExists(t)
         /\ copies' = [copies EXCEPT ![saves[i].name] = t.song]
         /\ saves' = [saves EXCEPT ![i].stage = "copy", ![i].name = None,
                        ![i].todo = @ \ {t},
                        ![i].done = @ \cup {[t EXCEPT !.path = saves[i].name]}]
    /\ UNCHANGED <<songs, cherry>> /\ UnchangedWindow /\ Undisturbed

CopiesDone(i) ==
    /\ At(i, "copy") /\ saves[i].todo = {}
    /\ Move(i, "open")
    /\ UnchangedWindow /\ UnchangedDisk /\ Undisturbed

\* saveProject, fs.writeFile: the file is emptied, then written.
OpenFile(i) ==
    /\ At(i, "open")
    /\ cherry' = [cherry EXCEPT ![saves[i].file] = Torn]
    /\ Move(i, "write")
    /\ UNCHANGED <<songs, copies>> /\ UnchangedWindow /\ Undisturbed

\* Over the longer text of another writer the new one leaves its tail.
WriteFile(i) ==
    LET s == saves[i]
        new == [portable |-> s.portable,
                tracks |-> IF s.portable THEN s.done ELSE s.todo] IN
    /\ At(i, "write")
    /\ \E left \in (IF cherry[s.file] = Torn THEN {new} ELSE {new, Torn}) :
         cherry' = [cherry EXCEPT ![s.file] = left]
    /\ Move(i, IF s.portable THEN "sweep" ELSE "answer")
    /\ UNCHANGED <<songs, copies>> /\ UnchangedWindow /\ Undisturbed

\* Mutant: all of the previous copies.
SweepAll(i) ==
    LET stale == saves[i].previous IN
    /\ At(i, "sweep")
    /\ IF stale = {}
       THEN Move(i, "answer") /\ UNCHANGED copies
       ELSE \E n \in stale :
              /\ copies' = [copies EXCEPT ![n] = None]
              /\ saves' = [saves EXCEPT ![i].previous = @ \ {n}]
    /\ UNCHANGED <<songs, cherry>> /\ UnchangedWindow /\ Undisturbed

\* removeObsoletePortableFiles, one unlink at a time.
Sweep(i) ==
    LET stale == saves[i].previous \ PortableCopies([tracks |-> saves[i].done]) IN
    /\ At(i, "sweep")
    /\ IF stale = {}
       THEN Move(i, "answer") /\ UNCHANGED copies
       ELSE \E n \in stale :
              /\ copies' = [copies EXCEPT ![n] = None]
              /\ saves' = [saves EXCEPT ![i].previous = @ \ {n}]
    /\ UNCHANGED <<songs, cherry>> /\ UnchangedWindow /\ Undisturbed
-----------------------------------------------------------------------------
(* savePortableProjectAsPackage: the folder is built under a staging name   *)
(* that nobody else knows, then renamed.                                    *)

StagePackage(i) ==
    /\ At(i, "stage")
    /\ IF \A t \in saves[i].todo : FileExists(t)
       THEN \E number \in [saves[i].todo -> Copy] :
              /\ \A t \in saves[i].todo : number[t] <= Cardinality(saves[i].todo)
              /\ \A t, u \in saves[i].todo : t # u => number[t] # number[u]
              /\ saves' = [saves EXCEPT ![i].stage = "rename", ![i].todo = {},
                   ![i].done = {[t EXCEPT !.path = number[t]] : t \in saves[i].todo}]
       ELSE saves' = [saves EXCEPT ![i] = Idle]
    /\ UnchangedWindow /\ UnchangedDisk /\ Undisturbed

\* The folder appears as a whole; if there is one by now, that is an error.
RenamePackage(i) ==
    LET s == saves[i]
        held(n) == {t \in s.done : t.path = n} IN
    /\ At(i, "rename")
    /\ IF FolderExists
       THEN saves' = [saves EXCEPT ![i] = Idle] /\ UNCHANGED <<copies, cherry>>
       ELSE /\ copies' = [n \in Copy |->
                 IF held(n) = {} THEN None ELSE (CHOOSE t \in held(n) : TRUE).song]
            /\ cherry' = [cherry EXCEPT ![s.file] =
                 [portable |-> TRUE, tracks |-> s.done]]
            /\ Move(i, "answer")
    /\ UNCHANGED songs /\ UnchangedWindow /\ Undisturbed
-----------------------------------------------------------------------------
(* Faults. *)

FaultMayHappen == "fault" \in allowed /\ faults < MaxFaults /\ faults' = faults + 1

\* An operation of the handler fails; it answers with an error, which leaves
\* the renderer as it is.  What was done on disk stays.
SaveFails(i) ==
    /\ FaultMayHappen
    /\ saves[i] # Idle /\ saves[i].stage \notin {"previous", "sweep", "answer"}
    /\ saves' = [saves EXCEPT ![i] = Idle]
    /\ UnchangedWindow /\ UnchangedDisk /\ UNCHANGED <<allowed, edits>>

SongDisappears ==
    /\ FaultMayHappen
    /\ \E s \in songs : songs' = songs \ {s}
    /\ UNCHANGED <<allowed, copies, cherry, saves, edits>> /\ UnchangedWindow

\* The application dies and starts again: projectStore's merge restores the
\* project from IndexedDB, as not dirty; the undo history is gone.
Restart ==
    /\ FaultMayHappen
    /\ saves' = [i \in DOMAIN saves |-> Idle]
    /\ isDirty' = FALSE
    /\ undoable' = {}
    /\ UNCHANGED <<allowed, project, filePath, portableMode, edits>>
    /\ UnchangedDisk

Handler(i) ==
    \/ ReadPrevious(i) \/ CheckSources(i) \/ KeepCopy(i) \/ ChooseName(i)
    \/ CopyFile(i) \/ CopiesDone(i) \/ OpenFile(i) \/ WriteFile(i) \/ Sweep(i)
    \/ StagePackage(i) \/ RenamePackage(i) \/ Saved(i)

Next ==
    \/ Edit \/ HandleSave \/ SavePortableAs
    \/ \E f \in Cherry : SaveAs(f) \/ Load(f)
    \/ \E i \in 1 .. MaxSaves : Handler(i) \/ SaveFails(i)
    \/ SongDisappears \/ Restart

Spec == Init /\ [][Next]_vars
-----------------------------------------------------------------------------
(* Properties. *)

Without(tags) == allowed \cap tags = {}
Portable(f) == cherry[f] \in Document /\ cherry[f].portable
SongsOf(tracks) == {t.song : t \in tracks}

(* A portable .cherry that can be read refers only to copies that are on   *)
(* disk, through every failure and crash between two steps of a save: the  *)
(* project opens on another computer without broken paths.                 *)
CopiesExist ==
    Without({"busy", "shared"}) =>
        \A f \in Cherry : Portable(f) =>
            \A t \in cherry[f].tracks : IsCopy(t) /\ FileExists(t)

(* ... and each copy holds the audio of its track, although the names of   *)
(* deleted copies are used again.                                          *)
CopiesMatch ==
    Without({"busy", "shared", "undo"}) =>
        \A f \in Cherry : Portable(f) =>
            \A t \in cherry[f].tracks : copies[t.path] = t.song

\* What the .cherry holds is the playlist.
IsOnDisk ==
    /\ cherry[filePath] \in Document
    /\ SongsOf(cherry[filePath].tracks) = SongsOf(project)

(* A project that is not dirty is on disk: discarding it without asking    *)
(* loses nothing.                                                          *)
CleanMeansSaved ==
    (Without({"busy", "fault"}) /\ ~isDirty /\ filePath # None /\ Running = {})
        => IsOnDisk

(* The same with the user free to work during a plain save and no fault:   *)
(* what the documentation says of meta.isDirty.                            *)
UnsavedChangesAreDirty ==
    (~isDirty /\ filePath # None /\ Running = {}) => IsOnDisk

(* Where nobody works during a save, one that succeeds leaves nothing to   *)
(* warn of: the project is not dirty, whichever way it was saved.          *)
SavedIsClean ==
    [][\A i \in DOMAIN saves : (At(i, "answer") /\ saves'[i] = Idle) => ~isDirty']_vars
=============================================================================
