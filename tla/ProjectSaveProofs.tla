-------------------------- MODULE ProjectSaveProofs --------------------------
(***************************************************************************)
(* What a save leaves on disk, for any number of songs, files, copies and  *)
(* saves, and any number of edits and faults.                              *)
(*                                                                         *)
(* The user does not act while a save runs, unless the scenario is "busy": *)
(* then one save runs at a time (Alone), the name it chose for a copy is   *)
(* still free when it copies (NameIsFree), the copies it has made stay     *)
(* (DoneExists) and the file it writes is its own (Written).  If there is  *)
(* also a single .cherry in the folder (OnlyCherry), sweeping can only     *)
(* take copies which no document refers to any more.                       *)
(***************************************************************************)
EXTENDS ProjectSave, TLAPS

Saver == 1 .. MaxSaves
Alone == \A i, j \in Running : i = j

(* What a save is at each of its stages.                                   *)
StagesFit ==
  \A i \in Running :
    /\ saves[i].stage \in {"previous", "check", "copy", "named", "sweep"}
         => saves[i].portable /\ saves[i].kind # "package"
    /\ saves[i].stage \in {"open", "write"} => saves[i].kind # "package"
    /\ saves[i].stage \in {"stage", "rename"} => saves[i].kind = "package"
    /\ saves[i].kind = "package" => saves[i].portable
    /\ saves[i].stage = "stage" => saves[i].done = {}
    /\ saves[i].stage = "named" => saves[i].name \in Copy
    /\ saves[i].portable /\ saves[i].stage \in {"open", "write", "sweep", "answer", "rename"}
         => saves[i].todo = {}
    /\ saves[i].stage \in {"write", "sweep", "answer"} => cherry[saves[i].file] # None

NameIsFree ==
  \A i \in Running : saves[i].stage = "named" => copies[saves[i].name] = None

DoneExists ==
  \A i \in Running : saves[i].stage # "rename" => \A t \in saves[i].done : FileExists(t)

Written ==
  \A i \in Running :
    /\ saves[i].stage = "write" => cherry[saves[i].file] = Torn
    /\ saves[i].stage = "sweep" =>
         cherry[saves[i].file] = [portable |-> TRUE, tracks |-> saves[i].done]

OnlyCherry ==
  /\ \A f, g \in Cherry : cherry[f] # None /\ cherry[g] # None => f = g
  /\ filePath # None => cherry[filePath] # None
  /\ \A i \in Running, f \in Cherry : f # saves[i].file => cherry[f] = None

CopiesAreThere ==
  \A f \in Cherry : Portable(f) => \A t \in cherry[f].tracks : IsCopy(t) /\ FileExists(t)

(* Tracks in the project folder whose copies hold their audio.             *)
Agrees(disk, tracks) == \A t \in tracks : IsCopy(t) => disk[t.path] = t.song
Matching(tracks) == Agrees(copies, tracks)

(* Every track anybody still knows of matches its copy; the undo history   *)
(* is forgotten when the save that swept a copy of its is over.            *)
KnownTracksMatch ==
  /\ \A f \in Cherry : cherry[f] \in Document => Matching(cherry[f].tracks)
  /\ Matching(project)
  /\ Matching(undoable) \/ \E i \in Running : saves[i].stage \in {"sweep", "answer"}
  /\ \A i \in Running :
       /\ Matching(saves[i].todo)
       /\ saves[i].stage # "rename" => Matching(saves[i].done)
       /\ saves[i].stage = "rename" =>
            \A t, u \in saves[i].done : t.path = u.path => t = u
       /\ saves[i].portable /\ saves[i].kind # "package" =>
            \A t \in project : IsCopy(t) => t \in saves[i].todo \cup saves[i].done

(* A save carries the whole playlist; when it has written its file, the    *)
(* file holds it.                                                          *)
SavesCarryProject ==
  \A i \in Running :
    /\ saves[i].kind = "save" => saves[i].file = filePath
    /\ ~saves[i].portable => saves[i].todo = project
    /\ saves[i].portable =>
         SongsOf(project) = SongsOf(saves[i].todo) \cup SongsOf(saves[i].done)
    /\ saves[i].stage \in {"sweep", "answer"} =>
         /\ cherry[saves[i].file] \in Document
         /\ SongsOf(cherry[saves[i].file].tracks) = SongsOf(project)

CleanIsOnDisk ==
  (/\ ~isDirty /\ filePath # None
   /\ \A i \in Running : saves[i].stage \notin {"write", "sweep", "answer"})
  => IsOnDisk

SaveInv ==
  /\ SaveTypeOK
  /\ StagesFit
  /\ Without({"busy"}) => Alone /\ NameIsFree /\ DoneExists /\ Written
  /\ Without({"busy", "shared"}) => OnlyCherry /\ CopiesAreThere
  /\ Without({"busy", "shared", "undo"}) => KnownTracksMatch
  /\ Without({"busy", "fault"}) => SavesCarryProject /\ CleanIsOnDisk
-----------------------------------------------------------------------------
(* The steps, and their types.                                             *)

(* A running save is a record, and nothing else is running.                *)
LEMMA Runs ==
  ASSUME SaveTypeOK
  PROVE  /\ Running \subseteq Saver
         /\ \A i \in Saver : i \in Running <=> saves[i] # Idle
         /\ \A i \in Running : saves[i] \in Save
         /\ Idle \notin Save
<1>1. Idle \notin Save
  BY DEF Idle, Save, Stages
<1> QED BY <1>1 DEF Running, SaveTypeOK, Saver

(* A step of one save leaves the others as they are.                       *)
LEMMA SaveChanged ==
  ASSUME SaveTypeOK, NEW i \in Saver, NEW s \in Save \cup {Idle}, saves' = [saves EXCEPT ![i] = s]
  PROVE  /\ saves' \in [Saver -> Save \cup {Idle}]
         /\ saves'[i] = s
         /\ \A j \in Saver : j # i => saves'[j] = saves[j]
         /\ Running' \subseteq Saver
         /\ i \in Running' <=> s # Idle
         /\ \A j \in Saver \ {i} : j \in Running' <=> j \in Running
<1>1. /\ saves' \in [Saver -> Save \cup {Idle}]
      /\ saves'[i] = s
      /\ \A j \in Saver : j # i => saves'[j] = saves[j]
  BY DEF SaveTypeOK, Saver
<1>2. Running' = {j \in Saver : saves'[j] # Idle}
  BY <1>1 DEF Running
<1> QED BY <1>1, <1>2, Runs

(* The save that a click starts.                                           *)
Started(s) ==
  /\ s \in Save
  /\ s.todo = project /\ s.done = {} /\ s.previous = {} /\ s.name = None

(* A save begins as the renderer asked for it.                             *)
LEMMA Begun ==
  ASSUME SaveTypeOK, NEW kind \in {"save", "saveAs", "package"}, NEW file \in Cherry,
         NEW portable \in BOOLEAN, NEW stage \in Stages, Begin(kind, file, portable, stage)
  PROVE  \E i \in Saver, s \in Save :
           /\ saves[i] = Idle /\ saves' = [saves EXCEPT ![i] = s]
           /\ Started(s)
           /\ s.kind = kind /\ s.file = file /\ s.portable = portable /\ s.stage = stage
<1>1. PICK i \in Saver :
        /\ saves[i] = Idle
        /\ saves' = [saves EXCEPT ![i] =
             [stage |-> stage, kind |-> kind, file |-> file,
              portable |-> portable, todo |-> project, done |-> {},
              previous |-> {}, name |-> None]]
  BY DEF Begin, SaveTypeOK, Saver
<1> DEFINE s == [stage |-> stage, kind |-> kind, file |-> file,
                 portable |-> portable, todo |-> project, done |-> {},
                 previous |-> {}, name |-> None]
<1>2. s \in Save
  BY DEF SaveTypeOK, Save
<1>3. Started(s)
  BY <1>2 DEF Started
<1> WITNESS i \in Saver, s \in Save
<1> QED BY <1>1, <1>3

(* What each of the three clicks begins.                                   *)
Begins(s) ==
  /\ UserMayAct /\ Started(s)
  /\ \/ s.kind = "save" /\ s.file = filePath /\ filePath # None
     \/ s.kind = "saveAs" /\ ("shared" \in allowed \/ \A g \in Cherry \ {s.file} : cherry[g] = None)
     \/ s.kind = "package" /\ ~FolderExists /\ s.portable /\ s.stage = "stage"
  /\ s.kind # "package" => s.stage = IF s.portable THEN "previous" ELSE "open"
  /\ UnchangedWindow /\ UnchangedDisk /\ Undisturbed

LEMMA Clicks ==
  ASSUME SaveTypeOK, HandleSave \/ SavePortableAs \/ \E f \in Cherry : SaveAs(f)
  PROVE  \E i \in Saver, s \in Save :
           saves[i] = Idle /\ saves' = [saves EXCEPT ![i] = s] /\ Begins(s)
<1>1. CASE HandleSave
  <2>1. /\ filePath \in Cherry /\ portableMode \in BOOLEAN /\ "save" \in {"save", "saveAs", "package"}
        /\ (IF portableMode THEN "previous" ELSE "open") \in Stages
    BY <1>1 DEF HandleSave, SaveTypeOK, Stages
  <2>2. Begin("save", filePath, portableMode, IF portableMode THEN "previous" ELSE "open")
    BY <1>1 DEF HandleSave
  <2>3. PICK i \in Saver, s \in Save :
          /\ saves[i] = Idle /\ saves' = [saves EXCEPT ![i] = s] /\ Started(s)
          /\ s.kind = "save" /\ s.file = filePath /\ s.portable = portableMode /\ s.stage = (IF portableMode THEN "previous" ELSE "open")
    BY ONLY SaveTypeOK, <2>1, <2>2, Begun
  <2>4. Begins(s)
    BY <1>1, <2>2, <2>3 DEF Begins, Begin, HandleSave
  <2> QED BY <2>3, <2>4
<1>2. ASSUME NEW f \in Cherry, SaveAs(f)
      PROVE  \E i \in Saver, s \in Save :
               saves[i] = Idle /\ saves' = [saves EXCEPT ![i] = s] /\ Begins(s)
  <2>1. /\ f \in Cherry /\ portableMode \in BOOLEAN /\ "saveAs" \in {"save", "saveAs", "package"}
        /\ (IF portableMode THEN "previous" ELSE "open") \in Stages
    BY DEF SaveTypeOK, Stages
  <2>2. Begin("saveAs", f, portableMode, IF portableMode THEN "previous" ELSE "open")
    BY <1>2 DEF SaveAs
  <2>3. PICK i \in Saver, s \in Save :
          /\ saves[i] = Idle /\ saves' = [saves EXCEPT ![i] = s] /\ Started(s)
          /\ s.kind = "saveAs" /\ s.file = f /\ s.portable = portableMode /\ s.stage = (IF portableMode THEN "previous" ELSE "open")
    BY ONLY SaveTypeOK, <2>1, <2>2, Begun
  <2>4. Begins(s)
    BY <1>2, <2>2, <2>3 DEF Begins, Begin, SaveAs
  <2> QED BY <2>3, <2>4
<1>3. CASE SavePortableAs
  <2>0. PICK portable \in BOOLEAN : portable = TRUE
    OBVIOUS
  <2>1. /\ Package \in Cherry /\ "package" \in {"save", "saveAs", "package"}
        /\ "stage" \in Stages
    BY SaveAssumption DEF Stages
  <2>2. Begin("package", Package, portable, "stage")
    BY <1>3, <2>0 DEF SavePortableAs
  <2>3. PICK i \in Saver, s \in Save :
          /\ saves[i] = Idle /\ saves' = [saves EXCEPT ![i] = s] /\ Started(s)
          /\ s.kind = "package" /\ s.file = Package /\ s.portable = portable /\ s.stage = "stage"
    BY ONLY SaveTypeOK, <2>1, <2>2, Begun
  <2>4. Begins(s)
    BY <1>3, <2>0, <2>2, <2>3 DEF Begins, Begin, SavePortableAs
  <2> QED BY <2>3, <2>4
<1> QED BY <1>1, <1>2, <1>3
(* What a step of a handler makes of its save r, and what stays.           *)
Kept(r, s) ==
  /\ s.kind = r.kind /\ s.file = r.file /\ s.portable = r.portable

(* The steps of a handler that goes on, as what they make of the save.     *)
GoesOn(i, r, s) ==
  \/ ReadPrevious(i) /\ s.stage = "check" /\ s.todo = r.todo /\ s.done = r.done
  \/ CheckSources(i) /\ s.stage = "copy" /\ s.todo = r.todo /\ s.done = r.done
  \/ /\ KeepCopy(i) /\ s.stage = "copy"
     /\ \E t \in r.todo : /\ IsCopy(t) /\ FileExists(t)
                          /\ s.todo = r.todo \ {t} /\ s.done = r.done \cup {t}
  \/ /\ ChooseName(i) /\ s.stage = "named" /\ s.todo = r.todo /\ s.done = r.done
     /\ s.name \in Copy /\ copies[s.name] = None
  \/ /\ CopyFile(i) /\ s.stage = "copy" /\ r.name \in Copy
     /\ \E t \in r.todo, u \in Track :
          /\ ~IsCopy(t) /\ u.song = t.song /\ u.path = r.name
          /\ copies' = [copies EXCEPT ![r.name] = t.song]
          /\ s.todo = r.todo \ {t} /\ s.done = r.done \cup {u}
  \/ CopiesDone(i) /\ s.stage = "open" /\ s.todo = {} /\ s.todo = r.todo /\ s.done = r.done
  \/ OpenFile(i) /\ s.stage = "write" /\ s.todo = r.todo /\ s.done = r.done
  \/ /\ WriteFile(i) /\ s.todo = r.todo /\ s.done = r.done
     /\ s.stage = IF r.portable THEN "sweep" ELSE "answer"
  \/ /\ Sweep(i) /\ s.todo = r.todo /\ s.done = r.done
     /\ \/ s.stage = "answer" /\ copies' = copies
        \/ /\ s.stage = "sweep"
           /\ \E n \in Copy : /\ copies' = [copies EXCEPT ![n] = None]
                              /\ \A t \in r.done : t.path # n
  \/ /\ StagePackage(i) /\ s.stage = "rename" /\ s.todo = {}
     /\ SongsOf(s.done) = SongsOf(r.todo) /\ \A t \in s.done : IsCopy(t)
     /\ \A t, u \in s.done : t.path = u.path => t = u
  \/ /\ RenamePackage(i) /\ ~FolderExists
     /\ s.stage = "answer" /\ s.todo = r.todo /\ s.done = r.done

LEMMA HandlerSteps ==
  ASSUME SaveTypeOK, StagesFit, NEW i \in Saver, Handler(i) \/ SaveFails(i)
  PROVE  /\ saves[i] \in Save /\ i \in Running
         /\ \/ Saved(i)
            \/ /\ saves' = [saves EXCEPT ![i] = Idle] /\ UnchangedWindow /\ UnchangedDisk
               /\ saves[i].stage \notin {"sweep", "answer"}
               /\ "fault" \notin allowed => saves[i].stage # "write"
            \/ \E s \in Save : /\ saves' = [saves EXCEPT ![i] = s] /\ UnchangedWindow
                               /\ Kept(saves[i], s) /\ GoesOn(i, saves[i], s)
<1> DEFINE r == saves[i]
           Goal == \E s \in Save : /\ saves' = [saves EXCEPT ![i] = s] /\ UnchangedWindow
                                   /\ Kept(r, s) /\ GoesOn(i, r, s)
<1>1. r \in Save /\ i \in Running
  <2>1. r # Idle
    BY DEF Handler, SaveFails, ReadPrevious, CheckSources, KeepCopy, ChooseName, CopyFile,
           CopiesDone, OpenFile, WriteFile, Sweep, StagePackage, RenamePackage, Saved, At
  <2> QED BY <2>1, Runs
<1>r. /\ r.stage \in Stages /\ r.kind \in {"save", "saveAs", "package"} /\ r.file \in Cherry
      /\ r.portable \in BOOLEAN /\ r.todo \subseteq Track /\ r.done \subseteq Track
      /\ r.previous \subseteq Copy /\ r.name \in Copy \cup {None}
      /\ \A t \in r.done : IsCopy(t)
  BY <1>1, Runs DEF Save, SaveTypeOK
<1>2. ASSUME ReadPrevious(i) PROVE Goal
  <2> DEFINE old == cherry[r.file]
             previous == IF old \in Document /\ old.portable THEN PortableCopies(old) ELSE {}
             s == [r EXCEPT !.stage = "check", !.previous = previous]
  <2>1. previous \subseteq Copy
    BY DEF PortableCopies, IsCopy
  <2>2. s \in Save
    BY <1>1, <2>1 DEF Save, Stages
  <2>3. saves' = [saves EXCEPT ![i] = s]
    BY <1>2 DEF ReadPrevious
  <2>4. Kept(r, s) /\ s.stage = "check" /\ s.todo = r.todo /\ s.done = r.done
    BY <1>1 DEF Kept, Save
  <2> HIDE DEF s
  <2>5. GoesOn(i, r, s) /\ UnchangedWindow
    BY <1>2, <2>4 DEF GoesOn, ReadPrevious
  <2> QED BY <2>2, <2>3, <2>4, <2>5
<1>3. ASSUME NEW stage \in Stages, Move(i, stage)
      PROVE  \E s \in Save : /\ saves' = [saves EXCEPT ![i] = s] /\ Kept(r, s)
                             /\ s.stage = stage /\ s.todo = r.todo /\ s.done = r.done
  <2> DEFINE s == [r EXCEPT !.stage = stage]
  <2>1. s \in Save /\ Kept(r, s) /\ s.stage = stage /\ s.todo = r.todo /\ s.done = r.done
    BY <1>1 DEF Save, Kept
  <2>2. saves' = [saves EXCEPT ![i] = s]
    BY <1>3 DEF Move
  <2> QED BY <2>1, <2>2
<1>4. ASSUME CheckSources(i), saves' # [saves EXCEPT ![i] = Idle] PROVE Goal
  <2>1. Move(i, "copy") /\ "copy" \in Stages
    BY <1>4 DEF CheckSources, Move, Stages
  <2> QED BY <1>3, <1>4, <2>1 DEF GoesOn, CheckSources
<1>5. ASSUME KeepCopy(i), saves' # [saves EXCEPT ![i] = Idle] PROVE Goal
  <2>1. PICK t \in r.todo :
          /\ IsCopy(t) /\ FileExists(t)
          /\ saves' = [saves EXCEPT ![i].todo = @ \ {t}, ![i].done = @ \cup {t}]
    BY <1>5 DEF KeepCopy
  <2> DEFINE s == [r EXCEPT !.todo = @ \ {t}, !.done = @ \cup {t}]
  <2>2. /\ s \in Save /\ Kept(r, s) /\ s.stage = r.stage
        /\ s.todo = r.todo \ {t} /\ s.done = r.done \cup {t}
    BY <1>1, <1>r DEF Save, Kept
  <2>3. saves' = [saves EXCEPT ![i] = s]
    BY <2>1
  <2> HIDE DEF s
  <2>4. r.stage = "copy"
    BY <1>5 DEF KeepCopy, At
  <2>5. GoesOn(i, r, s) /\ UnchangedWindow
    BY <1>5, <2>1, <2>2, <2>4 DEF GoesOn, KeepCopy
  <2> QED BY <2>2, <2>3, <2>5
<1>6. ASSUME ChooseName(i) PROVE Goal
  <2>1. PICK n \in Copy :
          /\ copies[n] = None
          /\ saves' = [saves EXCEPT ![i].stage = "named", ![i].name = n]
    BY <1>6 DEF ChooseName, FirstFree
  <2> DEFINE s == [r EXCEPT !.stage = "named", !.name = n]
  <2>2. /\ s \in Save /\ Kept(r, s) /\ s.stage = "named" /\ s.name = n
        /\ s.todo = r.todo /\ s.done = r.done
    BY <1>1 DEF Save, Kept, Stages
  <2>3. saves' = [saves EXCEPT ![i] = s]
    BY <2>1
  <2> HIDE DEF s
  <2>5. GoesOn(i, r, s) /\ UnchangedWindow
    BY <1>6, <2>1, <2>2 DEF GoesOn, ChooseName
  <2> QED BY <2>2, <2>3, <2>5
<1>7. ASSUME CopyFile(i) PROVE Goal
  <2>1. PICK t \in r.todo :
          /\ ~IsCopy(t)
          /\ copies' = [copies EXCEPT ![r.name] = t.song]
          /\ saves' = [saves EXCEPT ![i].stage = "copy", ![i].name = None, ![i].todo = @ \ {t},
                         ![i].done = @ \cup {[t EXCEPT !.path = r.name]}]
    BY <1>7 DEF CopyFile
  <2>n. r.name \in Copy
    BY <1>1, <1>7 DEF CopyFile, At, StagesFit
  <2> DEFINE u == [t EXCEPT !.path = r.name]
  <2>u. u \in Track /\ u.song = t.song /\ u.path = r.name
    BY <1>r, <2>n DEF Track
  <2> HIDE DEF u
  <2> DEFINE s == [r EXCEPT !.stage = "copy", !.name = None, !.todo = @ \ {t}, !.done = @ \cup {u}]
  <2>2. /\ s \in Save /\ Kept(r, s) /\ s.stage = "copy"
        /\ s.todo = r.todo \ {t} /\ s.done = r.done \cup {u}
    BY <1>1, <1>r, <2>u DEF Save, Kept, Stages
  <2>3. saves' = [saves EXCEPT ![i] = s]
    BY <2>1 DEF u
  <2> HIDE DEF s
  <2>5. GoesOn(i, r, s) /\ UnchangedWindow
    BY <1>7, <2>1, <2>2, <2>n, <2>u DEF GoesOn, CopyFile
  <2> QED BY <2>2, <2>3, <2>5
<1>8. ASSUME CopiesDone(i) PROVE Goal
  <2>1. Move(i, "open") /\ "open" \in Stages /\ r.todo = {}
    BY <1>8 DEF CopiesDone, Stages
  <2> QED BY <1>3, <1>8, <2>1 DEF GoesOn, CopiesDone
<1>9. ASSUME OpenFile(i) PROVE Goal
  <2>1. Move(i, "write") /\ "write" \in Stages
    BY <1>9 DEF OpenFile, Stages
  <2> QED BY <1>3, <1>9, <2>1 DEF GoesOn, OpenFile
<1>10. ASSUME WriteFile(i) PROVE Goal
  <2>1. Move(i, IF r.portable THEN "sweep" ELSE "answer")
        /\ (IF r.portable THEN "sweep" ELSE "answer") \in Stages
    BY <1>10 DEF WriteFile, Stages
  <2>2. UnchangedWindow
    BY <1>10 DEF WriteFile
  <2> QED BY <1>3, <1>10, <2>1, <2>2 DEF GoesOn
<1>11. ASSUME Sweep(i) PROVE Goal
  <2>1. UnchangedWindow /\ r.stage = "sweep"
    BY <1>11 DEF Sweep, At
  <2>2. CASE Move(i, "answer") /\ UNCHANGED copies
    <3>1. "answer" \in Stages
      BY DEF Stages
    <3> QED BY <1>3, <1>11, <2>1, <2>2, <3>1 DEF GoesOn
  <2>3. CASE ~(Move(i, "answer") /\ UNCHANGED copies)
    <3>1. PICK n \in r.previous \ PortableCopies([tracks |-> r.done]) :
            /\ copies' = [copies EXCEPT ![n] = None]
            /\ saves' = [saves EXCEPT ![i].previous = @ \ {n}]
      BY <1>11, <2>3 DEF Sweep
    <3> DEFINE s == [r EXCEPT !.previous = @ \ {n}]
    <3>2. /\ s \in Save /\ Kept(r, s) /\ s.stage = "sweep"
          /\ s.todo = r.todo /\ s.done = r.done
      BY <1>1, <1>r, <2>1 DEF Save, Kept
    <3>3. saves' = [saves EXCEPT ![i] = s]
      BY <3>1
    <3>4. n \in Copy /\ \A t \in r.done : t.path # n
      BY <1>r, <3>1 DEF PortableCopies
    <3> HIDE DEF s
    <3>5. GoesOn(i, r, s)
      BY <1>11, <3>1, <3>2, <3>4 DEF GoesOn
    <3> QED BY <2>1, <3>2, <3>3, <3>5
  <2> QED BY <2>2, <2>3
<1>12. ASSUME StagePackage(i), saves' # [saves EXCEPT ![i] = Idle] PROVE Goal
  <2>1. PICK number \in [r.todo -> Copy] :
          /\ \A t, u \in r.todo : t # u => number[t] # number[u]
          /\ saves' = [saves EXCEPT ![i].stage = "rename", ![i].todo = {},
                   ![i].done = {[t EXCEPT !.path = number[t]] : t \in r.todo}]
    BY <1>12 DEF StagePackage
  <2> DEFINE packed(t) == [t EXCEPT !.path = number[t]]
             done == {packed(t) : t \in r.todo}
  <2>2. \A t \in r.todo : /\ packed(t) \in Track /\ IsCopy(packed(t))
                          /\ packed(t).song = t.song /\ packed(t).path = number[t]
    BY <1>r, <2>1 DEF Track, IsCopy
  <2> HIDE DEF packed
  <2>3. /\ done \subseteq Track /\ SongsOf(done) = SongsOf(r.todo) /\ \A t \in done : IsCopy(t)
        /\ \A t, u \in done : t.path = u.path => t = u
    BY <2>1, <2>2 DEF SongsOf
  <2>4. saves' = [saves EXCEPT ![i].stage = "rename", ![i].todo = {}, ![i].done = done]
    BY <2>1 DEF packed
  <2> HIDE DEF done
  <2> DEFINE s == [r EXCEPT !.stage = "rename", !.todo = {}, !.done = done]
  <2>5. s \in Save /\ Kept(r, s) /\ s.stage = "rename" /\ s.todo = {} /\ s.done = done
    BY <1>1, <2>3 DEF Save, Kept, Stages
  <2>6. saves' = [saves EXCEPT ![i] = s]
    BY <2>4
  <2> HIDE DEF s
  <2>7. GoesOn(i, r, s) /\ UnchangedWindow
    BY <1>12, <2>3, <2>5 DEF GoesOn, StagePackage
  <2> QED BY <2>5, <2>6, <2>7
<1>13. ASSUME RenamePackage(i), saves' # [saves EXCEPT ![i] = Idle] PROVE Goal
  <2>1. Move(i, "answer") /\ "answer" \in Stages /\ ~FolderExists /\ UnchangedWindow
    BY <1>13 DEF RenamePackage, Stages
  <2> QED BY <1>3, <1>13, <2>1 DEF GoesOn
<1>14. ASSUME saves' = [saves EXCEPT ![i] = Idle], ~Saved(i)
       PROVE  /\ UnchangedWindow /\ UnchangedDisk
              /\ saves[i].stage \notin {"sweep", "answer"}
              /\ "fault" \notin allowed => saves[i].stage # "write"
  <2>1. saves'[i] = Idle
    BY <1>14 DEF SaveTypeOK, Saver
  <2>2. ~Goal
    BY <2>1, Runs DEF SaveTypeOK, Saver
  <2>3. CheckSources(i) \/ KeepCopy(i) \/ StagePackage(i) \/ RenamePackage(i) \/ SaveFails(i)
    BY <1>2, <1>6, <1>7, <1>8, <1>9, <1>10, <1>11, <1>14, <2>2 DEF Handler
  <2>4. CASE RenamePackage(i)
    <3>1. ~Move(i, "answer")
      BY <1>3, <2>1, Runs DEF Stages, SaveTypeOK, Saver
    <3> QED BY <2>4, <3>1 DEF RenamePackage, At, UnchangedDisk
  <2> QED BY <2>3, <2>4 DEF CheckSources, KeepCopy, StagePackage, SaveFails, At, FaultMayHappen
<1> HIDE DEF Goal
<1>15. Saved(i) \/ saves' = [saves EXCEPT ![i] = Idle] \/ Goal
  BY <1>2, <1>4, <1>5, <1>6, <1>7, <1>8, <1>9, <1>10, <1>11, <1>12, <1>13 DEF Handler, SaveFails
<1> QED BY <1>1, <1>14, <1>15 DEF Goal

(* The steps, and which save each concerns.                                *)
LEMMA StepCases ==
  ASSUME SaveTypeOK, Next
  PROVE  \/ Edit
         \/ \E i \in Saver, s \in Save :
              saves[i] = Idle /\ saves' = [saves EXCEPT ![i] = s] /\ Begins(s)
         \/ \E f \in Cherry : Load(f)
         \/ \E i \in Saver : Handler(i) \/ SaveFails(i)
         \/ SongDisappears
         \/ Restart
BY Clicks DEF Next, Saver

(* What a written file holds.                                              *)
LEMMA FileWritten ==
  ASSUME SaveTypeOK, NEW i \in Saver, saves[i] \in Save, WriteFile(i)
  PROVE  /\ cherry'[saves[i].file] # None
         /\ LET s == saves[i]
                new == [portable |-> s.portable, tracks |-> IF s.portable THEN s.done ELSE s.todo]
            IN  /\ new \in Document /\ new.portable = s.portable
                /\ new.tracks = IF s.portable THEN s.done ELSE s.todo
                /\ cherry'[s.file] \in {new, Torn}
                /\ cherry[s.file] = Torn => cherry'[s.file] = new
                /\ \A f \in Cherry : f # s.file => cherry'[f] = cherry[f]
                /\ cherry' \in [Cherry -> Document \cup {None, Torn}]
<1> DEFINE s == saves[i]
           new == [portable |-> s.portable, tracks |-> IF s.portable THEN s.done ELSE s.todo]
<1>1. new \in Document /\ new.portable = s.portable
      /\ new.tracks = IF s.portable THEN s.done ELSE s.todo
  BY DEF Save, Document
<1>2. PICK left \in (IF cherry[s.file] = Torn THEN {new} ELSE {new, Torn}) :
        cherry' = [cherry EXCEPT ![s.file] = left]
  BY DEF WriteFile
<1> HIDE DEF new
<1>3. s.file \in Cherry
  BY DEF Save
<1>4. /\ cherry'[s.file] \in {new, Torn}
      /\ cherry[s.file] = Torn => cherry'[s.file] = new
      /\ \A f \in Cherry : f # s.file => cherry'[f] = cherry[f]
      /\ cherry' \in [Cherry -> Document \cup {None, Torn}]
  BY <1>1, <1>2, <1>3 DEF SaveTypeOK
<1>5. cherry'[s.file] # None
  BY <1>1, <1>4, ContentAssumption
<1> QED BY <1>1, <1>4, <1>5 DEF new

(* A package appears with the copies of all its tracks.                    *)
LEMMA PackageRenamed ==
  ASSUME SaveTypeOK, NEW i \in Saver, saves[i] \in Save, RenamePackage(i), ~FolderExists
  PROVE  /\ copies' \in [Copy -> Song \cup {None}]
         /\ cherry' \in [Cherry -> Document \cup {None, Torn}]
         /\ cherry'[saves[i].file] = [portable |-> TRUE, tracks |-> saves[i].done]
         /\ cherry'[saves[i].file] \in Document
         /\ \A f \in Cherry : f # saves[i].file => cherry'[f] = None
         /\ \A t \in saves[i].done : copies'[t.path] # None
         /\ (\A t, u \in saves[i].done : t.path = u.path => t = u)
              => \A t \in saves[i].done : copies'[t.path] = t.song
<1> DEFINE s == saves[i]
           held(n) == {t \in s.done : t.path = n}
           new == [portable |-> TRUE, tracks |-> s.done]
<1>1. /\ copies' = [n \in Copy |->
                     IF held(n) = {} THEN None ELSE (CHOOSE t \in held(n) : TRUE).song]
      /\ cherry' = [cherry EXCEPT ![s.file] = new]
  BY DEF RenamePackage
<1>2. s.file \in Cherry /\ s.done \subseteq Track /\ new \in Document /\ i \in Running
  BY Runs DEF Save, Document
<1>3. \A t \in s.done : t.path \in Copy /\ t.song \in Song
  BY <1>2 DEF SaveTypeOK, IsCopy, Track
<1>4. ASSUME NEW n \in Copy, held(n) # {}
      PROVE  (CHOOSE t \in held(n) : TRUE) \in held(n)
  BY <1>4
<1>5. ASSUME NEW n \in Copy
      PROVE  copies'[n] \in Song \cup {None}
  BY <1>1, <1>3, <1>4
<1>6. ASSUME NEW t \in s.done
      PROVE  /\ copies'[t.path] \in Song
             /\ (\A u \in s.done : t.path = u.path => t = u) => copies'[t.path] = t.song
  BY <1>1, <1>3, <1>4
<1>7. copies' \in [Copy -> Song \cup {None}]
  BY <1>1, <1>5
<1>8. \A f \in Cherry : cherry[f] = None
  BY DEF FolderExists
<1> HIDE DEF new
<1>9. /\ cherry' \in [Cherry -> Document \cup {None, Torn}]
      /\ cherry'[s.file] = new
      /\ \A f \in Cherry : f # s.file => cherry'[f] = None
  BY <1>1, <1>2, <1>8 DEF SaveTypeOK
<1> QED BY <1>2, <1>6, <1>7, <1>9, SaveAssumption DEF new

(* Every step keeps the types.                                             *)
LEMMA TypesStep ==
  ASSUME SaveTypeOK, StagesFit, Next
  PROVE  SaveTypeOK'
<1> USE DEF SaveTypeOK
<1>c. /\ MaxSaves \in Nat /\ MaxEdits \in Nat /\ MaxFaults \in Nat
  BY SaveAssumption
<1>1. CASE Edit
  <2>1. PICK t \in {Original(s) : s \in songs} \cup project \cup undoable :
          /\ project' = IF t \in project THEN project \ {t} ELSE project \cup {t}
          /\ undoable' = undoable \cup {t}
    BY <1>1 DEF Edit
  <2>2. t \in Track
    BY DEF Original, Track
  <2>3. edits' \in 0 .. MaxEdits
    BY <1>1, <1>c DEF Edit
  <2> QED BY <1>1, <2>1, <2>2, <2>3 DEF Edit, UnchangedDisk, Running
<1>2. ASSUME NEW i \in Saver, NEW s \in Save, saves' = [saves EXCEPT ![i] = s], Begins(s)
      PROVE  SaveTypeOK'
  <2>1. /\ saves' \in [Saver -> Save \cup {Idle}]
        /\ saves'[i] = s /\ \A j \in Saver : j # i => saves'[j] = saves[j]
    BY <1>2, SaveChanged
  <2>2. \A j \in Running' : \A t \in saves'[j].done : IsCopy(t)
    BY <1>2, <2>1 DEF Running, Begins, Started
  <2> QED BY <1>2, <2>1, <2>2
          DEF Begins, UnchangedWindow, UnchangedDisk, Undisturbed, Saver
<1>3. ASSUME NEW f \in Cherry, Load(f) PROVE SaveTypeOK'
  <2>1. cherry[f].tracks \subseteq Track /\ cherry[f].portable \in BOOLEAN
    BY <1>3 DEF Load, Document
  <2> QED BY <1>3, <2>1 DEF Load, UnchangedDisk, Undisturbed, Running
<1>4. ASSUME NEW i \in Saver, Handler(i) \/ SaveFails(i) PROVE SaveTypeOK'
  <2>0. saves[i] \in Save /\ i \in Running
    BY <1>4, HandlerSteps
  <2>u. /\ allowed' = allowed /\ edits' = edits /\ songs' = songs
        /\ faults' = faults \/ FaultMayHappen
    BY <1>4 DEF Handler, SaveFails, ReadPrevious, CheckSources, KeepCopy, ChooseName, CopyFile,
       CopiesDone, OpenFile, WriteFile, Sweep, StagePackage, RenamePackage, Saved, UnchangedDisk,
       Undisturbed
  <2>f. faults' \in 0 .. MaxFaults
    BY <2>u, <1>c DEF FaultMayHappen
  <2>i. ASSUME saves' = [saves EXCEPT ![i] = Idle]
        PROVE  /\ saves' \in [Saver -> Save \cup {Idle}]
               /\ \A j \in Running' : \A t \in saves'[j].done : IsCopy(t)
    <3>1. /\ saves' \in [Saver -> Save \cup {Idle}]
          /\ saves'[i] = Idle /\ \A j \in Saver : j # i => saves'[j] = saves[j]
          /\ Running' \subseteq Saver \ {i} /\ \A j \in Running' : j \in Running
      BY <2>i, SaveChanged
    <3> QED BY <3>1
  <2>1. CASE Saved(i)
    <3>1. saves' = [saves EXCEPT ![i] = Idle] /\ saves[i].file \in Cherry
      BY <2>0, <2>1 DEF Saved, Save
    <3> QED BY <2>1, <2>f, <2>u, <2>i, <3>1 DEF Saved, UnchangedDisk, Saver
  <2>2. CASE saves' = [saves EXCEPT ![i] = Idle] /\ UnchangedWindow /\ UnchangedDisk
    BY <2>2, <2>f, <2>u, <2>i DEF UnchangedWindow, UnchangedDisk, Saver
  <2>3. ASSUME NEW s \in Save, saves' = [saves EXCEPT ![i] = s], UnchangedWindow,
               GoesOn(i, saves[i], s)
        PROVE  SaveTypeOK'
    <3>1. /\ saves' \in [Saver -> Save \cup {Idle}]
          /\ saves'[i] = s /\ \A j \in Saver : j # i => saves'[j] = saves[j]
          /\ Running' \subseteq Saver /\ \A j \in Running' : j # i => j \in Running
      BY <2>3, SaveChanged
    <3>2. \A t \in s.done : IsCopy(t)
      BY <2>0, <2>3 DEF GoesOn, IsCopy
    <3>3. \A j \in Running' : \A t \in saves'[j].done : IsCopy(t)
      BY <3>1, <3>2
    <3>4. copies' \in [Copy -> Song \cup {None}]
      <4>1. CASE CopyFile(i)
        <5>1. PICK t \in saves[i].todo : copies' = [copies EXCEPT ![saves[i].name] = t.song]
          BY <4>1 DEF CopyFile
        <5>2. t.song \in Song
          BY <2>0 DEF Save, Track
        <5> QED BY <5>1, <5>2
      <4>2. CASE Sweep(i)
        BY <4>2 DEF Sweep
      <4>3. CASE RenamePackage(i)
        BY <4>3, <2>0, <2>3, PackageRenamed DEF RenamePackage, UnchangedDisk
      <4> QED BY <4>1, <4>2, <4>3, <2>3
              DEF GoesOn, ReadPrevious, CheckSources, KeepCopy, ChooseName, CopiesDone, OpenFile,
                  WriteFile, StagePackage, UnchangedDisk
    <3>5. cherry' \in [Cherry -> Document \cup {None, Torn}]
      <4>1. CASE OpenFile(i)
        BY <4>1 DEF OpenFile
      <4>2. CASE WriteFile(i)
        BY <4>2, <2>0, FileWritten
      <4>3. CASE RenamePackage(i)
        BY <4>3, <2>0, <2>3, PackageRenamed DEF RenamePackage, UnchangedDisk
      <4> QED BY <4>1, <4>2, <4>3, <2>3
              DEF GoesOn, ReadPrevious, CheckSources, KeepCopy, ChooseName, CopiesDone, CopyFile,
                  Sweep, StagePackage, UnchangedDisk
    <3> QED BY <2>3, <2>f, <2>u, <3>1, <3>3, <3>4, <3>5 DEF UnchangedWindow, Saver
  <2> QED BY <1>4, <2>1, <2>2, <2>3, HandlerSteps
<1>5. CASE SongDisappears
  BY <1>5, <1>c DEF SongDisappears, FaultMayHappen, UnchangedWindow, Running
<1>6. CASE Restart
  <2>1. saves' \in [1 .. MaxSaves -> Save \cup {Idle}] /\ Running' = {}
    BY <1>6 DEF Restart, Running
  <2>2. faults' \in 0 .. MaxFaults
    BY <1>6, <1>c DEF Restart, FaultMayHappen
  <2>3. \A i \in Running' : \A t \in saves'[i].done : IsCopy(t)
    BY <2>1
  <2>4. /\ allowed' = allowed /\ project' = project /\ undoable' = {} /\ isDirty' = FALSE
        /\ filePath' = filePath /\ portableMode' = portableMode /\ edits' = edits
        /\ songs' = songs /\ copies' = copies /\ cherry' = cherry
    BY <1>6 DEF Restart, UnchangedDisk
  <2> QED BY <2>1, <2>2, <2>3, <2>4
<1> QED BY <1>1, <1>2, <1>3, <1>4, <1>5, <1>6, StepCases

LEMMA AllowedStays ==
  ASSUME Next
  PROVE  allowed' = allowed
BY DEF Next, Edit, HandleSave, SavePortableAs, SaveAs, Begin, Load, Handler, SaveFails,
   SongDisappears, Restart, ReadPrevious, CheckSources, KeepCopy, ChooseName, CopyFile,
   CopiesDone, OpenFile, WriteFile, Sweep, StagePackage, RenamePackage, Saved, Undisturbed

(* What a handler that goes on does to the disk.                           *)
LEMMA DiskChanged ==
  ASSUME SaveTypeOK, NEW i \in Saver, saves[i] \in Save, NEW s \in Save, GoesOn(i, saves[i], s)
  PROVE  /\ songs' = songs
         /\ ~(CopyFile(i) \/ Sweep(i) \/ RenamePackage(i)) => copies' = copies
         /\ OpenFile(i) => cherry' = [cherry EXCEPT ![saves[i].file] = Torn]
         /\ ~(OpenFile(i) \/ WriteFile(i) \/ RenamePackage(i)) => cherry' = cherry
         /\ RenamePackage(i) => ~FolderExists
<1>1. /\ songs' = songs
      /\ ~(CopyFile(i) \/ Sweep(i) \/ RenamePackage(i)) => copies' = copies
      /\ OpenFile(i) => cherry' = [cherry EXCEPT ![saves[i].file] = Torn]
      /\ ~(OpenFile(i) \/ WriteFile(i) \/ RenamePackage(i)) => cherry' = cherry
  BY DEF GoesOn, ReadPrevious, CheckSources, KeepCopy, ChooseName, CopyFile, CopiesDone, OpenFile,
     WriteFile, Sweep, StagePackage, RenamePackage, UnchangedDisk
<1>2. ASSUME RenamePackage(i) PROVE ~FolderExists
  <2>1. saves[i].stage = "rename"
    BY <1>2 DEF RenamePackage, At
  <2> QED BY <2>1 DEF GoesOn, ReadPrevious, CheckSources, KeepCopy, ChooseName, CopyFile,
                      CopiesDone, OpenFile, WriteFile, Sweep, StagePackage, At
<1> QED BY <1>1, <1>2

(* A .cherry file is written over, never deleted.                          *)
LEMMA CherryStays ==
  ASSUME SaveTypeOK, StagesFit, Next, NEW f \in Cherry, cherry[f] # None
  PROVE  cherry'[f] # None
<1>1. CASE \E i \in Saver : Handler(i) \/ SaveFails(i)
  <2>1. PICK i \in Saver : Handler(i) \/ SaveFails(i)
    BY <1>1
  <2>2. saves[i] \in Save
    BY <2>1, HandlerSteps
  <2>3. CASE Saved(i) \/ UnchangedDisk
    BY <2>3 DEF Saved, UnchangedDisk
  <2>4. ASSUME NEW s \in Save, GoesOn(i, saves[i], s) PROVE cherry'[f] # None
    <3>1. CASE OpenFile(i)
      BY <2>2, <2>4, <3>1, DiskChanged, ContentAssumption DEF SaveTypeOK
    <3>2. CASE WriteFile(i)
      BY <2>2, <3>2, FileWritten, ContentAssumption
    <3>4. ~RenamePackage(i)
      BY <2>2, <2>4, DiskChanged DEF FolderExists
    <3> QED BY <2>2, <2>4, <3>1, <3>2, <3>4, DiskChanged
  <2> QED BY <2>1, <2>3, <2>4, HandlerSteps
<1>2. CASE Edit \/ SongDisappears \/ Restart \/ \E g \in Cherry : Load(g)
  BY <1>2 DEF Edit, SongDisappears, Restart, Load, UnchangedDisk
<1>3. CASE \E s \in Save : Begins(s)
  BY <1>3 DEF Begins, UnchangedDisk
<1> QED BY <1>1, <1>2, <1>3, StepCases

LEMMA StagesFitStep ==
  ASSUME SaveTypeOK, StagesFit, Next
  PROVE  StagesFit'
<1> USE DEF StagesFit
<1>1. CASE Edit \/ SongDisappears \/ \E f \in Cherry : Load(f)
  <2>1. saves' = saves /\ Running' = Running
    BY <1>1 DEF Edit, SongDisappears, Load, Running
  <2>2. \A i \in Running : saves[i].file \in Cherry
    BY Runs DEF Save
  <2> QED BY <2>1, <2>2, CherryStays
<1>2. ASSUME NEW i \in Saver, NEW s \in Save \cup {Idle}, saves' = [saves EXCEPT ![i] = s],
             s # Idle =>
               /\ s.stage \in {"previous", "check", "copy", "named", "sweep"}
                    => s.portable /\ s.kind # "package"
               /\ s.stage \in {"open", "write"} => s.kind # "package"
               /\ s.stage \in {"stage", "rename"} => s.kind = "package"
               /\ s.kind = "package" => s.portable
               /\ s.stage = "stage" => s.done = {}
               /\ s.stage = "named" => s.name \in Copy
               /\ s.portable /\ s.stage \in {"open", "write", "sweep", "answer", "rename"}
                    => s.todo = {}
               /\ s.stage \in {"write", "sweep", "answer"} => cherry'[s.file] # None
      PROVE  StagesFit'
  <2>1. /\ saves'[i] = s /\ Running' \subseteq Saver
        /\ i \in Running' <=> s # Idle
        /\ \A j \in Running' : j # i => j \in Running /\ saves'[j] = saves[j]
    BY <1>2, SaveChanged
  <2>2. \A j \in Running : saves[j].file \in Cherry
    BY Runs DEF Save
  <2>3. \A j \in Running' : j # i /\ saves'[j].stage \in {"write", "sweep", "answer"}
                               => cherry'[saves'[j].file] # None
    BY <2>1, <2>2, CherryStays
  <2> QED BY <1>2, <2>1, <2>3
<1>3. ASSUME NEW i \in Saver, NEW s \in Save, saves' = [saves EXCEPT ![i] = s], Begins(s)
      PROVE  StagesFit'
  BY <1>2, <1>3 DEF Begins, Started, Save
<1>4. ASSUME NEW i \in Saver, Handler(i) \/ SaveFails(i) PROVE StagesFit'
  <2>1. saves[i] \in Save /\ i \in Running
    BY <1>4, HandlerSteps
  <2>2. CASE saves' = [saves EXCEPT ![i] = Idle]
    BY <1>2, <2>2
  <2>3. ASSUME NEW s \in Save, saves' = [saves EXCEPT ![i] = s], Kept(saves[i], s),
               GoesOn(i, saves[i], s)
        PROVE  StagesFit'
    <3>1. s.file \in Cherry /\ s.file = saves[i].file
      BY <2>3 DEF Kept, Save
    <3>2. s.stage \in {"write", "sweep", "answer"} => cherry'[s.file] # None
      <4>1. CASE OpenFile(i)
        BY <2>1, <2>3, <3>1, <4>1, DiskChanged, ContentAssumption DEF SaveTypeOK
      <4>2. CASE WriteFile(i)
        <5>1. cherry'[saves[i].file] # None
          BY <2>1, <4>2, FileWritten, ContentAssumption
        <5> QED BY <3>1, <5>1
      <4>3. CASE Sweep(i)
        BY <2>1, <3>1, <4>3, CherryStays DEF Sweep, At
      <4>4. CASE RenamePackage(i)
        <5>1. cherry'[saves[i].file] # None
          BY <2>1, <2>3, <4>4, DiskChanged, PackageRenamed, ContentAssumption
        <5> QED BY <3>1, <5>1
      <4> QED BY <2>3, <4>1, <4>2, <4>3, <4>4 DEF GoesOn
    <3>3. /\ saves[i].stage \in {"previous", "check", "copy", "named", "sweep"}
               => saves[i].portable /\ saves[i].kind # "package"
          /\ saves[i].stage \in {"open", "write"} => saves[i].kind # "package"
          /\ saves[i].stage \in {"stage", "rename"} => saves[i].kind = "package"
          /\ saves[i].kind = "package" => saves[i].portable
          /\ saves[i].portable /\ saves[i].stage \in {"open", "write", "sweep", "answer", "rename"}
               => saves[i].todo = {}
      BY <2>1
    <3>4. /\ s.stage \in {"previous", "check", "copy", "named", "sweep"}
               => s.portable /\ s.kind # "package"
          /\ s.stage \in {"open", "write"} => s.kind # "package"
          /\ s.stage \in {"stage", "rename"} => s.kind = "package"
          /\ s.kind = "package" => s.portable
          /\ s.stage = "stage" => s.done = {}
          /\ s.stage = "named" => s.name \in Copy
          /\ s.portable /\ s.stage \in {"open", "write", "sweep", "answer", "rename"}
               => s.todo = {}
      BY <2>3, <3>3
         DEF Kept, GoesOn, ReadPrevious, CheckSources, KeepCopy, ChooseName, CopyFile, CopiesDone,
             OpenFile, WriteFile, Sweep, StagePackage, RenamePackage, At
    <3> QED BY <1>2, <2>3, <3>2, <3>4
  <2>4. CASE Saved(i)
    BY <2>2, <2>4 DEF Saved
  <2> QED BY <1>4, <2>2, <2>3, <2>4, HandlerSteps
<1>5. CASE Restart
  <2>1. Running' = {}
    BY <1>5 DEF Restart, Running, SaveTypeOK
  <2> QED BY <2>1
<1> QED BY <1>1, <1>3, <1>4, <1>5, StepCases

-----------------------------------------------------------------------------
(* While the user waits for a save, nothing else runs.                     *)

LEMMA OneSave ==
  ASSUME SaveTypeOK, StagesFit, Alone, "busy" \notin allowed, Next
  PROVE  \/ Running = {} /\ Running' = {} /\ (Edit \/ \E f \in Cherry : Load(f))
         \/ \E i \in Saver, s \in Save :
              Running = {} /\ Running' = {i} /\ saves'[i] = s /\ Begins(s)
         \/ \E i \in Saver :
              Running = {i} /\ Running' = {} /\ saves[i] \in Save /\ Saved(i)
         \/ \E i \in Saver :
              /\ Running = {i} /\ Running' = {} /\ UnchangedWindow /\ UnchangedDisk
              /\ saves[i].stage \notin {"sweep", "answer"}
              /\ "fault" \notin allowed => saves[i].stage # "write"
         \/ \E i \in Saver, s \in Save :
              /\ Running = {i} /\ Running' = {i} /\ saves[i] \in Save /\ saves'[i] = s
              /\ UnchangedWindow /\ Kept(saves[i], s) /\ GoesOn(i, saves[i], s)
         \/ Running' = Running /\ SongDisappears
         \/ Running' = {} /\ Restart
<1>1. CASE Edit \/ \E f \in Cherry : Load(f)
  <2>1. Running = {} /\ saves' = saves
    BY <1>1 DEF Edit, Load, UserMayAct
  <2> QED BY <1>1, <2>1 DEF Running
<1>2. ASSUME NEW i \in Saver, NEW s \in Save, saves' = [saves EXCEPT ![i] = s], Begins(s)
      PROVE  Running = {} /\ Running' = {i} /\ saves'[i] = s
  <2>1. Running = {}
    BY <1>2 DEF Begins, UserMayAct
  <2>2. s # Idle
    BY Runs
  <2> QED BY <1>2, <2>1, <2>2, SaveChanged
<1>3. ASSUME NEW i \in Saver, i \in Running PROVE Running = {i}
  BY <1>3 DEF Alone
<1>4. ASSUME NEW i \in Saver, i \in Running, saves' = [saves EXCEPT ![i] = Idle]
      PROVE  Running' = {}
  BY <1>3, <1>4, SaveChanged
<1>5. ASSUME NEW i \in Saver, i \in Running, NEW s \in Save, saves' = [saves EXCEPT ![i] = s]
      PROVE  Running' = {i} /\ saves'[i] = s
  <2>1. s # Idle /\ s \in Save \cup {Idle}
    BY Runs
  <2>2. /\ saves'[i] = s /\ Running' \subseteq Saver /\ i \in Running'
        /\ \A j \in Saver \ {i} : j \in Running' <=> j \in Running
    BY <1>5, <2>1, SaveChanged
  <2> QED BY <1>3, <1>5, <2>2
<1>6. ASSUME NEW i \in Saver, Handler(i) \/ SaveFails(i)
      PROVE  \/ Running = {i} /\ Running' = {} /\ saves[i] \in Save /\ Saved(i)
             \/ /\ Running = {i} /\ Running' = {} /\ UnchangedWindow /\ UnchangedDisk
                /\ saves[i].stage \notin {"sweep", "answer"}
                /\ "fault" \notin allowed => saves[i].stage # "write"
             \/ \E s \in Save :
                  /\ Running = {i} /\ Running' = {i} /\ saves[i] \in Save /\ saves'[i] = s
                  /\ UnchangedWindow /\ Kept(saves[i], s) /\ GoesOn(i, saves[i], s)
  <2>1. saves[i] \in Save /\ i \in Running /\ Running = {i}
    BY <1>3, <1>6, HandlerSteps
  <2>2. CASE Saved(i)
    BY <1>4, <2>1, <2>2 DEF Saved
  <2> QED BY <1>4, <1>5, <1>6, <2>1, <2>2, HandlerSteps
<1>7. CASE SongDisappears
  BY <1>7 DEF SongDisappears, Running
<1>8. CASE Restart
  BY <1>8 DEF Restart, Running, SaveTypeOK
<1> QED BY <1>1, <1>2, <1>6, <1>7, <1>8, StepCases

(* Which step a handler takes shows in its save: those that copy a track   *)
(* or write to the disk each have a stage of their own, the others change  *)
(* only what is still to do.                                               *)
OnDisk(i) == CopyFile(i) \/ OpenFile(i) \/ WriteFile(i) \/ Sweep(i) \/ RenamePackage(i)

LEMMA StepsApart ==
  ASSUME NEW i \in Saver, NEW s \in Save, GoesOn(i, saves[i], s)
  PROVE  LET r == saves[i] IN
         /\ CopyFile(i) =>
              /\ r.stage = "named" /\ s.stage = "copy" /\ r.name \in Copy
              /\ \E t \in r.todo, u \in Track :
                   /\ ~IsCopy(t) /\ u.song = t.song /\ u.path = r.name
                   /\ copies' = [copies EXCEPT ![r.name] = t.song]
                   /\ s.todo = r.todo \ {t} /\ s.done = r.done \cup {u}
         /\ OpenFile(i) =>
              r.stage = "open" /\ s.stage = "write" /\ s.todo = r.todo /\ s.done = r.done
         /\ WriteFile(i) =>
              /\ r.stage = "write" /\ s.todo = r.todo /\ s.done = r.done
              /\ s.stage = IF r.portable THEN "sweep" ELSE "answer"
         /\ Sweep(i) =>
              /\ r.stage = "sweep" /\ s.stage \in {"sweep", "answer"}
              /\ s.todo = r.todo /\ s.done = r.done /\ cherry' = cherry
              /\ \/ copies' = copies
                 \/ \E n \in Copy : /\ copies' = [copies EXCEPT ![n] = None]
                                    /\ s.stage = "sweep" /\ \A t \in r.done : t.path # n
         /\ RenamePackage(i) =>
              r.stage = "rename" /\ s.stage = "answer" /\ s.todo = r.todo /\ s.done = r.done
         /\ StagePackage(i) =>
              /\ r.stage = "stage" /\ s.stage = "rename" /\ s.todo = {}
              /\ SongsOf(s.done) = SongsOf(r.todo)
              /\ \A t, u \in s.done : t.path = u.path => t = u
         /\ ~OnDisk(i) /\ ~StagePackage(i) =>
              /\ r.stage \in {"previous", "check", "copy"}
              /\ s.stage \in {"check", "copy", "named", "open"}
              /\ s.stage = "open" => s.todo = {}
              /\ s.stage = "named" => copies[s.name] = None
              /\ \/ s.todo = r.todo /\ s.done = r.done
                 \/ \E t \in r.todo : /\ IsCopy(t) /\ FileExists(t)
                                      /\ s.todo = r.todo \ {t} /\ s.done = r.done \cup {t}
<1> USE DEF GoesOn
<1>1. CASE ~OnDisk(i) /\ ~StagePackage(i)
  BY <1>1 DEF OnDisk, ReadPrevious, CheckSources, KeepCopy, ChooseName, CopiesDone, At
<1>2. CASE CopyFile(i)
  BY <1>2 DEF OnDisk, ReadPrevious, CheckSources, KeepCopy, ChooseName, CopyFile, CopiesDone,
              OpenFile, WriteFile, Sweep, StagePackage, RenamePackage, At
<1>3. CASE OpenFile(i)
  BY <1>3 DEF OnDisk, ReadPrevious, CheckSources, KeepCopy, ChooseName, CopyFile, CopiesDone,
              OpenFile, WriteFile, Sweep, StagePackage, RenamePackage, At
<1>4. CASE WriteFile(i)
  BY <1>4 DEF OnDisk, ReadPrevious, CheckSources, KeepCopy, ChooseName, CopyFile, CopiesDone,
              OpenFile, WriteFile, Sweep, StagePackage, RenamePackage, At
<1>5. CASE Sweep(i)
  BY <1>5 DEF OnDisk, ReadPrevious, CheckSources, KeepCopy, ChooseName, CopyFile, CopiesDone,
              OpenFile, WriteFile, Sweep, StagePackage, RenamePackage, At
<1>6. CASE RenamePackage(i)
  BY <1>6 DEF OnDisk, ReadPrevious, CheckSources, KeepCopy, ChooseName, CopyFile, CopiesDone,
              OpenFile, WriteFile, Sweep, StagePackage, RenamePackage, At
<1>7. CASE StagePackage(i)
  BY <1>7 DEF OnDisk, ReadPrevious, CheckSources, KeepCopy, ChooseName, CopyFile, CopiesDone,
              OpenFile, WriteFile, Sweep, StagePackage, RenamePackage, At
<1> QED BY <1>1, <1>2, <1>3, <1>4, <1>5, <1>6, <1>7 DEF OnDisk

Waits == Alone /\ NameIsFree /\ DoneExists /\ Written

LEMMA WaitsStep ==
  ASSUME SaveTypeOK, StagesFit, "busy" \notin allowed, Waits, Next
  PROVE  Waits'
<1> USE DEF Waits
<1>1. CASE Running' = {}
  BY <1>1 DEF Alone, NameIsFree, DoneExists, Written
<1>2. ASSUME NEW i \in Saver, NEW s \in Save, Running' = {i}, saves'[i] = s,
             s.stage = "named" => copies'[s.name] = None,
             s.stage # "rename" => \A t \in s.done : copies'[t.path] # None,
             s.stage = "write" => cherry'[s.file] = Torn,
             s.stage = "sweep" => cherry'[s.file] = [portable |-> TRUE, tracks |-> s.done],
             SaveTypeOK'
      PROVE  Waits'
  BY <1>2 DEF Alone, NameIsFree, DoneExists, Written, FileExists, SaveTypeOK
<1>t. SaveTypeOK'
  BY TypesStep
<1>3. ASSUME NEW i \in Saver, NEW s \in Save, Running' = {i}, saves'[i] = s, Begins(s)
      PROVE  Waits'
  BY <1>2, <1>3, <1>t DEF Begins, Started, Save
<1>4. ASSUME NEW i \in Saver, NEW s \in Save, Running = {i}, Running' = {i}, saves[i] \in Save,
             saves'[i] = s, Kept(saves[i], s), GoesOn(i, saves[i], s)
      PROVE  Waits'
  <2> DEFINE r == saves[i]
  <2>0. /\ r.file \in Cherry /\ s.file = r.file /\ s.portable = r.portable
        /\ r.stage = "named" => copies[r.name] = None
        /\ r.stage # "rename" => \A t \in r.done : copies[t.path] # None
        /\ r.stage = "write" => cherry[r.file] = Torn
        /\ r.stage = "sweep" => cherry[r.file] = [portable |-> TRUE, tracks |-> r.done]
        /\ \A t \in r.done : t.path \in Copy
        /\ copies \in [Copy -> Song \cup {None}] /\ cherry \in [Cherry -> Document \cup {None, Torn}]
    BY <1>4 DEF Kept, Save, NameIsFree, DoneExists, Written, FileExists, SaveTypeOK, IsCopy
  <2>1. s.stage = "named" => copies'[s.name] = None
    BY <1>4, DiskChanged
       DEF GoesOn, ChooseName, CopyFile, Sweep, RenamePackage, At
  <2>2. s.stage # "rename" => \A t \in s.done : copies'[t.path] # None
    <3>1. CASE CopyFile(i)
      <4>1. PICK t \in r.todo, u \in Track :
              /\ u.path = r.name /\ copies' = [copies EXCEPT ![r.name] = t.song]
              /\ s.done = r.done \cup {u} /\ r.name \in Copy
        BY <1>4, <3>1, StepsApart
      <4>2. t.song \in Song
        BY <1>4 DEF Save, Track
      <4>3. r.stage = "named"
        BY <3>1 DEF CopyFile, At
      <4> QED BY <2>0, <4>1, <4>2, <4>3, SaveAssumption
    <3>2. CASE Sweep(i)
      <4>1. /\ s.done = r.done /\ r.stage = "sweep"
            /\ copies' = copies \/ \E n \in Copy : /\ copies' = [copies EXCEPT ![n] = None]
                                                   /\ \A t \in r.done : t.path # n
        BY <1>4, <3>2, StepsApart
      <4> QED BY <2>0, <4>1
    <3>3. CASE RenamePackage(i)
      <4>1. s.done = r.done
        BY <1>4, <3>3, StepsApart
      <4> QED BY <1>4, <3>3, <4>1, DiskChanged, PackageRenamed
    <3>4. CASE ~(CopyFile(i) \/ Sweep(i) \/ RenamePackage(i))
      <4>1. copies' = copies
        BY <1>4, <3>4, DiskChanged
      <4>2. s.stage # "rename" => \A t \in s.done : t \in r.done \/ (IsCopy(t) /\ FileExists(t))
        BY <1>4, <3>4 DEF GoesOn
      <4>3. s.stage # "rename" => r.stage # "rename"
        BY <1>4, <3>4 DEF GoesOn, ReadPrevious, CheckSources, KeepCopy, ChooseName,
                          CopiesDone, OpenFile, WriteFile, StagePackage, At
      <4> QED BY <2>0, <4>1, <4>2, <4>3 DEF FileExists
    <3> QED BY <3>1, <3>2, <3>3, <3>4
  <2>3. s.stage = "write" => cherry'[s.file] = Torn
    BY <1>4, <2>0, DiskChanged DEF GoesOn
  <2>4. s.stage = "sweep" => cherry'[s.file] = [portable |-> TRUE, tracks |-> s.done]
    <3>1. CASE WriteFile(i)
      <4>1. r.stage = "write" /\ s.done = r.done /\ (s.stage = "sweep" => r.portable)
        BY <1>4, <3>1, StepsApart
      <4>2. r.portable \in BOOLEAN
        BY <1>4 DEF Save
      <4>3. cherry'[r.file] = [portable |-> r.portable, tracks |-> IF r.portable THEN r.done ELSE r.todo]
        BY <1>4, <2>0, <3>1, <4>1, FileWritten
      <4> QED BY <2>0, <4>1, <4>2, <4>3
    <3>2. CASE Sweep(i)
      <4>1. s.done = r.done /\ r.stage = "sweep" /\ cherry' = cherry
        BY <1>4, <3>2, StepsApart
      <4> QED BY <2>0, <4>1
    <3> QED BY <1>4, <3>1, <3>2 DEF GoesOn
  <2> QED BY <1>2, <1>4, <1>t, <2>1, <2>2, <2>3, <2>4
<1>5. CASE Running' = Running /\ SongDisappears
  <2>1. saves' = saves /\ copies' = copies /\ cherry' = cherry
    BY <1>5 DEF SongDisappears
  <2>2. \A i \in Running : \A t \in saves[i].done : FileExists(t)' <=> FileExists(t)
    BY <2>1 DEF FileExists, SaveTypeOK, IsCopy
  <2> QED BY <1>5, <2>1, <2>2 DEF Alone, NameIsFree, DoneExists, Written
<1> QED BY <1>1, <1>3, <1>4, <1>5, OneSave

-----------------------------------------------------------------------------
(* With a single .cherry in the folder, its copies are there.              *)

LEMMA OnlyCherryStep ==
  ASSUME SaveTypeOK, StagesFit, Waits, OnlyCherry, "busy" \notin allowed, "shared" \notin allowed,
         Next
  PROVE  OnlyCherry'
<1> USE DEF OnlyCherry
<1>a. Alone
  BY DEF Waits
<1>t. SaveTypeOK' /\ filePath \in Cherry \cup {None} /\ None \notin Cherry
  BY TypesStep, SaveAssumption DEF SaveTypeOK
<1>1. ASSUME cherry' = cherry, filePath' = filePath, Running' = {}
      PROVE  OnlyCherry'
  BY <1>1
<1>2. ASSUME NEW f \in Cherry, Load(f), Running' = {} PROVE OnlyCherry'
  BY <1>2, ContentAssumption DEF Load, UnchangedDisk
<1>3. ASSUME NEW i \in Saver, NEW s \in Save, Running' = {i}, saves'[i] = s, Begins(s)
      PROVE  OnlyCherry'
  <2>1. cherry' = cherry /\ filePath' = filePath /\ s.file \in Cherry
    BY <1>3 DEF Begins, UnchangedDisk, UnchangedWindow, Save
  <2>2. \A f \in Cherry : f # s.file => cherry[f] = None
    BY <1>3, <2>1 DEF Begins, FolderExists
  <2> QED BY <1>3, <2>1, <2>2
<1>4. ASSUME NEW i \in Saver, Running = {i}, Running' = {}, saves[i] \in Save, Saved(i)
      PROVE  OnlyCherry'
  <2>1. cherry' = cherry /\ filePath' \in {filePath, saves[i].file}
    BY <1>4 DEF Saved, UnchangedDisk
  <2>2. saves[i].file \in Cherry /\ cherry[saves[i].file] # None
    BY <1>4 DEF Saved, At, StagesFit, Save
  <2> QED BY <1>4, <2>1, <2>2
<1>5. ASSUME NEW i \in Saver, NEW s \in Save, Running = {i}, Running' = {i}, saves[i] \in Save,
             saves'[i] = s, UnchangedWindow, Kept(saves[i], s), GoesOn(i, saves[i], s)
      PROVE  OnlyCherry'
  <2> DEFINE file == saves[i].file
  <2>1. file \in Cherry /\ s.file = file /\ filePath' = filePath
    BY <1>5 DEF Kept, Save, UnchangedWindow
  <2>2. \A f \in Cherry : f # file => cherry[f] = None /\ cherry'[f] = None
    <3>1. \A f \in Cherry : f # file => cherry[f] = None
      BY <1>5
    <3>2. CASE OpenFile(i)
      BY <1>5, <2>1, <3>1, <3>2, DiskChanged DEF SaveTypeOK
    <3>3. CASE WriteFile(i)
      BY <1>5, <3>1, <3>3, FileWritten
    <3>4. CASE RenamePackage(i)
      BY <1>5, <3>1, <3>4, DiskChanged, PackageRenamed
    <3> QED BY <1>5, <3>1, <3>2, <3>3, <3>4, DiskChanged
  <2>3. filePath # None => cherry'[filePath] # None
    BY <1>t, CherryStays
  <2> QED BY <1>5, <2>1, <2>2, <2>3
<1>6. CASE Running' = Running /\ SongDisappears
  BY <1>6 DEF SongDisappears, UnchangedWindow
<1> QED BY <1>1, <1>2, <1>3, <1>4, <1>5, <1>6, <1>a, OneSave
        DEF Edit, Restart, UnchangedDisk, UnchangedWindow

LEMMA CopiesAreThereStep ==
  ASSUME SaveTypeOK, StagesFit, Waits, OnlyCherry, CopiesAreThere,
         "busy" \notin allowed, "shared" \notin allowed, Next
  PROVE  CopiesAreThere'
<1> USE DEF CopiesAreThere, Portable, FileExists
<1>a. Alone
  BY DEF Waits
<1>t. \A f \in Cherry : Portable(f) => \A t \in cherry[f].tracks : t.path \in Copy
  BY DEF IsCopy
<1>1. ASSUME cherry' = cherry, copies' = copies PROVE CopiesAreThere'
  BY <1>1, <1>t DEF IsCopy
<1>2. ASSUME NEW i \in Saver, NEW s \in Save, Running = {i}, saves[i] \in Save,
             GoesOn(i, saves[i], s)
      PROVE  CopiesAreThere'
  <2> DEFINE r == saves[i]
  <2>1. /\ \A t \in r.done : t.path \in Copy
        /\ r.stage # "rename" => \A t \in r.done : copies[t.path] # None
        /\ \A f \in Cherry : f # r.file => cherry[f] = None
        /\ r.file \in Cherry /\ r.todo \subseteq Track
        /\ copies \in [Copy -> Song \cup {None}]
    BY <1>2 DEF SaveTypeOK, Waits, DoneExists, OnlyCherry, Save, IsCopy
  <2>2. CASE CopyFile(i)
    <3>1. PICK t \in r.todo : copies' = [copies EXCEPT ![r.name] = t.song]
      BY <1>2, <2>2, StepsApart
    <3>2. t.song # None /\ cherry' = cherry
      BY <2>1, <2>2, <3>1, SaveAssumption DEF Track, CopyFile
    <3> QED BY <1>t, <2>1, <3>1, <3>2 DEF IsCopy
  <2>3. CASE Sweep(i)
    <3>1. /\ cherry' = cherry
          /\ copies' = copies \/ \E n \in Copy : /\ copies' = [copies EXCEPT ![n] = None]
                                                 /\ \A t \in r.done : t.path # n
      BY <1>2, <2>3, StepsApart
    <3>2. cherry[r.file] = [portable |-> TRUE, tracks |-> r.done]
      BY <1>2, <2>3 DEF Waits, Written, Sweep, At
    <3>3. \A f \in Cherry : Portable(f) => f = r.file /\ cherry[f].tracks = r.done
      BY <2>1, <3>2, ContentAssumption
    <3> QED BY <1>t, <2>1, <3>1, <3>3 DEF IsCopy
  <2>4. CASE RenamePackage(i)
    <3>1. ~FolderExists
      BY <1>2, <2>4, DiskChanged
    <3>2. /\ cherry'[r.file] = [portable |-> TRUE, tracks |-> r.done]
          /\ \A f \in Cherry : f # r.file => cherry'[f] = None
          /\ \A t \in r.done : copies'[t.path] # None
      BY <1>2, <2>4, <3>1, PackageRenamed
    <3> QED BY <2>1, <3>2, ContentAssumption DEF IsCopy
  <2>5. CASE WriteFile(i)
    <3>1. /\ copies' = copies /\ r.stage = "write"
          /\ \A f \in Cherry : f # r.file => cherry'[f] = cherry[f]
          /\ cherry'[r.file] \in Document /\ cherry'[r.file].portable => cherry'[r.file].tracks = r.done
      <4>1. copies' = copies /\ r.stage = "write"
        BY <2>5 DEF WriteFile, At
      <4>2. /\ \A f \in Cherry : f # r.file => cherry'[f] = cherry[f]
            /\ cherry'[r.file] \in Document /\ cherry'[r.file].portable => cherry'[r.file].tracks = r.done
        BY <1>2, <2>5, FileWritten, ContentAssumption
      <4> QED BY <4>1, <4>2
    <3> QED BY <1>t, <2>1, <3>1 DEF IsCopy
  <2>6. CASE OpenFile(i)
    <3>1. copies' = copies /\ cherry' = [cherry EXCEPT ![r.file] = Torn]
      BY <2>6 DEF OpenFile
    <3> QED BY <1>t, <2>1, <3>1, ContentAssumption DEF IsCopy, SaveTypeOK
  <2> QED BY <1>1, <1>2, <2>2, <2>3, <2>4, <2>5, <2>6, DiskChanged
<1> QED BY <1>1, <1>2, <1>a, OneSave
        DEF Edit, Load, Begins, Saved, Restart, SongDisappears, UnchangedDisk

-----------------------------------------------------------------------------
(* Without anything put back from the undo history, copies keep matching.  *)

(* One copy made, under a name nobody knew, or deleted.                    *)
LEMMA OneCopyChanged ==
  ASSUME SaveTypeOK, NEW n \in Copy, NEW song, copies' = [copies EXCEPT ![n] = song],
         NEW tracks, Matching(tracks), \A t \in tracks : IsCopy(t) => t.path # n
  PROVE  Agrees(copies', tracks)
BY DEF Agrees, Matching, IsCopy, SaveTypeOK

LEMMA NothingMatchesAFreeName ==
  ASSUME SaveTypeOK, NEW n \in Copy, copies[n] = None, NEW tracks \in SUBSET Track, Matching(tracks)
  PROVE  \A t \in tracks : IsCopy(t) => t.path # n
BY SaveAssumption DEF Agrees, Matching, Track

Forgets == Matching(undoable) \/ \E i \in Running : saves[i].stage \in {"sweep", "answer"}
DocumentsMatch == \A f \in Cherry : cherry[f] \in Document => Matching(cherry[f].tracks)

(* The part of KnownTracksMatch about one save.                            *)
SaveMatches(s, tracks) ==
  /\ Matching(s.todo)
  /\ s.stage # "rename" => Matching(s.done)
  /\ s.stage = "rename" => \A t, u \in s.done : t.path = u.path => t = u
  /\ s.portable /\ s.kind # "package" => \A t \in tracks : IsCopy(t) => t \in s.todo \cup s.done

LEMMA HandlerMatches ==
  ASSUME SaveTypeOK, StagesFit, Waits, OnlyCherry, KnownTracksMatch,
         NEW i \in Saver, NEW s \in Save, Running = {i}, Running' = {i}, saves[i] \in Save,
         saves'[i] = s, UnchangedWindow, Kept(saves[i], s), GoesOn(i, saves[i], s)
  PROVE  KnownTracksMatch'
<1> DEFINE r == saves[i]
<1>1. /\ DocumentsMatch /\ Matching(project) /\ Forgets /\ SaveMatches(r, project)
      /\ r.todo \subseteq Track /\ r.done \subseteq Track /\ r.file \in Cherry
      /\ project \subseteq Track /\ undoable \subseteq Track
      /\ \A f \in Cherry : cherry[f] \in Document => cherry[f].tracks \subseteq Track
  BY DEF Matching, KnownTracksMatch, DocumentsMatch, Forgets, SaveMatches, SaveTypeOK, Save, Document
<1>2. project' = project /\ undoable' = undoable
  BY DEF UnchangedWindow
<1>3. ASSUME DocumentsMatch', Agrees(copies', project), Agrees(copies', s.todo),
             s.stage # "rename" => Agrees(copies', s.done),
             s.stage = "rename" => \A t, u \in s.done : t.path = u.path => t = u,
             s.portable /\ s.kind # "package" =>
               \A t \in project : IsCopy(t) => t \in s.todo \cup s.done,
             Agrees(copies', undoable) \/ s.stage \in {"sweep", "answer"}
      PROVE  KnownTracksMatch'
  BY <1>2, <1>3 DEF Matching, KnownTracksMatch, DocumentsMatch, IsCopy
<1>k. s.portable = r.portable /\ s.kind = r.kind /\ s.file = r.file
  BY DEF Kept
<1>u. r.stage \notin {"sweep", "answer"} => Matching(undoable)
  BY <1>1 DEF Forgets
<1>4. CASE CopyFile(i)
  <2>1. PICK t \in r.todo, u \in Track :
          /\ ~IsCopy(t) /\ u.song = t.song /\ u.path = r.name
          /\ copies' = [copies EXCEPT ![r.name] = t.song]
          /\ s.todo = r.todo \ {t} /\ s.done = r.done \cup {u}
    BY <1>4, StepsApart
  <2>2. r.stage = "named" /\ s.stage = "copy" /\ r.name \in Copy /\ cherry' = cherry
    BY <1>4, StepsApart DEF CopyFile
  <2>3. copies[r.name] = None
    BY <2>2 DEF Waits, NameIsFree
  <2>4. ASSUME NEW tracks \in SUBSET Track, Matching(tracks) PROVE Agrees(copies', tracks)
    BY <2>1, <2>2, <2>3, <2>4, NothingMatchesAFreeName, OneCopyChanged
  <2>5. DocumentsMatch'
    BY <1>1, <2>2, <2>4 DEF Matching, DocumentsMatch
  <2>6. Agrees(copies', project) /\ Agrees(copies', undoable) /\ Agrees(copies', r.todo) /\ Agrees(copies', r.done)
    BY <1>1, <1>2, <1>u, <2>2, <2>4 DEF SaveMatches
  <2>7. Agrees(copies', s.todo) /\ Agrees(copies', s.done)
    BY <2>1, <2>2, <2>6 DEF Agrees, Matching, SaveTypeOK
  <2>8. s.portable /\ s.kind # "package" =>
          \A v \in project : IsCopy(v) => v \in s.todo \cup s.done
    BY <1>1, <1>k, <2>1 DEF SaveMatches
  <2> QED BY <1>3, <2>2, <2>5, <2>6, <2>7, <2>8
<1>5. CASE Sweep(i)
  <2>1. /\ r.stage = "sweep" /\ s.stage \in {"sweep", "answer"}
        /\ s.todo = r.todo /\ s.done = r.done /\ cherry' = cherry
        /\ copies' = copies \/ \E n \in Copy : /\ copies' = [copies EXCEPT ![n] = None]
                                               /\ \A t \in r.done : t.path # n
    BY <1>5, StepsApart
  <2>2. /\ r.portable /\ r.kind # "package" /\ r.todo = {}
        /\ cherry[r.file] = [portable |-> TRUE, tracks |-> r.done]
        /\ \A f \in Cherry : f # r.file => cherry[f] = None
    BY <2>1 DEF StagesFit, Waits, Written, OnlyCherry
  <2>3. \A t \in project : IsCopy(t) => t \in r.done
    BY <1>1, <2>2 DEF SaveMatches
  <2>4. Agrees(copies', project) /\ Agrees(copies', r.done)
    <3>1. CASE copies' = copies
      BY <1>1, <1>2, <2>1, <3>1 DEF Agrees, Matching, IsCopy, SaveMatches
    <3>2. ASSUME NEW n \in Copy, copies' = [copies EXCEPT ![n] = None], \A t \in r.done : t.path # n
          PROVE  Agrees(copies', project) /\ Agrees(copies', r.done)
      <4>1. Matching(r.done)
        BY <1>1, <2>1 DEF SaveMatches
      <4>2. Agrees(copies', r.done)
        BY <4>1, <3>2, OneCopyChanged
      <4>3. \A t \in project : IsCopy(t) => t.path # n
        BY <2>3, <3>2
      <4> QED BY <1>1, <1>2, <3>2, <4>2, <4>3, OneCopyChanged
    <3> QED BY <2>1, <3>1, <3>2
  <2>5. DocumentsMatch'
    BY <2>1, <2>2, <2>4, ContentAssumption DEF Matching, DocumentsMatch
  <2>6. Agrees(copies', s.todo)
    BY <2>1, <2>2 DEF Agrees, Matching
  <2> QED BY <1>3, <2>1, <2>2, <2>3, <2>4, <2>5, <2>6
<1>6. CASE RenamePackage(i)
  <2>1. r.stage = "rename" /\ s.stage = "answer" /\ s.todo = r.todo /\ s.done = r.done
    BY <1>6, StepsApart
  <2>2. ~FolderExists
    BY <1>6, DiskChanged
  <2>3. \A tracks \in SUBSET Track : Matching(tracks) => \A t \in tracks : ~IsCopy(t)
    BY <2>2, SaveAssumption DEF FolderExists, Agrees, Matching, Track, IsCopy
  <2>4. r.kind = "package" /\ r.todo = {}
    BY <2>1 DEF StagesFit
  <2>5. /\ cherry'[r.file] = [portable |-> TRUE, tracks |-> r.done]
        /\ \A f \in Cherry : f # r.file => cherry'[f] = None
        /\ \A t \in r.done : copies'[t.path] = t.song
    BY <1>1, <1>6, <2>1, <2>2, PackageRenamed DEF SaveMatches
  <2>6. Agrees(copies', s.done)
    BY <2>1, <2>5 DEF Agrees, Matching
  <2>7. DocumentsMatch'
    BY <2>1, <2>5, <2>6, ContentAssumption DEF Matching, DocumentsMatch
  <2>8. Agrees(copies', project) /\ Agrees(copies', s.todo)
    BY <1>1, <1>2, <2>1, <2>3, <2>4 DEF Agrees, Matching, IsCopy
  <2> QED BY <1>3, <1>k, <2>1, <2>4, <2>6, <2>7, <2>8
<1>7. CASE copies' = copies /\ ~CopyFile(i) /\ ~Sweep(i) /\ ~RenamePackage(i)
  <2>0. ASSUME NEW tracks, Matching(tracks) PROVE Agrees(copies', tracks)
    BY <1>7, <2>0 DEF Agrees, Matching, IsCopy
  <2>1. Agrees(copies', project) /\ Agrees(copies', r.todo) /\ (r.stage # "rename" => Agrees(copies', r.done))
    BY <1>1, <1>2, <2>0 DEF SaveMatches
  <2>2. CASE StagePackage(i)
    <3>1. /\ r.stage = "stage" /\ s.stage = "rename" /\ s.todo = {} /\ cherry' = cherry
          /\ \A t, u \in s.done : t.path = u.path => t = u
      BY <2>2, StepsApart DEF StagePackage, UnchangedDisk
    <3>2. s.kind = "package"
      BY <1>k, <3>1 DEF StagesFit
    <3>3. DocumentsMatch' /\ Agrees(copies', s.todo)
      BY <1>1, <2>0, <3>1 DEF Agrees, Matching, DocumentsMatch
    <3>4. Agrees(copies', undoable)
      BY <1>2, <1>u, <2>0, <3>1
    <3> QED BY <1>3, <2>1, <3>1, <3>2, <3>3, <3>4
  <2>3. CASE OpenFile(i)
    <3>1. r.stage = "open" /\ s.stage = "write" /\ s.todo = r.todo /\ s.done = r.done
      BY <2>3, StepsApart
    <3>2. cherry' = [cherry EXCEPT ![r.file] = Torn]
      BY <2>3, DiskChanged
    <3>3. DocumentsMatch'
      BY <1>1, <2>0, <3>2, ContentAssumption DEF Matching, DocumentsMatch, SaveTypeOK
    <3>4. Agrees(copies', undoable)
      BY <1>2, <1>u, <2>0, <3>1
    <3> QED BY <1>1, <1>3, <1>k, <2>1, <3>1, <3>3, <3>4 DEF SaveMatches
  <2>4. CASE WriteFile(i)
    <3>1. /\ r.stage = "write" /\ s.todo = r.todo /\ s.done = r.done
          /\ s.stage = IF r.portable THEN "sweep" ELSE "answer"
      BY <2>4, StepsApart
    <3>2. /\ \A f \in Cherry : f # r.file => cherry'[f] = cherry[f]
          /\ cherry'[r.file] \in Document => cherry'[r.file].tracks \in {r.done, r.todo}
      BY <2>4, FileWritten, ContentAssumption
    <3>3. Agrees(copies', r.done)
      BY <2>1, <3>1
    <3>4. DocumentsMatch'
      BY <1>1, <2>0, <2>1, <3>2, <3>3 DEF Matching, DocumentsMatch
    <3> QED BY <1>1, <1>3, <1>k, <2>1, <3>1, <3>3, <3>4 DEF SaveMatches
  <2>5. CASE ~OnDisk(i) /\ ~StagePackage(i)
    <3>1. /\ r.stage \in {"previous", "check", "copy"}
          /\ s.stage \in {"check", "copy", "named", "open"}
          /\ \/ s.todo = r.todo /\ s.done = r.done
             \/ \E t \in r.todo : s.todo = r.todo \ {t} /\ s.done = r.done \cup {t}
      BY <2>5, StepsApart
    <3>2. cherry' = cherry
      BY <2>5, DiskChanged DEF OnDisk
    <3>3. DocumentsMatch' /\ Agrees(copies', undoable)
      BY <1>1, <1>2, <1>u, <2>0, <3>1, <3>2 DEF Matching, DocumentsMatch
    <3>4. Agrees(copies', r.done)
      BY <2>1, <3>1
    <3>5. Agrees(copies', s.todo) /\ Agrees(copies', s.done)
      BY <2>1, <3>1, <3>4 DEF Agrees, Matching
    <3>6. r.portable /\ r.kind # "package" =>
            \A t \in project : IsCopy(t) => t \in s.todo \cup s.done
      BY <1>1, <3>1 DEF SaveMatches
    <3> QED BY <1>3, <1>k, <2>1, <3>1, <3>3, <3>5, <3>6
  <2> QED BY <1>7, <2>2, <2>3, <2>4, <2>5 DEF OnDisk
<1> QED BY <1>4, <1>5, <1>6, <1>7, DiskChanged

LEMMA KnownTracksMatchStep ==
  ASSUME SaveTypeOK, StagesFit, Waits, OnlyCherry, KnownTracksMatch, "busy" \notin allowed,
         "undo" \notin allowed, Next
  PROVE  KnownTracksMatch'
<1>a. Alone
  BY DEF Waits
<1>1. ASSUME copies' = copies, cherry' = cherry, Matching(project'), Matching(undoable'),
             \A i \in Running' :
               /\ Matching(saves'[i].todo) /\ saves'[i].stage # "rename"
               /\ Matching(saves'[i].done) /\ project' \subseteq saves'[i].todo
      PROVE  KnownTracksMatch'
  BY <1>1 DEF KnownTracksMatch, Matching, Agrees, IsCopy
<1>2. CASE Running = {} /\ Running' = {} /\ Edit
  <2>1. Matching(project) /\ Matching(undoable)
    BY <1>2 DEF KnownTracksMatch
  <2>2. PICK t \in {Original(s) : s \in songs} \cup project \cup undoable :
          /\ project' = IF t \in project THEN project \ {t} ELSE project \cup {t}
          /\ undoable' = undoable \cup {t}
    BY <1>2 DEF Edit
  <2>3. IsCopy(t) => copies[t.path] = t.song
    <3>1. CASE t \in {Original(s) : s \in songs}
      BY <3>1, SaveAssumption DEF Original, IsCopy, SaveTypeOK
    <3> QED BY <2>1, <3>1 DEF Matching, Agrees
  <2>4. Matching(project') /\ Matching(undoable')
    BY <2>1, <2>2, <2>3 DEF Matching, Agrees
  <2> QED BY <1>1, <1>2, <2>4 DEF Edit, UnchangedDisk
<1>3. ASSUME NEW f \in Cherry, Running' = {}, Load(f) PROVE KnownTracksMatch'
  <2>1. Matching(cherry[f].tracks)
    BY <1>3 DEF Load, KnownTracksMatch
  <2>2. project' = cherry[f].tracks /\ undoable' = {}
    BY <1>3 DEF Load
  <2>3. Matching(project') /\ Matching(undoable')
    BY <2>1, <2>2 DEF Matching, Agrees
  <2> QED BY <1>1, <1>3, <2>3 DEF Load, UnchangedDisk
<1>4. ASSUME NEW i \in Saver, NEW s \in Save, Running = {}, Running' = {i}, saves'[i] = s, Begins(s)
      PROVE  KnownTracksMatch'
  <2>1. Matching(project) /\ Matching(undoable)
    BY <1>4 DEF KnownTracksMatch
  <2>2. s.todo = project /\ s.done = {} /\ s.stage # "rename"
    BY <1>4 DEF Begins, Started
  <2>3. Matching({})
    BY DEF Matching, Agrees
  <2> QED BY <1>1, <1>4, <2>1, <2>2, <2>3 DEF Begins, UnchangedWindow, UnchangedDisk
<1>5. ASSUME NEW i \in Saver, Running = {i}, Running' = {}, Saved(i) PROVE KnownTracksMatch'
  <2>1. project' = project /\ undoable' = {} /\ copies' = copies /\ cherry' = cherry
    BY <1>5 DEF Saved, UnchangedDisk
  <2>2. Matching(project') /\ Matching(undoable')
    BY <2>1 DEF Matching, Agrees, KnownTracksMatch
  <2> QED BY <1>1, <1>5, <2>1, <2>2
<1>6. ASSUME NEW i \in Saver, Running = {i}, Running' = {}, UnchangedWindow, UnchangedDisk,
             saves[i].stage \notin {"sweep", "answer"}
      PROVE  KnownTracksMatch'
  <2>1. Matching(project) /\ Matching(undoable)
    BY <1>6 DEF KnownTracksMatch
  <2> QED BY <1>1, <1>6, <2>1 DEF UnchangedWindow, UnchangedDisk
<1>7. CASE Running' = Running /\ SongDisappears
  BY <1>7 DEF SongDisappears, UnchangedWindow, KnownTracksMatch, Matching, Agrees, IsCopy
<1>8. CASE Running' = {} /\ Restart
  <2>1. project' = project /\ undoable' = {} /\ copies' = copies /\ cherry' = cherry
    BY <1>8 DEF Restart, UnchangedDisk
  <2>2. Matching(project') /\ Matching(undoable')
    BY <2>1 DEF Matching, Agrees, KnownTracksMatch
  <2> QED BY <1>1, <1>8, <2>1, <2>2
<1> QED BY <1>2, <1>3, <1>4, <1>5, <1>6, <1>7, <1>8, <1>a, OneSave, HandlerMatches
-----------------------------------------------------------------------------
(* Without faults, what has been saved is the playlist.                    *)

Carries(s) ==
  /\ s.kind = "save" => s.file = filePath
  /\ ~s.portable => s.todo = project
  /\ s.portable => SongsOf(project) = SongsOf(s.todo) \cup SongsOf(s.done)
  /\ s.stage \in {"sweep", "answer"} =>
       /\ cherry[s.file] \in Document
       /\ SongsOf(cherry[s.file].tracks) = SongsOf(project)

Settled == \A i \in Running : saves[i].stage \notin {"write", "sweep", "answer"}

LEMMA HandlerCarries ==
  ASSUME SaveTypeOK, StagesFit, Waits, SavesCarryProject, CleanIsOnDisk,
         NEW i \in Saver, NEW s \in Save, Running = {i}, Running' = {i}, saves[i] \in Save,
         saves'[i] = s, UnchangedWindow, Kept(saves[i], s), GoesOn(i, saves[i], s)
  PROVE  SavesCarryProject' /\ CleanIsOnDisk'
<1> DEFINE r == saves[i]
<1>1. /\ Carries(r) /\ r.file \in Cherry
      /\ project' = project /\ filePath' = filePath /\ isDirty' = isDirty
      /\ s.kind = r.kind /\ s.file = r.file /\ s.portable = r.portable
      /\ r.portable \in BOOLEAN
  BY DEF SavesCarryProject, Carries, UnchangedWindow, Kept, Save
<1>2. ASSUME ~s.portable => s.todo = project,
             s.portable => SongsOf(project) = SongsOf(s.todo) \cup SongsOf(s.done),
             s.stage \in {"sweep", "answer"} =>
               /\ cherry'[s.file] \in Document
               /\ SongsOf(cherry'[s.file].tracks) = SongsOf(project)
      PROVE  SavesCarryProject'
  BY <1>1, <1>2 DEF SavesCarryProject, Carries, SongsOf
<1>3. ASSUME s.stage \notin {"write", "sweep", "answer"} =>
               cherry' = cherry /\ r.stage \notin {"write", "sweep", "answer"}
      PROVE  CleanIsOnDisk'
  BY <1>1, <1>3 DEF CleanIsOnDisk, IsOnDisk, SongsOf
<1>4. CASE ~OnDisk(i)
  <2>1. cherry' = cherry
    BY <1>4, DiskChanged DEF OnDisk
  <2>2. CASE StagePackage(i)
    <3>1. /\ r.stage = "stage" /\ s.stage = "rename" /\ s.todo = {}
          /\ SongsOf(s.done) = SongsOf(r.todo)
      BY <2>2, StepsApart
    <3>2. r.portable /\ Running = {i}
      BY <3>1 DEF StagesFit
    <3>3. r.done = {}
      BY <3>1 DEF StagesFit
    <3> QED BY <1>1, <1>2, <1>3, <2>1, <3>1, <3>2, <3>3 DEF Carries, SongsOf
  <2>3. CASE ~StagePackage(i)
    <3>1. /\ r.stage \in {"previous", "check", "copy"}
          /\ s.stage \in {"check", "copy", "named", "open"}
          /\ \/ s.todo = r.todo /\ s.done = r.done
             \/ \E t \in r.todo : s.todo = r.todo \ {t} /\ s.done = r.done \cup {t}
      BY <1>4, <2>3, StepsApart
    <3>2. r.portable
      BY <3>1 DEF StagesFit
    <3>3. SongsOf(s.todo) \cup SongsOf(s.done) = SongsOf(r.todo) \cup SongsOf(r.done)
      BY <3>1 DEF SongsOf
    <3> QED BY <1>1, <1>2, <1>3, <2>1, <3>1, <3>2, <3>3 DEF Carries
  <2> QED BY <2>2, <2>3
<1>5. CASE CopyFile(i)
  <2>1. PICK t \in r.todo, u \in Track :
          u.song = t.song /\ s.todo = r.todo \ {t} /\ s.done = r.done \cup {u}
    BY <1>5, StepsApart
  <2>2. r.stage = "named" /\ s.stage = "copy" /\ cherry' = cherry
    BY <1>5, StepsApart DEF CopyFile
  <2>3. r.portable
    BY <2>2 DEF StagesFit
  <2>4. SongsOf(s.todo) \cup SongsOf(s.done) = SongsOf(r.todo) \cup SongsOf(r.done)
    BY <2>1 DEF SongsOf
  <2> QED BY <1>1, <1>2, <1>3, <2>2, <2>3, <2>4 DEF Carries
<1>6. CASE OpenFile(i)
  <2>1. s.stage = "write" /\ s.todo = r.todo /\ s.done = r.done
    BY <1>6, StepsApart
  <2> QED BY <1>1, <1>2, <1>3, <2>1 DEF Carries
<1>7. CASE WriteFile(i)
  <2>1. r.stage = "write" /\ s.todo = r.todo /\ s.done = r.done
        /\ s.stage = IF r.portable THEN "sweep" ELSE "answer"
    BY <1>7, StepsApart
  <2>2. cherry[r.file] = Torn /\ (r.portable => r.todo = {})
    BY <2>1 DEF Waits, Written, StagesFit
  <2>3. /\ cherry'[r.file] \in Document
        /\ cherry'[r.file].tracks = IF r.portable THEN r.done ELSE r.todo
    BY <1>7, <2>2, FileWritten
  <2>4. SongsOf(cherry'[r.file].tracks) = SongsOf(project)
    BY <1>1, <2>2, <2>3 DEF Carries, SongsOf
  <2> QED BY <1>1, <1>2, <1>3, <2>1, <2>3, <2>4 DEF Carries
<1>8. CASE Sweep(i)
  <2>1. /\ r.stage = "sweep" /\ s.stage \in {"sweep", "answer"}
        /\ s.todo = r.todo /\ s.done = r.done /\ cherry' = cherry
    BY <1>8, StepsApart
  <2> QED BY <1>1, <1>2, <1>3, <2>1 DEF Carries
<1>9. CASE RenamePackage(i)
  <2>1. r.stage = "rename" /\ s.stage = "answer" /\ s.todo = r.todo /\ s.done = r.done
    BY <1>9, StepsApart
  <2>2. ~FolderExists
    BY <1>9, DiskChanged
  <2>3. r.portable /\ r.todo = {}
    BY <2>1 DEF StagesFit
  <2>4. /\ cherry'[r.file] = [portable |-> TRUE, tracks |-> r.done] /\ cherry'[r.file] \in Document
    BY <1>9, <2>2, PackageRenamed
  <2>5. SongsOf(cherry'[r.file].tracks) = SongsOf(project)
    BY <1>1, <2>3, <2>4 DEF Carries, SongsOf
  <2> QED BY <1>1, <1>2, <1>3, <2>1, <2>3, <2>4, <2>5 DEF Carries
<1> QED BY <1>4, <1>5, <1>6, <1>7, <1>8, <1>9 DEF OnDisk

LEMMA CarriesStep ==
  ASSUME SaveTypeOK, StagesFit, Waits, SavesCarryProject, CleanIsOnDisk, "busy" \notin allowed,
         "fault" \notin allowed, Next
  PROVE  SavesCarryProject' /\ CleanIsOnDisk'
<1>a. Alone /\ (filePath \in Cherry \cup {None}) /\ None \notin Cherry
  BY SaveAssumption DEF Waits, SaveTypeOK
<1>1. ASSUME Running' = {} PROVE SavesCarryProject'
  BY <1>1 DEF SavesCarryProject
<1>2. ASSUME Edit PROVE CleanIsOnDisk'
  BY <1>2 DEF Edit, CleanIsOnDisk
<1>3. ASSUME NEW f \in Cherry, Load(f) PROVE CleanIsOnDisk'
  BY <1>3 DEF Load, UnchangedDisk, CleanIsOnDisk, IsOnDisk, SongsOf
<1>4. ASSUME NEW i \in Saver, NEW s \in Save, Running = {}, Running' = {i}, saves'[i] = s, Begins(s)
      PROVE  SavesCarryProject' /\ CleanIsOnDisk'
  <2>1. /\ s.todo = project /\ s.done = {} /\ s.stage \in {"previous", "open", "stage"}
        /\ s.kind = "save" => s.file = filePath
        /\ project' = project /\ filePath' = filePath /\ isDirty' = isDirty /\ cherry' = cherry
    BY <1>4 DEF Begins, Started, UnchangedWindow, UnchangedDisk
  <2>2. SavesCarryProject'
    BY <1>4, <2>1 DEF SavesCarryProject, SongsOf
  <2>3. CleanIsOnDisk'
    BY <1>4, <2>1 DEF CleanIsOnDisk, IsOnDisk, SongsOf
  <2> QED BY <2>2, <2>3
<1>5. ASSUME NEW i \in Saver, Running = {i}, Saved(i) PROVE CleanIsOnDisk'
  <2>1. /\ Carries(saves[i]) /\ saves[i].stage = "answer"
        /\ filePath' = saves[i].file /\ project' = project /\ cherry' = cherry
    BY <1>5 DEF SavesCarryProject, Carries, Saved, At, UnchangedDisk
  <2> QED BY <2>1 DEF Carries, CleanIsOnDisk, IsOnDisk, SongsOf
<1>6. ASSUME NEW i \in Saver, Running = {i}, Running' = {}, UnchangedWindow, UnchangedDisk,
             saves[i].stage \notin {"sweep", "answer"}, saves[i].stage # "write"
      PROVE  CleanIsOnDisk'
  BY <1>6 DEF CleanIsOnDisk, IsOnDisk, SongsOf, UnchangedWindow, UnchangedDisk
<1>7. ~SongDisappears /\ ~Restart
  BY DEF SongDisappears, Restart, FaultMayHappen
<1> QED BY <1>1, <1>2, <1>3, <1>4, <1>5, <1>6, <1>7, <1>a, OneSave, HandlerCarries
-----------------------------------------------------------------------------
(* The invariant, and what follows.                                        *)

(* SaveInv holds in every reachable state.                                 *)
THEOREM SaveInvariantHolds == Spec => []SaveInv
<1>1. Init => SaveInv
  <2> SUFFICES ASSUME Init PROVE SaveInv
    OBVIOUS
  <2>1. Running = {}
    BY DEF Init, Running
  <2>2. /\ project = {} /\ undoable = {} /\ filePath = None
        /\ \A f \in Cherry : cherry[f] = None
        /\ \A f \in Cherry : cherry[f] \notin Document
    BY ContentAssumption DEF Init
  <2>3. SaveTypeOK
    <3>1. copies \in [Copy -> Song \cup {None}] /\ cherry \in [Cherry -> Document \cup {None, Torn}]
      BY DEF Init
    <3>2. saves \in [1 .. MaxSaves -> Save \cup {Idle}]
      BY DEF Init
    <3>3. edits \in 0 .. MaxEdits /\ faults \in 0 .. MaxFaults
      BY SaveAssumption DEF Init
    <3>4. \A i \in Running : \A t \in saves[i].done : IsCopy(t)
      BY <2>1
    <3>5. /\ allowed \in Scenarios /\ project \subseteq Track /\ undoable \subseteq Track
          /\ isDirty \in BOOLEAN /\ portableMode \in BOOLEAN
          /\ filePath \in Cherry \cup {None} /\ songs \subseteq Song
      BY DEF Init
    <3> QED BY <3>1, <3>2, <3>3, <3>4, <3>5 DEF SaveTypeOK
  <2> QED BY <2>1, <2>2, <2>3
          DEF SaveInv, StagesFit, Alone, NameIsFree, DoneExists, Written, OnlyCherry,
              CopiesAreThere, Portable, KnownTracksMatch, Matching, Agrees, SavesCarryProject,
              CleanIsOnDisk
<1>2. SaveInv /\ [Next]_vars => SaveInv'
  <2> SUFFICES ASSUME SaveInv, [Next]_vars PROVE SaveInv'
    OBVIOUS
  <2>1. CASE Next
    <3>1. SaveTypeOK /\ StagesFit
      BY DEF SaveInv
    <3>2. SaveTypeOK' /\ StagesFit' /\ allowed' = allowed
      BY <2>1, <3>1, TypesStep, StagesFitStep, AllowedStays
    <3>3. Without({"busy"}) => Waits /\ Waits'
      BY <2>1, <3>1, WaitsStep DEF SaveInv, Without, Waits
    <3>4. Without({"busy", "shared"}) => OnlyCherry /\ OnlyCherry' /\ CopiesAreThere'
      BY <2>1, <3>1, <3>3, OnlyCherryStep, CopiesAreThereStep DEF SaveInv, Without
    <3>5. Without({"busy", "shared", "undo"}) => KnownTracksMatch'
      BY <2>1, <3>1, <3>3, <3>4, KnownTracksMatchStep DEF SaveInv, Without
    <3>6. Without({"busy", "fault"}) => SavesCarryProject' /\ CleanIsOnDisk'
      BY <2>1, <3>1, <3>3, CarriesStep DEF SaveInv, Without
    <3>7. \A tags : Without(tags)' <=> Without(tags)
      BY <3>2 DEF Without
    <3> QED BY <3>2, <3>3, <3>4, <3>5, <3>6, <3>7 DEF SaveInv, Without, Waits
  <2>2. CASE UNCHANGED vars
    BY <2>2
       DEF SaveInv, vars, SaveTypeOK, StagesFit, Alone, NameIsFree, DoneExists, Written, OnlyCherry,
           CopiesAreThere, Portable, FileExists, IsCopy, KnownTracksMatch, Matching, Agrees,
           SavesCarryProject, CleanIsOnDisk, IsOnDisk, Without, Running
  <2> QED BY <2>1, <2>2
<1> QED BY <1>1, <1>2, PTL DEF Spec

(* Every variable keeps its type: a copy a save has made is a copy, its    *)
(* name one of the folder, and what a .cherry holds can be told apart.     *)
THEOREM SaveTypesHold == Spec => []SaveTypeOK
<1>1. SaveInv => SaveTypeOK
  BY DEF SaveInv
<1> QED BY <1>1, SaveInvariantHolds, PTL

(* CopiesExist: through every failure and crash, a portable .cherry refers *)
(* only to copies that are on disk (copyTracksForPortableMode, saveProject *)
(* and removeObsoletePortableFiles, in this order).                        *)
THEOREM PortableCopiesExist == Spec => []CopiesExist
<1>1. SaveInv => CopiesExist
  BY DEF SaveInv, CopiesAreThere, CopiesExist
<1> QED BY <1>1, SaveInvariantHolds, PTL

(* CopiesMatch: and to the audio of its own tracks, although               *)
(* resolveUniqueDestPath gives the name of a deleted copy to another.      *)
THEOREM PortableCopiesMatch == Spec => []CopiesMatch
<1>1. SaveInv => CopiesMatch
  BY DEF SaveInv, CopiesAreThere, KnownTracksMatch, Matching, Agrees, CopiesMatch, Portable, Without
<1> QED BY <1>1, SaveInvariantHolds, PTL

(* CleanMeansSaved: with no fault and nothing done during a save, a        *)
(* project that is not dirty is the one in its .cherry.                    *)
THEOREM CleanIsSaved == Spec => []CleanMeansSaved
<1>1. SaveInv => CleanMeansSaved
  BY DEF SaveInv, CleanIsOnDisk, CleanMeansSaved, Without
<1> QED BY <1>1, SaveInvariantHolds, PTL
=============================================================================
