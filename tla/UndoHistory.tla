----------------------------- MODULE UndoHistory -----------------------------
(***************************************************************************)
(* Global undo and redo over the desktop application's workspaces: the     *)
(* project's playlist and its collections (globalHistoryStore.ts,          *)
(* shared/commands, projectStore.ts, projectStoreFactory.ts and            *)
(* useDragDropExecutor.ts).  An edit changes the documents and pushes the  *)
(* commands that undo and redo it; a command works on item ids and         *)
(* positions, so it is right only if the document is as it was.            *)
(*                                                                         *)
(* A document is its root list and the tracks of its groups: nesting is    *)
(* one level deep, names and track settings are left out.  Everything here *)
(* runs synchronously in the renderer: an operation is one step.           *)
(***************************************************************************)
EXTENDS Naturals, FiniteSets, SequencesExt

CONSTANTS
    Project,        \* the project's own workspace
    Collection,     \* collection workspaces
    Track, Group,   \* item ids: an id is made up (uuid) for every new item
    Root,           \* parent of an item that is in no group
    MaxDepth,       \* maxDepth, DEFAULT_HISTORY_DEPTH in the code
    MaxLength,      \* bound: the most items a document holds
    MaxSelected,    \* bound: the most items a selection holds
    MaxEdits        \* bound: the most edits of one project

ASSUME UndoAssumption ==
    /\ MaxDepth \in Nat \ {0} /\ MaxLength \in Nat /\ MaxSelected \in Nat
    /\ MaxEdits \in Nat
    /\ Track \cap Group = {} /\ Root \notin Track \cup Group
    /\ Project \notin Collection

VARIABLES
    docs,           \* workspace -> document
    available,      \* workspaces whose store is registered
    history,        \* the composite actions
    historyIndex,   \* how many of them are applied (the code's index + 1)
    timeline,       \* ghost: the documents after 0, 1, ... of them
    edits,          \* how many edits the project has seen (bound)
    unrecorded,     \* ghost: an edit was pushed with commands that do not match it
    torn            \* ghost: an undo or redo stopped after its first part

vars == <<docs, available, history, historyIndex, timeline, edits, unrecorded,
          torn>>

Workspace == {Project} \cup Collection
Item == Track \cup Group
Doc == [root : Seq(Item), inner : [Group -> Seq(Track)]]
EmptyDoc == [root |-> <<>>, inner |-> [g \in Group |-> <<>>]]
Position == [item : Item, tracks : Seq(Track), parent : Group \cup {Root},
             index : Nat]

ItemsOf(d) == ToSet(d.root) \cup UNION {ToSet(d.inner[g]) : g \in Group}
Size(d) == Cardinality(ItemsOf(d))
\* The ids that no document and no command holds: a new item gets one.
InCommand(c) == UNION {{p.item} \cup ToSet(p.tracks) : p \in ToSet(c.positions)}
Used == UNION {ItemsOf(docs[w]) : w \in Workspace} \cup
        UNION {UNION {InCommand(part.command) : part \in ToSet(action)} :
               action \in ToSet(history)}
Fresh == Item \ Used

UndoTypeOK ==
    /\ docs \in [Workspace -> Doc]
    /\ available \subseteq Workspace /\ Project \in available
    /\ Len(history) <= MaxDepth
    /\ \A i \in DOMAIN history : \A part \in ToSet(history[i]) :
         /\ part.workspace \in Workspace
         /\ part.command.type \in {"add", "addRoot", "remove", "group", "ungroup"}
         /\ part.command.positions \in Seq(Position)
    /\ historyIndex \in 0 .. Len(history)
    /\ Len(timeline) = Len(history) + 1
    /\ edits \in 0 .. MaxEdits
    /\ unrecorded \in BOOLEAN /\ torn \in BOOLEAN
-----------------------------------------------------------------------------
\* slice(0, i), slice(i), and splice at i, of an array that may be shorter.
Take(s, i) == SubSeq(s, 1, IF i < Len(s) THEN i ELSE Len(s))
Drop(s, i) == SubSeq(s, i + 1, Len(s))
Splice(s, i, new) == Take(s, i) \o new \o Drop(s, i)
IndexIn(s, x) == (CHOOSE i \in DOMAIN s : s[i] = x) - 1
\* Array.filter.
Without(s, ids) ==
    LET kept[i \in 0 .. Len(s)] ==
          IF i = 0 THEN <<>>
          ELSE IF s[i] \in ids THEN kept[i - 1] ELSE Append(kept[i - 1], s[i])
    IN kept[Len(s)]

\* Mutant: from the root only.
RemoveIdsAtRoot(d, ids) == [d EXCEPT !.root = Without(@, ids)]

\* removeItemFromItems, removeItemsById: wherever the items are.
RemoveIds(d, ids) ==
    [root |-> Without(d.root, ids),
     inner |-> [g \in Group |-> IF g \in ids THEN <<>> ELSE Without(d.inner[g], ids)]]

\* insertItemAtPath: nothing happens when the parent group is not there.
InsertItem(d, p) ==
    CASE p.parent = Root ->
           [root |-> Splice(d.root, p.index, <<p.item>>),
            inner |-> [g \in Group |-> IF g = p.item THEN p.tracks ELSE d.inner[g]]]
      [] p.parent \in ToSet(d.root) ->
           [d EXCEPT !.inner[p.parent] = Splice(@, p.index, <<p.item>>)]
      [] OTHER -> d
\* Mutant: in the order they were selected.
InsertAllUnsorted(d, positions) == FoldLeft(InsertItem, d, positions)
\* Array.sort by the index, which is stable.
Before(positions, k) ==
    {j \in DOMAIN positions :
       \/ positions[j].index < positions[k].index
       \/ positions[j].index = positions[k].index /\ j < k}
ByIndex(positions) ==
    [k \in DOMAIN positions |->
       positions[CHOOSE j \in DOMAIN positions :
                   Cardinality(Before(positions, j)) = k - 1]]
InsertAll(d, positions) ==
    LET sorted == ByIndex(positions)
        inserted[k \in 0 .. Len(positions)] ==
          IF k = 0 THEN d ELSE InsertItem(inserted[k - 1], sorted[k])
    IN inserted[Len(positions)]

Ids(positions) == {positions[i].item : i \in DOMAIN positions}
\* Replacing a group by its tracks, and a run of root items by a group.
OpenGroup(d, g) ==
    IF g \notin ToSet(d.root) THEN d
    ELSE LET i == IndexIn(d.root, g) IN
         [root |-> Take(d.root, i) \o d.inner[g] \o Drop(d.root, i + 1),
          inner |-> [d.inner EXCEPT ![g] = <<>>]]

\* The commands.  "add": AddItemsAtPositionsCommand; "addRoot":
\* AddItemsCommand, whose undo looks at the root only; "remove":
\* RemoveItemsCommand, RemoveNestedItemCommand, RemoveItemsAtPositionsCommand;
\* "group" and "ungroup" hold the group with its tracks in their one position.
Execute(c, d) ==
    LET p == c.positions[1] IN
    CASE c.type \in {"add", "addRoot"} -> InsertAll(d, c.positions)
      [] c.type = "remove" -> RemoveIds(d, Ids(c.positions))
      [] c.type = "group" ->    \* by index: whatever is there now goes
           InsertItem([d EXCEPT !.root =
                         Take(@, p.index) \o Drop(@, p.index + Len(p.tracks))], p)
      [] c.type = "ungroup" -> OpenGroup(d, p.item)

UndoCommand(c, d) ==
    LET p == c.positions[1] IN
    CASE c.type = "add" -> RemoveIds(d, Ids(c.positions))
      [] c.type = "addRoot" -> [d EXCEPT !.root = Without(@, Ids(c.positions))]
      [] c.type = "remove" -> InsertAll(d, c.positions)
      [] c.type = "group" -> OpenGroup(d, p.item)
      [] c.type = "ungroup" ->
           InsertItem([d EXCEPT !.root = Without(@, ToSet(p.tracks))], p)
-----------------------------------------------------------------------------
Init ==
    /\ docs = [w \in Workspace |-> EmptyDoc]
    /\ available = Workspace
    /\ history = <<>>
    /\ historyIndex = 0
    /\ timeline = <<docs>>
    /\ edits = 0
    /\ unrecorded = FALSE
    /\ torn = FALSE

\* Mutant: one action too many is kept.
PushUntrimmed(parts) ==
    LET kept == SubSeq(history, 1, historyIndex) \o <<parts>>
        past == SubSeq(timeline, 1, historyIndex + 1) \o <<docs'>>
        over == Len(kept) > MaxDepth + 1
    IN
    /\ history' = IF over THEN Tail(kept) ELSE kept
    /\ timeline' = IF over THEN Tail(past) ELSE past
    /\ historyIndex' = Len(history')

\* pushCompositeCommand: what was undone is forgotten, the oldest action is
\* dropped beyond maxDepth.
Push(parts) ==
    LET kept == SubSeq(history, 1, historyIndex) \o <<parts>>
        past == SubSeq(timeline, 1, historyIndex + 1) \o <<docs'>>
        over == Len(kept) > MaxDepth
    IN
    /\ history' = IF over THEN Tail(kept) ELSE kept
    /\ timeline' = IF over THEN Tail(past) ELSE past
    /\ historyIndex' = Len(history')

Part(w, type, positions) ==
    [workspace |-> w, command |-> [type |-> type, positions |-> positions]]
At(d, x, parent, i) == [item |-> x, parent |-> parent, index |-> i,
    tracks |-> IF x \in Group THEN d.inner[x] ELSE <<>>]
\* Where an item is: findItemWithParent.
ParentOf(d, x) == IF x \in ToSet(d.root) THEN Root
                  ELSE CHOOSE g \in Group : x \in ToSet(d.inner[g])
Kids(d, parent) == IF parent = Root THEN d.root ELSE d.inner[parent]
Where(d, x) == LET q == ParentOf(d, x) IN At(d, x, q, IndexIn(Kids(d, q), x))
Parents(d) == {Root} \cup (ToSet(d.root) \cap Group)

\* addItem, addItems at the root; addItemsToGroup inside a group.
AddItem(w, t, parent, i) ==
    LET p == At(docs[w], t, parent, i)
        type == IF parent = Root THEN "addRoot" ELSE "add"
    IN
    /\ w \in available /\ t \in Fresh
    /\ Size(docs[w]) < MaxLength
    /\ parent \in Parents(docs[w]) /\ i <= Len(Kids(docs[w], parent))
    /\ docs' = [docs EXCEPT ![w] = InsertItem(@, p)]
    /\ Push(<<Part(w, type, <<p>>)>>)
    /\ UNCHANGED <<available, unrecorded, torn>>

\* removeItemsWithHistory and the project's removeItem: positions as found.
RemoveItems(w, sel) ==
    LET d == docs[w]
        positions == [k \in DOMAIN sel |-> Where(d, sel[k])]
    IN
    /\ w \in available
    /\ \A k \in DOMAIN positions : positions[k].parent \notin ToSet(sel)
    /\ docs' = [docs EXCEPT ![w] = RemoveIds(@, ToSet(sel))]
    /\ Push(<<Part(w, "remove", positions)>>)
    /\ UNCHANGED <<available, unrecorded, torn>>

\* removeSelectedItems: the items in the order they were selected, their
\* root indices sorted on their own; a selected track of a group is removed
\* but recorded nowhere.
RemoveSelectedItems(w, sel) ==
    LET d == docs[w]
        atRoot == Without(sel, Item \ ToSet(d.root))
        found == [k \in DOMAIN atRoot |->
                    At(d, atRoot[k], Root, IndexIn(d.root, atRoot[k]))]
        positions == [k \in DOMAIN atRoot |->
                        [found[k] EXCEPT !.index = ByIndex(found)[k].index]]
        exact == atRoot = sel /\ positions = found
    IN
    /\ w \in available
    /\ docs' = [docs EXCEPT ![w] = RemoveIds(@, ToSet(sel))]
    /\ IF atRoot = <<>> THEN UNCHANGED <<history, historyIndex, timeline>>
                        ELSE Push(<<Part(w, "remove", positions)>>)
    /\ unrecorded' = (unrecorded \/ ~exact)
    /\ UNCHANGED <<available, torn>>

\* createGroup over root items i+1 .. j, which must be consecutive.
CreateGroup(w, g, i, j) ==
    LET d == docs[w]
        p == [item |-> g, parent |-> Root, index |-> i,
              tracks |-> SubSeq(d.root, i + 1, j)]
        command == [type |-> "group", positions |-> <<p>>]
    IN
    /\ w \in available /\ g \in Fresh
    /\ Size(d) < MaxLength
    /\ j - i >= 2 /\ j <= Len(d.root)
    /\ ToSet(p.tracks) \subseteq Track
    /\ docs' = [docs EXCEPT ![w] = Execute(command, @)]
    /\ Push(<<Part(w, "group", <<p>>)>>)
    /\ UNCHANGED <<available, unrecorded, torn>>

UngroupGroup(w, g) ==
    /\ w \in available /\ g \in ToSet(docs[w].root)
    /\ docs' = [docs EXCEPT ![w] = OpenGroup(@, g)]
    /\ Push(<<Part(w, "ungroup", <<Where(docs[w], g)>>)>>)
    /\ UNCHANGED <<available, unrecorded, torn>>

\* executeMove within one workspace: the items keep their ids.
MoveWithin(w, sel, parent, i) ==
    LET d == docs[w]
        from == [k \in DOMAIN sel |-> Where(d, sel[k])]
        to == [k \in DOMAIN sel |-> At(d, sel[k], parent, i + k - 1)]
    IN
    /\ w \in available
    /\ parent \in Parents(d) \ ToSet(sel) /\ i <= Len(Kids(d, parent))
    /\ parent # Root => ToSet(sel) \subseteq Track
    /\ \A k \in DOMAIN from : from[k].parent \notin ToSet(sel)
    /\ docs' = [docs EXCEPT ![w] = InsertAll(RemoveIds(d, ToSet(sel)), to)]
    /\ Push(<<Part(w, "remove", from), Part(w, "add", to)>>)
    /\ UNCHANGED <<available, unrecorded, torn>>

\* executeMove and executeCopy between workspaces: a track gets a new id.
Transfer(source, target, t, new, parent, i, keep) ==
    LET to == <<At(docs[target], new, parent, i)>>
        from == <<Where(docs[source], t)>>
    IN
    /\ {source, target} \subseteq available /\ source # target
    /\ t \in ItemsOf(docs[source]) /\ new \in Fresh
    /\ Size(docs[target]) < MaxLength
    /\ parent \in Parents(docs[target]) /\ i <= Len(Kids(docs[target], parent))
    /\ docs' = [docs EXCEPT ![source] = IF keep THEN @ ELSE RemoveIds(@, {t}),
                            ![target] = InsertAll(@, to)]
    /\ Push(IF keep THEN <<Part(target, "add", to)>>
            ELSE <<Part(source, "remove", from), Part(target, "add", to)>>)
    /\ UNCHANGED <<available, unrecorded, torn>>
-----------------------------------------------------------------------------
\* The parts that are applied before one whose workspace is gone stops the
\* loop; a workspace that is gone has no document to change.
Applied(parts) ==
    LET gone == {k \in DOMAIN parts : parts[k].workspace \notin available}
    IN IF gone = {} THEN parts ELSE SubSeq(parts, 1, Min(gone) - 1)

Apply(mode, ds, part) ==
    [ds EXCEPT ![part.workspace] =
       IF mode = "undo" THEN UndoCommand(part.command, @) ELSE Execute(part.command, @)]
\* The loop over the parts.
ApplyAll(mode, ds, parts) ==
    LET applied[k \in 0 .. Len(parts)] ==
          IF k = 0 THEN ds ELSE Apply(mode, applied[k - 1], parts[k])
    IN applied[Len(parts)]

Undo ==
    LET parts == Reverse(history[historyIndex])
        done == Applied(parts)
    IN
    /\ historyIndex > 0
    /\ docs' = ApplyAll("undo", docs, done)
    /\ historyIndex' = IF done = parts THEN historyIndex - 1 ELSE historyIndex
    /\ torn' = (torn \/ (done # parts /\ done # <<>>))
    /\ UNCHANGED <<available, history, timeline, edits, unrecorded>>

Redo ==
    LET parts == history[historyIndex + 1]
        done == Applied(parts)
    IN
    /\ historyIndex < Len(history)
    /\ docs' = ApplyAll("redo", docs, done)
    /\ historyIndex' = IF done = parts THEN historyIndex + 1 ELSE historyIndex
    /\ torn' = (torn \/ (done # parts /\ done # <<>>))
    /\ UNCHANGED <<available, history, timeline, edits, unrecorded>>

\* deleteCollectionAndReinitialize: the store is unregistered, the history
\* still names it.
DeleteCollection(w) ==
    /\ w \in Collection \cap available
    /\ available' = available \ {w}
    /\ docs' = [docs EXCEPT ![w] = EmptyDoc]
    /\ UNCHANGED <<history, historyIndex, timeline, edits, unrecorded, torn>>

\* newProject and loadProject: clearHistory and new documents.
NewProject ==
    /\ docs' = [w \in Workspace |-> EmptyDoc]
    /\ available' = Workspace
    /\ history' = <<>>
    /\ historyIndex' = 0
    /\ timeline' = <<docs'>>
    /\ edits' = 0
    /\ unrecorded' = FALSE
    /\ torn' = FALSE

\* A selection: distinct items of the document in the order they were clicked.
Selections(w) == UNION {{s \in [1 .. n -> ItemsOf(docs[w])] : IsInjective(s)} :
                        n \in 1 .. MaxSelected}

Edit(w) ==
    \/ \E t \in Track, parent \in Group \cup {Root}, i \in 0 .. MaxLength :
          \/ AddItem(w, t, parent, i)
          \/ \E s \in Workspace, old \in Track, keep \in BOOLEAN :
                Transfer(s, w, old, t, parent, i, keep)
    \/ \E sel \in Selections(w) :
          \/ RemoveItems(w, sel)
          \/ RemoveSelectedItems(w, sel)
          \/ \E parent \in Group \cup {Root}, i \in 0 .. MaxLength :
                MoveWithin(w, sel, parent, i)
    \/ \E g \in Group : \/ UngroupGroup(w, g)
                        \/ \E i, j \in 0 .. MaxLength : CreateGroup(w, g, i, j)

Next ==
    \/ edits < MaxEdits /\ edits' = edits + 1 /\ \E w \in Workspace : Edit(w)
    \/ Undo
    \/ Redo
    \/ \E w \in Collection : DeleteCollection(w)
    \/ NewProject

Spec == Init /\ [][Next]_vars
-----------------------------------------------------------------------------
\* Undo and redo go through the documents as they were: whatever was edited,
\* undone and redone before, every document is what it was after the same
\* actions the first time, unless a command did not match its edit or an undo
\* stopped half way.
UndoRestores == ~unrecorded /\ ~torn =>
    \A w \in available : docs[w] = timeline[historyIndex + 1][w]

\* No item is twice in a document, and a group that is not there has no tracks.
Neat(d) ==
    /\ IsInjective(d.root)
    /\ \A g \in Group :
         /\ IsInjective(d.inner[g])
         /\ ToSet(d.inner[g]) \cap ToSet(d.root) = {}
         /\ g \notin ToSet(d.root) => d.inner[g] = <<>>
         /\ \A h \in Group \ {g} : ToSet(d.inner[g]) \cap ToSet(d.inner[h]) = {}

\* No undo or redo puts an item into a document that has it already, unless a
\* command did not match its edit or an undo stopped half way: a group's command
\* takes out whatever is at its tracks' places, and puts its tracks in.
NoItemTwice == ~unrecorded /\ ~torn => \A w \in Workspace : Neat(docs[w])

\* All parts of an undo or redo are applied or none of them.
UndoIsAtomic == ~torn
=============================================================================
