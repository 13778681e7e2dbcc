----------------------------- MODULE BoardEdits -----------------------------
(***************************************************************************)
(* One loaded board while users edit it, undo and redo, saves run and the  *)
(* process restarts.  The session queue lets one edit or one undo happen   *)
(* at a time (BoardStore), so each is one step here; a save does not enter *)
(* that queue, and edits fall between the moment it copies the items and   *)
(* the moment it comes back.  Every edit is journalled, and the journal    *)
(* survives a restart; what is shown is what a browser draws from it.      *)
(***************************************************************************)
EXTENDS BoardItems, EditHistory

CONSTANTS
  User,       \* the owners of undo stacks
  MaxEdits,   \* bound: recorded mutations
  Supply,     \* bound: the numbers of items of each kind that users draw
  Allowed     \* the situations, of those named below, that do occur

\* Situations that break a property of this module (README, section 12): a line
\* put back by an undo while it is in the file; a line in the file copied while
\* a save runs; a save while a line has no points; several copies at once; a
\* restart that replays an undo.
Situations == {"undo_stored", "copy_in_save", "save_empty_line", "copy_several", "replay_undo"}
ASSUME EditsAssumption ==
  /\ IsFiniteSet(Id) /\ Id = 1..Cardinality(Id)
  /\ User \cap {None} = {} /\ MaxEdits \in Nat /\ Supply \subseteq [Kinds -> Nat]
  /\ Allowed \subseteq Situations

VARIABLES
  board,         \* the items in memory
  history,       \* board.editHistory.actions
  log,           \* the journal's mutations; the place of one is its number
  disk,          \* the stored SVG: the number it was saved at and its entries
  persistedSeq,  \* mutationLog.persistedSeq()
  job,           \* the save that runs: the items it copied, and what changed since
  writer,        \* who changed an item last
  screens        \* what a browser that follows the board has drawn after each mutation

vars == <<board, history, log, disk, persistedSeq, job, writer, screens>>

NoJob == [running |-> FALSE]
Blank == [items |-> [i \in Id |-> NoItem], order |-> <<>>]

----------------------------------------------------------------------------
(* What a browser draws of a mutation with number n. *)

Without(order, ids) == SelectSeq(order, LAMBDA i : ~Contains(ids, i))
MoveBefore(order, i, next) ==
  LET rest == Without(order, <<i>>)
      at == CHOOSE k \in DOMAIN rest : rest[k] = next
  IN  IF Contains(rest, next) THEN SubSeq(rest, 1, at - 1) \o <<i>> \o SubSeq(rest, at, Len(rest))
      ELSE order

\* drawRestoredItems: remove them all, draw them on top, then move each below
\* the one it was under, the topmost first.
Stacked(order, entries) ==
  LET ids == [k \in DOMAIN entries |-> entries[k].id]
      back == SelectSeq(entries, LAMBDA e : e.item # NoItem)
      drawn == Without(order, ids) \o [k \in DOMAIN back |-> back[k].id]
      topFirst == SortSeq(back, LAMBDA d, e : d.order > e.order)
  IN  FoldLeft(LAMBDA o, e : MoveBefore(o, e.id, e.before), drawn, topFirst)
DrawRestored(s, entries) ==
  LET ItemOf(i) == entries[CHOOSE k \in DOMAIN entries : entries[k].id = i].item
  IN  [items |-> [i \in Id |-> IF i \in IdsOf(entries) THEN ItemOf(i) ELSE s.items[i]],
       order |-> Stacked(s.order, entries)]

Draw(s, m, n) ==
  LET i == m.ids[1] IN
  CASE m.type = "create" -> [items |-> [s.items EXCEPT ![i] = NewContent(m.kind)],
                             order |-> Append(Without(s.order, m.ids), i)]
    [] m.type = "append" -> [s EXCEPT !.items[i].pts = Append(@, n)]
    [] m.type = "text"   -> [s EXCEPT !.items[i].pts = <<n>>]
    [] m.type = "move"   -> [s EXCEPT !.items = [j \in Id |-> IF Contains(m.ids, j)
                                THEN [s.items[j] EXCEPT !.geo = n] ELSE s.items[j]]]
    [] m.type = "copy"   ->
         [items |-> [j \in Id |-> IF Contains(m.new, j)
                       THEN s.items[m.ids[CHOOSE k \in DOMAIN m.new : m.new[k] = j]] ELSE s.items[j]],
          order |-> Without(s.order, m.new) \o m.new]
    [] m.type = "delete" -> [items |-> [j \in Id |-> IF Contains(m.ids, j) THEN NoItem ELSE s.items[j]],
                             order |-> Without(s.order, m.ids)]
    [] m.type = "clear" -> Blank
    [] m.type = "restore" -> DrawRestored(s, m.items)

ShownAfter(n) == IF n = 0 THEN Blank ELSE screens[n]
shown == ShownAfter(Len(log))

----------------------------------------------------------------------------
(* Recording, and what an undo remembers. *)

\* Mutant: what memory holds is taken for all there is.
CompleteAlways(item) == item.kind \in Kinds

\* Whether memory has all of an item: otherwise the journal is read for it.
Complete(item) ==
  CASE item.kind = "line" -> item.saved = 0 /\ item.source = None
    [] item.kind = "text" -> item.own # <<>>
    [] OTHER -> TRUE
Snapshot(i) ==
  [id |-> i, seq |-> Len(log), order |-> OrderFor(board, i),
   item |-> IF ~IsLive(board, i) THEN NoItem
            ELSE IF Complete(board.items[i])
                 THEN [kind |-> board.items[i].kind, geo |-> board.items[i].geo,
                       pts |-> board.items[i].own]
                 ELSE shown.items[i]]
Snapshots(ids) == [k \in DOMAIN ids |-> Snapshot(ids[k])]

Affected(m) ==
  CASE m.type = "clear" -> LivePaint(board)
    [] m.type = "copy" -> m.new
    [] m.type = "restore" -> [k \in DOMAIN m.items |-> m.items[k].id]
    [] OTHER -> m.ids

\* A recorded mutation, and the eviction of those in `evicted', one by one.
Record(m, evicted) ==
  LET all == <<m>> \o [k \in DOMAIN evicted |-> Mutation("delete", <<evicted[k]>>)]
      drawn[k \in 0..Len(all)] == IF k = 0 THEN shown ELSE Draw(drawn[k - 1], all[k], Len(log) + k)
  IN  /\ Len(log) + Len(all) <= MaxEdits
      /\ log' = log \o all
      /\ screens' = screens \o [k \in 1..Len(all) |-> drawn[k]]
WrittenBy(u, ids) == writer' = [i \in Id |-> IF i \in ids THEN u ELSE writer[i]]
Changes(m) ==
  job' = IF ~job.running THEN job
         ELSE [job EXCEPT !.changed = @ \cup
                 {i \in Id : \/ board.items[i] # board'.items[i]
                             \/ m.type = "clear" /\ Known(board, i)}]

Idle == ~job.running
\* Browsers draw a new identifier for every item they create.
UsedIds == {i \in Id : \E n \in DOMAIN screens : screens[n].items[i] # NoItem}
NextIds(n) == {s \in {[k \in 1..n |-> Cardinality(UsedIds) + k]} : Range(s) \subseteq Id}

----------------------------------------------------------------------------
(* Editing: acceptPersistentMutation. *)

\* A write continues the gesture of the user's latest action or starts another.
Gestures(u) ==
  {Len(log) + 1} \cup (IF LatestOf(history, u) = 0 THEN {} ELSE {history[LatestOf(history, u)].group})

Edit(m) ==
  /\ Accepts(board, m)
  /\ \E done \in {Effect(board, m, Len(log) + 1)}, affected \in {Affected(m)} :
     \E evicted \in {Evicted(done)}, before \in {Snapshots(affected)} :
       /\ board' = TrimOverflow(done)
       /\ Record(m, evicted)
       /\ Changes(m)
       /\ \E u \in User : \E g \in Gestures(u) :
            /\ history' = Observe(Begin(history, u, g, before), u,
                                  Range(affected) \cup Range(evicted), m.type = "clear")
            /\ WrittenBy(u, Range(affected) \cup Range(evicted))
  /\ UNCHANGED <<disk, persistedSeq>>

Created(kind) == Cardinality({n \in DOMAIN log : log[n].kind = kind})
Supplied(kind) ==
  \E most \in Supply : Created(kind) < most[kind] /\ \A k \in Kinds : Created(k) <= most[k]
Create ==
  \E s \in NextIds(1), kind \in Kinds :
    Supplied(kind) /\ Edit([Mutation("create", s) EXCEPT !.kind = kind])
AddPoint == \E i \in LiveIds(board) : Edit(Mutation("append", <<i>>))
SetText ==
  \E i \in LiveIds(board) : board.items[i].kind = "text" /\ Edit(Mutation("text", <<i>>))

\* The hand tool moves, copies and deletes what is selected in one batch.
Selections == {SetToSeq(s) : s \in {s \in SUBSET LiveIds(board) : Cardinality(s) \in 1..2}}
Move == \E ids \in Selections : Edit(Mutation("move", ids))
Delete == \E ids \in Selections : Edit(Mutation("delete", ids))
Copyable(ids) ==
  /\ "copy_several" \in Allowed \/ Len(ids) = 1
  /\ \/ Idle \/ "copy_in_save" \in Allowed
     \/ \A k \in DOMAIN ids : board.items[ids[k]].kind = "line" => BaselineSource(board, ids[k]) = None
Copy ==
  \E ids \in Selections : \E new \in NextIds(Len(ids)) :
    Copyable(ids) /\ Edit([Mutation("copy", ids) EXCEPT !.new = new])
Clear == board.live > 0 /\ Edit(Mutation("clear", <<>>))

\* A batch that names an item that is gone (another user was faster) is refused
\* as a whole.
RefuseBatch ==
  /\ \E u \in User :
       \E actions \in {Rejected(history, u, g, Snapshots(<<i, j>>)) :
                        g \in Gestures(u), i \in LiveIds(board), j \in UsedIds \ LiveIds(board)} :
         history' = actions
  /\ UNCHANGED <<board, log, disk, persistedSeq, job, writer, screens>>

\* An update that makes a shape too large is refused; one that has no extent yet
\* is dropped from the board, which nobody owns.
DropSeed ==
  \E i \in LiveIds(board) :
    /\ board.items[i].kind = "shape" /\ board.items[i].geo = 0
    /\ board' = RemoveAll(board, <<i>>)
    /\ Record(Mutation("delete", <<i>>), <<>>)
    /\ Changes(Mutation("delete", <<i>>))
    /\ \E u \in User : \E g \in Gestures(u) :
         history' = Observe(Rejected(history, u, g, Snapshots(<<i>>)), None, {i}, FALSE)
    /\ WrittenBy(None, {i})
    /\ UNCHANGED <<disk, persistedSeq>>

----------------------------------------------------------------------------
(* Undo and redo: reverseEdit. *)

\* Mutant: the live item below.
AnchoredBelow(b, entries) ==
  LET live == LivePaint(b)
      Anchor(i) == IF \E k \in DOMAIN live : k > 1 /\ live[k] = i
                   THEN live[(CHOOSE k \in DOMAIN live : live[k] = i) - 1] ELSE None
  IN  [k \in DOMAIN entries |->
         [id |-> entries[k].id, order |-> entries[k].order, item |-> entries[k].item,
          before |-> Anchor(entries[k].id)]]

\* The anchors of a restoration: the live item above each restored one.
Anchored(b, entries) ==
  LET live == LivePaint(b)
      Above(i) == {k \in DOMAIN live : k > 1 /\ live[k - 1] = i}
      Anchor(i) == IF Above(i) = {} THEN None ELSE live[CHOOSE k \in Above(i) : TRUE]
  IN  [k \in DOMAIN entries |->
         [id |-> entries[k].id, order |-> entries[k].order, item |-> entries[k].item,
          before |-> Anchor(entries[k].id)]]

\* Whether the writer of the SVG can tell a restored line from its entry.
Restorable(entries) ==
  \/ "undo_stored" \in Allowed
  \/ \A k \in DOMAIN entries :
       entries[k].item # NoItem /\ entries[k].item.kind = "line" =>
         entries[k].id \notin board.stored /\ (job.running => ~IsLive(job.b, entries[k].id))

ReverseEdit(u, redo) ==
  LET k == Peek(history, u, redo)
      entries == Entries(history, k, redo)
      plain == [Mutation("restore", <<>>) EXCEPT !.items = entries, !.by = u]
      now == Snapshots([l \in DOMAIN history[k].before |-> history[k].before[l].id])
  IN  /\ k # 0 /\ history[k].valid
      /\ Restorable(entries)
      /\ Accepts(board, plain)
      /\ \E done \in {Process(board, plain, Len(log) + 1)} :
         \E m \in {[plain EXCEPT !.items = Anchored(done, entries)]} :
           /\ board' = done
           /\ history' = Recent(Reversed(Observe(history, u, IdsOf(entries), FALSE), k, redo, now))
           /\ Record(m, <<>>)
           /\ WrittenBy(u, IdsOf(entries))
           /\ Changes(m)
      /\ UNCHANGED <<disk, persistedSeq>>
Undo(u) == ReverseEdit(u, FALSE)
Redo(u) == ReverseEdit(u, TRUE)

\* undo_conflict: what others have changed meanwhile is not undone, and the
\* action is given up.
GiveUp(u, redo) ==
  LET k == Peek(history, u, redo) IN
  /\ k # 0 /\ ~history[k].valid
  /\ history' = RemoveAt(history, k)
  /\ UNCHANGED <<board, log, disk, persistedSeq, job, writer, screens>>

----------------------------------------------------------------------------
(* Saving, and starting again from the file and the journal. *)

StartSave ==
  /\ ~job.running
  /\ Len(log) # persistedSeq \/ \E i \in Id : Known(board, i) /\ board.items[i].dirty
  /\ "save_empty_line" \in Allowed \/
       \A i \in LiveIds(board) : board.items[i].kind = "line" => ChildCount(board.items[i]) > 0
  /\ board' = Clean(board)
  /\ job' = [running |-> TRUE, b |-> Clean(board), seq |-> Len(log), changed |-> {}]
  /\ UNCHANGED <<history, log, disk, persistedSeq, writer, screens>>

\* Mutant: the number of the latest edit, which the copied items may not have.
SeqNow == Len(log)

\* The number the file gets is that of the items it has: the one at the start.
SeqSaved == job.seq

\* A board that has never been stored and has no item leaves no file.
FinishSave ==
  /\ job.running /\ ~Unwritable(job.b, disk.file)
  /\ \E file \in {WriteFile(job.b, disk.file)} :
       LET noFile == job.b.stored = {} /\ file = <<>> IN
       /\ disk' = [seq |-> IF noFile THEN 0 ELSE SeqSaved, file |-> file]
       /\ board' = Finalize(board, job.b, {file[k].id : k \in DOMAIN file}, job.changed)
  /\ persistedSeq' = SeqSaved
  /\ job' = NoJob
  /\ UNCHANGED <<history, log, writer, screens>>

SaveFails ==
  /\ job.running
  /\ job' = NoJob
  /\ UNCHANGED <<board, history, log, disk, persistedSeq, writer, screens>>

\* loadHistory: the file, then the journal's mutations past it.
Recovered ==
  LET Step(r, k) ==
        IF r.ok /\ Accepts(r.b, log[k]) THEN [ok |-> TRUE, b |-> Process(r.b, log[k], k)]
        ELSE [r EXCEPT !.ok = FALSE]
      tail == Len(log) - disk.seq
      replayed[k \in 0..tail] ==
        IF k = 0 THEN [ok |-> TRUE, b |-> Loaded(disk.file)]
        ELSE CHOOSE s \in {Step(r, disk.seq + k) : r \in {replayed[k - 1]}} : TRUE  \* read once
  IN  replayed[tail]

UndoInTail == \E k \in (disk.seq + 1)..Len(log) : log[k].type = "restore"
Restart ==
  /\ ~UndoInTail \/ "replay_undo" \in Allowed
  /\ \E r \in {Recovered} : r.ok /\ board' = r.b
  /\ history' = <<>> /\ job' = NoJob /\ persistedSeq' = disk.seq
  /\ UNCHANGED <<log, disk, writer, screens>>

----------------------------------------------------------------------------

Init ==
  /\ board = EmptyBoard /\ history = <<>> /\ log = <<>>
  /\ disk = [seq |-> 0, file |-> <<>>] /\ persistedSeq = 0 /\ job = NoJob
  /\ writer = [i \in Id |-> None]
  /\ screens = <<>>

Write ==
  \/ Create \/ AddPoint \/ SetText \/ Move \/ Copy \/ Delete \/ Clear
  \/ RefuseBatch \/ DropSeed
Reversal(u) == Undo(u) \/ Redo(u) \/ GiveUp(u, FALSE) \/ GiveUp(u, TRUE)
Next ==
  \/ Write \/ \E u \in User : Reversal(u)
  \/ StartSave \/ FinishSave \/ SaveFails \/ Restart

Spec == Init /\ [][Next]_vars

----------------------------------------------------------------------------
(* Properties. *)

\* Every variable keeps its type.
TypeOK ==
  /\ \A i \in Id : board.items[i] \in Item \cup {NoItem}
  /\ board.next \in Nat /\ board.stored \subseteq Id /\ board.trim \in 0..Len(board.paint)
  /\ \A k \in DOMAIN history : /\ history[k].owner \in User
                               /\ IdsOf(history[k].before) \cup IdsOf(history[k].after) \subseteq Id
  /\ \A i \in Id : shown.items[i] \in Content \cup {NoItem}
  /\ persistedSeq \in 0..Len(log) /\ disk.seq \in 0..Len(log)

\* The board in memory is the board on the screens: the same items with the same
\* geometry, in the same order from the bottom up, with as many points, of which
\* the ones that memory holds are the last; and they are never more than the
\* limit, although its count is kept apart from them (trimOverflowItems).
MemoryIsWhatIsShown ==
  /\ board.live = Cardinality(LiveIds(board)) /\ board.live <= MaxItems
  /\ LivePaint(board) = shown.order
  /\ \A i \in LiveIds(board) :
       LET item == board.items[i] IN
       /\ item.kind = shown.items[i].kind /\ item.geo = shown.items[i].geo
       /\ IsSuffix(item.own, shown.items[i].pts)
       /\ item.kind = "line" => ChildCount(item) = Len(shown.items[i].pts)

\* The stored SVG is the board as it was shown when the save copied it, whatever
\* was edited, undone or copied since: nothing left out, nothing twice, nothing
\* in another place.
StoredIsWhatWasShown ==
  LET s == ShownAfter(disk.seq) IN
  disk.seq > 0 =>
    disk.file = [k \in DOMAIN s.order |-> [id |-> s.order[k], c |-> s.items[s.order[k]]]]

\* A process that starts now can replay the journal on the stored SVG, and gets
\* the items that are shown, with their geometry and as many points; and in their
\* order, unless an undo is among what it replays.
RestartRestores ==
  LET r == Recovered
      now == shown IN
  /\ r.ok
  /\ LiveIds(r.b) = Range(now.order)
  /\ \A i \in LiveIds(r.b) :
       /\ r.b.items[i].geo = now.items[i].geo
       /\ r.b.items[i].kind = "line" => ChildCount(r.b.items[i]) = Len(now.items[i].pts)
  /\ ~UndoInTail => LivePaint(r.b) = now.order

\* What an undo or a redo would put back is what was shown before the gesture,
\* or before the undo, although memory had only a part of it.
UndoRemembers ==
  \A k \in DOMAIN history :
    LET kept == history[k].before \o history[k].after IN
    \A e \in {kept[l] : l \in DOMAIN kept} : e.item = ShownAfter(e.seq).items[e.id]

\* The step is an undo or a redo.
Reverses == Len(log') = Len(log) + 1 /\ Last(log').type = "restore"

\* Undo and redo change no item that somebody else has changed since.
ReversalsKeepOthersEdits ==
  [][Reverses =>
       \A i \in Id : shown'.items[i] # shown.items[i] => writer[i] \in {Last(log').by, None}]_vars

\* After an undo the gesture's items are as they were before it, and the user's
\* next redo is the one of that gesture and puts back all that the undo took away.
UndoIsUndoneByRedo ==
  [][\A k \in DOMAIN history :
       Reverses /\ ~history[k].undone /\ history'[k].undone =>
         LET a == history'[k] IN
         /\ Peek(history', a.owner, TRUE) = k
         /\ IdsOf(a.after) = IdsOf(a.before)
         /\ \A l \in DOMAIN a.before : shown'.items[a.before[l].id] = a.before[l].item
         /\ \A l \in DOMAIN a.after : shown.items[a.after[l].id] = a.after[l].item]_vars
=============================================================================
