---------------------------- MODULE EditHistory ----------------------------
(***************************************************************************)
(* The personal undo stacks of a loaded board (class EditHistory).  One    *)
(* sequence holds the actions of all users, oldest first.  An action is a  *)
(* gesture: the items it touched, as they were before it (`before') and,   *)
(* once undone, as they were before the undo (`after').  Everything here   *)
(* is a function of that sequence; BoardEdits keeps it as a variable.      *)
(*                                                                         *)
(* An entry is [id, order, item].  The limits in bytes are left out: like  *)
(* the limits in numbers they drop old actions or give up on large ones.   *)
(***************************************************************************)
EXTENDS Naturals, Sequences, FiniteSets, SequencesExt, SequenceParts

CONSTANTS
  MaxActions,   \* the 100 actions a board keeps
  MaxRestored   \* MAX_RESTORE_ITEMS, the items of one action

ASSUME HistoryAssumption == MaxActions \in Nat \ {0} /\ MaxRestored \in Nat \ {0}

IdsOf(entries) == {entries[k].id : k \in DOMAIN entries}
Forgotten(a) == [a EXCEPT !.valid = FALSE, !.before = <<>>, !.after = <<>>]

\* The last actions when there are too many.
Recent(h) == IF Len(h) > MaxActions THEN SubSeq(h, Len(h) - MaxActions + 1, Len(h)) ELSE h

\* The user's latest action, undone or not.
LatestOf(h, u) ==
  IF \E k \in DOMAIN h : h[k].owner = u THEN Max({k \in DOMAIN h : h[k].owner = u}) ELSE 0

\* Whether a write of group g continues the user's latest gesture.
Continues(h, u, g) ==
  LatestOf(h, u) # 0 /\ LET a == h[LatestOf(h, u)] IN a.group = g /\ ~a.undone

NewAction(u, g) ==
  [owner |-> u, group |-> g, before |-> <<>>, after |-> <<>>, undone |-> FALSE, valid |-> TRUE]

\* The stacks with an action for this write at the end of the user's: a new
\* gesture takes the place of everything the user has undone.
Opened(h, u, g) ==
  IF Continues(h, u, g) THEN h
  ELSE Append(Only(h, {a \in Range(h) : a.owner # u \/ ~a.undone}), NewAction(u, g))

\* begin: snap is the sequence of entries of the items the write affects.
Begin(h, u, g, snap) ==
  LET open == Opened(h, u, g)
      k == LatestOf(open, u)
      new == Only(snap, {e \in Range(snap) : e.id \notin IdsOf(open[k].before)})
      all == open[k].before \o new
  IN  IF ~open[k].valid THEN Recent(open)
      ELSE IF Len(all) > MaxRestored
           THEN Recent([open EXCEPT ![k].valid = FALSE, ![k].before = <<>>])
           ELSE Recent([open EXCEPT ![k].before = all])

\* finish(false): the stacks before the write, and in the action it continued
\* what the write added taken out again.
Rejected(h, u, g, snap) ==
  IF ~Continues(h, u, g) THEN h
  ELSE LET k == LatestOf(h, u)
           old == IdsOf(h[k].before)
           begun == Begin(h, u, g, snap)[k]
       IN  [h EXCEPT ![k].before = Only(begun.before, {e \in Range(begun.before) : e.id \in old})]

\* Mutant: only a clear invalidates what others may undo.
ObserveOnlyClears(h, owner, ids, clears) ==
  [k \in DOMAIN h |-> IF h[k].owner # owner /\ clears THEN Forgotten(h[k]) ELSE h[k]]

\* observe: a recorded mutation invalidates the actions of others that touched
\* the same items.  Without an owner everybody is an other.
Observe(h, owner, ids, clears) ==
  [k \in DOMAIN h |->
     IF h[k].owner # owner /\ (clears \/ IdsOf(h[k].before) \cap ids # {})
     THEN Forgotten(h[k]) ELSE h[k]]

\* Mutant: the latest is redone first.
PeekLatest(h, u, redo) ==
  LET mine == {k \in DOMAIN h : h[k].owner = u /\ h[k].undone = redo}
  IN  IF mine = {} THEN 0 ELSE Max(mine)

\* peek: the action to undo, the latest that is not undone, and the one to redo,
\* the earliest that is.  0 when there is none.
Peek(h, u, redo) ==
  LET mine == {k \in DOMAIN h : h[k].owner = u /\ h[k].undone = redo}
  IN  IF mine = {} THEN 0 ELSE IF redo THEN Min(mine) ELSE Max(mine)

\* reverseEdit: what is put back, and the stacks when it has been.
Entries(h, k, redo) == IF redo THEN h[k].after ELSE h[k].before
Reversed(h, k, redo, now) ==
  [h EXCEPT ![k].undone = ~redo, ![k].after = IF redo THEN <<>> ELSE now]
=============================================================================
