----------------------------- MODULE BoardItems -----------------------------
(***************************************************************************)
(* The items of one loaded board: what each mutation does to them, what a  *)
(* save writes of them, what is left to write afterwards, and what a load  *)
(* reads back.  Everything here is a function of a board record; the state *)
(* machine that uses it is BoardEdits.                                     *)
(*                                                                         *)
(* An item is a line (a pencil stroke, with points), a text (with a text)  *)
(* or a shape (neither).  The points and the text of a saved item are not  *)
(* in memory: `own' has only what has changed since, and the rest is in    *)
(* the stored SVG.  A point, a text and a geometry are the sequence number *)
(* of the mutation that drew them; colours, sizes and bounds are left out. *)
(***************************************************************************)
EXTENDS Naturals, Sequences, FiniteSets, SequencesExt, SequenceParts

CONSTANTS
  Id,           \* the identifiers of items, a set of positive numbers
  MaxItems,     \* MAX_ITEM_COUNT
  MaxChildren   \* MAX_CHILDREN, the points a line may have

ASSUME ItemAssumption == Id \subseteq Nat \ {0} /\ MaxItems \in Nat \ {0} /\ MaxChildren \in Nat

None == 0                                   \* no item, no source, no number
Kinds == {"line", "text", "shape"}
NoItem == [kind |-> "none"]

\* What an item looks like, on a screen or in a file.
Content == [kind : Kinds, geo : Nat, pts : Seq(Nat)]
Item == [kind : Kinds, geo : Nat, order : Nat, live : BOOLEAN, dirty : BOOLEAN,
         saved : Nat, own : Seq(Nat), source : Id \cup {None}]

\* The fields of BoardData that hold the items; `stored' is persistedItemIds.
EmptyBoard == [items |-> [i \in Id |-> NoItem], paint |-> <<>>, next |-> 0,
               live |-> 0, trim |-> 0, stored |-> {}]

Known(b, i)  == b.items[i] # NoItem
IsLive(b, i) == Known(b, i) /\ b.items[i].live
LiveIds(b)   == {i \in Id : IsLive(b, i)}
LivePaint(b) == Only(b.paint, LiveIds(b))

----------------------------------------------------------------------------
(* The canonical index. *)

\* CanonicalBoardIndex.upsert of each of some different items; item[i] is the new i.
UpsertAll(b, ids, item) ==
  [b EXCEPT !.items = [i \in Id |-> IF Contains(ids, i) THEN item[i] ELSE @[i]],
            !.paint = @ \o Only(ids, {i \in Range(ids) : ~Known(b, i)}),
            !.live = @ + Cardinality({i \in Range(ids) : ~IsLive(b, i)}),
            !.next = Max({@} \cup {item[i].order + 1 : i \in Range(ids)})]
Upsert(b, i, item) == UpsertAll(b, <<i>>, [j \in {i} |-> item])

Gone(item) == [item EXCEPT !.live = FALSE, !.dirty = TRUE]
RemoveAll(b, ids) ==
  LET out == {i \in LiveIds(b) : Contains(ids, i)}
  IN  [b EXCEPT !.items = [i \in Id |-> IF i \in out THEN Gone(@[i]) ELSE @[i]],
                !.live = @ - Cardinality(out)]

\* The items to evict: the lowest live ones above the place where the last scan
\* stopped, as many as there are too many.
Evicted(b) ==
  LET above == Only(SubSeq(b.paint, b.trim + 1, Len(b.paint)), LiveIds(b))
  IN  IF b.live <= MaxItems THEN <<>>
      ELSE SubSeq(above, 1, Min({b.live - MaxItems, Len(above)}))

\* trimOverflowItems.
TrimOverflow(b) ==
  IF b.live <= MaxItems THEN b
  ELSE LET out == Evicted(b)
           enough == Len(out) = b.live - MaxItems
       IN  [RemoveAll(b, out) EXCEPT
              !.trim = IF enough THEN CHOOSE k \in DOMAIN b.paint : b.paint[k] = Last(out)
                       ELSE Len(b.paint)]

\* Items that leave memory for good, and the scan starts again.
Forget(b, out) ==
  IF out = {} THEN b
  ELSE [b EXCEPT !.items = [i \in Id |-> IF i \in out THEN NoItem ELSE @[i]],
                 !.paint = Only(@, Range(@) \ out), !.trim = 0]

\* clean, which forgets the items a save would find too many.
Clean(b) == [Forget(b, Range(Evicted(b))) EXCEPT !.live = @ - Len(Evicted(b))]

----------------------------------------------------------------------------
(* Candidates: the item a mutation would leave. *)

OrderFor(b, i) == IF Known(b, i) THEN b.items[i].order ELSE b.next
ChildCount(item) == item.saved + Len(item.own)

\* canonicalItemFromItem of an item that is complete in memory.  A text has
\* exactly one "point", its text, and 0 is the empty one; a text that has not
\* changed since the last save has none in memory.
NewContent(kind) ==
  [kind |-> kind, geo |-> 0, pts |-> IF kind = "text" THEN <<0>> ELSE <<>>]
Fresh(c, order) ==
  [kind |-> c.kind, geo |-> c.geo, order |-> order, live |-> TRUE, dirty |-> TRUE,
   saved |-> 0, own |-> c.pts, source |-> None]

Touched(item) == [item EXCEPT !.dirty = TRUE]
Moved(item, g) == [Touched(item) EXCEPT !.geo = g]
Retyped(item, t) == [Touched(item) EXCEPT !.own = <<t>>]
Extended(item, p) == [Touched(item) EXCEPT !.own = Append(@, p)]
CanExtend(b, i) ==
  IsLive(b, i) /\ b.items[i].kind = "line" /\ ChildCount(b.items[i]) < MaxChildren

\* A copy of what is only in the file remembers whose entry to read there.
BaselineSource(b, i) ==
  IF b.items[i].source # None THEN b.items[i].source ELSE IF i \in b.stored THEN i ELSE None
CopyOf(b, i, new) ==
  LET item == b.items[i]
      needsFile == item.kind = "line" \/ (item.kind = "text" /\ item.own = <<>>)
  IN  [Touched(item) EXCEPT !.live = TRUE, !.order = OrderFor(b, new),
                            !.source = IF needsFile THEN BaselineSource(b, i) ELSE None]

----------------------------------------------------------------------------
(* Mutations.  Those of a batch are checked before any of them is applied, *)
(* and the copies of a batch are all made from the board as it was before. *)

\* A mutation is [type, ids, new, kind, items, by]: the items it names, the names
\* of their copies, the kind of a new item, and the entries and the user of a
\* restoration.
Mutation(type, ids) ==
  [type |-> type, ids |-> ids, new |-> <<>>, kind |-> "none", items |-> <<>>, by |-> None]

AllLive(b, ids) == \A k \in DOMAIN ids : IsLive(b, ids[k])
Accepts(b, m) ==
  CASE m.type = "append" -> CanExtend(b, m.ids[1])
    [] m.type \in {"move", "copy", "text"} -> AllLive(b, m.ids)
    [] m.type = "restore" ->
         LET gone == Cardinality({k \in DOMAIN m.items : IsLive(b, m.items[k].id)})
             back == Cardinality({k \in DOMAIN m.items : m.items[k].item # NoItem})
         IN  b.live - gone + back <= MaxItems
    [] OTHER -> TRUE

ClearAll(b) ==
  [b EXCEPT !.items = [i \in Id |-> IF Known(b, i)
                                    THEN [b.items[i] EXCEPT !.live = FALSE, !.dirty = TRUE]
                                    ELSE NoItem],
            !.live = 0, !.trim = Len(b.paint)]

\* The identifiers sorted by the order of their items; the sort is stable.
Sorted(b) ==
  LET Order(k) == b.items[b.paint[k]].order
      Lower(k) == {l \in DOMAIN b.paint : Order(l) < Order(k) \/ (Order(l) = Order(k) /\ l < k)}
  IN  [n \in DOMAIN b.paint |->
         b.paint[CHOOSE k \in DOMAIN b.paint : Cardinality(Lower(k)) = n - 1]]

\* applyRestore: remove what is named, put back what is given at its old
\* place, and sort.
Restore(b, entries) ==
  LET given == Only(entries, {e \in Range(entries) : e.item # NoItem})
      removed == RemoveAll(b, [k \in DOMAIN entries |-> entries[k].id])
      ids == [k \in DOMAIN given |-> given[k].id]
      put == UpsertAll(removed, ids,
               [i \in Range(ids) |-> LET e == given[CHOOSE k \in DOMAIN ids : ids[k] = i]
                                     IN  Fresh(e.item, e.order)])
  IN  [put EXCEPT !.paint = Sorted(put), !.trim = 0]

Effect(b, m, n) ==
  CASE m.type = "create" ->
         Upsert(b, m.ids[1], Fresh(NewContent(m.kind), OrderFor(b, m.ids[1])))
    [] m.type = "append" -> Upsert(b, m.ids[1], Extended(b.items[m.ids[1]], n))
    [] m.type = "text"   -> Upsert(b, m.ids[1], Retyped(b.items[m.ids[1]], n))
    [] m.type = "move"   -> UpsertAll(b, m.ids, [i \in Range(m.ids) |-> Moved(b.items[i], n)])
    [] m.type = "copy"   ->
         UpsertAll(b, m.new, [i \in Range(m.new) |->
                                CopyOf(b, m.ids[CHOOSE k \in DOMAIN m.ids : m.new[k] = i], i)])
    [] m.type = "delete" -> RemoveAll(b, m.ids)
    [] m.type = "clear"  -> ClearAll(b)
    [] m.type = "restore" -> Restore(b, m.items)

\* processMessage: the mutation that gets number n, then the eviction that
\* every mutation but a restoration ends with.
Process(b, m, n) ==
  IF m.type = "restore" THEN Effect(b, m, n) ELSE TrimOverflow(Effect(b, m, n))

----------------------------------------------------------------------------
(* Saving.  A file is a sequence of entries [id, c], from the bottom up. *)

Entry(file, i) == CHOOSE k \in DOMAIN file : file[k].id = i
InFile(file, i) == \E k \in DOMAIN file : file[k].id = i
PointsIn(file, i) == IF InFile(file, i) THEN file[Entry(file, i)].c.pts ELSE <<>>

\* What is written for an item, with the entry its points or text come from.
Written(item, from) ==
  [kind |-> item.kind, geo |-> item.geo,
   pts |-> CASE item.kind = "line" -> from \o item.own
             [] item.kind = "text" -> IF item.own # <<>> THEN item.own
                                      ELSE IF from # <<>> THEN from ELSE <<0>>
             [] OTHER -> <<>>]

\* The entry a copy reads, as long as its source is known to the board.
SourcePoints(b, file, i) ==
  LET s == b.items[i].source IN IF s # None /\ Known(b, s) THEN PointsIn(file, s) ELSE <<>>

\* serializeCanonicalItemForStorage: for an item whose own entry is in the file,
\* for a copy of one, and for one that should be complete in memory.
Serialized(b, file, i) ==
  LET item == b.items[i] IN
  CASE i \in b.stored /\ ~item.dirty -> file[Entry(file, i)].c
    [] i \in b.stored /\ item.dirty -> Written(item, PointsIn(file, i))
    [] i \notin b.stored /\ item.source = None /\ item.saved > 0 ->
         Written([item EXCEPT !.own = <<>>], <<>>)
    [] OTHER -> Written(item, SourcePoints(b, file, i))

\* A line without points leaves no entry.
Stores(b, file, i) ==
  IsLive(b, i) /\ ~(b.items[i].kind = "line" /\ Serialized(b, file, i).pts = <<>>)

\* An append to a path that is not there, or a copy whose source has left the
\* file: the save throws.
Unwritable(b, file) ==
  \E i \in LiveIds(b) :
    /\ b.items[i].kind = "line"
    /\ \/ i \in b.stored /\ b.items[i].dirty /\ PointsIn(file, i) = <<>>
       \/ i \notin b.stored /\ b.items[i].source # None /\ SourcePoints(b, file, i) = <<>>

\* Entries of the old file keep their order; an item that is complete in memory
\* goes before the first of them that lies higher, and the others to the end.
WriteFile(b, file) ==
  LET new == Only(b.paint, LiveIds(b) \ b.stored)
      inMemory == {i \in Range(new) : b.items[i].source = None}
      Lower(out, order) ==
        LET left == Only(new, inMemory \ Range(out))
            stop == {k \in DOMAIN left : b.items[left[k]].order >= order}
        IN  IF stop = {} THEN left ELSE SubSeq(left, 1, Min(stop) - 1)
      Next(out, i) ==
        IF ~Known(b, i) THEN out
        ELSE out \o Lower(out, b.items[i].order)
                 \o (IF IsLive(b, i) /\ i \in b.stored THEN <<i>> ELSE <<>>)
      old[k \in 0..Len(file)] == IF k = 0 THEN <<>> ELSE Next(old[k - 1], file[k].id)
      placed == old[Len(file)]
      all == Only(placed \o Only(new, Range(new) \ Range(placed)), {i \in Id : Stores(b, file, i)})
  IN  [k \in DOMAIN all |-> [id |-> all[k], c |-> Serialized(b, file, all[k])]]

\* finalizePersistedCanonicalItems: s is the board the save wrote, `ids' what it
\* stored of it, `changed' the items replaced since.
Settled(item) ==
  [item EXCEPT !.dirty = FALSE, !.source = None, !.own = <<>>,
               !.saved = IF item.kind = "line" THEN ChildCount(item) ELSE @]

\* Mutant: the points that were saved stay in memory too.
RebasedTwice(item, copied) == [item EXCEPT !.source = None, !.saved = ChildCount(copied)]

Rebased(item, copied) ==
  IF item.kind # "line" THEN [item EXCEPT !.source = None]
  ELSE [item EXCEPT !.source = None, !.saved = ChildCount(copied),
                    !.own = SubSeq(@, Len(copied.own) + 1, Len(@))]
Finalize(b, s, ids, changed) ==
  LET After(i) ==
        CASE i \notin ids \/ ~Known(b, i) -> b.items[i]
          [] i \in changed -> IF s.items[i].live THEN Rebased(b.items[i], s.items[i]) ELSE b.items[i]
          [] b.items[i].dirty \/ b.items[i].source # None -> Settled(b.items[i])
          [] OTHER -> b.items[i]
      out == {i \in Id \ changed : Known(s, i) /\ Known(b, i) /\ ~b.items[i].live}
  IN  Forget([b EXCEPT !.items = [i \in Id |-> After(i)], !.stored = ids], out)

\* readCanonicalBoardState and loadBoardData.
Loaded(file) ==
  LET Place(i) == Entry(file, i) - 1
      Read(i) == LET c == file[Entry(file, i)].c IN
        [kind |-> c.kind, geo |-> c.geo, order |-> Place(i), live |-> TRUE, dirty |-> FALSE,
         saved |-> IF c.kind = "line" THEN Len(c.pts) ELSE 0, own |-> <<>>, source |-> None]
      ids == {file[k].id : k \in DOMAIN file}
  IN  [items |-> [i \in Id |-> IF i \in ids THEN Read(i) ELSE NoItem],
       paint |-> [k \in DOMAIN file |-> file[k].id],
       next |-> Len(file), live |-> Len(file), trim |-> 0, stored |-> ids]
=============================================================================
