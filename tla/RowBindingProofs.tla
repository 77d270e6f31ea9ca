--------------------------- MODULE RowBindingProofs ---------------------------
(***************************************************************************)
(* Proofs about the rows of a leaf: the slots of the value lists, the      *)
(* memory of a leaf, the parameters of the statement, and the decoding of  *)
(* a record, which is held against the file format.                        *)
(***************************************************************************)
EXTENDS RowBinding, RecordFormat, SequenceTheorems, WellFoundedInduction, TLAPS

-----------------------------------------------------------------------------
(* Lists of values.                                                        *)

Lists(S)      == [items : Seq(S), held : Nat, cap : Nat, slots : Nat,
                  short : BOOLEAN]
IsSequence(s) == \E S : s \in Seq(S)
IsList(l)     == \E S : l \in Lists(S)

(* Room for one value more than the list may have before it grows.         *)
Holds(l) == l.cap > 0 /\ Len(l.items) <= l.cap /\ l.slots = l.cap + 1

(* The same of a list that is used after a failed add.                     *)
Kept(l) ==
  /\ l.cap > 0 /\ Len(l.items) <= l.cap
  /\ ~ l.short => l.slots = l.cap + 1

LEMMA AppendIsSequence ==
  ASSUME NEW s, IsSequence(s), NEW v
  PROVE  /\ IsSequence(Append(s, v))
         /\ Len(s) \in Nat /\ DOMAIN s = 1 .. Len(s)
         /\ Len(Append(s, v)) = Len(s) + 1
         /\ \A k \in 1 .. Len(s) : Append(s, v)[k] = s[k]
         /\ Append(s, v)[Len(s) + 1] = v
<1>1. PICK S : s \in Seq(S)
  BY DEF IsSequence
<1> DEFINE T == S \cup {v}
<1>2. s \in Seq(T) /\ v \in T
  BY <1>1
<1> HIDE DEF T
<1>3. Append(s, v) \in Seq(T)
  BY <1>2
<1> QED
  BY <1>2, <1>3 DEF IsSequence

LEMMA TakesType ==
  ASSUME NEW v
  PROVE  Takes(v) \in 0 .. 2
BY DEF Takes

(* A list that an add has grown has room for the value.                    *)
LEMMA AddedHolds ==
  ASSUME NEW l, IsList(l), NEW v
  PROVE  /\ IsList(Added(l, v))
         /\ Added(l, v).held = l.held + Takes(v)
         /\ Holds(l) => Holds(Added(l, v))
         /\ Kept(l) => Kept(Added(l, v))
<1>1. PICK S : l \in Lists(S)
  BY DEF IsList
<1>2. /\ l.held \in Nat /\ l.cap \in Nat /\ l.slots \in Nat
      /\ l.items \in Seq(S) /\ Len(l.items) \in Nat
  BY <1>1 DEF Lists
<1> DEFINE T == S \cup {v}
           g == Grown(l)
<1>3. /\ g \in Lists(S) /\ g.items = l.items /\ g.held = l.held
      /\ Holds(l) => g.cap > Len(l.items) /\ g.slots = g.cap + 1
      /\ Kept(l) => g.cap > Len(l.items) /\ (~ g.short => g.slots = g.cap + 1)
  <2>1. CASE Full(l)
    <3> DEFINE c == 2 * l.cap
    <3>1. c \in Nat /\ c + 1 \in Nat
      <4>1. PICK n \in Nat : n = l.cap
        BY <1>2
      <4>2. c = 2 * n
        BY <4>1
      <4> HIDE DEF c
      <4> QED
        BY ONLY <4>2, n \in Nat
    <3>2. g = [[l EXCEPT !.cap = c] EXCEPT !.slots = c + 1, !.short = FALSE]
      BY <2>1 DEF Grown, Raised
    <3>3. Holds(l) \/ Kept(l) => c > Len(l.items)
      BY <1>2 DEF Holds, Kept
    <3> HIDE DEF c
    <3> QED
      BY <1>1, <1>2, <3>1, <3>2, <3>3 DEF Lists
  <2>2. CASE ~ Full(l)
    BY <1>1, <1>2, <2>2 DEF Grown, Full, Holds, Kept
  <2> QED
    BY <2>1, <2>2
<1>4. Takes(v) \in Nat
  BY TakesType
<1>5. l.items \in Seq(T) /\ v \in T
  BY <1>2
<1> HIDE DEF T, g
<1>6. /\ Append(l.items, v) \in Seq(T)
      /\ Len(Append(l.items, v)) = Len(l.items) + 1
  BY <1>5
<1>7. Added(l, v) = [g EXCEPT !.items = Append(g.items, v), !.held = g.held + Takes(v)]
  BY DEF Added, g
<1>8. l.held + Takes(v) \in Nat
  BY <1>2, <1>4
<1>9. Added(l, v) \in Lists(T)
  BY <1>3, <1>6, <1>7, <1>8 DEF Lists
<1>10. /\ Added(l, v).cap = g.cap /\ Added(l, v).slots = g.slots
       /\ Added(l, v).short = g.short
       /\ Added(l, v).items = Append(l.items, v)
       /\ Added(l, v).held = l.held + Takes(v)
  BY <1>3, <1>7 DEF Lists
<1>11. Holds(l) => Holds(Added(l, v))
  BY <1>2, <1>3, <1>6, <1>10 DEF Holds, Lists
<1>12. Kept(l) => Kept(Added(l, v))
  BY <1>2, <1>3, <1>6, <1>10 DEF Kept, Lists
<1> QED
  BY <1>9, <1>10, <1>11, <1>12 DEF IsList

(* A failed add leaves the values as they were.                            *)
LEMMA BotchedKeeps ==
  ASSUME NEW l, IsList(l), NEW v, NEW b \in Botched(l, v)
  PROVE  /\ IsList(b.list) /\ b.list.held = l.held
         /\ b.lost \in 0 .. 1 /\ (v.kind # "blob" => b.lost = 0)
         /\ Holds(l) => Len(b.list.items) <= b.list.slots
         /\ Kept(l) => Kept(b.list)
<1>1. PICK S : l \in Lists(S)
  BY DEF IsList
<1>2. /\ l.cap \in Nat /\ 2 * l.cap \in Nat /\ 2 * l.cap + 1 \in Nat
      /\ l.slots \in Nat /\ Len(l.items) \in Nat
  BY <1>1 DEF Lists
<1> DEFINE short == [Raised(l) EXCEPT !.short = TRUE]
<1>3. /\ Raised(l) \in Lists(S) /\ Raised(l).items = l.items
      /\ Raised(l).slots = l.slots /\ Raised(l).held = l.held
      /\ Raised(l).cap = 2 * l.cap
  BY <1>1, <1>2 DEF Raised, Lists
<1>8. /\ short \in Lists(S) /\ short.items = l.items /\ short.slots = l.slots
      /\ short.held = l.held /\ short.cap = 2 * l.cap /\ short.short
  BY <1>3 DEF Lists
<1>4. /\ Grown(l) \in Lists(S) /\ Grown(l).items = l.items
      /\ Grown(l).held = l.held
      /\ Grown(l).slots = l.slots \/ Grown(l).slots = 2 * l.cap + 1
      /\ \/ Grown(l) = l
         \/ Grown(l).cap = 2 * l.cap /\ Grown(l).slots = 2 * l.cap + 1
  <2>1. PICK s \in Nat : s = 2 * l.cap + 1
    BY <1>2
  <2>2. CASE Full(l)
    <3>1. Grown(l) = [Raised(l) EXCEPT !.slots = s, !.short = FALSE]
      BY <2>1, <2>2 DEF Grown
    <3> QED
      BY <1>3, <2>1, <3>1 DEF Lists
  <2>3. CASE ~ Full(l)
    BY <1>1, <2>3 DEF Grown, Lists
  <2> QED
    BY <2>2, <2>3
<1>5. \/ b = [list |-> short, lost |-> 0]
      \/ \E n \in {0, 1} :
           b = [list |-> Grown(l), lost |-> IF v.kind = "blob" THEN n ELSE 0]
  BY DEF Botched
<1> HIDE DEF short
<1>6. /\ b.list \in Lists(S) /\ b.list.held = l.held
      /\ b.lost \in 0 .. 1 /\ (v.kind # "blob" => b.lost = 0)
      /\ b.list.items = l.items
      /\ b.list.slots = l.slots \/ b.list.slots = 2 * l.cap + 1
  BY <1>4, <1>5, <1>8
<1>7. Holds(l) => Len(b.list.items) <= b.list.slots
  BY <1>2, <1>6 DEF Holds
<1>9. ASSUME Kept(l) PROVE Kept(b.list)
  <2>1. \/ b.list = short \/ b.list = l
        \/ b.list = Grown(l) /\ Grown(l).cap = 2 * l.cap
                              /\ Grown(l).slots = 2 * l.cap + 1
    BY <1>4, <1>5
  <2>2. l.cap > 0 /\ Len(l.items) <= l.cap
    BY <1>9 DEF Kept
  <2>3. CASE b.list = short
    BY <1>2, <1>8, <2>2, <2>3 DEF Kept
  <2>4. CASE b.list = l
    BY <1>9, <2>4
  <2>5. CASE /\ b.list = Grown(l) /\ Grown(l).cap = 2 * l.cap
             /\ Grown(l).slots = 2 * l.cap + 1
    BY <1>2, <1>4, <2>2, <2>5 DEF Kept
  <2> QED
    BY <2>1, <2>3, <2>4, <2>5
<1> QED
  BY <1>6, <1>7, <1>9 DEF IsList

LEMMA EmptyLists ==
  /\ IsList(NewList) /\ Holds(NewList) /\ Kept(NewList) /\ NewList.held = 0
  /\ IsList(NoList) /\ NoList.held = 0 /\ Len(NoList.items) <= NoList.slots
<1>1. First \in Nat /\ First > 0 /\ First + 1 \in Nat
  BY PayloadAssumption
<1>2. /\ NewList \in Lists({}) /\ Holds(NewList) /\ Kept(NewList)
      /\ NewList.held = 0
  BY <1>1 DEF NewList, Lists, Holds, Kept
<1>3. NewList.items = <<>>
  BY DEF NewList
<1>4. /\ NoList \in Lists({}) /\ NoList.held = 0
      /\ NoList.items = <<>> /\ NoList.slots = 0
  BY <1>2, <1>3 DEF NoList, Lists
<1>5. Len(<<>>) = 0
  OBVIOUS
<1> QED
  BY <1>2, <1>4, <1>5 DEF IsList

LEMMA ClearedHolds ==
  ASSUME NEW l, IsList(l)
  PROVE  /\ IsList(Cleared(l)) /\ Cleared(l).held = 0
         /\ Holds(l) => Holds(Cleared(l))
         /\ Kept(l) => Kept(Cleared(l))
<1>1. PICK S : l \in Lists(S)
  BY DEF IsList
<1>2. <<>> \in Seq(S) /\ Len(<<>>) = 0
  OBVIOUS
<1>3. /\ Cleared(l) \in Lists(S) /\ Cleared(l).held = 0
      /\ Cleared(l).items = <<>> /\ l.cap \in Nat
      /\ Cleared(l).cap = l.cap /\ Cleared(l).slots = l.slots
      /\ Cleared(l).short = l.short
  BY <1>1, <1>2 DEF Cleared, Lists
<1>4. Holds(l) => Holds(Cleared(l))
  BY <1>2, <1>3 DEF Holds
<1>5. Kept(l) => Kept(Cleared(l))
  BY <1>2, <1>3 DEF Kept
<1> QED
  BY <1>3, <1>4, <1>5 DEF IsList

-----------------------------------------------------------------------------
(* The invariant of the decoder: where the column is in use its lists have *)
(* room, and its allocations are what the lists, the payload and the       *)
(* record that was lost account for.                                       *)

InUse == {"cells", "overflow", "values", "deliver"}

Typed ==
  /\ at \in InUse \cup {"start", "failed", "done"}
  /\ blocks \in Int /\ lost \in Nat /\ faults \in Nat
  /\ IsList(values) /\ IsList(overs)
  /\ at = "overflow" => Size \in Nat \ {0}

Roomy ==
  /\ at \in InUse => Holds(values) /\ Kept(overs)
  /\ SlotsHold

Booked ==
  /\ at = "start" => blocks = 0 /\ lost = 0
  /\ at = "done" => blocks = lost
  /\ at \in {"start", "cells"} => bytes = <<>>
  /\ at \in {"overflow", "values", "deliver"} => bytes # <<>>
  /\ at \in InUse \cup {"failed"} =>
       /\ bytes = <<>> => blocks = 5 + values.held + overs.held + lost
       /\ bytes # <<>> => blocks = 6 + values.held + overs.held + lost

IPayload == Typed /\ Roomy /\ Booked

LEMMA HeldType ==
  ASSUME NEW l, IsList(l)
  PROVE  /\ l.held \in Nat /\ Len(l.items) \in Nat
         /\ l.cap \in Nat /\ l.slots \in Nat
         /\ IsSequence(l.items)
         /\ Holds(l) => Len(l.items) <= l.slots
         /\ Kept(l) /\ ~ l.short => Len(l.items) <= l.slots
<1>1. PICK S : l \in Lists(S)
  BY DEF IsList
<1> QED
  BY <1>1 DEF Lists, Holds, Kept, IsSequence

(* A payload is not empty.                                                 *)
LEMMA KnownIsThere ==
  ASSUME NEW row, Len(row.data) \in Nat \ {0}, NEW n
  PROVE  Known(row, n) # <<>>
<1>1. DOMAIN Known(row, n) = 1 .. Len(row.data)
  BY DEF Known
<1>2. 1 \in 1 .. Len(row.data)
  OBVIOUS
<1>3. 1 \notin DOMAIN <<>>
  OBVIOUS
<1> QED
  BY <1>1, <1>2, <1>3

LEMMA PayloadInitially == PayloadInit => IPayload
BY EmptyLists, HeldType
   DEF PayloadInit, IPayload, Typed, Roomy, Booked, SlotsHold, InUse

LEMMA ColumnAllocStep == IPayload /\ ColumnAlloc => IPayload'
<1> SUFFICES ASSUME IPayload, ColumnAlloc  PROVE IPayload'
  OBVIOUS
<1> USE DEF IPayload, Typed, Roomy, Booked, InUse, ColumnAlloc,
      Cells, Column, Quiet, NoFault, Fault, SlotsHold
<1>1. Len(NewList.items) <= NewList.slots
  BY EmptyLists, HeldType
<1>2. CASE at' = "cells"
  <2>1. /\ values' = NewList /\ overs' = NewList /\ blocks' = blocks + 5
        /\ blocks = 0 /\ lost' = 0 /\ bytes' = <<>> /\ faults' = faults
    BY <1>2
  <2> QED
    BY <1>1, <1>2, <2>1, EmptyLists
<1>3. CASE at' = "done"
  <2>1. /\ values' = values /\ overs' = overs /\ blocks' = 0 /\ lost' = 0
        /\ faults' \in Nat /\ faults' > 0
    BY <1>3
  <2> QED
    BY <1>3, <2>1, HeldType
<1> QED
  BY <1>2, <1>3

LEMMA NextCellStep == IPayload /\ leaf \in Seq(Cell) /\ i \in Nat /\ NextCell => IPayload'
<1> SUFFICES ASSUME IPayload, leaf \in Seq(Cell), i \in Nat, NextCell
             PROVE  IPayload'
  OBVIOUS
<1> USE DEF IPayload, Typed, Roomy, Booked, InUse, SlotsHold
<1>1. /\ at = "cells" /\ i' = i + 1 /\ leaf' = leaf /\ i' \in 1 .. Len(leaf)
      /\ values' = Cleared(values) /\ overs' = Cleared(overs)
      /\ lost' = lost /\ lost \in Nat
  BY DEF NextCell, Quiet
<1>2. /\ IsList(values') /\ values'.held = 0 /\ IsList(overs') /\ overs'.held = 0
      /\ Holds(values') /\ Kept(overs')
      /\ Len(values'.items) <= values'.slots
      /\ ~ overs'.short => Len(overs'.items) <= overs'.slots
  BY <1>1, ClearedHolds, HeldType
<1>3. blocks - (values.held + overs.held) = 5 + lost
  <2>1. values.held \in Nat /\ overs.held \in Nat
    BY HeldType
  <2>2. blocks = 5 + values.held + overs.held + lost
    BY <1>1
  <2>3. PICK x \in Nat, y \in Nat, z \in Nat :
          x = values.held /\ y = overs.held /\ z = lost
    BY <1>1, <2>1
  <2>4. blocks = 5 + x + y + z
    BY <2>2, <2>3
  <2> QED
    BY ONLY <2>3, <2>4, x \in Nat, y \in Nat, z \in Nat
<1>4. PICK row : row = leaf[i + 1] /\ Size' = Len(row.data) /\ row.data \in Seq(Byte)
  <2>1. leaf[i'] \in Cell /\ Row' = leaf[i'] /\ leaf[i'] = leaf[i + 1]
    BY <1>1 DEF Row
  <2>2. leaf[i'].data \in Seq(Byte)
    BY <2>1 DEF Cell
  <2> QED
    BY <2>1, <2>2 DEF Size
<1>5. CASE at' = "overflow" \/ bytes' # <<>>
  <2>1. /\ row.data # <<>> /\ faults' = faults /\ at' \in {"overflow", "failed"}
        /\ \E n : bytes' = Known(row, n)
        /\ blocks' = blocks - (values.held + overs.held) + 1
    BY <1>4, <1>5 DEF NextCell, NoFault
  <2>2. Len(row.data) \in Nat \ {0}
    BY <2>1, <1>4
  <2>3. bytes' # <<>>
    BY <2>1, <2>2, KnownIsThere
  <2> QED
    BY <1>1, <1>2, <1>3, <1>4, <2>1, <2>2, <2>3
<1>6. CASE at' # "overflow" /\ bytes' = <<>>
  <2>1. /\ at' = "failed" /\ blocks' = blocks - (values.held + overs.held)
        /\ faults' \in Nat /\ (faults' = 0 => faults = 0)
    <3>1. CASE row.data # <<>> /\ faults' = faults /\ \E n : bytes' = Known(row, n)
      <4>1. Len(row.data) \in Nat \ {0}
        BY <3>1, <1>4
      <4> QED
        BY <3>1, <4>1, <1>6, KnownIsThere
    <3> QED
      BY <3>1, <1>4, <1>6 DEF NextCell, NoFault, Fault
  <2> QED
    BY <1>1, <1>2, <1>3, <1>6, <2>1
<1> QED
  BY <1>5, <1>6

LEMMA OverflowStep == IPayload /\ Overflow => IPayload'
<1> SUFFICES ASSUME IPayload, Overflow  PROVE IPayload'
  OBVIOUS
<1> USE DEF IPayload, Typed, Roomy, Booked, InUse, SlotsHold
<1>0. /\ values.held \in Nat /\ overs.held \in Nat /\ lost \in Nat
      /\ blocks = 6 + values.held + overs.held + lost
  <2>1. values.held \in Nat /\ overs.held \in Nat
    BY HeldType
  <2> QED
    BY <2>1 DEF Overflow
<1>1. /\ at = "overflow" /\ at' = at /\ values' = values /\ leaf' = leaf /\ i' = i
      /\ bytes # <<>> /\ Size' = Size /\ Size \in Nat \ {0}
  BY DEF Overflow, Cells, Size, Row
<1>l. IsList(values) /\ Holds(values) /\ Len(values.items) <= values.slots
  BY ONLY IPayload, <1>1 DEF IPayload, Typed, Roomy, InUse, SlotsHold
<1>2. bytes' # <<>>
  <2>1. bytes' = bytes \/ \E n : bytes' = Known(Row, n)
    BY DEF Overflow
  <2> QED
    BY <1>1, <2>1, KnownIsThere DEF Size
<1>3. Takes(PageNo) = 1 /\ PageNo.kind # "blob"
  BY DEF Takes, PageNo
<1>4. CASE overs' = Added(overs, PageNo) /\ blocks' = blocks + 1 /\ lost' = lost
  <2>1. /\ IsList(overs') /\ overs'.held = overs.held + 1
        /\ Kept(overs')
    BY <1>1, <1>3, <1>4, AddedHolds
  <2>2. faults' \in Nat /\ (faults' = 0 => faults = 0)
    BY DEF Overflow, Fault, NoFault
  <2>3. ~ overs'.short => Len(overs'.items) <= overs'.slots
    BY <2>1, HeldType
  <2>4. /\ blocks' = 6 + values'.held + overs'.held + lost'
        /\ blocks' \in Int /\ lost' \in Nat
        /\ values'.held \in Nat /\ overs'.held \in Nat
    <3>1. /\ overs'.held = overs.held + 1 /\ lost' = lost /\ blocks' = blocks + 1
          /\ values'.held = values.held
      BY <1>1, <1>4, <2>1
    <3> QED
      BY ONLY <1>0, <3>1
  <2>9. Typed' /\ Roomy'
    BY ONLY <1>1, <1>l, <2>1, <2>2, <2>3, <2>4
       DEF Typed, Roomy, InUse, SlotsHold
  <2>6. at' = "overflow"
    BY <1>1
  <2>7. Booked'
    BY ONLY <1>2, <2>4, <2>6 DEF Booked, InUse
  <2> QED
    BY <2>7, <2>9
<1>5. CASE /\ \E b \in Botched(overs, PageNo) : overs' = b.list
           /\ blocks' = blocks /\ lost' = lost /\ Fault
  <2>1. IsList(overs') /\ overs'.held = overs.held /\ Kept(overs')
    BY <1>1, <1>3, <1>5, BotchedKeeps
  <2>3. ~ overs'.short => Len(overs'.items) <= overs'.slots
    BY <2>1, HeldType
  <2>2. faults' \in Nat /\ faults' # 0
    BY <1>5 DEF Fault
  <2> QED
    BY <1>1, <1>2, <1>5, <2>1, <2>2, <2>3, HeldType
<1> QED
  BY <1>4, <1>5 DEF Overflow

LEMMA HeaderStep == IPayload /\ Header => IPayload'
BY DEF IPayload, Typed, Roomy, Booked, InUse, SlotsHold,
       Header, Cells, Column, Quiet, NoFault

LEMMA ValueStep == IPayload /\ Value => IPayload'
<1> SUFFICES ASSUME IPayload, Value  PROVE IPayload'
  OBVIOUS
<1> USE DEF IPayload, Typed, Roomy, Booked, InUse, SlotsHold
<1>0. /\ values.held \in Nat /\ overs.held \in Nat /\ lost \in Nat
      /\ blocks = 6 + values.held + overs.held + lost
  <2>1. values.held \in Nat /\ overs.held \in Nat
    BY HeldType
  <2> QED
    BY <2>1 DEF Value
<1>1. /\ at = "values" /\ bytes' = bytes /\ overs' = overs
      /\ bytes # <<>>
  BY DEF Value, Cells
<1>l. IsList(overs) /\ (~ overs.short => Len(overs.items) <= overs.slots)
  BY DEF IPayload, Typed, Roomy, SlotsHold
<1>2. PICK v : \/ /\ at' = "failed" /\ faults' = faults
                  /\ UNCHANGED <<values, blocks, lost>>
               \/ /\ at' = at /\ faults' = faults /\ lost' = lost
                  /\ values' = Added(values, v) /\ blocks' = blocks + Takes(v)
               \/ /\ at' = "failed" /\ Fault
                  /\ \E b \in Botched(values, v) :
                       /\ values' = b.list /\ lost' = lost + b.lost
                       /\ blocks' = blocks + b.lost
  BY <1>1 DEF Value, NoFault
<1>3. CASE at' = "failed" /\ faults' = faults /\ UNCHANGED <<values, blocks, lost>>
  BY <1>1, <1>3
<1>4. CASE /\ at' = at /\ faults' = faults /\ lost' = lost
           /\ values' = Added(values, v) /\ blocks' = blocks + Takes(v)
  <2>1. /\ IsList(values') /\ values'.held = values.held + Takes(v)
        /\ Holds(values')
    BY <1>1, <1>4, AddedHolds
  <2>2. Len(values'.items) <= values'.slots
    BY <2>1, HeldType
  <2>t. PICK t \in Nat : t = Takes(v)
    BY TakesType
  <2>a. overs'.held = overs.held /\ lost' = lost /\ blocks' = blocks + t
    BY <1>1, <1>4, <2>t
  <2>b. values'.held = values.held + t
    BY <2>1, <2>t
  <2>3. /\ blocks' = 6 + values'.held + overs'.held + lost'
        /\ blocks' \in Int /\ lost' \in Nat
        /\ values'.held \in Nat /\ overs'.held \in Nat
    BY ONLY <1>0, <2>a, <2>b, t \in Nat
  <2>4. Typed'
    BY <1>1, <1>4, <2>1, <2>2, <2>3
  <2>5. Roomy'
    BY <1>1, <1>4, <2>1, <2>2, <2>3
  <2>6. at' = "values" /\ bytes' # <<>>
    BY <1>1, <1>4
  <2>7. Booked'
    BY ONLY <2>3, <2>6 DEF Booked, InUse
  <2> QED
    BY <2>4, <2>5, <2>7
<1>5. CASE /\ at' = "failed" /\ Fault
           /\ \E b \in Botched(values, v) :
                /\ values' = b.list /\ lost' = lost + b.lost
                /\ blocks' = blocks + b.lost
  <2>1. PICK b \in Botched(values, v) :
                /\ values' = b.list /\ lost' = lost + b.lost
                /\ blocks' = blocks + b.lost
    BY <1>5
  <2>2. /\ IsList(values') /\ values'.held = values.held /\ b.lost \in 0 .. 1
        /\ Len(values'.items) <= values'.slots
    BY <1>1, <2>1, BotchedKeeps
  <2>3. faults' \in Nat /\ faults' # 0
    BY <1>5 DEF Fault
  <2>4. /\ blocks' = 6 + values'.held + overs'.held + lost'
        /\ blocks' \in Int /\ lost' \in Nat
        /\ values'.held \in Nat /\ overs'.held \in Nat
    <3>1. PICK n \in Nat : n = b.lost
      BY <2>2
    <3>2. /\ overs'.held = overs.held /\ lost' = lost + n /\ blocks' = blocks + n
          /\ values'.held = values.held
      BY <1>1, <2>1, <2>2, <3>1
    <3> QED
      BY ONLY <1>0, <3>2, n \in Nat
  <2>5. Typed'
    BY ONLY <1>1, <1>5, <1>l, <2>2, <2>3, <2>4 DEF Typed, InUse
  <2>8. Roomy'
    BY ONLY <1>1, <1>5, <1>l, <2>2, <2>3 DEF Roomy, InUse, SlotsHold
  <2>6. at' = "failed" /\ bytes' # <<>>
    BY <1>1, <1>5
  <2>7. Booked'
    BY ONLY <2>4, <2>6 DEF Booked, InUse
  <2> QED
    BY <2>5, <2>7, <2>8
<1> QED
  BY <1>2, <1>3, <1>4, <1>5

LEMMA CheckStep == IPayload /\ Check => IPayload'
<1> SUFFICES ASSUME IPayload, Check  PROVE IPayload'
  OBVIOUS
<1>1. at = "values" /\ at' \in {"deliver", "failed"}
  BY DEF Check
<1>2. UNCHANGED <<values, overs, blocks, bytes, lost, faults>>
  BY DEF Check, Column, Quiet, NoFault
<1> QED
  BY <1>1, <1>2
     DEF IPayload, Typed, Roomy, Booked, InUse, SlotsHold

LEMMA DeliverStep == IPayload /\ Deliver => IPayload'
<1> SUFFICES ASSUME IPayload, Deliver  PROVE IPayload'
  OBVIOUS
<1>1. /\ at = "deliver" /\ at' \in {"cells", "failed"}
      /\ bytes' = <<>> /\ blocks' = blocks - 1
  BY DEF Deliver
<1>2. UNCHANGED <<values, overs, lost, faults>>
  BY DEF Deliver, Column, NoFault
<1>3. IsList(values) /\ IsList(overs) /\ values.held \in Nat /\ overs.held \in Nat
  BY HeldType DEF IPayload, Typed
<1> QED
  BY <1>1, <1>2, <1>3
     DEF IPayload, Typed, Roomy, Booked, InUse, SlotsHold

LEMMA LeaveStep == IPayload /\ Leave => IPayload'
<1> SUFFICES ASSUME IPayload, Leave  PROVE IPayload'
  OBVIOUS
<1>1. /\ at \in {"failed", "cells"} /\ at' = "done" /\ bytes' = <<>>
      /\ values' = NoList /\ overs' = NoList /\ lost' = lost /\ faults' = faults
      /\ blocks' = blocks - Freed
  BY DEF Leave, Quiet, NoFault
<1>2. IsList(values) /\ IsList(overs) /\ values.held \in Nat /\ overs.held \in Nat
  BY HeldType DEF IPayload, Typed
<1>3. blocks' = lost'
  BY <1>1, <1>2 DEF IPayload, Typed, Booked, InUse, Freed
<1> QED
  BY <1>1, <1>3, EmptyLists
     DEF IPayload, Typed, Roomy, Booked, InUse, SlotsHold

-----------------------------------------------------------------------------
(* The parameters.                                                         *)

Place == leaf \in Seq(Cell) /\ i \in Nat

(* Every parameter but the last is bound for every row, to something of    *)
(* this row or of none.                                                    *)
LEMMA BoundIsOwn ==
  ASSUME NEW row, Len(row) \in Nat, NEW r \in Nat, NEW c \in 1 .. Columns - 1
  PROVE  Bound(row, r)[c].r \in {0, r}
<1>1. Columns \in Nat /\ c \in 1 .. Columns
  BY RowBindingAssumption
<1>2. CASE c \in Len(row) .. Columns - 1
  BY <1>1, <1>2 DEF Bound, Default
<1>3. CASE c \notin Len(row) .. Columns - 1
  <2>1. c <= Len(row)
    BY <1>1, <1>3
  <2>2. Bound(row, r)[c] = Provided(row, r, c, params[c])
    BY <1>1, <1>3, <2>1 DEF Bound
  <2> QED
    BY <2>2 DEF Provided, Own, RowId, Null
<1> QED
  BY <1>2, <1>3

IBinding == IPayload /\ Place /\ IsSequence(inserted) /\ NoStaleValue

LEMMA BindingInitially == Init => IBinding
<1> SUFFICES ASSUME Init PROVE IBinding
  OBVIOUS
<1>1. PayloadInit /\ inserted = <<>> /\ leaf \in Seq(Cell) /\ i = 0
  BY PayloadAssumption DEF Init, PayloadInit
<1>2. <<>> \in Seq({}) /\ DOMAIN <<>> = {}
  OBVIOUS
<1> QED
  BY <1>1, <1>2, PayloadInitially DEF IBinding, Place, IsSequence, NoStaleValue

LEMMA DecodeStep == IBinding /\ Decode /\ UNCHANGED bindVars => IBinding'
<1> SUFFICES ASSUME IBinding, Decode, UNCHANGED bindVars PROVE IBinding'
  OBVIOUS
<1>1. IPayload'
  BY ColumnAllocStep, NextCellStep, OverflowStep, HeaderStep, ValueStep, CheckStep,
     LeaveStep DEF IBinding, Place, Decode
<1>2. Place'
  <2>1. leaf' = leaf /\ i' \in {i, i + 1}
    <3>1. CASE NextCell
      BY <3>1 DEF NextCell
    <3>2. CASE ColumnAlloc \/ Overflow
      BY <3>2 DEF ColumnAlloc, Overflow, Cells
    <3>3. CASE Header \/ Check
      BY <3>3 DEF Header, Check, Cells
    <3>4. CASE Leave
      BY <3>4 DEF Leave, Cells
    <3>5. CASE Value
      <4>1. UNCHANGED <<leaf, i>>
        BY <3>5 DEF Value, Cells
      <4> QED
        BY <4>1
    <3> QED
      BY <3>1, <3>2, <3>3, <3>4, <3>5 DEF Decode
  <2> QED
    BY <2>1 DEF IBinding, Place
<1> QED
  BY <1>1, <1>2 DEF IBinding, bindVars, NoStaleValue

LEMMA InsertRowStep == IBinding /\ InsertRow => IBinding'
<1> SUFFICES ASSUME IBinding, InsertRow PROVE IBinding'
  OBVIOUS
<1>1. IPayload' /\ Place'
  BY DeliverStep DEF IBinding, Place, InsertRow, Deliver, Cells
<1> DEFINE r == Len(inserted) + 1
           new == [row |-> values.items, bound |-> Bound(values.items, r)]
<1>2. inserted' = Append(inserted, new)
  BY DEF InsertRow
<1>3. /\ IsSequence(inserted') /\ r \in Nat
      /\ DOMAIN inserted = 1 .. Len(inserted) /\ DOMAIN inserted' = 1 .. r
      /\ \A k \in 1 .. Len(inserted) : inserted'[k] = inserted[k]
      /\ inserted'[r] = new
  <2>1. IsSequence(inserted)
    BY DEF IBinding
  <2> HIDE DEF new
  <2>2. IsSequence(inserted')
    BY <1>2, <2>1, AppendIsSequence
  <2> QED
    BY <1>2, <2>1, <2>2, AppendIsSequence
<1>4. Len(values.items) \in Nat
  BY HeldType DEF IBinding, IPayload, Typed
<1>5. NoStaleValue'
  <2> SUFFICES ASSUME NEW k \in DOMAIN inserted', NEW c \in 1 .. Columns - 1
               PROVE  inserted'[k].bound[c].r \in {0, k}
    BY DEF NoStaleValue
  <2>1. CASE k = r
    BY <1>3, <1>4, <2>1, BoundIsOwn
  <2>2. CASE k # r
    <3>1. k \in 1 .. Len(inserted) /\ k \in DOMAIN inserted
      BY <1>3, <2>2
    <3> QED
      BY <1>3, <3>1 DEF IBinding, NoStaleValue
  <2> QED
    BY <2>1, <2>2
<1> QED
  BY <1>1, <1>3, <1>5 DEF IBinding

LEMMA BindingInvariant == Spec => []IBinding
<1>1. IBinding /\ UNCHANGED vars => IBinding'
  BY DEF IBinding, IPayload, Typed, Roomy, Booked, Place, SlotsHold, NoStaleValue,
         vars, payloadVars, bindVars, Size, Row
<1>2. IBinding /\ [Next]_vars => IBinding'
  BY <1>1, DecodeStep, InsertRowStep DEF Next
<1> QED
  BY <1>2, BindingInitially, PTL DEF Spec

(* sqliterkValuesAutoGrow raises the capacity before the allocation, yet no*)
(* value of a row is written behind the slots of its list, for rows of any *)
(* length and whichever allocation fails, since a failure ends the leaf.   *)
(* Nor is a page number behind those of the overflow list, until it fails  *)
(* to grow: this failure ends nothing, and the list is right only when it  *)
(* has grown again.                                                        *)
THEOREM SlotsAlwaysHold == Spec => []SlotsHold
<1>1. IBinding => SlotsHold
  BY DEF IBinding, IPayload, Roomy
<1> QED
  BY <1>1, BindingInvariant, PTL

(* sqliterkBtreeParseCell and what it calls give back what they allocated, *)
(* wherever a leaf is left, but for the record of a blob that failed.      *)
THEOREM NothingEverLeaks == Spec => []NothingLeaks
<1>1. IBinding => NothingLeaks
  BY DEF IBinding, IPayload, Booked, NothingLeaks
<1> QED
  BY <1>1, BindingInvariant, PTL

(* table_onParseColumn never clears the parameters of its statement, yet   *)
(* nothing of an earlier row is inserted with a later one but in the last  *)
(* column, for every table and every sequence of rows.                     *)
THEOREM NeverStale == Spec => []NoStaleValue
<1>1. IBinding => NoStaleValue
  BY DEF IBinding
<1> QED
  BY <1>1, BindingInvariant, PTL

-----------------------------------------------------------------------------
(* Linear recurrences: what the sums of the decoder and of the format have *)
(* in common.                                                              *)

Less == {ss \in Nat \X Nat : ss[1] < ss[2]}

(* What holds at lo and goes on from each number to the next holds to n.   *)
LEMMA Climb ==
  ASSUME NEW lo \in Int, NEW n \in Int, NEW S,
         lo \in S, \A m \in lo + 1 .. n : m - 1 \in S => m \in S
  PROVE  lo .. n \subseteq S
<1> DEFINE C == {k \in Nat : lo + k \in lo .. n /\ lo + k \notin S}
<1>1. SUFFICES ASSUME NEW x \in lo .. n, x \notin S PROVE FALSE
  OBVIOUS
<1>2. PICK k \in Nat : lo + k = x
  <2>1. x - lo \in Nat /\ lo + (x - lo) = x
    OBVIOUS
  <2> QED
    BY <2>1
<1>3. k \in C /\ C \subseteq Nat
  BY <1>1, <1>2
<1> HIDE DEF C
<1>4. PICK c \in C : \A m \in C : <<m, c>> \notin Less
  <2>1. IsWellFoundedOn(Less, Nat)
    BY NatLessThanWellFounded DEF OpToRel, Less
  <2> QED
    BY <1>3, <2>1, WFMin
<1>5. c \in Nat /\ lo + c \in lo .. n /\ lo + c \notin S
  BY <1>4 DEF C
<1>6. c # 0
  BY <1>5
<1>7. c - 1 \in Nat /\ c - 1 < c /\ lo + (c - 1) \in lo .. n
  BY <1>5, <1>6
<1>8. c - 1 \notin C
  BY <1>4, <1>5, <1>7 DEF Less
<1>9. lo + (c - 1) \in S
  BY <1>7, <1>8 DEF C
<1>10. lo + c \in lo + 1 .. n /\ (lo + c) - 1 = lo + (c - 1)
  BY <1>5, <1>6
<1> QED
  BY <1>5, <1>9, <1>10

(* f starts with a, multiplies by c and adds d.                            *)
Follows(f, lo, n, a, c, d) ==
  /\ f \in [lo .. n -> Int] /\ f[lo] = a
  /\ \A m \in lo + 1 .. n : f[m] = c * f[m - 1] + d[m]

LEMMA LineExists ==
  ASSUME NEW lo \in Int, NEW n \in Int, lo <= n, NEW a \in Int, NEW c \in Int,
         NEW d \in [lo + 1 .. n -> Int]
  PROVE  \E f : Follows(f, lo, n, a, c, d)
<1> DEFINE S == {m \in lo .. n : \E f : Follows(f, lo, m, a, c, d)}
<1>1. lo \in S
  <2> DEFINE f == [j \in lo .. lo |-> a]
  <2>1. Follows(f, lo, lo, a, c, d)
    BY DEF Follows
  <2> QED
    BY <2>1
<1>2. ASSUME NEW m \in lo + 1 .. n, m - 1 \in S
      PROVE  m \in S
  <2>1. PICK old : Follows(old, lo, m - 1, a, c, d)
    BY <1>2
  <2>2. PICK last \in Int : last = c * old[m - 1] + d[m]
    <3>1. m - 1 \in lo .. m - 1
      BY <1>2
    <3>2. old[m - 1] \in Int /\ d[m] \in Int
      BY <1>2, <2>1, <3>1 DEF Follows
    <3> QED
      BY <3>2
  <2> DEFINE f == [j \in lo .. m |-> IF j = m THEN last ELSE old[j]]
  <2>3. \A j \in lo .. m - 1 : f[j] = old[j] /\ old[j] \in Int
    BY <2>1 DEF Follows
  <2>4. f[m] = last /\ f[lo] = a
    BY <1>2, <2>1, <2>3 DEF Follows
  <2>5. f \in [lo .. m -> Int]
    <3>1. \A j \in lo .. m : (IF j = m THEN last ELSE old[j]) \in Int
      <4>1. \A j \in lo .. m : j = m \/ j \in lo .. m - 1
        OBVIOUS
      <4> QED
        BY <2>2, <2>3, <4>1
    <3> QED
      BY <3>1
  <2> HIDE DEF f
  <2>6. ASSUME NEW j \in lo + 1 .. m
        PROVE  f[j] = c * f[j - 1] + d[j]
    <3>1. CASE j = m
      <4>1. f[m - 1] = old[m - 1]
        BY <1>2, <2>3
      <4> QED
        BY <2>2, <2>4, <3>1, <4>1
    <3>2. CASE j # m
      <4>1. j \in lo + 1 .. m - 1 /\ j - 1 \in lo .. m - 1 /\ j \in lo .. m - 1
        BY <3>2
      <4>2. f[j] = old[j] /\ f[j - 1] = old[j - 1]
        BY <2>3, <4>1
      <4> QED
        BY <2>1, <4>1, <4>2 DEF Follows
    <3> QED
      BY <3>1, <3>2
  <2>7. Follows(f, lo, m, a, c, d)
    BY <2>4, <2>5, <2>6 DEF Follows
  <2>8. m \in lo .. n
    BY <1>2
  <2> QED
    BY <2>7, <2>8
<1> HIDE DEF S
<1>3. lo .. n \subseteq S
  BY <1>1, <1>2, Climb
<1>4. n \in lo .. n
  OBVIOUS
<1> QED
  BY <1>3, <1>4 DEF S

(* A function that equals the body of the recurrence follows it.           *)
Line(g, lo, n, a, c, d) ==
  [m \in lo .. n |-> IF m = lo THEN a ELSE c * g[m - 1] + d[m]]

LEMMA LineFollows ==
  ASSUME NEW lo \in Int, NEW n \in Int, lo <= n, NEW a \in Int, NEW c \in Int,
         NEW d \in [lo + 1 .. n -> Int], NEW g, g = Line(g, lo, n, a, c, d)
  PROVE  Follows(g, lo, n, a, c, d)
<1> DEFINE S == {m \in lo .. n : g[m] \in Int}
<1>1. DOMAIN g = lo .. n /\ g = [m \in lo .. n |-> g[m]]
  BY DEF Line
<1>2. \A m \in lo .. n : g[m] = IF m = lo THEN a ELSE c * g[m - 1] + d[m]
  BY DEF Line
<1>3. lo \in S
  BY <1>2
<1>4. ASSUME NEW m \in lo + 1 .. n, m - 1 \in S
      PROVE  m \in S
  <2>1. m \in lo .. n /\ m # lo /\ g[m - 1] \in Int /\ d[m] \in Int
    BY <1>4
  <2>2. g[m] = c * g[m - 1] + d[m]
    BY <1>2, <2>1
  <2> QED
    BY <2>1, <2>2
<1> HIDE DEF S
<1>5. lo .. n \subseteq S
  BY <1>3, <1>4, Climb
<1>6. g \in [lo .. n -> Int]
  BY <1>1, <1>5 DEF S
<1>7. \A m \in lo + 1 .. n : m \in lo .. n /\ m # lo
  OBVIOUS
<1> QED
  BY <1>2, <1>6, <1>7 DEF Follows

Solvable(lo, n, a, c, d) == \E g : g = Line(g, lo, n, a, c, d)

LEMMA LineSolves ==
  ASSUME NEW lo \in Int, NEW n \in Int, lo <= n, NEW a \in Int, NEW c \in Int,
         NEW d \in [lo + 1 .. n -> Int]
  PROVE  Solvable(lo, n, a, c, d)
<1>1. PICK f : Follows(f, lo, n, a, c, d)
  BY LineExists
<1>2. f = Line(f, lo, n, a, c, d)
  <2>1. f = [m \in lo .. n |-> f[m]]
    BY <1>1 DEF Follows
  <2>2. ASSUME NEW m \in lo .. n
        PROVE  f[m] = IF m = lo THEN a ELSE c * f[m - 1] + d[m]
    <3>1. m = lo \/ m \in lo + 1 .. n
      OBVIOUS
    <3> QED
      BY <1>1, <3>1 DEF Follows
  <2> QED
    BY <2>1, <2>2 DEF Line
<1> QED
  BY <1>2 DEF Solvable

LEMMA LineHas ==
  ASSUME NEW lo \in Int, NEW n \in Int, lo <= n, NEW a \in Int, NEW c \in Int,
         NEW d \in [lo + 1 .. n -> Int]
  PROVE  Follows(CHOOSE g : g = Line(g, lo, n, a, c, d), lo, n, a, c, d)
<1>1. \E g : g = Line(g, lo, n, a, c, d)
  <2>1. Solvable(lo, n, a, c, d)
    BY LineSolves
  <2> QED
    BY <2>1 DEF Solvable
<1> DEFINE g == CHOOSE g : g = Line(g, lo, n, a, c, d)
<1>2. g = Line(g, lo, n, a, c, d)
  BY <1>1
<1> HIDE DEF g
<1>3. Follows(g, lo, n, a, c, d)
  BY <1>2, LineFollows
<1> QED
  BY <1>3 DEF g

(* Two that follow the same recurrence agree as far as both go.            *)
Agree(f, g, lo, k)     == \A m \in lo .. k : f[m] = g[m]
AddsAgree(d, e, lo, k) == \A m \in lo + 1 .. k : d[m] = e[m]

LEMMA LinesAgree ==
  ASSUME NEW lo \in Int, NEW n \in Int, NEW k \in Int, lo <= k, k <= n,
         NEW a, NEW c, NEW d, NEW e, AddsAgree(d, e, lo, k),
         NEW f, Follows(f, lo, n, a, c, d), NEW g, Follows(g, lo, k, a, c, e)
  PROVE  Agree(f, g, lo, k)
<1> DEFINE S == {m \in lo .. k : f[m] = g[m]}
<1>1. lo \in S
  BY DEF Follows
<1>2. ASSUME NEW m \in lo + 1 .. k, m - 1 \in S
      PROVE  m \in S
  <2>1. m \in lo + 1 .. n /\ m \in lo .. k /\ d[m] = e[m] /\ f[m - 1] = g[m - 1]
    BY <1>2 DEF AddsAgree
  <2>2. f[m] = c * f[m - 1] + d[m] /\ g[m] = c * g[m - 1] + e[m]
    BY <1>2, <2>1 DEF Follows
  <2> QED
    BY <2>1, <2>2
<1> HIDE DEF S
<1>3. lo .. k \subseteq S
  BY <1>1, <1>2, Climb
<1> QED
  BY <1>3 DEF S, Agree

LEMMA PowerFollows ==
  ASSUME NEW b \in Int, NEW n \in Nat
  PROVE  \E p : /\ Follows(p, 0, n, 1, b, [m \in 1 .. n |-> 0])
                /\ Power(b, n) = p[n]
<1> DEFINE z == [m \in 1 .. n |-> 0]
           body(g) == [m \in 0 .. n |-> IF m = 0 THEN 1 ELSE b * g[m - 1]]
           p == CHOOSE g : g = body(g)
           q == CHOOSE g : g = Line(g, 0, n, 1, b, z)
<1>1. Follows(q, 0, n, 1, b, z)
  <2>1. z \in [0 + 1 .. n -> Int]
    OBVIOUS
  <2> HIDE DEF z
  <2> QED
    BY <2>1, LineHas
<1>2. q = body(q)
  <2> HIDE DEF q, z
  <2>1. q = [m \in 0 .. n |-> q[m]]
    BY <1>1 DEF Follows
  <2>2. ASSUME NEW m \in 0 .. n
        PROVE  q[m] = IF m = 0 THEN 1 ELSE b * q[m - 1]
    <3>1. CASE m = 0
      BY <1>1, <3>1 DEF Follows
    <3>2. CASE m # 0
      <4>1. m \in 0 + 1 .. n /\ m \in 1 .. n /\ m - 1 \in 0 .. n
        BY <3>2
      <4>2. q[m] = b * q[m - 1] + z[m] /\ q[m - 1] \in Int
        BY <1>1, <4>1 DEF Follows
      <4>3. z[m] = 0
        BY <4>1 DEF z
      <4>4. b * q[m - 1] \in Int
        BY <4>2
      <4> QED
        BY <3>2, <4>2, <4>3, <4>4
    <3> QED
      BY <3>1, <3>2
  <2> QED
    BY <2>1, <2>2
<1>3. p = body(p)
  <2> HIDE DEF q
  <2> QED
    BY <1>2
<1>4. Power(b, n) = p[n]
  BY DEF Power
<1>5. Follows(p, 0, n, 1, b, z)
  <2> HIDE DEF p
  <2>1. ASSUME NEW m \in 0 .. n, m # 0, p[m - 1] \in Int
        PROVE  b * p[m - 1] \in Int /\ b * p[m - 1] = b * p[m - 1] + z[m]
    <3>1. b * p[m - 1] \in Int /\ z[m] = 0
      BY <2>1
    <3> QED
      BY <3>1
  <2> DEFINE S == {m \in 0 .. n : p[m] \in Int}
  <2>2. 0 \in S
    BY <1>3
  <2>3. ASSUME NEW m \in 0 + 1 .. n, m - 1 \in S PROVE m \in S
    <3>1. m \in 0 .. n /\ m # 0 /\ p[m - 1] \in Int
      BY <2>3
    <3>2. p[m] = b * p[m - 1]
      BY <1>3, <3>1
    <3> QED
      BY <2>1, <3>1, <3>2
  <2> HIDE DEF S
  <2>4. 0 .. n \subseteq S
    BY <2>2, <2>3, Climb
  <2>5. \A m \in 0 .. n : p[m] \in Int
    BY <2>4 DEF S
  <2>6. p \in [0 .. n -> Int] /\ p[0] = 1
    <3>1. DOMAIN p = 0 .. n /\ p = [m \in 0 .. n |-> p[m]]
      BY <1>3
    <3> QED
      BY <1>3, <2>5, <3>1
  <2>7. ASSUME NEW m \in 0 + 1 .. n
        PROVE  p[m] = b * p[m - 1] + z[m]
    <3>1. m \in 0 .. n /\ m # 0 /\ m - 1 \in 0 .. n
      BY <2>7
    <3>2. p[m] = b * p[m - 1] /\ p[m - 1] \in Int
      BY <1>3, <2>5, <3>1
    <3> QED
      BY <2>1, <3>1, <3>2
  <2> HIDE DEF z
  <2> QED
    BY <2>6, <2>7 DEF Follows
<1> QED
  BY <1>4, <1>5

LEMMA PowerIs ==
  ASSUME NEW b \in Int
  PROVE  /\ Power(b, 0) = 1
         /\ \A n \in Nat : Power(b, n) \in Int
         /\ \A n \in Nat : Power(b, n + 1) = b * Power(b, n)
<1>1. Power(b, 0) = 1
  BY PowerFollows DEF Follows
<1>2. ASSUME NEW n \in Nat
      PROVE  Power(b, n) \in Int /\ Power(b, n + 1) = b * Power(b, n)
  <2>1. PICK d : d = [m \in 1 .. n |-> 0]
    OBVIOUS
  <2>2. PICK N \in Nat : N = n + 1
    <3>1. n + 1 \in Nat
      OBVIOUS
    <3> QED
      BY <3>1
  <2>3. PICK e : e = [m \in 1 .. N |-> 0]
    OBVIOUS
  <2>4. PICK p : Follows(p, 0, n, 1, b, d) /\ Power(b, n) = p[n]
    BY <2>1, PowerFollows
  <2>5. PICK q : Follows(q, 0, N, 1, b, e) /\ Power(b, N) = q[N]
    BY <2>3, PowerFollows
  <2>6. /\ \A m \in 0 + 1 .. n : e[m] = d[m]
        /\ e[N] = 0 /\ N \in 0 + 1 .. N /\ n \in 0 .. n
        /\ 0 <= n /\ n <= N /\ n \in Int /\ N \in Int
    BY <2>1, <2>2, <2>3
  <2>7. \A m \in 0 .. n : q[m] = p[m]
    <3>1. AddsAgree(e, d, 0, n)
      BY <2>6 DEF AddsAgree
    <3>2. Agree(q, p, 0, n)
      BY ONLY <2>4, <2>5, <2>6, <3>1, LinesAgree
    <3> QED
      BY <3>2 DEF Agree
  <2>8. q[N] = b * q[N - 1] + 0 /\ N - 1 = n
    BY <2>2, <2>5, <2>6 DEF Follows
  <2>9. p[n] \in Int /\ q[n] = p[n]
    BY <2>4, <2>6, <2>7 DEF Follows
  <2>10. b * p[n] \in Int
    BY <2>9
  <2> QED
    BY <2>2, <2>4, <2>5, <2>8, <2>9, <2>10
<1> QED
  BY <1>1, <1>2

(* Horner: what the decoder adds up is the value of the digits by place,   *)
(* where a difference e of both at the start stays one to the end.         *)
Evaluates(w, h, digit, lo, n, b, e) ==
  /\ \A m \in 1 .. n : digit[m] \in Int
  /\ \A m \in 0 .. n : w[m] \in Int
  /\ \A m \in lo + 1 .. n : w[m] = w[m - 1] + digit[m] * Power(b, n - m)
  /\ \A m \in lo .. n : h[m] \in Int
  /\ \A m \in lo + 1 .. n : h[m] = b * h[m - 1] + digit[m]
  /\ w[lo] - e = h[lo] * Power(b, n - lo)

LEMMA Horner ==
  ASSUME NEW n \in Nat, NEW lo \in 0 .. n, NEW b \in Int, NEW e \in Int,
         NEW digit, NEW w, NEW h, Evaluates(w, h, digit, lo, n, b, e)
  PROVE  w[n] - e = h[n]
<1>0. /\ \A m \in 1 .. n : digit[m] \in Int
      /\ \A m \in 0 .. n : w[m] \in Int
      /\ \A m \in lo + 1 .. n : w[m] = w[m - 1] + digit[m] * Power(b, n - m)
      /\ \A m \in lo .. n : h[m] \in Int
      /\ \A m \in lo + 1 .. n : h[m] = b * h[m - 1] + digit[m]
      /\ w[lo] - e = h[lo] * Power(b, n - lo)
  BY DEF Evaluates
<1> DEFINE S == {m \in lo .. n : w[m] - e = h[m] * Power(b, n - m)}
<1>1. lo \in S
  BY <1>0
<1>2. ASSUME NEW m \in lo + 1 .. n, m - 1 \in S
      PROVE  m \in S
  <2>1. PICK k \in Nat : k = n - m
    <3>1. n - m \in Nat
      OBVIOUS
    <3> QED
      BY <3>1
  <2>2. n - (m - 1) = k + 1 /\ m - 1 \in lo .. n /\ m \in lo .. n /\ m \in 1 .. n
        /\ m - 1 \in 0 .. n /\ m \in 0 .. n
    BY <2>1
  <2>3. Power(b, n - m) = Power(b, k) /\ Power(b, n - (m - 1)) = b * Power(b, k)
    BY <2>1, <2>2, PowerIs
  <2>4. PICK p \in Int : p = Power(b, k)
    BY PowerIs
  <2>5. PICK x \in Int : x = h[m - 1]
    BY <1>0, <2>2
  <2>6. PICK y \in Int : y = w[m - 1]
    BY <1>0, <2>2
  <2>7. PICK a \in Int : a = digit[m]
    BY <1>0, <2>2
  <2>8. y - e = x * (b * p)
    BY <1>2, <2>3, <2>4, <2>5, <2>6
  <2>9. w[m] = y + a * p /\ h[m] = b * x + a
    BY <1>0, <1>2, <2>3, <2>4, <2>5, <2>6, <2>7
  <2>10. (y + a * p) - e = (b * x + a) * p
    <3>1. (b * x + a) * p = (b * x) * p + a * p
      OBVIOUS
    <3>2. (b * x) * p = x * (b * p)
      OBVIOUS
    <3>3. x * (b * p) \in Int /\ a * p \in Int
      OBVIOUS
    <3> QED
      BY <2>8, <3>1, <3>2, <3>3
  <2>11. w[m] - e = h[m] * Power(b, n - m)
    BY <2>3, <2>4, <2>9, <2>10
  <2> QED
    BY <2>2, <2>11
<1> HIDE DEF S
<1>3. lo .. n \subseteq S
  <2>1. lo \in Int /\ n \in Int
    OBVIOUS
  <2> QED
    BY ONLY <1>1, <1>2, <2>1, Climb
<1>4. n \in S
  BY <1>3
<1>5. w[n] - e = h[n] * Power(b, n - n)
  BY <1>4 DEF S
<1>6. Power(b, n - n) = 1
  <2>1. n - n = 0
    OBVIOUS
  <2> QED
    BY <2>1, PowerIs
<1>7. h[n] \in Int /\ w[n] \in Int
  BY <1>0
<1> QED
  BY <1>5, <1>6, <1>7

(* The same for a recurrence that only adds.                               *)
Sum(g, lo, n, a, d) ==
  [m \in lo .. n |-> IF m = lo THEN a ELSE g[m - 1] + d[m]]

LEMMA SumExists ==
  ASSUME NEW lo \in Int, NEW n \in Int, lo <= n, NEW a \in Int,
         NEW d \in [lo + 1 .. n -> Int]
  PROVE  \E g : g = Sum(g, lo, n, a, d)
<1>1. PICK f : Follows(f, lo, n, a, 1, d)
  <2>1. PICK one \in Int : one = 1
    OBVIOUS
  <2>2. \E f : Follows(f, lo, n, a, one, d)
    BY LineExists
  <2> QED
    BY <2>1, <2>2
<1>2. f = [m \in lo .. n |-> f[m]]
  BY <1>1 DEF Follows
<1>3. ASSUME NEW m \in lo .. n
      PROVE  f[m] = IF m = lo THEN a ELSE f[m - 1] + d[m]
  <2>1. CASE m = lo
    BY <1>1, <2>1 DEF Follows
  <2>2. CASE m # lo
    <3>1. m \in lo + 1 .. n /\ m - 1 \in lo .. n
      BY <2>2
    <3>2. f[m] = 1 * f[m - 1] + d[m] /\ f[m - 1] \in Int
      BY <1>1, <3>1 DEF Follows
    <3>3. 1 * f[m - 1] = f[m - 1]
      BY <3>2
    <3> QED
      BY <2>2, <3>2, <3>3
  <2> QED
    BY <2>1, <2>2
<1>4. f = Sum(f, lo, n, a, d)
  BY <1>2, <1>3 DEF Sum
<1> QED
  BY <1>4

LEMMA SumFollows ==
  ASSUME NEW lo \in Int, NEW n \in Int, lo <= n, NEW a \in Int,
         NEW d \in [lo + 1 .. n -> Int], NEW g, g = Sum(g, lo, n, a, d)
  PROVE  Follows(g, lo, n, a, 1, d)
<1> DEFINE S == {m \in lo .. n : g[m] \in Int}
<1>1. DOMAIN g = lo .. n /\ g = [m \in lo .. n |-> g[m]]
  BY DEF Sum
<1>2. \A m \in lo .. n : g[m] = IF m = lo THEN a ELSE g[m - 1] + d[m]
  BY DEF Sum
<1>3. lo \in S
  BY <1>2
<1>4. ASSUME NEW m \in lo + 1 .. n, m - 1 \in S
      PROVE  m \in S
  <2>1. m \in lo .. n /\ m # lo /\ g[m - 1] \in Int /\ d[m] \in Int
    BY <1>4
  <2>2. g[m] = g[m - 1] + d[m]
    BY <1>2, <2>1
  <2> QED
    BY <2>1, <2>2
<1> HIDE DEF S
<1>5. lo .. n \subseteq S
  BY <1>3, <1>4, Climb
<1>6. g \in [lo .. n -> Int]
  BY <1>1, <1>5 DEF S
<1>7. ASSUME NEW m \in lo + 1 .. n
      PROVE  g[m] = 1 * g[m - 1] + d[m]
  <2>1. m \in lo .. n /\ m - 1 \in lo .. n /\ m # lo
    OBVIOUS
  <2>2. g[m] = g[m - 1] + d[m] /\ g[m - 1] \in Int
    BY <1>2, <1>6, <2>1
  <2>3. 1 * g[m - 1] = g[m - 1]
    BY <2>2
  <2> QED
    BY <2>2, <2>3
<1> QED
  BY <1>2, <1>6, <1>7 DEF Follows

(* The sum that PlaceValue takes.                                          *)
Adds(w, digits, base) ==
  /\ \A m \in 0 .. Len(digits) : w[m] \in Int
  /\ w[0] = 0
  /\ \A m \in 1 .. Len(digits) :
       w[m] = w[m - 1] + digits[m] * Power(base, Len(digits) - m)

LEMMA PlaceValueIs ==
  ASSUME NEW digits \in Seq(Int), NEW base \in Int
  PROVE  \E w : Adds(w, digits, base) /\ PlaceValue(digits, base) = w[Len(digits)]
<1> DEFINE n == Len(digits)
           term(m) == digits[m] * Power(base, n - m)
           d == [m \in 1 .. n |-> term(m)]
           body(g) == [m \in 0 .. n |-> IF m = 0 THEN 0 ELSE g[m - 1] + term(m)]
           w == CHOOSE g : g = body(g)
<1>1. n \in Nat /\ \A m \in 1 .. n : digits[m] \in Int
  BY LenProperties, ElementOfSeq
<1>2. \A m \in 1 .. n : term(m) \in Int
  <2> SUFFICES ASSUME NEW m \in 1 .. n PROVE term(m) \in Int
    OBVIOUS
  <2>1. PICK k \in Nat : k = n - m
    <3>1. n - m \in Nat
      BY <1>1
    <3> QED
      BY <3>1
  <2>2. Power(base, k) \in Int /\ digits[m] \in Int
    BY <1>1, PowerIs
  <2>3. digits[m] * Power(base, k) \in Int
    BY <2>2
  <2> QED
    BY <2>1, <2>3
<1>3. PlaceValue(digits, base) = w[n]
  BY DEF PlaceValue
<1> HIDE DEF n, term
<1>4. d \in [0 + 1 .. n -> Int] /\ 0 <= n /\ n \in Int
  BY <1>1, <1>2
<1>5. \A g : body(g) = Sum(g, 0, n, 0, d)
  <2> SUFFICES ASSUME NEW g PROVE body(g) = Sum(g, 0, n, 0, d)
    OBVIOUS
  <2>1. \A m \in 0 .. n : m # 0 => d[m] = term(m)
    BY <1>1
  <2> HIDE DEF d
  <2> QED
    BY <2>1 DEF Sum
<1> HIDE DEF d
<1>6. \E g : g = Sum(g, 0, n, 0, d)
  <2>1. PICK o \in Int : o = 0
    OBVIOUS
  <2>2. d \in [o + 1 .. n -> Int] /\ o <= n
    BY <1>4, <2>1
  <2>3. \E g : g = Sum(g, o, n, o, d)
    BY ONLY <1>4, <2>2, o \in Int, SumExists
  <2> QED
    BY <2>1, <2>3
<1>7. w = body(w)
  BY <1>5, <1>6
<1> HIDE DEF w
<1>8. w = Sum(w, 0, n, 0, d)
  BY <1>5, <1>7
<1>9. Follows(w, 0, n, 0, 1, d)
  <2>1. PICK o \in Int : o = 0
    OBVIOUS
  <2>2. d \in [o + 1 .. n -> Int] /\ o <= n /\ w = Sum(w, o, n, o, d)
    BY <1>4, <1>8, <2>1
  <2>3. Follows(w, o, n, o, 1, d)
    BY ONLY <1>4, <2>2, o \in Int, SumFollows
  <2> QED
    BY <2>1, <2>3
<1>10. \A m \in 0 .. n : w[m] \in Int
  BY <1>9 DEF Follows
<1>11. ASSUME NEW m \in 1 .. n
       PROVE  w[m] = w[m - 1] + term(m)
  <2>1. m \in 0 .. n /\ m # 0
    BY <1>1
  <2> QED
    BY <1>7, <2>1
<1>12. w[0] = 0
  BY <1>1, <1>7
<1>13. Adds(w, digits, base)
  BY <1>10, <1>11, <1>12 DEF Adds, n, term
<1> QED
  BY <1>3, <1>13 DEF n

LEMMA PowerIsNat ==
  ASSUME NEW b \in Nat, NEW n \in Nat
  PROVE  Power(b, n) \in Nat
<1> DEFINE S == {m \in 0 .. n : Power(b, m) \in Nat}
<1>1. 0 \in S
  BY PowerIs
<1>2. ASSUME NEW m \in 0 + 1 .. n, m - 1 \in S PROVE m \in S
  <2>1. PICK k \in Nat : k = m - 1
    BY <1>2
  <2>2. k + 1 = m /\ m \in 0 .. n /\ b \in Int
    BY <2>1
  <2>3. Power(b, k + 1) = b * Power(b, k) /\ Power(b, k) \in Nat
    BY <1>2, <2>1, <2>2, PowerIs
  <2>4. b * Power(b, k) \in Nat
    BY <2>3
  <2> QED
    BY <2>2, <2>3, <2>4
<1> HIDE DEF S
<1>3. 0 .. n \subseteq S
  BY ONLY <1>1, <1>2, n \in Nat, Climb
<1>4. n \in S
  BY <1>3
<1> QED
  BY <1>4 DEF S

(* Natural digits have a natural value.                                    *)
LEMMA PlaceValueIsNat ==
  ASSUME NEW digits \in Seq(Nat), NEW base \in Nat
  PROVE  PlaceValue(digits, base) \in Nat
<1>1. digits \in Seq(Int) /\ base \in Int
  OBVIOUS
<1>2. PICK w : Adds(w, digits, base) /\ PlaceValue(digits, base) = w[Len(digits)]
  BY <1>1, PlaceValueIs
<1>3. PICK n \in Nat : n = Len(digits)
  BY LenProperties
<1> DEFINE S == {m \in 0 .. n : w[m] \in Nat}
<1>4. 0 \in S
  BY <1>2 DEF Adds
<1>5. ASSUME NEW m \in 0 + 1 .. n, m - 1 \in S PROVE m \in S
  <2>1. m \in 1 .. n /\ digits[m] \in Nat
    BY <1>3, ElementOfSeq
  <2>2. PICK k \in Nat : k = n - m
    <3>1. n - m \in Nat
      OBVIOUS
    <3> QED
      BY <3>1
  <2>3. w[m] = w[m - 1] + digits[m] * Power(base, k) /\ w[m - 1] \in Nat
    BY <1>2, <1>3, <1>5, <2>1, <2>2 DEF Adds
  <2>4. Power(base, k) \in Nat
    BY PowerIsNat
  <2>5. digits[m] * Power(base, k) \in Nat
    BY <2>1, <2>4
  <2>6. w[m] \in Nat
    BY <2>3, <2>5
  <2> QED
    BY <2>6
<1> HIDE DEF S
<1>6. 0 .. n \subseteq S
  BY ONLY <1>4, <1>5, n \in Nat, Climb
<1>7. n \in S
  BY <1>6
<1> QED
  BY <1>2, <1>3, <1>7 DEF S

-----------------------------------------------------------------------------
(* Varints: of a row that has no extreme one, the decoder reads those of   *)
(* the format; one that the row cuts off ends behind the row, or nowhere.  *)

LEMMA LeastOne ==
  ASSUME NEW S \in SUBSET Nat, S # {}
  PROVE  \E n \in S : \A m \in S : n <= m
<1>1. IsWellFoundedOn(Less, Nat)
  BY NatLessThanWellFounded DEF OpToRel, Less
<1>2. PICK n \in S : \A m \in S : <<m, n>> \notin Less
  BY <1>1, WFMin
<1>3. ASSUME NEW m \in Nat, <<m, n>> \notin Less
      PROVE  n <= m
  BY <1>3 DEF Less
<1> QED
  BY <1>2, <1>3

LEMMA ByteIs ==
  ASSUME NEW x \in Byte
  PROVE  x \in Nat /\ x % Digits \in Nat
BY PayloadAssumption DEF Byte

LEMMA ByteAtType ==
  ASSUME bytes \in Seq(Byte), NEW k \in Int, NEW g \in Byte
  PROVE  ByteAt(k, g) \in Byte
<1>1. CASE k \in 0 .. Len(bytes) - 1
  <2>1. k + 1 \in 1 .. Len(bytes)
    BY <1>1, LenProperties
  <2> QED
    BY <1>1, <2>1, ElementOfSeq DEF ByteAt
<1>2. CASE k \notin 0 .. Len(bytes) - 1
  BY <1>2 DEF ByteAt
<1> QED
  BY <1>1, <1>2

(* l is the length of the varint at k.                                     *)
Ends(data, k, l) ==
  /\ l \in 1 .. Len(data) - k /\ data[k + l] < Digits
  /\ \A n \in 1 .. l - 1 : ~ (data[k + n] < Digits)

LEMMA FormatLenType ==
  ASSUME NEW data \in Seq(Byte), NEW k \in Int
  PROVE  /\ FormatLen(data, k) \in 1 .. MaxVarint
         /\ FormatLen(data, k) \in Nat \ {0}
         /\ FormatLen(data, k) < MaxVarint => Ends(data, k, FormatLen(data, k))
         /\ FormatLen(data, k) = MaxVarint =>
              \A n \in 1 .. Len(data) - k : n < MaxVarint => ~ (data[k + n] < Digits)
<1> DEFINE E == {n \in 1 .. Len(data) - k : n < MaxVarint /\ data[k + n] < Digits}
           l == FormatLen(data, k)
<1>1. l = IF E = {} THEN MaxVarint ELSE CHOOSE n \in E : \A m \in E : n <= m
  BY DEF FormatLen
<1>2. MaxVarint \in Nat \ {0}
  BY PayloadAssumption
<1>3. CASE E = {}
  <2>1. l = MaxVarint
    BY <1>1, <1>3
  <2>2. l \in 1 .. MaxVarint /\ l \in Nat \ {0} /\ ~ (l < MaxVarint)
    <3> HIDE DEF l
    <3> QED
      BY <1>2, <2>1
  <2>3. \A n \in 1 .. Len(data) - k : n < MaxVarint => ~ (data[k + n] < Digits)
    BY <1>3
  <2> QED
    BY <2>2, <2>3
<1>4. CASE E # {}
  <2>1. E \subseteq Nat
    OBVIOUS
  <2> HIDE DEF E
  <2>2. \E n \in E : \A m \in E : n <= m
    BY <1>4, <2>1, LeastOne
  <2> HIDE DEF l
  <2>3. l \in E /\ \A m \in E : l <= m
    BY <1>1, <1>4, <2>2
  <2>4. l \in 1 .. Len(data) - k /\ l < MaxVarint /\ data[k + l] < Digits
    BY <2>3 DEF E
  <2>5. ASSUME NEW n \in 1 .. l - 1 PROVE ~ (data[k + n] < Digits)
    <3>1. n \in 1 .. Len(data) - k /\ n < MaxVarint /\ ~ (l <= n)
      BY <1>2, <2>4, LenProperties
    <3> QED
      BY <2>3, <3>1 DEF E
  <2>6. l \in 1 .. MaxVarint /\ l \in Nat \ {0} /\ l # MaxVarint
    BY <1>2, <2>4
  <2> QED
    BY <2>4, <2>5, <2>6 DEF Ends, l
<1> QED
  BY <1>3, <1>4

LEMMA LengthsAgree ==
  ASSUME NEW data \in Seq(Byte), bytes = data, ~ Extreme(data),
         NEW k \in 0 .. Len(data) - 1, Begins(data, k), Whole(data, k), NEW g
  PROVE  /\ VarintLen(k, g) = FormatLen(data, k)
         /\ FormatLen(data, k) \in 1 .. MaxVarint
         /\ k + FormatLen(data, k) <= Len(data)
         /\ data[k + FormatLen(data, k)] < Digits
<1> DEFINE l == FormatLen(data, k)
           V == {n \in 1 .. MaxVarint : ByteAt(k + n - 1, g) < Digits}
<1>1. l < MaxVarint /\ l \in Nat \ {0} /\ MaxVarint \in Nat /\ Len(data) \in Nat
  <2>1. l # MaxVarint
    BY DEF Extreme
  <2>2. l \in Nat \ {0} /\ l \in 1 .. MaxVarint
    BY FormatLenType
  <2> QED
    BY <2>1, <2>2, PayloadAssumption, LenProperties
<1>2. Ends(data, k, l)
  BY <1>1, FormatLenType
<1> HIDE DEF l
<1>3. l \in 1 .. Len(data) - k /\ data[k + l] < Digits
      /\ \A n \in 1 .. l - 1 : ~ (data[k + n] < Digits)
  BY <1>2 DEF Ends
<1>4. \A n \in 1 .. Len(data) - k : ByteAt(k + n - 1, g) = data[k + n]
  <2> SUFFICES ASSUME NEW n \in 1 .. Len(data) - k
               PROVE  ByteAt(k + n - 1, g) = data[k + n]
    OBVIOUS
  <2>1. k + n - 1 \in 0 .. Len(data) - 1 /\ (k + n - 1) + 1 = k + n
    BY <1>1
  <2> QED
    BY <2>1 DEF ByteAt
<1>5. l \in V
  BY <1>1, <1>3, <1>4
<1>6. ASSUME NEW n \in V PROVE l <= n
  <2>1. n \in 1 .. MaxVarint /\ ByteAt(k + n - 1, g) < Digits
    OBVIOUS
  <2>2. SUFFICES ASSUME n < l PROVE FALSE
    BY <1>1, <2>1
  <2>3. n \in 1 .. l - 1 /\ n \in 1 .. Len(data) - k
    BY <1>1, <1>3, <2>1, <2>2
  <2> QED
    BY <1>3, <1>4, <2>1, <2>3
<1>7. V \subseteq Int
  OBVIOUS
<1>8. VarintLen(k, g) = IF V = {} THEN 0 ELSE CHOOSE n \in V : \A m \in V : n <= m
  BY DEF VarintLen
<1> HIDE DEF V
<1>9. VarintLen(k, g) = l
  <2> DEFINE c == CHOOSE n \in V : \A m \in V : n <= m
  <2>1. c \in V /\ \A m \in V : c <= m
    BY <1>5, <1>6
  <2>2. VarintLen(k, g) = c
    BY <1>5, <1>8
  <2> HIDE DEF c
  <2> QED
    BY <1>5, <1>6, <1>7, <2>1, <2>2
<1> QED
  BY <1>1, <1>3, <1>9 DEF l

LEMMA CutOff ==
  ASSUME NEW data \in Seq(Byte), bytes = data, NEW k \in 0 .. Len(data) - 1,
         ~ Whole(data, k), NEW g
  PROVE  VarintLen(k, g) = 0 \/ k + VarintLen(k, g) > Len(data)
<1> DEFINE l == FormatLen(data, k)
           V == {n \in 1 .. MaxVarint : ByteAt(k + n - 1, g) < Digits}
<1>1. l \in 1 .. MaxVarint /\ MaxVarint \in Nat /\ Len(data) \in Nat
  BY FormatLenType, PayloadAssumption, LenProperties
<1>2. k + l > Len(data)
  BY <1>1 DEF Whole
<1>3. l = MaxVarint
  <2> SUFFICES ASSUME l < MaxVarint PROVE FALSE
    BY <1>1
  <2>1. Ends(data, k, l)
    BY FormatLenType
  <2> HIDE DEF l
  <2> QED
    BY <1>1, <1>2, <2>1 DEF Ends
<1>4. \A n \in 1 .. Len(data) - k : ~ (data[k + n] < Digits)
  <2>1. \A n \in 1 .. Len(data) - k : n < MaxVarint => ~ (data[k + n] < Digits)
    <3>1. k \in Int
      BY <1>1
    <3>2. FormatLen(data, k) = MaxVarint
      BY <1>3
    <3> QED
      BY <3>1, <3>2, FormatLenType
  <2> HIDE DEF l
  <2>2. \A n \in 1 .. Len(data) - k : n < MaxVarint
    BY <1>1, <1>2, <1>3
  <2> QED
    BY <2>1, <2>2
<1> HIDE DEF l
<1>5. ASSUME NEW n \in V PROVE k + n > Len(data)
  <2>1. n \in 1 .. MaxVarint /\ ByteAt(k + n - 1, g) < Digits
    OBVIOUS
  <2>2. SUFFICES ASSUME k + n <= Len(data) PROVE FALSE
    BY <1>1, <2>1
  <2>3. n \in 1 .. Len(data) - k
    BY <1>1, <2>1, <2>2
  <2>4. k + n - 1 \in 0 .. Len(data) - 1 /\ (k + n - 1) + 1 = k + n
    BY <1>1, <2>1, <2>2
  <2>5. ByteAt(k + n - 1, g) = data[k + n]
    BY <2>4 DEF ByteAt
  <2> QED
    BY <1>4, <2>1, <2>3, <2>5
<1>6. VarintLen(k, g) = IF V = {} THEN 0 ELSE CHOOSE n \in V : \A m \in V : n <= m
  BY DEF VarintLen
<1>7. V # {} => \E n \in V : \A m \in V : n <= m
  <2>1. V \subseteq Nat
    OBVIOUS
  <2> HIDE DEF V
  <2> QED
    BY <2>1, LeastOne
<1> HIDE DEF V
<1>8. V # {} => VarintLen(k, g) \in V
  BY <1>6, <1>7
<1> QED
  BY <1>5, <1>6, <1>8

(* An int holds what is less than its limit.                               *)
LEMMA ToIntIs ==
  ASSUME NEW x \in Int
  PROVE  /\ ToInt(x) \in Int
         /\ x \in 0 .. IntLimit - 1 => ToInt(x) = x
<1>1. IntLimit \in Nat \ {0} /\ 2 * IntLimit \in Nat \ {0}
  BY PayloadAssumption
<1>2. ToInt(x) \in Int
  BY <1>1 DEF ToInt
<1>3. ASSUME x \in 0 .. IntLimit - 1 PROVE ToInt(x) = x
  <2>1. PICK y \in Nat : y = x + IntLimit
    BY <1>1, <1>3
  <2>2. PICK z \in Nat \ {0} : z = 2 * IntLimit
    BY <1>1
  <2>3. y < z
    BY <1>1, <1>3, <2>1, <2>2
  <2>4. y % z = y
    BY <2>3
  <2> QED
    BY <1>1, <2>1, <2>2, <2>4 DEF ToInt
<1> QED
  BY <1>2, <1>3

(* The sum that the decoder takes of a varint.                             *)
Horners(h, k, g) ==
  /\ h \in [0 .. MaxVarint -> Int] /\ h[0] = 0
  /\ \A m \in 1 .. MaxVarint :
       h[m] = Digits * h[m - 1] + (ByteAt(k + m - 1, g) % Digits)

LEMMA VarintIs ==
  ASSUME bytes \in Seq(Byte), NEW k \in Int, NEW g \in Byte
  PROVE  \E h : Horners(h, k, g) /\ Varint(k, g) = ToInt(h[VarintLen(k, g)])
<1> DEFINE digit(n) == ByteAt(k + n - 1, g) % Digits
           d == [n \in 1 .. MaxVarint |-> digit(n)]
           body(f) == [n \in 0 .. MaxVarint |->
                         IF n = 0 THEN 0 ELSE Digits * f[n - 1] + digit(n)]
           h == CHOOSE f : f = body(f)
<1>1. Varint(k, g) = ToInt(h[VarintLen(k, g)])
  BY DEF Varint
<1>2. MaxVarint \in Nat /\ Digits \in Int
  BY PayloadAssumption
<1>3. \A n \in 1 .. MaxVarint : digit(n) \in Int
  <2> SUFFICES ASSUME NEW n \in 1 .. MaxVarint PROVE digit(n) \in Int
    OBVIOUS
  <2>1. PICK j \in Int : j = k + n - 1
    BY <1>2
  <2>2. ByteAt(j, g) % Digits \in Nat
    BY ByteAtType, ByteIs
  <2> QED
    BY <2>1, <2>2
<1>4. PICK o \in Int : o = 0
  OBVIOUS
<1> HIDE DEF digit
<1>5. d \in [o + 1 .. MaxVarint -> Int] /\ o <= MaxVarint /\ MaxVarint \in Int
  BY <1>2, <1>3, <1>4
<1>6. \A f : body(f) = Line(f, o, MaxVarint, o, Digits, d)
  <2> SUFFICES ASSUME NEW f PROVE body(f) = Line(f, o, MaxVarint, o, Digits, d)
    OBVIOUS
  <2>1. \A n \in 0 .. MaxVarint : n # 0 => d[n] = digit(n)
    BY <1>2
  <2> HIDE DEF d
  <2> QED
    BY <1>4, <2>1 DEF Line
<1> HIDE DEF d
<1>7. \E f : f = Line(f, o, MaxVarint, o, Digits, d)
  <2>1. Solvable(o, MaxVarint, o, Digits, d)
    BY ONLY <1>2, <1>5, o \in Int, LineSolves
  <2> QED
    BY <2>1 DEF Solvable
<1>8. h = body(h)
  BY <1>6, <1>7
<1> HIDE DEF h
<1>9. h = Line(h, o, MaxVarint, o, Digits, d)
  BY <1>6, <1>8
<1>10. Follows(h, o, MaxVarint, o, Digits, d)
  BY ONLY <1>2, <1>5, <1>9, o \in Int, LineFollows
<1>11. h \in [0 .. MaxVarint -> Int] /\ h[0] = 0
  BY <1>4, <1>10 DEF Follows
<1>12. ASSUME NEW m \in 1 .. MaxVarint
       PROVE  h[m] = Digits * h[m - 1] + digit(m)
  <2>1. m \in 0 .. MaxVarint /\ m # 0
    BY <1>2
  <2> QED
    BY <1>8, <2>1
<1>13. Horners(h, k, g)
  BY <1>11, <1>12 DEF Horners, digit
<1> QED
  BY <1>1, <1>13

(* The digits of the varint at k.                                          *)
DigitsAt(data, k) == [m \in 1 .. FormatLen(data, k) |-> data[k + m] % Digits]

LEMMA DigitsAtIs ==
  ASSUME NEW data \in Seq(Byte), NEW k \in Nat,
         k + FormatLen(data, k) <= Len(data)
  PROVE  /\ DigitsAt(data, k) \in Seq(Nat)
         /\ Len(DigitsAt(data, k)) = FormatLen(data, k)
         /\ \A m \in 1 .. FormatLen(data, k) :
              DigitsAt(data, k)[m] = data[k + m] % Digits
<1> DEFINE l == FormatLen(data, k)
<1>1. l \in Nat /\ Len(data) \in Nat
  BY FormatLenType, LenProperties
<1>2. \A m \in 1 .. l : data[k + m] % Digits \in Nat
  <2> SUFFICES ASSUME NEW m \in 1 .. l PROVE data[k + m] % Digits \in Nat
    OBVIOUS
  <2>1. PICK j \in 1 .. Len(data) : j = k + m
    <3>1. k + m \in 1 .. Len(data)
      BY <1>1
    <3> QED
      BY <3>1
  <2>2. data[j] \in Byte
    BY ElementOfSeq
  <2> QED
    BY <2>1, <2>2, ByteIs
<1>3. DigitsAt(data, k) = [m \in 1 .. l |-> data[k + m] % Digits]
  BY DEF DigitsAt
<1> HIDE DEF l
<1> QED
  BY <1>1, <1>2, <1>3 DEF l

LEMMA FormatVarintType ==
  ASSUME NEW data \in Seq(Byte), NEW k \in Nat,
         k + FormatLen(data, k) <= Len(data)
  PROVE  FormatVarint(data, k) \in Nat
<1>1. DigitsAt(data, k) \in Seq(Nat) /\ Digits \in Nat
  BY DigitsAtIs, PayloadAssumption
<1>2. FormatVarint(data, k) = PlaceValue(DigitsAt(data, k), Digits)
  BY DEF FormatVarint, DigitsAt
<1> QED
  BY <1>1, <1>2, PlaceValueIsNat

VarintAgrees(data, k, g) ==
  /\ VarintLen(k, g) = FormatLen(data, k)
  /\ FormatLen(data, k) \in Nat \ {0}
  /\ k + FormatLen(data, k) <= Len(data)
  /\ data[k + FormatLen(data, k)] < Digits
  /\ Varint(k, g) = FormatVarint(data, k)
  /\ FormatVarint(data, k) \in Nat

LEMMA VarintsAgree ==
  ASSUME NEW data \in Seq(Byte), bytes = data, ~ Extreme(data),
         NEW k \in 0 .. Len(data) - 1, Begins(data, k), Whole(data, k),
         NEW g \in Byte
  PROVE  VarintAgrees(data, k, g)
<1> DEFINE l == FormatLen(data, k)
           q == DigitsAt(data, k)
<1>1. /\ VarintLen(k, g) = l /\ l \in 1 .. MaxVarint /\ k + l <= Len(data)
      /\ MaxVarint \in Nat /\ Digits \in Nat /\ Len(data) \in Nat /\ k \in Nat
      /\ data[k + l] < Digits
  BY LengthsAgree, PayloadAssumption, LenProperties
<1>2. /\ q \in Seq(Nat) /\ Len(q) = l
      /\ \A m \in 1 .. l : q[m] = data[k + m] % Digits
  BY <1>1, DigitsAtIs
<1>3. FormatVarint(data, k) = PlaceValue(q, Digits)
  BY DEF FormatVarint, DigitsAt
<1>4. FormatVarint(data, k) \in 0 .. IntLimit - 1
  <2>1. FormatVarint(data, k) \in Nat
    BY <1>1, FormatVarintType
  <2>2. ~ (FormatVarint(data, k) >= IntLimit)
    BY DEF Extreme
  <2> QED
    BY <2>1, <2>2, PayloadAssumption
<1> HIDE DEF l, q
<1>5. q \in Seq(Int) /\ Digits \in Int
  BY <1>1, <1>2
<1>6. PICK w : Adds(w, q, Digits) /\ PlaceValue(q, Digits) = w[Len(q)]
  BY <1>5, PlaceValueIs
<1>7. PICK h : Horners(h, k, g) /\ Varint(k, g) = ToInt(h[VarintLen(k, g)])
  BY <1>1, VarintIs
<1>8. PICK o \in Int : o = 0
  OBVIOUS
<1>9. \A m \in 1 .. l : q[m] \in Int
  BY <1>2, ElementOfSeq
<1>10. ASSUME NEW m \in 1 .. l
       PROVE  ByteAt(k + m - 1, g) = data[k + m]
  <2>1. k + m - 1 \in 0 .. Len(data) - 1 /\ (k + m - 1) + 1 = k + m
    BY <1>1
  <2> QED
    BY <2>1 DEF ByteAt
<1>11. ASSUME NEW m \in 1 .. l
       PROVE  h[m] = Digits * h[m - 1] + q[m]
  <2>1. m \in 1 .. MaxVarint
    BY <1>1
  <2>2. h[m] = Digits * h[m - 1] + (ByteAt(k + m - 1, g) % Digits)
    BY <1>7, <2>1 DEF Horners
  <2> QED
    BY <1>2, <1>10, <2>2
<1>12. /\ o \in 0 .. l /\ l \in Nat
       /\ \A m \in 0 .. l : w[m] \in Int
       /\ \A m \in o .. l : h[m] \in Int
  <2>1. \A m \in o .. l : m \in 0 .. MaxVarint
    BY <1>1, <1>8
  <2>2. \A m \in o .. l : h[m] \in Int
    BY <1>7, <2>1 DEF Horners
  <2> QED
    BY <1>1, <1>2, <1>6, <1>8, <2>2 DEF Adds
<1>13. w[o] - o = h[o] * Power(Digits, l - o)
  <2>1. w[o] = 0 /\ h[o] = 0 /\ l - o = l /\ Power(Digits, l) \in Int
    BY <1>6, <1>7, <1>5, <1>8, <1>12, PowerIs DEF Adds, Horners
  <2>2. 0 * Power(Digits, l) = 0
    BY <2>1
  <2> QED
    BY <1>8, <2>1, <2>2
<1>14. w[l] - o = h[l]
  <2>1. \A m \in o + 1 .. l : w[m] = w[m - 1] + q[m] * Power(Digits, l - m)
    BY <1>2, <1>6, <1>8 DEF Adds
  <2>2. Evaluates(w, h, q, o, l, Digits, o)
    BY <1>8, <1>9, <1>11, <1>12, <1>13, <2>1 DEF Evaluates
  <2> QED
    BY ONLY <1>5, <1>12, <2>2, o \in Int, Horner
<1>15. h[l] = FormatVarint(data, k)
  <2>1. w[l] \in Int
    BY <1>12
  <2> QED
    BY <1>2, <1>3, <1>6, <1>8, <1>14, <2>1
<1>16. Varint(k, g) = FormatVarint(data, k)
  BY <1>1, <1>4, <1>7, <1>15, ToIntIs
<1> QED
  BY <1>1, <1>4, <1>16 DEF VarintAgrees, l

(* Anywhere, a varint has a length and a value.                            *)
LEMMA VarintType ==
  ASSUME bytes \in Seq(Byte), NEW k \in Int, NEW g \in Byte
  PROVE  VarintLen(k, g) \in Nat /\ Varint(k, g) \in Int
<1>1. MaxVarint \in Nat
  BY PayloadAssumption
<1>2. VarintLen(k, g) \in 0 .. MaxVarint
  <2> DEFINE V == {n \in 1 .. MaxVarint : ByteAt(k + n - 1, g) < Digits}
             c == CHOOSE n \in V : \A m \in V : n <= m
  <2>1. VarintLen(k, g) = IF V = {} THEN 0 ELSE c
    BY DEF VarintLen
  <2>2. CASE V = {}
    BY <1>1, <2>1, <2>2
  <2>3. CASE V # {}
    <3>1. V \subseteq 1 .. MaxVarint /\ V \subseteq Nat
      OBVIOUS
    <3> HIDE DEF V
    <3>2. \E n \in V : \A m \in V : n <= m
      BY <2>3, <3>1, LeastOne
    <3>3. c \in V
      BY <3>2
    <3> HIDE DEF c
    <3>4. c \in 1 .. MaxVarint
      BY <3>1, <3>3
    <3> QED
      BY <1>1, <2>1, <2>3, <3>4
  <2> QED
    BY <2>2, <2>3
<1>3. PICK h : Horners(h, k, g) /\ Varint(k, g) = ToInt(h[VarintLen(k, g)])
  BY VarintIs
<1>4. h[VarintLen(k, g)] \in Int
  BY <1>2, <1>3 DEF Horners
<1>5. Varint(k, g) \in Int
  BY <1>3, <1>4, ToIntIs
<1> QED
  BY <1>1, <1>2, <1>5

-----------------------------------------------------------------------------
(* Values: from the same place, the decoder makes what the format says.    *)

(* The bytes of a value inside the row.                                    *)
RawAt(data, k, len) == SubSeq(data, k + 1, k + len)

LEMMA RawIs ==
  ASSUME NEW data \in Seq(Byte), NEW k \in Nat, NEW len \in Nat,
         k + len <= Len(data)
  PROVE  /\ RawAt(data, k, len) \in Seq(Byte)
         /\ Len(RawAt(data, k, len)) = len
         /\ \A m \in 1 .. len :
              RawAt(data, k, len)[m] = data[k + m] /\ data[k + m] \in Byte
<1>1. PICK a \in Int : a = k + 1
  OBVIOUS
<1>2. PICK b \in Int : b = k + len
  OBVIOUS
<1>3. Len(data) \in Nat
  BY LenProperties
<1>4. \A j \in a .. b : data[j] \in Byte
  <2>1. \A j \in a .. b : j \in 1 .. Len(data)
    BY <1>1, <1>2, <1>3
  <2> QED
    BY <2>1, ElementOfSeq
<1>5. RawAt(data, k, len) = SubSeq(data, a, b)
  BY <1>1, <1>2 DEF RawAt
<1>6. /\ SubSeq(data, a, b) \in Seq(Byte)
      /\ Len(SubSeq(data, a, b)) = IF a <= b THEN b - a + 1 ELSE 0
      /\ \A j \in 1 .. b - a + 1 : SubSeq(data, a, b)[j] = data[a + j - 1]
  BY ONLY <1>4, a \in Int, b \in Int, SubSeqProperties
<1>7. (IF a <= b THEN b - a + 1 ELSE 0) = len /\ b - a + 1 = len
  BY <1>1, <1>2
<1>8. ASSUME NEW m \in 1 .. len
      PROVE  SubSeq(data, a, b)[m] = data[k + m] /\ data[k + m] \in Byte
  <2>1. a + m - 1 = k + m /\ m \in 1 .. b - a + 1 /\ k + m \in a .. b
    BY <1>1, <1>2
  <2>2. SubSeq(data, a, b)[m] = data[a + m - 1]
    BY <1>6, <2>1
  <2>3. data[k + m] \in Byte
    BY <1>4, <2>1
  <2> QED
    BY <2>1, <2>2, <2>3
<1> QED
  BY <1>5, <1>6, <1>7, <1>8

Shown(data, k, len, g) == \A m \in 1 .. len : ByteAt(k + m - 1, g) = data[k + m]

LEMMA BytesShown ==
  ASSUME NEW data \in Seq(Byte), bytes = data, NEW k \in Nat, NEW len \in Nat,
         k + len <= Len(data), NEW g
  PROVE  Shown(data, k, len, g)
<1> SUFFICES ASSUME NEW m \in 1 .. len
             PROVE  ByteAt(k + m - 1, g) = data[k + m]
  BY DEF Shown
<1>1. k + m - 1 \in 0 .. Len(data) - 1 /\ (k + m - 1) + 1 = k + m
  BY LenProperties
<1> QED
  BY <1>1 DEF ByteAt

LEMMA BytesAgree ==
  ASSUME NEW data \in Seq(Byte), bytes = data, NEW k \in Nat, NEW len \in Nat,
         k + len <= Len(data), NEW g
  PROVE  BytesAt(k, len, g) = RawAt(data, k, len)
<1>1. \A m \in 1 .. len : ByteAt(k + m - 1, g) = data[k + m]
  <2>1. Shown(data, k, len, g)
    BY BytesShown
  <2> QED
    BY <2>1 DEF Shown
<1>2. PICK r \in Seq(Byte) : r = RawAt(data, k, len)
  BY RawIs
<1>3. Len(r) = len /\ \A m \in 1 .. len : r[m] = data[k + m]
  BY <1>2, RawIs
<1>4. r = [m \in 1 .. len |-> r[m]]
  BY <1>3
<1>5. BytesAt(k, len, g) = r
  BY <1>1, <1>3, <1>4 DEF BytesAt
<1> QED
  BY <1>2, <1>5

(* The sum that the decoder takes of an integer.                           *)
Signed(h, data, k, len) ==
  /\ \A m \in 1 .. len : h[m] \in Int
  /\ h[1] = SignedByte(data[k + 1])
  /\ \A m \in 2 .. len : h[m] = (2 * Digits) * h[m - 1] + data[k + m]

LEMMA IntIs ==
  ASSUME NEW data \in Seq(Byte), bytes = data, NEW k \in Nat,
         NEW len \in Nat \ {0}, k + len <= Len(data), NEW g \in Byte
  PROVE  \E h : Signed(h, data, k, len) /\ IntAt(k, len, g) = h[len]
<1> DEFINE a == SignedByte(ByteAt(k, g))
           digit(n) == ByteAt(k + n - 1, g)
           d == [n \in 2 .. len |-> digit(n)]
           body(f) == [n \in 1 .. len |->
                         IF n = 1 THEN a ELSE 2 * Digits * f[n - 1] + digit(n)]
           h == CHOOSE f : f = body(f)
<1>1. IntAt(k, len, g) = h[len]
  BY DEF IntAt
<1>2. Digits \in Nat
  BY PayloadAssumption
<1>3. PICK c \in Int : c = 2 * Digits
  BY <1>2
<1>4. \A n \in 1 .. len : digit(n) = data[k + n] /\ data[k + n] \in Byte
  <2>1. \A m \in 1 .. len : ByteAt(k + m - 1, g) = data[k + m]
    <3>1. Shown(data, k, len, g)
      BY BytesShown
    <3> QED
      BY <3>1 DEF Shown
  <2>2. \A m \in 1 .. len : data[k + m] \in Byte
    BY RawIs
  <2> QED
    BY <2>1, <2>2
<1>5. a = SignedByte(data[k + 1]) /\ a \in Int
  <2>1. k + 1 - 1 = k /\ 1 \in 1 .. len
    OBVIOUS
  <2>2. ByteAt(k, g) = data[k + 1] /\ data[k + 1] \in Byte
    BY <1>4, <2>1
  <2>3. data[k + 1] \in Nat
    BY <2>2, ByteIs
  <2> QED
    BY <1>2, <2>2, <2>3 DEF SignedByte
<1> HIDE DEF a, digit
<1>6. PICK o \in Int : o = 1
  OBVIOUS
<1>7. d \in [o + 1 .. len -> Int] /\ o <= len /\ len \in Int
  <2>1. \A n \in o + 1 .. len : n \in 2 .. len /\ n \in 1 .. len
    BY <1>6
  <2>2. o + 1 .. len = 2 .. len
    BY <1>6
  <2>3. \A n \in 2 .. len : digit(n) \in Int
    <3> SUFFICES ASSUME NEW n \in 2 .. len PROVE digit(n) \in Int
      OBVIOUS
    <3>1. n \in 1 .. len
      OBVIOUS
    <3>2. digit(n) \in Byte
      BY <1>4, <3>1
    <3> QED
      BY <3>2, ByteIs
  <2> QED
    BY <1>6, <2>2, <2>3
<1>8. \A f : body(f) = Line(f, o, len, a, c, d)
  <2> SUFFICES ASSUME NEW f PROVE body(f) = Line(f, o, len, a, c, d)
    OBVIOUS
  <2>1. \A n \in 1 .. len : n # 1 => d[n] = digit(n)
    OBVIOUS
  <2> HIDE DEF d
  <2>2. body(f) = [n \in 1 .. len |-> IF n = 1 THEN a ELSE c * f[n - 1] + digit(n)]
    BY <1>3
  <2> QED
    BY <1>6, <2>1, <2>2 DEF Line
<1> HIDE DEF d
<1>9. \E f : f = Line(f, o, len, a, c, d)
  <2>1. Solvable(o, len, a, c, d)
    BY ONLY <1>5, <1>7, c \in Int, o \in Int, LineSolves
  <2> QED
    BY <2>1 DEF Solvable
<1>10. h = body(h)
  BY <1>8, <1>9
<1> HIDE DEF h
<1>11. h = Line(h, o, len, a, c, d)
  BY <1>8, <1>10
<1>12. Follows(h, o, len, a, c, d)
  BY ONLY <1>5, <1>7, <1>11, c \in Int, o \in Int, LineFollows
<1>13. h \in [1 .. len -> Int] /\ h[1] = a
  BY <1>6, <1>12 DEF Follows
<1>14. ASSUME NEW m \in 2 .. len
       PROVE  h[m] = (2 * Digits) * h[m - 1] + data[k + m]
  <2>1. m \in 1 .. len /\ m # 1
    OBVIOUS
  <2>2. h[m] = 2 * Digits * h[m - 1] + digit(m)
    BY <1>10, <2>1
  <2> QED
    BY <1>4, <2>1, <2>2
<1>15. Signed(h, data, k, len)
  BY <1>5, <1>13, <1>14 DEF Signed
<1> QED
  BY <1>1, <1>15

LEMMA IntsAgree ==
  ASSUME NEW data \in Seq(Byte), bytes = data, NEW k \in Nat,
         NEW len \in Nat \ {0}, k + len <= Len(data), NEW g \in Byte
  PROVE  IntAt(k, len, g) = TwosComplement(RawAt(data, k, len))
<1>1. PICK h : Signed(h, data, k, len) /\ IntAt(k, len, g) = h[len]
  BY IntIs
<1>2. PICK r : r = RawAt(data, k, len)
  OBVIOUS
<1>3. /\ r \in Seq(Byte) /\ Len(r) = len
      /\ \A m \in 1 .. len : r[m] = data[k + m] /\ data[k + m] \in Byte
  BY <1>2, RawIs
<1>4. Digits \in Nat
  BY PayloadAssumption
<1>5. PICK b \in Int : b = 2 * Digits
  BY <1>4
<1>6. \A m \in 1 .. len : r[m] \in Int
  BY <1>3, ByteIs
<1>7. r \in Seq(Int)
  BY <1>3, <1>6
<1>8. PICK w : Adds(w, r, b) /\ PlaceValue(r, b) = w[Len(r)]
  BY <1>7, PlaceValueIs
<1>9. PICK e \in Int : e = IF r[1] < Digits THEN 0 ELSE Power(b, len)
  <2>1. PICK p \in Int : p = Power(b, len)
    BY PowerIs
  <2>2. (IF r[1] < Digits THEN 0 ELSE p) \in Int
    OBVIOUS
  <2> QED
    BY <2>1, <2>2
<1>10. PICK o \in Int : o = 1
  OBVIOUS
<1>11. w[o] - e = h[o] * Power(b, len - o)
  <2>1. PICK j \in Nat : j = len - 1
    OBVIOUS
  <2>2. PICK p \in Int : p = Power(b, j)
    BY PowerIs
  <2>3. Power(b, len - o) = p /\ Power(b, len) = b * p
    <3>1. j + 1 = len /\ len - o = j
      BY <1>10, <2>1
    <3>2. Power(b, j + 1) = b * Power(b, j)
      BY PowerIs
    <3> QED
      BY <2>2, <3>1, <3>2
  <2>4. PICK x \in Int : x = r[1]
    BY <1>6
  <2>5. w[o] = x * p
    <3>1. 1 \in 1 .. Len(r) /\ Len(r) - 1 = j
      BY <1>3, <2>1
    <3>2. w[1] = w[1 - 1] + r[1] * Power(b, Len(r) - 1) /\ w[0] = 0
      BY <1>8, <3>1 DEF Adds
    <3>3. x * p \in Int
      OBVIOUS
    <3> QED
      BY <1>10, <2>2, <2>4, <3>1, <3>2, <3>3
  <2>6. h[o] = IF x < Digits THEN x ELSE x - b
    BY <1>1, <1>3, <1>5, <1>10, <2>4 DEF Signed, SignedByte
  <2>7. CASE x < Digits
    <3>1. x * p \in Int /\ e = 0
      BY <1>9, <2>4, <2>7
    <3> QED
      BY <2>3, <2>5, <2>6, <2>7, <3>1
  <2>8. CASE ~ (x < Digits)
    <3>1. e = b * p
      BY <1>9, <2>3, <2>4, <2>8
    <3>2. x * p - b * p = (x - b) * p
      OBVIOUS
    <3> QED
      BY <2>3, <2>5, <2>6, <2>8, <3>1, <3>2
  <2> QED
    BY <2>7, <2>8
<1>12. Evaluates(w, h, r, o, len, b, e)
  <2>1. \A m \in o + 1 .. len : w[m] = w[m - 1] + r[m] * Power(b, len - m)
    BY <1>3, <1>8, <1>10 DEF Adds
  <2>2. \A m \in o + 1 .. len : h[m] = b * h[m - 1] + r[m]
    <3> SUFFICES ASSUME NEW m \in o + 1 .. len
                 PROVE  h[m] = b * h[m - 1] + r[m]
      OBVIOUS
    <3>1. m \in 2 .. len /\ m \in 1 .. len
      BY <1>10
    <3> QED
      BY <1>1, <1>3, <1>5, <3>1 DEF Signed
  <2>3. \A m \in o .. len : h[m] \in Int
    BY <1>1, <1>10 DEF Signed
  <2>4. \A m \in 0 .. len : w[m] \in Int
    BY <1>3, <1>8 DEF Adds
  <2> QED
    BY <1>6, <1>11, <2>1, <2>2, <2>3, <2>4 DEF Evaluates
<1>13. w[len] - e = h[len]
  <2>1. o \in 0 .. len /\ len \in Nat
    BY <1>10
  <2> QED
    BY ONLY <1>12, <2>1, b \in Int, e \in Int, Horner
<1>14. PlaceValue(r, b) = w[len] /\ w[len] \in Int
  <2>1. len \in 0 .. Len(r)
    BY <1>3
  <2> QED
    BY <1>3, <1>8, <2>1 DEF Adds
<1>15. TwosComplement(r) = IF r[1] < Digits THEN PlaceValue(r, b)
                           ELSE PlaceValue(r, b) - Power(b, Len(r))
  BY <1>5 DEF TwosComplement
<1>16. CASE r[1] < Digits
  BY <1>1, <1>2, <1>9, <1>13, <1>14, <1>15, <1>16
<1>17. CASE ~ (r[1] < Digits)
  BY <1>1, <1>2, <1>3, <1>9, <1>13, <1>14, <1>15, <1>17
<1> QED
  BY <1>16, <1>17

LEMMA LengthOfType ==
  ASSUME NEW type \in Int
  PROVE  /\ LengthOf(type) \in Nat
         /\ type \in 1 .. 6 => LengthOf(type) # 0
         /\ type = 7 => LengthOf(type) = 8
<1>1. CASE type < 0
  BY <1>1 DEF LengthOf
<1>2. CASE type >= 12
  <2>1. type % 2 \in 0 .. 1
    OBVIOUS
  <2>2. CASE type = 12
    BY <2>2 DEF LengthOf
  <2>3. CASE type # 12
    BY <1>2, <2>1, <2>3 DEF LengthOf
  <2> QED
    BY <2>2, <2>3
<1>3. CASE type \in 0 .. 11
  BY <1>3 DEF LengthOf
<1> QED
  BY <1>1, <1>2, <1>3

(* The value of the format, of a type and its bytes.                       *)
ValueOf(type, raw) ==
  IF type = 0 THEN [kind |-> "null", int |-> 0, raw |-> <<>>]
  ELSE IF type \in 1 .. 6
  THEN [kind |-> "integer", int |-> TwosComplement(raw), raw |-> <<>>]
  ELSE IF type = 7 THEN [kind |-> "number", int |-> 0, raw |-> raw]
  ELSE IF type \in {8, 9} THEN [kind |-> "integer", int |-> type - 8, raw |-> <<>>]
  ELSE [kind |-> IF type % 2 = 0 THEN "blob" ELSE "text", int |-> 0, raw |-> raw]

LEMMA FormatValueIs ==
  ASSUME NEW data, NEW j, NEW type \in Nat \ {10, 11}, type = Types(data)[j]
  PROVE  FormatValue(data, j) =
           ValueOf(type, RawAt(data, Offset(data, j), LengthOf(type)))
<1>1. PICK raw : raw = RawAt(data, Offset(data, j), LengthOf(type))
  OBVIOUS
<1>2. FormatValue(data, j) =
        CASE type = 0           -> [kind |-> "null", int |-> 0, raw |-> <<>>]
          [] type \in 1 .. 6    -> [kind |-> "integer", int |-> TwosComplement(raw),
                                    raw |-> <<>>]
          [] type = 7           -> [kind |-> "number", int |-> 0, raw |-> raw]
          [] type \in {8, 9}    -> [kind |-> "integer", int |-> type - 8, raw |-> <<>>]
          [] type >= 12         -> [kind |-> IF type % 2 = 0 THEN "blob" ELSE "text",
                                    int |-> 0, raw |-> raw]
  BY <1>1 DEF FormatValue, RawAt
<1>3. CASE type = 0
  BY <1>1, <1>2, <1>3 DEF ValueOf
<1>4. CASE type \in 1 .. 6
  BY <1>1, <1>2, <1>4 DEF ValueOf
<1>5. CASE type = 7
  BY <1>1, <1>2, <1>5 DEF ValueOf
<1>6. CASE type \in {8, 9}
  BY <1>1, <1>2, <1>6 DEF ValueOf
<1>7. CASE type >= 12
  BY <1>1, <1>2, <1>7 DEF ValueOf
<1> QED
  BY <1>3, <1>4, <1>5, <1>6, <1>7

LEMMA ValuesAgree ==
  ASSUME NEW data \in Seq(Byte), bytes = data, NEW type \in Nat \ {10, 11},
         NEW k \in Nat, k + LengthOf(type) <= Len(data), NEW g \in Byte
  PROVE  ValueAt(type, k, g) = ValueOf(type, RawAt(data, k, LengthOf(type)))
<1>1. PICK len \in Nat : len = LengthOf(type)
  BY LengthOfType
<1>2. PICK raw : raw = RawAt(data, k, len)
  OBVIOUS
<1>3. BytesAt(k, len, g) = raw
  BY <1>1, <1>2, BytesAgree
<1>4. CASE type = 0
  BY <1>4 DEF ValueAt, ValueOf
<1>5. CASE type \in 1 .. 6
  <2>1. len \in Nat \ {0}
    BY <1>1, <1>5, LengthOfType
  <2>2. IntAt(k, len, g) = TwosComplement(raw)
    BY <1>1, <1>2, <2>1, IntsAgree
  <2>3. ValueAt(type, k, g) = [kind |-> "integer", raw |-> <<>>, int |-> IntAt(k, len, g)]
    BY <1>1, <1>5 DEF ValueAt
  <2>4. ValueOf(type, raw) = [kind |-> "integer", int |-> TwosComplement(raw), raw |-> <<>>]
    BY <1>5 DEF ValueOf
  <2> QED
    BY <1>1, <1>2, <2>2, <2>3, <2>4
<1>6. CASE type = 7
  <2>1. len = 8
    BY <1>1, <1>6, LengthOfType
  <2>2. ValueAt(type, k, g) = [kind |-> "number", int |-> 0, raw |-> BytesAt(k, len, g)]
    BY <1>6, <2>1 DEF ValueAt
  <2> QED
    BY <1>1, <1>2, <1>3, <1>6, <2>2 DEF ValueOf
<1>7. CASE type \in {8, 9}
  BY <1>7 DEF ValueAt, ValueOf
<1>8. CASE type >= 12
  <2>1. ValueAt(type, k, g) = [kind |-> IF type % 2 = 0 THEN "blob" ELSE "text",
                               int |-> 0, raw |-> BytesAt(k, len, g)]
    BY <1>1, <1>8 DEF ValueAt
  <2>2. ValueOf(type, raw) = [kind |-> IF type % 2 = 0 THEN "blob" ELSE "text",
                              int |-> 0, raw |-> raw]
    BY <1>8 DEF ValueOf
  <2> QED
    BY <1>1, <1>2, <1>3, <2>1, <2>2
<1> QED
  BY <1>4, <1>5, <1>6, <1>7, <1>8

-----------------------------------------------------------------------------
(* The types of a record and the places of its values.                     *)

(* What the recursion of TypesFrom says at k.                              *)
TypesAt(f, data, k) ==
  IF k = FormatVarint(data, 0) THEN <<>>
  ELSE IF k > FormatVarint(data, 0) \/ k >= Len(data) \/ ~ Whole(data, k)
  THEN <<10>>
  ELSE <<FormatVarint(data, k)>> \o f[k + FormatLen(data, k)]

LEMMA TypesAtType ==
  ASSUME NEW data \in Seq(Byte), NEW k \in 0 .. Len(data), NEW f,
         \A j \in k + 1 .. Len(data) : f[j] \in Seq(Nat)
  PROVE  TypesAt(f, data, k) \in Seq(Nat)
<1>1. FormatLen(data, k) \in Nat \ {0} /\ Len(data) \in Nat /\ k \in Nat
  BY FormatLenType, LenProperties
<1>2. PICK l \in Nat \ {0} : l = FormatLen(data, k)
  BY <1>1
<1>6. Whole(data, k) <=> k + l <= Len(data)
  BY <1>2 DEF Whole
<1>3. CASE k = FormatVarint(data, 0)
  BY <1>3 DEF TypesAt
<1>4. CASE /\ k # FormatVarint(data, 0)
           /\ k > FormatVarint(data, 0) \/ k >= Len(data) \/ ~ Whole(data, k)
  <2>1. <<10>> \in Seq(Nat)
    OBVIOUS
  <2> QED
    BY <1>4, <2>1 DEF TypesAt
<1>5. CASE /\ k # FormatVarint(data, 0)
           /\ ~ (k > FormatVarint(data, 0) \/ k >= Len(data) \/ ~ Whole(data, k))
  <2>1. k + l \in k + 1 .. Len(data) /\ k + l <= Len(data)
    BY <1>1, <1>5, <1>6
  <2>2. PICK v \in Nat : v = FormatVarint(data, k)
    BY <1>1, <1>2, <2>1, FormatVarintType
  <2>3. PICK s \in Seq(Nat) : s = f[k + l]
    BY <2>1
  <2>4. <<v>> \o s \in Seq(Nat)
    OBVIOUS
  <2>5. TypesAt(f, data, k) = <<v>> \o s
    BY <1>2, <1>5, <2>2, <2>3 DEF TypesAt
  <2> QED
    BY <2>4, <2>5
<1> QED
  BY <1>3, <1>4, <1>5

(* f satisfies the recursion from lo to the end.                           *)
FollowsTypes(f, data, lo) ==
  /\ f \in [lo .. Len(data) -> Seq(Nat)]
  /\ \A k \in lo .. Len(data) : f[k] = TypesAt(f, data, k)

LEMMA TypesFollow ==
  ASSUME NEW data \in Seq(Byte)
  PROVE  \E f : FollowsTypes(f, data, 0)
<1>1. PICK n \in Nat : n = Len(data)
  BY LenProperties
<1> DEFINE S == {m \in 0 .. n : \E f : FollowsTypes(f, data, n - m)}
<1>2. \A f, g : \A k \in 0 .. n :
        (\A j \in k + 1 .. n : f[j] = g[j]) => TypesAt(f, data, k) = TypesAt(g, data, k)
  <2> SUFFICES ASSUME NEW f, NEW g, NEW k \in 0 .. n,
                      \A j \in k + 1 .. n : f[j] = g[j]
               PROVE  TypesAt(f, data, k) = TypesAt(g, data, k)
    OBVIOUS
  <2>1. PICK l \in Nat \ {0} : l = FormatLen(data, k)
    BY FormatLenType
  <2>2. CASE k + l > n
    BY <1>1, <2>1, <2>2 DEF TypesAt, Whole
  <2>3. CASE ~ (k + l > n)
    <3>1. f[k + l] = g[k + l]
      BY <2>3
    <3> QED
      BY <2>1, <3>1 DEF TypesAt
  <2> QED
    BY <2>2, <2>3
<1>3. 0 \in S
  <2> DEFINE f == [k \in n .. n |-> TypesAt(<<>>, data, n)]
  <2>1. TypesAt(<<>>, data, n) \in Seq(Nat) /\ n \in 0 .. n
    BY <1>1, TypesAtType
  <2>2. f \in [n .. n -> Seq(Nat)] /\ f[n] = TypesAt(<<>>, data, n)
    BY <2>1
  <2> HIDE DEF f
  <2>3. f[n] = TypesAt(f, data, n)
    BY <1>2, <2>1, <2>2
  <2>4. FollowsTypes(f, data, n) /\ n - 0 = n
    BY <1>1, <2>2, <2>3 DEF FollowsTypes
  <2> QED
    BY <2>4
<1>4. ASSUME NEW m \in 0 + 1 .. n, m - 1 \in S PROVE m \in S
  <2>1. PICK k \in Nat : k = n - m
    <3>1. n - m \in Nat
      OBVIOUS
    <3> QED
      BY <3>1
  <2>2. k \in 0 .. n /\ n - (m - 1) = k + 1 /\ m \in 0 .. n
    BY <2>1
  <2>3. PICK old : FollowsTypes(old, data, k + 1)
    BY <1>4, <2>2
  <2>4. PICK t \in Seq(Nat) : t = TypesAt(old, data, k)
    <3>1. \A j \in k + 1 .. Len(data) : old[j] \in Seq(Nat)
      BY <2>3 DEF FollowsTypes
    <3> QED
      BY <1>1, <2>2, <3>1, TypesAtType
  <2> DEFINE f == [j \in k .. n |-> IF j = k THEN t ELSE old[j]]
  <2>5. \A j \in k + 1 .. n : f[j] = old[j] /\ old[j] \in Seq(Nat)
    <3>1. \A j \in k + 1 .. n : old[j] \in Seq(Nat)
      BY <1>1, <2>3 DEF FollowsTypes
    <3>2. \A j \in k + 1 .. n : j \in k .. n /\ j # k
      OBVIOUS
    <3> QED
      BY <3>1, <3>2
  <2>6. f[k] = t
    BY <2>2
  <2>7. f \in [k .. n -> Seq(Nat)]
    <3>1. \A j \in k .. n : (IF j = k THEN t ELSE old[j]) \in Seq(Nat)
      <4>1. \A j \in k .. n : j = k \/ j \in k + 1 .. n
        OBVIOUS
      <4> QED
        BY <2>4, <2>5, <4>1
    <3> QED
      BY <3>1
  <2> HIDE DEF f
  <2>8. ASSUME NEW j \in k .. n
        PROVE  f[j] = TypesAt(f, data, j)
    <3>1. /\ j \in 0 .. n /\ \A i2 \in j + 1 .. n : i2 \in k + 1 .. n
      BY <2>2
    <3>2. \A i2 \in j + 1 .. n : f[i2] = old[i2]
      BY <2>5, <3>1
    <3>3. TypesAt(f, data, j) = TypesAt(old, data, j)
      BY <1>2, <3>1, <3>2
    <3>4. CASE j = k
      BY <2>4, <2>6, <3>3, <3>4
    <3>5. CASE j # k
      <4>1. j \in k + 1 .. n
        BY <3>5
      <4> QED
        BY <1>1, <2>3, <2>5, <3>3, <4>1 DEF FollowsTypes
    <3> QED
      BY <3>4, <3>5
  <2>9. FollowsTypes(f, data, n - m)
    BY <1>1, <2>1, <2>7, <2>8 DEF FollowsTypes
  <2> QED
    BY <2>2, <2>9
<1> HIDE DEF S
<1>5. 0 .. n \subseteq S
  BY ONLY <1>3, <1>4, n \in Nat, Climb
<1>6. n \in S
  BY <1>5
<1>7. \E f : FollowsTypes(f, data, n - n)
  BY <1>6 DEF S
<1> QED
  BY <1>7

LEMMA TypesFromIs ==
  ASSUME NEW data \in Seq(Byte)
  PROVE  /\ \A k \in 0 .. Len(data) : TypesFrom(data)[k] \in Seq(Nat)
         /\ \A k \in 0 .. Len(data) :
              TypesFrom(data)[k] = TypesAt(TypesFrom(data), data, k)
<1>1. PICK n \in Nat : n = Len(data)
  BY LenProperties
<1> DEFINE body(f) == [k \in 0 .. Len(data) |-> TypesAt(f, data, k)]
           g == TypesFrom(data)
<1>2. \E f : f = body(f)
  <2>1. PICK f : FollowsTypes(f, data, 0)
    BY TypesFollow
  <2>2. f = [k \in 0 .. Len(data) |-> f[k]]
    BY <2>1 DEF FollowsTypes
  <2>3. f = body(f)
    BY <2>1, <2>2 DEF FollowsTypes
  <2> QED
    BY <2>3
<1>3. g = CHOOSE f : f = body(f)
  BY DEF TypesFrom, TypesAt
<1>4. g = body(g)
  BY <1>2, <1>3
<1> HIDE DEF g
<1>5. \A k \in 0 .. n : g[k] = TypesAt(g, data, k)
  BY <1>1, <1>4
<1> DEFINE S == {m \in 0 .. n : \A j \in n - m .. n : g[j] \in Seq(Nat)}
<1>6. 0 \in S
  <2>1. n \in 0 .. n /\ \A j \in n + 1 .. n : g[j] \in Seq(Nat)
    OBVIOUS
  <2>2. TypesAt(g, data, n) \in Seq(Nat)
    BY <1>1, <2>1, TypesAtType
  <2>3. \A j \in n - 0 .. n : j = n
    OBVIOUS
  <2> QED
    BY <1>5, <2>1, <2>2, <2>3
<1>7. ASSUME NEW m \in 0 + 1 .. n, m - 1 \in S PROVE m \in S
  <2>1. PICK k \in Nat : k = n - m
    <3>1. n - m \in Nat
      OBVIOUS
    <3> QED
      BY <3>1
  <2>2. k \in 0 .. n /\ n - (m - 1) = k + 1 /\ m \in 0 .. n
    BY <2>1
  <2>3. \A j \in k + 1 .. n : g[j] \in Seq(Nat)
    BY <1>7, <2>2
  <2>4. g[k] \in Seq(Nat)
    BY <1>1, <1>5, <2>2, <2>3, TypesAtType
  <2>5. \A j \in n - m .. n : j = k \/ j \in k + 1 .. n
    BY <2>1
  <2> QED
    BY <2>2, <2>3, <2>4, <2>5
<1> HIDE DEF S
<1>8. 0 .. n \subseteq S
  BY ONLY <1>6, <1>7, n \in Nat, Climb
<1>9. n \in S
  BY <1>8
<1>10. \A j \in n - n .. n : g[j] \in Seq(Nat)
  BY <1>9 DEF S
<1>11. n - n = 0
  OBVIOUS
<1> QED
  BY <1>1, <1>5, <1>10, <1>11 DEF g

LEMMA InsideIs ==
  ASSUME NEW data \in Seq(Byte), ~ Extreme(data), NEW k \in 0 .. Len(data) - 1,
         Begins(data, k), Whole(data, k)
  PROVE  /\ FormatLen(data, k) \in Nat \ {0}
         /\ k + FormatLen(data, k) <= Len(data)
         /\ data[k + FormatLen(data, k)] < Digits
         /\ FormatVarint(data, k) \in Nat
<1>1. PICK l \in Nat \ {0} : l = FormatLen(data, k) /\ l \in 1 .. MaxVarint
  BY FormatLenType
<1>2. l < MaxVarint
  <2>1. l # MaxVarint
    BY <1>1 DEF Extreme
  <2> QED
    BY <1>1, <2>1, PayloadAssumption
<1>3. Ends(data, k, l)
  BY <1>1, <1>2, FormatLenType
<1>4. k + l <= Len(data) /\ k \in Nat /\ data[k + l] < Digits
  BY <1>3, LenProperties DEF Ends
<1>5. FormatVarint(data, k) \in Nat
  BY <1>1, <1>4, FormatVarintType
<1> QED
  BY <1>1, <1>4, <1>5

(* A row without extreme varints; one whose first varint is not cut off.   *)
Regular(data) == data \in Seq(Byte) /\ data # <<>> /\ ~ Extreme(data)
IsRow(data)   == Regular(data) /\ Whole(data, 0)

LEMMA TypesAre ==
  ASSUME NEW data, IsRow(data)
  PROVE  /\ Types(data) \in Seq(Nat) /\ Len(Types(data)) \in Nat
         /\ DOMAIN Types(data) = 1 .. Len(Types(data))
         /\ FormatVarint(data, 0) \in Nat
         /\ FormatLen(data, 0) \in 1 .. Len(data)
         /\ Types(data) = TypesFrom(data)[FormatLen(data, 0)]
         /\ data[FormatLen(data, 0)] < Digits
<1>1. data \in Seq(Byte) /\ Len(data) \in Nat \ {0} /\ ~ Extreme(data)
  BY DEF IsRow, Regular
<1>2. PICK o \in 0 .. Len(data) - 1 : o = 0 /\ Begins(data, o) /\ Whole(data, o)
  BY <1>1 DEF Begins, IsRow
<1>3. PICK l \in Nat \ {0} : l = FormatLen(data, o)
  BY <1>1, <1>2, InsideIs
<1>4. o + l <= Len(data) /\ FormatVarint(data, o) \in Nat /\ data[o + l] < Digits
  BY <1>1, <1>2, <1>3, InsideIs
<1>8. data[l] < Digits
  BY <1>2, <1>4
<1>5. l \in 1 .. Len(data) /\ l \in 0 .. Len(data)
  BY <1>1, <1>2, <1>4
<1>6. Types(data) = TypesFrom(data)[l]
  BY <1>2, <1>3 DEF Types
<1>7. Types(data) \in Seq(Nat)
  BY <1>1, <1>5, <1>6, TypesFromIs
<1> QED
  BY <1>2, <1>3, <1>4, <1>5, <1>6, <1>7, <1>8, LenProperties

(* The sum that Offset takes.                                              *)
Lengths(data, j) == [m \in 2 .. j |-> LengthOf(Types(data)[m - 1])]

LEMMA LengthsAre ==
  ASSUME NEW data, IsRow(data), NEW j \in 1 .. Len(Types(data)) + 1
  PROVE  /\ Lengths(data, j) \in [2 .. j -> Int]
         /\ \A m \in 2 .. j : LengthOf(Types(data)[m - 1]) \in Nat
<1>1. Types(data) \in Seq(Nat) /\ Len(Types(data)) \in Nat
  BY TypesAre
<1>2. ASSUME NEW m \in 2 .. j PROVE LengthOf(Types(data)[m - 1]) \in Nat
  <2>1. PICK i2 \in 1 .. Len(Types(data)) : i2 = m - 1
    BY <1>1
  <2>2. PICK type \in Int : type = Types(data)[i2]
    BY <1>1, <2>1, ElementOfSeq
  <2>3. LengthOf(Types(data)[i2]) \in Nat
    BY <2>2, LengthOfType
  <2> QED
    BY <2>1, <2>3
<1> QED
  BY <1>2 DEF Lengths

LEMMA PlacesExist ==
  ASSUME NEW data, IsRow(data), NEW j \in 1 .. Len(Types(data)) + 1
  PROVE  \E s : /\ Follows(s, 1, j, FormatVarint(data, 0), 1, Lengths(data, j))
                /\ Offset(data, j) = s[j]
<1> DEFINE body(f) == [m \in 1 .. j |-> IF m = 1 THEN FormatVarint(data, 0)
                                        ELSE f[m - 1] + LengthOf(Types(data)[m - 1])]
           s == CHOOSE f : f = body(f)
<1>1. Offset(data, j) = s[j]
  BY DEF Offset
<1>2. PICK a \in Int : a = FormatVarint(data, 0)
  BY TypesAre
<1>3. PICK d : d = Lengths(data, j)
  OBVIOUS
<1>4. PICK o \in Int : o = 1
  OBVIOUS
<1>5. d \in [o + 1 .. j -> Int] /\ o <= j /\ j \in Int
  <2>1. d \in [2 .. j -> Int]
    BY <1>3, LengthsAre
  <2>2. Len(Types(data)) \in Nat
    BY TypesAre
  <2>3. o + 1 .. j = 2 .. j
    BY <1>4
  <2> QED
    BY <1>4, <2>1, <2>2, <2>3
<1>6. \A f : body(f) = Sum(f, o, j, a, d)
  <2> SUFFICES ASSUME NEW f PROVE body(f) = Sum(f, o, j, a, d)
    OBVIOUS
  <2>1. \A m \in 1 .. j : m # 1 => d[m] = LengthOf(Types(data)[m - 1])
    <3>1. \A m \in 1 .. j : m # 1 => m \in 2 .. j
      OBVIOUS
    <3> QED
      BY <1>3, <3>1 DEF Lengths
  <2> QED
    BY <1>2, <1>4, <2>1 DEF Sum
<1>7. \E f : f = Sum(f, o, j, a, d)
  BY ONLY <1>5, a \in Int, o \in Int, SumExists
<1>8. s = body(s)
  BY <1>6, <1>7
<1> HIDE DEF s
<1>9. s = Sum(s, o, j, a, d)
  BY <1>6, <1>8
<1>10. Follows(s, o, j, a, 1, d)
  BY ONLY <1>5, <1>9, a \in Int, o \in Int, SumFollows
<1> QED
  BY <1>1, <1>2, <1>3, <1>4, <1>10

LEMMA OffsetIs ==
  ASSUME NEW data, IsRow(data)
  PROVE  /\ Offset(data, 1) = FormatVarint(data, 0)
         /\ \A j \in 1 .. Len(Types(data)) + 1 : Offset(data, j) \in Int
         /\ \A j \in 1 .. Len(Types(data)) :
              Offset(data, j + 1) = Offset(data, j) + LengthOf(Types(data)[j])
<1>1. Len(Types(data)) \in Nat
  BY TypesAre
<1>2. ASSUME NEW j \in 1 .. Len(Types(data)) + 1
      PROVE  Offset(data, j) \in Int /\ (j = 1 => Offset(data, 1) = FormatVarint(data, 0))
  <2>1. PICK s : /\ Follows(s, 1, j, FormatVarint(data, 0), 1, Lengths(data, j))
                 /\ Offset(data, j) = s[j]
    BY PlacesExist
  <2>2. j \in 1 .. j
    OBVIOUS
  <2> QED
    BY <2>1, <2>2 DEF Follows
<1>3. ASSUME NEW j \in 1 .. Len(Types(data))
      PROVE  Offset(data, j + 1) = Offset(data, j) + LengthOf(Types(data)[j])
  <2>1. PICK k \in 1 .. Len(Types(data)) + 1 : k = j + 1
    BY <1>1
  <2>2. j \in 1 .. Len(Types(data)) + 1 /\ 1 <= j /\ j <= k /\ j \in Int /\ k \in Int
    BY <1>1, <2>1
  <2>3. PICK s : /\ Follows(s, 1, j, FormatVarint(data, 0), 1, Lengths(data, j))
                 /\ Offset(data, j) = s[j]
    BY <2>2, PlacesExist
  <2>4. PICK t : /\ Follows(t, 1, k, FormatVarint(data, 0), 1, Lengths(data, k))
                 /\ Offset(data, k) = t[k]
    BY <2>1, PlacesExist
  <2>5. AddsAgree(Lengths(data, k), Lengths(data, j), 1, j)
    <3>1. \A m \in 1 + 1 .. j : m \in 2 .. j /\ m \in 2 .. k
      BY <2>1
    <3> QED
      BY <3>1 DEF AddsAgree, Lengths
  <2>6. Agree(t, s, 1, j)
    BY ONLY <2>2, <2>3, <2>4, <2>5, LinesAgree
  <2>7. t[j] = s[j]
    BY <2>2, <2>6 DEF Agree
  <2>8. t[k] = 1 * t[k - 1] + Lengths(data, k)[k] /\ t[j] \in Int /\ k - 1 = j
    BY <2>1, <2>2, <2>4 DEF Follows
  <2>9. Lengths(data, k)[k] = LengthOf(Types(data)[j])
    BY <2>1, <2>2, <2>8 DEF Lengths
  <2>10. 1 * t[j] = t[j]
    BY <2>8
  <2> QED
    BY <2>1, <2>3, <2>4, <2>7, <2>8, <2>9, <2>10
<1>4. 1 \in 1 .. Len(Types(data)) + 1
  BY <1>1
<1> QED
  BY <1>2, <1>3, <1>4

LEMMA OffsetsGrow ==
  ASSUME NEW data, IsRow(data), NEW j \in 1 .. Len(Types(data)) + 1
  PROVE  /\ Offset(data, j) <= Offset(data, Len(Types(data)) + 1)
         /\ Offset(data, j) \in Nat
<1>1. PICK n \in Nat : n = Len(Types(data))
  BY TypesAre
<1>2. PICK N \in Nat : N = n + 1
  OBVIOUS
<1>3. ASSUME NEW m \in 1 .. n
      PROVE  /\ Offset(data, m) \in Int /\ Offset(data, m + 1) \in Int
             /\ Offset(data, m) <= Offset(data, m + 1)
  <2>1. m \in 1 .. n + 1 /\ m + 1 \in 1 .. n + 1
    OBVIOUS
  <2>2. Offset(data, m) \in Int /\ Offset(data, m + 1) \in Int
    BY <1>1, <2>1, OffsetIs
  <2>3. PICK type \in Int : type = Types(data)[m]
    BY <1>1, TypesAre, ElementOfSeq
  <2>4. LengthOf(Types(data)[m]) \in Nat
    BY <2>3, LengthOfType
  <2>5. Offset(data, m + 1) = Offset(data, m) + LengthOf(Types(data)[m])
    BY <1>1, OffsetIs
  <2> QED
    BY <2>2, <2>4, <2>5
<1>4. j \in 1 .. N /\ j \in Int /\ N \in Int /\ j \in j .. N
  BY <1>1, <1>2
<1>5. Offset(data, j) \in Int
  BY OffsetIs
<1>6. Offset(data, j) <= Offset(data, N)
  <2> DEFINE S == {m \in j .. N : Offset(data, j) <= Offset(data, m) /\ Offset(data, m) \in Int}
  <2>1. j \in S
    BY <1>4, <1>5
  <2>2. ASSUME NEW m \in j + 1 .. N, m - 1 \in S PROVE m \in S
    <3>1. PICK k \in 1 .. n : k = m - 1
      BY <1>1, <1>2, <1>4
    <3>2. Offset(data, k) <= Offset(data, k + 1) /\ Offset(data, k + 1) \in Int
          /\ Offset(data, k) \in Int
      BY <1>3
    <3>3. k + 1 = m /\ m \in j .. N
      BY <1>4, <3>1
    <3> QED
      BY <1>5, <2>2, <3>1, <3>2, <3>3
  <2> HIDE DEF S
  <2>3. j .. N \subseteq S
    BY ONLY <1>4, <2>1, <2>2, Climb
  <2>4. N \in S
    BY <1>4, <2>3
  <2> QED
    BY <2>4 DEF S
<1>7. Offset(data, j) \in Nat
  <2> DEFINE S == {m \in 1 .. N : Offset(data, m) \in Nat}
  <2>1. 1 \in S
    <3>1. Offset(data, 1) = FormatVarint(data, 0) /\ FormatVarint(data, 0) \in Nat
      BY OffsetIs, TypesAre
    <3> QED
      BY <1>2, <3>1
  <2>2. ASSUME NEW m \in 1 + 1 .. N, m - 1 \in S PROVE m \in S
    <3>1. PICK k \in 1 .. n : k = m - 1
      BY <1>1, <1>2
    <3>2. Offset(data, k) <= Offset(data, k + 1) /\ Offset(data, k + 1) \in Int
          /\ Offset(data, k) \in Nat
      BY <1>3, <2>2, <3>1
    <3>3. k + 1 = m /\ m \in 1 .. N
      BY <3>1
    <3>4. Offset(data, k + 1) \in Nat
      BY <3>2
    <3> QED
      BY <3>3, <3>4
  <2> HIDE DEF S
  <2>3. 1 .. N \subseteq S
    BY ONLY <1>4, <2>1, <2>2, Climb
  <2> QED
    BY <1>4, <2>3 DEF S
<1> QED
  BY <1>1, <1>2, <1>6, <1>7

-----------------------------------------------------------------------------
(* The way through a record: what has been decoded is what the format says *)
(* and what is left of the types is what the format says from here on; or  *)
(* the row is no record, and the two offsets cannot come to their ends any *)
(* more.                                                                   *)

OnItsWay(data, d, items) ==
  LET T    == Types(data)
      n    == Len(items)
      rest == TypesFrom(data)[d.type]
  IN /\ Whole(data, 0) /\ d.types = FormatVarint(data, 0) /\ data[d.type] < Digits
     /\ d.types \in Nat /\ d.value \in Nat
     /\ d.types <= Len(data) /\ d.type <= d.types /\ d.value <= Len(data)
     /\ Len(T) = n + Len(rest) /\ \A j \in 1 .. Len(rest) : T[n + j] = rest[j]
     /\ d.value = Offset(data, n + 1)
     /\ \A j \in 1 .. n : T[j] \notin {10, 11} /\ items[j] = FormatValue(data, j)

NoRecord(data, d) ==
  ~ SoundRow(data) /\ (d.type > d.types \/ d.value > Len(data))

Offsets == [type : Nat \ {0}, types : Int, value : Int]

Way(data, d, items) ==
  d \in Offsets /\ (OnItsWay(data, d, items) \/ NoRecord(data, d))

(* A record ends where its values do, and has no type that is none.        *)
LEMMA SoundIs ==
  ASSUME NEW data, IsRow(data), SoundRow(data)
  PROVE  /\ \A j \in 1 .. Len(Types(data)) : Types(data)[j] \notin {10, 11}
         /\ \A j \in 1 .. Len(Types(data)) + 1 : Offset(data, j) <= Len(data)
         /\ Offset(data, Len(Types(data)) + 1) = Len(data)
<1>1. DOMAIN Types(data) = 1 .. Len(Types(data))
  BY TypesAre
<1>2. Offset(data, Len(Types(data)) + 1) = Len(data)
  BY DEF SoundRow
<1>3. ASSUME NEW j \in 1 .. Len(Types(data)) + 1
      PROVE  Offset(data, j) <= Len(data)
  <2>1. Offset(data, j) <= Offset(data, Len(Types(data)) + 1)
    BY OffsetsGrow
  <2> QED
    BY <1>2, <2>1
<1> QED
  BY <1>1, <1>2, <1>3 DEF SoundRow

(* The header.                                                             *)
LEMMA WayBegins ==
  ASSUME NEW data, IsRow(data), NEW d,
         d = Start(FormatLen(data, 0), FormatVarint(data, 0))
  PROVE  Way(data, d, <<>>)
<1>1. PICK h \in 1 .. Len(data) : h = FormatLen(data, 0)
  BY TypesAre
<1>2. PICK e \in Nat : e = FormatVarint(data, 0)
  BY TypesAre
<1>3. Len(data) \in Nat /\ data \in Seq(Byte)
  BY LenProperties DEF IsRow, Regular
<1>4. d = [type |-> h, types |-> e, value |-> e]
  BY <1>1, <1>2 DEF Start
<1>5. d \in Offsets /\ d.type = h /\ d.types = e /\ d.value = e /\ h \in Nat
  BY <1>1, <1>2, <1>3, <1>4 DEF Offsets
<1>6. Types(data) = TypesFrom(data)[h] /\ Types(data) \in Seq(Nat)
      /\ Len(Types(data)) \in Nat
  BY <1>1, TypesAre
<1>7. ASSUME e > Len(data) PROVE ~ SoundRow(data)
  <2>1. Offset(data, 1) = e
    BY <1>2, OffsetIs
  <2>2. 1 \in 1 .. Len(Types(data)) + 1
    BY <1>6
  <2> QED
    BY <1>3, <1>7, <2>1, <2>2, SoundIs
<1>8. ASSUME h > e PROVE ~ SoundRow(data)
  <2>1. h \in 0 .. Len(data)
    BY <1>1
  <2>2. TypesFrom(data)[h] = TypesAt(TypesFrom(data), data, h)
    BY <1>3, <2>1, TypesFromIs
  <2>3. TypesFrom(data)[h] = <<10>>
    BY <1>1, <1>2, <1>8, <2>2 DEF TypesAt
  <2>4. Len(Types(data)) = 1 /\ Types(data)[1] = 10
    BY <1>6, <2>3
  <2> QED
    BY <2>4, SoundIs
<1>9. CASE e > Len(data) \/ h > e
  BY <1>2, <1>5, <1>7, <1>8, <1>9 DEF Way, NoRecord
<1>10. CASE ~ (e > Len(data) \/ h > e)
  <2>1. Len(<<>>) = 0
    OBVIOUS
  <2>2. d.types <= Len(data) /\ d.type <= d.types /\ d.value <= Len(data)
    BY <1>1, <1>2, <1>3, <1>5, <1>10
  <2>6. Whole(data, 0) /\ d.types = FormatVarint(data, 0) /\ data[d.type] < Digits
    BY <1>1, <1>2, <1>5, TypesAre DEF IsRow
  <2>7. d.types \in Nat /\ d.value \in Nat
    BY <1>2, <1>5
  <2>3. /\ Len(Types(data)) = 0 + Len(TypesFrom(data)[d.type])
        /\ \A j \in 1 .. Len(TypesFrom(data)[d.type]) :
             Types(data)[0 + j] = TypesFrom(data)[d.type][j]
    BY <1>5, <1>6
  <2>4. d.value = Offset(data, 0 + 1)
    BY <1>2, <1>5, OffsetIs
  <2>5. OnItsWay(data, d, <<>>)
    BY <2>1, <2>2, <2>3, <2>4, <2>6, <2>7 DEF OnItsWay
  <2> QED
    BY <1>2, <1>5, <2>5 DEF Way
<1> QED
  BY <1>9, <1>10

(* A header whose length the row cuts off.                                 *)
LEMMA WayIsNone ==
  ASSUME NEW data, Regular(data), bytes = data, ~ Whole(data, 0), NEW g \in Byte
  PROVE  /\ ~ SoundRow(data)
         /\ VarintLen(0, g) # 0 =>
              Way(data, Start(VarintLen(0, g), Varint(0, g)), <<>>)
<1>1. data \in Seq(Byte) /\ Len(data) \in Nat \ {0}
  BY LenProperties DEF Regular
<1>2. ~ SoundRow(data)
  BY DEF SoundRow
<1>3. PICK o \in 0 .. Len(data) - 1 : o = 0
  BY <1>1
<1>4. VarintLen(o, g) = 0 \/ o + VarintLen(o, g) > Len(data)
  BY <1>1, <1>3, CutOff
<1>5. PICK l \in Nat : l = VarintLen(0, g)
  BY <1>1, <1>3, VarintType
<1>6. PICK v \in Int : v = Varint(0, g)
  BY <1>1, <1>3, VarintType
<1>7. ASSUME l # 0 PROVE Way(data, Start(l, v), <<>>)
  <2>1. PICK d : d = Start(l, v)
    OBVIOUS
  <2>2. d \in Offsets /\ d.type = l /\ d.types = v /\ d.value = v
    BY <1>7, <2>1 DEF Start, Offsets
  <2>3. l > Len(data)
    BY <1>1, <1>3, <1>4, <1>5, <1>7
  <2>4. d.type > d.types \/ d.value > Len(data)
    BY <1>1, <2>2, <2>3
  <2> QED
    BY <1>2, <2>1, <2>2, <2>4 DEF Way, NoRecord
<1> QED
  BY <1>2, <1>5, <1>6, <1>7

(* The end of the loop.                                                    *)
Ended(data, d) == d.value >= Len(data) /\ d.type >= d.types
Met(data, d)   == d.type = d.types /\ d.value = Len(data)

Decoded(data, items) ==
  /\ SoundRow(data)
  /\ items = [j \in DOMAIN Types(data) |-> FormatValue(data, j)]

LEMMA WayEnds ==
  ASSUME NEW data, Regular(data), NEW d, NEW items, IsSequence(items),
         Way(data, d, items), Ended(data, d)
  PROVE  /\ Met(data, d) => Decoded(data, items)
         /\ ~ Met(data, d) => ~ SoundRow(data)
<1>1. d \in Offsets /\ d.type \in Nat /\ d.types \in Int /\ d.value \in Int
      /\ Len(data) \in Nat /\ data \in Seq(Byte)
  BY LenProperties DEF Way, Offsets, Regular
<1>2. CASE NoRecord(data, d)
  BY <1>1, <1>2 DEF NoRecord, Met
<1>3. CASE OnItsWay(data, d, items)
  <2>r. IsRow(data)
    BY <1>3 DEF OnItsWay, IsRow
  <2>1. d.type = d.types /\ d.value = Len(data) /\ d.type \in 0 .. Len(data)
    BY <1>1, <1>3 DEF OnItsWay, Ended
  <2>2. d.type = FormatVarint(data, 0)
    BY <1>3, <2>1 DEF OnItsWay
  <2>3. TypesFrom(data)[d.type] = TypesAt(TypesFrom(data), data, d.type)
    BY <1>1, <2>1, TypesFromIs
  <2>4. TypesFrom(data)[d.type] = <<>>
    BY <2>2, <2>3 DEF TypesAt
  <2>5. PICK n \in Nat : n = Len(items) /\ DOMAIN items = 1 .. n
                         /\ items = [j \in 1 .. n |-> items[j]]
    BY DEF IsSequence
  <2>6. Len(Types(data)) = n /\ DOMAIN Types(data) = 1 .. n
    BY <1>3, <2>r, <2>4, <2>5, TypesAre DEF OnItsWay
  <2>7. \A j \in 1 .. n : Types(data)[j] \notin {10, 11} /\ items[j] = FormatValue(data, j)
    BY <1>3, <2>5 DEF OnItsWay
  <2>8. Offset(data, n + 1) = Len(data)
    BY <1>3, <2>1, <2>5 DEF OnItsWay
  <2>9. SoundRow(data)
    BY <2>r, <2>6, <2>7, <2>8 DEF SoundRow, IsRow, Regular
  <2>10. items = [j \in DOMAIN Types(data) |-> FormatValue(data, j)]
    BY <2>5, <2>6, <2>7
  <2> QED
    BY <2>1, <2>9, <2>10 DEF Decoded, Met
<1> QED
  BY <1>2, <1>3 DEF Way

(* One turn of the loop: it gives up only what is no record, and goes on   *)
(* on the way.                                                             *)
Rejected(data, d, len, type) ==
  len = 0 \/ type \in {10, 11} \/ d.type >= Len(data) + MaxBehind

Passed(d, len, type) ==
  [d EXCEPT !.type = @ + len, !.value = @ + LengthOf(type)]

LEMMA PassedIs ==
  ASSUME NEW d \in Offsets, NEW len \in Nat, NEW type \in Int
  PROVE  /\ Passed(d, len, type) \in Offsets
         /\ Passed(d, len, type).type = d.type + len
         /\ Passed(d, len, type).types = d.types
         /\ Passed(d, len, type).value = d.value + LengthOf(type)
<1>1. PICK n \in Nat : n = LengthOf(type)
  BY LengthOfType
<1>2. PICK a \in Nat \ {0} : a = d.type + len
  BY DEF Offsets
<1>3. PICK b \in Int : b = d.value + n
  BY DEF Offsets
<1>4. Passed(d, len, type) = [d EXCEPT !.type = a, !.value = b]
  BY <1>1, <1>2, <1>3 DEF Passed
<1> QED
  BY <1>1, <1>2, <1>3, <1>4 DEF Offsets

LEMMA NoRecordStays ==
  ASSUME NEW data \in Seq(Byte), NEW d \in Offsets, NoRecord(data, d),
         NEW len \in Nat, NEW type \in Int
  PROVE  NoRecord(data, Passed(d, len, type))
<1>1. PICK n \in Nat : n = LengthOf(type)
  BY LengthOfType
<1>2. d.type \in Nat /\ d.types \in Int /\ d.value \in Int /\ Len(data) \in Nat
  BY LenProperties DEF Offsets
<1>3. PICK e \in Offsets : e = Passed(d, len, type)
  BY PassedIs
<1>4. e.type = d.type + len /\ e.types = d.types /\ e.value = d.value + n
  BY <1>1, <1>3, PassedIs
<1>5. d.type > d.types => e.type > e.types
  BY <1>2, <1>4
<1>6. d.value > Len(data) => e.value > Len(data)
  BY <1>1, <1>2, <1>4
<1> QED
  BY <1>3, <1>5, <1>6 DEF NoRecord

(* The next type on the way is the one that is read.                       *)
TypeIsNext(data, d, n, len, type) ==
  /\ len # 0 /\ d.type + len <= Len(data) /\ type \in Nat
  /\ d.type < Len(data) /\ data[d.type + len] < Digits
  /\ n + 1 \in 1 .. Len(Types(data)) /\ Types(data)[n + 1] = type
  /\ Len(Types(data)) = (n + 1) + Len(TypesFrom(data)[d.type + len])
  /\ \A j \in 1 .. Len(TypesFrom(data)[d.type + len]) :
       Types(data)[(n + 1) + j] = TypesFrom(data)[d.type + len][j]

LEMMA NextType ==
  ASSUME NEW data, IsRow(data), bytes = data, NEW d \in Offsets,
         NEW items, IsSequence(items), OnItsWay(data, d, items),
         d.type < d.types, Whole(data, d.type), NEW g \in Byte,
         NEW len \in Nat, len = VarintLen(d.type, g),
         NEW type \in Int, type = Varint(d.type, g),
         NEW n \in Nat, n = Len(items)
  PROVE  TypeIsNext(data, d, n, len, type)
<1>1. data \in Seq(Byte) /\ ~ Extreme(data) /\ Len(data) \in Nat
      /\ d.type \in Nat /\ d.types \in Nat /\ d.types = FormatVarint(data, 0)
  BY LenProperties DEF IsRow, Regular, Offsets, OnItsWay
<1>2. PICK k \in 0 .. Len(data) - 1 : k = d.type
  BY <1>1 DEF OnItsWay
<1>3. VarintAgrees(data, k, g)
  <2>1. Begins(data, k) /\ Whole(data, k)
    BY <1>1, <1>2 DEF Begins, OnItsWay
  <2> QED
    BY <1>1, <2>1, VarintsAgree
<1>4. /\ len = FormatLen(data, k) /\ len # 0 /\ k + len <= Len(data)
      /\ type = FormatVarint(data, k) /\ type \in Nat
  BY <1>2, <1>3 DEF VarintAgrees
<1>e. data[d.type + len] < Digits
  BY <1>2, <1>3, <1>4 DEF VarintAgrees
<1>5. PICK k2 \in 0 .. Len(data) : k2 = k + len
  <2>1. PICK size \in Nat : size = Len(data)
    BY <1>1
  <2>2. k + len \in 0 .. size
    BY <1>4, <2>1
  <2> QED
    BY <2>1, <2>2
<1>6. PICK rest \in Seq(Nat) : rest = TypesFrom(data)[k2]
  BY <1>1, TypesFromIs
<1>7. k \in 0 .. Len(data)
  BY <1>1
<1>8. TypesFrom(data)[k] = TypesAt(TypesFrom(data), data, k)
  BY <1>1, <1>7, TypesFromIs
<1>9. TypesFrom(data)[k] = <<type>> \o rest
  <2>1. k # d.types /\ ~ (k > d.types) /\ ~ (k >= Len(data)) /\ Whole(data, k)
    <3>1. PICK e \in Nat, size \in Nat : e = d.types /\ size = Len(data)
      BY <1>1
    <3>2. k < e /\ k \in 0 .. size - 1
      BY <1>2, <3>1
    <3>3. k # e /\ ~ (k > e) /\ ~ (k >= size)
      BY ONLY <3>2, e \in Nat, size \in Nat
    <3> QED
      BY <1>2, <3>1, <3>3
  <2>2. /\ k # FormatVarint(data, 0) /\ ~ (k > FormatVarint(data, 0))
        /\ ~ (k >= Len(data)) /\ Whole(data, k)
    BY <1>1, <2>1
  <2>3. TypesFrom(data)[k] = <<FormatVarint(data, k)>> \o TypesFrom(data)[k + FormatLen(data, k)]
    BY <1>8, <2>2 DEF TypesAt
  <2> QED
    BY <1>4, <1>5, <1>6, <2>3
<1>10. PICK l \in Nat : l = Len(rest)
  BY LenProperties
<1>11. PICK s \in Seq(Nat) : s = <<type>> \o rest
  <2>1. PICK t \in Nat : t = type
    BY <1>4
  <2>2. <<t>> \o rest \in Seq(Nat)
    OBVIOUS
  <2> QED
    BY <2>1, <2>2
<1>12. /\ Len(s) = 1 + l /\ s[1] = type
       /\ \A j \in 1 .. l : s[j + 1] = rest[j]
  BY <1>4, <1>10, <1>11
<1>13. PICK T : T = Types(data)
  OBVIOUS
<1>14. Len(T) = n + Len(s) /\ \A j \in 1 .. Len(s) : T[n + j] = s[j]
  BY <1>2, <1>9, <1>11, <1>13 DEF OnItsWay
<1>15. Len(T) = (n + 1) + l
  BY <1>12, <1>14
<1>16. T[n + 1] = type
  <2>1. 1 \in 1 .. Len(s)
    BY <1>12
  <2> QED
    BY <1>12, <1>14, <2>1
<1>17. ASSUME NEW j \in 1 .. l
       PROVE  T[(n + 1) + j] = rest[j]
  <2>1. PICK j2 \in 1 .. Len(s) : j2 = j + 1
    BY <1>12
  <2>2. T[n + j2] = s[j2]
    BY <1>14
  <2>3. n + j2 = (n + 1) + j
    BY <2>1
  <2> QED
    BY <1>12, <2>1, <2>2, <2>3
<1>18. n + 1 \in 1 .. Len(T) /\ d.type < Len(data)
  <2>1. n + 1 \in 1 .. (n + 1) + l
    BY ONLY n \in Nat, l \in Nat
  <2>2. k < Len(data)
    BY <1>1
  <2> QED
    BY <1>2, <1>15, <2>1, <2>2
<1> QED
  BY <1>2, <1>4, <1>e, <1>5, <1>6, <1>10, <1>13, <1>15, <1>16, <1>17, <1>18
     DEF TypeIsNext

TurnIsRight(data, d, items, len, type, v) ==
  /\ Rejected(data, d, len, type) => ~ SoundRow(data)
  /\ ~ Rejected(data, d, len, type) =>
       Way(data, Passed(d, len, type), Append(items, v))

LEMMA TurnOnTheWay ==
  ASSUME NEW data, IsRow(data), bytes = data, NEW d \in Offsets,
         NEW items, IsSequence(items), OnItsWay(data, d, items),
         d.type < d.types, Whole(data, d.type), NEW g \in Byte,
         NEW len \in Nat, len = VarintLen(d.type, g),
         NEW type \in Int, type = Varint(d.type, g),
         NEW v, v = ValueAt(type, d.value, g)
  PROVE  TurnIsRight(data, d, items, len, type, v)
<1>1. PICK n \in Nat : n = Len(items)
  BY DEF IsSequence
<1>2. PICK T : T = Types(data)
  OBVIOUS
<1>3. PICK k2 \in Nat : k2 = d.type + len
  BY DEF Offsets
<1>4. PICK rest : rest = TypesFrom(data)[k2]
  OBVIOUS
<1>5. PICK n1 \in Nat : n1 = n + 1
  OBVIOUS
<1>6. /\ len # 0 /\ k2 <= Len(data) /\ type \in Nat /\ d.type < Len(data)
      /\ data[k2] < Digits
      /\ n1 \in 1 .. Len(T) /\ T[n1] = type
      /\ Len(T) = n1 + Len(rest)
      /\ \A j \in 1 .. Len(rest) : T[n1 + j] = rest[j]
  <2>1. TypeIsNext(data, d, n, len, type)
    BY <1>1, NextType
  <2> QED
    BY <1>2, <1>3, <1>4, <1>5, <2>1 DEF TypeIsNext
<1>7. Len(data) \in Nat /\ data \in Seq(Byte) /\ MaxBehind \in Nat
      /\ d.type \in Nat /\ d.value \in Nat /\ d.types \in Nat
  BY LenProperties, PayloadAssumption DEF IsRow, Regular, Offsets, OnItsWay
<1>t. len \in Nat /\ type \in Int
  OBVIOUS
<1>8. /\ d.types <= Len(data) /\ d.value <= Len(data) /\ d.value = Offset(data, n1)
      /\ Whole(data, 0) /\ d.types = FormatVarint(data, 0)
      /\ \A j \in 1 .. n : T[j] \notin {10, 11} /\ items[j] = FormatValue(data, j)
  BY <1>1, <1>2, <1>5 DEF OnItsWay
<1>9. ASSUME Rejected(data, d, len, type) PROVE ~ SoundRow(data)
  <2>1. type \in {10, 11}
    BY <1>6, <1>7, <1>9 DEF Rejected
  <2> QED
    BY <1>2, <1>6, <2>1, SoundIs
<1>10. ASSUME ~ Rejected(data, d, len, type)
       PROVE  Way(data, Passed(d, len, type), Append(items, v))
  <2>1. type \notin {10, 11}
    BY <1>10 DEF Rejected
  <2>2. PICK m \in Nat : m = LengthOf(type)
    BY LengthOfType
  <2>3. PICK e \in Offsets : e = Passed(d, len, type)
    BY PassedIs
  <2>4. e.type = k2 /\ e.types = d.types /\ e.value = d.value + m
    <3>1. /\ Passed(d, len, type).type = d.type + len
          /\ Passed(d, len, type).types = d.types
          /\ Passed(d, len, type).value = d.value + LengthOf(type)
      BY ONLY <1>t, d \in Offsets, PassedIs
    <3> QED
      BY <1>3, <2>2, <2>3, <3>1
  <2>5. PICK n2 \in Nat : n2 = n1 + 1
    OBVIOUS
  <2>6. e.value = Offset(data, n2) /\ n2 \in 1 .. Len(T) + 1
    <3>1. Offset(data, n1 + 1) = Offset(data, n1) + LengthOf(Types(data)[n1])
      BY <1>2, <1>6, OffsetIs
    <3>2. Len(T) \in Nat
      BY <1>2, TypesAre
    <3> QED
      BY <1>2, <1>6, <1>8, <2>2, <2>4, <2>5, <3>1, <3>2
  <2>7. CASE e.value > Len(data)
    <3>1. ~ SoundRow(data)
      BY <1>2, <1>7, <2>4, <2>6, <2>7, SoundIs DEF Offsets
    <3> QED
      BY <2>3, <2>4, <2>7, <3>1 DEF Way, NoRecord
  <2>8. CASE e.type > e.types
    <3>1. k2 \in 0 .. Len(data) /\ k2 > d.types /\ k2 # d.types
      <4>1. PICK size \in Nat, e1 \in Nat :
              size = Len(data) /\ e1 = d.types
        BY <1>7
      <4>2. k2 > e1 /\ k2 <= size
        BY <1>6, <2>4, <2>8, <4>1
      <4>3. k2 \in 0 .. size /\ k2 # e1
        BY <4>2
      <4> QED
        BY <4>1, <4>2, <4>3
    <3>6. k2 > FormatVarint(data, 0) /\ k2 # FormatVarint(data, 0)
      BY <1>8, <3>1
    <3>2. TypesFrom(data)[k2] = TypesAt(TypesFrom(data), data, k2)
      BY <1>7, <3>1, TypesFromIs
    <3>3. rest = <<10>>
      BY <1>4, <3>2, <3>6 DEF TypesAt
    <3>4. Len(T) = n1 + 1 /\ T[n1 + 1] = 10
      BY <1>6, <3>3
    <3>5. ~ SoundRow(data)
      <4>1. n1 + 1 \in 1 .. Len(T)
        BY <3>4
      <4> QED
        BY <1>2, <3>4, <4>1, SoundIs
    <3> QED
      BY <2>3, <2>4, <2>8, <3>5 DEF Way, NoRecord
  <2>9. CASE ~ (e.value > Len(data) \/ e.type > e.types)
    <3>1. e.type <= e.types /\ e.types <= Len(data) /\ e.value <= Len(data)
      BY <1>7, <1>8, <2>4, <2>9
    <3>2. v = FormatValue(data, n1)
      <4>1. d.value + LengthOf(type) <= Len(data)
        BY <2>2, <2>4, <3>1
      <4>2. PICK raw : raw = RawAt(data, d.value, LengthOf(type))
        OBVIOUS
      <4>3. v = ValueOf(type, raw)
        BY <1>6, <1>7, <2>1, <4>1, <4>2, ValuesAgree
      <4>4. type \in Nat \ {10, 11} /\ type = Types(data)[n1]
        BY <1>2, <1>6, <2>1
      <4>5. FormatValue(data, n1) = ValueOf(type, RawAt(data, Offset(data, n1), LengthOf(type)))
        BY <4>4, FormatValueIs
      <4> QED
        BY <1>8, <4>2, <4>3, <4>5
    <3>3. PICK more : more = Append(items, v)
      OBVIOUS
    <3>4. /\ IsSequence(more) /\ Len(more) = n1
          /\ \A j \in 1 .. n : more[j] = items[j]
          /\ more[n1] = v
      BY <1>1, <1>5, <3>3, AppendIsSequence
    <3>5. ASSUME NEW j \in 1 .. n1
          PROVE  T[j] \notin {10, 11} /\ more[j] = FormatValue(data, j)
      <4>1. CASE j = n1
        BY <1>6, <2>1, <3>2, <3>4, <4>1
      <4>2. CASE j # n1
        <5>1. j \in 1 .. n
          BY <1>5, <4>2
        <5> QED
          BY <1>8, <3>4, <5>1
      <4> QED
        BY <4>1, <4>2
    <3>6. OnItsWay(data, e, more)
      <4>1. e.value = Offset(data, n1 + 1)
        BY <2>5, <2>6
      <4>2. e.types \in Nat /\ e.value \in Nat /\ e.types = FormatVarint(data, 0)
            /\ Whole(data, 0) /\ data[e.type] < Digits
        BY <1>6, <1>7, <1>8, <2>4
      <4> QED
        BY <1>2, <1>4, <1>6, <2>4, <3>1, <3>4, <3>5, <4>1, <4>2 DEF OnItsWay
    <3> QED
      BY <2>3, <2>4, <3>3, <3>6 DEF Way
  <2> QED
    BY <2>7, <2>8, <2>9
<1> QED
  BY <1>9, <1>10 DEF TurnIsRight

(* A type that the row cuts off makes it no record.                        *)
LEMMA TurnBroken ==
  ASSUME NEW data, IsRow(data), bytes = data, NEW d \in Offsets,
         NEW items, IsSequence(items), OnItsWay(data, d, items),
         d.type < d.types, ~ Whole(data, d.type), NEW g \in Byte,
         NEW len \in Nat, len = VarintLen(d.type, g), NEW type \in Int, NEW v
  PROVE  TurnIsRight(data, d, items, len, type, v)
<1>1. PICK n \in Nat : n = Len(items)
  BY DEF IsSequence
<1>2. data \in Seq(Byte) /\ Len(data) \in Nat /\ d.type \in Nat /\ d.types \in Nat
      /\ d.types <= Len(data) /\ d.types = FormatVarint(data, 0)
  BY LenProperties DEF IsRow, Regular, Offsets, OnItsWay
<1>3. PICK k \in 0 .. Len(data) - 1 : k = d.type
  BY <1>2
<1>4. TypesFrom(data)[k] = TypesAt(TypesFrom(data), data, k)
  <2>1. k \in 0 .. Len(data)
    BY <1>2
  <2> QED
    BY <1>2, <2>1, TypesFromIs
<1>5. TypesFrom(data)[k] = <<10>>
  BY <1>2, <1>3, <1>4 DEF TypesAt
<1>6. Len(Types(data)) = n + 1 /\ Types(data)[n + 1] = 10
  <2>1. /\ Len(Types(data)) = n + Len(TypesFrom(data)[k])
        /\ \A j \in 1 .. Len(TypesFrom(data)[k]) :
             Types(data)[n + j] = TypesFrom(data)[k][j]
    BY <1>1, <1>3 DEF OnItsWay
  <2> QED
    BY <1>5, <2>1
<1>7. ~ SoundRow(data)
  <2>1. n + 1 \in 1 .. Len(Types(data))
    BY <1>6
  <2> QED
    BY <1>6, <2>1, SoundIs
<1>8. len = 0 \/ k + len > Len(data)
  BY <1>2, <1>3, CutOff
<1>9. ASSUME len # 0 PROVE Way(data, Passed(d, len, type), Append(items, v))
  <2>1. PICK e \in Offsets : e = Passed(d, len, type)
    BY PassedIs
  <2>2. e.type = d.type + len /\ e.types = d.types
    BY <2>1, PassedIs
  <2>3. e.type > e.types
    BY <1>2, <1>3, <1>8, <1>9, <2>2
  <2> QED
    BY <1>7, <2>1, <2>2, <2>3 DEF Way, NoRecord
<1> QED
  BY <1>7, <1>9 DEF TurnIsRight, Rejected

(* Where the types are at their end and bytes are left, it is no record.   *)
LEMMA TurnBehindTypes ==
  ASSUME NEW data, IsRow(data), NEW d \in Offsets,
         NEW items, IsSequence(items),
         OnItsWay(data, d, items), ~ (d.type < d.types), d.value < Len(data),
         NEW len \in Nat, NEW type \in Int, NEW v
  PROVE  TurnIsRight(data, d, items, len, type, v)
<1>1. PICK n \in Nat : n = Len(items)
  BY DEF IsSequence
<1>2. data \in Seq(Byte) /\ Len(data) \in Nat /\ d.type \in Nat /\ d.types \in Nat
      /\ d.value \in Nat /\ d.types = FormatVarint(data, 0)
  BY LenProperties DEF IsRow, Regular, Offsets, OnItsWay
<1>3. d.type = d.types /\ d.type \in 0 .. Len(data)
  BY <1>2 DEF OnItsWay
<1>4. TypesFrom(data)[d.type] = TypesAt(TypesFrom(data), data, d.type)
  BY <1>2, <1>3, TypesFromIs
<1>5. TypesFrom(data)[d.type] = <<>>
  BY <1>2, <1>3, <1>4 DEF TypesAt
<1>6. Len(Types(data)) = n
  BY <1>1, <1>5 DEF OnItsWay
<1>7. d.value = Offset(data, n + 1)
  BY <1>1 DEF OnItsWay
<1>8. ~ SoundRow(data)
  BY <1>2, <1>6, <1>7, SoundIs
<1>9. ASSUME len # 0 PROVE Way(data, Passed(d, len, type), Append(items, v))
  <2>1. PICK e \in Offsets : e = Passed(d, len, type)
    BY PassedIs
  <2>2. e.type = d.type + len /\ e.types = d.types
    BY <2>1, PassedIs
  <2>3. e.type > e.types
    BY <1>2, <1>3, <1>9, <2>2
  <2> QED
    BY <1>8, <2>1, <2>2, <2>3 DEF Way, NoRecord
<1> QED
  BY <1>8, <1>9 DEF TurnIsRight, Rejected

LEMMA WayGoesOn ==
  ASSUME NEW data, Regular(data), bytes = data, NEW d, NEW items,
         IsSequence(items), Way(data, d, items),
         d.value < Len(data) \/ d.type < d.types, NEW g \in Byte,
         NEW len, len = VarintLen(d.type, g),
         NEW type, type = Varint(d.type, g), NEW v, v = ValueAt(type, d.value, g)
  PROVE  TurnIsRight(data, d, items, len, type, v)
<1>1. d \in Offsets /\ d.type \in Int /\ data \in Seq(Byte)
  BY DEF Way, Offsets, Regular
<1>2. len \in Nat /\ type \in Int
  <2>1. PICK k \in Int : k = d.type
    BY <1>1
  <2>2. VarintLen(k, g) \in Nat /\ Varint(k, g) \in Int
    BY <1>1, VarintType
  <2> QED
    BY <2>1, <2>2
<1>3. CASE NoRecord(data, d)
  <2>1. NoRecord(data, Passed(d, len, type))
    BY <1>1, <1>2, <1>3, NoRecordStays
  <2>2. Passed(d, len, type) \in Offsets /\ Passed(d, len, type).types = d.types
    BY <1>1, <1>2, PassedIs
  <2>3. ~ SoundRow(data)
    BY <1>3 DEF NoRecord
  <2> QED
    BY <1>1, <2>1, <2>2, <2>3 DEF TurnIsRight, Way
<1>r. OnItsWay(data, d, items) => IsRow(data)
  BY DEF OnItsWay, IsRow
<1>4. CASE OnItsWay(data, d, items) /\ d.type < d.types /\ Whole(data, d.type)
  BY <1>1, <1>2, <1>r, <1>4, TurnOnTheWay
<1>5. CASE OnItsWay(data, d, items) /\ d.type < d.types /\ ~ Whole(data, d.type)
  BY <1>1, <1>2, <1>r, <1>5, TurnBroken
<1>6. CASE OnItsWay(data, d, items) /\ ~ (d.type < d.types)
  BY <1>1, <1>2, <1>r, <1>6, TurnBehindTypes
<1> QED
  BY <1>3, <1>4, <1>5, <1>6 DEF Way

-----------------------------------------------------------------------------
(* The invariant of the rows: what has been read and decoded of a row that *)
(* can be read is what the format says, be it a record or none.            *)

Fine(row) ==
  /\ row.inside /\ ~ Extreme(row.data)
  /\ Local(Len(row.data)) + PerPage * row.pages >= Len(row.data)

(* What has been read of a row when c pages of its chain are left.         *)
Fetched(row, c) ==
  IF c = 0 THEN row.data
  ELSE Known(row, Local(Len(row.data)) + PerPage * (row.pages - c))

Placed ==
  /\ i \in 0 .. Len(leaf) /\ chain \in Nat
  /\ at \in {"overflow", "values", "deliver"} => i # 0
  /\ at = "overflow" => values.items = <<>>

RowIsRight(row) ==
  /\ at = "overflow" => bytes = Fetched(row, chain)
  /\ at = "values" => bytes = row.data /\ Way(row.data, dec, values.items)
  /\ at = "deliver" => Decoded(row.data, values.items)
  /\ at = "failed" /\ i > 0 /\ bytes # <<>> => ~ SoundRow(row.data)

OneIsExact(d) == Fine(leaf[d.row]) => Decoded(leaf[d.row].data, d.values)

AllAreExact ==
  /\ IsSequence(delivered)
  /\ faults = 0 => \A n \in DOMAIN delivered : OneIsExact(delivered[n])

Righted == faults = 0 /\ Fine(Row) => RowIsRight(Row)

IRecord == Placed /\ Righted /\ AllAreExact

LEMMA KnownIsAll ==
  ASSUME NEW row \in Cell, NEW n \in Int, n >= Len(row.data)
  PROVE  Known(row, n) = row.data
<1>1. row.data \in Seq(Byte) /\ Len(row.data) \in Nat
  BY LenProperties DEF Cell
<1>2. row.data = [k \in 1 .. Len(row.data) |-> row.data[k]]
  BY <1>1, LenProperties
<1>3. \A k \in 1 .. Len(row.data) : k <= n
  BY <1>1
<1> QED
  BY <1>2, <1>3 DEF Known

LEMMA LocalType ==
  ASSUME NEW n \in Nat
  PROVE  /\ Local(n) \in Nat
<1>1. MinLocal \in Nat /\ MaxLeaf \in Nat /\ PerPage \in Nat \ {0}
  BY PayloadAssumption
<1>2. PICK s \in Int : s = n - MinLocal
  BY <1>1
<1>3. PICK t \in Nat : t = s % PerPage
  BY <1>1
<1>4. MinLocal + t \in Nat
  BY <1>1
<1>5. \/ Local(n) = n \/ Local(n) = MinLocal + t \/ Local(n) = MinLocal
  BY <1>2, <1>3 DEF Local
<1> QED
  BY <1>1, <1>4, <1>5

(* The next page of the chain brings its bytes.                            *)
LEMMA FetchedNext ==
  ASSUME NEW row \in Cell, Fine(row), NEW c \in Nat \ {0}
  PROVE  /\ Known(row, Local(Len(row.data)) + PerPage * (row.pages - c) + PerPage)
              = Fetched(row, c - 1)
         /\ Known(row, Local(Len(row.data)) + PerPage * row.pages) = row.data
<1>1. row.data \in Seq(Byte) /\ row.pages \in Nat /\ PerPage \in Nat
  BY PayloadAssumption DEF Cell
<1>2. PICK size \in Nat : size = Len(row.data)
  BY <1>1, LenProperties
<1>3. PICK l \in Nat : l = Local(Len(row.data))
  BY <1>2, LocalType
<1>4. PICK p \in Nat : p = row.pages
  BY <1>1
<1>5. PICK all \in Nat : all = l + PerPage * p
  BY <1>1
<1>6. Known(row, all) = row.data
  <2>1. all >= Len(row.data)
    BY <1>3, <1>4, <1>5 DEF Fine
  <2> QED
    BY <2>1, KnownIsAll
<1>7. PICK c1 \in Nat : c1 = c - 1
  OBVIOUS
<1>8. PerPage * (p - c) + PerPage = PerPage * (p - c1)
  BY <1>1, <1>7
<1>9. l + PerPage * (p - c) + PerPage = l + PerPage * (p - c1)
  <2>1. PICK a \in Int : a = PerPage * (p - c)
    BY <1>1
  <2>2. PICK b \in Int : b = PerPage * (p - c1)
    BY <1>1
  <2>3. a + PerPage = b
    BY <1>8, <2>1, <2>2
  <2> QED
    BY <1>1, <2>1, <2>2, <2>3
<1>10. CASE c1 = 0
  <2>1. p - c1 = p
    BY <1>10
  <2> QED
    BY <1>3, <1>4, <1>5, <1>6, <1>7, <1>9, <1>10, <2>1 DEF Fetched
<1>11. CASE c1 # 0
  BY <1>3, <1>4, <1>5, <1>6, <1>7, <1>9, <1>11 DEF Fetched
<1> QED
  BY <1>10, <1>11

LEMMA AllStayExact ==
  ASSUME AllAreExact, UNCHANGED <<leaf, delivered>>, faults' = 0 => faults = 0
  PROVE  AllAreExact'
BY DEF AllAreExact, OneIsExact, Fine, Decoded

(* A leaf that has a row at hand.                                          *)
LEMMA RowIsThere ==
  ASSUME Place, i \in 1 .. Len(leaf)
  PROVE  Row \in Cell /\ Row.data \in Seq(Byte)
<1>1. leaf \in Seq(Cell)
  BY DEF Place
<1>2. Row \in Cell
  BY <1>1, ElementOfSeq DEF Row
<1> QED
  BY <1>2 DEF Cell

LEMMA RecordInitially == Init => IRecord
<1> SUFFICES ASSUME Init PROVE IRecord
  OBVIOUS
<1>1. PayloadInit /\ leaf \in Seq(Cell)
  BY PayloadAssumption DEF Init, PayloadInit
<1>2. Len(leaf) \in Nat
  BY <1>1, LenProperties
<1>3. i = 0 /\ at = "start" /\ chain = 0 /\ delivered = <<>>
  BY <1>1 DEF PayloadInit
<1>4. Placed
  BY <1>2, <1>3 DEF Placed
<1>5. RowIsRight(Row)
  BY <1>3 DEF RowIsRight
<1>6. AllAreExact
  <2>1. <<>> \in Seq({}) /\ DOMAIN <<>> = {}
    OBVIOUS
  <2> QED
    BY <1>3, <2>1 DEF AllAreExact, IsSequence
<1> QED
  BY <1>4, <1>5, <1>6 DEF IRecord, Righted

LEMMA ColumnAllocRecord == IPayload /\ Place /\ IRecord /\ ColumnAlloc => IRecord'
<1> SUFFICES ASSUME IPayload, Place, IRecord, ColumnAlloc PROVE IRecord'
  OBVIOUS
<1>1. UNCHANGED <<leaf, i, chain, delivered>> /\ at' \in {"cells", "done"}
  BY DEF ColumnAlloc, Cells, Quiet
<1>2. faults' = 0 => faults = 0
  BY DEF ColumnAlloc, Fault, NoFault, IPayload, Typed
<1>3. AllAreExact'
  BY <1>1, <1>2, AllStayExact DEF IRecord
<1>4. Placed'
  BY <1>1 DEF IRecord, Placed
<1>5. RowIsRight(Row)'
  BY <1>1 DEF RowIsRight
<1> QED
  BY <1>3, <1>4, <1>5 DEF IRecord, Righted

LEMMA NextCellRecord == IPayload /\ Place /\ IRecord /\ NextCell => IRecord'
<1> SUFFICES ASSUME IPayload, Place, IRecord, NextCell PROVE IRecord'
  OBVIOUS
<1>1. /\ i' = i + 1 /\ i < Len(leaf) /\ leaf' = leaf /\ delivered' = delivered
      /\ at' \in {"overflow", "failed"} /\ values' = Cleared(values)
  BY DEF NextCell, Quiet
<1>2. leaf \in Seq(Cell) /\ Len(leaf) \in Nat /\ i \in 0 .. Len(leaf) /\ chain \in Nat
  BY LenProperties DEF Place, IRecord, Placed
<1>3. PICK row \in Cell : row = leaf[i + 1]
  BY <1>1, <1>2, ElementOfSeq
<1>4. Row' = row
  BY <1>1, <1>3 DEF Row
<1>5. PICK local \in Nat : local = Local(Len(row.data))
  BY <1>3, LocalType, LenProperties DEF Cell
<1>6. Len(row.data) \in Nat /\ row.pages \in Nat /\ PerPage \in Nat
  BY <1>3, LenProperties, PayloadAssumption DEF Cell
<1>7. \/ /\ row.data # <<>> /\ faults' = faults
         /\ bytes' = Known(row, IF row.inside THEN local ELSE 0)
         /\ chain' = IF local < Len(row.data) THEN row.pages ELSE 0
         /\ at' = IF row.inside THEN "overflow" ELSE "failed"
      \/ /\ bytes' = <<>> /\ chain' = chain /\ at' = "failed"
         /\ faults' = 0 => faults = 0
  BY <1>3, <1>5 DEF NextCell, Fault, NoFault, IPayload, Typed
<1>8. AllAreExact'
  <2>1. faults' = 0 => faults = 0
    BY <1>7
  <2> QED
    BY <1>1, <2>1, AllStayExact DEF IRecord
<1>9. Placed'
  <2>1. chain' \in Nat
    BY <1>2, <1>6, <1>7
  <2>2. i' \in 0 .. Len(leaf') /\ i' # 0
    BY <1>1, <1>2
  <2>3. values'.items = <<>>
    <3>1. PICK S : values \in Lists(S)
      BY DEF IPayload, Typed, IsList
    <3> QED
      BY <1>1, <3>1 DEF Cleared, Lists
  <2> QED
    BY <2>1, <2>2, <2>3 DEF Placed
<1>10. ASSUME Fine(row) PROVE RowIsRight(row)'
  <2>1. row.inside
    BY <1>10 DEF Fine
  <2>2. CASE bytes' = <<>> /\ at' = "failed"
    BY <2>2 DEF RowIsRight
  <2>3. CASE /\ bytes' = Known(row, local) /\ at' = "overflow"
             /\ chain' = IF local < Len(row.data) THEN row.pages ELSE 0
    <3>1. bytes' = Fetched(row, chain')
      <4>1. CASE local < Len(row.data) /\ row.pages # 0
        <5>1. PICK p \in Nat : p = row.pages
          BY <1>6
        <5>2. local + PerPage * (p - p) = local
          BY <1>5, <1>6, <5>1
        <5> QED
          BY <1>5, <2>3, <4>1, <5>1, <5>2 DEF Fetched
      <4>2. CASE local < Len(row.data) /\ row.pages = 0
        <5>1. PerPage * 0 = 0
          BY <1>6
        <5>2. local >= Len(row.data)
          BY <1>5, <1>6, <1>10, <4>2, <5>1 DEF Fine
        <5> QED
          BY <1>6, <4>2, <5>2
      <4>3. CASE ~ (local < Len(row.data))
        <5>1. Known(row, local) = row.data
          BY <1>5, <1>6, <4>3, KnownIsAll
        <5> QED
          BY <2>3, <4>3, <5>1 DEF Fetched
      <4> QED
        BY <4>1, <4>2, <4>3
    <3> QED
      BY <2>3, <3>1 DEF RowIsRight
  <2> QED
    BY <1>7, <2>1, <2>2, <2>3
<1>11. Righted'
  BY <1>4, <1>10 DEF Righted, RowIsRight, Fine
<1> QED
  BY <1>8, <1>9, <1>11 DEF IRecord

(* The bytes that are there when the chain has ended.                      *)
LEMMA OverflowRecord == IPayload /\ Place /\ IRecord /\ Overflow => IRecord'
<1> SUFFICES ASSUME IPayload, Place, IRecord, Overflow PROVE IRecord'
  OBVIOUS
<1>1. /\ at = "overflow" /\ at' = at /\ chain > 0 /\ UNCHANGED <<leaf, i, values, delivered>>
  BY DEF Overflow, Cells
<1>2. i \in 1 .. Len(leaf) /\ chain \in Nat \ {0}
  BY <1>1 DEF IRecord, Placed
<1>3. PICK row \in Cell : row = Row
  BY <1>2, RowIsThere
<1>4. Row' = row
  BY <1>1, <1>3 DEF Row
<1>5. \/ /\ bytes' = Known(row, Local(Len(row.data)) + PerPage * (row.pages - chain) + PerPage)
         /\ chain' = chain - 1 /\ (faults' = 0 => faults = 0)
      \/ chain' = 0 /\ faults' # 0
  BY <1>3 DEF Overflow, Fault, NoFault, IPayload, Typed, Size
<1>6. AllAreExact'
  <2>1. faults' = 0 => faults = 0
    BY <1>5
  <2> QED
    BY <1>1, <2>1, AllStayExact DEF IRecord
<1>7. Placed'
  BY <1>1, <1>2, <1>5 DEF IRecord, Placed
<1>8. ASSUME Fine(row), faults' = 0 PROVE RowIsRight(row)'
  <2>1. bytes' = Fetched(row, chain')
    <3>1. Known(row, Local(Len(row.data)) + PerPage * (row.pages - chain) + PerPage)
            = Fetched(row, chain - 1)
      BY <1>2, <1>8, FetchedNext
    <3> QED
      BY <1>5, <1>8, <3>1
  <2> QED
    BY <1>1, <2>1 DEF RowIsRight, Fetched
<1>9. Righted'
  BY <1>4, <1>8 DEF Righted, RowIsRight, Fine
<1> QED
  BY <1>6, <1>7, <1>9 DEF IRecord

LEMMA HeaderRecord == IPayload /\ Place /\ IRecord /\ Header => IRecord'
<1> SUFFICES ASSUME IPayload, Place, IRecord, Header PROVE IRecord'
  OBVIOUS
<1>1. /\ at = "overflow" /\ at' \in {"values", "failed"} /\ chain = 0
      /\ UNCHANGED <<leaf, i, values, delivered, faults, bytes, chain>>
  BY DEF Header, Cells, Column, Quiet, NoFault
<1>2. i \in 1 .. Len(leaf) /\ values.items = <<>>
  BY <1>1 DEF IRecord, Placed
<1>3. PICK row \in Cell : row = Row
  BY <1>2, RowIsThere
<1>4. Row' = row
  BY <1>1, <1>3 DEF Row
<1>5. AllAreExact'
  BY <1>1, AllStayExact DEF IRecord
<1>6. Placed'
  BY <1>1 DEF IRecord, Placed
<1>7. ASSUME Fine(row), faults = 0 PROVE RowIsRight(row)'
  <2>1. bytes = row.data
    BY <1>1, <1>3, <1>7 DEF IRecord, Righted, RowIsRight, Fetched
  <2>2. Len(row.data) \in Nat \ {0}
    BY <1>1, <1>3 DEF IPayload, Typed, Size
  <2>3. Regular(row.data)
    <3>1. row.data # <<>> /\ row.data \in Seq(Byte)
      BY <2>2 DEF Cell
    <3> QED
      BY <1>7, <3>1 DEF Regular, Fine
  <2>4. PICK o \in 0 .. Len(row.data) - 1 : o = 0
    BY <2>2
  <2>5. PICK g \in Byte : IF VarintLen(o, g) = 0 THEN at' = "failed" /\ UNCHANGED dec
                          ELSE at' = "values" /\ dec' = Start(VarintLen(o, g), Varint(o, g))
    <3>1. Garbage \subseteq Byte
      BY PayloadAssumption
    <3> QED
      BY <2>4, <3>1 DEF Header
  <2>6. CASE Whole(row.data, 0)
    <3>1. IsRow(row.data) /\ Begins(row.data, o) /\ Whole(row.data, o)
      BY <2>3, <2>4, <2>6 DEF IsRow, Begins
    <3>2. VarintAgrees(row.data, o, g)
      BY <2>1, <2>3, <3>1, VarintsAgree DEF Regular
    <3>3. at' = "values" /\ dec' = Start(FormatLen(row.data, 0), FormatVarint(row.data, 0))
      BY <2>4, <2>5, <3>2 DEF VarintAgrees
    <3>4. PICK d : d = dec'
      OBVIOUS
    <3>5. Way(row.data, d, <<>>)
      BY <3>1, <3>3, <3>4, WayBegins
    <3> QED
      BY <1>1, <1>2, <2>1, <3>3, <3>4, <3>5 DEF RowIsRight
  <2>7. CASE ~ Whole(row.data, 0)
    <3>1. /\ ~ SoundRow(row.data)
          /\ VarintLen(0, g) # 0 =>
               Way(row.data, Start(VarintLen(0, g), Varint(0, g)), <<>>)
      BY <2>1, <2>3, <2>7, WayIsNone
    <3>2. CASE VarintLen(0, g) = 0
      BY <2>4, <2>5, <3>1, <3>2 DEF RowIsRight
    <3>3. CASE VarintLen(0, g) # 0
      <4>1. at' = "values" /\ dec' = Start(VarintLen(0, g), Varint(0, g))
        BY <2>4, <2>5, <3>3
      <4>2. PICK d : d = dec'
        OBVIOUS
      <4>3. Way(row.data, d, <<>>)
        BY <3>1, <3>3, <4>1, <4>2
      <4> QED
        BY <1>1, <1>2, <2>1, <4>1, <4>2, <4>3 DEF RowIsRight
    <3> QED
      BY <3>2, <3>3
  <2> QED
    BY <2>6, <2>7
<1>8. Righted'
  BY <1>1, <1>4, <1>7 DEF Righted, RowIsRight, Fine, Way, OnItsWay, NoRecord, Decoded
<1> QED
  BY <1>5, <1>6, <1>8 DEF IRecord

LEMMA AddedItems ==
  ASSUME NEW l, IsList(l), NEW v
  PROVE  Added(l, v).items = Append(l.items, v)
<1>1. PICK S : l \in Lists(S)
  BY DEF IsList
<1>2. PICK g : g = Grown(l)
  OBVIOUS
<1>3. g.items = l.items /\ DOMAIN g = {"items", "held", "cap", "slots", "short"}
  BY <1>1, <1>2 DEF Grown, Raised, Lists
<1>4. Added(l, v) = [g EXCEPT !.items = Append(g.items, v), !.held = g.held + Takes(v)]
  BY <1>2 DEF Added
<1> QED
  BY <1>3, <1>4

(* One turn of the decoding loop.                                          *)
LEMMA ValueRecord == IPayload /\ Place /\ IRecord /\ Value => IRecord'
<1> SUFFICES ASSUME IPayload, Place, IRecord, Value PROVE IRecord'
  OBVIOUS
<1>1. /\ at = "values" /\ at' \in {"values", "failed"} /\ More
      /\ UNCHANGED <<leaf, i, delivered, bytes, chain>>
  BY DEF Value, Cells
<1>2. i \in 1 .. Len(leaf) /\ IsList(values)
  BY <1>1 DEF IRecord, Placed, IPayload, Typed
<1>3. PICK row \in Cell : row = Row
  BY <1>2, RowIsThere
<1>4. Row' = row
  BY <1>1, <1>3 DEF Row
<1>5. faults' = 0 => faults = 0
  BY DEF Value, Fault, NoFault, IPayload, Typed
<1>6. AllAreExact'
  BY <1>1, <1>5, AllStayExact DEF IRecord
<1>7. Placed'
  BY <1>1 DEF IRecord, Placed
<1>8. ASSUME Fine(row), faults' = 0 PROVE RowIsRight(row)'
  <2>1. bytes = row.data /\ Way(row.data, dec, values.items)
    BY <1>1, <1>3, <1>5, <1>8 DEF IRecord, Righted, RowIsRight
  <2>2. Regular(row.data)
    <3>1. row.data # <<>> /\ row.data \in Seq(Byte)
      BY <1>1, <2>1 DEF Cell, IPayload, Booked
    <3> QED
      BY <1>8, <3>1 DEF Regular, Fine
  <2>3. PICK g \in Garbage :
          LET len  == VarintLen(dec.type, g)
              type == Varint(dec.type, g)
              v    == ValueAt(type, dec.value, g)
          IN \/ NoType(len, type) /\ at' = "failed"
             \/ /\ ~ NoType(len, type) /\ values' = Added(values, v)
                /\ dec' = [dec EXCEPT !.type = @ + len, !.value = @ + LengthOf(type)]
                /\ at' = at
             \/ Fault
    BY ZenonT(30) DEF Value
  <2>4. ~ Fault
    BY <1>8 DEF Fault, IPayload, Typed
  <2>5. g \in Byte
    BY PayloadAssumption
  <2>6. PICK len, type, v :
            /\ len = VarintLen(dec.type, g) /\ type = Varint(dec.type, g)
            /\ v = ValueAt(type, dec.value, g)
    OBVIOUS
  <2>7. \/ NoType(len, type) /\ at' = "failed"
        \/ /\ ~ NoType(len, type) /\ at' = at
           /\ values' = Added(values, v)
           /\ dec' = [dec EXCEPT !.type = @ + len, !.value = @ + LengthOf(type)]
    BY <2>6, <2>3, <2>4
  <2>8. NoType(len, type) <=> Rejected(row.data, dec, len, type)
    BY <1>3 DEF NoType, Rejected, Size
  <2>9. dec.value < Len(row.data) \/ dec.type < dec.types
    BY <1>1, <1>3 DEF More, Size
  <2>10. IsSequence(values.items)
    BY <1>2, HeldType
  <2>11. TurnIsRight(row.data, dec, values.items, len, type, v)
    BY <2>1, <2>2, <2>5, <2>6, <2>9, <2>10, WayGoesOn
  <2>12. CASE NoType(len, type) /\ at' = "failed"
    BY <2>8, <2>11, <2>12 DEF TurnIsRight, RowIsRight
  <2>13. CASE /\ ~ NoType(len, type) /\ at' = at
              /\ values' = Added(values, v)
              /\ dec' = [dec EXCEPT !.type = @ + len, !.value = @ + LengthOf(type)]
    <3>1. values'.items = Append(values.items, v)
      BY <1>2, <2>13, AddedItems
    <3>2. dec' = Passed(dec, len, type)
      BY <2>13 DEF Passed
    <3>3. Way(row.data, Passed(dec, len, type), Append(values.items, v))
      BY <2>8, <2>11, <2>13 DEF TurnIsRight
    <3>4. PICK d : d = dec'
      OBVIOUS
    <3>5. PICK items : items = values'.items
      OBVIOUS
    <3>6. Way(row.data, d, items)
      BY <3>1, <3>2, <3>3, <3>4, <3>5
    <3> QED
      BY <1>1, <2>1, <2>13, <3>4, <3>5, <3>6 DEF RowIsRight
  <2> QED
    BY <2>7, <2>12, <2>13
<1>9. Righted'
  BY <1>4, <1>8 DEF Righted, RowIsRight, Fine
<1> QED
  BY <1>6, <1>7, <1>9 DEF IRecord

LEMMA CheckRecord == IPayload /\ Place /\ IRecord /\ Check => IRecord'
<1> SUFFICES ASSUME IPayload, Place, IRecord, Check PROVE IRecord'
  OBVIOUS
<1>1. /\ at = "values" /\ ~ More /\ at' = IF Exact THEN "deliver" ELSE "failed"
      /\ UNCHANGED <<leaf, i, values, delivered, faults, bytes, chain, dec>>
  BY DEF Check, Cells, Column, Quiet, NoFault
<1>2. i \in 1 .. Len(leaf) /\ IsSequence(values.items)
  BY <1>1, HeldType DEF IRecord, Placed, IPayload, Typed
<1>3. PICK row \in Cell : row = Row
  BY <1>2, RowIsThere
<1>4. Row' = row
  BY <1>1, <1>3 DEF Row
<1>5. AllAreExact'
  BY <1>1, AllStayExact DEF IRecord
<1>6. Placed'
  BY <1>1 DEF IRecord, Placed
<1>7. ASSUME Fine(row), faults = 0 PROVE RowIsRight(row)'
  <2>1. bytes = row.data /\ Way(row.data, dec, values.items)
    BY <1>1, <1>3, <1>7 DEF IRecord, Righted, RowIsRight
  <2>2. Regular(row.data)
    <3>1. row.data # <<>> /\ row.data \in Seq(Byte)
      BY <1>1, <2>1 DEF Cell, IPayload, Booked
    <3> QED
      BY <1>7, <3>1 DEF Regular, Fine
  <2>3. dec \in Offsets /\ Len(row.data) \in Nat
    BY <2>1, <2>2, LenProperties DEF Way, Regular
  <2>4. Ended(row.data, dec)
    BY <1>1, <1>3, <2>3 DEF Ended, More, Size, Offsets
  <2>5. Exact <=> Met(row.data, dec)
    BY <1>3 DEF Exact, Met, Size
  <2>6. /\ Met(row.data, dec) => Decoded(row.data, values.items)
        /\ ~ Met(row.data, dec) => ~ SoundRow(row.data)
    BY <1>2, <2>1, <2>2, <2>4, WayEnds
  <2>7. PICK items : items = values.items /\ values'.items = items
    BY <1>1
  <2> QED
    BY <1>1, <2>5, <2>6, <2>7 DEF RowIsRight
<1>8. Righted'
  BY <1>1, <1>4, <1>7 DEF Righted, RowIsRight, Fine
<1> QED
  BY <1>5, <1>6, <1>8 DEF IRecord

LEMMA DeliverRecord == IPayload /\ Place /\ IRecord /\ Deliver => IRecord'
<1> SUFFICES ASSUME IPayload, Place, IRecord, Deliver PROVE IRecord'
  OBVIOUS
<1> DEFINE new == [row |-> i, values |-> values.items]
<1>1. /\ at = "deliver" /\ at' \in {"cells", "failed"} /\ bytes' = <<>>
      /\ UNCHANGED <<leaf, i, faults, chain>> /\ delivered' = Append(delivered, new)
  BY DEF Deliver, Cells, NoFault
<1>2. i \in 1 .. Len(leaf) /\ new.row = i /\ new.values = values.items
  BY <1>1 DEF IRecord, Placed
<1>3. Placed'
  BY <1>1 DEF IRecord, Placed
<1>4. Righted'
  BY <1>1 DEF Righted, RowIsRight
<1>5. faults = 0 => OneIsExact(new)
  BY <1>1, <1>2 DEF IRecord, Righted, RowIsRight, OneIsExact, Row
<1> HIDE DEF new
<1>6. IsSequence(delivered)
  BY DEF IRecord, AllAreExact
<1>7. IsSequence(delivered')
  BY <1>1, <1>6, AppendIsSequence
<1>8. PICK n \in Nat : n = Len(delivered)
  BY <1>6 DEF IsSequence
<1>9. /\ DOMAIN delivered = 1 .. n /\ DOMAIN delivered' = 1 .. n + 1
      /\ \A k \in 1 .. n : delivered'[k] = delivered[k]
      /\ delivered'[n + 1] = new
  BY <1>1, <1>6, <1>7, <1>8, AppendIsSequence
<1>10. ASSUME faults' = 0, NEW k \in DOMAIN delivered', NEW d, d = delivered'[k]
       PROVE  OneIsExact(d)'
  <2>1. faults = 0
    BY <1>1, <1>10
  <2>2. OneIsExact(d)
    <3>1. CASE k = n + 1
      BY <1>5, <1>9, <1>10, <2>1, <3>1
    <3>2. CASE k # n + 1
      <4>1. k \in 1 .. n
        BY <1>9, <3>2
      <4> QED
        BY <1>9, <1>10, <2>1, <4>1 DEF IRecord, AllAreExact
    <3> QED
      BY <3>1, <3>2
  <2> QED
    BY <1>1, <2>2 DEF OneIsExact, Fine, Decoded
<1>11. AllAreExact'
  BY <1>7, <1>10 DEF AllAreExact, OneIsExact, Fine, Decoded
<1> QED
  BY <1>3, <1>4, <1>11 DEF IRecord

LEMMA LeaveRecord == IPayload /\ Place /\ IRecord /\ Leave => IRecord'
<1> SUFFICES ASSUME IPayload, Place, IRecord, Leave PROVE IRecord'
  OBVIOUS
<1>1. at' = "done" /\ UNCHANGED <<leaf, i, chain, delivered, faults>>
  BY DEF Leave, Cells, Quiet, NoFault
<1>2. AllAreExact'
  BY <1>1, AllStayExact DEF IRecord
<1>3. Placed'
  BY <1>1 DEF IRecord, Placed
<1>4. Righted'
  BY <1>1 DEF Righted, RowIsRight
<1> QED
  BY <1>2, <1>3, <1>4 DEF IRecord

LEMMA RecordInvariant == Spec => []IRecord
<1>1. IBinding /\ IRecord /\ [Next]_vars => IRecord'
  <2> SUFFICES ASSUME IBinding, IRecord, [Next]_vars PROVE IRecord'
    OBVIOUS
  <2>1. IPayload /\ Place
    BY DEF IBinding
  <2>2. CASE Decode
    BY <2>1, <2>2, ColumnAllocRecord, NextCellRecord, OverflowRecord, HeaderRecord,
       ValueRecord, CheckRecord, LeaveRecord DEF Decode
  <2>3. CASE InsertRow
    BY <2>1, <2>3, DeliverRecord DEF InsertRow
  <2>4. CASE UNCHANGED vars
    <3>1. UNCHANGED <<leaf, i, at, bytes, chain, dec, values, delivered, faults>>
      BY <2>4 DEF vars, payloadVars
    <3>2. Placed'
      BY <3>1 DEF IRecord, Placed
    <3>3. AllAreExact'
      BY <3>1, AllStayExact DEF IRecord
    <3>4. Righted'
      BY <3>1 DEF IRecord, Righted, RowIsRight, Row, Fine
    <3> QED
      BY <3>2, <3>3, <3>4 DEF IRecord
  <2> QED
    BY <2>2, <2>3, <2>4 DEF Next
<1> QED
  BY <1>1, RecordInitially, BindingInvariant, PTL DEF Spec

(* A row that sqliterkBtreeParsePayload delivers, of a cell that could be  *)
(* read, is a record of the file format from its first to its last byte,   *)
(* and its values are those of the format: varints, offsets, lengths and   *)
(* signs are right for rows of any length, any bytes and any number of     *)
(* columns, unless the length of the header or a type in it is a varint of *)
(* nine bytes or does not fit in an int.                                   *)
THEOREM AcceptedAlwaysExact == Spec => []AcceptedIsExact
<1>1. IRecord => AcceptedIsExact
  BY DEF IRecord, AllAreExact, OneIsExact, Decoded, AcceptedIsExact, Readable, Fine
<1> QED
  BY <1>1, RecordInvariant, PTL

(* A row that could be read and that sqliterkBtreeParsePayload gives up is *)
(* no record of the file format, with the same exception.                  *)
THEOREM SoundAlwaysAccepted == Spec => []SoundIsAccepted
<1>1. IRecord => SoundIsAccepted
  BY DEF IRecord, Righted, RowIsRight, SoundIsAccepted, Readable, Fine
<1> QED
  BY <1>1, RecordInvariant, PTL
=============================================================================
