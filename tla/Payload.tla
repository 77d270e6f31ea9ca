------------------------------- MODULE Payload -------------------------------
(***************************************************************************)
(* The rows of one leaf page: sqliterkBtreeParseCell takes the cells in    *)
(* turn, sqliterkBtreeParsePayload collects the bytes of a cell and decodes*)
(* them into the value list of a column that all cells share.  Allocations *)
(* and reads may fail.                                                     *)
(*                                                                         *)
(* A byte is less than 2 * Digits: 256 in the code, where a varint has up  *)
(* to MaxVarint = 9 bytes.                                                 *)
(***************************************************************************)
EXTENDS Integers, Sequences

CONSTANTS
  Leaves,      \* the leaves: sequences of cells
  Digits,      \* 128: what a byte of a varint counts
  MaxVarint,   \* sqliterkGetMaxVarintLength()
  IntLimit,    \* 2^31: an int is less
  First,       \* 4: the first capacity of a list
  MaxLeaf, MinLocal, PerPage,  \* bytes: of a cell at most and at least in
               \* its page, of an overflow page
  Garbage,     \* bytes that may lie behind a payload
  MaxBehind,   \* bound: bytes behind a payload that are read as types;
               \* the one after them is no type
  MaxFaults    \* bound: failing allocations and reads

Byte == 0 .. 2 * Digits - 1

(* The bytes of a row, the overflow pages that can be reached from it, and *)
(* whether its local part lies inside the page.                            *)
Cell == [data : Seq(Byte), pages : Nat, inside : BOOLEAN]

ASSUME PayloadAssumption ==
  /\ Digits \in Nat \ {0, 1} /\ MaxVarint \in Nat \ {0, 1}
  /\ IntLimit \in Nat \ {0}
  /\ Leaves \subseteq Seq(Cell) /\ Garbage \subseteq Byte
  /\ First \in Nat \ {0} /\ PerPage \in Nat \ {0}
  /\ MaxLeaf \in Nat /\ MinLocal \in 0 .. MaxLeaf
  /\ MaxBehind \in Nat /\ MaxFaults \in Nat

VARIABLES
  leaf, i,        \* the cells and the one at hand
  at,             \* where sqliterkBtreeParseCell is
  bytes,          \* payloadData, as far as it has been read
  chain,          \* overflow pages that are left
  dec,            \* the decoding loop: its offsets and their ends
  values, overs,  \* the two lists of the column
  blocks,         \* allocations that are held
  delivered,      \* history: the rows that were delivered
  lost, faults    \* history: allocations nobody frees; failures

payloadVars == <<leaf, i, at, bytes, chain, dec, values, overs, blocks,
                 delivered, lost, faults>>

Row     == leaf[i]
Size    == Len(Row.data)
Fault   == faults < MaxFaults /\ faults' = faults + 1
NoFault == UNCHANGED faults

-----------------------------------------------------------------------------
(* A list has slots for capacity + 1 values, and its values hold some      *)
(* allocations; unless it is short (history): it could not grow.           *)
NewList    == [items |-> <<>>, held |-> 0, cap |-> First, slots |-> First + 1,
               short |-> FALSE]
NoList     == [NewList EXCEPT !.cap = 0, !.slots = 0]

(* A value: of which kind, and the bytes it is made of.                    *)
Takes(v) == IF v.kind = "null" THEN 0
            ELSE IF v.kind \in {"integer", "number"} THEN 1 ELSE 2

(* sqliterkValuesAutoGrow: the capacity is raised before the allocation.   *)
Full(l)   == Len(l.items) >= l.cap
Raised(l) == [l EXCEPT !.cap = 2 * @]

(* Mutant: the new slots are not allocated.                                *)
MutGrown(l) == IF Full(l) THEN Raised(l) ELSE l

Grown(l) ==
  IF Full(l) THEN [Raised(l) EXCEPT !.slots = 2 * l.cap + 1, !.short = FALSE] ELSE l

Added(l, v) == [Grown(l) EXCEPT !.items = Append(@, v), !.held = @ + Takes(v)]

(* What an add leaves when one of its allocations fails: the record of a   *)
(* blob is not given back.                                                 *)
Botched(l, v) ==
  (IF Full(l) THEN {[list |-> [Raised(l) EXCEPT !.short = TRUE], lost |-> 0]}
   ELSE {})
    \cup {[list |-> Grown(l), lost |-> IF v.kind = "blob" THEN n ELSE 0] :
            n \in {n \in {0, 1} : Takes(v) > n}}

-----------------------------------------------------------------------------
(* Byte k of the payload, counted from 0; g lies around it.                *)
ByteAt(k, g) == IF k \in 0 .. Len(bytes) - 1 THEN bytes[k + 1] ELSE g

(* sqliterkParseVarint: the bytes with the flag, and the one without.      *)
VarintLen(k, g) ==
  LET ends == {n \in 1 .. MaxVarint : ByteAt(k + n - 1, g) < Digits}
  IN IF ends = {} THEN 0 ELSE CHOOSE n \in ends : \A m \in ends : n <= m

(* An int takes it modulo 2^32.                                            *)
ToInt(x) == ((x + IntLimit) % (2 * IntLimit)) - IntLimit

Varint(k, g) ==
  LET sum[n \in 0 .. MaxVarint] ==
        IF n = 0 THEN 0
        ELSE Digits * sum[n - 1] + (ByteAt(k + n - 1, g) % Digits)
  IN ToInt(sum[VarintLen(k, g)])

(* sqliterkBtreeGetLengthForSerialType                                     *)
LengthOf(type) ==
  IF type < 0 THEN 0
  ELSE IF type >= 12 THEN (type - 12 - (type % 2)) \div 2
  ELSE <<0, 1, 2, 3, 4, 6, 8, 8, 0, 0, 0, 0>>[type + 1]

(* sqliterkParseInt64: the first byte is signed.                           *)
(* Mutant: it is not.                                                      *)
MutSignedByte(b) == b

SignedByte(b) == IF b < Digits THEN b ELSE b - 2 * Digits

IntAt(k, len, g) ==
  LET sum[n \in 1 .. len] ==
        IF n = 1 THEN SignedByte(ByteAt(k, g))
        ELSE 2 * Digits * sum[n - 1] + ByteAt(k + n - 1, g)
  IN sum[len]

BytesAt(k, len, g) == [n \in 1 .. len |-> ByteAt(k + n - 1, g)]

(* Of a negative type, an integer that nothing was assigned to.            *)
ValueAt(type, k, g) ==
  IF type = 0 THEN [kind |-> "null", int |-> 0, raw |-> <<>>]
  ELSE IF type < 7
  THEN [kind |-> "integer", raw |-> <<>>,
        int |-> IF type < 0 THEN g ELSE IntAt(k, LengthOf(type), g)]
  ELSE IF type = 7 THEN [kind |-> "number", int |-> 0, raw |-> BytesAt(k, 8, g)]
  ELSE IF type < 12 THEN [kind |-> "integer", int |-> type - 8, raw |-> <<>>]
  ELSE [kind |-> IF type % 2 = 0 THEN "blob" ELSE "text", int |-> 0,
        raw |-> BytesAt(k, LengthOf(type), g)]

-----------------------------------------------------------------------------
(* The part of a row of this size that is in its leaf.                     *)
Local(size) ==
  LET surplus == MinLocal + ((size - MinLocal) % PerPage)
  IN IF size <= MaxLeaf THEN size
     ELSE IF surplus <= MaxLeaf THEN surplus ELSE MinLocal

(* The first n bytes of the row, and zeros.                                *)
Known(row, n) == [k \in 1 .. Len(row.data) |-> IF k <= n THEN row.data[k] ELSE 0]

Column == UNCHANGED <<values, overs>>
Cells  == UNCHANGED <<leaf, i>>
Quiet  == UNCHANGED <<delivered, lost>>

(* sqliterkColumnAlloc: the column, two lists and their slots.             *)
ColumnAlloc ==
  /\ at = "start" /\ Cells /\ Quiet /\ UNCHANGED <<bytes, chain, dec>>
  /\ \/ /\ values' = NewList /\ overs' = NewList /\ blocks' = blocks + 5
        /\ at' = "cells" /\ NoFault
     \/ at' = "done" /\ UNCHANGED blocks /\ Column /\ Fault

(* The column is cleared for each cell.                                    *)
Cleared(l) == [l EXCEPT !.items = <<>>, !.held = 0]

NextCell ==
  /\ at = "cells" /\ i < Len(leaf)
  /\ i' = i + 1 /\ UNCHANGED <<leaf, dec>> /\ Quiet
  /\ values' = Cleared(values) /\ overs' = Cleared(overs)
  /\ LET row   == leaf[i + 1]
         local == Local(Len(row.data))
         freed == values.held + overs.held
     IN \/ /\ row.data # <<>> /\ NoFault
           /\ bytes' = Known(row, IF row.inside THEN local ELSE 0)
           /\ chain' = IF local < Len(row.data) THEN row.pages ELSE 0
           /\ blocks' = blocks - freed + 1
           /\ at' = IF row.inside THEN "overflow" ELSE "failed"
        \/ /\ IF row.data = <<>> THEN NoFault ELSE Fault
           /\ bytes' = <<>> /\ UNCHANGED chain
           /\ blocks' = blocks - freed /\ at' = "failed"

(* The chain is followed to its end, be it shorter than the payload, which *)
(* is zero there, or longer; the results of the add and, in the end, of the*)
(* read are dropped.                                                       *)
PageNo == [kind |-> "integer", int |-> 0, raw |-> <<>>]

Overflow ==
  /\ at = "overflow" /\ chain > 0
  /\ Cells /\ UNCHANGED <<values, dec, delivered>>
  /\ LET had == Local(Size) + PerPage * (Row.pages - chain)
     IN \/ /\ overs' = Added(overs, PageNo) /\ blocks' = blocks + 1
           /\ bytes' = Known(Row, had + PerPage) /\ chain' = chain - 1
           /\ UNCHANGED lost /\ NoFault
        \/ /\ \E b \in Botched(overs, PageNo) : overs' = b.list
           /\ bytes' = Known(Row, had + PerPage) /\ chain' = chain - 1
           /\ UNCHANGED <<lost, blocks>> /\ Fault
        \/ /\ overs' = Added(overs, PageNo) /\ blocks' = blocks + 1
           /\ chain' = 0 /\ UNCHANGED <<bytes, lost>> /\ Fault
  /\ UNCHANGED at

Start(k, v) == [type |-> k, types |-> v, value |-> v]

(* The length of the header, its first varint, is where the values begin.  *)
Header ==
  /\ at = "overflow" /\ chain = 0
  /\ Cells /\ Column /\ Quiet /\ NoFault /\ UNCHANGED <<bytes, chain, blocks>>
  /\ \E g \in Garbage :
       IF VarintLen(0, g) = 0 THEN at' = "failed" /\ UNCHANGED dec
       ELSE at' = "values" /\ dec' = Start(VarintLen(0, g), Varint(0, g))

(* Mutant: types of empty values at the end are left.                      *)
MutMore == dec.value < Size /\ dec.type < dec.types

More == dec.value < Size \/ dec.type < dec.types

(* Of no value: a varint that is too long, the types 10 and 11.            *)
NoType(len, type) ==
  len = 0 \/ type \in {10, 11} \/ dec.type >= Size + MaxBehind

Value ==
  /\ at = "values" /\ More /\ Cells /\ UNCHANGED <<bytes, chain, overs, delivered>>
  /\ \E g \in Garbage :
       LET len  == VarintLen(dec.type, g)
           type == Varint(dec.type, g)
           v    == ValueAt(type, dec.value, g)
       IN \/ /\ NoType(len, type)
             /\ at' = "failed" /\ NoFault
             /\ UNCHANGED <<dec, values, blocks, lost>>
          \/ /\ ~ NoType(len, type) /\ NoFault
             /\ values' = Added(values, v) /\ blocks' = blocks + Takes(v)
             /\ dec' = [dec EXCEPT !.type = @ + len, !.value = @ + LengthOf(type)]
             /\ UNCHANGED <<at, lost>>
          \/ /\ ~ NoType(len, type) /\ Fault
             /\ \E b \in Botched(values, v) :
                  /\ values' = b.list /\ lost' = lost + b.lost
                  /\ blocks' = blocks + b.lost
             /\ at' = "failed" /\ UNCHANGED dec

(* Both offsets have to be at their ends.                                  *)
(* Mutant: the header may have ended anywhere.                             *)
MutExact == dec.value = Size

Exact == dec.type = dec.types /\ dec.value = Size

Check ==
  /\ at = "values" /\ ~ More
  /\ at' = IF Exact THEN "deliver" ELSE "failed"
  /\ Cells /\ Column /\ Quiet /\ NoFault /\ UNCHANGED <<bytes, chain, dec, blocks>>

(* onParseColumn, which goes on or cancels; then the payload is freed.     *)
Deliver ==
  /\ at = "deliver" /\ Cells /\ Column /\ NoFault /\ UNCHANGED <<chain, dec, lost>>
  /\ delivered' = Append(delivered, [row |-> i, values |-> values.items])
  /\ bytes' = <<>> /\ blocks' = blocks - 1
  /\ at' \in {"cells", "failed"}

(* Mutant: the payload of a row that is given up is forgotten.             *)
MutFreed == 5 + values.held + overs.held

Freed == 5 + values.held + overs.held + (IF bytes = <<>> THEN 0 ELSE 1)

(* One row that cannot be read ends the leaf.  The payload and the column  *)
(* are freed.                                                              *)
Leave ==
  /\ at = "failed" \/ (at = "cells" /\ i = Len(leaf))
  /\ at' = "done" /\ values' = NoList /\ overs' = NoList
  /\ blocks' = blocks - Freed /\ bytes' = <<>>
  /\ Cells /\ Quiet /\ NoFault /\ UNCHANGED <<chain, dec>>

PayloadInit ==
  /\ leaf \in Leaves /\ i = 0 /\ at = "start"
  /\ bytes = <<>> /\ chain = 0 /\ dec = Start(0, 0)
  /\ values = NoList /\ overs = NoList /\ blocks = 0
  /\ delivered = <<>> /\ lost = 0 /\ faults = 0

Decode == ColumnAlloc \/ NextCell \/ Overflow \/ Header \/ Value \/ Check \/ Leave

-----------------------------------------------------------------------------
(* Nothing is written behind the slots of the values, whichever allocation *)
(* fails; nor behind those of the overflow pages, except after this list   *)
(* could not grow, for its pages are added all the same.                   *)
SlotsHold ==
  /\ Len(values.items) <= values.slots
  /\ ~ overs.short => Len(overs.items) <= overs.slots

(* What was allocated for a leaf has been freed when it is left, wherever  *)
(* that was, except the record of a blob whose bytes were not allocated.   *)
NothingLeaks == at = "done" => blocks = lost
=============================================================================
