---------------------------- MODULE RecordFormat ----------------------------
(***************************************************************************)
(* A record as the SQLite file format defines it, for rows whose varints   *)
(* have less than the maximal length: the reference for the decoder.       *)
(***************************************************************************)
EXTENDS Payload

Power(base, n) ==
  LET power[m \in 0 .. n] == IF m = 0 THEN 1 ELSE base * power[m - 1]
  IN power[n]

(* What digits stand for, the most significant one first.                  *)
PlaceValue(digits, base) ==
  LET n == Len(digits)
      sum[m \in 0 .. n] == IF m = 0 THEN 0
                           ELSE sum[m - 1] + digits[m] * Power(base, n - m)
  IN sum[n]

(* The varint at byte k of a row ends with the first byte that has no flag,*)
(* or is of maximal length.                                                *)
FormatLen(data, k) ==
  LET ends == {n \in 1 .. Len(data) - k : n < MaxVarint /\ data[k + n] < Digits}
  IN IF ends = {} THEN MaxVarint ELSE CHOOSE n \in ends : \A m \in ends : n <= m

Whole(data, k) == k + FormatLen(data, k) <= Len(data)

FormatVarint(data, k) ==
  PlaceValue([m \in 1 .. FormatLen(data, k) |-> data[k + m] % Digits], Digits)

(* The varints of a row are the length of its header and, up to there, the *)
(* types: each begins behind the last byte of the one before.              *)
Begins(data, k) ==
  k = 0 \/ (Whole(data, 0) /\ k < FormatVarint(data, 0) /\ data[k] < Digits)

(* One of them is as long as can be, or more than an int holds.            *)
Extreme(data) ==
  \E k \in 0 .. Len(data) - 1 :
    /\ Begins(data, k) /\ Whole(data, k)
    /\ FormatLen(data, k) = MaxVarint \/ FormatVarint(data, k) >= IntLimit

(* The header holds its own length and the types, and nothing else.        *)
TypesFrom(data) ==
  LET end == FormatVarint(data, 0)
      from[k \in 0 .. Len(data)] ==
        IF k = end THEN <<>>
        ELSE IF k > end \/ k >= Len(data) \/ ~ Whole(data, k)
        THEN <<10>>
        ELSE <<FormatVarint(data, k)>> \o from[k + FormatLen(data, k)]
  IN from

Types(data) == TypesFrom(data)[FormatLen(data, 0)]

(* The values follow one another behind it, to the end of the row.         *)
Offset(data, j) ==
  LET sum[m \in 1 .. j] == IF m = 1 THEN FormatVarint(data, 0)
                           ELSE sum[m - 1] + LengthOf(Types(data)[m - 1])
  IN sum[j]

SoundRow(data) ==
  /\ data # <<>> /\ Whole(data, 0)
  /\ \A j \in DOMAIN Types(data) : Types(data)[j] \notin {10, 11}
  /\ Offset(data, Len(Types(data)) + 1) = Len(data)

(* Integers are big-endian and in two's complement.                        *)
TwosComplement(raw) ==
  IF raw[1] < Digits THEN PlaceValue(raw, 2 * Digits)
  ELSE PlaceValue(raw, 2 * Digits) - Power(2 * Digits, Len(raw))

FormatValue(data, j) ==
  LET type == Types(data)[j]
      raw  == SubSeq(data, Offset(data, j) + 1, Offset(data, j) + LengthOf(type))
  IN CASE type = 0           -> [kind |-> "null", int |-> 0, raw |-> <<>>]
       [] type \in 1 .. 6    -> [kind |-> "integer", int |-> TwosComplement(raw),
                                 raw |-> <<>>]
       [] type = 7           -> [kind |-> "number", int |-> 0, raw |-> raw]
       [] type \in {8, 9}    -> [kind |-> "integer", int |-> type - 8, raw |-> <<>>]
       [] type >= 12         -> [kind |-> IF type % 2 = 0 THEN "blob" ELSE "text",
                                 int |-> 0, raw |-> raw]

Readable(row) ==
  /\ faults = 0 /\ row.inside /\ ~ Extreme(row.data)
  /\ Local(Len(row.data)) + PerPage * row.pages >= Len(row.data)

-----------------------------------------------------------------------------
(* A row that is delivered is a record from its first to its last byte,    *)
(* and its values are those of the record: nothing beside the payload has  *)
(* been read for it, no value is another one's, signs are right.           *)
AcceptedIsExact ==
  \A n \in DOMAIN delivered :
    LET row == leaf[delivered[n].row]
    IN Readable(row) =>
         /\ SoundRow(row.data)
         /\ delivered[n].values = [j \in DOMAIN Types(row.data) |->
                                     FormatValue(row.data, j)]

(* A row that is given up is no record, if all of it could be read.        *)
SoundIsAccepted ==
  at = "failed" /\ i > 0 /\ bytes # <<>> /\ Readable(Row) => ~ SoundRow(Row.data)
=============================================================================
