-------------------------------- MODULE MCRows --------------------------------
(***************************************************************************)
(* Leaves for the runs of the record decoder, with bytes of 0 .. 7: 4 is   *)
(* the flag of a varint.                                                   *)
(***************************************************************************)
EXTENDS RowBinding, RecordFormat

In(data)         == [data |-> data, pages |-> 0, inside |-> TRUE]
Long(data, n)    == [In(data) EXCEPT !.pages = n]
Outside(data)    == [In(data) EXCEPT !.inside = FALSE]

(* Types above 3 take two bytes, from 16 on three: <<5, t>> is 4 + t,       *)
(* <<6, t>> is 8 + t, <<7, t>> is 12 + t.                                  *)
Text0 == <<7, 1>>
Blob1 == <<7, 2>>
Text1 == <<7, 3>>

(* Integers of 1, 2 and 3 bytes of both signs; -1 of each.                 *)
Ints == {<<2, t>> \o raw :
           <<t, raw>> \in {<<1, <<5>>>>, <<1, <<3>>>>, <<2, <<4, 7>>>>,
                           <<2, <<3, 6>>>>, <<3, <<7, 0, 5>>>>,
                           <<3, <<0, 7, 7>>>>, <<1, <<7>>>>, <<2, <<7, 7>>>>,
                           <<3, <<7, 7, 7>>>>}}

(* Of 4, 6 and 8 bytes, a number; a blob and a text of two bytes; rows of  *)
(* several columns.  All are records and overflow.  Then the same without  *)
(* their last byte or with one more, and varints that the row cuts off.    *)
Wide ==
  {<<3, 5>> \o raw :
     raw \in {<<0, 0, 7, 7, 5>>, <<0, 4, 0, 0, 1>>, <<1, 7, 6, 5, 4, 3, 2>>,
              <<1, 2, 6, 5, 4, 3, 2>>, <<2, 7, 6, 5, 4, 3, 2, 1, 0>>,
              <<2, 3, 7, 7, 7, 7, 7, 7, 7>>, <<3, 1, 2, 3, 4, 5, 6, 7, 7>>}}
    \cup {<<5, 1, 5, 4, 0, 7, 7>>, <<5, 1, 1, 5, 0, 7, 4, 0, 0, 5>>,
          <<5, 2, 5, 4, 1, 0, 6, 7>>, <<6, 0, 0, 0, 0, 0, 0, 0>>}

Cut    == {SubSeq(data, 1, Len(data) - 1) : data \in Wide}
More1  == {data \o <<0>> : data \in Wide}
Broken == {<<3, 5, 5>>, <<5, 0, 0, 0, 6>>, <<3, 1, 7, 7>>, <<5, 7, 6>>}

Rows2 == { <<3>> \o Blob1 \o <<6>>, <<3>> \o Text1 \o <<6>>,
           <<3>> \o Text0, <<2, 0>>, <<3, 0, 1, 4>>, <<2, 1, 6>>,
           <<5, 1, 0, 1, 0, 6>>, <<5, 1, 1, 0, 0, 6>> }

Few  == {<<In(a), In(b), In(<<2, 0>>)>> : a \in Rows2, b \in Rows2}
Any  == {<<In(data)>> : data \in UNION {[1 .. n -> 0 .. 7] : n \in 0 .. 4}}
Grow == {<<In(<<6, 0, 0, 0, 0, 0>>), In(<<2, 1, 6>>)>>,
         <<In(<<5, 2, 0, 0, 0, 0>>), In(<<2, 1, 6>>)>>,
         <<Outside(<<2, 0>>)>>, <<>>}
Chains == {<<Long(data, n), In(<<2, 0>>)>> : n \in 0 .. 5, data \in Wide}
Alone  == {<<Long(data, 4)>> : data \in Ints \cup Cut \cup More1 \cup Broken}

SomeLeaves == Few \cup Any \cup Grow \cup Chains \cup Alone
=============================================================================
