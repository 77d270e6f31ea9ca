------------------------------ MODULE OutputRows ------------------------------
(***************************************************************************)
(* The target database of Output against the damaged file: end to end,     *)
(* from the pages to the committed rows.                                   *)
(***************************************************************************)
EXTENDS Output, RowOrder

(* The rows of table n that the file img holds, in order.                  *)
RootCells(img, n) ==
  {x \in DOMAIN Schema : /\ Schema[x].name = n /\ Schema[x].type = "table"
                         /\ x[2] \in DOMAIN img[x[1]].cells}
RootsOf(img, n) == {img[x[1]].cells[x[2]].root : x \in RootCells(img, n)}
Roots(img, n)   == SetToSeq(RootsOf(img, n))

OfferedBy == [img \in Images |-> [n \in Names |->
  LET w == Walk(img, Roots(img, n), {}, AllCells(img))
  IN [k \in DOMAIN w |-> Row(n, w[k].page, w[k].i)]]]

Offered == OfferedBy[image]

(* The rows of table n among the effects s.                                *)
RowsOf(s, n) ==
  LET of[m \in 0 .. Len(s)] ==
        IF m = 0 THEN <<>>
        ELSE IF s[m].name = n /\ s[m].page # 0 THEN Append(of[m - 1], s[m])
        ELSE of[m - 1]
  IN of[Len(s)]

Held == [n \in Names |-> RowsOf(db.done, n)]

(* The recovery implements the promise of Recovery, cancelled or not,      *)
(* whatever pages and statements fail.                                     *)
Promise == INSTANCE Recovery WITH offered <- Offered, held <- Held,
                                  outcome <- result

PromiseIsKept == Promise!Spec

(* What the promise needs of the file and of what the caller knows of it:  *)
(* each table is a tree of its own, and it is the one that was backed up.  *)
Genuine(img, known) ==
  /\ \A n \in Names : \A r \in RootsOf(img, n) : IsForest(img, <<r>>)
  /\ \A n \in DOMAIN known :
       known[n].type = "table" => known[n].root \in RootsOf(img, n) \cup {0}

(* Tables that the recovery must know: those of the readable part of       *)
(* sqlite_master, and those of the backup.                                 *)
Listed ==
  {Schema[at].name : at \in
     {x \in DOMAIN Schema : /\ Schema[x].type = "table" /\ x[1] \notin lost
                            /\ ~ image[x[1]].cells[x[2]].sys
                            /\ "ALL_TABLES" \in flags}}
  \cup {n \in DOMAIN tables : tables[n].type = "table"}

(* Damage costs only its rows, end to end.  When the recovery was not      *)
(* cancelled and no statement failed, then every table that sqlite_master  *)
(* or the backup names holds every row that is in a readable leaf under    *)
(* readable ancestors, before the first bad cell of that leaf; with a      *)
(* backup even if sqlite_master itself is lost.                            *)
ReadableIsRecovered ==
  /\ pc = "done" /\ ~ cancelled /\ db.faults = 0
  /\ Callback = {"OK"}
  => \A n \in Listed :
       n \in Preset \/ "NO_CREATE_TABLES" \notin flags =>
         LET w == Walk(image, Roots(image, n), lost, SureCells)
         IN \A k \in DOMAIN w :
              \E m \in DOMAIN Held[n] : Held[n][m] = Row(n, w[k].page, w[k].i)
=============================================================================
