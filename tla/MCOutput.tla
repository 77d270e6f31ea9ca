------------------------------- MODULE MCOutput -------------------------------
(***************************************************************************)
(* Databases, backups and targets for the runs of the recovery.            *)
(***************************************************************************)
EXTENDS OutputRows, MCBtreeParse

(* A table 1 of two leaves at page 2, its index 3 at page 6, a view, and a *)
(* table 2 of one leaf at page 5 with a bad third row.                     *)
Shop ==
  << Leaf(<<Table(2), Table(6), Plain, Table(5)>>),
     Node(<<3>>, 4), Leaf(<<Plain, Plain>>), Leaf(<<Plain>>),
     Leaf(<<Plain, Plain, Bad>>),
     IndexLeaf >>
ShopImages == {Shop}

ShopNames == 1 .. 3

ShopSchema ==
  (<<1, 1>> :> [type |-> "table", name |-> 1, tbl |-> 1, sql |-> "create"]) @@
  (<<1, 2>> :> [type |-> "index", name |-> 3, tbl |-> 1, sql |-> "create"]) @@
  (<<1, 4>> :> [type |-> "table", name |-> 2, tbl |-> 2, sql |-> "create"])

(* The backup of that sqlite_master; a selection of one table, as          *)
(* sqliterk_make_master builds it.                                         *)
Backup ==
  (1 :> [type |-> "table", root |-> 2, sql |-> "create"]) @@
  (2 :> [type |-> "table", root |-> 5, sql |-> "create"]) @@
  (3 :> [type |-> "index", root |-> 6, sql |-> "create"])
Selection == 1 :> [type |-> "unknown", root |-> 0, sql |-> "empty"]

NoMaster   == {<<>>}
AllMasters == {<<>>, Backup, Selection}

NoFlags  == {{}}
AnyFlags == SUBSET {"NO_CREATE_TABLES", "ALL_TABLES"}

(* The shop and its backups are databases of which the promise is proved.  *)
ASSUME ShopIsGenuine ==
  \A img \in Images, known \in Masters : Genuine(img, known)
=============================================================================
