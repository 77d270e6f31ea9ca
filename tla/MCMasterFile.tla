---------------------------- MODULE MCMasterFile ----------------------------
(***************************************************************************)
(* Schemas for the run of the backup files.                                *)
(***************************************************************************)
EXTENDS MasterFile

Table(t) == [name |-> t, tbl |-> t, kind |-> "table", sys |-> FALSE,
             long |-> FALSE]
Index(t, of) == [Table(t) EXCEPT !.tbl = of, !.kind = "index"]
View(t)      == [Table(t) EXCEPT !.kind = "other"]

(* Nothing; a table with an index, a view and a system table; two objects  *)
(* of one name, and a third, which fill the buffer three times; a row that *)
(* is too long after one that is not.                                      *)
SomeSchemas ==
  { <<>>,
    <<Table(1), View(3), Index(4, 1), [Table(5) EXCEPT !.sys = TRUE]>>,
    <<Index(1, 2), Table(1), Table(2)>>,
    <<Table(2), [Table(1) EXCEPT !.long = TRUE]>> }

SomeFilters == {{}, {1}, {2, 5}}
=============================================================================
