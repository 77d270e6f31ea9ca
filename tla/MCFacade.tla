------------------------------ MODULE MCFacade ------------------------------
(***************************************************************************)
(* A schema of two versions, and one that cannot be backed up.             *)
(***************************************************************************)
EXTENDS Facade

Table(t) == [name |-> t, tbl |-> t, kind |-> "table", sys |-> FALSE,
             long |-> FALSE]

Versions == { <<Table(1)>>, <<Table(1), Table(2)>>,
              <<Table(1), [Table(2) EXCEPT !.long = TRUE]>> }
AllOnly  == {{}}

(* The backup of the first version is a small one.                         *)
SmallBackups == [rows : {<<Table(1)>>}, key : Keys]
=============================================================================
