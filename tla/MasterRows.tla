------------------------------ MODULE MasterRows ------------------------------
(***************************************************************************)
(* The rows of sqlite_master that a backup keeps, and what a load makes of *)
(* them.                                                                   *)
(***************************************************************************)
EXTENDS Integers, Sequences, FiniteSets

CONSTANTS
  Paths,      \* the paths of backup files
  Schemas,    \* what sqlite_master may hold: sequences of rows
  Keys,       \* cipher keys
  Filters     \* the sets of tables that a load selects; {} selects all

(* A row of sqlite_master, about an object and the table it belongs to:    *)
(* long, when a name or the SQL exceeds its length field; sys, when the    *)
(* name begins with sqlite_.                                               *)
MasterRow == [name : Nat, tbl : Nat, kind : {"table", "index", "other"},
              sys : BOOLEAN, long : BOOLEAN]

ASSUME MasterRowsAssumption ==
  Schemas \subseteq Seq(MasterRow) /\ Filters \subseteq SUBSET Nat

Saved(row) == ~ row.sys /\ row.kind # "other"

(* The rows to save among the first n of a sqlite_master, and of all of it. *)
SavedTo(schema) ==
  LET to[n \in 0 .. Len(schema)] ==
        IF n = 0 THEN <<>>
        ELSE IF Saved(schema[n]) THEN Append(to[n - 1], schema[n]) ELSE to[n - 1]
  IN to
SavedRows(schema) == SavedTo(schema)[Len(schema)]

(* The entry of a selected table of which the backup has no row            *)
(* (sqliterk_make_master).                                                 *)
Unknown == [name |-> 0, tbl |-> 0, kind |-> "unknown", sys |-> FALSE,
            long |-> FALSE]

Selected(row, filter) == filter = {} \/ row.tbl \in filter

(* The map of names with one more row.                                     *)
Inserted(map, row) ==
  [t \in DOMAIN map \cup {row.name} |-> IF t = row.name THEN row ELSE map[t]]

(* What sqliterk_load_master returns of a backup of these rows: of each    *)
(* name its last row.                                                      *)
Selection(rows, filter) ==
  LET sel     == {i \in DOMAIN rows : Selected(rows[i], filter)}
      last(t) == CHOOSE i \in sel : /\ rows[i].name = t
                                    /\ \A j \in sel : rows[j].name = t => j <= i
  IN [t \in filter \cup {rows[i].name : i \in sel} |->
        IF \E i \in sel : rows[i].name = t THEN rows[last(t)] ELSE Unknown]
=============================================================================
