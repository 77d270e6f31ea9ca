-------------------------------- MODULE Output --------------------------------
(***************************************************************************)
(* sqliterk_output_cb: the tables that sqlite_master and its backup name   *)
(* are created in the target database and their rows inserted, while the   *)
(* traversal of BtreeParse runs; sqliterk_cancel comes from another thread. *)
(*                                                                         *)
(* The traversal calls master_onParseColumn or table_onParseColumn, which  *)
(* is BtreeParse's Deliver with the answer that the handler returns.       *)
(***************************************************************************)
EXTENDS BtreeParse

CONSTANTS
  Names,        \* names of tables and indices, numbered in the order of
                \* std::map
  Schema,       \* Schema[<<page, cell>>]: the rows of sqlite_master that
                \* are about a table or an index
  Masters,      \* master_: what the caller knows of sqlite_master, {<<>>}
                \* without it
  FlagSets,     \* the sets of flags it may pass
  Preset,       \* tables that the target database already has
  Callback,     \* what the caller's row callback may return
  Batch,        \* 256 in the code
  MaxSqlFaults  \* bound: statements that SQLite fails to execute

Types == {"table", "index", "unknown"}
Entry == [type : Types, root : Int, sql : {"create", "empty", "bad"}]

ASSUME OutputAssumption ==
  /\ Names \subseteq Nat \ {0}
  /\ \A at \in DOMAIN Schema :
       /\ at \in Pages \X Nat
       /\ Schema[at].type \in {"table", "index"}
       /\ Schema[at].name \in Names /\ Schema[at].tbl \in Names
       /\ Schema[at].sql \in {"create", "empty", "bad"}
  /\ \A known \in Masters :
       DOMAIN known \subseteq Names /\ \A n \in DOMAIN known : known[n] \in Entry
  /\ FlagSets \subseteq SUBSET {"NO_CREATE_TABLES", "ALL_TABLES"}
  /\ Preset \subseteq Names
  /\ "OK" \in Callback /\ Callback \subseteq Codes \cup {"IGNORE"}
  /\ {"OK", "CANCELLED"} \cup (Callback \ {"IGNORE"}) \subseteq Answers
  /\ Batch \in Nat \ {0} /\ MaxSqlFaults \in Nat
  /\ ~ Recursive

VARIABLES
  pc,        \* the phase of sqliterk_output_cb
  flags,     \* ctx.flags
  tables,    \* ctx.tables
  cursor,    \* the entry that a loop over ctx.tables has reached
  stmt,      \* the table that ctx.stmt inserts into, None or Failed
  db,        \* the target database: a transaction may be open; effects of
             \* statements, committed and pending; history: failed statements
  success,   \* ctx.success_count
  cancelled, \* ctx.cancelled
  result     \* what sqliterk_output_cb returned

context == <<pc, flags, tables, cursor, stmt, db, success, result>>
outVars == <<context, cancelled>>
allVars == <<vars, outVars>>

None   == 0
Failed == -1  \* no statement, and table_cursor at the end of the map

-----------------------------------------------------------------------------
(* The target database.  An effect is a table or index created (page 0) or *)
(* a row inserted.                                                         *)
Created(n)   == [name |-> n, page |-> 0, i |-> 0]
Row(n, p, i) == [name |-> n, page |-> p, i |-> i]
Effects(x)   == {x.done[k] : k \in DOMAIN x.done} \cup
                {x.pending[k] : k \in DOMAIN x.pending}
Exists(x, n) == n \in Preset \/ Created(n) \in Effects(x)

Execute(x, e) == IF x.open THEN [x EXCEPT !.pending = Append(@, e)]
                 ELSE [x EXCEPT !.done = Append(@, e)]
Commit(x)     == [x EXCEPT !.open = FALSE, !.done = @ \o x.pending,
                           !.pending = <<>>]
Rollback(x)   == [x EXCEPT !.open = FALSE, !.pending = <<>>]

(* A statement that would lead from x to y may fail and leave x alone, or  *)
(* fail and roll the transaction back (a full disk, an I/O error).         *)
Fault(x)  == [x EXCEPT !.faults = @ + 1]
Try(x, y) == {y} \cup IF x.faults < MaxSqlFaults
                      THEN {Fault(x), Fault(Rollback(x))} ELSE {}

(* BEGIN fails inside a transaction; COMMIT fails outside one, and then    *)
(* "COMMIT; BEGIN;" stops.                                                 *)
Begin(x)    == IF x.open THEN {x} ELSE Try(x, [x EXCEPT !.open = TRUE])
End(x)      == IF x.open THEN Try(x, Commit(x)) ELSE {x}

(* Mutant: rows are not committed before the table ends.                   *)
MutRecommit(x) == {x}

Recommit(x) ==
  IF ~ x.open THEN {x}
  ELSE UNION {IF c.faults # x.faults THEN {c} ELSE Begin(c) : c \in End(x)}

-----------------------------------------------------------------------------
(* master_onParseColumn.  An index or a table is of interest when all are, *)
(* or when the table it belongs to is among those known.                   *)
Learn(p, i) ==
  LET row  == Schema[<<p, i>>]
      cell == image[p].cells[i]
  IN IF /\ <<p, i>> \in DOMAIN Schema /\ ~ cell.sys
        /\ "ALL_TABLES" \in flags \/ row.tbl \in DOMAIN tables
     THEN [n \in DOMAIN tables \cup {row.name} |->
             IF n # row.name THEN tables[n]
             ELSE [type |-> row.type, root |-> cell.root, sql |-> row.sql]]
     ELSE tables

MasterRow ==
  /\ pc = "master"
  /\ Deliver(IF cancelled THEN "CANCELLED" ELSE "OK")
  /\ tables' = IF cancelled THEN tables ELSE Learn(Top.page, Top.i)
  /\ UNCHANGED <<pc, flags, cursor, stmt, db, success, cancelled, result>>

(* table_onParseColumn, by its returns: cancelled; the caller's callback   *)
(* does not want the row; there is no statement for the table; the row is  *)
(* inserted.                                                               *)
RefuseRow ==
  /\ pc = "table" /\ cancelled
  /\ Deliver("CANCELLED")
  /\ UNCHANGED outVars

PassRow(answer) ==
  /\ pc = "table" /\ ~ cancelled
  /\ answer # "OK"
  /\ Deliver(IF answer = "IGNORE" THEN "OK" ELSE answer)
  /\ UNCHANGED outVars

(* init_insert finds no table, or SQLite fails to prepare the statement.   *)
DropRow ==
  /\ pc = "table" /\ ~ cancelled
  /\ Deliver("OK")
  /\ stmt' = Failed
  /\ \/ stmt = Failed /\ db' = db
     \/ stmt = None /\ ~ Exists(db, cursor) /\ db' = db
     \/ stmt = None /\ db.faults < MaxSqlFaults /\ db' = Fault(db)
  /\ UNCHANGED <<pc, flags, tables, cursor, success, cancelled, result>>

InsertRow ==
  /\ pc = "table" /\ ~ cancelled
  /\ stmt # Failed /\ (stmt = None => Exists(db, cursor))
  /\ Deliver("OK")
  /\ stmt' = IF stmt = None THEN cursor ELSE stmt
  /\ \E x \in IF stmt = None THEN Begin(db) ELSE {db} :
     \E y \in Try(x, Execute(x, Row(stmt', Top.page, Top.i))) :
       IF y.faults # x.faults
       THEN db' = y /\ success' = success
       ELSE /\ success' = success + 1
            /\ db' \in IF success' % Batch = 0 THEN Recommit(y) ELSE {y}
  /\ UNCHANGED <<pc, flags, tables, cursor, cancelled, result>>

-----------------------------------------------------------------------------
(* sqliterk_output_cb.                                                     *)
Finish(r) == pc' = "done" /\ result' = r

(* The traversal of sqlite_master has returned.                            *)
MasterParsed ==
  /\ pc = "master" /\ Done
  /\ IF rc = "CANCELLED" THEN Finish("CANCELLED")
     ELSE pc' = "tables" /\ UNCHANGED result
  /\ UNCHANGED <<vars, flags, tables, cursor, stmt, db, success, cancelled>>

(* Each loop over ctx.tables looks at `cancelled` before each entry.       *)
Rest    == {n \in DOMAIN tables : n > cursor}
Nearest == CHOOSE n \in Rest : \A m \in Rest : n <= m

(* Mutants: an entry is skipped; the loop stays where it is.               *)
MutAdvance == cursor' = Nearest + 1
MutStay    == UNCHANGED cursor

Advance == cursor' = Nearest

(* Mutant: the loop over the indices does not look at `cancelled`.         *)
MutNoticed == cancelled /\ pc = "tables"
Noticed == cancelled

LoopCancelled ==
  /\ pc \in {"tables", "indices"} /\ Rest # {} /\ Noticed
  /\ Finish("CANCELLED")
  /\ UNCHANGED <<vars, flags, tables, cursor, stmt, db, success, cancelled>>

(* CREATE statements of a table or an index.                               *)
Runs(n)   == tables[n].sql = "create" /\ ~ Exists(db, n)
Create(n) ==
  \E y \in IF Runs(n) THEN Try(db, Execute(db, Created(n))) ELSE {db} :
     /\ db' = y
     /\ success' = IF y.faults = db.faults /\ (Runs(n) \/ tables[n].sql = "empty")
                   THEN success + 1 ELSE success

NextTable ==
  /\ pc = "tables" /\ Rest # {} /\ ~ Noticed
  /\ Advance
  /\ LET e == tables[Nearest] IN
     /\ IF /\ e.type = "table" /\ e.sql # "empty"
           /\ "NO_CREATE_TABLES" \notin flags
        THEN Create(Nearest) ELSE UNCHANGED <<db, success>>
     /\ IF e.type = "table" /\ e.root # 0
        THEN pc' = "table" /\ todo' = <<e.root>>
        ELSE UNCHANGED <<pc, todo>>
  /\ UNCHANGED <<input, stack, status, rc, rows, lost, declined,
                 flags, tables, stmt, cancelled, result>>

(* Mutants: the rows of a damaged table are rolled back; the transaction   *)
(* is left to the next table; the statement is.                            *)
MutRollback ==
  /\ pc = "table" /\ Done
  /\ db' \in IF stmt \in {None, Failed} THEN {db}
             ELSE IF rc # "OK" THEN {Rollback(db)} ELSE End(db)
  /\ stmt' = None
  /\ IF rc = "CANCELLED" THEN Finish("CANCELLED")
     ELSE pc' = "tables" /\ UNCHANGED result
  /\ UNCHANGED <<vars, flags, tables, cursor, success, cancelled>>
MutNoCommit ==
  /\ pc = "table" /\ Done
  /\ stmt' = None
  /\ IF rc = "CANCELLED" THEN Finish("CANCELLED")
     ELSE pc' = "tables" /\ UNCHANGED result
  /\ UNCHANGED <<vars, flags, tables, cursor, db, success, cancelled>>
MutKeepStatement ==
  /\ pc = "table" /\ Done
  /\ db' \in IF stmt \in {None, Failed} THEN {db}
             ELSE IF rc = "CANCELLED" THEN {Rollback(db)} ELSE End(db)
  /\ IF rc = "CANCELLED" THEN Finish("CANCELLED")
     ELSE pc' = "tables" /\ UNCHANGED result
  /\ UNCHANGED <<vars, flags, tables, cursor, stmt, success, cancelled>>

(* sqliterk_parse_page has returned: the transaction ends and fini_insert  *)
(* drops the statement.                                                    *)
TableParsed ==
  /\ pc = "table" /\ Done
  /\ db' \in IF stmt \in {None, Failed} THEN {db}
             ELSE IF rc = "CANCELLED" THEN {Rollback(db)} ELSE End(db)
  /\ stmt' = None
  /\ IF rc = "CANCELLED" THEN Finish("CANCELLED")
     ELSE pc' = "tables" /\ UNCHANGED result
  /\ UNCHANGED <<vars, flags, tables, cursor, success, cancelled>>

TablesDone ==
  /\ pc = "tables" /\ Rest = {}
  /\ pc' = IF "NO_CREATE_TABLES" \in flags THEN "report" ELSE "indices"
  /\ cursor' = 0
  /\ UNCHANGED <<vars, flags, tables, stmt, db, success, cancelled, result>>

NextIndex ==
  /\ pc = "indices" /\ Rest # {} /\ ~ Noticed
  /\ Advance
  /\ IF tables[Nearest].type = "index" THEN Create(Nearest)
     ELSE UNCHANGED <<db, success>>
  /\ UNCHANGED <<vars, pc, flags, tables, stmt, cancelled, result>>

Report ==
  /\ pc = "report" \/ (pc = "indices" /\ Rest = {})
  /\ Finish(IF success = 0 THEN "DAMAGED" ELSE "OK")
  /\ UNCHANGED <<vars, flags, tables, cursor, stmt, db, success, cancelled>>

(* sqliterk_cancel, called while the recovery runs.                        *)
Cancel ==
  /\ pc # "done" /\ ~ cancelled
  /\ cancelled' = TRUE
  /\ UNCHANGED <<vars, context>>

OutInit ==
  /\ Init
  /\ todo = <<1>>
  /\ tables \in Masters
  /\ \E f \in FlagSets :
       flags = IF DOMAIN tables = {} THEN f \cup {"ALL_TABLES"} ELSE f
  /\ pc = "master" /\ cursor = 0 /\ stmt = None
  /\ db = [open |-> FALSE, done |-> <<>>, pending |-> <<>>, faults |-> 0]
  /\ success = 0 /\ cancelled = FALSE /\ result = "running"

Work ==
  \/ pc \in {"master", "table"} /\ Traverse /\ UNCHANGED outVars
  \/ MasterRow
  \/ RefuseRow \/ (\E answer \in Callback : PassRow(answer)) \/ DropRow \/ InsertRow
  \/ MasterParsed \/ LoopCancelled \/ NextTable \/ TableParsed \/ TablesDone
  \/ NextIndex \/ Report

Returned == pc = "done" /\ UNCHANGED allVars

OutNext == Work \/ Cancel \/ Returned

OutSpec == OutInit /\ [][OutNext]_allVars

(* The recovery runs on its caller's thread and waits for nothing; nobody  *)
(* has to cancel it.                                                       *)
FairOutSpec == OutSpec /\ WF_allVars(Work)

-----------------------------------------------------------------------------
(* Type invariant.                                                         *)
Effect == [name : Names, page : Pages \cup {0}, i : Nat]
Db     == [open : BOOLEAN, done : Seq(Effect), pending : Seq(Effect),
           faults : 0 .. MaxSqlFaults]

OutTypeOK ==
  /\ pc \in {"master", "tables", "table", "indices", "report", "done"}
  /\ flags \subseteq {"NO_CREATE_TABLES", "ALL_TABLES"}
  /\ DOMAIN tables \subseteq Names /\ \A n \in DOMAIN tables : tables[n] \in Entry
  /\ cursor \in Names \cup {0}
  /\ stmt \in Names \cup {None, Failed}
  /\ db \in Db
  /\ success \in Nat
  /\ cancelled \in BOOLEAN
  /\ result \in {"running", "OK", "DAMAGED", "CANCELLED"}

(* A transaction is open only while its statement is alive, so no CREATE   *)
(* and no row of another table joins it, and none is left open to the      *)
(* caller; unless a COMMIT has failed, which the code only logs.           *)
TransactionOfOneTable ==
  db.faults = 0 =>
    /\ db.open => pc = "table" /\ stmt = cursor
    /\ \A k \in DOMAIN db.pending : db.pending[k].name = stmt

(* What a cancellation, or a stop of the process, can undo is less than    *)
(* one batch of rows.                                                      *)
LossIsOneBatch == db.faults = 0 => Len(db.pending) < Batch

(* What makes the two inductive: a statement belongs to the table of the   *)
(* cursor and to the phase of its rows, a transaction to a statement, and  *)
(* what is pending was counted since the last multiple of Batch.           *)
TransactionInv ==
  /\ pc = "table" => cursor \in Names
  /\ pc # "table" => stmt = None
  /\ stmt \in {None, Failed, cursor}
  /\ db.faults = 0 =>
       /\ db.open => stmt \notin {None, Failed}
       /\ ~ db.open => db.pending = <<>>
       /\ \A k \in DOMAIN db.pending : db.pending[k].name = stmt
       /\ Len(db.pending) <= success % Batch

(* A recovery that refused a row because it was cancelled does not report  *)
(* OK, although an interior page hides the cancellation of a leaf from     *)
(* sqliterk_output_cb: the loop over the indices notices it.  (Without     *)
(* CREATE statements there is no such loop.)                               *)
CancelIsReported ==
  /\ "NO_CREATE_TABLES" \notin flags
  /\ result = "OK"
  => \A d \in declined : d.answer # "CANCELLED"

(* The recovery returns, cancelled or not.                                 *)
OutputReturns == <>(pc = "done")
=============================================================================
