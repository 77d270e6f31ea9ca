-------------------------------- MODULE Facade --------------------------------
(***************************************************************************)
(* The calls of WCRepairKitManage on one database: a backup rotates two    *)
(* files, a recovery reads one of them, writes what it can read of the     *)
(* database to a third file and puts that in the place of the database.    *)
(* LMCoreDataRepairManage calls one or the other when the application      *)
(* starts.  File operations may fail and the process may stop anywhere.    *)
(***************************************************************************)
EXTENDS BackupStore

CONSTANTS
  RowIds,      \* rows of the database
  Idents,      \* identifiers of its model
  Small,       \* the backups whose file has at most 1024 bytes
  MaxCalls,    \* bound: calls
  MaxFaults    \* bound: failing steps and stops

VARIABLES
  db,       \* the database: Nothing, or its rows, its schema and its harm
  rec,      \* the file -recovery: Nothing or a set of rows
  call,     \* the call that runs
  result,   \* what the last one returned
  due,      \* the identifier of the block that is to run in 30 seconds
  ident,    \* the identifier in the user defaults
  owed,     \* history: the rows of the database, as the last recovery left them
  before,   \* history: the backup when the call began
  calm,     \* history: no file operation failed, no call began after a stop
  calls, faults

facadeVars == <<store, saving, answer, db, rec, call, result, due, ident, owed,
                before, calm, calls, faults>>

Harms  == {"none", "header", "master"}
Files  == [rows : SUBSET RowIds, schema : Schemas, harm : Harms]
RowsOf(f) == IF f = Nothing THEN {} ELSE f.rows

ASSUME FacadeAssumption ==
  /\ MaxCalls \in Nat /\ MaxFaults \in Nat
  /\ {"backup", "old"} \subseteq Paths
  /\ Nothing # Junk
  /\ (\A rows \in SUBSET RowIds : rows # Nothing) /\ \A f \in Files : f # Nothing

NoCall == [at |-> "idle", key |-> Nothing, from |-> Nothing, over |-> FALSE]

At(at)      == call.at = at
Goto(at)    == call' = [call EXCEPT !.at = at] /\ UNCHANGED result
Returns(r)  == call' = NoCall /\ result' = r

Fault   == faults < MaxFaults /\ faults' = faults + 1
Fails   == Fault /\ calm' = FALSE
Works   == UNCHANGED <<faults, calm>>

Holds(p, c) == store' = [store EXCEPT ![p] = c] /\ UNCHANGED <<saving, answer>>
Exists(p)   == store[p] # Nothing

(* fileSize > 1024: of junk, nothing is known.                             *)
Sizes(p) == IF store[p] = Junk THEN BOOLEAN ELSE {store[p] \notin Small}

History == UNCHANGED <<due, ident, owed, before, calls>>
Aside   == UNCHANGED <<db, rec>> /\ History
StoreStays == UNCHANGED <<store, saving, answer>>

-----------------------------------------------------------------------------
(* backupDBPath:backupCipher:error:                                        *)

Enter(at, key, from, over) ==
  /\ At("idle") /\ calls < MaxCalls
  /\ calls' = calls + 1 /\ calm' = (calm /\ faults = 0)
  /\ call' = [at |-> at, key |-> key, from |-> from, over |-> over]
  /\ result' = "none" /\ before' = store["backup"]
  /\ UNCHANGED <<store, saving, answer, db, rec, owed, faults>>

BackupBegin(key) ==
  /\ db # Nothing
  /\ \E big \in Sizes("backup") :
       Enter(IF ~ Exists("backup") THEN "dbOpen"
             ELSE IF ~ big THEN "remove"
             ELSE IF Exists("old") THEN "removeOld" ELSE "copy",
             key, "backup", FALSE)

(* Mutant: the newer backup is removed next, without the copy.             *)
MutRemoveOld ==
  /\ At("removeOld") /\ Goto("remove") /\ Aside
  /\ \/ Holds("old", Nothing) /\ Works
     \/ StoreStays /\ Fails

(* The results of the file operations are dropped.                         *)
RemoveOld ==
  /\ At("removeOld") /\ Goto("copy") /\ Aside
  /\ \/ Holds("old", Nothing) /\ Works
     \/ StoreStays /\ Fails

(* A copy does not replace a file; it takes time, and may leave a part.    *)
CopyBegins(at, to, doing) ==
  /\ At(at) /\ ~ Exists(to) /\ Goto(doing) /\ Aside
  /\ Holds(to, Junk) /\ Works

CopyEnds(doing, from, to, next) ==
  /\ At(doing) /\ Goto(next) /\ Aside
  /\ \/ Holds(to, store[from]) /\ Works
     \/ StoreStays /\ Fails

CopyFails(at, to, next) ==
  /\ At(at) /\ Goto(next) /\ Aside /\ StoreStays
  /\ IF Exists(to) THEN Works ELSE Fails

Rotate ==
  \/ CopyBegins("copy", "old", "copying")
  \/ CopyEnds("copying", "backup", "old", "remove")
  \/ CopyFails("copy", "old", "remove")

Remove ==
  /\ At("remove") /\ Goto("dbOpen") /\ Aside
  /\ \/ Holds("backup", Nothing) /\ Works
     \/ StoreStays /\ Fails

Long(schema) == \E i \in DOMAIN schema : Saved(schema[i]) /\ schema[i].long

DbOpen ==
  /\ At("dbOpen") /\ Aside
  /\ \/ /\ Begin("backup", Backup(SavedRows(db.schema), call.key))
        /\ Goto("save") /\ Works
     \/ StoreStays /\ Returns("nil") /\ Fails

(* sqliterk_save_master: BackupStore says what it may do; that it fails    *)
(* where the database cannot be read, and otherwise only by a fault.       *)
Save ==
  /\ At("save") /\ Aside /\ UNCHANGED <<call, result>>
  /\ LET readable == db.harm = "none" /\ ~ Long(db.schema)
     IN \/ Spoil("none") /\ Works
        \/ Commit("OK") /\ readable /\ Works
        \/ Spoil("failed") /\ ~ readable /\ Works
        \/ /\ \E rc \in {"OK", "failed"} : Spoil(rc) \/ Return(rc)
           /\ Fails

SaveEnd ==
  /\ At("save") /\ End /\ Aside /\ Works
  /\ IF saving.rc = "OK" THEN Returns("backup")
     ELSE IF Exists("backup") THEN Goto("discard") ELSE Returns("nil")

(* The file of a save that failed goes, and the older backup takes its     *)
(* place again.                                                            *)
Discard ==
  /\ At("discard") /\ Aside
  /\ \E big \in Sizes("old") :
       IF Exists("old") /\ big THEN Goto("restore") ELSE Returns("nil")
  /\ \/ Holds("backup", Nothing) /\ Works
     \/ StoreStays /\ Fails

(* Mutant: the copy goes the other way.                                    *)
MutRestore ==
  \/ CopyBegins("restore", "backup", "restoring")
  \/ CopyEnds("restoring", "backup", "old", "dropOld")
  \/ CopyFails("restore", "backup", "dropOld")

Restore ==
  \/ CopyBegins("restore", "backup", "restoring")
  \/ CopyEnds("restoring", "old", "backup", "dropOld")
  \/ CopyFails("restore", "backup", "dropOld")

DropOld ==
  /\ At("dropOld") /\ Returns("nil") /\ Aside
  /\ \/ Holds("old", Nothing) /\ Works
     \/ StoreStays /\ Fails

-----------------------------------------------------------------------------
(* recoveryDBPath:DBPageSize:corruptedDBCipher:backupCipher:               *)
(*   isOverwriteFile:error:                                                *)

(* Without a backup, nil is returned at once.                              *)
RecoveryBegin(key, over) ==
  /\ Exists("backup") \/ Exists("old")
  /\ Enter("load", key, IF Exists("backup") THEN "backup" ELSE "old", over)

Load ==
  /\ At("load") /\ Goto("open") /\ Aside
  /\ Answer(call.from, call.key, {})
  /\ \/ (answer' = Refused => ~ Accepts(store[call.from], call.key)) /\ Works
     \/ answer' = Refused /\ Fails

(* sqliterk_open fails without a database, or like sqlite3_open by a fault.*)
Open ==
  /\ At("open") /\ Take
  /\ \/ /\ answer # Refused /\ db # Nothing
        /\ rec' = IF rec = Nothing THEN {} ELSE rec
        /\ UNCHANGED db /\ History /\ Goto("output") /\ Works
     \/ (answer = Refused \/ db = Nothing) /\ Returns("nil") /\ Aside /\ Works
     \/ Returns("nil") /\ Aside /\ Fails

(* sqliterk_output, external to this module: rows that it can read arrive  *)
(* one by one, next to those that an earlier call has left.                *)
OutputRow ==
  /\ At("output") /\ StoreStays /\ Works
  /\ \E r \in db.rows \ rec : rec' = rec \cup {r}
  /\ UNCHANGED <<db, call, result>> /\ History

OutputOK ==
  /\ At("output") /\ StoreStays /\ Works
  /\ owed' = rec
  /\ IF call.over THEN Goto("replace") ELSE Returns("recovery")
  /\ UNCHANGED <<db, rec, due, ident, before, calls>>

(* Mutant: its result is not looked at.                                    *)
MutOutputFails ==
  At("output") /\ Goto("replace") /\ StoreStays /\ Aside /\ Works

OutputFails ==
  At("output") /\ Returns("nil") /\ StoreStays /\ Aside /\ Works

RemoveDb ==
  /\ At("replace") /\ StoreStays /\ UNCHANGED rec /\ History
  /\ \/ db' = Nothing /\ Goto("copyBack") /\ Works
     \/ UNCHANGED db /\ Returns("nil") /\ Fails

CopyBack ==
  /\ At("copyBack") /\ Goto("copyingBack") /\ StoreStays /\ Works
  /\ \E f \in Files : f.rows \subseteq rec /\ db' = f
  /\ UNCHANGED rec /\ History

CopiedBack ==
  /\ At("copyingBack") /\ StoreStays /\ UNCHANGED rec /\ History
  /\ \/ /\ \E f \in Files : f.rows = rec /\ f.harm = "none" /\ db' = f
        /\ Goto("clean") /\ Works
     \/ UNCHANGED db /\ Returns("nil") /\ Fails

(* nil, though the database has been replaced, when this fails.            *)
Clean ==
  /\ At("clean") /\ StoreStays /\ UNCHANGED db /\ History
  /\ \/ rec' = Nothing /\ Returns("database") /\ Works
     \/ UNCHANGED rec /\ Returns("nil") /\ Fails

CallStep ==
  \/ RemoveOld \/ Rotate \/ Remove \/ DbOpen \/ Save \/ SaveEnd \/ Discard
  \/ Restore \/ DropOld \/ Load \/ Open \/ OutputRow \/ OutputOK
  \/ OutputFails \/ RemoveDb \/ CopyBack \/ CopiedBack \/ Clean

-----------------------------------------------------------------------------
(* repairKitStartWithDB:storeIdentifiers:, when the application starts: a  *)
(* sound header leads to a backup 30 seconds later, any other to a         *)
(* recovery.                                                               *)
Sound == db # Nothing /\ db.harm # "header"

Launch(id) ==
  \/ /\ At("idle") /\ Sound /\ due = Nothing
     /\ due' = id
     /\ UNCHANGED <<store, saving, answer, db, rec, call, result, ident, owed,
                    before, calm, calls, faults>>
  \/ ~ Sound /\ RecoveryBegin("none", TRUE) /\ UNCHANGED <<due, ident>>

(* The identifier is recorded whatever becomes of the backup; a stop before*)
(* the call returns is not told from one after.                            *)
Due ==
  /\ due # Nothing /\ due' = Nothing
  /\ IF ident = due \/ db = Nothing
     THEN /\ At("idle") /\ ident' = due
          /\ UNCHANGED <<store, saving, answer, db, rec, call, result, owed,
                         before, calm, calls, faults>>
     ELSE BackupBegin("none") /\ ident' \in {ident, due}

(* What the application and the disk do to the database between calls.     *)
Environment ==
  /\ At("idle") /\ StoreStays /\ UNCHANGED <<rec, call, due, ident, before, calls>>
  /\ Works /\ result' = "none"
  /\ \/ /\ db = Nothing /\ UNCHANGED owed
        /\ \E s \in Schemas : db' = [rows |-> {}, schema |-> s, harm |-> "none"]
     \/ /\ db # Nothing /\ db.harm = "none"
        /\ \E r \in RowIds : /\ db' = [db EXCEPT !.rows = @ \cup {r}]
                             /\ owed' = owed \cup {r}
     \/ /\ db # Nothing /\ db.harm = "none" /\ UNCHANGED owed
        /\ \E s \in Schemas : db' = [db EXCEPT !.schema = s]
     \/ /\ db # Nothing /\ UNCHANGED owed
        /\ \E h \in Harms \ {"none"} : db' = [db EXCEPT !.harm = h]

Stop ==
  /\ Fault /\ ~ At("idle") /\ Restart
  /\ call' = NoCall /\ result' = "none" /\ due' = Nothing
  /\ UNCHANGED <<db, rec, ident, owed, before, calm, calls>>

FacadeInit ==
  /\ StoreInit
  /\ db = Nothing /\ rec = Nothing /\ call = NoCall /\ result = "none"
  /\ due = Nothing /\ ident = Nothing /\ owed = {} /\ before = Nothing
  /\ calm = TRUE /\ calls = 0 /\ faults = 0

FacadeNext ==
  \/ \E k \in Keys : BackupBegin(k) /\ UNCHANGED <<due, ident>>
  \/ \E k \in Keys, over \in BOOLEAN :
       RecoveryBegin(k, over) /\ UNCHANGED <<due, ident>>
  \/ \E id \in Idents : Launch(id)
  \/ Due \/ CallStep \/ Environment \/ Stop

FacadeSpec == FacadeInit /\ [][FacadeNext]_facadeVars

-----------------------------------------------------------------------------
(* The rows of the database, or those that a recovery said it has          *)
(* recovered, are in the database or in the file -recovery, wherever the   *)
(* process stops and whatever fails.                                       *)
DatabaseOrRecovery ==
  owed \subseteq RowsOf(db) \cup (IF rec = Nothing THEN {} ELSE rec)

(* Once there is a backup (of more than 1024 bytes), there is one: the     *)
(* rotation keeps it, also where the process stops in its middle.          *)
GoodBackupSurvives ==
  calm /\ IsBackup(before) /\ before \notin Small
    => \E p \in Paths : IsBackup(store[p])

(* A backup that fails because the database cannot be read leaves the      *)
(* backup that it has found.                                               *)
FailedCallRestores ==
  calm /\ faults = 0 /\ result = "nil" /\ IsBackup(before) /\ before \notin Small
    => store["backup"] = before

(* Refuted. backupDBPath: returns "whether the backup succeeded".          *)
ReportedBackupLoads == result = "backup" => IsBackup(store["backup"])
=============================================================================
