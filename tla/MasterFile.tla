------------------------------ MODULE MasterFile ------------------------------
(***************************************************************************)
(* The backup of sqlite_master: sqliterk_save_master writes a header of    *)
(* zeros, the compressed and encrypted rows, and then the real header over *)
(* the first; sqliterk_load_master reads such a file.  The process may     *)
(* stop between any two steps, and what stdio has buffered is then lost.   *)
(*                                                                         *)
(* The compressed stream is counted in units: two for each row (its entry  *)
(* and names, its SQL) and one that ends it.                               *)
(***************************************************************************)
EXTENDS MasterRows

CONSTANTS
  InBuf,      \* IN_BUF_SIZE, in units
  MaxFaults   \* bound: steps that fail, and stops

ASSUME MasterFileAssumption == InBuf \in Nat \ {0} /\ MaxFaults \in Nat

VARIABLES
  files,   \* the file at each path
  save,    \* the call of sqliterk_save_master
  load,    \* the call of sqliterk_load_master
  sealed,  \* history: what saves had written when they wrote the header
  faults   \* history: failed steps and stops

masterVars == <<files, save, load, sealed, faults>>

-----------------------------------------------------------------------------
(* A file has a header, which counts its rows, and the first n units of a  *)
(* stream of rows.                                                         *)
Empty  == [head |-> "empty", count |-> 0, rows |-> <<>>, n |-> 0,
           key |-> CHOOSE k \in Keys : TRUE]
Absent == [Empty EXCEPT !.head = "absent"]

(* What a load with the right key makes of file f.                         *)
Loads(f)   == f.head = "real" /\ f.count <= Len(f.rows) /\ 2 * f.count <= f.n
Content(f) == [rows |-> SubSeq(f.rows, 1, f.count), key |-> f.key]

(* The save has handed a header, when top is not "none", and units units   *)
(* to fwrite; what the file has not is in the buffer.                      *)
NoSave == [at |-> "idle", path |-> CHOOSE p \in Paths : TRUE,
           key |-> Empty.key, src |-> <<>>, i |-> 1, entities |-> 0,
           rows |-> <<>>, units |-> 0, top |-> "none", placed |-> FALSE,
           rc |-> "OK"]

NoLoad == [at |-> "idle", path |-> NoSave.path, key |-> Empty.key,
           filter |-> {}, left |-> 0, pos |-> 0, avail |-> 0, next |-> 0,
           total |-> 0, eof |-> FALSE, got |-> <<>>, rc |-> "OK"]

Idle         == save.at = "idle" /\ load.at = "idle"
SaveAt(at)   == save.at = at /\ UNCHANGED <<load, sealed>>
InFile(p, f) == files' = [files EXCEPT ![p] = f]
Fault        == faults < MaxFaults /\ faults' = faults + 1
NoFault      == UNCHANGED faults

-----------------------------------------------------------------------------
(* sqliterk_save_master                                                    *)

SaveBegin(p, k, schema) ==
  /\ Idle
  /\ save' = [NoSave EXCEPT !.at = "open", !.path = p, !.key = k, !.src = schema]
  /\ UNCHANGED <<files, load, sealed>> /\ NoFault

Bail(rc) == save' = [save EXCEPT !.at = "bail", !.rc = rc]

(* deflateInit fails.                                                      *)
DeflateFails ==
  /\ SaveAt("open") /\ Fault
  /\ save' = [save EXCEPT !.at = "returned", !.rc = "ERROR"]
  /\ UNCHANGED files

SaveOpen ==
  /\ SaveAt("open") /\ NoFault
  /\ save' = [save EXCEPT !.at = "prepare"]
  /\ InFile(save.path, Empty)

(* When fopen fails, rc is still that of deflateInit.                      *)
SaveOpenFails ==
  /\ SaveAt("open") /\ Fault
  /\ save' = [save EXCEPT !.at = "returned"]
  /\ UNCHANGED files

Prepare ==
  /\ SaveAt("prepare") /\ NoFault
  /\ save' = [save EXCEPT !.at = "dummy"]
  /\ UNCHANGED files

(* SQLite reports an error: sqlite_master or the salt cannot be read.      *)
SqlFails ==
  /\ save.at \in {"prepare", "row", "salt"} /\ SaveAt(save.at)
  /\ Bail("ERROR")
  /\ UNCHANGED files

(* The file after the buffer of save s has been written, and after no more *)
(* than a part of it has.                                                  *)
Flushed(f, s) ==
  [f EXCEPT !.head = IF s.top = "none" THEN @ ELSE s.top,
            !.count = IF s.top = "real" THEN s.entities ELSE @,
            !.rows = s.rows, !.n = s.units, !.key = s.key]
Partly(f, s) ==
  {f} \cup {[Flushed(f, s) EXCEPT !.n = m] :
              m \in IF s.top = "real" THEN {} ELSE f.n .. s.units}

(* fwrite, after which the call is as in s: into the buffer, or the buffer *)
(* is written too.                                                         *)
Fwrite(s) ==
  \/ save' = s /\ UNCHANGED files
  \/ /\ save' = [s EXCEPT !.top = "none"]
     /\ InFile(save.path, Flushed(files[save.path], s))

HasRow  == save.i <= Len(save.src)
Row     == save.src[save.i]
Entry   == HasRow /\ Saved(Row) /\ ~ Row.long

(* Mutant: the header is complete from the start.                          *)
MutWriteDummy ==
  /\ SaveAt("dummy") /\ NoFault
  /\ Fwrite([save EXCEPT !.at = "row", !.top = "real"])

WriteDummy ==
  /\ SaveAt("dummy") /\ NoFault
  /\ Fwrite([save EXCEPT !.at = "row", !.top = "dummy"])

SkipRow ==
  /\ SaveAt("row") /\ NoFault /\ HasRow /\ ~ Saved(Row)
  /\ save' = [save EXCEPT !.i = @ + 1]
  /\ UNCHANGED files

(* rc is SQLITE_ROW then.                                                  *)
LongRow ==
  /\ SaveAt("row") /\ NoFault /\ HasRow /\ Saved(Row) /\ Row.long
  /\ Bail("ROW")
  /\ UNCHANGED files

WriteEntry ==
  /\ SaveAt("row") /\ NoFault /\ Entry
  /\ Fwrite([save EXCEPT !.at = "sql", !.rows = Append(@, Row),
                         !.units = @ + 1])

WriteSql ==
  /\ SaveAt("sql") /\ NoFault
  /\ Fwrite([save EXCEPT !.at = "row", !.units = @ + 1, !.i = @ + 1,
                         !.entities = @ + 1])

(* The end of the stream.                                                  *)
FinishStream ==
  /\ SaveAt("row") /\ NoFault /\ ~ HasRow
  /\ Fwrite([save EXCEPT !.at = "salt", !.units = @ + 1])

(* A failed fwrite leaves rc as the call before it has set it: OK, or,     *)
(* after the last deflate, Z_STREAM_END.                                   *)
FwriteFails ==
  /\ save.at \in {"dummy", "row", "sql"} /\ SaveAt(save.at) /\ Fault
  /\ save.at = "row" /\ HasRow => Entry
  /\ \E rc \in {"OK", "STREAM_END"} :
       /\ rc = "STREAM_END" => save.at = "row" /\ ~ HasRow
       /\ Bail(rc)
  /\ \E f \in Partly(files[save.path], save) : InFile(save.path, f)

ReadSalt ==
  /\ SaveAt("salt") /\ NoFault
  /\ save' = [save EXCEPT !.at = "seek"]
  /\ UNCHANGED files

(* fseek writes the buffer; nobody looks at its result.                    *)
Seek ==
  /\ SaveAt("seek") /\ NoFault
  /\ save' = [save EXCEPT !.at = "header", !.top = "none", !.placed = TRUE]
  /\ InFile(save.path, Flushed(files[save.path], save))

SeekFails ==
  /\ SaveAt("seek") /\ Fault
  /\ save' = [save EXCEPT !.at = "header"]
  /\ \E f \in Partly(files[save.path], save) : InFile(save.path, f)

(* Where fseek has failed, the header follows the stream.                  *)
WriteHeader ==
  /\ save.at = "header" /\ NoFault
  /\ Fwrite([save EXCEPT !.at = "close",
                         !.top = IF save.placed THEN "real" ELSE @])
  /\ sealed' = sealed \cup {[rows |-> save.rows, key |-> save.key]}
  /\ UNCHANGED load

(* Nor at that of the fwrite.                                              *)
HeaderFails ==
  /\ SaveAt("header") /\ Fault
  /\ save' = [save EXCEPT !.at = "close"]
  /\ UNCHANGED files

(* fclose writes the buffer, or fails to; the return code is settled.      *)
Close ==
  /\ save.at \in {"close", "bail"} /\ SaveAt(save.at)
  /\ save' = [save EXCEPT !.at = "returned", !.top = "none"]
  /\ \/ NoFault /\ InFile(save.path, Flushed(files[save.path], save))
     \/ Fault /\ \E f \in Partly(files[save.path], save) : InFile(save.path, f)

SaveReturn ==
  /\ SaveAt("returned") /\ NoFault
  /\ save' = NoSave
  /\ UNCHANGED files

SaveStep ==
  \/ DeflateFails \/ SaveOpen \/ SaveOpenFails \/ Prepare \/ WriteDummy
  \/ SkipRow \/ LongRow \/ WriteEntry \/ WriteSql \/ FinishStream
  \/ FwriteFails \/ ReadSalt \/ Seek \/ SeekFails \/ WriteHeader
  \/ HeaderFails \/ Close \/ SaveReturn

-----------------------------------------------------------------------------
(* sqliterk_load_master                                                    *)

LoadAt(at) == load.at = at /\ UNCHANGED <<files, save, sealed>>
InHand     == files[load.path]

(* The map of sqliterk_make_master has the selected tables from the start. *)
LoadBegin(p, k, filter) ==
  /\ Idle
  /\ load' = [NoLoad EXCEPT !.at = "open", !.path = p, !.key = k,
                            !.filter = filter, !.got = [t \in filter |-> Unknown]]
  /\ UNCHANGED <<files, save, sealed>> /\ NoFault

(* Every failure is reported as DAMAGED.                                   *)
LoadBails == load' = [load EXCEPT !.at = "returned", !.rc = "DAMAGED",
                                  !.got = <<>>]

LoadOpen ==
  /\ LoadAt("open") /\ NoFault
  /\ IF InHand.head = "absent" THEN LoadBails
                               ELSE load' = [load EXCEPT !.at = "header"]

ReadHeader ==
  /\ LoadAt("header") /\ NoFault
  /\ IF InHand.head # "real" THEN LoadBails
     ELSE load' = [load EXCEPT !.at = "entity", !.left = InHand.count]

(* Memory, fopen, fread or inflateInit fails.                              *)
LoadFails ==
  /\ load.at \in {"open", "header", "entity", "strings"} /\ LoadAt(load.at)
  /\ Fault /\ LoadBails

(* inflate_read: the start of the buffer is found from next_in and         *)
(* total_in; next_in stays where it is at the end of the file.             *)
Inflating == (load.at = "entity" /\ load.left > 0) \/ load.at = "strings"
Hungry    == Inflating /\ load.avail = 0 /\ ~ load.eof
Start     == load.next - load.total

(* Mutant: total_in is not set back.                                       *)
MutRefilled(m) ==
  [load EXCEPT !.next = IF m > 0 THEN Start ELSE @, !.avail = m,
               !.pos = @ + m, !.eof = m < InBuf]

Refilled(m) ==
  [load EXCEPT !.total = 0, !.next = IF m > 0 THEN Start ELSE @, !.avail = m,
               !.pos = @ + m, !.eof = m < InBuf]

Refill ==
  /\ Hungry /\ LoadAt(load.at) /\ NoFault
  /\ LET rest == InHand.n - load.pos
     IN load' = Refilled(IF rest < InBuf THEN rest ELSE InBuf)

(* The unit at hand is one of a row, decrypted with the right key.         *)
UnitAt   == load.pos - load.avail + 1
Readable == /\ load.avail > 0
            /\ load.key = InHand.key
            /\ UnitAt <= 2 * Len(InHand.rows)
RowRead  == InHand.rows[UnitAt \div 2]
Inflated == [load EXCEPT !.avail = @ - 1, !.next = @ + 1, !.total = @ + 1]

ReadEntity ==
  /\ LoadAt("entity") /\ NoFault /\ Inflating /\ Readable
  /\ load' = [Inflated EXCEPT !.at = "strings"]

(* Mutant: a name that is there already keeps its row.                     *)
MutReadStrings ==
  /\ LoadAt("strings") /\ NoFault /\ Readable
  /\ load' = [Inflated EXCEPT
       !.at = "entity", !.left = @ - 1,
       !.got = IF ~ Selected(RowRead, load.filter) THEN @
               ELSE IF RowRead.name \in DOMAIN load.got THEN @
               ELSE Inserted(load.got, RowRead)]

ReadStrings ==
  /\ LoadAt("strings") /\ NoFault /\ Readable
  /\ load' = [Inflated EXCEPT
       !.at = "entity", !.left = @ - 1,
       !.got = IF ~ Selected(RowRead, load.filter) THEN @
               ELSE Inserted(load.got, RowRead)]

BadStream ==
  /\ Inflating /\ ~ Hungry /\ ~ Readable /\ LoadAt(load.at) /\ NoFault
  /\ LoadBails

LoadDone ==
  /\ LoadAt("entity") /\ NoFault /\ load.left = 0
  /\ load' = [load EXCEPT !.at = "returned"]

LoadReturn ==
  /\ LoadAt("returned") /\ NoFault
  /\ load' = NoLoad

LoadStep ==
  \/ LoadOpen \/ ReadHeader \/ LoadFails \/ Refill \/ ReadEntity
  \/ ReadStrings \/ BadStream \/ LoadDone \/ LoadReturn

-----------------------------------------------------------------------------
(* What else happens to these files: they are copied, whole or in part,    *)
(* and removed, while no call is running; and the process stops.           *)

Parts(f) == {Empty, f} \cup {[f EXCEPT !.n = m] : m \in 0 .. f.n}

MoveFile(p) ==
  /\ Idle /\ UNCHANGED <<save, load, sealed>> /\ NoFault
  /\ \/ InFile(p, Absent)
     \/ \E q \in Paths : /\ files[q].head # "absent"
                         /\ \E f \in Parts(files[q]) : InFile(p, f)

(* The buffer of stdio is lost.                                            *)
Stop ==
  /\ ~ Idle /\ Fault
  /\ save' = NoSave /\ load' = NoLoad
  /\ UNCHANGED <<files, sealed>>

MasterInit ==
  /\ files = [p \in Paths |-> Absent]
  /\ save = NoSave /\ load = NoLoad
  /\ sealed = {} /\ faults = 0

MasterNext ==
  \/ \E p \in Paths, k \in Keys, s \in Schemas : SaveBegin(p, k, s)
  \/ \E p \in Paths, k \in Keys, f \in Filters : LoadBegin(p, k, f)
  \/ SaveStep \/ (SqlFails /\ Fault) \/ LoadStep
  \/ \E p \in Paths : MoveFile(p)
  \/ Stop

MasterSpec == MasterInit /\ [][MasterNext]_masterVars

-----------------------------------------------------------------------------
(* A file that loads holds exactly what one save had read when it wrote    *)
(* its header: not less, not a mixture, whatever failed, wherever the      *)
(* process stopped and however the file was copied; this is what the       *)
(* header is written twice for.                                            *)
FilesAreSaves ==
  \A p \in Paths : Loads(files[p]) => Content(files[p]) \in sealed

(* inflate_read fills its buffer from the start: the pointer arithmetic    *)
(* that finds the start never goes astray.                                 *)
RefillAtStart == Hungry => Start = 0

-----------------------------------------------------------------------------
CONSTANTS Nothing, Junk, Refused

(* Neither is a backup.                                                    *)
ASSUME StoreAssumption ==
  \A s \in Schemas, k \in Keys :
    [rows |-> SavedRows(s), key |-> k] \notin {Nothing, Junk}

StoreOf(f) == IF f.head = "absent" THEN Nothing
              ELSE IF Loads(f) THEN Content(f) ELSE Junk

SavingOf ==
  [on     |-> save.at # "idle",
   path   |-> IF save.at = "idle" THEN Nothing ELSE save.path,
   backup |-> IF save.at = "idle" THEN Junk
              ELSE [rows |-> SavedRows(save.src), key |-> save.key],
   done   |-> save.placed /\ Loads(files[save.path]),
   rc     |-> IF save.at # "returned" THEN "none"
              ELSE IF save.rc = "OK" THEN "OK" ELSE "failed"]

AnswerOf == IF load.at # "returned" THEN Nothing
            ELSE IF load.rc = "OK" THEN load.got ELSE Refused

Store == INSTANCE BackupStore
  WITH store <- [p \in Paths |-> StoreOf(files[p])],
       saving <- SavingOf, answer <- AnswerOf

(* Saving and loading are as simple as their callers take them to be: a    *)
(* path holds a whole backup or none, the backup appears in one step of    *)
(* the save that was asked for it, a save that returns an error has not    *)
(* made it appear, and a load returns it whole (the last row of each name, *)
(* the objects of the selected tables) or is refused.                      *)
ActsAsStore == Store!StoreSpec
=============================================================================
