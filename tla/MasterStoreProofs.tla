--------------------------- MODULE MasterStoreProofs ---------------------------
(***************************************************************************)
(* Proofs about the backup files: that a file which loads is one whole     *)
(* save, that the loader's buffer is always filled from its start, and     *)
(* that the files implement BackupStore: every step of sqliterk_save_-     *)
(* master, of sqliterk_load_master and of what else happens to the files   *)
(* is a step of the abstract store or changes nothing there.               *)
(***************************************************************************)
EXTENDS MasterFile, SequenceTheorems, WellFoundedInduction, TLAPS

-----------------------------------------------------------------------------
(* Types.                                                                  *)

AllKeys == Keys \cup {Empty.key}
SavesAt == {"idle", "open", "prepare", "dummy", "row", "sql", "salt", "seek",
            "header", "close", "bail", "returned"}

FileRec == [head : {"absent", "empty", "dummy", "real"}, count : Int,
            rows : Seq(MasterRow), n : Int, key : AllKeys]
SaveRec == [at : SavesAt, path : Paths \cup {NoSave.path}, key : AllKeys,
            src : Seq(MasterRow), i : Nat \ {0}, entities : Int,
            rows : Seq(MasterRow), units : Int,
            top : {"none", "dummy", "real"}, placed : BOOLEAN,
            rc : {"OK", "ERROR", "ROW", "STREAM_END"}]

Typed ==
  /\ files \in [Paths -> FileRec] /\ save \in SaveRec
  /\ save.at # "idle" => save.path \in Paths

(* The strengthening: a real header counts rows that were sealed; the one  *)
(* that a save has in its buffer is the last thing it writes, over a file  *)
(* whose header is not real.                                               *)
Sealed(rows, key) == [rows |-> rows, key |-> key] \in sealed
Kept(f)   == f.head = "real" => f.count = Len(f.rows) /\ Sealed(f.rows, f.key)
FilesKept == \A p \in Paths : Kept(files[p])

Writing ==
  /\ save.at \in {"open", "prepare", "dummy", "row", "salt", "seek", "header"}
       => save.entities = Len(save.rows)
  /\ save.at = "sql" => save.entities = Len(save.rows) - 1
  /\ save.top = "real" => save.at = "close"
  /\ save.at \in {"prepare", "dummy", "row", "sql", "salt", "seek", "header", "bail"}
       => files[save.path].head # "real"
  /\ save.at = "close" =>
       /\ files[save.path].head = "real" \/ save.top = "real"
            => save.entities = Len(save.rows) /\ Sealed(save.rows, save.key)
       /\ files[save.path].head = "real"
            => files[save.path].rows = save.rows /\ files[save.path].key = save.key

IMaster == Typed /\ FilesKept /\ Writing

LEMMA EmptyIs ==
  Empty \in FileRec /\ Empty.head = "empty" /\ Absent \in FileRec /\ Absent.head = "absent"
<1>1. Empty \in FileRec /\ Empty.head = "empty"
  BY DEF Empty, FileRec, AllKeys
<1>2. Absent \in FileRec /\ Absent.head = "absent"
  BY <1>1 DEF Absent, FileRec
<1> QED
  BY <1>1, <1>2

LEMMA NoSaveIs ==
  /\ NoSave \in SaveRec /\ NoSave.at = "idle" /\ NoSave.top = "none"
  /\ NoSave.rows = <<>> /\ NoSave.entities = 0
BY DEF NoSave, SaveRec, AllKeys, SavesAt

LEMMA FlushedIs ==
  ASSUME NEW f \in FileRec, NEW s \in SaveRec
  PROVE  LET g == Flushed(f, s)
         IN /\ g \in FileRec
            /\ g.head = IF s.top = "none" THEN f.head ELSE s.top
            /\ g.count = IF s.top = "real" THEN s.entities ELSE f.count
            /\ g.rows = s.rows /\ g.key = s.key
<1>1. PICK h \in {"absent", "empty", "dummy", "real"} :
        h = IF s.top = "none" THEN f.head ELSE s.top
  BY DEF FileRec, SaveRec
<1>2. PICK c \in Int : c = IF s.top = "real" THEN s.entities ELSE f.count
  BY DEF FileRec, SaveRec
<1>3. /\ s.rows \in Seq(MasterRow) /\ s.units \in Int /\ s.key \in AllKeys
  BY DEF SaveRec
<1>4. Flushed(f, s) = [f EXCEPT !.head = h, !.count = c, !.rows = s.rows,
                                !.n = s.units, !.key = s.key]
  BY <1>1, <1>2 DEF Flushed, FileRec
<1> QED
  BY <1>1, <1>2, <1>3, <1>4 DEF FileRec

LEMMA PartlyIs ==
  ASSUME NEW f \in FileRec, NEW s \in SaveRec, NEW g \in Partly(f, s)
  PROVE  /\ g \in FileRec
         /\ \/ g = f
            \/ /\ s.top # "real"
               /\ g.head = IF s.top = "none" THEN f.head ELSE s.top
               /\ g.count = f.count /\ g.rows = s.rows /\ g.key = s.key
<1>1. CASE g = f
  BY <1>1
<1>2. CASE s.top # "real" /\ \E m \in f.n .. s.units : g = [Flushed(f, s) EXCEPT !.n = m]
  <2>1. PICK m \in Int : g = [Flushed(f, s) EXCEPT !.n = m]
    BY <1>2 DEF FileRec, SaveRec
  <2> DEFINE h == Flushed(f, s)
  <2>2. /\ h \in FileRec
        /\ h.head = IF s.top = "none" THEN f.head ELSE s.top
        /\ h.count = f.count /\ h.rows = s.rows /\ h.key = s.key
    BY <1>2, FlushedIs
  <2>3. g = [h EXCEPT !.n = m]
    BY <2>1
  <2> HIDE DEF h
  <2> QED
    BY <1>2, <2>2, <2>3 DEF FileRec
<1> QED
  BY <1>1, <1>2 DEF Partly

(* A file is written, at path p.                                           *)
LEMMA InFileIs ==
  ASSUME files \in [Paths -> FileRec], FilesKept, NEW p \in Paths, NEW f \in FileRec,
         InFile(p, f), sealed \subseteq sealed',
         f.head = "real" =>
           f.count = Len(f.rows) /\ [rows |-> f.rows, key |-> f.key] \in sealed'
  PROVE  files' \in [Paths -> FileRec] /\ FilesKept' /\ files'[p] = f
<1>1. files' = [files EXCEPT ![p] = f]
  BY DEF InFile
<1>2. \A q \in Paths : files'[q] = IF q = p THEN f ELSE files[q]
  BY <1>1
<1>3. FilesKept'
  BY <1>2 DEF FilesKept, Kept, Sealed
<1> QED
  BY <1>1, <1>2, <1>3

-----------------------------------------------------------------------------
(* What a step of a save does, by what it leaves of the invariant.         *)

Inside == {"prepare", "dummy", "row", "sql", "salt", "seek", "header"}

(* The files and what is sealed stay.                                      *)
LEMMA SaveMoves ==
  ASSUME IMaster, UNCHANGED <<files, sealed>>, save' \in SaveRec,
         save'.at # "idle" => save'.path \in Paths, Writing'
  PROVE  IMaster'
BY DEF IMaster, Typed, FilesKept, Kept, Sealed

LEMMA InsideIs ==
  ASSUME IMaster, save.at \in Inside \cup {"bail", "close"}
  PROVE  /\ save \in SaveRec /\ save.path \in Paths /\ files[save.path] \in FileRec
         /\ FilesKept /\ files \in [Paths -> FileRec]
         /\ save.at # "close" => files[save.path].head # "real" /\ save.top # "real"
         /\ save.at \in Inside \ {"sql"} => save.entities = Len(save.rows)
         /\ save.at = "sql" => save.entities = Len(save.rows) - 1
BY DEF IMaster, Typed, Writing, Inside

(* The call bails out.                                                     *)
LEMMA BailIs ==
  ASSUME save \in SaveRec, NEW rc \in {"OK", "ERROR", "ROW", "STREAM_END"}, Bail(rc)
  PROVE  /\ save' \in SaveRec /\ save'.at = "bail" /\ save'.path = save.path
         /\ save'.top = save.top
BY DEF Bail, SaveRec, SavesAt

LEMMA BailKeeps ==
  ASSUME IMaster, save.at \in Inside, UNCHANGED <<files, sealed>>,
         NEW rc \in {"OK", "ERROR", "ROW", "STREAM_END"}, Bail(rc)
  PROVE  IMaster'
<1>1. /\ save \in SaveRec /\ save.path \in Paths
      /\ files[save.path].head # "real" /\ save.top # "real"
  BY InsideIs DEF Inside
<1>2. /\ save' \in SaveRec /\ save'.at = "bail" /\ save'.path = save.path
      /\ save'.top = save.top
  BY <1>1, BailIs
<1>3. Writing'
  BY <1>1, <1>2 DEF Writing
<1> QED
  BY <1>1, <1>2, <1>3, SaveMoves

(* Something is handed to fwrite.                                          *)
LEMMA FwriteKeeps ==
  ASSUME IMaster, save.at \in Inside, NEW s \in SaveRec, s.path = save.path,
         Fwrite(s), s.at \in {"row", "sql", "salt", "close"},
         s.at # "sql" => s.entities = Len(s.rows),
         s.at = "sql" => s.entities = Len(s.rows) - 1,
         s.top = "real" => s.at = "close",
         sealed \subseteq sealed',
         s.at = "close" => [rows |-> s.rows, key |-> s.key] \in sealed'
  PROVE  IMaster'
<1>1. /\ save.path \in Paths /\ files[save.path] \in FileRec /\ FilesKept
      /\ files \in [Paths -> FileRec] /\ files[save.path].head # "real"
  BY InsideIs DEF Inside
<1>2. CASE save' = s /\ UNCHANGED files
  <2>1. FilesKept'
    BY <1>1, <1>2 DEF FilesKept, Kept, Sealed
  <2>2. Writing'
    BY <1>1, <1>2 DEF Writing, Sealed
  <2> QED
    BY <1>1, <1>2, <2>1, <2>2 DEF IMaster, Typed
<1>3. CASE save' = [s EXCEPT !.top = "none"]
           /\ InFile(save.path, Flushed(files[save.path], s))
  <2>1. /\ save' \in SaveRec /\ save'.at = s.at /\ save'.path = save.path
        /\ save'.rows = s.rows /\ save'.key = s.key /\ save'.entities = s.entities
        /\ save'.top = "none"
    BY <1>3 DEF SaveRec
  <2> DEFINE g == Flushed(files[save.path], s)
  <2>2. /\ g \in FileRec
        /\ g.head = IF s.top = "none" THEN files[save.path].head ELSE s.top
        /\ g.count = IF s.top = "real" THEN s.entities ELSE files[save.path].count
        /\ g.rows = s.rows /\ g.key = s.key
    BY <1>1, FlushedIs
  <2>3. InFile(save.path, g)
    BY <1>3
  <2> HIDE DEF g
  <2>4. g.head = "real" => s.top = "real" /\ s.at = "close" /\ g.count = Len(g.rows)
                           /\ [rows |-> g.rows, key |-> g.key] \in sealed'
    BY <1>1, <2>2
  <2>5. files' \in [Paths -> FileRec] /\ FilesKept' /\ files'[save.path] = g
    BY <1>1, <2>2, <2>3, <2>4, InFileIs
  <2>6. Writing'
    BY <2>1, <2>2, <2>4, <2>5 DEF Writing, Sealed
  <2> QED
    BY <1>1, <2>1, <2>5, <2>6 DEF IMaster, Typed
<1> QED
  BY <1>2, <1>3 DEF Fwrite

-----------------------------------------------------------------------------
(* The steps of a save.                                                    *)

LEMMA SaveBeginStep ==
  ASSUME IMaster, NEW p \in Paths, NEW k \in Keys, NEW s \in Schemas, SaveBegin(p, k, s)
  PROVE  IMaster'
<1>1. s \in Seq(MasterRow)
  BY MasterRowsAssumption
<1>2. /\ save' \in SaveRec /\ save'.at = "open" /\ save'.path = p
      /\ save'.top = "none" /\ save'.rows = <<>> /\ save'.entities = 0
  <2>1. save' = [NoSave EXCEPT !.at = "open", !.path = p, !.key = k, !.src = s]
    BY DEF SaveBegin
  <2>2. k \in AllKeys
    BY DEF AllKeys
  <2> QED
    BY <1>1, <2>1, <2>2, NoSaveIs DEF SaveRec, SavesAt
<1>3. Len(save'.rows) = 0
  BY <1>2
<1>4. Writing'
  BY <1>2, <1>3 DEF Writing
<1> QED
  BY <1>2, <1>4, SaveMoves DEF SaveBegin

(* The call returns before it has opened the file, or after it has been    *)
(* closed.                                                                 *)
LEMMA SaveEndsStep ==
  IMaster /\ (DeflateFails \/ SaveOpenFails \/ SaveReturn) => IMaster'
<1> SUFFICES ASSUME IMaster, DeflateFails \/ SaveOpenFails \/ SaveReturn PROVE IMaster'
  OBVIOUS
<1>1. save \in SaveRec /\ (save.at # "idle" => save.path \in Paths)
      /\ (save.at # "close" => save.top # "real") /\ UNCHANGED <<files, sealed>>
  BY DEF IMaster, Typed, Writing, DeflateFails, SaveOpenFails, SaveReturn, SaveAt
<1>2. CASE SaveReturn
  <2>1. save' = NoSave
    BY <1>2 DEF SaveReturn
  <2>2. Writing'
    BY <2>1, NoSaveIs DEF Writing
  <2> QED
    BY <1>1, <2>1, <2>2, NoSaveIs, SaveMoves
<1>3. CASE DeflateFails \/ SaveOpenFails
  <2>1. /\ save' \in SaveRec /\ save'.at = "returned" /\ save'.path = save.path
        /\ save'.top # "real" /\ save.at = "open"
    <3>1. CASE DeflateFails
      BY <1>1, <3>1 DEF DeflateFails, SaveAt, SaveRec, SavesAt
    <3>2. CASE SaveOpenFails
      BY <1>1, <3>2 DEF SaveOpenFails, SaveAt, SaveRec, SavesAt
    <3> QED
      BY <1>3, <3>1, <3>2
  <2>2. Writing'
    BY <2>1 DEF Writing
  <2> QED
    BY <1>1, <2>1, <2>2, SaveMoves
<1> QED
  BY <1>2, <1>3

LEMMA SaveOpenStep == IMaster /\ SaveOpen => IMaster'
<1> SUFFICES ASSUME IMaster, SaveOpen PROVE IMaster'
  OBVIOUS
<1>1. /\ save \in SaveRec /\ save.at = "open" /\ save.path \in Paths
      /\ save.top # "real" /\ save.entities = Len(save.rows)
      /\ files \in [Paths -> FileRec] /\ FilesKept
  BY DEF IMaster, Typed, Writing, SaveOpen, SaveAt
<1>2. save' = [save EXCEPT !.at = "prepare"] /\ InFile(save.path, Empty)
      /\ UNCHANGED sealed
  BY DEF SaveOpen, SaveAt
<1>3. /\ save' \in SaveRec /\ save'.at = "prepare" /\ save'.path = save.path
      /\ save'.top = save.top /\ save'.entities = save.entities
      /\ save'.rows = save.rows
  BY <1>1, <1>2 DEF SaveRec, SavesAt
<1>4. files' \in [Paths -> FileRec] /\ FilesKept' /\ files'[save.path] = Empty
  BY <1>1, <1>2, EmptyIs, InFileIs
<1>5. Writing'
  BY <1>1, <1>3, <1>4, EmptyIs DEF Writing
<1> QED
  BY <1>1, <1>3, <1>4, <1>5 DEF IMaster, Typed

(* Steps that move on, and write nothing.                                  *)
LEMMA WaitingStep ==
  IMaster /\ (Prepare \/ SkipRow \/ ReadSalt \/ HeaderFails) => IMaster'
<1> SUFFICES ASSUME IMaster, Prepare \/ SkipRow \/ ReadSalt \/ HeaderFails PROVE IMaster'
  OBVIOUS
<1>1. /\ save.at \in Inside \ {"sql"} /\ UNCHANGED <<files, sealed>>
      /\ save'.at \in {"dummy", "row", "seek", "close"}
      /\ save' \in SaveRec /\ save'.path = save.path /\ save'.top = save.top
      /\ save'.entities = save.entities /\ save'.rows = save.rows
  <2>1. save \in SaveRec
    BY DEF IMaster, Typed
  <2>2. CASE Prepare
    BY <2>1, <2>2 DEF Prepare, SaveAt, Inside, SaveRec, SavesAt
  <2>3. CASE SkipRow
    BY <2>1, <2>3 DEF SkipRow, SaveAt, Inside, SaveRec, SavesAt
  <2>4. CASE ReadSalt
    BY <2>1, <2>4 DEF ReadSalt, SaveAt, Inside, SaveRec, SavesAt
  <2>5. CASE HeaderFails
    BY <2>1, <2>5 DEF HeaderFails, SaveAt, Inside, SaveRec, SavesAt
  <2> QED
    BY <2>2, <2>3, <2>4, <2>5
<1>2. /\ save.path \in Paths /\ files[save.path].head # "real" /\ save.top # "real"
      /\ save.entities = Len(save.rows)
  BY <1>1, InsideIs DEF Inside
<1>3. Writing'
  BY <1>1, <1>2 DEF Writing
<1> QED
  BY <1>1, <1>2, <1>3, SaveMoves

LEMMA BailingStep == IMaster /\ (SqlFails \/ LongRow) => IMaster'
<1> SUFFICES ASSUME IMaster, SqlFails \/ LongRow PROVE IMaster'
  OBVIOUS
<1>1. save.at \in Inside /\ UNCHANGED <<files, sealed>> /\ (Bail("ERROR") \/ Bail("ROW"))
  BY DEF SqlFails, LongRow, SaveAt, Inside
<1> QED
  BY <1>1, BailKeeps

LEMMA RowIs ==
  ASSUME IMaster, HasRow
  PROVE  Row \in MasterRow
<1>1. save.src \in Seq(MasterRow) /\ save.i \in Nat \ {0}
  BY DEF IMaster, Typed, SaveRec
<1>2. save.i \in 1 .. Len(save.src)
  BY <1>1 DEF HasRow
<1> QED
  BY <1>1, <1>2 DEF Row

(* The header of zeros, a row, its SQL, the end of the stream.             *)
LEMMA StreamStep ==
  IMaster /\ (WriteDummy \/ WriteEntry \/ WriteSql \/ FinishStream) => IMaster'
<1> SUFFICES ASSUME IMaster, WriteDummy \/ WriteEntry \/ WriteSql \/ FinishStream
             PROVE  IMaster'
  OBVIOUS
<1>1. save.at \in Inside \ {"header"} /\ UNCHANGED sealed
  BY DEF WriteDummy, WriteEntry, WriteSql, FinishStream, SaveAt, Inside
<1>2. /\ save \in SaveRec /\ save.top # "real"
      /\ save.at # "sql" => save.entities = Len(save.rows)
      /\ save.at = "sql" => save.entities = Len(save.rows) - 1
      /\ save.rows \in Seq(MasterRow) /\ save.units \in Int /\ save.entities \in Int
      /\ save.i \in Nat \ {0}
  BY <1>1, InsideIs DEF Inside, SaveRec
<1>3. CASE WriteDummy
  <2> DEFINE s == [save EXCEPT !.at = "row", !.top = "dummy"]
  <2>1. /\ s \in SaveRec /\ s.path = save.path /\ s.at = "row" /\ s.top = "dummy"
        /\ s.entities = save.entities /\ s.rows = save.rows
    BY <1>2 DEF SaveRec, SavesAt
  <2>2. Fwrite(s) /\ save.at = "dummy"
    BY <1>3 DEF WriteDummy, SaveAt
  <2> HIDE DEF s
  <2> QED
    BY <1>1, <1>2, <2>1, <2>2, FwriteKeeps
<1>4. CASE WriteEntry
  <2>1. PICK r \in Seq(MasterRow) : r = Append(save.rows, Row) /\ Len(r) = Len(save.rows) + 1
    <3>1. PICK x \in MasterRow : x = Row
      BY <1>4, RowIs DEF WriteEntry, Entry
    <3>2. Append(save.rows, x) \in Seq(MasterRow)
          /\ Len(Append(save.rows, x)) = Len(save.rows) + 1
      BY ONLY <1>2, AppendProperties
    <3> QED
      BY <3>1, <3>2
  <2>2. PICK u \in Int : u = save.units + 1
    BY <1>2
  <2> DEFINE s == [save EXCEPT !.at = "sql", !.rows = r, !.units = u]
  <2>3. /\ s \in SaveRec /\ s.path = save.path /\ s.at = "sql" /\ s.top = save.top
        /\ s.entities = save.entities /\ s.rows = r
    BY <1>2 DEF SaveRec, SavesAt
  <2>4. Fwrite(s) /\ save.at = "row"
    BY <1>4, <2>1, <2>2 DEF WriteEntry, SaveAt
  <2> HIDE DEF s
  <2>5. save.entities = Len(r) - 1
    BY <1>2, <2>1, <2>4
  <2> QED
    BY <1>1, <1>2, <2>3, <2>4, <2>5, FwriteKeeps
<1>5. CASE WriteSql
  <2>1. PICK u \in Int : u = save.units + 1
    BY <1>2
  <2>2. PICK j \in Nat \ {0} : j = save.i + 1
    BY <1>2
  <2>3. PICK e \in Int : e = save.entities + 1
    BY <1>2
  <2> DEFINE s == [save EXCEPT !.at = "row", !.units = u, !.i = j, !.entities = e]
  <2>4. /\ s \in SaveRec /\ s.path = save.path /\ s.at = "row" /\ s.top = save.top
        /\ s.entities = e /\ s.rows = save.rows
    BY <1>2 DEF SaveRec, SavesAt
  <2>5. Fwrite(s) /\ save.at = "sql"
    BY <1>5, <2>1, <2>2, <2>3 DEF WriteSql, SaveAt
  <2> HIDE DEF s
  <2>6. e = Len(save.rows)
    BY <1>2, <2>3, <2>5
  <2> QED
    BY <1>1, <1>2, <2>4, <2>5, <2>6, FwriteKeeps
<1>6. CASE FinishStream
  <2>1. PICK u \in Int : u = save.units + 1
    BY <1>2
  <2> DEFINE s == [save EXCEPT !.at = "salt", !.units = u]
  <2>2. /\ s \in SaveRec /\ s.path = save.path /\ s.at = "salt" /\ s.top = save.top
        /\ s.entities = save.entities /\ s.rows = save.rows
    BY <1>2 DEF SaveRec, SavesAt
  <2>3. Fwrite(s) /\ save.at = "row"
    BY <1>6, <2>1 DEF FinishStream, SaveAt
  <2> HIDE DEF s
  <2> QED
    BY <1>1, <1>2, <2>2, <2>3, FwriteKeeps
<1> QED
  BY <1>3, <1>4, <1>5, <1>6

LEMMA WriteHeaderStep == IMaster /\ WriteHeader => IMaster'
<1> SUFFICES ASSUME IMaster, WriteHeader PROVE IMaster'
  OBVIOUS
<1>1. /\ save.at = "header" /\ sealed \subseteq sealed'
      /\ [rows |-> save.rows, key |-> save.key] \in sealed'
  BY DEF WriteHeader
<1>2. /\ save \in SaveRec /\ save.top # "real" /\ save.entities = Len(save.rows)
  BY <1>1, InsideIs DEF Inside
<1>3. PICK t \in {"none", "dummy", "real"} : t = IF save.placed THEN "real" ELSE save.top
  BY <1>2 DEF SaveRec
<1> DEFINE s == [save EXCEPT !.at = "close", !.top = t]
<1>4. /\ s \in SaveRec /\ s.path = save.path /\ s.at = "close" /\ s.key = save.key
      /\ s.entities = save.entities /\ s.rows = save.rows
  BY <1>2 DEF SaveRec, SavesAt
<1>5. Fwrite(s)
  <2>1. s = [save EXCEPT !.at = "close", !.top = IF save.placed THEN "real" ELSE @]
    BY <1>2, <1>3 DEF SaveRec
  <2> QED
    BY <2>1 DEF WriteHeader
<1> HIDE DEF s
<1> QED
  BY <1>1, <1>2, <1>4, <1>5, FwriteKeeps DEF Inside

(* A write fails, or one that nobody looks at; a part of the buffer may    *)
(* have reached the file.                                                  *)
LEMMA PartlyKeeps ==
  ASSUME IMaster, save.at \in Inside, UNCHANGED sealed,
         NEW g \in Partly(files[save.path], save), InFile(save.path, g),
         save' \in SaveRec, save'.path = save.path, save'.top = save.top,
         \/ save'.at = "bail"
         \/ save'.at = "header" /\ save.at # "sql"
              /\ save'.entities = save.entities /\ save'.rows = save.rows
  PROVE  IMaster'
<1>1. /\ save \in SaveRec /\ save.path \in Paths /\ files[save.path] \in FileRec
      /\ FilesKept /\ files \in [Paths -> FileRec]
      /\ files[save.path].head # "real" /\ save.top # "real"
      /\ save.at # "sql" => save.entities = Len(save.rows)
  BY InsideIs DEF Inside
<1>2. g \in FileRec /\ g.head # "real"
  BY <1>1, PartlyIs
<1>3. files' \in [Paths -> FileRec] /\ FilesKept' /\ files'[save.path] = g
  BY <1>1, <1>2, InFileIs
<1>4. Writing'
  BY <1>1, <1>2, <1>3 DEF Writing
<1> QED
  BY <1>1, <1>3, <1>4 DEF IMaster, Typed

LEMMA FwriteFailsStep == IMaster /\ FwriteFails => IMaster'
<1> SUFFICES ASSUME IMaster, FwriteFails PROVE IMaster'
  OBVIOUS
<1>1. PICK rc \in {"OK", "STREAM_END"} : Bail(rc)
  BY DEF FwriteFails
<1>2. PICK g \in Partly(files[save.path], save) : InFile(save.path, g)
  BY DEF FwriteFails
<1>3. save.at \in Inside /\ UNCHANGED sealed
  BY DEF FwriteFails, SaveAt, Inside
<1>4. /\ save' \in SaveRec /\ save'.at = "bail" /\ save'.path = save.path
      /\ save'.top = save.top
  BY <1>1, <1>3, InsideIs, BailIs
<1> QED
  BY <1>2, <1>3, <1>4, PartlyKeeps

LEMMA SeekStep == IMaster /\ (Seek \/ SeekFails) => IMaster'
<1> SUFFICES ASSUME IMaster, Seek \/ SeekFails PROVE IMaster'
  OBVIOUS
<1>1. save.at = "seek" /\ UNCHANGED sealed
  BY DEF Seek, SeekFails, SaveAt
<1>2. /\ save \in SaveRec /\ save.path \in Paths /\ files[save.path] \in FileRec
      /\ FilesKept /\ files \in [Paths -> FileRec]
      /\ files[save.path].head # "real" /\ save.top # "real"
      /\ save.entities = Len(save.rows)
  BY <1>1, InsideIs DEF Inside
<1>3. CASE SeekFails
  <2>1. PICK g \in Partly(files[save.path], save) : InFile(save.path, g)
    BY <1>3 DEF SeekFails
  <2>2. /\ save' \in SaveRec /\ save'.at = "header" /\ save'.path = save.path
        /\ save'.top = save.top /\ save'.entities = save.entities
        /\ save'.rows = save.rows
    BY <1>2, <1>3 DEF SeekFails, SaveRec, SavesAt
  <2> QED
    BY <1>1, <2>1, <2>2, PartlyKeeps DEF Inside
<1>4. CASE Seek
  <2>1. /\ save' \in SaveRec /\ save'.at = "header" /\ save'.path = save.path
        /\ save'.top = "none" /\ save'.entities = save.entities
        /\ save'.rows = save.rows
    BY <1>2, <1>4 DEF Seek, SaveRec, SavesAt
  <2>2. PICK g \in FileRec : g = Flushed(files[save.path], save) /\ g.head # "real"
    BY <1>2, FlushedIs
  <2>3. InFile(save.path, g)
    BY <1>4, <2>2 DEF Seek
  <2>4. files' \in [Paths -> FileRec] /\ FilesKept' /\ files'[save.path] = g
    BY <1>1, <1>2, <2>2, <2>3, InFileIs
  <2>5. Writing'
    BY <1>2, <2>1, <2>2, <2>4 DEF Writing
  <2> QED
    BY <1>2, <2>1, <2>4, <2>5 DEF IMaster, Typed
<1> QED
  BY <1>3, <1>4

LEMMA CloseStep == IMaster /\ Close => IMaster'
<1> SUFFICES ASSUME IMaster, Close PROVE IMaster'
  OBVIOUS
<1>1. save.at \in {"close", "bail"} /\ UNCHANGED sealed
  BY DEF Close, SaveAt
<1> DEFINE f == files[save.path]
<1>2. /\ save \in SaveRec /\ save.path \in Paths /\ f \in FileRec
      /\ FilesKept /\ files \in [Paths -> FileRec]
  BY <1>1, InsideIs
<1>3. /\ save' \in SaveRec /\ save'.at = "returned" /\ save'.path = save.path
      /\ save'.top = "none"
  <2>1. save' = [save EXCEPT !.at = "returned", !.top = "none"]
    BY DEF Close
  <2> QED
    BY <1>2, <2>1 DEF SaveRec, SavesAt
<1>4. f.head = "real" => f.count = Len(f.rows) /\ Sealed(f.rows, f.key)
  BY <1>2 DEF FilesKept, Kept
<1>5. save.top = "real" => /\ save.entities = Len(save.rows)
                           /\ Sealed(save.rows, save.key)
  BY <1>1 DEF IMaster, Writing
<1>6. f.head = "real" => f.rows = save.rows /\ f.key = save.key
  BY <1>1 DEF IMaster, Writing
<1> HIDE DEF f
<1>7. PICK g \in FileRec :
        /\ InFile(save.path, g)
        /\ g.head = "real" => g.count = Len(g.rows) /\ Sealed(g.rows, g.key)
  <2>1. CASE InFile(save.path, Flushed(f, save))
    <3>1. PICK g \in FileRec :
            /\ g = Flushed(f, save)
            /\ g.head = IF save.top = "none" THEN f.head ELSE save.top
            /\ g.count = IF save.top = "real" THEN save.entities ELSE f.count
            /\ g.rows = save.rows /\ g.key = save.key
      BY <1>2, FlushedIs
    <3>2. g.head = "real" => g.count = Len(g.rows) /\ Sealed(g.rows, g.key)
      BY <1>4, <1>5, <1>6, <3>1
    <3> QED
      BY <2>1, <3>1, <3>2
  <2>2. CASE \E g \in Partly(f, save) : InFile(save.path, g)
    <3>1. PICK g \in Partly(f, save) : InFile(save.path, g)
      BY <2>2
    <3>2. /\ g \in FileRec
          /\ \/ g = f
             \/ /\ save.top # "real"
                /\ g.head = IF save.top = "none" THEN f.head ELSE save.top
                /\ g.count = f.count /\ g.rows = save.rows /\ g.key = save.key
      BY <1>2, PartlyIs
    <3>3. g.head = "real" => g.count = Len(g.rows) /\ Sealed(g.rows, g.key)
      BY <1>4, <1>6, <3>2
    <3> QED
      BY <3>1, <3>2, <3>3
  <2> QED
    BY <2>1, <2>2 DEF Close, f
<1>8. files' \in [Paths -> FileRec] /\ FilesKept'
  BY <1>1, <1>2, <1>7, InFileIs DEF Sealed
<1>9. Writing'
  BY <1>3 DEF Writing
<1> QED
  BY <1>2, <1>3, <1>8, <1>9 DEF IMaster, Typed

-----------------------------------------------------------------------------
(* Loads, what happens between calls, and the stop of the process.         *)

LEMMA LoadKeeps == IMaster /\ UNCHANGED <<files, save, sealed>> => IMaster'
BY DEF IMaster, Typed, FilesKept, Kept, Sealed, Writing

LEMMA MoveFileStep ==
  ASSUME IMaster, NEW p \in Paths, MoveFile(p)
  PROVE  IMaster'
<1>1. files \in [Paths -> FileRec] /\ FilesKept /\ UNCHANGED <<save, sealed>>
      /\ save.at = "idle"
  BY DEF IMaster, Typed, MoveFile, Idle
<1>2. PICK g \in FileRec :
        /\ InFile(p, g)
        /\ g.head = "real" => g.count = Len(g.rows) /\ Sealed(g.rows, g.key)
  <2>1. CASE InFile(p, Absent)
    BY <2>1, EmptyIs
  <2>2. CASE \E q \in Paths : \E f \in Parts(files[q]) : InFile(p, f)
    <3>1. PICK q \in Paths : \E f \in Parts(files[q]) : InFile(p, f)
      BY <2>2
    <3>2. PICK f \in FileRec : f = files[q]
      BY <1>1
    <3>3. PICK g \in Parts(f) : InFile(p, g)
      BY <3>1, <3>2
    <3>4. f.head = "real" => f.count = Len(f.rows) /\ Sealed(f.rows, f.key)
      BY <1>1, <3>2 DEF FilesKept, Kept
    <3>5. \/ g = Empty \/ g = f
          \/ \E m \in Int : g = [f EXCEPT !.n = m]
      BY <3>2, <3>3 DEF Parts, FileRec
    <3>6. /\ g \in FileRec
          /\ \/ g.head # "real"
             \/ g.head = f.head /\ g.count = f.count /\ g.rows = f.rows /\ g.key = f.key
      BY <3>5, EmptyIs DEF FileRec
    <3> QED
      BY <3>3, <3>4, <3>6
  <2> QED
    BY <2>1, <2>2 DEF MoveFile
<1>3. files' \in [Paths -> FileRec] /\ FilesKept'
  BY <1>1, <1>2, InFileIs DEF Sealed
<1>4. Writing'
  BY <1>1 DEF IMaster, Writing
<1> QED
  BY <1>1, <1>3, <1>4 DEF IMaster, Typed

LEMMA StopStep == IMaster /\ Stop => IMaster'
<1> SUFFICES ASSUME IMaster, Stop PROVE IMaster'
  OBVIOUS
<1>1. save' = NoSave /\ UNCHANGED <<files, sealed>>
  BY DEF Stop
<1>2. Writing'
  BY <1>1, NoSaveIs DEF Writing
<1> QED
  BY <1>1, <1>2, NoSaveIs, SaveMoves

LEMMA MasterSteps == IMaster /\ [MasterNext]_masterVars => IMaster'
<1> SUFFICES ASSUME IMaster, [MasterNext]_masterVars PROVE IMaster'
  OBVIOUS
<1>1. CASE UNCHANGED masterVars
  BY <1>1, LoadKeeps DEF masterVars
<1>2. CASE LoadStep \/ \E p \in Paths, k \in Keys, f \in Filters : LoadBegin(p, k, f)
  <2>1. UNCHANGED <<files, save, sealed>>
    BY <1>2 DEF LoadStep, LoadBegin, LoadOpen, ReadHeader, LoadFails, Refill, ReadEntity,
       ReadStrings, BadStream, LoadDone, LoadReturn, LoadAt
  <2> QED
    BY <2>1, LoadKeeps
<1>3. CASE SaveStep
  BY <1>3, SaveEndsStep, SaveOpenStep, WaitingStep, BailingStep, StreamStep,
     FwriteFailsStep, SeekStep, WriteHeaderStep, CloseStep DEF SaveStep
<1>4. CASE \E p \in Paths, k \in Keys, s \in Schemas : SaveBegin(p, k, s)
  BY <1>4, SaveBeginStep
<1>5. CASE (SqlFails /\ Fault) \/ (\E p \in Paths : MoveFile(p)) \/ Stop
  BY <1>5, BailingStep, MoveFileStep, StopStep
<1> QED
  BY <1>1, <1>2, <1>3, <1>4, <1>5 DEF MasterNext

LEMMA MasterInvariant == MasterSpec => []IMaster
<1>1. MasterInit => IMaster
  <2> SUFFICES ASSUME MasterInit PROVE IMaster
    OBVIOUS
  <2>1. /\ files = [p \in Paths |-> Absent] /\ save = NoSave
    BY DEF MasterInit
  <2>2. files \in [Paths -> FileRec] /\ \A p \in Paths : files[p].head = "absent"
    BY <2>1, EmptyIs
  <2> QED
    BY <2>1, <2>2, NoSaveIs DEF IMaster, Typed, FilesKept, Kept, Writing
<1>2. IMaster /\ [MasterNext]_masterVars => IMaster'
  BY MasterSteps
<1> QED
  BY <1>1, <1>2, PTL DEF MasterSpec

(* A backup file that sqliterk_load_master accepts holds exactly what one  *)
(* sqliterk_save_master had read when it wrote its header, whatever has    *)
(* failed and wherever the process has stopped.                            *)
THEOREM LoadableIsOneSave == MasterSpec => []FilesAreSaves
<1>1. IMaster => FilesAreSaves
  <2> SUFFICES ASSUME IMaster, NEW p \in Paths, Loads(files[p])
               PROVE  Content(files[p]) \in sealed
    BY DEF FilesAreSaves
  <2>1. PICK f \in FileRec : f = files[p]
    BY DEF IMaster, Typed
  <2>2. f.count = Len(f.rows) /\ Sealed(f.rows, f.key)
    BY <2>1 DEF IMaster, FilesKept, Kept, Loads
  <2>3. f.rows \in Seq(MasterRow)
    BY DEF FileRec
  <2>4. SubSeq(f.rows, 1, f.count) = f.rows
    BY ONLY <2>2, <2>3
  <2> QED
    BY <2>1, <2>2, <2>4 DEF Content, Sealed
<1> QED
  BY <1>1, MasterInvariant, PTL

-----------------------------------------------------------------------------
(* The loader's buffer: as long as the file has not ended, the bytes that  *)
(* inflate has taken since the last fill are those before next_in.         *)
Reads(l) ==
  /\ \E S : l \in [at : S, path : S, key : S, filter : S, left : S, pos : S,
                   avail : S, next : S, total : S, eof : S, got : S, rc : S]
  /\ l.next \in Int /\ l.total \in Int
  /\ ~ l.eof => l.next = l.total

Reading == Reads(load)

LEMMA NoLoadReads == Reads(NoLoad)
<1> DEFINE S == {NoLoad.at, NoLoad.path, NoLoad.key, NoLoad.filter, NoLoad.left,
                 NoLoad.pos, NoLoad.avail, NoLoad.next, NoLoad.total, NoLoad.eof,
                 NoLoad.got, NoLoad.rc}
<1>1. NoLoad \in [at : S, path : S, key : S, filter : S, left : S, pos : S,
                  avail : S, next : S, total : S, eof : S, got : S, rc : S]
  BY DEF NoLoad
<1>2. NoLoad.next = 0 /\ NoLoad.total = 0
  BY DEF NoLoad
<1> HIDE DEF S
<1> QED
  BY <1>1, <1>2 DEF Reads

(* A step that sets other fields than these.                               *)
LEMMA ReadsOn ==
  ASSUME Reading, NEW a, NEW l, NEW r, NEW g,
         \/ load' = [load EXCEPT !.at = a, !.rc = r, !.got = g]
         \/ load' = [load EXCEPT !.at = a, !.left = l]
         \/ load' = [load EXCEPT !.at = a]
  PROVE  Reading'
<1>1. PICK S : load \in [at : S, path : S, key : S, filter : S, left : S, pos : S,
                         avail : S, next : S, total : S, eof : S, got : S, rc : S]
  BY DEF Reading, Reads
<1> DEFINE T == S \cup {a, l, r, g}
<1>2. load' \in [at : T, path : T, key : T, filter : T, left : T, pos : T,
                 avail : T, next : T, total : T, eof : T, got : T, rc : T]
  BY <1>1
<1>3. /\ load'.next = load.next /\ load'.total = load.total
      /\ load'.avail = load.avail /\ load'.eof = load.eof
  BY <1>1
<1> HIDE DEF T
<1> QED
  BY <1>2, <1>3 DEF Reading, Reads

(* A unit is taken.                                                        *)
LEMMA InflatesOn ==
  ASSUME Reading, NEW a, NEW l, NEW g,
         \/ load' = [Inflated EXCEPT !.at = a]
         \/ load' = [Inflated EXCEPT !.at = a, !.left = l, !.got = g]
  PROVE  Reading'
<1>1. PICK S : load \in [at : S, path : S, key : S, filter : S, left : S, pos : S,
                         avail : S, next : S, total : S, eof : S, got : S, rc : S]
  BY DEF Reading, Reads
<1>2. load.next \in Int /\ load.total \in Int
  BY DEF Reading, Reads
<1>3. PICK x : x = load.avail - 1
  OBVIOUS
<1>4. PICK y \in Int : y = load.next + 1
  BY <1>2
<1>5. PICK z \in Int : z = load.total + 1
  BY <1>2
<1> DEFINE T == S \cup {a, l, g, x, y, z}
           h == [load EXCEPT !.avail = x, !.next = y, !.total = z]
<1>6. h = Inflated
  BY <1>3, <1>4, <1>5 DEF Inflated
<1>7. /\ h \in [at : T, path : T, key : T, filter : T, left : T, pos : T,
                avail : T, next : T, total : T, eof : T, got : T, rc : T]
      /\ h.avail = x /\ h.next = y /\ h.total = z /\ h.eof = load.eof
  BY <1>1
<1>8. a \in T /\ l \in T /\ g \in T
  OBVIOUS
<1> HIDE DEF T, h
<1>9. /\ load' \in [at : T, path : T, key : T, filter : T, left : T, pos : T,
                    avail : T, next : T, total : T, eof : T, got : T, rc : T]
      /\ load'.avail = x /\ load'.next = y /\ load'.total = z /\ load'.eof = h.eof
  BY <1>6, <1>7, <1>8
<1>10. ~ load'.eof => load'.next = load'.total
  BY <1>4, <1>5, <1>7, <1>9 DEF Reading, Reads
<1> QED
  BY <1>9, <1>10 DEF Reading, Reads

LEMMA RefillReads == Reading /\ Refill => Reading'
<1> SUFFICES ASSUME Reading, Refill PROVE Reading'
  OBVIOUS
<1>1. PICK S : load \in [at : S, path : S, key : S, filter : S, left : S, pos : S,
                         avail : S, next : S, total : S, eof : S, got : S, rc : S]
  BY DEF Reading, Reads
<1>2. load.next \in Int /\ load.total \in Int /\ load.next = load.total
  BY DEF Reading, Reads, Refill, Hungry
<1>3. PICK m : load' = Refilled(m) /\ (m < InBuf \/ m = InBuf)
  <2> DEFINE rest == InHand.n - load.pos
  <2>1. load' = Refilled(IF rest < InBuf THEN rest ELSE InBuf)
    BY DEF Refill
  <2> HIDE DEF rest
  <2>2. CASE rest < InBuf
    BY <2>1, <2>2
  <2>3. CASE ~ (rest < InBuf)
    BY <2>1, <2>3
  <2> QED
    BY <2>2, <2>3
<1>4. PICK y \in Int : y = IF m > 0 THEN Start ELSE load.next
  BY <1>2 DEF Start
<1>5. PICK e : e = (m < InBuf)
  OBVIOUS
<1>6. PICK q : q = load.pos + m
  OBVIOUS
<1> DEFINE T == S \cup {m, y, e, q, 0}
<1>7. load' = [load EXCEPT !.total = 0, !.next = y, !.avail = m, !.pos = q, !.eof = e]
  BY <1>1, <1>3, <1>4, <1>5, <1>6 DEF Refilled
<1>8. /\ load' \in [at : T, path : T, key : T, filter : T, left : T, pos : T,
                    avail : T, next : T, total : T, eof : T, got : T, rc : T]
      /\ load'.total = 0 /\ load'.next = y /\ load'.eof = e
  BY <1>1, <1>7
<1> HIDE DEF T
<1>9. ~ e => y = 0
  <2>1. InBuf \in Nat \ {0}
    BY MasterFileAssumption
  <2>2. Start = 0
    BY <1>2 DEF Start
  <2>3. ~ e => m = InBuf
    BY <1>3, <1>5
  <2> QED
    BY <1>4, <2>1, <2>2, <2>3
<1> QED
  BY <1>8, <1>9 DEF Reading, Reads

LEMMA ReadingSteps == Reading /\ [MasterNext]_masterVars => Reading'
<1> SUFFICES ASSUME Reading, [MasterNext]_masterVars PROVE Reading'
  OBVIOUS
<1>1. CASE UNCHANGED load
  BY <1>1 DEF Reading, Reads
<1>2. CASE LoadOpen \/ ReadHeader \/ LoadFails \/ BadStream \/ LoadDone
  <2>1. \/ LoadBails
        \/ \E a : load' = [load EXCEPT !.at = a]
        \/ \E a, l : load' = [load EXCEPT !.at = a, !.left = l]
    BY <1>2 DEF LoadOpen, ReadHeader, LoadFails, BadStream, LoadDone
  <2> QED
    BY <2>1, ReadsOn DEF LoadBails
<1>3. CASE Refill
  BY <1>3, RefillReads
<1>4. CASE ReadEntity \/ ReadStrings
  <2>1. CASE ReadEntity
    BY <2>1, InflatesOn DEF ReadEntity
  <2>2. CASE ReadStrings
    <3>1. PICK l, g : load' = [Inflated EXCEPT !.at = "entity", !.left = l, !.got = g]
      <4>1. \E l : l = Inflated.left - 1
        OBVIOUS
      <4> QED
        BY <2>2, <4>1 DEF ReadStrings
    <3> QED
      BY <3>1, InflatesOn
  <2> QED
    BY <1>4, <2>1, <2>2
<1>5. CASE LoadReturn \/ Stop
  <2>1. load' = NoLoad
    BY <1>5 DEF LoadReturn, Stop
  <2> QED
    BY <2>1, NoLoadReads DEF Reading
<1>6. ASSUME NEW p, NEW k, NEW f, LoadBegin(p, k, f) PROVE Reading'
  <2>1. PICK S : NoLoad \in [at : S, path : S, key : S, filter : S, left : S, pos : S,
                             avail : S, next : S, total : S, eof : S, got : S, rc : S]
    BY NoLoadReads DEF Reads
  <2>2. PICK g : g = [t \in f |-> Unknown]
    OBVIOUS
  <2> DEFINE T == S \cup {"open", p, k, f, g}
  <2>3. load' = [NoLoad EXCEPT !.at = "open", !.path = p, !.key = k, !.filter = f,
                               !.got = g]
    BY <1>6, <2>2 DEF LoadBegin
  <2>4. /\ load' \in [at : T, path : T, key : T, filter : T, left : T, pos : T,
                      avail : T, next : T, total : T, eof : T, got : T, rc : T]
        /\ load'.next = NoLoad.next /\ load'.total = NoLoad.total
        /\ load'.eof = NoLoad.eof
    BY <2>1, <2>3
  <2> HIDE DEF T
  <2> QED
    BY <2>4, NoLoadReads DEF Reading, Reads
<1>7. CASE \/ SaveStep \/ SqlFails
           \/ \E p \in Paths, k \in Keys, s \in Schemas : SaveBegin(p, k, s)
           \/ \E p \in Paths : MoveFile(p)
  BY <1>1, <1>7 DEF SaveStep, SqlFails, SaveBegin, MoveFile, SaveAt, DeflateFails, SaveOpen,
     SaveOpenFails, Prepare, WriteDummy, SkipRow, LongRow, WriteEntry, WriteSql, FinishStream,
     FwriteFails, ReadSalt, Seek, SeekFails, WriteHeader, HeaderFails, Close, SaveReturn
<1> QED
  BY <1>1, <1>2, <1>3, <1>4, <1>5, <1>6, <1>7 DEF MasterNext, LoadStep, masterVars

(* inflate_read always fills its buffer from the start: next_in - total_in *)
(* is the buffer's address whenever more is read.                          *)
THEOREM BufferIsFilledFromStart == MasterSpec => []RefillAtStart
<1>1. MasterInit => Reading
  BY NoLoadReads DEF MasterInit, Reading
<1>2. Reading /\ [MasterNext]_masterVars => Reading'
  BY ReadingSteps
<1>3. Reading => RefillAtStart
  BY DEF Reading, Reads, RefillAtStart, Hungry, Start
<1> QED
  BY <1>1, <1>2, <1>3, PTL DEF MasterSpec

-----------------------------------------------------------------------------
(* The rows that are saved.                                                *)

Less == {ss \in Nat \X Nat : ss[1] < ss[2]}

LEMMA LeastOne ==
  ASSUME NEW S \in SUBSET Nat, S # {}
  PROVE  \E n \in S : \A m \in S : n <= m
<1>1. IsWellFoundedOn(Less, Nat)
  BY NatLessThanWellFounded DEF OpToRel, Less
<1>2. PICK n \in S : \A m \in S : <<m, n>> \notin Less
  BY <1>1, WFMin
<1>3. ASSUME NEW m \in Nat, <<m, n>> \notin Less
      PROVE  n <= m
  BY <1>3 DEF Less
<1> QED
  BY <1>2, <1>3

LEMMA GreatestOne ==
  ASSUME NEW N \in Nat, NEW S \in SUBSET (1 .. N), S # {}
  PROVE  \E n \in S : \A m \in S : m <= n
<1> DEFINE R == {k \in Nat : \E i \in S : k + i = N}
<1>1. \A i \in S : N - i \in R
  OBVIOUS
<1>2. R # {} /\ R \subseteq Nat
  BY <1>1
<1> HIDE DEF R
<1>3. PICK k \in R : \A l \in R : k <= l
  BY <1>2, LeastOne
<1>4. PICK n \in S : k + n = N
  BY <1>3 DEF R
<1>5. ASSUME NEW m \in S PROVE m <= n
  <2>1. k <= N - m /\ k \in Nat
    BY <1>1, <1>2, <1>3
  <2> QED
    BY <1>4, <2>1
<1> QED
  BY <1>5

(* to satisfies the recursion of SavedTo up to n.                          *)
FollowsSaved(to, schema, n) ==
  /\ to \in [0 .. n -> Seq(MasterRow)]
  /\ to[0] = <<>>
  /\ \A j \in 1 .. n :
       to[j] = IF Saved(schema[j]) THEN Append(to[j - 1], schema[j]) ELSE to[j - 1]

LEMMA SavedExists ==
  ASSUME NEW s \in Seq(MasterRow)
  PROVE  \E to : FollowsSaved(to, s, Len(s))
<1> DEFINE C == {n \in 0 .. Len(s) : ~ \E to : FollowsSaved(to, s, n)}
<1>1. Len(s) \in Nat
  BY LenProperties
<1>2. SUFFICES ASSUME C # {} PROVE FALSE
  BY <1>1
<1>3. PICK n \in C : \A m \in C : n <= m
  <2>1. C \in SUBSET Nat
    BY <1>1
  <2> HIDE DEF C
  <2> QED
    BY <1>2, <2>1, LeastOne
<1>4. n \in 0 .. Len(s) /\ ~ \E to : FollowsSaved(to, s, n)
  BY <1>3
<1>5. CASE n = 0
  <2> DEFINE to == [j \in 0 .. 0 |-> <<>>]
  <2>1. FollowsSaved(to, s, 0)
    BY DEF FollowsSaved
  <2> QED
    BY <1>4, <1>5, <2>1
<1>6. CASE n # 0
  <2>1. n - 1 \in 0 .. Len(s) /\ ~ (n <= n - 1) /\ n \in 1 .. Len(s) /\ n \in Nat
    BY <1>1, <1>4, <1>6
  <2>2. n - 1 \notin C
    BY <1>3, <2>1
  <2>3. PICK old : FollowsSaved(old, s, n - 1)
    BY <2>1, <2>2
  <2>4. s[n] \in MasterRow /\ old[n - 1] \in Seq(MasterRow)
    BY <2>1, <2>3, ElementOfSeq DEF FollowsSaved
  <2>5. PICK last \in Seq(MasterRow) :
          last = IF Saved(s[n]) THEN Append(old[n - 1], s[n]) ELSE old[n - 1]
    BY <2>4, AppendProperties
  <2> DEFINE to == [j \in 0 .. n |-> IF j = n THEN last ELSE old[j]]
  <2>6. \A j \in 0 .. n - 1 : to[j] = old[j] /\ old[j] \in Seq(MasterRow)
    BY <2>1, <2>3 DEF FollowsSaved
  <2>7. to[n] = last /\ to[0] = <<>>
    BY <2>1, <2>3 DEF FollowsSaved
  <2>8. to \in [0 .. n -> Seq(MasterRow)]
    <3>1. \A j \in 0 .. n : j = n \/ j \in 0 .. n - 1
      BY <2>1
    <3>2. \A j \in 0 .. n : (IF j = n THEN last ELSE old[j]) \in Seq(MasterRow)
      BY <2>5, <2>6, <3>1
    <3> QED
      BY <3>2
  <2> HIDE DEF to
  <2>9. ASSUME NEW j \in 1 .. n
        PROVE  to[j] = IF Saved(s[j]) THEN Append(to[j - 1], s[j]) ELSE to[j - 1]
    <3>1. CASE j = n
      <4>1. to[n - 1] = old[n - 1]
        BY <2>1, <2>6
      <4> QED
        BY <2>5, <2>7, <3>1, <4>1
    <3>2. CASE j # n
      <4>1. j \in 1 .. n - 1 /\ j - 1 \in 0 .. n - 1 /\ j \in 0 .. n - 1
        BY <2>1, <3>2
      <4>2. to[j] = old[j] /\ to[j - 1] = old[j - 1]
        BY <2>6, <4>1
      <4> QED
        BY <2>3, <4>1, <4>2 DEF FollowsSaved
    <3> QED
      BY <3>1, <3>2
  <2>10. FollowsSaved(to, s, n)
    BY <2>7, <2>8, <2>9 DEF FollowsSaved
  <2> QED
    BY <1>4, <2>10
<1> QED
  BY <1>5, <1>6

(* SavedTo is what its recursion says, and a sequence of rows.             *)
LEMMA SavedToIs ==
  ASSUME NEW s \in Seq(MasterRow)
  PROVE  /\ SavedTo(s)[0] = <<>>
         /\ \A n \in 0 .. Len(s) : SavedTo(s)[n] \in Seq(MasterRow)
         /\ \A n \in 1 .. Len(s) :
              SavedTo(s)[n] = IF Saved(s[n]) THEN Append(SavedTo(s)[n - 1], s[n])
                              ELSE SavedTo(s)[n - 1]
<1> DEFINE body(g) == [n \in 0 .. Len(s) |->
                         IF n = 0 THEN <<>>
                         ELSE IF Saved(s[n]) THEN Append(g[n - 1], s[n]) ELSE g[n - 1]]
<1>1. PICK g : FollowsSaved(g, s, Len(s))
  BY SavedExists
<1>2. Len(s) \in Nat
  BY LenProperties
<1>3. g = body(g)
  <2>1. DOMAIN g = 0 .. Len(s) /\ g = [n \in 0 .. Len(s) |-> g[n]]
    BY <1>1 DEF FollowsSaved
  <2>2. ASSUME NEW n \in 0 .. Len(s)
        PROVE  g[n] = body(g)[n]
    <3>1. n = 0 \/ n \in 1 .. Len(s)
      BY <1>2
    <3> QED
      BY <1>1, <3>1 DEF FollowsSaved
  <2> QED
    BY <2>1, <2>2
<1>4. SavedTo(s) = body(SavedTo(s))
  BY <1>3 DEF SavedTo
<1>5. \A n \in 0 .. Len(s) : SavedTo(s)[n] = body(SavedTo(s))[n]
  BY <1>4
<1> DEFINE C == {n \in 0 .. Len(s) : SavedTo(s)[n] \notin Seq(MasterRow)}
<1>6. C = {}
  <2> SUFFICES ASSUME C # {} PROVE FALSE
    OBVIOUS
  <2>1. PICK n \in C : \A m \in C : n <= m
    <3>1. C \in SUBSET Nat /\ C # {}
      BY <1>2
    <3> HIDE DEF C
    <3> QED
      BY <3>1, LeastOne
  <2>2. n \in 0 .. Len(s) /\ SavedTo(s)[n] \notin Seq(MasterRow)
    BY <2>1
  <2>3. n # 0
    BY <1>2, <1>5, <2>2, EmptySeq
  <2>4. n - 1 \in 0 .. Len(s) /\ ~ (n <= n - 1) /\ n \in 1 .. Len(s)
    BY <1>2, <2>2, <2>3
  <2>5. SavedTo(s)[n - 1] \in Seq(MasterRow)
    BY <2>1, <2>4
  <2>6. s[n] \in MasterRow
    BY <2>4, ElementOfSeq
  <2> QED
    BY <1>5, <2>2, <2>3, <2>5, <2>6, AppendProperties
<1>7. 0 \in 0 .. Len(s) /\ \A n \in 1 .. Len(s) : n \in 0 .. Len(s) /\ n # 0
  BY <1>2
<1> QED
  BY <1>5, <1>6, <1>7

-----------------------------------------------------------------------------
(* What a load selects.                                                    *)

(* Row i is the one that the map keeps for the name t.                     *)
Latest(rows, filter, t, i) ==
  /\ i \in DOMAIN rows /\ Selected(rows[i], filter) /\ rows[i].name = t
  /\ \A j \in DOMAIN rows :
       Selected(rows[j], filter) /\ rows[j].name = t => j <= i

Names(rows, filter) ==
  {rows[i].name : i \in {j \in DOMAIN rows : Selected(rows[j], filter)}}

LEMMA SelectionIs ==
  ASSUME NEW rows \in Seq(MasterRow), NEW filter
  PROVE  LET map == Selection(rows, filter)
         IN /\ map = [t \in filter \cup Names(rows, filter) |-> map[t]]
            /\ \A t, i : Latest(rows, filter, t, i) =>
                 t \in Names(rows, filter) /\ map[t] = rows[i]
            /\ \A t \in Names(rows, filter) : \E i : Latest(rows, filter, t, i)
            /\ \A t \in filter \ Names(rows, filter) : map[t] = Unknown
<1> DEFINE map == Selection(rows, filter)
           sel == {i \in DOMAIN rows : Selected(rows[i], filter)}
           last(t) == CHOOSE i \in sel : /\ rows[i].name = t
                                         /\ \A j \in sel : rows[j].name = t => j <= i
           D == filter \cup {rows[i].name : i \in sel}
<1>1. /\ map = [t \in D |-> IF \E i \in sel : rows[i].name = t THEN rows[last(t)]
                             ELSE Unknown]
      /\ D = filter \cup Names(rows, filter)
  BY DEF Selection, Names
<1>2. Len(rows) \in Nat /\ DOMAIN rows = 1 .. Len(rows)
  BY LenProperties
<1>3. ASSUME NEW t, NEW i, Latest(rows, filter, t, i)
      PROVE  t \in Names(rows, filter) /\ map[t] = rows[i]
  <2>1. i \in sel /\ rows[i].name = t
    BY <1>3 DEF Latest
  <2>2. \A j \in sel : j \in Nat
    BY <1>2
  <2>3. \A j \in sel : /\ rows[j].name = t
                       /\ \A k \in sel : rows[k].name = t => k <= j
                       => j = i
    BY <1>3, <2>1, <2>2 DEF Latest
  <2>4. \A k \in sel : rows[k].name = t => k <= i
    BY <1>3 DEF Latest
  <2> HIDE DEF sel
  <2>5. last(t) = i
    BY <2>1, <2>3, <2>4
  <2>6. t \in D
    BY <2>1
  <2>7. map[t] = IF \E j \in sel : rows[j].name = t THEN rows[last(t)] ELSE Unknown
    BY <1>1, <2>6
  <2>8. map[t] = rows[i]
    <3> HIDE DEF last, map
    <3> QED
      BY <2>1, <2>5, <2>7
  <2>9. t \in Names(rows, filter)
    BY <2>1 DEF Names, sel
  <2> QED
    BY <2>8, <2>9
<1>4. ASSUME NEW t \in Names(rows, filter)
      PROVE  \E i : Latest(rows, filter, t, i)
  <2> DEFINE S == {j \in sel : rows[j].name = t}
  <2>1. S # {} /\ S \in SUBSET (1 .. Len(rows))
    BY <1>2 DEF Names
  <2>2. PICK i \in S : \A j \in S : j <= i
    <3> HIDE DEF S
    <3> QED
      BY <1>2, <2>1, GreatestOne
  <2>3. Latest(rows, filter, t, i)
    BY <2>2 DEF Latest
  <2> QED
    BY <2>3
<1>5. ASSUME NEW t \in filter \ Names(rows, filter)
      PROVE  map[t] = Unknown
  <2>1. ~ \E i \in sel : rows[i].name = t
    BY DEF Names
  <2>2. t \in D
    OBVIOUS
  <2>3. map[t] = IF \E i \in sel : rows[i].name = t THEN rows[last(t)] ELSE Unknown
    BY <1>1, <2>2
  <2> HIDE DEF sel, map, last
  <2> QED
    BY <2>1, <2>3
<1>6. map = [t \in D |-> map[t]]
  BY <1>1
<1> HIDE DEF map, sel, D
<1> QED
  BY <1>1, <1>3, <1>4, <1>5, <1>6 DEF map

(* Of no row, the selection has the tables that were asked for.            *)
LEMMA SelectionOfNone ==
  ASSUME NEW filter
  PROVE  Selection(<<>>, filter) = [t \in filter |-> Unknown]
<1> DEFINE map == Selection(<<>>, filter)
<1>1. <<>> \in Seq(MasterRow) /\ Names(<<>>, filter) = {}
  BY EmptySeq DEF Names
<1>2. /\ map = [t \in filter |-> map[t]]
      /\ \A t \in filter : map[t] = Unknown
  <2>1. /\ map = [t \in filter \cup Names(<<>>, filter) |-> map[t]]
        /\ \A t \in filter \ Names(<<>>, filter) : map[t] = Unknown
    BY <1>1, SelectionIs
  <2> HIDE DEF map
  <2> QED
    BY <1>1, <2>1
<1> HIDE DEF map
<1>3. map = [t \in filter |-> Unknown]
  BY <1>2
<1> QED
  BY <1>3 DEF map

(* Of one row more, it is that of the others, and the row if it is         *)
(* selected.                                                               *)
LEMMA SelectionOfMore ==
  ASSUME NEW a \in Seq(MasterRow), NEW r \in MasterRow, NEW filter
  PROVE  Selection(Append(a, r), filter) =
           IF Selected(r, filter) THEN Inserted(Selection(a, filter), r)
           ELSE Selection(a, filter)
<1> DEFINE b == Append(a, r)
           m == Len(a) + 1
           old == Selection(a, filter)
           new == Selection(b, filter)
<1>1. /\ b \in Seq(MasterRow) /\ Len(a) \in Nat /\ DOMAIN a = 1 .. Len(a)
      /\ DOMAIN b = 1 .. m /\ b[m] = r /\ \A i \in 1 .. Len(a) : b[i] = a[i]
  BY AppendProperties, LenProperties
<1>2. /\ old = [t \in filter \cup Names(a, filter) |-> old[t]]
      /\ \A t, i : Latest(a, filter, t, i) => t \in Names(a, filter) /\ old[t] = a[i]
      /\ \A t \in Names(a, filter) : \E i : Latest(a, filter, t, i)
      /\ \A t \in filter \ Names(a, filter) : old[t] = Unknown
  BY SelectionIs
<1>3. /\ new = [t \in filter \cup Names(b, filter) |-> new[t]]
      /\ \A t, i : Latest(b, filter, t, i) => t \in Names(b, filter) /\ new[t] = b[i]
      /\ \A t \in filter \ Names(b, filter) : new[t] = Unknown
  <2>1. b \in Seq(MasterRow)
    BY <1>1
  <2> HIDE DEF b
  <2> QED
    BY <2>1, SelectionIs
<1> HIDE DEF b, old, new
<1>4. /\ m \in DOMAIN b /\ \A j \in DOMAIN b : j = m \/ j \in DOMAIN a
      /\ \A j \in DOMAIN a : j \in DOMAIN b /\ j # m /\ j <= m
  BY <1>1
<1>5. Names(b, filter) = IF Selected(r, filter) THEN Names(a, filter) \cup {r.name}
                         ELSE Names(a, filter)
  BY <1>1, <1>4 DEF Names
<1>6. Selected(r, filter) => Latest(b, filter, r.name, m)
  <2>1. m <= m
    BY <1>1
  <2> QED
    BY <1>1, <1>4, <2>1 DEF Latest
<1>7. ASSUME NEW t, NEW i, Latest(a, filter, t, i), ~ (Selected(r, filter) /\ t = r.name)
      PROVE  Latest(b, filter, t, i) /\ b[i] = a[i]
  <2>1. i \in DOMAIN a /\ b[i] = a[i]
    BY <1>1, <1>7 DEF Latest
  <2>2. ASSUME NEW j \in DOMAIN b, Selected(b[j], filter), b[j].name = t
        PROVE  j <= i
    <3>1. j # m
      BY <1>1, <1>7, <2>2
    <3>2. j \in DOMAIN a /\ b[j] = a[j]
      BY <1>1, <1>4, <3>1
    <3> QED
      BY <1>7, <2>2, <3>2 DEF Latest
  <2> QED
    BY <1>4, <1>7, <2>1, <2>2 DEF Latest
<1>8. ASSUME NEW t \in filter \cup Names(a, filter), ~ (Selected(r, filter) /\ t = r.name)
      PROVE  new[t] = old[t]
  <2>1. CASE t \in Names(a, filter)
    <3>1. PICK i : Latest(a, filter, t, i)
      BY <1>2, <2>1
    <3>2. Latest(b, filter, t, i) /\ b[i] = a[i]
      BY <1>7, <1>8, <3>1
    <3>3. new[t] = b[i]
      BY <1>3, <3>2
    <3>4. old[t] = a[i]
      BY <1>2, <3>1
    <3> QED
      BY <3>2, <3>3, <3>4
  <2>2. CASE t \notin Names(a, filter)
    BY <1>2, <1>3, <1>5, <1>8, <2>2
  <2> QED
    BY <2>1, <2>2
<1>9. CASE Selected(r, filter)
  <2>1. DOMAIN old = filter \cup Names(a, filter)
    BY <1>2
  <2>2. new[r.name] = r
    BY <1>1, <1>3, <1>6, <1>9
  <2>3. Inserted(old, r) = [t \in filter \cup Names(b, filter) |->
                              IF t = r.name THEN r ELSE old[t]]
    BY <1>5, <1>9, <2>1 DEF Inserted
  <2>4. \A t \in filter \cup Names(b, filter) :
          new[t] = IF t = r.name THEN r ELSE old[t]
    BY <1>5, <1>8, <1>9, <2>2
  <2>5. new = [t \in filter \cup Names(b, filter) |-> IF t = r.name THEN r ELSE old[t]]
    BY <1>3, <2>4
  <2> QED
    BY <1>9, <2>3, <2>5 DEF new, old, b
<1>10. CASE ~ Selected(r, filter)
  <2>1. \A t \in filter \cup Names(a, filter) : new[t] = old[t]
    BY <1>8, <1>10
  <2>2. new = [t \in filter \cup Names(a, filter) |-> old[t]]
    BY <1>3, <1>5, <1>10, <2>1
  <2> QED
    BY <1>2, <1>10, <2>2 DEF new, old, b
<1> QED
  BY <1>9, <1>10

-----------------------------------------------------------------------------
(* The strengthening: how much of the rows a save has handed on, what that *)
(* makes of the file, and which rows of the file a load has in its map.    *)

(* The stream of save s, two units for each row and one that ends it.      *)
SaveRows(s) ==
  /\ s.at # "idle" => s.src \in Schemas /\ s.key \in Keys
  /\ s.placed => s.at \in {"header", "close", "returned"}
  /\ s.rc # "OK" => s.at \in {"bail", "returned"}
  /\ s.at \in {"open", "prepare", "dummy", "row"} =>
       /\ s.i - 1 <= Len(s.src) /\ s.rows = SavedTo(s.src)[s.i - 1]
       /\ s.units = 2 * Len(s.rows)
  /\ s.at = "sql" =>
       /\ s.i <= Len(s.src) /\ s.rows = SavedTo(s.src)[s.i]
       /\ s.units = 2 * Len(s.rows) - 1
  /\ s.at \in {"salt", "seek", "header", "close"} =>
       s.rows = SavedRows(s.src) /\ s.units = 2 * Len(s.rows) + 1

(* The file f of save s: its header is real only when it has all of the    *)
(* stream, and the end of the buffer no other header then.                 *)
SaveFile(s, f) ==
  /\ s.at \in Inside \cup {"bail"} => f.head \in {"empty", "dummy"}
  /\ s.at = "close" =>
       /\ f.head # "absent"
       /\ f.head = "real" => s.placed /\ s.top = "none" /\ f.n = s.units
       /\ s.top = "real" => s.placed

IsLoad(l) ==
  /\ \E S : l \in [at : S, path : S, key : S, filter : S, left : S, pos : S,
                   avail : S, next : S, total : S, eof : S, got : S, rc : S]
  /\ l.left \in Int /\ l.pos \in Int /\ l.avail \in Nat

(* Load l has read j rows of file f.                                       *)
HasRead(l, f, j) ==
  /\ l.left = f.count - j /\ l.left >= 0
  /\ l.got = Selection(SubSeq(f.rows, 1, j), l.filter)
  /\ l.pos <= f.n
  /\ l.at = "entity" => l.pos - l.avail = 2 * j
  /\ l.at = "strings" => l.pos - l.avail = 2 * j + 1 /\ l.left > 0
  /\ j > 0 \/ l.at = "strings" => l.key = f.key

LoadRows(l, f) ==
  /\ l.at # "idle" => l.path \in Paths /\ l.key \in Keys /\ l.filter \in Filters
  /\ l.at # "returned" => l.rc = "OK"
  /\ l.at \in {"open", "header"} =>
       l.pos = 0 /\ l.avail = 0 /\ l.got = [t \in l.filter |-> Unknown]
  /\ l.at \in {"entity", "strings"} =>
       f.head = "real" /\ \E j \in Nat : HasRead(l, f, j)

IStore ==
  /\ save.at = "idle" \/ load.at = "idle"
  /\ SaveRows(save) /\ SaveFile(save, files[save.path])
  /\ IsLoad(load) /\ LoadRows(load, files[load.path])
  /\ \A c \in sealed : \E s \in Schemas, k \in Keys :
       c = [rows |-> SavedRows(s), key |-> k]

(* A file with a real header has a stream, if perhaps none of it.          *)
Sized == \A p \in Paths : files[p].head = "real" => files[p].n >= 0

(* A step of a save that writes the file at most at its own path.          *)
Continues ==
  /\ UNCHANGED load /\ save'.at \in Inside \cup {"bail", "close"}
  /\ save'.path = save.path /\ save'.src = save.src /\ save'.key = save.key
  /\ \A p \in Paths : p # save.path => files'[p] = files[p]

LEMMA SaveIs ==
  ASSUME IMaster, IStore, save.at # "idle"
  PROVE  /\ save \in SaveRec /\ save.path \in Paths
         /\ files \in [Paths -> FileRec] /\ files[save.path] \in FileRec /\ FilesKept
         /\ SaveRows(save) /\ SaveFile(save, files[save.path])
         /\ load.at = "idle" /\ save.key \in Keys
         /\ save.src \in Schemas /\ save.src \in Seq(MasterRow) /\ Len(save.src) \in Nat
         /\ save.at # "close" => save.top # "real"
<1>1. /\ save \in SaveRec /\ save.path \in Paths /\ files \in [Paths -> FileRec]
      /\ FilesKept /\ (save.at # "close" => save.top # "real")
  BY DEF IMaster, Typed, Writing
<1>2. /\ SaveRows(save) /\ SaveFile(save, files[save.path]) /\ load.at = "idle"
  BY DEF IStore
<1>3. save.src \in Schemas /\ save.key \in Keys
  BY <1>2 DEF SaveRows
<1>4. save.src \in Seq(MasterRow)
  BY <1>3, MasterRowsAssumption
<1> QED
  BY <1>1, <1>2, <1>3, <1>4, LenProperties

(* A step of a save leaves the load alone.                                 *)
LEMMA SaveKeeps ==
  ASSUME IStore, load.at = "idle", UNCHANGED load,
         SaveRows(save'), SaveFile(save', files'[save'.path]),
         \A c \in sealed' \ sealed : \E s \in Schemas, k \in Keys :
           c = [rows |-> SavedRows(s), key |-> k]
  PROVE  IStore'
<1>1. LoadRows(load, files'[load.path])
  BY DEF IStore, LoadRows
<1> QED
  BY <1>1 DEF IStore

(* The buffer's header is no part of what SaveRows says.                   *)
LEMMA RowsOfTop ==
  ASSUME NEW s \in SaveRec, SaveRows(s)
  PROVE  SaveRows([s EXCEPT !.top = "none"])
<1> DEFINE u == [s EXCEPT !.top = "none"]
<1>1. /\ u.at = s.at /\ u.src = s.src /\ u.key = s.key /\ u.placed = s.placed
      /\ u.rc = s.rc /\ u.i = s.i /\ u.rows = s.rows /\ u.units = s.units
  BY DEF SaveRec
<1> HIDE DEF u
<1>2. SaveRows(u)
  BY <1>1 DEF SaveRows
<1> QED
  BY <1>2 DEF u

LEMMA FwriteFile ==
  ASSUME IMaster, IStore, save.at \in Inside, NEW s \in SaveRec, s.path = save.path,
         Fwrite(s), s.at \in {"row", "sql", "salt", "close"},
         s.top = "real" => s.at = "close" /\ s.placed
  PROVE  /\ save' = s \/ save' = [s EXCEPT !.top = "none"]
         /\ save'.path = save.path /\ SaveFile(save', files'[save.path])
<1> DEFINE f == files[save.path]
<1>1. /\ save.path \in Paths /\ files \in [Paths -> FileRec] /\ f \in FileRec
      /\ f.head \in {"empty", "dummy"}
  BY SaveIs DEF SaveFile, Inside
<1>2. CASE save' = s /\ UNCHANGED files
  <2>1. files'[save.path] = f
    BY <1>2
  <2> HIDE DEF f
  <2> QED
    BY <1>1, <1>2, <2>1 DEF SaveFile
<1>3. CASE save' = [s EXCEPT !.top = "none"] /\ InFile(save.path, Flushed(f, s))
  <2>1. /\ save'.at = s.at /\ save'.path = s.path /\ save'.top = "none"
        /\ save'.placed = s.placed /\ save'.units = s.units
    BY <1>3 DEF SaveRec
  <2>2. files'[save.path] = Flushed(f, s)
    BY <1>1, <1>3 DEF InFile
  <2>3. /\ Flushed(f, s).head = IF s.top = "none" THEN f.head ELSE s.top
        /\ Flushed(f, s).n = s.units
    <3>1. Flushed(f, s).n = s.units
      BY <1>1 DEF Flushed, FileRec
    <3> QED
      BY <1>1, <3>1, FlushedIs
  <2>4. s.top \in {"none", "dummy", "real"}
    BY DEF SaveRec
  <2> DEFINE g == files'[save.path]
             h == Flushed(f, s)
  <2>5. g = h /\ h.head = (IF s.top = "none" THEN f.head ELSE s.top) /\ h.n = s.units
    BY <2>2, <2>3
  <2>6. save'.path = save.path
    BY <2>1
  <2> HIDE DEF f, g, h
  <2>7. g.head \in {"empty", "dummy"} \/ (g.head = "real" /\ s.top = "real")
    BY <1>1, <2>4, <2>5
  <2>8. SaveFile(save', g)
    BY <2>1, <2>5, <2>7 DEF SaveFile, Inside
  <2> QED
    BY <1>3, <2>6, <2>8 DEF g, f
<1> QED
  BY <1>2, <1>3 DEF Fwrite

(* A part of the buffer reaches the file, before the header is written.    *)
LEMMA PartlyFile ==
  ASSUME IMaster, IStore, save.at \in Inside,
         NEW g \in Partly(files[save.path], save), InFile(save.path, g)
  PROVE  files'[save.path].head \in {"empty", "dummy"}
<1>1. /\ save.path \in Paths /\ files \in [Paths -> FileRec] /\ save \in SaveRec
      /\ files[save.path] \in FileRec /\ files[save.path].head \in {"empty", "dummy"}
      /\ save.top # "real"
  BY SaveIs DEF SaveFile, Inside
<1>2. \/ g = files[save.path]
      \/ g.head = IF save.top = "none" THEN files[save.path].head ELSE save.top
  BY <1>1, PartlyIs
<1>3. files'[save.path] = g
  BY <1>1 DEF InFile
<1>4. save.top \in {"none", "dummy", "real"}
  BY <1>1 DEF SaveRec
<1> QED
  BY <1>1, <1>2, <1>3, <1>4

-----------------------------------------------------------------------------
(* The steps of a save keep it.                                            *)

LEMMA BeginStores ==
  ASSUME IMaster, IStore, NEW p \in Paths, NEW k \in Keys, NEW s \in Schemas,
         SaveBegin(p, k, s)
  PROVE  IStore'
<1>1. s \in Seq(MasterRow)
  BY MasterRowsAssumption
<1>2. save' = [NoSave EXCEPT !.at = "open", !.path = p, !.key = k, !.src = s]
      /\ UNCHANGED <<files, load, sealed>> /\ load.at = "idle"
  BY DEF SaveBegin, Idle
<1>3. /\ save'.at = "open" /\ save'.src = s /\ save'.key = k /\ save'.i = 1
      /\ save'.rows = <<>> /\ save'.units = 0 /\ save'.placed = FALSE /\ save'.rc = "OK"
  BY <1>2 DEF NoSave
<1>4. SavedTo(s)[0] = <<>> /\ Len(s) \in Nat
  BY <1>1, SavedToIs, LenProperties
<1>5. SaveRows(save')
  <2>1. Len(<<>>) = 0 /\ 1 - 1 = 0 /\ 0 <= Len(s)
    BY <1>4
  <2> QED
    BY <1>3, <1>4, <2>1 DEF SaveRows
<1>6. SaveFile(save', files'[save'.path])
  BY <1>3 DEF SaveFile, Inside
<1> QED
  BY <1>2, <1>5, <1>6, SaveKeeps

(* Steps that write no row.                                                *)
LEMMA MovesRows ==
  ASSUME NEW s \in SaveRec, SaveRows(s), NEW t \in SaveRec,
         t.src = s.src, t.key = s.key, t.i = s.i, t.rows = s.rows, t.units = s.units,
         \/ s.at = "open" /\ t.at = "prepare" /\ t.placed = s.placed /\ t.rc = s.rc
         \/ s.at = "prepare" /\ t.at = "dummy" /\ t.placed = s.placed /\ t.rc = s.rc
         \/ s.at = "dummy" /\ t.at = "row" /\ t.placed = s.placed /\ t.rc = s.rc
         \/ s.at = "salt" /\ t.at = "seek" /\ t.placed = s.placed /\ t.rc = s.rc
         \/ s.at = "seek" /\ t.at = "header" /\ t.rc = s.rc
         \/ s.at = "header" /\ t.at = "close" /\ t.placed = s.placed /\ t.rc = s.rc
         \/ s.at # "idle" /\ t.at = "bail" /\ ~ t.placed
         \/ s.at # "idle" /\ t.at = "returned"
  PROVE  SaveRows(t)
BY DEF SaveRows

LEMMA QuietStores ==
  ASSUME IMaster, IMaster', IStore, Prepare \/ ReadSalt \/ HeaderFails
  PROVE  IStore' /\ Continues
<1>1. /\ save.at \in Inside /\ UNCHANGED <<files, load, sealed>>
      /\ \/ save.at = "prepare" /\ save' = [save EXCEPT !.at = "dummy"]
         \/ save.at = "salt" /\ save' = [save EXCEPT !.at = "seek"]
         \/ save.at = "header" /\ save' = [save EXCEPT !.at = "close"]
  BY DEF Prepare, ReadSalt, HeaderFails, SaveAt, Inside
<1>2. /\ save \in SaveRec /\ SaveRows(save) /\ load.at = "idle" /\ save.top # "real"
      /\ files[save.path].head \in {"empty", "dummy"}
  BY <1>1, SaveIs DEF SaveFile, Inside
<1>3. /\ save' \in SaveRec /\ save'.path = save.path /\ save'.src = save.src
      /\ save'.key = save.key /\ save'.i = save.i /\ save'.rows = save.rows
      /\ save'.units = save.units /\ save'.placed = save.placed /\ save'.rc = save.rc
      /\ save'.top = save.top
      /\ \/ save.at = "prepare" /\ save'.at = "dummy"
         \/ save.at = "salt" /\ save'.at = "seek"
         \/ save.at = "header" /\ save'.at = "close"
  <2>1. save' \in SaveRec
    BY DEF IMaster, Typed
  <2> QED
    BY <1>1, <1>2, <2>1 DEF SaveRec
<1>4. SaveRows(save')
  BY <1>2, <1>3, MovesRows
<1>5. SaveFile(save', files'[save'.path])
  BY <1>1, <1>2, <1>3 DEF SaveFile
<1>6. Continues
  BY <1>1, <1>3 DEF Continues, Inside
<1> QED
  BY <1>1, <1>2, <1>4, <1>5, <1>6, SaveKeeps

LEMMA SkipStores == 
  ASSUME IMaster, IMaster', IStore, SkipRow
  PROVE  IStore' /\ Continues
<1>1. /\ save.at = "row" /\ UNCHANGED <<files, load, sealed>> /\ save.at \in Inside
      /\ save.i <= Len(save.src) /\ ~ Saved(save.src[save.i])
      /\ save' = [save EXCEPT !.i = @ + 1]
  BY DEF SkipRow, SaveAt, Inside, HasRow, Row
<1>2. /\ save \in SaveRec /\ SaveRows(save) /\ load.at = "idle"
      /\ save.src \in Seq(MasterRow) /\ Len(save.src) \in Nat
      /\ files[save.path].head \in {"empty", "dummy"}
  BY <1>1, SaveIs DEF SaveFile, Inside
<1>3. save.i \in Nat \ {0} /\ save.i \in 1 .. Len(save.src)
  BY <1>1, <1>2 DEF SaveRec
<1>4. SavedTo(save.src)[save.i] = SavedTo(save.src)[save.i - 1]
  BY <1>1, <1>2, <1>3, SavedToIs
<1>5. PICK j \in Nat : j = save.i + 1 /\ j - 1 = save.i
  BY <1>3
<1>6. /\ save'.at = "row" /\ save'.path = save.path /\ save'.src = save.src
      /\ save'.key = save.key /\ save'.i = j /\ save'.rows = save.rows
      /\ save'.units = save.units /\ save'.placed = save.placed /\ save'.rc = save.rc
  BY <1>1, <1>2, <1>5 DEF SaveRec
<1>7. SaveRows(save')
  BY <1>1, <1>2, <1>4, <1>5, <1>6 DEF SaveRows
<1>8. SaveFile(save', files'[save'.path])
  BY <1>1, <1>2, <1>6 DEF SaveFile
<1>9. Continues
  BY <1>1, <1>6 DEF Continues, Inside
<1> QED
  BY <1>1, <1>2, <1>7, <1>8, <1>9, SaveKeeps

LEMMA BailStores ==
  ASSUME IMaster, IMaster', IStore, SqlFails \/ LongRow \/ FwriteFails
  PROVE  IStore' /\ Continues
<1>1. /\ save.at \in Inside \ {"header"} /\ UNCHANGED <<load, sealed>>
      /\ \E rc \in {"ERROR", "ROW", "OK", "STREAM_END"} : Bail(rc)
  <2>1. CASE SqlFails
    BY <2>1 DEF SqlFails, SaveAt, Inside
  <2>2. CASE LongRow
    BY <2>2 DEF LongRow, SaveAt, Inside
  <2>3. CASE FwriteFails
    BY <2>3 DEF FwriteFails, SaveAt, Inside
  <2> QED
    BY <2>1, <2>2, <2>3
<1>2. /\ save \in SaveRec /\ SaveRows(save) /\ load.at = "idle"
      /\ files[save.path].head \in {"empty", "dummy"}
  BY <1>1, SaveIs DEF SaveFile, Inside
<1>3. /\ save' \in SaveRec /\ save'.at = "bail" /\ save'.path = save.path
      /\ save'.src = save.src /\ save'.key = save.key /\ save'.i = save.i
      /\ save'.rows = save.rows /\ save'.units = save.units
      /\ save'.placed = save.placed
  <2>1. save' \in SaveRec
    BY DEF IMaster, Typed
  <2>2. PICK rc \in {"ERROR", "ROW", "OK", "STREAM_END"} : Bail(rc)
    BY <1>1
  <2> QED
    BY <1>2, <2>1, <2>2 DEF SaveRec, Bail
<1>4. ~ save.placed
  BY <1>1, <1>2 DEF SaveRows, Inside
<1>5. SaveRows(save')
  BY <1>1, <1>2, <1>3, <1>4, MovesRows DEF Inside
<1>6. files'[save.path].head \in {"empty", "dummy"}
  <2>1. CASE UNCHANGED files
    BY <1>2, <2>1
  <2>2. CASE FwriteFails
    <3>1. PICK g \in Partly(files[save.path], save) : InFile(save.path, g)
      BY <2>2 DEF FwriteFails
    <3> QED
      BY <1>1, <3>1, PartlyFile
  <2> QED
    BY <2>1, <2>2 DEF SqlFails, LongRow
<1>7. SaveFile(save', files'[save'.path])
  BY <1>3, <1>6 DEF SaveFile
<1>8. \A p \in Paths : p # save.path => files'[p] = files[p]
  <2>1. files \in [Paths -> FileRec]
    BY DEF IMaster, Typed
  <2> QED
    BY <2>1 DEF SqlFails, LongRow, FwriteFails, InFile
<1> QED
  BY <1>1, <1>2, <1>3, <1>5, <1>7, <1>8, SaveKeeps DEF Continues

(* The call opens its file, or returns before it has.                      *)
LEMMA OpenStores ==
  ASSUME IMaster, IMaster', IStore, SaveOpen \/ DeflateFails \/ SaveOpenFails
  PROVE  IStore'
<1>1. save.at = "open" /\ UNCHANGED <<load, sealed>>
  BY DEF SaveOpen, DeflateFails, SaveOpenFails, SaveAt
<1>2. /\ save \in SaveRec /\ SaveRows(save) /\ load.at = "idle"
      /\ files \in [Paths -> FileRec] /\ save.path \in Paths
  BY <1>1, SaveIs
<1>3. save' \in SaveRec
  BY DEF IMaster, Typed
<1>4. /\ save'.path = save.path /\ save'.src = save.src
      /\ save'.key = save.key /\ save'.i = save.i /\ save'.rows = save.rows
      /\ save'.units = save.units /\ save'.placed = save.placed
      /\ \/ save'.at = "prepare" /\ save'.rc = save.rc /\ files'[save.path] = Empty
         \/ save'.at = "returned"
  <2>1. CASE SaveOpen
    <3>1. files'[save.path] = Empty
      BY <1>2, <2>1 DEF SaveOpen, InFile
    <3> QED
      BY <1>2, <2>1, <3>1 DEF SaveOpen, SaveRec
  <2>2. CASE DeflateFails
    BY <1>2, <2>2 DEF DeflateFails, SaveRec
  <2>3. CASE SaveOpenFails
    BY <1>2, <2>3 DEF SaveOpenFails, SaveRec
  <2> QED
    BY <2>1, <2>2, <2>3
<1>5. SaveRows(save')
  BY <1>1, <1>2, <1>3, <1>4, MovesRows
<1>6. SaveFile(save', files'[save'.path])
  BY <1>4, EmptyIs DEF SaveFile, Inside
<1> QED
  BY <1>1, <1>2, <1>5, <1>6, SaveKeeps

LEMMA SeekStores ==
  ASSUME IMaster, IMaster', IStore, Seek \/ SeekFails
  PROVE  IStore' /\ Continues
<1>1. save.at = "seek" /\ save.at \in Inside /\ UNCHANGED <<load, sealed>>
  BY DEF Seek, SeekFails, SaveAt, Inside
<1>2. /\ save \in SaveRec /\ SaveRows(save) /\ load.at = "idle"
      /\ files \in [Paths -> FileRec] /\ save.path \in Paths /\ save.top # "real"
      /\ files[save.path] \in FileRec /\ files[save.path].head \in {"empty", "dummy"}
  BY <1>1, SaveIs DEF SaveFile
<1>3. /\ save' \in SaveRec /\ save'.path = save.path /\ save'.src = save.src
      /\ save'.key = save.key /\ save'.i = save.i /\ save'.rows = save.rows
      /\ save'.units = save.units /\ save'.at = "header" /\ save'.rc = save.rc
  <2>1. save' \in SaveRec
    BY DEF IMaster, Typed
  <2>2. CASE Seek
    BY <1>2, <2>1, <2>2 DEF SaveRec, Seek
  <2>3. CASE SeekFails
    BY <1>2, <2>1, <2>3 DEF SaveRec, SeekFails
  <2> QED
    BY <2>2, <2>3
<1>4. SaveRows(save')
  BY <1>1, <1>2, <1>3, MovesRows
<1>5. files'[save.path].head \in {"empty", "dummy"}
  <2>1. CASE SeekFails
    <3>1. PICK g \in Partly(files[save.path], save) : InFile(save.path, g)
      BY <2>1 DEF SeekFails
    <3> QED
      BY <1>1, <3>1, PartlyFile
  <2>2. CASE Seek
    <3>1. files'[save.path] = Flushed(files[save.path], save)
      BY <1>2, <2>2 DEF Seek, InFile
    <3>2. Flushed(files[save.path], save).head =
            IF save.top = "none" THEN files[save.path].head ELSE save.top
      BY <1>2, FlushedIs
    <3>3. save.top \in {"none", "dummy", "real"}
      BY <1>2 DEF SaveRec
    <3> QED
      BY <1>2, <3>1, <3>2, <3>3
  <2> QED
    BY <2>1, <2>2
<1>6. SaveFile(save', files'[save'.path])
  BY <1>3, <1>5 DEF SaveFile
<1>7. \A p \in Paths : p # save.path => files'[p] = files[p]
  BY <1>2 DEF Seek, SeekFails, InFile
<1>8. Continues
  BY <1>1, <1>3, <1>7 DEF Continues, Inside
<1> QED
  BY <1>1, <1>2, <1>4, <1>6, <1>8, SaveKeeps

(* What is handed to fwrite is what SaveRows says.                         *)
LEMMA FwriteStores ==
  ASSUME IMaster, IMaster', IStore, save.at \in Inside, NEW s \in SaveRec,
         s.path = save.path, Fwrite(s), s.at \in {"row", "sql", "salt", "close"},
         s.top = "real" => s.at = "close" /\ s.placed,
         s.src = save.src, s.key = save.key, SaveRows(s), UNCHANGED load,
         \A c \in sealed' \ sealed : \E z \in Schemas, k \in Keys :
           c = [rows |-> SavedRows(z), key |-> k]
  PROVE  IStore' /\ Continues
<1>1. /\ save' = s \/ save' = [s EXCEPT !.top = "none"]
      /\ save'.path = save.path /\ SaveFile(save', files'[save.path])
  BY FwriteFile
<1>2. SaveRows(save')
  BY <1>1, RowsOfTop
<1>3. load.at = "idle"
  BY SaveIs DEF Inside
<1>4. \A p \in Paths : p # save.path => files'[p] = files[p]
  <2>1. files \in [Paths -> FileRec]
    BY DEF IMaster, Typed
  <2> QED
    BY <2>1 DEF Fwrite, InFile
<1>5. save'.at = s.at /\ save'.src = s.src /\ save'.key = s.key
  BY <1>1 DEF SaveRec
<1>6. Continues
  BY <1>1, <1>4, <1>5 DEF Continues, Inside
<1> QED
  BY <1>1, <1>2, <1>3, <1>6, SaveKeeps

LEMMA EntryStores == 
  ASSUME IMaster, IMaster', IStore, WriteEntry
  PROVE  IStore' /\ Continues
<1>1. /\ save.at = "row" /\ save.at \in Inside /\ UNCHANGED <<load, sealed>>
      /\ save.i <= Len(save.src) /\ Saved(save.src[save.i])
  BY DEF WriteEntry, SaveAt, Inside, Entry, HasRow, Row
<1>2. /\ save \in SaveRec /\ SaveRows(save) /\ save.top # "real"
      /\ save.src \in Seq(MasterRow) /\ Len(save.src) \in Nat
  BY <1>1, SaveIs
<1>3. save.i \in 1 .. Len(save.src) /\ save.rows \in Seq(MasterRow) /\ save.units \in Int
  BY <1>1, <1>2 DEF SaveRec
<1>4. save.src[save.i] \in MasterRow
  BY <1>2, <1>3, ElementOfSeq
<1>5. PICK r \in Seq(MasterRow) :
        r = Append(save.rows, save.src[save.i]) /\ Len(r) = Len(save.rows) + 1
  <2>1. /\ Append(save.rows, save.src[save.i]) \in Seq(MasterRow)
        /\ Len(Append(save.rows, save.src[save.i])) = Len(save.rows) + 1
    BY <1>3, <1>4, AppendProperties
  <2> QED
    BY <2>1
<1>6. r = SavedTo(save.src)[save.i]
  <2>1. save.rows = SavedTo(save.src)[save.i - 1]
    BY <1>1, <1>2 DEF SaveRows
  <2>2. SavedTo(save.src)[save.i] =
          Append(SavedTo(save.src)[save.i - 1], save.src[save.i])
    BY <1>1, <1>2, <1>3, SavedToIs
  <2> QED
    BY <1>5, <2>1, <2>2
<1>7. PICK u \in Int : u = save.units + 1
  BY <1>3
<1>8. u = 2 * Len(r) - 1
  <2>1. save.units = 2 * Len(save.rows) /\ Len(save.rows) \in Nat
    BY <1>1, <1>2, <1>3, LenProperties DEF SaveRows
  <2> QED
    BY <1>5, <1>7, <2>1
<1> DEFINE s == [save EXCEPT !.at = "sql", !.rows = r, !.units = u]
<1>9. /\ s \in SaveRec /\ s.path = save.path /\ s.at = "sql" /\ s.top = save.top
      /\ s.src = save.src /\ s.key = save.key /\ s.i = save.i /\ s.rows = r
      /\ s.units = u /\ s.placed = save.placed /\ s.rc = save.rc
  BY <1>2 DEF SaveRec, SavesAt
<1>10. Fwrite(s)
  BY <1>5, <1>7 DEF WriteEntry, Row
<1> HIDE DEF s
<1>11. SaveRows(s)
  BY <1>1, <1>2, <1>6, <1>8, <1>9 DEF SaveRows
<1> QED
  BY <1>1, <1>2, <1>9, <1>10, <1>11, FwriteStores

LEMMA SqlStores == 
  ASSUME IMaster, IMaster', IStore, WriteSql
  PROVE  IStore' /\ Continues
<1>1. /\ save.at = "sql" /\ save.at \in Inside /\ UNCHANGED <<load, sealed>>
  BY DEF WriteSql, SaveAt, Inside
<1>2. /\ save \in SaveRec /\ SaveRows(save) /\ save.top # "real"
      /\ save.src \in Seq(MasterRow) /\ Len(save.src) \in Nat
  BY <1>1, SaveIs
<1>3. /\ save.i \in Nat \ {0} /\ save.rows \in Seq(MasterRow) /\ save.units \in Int
      /\ save.entities \in Int
  BY <1>2 DEF SaveRec
<1>4. PICK u \in Int : u = save.units + 1
  BY <1>3
<1>5. PICK j \in Nat \ {0} : j = save.i + 1 /\ j - 1 = save.i
  BY <1>3
<1>6. PICK e \in Int : e = save.entities + 1
  BY <1>3
<1>7. u = 2 * Len(save.rows)
  <2>1. save.units = 2 * Len(save.rows) - 1 /\ Len(save.rows) \in Nat
    BY <1>1, <1>2, <1>3, LenProperties DEF SaveRows
  <2> QED
    BY <1>4, <2>1
<1> DEFINE s == [save EXCEPT !.at = "row", !.units = u, !.i = j, !.entities = e]
<1>8. /\ s \in SaveRec /\ s.path = save.path /\ s.at = "row" /\ s.top = save.top
      /\ s.src = save.src /\ s.key = save.key /\ s.i = j /\ s.rows = save.rows
      /\ s.units = u /\ s.placed = save.placed /\ s.rc = save.rc
  BY <1>2 DEF SaveRec, SavesAt
<1>9. Fwrite(s)
  BY <1>4, <1>5, <1>6 DEF WriteSql
<1> HIDE DEF s
<1>10. SaveRows(s)
  BY <1>1, <1>2, <1>5, <1>7, <1>8 DEF SaveRows
<1> QED
  BY <1>1, <1>2, <1>8, <1>9, <1>10, FwriteStores

LEMMA FinishStores == 
  ASSUME IMaster, IMaster', IStore, FinishStream
  PROVE  IStore' /\ Continues
<1>1. /\ save.at = "row" /\ save.at \in Inside /\ UNCHANGED <<load, sealed>>
      /\ ~ (save.i <= Len(save.src))
  BY DEF FinishStream, SaveAt, Inside, HasRow
<1>2. /\ save \in SaveRec /\ SaveRows(save) /\ save.top # "real"
      /\ Len(save.src) \in Nat
  BY <1>1, SaveIs
<1>3. /\ save.i \in Nat \ {0} /\ save.rows \in Seq(MasterRow) /\ save.units \in Int
  BY <1>2 DEF SaveRec
<1>4. PICK u \in Int : u = save.units + 1
  BY <1>3
<1>5. save.i - 1 = Len(save.src)
  BY <1>1, <1>2, <1>3 DEF SaveRows
<1>6. save.rows = SavedRows(save.src) /\ u = 2 * Len(save.rows) + 1
  BY <1>1, <1>2, <1>4, <1>5 DEF SaveRows, SavedRows
<1> DEFINE s == [save EXCEPT !.at = "salt", !.units = u]
<1>7. /\ s \in SaveRec /\ s.path = save.path /\ s.at = "salt" /\ s.top = save.top
      /\ s.src = save.src /\ s.key = save.key /\ s.rows = save.rows
      /\ s.units = u /\ s.placed = save.placed /\ s.rc = save.rc
  BY <1>2 DEF SaveRec, SavesAt
<1>8. Fwrite(s)
  BY <1>4 DEF FinishStream
<1> HIDE DEF s
<1>9. SaveRows(s)
  BY <1>1, <1>2, <1>6, <1>7 DEF SaveRows
<1> QED
  BY <1>1, <1>2, <1>7, <1>8, <1>9, FwriteStores

LEMMA HeaderStores ==
  ASSUME IMaster, IMaster', IStore, WriteDummy \/ WriteHeader
  PROVE  IStore' /\ Continues
<1>1. /\ \/ save.at = "dummy" /\ UNCHANGED sealed
         \/ /\ save.at = "header"
            /\ sealed' = sealed \cup {[rows |-> save.rows, key |-> save.key]}
      /\ save.at \in Inside /\ UNCHANGED load
  BY DEF WriteDummy, WriteHeader, SaveAt, Inside
<1>2. /\ save \in SaveRec /\ SaveRows(save) /\ save.top # "real"
      /\ save.src \in Schemas /\ save.key \in Keys
  BY <1>1, SaveIs
<1>3. \A c \in sealed' \ sealed : \E z \in Schemas, k \in Keys :
        c = [rows |-> SavedRows(z), key |-> k]
  <2>1. save.at = "header" => save.rows = SavedRows(save.src)
    BY <1>2 DEF SaveRows
  <2> QED
    BY <1>1, <1>2, <2>1
<1>4. CASE WriteDummy
  <2> DEFINE s == [save EXCEPT !.at = "row", !.top = "dummy"]
  <2>1. /\ s \in SaveRec /\ s.path = save.path /\ s.at = "row" /\ s.top = "dummy"
        /\ s.src = save.src /\ s.key = save.key /\ s.rows = save.rows /\ s.i = save.i
        /\ s.units = save.units /\ s.placed = save.placed /\ s.rc = save.rc
    BY <1>2 DEF SaveRec, SavesAt
  <2>2. Fwrite(s) /\ save.at = "dummy"
    BY <1>4 DEF WriteDummy, SaveAt
  <2> HIDE DEF s
  <2>3. SaveRows(s)
    BY <1>2, <2>1, <2>2, MovesRows
  <2> QED
    BY <1>1, <1>3, <2>1, <2>2, <2>3, FwriteStores
<1>5. CASE WriteHeader
  <2>1. save.at = "header"
    BY <1>5 DEF WriteHeader
  <2>2. PICK t \in {"none", "dummy", "real"} :
          t = IF save.placed THEN "real" ELSE save.top
    BY <1>2 DEF SaveRec
  <2> DEFINE s == [save EXCEPT !.at = "close", !.top = t]
  <2>3. /\ s \in SaveRec /\ s.path = save.path /\ s.at = "close" /\ s.top = t
        /\ s.src = save.src /\ s.key = save.key /\ s.rows = save.rows /\ s.i = save.i
        /\ s.units = save.units /\ s.placed = save.placed /\ s.rc = save.rc
    BY <1>2 DEF SaveRec, SavesAt
  <2>4. Fwrite(s)
    <3>1. s = [save EXCEPT !.at = "close", !.top = IF save.placed THEN "real" ELSE @]
      BY <1>2, <2>2 DEF SaveRec
    <3> QED
      BY <1>5, <3>1 DEF WriteHeader
  <2> HIDE DEF s
  <2>5. SaveRows(s)
    BY <1>2, <2>1, <2>3, MovesRows
  <2>6. t = "real" => s.placed
    BY <1>2, <2>2, <2>3
  <2> QED
    BY <1>1, <1>3, <2>3, <2>4, <2>5, <2>6, FwriteStores
<1> QED
  BY <1>4, <1>5

(* What the file holds when the call returns is settled.                   *)
LEMMA CloseStores ==
  ASSUME IMaster, IMaster', IStore, Close \/ SaveReturn
  PROVE  IStore'
<1>1. /\ save.at # "idle" /\ UNCHANGED <<load, sealed>>
      /\ save' = NoSave \/ save' = [save EXCEPT !.at = "returned", !.top = "none"]
  BY DEF Close, SaveReturn, SaveAt
<1>2. save \in SaveRec /\ SaveRows(save) /\ load.at = "idle"
  BY <1>1, SaveIs
<1>3. CASE save' = NoSave
  <2>1. save'.at = "idle" /\ save'.placed = FALSE /\ save'.rc = "OK"
    BY <1>3 DEF NoSave
  <2>2. SaveRows(save') /\ SaveFile(save', files'[save'.path])
    BY <2>1 DEF SaveRows, SaveFile, Inside
  <2> QED
    BY <1>1, <1>2, <2>2, SaveKeeps
<1>4. CASE save' = [save EXCEPT !.at = "returned", !.top = "none"]
  <2>1. /\ save'.at = "returned" /\ save'.src = save.src /\ save'.key = save.key
    BY <1>2, <1>4 DEF SaveRec
  <2>2. SaveRows(save') /\ SaveFile(save', files'[save'.path])
    BY <1>1, <1>2, <2>1 DEF SaveRows, SaveFile, Inside
  <2> QED
    BY <1>1, <1>2, <2>2, SaveKeeps
<1> QED
  BY <1>1, <1>3, <1>4

-----------------------------------------------------------------------------
(* The steps of a load keep it.                                            *)

LEMMA LoadIs ==
  ASSUME IMaster, IStore, load.at # "idle"
  PROVE  /\ save.at = "idle" /\ IsLoad(load) /\ LoadRows(load, InHand)
         /\ load.path \in Paths /\ load.key \in Keys /\ load.filter \in Filters
         /\ InHand \in FileRec /\ InHand.rows \in Seq(MasterRow)
         /\ InHand.count \in Int /\ InHand.n \in Int /\ Len(InHand.rows) \in Nat
         /\ InHand.head = "real" => /\ InHand.count = Len(InHand.rows)
                                    /\ Sealed(InHand.rows, InHand.key)
<1>1. save.at = "idle" /\ IsLoad(load) /\ LoadRows(load, InHand)
  BY DEF IStore, InHand
<1>2. load.path \in Paths /\ load.key \in Keys /\ load.filter \in Filters
  BY <1>1 DEF LoadRows
<1>3. InHand \in FileRec /\ Kept(InHand)
  BY <1>2 DEF IMaster, Typed, FilesKept, InHand
<1>4. InHand.rows \in Seq(MasterRow) /\ InHand.count \in Int /\ InHand.n \in Int
  BY <1>3 DEF FileRec
<1> QED
  BY <1>1, <1>2, <1>3, <1>4, LenProperties DEF Kept

LEMMA LoadKeepsStore ==
  ASSUME IStore, save.at = "idle", UNCHANGED <<files, save, sealed>>,
         IsLoad(load'), LoadRows(load', files'[load'.path])
  PROVE  IStore'
BY DEF IStore

LEMMA NoLoadIs ==
  /\ IsLoad(NoLoad) /\ NoLoad.at = "idle" /\ NoLoad.rc = "OK"
  /\ \A f : LoadRows(NoLoad, f)
<1> DEFINE S == {NoLoad.at, NoLoad.path, NoLoad.key, NoLoad.filter, NoLoad.left,
                 NoLoad.pos, NoLoad.avail, NoLoad.next, NoLoad.total, NoLoad.eof,
                 NoLoad.got, NoLoad.rc}
<1>1. NoLoad \in [at : S, path : S, key : S, filter : S, left : S, pos : S,
                  avail : S, next : S, total : S, eof : S, got : S, rc : S]
  BY DEF NoLoad
<1>2. /\ NoLoad.at = "idle" /\ NoLoad.rc = "OK"
      /\ NoLoad.left = 0 /\ NoLoad.pos = 0 /\ NoLoad.avail = 0
  BY DEF NoLoad
<1> HIDE DEF S
<1>3. IsLoad(NoLoad)
  BY <1>1, <1>2 DEF IsLoad
<1>4. \A f : LoadRows(NoLoad, f)
  BY <1>2 DEF LoadRows
<1> QED
  BY <1>2, <1>3, <1>4

LEMMA LoadBeginStores ==
  ASSUME IMaster, IStore, NEW p \in Paths, NEW k \in Keys, NEW z \in Filters,
         LoadBegin(p, k, z)
  PROVE  IStore'
<1>1. /\ save.at = "idle" /\ UNCHANGED <<files, save, sealed>>
  BY DEF LoadBegin, Idle
<1>2. PICK S : NoLoad \in [at : S, path : S, key : S, filter : S, left : S, pos : S,
                           avail : S, next : S, total : S, eof : S, got : S, rc : S]
  BY NoLoadIs DEF IsLoad
<1>3. PICK g : g = [t \in z |-> Unknown]
  OBVIOUS
<1> DEFINE T == S \cup {"open", p, k, z, g}
<1>4. load' = [NoLoad EXCEPT !.at = "open", !.path = p, !.key = k, !.filter = z,
                             !.got = g]
  BY <1>3 DEF LoadBegin
<1>5. /\ load' \in [at : T, path : T, key : T, filter : T, left : T, pos : T,
                    avail : T, next : T, total : T, eof : T, got : T, rc : T]
      /\ load'.at = "open" /\ load'.path = p /\ load'.key = k /\ load'.filter = z
      /\ load'.got = g /\ load'.rc = NoLoad.rc /\ load'.left = NoLoad.left
      /\ load'.pos = NoLoad.pos /\ load'.avail = NoLoad.avail
  BY <1>2, <1>4
<1>6. NoLoad.left = 0 /\ NoLoad.pos = 0 /\ NoLoad.avail = 0
  BY DEF NoLoad
<1> HIDE DEF T
<1>7. IsLoad(load')
  BY <1>5, <1>6 DEF IsLoad
<1>8. LoadRows(load', files'[load'.path])
  BY <1>3, <1>5, <1>6, NoLoadIs DEF LoadRows
<1> QED
  BY <1>1, <1>7, <1>8, LoadKeepsStore

(* Steps that set a few fields of the load.                                *)
LEMMA LoadGoesTo ==
  ASSUME IsLoad(load), NEW a, load' = [load EXCEPT !.at = a]
  PROVE  /\ IsLoad(load') /\ load'.at = a /\ load'.path = load.path
         /\ load'.key = load.key /\ load'.filter = load.filter /\ load'.pos = load.pos
         /\ load'.avail = load.avail /\ load'.rc = load.rc /\ load'.got = load.got
<1>1. PICK S : load \in [at : S, path : S, key : S, filter : S, left : S, pos : S,
                         avail : S, next : S, total : S, eof : S, got : S, rc : S]
  BY DEF IsLoad
<1> DEFINE T == S \cup {a}
<1>2. /\ load' \in [at : T, path : T, key : T, filter : T, left : T, pos : T,
                    avail : T, next : T, total : T, eof : T, got : T, rc : T]
      /\ load'.at = a /\ load'.path = load.path
      /\ load'.key = load.key /\ load'.filter = load.filter /\ load'.pos = load.pos
      /\ load'.avail = load.avail /\ load'.rc = load.rc /\ load'.got = load.got
      /\ load'.left = load.left
  BY <1>1
<1> HIDE DEF T
<1>3. IsLoad(load')
  BY <1>2 DEF IsLoad
<1> QED
  BY <1>2, <1>3

LEMMA LoadCounts ==
  ASSUME IsLoad(load), NEW a, NEW l \in Int, load' = [load EXCEPT !.at = a, !.left = l]
  PROVE  /\ IsLoad(load') /\ load'.at = a /\ load'.path = load.path
         /\ load'.key = load.key /\ load'.filter = load.filter /\ load'.pos = load.pos
         /\ load'.avail = load.avail /\ load'.rc = load.rc /\ load'.got = load.got
         /\ load'.left = l
<1>1. PICK S : load \in [at : S, path : S, key : S, filter : S, left : S, pos : S,
                         avail : S, next : S, total : S, eof : S, got : S, rc : S]
  BY DEF IsLoad
<1> DEFINE T == S \cup {a, l}
<1>2. /\ load' \in [at : T, path : T, key : T, filter : T, left : T, pos : T,
                    avail : T, next : T, total : T, eof : T, got : T, rc : T]
      /\ load'.at = a /\ load'.path = load.path
      /\ load'.key = load.key /\ load'.filter = load.filter /\ load'.pos = load.pos
      /\ load'.avail = load.avail /\ load'.rc = load.rc /\ load'.got = load.got
      /\ load'.left = l
  BY <1>1
<1> HIDE DEF T
<1>3. IsLoad(load')
  BY <1>2 DEF IsLoad
<1> QED
  BY <1>2, <1>3

LEMMA LoadIsRefused ==
  ASSUME IsLoad(load), LoadBails
  PROVE  /\ IsLoad(load') /\ load'.at = "returned" /\ load'.path = load.path
         /\ load'.key = load.key /\ load'.filter = load.filter /\ load'.rc = "DAMAGED"
<1>1. PICK S : load \in [at : S, path : S, key : S, filter : S, left : S, pos : S,
                         avail : S, next : S, total : S, eof : S, got : S, rc : S]
  BY DEF IsLoad
<1> DEFINE T == S \cup {"returned", "DAMAGED", <<>>}
<1>2. /\ load' \in [at : T, path : T, key : T, filter : T, left : T, pos : T,
                    avail : T, next : T, total : T, eof : T, got : T, rc : T]
      /\ load'.at = "returned" /\ load'.path = load.path
      /\ load'.key = load.key /\ load'.filter = load.filter /\ load'.pos = load.pos
      /\ load'.avail = load.avail /\ load'.rc = "DAMAGED" /\ load'.left = load.left
  BY <1>1 DEF LoadBails
<1> HIDE DEF T
<1>3. IsLoad(load')
  BY <1>2 DEF IsLoad
<1> QED
  BY <1>2, <1>3

(* A load that is refused, or that has all it asked for.                   *)
LEMMA LoadEndStores ==
  ASSUME IMaster, IStore, UNCHANGED <<files, save, sealed>>,
         LoadBails \/ LoadDone, load.at # "idle"
  PROVE  IStore'
<1>1. /\ save.at = "idle" /\ IsLoad(load) /\ load.path \in Paths /\ load.key \in Keys
      /\ load.filter \in Filters /\ load.left \in Int
  BY LoadIs DEF IsLoad
<1>2. /\ IsLoad(load') /\ load'.at = "returned" /\ load'.path = load.path
      /\ load'.key = load.key /\ load'.filter = load.filter
  <2>1. CASE LoadBails
    BY <1>1, <2>1, LoadIsRefused
  <2>2. CASE LoadDone
    BY <1>1, <2>2, LoadGoesTo DEF LoadDone
  <2> QED
    BY <2>1, <2>2
<1>3. LoadRows(load', files'[load'.path])
  BY <1>1, <1>2 DEF LoadRows
<1> QED
  BY <1>1, <1>2, <1>3, LoadKeepsStore

LEMMA LoadReturnStores ==
  ASSUME IMaster, IStore, LoadReturn
  PROVE  IStore'
<1>1. /\ load' = NoLoad /\ UNCHANGED <<files, save, sealed>> /\ load.at # "idle"
  BY DEF LoadReturn, LoadAt
<1>2. save.at = "idle"
  BY <1>1, LoadIs
<1> QED
  BY <1>1, <1>2, NoLoadIs, LoadKeepsStore

LEMMA LoadOpenStores ==
  ASSUME IMaster, IStore, Sized, LoadOpen \/ ReadHeader
  PROVE  IStore'
<1>1. /\ load.at \in {"open", "header"} /\ UNCHANGED <<files, save, sealed>>
      /\ LoadOpen => load.at = "open"
  BY DEF LoadOpen, ReadHeader, LoadAt
<1>2. /\ save.at = "idle" /\ IsLoad(load) /\ LoadRows(load, InHand)
      /\ load.path \in Paths /\ load.key \in Keys /\ load.filter \in Filters
      /\ InHand.rows \in Seq(MasterRow) /\ InHand.count \in Int /\ InHand.n \in Int
      /\ load.left \in Int
      /\ InHand.head = "real" => InHand.count = Len(InHand.rows)
      /\ Len(InHand.rows) \in Nat /\ InHand \in FileRec
  BY <1>1, LoadIs DEF IsLoad
<1>3. CASE LoadBails
  BY <1>1, <1>3, LoadEndStores
<1>4. CASE LoadOpen /\ load' = [load EXCEPT !.at = "header"]
  <2>1. /\ IsLoad(load') /\ load'.at = "header" /\ load'.path = load.path
        /\ load'.key = load.key /\ load'.filter = load.filter /\ load'.pos = load.pos
        /\ load'.avail = load.avail /\ load'.rc = load.rc /\ load'.got = load.got
    BY <1>2, <1>4, LoadGoesTo
  <2>2. LoadRows(load', files'[load'.path])
    BY <1>1, <1>2, <2>1 DEF LoadRows
  <2> QED
    BY <1>1, <1>2, <2>1, <2>2, LoadKeepsStore
<1>5. CASE InHand.head = "real" /\ load' = [load EXCEPT !.at = "entity", !.left = InHand.count]
  <2>1. /\ IsLoad(load') /\ load'.at = "entity" /\ load'.path = load.path
        /\ load'.key = load.key /\ load'.filter = load.filter /\ load'.pos = load.pos
        /\ load'.avail = load.avail /\ load'.rc = load.rc /\ load'.got = load.got
        /\ load'.left = InHand.count
    BY <1>2, <1>5, LoadCounts
  <2>2. files'[load'.path] = InHand
    BY <1>1, <2>1 DEF InHand
  <2>3. SubSeq(InHand.rows, 1, 0) = <<>>
    BY <1>2
  <2>4. load.got = Selection(SubSeq(InHand.rows, 1, 0), load.filter)
    BY <1>1, <1>2, <2>3, SelectionOfNone DEF LoadRows
  <2>5. load.pos = 0 /\ load.avail = 0 /\ load.rc = "OK"
    BY <1>1, <1>2 DEF LoadRows
  <2>6. InHand.n >= 0
    BY <1>2, <1>5 DEF Sized, InHand
  <2>7. HasRead(load', InHand, 0)
    BY <1>2, <1>5, <2>1, <2>4, <2>5, <2>6 DEF HasRead
  <2>8. LoadRows(load', InHand)
    BY <1>2, <1>5, <2>1, <2>5, <2>7 DEF LoadRows
  <2> QED
    BY <1>1, <1>2, <2>1, <2>2, <2>8, LoadKeepsStore
<1> QED
  BY <1>3, <1>4, <1>5 DEF LoadOpen, ReadHeader

LEMMA RefillStores ==
  ASSUME IMaster, IStore, Refill
  PROVE  IStore' /\ load.at \in {"entity", "strings"} /\ load'.at = load.at
<1>1. /\ load.at \in {"entity", "strings"} /\ load.avail = 0
      /\ UNCHANGED <<files, save, sealed>>
  BY DEF Refill, Hungry, Inflating, LoadAt
<1>2. /\ save.at = "idle" /\ IsLoad(load) /\ LoadRows(load, InHand)
      /\ load.path \in Paths /\ load.key \in Keys /\ load.filter \in Filters
      /\ InHand.n \in Int /\ InHand.head = "real"
  BY <1>1, LoadIs DEF LoadRows
<1>3. PICK j \in Nat : HasRead(load, InHand, j)
  BY <1>1, <1>2 DEF LoadRows
<1>4. load.pos \in Int /\ load.pos <= InHand.n
  BY <1>2, <1>3 DEF HasRead, IsLoad
<1>5. PICK m \in Nat : load' = Refilled(m) /\ load.pos + m <= InHand.n
  <2>1. PICK rest \in Nat : rest = InHand.n - load.pos
    BY <1>2, <1>4
  <2>2. load' = Refilled(IF rest < InBuf THEN rest ELSE InBuf)
    BY <2>1 DEF Refill
  <2>3. InBuf \in Nat
    BY MasterFileAssumption
  <2>4. CASE rest < InBuf
    <3>1. load.pos + rest <= InHand.n
      BY <1>2, <1>4, <2>1
    <3> QED
      BY <2>2, <2>4, <3>1
  <2>5. CASE ~ (rest < InBuf)
    <3>1. load.pos + InBuf <= InHand.n
      BY <1>2, <1>4, <2>1, <2>3, <2>5
    <3> QED
      BY <2>2, <2>3, <2>5, <3>1
  <2> QED
    BY <2>4, <2>5
<1>6. PICK q \in Int : q = load.pos + m
  BY <1>4
<1>7. PICK S : load \in [at : S, path : S, key : S, filter : S, left : S, pos : S,
                         avail : S, next : S, total : S, eof : S, got : S, rc : S]
  BY <1>2 DEF IsLoad
<1>8. PICK x : x = IF m > 0 THEN Start ELSE load.next
  OBVIOUS
<1>9. PICK e : e = (m < InBuf)
  OBVIOUS
<1> DEFINE T == S \cup {m, x, e, q, 0}
<1>10. load' = [load EXCEPT !.total = 0, !.next = x, !.avail = m, !.pos = q, !.eof = e]
  BY <1>5, <1>6, <1>7, <1>8, <1>9 DEF Refilled
<1>11. /\ load' \in [at : T, path : T, key : T, filter : T, left : T, pos : T,
                     avail : T, next : T, total : T, eof : T, got : T, rc : T]
       /\ load'.at = load.at /\ load'.path = load.path /\ load'.key = load.key
       /\ load'.filter = load.filter /\ load'.left = load.left /\ load'.got = load.got
       /\ load'.rc = load.rc /\ load'.avail = m /\ load'.pos = q
  BY <1>7, <1>10
<1> HIDE DEF T
<1>12. IsLoad(load')
  BY <1>2, <1>6, <1>11 DEF IsLoad
<1>13. q - m = load.pos - load.avail /\ q <= InHand.n
  BY <1>1, <1>4, <1>5, <1>6
<1>14. HasRead(load', InHand, j)
  BY <1>3, <1>11, <1>13 DEF HasRead
<1>15. LoadRows(load', InHand)
  BY <1>1, <1>2, <1>11, <1>14 DEF LoadRows
<1>16. files'[load'.path] = InHand
  BY <1>1, <1>11 DEF InHand
<1> QED
  BY <1>1, <1>2, <1>11, <1>12, <1>15, <1>16, LoadKeepsStore

(* A unit is taken.                                                        *)
LEMMA InflatedHas ==
  ASSUME IsLoad(load)
  PROVE  /\ Inflated.left = load.left /\ Inflated.got = load.got
         /\ \E S : Inflated \in
              [at : S, path : S, key : S, filter : S, left : S, pos : S,
               avail : S, next : S, total : S, eof : S, got : S, rc : S]
<1>1. PICK S : load \in [at : S, path : S, key : S, filter : S, left : S, pos : S,
                         avail : S, next : S, total : S, eof : S, got : S, rc : S]
  BY DEF IsLoad
<1>2. PICK x : x = load.avail - 1
  OBVIOUS
<1>3. PICK y : y = load.next + 1
  OBVIOUS
<1>4. PICK z : z = load.total + 1
  OBVIOUS
<1> DEFINE T == S \cup {x, y, z}
<1>5. Inflated = [load EXCEPT !.avail = x, !.next = y, !.total = z]
  BY <1>2, <1>3, <1>4 DEF Inflated
<1>6. /\ Inflated \in [at : T, path : T, key : T, filter : T, left : T, pos : T,
                       avail : T, next : T, total : T, eof : T, got : T, rc : T]
      /\ Inflated.left = load.left /\ Inflated.got = load.got
  BY <1>1, <1>5
<1> HIDE DEF T
<1> QED
  BY <1>6

LEMMA InflatedIs ==
  ASSUME IsLoad(load), load.avail > 0, NEW a, NEW l \in Int, NEW g,
         load' = [Inflated EXCEPT !.at = a, !.left = l, !.got = g]
  PROVE  /\ IsLoad(load') /\ load'.at = a /\ load'.path = load.path
         /\ load'.key = load.key /\ load'.filter = load.filter /\ load'.left = l
         /\ load'.got = g /\ load'.rc = load.rc /\ load'.pos = load.pos
         /\ load'.avail = load.avail - 1
<1>1. PICK S : load \in [at : S, path : S, key : S, filter : S, left : S, pos : S,
                         avail : S, next : S, total : S, eof : S, got : S, rc : S]
  BY DEF IsLoad
<1>2. load.avail \in Nat /\ load.pos \in Int
  BY DEF IsLoad
<1>3. PICK x \in Nat : x = load.avail - 1
  BY <1>2
<1>4. PICK y : y = load.next + 1
  OBVIOUS
<1>5. PICK z : z = load.total + 1
  OBVIOUS
<1> DEFINE T == S \cup {a, l, g, x, y, z}
           h == [load EXCEPT !.avail = x, !.next = y, !.total = z]
<1>6. h = Inflated
  BY <1>3, <1>4, <1>5 DEF Inflated
<1>7. /\ h \in [at : T, path : T, key : T, filter : T, left : T, pos : T,
                avail : T, next : T, total : T, eof : T, got : T, rc : T]
      /\ h.at = load.at /\ h.path = load.path /\ h.key = load.key
      /\ h.filter = load.filter /\ h.left = load.left /\ h.pos = load.pos
      /\ h.got = load.got /\ h.rc = load.rc /\ h.avail = x
  BY <1>1
<1>8. a \in T /\ l \in T /\ g \in T
  OBVIOUS
<1> HIDE DEF T, h
<1>9. /\ load' \in [at : T, path : T, key : T, filter : T, left : T, pos : T,
                    avail : T, next : T, total : T, eof : T, got : T, rc : T]
      /\ load'.at = a /\ load'.path = h.path /\ load'.key = h.key
      /\ load'.filter = h.filter /\ load'.left = l /\ load'.pos = h.pos
      /\ load'.got = g /\ load'.rc = h.rc /\ load'.avail = h.avail
  BY <1>6, <1>7, <1>8
<1>10. IsLoad(load')
  BY <1>2, <1>3, <1>7, <1>9 DEF IsLoad
<1> QED
  BY <1>3, <1>7, <1>9, <1>10

LEMMA EntityStores ==
  ASSUME IMaster, IStore, ReadEntity
  PROVE  IStore' /\ load.at = "entity" /\ load'.at = "strings"
<1>1. /\ load.at = "entity" /\ load.left > 0 /\ load.avail > 0
      /\ load.key = InHand.key /\ UNCHANGED <<files, save, sealed>>
      /\ load' = [Inflated EXCEPT !.at = "strings"]
  BY DEF ReadEntity, LoadAt, Inflating, Readable
<1>2. /\ save.at = "idle" /\ IsLoad(load) /\ LoadRows(load, InHand)
      /\ load.path \in Paths /\ load.key \in Keys /\ load.filter \in Filters
      /\ InHand.head = "real" /\ load.rc = "OK"
      /\ load.left \in Int /\ load.pos \in Int /\ load.avail \in Nat
  BY <1>1, LoadIs DEF LoadRows, IsLoad
<1>3. PICK j \in Nat : HasRead(load, InHand, j)
  BY <1>1, <1>2 DEF LoadRows
<1>4. /\ IsLoad(load') /\ load'.at = "strings" /\ load'.path = load.path
      /\ load'.key = load.key /\ load'.filter = load.filter /\ load'.left = load.left
      /\ load'.got = load.got /\ load'.rc = load.rc /\ load'.pos = load.pos
      /\ load'.avail = load.avail - 1
  <2> DEFINE h == Inflated
  <2>1. PICK S : h \in [at : S, path : S, key : S, filter : S, left : S, pos : S,
                        avail : S, next : S, total : S, eof : S, got : S, rc : S]
    BY <1>2, InflatedHas
  <2>2. h.left = load.left /\ h.got = load.got
    BY <1>2, InflatedHas
  <2>3. load' = [h EXCEPT !.at = "strings"]
    BY <1>1
  <2> HIDE DEF h
  <2>4. load' = [h EXCEPT !.at = "strings", !.left = load.left, !.got = load.got]
    BY <2>1, <2>2, <2>3
  <2>5. load' = [Inflated EXCEPT !.at = "strings", !.left = load.left, !.got = load.got]
    BY <2>4 DEF h
  <2>6. PICK l \in Int : l = load.left
    BY <1>2
  <2>7. PICK g : g = load.got
    OBVIOUS
  <2>8. load' = [Inflated EXCEPT !.at = "strings", !.left = l, !.got = g]
    BY <2>5, <2>6, <2>7
  <2>9. /\ IsLoad(load') /\ load'.at = "strings" /\ load'.path = load.path
        /\ load'.key = load.key /\ load'.filter = load.filter /\ load'.left = l
        /\ load'.got = g /\ load'.rc = load.rc /\ load'.pos = load.pos
        /\ load'.avail = load.avail - 1
    <3>1. IsLoad(load) /\ load.avail > 0
      BY <1>1, <1>2
    <3> QED
      BY <2>8, <3>1, InflatedIs
  <2> QED
    BY <2>6, <2>7, <2>9
<1>5. PICK x \in Int : x = load.avail - 1
  BY <1>2
<1>6. load.pos - x = 2 * j + 1
  BY <1>1, <1>2, <1>3, <1>5 DEF HasRead
<1>7. HasRead(load', InHand, j)
  BY <1>1, <1>3, <1>4, <1>5, <1>6 DEF HasRead
<1>8. LoadRows(load', InHand)
  BY <1>2, <1>4, <1>7 DEF LoadRows
<1>9. files'[load'.path] = InHand
  BY <1>1, <1>4 DEF InHand
<1> QED
  BY <1>1, <1>2, <1>4, <1>8, <1>9, LoadKeepsStore

LEMMA StringsStores ==
  ASSUME IMaster, IStore, ReadStrings
  PROVE  IStore' /\ load.at = "strings" /\ load'.at = "entity"
<1>1. /\ load.at = "strings" /\ load.avail > 0
      /\ load.key = InHand.key /\ UNCHANGED <<files, save, sealed>>
  BY DEF ReadStrings, LoadAt, Readable
<1>2. /\ save.at = "idle" /\ IsLoad(load) /\ LoadRows(load, InHand)
      /\ load.path \in Paths /\ load.key \in Keys /\ load.filter \in Filters
      /\ InHand.head = "real" /\ load.rc = "OK" /\ InHand.count = Len(InHand.rows)
      /\ InHand.rows \in Seq(MasterRow) /\ Len(InHand.rows) \in Nat
      /\ load.left \in Int /\ load.pos \in Int /\ load.avail \in Nat
  BY <1>1, LoadIs DEF LoadRows, IsLoad
<1>3. PICK j \in Nat : HasRead(load, InHand, j)
  BY <1>1, <1>2 DEF LoadRows
<1>4. /\ load.left = InHand.count - j /\ load.left > 0
      /\ load.got = Selection(SubSeq(InHand.rows, 1, j), load.filter)
      /\ load.pos <= InHand.n /\ load.pos - load.avail = 2 * j + 1
  BY <1>1, <1>3 DEF HasRead
<1>5. j + 1 \in 1 .. Len(InHand.rows)
  BY <1>2, <1>4
<1>6. RowRead = InHand.rows[j + 1]
  <2>1. UnitAt = 2 * (j + 1)
    BY <1>2, <1>4 DEF UnitAt
  <2>2. UnitAt \div 2 = j + 1
    BY <2>1
  <2> QED
    BY <2>2 DEF RowRead
<1> DEFINE a == SubSeq(InHand.rows, 1, j)
           r == InHand.rows[j + 1]
           g == IF Selected(r, load.filter) THEN Inserted(load.got, r) ELSE load.got
<1>7. r \in MasterRow
  BY <1>2, <1>5, ElementOfSeq
<1>8. a \in Seq(MasterRow) /\ SubSeq(InHand.rows, 1, j + 1) = Append(a, r)
  BY <1>2, <1>5
<1>9. g = Selection(SubSeq(InHand.rows, 1, j + 1), load.filter)
  <2>1. load.got = Selection(a, load.filter)
    BY <1>4
  <2> HIDE DEF a, r
  <2>2. Selection(Append(a, r), load.filter) =
          IF Selected(r, load.filter) THEN Inserted(Selection(a, load.filter), r)
          ELSE Selection(a, load.filter)
    BY <1>7, <1>8, SelectionOfMore
  <2> QED
    BY <1>8, <2>1, <2>2
<1>10. PICK l \in Int : l = load.left - 1
  BY <1>2
<1>11. load' = [Inflated EXCEPT !.at = "entity", !.left = l, !.got = g]
  <2>1. Inflated.left = load.left /\ Inflated.got = load.got
    BY <1>2, InflatedHas
  <2> DEFINE h == Inflated
             c == Selected(r, load.filter)
  <2>2. load' = [h EXCEPT !.at = "entity", !.left = h.left - 1,
                          !.got = IF ~ c THEN h.got ELSE Inserted(load.got, r)]
    BY <1>6 DEF ReadStrings
  <2>3. h.left = load.left /\ h.got = load.got
    BY <2>1
  <2>4. g = IF c THEN Inserted(load.got, r) ELSE load.got
    OBVIOUS
  <2> HIDE DEF h, c, g, r
  <2>5. g = IF ~ c THEN h.got ELSE Inserted(load.got, r)
    BY <2>3, <2>4
  <2>6. l = h.left - 1
    BY <1>10, <2>3
  <2> QED
    BY <2>2, <2>5, <2>6 DEF h
<1> HIDE DEF g, a, r
<1>12. /\ IsLoad(load') /\ load'.at = "entity" /\ load'.path = load.path
       /\ load'.key = load.key /\ load'.filter = load.filter /\ load'.left = l
       /\ load'.got = g /\ load'.rc = load.rc /\ load'.pos = load.pos
       /\ load'.avail = load.avail - 1
  BY <1>1, <1>2, <1>11, InflatedIs
<1>13. PICK x \in Int : x = load.avail - 1
  BY <1>2
<1>14. /\ l = InHand.count - (j + 1) /\ l >= 0 /\ load.pos - x = 2 * (j + 1)
  <2>1. /\ load.left \in Int /\ load.pos \in Int /\ load.avail \in Nat
        /\ InHand.count \in Int
    BY <1>2
  <2> QED
    BY <1>4, <1>10, <1>13, <2>1
<1>15. HasRead(load', InHand, j + 1)
  BY <1>1, <1>4, <1>9, <1>12, <1>13, <1>14 DEF HasRead
<1>16. j + 1 \in Nat
  OBVIOUS
<1>17. LoadRows(load', InHand)
  BY <1>2, <1>12, <1>15, <1>16 DEF LoadRows
<1>18. files'[load'.path] = InHand
  BY <1>1, <1>12 DEF InHand
<1> QED
  BY <1>1, <1>2, <1>12, <1>17, <1>18, LoadKeepsStore

-----------------------------------------------------------------------------
(* What else changes a file.                                               *)

(* A part of file f, or none of it.                                        *)
LEMMA PartIs ==
  ASSUME NEW f \in FileRec, NEW g \in Parts(f)
  PROVE  /\ g \in FileRec
         /\ \/ g.head = "empty"
            \/ /\ g.head = f.head /\ g.count = f.count /\ g.rows = f.rows
               /\ g.key = f.key /\ g.n <= f.n
               /\ f.n >= 0 => g.n >= 0
<1>1. f.n \in Int
  BY DEF FileRec
<1>2. CASE g = Empty
  BY <1>2, EmptyIs
<1>3. CASE g = f
  BY <1>1, <1>3
<1>4. CASE \E m \in 0 .. f.n : g = [f EXCEPT !.n = m]
  <2>1. PICK m \in 0 .. f.n : g = [f EXCEPT !.n = m]
    BY <1>4
  <2>2. m \in Int /\ m >= 0 /\ m <= f.n
    BY <1>1, <2>1
  <2> QED
    BY <2>1, <2>2 DEF FileRec
<1> QED
  BY <1>2, <1>3, <1>4 DEF Parts

LEMMA MovedIs ==
  ASSUME IMaster, NEW p \in Paths, MoveFile(p)
  PROVE  /\ save.at = "idle" /\ load.at = "idle" /\ UNCHANGED <<save, load, sealed>>
         /\ files \in [Paths -> FileRec]
         /\ \E g : /\ files' = [files EXCEPT ![p] = g]
                   /\ \/ g = Absent
                      \/ \E q \in Paths : files[q].head # "absent" /\ g \in Parts(files[q])
<1>1. files \in [Paths -> FileRec]
  BY DEF IMaster, Typed
<1> QED
  BY <1>1 DEF MoveFile, Idle, InFile

LEMMA RestStores ==
  ASSUME IMaster, IStore, Stop \/ \E p \in Paths : MoveFile(p)
  PROVE  IStore'
<1>1. CASE Stop
  <2>1. /\ save' = NoSave /\ load' = NoLoad /\ UNCHANGED sealed
    BY <1>1 DEF Stop
  <2>2. save'.at = "idle" /\ save'.placed = FALSE /\ save'.rc = "OK"
    BY <2>1 DEF NoSave
  <2>3. SaveRows(save') /\ SaveFile(save', files'[save'.path])
    BY <2>2 DEF SaveRows, SaveFile, Inside
  <2>4. IsLoad(load') /\ LoadRows(load', files'[load'.path])
    BY <2>1, NoLoadIs
  <2> QED
    BY <2>1, <2>2, <2>3, <2>4 DEF IStore
<1>2. CASE \E p \in Paths : MoveFile(p)
  <2>1. /\ save.at = "idle" /\ load.at = "idle" /\ UNCHANGED <<save, load, sealed>>
    BY <1>2, MovedIs
  <2>2. SaveRows(save) /\ LoadRows(load, files[load.path]) /\ IsLoad(load)
    BY DEF IStore
  <2>3. SaveFile(save, files'[save.path]) /\ LoadRows(load, files'[load.path])
    BY <2>1, <2>2 DEF SaveFile, LoadRows, Inside
  <2> QED
    BY <2>1, <2>2, <2>3 DEF IStore
<1> QED
  BY <1>1, <1>2

(* The buffer is written, or a part of it, and the file closed: the header *)
(* is real when all of it was written, and the rest of the file is there.  *)
LEMMA ClosedIs ==
  ASSUME IMaster, IStore, Close
  PROVE  /\ save \in SaveRec /\ save.path \in Paths /\ files \in [Paths -> FileRec]
         /\ files[save.path].head # "absent" /\ save.units \in Int
         /\ \E g \in FileRec :
              /\ files' = [files EXCEPT ![save.path] = g]
              /\ \/ /\ g.head \in {"empty", "dummy"}
                    /\ files[save.path].head # "real"
                 \/ /\ save.at = "close" /\ save.placed
                    /\ g.head = "real" /\ g.n = save.units /\ g.rows = save.rows
                    /\ g.key = save.key /\ g.count = Len(save.rows)
<1> DEFINE f == files[save.path]
<1>1. /\ save.at \in {"close", "bail"}
      /\ \/ InFile(save.path, Flushed(f, save))
         \/ \E g \in Partly(f, save) : InFile(save.path, g)
  BY DEF Close
<1>2. /\ save \in SaveRec /\ save.path \in Paths /\ files \in [Paths -> FileRec]
      /\ f \in FileRec /\ FilesKept /\ SaveFile(save, f)
      /\ save.at = "bail" => save.top # "real"
  BY <1>1, SaveIs
<1>3. /\ f.head \in {"empty", "dummy", "real"} /\ save.units \in Int
      /\ save.top \in {"none", "dummy", "real"}
  BY <1>1, <1>2 DEF SaveFile, FileRec, SaveRec
<1>4. f.head = "real" =>
        /\ save.at = "close" /\ save.placed /\ save.top = "none" /\ f.n = save.units
        /\ f.rows = save.rows /\ f.key = save.key /\ f.count = Len(save.rows)
  <2>1. f.head = "real" => f.count = Len(f.rows)
    BY <1>2 DEF FilesKept, Kept
  <2>2. f.head = "real" => save.at = "close"
    BY <1>1, <1>2 DEF SaveFile
  <2>3. f.head = "real" => f.rows = save.rows /\ f.key = save.key
    BY <2>2 DEF IMaster, Writing
  <2> QED
    BY <1>2, <2>1, <2>2, <2>3 DEF SaveFile
<1>5. save.top = "real" =>
        save.at = "close" /\ save.placed /\ save.entities = Len(save.rows)
  BY <1>1, <1>2 DEF SaveFile, IMaster, Writing
<1>6. PICK g \in FileRec :
        /\ InFile(save.path, g)
        /\ \/ g = f
           \/ /\ g.head = IF save.top = "none" THEN f.head ELSE save.top
              /\ g.count = IF save.top = "real" THEN save.entities ELSE f.count
              /\ g.rows = save.rows /\ g.key = save.key
              /\ f.head = "real" \/ save.top = "real" => g.n = save.units
  <2>1. CASE InFile(save.path, Flushed(f, save))
    <3>1. Flushed(f, save).n = save.units
      BY <1>2 DEF Flushed, FileRec
    <3>2. PICK g \in FileRec :
            /\ g = Flushed(f, save)
            /\ g.head = IF save.top = "none" THEN f.head ELSE save.top
            /\ g.count = IF save.top = "real" THEN save.entities ELSE f.count
            /\ g.rows = save.rows /\ g.key = save.key
      BY <1>2, FlushedIs
    <3> QED
      BY <2>1, <3>1, <3>2
  <2>2. CASE \E g \in Partly(f, save) : InFile(save.path, g)
    <3>1. PICK g \in Partly(f, save) : InFile(save.path, g)
      BY <2>2
    <3>2. /\ g \in FileRec
          /\ \/ g = f
             \/ /\ save.top # "real"
                /\ g.head = IF save.top = "none" THEN f.head ELSE save.top
                /\ g.count = f.count /\ g.rows = save.rows /\ g.key = save.key
      BY <1>2, PartlyIs
    <3>3. g = f \/ (f.head = "real" => g.n = save.units)
      <4>1. SUFFICES ASSUME g # f, f.head = "real" PROVE g.n = save.units
        OBVIOUS
      <4>2. PICK m \in f.n .. save.units : g = [Flushed(f, save) EXCEPT !.n = m]
        BY <3>1, <4>1 DEF Partly
      <4>3. m = save.units
        BY <1>3, <1>4, <4>1, <4>2
      <4> DEFINE h == Flushed(f, save)
      <4>4. h \in FileRec /\ g = [h EXCEPT !.n = m]
        BY <1>2, <4>2, FlushedIs
      <4> HIDE DEF h
      <4> QED
        BY <4>3, <4>4 DEF FileRec
    <3> QED
      BY <1>4, <3>1, <3>2, <3>3
  <2> QED
    BY <1>1, <2>1, <2>2
<1>7. files' = [files EXCEPT ![save.path] = g]
  BY <1>6 DEF InFile
<1> HIDE DEF f
<1>8. \/ g.head \in {"empty", "dummy"} /\ f.head # "real"
      \/ /\ save.at = "close" /\ save.placed
         /\ g.head = "real" /\ g.n = save.units /\ g.rows = save.rows
         /\ g.key = save.key /\ g.count = Len(save.rows)
  <2>1. CASE f.head = "real"
    BY <1>4, <1>6, <2>1
  <2>2. CASE f.head # "real" /\ save.top = "real"
    BY <1>3, <1>5, <1>6, <2>2
  <2>3. CASE f.head # "real" /\ save.top # "real"
    BY <1>3, <1>6, <2>3
  <2> QED
    BY <2>1, <2>2, <2>3
<1> QED
  BY <1>2, <1>3, <1>7, <1>8 DEF f

LEMMA StoreSteps ==
  ASSUME IMaster, IMaster', IStore, Sized, [MasterNext]_masterVars
  PROVE  IStore'
<1>1. CASE UNCHANGED masterVars
  BY <1>1 DEF masterVars, IStore
<1>2. CASE SaveStep \/ SqlFails
  BY <1>2, QuietStores, SkipStores, BailStores, OpenStores, SeekStores, EntryStores,
     SqlStores, FinishStores, HeaderStores, CloseStores DEF SaveStep
<1>3. CASE LoadStep
  <2>1. CASE LoadFails \/ BadStream \/ LoadDone
    <3>1. /\ UNCHANGED <<files, save, sealed>> /\ load.at # "idle"
          /\ LoadBails \/ LoadDone
      BY <2>1 DEF LoadFails, BadStream, LoadDone, LoadAt, Inflating
    <3> QED
      BY <3>1, LoadEndStores
  <2> QED
    BY <1>3, <2>1, LoadOpenStores, RefillStores, EntityStores, StringsStores,
       LoadReturnStores DEF LoadStep
<1>4. CASE \E p \in Paths, k \in Keys, s \in Schemas : SaveBegin(p, k, s)
  BY <1>4, BeginStores
<1>5. CASE \E p \in Paths, k \in Keys, f \in Filters : LoadBegin(p, k, f)
  BY <1>5, LoadBeginStores
<1>6. CASE Stop \/ \E p \in Paths : MoveFile(p)
  BY <1>6, RestStores
<1> QED
  BY <1>1, <1>2, <1>3, <1>4, <1>5, <1>6 DEF MasterNext

(* Steps of a save between its fopen and its fclose.                       *)
InsideStep ==
  \/ Prepare \/ WriteDummy \/ SkipRow \/ LongRow \/ WriteEntry \/ WriteSql
  \/ FinishStream \/ FwriteFails \/ ReadSalt \/ Seek \/ SeekFails
  \/ WriteHeader \/ HeaderFails \/ SqlFails

LEMMA InsideContinues ==
  ASSUME IMaster, IMaster', IStore, InsideStep
  PROVE  save.at \in Inside /\ Continues
<1>1. save.at \in Inside
  BY DEF InsideStep, Prepare, WriteDummy, SkipRow, LongRow, WriteEntry, WriteSql,
     FinishStream, FwriteFails, ReadSalt, Seek, SeekFails, WriteHeader, HeaderFails,
     SqlFails, SaveAt, Inside
<1> QED
  BY <1>1, QuietStores, SkipStores, BailStores, SeekStores, EntryStores, SqlStores,
     FinishStores, HeaderStores DEF InsideStep

LEMMA SizedSteps ==
  ASSUME IMaster, IMaster', IStore, IStore', Sized, [MasterNext]_masterVars
  PROVE  Sized'
<1>1. CASE UNCHANGED files
  BY <1>1 DEF Sized
<1>2. CASE InsideStep
  <2>1. Continues
    BY <1>2, InsideContinues
  <2>2. /\ SaveRows(save') /\ SaveFile(save', files'[save'.path])
        /\ save' \in SaveRec /\ save'.rows \in Seq(MasterRow)
    BY DEF IStore, IMaster, Typed, SaveRec
  <2>3. Len(save'.rows) \in Nat
    BY <2>2, LenProperties
  <2>4. files'[save.path].head = "real" => files'[save.path].n >= 0
    BY <2>1, <2>2, <2>3 DEF Continues, SaveRows, SaveFile
  <2> QED
    BY <2>1, <2>4 DEF Sized, Continues
<1>3. CASE SaveOpen
  <2>1. files' = [files EXCEPT ![save.path] = Empty]
    BY <1>3 DEF SaveOpen, InFile
  <2>2. files \in [Paths -> FileRec]
    BY DEF IMaster, Typed
  <2> QED
    BY <2>1, <2>2, EmptyIs DEF Sized
<1>4. CASE Close
  <2>1. PICK g : /\ files' = [files EXCEPT ![save.path] = g]
                 /\ \/ g.head \in {"empty", "dummy"}
                    \/ save.at = "close" /\ g.n = save.units
    BY <1>4, ClosedIs
  <2>2. files \in [Paths -> FileRec] /\ save.rows \in Seq(MasterRow)
    BY DEF IMaster, Typed, SaveRec
  <2>3. save.at = "close" => save.units >= 0
    <3>1. Len(save.rows) \in Nat
      BY <2>2, LenProperties
    <3> QED
      BY <3>1 DEF IStore, SaveRows
  <2>4. g.head = "real" => g.n >= 0
    BY <2>1, <2>3
  <2> QED
    BY <2>1, <2>2, <2>4 DEF Sized
<1>5. ASSUME NEW p \in Paths, MoveFile(p) PROVE Sized'
  <2>1. files \in [Paths -> FileRec]
    BY DEF IMaster, Typed
  <2>2. PICK g : /\ files' = [files EXCEPT ![p] = g]
                 /\ \/ g = Absent
                    \/ \E q \in Paths : files[q].head # "absent" /\ g \in Parts(files[q])
    BY <1>5, MovedIs
  <2>3. g.head = "real" => g.n >= 0
    <3>1. CASE g = Absent
      BY <3>1, EmptyIs
    <3>2. CASE \E q \in Paths : g \in Parts(files[q])
      <4>1. PICK q \in Paths : g \in Parts(files[q])
        BY <3>2
      <4>2. files[q] \in FileRec
        BY <2>1
      <4> QED
        BY <4>1, <4>2, PartIs DEF Sized
    <3> QED
      BY <2>2, <3>1, <3>2
  <2> QED
    BY <2>1, <2>2, <2>3 DEF Sized
<1>6. \/ UNCHANGED files \/ InsideStep \/ SaveOpen \/ Close
      \/ \E p \in Paths : MoveFile(p)
  BY DEF MasterNext, InsideStep, SaveStep, LoadStep, SaveBegin, LoadBegin, Stop, masterVars,
     LoadOpen, ReadHeader, LoadFails, Refill, ReadEntity, ReadStrings, BadStream, LoadDone,
     LoadReturn, LoadAt, DeflateFails, SaveOpenFails, SaveReturn
<1> QED
  BY <1>1, <1>2, <1>3, <1>4, <1>5, <1>6

LEMMA StoreInvariant == MasterSpec => [](IMaster /\ IStore /\ Sized)
<1>1. MasterInit => IStore /\ Sized
  <2> SUFFICES ASSUME MasterInit PROVE IStore /\ Sized
    OBVIOUS
  <2>1. /\ files = [p \in Paths |-> Absent] /\ save = NoSave /\ load = NoLoad
        /\ sealed = {}
    BY DEF MasterInit
  <2>2. save.at = "idle" /\ save.placed = FALSE /\ save.rc = "OK"
    BY <2>1 DEF NoSave
  <2>3. SaveRows(save) /\ SaveFile(save, files[save.path])
    BY <2>2 DEF SaveRows, SaveFile, Inside
  <2>4. IsLoad(load) /\ LoadRows(load, files[load.path])
    BY <2>1, NoLoadIs
  <2>5. Sized
    BY <2>1, EmptyIs DEF Sized
  <2> QED
    BY <2>1, <2>2, <2>3, <2>4, <2>5 DEF IStore
<1>2. IMaster /\ IMaster' /\ IStore /\ Sized /\ [MasterNext]_masterVars => IStore' /\ Sized'
  BY StoreSteps, SizedSteps
<1> QED
  BY <1>1, <1>2, MasterInvariant, PTL DEF MasterSpec

-----------------------------------------------------------------------------
(* Every step is one of the abstract store's, or changes nothing there.    *)

StoreMap == [p \in Paths |-> StoreOf(files[p])]
Rest     == [on |-> FALSE, path |-> Nothing, backup |-> Junk, done |-> FALSE,
             rc |-> "none"]
Run(p, b, done, rc) ==
  [on |-> TRUE, path |-> p, backup |-> b, done |-> done, rc |-> rc]

(* The saving of call s, whose file is f.                                  *)
Saving(s, f) ==
  [on     |-> s.at # "idle",
   path   |-> IF s.at = "idle" THEN Nothing ELSE s.path,
   backup |-> IF s.at = "idle" THEN Junk
              ELSE [rows |-> SavedRows(s.src), key |-> s.key],
   done   |-> s.placed /\ Loads(f),
   rc     |-> IF s.at # "returned" THEN "none"
              ELSE IF s.rc = "OK" THEN "OK" ELSE "failed"]

BackupOf(s) == [rows |-> SavedRows(s.src), key |-> s.key]
Status(s)   == IF s.at # "returned" THEN "none"
               ELSE IF s.rc = "OK" THEN "OK" ELSE "failed"

LEMMA SavingOfIs == SavingOf = Saving(save, files[save.path])
BY DEF SavingOf, Saving

LEMMA RestIs ==
  ASSUME NEW s, NEW f, s.at = "idle", ~ s.placed
  PROVE  Saving(s, f) = Rest
<1>1. (s.placed /\ Loads(f)) = FALSE /\ (s.at # "idle") = FALSE
  OBVIOUS
<1>2. s.at # "returned"
  OBVIOUS
<1> QED
  BY <1>1, <1>2 DEF Saving, Rest

LEMMA RunIs ==
  ASSUME NEW s, NEW f, s.at # "idle", NEW d \in BOOLEAN, (s.placed /\ Loads(f)) = d
  PROVE  Saving(s, f) = Run(s.path, BackupOf(s), d, Status(s))
<1>1. (s.at # "idle") = TRUE
  OBVIOUS
<1> QED
  BY <1>1 DEF Saving, Run, BackupOf, Status

(* What a file is to the store.                                            *)
LEMMA FileIs ==
  ASSUME NEW f \in FileRec
  PROVE  /\ f.head = "absent" => StoreOf(f) = Nothing /\ ~ Loads(f)
         /\ f.head \in {"empty", "dummy"} => StoreOf(f) = Junk /\ ~ Loads(f)
         /\ f.head = "real" /\ f.count = Len(f.rows) /\ 2 * Len(f.rows) <= f.n =>
              StoreOf(f) = [rows |-> f.rows, key |-> f.key] /\ Loads(f)
         /\ f.head = "real" /\ f.count = Len(f.rows) /\ ~ (2 * Len(f.rows) <= f.n) =>
              StoreOf(f) = Junk /\ ~ Loads(f)
<1>1. f.rows \in Seq(MasterRow) /\ Len(f.rows) \in Nat
  BY LenProperties DEF FileRec
<1>2. f.head # "real" => ~ Loads(f)
  BY DEF Loads
<1>3. SubSeq(f.rows, 1, Len(f.rows)) = f.rows
  BY ONLY <1>1
<1>4. f.head = "real" /\ f.count = Len(f.rows) => (Loads(f) <=> 2 * Len(f.rows) <= f.n)
  BY <1>1 DEF Loads
<1>5. f.count = Len(f.rows) => Content(f) = [rows |-> f.rows, key |-> f.key]
  BY <1>3 DEF Content
<1> QED
  BY <1>2, <1>4, <1>5 DEF StoreOf

LEMMA MapIs ==
  ASSUME files \in [Paths -> FileRec], NEW p \in Paths, NEW g,
         \A q \in Paths : q # p => files'[q] = files[q], files'[p] = g
  PROVE  StoreMap' = [StoreMap EXCEPT ![p] = StoreOf(g)]
<1>1. StoreMap' = [q \in Paths |-> StoreOf(files'[q])]
  BY DEF StoreMap
<1>2. \A q \in Paths : StoreOf(files'[q]) = IF q = p THEN StoreOf(g) ELSE StoreOf(files[q])
  OBVIOUS
<1> QED
  BY <1>1, <1>2 DEF StoreMap

LEMMA MapStays == UNCHANGED files => StoreMap' = StoreMap
BY DEF StoreMap

(* The load's answer, as long as it has none.                              *)
LEMMA NoAnswerIs == load.at # "returned" => AnswerOf = Nothing
BY DEF AnswerOf

(* A step of a save between its fopen and its fclose: nothing, until the   *)
(* real header has reached the file; then the backup is there.             *)
LEMMA InsideMaps ==
  ASSUME IMaster, IMaster', IStore, IStore', save.at \in Inside, Continues
  PROVE  \/ StoreMap' = StoreMap /\ SavingOf' = SavingOf /\ AnswerOf' = AnswerOf
         \/ /\ SavingOf = Run(save.path, BackupOf(save), FALSE, "none")
            /\ SavingOf' = Run(save.path, BackupOf(save), TRUE, "none")
            /\ StoreMap' = [StoreMap EXCEPT ![save.path] = BackupOf(save)]
            /\ AnswerOf' = AnswerOf
<1> DEFINE f == files[save.path]
           g == files'[save.path]
<1>1. /\ save.path \in Paths /\ files \in [Paths -> FileRec] /\ f \in FileRec
      /\ f.head \in {"empty", "dummy"}
  BY SaveIs DEF SaveFile, Inside
<1>2. /\ UNCHANGED load /\ save'.at \in Inside \cup {"bail", "close"}
      /\ save'.path = save.path /\ save'.src = save.src /\ save'.key = save.key
      /\ \A p \in Paths : p # save.path => files'[p] = files[p]
  BY DEF Continues
<1>3. AnswerOf' = AnswerOf
  BY <1>2 DEF AnswerOf
<1>4. /\ g \in FileRec /\ save' \in SaveRec /\ SaveRows(save') /\ SaveFile(save', g)
  BY <1>1, <1>2 DEF IMaster, Typed, IStore
<1>5. g.head = "real" => g.count = Len(g.rows)
  BY <1>1 DEF IMaster, FilesKept, Kept
<1>6. BackupOf(save') = BackupOf(save) /\ Status(save) = "none" /\ Status(save') = "none"
  BY <1>2 DEF BackupOf, Status, Inside
<1>7. StoreMap' = [StoreMap EXCEPT ![save.path] = StoreOf(g)]
  BY <1>1, <1>2, MapIs
<1>8. StoreOf(f) = Junk /\ ~ Loads(f)
  BY <1>1, FileIs
<1>9. SavingOf = Run(save.path, BackupOf(save), FALSE, "none")
  <2>1. (save.placed /\ Loads(f)) = FALSE /\ save.at # "idle"
    BY <1>8 DEF Inside
  <2> QED
    BY <1>6, <2>1, SavingOfIs, RunIs
<1>10. SavingOf' = Saving(save', g)
  BY <1>2 DEF SavingOf, Saving
<1>11. save'.at # "idle"
  BY <1>2 DEF Inside
<1>12. CASE g.head = "real"
  <2>1. save'.at = "close" /\ save'.placed /\ g.n = save'.units
    BY <1>2, <1>4, <1>12 DEF SaveFile
  <2>2. g.rows = save'.rows /\ g.key = save'.key
    BY <1>2, <1>12, <2>1 DEF IMaster, Writing
  <2>3. save'.rows = SavedRows(save'.src) /\ g.n = 2 * Len(g.rows) + 1
    BY <1>4, <2>1, <2>2 DEF SaveRows
  <2>4. g.rows \in Seq(MasterRow) /\ Len(g.rows) \in Nat
    BY <1>4, LenProperties DEF FileRec
  <2>5. 2 * Len(g.rows) <= g.n
    BY <2>3, <2>4
  <2>6. StoreOf(g) = [rows |-> g.rows, key |-> g.key] /\ Loads(g)
    BY <1>4, <1>5, <1>12, <2>5, FileIs
  <2>7. StoreOf(g) = BackupOf(save)
    BY <1>2, <2>2, <2>3, <2>6 DEF BackupOf
  <2>8. (save'.placed /\ Loads(g)) = TRUE
    BY <2>1, <2>6
  <2>9. SavingOf' = Run(save.path, BackupOf(save), TRUE, "none")
    BY <1>2, <1>6, <1>10, <1>11, <2>8, RunIs
  <2> QED
    BY <1>3, <1>7, <1>9, <2>7, <2>9
<1>13. CASE g.head # "real"
  <2>1. g.head \in {"empty", "dummy"}
    BY <1>2, <1>4, <1>13 DEF SaveFile, FileRec
  <2>2. StoreOf(g) = Junk /\ ~ Loads(g)
    BY <1>4, <2>1, FileIs
  <2>3. (save'.placed /\ Loads(g)) = FALSE
    BY <2>2
  <2>4. SavingOf' = Run(save.path, BackupOf(save), FALSE, "none")
    BY <1>2, <1>6, <1>10, <1>11, <2>3, RunIs
  <2>5. StoreMap' = StoreMap
    BY <1>1, <1>7, <1>8, <2>2 DEF StoreMap
  <2> QED
    BY <1>3, <1>9, <2>4, <2>5
<1> QED
  BY <1>12, <1>13

(* fopen spoils what the path held; before it the call may return.         *)
LEMMA OpenMaps ==
  ASSUME IMaster, IMaster', IStore, IStore', SaveOpen \/ DeflateFails \/ SaveOpenFails
  PROVE  /\ SavingOf = Run(save.path, BackupOf(save), FALSE, "none")
         /\ AnswerOf' = AnswerOf
         /\ \/ /\ SavingOf' = SavingOf
               /\ StoreMap' = [StoreMap EXCEPT ![save.path] = Junk]
            \/ /\ StoreMap' = StoreMap
               /\ \E rc \in {"OK", "failed"} :
                    SavingOf' = Run(save.path, BackupOf(save), FALSE, rc)
<1>1. save.at = "open" /\ UNCHANGED load
  BY DEF SaveOpen, DeflateFails, SaveOpenFails, SaveAt
<1>2. /\ save \in SaveRec /\ SaveRows(save)
      /\ files \in [Paths -> FileRec] /\ save.path \in Paths
  BY <1>1, SaveIs
<1>3. ~ save.placed
  BY <1>1, <1>2 DEF SaveRows
<1>4. SavingOf = Run(save.path, BackupOf(save), FALSE, "none")
  <2>1. (save.placed /\ Loads(files[save.path])) = FALSE /\ save.at # "idle"
    BY <1>1, <1>3
  <2>2. Status(save) = "none"
    BY <1>1 DEF Status
  <2> QED
    BY <2>1, <2>2, SavingOfIs, RunIs
<1>5. AnswerOf' = AnswerOf
  BY <1>1 DEF AnswerOf
<1>6. SavingOf' = Saving(save', files'[save'.path])
  BY DEF SavingOf, Saving
<1>7. CASE SaveOpen
  <2>1. /\ save'.at = "prepare" /\ save'.path = save.path /\ save'.src = save.src
        /\ save'.key = save.key /\ save'.placed = save.placed
    BY <1>2, <1>7 DEF SaveOpen, SaveRec
  <2>2. (save'.placed /\ Loads(files'[save'.path])) = FALSE /\ save'.at # "idle"
    BY <1>3, <2>1
  <2>3. Status(save') = "none" /\ BackupOf(save') = BackupOf(save)
    BY <2>1 DEF Status, BackupOf
  <2>4. SavingOf' = Run(save.path, BackupOf(save), FALSE, "none")
    BY <1>6, <2>1, <2>2, <2>3, RunIs
  <2>5. StoreMap' = [StoreMap EXCEPT ![save.path] = StoreOf(Empty)]
    <3>1. files' = [files EXCEPT ![save.path] = Empty]
      BY <1>7 DEF SaveOpen, InFile
    <3>2. /\ files'[save.path] = Empty
          /\ \A q \in Paths : q # save.path => files'[q] = files[q]
      BY <1>2, <3>1
    <3> QED
      BY <1>2, <3>2, MapIs
  <2>6. StoreOf(Empty) = Junk
    BY EmptyIs, FileIs
  <2> QED
    BY <1>4, <1>5, <2>4, <2>5, <2>6
<1>8. CASE DeflateFails \/ SaveOpenFails
  <2>1. /\ save'.at = "returned" /\ save'.path = save.path /\ save'.src = save.src
        /\ save'.key = save.key /\ save'.placed = save.placed
    <3>1. CASE DeflateFails
      BY <1>2, <3>1 DEF DeflateFails, SaveRec
    <3>2. CASE SaveOpenFails
      BY <1>2, <3>2 DEF SaveOpenFails, SaveRec
    <3> QED
      BY <1>8, <3>1, <3>2
  <2>2. (save'.placed /\ Loads(files'[save'.path])) = FALSE /\ save'.at # "idle"
    BY <1>3, <2>1
  <2>3. Status(save') \in {"OK", "failed"} /\ BackupOf(save') = BackupOf(save)
    BY <2>1 DEF Status, BackupOf
  <2>4. SavingOf' = Run(save.path, BackupOf(save), FALSE, Status(save'))
    BY <1>6, <2>1, <2>2, <2>3, RunIs
  <2>5. StoreMap' = StoreMap
    BY <1>8, MapStays DEF DeflateFails, SaveOpenFails
  <2> QED
    BY <1>4, <1>5, <2>3, <2>4, <2>5
<1> QED
  BY <1>7, <1>8

(* fclose: the backup appears now, has appeared, or never will.            *)
LEMMA CloseMaps ==
  ASSUME IMaster, IMaster', IStore, IStore', Close
  PROVE  /\ AnswerOf' = AnswerOf
         /\ \E done, rc :
              /\ SavingOf = Run(save.path, BackupOf(save), done, "none")
              /\ \/ /\ done \in BOOLEAN /\ rc \in {"OK", "failed"}
                    /\ done => rc = "OK"
                    /\ StoreMap' = StoreMap
                    /\ SavingOf' = Run(save.path, BackupOf(save), done, rc)
                 \/ /\ done = FALSE /\ rc = "OK"
                    /\ StoreMap' = [StoreMap EXCEPT ![save.path] = BackupOf(save)]
                    /\ SavingOf' = Run(save.path, BackupOf(save), TRUE, rc)
<1> DEFINE f == files[save.path]
           g == files'[save.path]
<1>1. save.at \in {"close", "bail"} /\ UNCHANGED load
  BY DEF Close, SaveAt
<1>2. /\ save \in SaveRec /\ save.path \in Paths /\ files \in [Paths -> FileRec]
      /\ f \in FileRec /\ f.head # "absent" /\ g \in FileRec
      /\ \A q \in Paths : q # save.path => files'[q] = files[q]
      /\ \/ g.head \in {"empty", "dummy"} /\ f.head # "real"
         \/ /\ save.at = "close" /\ save.placed
            /\ g.head = "real" /\ g.n = save.units /\ g.rows = save.rows
            /\ g.key = save.key /\ g.count = Len(save.rows)
  BY ClosedIs
<1>3. SaveRows(save) /\ SaveFile(save, f) /\ FilesKept
  BY <1>1, SaveIs
<1>4. AnswerOf' = AnswerOf
  BY <1>1 DEF AnswerOf
<1>5. /\ save'.at = "returned" /\ save'.path = save.path /\ save'.src = save.src
      /\ save'.key = save.key /\ save'.placed = save.placed /\ save'.rc = save.rc
  BY <1>2 DEF Close, SaveRec
<1>6. SavingOf' = Saving(save', g)
  BY <1>5 DEF SavingOf, Saving
<1>7. StoreMap' = [StoreMap EXCEPT ![save.path] = StoreOf(g)]
  BY <1>2, MapIs
<1>8. /\ Status(save) = "none" /\ BackupOf(save') = BackupOf(save)
      /\ Status(save') \in {"OK", "failed"}
      /\ save.at # "idle" /\ save'.at # "idle"
  BY <1>1, <1>5 DEF Status, BackupOf
<1>9. save.at = "close" => Status(save') = "OK"
  BY <1>3, <1>5 DEF SaveRows, Status
<1>10. CASE g.head # "real"
  <2>1. StoreOf(f) = Junk /\ ~ Loads(f) /\ StoreOf(g) = Junk /\ ~ Loads(g)
    <3>1. f.head \in {"empty", "dummy"} /\ g.head \in {"empty", "dummy"}
      BY <1>2, <1>10 DEF FileRec
    <3> QED
      BY <1>2, <3>1, FileIs
  <2>2. (save.placed /\ Loads(f)) = FALSE /\ (save'.placed /\ Loads(g)) = FALSE
    BY <2>1
  <2>3. SavingOf = Run(save.path, BackupOf(save), FALSE, "none")
    BY <1>8, <2>2, SavingOfIs, RunIs
  <2>4. SavingOf' = Run(save.path, BackupOf(save), FALSE, Status(save'))
    BY <1>5, <1>6, <1>8, <2>2, RunIs
  <2>5. StoreMap' = StoreMap
    BY <1>2, <1>7, <2>1 DEF StoreMap
  <2> QED
    BY <1>4, <1>8, <2>3, <2>4, <2>5
<1>11. CASE g.head = "real"
  <2>1. /\ save.at = "close" /\ save.placed /\ g.n = save.units /\ g.rows = save.rows
        /\ g.key = save.key /\ g.count = Len(g.rows)
    BY <1>2, <1>11
  <2>2. /\ g.rows = SavedRows(save.src) /\ g.n = 2 * Len(g.rows) + 1
        /\ g.rows \in Seq(MasterRow)
    BY <1>2, <1>3, <2>1 DEF SaveRows, SaveRec
  <2>3. 2 * Len(g.rows) <= g.n
    BY <2>2, LenProperties
  <2>4. StoreOf(g) = [rows |-> g.rows, key |-> g.key] /\ Loads(g)
    BY <1>2, <1>11, <2>1, <2>3, FileIs
  <2>5. StoreOf(g) = BackupOf(save)
    BY <2>1, <2>2, <2>4 DEF BackupOf
  <2>6. (save'.placed /\ Loads(g)) = TRUE
    BY <1>5, <2>1, <2>4
  <2>7. SavingOf' = Run(save.path, BackupOf(save), TRUE, "OK")
    BY <1>5, <1>6, <1>8, <1>9, <2>1, <2>6, RunIs
  <2>8. CASE f.head = "real"
    <3>1. f.rows = save.rows /\ f.key = save.key
      BY <2>1, <2>8 DEF IMaster, Writing
    <3>2. f.n = save.units /\ f.count = Len(f.rows)
      BY <1>2, <1>3, <2>1, <2>8 DEF SaveFile, FilesKept, Kept
    <3>3. StoreOf(f) = [rows |-> f.rows, key |-> f.key] /\ Loads(f)
      BY <1>2, <2>1, <2>3, <2>8, <3>1, <3>2, FileIs
    <3>4. StoreMap' = StoreMap
      BY <1>2, <1>7, <2>1, <2>4, <3>1, <3>3 DEF StoreMap
    <3>5. (save.placed /\ Loads(f)) = TRUE
      BY <2>1, <3>3
    <3>6. SavingOf = Run(save.path, BackupOf(save), TRUE, "none")
      BY <1>8, <3>5, SavingOfIs, RunIs
    <3> QED
      BY <1>4, <2>7, <3>4, <3>6
  <2>9. CASE f.head # "real"
    <3>1. f.head \in {"empty", "dummy"}
      BY <1>2, <2>9 DEF FileRec
    <3>2. (save.placed /\ Loads(f)) = FALSE
      BY <1>2, <3>1, FileIs
    <3>3. SavingOf = Run(save.path, BackupOf(save), FALSE, "none")
      BY <1>8, <3>2, SavingOfIs, RunIs
    <3> QED
      BY <1>4, <1>7, <2>5, <2>7, <3>3
  <2> QED
    BY <2>8, <2>9
<1> QED
  BY <1>10, <1>11

-----------------------------------------------------------------------------
(* The same as steps of BackupStore.                                       *)

LEMMA NotSavingIs == Store!NotSaving = Rest /\ Store!NoAnswer = Nothing
BY DEF Store!NotSaving, Store!NoAnswer, Rest

(* BackupStore's rows are those of this module.                            *)
LEMMA SameRows ==
  /\ \A s : Store!SavedRows(s) = SavedRows(s)
  /\ \A rows, filter : Store!Selection(rows, filter) = Selection(rows, filter)
<1>1. ASSUME NEW s PROVE Store!SavedRows(s) = SavedRows(s)
  BY DEF Store!SavedRows, Store!SavedTo, Store!Saved, SavedRows, SavedTo, Saved
<1>2. ASSUME NEW rows, NEW filter
      PROVE  Store!Selection(rows, filter) = Selection(rows, filter)
  BY DEF Store!Selection, Store!Selected, Store!Unknown, Selection, Selected, Unknown
<1> QED
  BY <1>1, <1>2

Returned(run, rc)  == [run EXCEPT !.rc = rc]
Committed(run, rc) == [run EXCEPT !.done = TRUE, !.rc = rc]
Begun(run, p, b)   == [run EXCEPT !.on = TRUE, !.path = p, !.backup = b]

LEMMA RunReturns ==
  ASSUME NEW p, NEW b, NEW done, NEW rc
  PROVE  Returned(Run(p, b, done, "none"), rc) = Run(p, b, done, rc)
<1>1. PICK t : t = TRUE
  OBVIOUS
<1>2. PICK n : n = "none"
  OBVIOUS
<1>3. [[on |-> t, path |-> p, backup |-> b, done |-> done, rc |-> n] EXCEPT !.rc = rc]
        = [on |-> t, path |-> p, backup |-> b, done |-> done, rc |-> rc]
  OBVIOUS
<1> QED
  BY <1>1, <1>2, <1>3 DEF Returned, Run

LEMMA RunSets ==
  ASSUME NEW p, NEW b, NEW done, NEW rc
  PROVE  /\ Committed(Run(p, b, done, "none"), rc) = Run(p, b, TRUE, rc)
         /\ Begun(Rest, p, b) = Run(p, b, FALSE, "none")
<1>1. PICK t : t = TRUE
  OBVIOUS
<1>2. PICK f : f = FALSE
  OBVIOUS
<1>3. PICK n : n = "none"
  OBVIOUS
<1> DEFINE R(o, x, y, d, r) == [on |-> o, path |-> x, backup |-> y, done |-> d, rc |-> r]
<1>4. [R(t, p, b, done, n) EXCEPT !.done = t] = R(t, p, b, t, n)
  OBVIOUS
<1>5. [R(t, p, b, t, n) EXCEPT !.rc = rc] = R(t, p, b, t, rc)
  OBVIOUS
<1>6. [R(f, Nothing, Junk, f, n) EXCEPT !.on = t] = R(t, Nothing, Junk, f, n)
  OBVIOUS
<1>7. [R(t, Nothing, Junk, f, n) EXCEPT !.path = p] = R(t, p, Junk, f, n)
  OBVIOUS
<1>8. [R(t, p, Junk, f, n) EXCEPT !.backup = b] = R(t, p, b, f, n)
  OBVIOUS
<1>9. Rest = R(f, Nothing, Junk, f, n) /\ \A x, y, d, r : Run(x, y, d, r) = R(t, x, y, d, r)
  BY <1>1, <1>2, <1>3 DEF Rest, Run
<1> HIDE DEF R
<1>10. [Run(p, b, done, "none") EXCEPT !.done = TRUE, !.rc = rc] = Run(p, b, TRUE, rc)
  BY <1>1, <1>3, <1>4, <1>5, <1>9
<1>11. [Rest EXCEPT !.on = TRUE, !.path = p, !.backup = b] = Run(p, b, FALSE, "none")
  BY <1>1, <1>2, <1>3, <1>6, <1>7, <1>8, <1>9
<1> QED
  BY <1>10, <1>11 DEF Committed, Begun

LEMMA AsBegin ==
  ASSUME NEW p, NEW b, SavingOf = Rest, SavingOf' = Run(p, b, FALSE, "none"),
         StoreMap' = StoreMap, AnswerOf' = AnswerOf
  PROVE  Store!Begin(p, b)
<1>1. ~ SavingOf.on
  BY DEF Rest
<1>2. SavingOf' = [Rest EXCEPT !.on = TRUE, !.path = p, !.backup = b]
  <2>1. Begun(Rest, p, b) = Run(p, b, FALSE, "none")
    BY RunSets
  <2> QED
    BY <2>1 DEF Begun
<1> QED
  BY <1>1, <1>2, NotSavingIs DEF Store!Begin, StoreMap

LEMMA AsSpoil ==
  ASSUME NEW p, NEW b, SavingOf = Run(p, b, FALSE, "none"), SavingOf' = SavingOf,
         StoreMap' = [StoreMap EXCEPT ![p] = Junk], AnswerOf' = AnswerOf
  PROVE  Store!Spoil("none")
<1>1. /\ SavingOf.on /\ SavingOf.rc = "none" /\ ~ SavingOf.done /\ SavingOf.path = p
  BY DEF Run
<1>2. SavingOf' = [SavingOf EXCEPT !.rc = "none"]
  <2>1. Returned(Run(p, b, FALSE, "none"), "none") = Run(p, b, FALSE, "none")
    BY RunReturns
  <2> QED
    BY <2>1 DEF Returned
<1> QED
  BY <1>1, <1>2 DEF Store!Spoil, StoreMap

LEMMA AsCommit ==
  ASSUME NEW p, NEW b, NEW rc \in {"none", "OK"},
         SavingOf = Run(p, b, FALSE, "none"), SavingOf' = Run(p, b, TRUE, rc),
         StoreMap' = [StoreMap EXCEPT ![p] = b], AnswerOf' = AnswerOf
  PROVE  Store!Commit(rc)
<1>1. /\ SavingOf.on /\ SavingOf.rc = "none" /\ ~ SavingOf.done /\ SavingOf.path = p
      /\ SavingOf.backup = b /\ rc # "failed"
  BY DEF Run
<1>2. SavingOf' = [SavingOf EXCEPT !.done = TRUE, !.rc = rc]
  <2>1. Committed(Run(p, b, FALSE, "none"), rc) = Run(p, b, TRUE, rc)
    BY RunSets
  <2> QED
    BY <2>1 DEF Committed
<1> QED
  BY <1>1, <1>2 DEF Store!Commit, StoreMap

LEMMA AsReturn ==
  ASSUME NEW p, NEW b, NEW done, NEW rc \in {"OK", "failed"},
         done => rc = "OK",
         SavingOf = Run(p, b, done, "none"), SavingOf' = Run(p, b, done, rc),
         StoreMap' = StoreMap, AnswerOf' = AnswerOf
  PROVE  Store!Return(rc)
<1>1. /\ SavingOf.on /\ SavingOf.rc = "none" /\ (SavingOf.done => rc # "failed")
  BY DEF Run
<1>2. SavingOf' = [SavingOf EXCEPT !.rc = rc]
  <2>1. Returned(Run(p, b, done, "none"), rc) = Run(p, b, done, rc)
    BY RunReturns
  <2> QED
    BY <2>1 DEF Returned
<1> QED
  BY <1>1, <1>2 DEF Store!Return, StoreMap

(* Between the calls.                                                      *)
LEMMA IdleMaps ==
  ASSUME IStore, save.at = "idle"
  PROVE  SavingOf = Rest
<1>1. ~ save.placed
  BY DEF IStore, SaveRows
<1> QED
  BY <1>1, RestIs, SavingOfIs

LEMMA BeginMaps ==
  ASSUME IMaster, IStore, NEW p \in Paths, NEW k \in Keys, NEW s \in Schemas,
         SaveBegin(p, k, s)
  PROVE  Store!Begin(p, Store!Backup(SavedRows(s), k))
<1>1. /\ save.at = "idle" /\ UNCHANGED <<files, load>>
      /\ save' = [NoSave EXCEPT !.at = "open", !.path = p, !.key = k, !.src = s]
  BY DEF SaveBegin, Idle
<1>2. /\ save'.at = "open" /\ save'.path = p /\ save'.src = s /\ save'.key = k
      /\ save'.placed = FALSE
  BY <1>1 DEF NoSave
<1>3. SavingOf' = Saving(save', files'[save'.path])
  BY DEF SavingOf, Saving
<1>4. /\ (save'.placed /\ Loads(files'[save'.path])) = FALSE /\ save'.at # "idle"
      /\ Status(save') = "none" /\ BackupOf(save') = Store!Backup(SavedRows(s), k)
  BY <1>2 DEF Status, BackupOf, Store!Backup
<1>5. SavingOf' = Run(p, Store!Backup(SavedRows(s), k), FALSE, "none")
  BY <1>2, <1>3, <1>4, RunIs
<1>6. AnswerOf' = AnswerOf /\ StoreMap' = StoreMap
  BY <1>1, MapStays DEF AnswerOf
<1> QED
  BY <1>1, <1>5, <1>6, IdleMaps, AsBegin

LEMMA ReturnMaps ==
  ASSUME IMaster, IStore, IStore', SaveReturn
  PROVE  Store!End
<1>1. /\ save.at = "returned" /\ save' = NoSave /\ UNCHANGED <<files, load>>
  BY DEF SaveReturn, SaveAt
<1>2. SavingOf.on /\ SavingOf.rc # "none"
  BY <1>1 DEF SavingOf
<1>3. SavingOf' = Rest
  <2>1. save'.at = "idle" /\ ~ save'.placed
    BY <1>1 DEF NoSave
  <2>2. SavingOf' = Saving(save', files'[save'.path])
    BY DEF SavingOf, Saving
  <2> QED
    BY <2>1, <2>2, RestIs
<1>4. AnswerOf' = AnswerOf /\ StoreMap' = StoreMap
  BY <1>1, MapStays DEF AnswerOf
<1> QED
  BY <1>2, <1>3, <1>4, NotSavingIs DEF Store!End, StoreMap

-----------------------------------------------------------------------------
(* The load.                                                               *)

LEMMA QuietLoad ==
  ASSUME UNCHANGED <<files, save>>
  PROVE  StoreMap' = StoreMap /\ SavingOf' = SavingOf
BY MapStays DEF SavingOf

(* It is refused.                                                          *)
LEMMA RefusedMaps ==
  ASSUME IMaster, IStore, UNCHANGED <<files, save>>, LoadBails, load.at # "idle"
  PROVE  \E p \in Paths, k \in Keys, z \in Filters : Store!Answer(p, k, z)
<1>1. load.path \in Paths /\ load.key \in Keys /\ load.filter \in Filters /\ IsLoad(load)
  BY LoadIs
<1>2. load'.at = "returned" /\ load'.rc = "DAMAGED"
  BY <1>1, LoadIsRefused
<1>3. AnswerOf' = Refused
  BY <1>2 DEF AnswerOf
<1>4. Store!Answer(load.path, load.key, load.filter)
  BY <1>3, QuietLoad DEF Store!Answer, StoreMap
<1> QED
  BY <1>1, <1>4

(* It has the whole backup.                                                *)
LEMMA DoneMaps ==
  ASSUME IMaster, IStore, LoadDone
  PROVE  \E p \in Paths, k \in Keys, z \in Filters : Store!Answer(p, k, z)
<1>1. /\ load.at = "entity" /\ load.left = 0 /\ UNCHANGED <<files, save>>
      /\ load' = [load EXCEPT !.at = "returned"]
  BY DEF LoadDone, LoadAt
<1>2. /\ LoadRows(load, InHand) /\ IsLoad(load) /\ InHand.head = "real"
      /\ load.path \in Paths /\ load.key \in Keys /\ load.filter \in Filters
      /\ InHand \in FileRec /\ InHand.rows \in Seq(MasterRow) /\ InHand.n \in Int
      /\ Len(InHand.rows) \in Nat /\ InHand.count = Len(InHand.rows)
      /\ Sealed(InHand.rows, InHand.key) /\ load.rc = "OK"
  BY <1>1, LoadIs DEF LoadRows
<1>3. PICK j \in Nat : HasRead(load, InHand, j)
  BY <1>1, <1>2 DEF LoadRows
<1>4. j = Len(InHand.rows)
  <2>1. load.left = InHand.count - j
    BY <1>3 DEF HasRead
  <2> QED
    BY <1>1, <1>2, <2>1
<1>5. 2 * Len(InHand.rows) <= InHand.n
  <2>1. load.pos <= InHand.n /\ load.pos - load.avail = 2 * j
    BY <1>1, <1>3 DEF HasRead
  <2>2. load.pos \in Int /\ load.avail \in Nat
    BY <1>2 DEF IsLoad
  <2> QED
    BY <1>2, <1>4, <2>1, <2>2
<1>6. SubSeq(InHand.rows, 1, j) = InHand.rows
  BY ONLY <1>2, <1>4
<1>7. load.got = Selection(InHand.rows, load.filter)
  BY <1>3, <1>6 DEF HasRead
<1> DEFINE c == [rows |-> InHand.rows, key |-> InHand.key]
<1>8. StoreOf(InHand) = c
  BY <1>2, <1>5, FileIs
<1>9. c \notin {Nothing, Junk}
  <2>1. PICK s \in Schemas, k \in Keys : c = [rows |-> SavedRows(s), key |-> k]
    BY <1>2 DEF Sealed, IStore
  <2> QED
    BY <2>1, StoreAssumption
<1>10. c.key = load.key \/ c.rows = <<>>
  <2>1. CASE j > 0
    BY <1>3, <2>1 DEF HasRead
  <2>2. CASE j = 0
    <3>1. Len(InHand.rows) = 0
      BY <1>4, <2>2
    <3>2. InHand.rows = <<>>
      BY <1>2, <3>1, EmptySeq
    <3> QED
      BY <3>2
  <2> QED
    BY <2>1, <2>2
<1>11. AnswerOf' = Selection(c.rows, load.filter)
  <2>1. load'.at = "returned" /\ load'.rc = "OK" /\ load'.got = load.got
    BY <1>1, <1>2, LoadGoesTo
  <2> QED
    BY <1>7, <2>1 DEF AnswerOf
<1>12. StoreMap[load.path] = c
  BY <1>2, <1>8 DEF StoreMap, InHand
<1> HIDE DEF c
<1>13. Store!Accepts(c, load.key)
  BY <1>9, <1>10 DEF Store!Accepts, Store!IsBackup
<1>14. Store!Answer(load.path, load.key, load.filter)
  <2>1. StoreMap' = StoreMap /\ SavingOf' = SavingOf
    BY <1>1, QuietLoad
  <2>2. AnswerOf' \in {Refused} \cup {Selection(d.rows, load.filter) :
                        d \in {d \in {StoreMap[load.path]} : Store!Accepts(d, load.key)}}
    BY <1>11, <1>12, <1>13
  <2> QED
    BY <2>1, <2>2, SameRows DEF Store!Answer, StoreMap
<1> QED
  BY <1>2, <1>14

(* What a step of the load is to the store.                                *)
LEMMA LoadMaps ==
  ASSUME IMaster, IStore, LoadStep
  PROVE  \/ StoreMap' = StoreMap /\ SavingOf' = SavingOf /\ AnswerOf' = AnswerOf
         \/ \E p \in Paths, k \in Keys, z \in Filters : Store!Answer(p, k, z)
         \/ Store!Take
<1>1. UNCHANGED <<files, save>> /\ load.at # "idle"
  <2>1. CASE LoadFails \/ BadStream \/ Refill
    BY <2>1 DEF LoadFails, BadStream, Refill, Hungry, Inflating, LoadAt
  <2>2. CASE LoadOpen \/ ReadHeader \/ ReadEntity \/ ReadStrings
    BY <2>2 DEF LoadOpen, ReadHeader, ReadEntity, ReadStrings, LoadAt
  <2>3. CASE LoadDone \/ LoadReturn
    BY <2>3 DEF LoadDone, LoadReturn, LoadAt
  <2> QED
    BY <2>1, <2>2, <2>3 DEF LoadStep
<1>2. /\ StoreMap' = StoreMap /\ SavingOf' = SavingOf /\ IsLoad(load)
      /\ InHand.count \in Int
  BY <1>1, QuietLoad, LoadIs
<1>3. CASE LoadBails
  BY <1>1, <1>3, RefusedMaps
<1>4. CASE LoadDone
  BY <1>4, DoneMaps
<1>5. CASE LoadReturn
  <2>1. load' = NoLoad
    BY <1>5 DEF LoadReturn
  <2>2. AnswerOf' = Nothing
    BY <2>1, NoLoadIs DEF AnswerOf
  <2> QED
    BY <1>2, <2>2, NotSavingIs DEF Store!Take, StoreMap
<1>6. CASE load.at # "returned" /\ load'.at # "returned"
  BY <1>2, <1>6 DEF AnswerOf
<1>7. \/ LoadBails \/ LoadDone \/ LoadReturn
      \/ load.at # "returned" /\ load'.at # "returned"
  <2>1. CASE LoadOpen
    <3>1. load' = [load EXCEPT !.at = "header"] => load'.at = "header"
      BY <1>2, LoadGoesTo
    <3> QED
      BY <2>1, <3>1 DEF LoadOpen, LoadAt
  <2>2. CASE ReadHeader
    <3>1. load' = [load EXCEPT !.at = "entity", !.left = InHand.count]
            => load'.at = "entity"
      BY <1>2, LoadCounts
    <3> QED
      BY <2>2, <3>1 DEF ReadHeader, LoadAt
  <2>3. CASE LoadFails \/ BadStream
    BY <2>3 DEF LoadFails, BadStream
  <2>4. CASE Refill
    BY <2>4, RefillStores
  <2>5. CASE ReadEntity \/ ReadStrings
    BY <2>5, EntityStores, StringsStores
  <2> QED
    BY <1>1, <2>1, <2>2, <2>3, <2>4, <2>5 DEF LoadStep
<1> QED
  BY <1>3, <1>4, <1>5, <1>6, <1>7

-----------------------------------------------------------------------------
(* Files that are moved; the stop of the process.                          *)

LEMMA MoveMaps ==
  ASSUME IMaster, IStore, NEW p \in Paths, MoveFile(p)
  PROVE  Store!Move(p)
<1>1. /\ save.at = "idle" /\ UNCHANGED <<save, load>> /\ files \in [Paths -> FileRec]
  BY MovedIs
<1>2. PICK g : /\ files' = [files EXCEPT ![p] = g]
               /\ \/ g = Absent
                  \/ \E q \in Paths : files[q].head # "absent" /\ g \in Parts(files[q])
  BY MovedIs
<1>3. SavingOf = Rest
  BY <1>1, IdleMaps
<1>4. SavingOf' = Rest /\ AnswerOf' = AnswerOf
  <2>1. ~ save.placed
    BY <1>1 DEF IStore, SaveRows
  <2>2. SavingOf' = Saving(save, files'[save.path])
    BY <1>1 DEF SavingOf, Saving
  <2> QED
    BY <1>1, <2>1, <2>2, RestIs DEF AnswerOf
<1>5. StoreMap' = [StoreMap EXCEPT ![p] = StoreOf(g)]
  <2>1. files'[p] = g /\ \A q \in Paths : q # p => files'[q] = files[q]
    BY <1>1, <1>2
  <2> QED
    BY <1>1, <2>1, MapIs
<1>6. StoreOf(g) \in {Nothing, Junk} \cup {StoreMap[q] : q \in Paths}
  <2>1. CASE g = Absent
    BY <2>1, EmptyIs, FileIs
  <2>2. CASE \E q \in Paths : files[q].head # "absent" /\ g \in Parts(files[q])
    <3>1. PICK q \in Paths : files[q].head # "absent" /\ g \in Parts(files[q])
      BY <2>2
    <3>2. PICK f \in FileRec : f = files[q]
      BY <1>1
    <3>3. StoreMap[q] = StoreOf(f)
      BY <3>2 DEF StoreMap
    <3>4. /\ g \in FileRec
          /\ \/ g.head = "empty"
             \/ /\ g.head = f.head /\ g.count = f.count /\ g.rows = f.rows
                /\ g.key = f.key /\ g.n <= f.n
      BY <3>1, <3>2, PartIs
    <3>5. CASE g.head \in {"empty", "dummy"}
      BY <3>4, <3>5, FileIs
    <3>6. CASE g.head = "real" /\ g.head = f.head /\ g.count = f.count /\ g.rows = f.rows
               /\ g.key = f.key /\ g.n <= f.n
      <4>1. f.count = Len(f.rows)
        BY <3>2, <3>6 DEF IMaster, FilesKept, Kept
      <4>2. CASE ~ (2 * Len(g.rows) <= g.n)
        BY <3>4, <3>6, <4>1, <4>2, FileIs
      <4>3. CASE 2 * Len(g.rows) <= g.n
        <5>1. f.rows \in Seq(MasterRow) /\ f.n \in Int /\ g.n \in Int
          BY <3>4 DEF FileRec
        <5>2. 2 * Len(f.rows) <= f.n
          BY <3>6, <4>3, <5>1, LenProperties
        <5>3. /\ StoreOf(f) = [rows |-> f.rows, key |-> f.key]
              /\ StoreOf(g) = [rows |-> g.rows, key |-> g.key]
          BY <3>4, <3>6, <4>1, <4>3, <5>2, FileIs
        <5> QED
          BY <3>3, <3>6, <5>3
      <4> QED
        BY <4>2, <4>3
    <3> QED
      BY <3>1, <3>2, <3>4, <3>5, <3>6 DEF FileRec
  <2> QED
    BY <1>2, <2>1, <2>2
<1>7. ~ SavingOf.on
  BY <1>3 DEF Rest
<1> QED
  BY <1>3, <1>4, <1>5, <1>6, <1>7 DEF Store!Move, StoreMap

LEMMA StopMaps ==
  ASSUME Stop
  PROVE  Store!Restart
<1>1. save' = NoSave /\ load' = NoLoad /\ UNCHANGED files
  BY DEF Stop
<1>2. SavingOf' = Rest
  <2>1. save'.at = "idle" /\ ~ save'.placed
    BY <1>1 DEF NoSave
  <2>2. SavingOf' = Saving(save', files'[save'.path])
    BY DEF SavingOf, Saving
  <2> QED
    BY <2>1, <2>2, RestIs
<1>3. AnswerOf' = Nothing
  BY <1>1, NoLoadIs DEF AnswerOf
<1> QED
  BY <1>1, <1>2, <1>3, MapStays, NotSavingIs DEF Store!Restart, StoreMap

(* Every step.                                                             *)
LEMMA MasterMaps ==
  ASSUME IMaster, IMaster', IStore, IStore', [MasterNext]_masterVars
  PROVE  [Store!StoreNext]_(Store!storeVars)
<1>1. CASE StoreMap' = StoreMap /\ SavingOf' = SavingOf /\ AnswerOf' = AnswerOf
  BY <1>1 DEF Store!storeVars, StoreMap
<1>2. CASE UNCHANGED masterVars
  BY <1>1, <1>2, MapStays DEF masterVars, SavingOf, AnswerOf
<1>3. CASE InsideStep
  <2>1. save.at \in Inside /\ Continues
    BY <1>3, InsideContinues
  <2>2. CASE /\ SavingOf = Run(save.path, BackupOf(save), FALSE, "none")
             /\ SavingOf' = Run(save.path, BackupOf(save), TRUE, "none")
             /\ StoreMap' = [StoreMap EXCEPT ![save.path] = BackupOf(save)]
             /\ AnswerOf' = AnswerOf
    <3>1. Store!Commit("none")
      BY <2>2, AsCommit
    <3> QED
      BY <3>1 DEF Store!StoreNext
  <2> QED
    BY <1>1, <2>1, <2>2, InsideMaps
<1>4. CASE SaveOpen \/ DeflateFails \/ SaveOpenFails
  <2>1. /\ SavingOf = Run(save.path, BackupOf(save), FALSE, "none")
        /\ AnswerOf' = AnswerOf
    BY <1>4, OpenMaps
  <2>2. CASE SavingOf' = SavingOf /\ StoreMap' = [StoreMap EXCEPT ![save.path] = Junk]
    <3>1. Store!Spoil("none")
      BY <2>1, <2>2, AsSpoil
    <3> QED
      BY <3>1 DEF Store!StoreNext
  <2>3. CASE /\ StoreMap' = StoreMap
             /\ \E rc \in {"OK", "failed"} :
                  SavingOf' = Run(save.path, BackupOf(save), FALSE, rc)
    <3>1. PICK rc \in {"OK", "failed"} :
            SavingOf' = Run(save.path, BackupOf(save), FALSE, rc)
      BY <2>3
    <3>2. Store!Return(rc)
      BY <2>1, <2>3, <3>1, AsReturn
    <3> QED
      BY <3>2 DEF Store!StoreNext
  <2> QED
    BY <1>4, <2>2, <2>3, OpenMaps
<1>5. CASE Close
  <2>1. PICK done, rc :
          /\ SavingOf = Run(save.path, BackupOf(save), done, "none")
          /\ \/ /\ done \in BOOLEAN /\ rc \in {"OK", "failed"}
                /\ done => rc = "OK"
                /\ StoreMap' = StoreMap
                /\ SavingOf' = Run(save.path, BackupOf(save), done, rc)
             \/ /\ done = FALSE /\ rc = "OK"
                /\ StoreMap' = [StoreMap EXCEPT ![save.path] = BackupOf(save)]
                /\ SavingOf' = Run(save.path, BackupOf(save), TRUE, rc)
    BY <1>5, CloseMaps
  <2>2. AnswerOf' = AnswerOf
    BY <1>5, CloseMaps
  <2>3. Store!Return(rc) \/ Store!Commit(rc)
    BY <2>1, <2>2, AsReturn, AsCommit
  <2>4. rc \in {"none", "OK", "failed"}
    BY <2>1
  <2> QED
    BY <2>3, <2>4 DEF Store!StoreNext
<1>6. CASE SaveReturn
  BY <1>6, ReturnMaps DEF Store!StoreNext
<1>7. CASE LoadStep
  BY <1>1, <1>7, LoadMaps DEF Store!StoreNext
<1>8. ASSUME NEW p \in Paths, NEW k \in Keys, NEW s \in Schemas, SaveBegin(p, k, s)
      PROVE  Store!StoreNext
  BY <1>8, BeginMaps, SameRows DEF Store!StoreNext
<1>9. ASSUME NEW p \in Paths, NEW k \in Keys, NEW z \in Filters, LoadBegin(p, k, z)
      PROVE  StoreMap' = StoreMap /\ SavingOf' = SavingOf /\ AnswerOf' = AnswerOf
  <2>1. UNCHANGED <<files, save>> /\ load.at = "idle"
    BY <1>9 DEF LoadBegin, Idle
  <2>2. load'.at = "open"
    BY <1>9 DEF LoadBegin, NoLoad
  <2> QED
    BY <2>1, <2>2, QuietLoad DEF AnswerOf
<1>10. ASSUME NEW p \in Paths, MoveFile(p)
       PROVE  Store!StoreNext
  BY <1>10, MoveMaps DEF Store!StoreNext
<1>11. CASE Stop
  BY <1>11, StopMaps DEF Store!StoreNext
<1>12. \/ InsideStep \/ SaveOpen \/ DeflateFails \/ SaveOpenFails \/ Close
       \/ SaveReturn \/ LoadStep \/ UNCHANGED masterVars \/ Stop
       \/ \E p \in Paths, k \in Keys, s \in Schemas : SaveBegin(p, k, s)
       \/ \E p \in Paths, k \in Keys, z \in Filters : LoadBegin(p, k, z)
       \/ \E p \in Paths : MoveFile(p)
  BY DEF MasterNext, SaveStep, InsideStep
<1> QED
  BY <1>1, <1>2, <1>3, <1>4, <1>5, <1>6, <1>7, <1>8, <1>9, <1>10, <1>11, <1>12

(* The two functions, their two headers, their buffers and their errors,   *)
(* are as simple as BackupStore: a path holds a whole backup or none, a    *)
(* save puts its own there in one step, and a load returns it or is        *)
(* refused.                                                                *)
THEOREM BackupsActAsStore == MasterSpec => ActsAsStore
<1>1. MasterInit => Store!StoreInit
  <2> SUFFICES ASSUME MasterInit PROVE Store!StoreInit
    OBVIOUS
  <2>1. files = [p \in Paths |-> Absent] /\ save = NoSave /\ load = NoLoad
    BY DEF MasterInit
  <2>2. StoreMap = [p \in Paths |-> Nothing]
    BY <2>1, EmptyIs, FileIs DEF StoreMap
  <2>3. SavingOf = Rest
    <3>1. save.at = "idle" /\ ~ save.placed
      BY <2>1 DEF NoSave
    <3> QED
      BY <3>1, RestIs, SavingOfIs
  <2>4. AnswerOf = Nothing
    BY <2>1, NoLoadIs, NoAnswerIs
  <2> QED
    BY <2>2, <2>3, <2>4, NotSavingIs DEF Store!StoreInit, StoreMap
<1>2. /\ IMaster /\ IMaster' /\ IStore /\ IStore' /\ [MasterNext]_masterVars
      => [Store!StoreNext]_(Store!storeVars)
  BY MasterMaps
<1> QED
  BY <1>1, <1>2, StoreInvariant, PTL DEF MasterSpec, ActsAsStore, Store!StoreSpec

=============================================================================
