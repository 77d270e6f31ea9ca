----------------------------- MODULE OutputProofs -----------------------------
(***************************************************************************)
(* Proofs about the recovery: its types, what its transactions hold, that  *)
(* a cancellation is reported, and that it implements Recovery.            *)
(***************************************************************************)
EXTENDS OutputRows, RowOrderProofs

-----------------------------------------------------------------------------
(* Numbers.                                                                *)

(* A set of names has a first one, so the loops over ctx.tables advance to *)
(* an entry of the map.                                                    *)
LEMMA NearestName ==
  ASSUME DOMAIN tables \subseteq Names, Rest # {}
  PROVE  Nearest \in Names /\ Nearest \in DOMAIN tables
<1>1. Rest \subseteq Nat
  BY OutputAssumption DEF Rest
<1>2. \E n \in Rest : \A m \in Rest : n <= m
  BY <1>1, LeastOne
<1>3. Nearest \in Rest
  BY <1>2 DEF Nearest
<1> QED
  BY <1>3 DEF Rest

(* Division with remainder ...                                             *)
LEMMA Division ==
  ASSUME NEW s \in Nat, NEW b \in Nat \ {0}
  PROVE  /\ s = b * (s \div b) + (s % b)
         /\ s \div b \in Nat
         /\ s % b \in 0 .. b - 1
OBVIOUS

LEMMA Remainder ==
  ASSUME NEW b \in Nat \ {0}, NEW q \in Nat, NEW r \in 0 .. b - 1
  PROVE  (b * q + r) % b = r
OBVIOUS

(* ... and counting within a batch.                                        *)
LEMMA NextInBatch ==
  ASSUME NEW s \in Nat, NEW b \in Nat \ {0}, (s + 1) % b # 0
  PROVE  (s + 1) % b = (s % b) + 1
<1> DEFINE q == s \div b
           r == s % b
<1>1. s = b * q + r /\ q \in Nat /\ r \in 0 .. b - 1
  BY Division
<1> HIDE DEF q, r
<1>2. CASE r + 1 = b
  <2>1. s + 1 = b * (q + 1) + 0
    BY <1>1, <1>2
  <2>2. (b * (q + 1) + 0) % b = 0
    BY <1>1, Remainder
  <2> QED
    BY <2>1, <2>2
<1>3. CASE r + 1 \in 0 .. b - 1
  <2>1. s + 1 = b * q + (r + 1)
    BY <1>1
  <2>2. (b * q + (r + 1)) % b = r + 1
    BY <1>1, <1>3, Remainder
  <2> QED
    BY <2>1, <2>2 DEF r
<1> QED
  BY <1>1, <1>2, <1>3

-----------------------------------------------------------------------------
(* The target database.                                                    *)

(* A statement leads where it should, or fails and counts as a fault.      *)
LEMMA TryFacts ==
  ASSUME NEW x \in Db, NEW y \in Db, NEW z \in Try(x, y)
  PROVE  /\ z \in Db
         /\ z = y \/ z.faults = x.faults + 1
<1>1. ASSUME NEW w \in Db, w.faults < MaxSqlFaults
      PROVE  Fault(w) \in Db /\ Fault(w).faults = w.faults + 1
  <2>1. w.faults + 1 \in 0 .. MaxSqlFaults
    BY <1>1, OutputAssumption DEF Db
  <2> QED
    BY <2>1 DEF Db, Fault
<1>2. Rollback(x) \in Db /\ Rollback(x).faults = x.faults
  BY EmptySeq DEF Db, Rollback
<1>3. x.faults < MaxSqlFaults =>
        /\ Fault(x) \in Db /\ Fault(x).faults = x.faults + 1
        /\ Fault(Rollback(x)) \in Db /\ Fault(Rollback(x)).faults = x.faults + 1
  BY <1>1, <1>2
<1>4. \/ z = y
      \/ x.faults < MaxSqlFaults /\ (z = Fault(x) \/ z = Fault(Rollback(x)))
  BY DEF Try
<1> QED
  BY <1>3, <1>4

(* Inside a transaction an effect is pending, outside it is done.          *)
LEMMA ExecuteFacts ==
  ASSUME NEW x \in Db, NEW e \in Effect
  PROVE  /\ Execute(x, e) \in Db
         /\ Execute(x, e).faults = x.faults
         /\ Execute(x, e).open = x.open
         /\ Execute(x, e).pending = IF x.open THEN Append(x.pending, e) ELSE x.pending
BY AppendProperties DEF Execute, Db

(* COMMIT and ROLLBACK close the transaction and leave nothing pending.    *)
LEMMA CommitFacts ==
  ASSUME NEW x \in Db
  PROVE  /\ Commit(x) \in Db /\ ~ Commit(x).open
         /\ Commit(x).pending = <<>> /\ Commit(x).faults = x.faults
         /\ Rollback(x) \in Db /\ ~ Rollback(x).open
         /\ Rollback(x).pending = <<>> /\ Rollback(x).faults = x.faults
<1>1. <<>> \in Seq(Effect)
  BY EmptySeq
<1>2. x.done \o x.pending \in Seq(Effect)
  BY ConcatProperties DEF Db
<1> QED
  BY <1>1, <1>2 DEF Db, Commit, Rollback

(* BEGIN opens a transaction unless it fails.                              *)
LEMMA BeginFacts ==
  ASSUME NEW x \in Db, NEW z \in Begin(x)
  PROVE  /\ z \in Db /\ z.faults >= x.faults
         /\ z.faults = x.faults => z.open /\ z.pending = x.pending
<1> DEFINE y == [x EXCEPT !.open = TRUE]
<1>1. y \in Db /\ y.open /\ y.pending = x.pending /\ y.faults = x.faults
  BY DEF Db
<1>2. CASE x.open
  BY <1>2 DEF Begin, Db
<1>3. CASE ~ x.open
  <2>1. z \in Try(x, y)
    BY <1>3 DEF Begin
  <2> HIDE DEF y
  <2>2. z \in Db /\ (z = y \/ z.faults = x.faults + 1)
    BY <1>1, <2>1, TryFacts
  <2> QED
    BY <1>1, <2>2 DEF Db
<1> QED
  BY <1>2, <1>3

(* COMMIT closes it unless it fails.                                       *)
LEMMA EndFacts ==
  ASSUME NEW x \in Db, NEW z \in End(x)
  PROVE  /\ z \in Db /\ z.faults >= x.faults
         /\ z.faults = x.faults =>
              /\ ~ z.open
              /\ IF x.open THEN z.pending = <<>> ELSE z = x
<1>1. CASE x.open
  <2>1. z \in Try(x, Commit(x))
    BY <1>1 DEF End
  <2>2. z \in Db /\ (z = Commit(x) \/ z.faults = x.faults + 1)
    BY <2>1, CommitFacts, TryFacts
  <2> QED
    BY <1>1, <2>2, CommitFacts DEF Db
<1>2. CASE ~ x.open
  BY <1>2 DEF End, Db
<1> QED
  BY <1>1, <1>2

(* "COMMIT; BEGIN;" leaves an open transaction with nothing in it.         *)
LEMMA RecommitFacts ==
  ASSUME NEW x \in Db, x.open, NEW z \in Recommit(x)
  PROVE  /\ z \in Db /\ z.faults >= x.faults
         /\ z.faults = x.faults => z.open /\ z.pending = <<>>
<1>1. PICK c \in End(x) : z \in IF c.faults # x.faults THEN {c} ELSE Begin(c)
  BY DEF Recommit
<1>2. /\ c \in Db /\ c.faults >= x.faults
      /\ c.faults = x.faults => ~ c.open /\ c.pending = <<>>
  BY <1>1, EndFacts
<1>3. CASE c.faults # x.faults
  BY <1>1, <1>2, <1>3
<1>4. CASE c.faults = x.faults
  <2>1. z \in Begin(c)
    BY <1>1, <1>4
  <2> QED
    BY <1>2, <1>4, <2>1, BeginFacts DEF Db
<1> QED
  BY <1>3, <1>4

(* Without an open transaction it does nothing.                            *)
LEMMA RecommitClosed ==
  ASSUME NEW x \in Db, ~ x.open
  PROVE  Recommit(x) = {x}
BY DEF Recommit
-----------------------------------------------------------------------------
(* Steps.                                                                  *)

(* To the parser, a step of the recovery is one of its own, or leaves it   *)
(* alone, or hands it the root page of the next table.                     *)
LEMMA ParserStep ==
  ASSUME TypeOK, FramesOK, OutTypeOK, [OutNext]_allVars
  PROVE  TypeOK' /\ FramesOK'
<1>1. CASE NextTable
  <2>1. /\ image' = image /\ requested' = requested /\ stack' = stack
        /\ status' = status /\ rc' = rc /\ rows' = rows /\ lost' = lost
        /\ declined' = declined
    BY <1>1 DEF NextTable, input
  <2>2. todo' \in Seq(Int)
    <3>1. Rest # {}
      BY <1>1 DEF NextTable
    <3>2. tables[Nearest] \in Entry
      BY <3>1, NearestName DEF OutTypeOK
    <3>3. tables[Nearest].root \in Int
      BY <3>2 DEF Entry
    <3>4. todo' = todo \/ todo' = <<tables[Nearest].root>>
      BY <1>1 DEF NextTable
    <3>5. todo \in Seq(Int)
      BY DEF TypeOK
    <3>6. ASSUME NEW k \in Int PROVE <<k>> \in Seq(Int)
      OBVIOUS
    <3> QED
      BY <3>3, <3>4, <3>5, <3>6
  <2> QED
    BY <2>1, <2>2 DEF TypeOK, FramesOK
<1>2. CASE ~ NextTable
  <2>1. ASSUME NEW answer, Deliver(answer), answer \in Answers
        PROVE  [Next]_vars
    BY <2>1 DEF Next, Step
  <2>2. /\ "OK" \in Answers /\ "CANCELLED" \in Answers
        /\ \A a \in Callback : a # "IGNORE" => a \in Answers
    BY OutputAssumption
  <2>3. MasterRow => [Next]_vars
    BY <2>1, <2>2 DEF MasterRow
  <2>4. RefuseRow => [Next]_vars
    BY <2>1, <2>2 DEF RefuseRow
  <2>5. ASSUME NEW a \in Callback, PassRow(a) PROVE [Next]_vars
    BY <2>1, <2>2, <2>5 DEF PassRow
  <2>6. DropRow => [Next]_vars
    BY <2>1, <2>2 DEF DropRow
  <2>7. InsertRow => [Next]_vars
    BY <2>1, <2>2 DEF InsertRow
  <2>8. Traverse => [Next]_vars
    BY DEF Next, Step
  <2>9. \/ MasterParsed \/ LoopCancelled \/ TableParsed \/ TablesDone
        \/ NextIndex \/ Report \/ Cancel \/ Returned \/ UNCHANGED allVars
        => UNCHANGED vars
    BY DEF MasterParsed, LoopCancelled, TableParsed, TablesDone, NextIndex,
           Report, Cancel, Returned, allVars
  <2>10. [Next]_vars
    BY <1>2, <2>3, <2>4, <2>5, <2>6, <2>7, <2>8, <2>9 DEF OutNext, Work
  <2> QED
    BY <2>10, TypeStep
<1> QED
  BY <1>1, <1>2

(* What a database without faults has pending: rows of one table, fewer    *)
(* than have been counted since the last multiple of Batch.                *)
Unsaved(d, table, count) ==
  d.faults = 0 =>
    /\ ~ d.open => d.pending = <<>>
    /\ \A k \in DOMAIN d.pending : d.pending[k].name = table
    /\ Len(d.pending) <= count % Batch

LEMMA NothingPending ==
  ASSUME NEW d, d.faults = 0 => d.pending = <<>>, NEW table, NEW count \in Nat
  PROVE  Unsaved(d, table, count)
<1>1. count % Batch \in 0 .. Batch - 1
  BY OutputAssumption, Division
<1>2. Batch \in Nat \ {0}
  BY OutputAssumption
<1>3. Len(<<>>) = 0 /\ DOMAIN <<>> = {}
  OBVIOUS
<1> QED
  BY <1>1, <1>2, <1>3 DEF Unsaved

(* One more row pending, and counted.                                      *)
LEMMA OneMorePending ==
  ASSUME NEW x \in Db, NEW table \in Names, NEW count \in Nat,
         Unsaved(x, table, count), (count + 1) % Batch # 0,
         NEW e \in Effect, e.name = table
  PROVE  Unsaved(Execute(x, e), table, count + 1)
<1> DEFINE y == Execute(x, e)
<1>1. /\ y.faults = x.faults /\ y.open = x.open
      /\ y.pending = IF x.open THEN Append(x.pending, e) ELSE x.pending
  BY ExecuteFacts
<1>2. x.pending \in Seq(Effect)
  BY DEF Db
<1> HIDE DEF y
<1>3. SUFFICES ASSUME y.faults = 0
               PROVE  /\ ~ y.open => y.pending = <<>>
                      /\ \A k \in DOMAIN y.pending : y.pending[k].name = table
                      /\ Len(y.pending) <= (count + 1) % Batch
  BY DEF Unsaved, y
<1>4. (count + 1) % Batch = (count % Batch) + 1
  BY OutputAssumption, NextInBatch
<1>5. count % Batch \in Nat
  BY OutputAssumption, Division
<1>6. /\ ~ x.open => x.pending = <<>>
      /\ \A k \in DOMAIN x.pending : x.pending[k].name = table
      /\ Len(x.pending) <= count % Batch
  BY <1>1, <1>3 DEF Unsaved
<1>7. CASE x.open
  <2>1. /\ y.pending \in Seq(Effect)
        /\ Len(y.pending) = Len(x.pending) + 1
        /\ \A k \in 1 .. Len(x.pending) : y.pending[k] = x.pending[k]
        /\ y.pending[Len(x.pending) + 1] = e
    BY <1>1, <1>2, <1>7, AppendProperties
  <2>2. /\ DOMAIN y.pending = 1 .. Len(x.pending) + 1
        /\ DOMAIN x.pending = 1 .. Len(x.pending)
        /\ Len(x.pending) \in Nat
    BY <1>2, <2>1, LenProperties
  <2> QED
    BY <1>1, <1>4, <1>5, <1>6, <1>7, <2>1, <2>2
<1>8. CASE ~ x.open
  BY <1>1, <1>4, <1>5, <1>6, <1>8, Len(<<>>) = 0
<1> QED
  BY <1>7, <1>8

(* What InsertRow does to statement, count and database.                   *)
LEMMA InsertFacts ==
  ASSUME TypeOK, FramesOK, OutTypeOK, TransactionInv, InsertRow
  PROVE  /\ cursor \in Names /\ stmt' = cursor
         /\ success' \in Nat
         /\ db' \in Db
         /\ Unsaved(db', cursor, success')
<1>1. pc = "table" /\ stmt # Failed /\ Deliver("OK")
  BY DEF InsertRow
<1>2. cursor \in Names /\ stmt' = cursor /\ stmt \in {None, cursor}
  BY <1>1 DEF InsertRow, TransactionInv
<1> DEFINE e == Row(stmt', Top.page, Top.i)
<1>3. e \in Effect /\ e.name = cursor
  <2>1. stack # <<>> /\ Top.at = "column"
    BY <1>1 DEF Deliver, At
  <2>2. Top \in Frame /\ FrameOK(Top, image, declined)
    BY <2>1, TopFacts
  <2>3. Top.page \in Pages /\ Top.i \in Nat
    BY <2>1, <2>2 DEF FrameOK, Active, Frame
  <2> QED
    BY <1>2, <2>3 DEF Effect, Row
<1>4. PICK x \in IF stmt = None THEN Begin(db) ELSE {db} :
        \E y \in Try(x, Execute(x, e)) :
          IF y.faults # x.faults
          THEN db' = y /\ success' = success
          ELSE /\ success' = success + 1
               /\ db' \in IF success' % Batch = 0 THEN Recommit(y) ELSE {y}
  BY DEF InsertRow
<1> HIDE DEF e
<1>5. PICK y \in Try(x, Execute(x, e)) :
          IF y.faults # x.faults
          THEN db' = y /\ success' = success
          ELSE /\ success' = success + 1
               /\ db' \in IF success' % Batch = 0 THEN Recommit(y) ELSE {y}
  BY <1>4
<1>6. db \in Db /\ success \in Nat
  BY DEF OutTypeOK
<1>7. x \in Db /\ x.faults >= db.faults
  BY <1>4, <1>6, BeginFacts DEF Db
<1>8. Unsaved(x, cursor, success)
  <2>1. CASE stmt = None
    <3>1. db.faults = 0 => db.pending = <<>>
      BY <2>1 DEF TransactionInv
    <3>2. x.faults = db.faults => x.pending = db.pending
      BY <1>4, <1>6, <2>1, BeginFacts
    <3>3. x.faults = 0 => x.pending = <<>>
      BY <1>6, <1>7, <3>1, <3>2 DEF Db
    <3> QED
      BY <1>6, <3>3, NothingPending
  <2>2. CASE stmt # None
    BY <1>2, <1>4, <2>2 DEF TransactionInv, Unsaved
  <2> QED
    BY <2>1, <2>2
<1>9. Execute(x, e) \in Db /\ Execute(x, e).faults = x.faults
  BY <1>3, <1>7, ExecuteFacts
<1>10. y \in Db /\ (y = Execute(x, e) \/ y.faults = x.faults + 1)
  BY <1>5, <1>7, <1>9, TryFacts
<1>11. CASE y.faults # x.faults
  <2>1. db' = y /\ success' = success /\ y.faults # 0
    BY <1>5, <1>7, <1>9, <1>10, <1>11 DEF Db
  <2> QED
    BY <1>2, <1>6, <1>10, <2>1 DEF Unsaved
<1>12. CASE y.faults = x.faults
  <2>1. success' = success + 1 /\ y = Execute(x, e)
    BY <1>5, <1>7, <1>10, <1>12 DEF Db
  <2>2. CASE success' % Batch # 0
    <3>1. db' = y
      BY <1>5, <1>12, <2>2
    <3>2. Unsaved(Execute(x, e), cursor, success + 1)
      BY <1>2, <1>3, <1>6, <1>7, <1>8, <2>1, <2>2, OneMorePending
    <3> QED
      BY <1>2, <1>6, <1>10, <2>1, <3>1, <3>2
  <2>3. CASE success' % Batch = 0
    <3>1. db' \in Recommit(y)
      BY <1>5, <1>12, <2>3
    <3>2. CASE y.open
      <4>1. db' \in Db /\ db'.faults >= y.faults
        BY <1>10, <3>1, <3>2, RecommitFacts
      <4>2. db'.faults = y.faults => db'.pending = <<>>
        BY <1>10, <3>1, <3>2, RecommitFacts
      <4>3. db'.faults = 0 => db'.pending = <<>>
        BY <1>10, <4>1, <4>2 DEF Db
      <4> QED
        BY <1>2, <1>6, <2>1, <4>1, <4>3, NothingPending
    <3>3. CASE ~ y.open
      <4>1. db' = y
        BY <1>10, <3>1, <3>3, RecommitClosed
      <4>2. ~ x.open /\ y.pending = x.pending
        BY <1>3, <1>7, <2>1, <3>3, ExecuteFacts
      <4>3. y.faults = 0 => y.pending = <<>>
        BY <1>8, <1>12, <4>2 DEF Unsaved
      <4> QED
        BY <1>2, <1>6, <1>10, <2>1, <4>1, <4>3, NothingPending
    <3> QED
      BY <3>2, <3>3
  <2> QED
    BY <2>2, <2>3
<1> QED
  BY <1>11, <1>12

(* A CREATE statement outside of a transaction leaves none.                *)
LEMMA CreateFacts ==
  ASSUME OutTypeOK, NEW n \in Names, Create(n)
  PROVE  /\ db' \in Db /\ success' \in Nat
         /\ db'.faults >= db.faults
         /\ db'.faults = db.faults /\ ~ db.open =>
              ~ db'.open /\ db'.pending = db.pending
<1> DEFINE e == Created(n)
<1>1. e \in Effect
  BY DEF Created, Effect
<1>2. db \in Db /\ success \in Nat
  BY DEF OutTypeOK
<1>3. db' \in IF Runs(n) THEN Try(db, Execute(db, e)) ELSE {db}
  BY DEF Create
<1>4. success' \in Nat
  BY <1>2 DEF Create
<1> HIDE DEF e
<1>5. CASE Runs(n)
  <2>1. /\ Execute(db, e) \in Db
        /\ Execute(db, e).faults = db.faults
        /\ Execute(db, e).open = db.open
        /\ ~ db.open => Execute(db, e).pending = db.pending
    BY <1>1, <1>2, ExecuteFacts
  <2>2. db' \in Db /\ (db' = Execute(db, e) \/ db'.faults = db.faults + 1)
    BY <1>2, <1>3, <1>5, <2>1, TryFacts
  <2> QED
    BY <1>2, <1>4, <2>1, <2>2 DEF Db
<1>6. CASE ~ Runs(n)
  BY <1>2, <1>3, <1>4, <1>6 DEF Db
<1> QED
  BY <1>5, <1>6

(* The end of a table: the transaction is closed unless a statement failed. *)
LEMMA TableParsedFacts ==
  ASSUME OutTypeOK, TransactionInv, TableParsed
  PROVE  /\ db' \in Db
         /\ db'.faults = 0 => ~ db'.open /\ db'.pending = <<>>
<1>1. db \in Db
  BY DEF OutTypeOK
<1>2. CASE stmt \in {None, Failed}
  BY <1>1, <1>2 DEF TableParsed, TransactionInv
<1>3. CASE stmt \notin {None, Failed} /\ rc = "CANCELLED"
  <2>1. db' = Rollback(db)
    BY <1>3 DEF TableParsed
  <2> QED
    BY <1>1, <2>1, CommitFacts
<1>4. CASE stmt \notin {None, Failed} /\ rc # "CANCELLED"
  <2>1. db' \in End(db)
    BY <1>4 DEF TableParsed
  <2>2. /\ db' \in Db /\ db'.faults >= db.faults
        /\ db'.faults = db.faults =>
             /\ ~ db'.open
             /\ IF db.open THEN db'.pending = <<>> ELSE db' = db
    BY <1>1, <2>1, EndFacts
  <2>3. db'.faults = 0 => db.faults = 0
    BY <1>1, <2>2 DEF Db
  <2> QED
    BY <2>2, <2>3 DEF TransactionInv
<1> QED
  BY <1>2, <1>3, <1>4

(* The row of sqlite_master that a call has read is recorded as it is.     *)
LEMMA LearnFacts ==
  ASSUME TypeOK, FramesOK, OutTypeOK, MasterRow
  PROVE  /\ DOMAIN tables' \subseteq Names
         /\ \A n \in DOMAIN tables' : tables'[n] \in Entry
<1>1. CASE tables' = tables
  BY <1>1 DEF OutTypeOK
<1>2. CASE tables' # tables
  <2> DEFINE p == Top.page
             i == Top.i
             row == Schema[<<p, i>>]
             cell == image[p].cells[i]
  <2>1. Deliver("OK") \/ Deliver("CANCELLED")
    BY DEF MasterRow
  <2>2. stack # <<>> /\ Top.at = "column"
    BY <2>1 DEF Deliver, At
  <2>3. Top \in Frame /\ FrameOK(Top, image, declined)
    BY <2>2, TopFacts
  <2>4. p \in Pages /\ i \in DOMAIN image[p].cells
    BY <2>2, <2>3 DEF FrameOK, Active
  <2>5. cell \in Cell
    BY <2>4, ImageFacts
  <2>6. /\ <<p, i>> \in DOMAIN Schema
        /\ tables' = [n \in DOMAIN tables \cup {row.name} |->
                       IF n # row.name THEN tables[n]
                       ELSE [type |-> row.type, root |-> cell.root,
                             sql |-> row.sql]]
    BY <1>2 DEF MasterRow, Learn
  <2>7. /\ row.name \in Names /\ row.type \in {"table", "index"}
        /\ row.sql \in {"create", "empty", "bad"}
    BY <2>6, OutputAssumption
  <2>8. [type |-> row.type, root |-> cell.root, sql |-> row.sql] \in Entry
    BY <2>5, <2>7 DEF Entry, Types, Cell
  <2> HIDE DEF p, i, row, cell
  <2> QED
    BY <2>6, <2>7, <2>8 DEF OutTypeOK
<1> QED
  BY <1>1, <1>2

(* The variables of the recovery keep their types.                         *)
LEMMA OutTypeStep ==
  ASSUME TypeOK, FramesOK, OutTypeOK, TransactionInv, [OutNext]_allVars
  PROVE  OutTypeOK'
<1> USE DEF outVars, context
<1>1. CASE MasterRow
  BY <1>1, LearnFacts DEF MasterRow, OutTypeOK
<1>2. CASE RefuseRow
  BY <1>2 DEF RefuseRow, OutTypeOK
<1>3. CASE \E answer \in Callback : PassRow(answer)
  BY <1>3 DEF PassRow, OutTypeOK
<1>4. CASE DropRow
  <2>1. db' = db \/ (db.faults < MaxSqlFaults /\ db' = Fault(db))
    BY <1>4 DEF DropRow
  <2>2. db' \in Db
    <3>1. db.faults < MaxSqlFaults => db.faults + 1 \in 0 .. MaxSqlFaults
      BY OutputAssumption DEF OutTypeOK, Db
    <3> QED
      BY <2>1, <3>1 DEF OutTypeOK, Db, Fault
  <2> QED
    BY <1>4, <2>2 DEF DropRow, OutTypeOK
<1>5. CASE InsertRow
  BY <1>5, InsertFacts DEF InsertRow, OutTypeOK
<1>6. CASE MasterParsed
  BY <1>6 DEF MasterParsed, Finish, OutTypeOK
<1>7. CASE LoopCancelled
  BY <1>7 DEF LoopCancelled, Finish, OutTypeOK
<1>8. CASE NextTable
  <2>1. Nearest \in Names
    BY <1>8, NearestName DEF NextTable, OutTypeOK
  <2>2. db' \in Db /\ success' \in Nat
    <3>1. Create(Nearest) \/ (db' = db /\ success' = success)
      BY <1>8 DEF NextTable
    <3> QED
      BY <2>1, <3>1, CreateFacts DEF OutTypeOK
  <2>3. pc' \in {"table", "tables"} /\ cursor' = Nearest
    BY <1>8 DEF NextTable, Advance
  <2> QED
    BY <1>8, <2>1, <2>2, <2>3 DEF NextTable, OutTypeOK
<1>9. CASE TableParsed
  BY <1>9, TableParsedFacts DEF TableParsed, Finish, OutTypeOK
<1>10. CASE TablesDone
  BY <1>10 DEF TablesDone, OutTypeOK
<1>11. CASE NextIndex
  <2>1. Nearest \in Names
    BY <1>11, NearestName DEF NextIndex, OutTypeOK
  <2>2. db' \in Db /\ success' \in Nat
    <3>1. Create(Nearest) \/ (db' = db /\ success' = success)
      BY <1>11 DEF NextIndex
    <3> QED
      BY <2>1, <3>1, CreateFacts DEF OutTypeOK
  <2> QED
    BY <1>11, <2>1, <2>2 DEF NextIndex, Advance, OutTypeOK
<1>12. CASE Report
  BY <1>12 DEF Report, Finish, OutTypeOK
<1>13. CASE Cancel
  BY <1>13 DEF Cancel, OutTypeOK
<1>14. CASE UNCHANGED outVars
  BY <1>14 DEF OutTypeOK
<1> QED
  BY <1>1, <1>2, <1>3, <1>4, <1>5, <1>6, <1>7, <1>8, <1>9, <1>10, <1>11, <1>12,
     <1>13, <1>14 DEF OutNext, Work, Returned, allVars

(* The transaction keeps to its table and its batch.                       *)
LEMMA TransactionStep ==
  ASSUME TypeOK, FramesOK, OutTypeOK, TransactionInv, [OutNext]_allVars
  PROVE  TransactionInv'
<1> USE DEF outVars, context
<1>1. CASE UNCHANGED <<pc, cursor, stmt, db, success>>
  BY <1>1 DEF TransactionInv
<1>2. ASSUME pc' # "table", stmt' = None, db' \in Db, success' \in Nat,
             db'.faults = 0 => ~ db'.open /\ db'.pending = <<>>
      PROVE  TransactionInv'
  BY <1>2, NothingPending DEF TransactionInv, Unsaved
<1>3. pc # "table" /\ db.faults = 0 => ~ db.open /\ db.pending = <<>>
  BY DEF TransactionInv
<1>4. db \in Db /\ success \in Nat
  BY DEF OutTypeOK
<1>5. CASE DropRow
  <2>1. CASE db' = db
    <3>1. db.faults = 0 => ~ db.open /\ db.pending = <<>>
      BY <1>5, <2>1 DEF DropRow, TransactionInv
    <3>2. Unsaved(db, Failed, success)
      BY <1>4, <3>1, NothingPending
    <3> QED
      BY <1>5, <2>1, <3>1, <3>2 DEF DropRow, TransactionInv, Unsaved
  <2>2. CASE db' # db
    <3>1. db' = Fault(db)
      BY <1>5, <2>2 DEF DropRow
    <3>2. db'.faults # 0
      BY <1>4, <3>1 DEF Fault, Db
    <3> QED
      BY <1>5, <3>2 DEF DropRow, TransactionInv
  <2> QED
    BY <2>1, <2>2
<1>6. CASE InsertRow
  <2>1. /\ cursor \in Names /\ stmt' = cursor /\ pc' = pc /\ cursor' = cursor
        /\ pc = "table" /\ Unsaved(db', cursor, success')
    BY <1>6, InsertFacts DEF InsertRow
  <2>2. cursor \notin {None, Failed}
    BY <2>1, OutputAssumption DEF None, Failed
  <2> QED
    BY <2>1, <2>2 DEF TransactionInv, Unsaved
<1>7. CASE MasterParsed \/ LoopCancelled \/ TablesDone \/ Report
  <2>1. /\ pc # "table" /\ pc' # "table" /\ stmt' = stmt /\ db' = db
        /\ success' = success
    BY <1>7 DEF MasterParsed, LoopCancelled, TablesDone, Report, Finish
  <2> QED
    BY <1>2, <1>3, <1>4, <2>1 DEF TransactionInv
<1>8. CASE NextTable \/ NextIndex
  <2>1. pc # "table" /\ Rest # {} /\ stmt' = stmt /\ cursor' = Nearest
    BY <1>8 DEF NextTable, NextIndex, Advance
  <2>2. Nearest \in Names
    BY <2>1, NearestName DEF OutTypeOK
  <2>3. Create(Nearest) \/ (db' = db /\ success' = success)
    BY <1>8 DEF NextTable, NextIndex
  <2>4. /\ db' \in Db /\ success' \in Nat
        /\ db'.faults = 0 => ~ db'.open /\ db'.pending = <<>>
    <3>1. CASE db' = db /\ success' = success
      BY <1>3, <1>4, <2>1, <3>1
    <3>2. CASE Create(Nearest)
      <4>1. /\ db' \in Db /\ success' \in Nat /\ db'.faults >= db.faults
            /\ db'.faults = db.faults /\ ~ db.open =>
                 ~ db'.open /\ db'.pending = db.pending
        BY <2>2, <3>2, CreateFacts
      <4>2. db'.faults = 0 => db.faults = 0
        BY <1>4, <4>1 DEF Db
      <4> QED
        BY <1>3, <2>1, <4>1, <4>2
    <3> QED
      BY <2>3, <3>1, <3>2
  <2>5. Unsaved(db', None, success')
    BY <2>4, NothingPending
  <2> QED
    BY <2>1, <2>2, <2>4, <2>5 DEF TransactionInv, Unsaved
<1>9. CASE TableParsed
  <2>1. pc' # "table" /\ stmt' = None /\ success' = success
    BY <1>9 DEF TableParsed, Finish
  <2> QED
    BY <1>2, <1>4, <1>9, <2>1, TableParsedFacts
<1>10. CASE \/ MasterRow \/ RefuseRow \/ (\E answer \in Callback : PassRow(answer))
            \/ Cancel \/ UNCHANGED outVars
  BY <1>1, <1>10 DEF MasterRow, RefuseRow, PassRow, Cancel
<1> QED
  BY <1>5, <1>6, <1>7, <1>8, <1>9, <1>10
     DEF OutNext, Work, Returned, allVars

(* A call of sqliterk_output_cb starts with no transaction of its own.     *)
LEMMA OutInitialState ==
  ASSUME OutInit
  PROVE  TypeOK /\ FramesOK /\ OutTypeOK /\ TransactionInv
<1>1. TypeOK /\ FramesOK
  BY InitialState DEF OutInit
<1>2. db \in Db
  BY EmptySeq, OutputAssumption DEF OutInit, Db
<1>3. flags \subseteq {"NO_CREATE_TABLES", "ALL_TABLES"}
  BY OutputAssumption DEF OutInit
<1>4. OutTypeOK
  BY <1>2, <1>3, OutputAssumption DEF OutInit, OutTypeOK
<1>5. Unsaved(db, None, success)
  BY NothingPending DEF OutInit
<1> QED
  BY <1>1, <1>4, <1>5 DEF OutInit, TransactionInv, Unsaved

-----------------------------------------------------------------------------
OutInv == TypeOK /\ FramesOK /\ OutTypeOK /\ TransactionInv

LEMMA OutInvariant == OutSpec => []OutInv
<1>1. OutInit => OutInv
  BY OutInitialState DEF OutInv
<1>2. OutInv /\ [OutNext]_allVars => OutInv'
  BY ParserStep, OutTypeStep, TransactionStep DEF OutInv
<1> QED
  BY <1>1, <1>2, PTL DEF OutSpec

(* The variables of sqliterk_output_cb keep their types, whatever the      *)
(* file, the backup, the flags and the failures.                           *)
THEOREM OutputTypeCorrect == OutSpec => []OutTypeOK
<1>1. OutInv => OutTypeOK
  BY DEF OutInv
<1> QED
  BY <1>1, OutInvariant, PTL

(* A transaction of the target database holds rows of one table only, and  *)
(* none is open outside of the parsing of that table, so no CREATE joins   *)
(* it and none is left open on return (sqliterk_output_cb, fini_insert).   *)
THEOREM TransactionsHoldOneTable == OutSpec => []TransactionOfOneTable
<1>1. OutInv => TransactionOfOneTable
  BY DEF OutInv, TransactionInv, TransactionOfOneTable
<1> QED
  BY <1>1, OutInvariant, PTL

(* For every size of a batch, less than one batch of rows is pending at    *)
(* any moment: it is all that a cancellation can undo                      *)
(* (table_onParseColumn).                                                  *)
THEOREM LossIsLessThanABatch == OutSpec => []LossIsOneBatch
<1>1. OutInv => LossIsOneBatch
  <2>1. SUFFICES ASSUME OutInv, db.faults = 0 PROVE Len(db.pending) < Batch
    BY DEF LossIsOneBatch
  <2>2. success % Batch \in 0 .. Batch - 1 /\ Batch \in Nat
    BY <2>1, OutputAssumption, Division DEF OutInv, OutTypeOK
  <2>3. Len(db.pending) \in Nat /\ Len(db.pending) <= success % Batch
    BY <2>1, LenProperties DEF OutInv, OutTypeOK, Db, TransactionInv
  <2> QED
    BY <2>2, <2>3
<1> QED
  BY <1>1, OutInvariant, PTL

-----------------------------------------------------------------------------
(* Cancellation.  A row is refused with CANCELLED after sqliterk_cancel,   *)
(* unless the caller's own callback answers so.  From then on no loop over *)
(* ctx.tables gets past its first entry; and without an entry nothing has  *)
(* succeeded.                                                              *)
Refused == \E d \in declined : d.answer = "CANCELLED"

CancelInv ==
  /\ Refused => cancelled
  /\ result # "running" => pc = "done"
  /\ pc = "report" => "NO_CREATE_TABLES" \in flags
  /\ pc = "indices" /\ Refused => cursor = 0
  /\ DOMAIN tables = {} => success = 0 /\ pc # "table"
  /\ CancelIsReported

(* What a delivered row adds to the refusals.                              *)
LEMMA DeliverRefuses ==
  ASSUME NEW answer, Deliver(answer), Refused'
  PROVE  Refused \/ answer = "CANCELLED"
<1>1. PICK d \in declined' : d.answer = "CANCELLED"
  BY DEF Refused
<1>2. \/ d \in declined
      \/ d = [page |-> Top.page, answer |-> answer]
  BY DEF Deliver
<1> QED
  BY <1>1, <1>2 DEF Refused

(* The steps that hand rows to the callbacks.                              *)
LEMMA CancelRowStep ==
  ASSUME TypeOK, OutTypeOK, CancelInv, "CANCELLED" \notin Callback,
         \/ MasterRow \/ RefuseRow \/ DropRow \/ InsertRow
         \/ \E answer \in Callback : PassRow(answer)
  PROVE  CancelInv'
<1> USE DEF outVars, context
<1>1. /\ pc \in {"master", "table"} /\ pc' = pc /\ cancelled' = cancelled
      /\ flags' = flags /\ result' = result
  BY DEF MasterRow, RefuseRow, DropRow, InsertRow, PassRow
<1>2. Refused' => cancelled
  <2>1. \E answer : Deliver(answer) /\ (answer = "CANCELLED" => cancelled)
    BY DEF MasterRow, RefuseRow, DropRow, InsertRow, PassRow
  <2> QED
    BY <2>1, DeliverRefuses DEF CancelInv
<1>3. DOMAIN tables' = {} => success' = 0 /\ pc' # "table"
  <2>1. CASE MasterRow
    <3>1. tables' = tables \/ tables' = Learn(Top.page, Top.i)
      BY <2>1 DEF MasterRow
    <3>2. DOMAIN tables \subseteq DOMAIN tables'
      BY <3>1 DEF Learn
    <3> QED
      BY <2>1, <3>2 DEF MasterRow, CancelInv
  <2>2. CASE ~ MasterRow
    <3>1. pc = "table" /\ tables' = tables
      BY <2>2 DEF RefuseRow, DropRow, InsertRow, PassRow
    <3> QED
      BY <3>1 DEF CancelInv
  <2> QED
    BY <2>1, <2>2
<1>4. result = "running"
  BY <1>1 DEF CancelInv
<1> QED
  BY <1>1, <1>2, <1>3, <1>4 DEF CancelInv, CancelIsReported

(* The steps of sqliterk_output_cb itself.                                 *)
LEMMA CancelPhaseStep ==
  ASSUME TypeOK, OutTypeOK, CancelInv, declined' = declined,
         \/ MasterParsed \/ LoopCancelled \/ NextTable \/ TableParsed
         \/ TablesDone \/ NextIndex \/ Report
  PROVE  CancelInv'
<1>1. /\ cancelled' = cancelled /\ tables' = tables /\ flags' = flags
      /\ (Refused' <=> Refused)
  BY DEF MasterParsed, LoopCancelled, NextTable, TableParsed, TablesDone,
     NextIndex, Report, Refused
<1>2. result = "running"
  BY DEF MasterParsed, LoopCancelled, NextTable, TableParsed, TablesDone,
     NextIndex, Report, CancelInv
<1>3. CASE MasterParsed \/ LoopCancelled \/ TableParsed
  <2>1. /\ success' = success /\ cursor' = cursor /\ pc' # "table"
        /\ pc' # "indices" /\ pc' # "report"
        /\ \/ result' = result
           \/ result' = "CANCELLED" /\ pc' = "done"
    <3>1. CASE MasterParsed
      BY <3>1 DEF MasterParsed, Finish
    <3>2. CASE LoopCancelled
      BY <3>2 DEF LoopCancelled, Finish
    <3>3. CASE TableParsed
      BY <3>3 DEF TableParsed, Finish
    <3> QED
      BY <1>3, <3>1, <3>2, <3>3
  <2> QED
    BY <1>1, <1>2, <2>1 DEF CancelInv, CancelIsReported
<1>4. CASE NextTable \/ NextIndex
  <2>1. DOMAIN tables # {} /\ result' = result
    BY <1>4 DEF NextTable, NextIndex, Rest
  <2>2. pc' = "indices" => pc = "indices" /\ ~ cancelled
    BY <1>4 DEF NextTable, NextIndex, Noticed
  <2>3. pc' # "report"
    BY <1>4 DEF NextTable, NextIndex
  <2> QED
    BY <1>1, <1>2, <2>1, <2>2, <2>3 DEF CancelInv, CancelIsReported
<1>5. CASE TablesDone
  BY <1>1, <1>2, <1>5 DEF TablesDone, CancelInv, CancelIsReported
<1>6. CASE Report
  <2>1. /\ pc' = "done" /\ success' = success
        /\ result' = IF success = 0 THEN "DAMAGED" ELSE "OK"
    BY <1>6 DEF Report, Finish
  <2>2. ASSUME "NO_CREATE_TABLES" \notin flags, success # 0
        PROVE  ~ Refused
    <3>1. pc = "indices" /\ Rest = {} /\ DOMAIN tables # {}
      BY <1>6, <2>2 DEF Report, CancelInv
    <3>2. PICK n \in DOMAIN tables : n \in Nat \ {0}
      <4>1. DOMAIN tables \subseteq Names
        BY DEF OutTypeOK
      <4>2. Names \subseteq Nat \ {0}
        BY OutputAssumption
      <4> QED
        BY <3>1, <4>1, <4>2
    <3>3. cursor # 0
      BY <3>1, <3>2 DEF Rest
    <3> QED
      BY <3>1, <3>3 DEF CancelInv
  <2>3. CancelIsReported'
    BY <1>1, <2>1, <2>2 DEF CancelIsReported, Refused
  <2> QED
    BY <1>1, <2>1, <2>3 DEF CancelInv
<1> QED
  BY <1>3, <1>4, <1>5, <1>6

LEMMA CancelStep ==
  ASSUME TypeOK, OutTypeOK, CancelInv, "CANCELLED" \notin Callback,
         [OutNext]_allVars
  PROVE  CancelInv'
<1>1. CASE \/ MasterRow \/ RefuseRow \/ DropRow \/ InsertRow
           \/ \E answer \in Callback : PassRow(answer)
  BY <1>1, CancelRowStep
<1>2. CASE \/ MasterParsed \/ LoopCancelled \/ NextTable \/ TableParsed
           \/ TablesDone \/ NextIndex \/ Report
  <2>1. declined' = declined
    BY <1>2 DEF MasterParsed, LoopCancelled, NextTable, TableParsed, TablesDone,
       NextIndex, Report, vars
  <2> QED
    BY <1>2, <2>1, CancelPhaseStep
<1>3. CASE pc \in {"master", "table"} /\ Traverse /\ UNCHANGED outVars
  <2>1. declined' = declined
    BY <1>3 DEF Traverse, SkipPage, OpenFails, OpenBtree, BeginPage,
       AcquireFails, AcquirePage, ParseChild, CellFails, ParseCell,
       OverflowBegin, OverflowFails, OverflowRead, DecodeFails, EndPage
  <2> QED
    BY <1>3, <2>1 DEF CancelInv, CancelIsReported, Refused, outVars, context
<1>4. CASE Cancel
  BY <1>4 DEF Cancel, CancelInv, CancelIsReported, Refused, vars, context
<1>5. CASE UNCHANGED allVars
  BY <1>5 DEF allVars, outVars, context, vars, CancelInv, CancelIsReported, Refused
<1> QED
  BY <1>1, <1>2, <1>3, <1>4, <1>5 DEF OutNext, Work, Returned

(* When the caller's callback does not itself answer CANCELLED, a recovery *)
(* that refused a row after sqliterk_cancel never returns OK, although an  *)
(* interior page hides the cancellation of its leaf from                   *)
(* sqliterk_output_cb (with CREATE statements: that is, with the loop over *)
(* the indices).                                                           *)
THEOREM CancellationIsReported ==
  ASSUME "CANCELLED" \notin Callback
  PROVE  OutSpec => []CancelIsReported
<1>1. OutInit => CancelInv
  BY DEF OutInit, Init, CancelInv, CancelIsReported, Refused
<1>2. OutInv /\ CancelInv /\ [OutNext]_allVars => CancelInv'
  BY CancelStep DEF OutInv
<1>3. CancelInv => CancelIsReported
  BY DEF CancelInv
<1> QED
  BY <1>1, <1>2, <1>3, OutInvariant, PTL DEF OutSpec

-----------------------------------------------------------------------------
(* The rows of one table among the effects on the target database.         *)

Wanted(e, n) == e.name = n /\ e.page # 0

(* f[m] are the rows of table n among the first m effects.                 *)
Collects(f, s, n) ==
  /\ f \in [0 .. Len(s) -> Seq(Effect)] /\ f[0] = <<>>
  /\ \A m \in 1 .. Len(s) :
       f[m] = IF Wanted(s[m], n) THEN Append(f[m - 1], s[m]) ELSE f[m - 1]

LEMMA RowsAre ==
  ASSUME NEW s \in Seq(Effect), NEW n
  PROVE  \E f : Collects(f, s, n) /\ RowsOf(s, n) = f[Len(s)]
<1> DEFINE N == Len(s)
           step == [j \in 1 .. N |-> [t \in Seq(Effect) |->
                      IF Wanted(s[j], n) THEN Append(t, s[j]) ELSE t]]
           body(g) == [m \in 0 .. N |->
                         IF m = 0 THEN <<>>
                         ELSE IF s[m].name = n /\ s[m].page # 0
                         THEN Append(g[m - 1], s[m]) ELSE g[m - 1]]
           fl == CHOOSE g : g = body(g)
<1>1. N \in Nat /\ \A j \in 1 .. N : s[j] \in Effect
  BY LenProperties, ElementOfSeq
<1>2. <<>> \in Seq(Effect)
  BY EmptySeq
<1>3. step \in [1 .. N -> [Seq(Effect) -> Seq(Effect)]]
  BY <1>1, AppendProperties
<1>4. PICK f : Iterates(f, <<>>, step, Seq(Effect), N)
  <2> HIDE DEF step, N
  <2> QED
    BY <1>1, <1>2, <1>3, Iteration
<1>5. Collects(f, s, n)
  <2>1. ASSUME NEW j \in 1 .. N
        PROVE  f[j - 1] \in Seq(Effect) /\ f[j] = step[j][f[j - 1]]
    <3>1. j - 1 \in 0 .. N
      BY <1>1
    <3> HIDE DEF step, N
    <3> QED
      BY <1>4, <3>1 DEF Iterates
  <2>2. \A j \in 1 .. N :
          f[j] = IF Wanted(s[j], n) THEN Append(f[j - 1], s[j]) ELSE f[j - 1]
    BY <2>1
  <2> HIDE DEF step
  <2> QED
    BY <1>4, <2>2 DEF Iterates, Collects
<1>6. f = body(f)
  <2>1. ASSUME NEW j \in 0 .. N PROVE f[j] = body(f)[j]
    <3>1. j = 0 \/ j \in 1 .. N
      BY <1>1
    <3> HIDE DEF N
    <3> QED
      BY <1>5, <3>1 DEF Collects, Wanted, N
  <2>2. f = [j \in 0 .. N |-> f[j]]
    BY <1>5 DEF Collects
  <2> QED
    BY <2>1, <2>2
<1>7. fl = body(fl)
  <2> HIDE DEF body
  <2> QED
    BY <1>6
<1>8. RowsOf(s, n) = fl[N]
  BY DEF RowsOf
<1> DEFINE P == {m \in 0 .. N : fl[m] = f[m]}
<1>9. ASSUME NEW m \in 0 .. N
      PROVE  fl[m] = IF m = 0 THEN <<>>
                     ELSE IF s[m].name = n /\ s[m].page # 0
                     THEN Append(fl[m - 1], s[m]) ELSE fl[m - 1]
  <2> DEFINE g == fl
  <2>1. g = body(g)
    BY <1>7
  <2> HIDE DEF fl
  <2> QED
    BY <2>1
<1> HIDE DEF fl, body
<1>10. 0 \in P
  BY <1>1, <1>5, <1>9 DEF Collects
<1>11. ASSUME NEW m \in 1 .. N, m - 1 \in P PROVE m \in P
  <2>1. m \in 0 .. N /\ m # 0 /\ fl[m - 1] = f[m - 1]
    BY <1>1, <1>11
  <2>2. f[m] = IF Wanted(s[m], n) THEN Append(f[m - 1], s[m]) ELSE f[m - 1]
    BY <1>5 DEF Collects
  <2>3. fl[m] = IF Wanted(s[m], n) THEN Append(fl[m - 1], s[m]) ELSE fl[m - 1]
    BY <1>9, <2>1 DEF Wanted
  <2> QED
    BY <2>1, <2>2, <2>3
<1>12. N \in P
  <2> HIDE DEF P, N
  <2>1. 0 .. N \subseteq P
    BY <1>1, <1>10, <1>11, Induct
  <2> QED
    BY <1>1, <2>1
<1> QED
  BY <1>5, <1>8, <1>12

(* t begins with s.                                                        *)
BeginsWith(t, s) == Len(s) <= Len(t) /\ \A k \in 1 .. Len(s) : t[k] = s[k]

LEMMA BeginsIs ==
  /\ \A s \in Seq(Effect) : BeginsWith(s, s) /\ BeginsWith(s, <<>>)
  /\ \A s, t, u \in Seq(Effect) :
       BeginsWith(t, s) /\ BeginsWith(u, t) => BeginsWith(u, s)
  /\ \A s \in Seq(Effect), e \in Effect : BeginsWith(Append(s, e), s)
  /\ \A s, t \in Seq(Effect) : BeginsWith(s \o t, s)
<1>1. \A s \in Seq(Effect) : Len(s) \in Nat
  BY LenProperties
<1>2. \A s \in Seq(Effect) : BeginsWith(s, s) /\ BeginsWith(s, <<>>)
  BY <1>1 DEF BeginsWith
<1>3. \A s, t, u \in Seq(Effect) :
       BeginsWith(t, s) /\ BeginsWith(u, t) => BeginsWith(u, s)
  BY <1>1 DEF BeginsWith
<1>4. \A s \in Seq(Effect), e \in Effect : BeginsWith(Append(s, e), s)
  BY <1>1, AppendProperties DEF BeginsWith
<1>5. \A s, t \in Seq(Effect) : BeginsWith(s \o t, s)
  BY <1>1, ConcatProperties DEF BeginsWith
<1> QED
  BY <1>2, <1>3, <1>4, <1>5

(* More effects, more rows at the end.                                     *)
LEMMA RowsBegin ==
  ASSUME NEW s \in Seq(Effect), NEW t \in Seq(Effect), NEW n, BeginsWith(t, s)
  PROVE  BeginsWith(RowsOf(t, n), RowsOf(s, n))
<1>1. PICK f : Collects(f, s, n) /\ RowsOf(s, n) = f[Len(s)]
  BY RowsAre
<1>2. PICK g : Collects(g, t, n) /\ RowsOf(t, n) = g[Len(t)]
  BY RowsAre
<1> DEFINE M == Len(s)
           N == Len(t)
<1>3. /\ M \in Nat /\ N \in Nat /\ M <= N /\ \A k \in 1 .. M : t[k] = s[k]
      /\ \A k \in 1 .. N : t[k] \in Effect
  BY LenProperties, ElementOfSeq DEF BeginsWith
<1> DEFINE P == {m \in 0 .. N : (m <= M => g[m] = f[m]) /\ (m >= M => BeginsWith(g[m], f[M]))}
<1>4. /\ f \in [0 .. M -> Seq(Effect)] /\ f[0] = <<>>
      /\ \A m \in 1 .. M :
           f[m] = IF Wanted(s[m], n) THEN Append(f[m - 1], s[m]) ELSE f[m - 1]
  BY <1>1 DEF Collects
<1>5. /\ g \in [0 .. N -> Seq(Effect)] /\ g[0] = <<>>
      /\ \A m \in 1 .. N :
           g[m] = IF Wanted(t[m], n) THEN Append(g[m - 1], t[m]) ELSE g[m - 1]
  BY <1>2 DEF Collects
<1> HIDE DEF M, N
<1>6. f[M] \in Seq(Effect) /\ \A m \in 0 .. N : g[m] \in Seq(Effect)
  BY <1>3, <1>4, <1>5
<1>7. 0 \in P
  <2>1. 0 \in 0 .. N /\ (0 >= M => M = 0)
    BY <1>3
  <2>2. BeginsWith(g[0], g[0])
    BY <1>6, <2>1, BeginsIs
  <2> QED
    BY <1>4, <1>5, <2>1, <2>2
<1>8. ASSUME NEW m \in 1 .. N, m - 1 \in P PROVE m \in P
  <2>1. /\ m \in 0 .. N /\ m - 1 \in 0 .. N
        /\ g[m] = IF Wanted(t[m], n) THEN Append(g[m - 1], t[m]) ELSE g[m - 1]
        /\ t[m] \in Effect
    BY <1>3, <1>5
  <2>2. BeginsWith(g[m], g[m - 1])
    BY <1>6, <2>1, BeginsIs
  <2>3. CASE m <= M
    <3>1. m \in 1 .. M /\ m - 1 <= M
      BY <1>3, <2>3
    <3>2. g[m - 1] = f[m - 1] /\ t[m] = s[m]
      BY <1>3, <1>8, <3>1
    <3>3. g[m] = f[m]
      BY <1>4, <2>1, <3>1, <3>2
    <3>4. m >= M => BeginsWith(g[m], f[M])
      BY <1>3, <1>6, <2>1, <2>3, <3>3, BeginsIs
    <3> QED
      BY <2>1, <3>3, <3>4
  <2>4. CASE m > M
    <3>1. m - 1 >= M /\ ~ (m <= M)
      BY <1>3, <2>4
    <3>2. BeginsWith(g[m - 1], f[M])
      BY <1>8, <3>1
    <3>3. BeginsWith(g[m], f[M])
      BY <1>6, <2>1, <2>2, <3>2, BeginsIs
    <3> QED
      BY <2>1, <3>1, <3>3
  <2> QED
    BY <1>3, <2>3, <2>4
<1>9. N \in P
  <2> HIDE DEF P
  <2>1. 0 .. N \subseteq P
    BY <1>3, <1>7, <1>8, Induct
  <2> QED
    BY <1>3, <2>1
<1>10. BeginsWith(g[N], f[M])
  BY <1>3, <1>9
<1> QED
  BY <1>1, <1>2, <1>10 DEF M, N

LEMMA RowsAppend ==
  ASSUME NEW s \in Seq(Effect), NEW e \in Effect, NEW n
  PROVE  RowsOf(Append(s, e), n)
           = IF Wanted(e, n) THEN Append(RowsOf(s, n), e) ELSE RowsOf(s, n)
<1> DEFINE t == Append(s, e)
           M == Len(s)
<1>1. PICK f : Collects(f, s, n) /\ RowsOf(s, n) = f[M]
  BY RowsAre
<1>2. /\ t \in Seq(Effect) /\ Len(t) = M + 1 /\ t[M + 1] = e
      /\ M \in Nat /\ \A k \in 1 .. M : t[k] = s[k]
  BY AppendProperties, LenProperties
<1> HIDE DEF t
<1>3. PICK g : Collects(g, t, n) /\ RowsOf(t, n) = g[M + 1]
  BY <1>2, RowsAre
<1> HIDE DEF M
<1> DEFINE P == {m \in 0 .. M : g[m] = f[m]}
<1>4. /\ f[0] = <<>>
      /\ \A m \in 1 .. M :
           f[m] = IF Wanted(s[m], n) THEN Append(f[m - 1], s[m]) ELSE f[m - 1]
  BY <1>1 DEF Collects, M
<1>5. /\ g[0] = <<>>
      /\ \A m \in 1 .. M + 1 :
           g[m] = IF Wanted(t[m], n) THEN Append(g[m - 1], t[m]) ELSE g[m - 1]
  BY <1>2, <1>3 DEF Collects
<1>6. 0 \in P
  BY <1>2, <1>4, <1>5
<1>7. ASSUME NEW m \in 1 .. M, m - 1 \in P PROVE m \in P
  <2>1. m \in 1 .. M + 1 /\ m \in 0 .. M
    BY <1>2
  <2> QED
    BY <1>2, <1>4, <1>5, <1>7, <2>1
<1>8. M \in P
  <2> HIDE DEF P
  <2>1. 0 .. M \subseteq P
    BY <1>2, <1>6, <1>7, Induct
  <2> QED
    BY <1>2, <2>1
<1>9. g[M + 1] = IF Wanted(e, n) THEN Append(g[M], e) ELSE g[M]
  <2>1. M + 1 \in 1 .. M + 1 /\ (M + 1) - 1 = M
    BY <1>2
  <2> QED
    BY <1>2, <1>5, <2>1
<1> QED
  BY <1>1, <1>3, <1>8, <1>9 DEF t

(* They are rows of that table.                                            *)
LEMMA RowsType ==
  ASSUME NEW s \in Seq(Effect), NEW n
  PROVE  /\ RowsOf(s, n) \in Seq(Effect)
         /\ \A k \in DOMAIN RowsOf(s, n) : Wanted(RowsOf(s, n)[k], n)
<1>1. PICK f : Collects(f, s, n) /\ RowsOf(s, n) = f[Len(s)]
  BY RowsAre
<1> DEFINE M == Len(s)
           P == {m \in 0 .. M : \A k \in DOMAIN f[m] : Wanted(f[m][k], n)}
<1>2. M \in Nat /\ \A k \in 1 .. M : s[k] \in Effect
  BY LenProperties, ElementOfSeq
<1>3. /\ f \in [0 .. M -> Seq(Effect)] /\ f[0] = <<>>
      /\ \A m \in 1 .. M :
           f[m] = IF Wanted(s[m], n) THEN Append(f[m - 1], s[m]) ELSE f[m - 1]
  BY <1>1 DEF Collects
<1> HIDE DEF M
<1>4. 0 \in P
  BY <1>2, <1>3
<1>5. ASSUME NEW m \in 1 .. M, m - 1 \in P PROVE m \in P
  <2>1. /\ m - 1 \in 0 .. M /\ m \in 0 .. M /\ s[m] \in Effect
        /\ f[m - 1] \in Seq(Effect)
    BY <1>2, <1>3
  <2>2. CASE ~ Wanted(s[m], n)
    BY <1>3, <1>5, <2>1, <2>2
  <2>3. CASE Wanted(s[m], n)
    <3> DEFINE q == f[m - 1]
    <3>1. f[m] = Append(q, s[m]) /\ \A k \in DOMAIN q : Wanted(q[k], n)
      BY <1>3, <1>5, <2>3
    <3>2. q \in Seq(Effect)
      BY <2>1
    <3> HIDE DEF q
    <3>3. /\ Append(q, s[m]) \in Seq(Effect) /\ Len(Append(q, s[m])) = Len(q) + 1
          /\ \A k \in 1 .. Len(q) : Append(q, s[m])[k] = q[k]
          /\ Append(q, s[m])[Len(q) + 1] = s[m]
          /\ Len(q) \in Nat /\ DOMAIN q = 1 .. Len(q)
      BY <2>1, <3>2, AppendProperties, LenProperties
    <3>4. DOMAIN Append(q, s[m]) = 1 .. Len(q) + 1
      BY <3>3, LenProperties
    <3>5. \A k \in DOMAIN f[m] : Wanted(f[m][k], n)
      BY <2>3, <3>1, <3>3, <3>4
    <3> QED
      BY <2>1, <3>5
  <2> QED
    BY <2>2, <2>3
<1>6. M \in P
  <2> HIDE DEF P
  <2>1. 0 .. M \subseteq P
    BY <1>2, <1>4, <1>5, Induct
  <2> QED
    BY <1>2, <2>1
<1>7. M \in 0 .. M
  BY <1>2
<1> QED
  BY <1>1, <1>3, <1>6, <1>7 DEF M

LEMMA RowsNone ==
  ASSUME NEW n
  PROVE  RowsOf(<<>>, n) = <<>>
<1>1. <<>> \in Seq(Effect) /\ Len(<<>>) = 0
  BY EmptySeq
<1> QED
  BY <1>1, RowsAre DEF Collects

-----------------------------------------------------------------------------
(* To the parser, the rows of a table are a request of their own.          *)
AtRoot == IF pc = "table" THEN <<tables[cursor].root>> ELSE <<1>>

R == INSTANCE RowOrderProofs WITH requested <- AtRoot, Requests <- Seq(Int)

LEMMA AtRootIs ==
  ASSUME TypeOK, OutTypeOK, pc = "table" => cursor \in DOMAIN tables
  PROVE  AtRoot \in Seq(Int)
<1>1. \A r \in Int : <<r>> \in Seq(Int)
  OBVIOUS
<1>2. pc = "table" => tables[cursor].root \in Int
  BY DEF OutTypeOK, Entry
<1> QED
  BY <1>1, <1>2 DEF AtRoot

LEMMA SameImages == R!ImageType = ImageType /\ R!Pages = Pages /\ R!Codes = Codes
BY DEF ImageType, R!ImageType, Page, R!Page, Cell, R!Cell,
   Kinds, R!Kinds, BtreeKinds, R!BtreeKinds, InteriorKinds, R!InteriorKinds,
   Pages, R!Pages, Codes, R!Codes

LEMMA SameFrame == R!Frame = Frame /\ R!Statuses = Statuses
BY DEF Pages, R!Pages, Codes, R!Codes,
   Frame, R!Frame, Btrees, R!Btrees, Places, R!Places, Statuses, R!Statuses

LEMMA SameAssumptions == R!PageCountAssumption /\ R!BtreeParseAssumption
BY PageCountAssumption, BtreeParseAssumption, SameImages DEF R!PageCountAssumption

LEMMA SameTypes ==
  ASSUME TypeOK', AtRoot' \in Seq(Int)
  PROVE  R!TypeOK'
BY SameImages, SameFrame DEF TypeOK, R!TypeOK

LEMMA SameFrames == FramesOK' => R!FramesOK'
BY DEF FramesOK, R!FramesOK, FrameOK, R!FrameOK, Active, R!Active,
   Pages, R!Pages, InteriorKinds, R!InteriorKinds

LEMMA SameRows ==
  /\ R!RowId = RowId /\ R!TopRow = TopRow
  /\ \A s, t : R!IsSubsequence(s, t) <=> IsSubsequence(s, t)
BY DEF RowId, R!RowId, Pages, R!Pages, TopRow, R!TopRow, Top, R!Top,
   IsSubsequence, R!IsSubsequence, ToSet, R!ToSet

LEMMA SameWalk ==
  ASSUME NEW img, NEW roots
  PROVE  R!Walk(img, roots, {}, R!AllCells(img)) = Walk(img, roots, {}, AllCells(img))
BY DEF Walk, R!Walk, Walks, R!Walks, Parts, R!Parts, AllCells, R!AllCells,
   FileChildren, R!FileChildren, Leads, R!Leads, RootType, R!RootType,
   Pages, R!Pages, FlattenSeq, R!FlattenSeq

LEMMA SameForest ==
  ASSUME NEW img, NEW req
  PROVE  R!IsForest(img, req) <=> IsForest(img, req)
BY DEF IsForest, R!IsForest, ChainsApart, R!ChainsApart, References, R!References,
   ChildReferences, R!ChildReferences, ChainReferences, R!ChainReferences,
   RootReferences, R!RootReferences, LinkReferences, R!LinkReferences,
   RequestReferences, R!RequestReferences, OfKind, R!OfKind,
   FileChildren, R!FileChildren, InteriorKinds, R!InteriorKinds,
   BtreeKinds, R!BtreeKinds, IsBtree, R!IsBtree, Pages, R!Pages

(* The steps of the parser.                                                *)
LEMMA SameFails ==
  ASSUME NEW p
  PROVE  R!Fails(p) <=> Fails(p)
<1>1. \A S : R!Cardinality(S) = Cardinality(S)
  BY DEF Cardinality, R!Cardinality
<1> QED
  BY <1>1 DEF Fails, R!Fails

LEMMA SameOpening ==
  ASSUME AtRoot' = AtRoot, SkipPage \/ OpenFails \/ OpenBtree
  PROVE  R!SkipPage \/ R!OpenFails \/ R!OpenBtree
BY SameFails DEF SkipPage, R!SkipPage, OpenFails, R!OpenFails, OpenBtree, R!OpenBtree,
   NextRequest, R!NextRequest, GetStatus, R!GetStatus, Pages, R!Pages,
   Opens, R!Opens, BtreeKinds, R!BtreeKinds,
   InteriorKinds, R!InteriorKinds, Call, R!Call, input, R!input

LEMMA SamePages ==
  ASSUME AtRoot' = AtRoot, BeginPage \/ AcquireFails \/ AcquirePage \/ ParseChild \/ EndPage
  PROVE  R!BeginPage \/ R!AcquireFails \/ R!AcquirePage \/ R!ParseChild \/ R!EndPage
<1> USE DEF At, R!At, Top, R!Top, Pages, R!Pages, Go, R!Go, Become, R!Become,
        input, R!input, Resume, R!Resume, Callers, R!Callers, Return, R!Return,
        SetStatus, R!SetStatus
<1>1. BeginPage => R!BeginPage
  BY DEF BeginPage, R!BeginPage, GetStatus, R!GetStatus
<1>2. AcquireFails => R!AcquireFails
  BY SameFails DEF AcquireFails, R!AcquireFails
<1>3. AcquirePage => R!AcquirePage
  BY DEF AcquirePage, R!AcquirePage, CellsCount, R!CellsCount,
     InteriorKinds, R!InteriorKinds
<1>4. ParseChild => R!ParseChild
  BY DEF ParseChild, R!ParseChild, ChildPointers, R!ChildPointers, Garbage,
     R!Garbage, Call, R!Call, BecomeAndCall, R!BecomeAndCall
<1>5. EndPage => R!EndPage
  BY DEF EndPage, R!EndPage
<1> QED
  BY <1>1, <1>2, <1>3, <1>4, <1>5

LEMMA SameCells ==
  ASSUME AtRoot' = AtRoot,
         \/ CellFails \/ ParseCell \/ OverflowBegin \/ OverflowFails
         \/ OverflowRead \/ DecodeFails
  PROVE  \/ R!CellFails \/ R!ParseCell \/ R!OverflowBegin \/ R!OverflowFails
         \/ R!OverflowRead \/ R!DecodeFails
<1> USE DEF At, R!At, Top, R!Top, Pages, R!Pages, Go, R!Go, Become, R!Become,
        input, R!input, CellNow, R!CellNow, SetStatus, R!SetStatus
<1>1. CellFails => R!CellFails
  BY SameFails DEF CellFails, R!CellFails
<1>2. ParseCell => R!ParseCell
  BY DEF ParseCell, R!ParseCell
<1>3. OverflowBegin => R!OverflowBegin
  BY DEF OverflowBegin, R!OverflowBegin
<1>4. OverflowFails => R!OverflowFails
  BY SameFails DEF OverflowFails, R!OverflowFails
<1>5. OverflowRead => R!OverflowRead
  BY DEF OverflowRead, R!OverflowRead
<1>6. DecodeFails => R!DecodeFails
  BY SameFails DEF DecodeFails, R!DecodeFails, Whole, R!Whole
<1> QED
  BY <1>1, <1>2, <1>3, <1>4, <1>5, <1>6

LEMMA SameDelivery ==
  ASSUME AtRoot' = AtRoot, NEW answer, Deliver(answer)
  PROVE  R!Deliver(answer)
BY SameFails DEF Deliver, R!Deliver, At, R!At, Top, R!Top, Pages, R!Pages,
   Become, R!Become, BecomeAndCall, R!BecomeAndCall, CellNow, R!CellNow,
   SetStatus, R!SetStatus, Whole, R!Whole,
   OpensSubtree, R!OpensSubtree, Opens, R!Opens, BtreeKinds, R!BtreeKinds,
   InteriorKinds, R!InteriorKinds, SubtreeType, R!SubtreeType, Call, R!Call,
   input, R!input

LEMMA SameTraverse ==
  ASSUME AtRoot' = AtRoot, Traverse
  PROVE  R!Next /\ rows' = rows
<1>1. rows' = rows
  BY DEF Traverse, SkipPage, OpenFails, OpenBtree, BeginPage,
     AcquireFails, AcquirePage, ParseChild, CellFails, ParseCell,
     OverflowBegin, OverflowFails, OverflowRead, DecodeFails, EndPage
<1>2. R!Traverse
  BY SameOpening, SamePages, SameCells DEF Traverse, R!Traverse
<1> QED
  BY <1>1, <1>2 DEF R!Next, R!Step

-----------------------------------------------------------------------------
(* The rows that the parser delivers for one table.                        *)

LEMMA TableBegins ==
  ASSUME TypeOK', FramesOK', AtRoot' \in Seq(Int), image' \in Images,
         IsForest(image', AtRoot'), stack' = <<>>, todo' = AtRoot'
  PROVE  R!Walking(<<>>)'
<1>1. R!TypeOK'
  BY SameTypes
<1>2. R!FramesOK'
  BY SameFrames
<1>3. R!Forest'
  BY SameForest DEF R!Forest, R!Sound
<1> QED
  BY <1>1, <1>2, <1>3, SameAssumptions, R!WalkingStarts
     DEF R!BtreeParseAssumption, R!PageCountAssumption

LEMMA TableGoesOn ==
  ASSUME NEW out, R!Walking(out), AtRoot' = AtRoot, Traverse \/ UNCHANGED vars
  PROVE  R!Walking(out)'
<1>1. [R!Next]_(R!vars) /\ rows' = rows
  <2>1. CASE Traverse
    BY <2>1, SameTraverse
  <2>2. CASE UNCHANGED vars
    BY <2>2 DEF vars, input, R!vars, R!input
  <2> QED
    BY <2>1, <2>2
<1> QED
  BY <1>1, R!WalkingGoesOn, SameAssumptions
     DEF R!BtreeParseAssumption, R!PageCountAssumption

LEMMA TableDelivers ==
  ASSUME NEW out, R!Walking(out), AtRoot' = AtRoot, NEW answer \in Answers,
         Deliver(answer)
  PROVE  \E row \in RowId : row = TopRow /\ R!Walking(Append(out, row))'
<1>1. R!Deliver(answer)
  BY SameDelivery
<1>2. PICK row \in R!RowId : row = R!TopRow /\ R!Walking(Append(out, row))'
  BY <1>1, R!WalkingDelivers, SameAssumptions
     DEF R!BtreeParseAssumption, R!PageCountAssumption
<1> QED
  BY <1>2, SameRows

LEMMA TableOrdered ==
  ASSUME NEW out, R!Walking(out)
  PROVE  /\ out \in Seq(RowId)
         /\ IsSubsequence(out, Walk(image, AtRoot, {}, AllCells(image)))
<1>1. R!IsSubsequence(out, R!Walk(image, AtRoot, {}, R!AllCells(image)))
  BY R!WalkingOrdered, SameAssumptions
     DEF R!BtreeParseAssumption, R!PageCountAssumption
<1>2. out \in Seq(R!RowId)
  BY DEF R!Walking
<1> QED
  BY <1>1, <1>2, SameRows, SameWalk

-----------------------------------------------------------------------------
(* The rows s of a table in the target are, in order, some of the rows t.  *)

IdOf(e) == [page |-> e.page, i |-> e.i]

InOrder(s, t) ==
  /\ \A m \in DOMAIN s : \E i \in DOMAIN t : t[i] = IdOf(s[m])
  /\ \A m, n \in DOMAIN s : m < n =>
       \E i, j \in DOMAIN t : i < j /\ t[i] = IdOf(s[m]) /\ t[j] = IdOf(s[n])

LEMMA OrderNone ==
  ASSUME NEW t
  PROVE  InOrder(<<>>, t)
<1>1. DOMAIN <<>> = {}
  OBVIOUS
<1> QED
  BY <1>1 DEF InOrder

(* Rows that are delivered and not inserted.                               *)
LEMMA OrderLonger ==
  ASSUME NEW s \in Seq(Effect), NEW t \in Seq(RowId), NEW u \in Seq(RowId),
         Len(t) <= Len(u), \A k \in DOMAIN t : u[k] = t[k], InOrder(s, t)
  PROVE  InOrder(s, u)
<1>1. DOMAIN t \subseteq DOMAIN u
  BY LenProperties
<1> QED
  BY <1>1 DEF InOrder

(* A row that is delivered and inserted.                                   *)
LEMMA OrderNext ==
  ASSUME NEW s \in Seq(Effect), NEW t \in Seq(RowId), InOrder(s, t),
         NEW e \in Effect, NEW r \in RowId, r = IdOf(e)
  PROVE  InOrder(Append(s, e), Append(t, r))
<1> DEFINE s2 == Append(s, e)
           t2 == Append(t, r)
           M  == Len(s)
           N  == Len(t)
<1>1. /\ M \in Nat /\ N \in Nat /\ DOMAIN s = 1 .. M /\ DOMAIN t = 1 .. N
      /\ DOMAIN s2 = 1 .. M + 1 /\ DOMAIN t2 = 1 .. N + 1
      /\ \A k \in 1 .. M : s2[k] = s[k]
      /\ \A k \in 1 .. N : t2[k] = t[k]
      /\ s2[M + 1] = e /\ t2[N + 1] = r
  BY AppendProperties, LenProperties
<1> HIDE DEF s2, t2, M, N
<1>2. ASSUME NEW m \in 1 .. M PROVE \E i \in 1 .. N : t2[i] = IdOf(s2[m])
  BY <1>1 DEF InOrder
<1>3. N + 1 \in DOMAIN t2 /\ t2[N + 1] = IdOf(s2[M + 1])
  BY <1>1
<1>4. ASSUME NEW m \in DOMAIN s2 PROVE \E i \in DOMAIN t2 : t2[i] = IdOf(s2[m])
  <2>1. m \in 1 .. M \/ m = M + 1
    BY <1>1
  <2>2. CASE m = M + 1
    BY <1>3, <2>2
  <2>3. CASE m \in 1 .. M
    <3>1. PICK i \in 1 .. N : t2[i] = IdOf(s2[m])
      BY <1>2, <2>3
    <3>2. i \in DOMAIN t2
      BY <1>1
    <3> QED
      BY <3>1, <3>2
  <2> QED
    BY <2>1, <2>2, <2>3
<1>5. ASSUME NEW m \in DOMAIN s2, NEW n \in DOMAIN s2, m < n
      PROVE  \E i, j \in DOMAIN t2 : i < j /\ t2[i] = IdOf(s2[m]) /\ t2[j] = IdOf(s2[n])
  <2>1. m \in 1 .. M
    BY <1>1, <1>5
  <2>2. CASE n = M + 1
    <3>1. PICK i \in 1 .. N : t2[i] = IdOf(s2[m])
      BY <1>2, <2>1
    <3>2. i < N + 1 /\ i \in DOMAIN t2
      BY <1>1
    <3> QED
      BY <1>3, <2>2, <3>1, <3>2
  <2>3. CASE n \in 1 .. M
    <3>1. PICK i \in 1 .. N, j \in 1 .. N :
            i < j /\ t[i] = IdOf(s[m]) /\ t[j] = IdOf(s[n])
      BY <1>1, <1>5, <2>1, <2>3 DEF InOrder
    <3>2. i \in DOMAIN t2 /\ j \in DOMAIN t2
      BY <1>1
    <3> QED
      BY <1>1, <2>1, <2>3, <3>1, <3>2
  <2> QED
    BY <1>1, <2>2, <2>3
<1> QED
  BY <1>4, <1>5 DEF InOrder, s2, t2

(* Rows that are rolled back.                                              *)
LEMMA OrderShorter ==
  ASSUME NEW s \in Seq(Effect), NEW u \in Seq(Effect), NEW t,
         BeginsWith(u, s), InOrder(u, t)
  PROVE  InOrder(s, t)
<1>1. DOMAIN s \subseteq DOMAIN u /\ \A k \in DOMAIN s : s[k] = u[k]
  BY LenProperties DEF BeginsWith
<1> QED
  BY <1>1 DEF InOrder

LEMMA OrderWithin ==
  ASSUME NEW s, NEW t, NEW u, InOrder(s, t), IsSubsequence(t, u)
  PROVE  InOrder(s, u)
<1>1. \A i \in DOMAIN t : \E k \in DOMAIN u : u[k] = t[i]
  BY DEF IsSubsequence, ToSet
<1>2. \A i, j \in DOMAIN t : i < j =>
        \E k, l \in DOMAIN u : k < l /\ u[k] = t[i] /\ u[l] = t[j]
  BY DEF IsSubsequence
<1>3. \A m \in DOMAIN s : \E i \in DOMAIN u : u[i] = IdOf(s[m])
  BY <1>1 DEF InOrder
<1>4. ASSUME NEW m \in DOMAIN s, NEW n \in DOMAIN s, m < n
      PROVE  \E i, j \in DOMAIN u : i < j /\ u[i] = IdOf(s[m]) /\ u[j] = IdOf(s[n])
  <2>1. PICK i \in DOMAIN t, j \in DOMAIN t :
          i < j /\ t[i] = IdOf(s[m]) /\ t[j] = IdOf(s[n])
    BY <1>4 DEF InOrder
  <2> QED
    BY <1>2, <2>1
<1> QED
  BY <1>3, <1>4 DEF InOrder

(* The rows of one table among those of several.                           *)
LEMMA OrderPart ==
  ASSUME NEW s, NEW a \in Seq(RowId), NEW t \in Seq(RowId), NEW b \in Seq(RowId),
         InOrder(s, t)
  PROVE  InOrder(s, a \o (t \o b))
<1> DEFINE u == a \o (t \o b)
           A == Len(a)
           T == Len(t)
<1>1. t \o b \in Seq(RowId) /\ Len(t \o b) = T + Len(b)
      /\ \A k \in 1 .. T : (t \o b)[k] = t[k]
  BY ConcatProperties, LenProperties
<1>2. A \in Nat /\ T \in Nat /\ Len(b) \in Nat /\ DOMAIN t = 1 .. T
  BY LenProperties
<1> DEFINE c == t \o b
<1> HIDE DEF c
<1>3. c \in Seq(RowId) /\ Len(c) = T + Len(b) /\ \A k \in 1 .. T : c[k] = t[k]
  BY <1>1 DEF c
<1>4. /\ a \o c \in Seq(RowId) /\ Len(a \o c) = A + Len(c)
      /\ \A k \in 1 .. A + Len(c) : (a \o c)[k] = IF k <= A THEN a[k] ELSE c[k - A]
  <2> HIDE DEF A
  <2>1. c \in Seq(RowId)
    BY <1>3
  <2>2. /\ a \o c \in Seq(RowId) /\ Len(a \o c) = Len(a) + Len(c)
        /\ \A k \in 1 .. Len(a) + Len(c) :
             (a \o c)[k] = IF k <= Len(a) THEN a[k] ELSE c[k - Len(a)]
    BY ONLY <2>1, a \in Seq(RowId), ConcatProperties, Zenon
  <2> QED
    BY <2>2 DEF A
<1>5. u = a \o c /\ DOMAIN u = 1 .. A + Len(c)
  BY <1>4, LenProperties DEF c
<1> HIDE DEF u, A, T
<1>6. ASSUME NEW k \in 1 .. T
      PROVE  A + k \in DOMAIN u /\ u[A + k] = t[k]
  <2>1. /\ A + k \in 1 .. A + Len(c) /\ ~ (A + k <= A) /\ (A + k) - A = k
    BY <1>2, <1>3
  <2>2. (a \o c)[A + k] = c[(A + k) - A]
    BY <1>4, <2>1
  <2> QED
    BY <1>3, <1>5, <2>1, <2>2
<1>7. \A m \in DOMAIN s : \E i \in DOMAIN u : u[i] = IdOf(s[m])
  BY <1>2, <1>6 DEF InOrder
<1>8. ASSUME NEW m \in DOMAIN s, NEW n \in DOMAIN s, m < n
      PROVE  \E i, j \in DOMAIN u : i < j /\ u[i] = IdOf(s[m]) /\ u[j] = IdOf(s[n])
  <2>1. PICK i \in 1 .. T, j \in 1 .. T :
          i < j /\ t[i] = IdOf(s[m]) /\ t[j] = IdOf(s[n])
    BY <1>2, <1>8 DEF InOrder
  <2>2. /\ A + i \in DOMAIN u /\ u[A + i] = t[i]
        /\ A + j \in DOMAIN u /\ u[A + j] = t[j]
    BY <1>6
  <2>3. A + i < A + j
    BY <1>2, <2>1
  <2> QED
    BY <2>1, <2>2, <2>3
<1> QED
  BY <1>7, <1>8 DEF InOrder, u

(* The rows of a table and the damaged table, as Recovery compares them.   *)
LEMMA OrderLeaves ==
  ASSUME NEW s \in Seq(Effect), NEW w \in Seq(RowId), InOrder(s, w), NEW n,
         \A k \in DOMAIN s : s[k].name = n,
         NEW t, t = [k \in DOMAIN w |-> Row(n, w[k].page, w[k].i)]
  PROVE  Promise!LeavesOut(s, t)
<1>1. ASSUME NEW m \in DOMAIN s, NEW i \in DOMAIN w, w[i] = IdOf(s[m])
      PROVE  t[i] = s[m] /\ i \in DOMAIN t
  <2>1. s[m] \in Effect
    BY LenProperties, ElementOfSeq
  <2>2. s[m] = [name |-> s[m].name, page |-> s[m].page, i |-> s[m].i]
    BY <2>1 DEF Effect
  <2>3. w[i].page = s[m].page /\ w[i].i = s[m].i
    BY <1>1 DEF IdOf
  <2>4. t[i] = Row(n, w[i].page, w[i].i) /\ i \in DOMAIN t
    OBVIOUS
  <2> QED
    BY <2>2, <2>3, <2>4 DEF Row
<1>2. \A m \in DOMAIN s : \E i \in DOMAIN t : t[i] = s[m]
  BY <1>1 DEF InOrder
<1>3. ASSUME NEW m \in DOMAIN s, NEW k \in DOMAIN s, m < k
      PROVE  \E i, j \in DOMAIN t : i < j /\ t[i] = s[m] /\ t[j] = s[k]
  <2>1. PICK i \in DOMAIN w, j \in DOMAIN w :
          i < j /\ w[i] = IdOf(s[m]) /\ w[j] = IdOf(s[k])
    BY <1>3 DEF InOrder
  <2> QED
    BY <1>1, <2>1
<1> QED
  BY <1>2, <1>3 DEF Promise!LeavesOut

-----------------------------------------------------------------------------
(* The rows of a table that are committed; the rows that are inserted.     *)

Saved(x, n)    == RowsOf(x.done, n)
Inserted(x, n) == RowsOf(x.done \o x.pending, n)

(* Outside of a transaction nothing is pending.                            *)
Sealed(x) == ~ x.open => x.pending = <<>>

(* From x to y no row is inserted and no committed one is taken back.      *)
Settles(x, y) ==
  /\ y \in Db /\ Sealed(y)
  /\ \A n : /\ BeginsWith(Saved(y, n), Saved(x, n))
            /\ BeginsWith(Inserted(x, n), Inserted(y, n))

LEMMA RowsOfDb ==
  ASSUME NEW x \in Db
  PROVE  /\ x.done \in Seq(Effect) /\ x.pending \in Seq(Effect)
         /\ x.done \o x.pending \in Seq(Effect)
         /\ BeginsWith(x.done \o x.pending, x.done)
         /\ \A n : /\ Saved(x, n) \in Seq(Effect) /\ Inserted(x, n) \in Seq(Effect)
                   /\ BeginsWith(Inserted(x, n), Saved(x, n))
<1>1. x.done \in Seq(Effect) /\ x.pending \in Seq(Effect)
  BY DEF Db
<1>2. x.done \o x.pending \in Seq(Effect)
  BY <1>1, ConcatProperties
<1>3. BeginsWith(x.done \o x.pending, x.done)
  BY <1>1, BeginsIs
<1>4. ASSUME NEW n
      PROVE  /\ Saved(x, n) \in Seq(Effect) /\ Inserted(x, n) \in Seq(Effect)
             /\ BeginsWith(Inserted(x, n), Saved(x, n))
  BY <1>1, <1>2, <1>3, RowsType, RowsBegin DEF Saved, Inserted
<1> QED
  BY <1>1, <1>2, <1>3, <1>4

LEMMA SettlesBoth ==
  ASSUME NEW x \in Db, NEW y, NEW z, Settles(x, y), Settles(y, z)
  PROVE  Settles(x, z)
<1>1. y \in Db /\ z \in Db /\ Sealed(z)
  BY DEF Settles
<1>2. ASSUME NEW n
      PROVE  /\ BeginsWith(Saved(z, n), Saved(x, n))
             /\ BeginsWith(Inserted(x, n), Inserted(z, n))
  <2>1. /\ Saved(x, n) \in Seq(Effect) /\ Inserted(x, n) \in Seq(Effect)
        /\ Saved(y, n) \in Seq(Effect) /\ Inserted(y, n) \in Seq(Effect)
        /\ Saved(z, n) \in Seq(Effect) /\ Inserted(z, n) \in Seq(Effect)
    BY <1>1, RowsOfDb
  <2>2. /\ BeginsWith(Saved(y, n), Saved(x, n)) /\ BeginsWith(Saved(z, n), Saved(y, n))
        /\ BeginsWith(Inserted(x, n), Inserted(y, n))
        /\ BeginsWith(Inserted(y, n), Inserted(z, n))
    BY DEF Settles
  <2> QED
    BY <2>1, <2>2, BeginsIs
<1> QED
  BY <1>1, <1>2 DEF Settles

(* The same effects, done or pending.                                      *)
LEMMA SettlesAlike ==
  ASSUME NEW x \in Db, NEW y \in Db, Sealed(y),
         y.done \o y.pending = x.done \o x.pending, BeginsWith(y.done, x.done)
  PROVE  Settles(x, y)
<1>1. ASSUME NEW n
      PROVE  /\ BeginsWith(Saved(y, n), Saved(x, n))
             /\ BeginsWith(Inserted(x, n), Inserted(y, n))
  <2>1. Inserted(y, n) = Inserted(x, n) /\ Inserted(x, n) \in Seq(Effect)
    BY RowsOfDb DEF Inserted
  <2>2. BeginsWith(Inserted(x, n), Inserted(y, n))
    BY <2>1, BeginsIs
  <2>3. BeginsWith(Saved(y, n), Saved(x, n))
    BY RowsOfDb, RowsBegin DEF Saved
  <2> QED
    BY <2>2, <2>3
<1> QED
  BY <1>1 DEF Settles

(* The same is done, and nothing is pending.                               *)
LEMMA SettlesDone ==
  ASSUME NEW x \in Db, NEW y \in Db, y.pending = <<>>, y.done = x.done
  PROVE  Settles(x, y)
<1>1. Sealed(y) /\ y.done \o y.pending = x.done
  BY RowsOfDb, ConcatEmptySeq DEF Sealed
<1>2. ASSUME NEW n
      PROVE  /\ BeginsWith(Saved(y, n), Saved(x, n))
             /\ BeginsWith(Inserted(x, n), Inserted(y, n))
  <2>1. Inserted(y, n) = Saved(x, n) /\ Saved(y, n) = Saved(x, n)
    BY <1>1 DEF Inserted, Saved
  <2> QED
    BY <2>1, RowsOfDb, BeginsIs
<1> QED
  BY <1>1, <1>2 DEF Settles

LEMMA SettlesItself ==
  ASSUME NEW x \in Db, Sealed(x)
  PROVE  Settles(x, x)
BY SettlesAlike, RowsOfDb, BeginsIs

(* A statement that leads from x to y may fail.                            *)
LEMMA TrySettles ==
  ASSUME NEW x \in Db, Sealed(x), NEW y, Settles(x, y), NEW z \in Try(x, y)
  PROVE  Settles(x, z)
<1>1. y \in Db
  BY DEF Settles
<1>2. z \in Db
  BY <1>1, TryFacts
<1>3. z = y \/ z = Fault(x) \/ z = Fault(Rollback(x))
  BY DEF Try
<1>4. CASE z = Fault(x)
  <2>1. z.done = x.done /\ z.pending = x.pending /\ z.open = x.open
    BY <1>4 DEF Fault, Db
  <2>2. Sealed(z) /\ z.done \o z.pending = x.done \o x.pending
    BY <2>1 DEF Sealed
  <2> QED
    BY <1>2, <2>1, <2>2, SettlesAlike, RowsOfDb, BeginsIs
<1>5. CASE z = Fault(Rollback(x))
  <2>1. z.done = x.done /\ z.pending = <<>>
    BY <1>5 DEF Fault, Rollback, Db
  <2> QED
    BY <1>2, <2>1, SettlesDone
<1> QED
  BY <1>3, <1>4, <1>5

LEMMA RollbackSettles ==
  ASSUME NEW x \in Db
  PROVE  Settles(x, Rollback(x))
<1>1. Rollback(x) \in Db /\ Rollback(x).pending = <<>> /\ Rollback(x).done = x.done
  BY CommitFacts DEF Rollback, Db
<1> QED
  BY <1>1, SettlesDone

LEMMA BeginSettles ==
  ASSUME NEW x \in Db, Sealed(x), NEW z \in Begin(x)
  PROVE  Settles(x, z)
<1>1. CASE x.open
  BY <1>1, SettlesItself DEF Begin
<1>2. CASE ~ x.open
  <2> DEFINE y == [x EXCEPT !.open = TRUE]
  <2>1. y \in Db /\ y.open /\ y.pending = x.pending /\ y.done = x.done
    BY DEF Db
  <2>2. z \in Try(x, y)
    BY <1>2 DEF Begin
  <2> HIDE DEF y
  <2>3. Sealed(y) /\ y.done \o y.pending = x.done \o x.pending
    BY <2>1 DEF Sealed
  <2>4. Settles(x, y)
    BY <2>1, <2>3, SettlesAlike, RowsOfDb, BeginsIs
  <2> QED
    BY <2>2, <2>4, TrySettles
<1> QED
  BY <1>1, <1>2

LEMMA EndSettles ==
  ASSUME NEW x \in Db, Sealed(x), NEW z \in End(x)
  PROVE  Settles(x, z)
<1>1. CASE ~ x.open
  BY <1>1, SettlesItself DEF End
<1>2. CASE x.open
  <2> DEFINE y == Commit(x)
  <2>1. y \in Db /\ ~ y.open /\ y.pending = <<>> /\ y.done = x.done \o x.pending
    BY CommitFacts DEF Commit, Db
  <2>2. z \in Try(x, y)
    BY <1>2 DEF End
  <2> HIDE DEF y
  <2>3. Sealed(y) /\ y.done \o y.pending = x.done \o x.pending
    BY <2>1, RowsOfDb, ConcatEmptySeq DEF Sealed
  <2>4. BeginsWith(y.done, x.done)
    BY <2>1, RowsOfDb
  <2>5. Settles(x, y)
    BY <2>1, <2>3, <2>4, SettlesAlike
  <2> QED
    BY <2>2, <2>5, TrySettles
<1> QED
  BY <1>1, <1>2

LEMMA RecommitSettles ==
  ASSUME NEW x \in Db, Sealed(x), NEW z \in Recommit(x)
  PROVE  Settles(x, z)
<1>1. CASE ~ x.open
  BY <1>1, SettlesItself DEF Recommit
<1>2. CASE x.open
  <2>1. PICK c \in End(x) : z \in IF c.faults # x.faults THEN {c} ELSE Begin(c)
    BY <1>2 DEF Recommit
  <2>2. Settles(x, c)
    BY <2>1, EndSettles
  <2>3. c \in Db /\ Sealed(c)
    BY <2>2 DEF Settles
  <2>4. CASE z = c
    BY <2>2, <2>4
  <2>5. CASE z \in Begin(c)
    <3>1. Settles(c, z)
      BY <2>3, <2>5, BeginSettles
    <3> QED
      BY <2>2, <3>1, SettlesBoth
  <2> QED
    BY <2>1, <2>4, <2>5
<1> QED
  BY <1>1, <1>2

LEMMA AppendLater ==
  ASSUME NEW d \in Seq(Effect), NEW p \in Seq(Effect), NEW e \in Effect
  PROVE  d \o Append(p, e) = Append(d \o p, e)
<1> DEFINE a == d \o Append(p, e)
           b == Append(d \o p, e)
           L == Len(d) + Len(p)
<1>1. /\ Append(p, e) \in Seq(Effect) /\ Len(Append(p, e)) = Len(p) + 1
      /\ \A k \in 1 .. Len(p) : Append(p, e)[k] = p[k]
      /\ Append(p, e)[Len(p) + 1] = e
  BY AppendProperties
<1>2. d \o p \in Seq(Effect) /\ Len(d \o p) = L
      /\ \A k \in 1 .. L : (d \o p)[k] = IF k <= Len(d) THEN d[k] ELSE p[k - Len(d)]
  BY ConcatProperties
<1>3. /\ a \in Seq(Effect) /\ Len(a) = Len(d) + (Len(p) + 1)
      /\ \A k \in 1 .. Len(d) + (Len(p) + 1) :
           a[k] = IF k <= Len(d) THEN d[k] ELSE Append(p, e)[k - Len(d)]
  BY <1>1, ConcatProperties
<1>4. /\ b \in Seq(Effect) /\ Len(b) = L + 1
      /\ \A k \in 1 .. L : b[k] = (d \o p)[k]
      /\ b[L + 1] = e
  BY <1>2, AppendProperties
<1>5. Len(d) \in Nat /\ Len(p) \in Nat /\ L \in Nat
  BY LenProperties
<1> HIDE DEF a, b
<1>6. ASSUME NEW k \in 1 .. Len(a) PROVE a[k] = b[k]
  <2>1. CASE k \in 1 .. L
    <3>1. k \in 1 .. Len(d) + (Len(p) + 1)
      BY <1>3
    <3>2. ~ (k <= Len(d)) => k - Len(d) \in 1 .. Len(p)
      BY <1>5, <2>1
    <3> QED
      BY <1>1, <1>2, <1>3, <1>4, <2>1, <3>1, <3>2
  <2>2. CASE k = L + 1
    <3>1. ~ (k <= Len(d)) /\ k - Len(d) = Len(p) + 1
      BY <1>5, <2>2
    <3>2. a[k] = Append(p, e)[k - Len(d)]
      BY <1>3, <3>1
    <3>3. Append(p, e)[k - Len(d)] = e
      BY <1>1, <3>1
    <3>4. b[k] = e
      BY <1>4, <2>2
    <3> QED
      BY <3>2, <3>3, <3>4
  <2>3. k \in 1 .. L \/ k = L + 1
    <3>1. k \in 1 .. Len(d) + (Len(p) + 1)
      BY <1>3
    <3> QED
      BY <1>5, <3>1
  <2> QED
    BY <2>1, <2>2, <2>3
<1>7. Len(a) = Len(b)
  BY <1>3, <1>4, <1>5
<1>8. a = b
  BY <1>3, <1>4, <1>6, <1>7, SeqEqual
<1> QED
  BY <1>8 DEF a, b

(* A row is inserted, or a table created.                                  *)
LEMMA ExecuteInserts ==
  ASSUME NEW x \in Db, Sealed(x), NEW e \in Effect
  PROVE  LET y == Execute(x, e) IN
         /\ y \in Db /\ Sealed(y)
         /\ \A n : /\ BeginsWith(Saved(y, n), Saved(x, n))
                   /\ Inserted(y, n) = IF Wanted(e, n) THEN Append(Inserted(x, n), e)
                                       ELSE Inserted(x, n)
<1> DEFINE y == Execute(x, e)
           all == x.done \o x.pending
<1>1. /\ x.done \in Seq(Effect) /\ x.pending \in Seq(Effect) /\ all \in Seq(Effect)
      /\ Append(x.done, e) \in Seq(Effect)
  BY RowsOfDb, AppendProperties
<1>2. y \in Db /\ y.open = x.open
  BY ExecuteFacts
<1>3. /\ Sealed(y) /\ BeginsWith(y.done, x.done)
      /\ y.done \o y.pending = Append(all, e)
  <2>1. CASE x.open
    <3>1. y.done = x.done /\ y.pending = Append(x.pending, e)
      BY <2>1 DEF Execute, Db
    <3>2. x.done \o Append(x.pending, e) = Append(x.done \o x.pending, e)
      <4>1. PICK d \in Seq(Effect), p \in Seq(Effect) : d = x.done /\ p = x.pending
        BY <1>1
      <4>2. d \o Append(p, e) = Append(d \o p, e)
        BY AppendLater
      <4> QED
        BY <4>1, <4>2
    <3> QED
      BY <1>1, <1>2, <2>1, <3>1, <3>2, BeginsIs DEF Sealed
  <2>2. CASE ~ x.open
    <3>1. y.done = Append(x.done, e) /\ y.pending = x.pending /\ x.pending = <<>>
      BY <2>2 DEF Execute, Db, Sealed
    <3>2. x.done \o <<>> = x.done /\ Append(x.done, e) \o <<>> = Append(x.done, e)
      BY <1>1, ConcatEmptySeq
    <3> QED
      BY <1>1, <1>2, <2>2, <3>1, <3>2, BeginsIs DEF Sealed
  <2> QED
    BY <2>1, <2>2
<1> HIDE DEF y
<1>4. ASSUME NEW n PROVE BeginsWith(Saved(y, n), Saved(x, n))
  <2>1. y.done \in Seq(Effect)
    BY <1>2, RowsOfDb
  <2> QED
    BY <1>1, <1>3, <2>1, RowsBegin DEF Saved
<1>5. ASSUME NEW n
      PROVE  Inserted(y, n) = IF Wanted(e, n) THEN Append(Inserted(x, n), e)
                              ELSE Inserted(x, n)
  <2>1. RowsOf(Append(all, e), n)
          = IF Wanted(e, n) THEN Append(RowsOf(all, n), e) ELSE RowsOf(all, n)
    <3> HIDE DEF all
    <3> QED
      BY <1>1, RowsAppend
  <2> QED
    BY <1>3, <2>1 DEF Inserted
<1> QED
  BY <1>2, <1>3, <1>4, <1>5 DEF y

-----------------------------------------------------------------------------
(* The trees of a table: the rows under one root are a stretch of the rows *)
(* under all roots that sqlite_master gives it.                            *)

LEMMA RootsAreFinite ==
  ASSUME NEW img \in ImageType, NEW n
  PROVE  IsFiniteSet(RootsOf(img, n)) /\ RootsOf(img, n) \subseteq Int
<1> DEFINE cells == [p \in Pages |-> {p} \X (1 .. Len(img[p].cells))]
           S == {cells[p] : p \in Pages}
           C == RootCells(img, n)
           root == [x \in C |-> img[x[1]].cells[x[2]].root]
<1>1. ASSUME NEW p \in Pages
      PROVE  /\ img[p].cells \in Seq(Cell)
             /\ Len(img[p].cells) \in Nat /\ DOMAIN img[p].cells = 1 .. Len(img[p].cells)
  BY LenProperties DEF ImageType, Page
<1>2. IsFiniteSet(S)
  <2>1. cells \in Surjection(Pages, S)
    BY DEF Surjection
  <2>2. IsFiniteSet(Pages)
    BY PageCountAssumption, FS_Interval DEF Pages
  <2> HIDE DEF cells, S
  <2> QED
    BY <2>1, <2>2, FS_Surjection
<1>3. ASSUME NEW T \in S PROVE IsFiniteSet(T)
  <2>1. PICK p \in Pages : T = {p} \X (1 .. Len(img[p].cells))
    OBVIOUS
  <2>2. IsFiniteSet({p}) /\ IsFiniteSet(1 .. Len(img[p].cells))
    <3>1. PICK N \in Nat, one \in Nat : N = Len(img[p].cells) /\ one = 1
      BY <1>1
    <3>2. IsFiniteSet(one .. N)
      BY FS_Interval
    <3> QED
      BY <3>1, <3>2, FS_Singleton
  <2> QED
    BY <2>1, <2>2, FS_Product
<1>4. IsFiniteSet(UNION S)
  <2> HIDE DEF S
  <2> QED
    BY <1>2, <1>3, FS_UNION
<1>5. ASSUME NEW x \in C
      PROVE  /\ x[1] \in Pages /\ x[2] \in DOMAIN img[x[1]].cells
             /\ x \in UNION S /\ root[x] \in Int
  <2>1. x \in Pages \X Nat
    BY OutputAssumption DEF RootCells
  <2>2. x[1] \in Pages /\ x = <<x[1], x[2]>> /\ x[2] \in DOMAIN img[x[1]].cells
    BY <2>1 DEF RootCells
  <2>3. x \in cells[x[1]] /\ cells[x[1]] \in S
    BY <1>1, <2>2
  <2>4. img[x[1]].cells[x[2]] \in Cell
    BY <1>1, <2>2, ElementOfSeq
  <2> QED
    BY <2>2, <2>3, <2>4 DEF Cell
<1>6. IsFiniteSet(C)
  <2> HIDE DEF C, S
  <2>1. C \in SUBSET UNION S
    BY <1>5
  <2> QED
    BY <1>4, <2>1, FS_Subset
<1>7. RootsOf(img, n) = {root[x] : x \in C}
  BY DEF RootsOf
<1>8. root \in Surjection(C, RootsOf(img, n))
  <2> HIDE DEF C
  <2> QED
    BY <1>7 DEF Surjection
<1>9. RootsOf(img, n) \subseteq Int
  BY <1>5, <1>7
<1> HIDE DEF C, root
<1> QED
  BY <1>6, <1>8, <1>9, FS_Surjection

LEMMA RootsAre ==
  ASSUME NEW img \in ImageType, NEW n
  PROVE  /\ Roots(img, n) \in Seq(Int)
         /\ \A r \in RootsOf(img, n) : \E k \in DOMAIN Roots(img, n) : Roots(img, n)[k] = r
<1> DEFINE S == RootsOf(img, n)
           N == Cardinality(S)
           f == SetToSeq(S)
<1>1. IsFiniteSet(S) /\ S \subseteq Int
  BY RootsAreFinite
<1> HIDE DEF S
<1>2. N \in Nat /\ Bijection(1 .. N, S) # {}
  BY <1>1, FS_CardinalityType DEF ExistsBijection
<1>3. PICK g : g \in Injection(1 .. N, S)
  BY <1>2 DEF Bijection
<1>4. g \in [1 .. N -> S] /\ IsInjective(g)
  BY <1>3 DEF Injection
<1>5. f \in [1 .. N -> S] /\ IsInjective(f)
  BY <1>4 DEF SetToSeq
<1> HIDE DEF f
<1>6. f \in Injection(1 .. N, S)
  BY <1>5 DEF Injection
<1>7. Cardinality(1 .. N) = N
  <2>1. Cardinality(1 .. N) = IF 1 > N THEN 0 ELSE N - 1 + 1
    BY <1>2, FS_Interval
  <2> HIDE DEF N
  <2> QED
    BY <1>2, <2>1
<1>8. f \in Surjection(1 .. N, S)
  <2>1. Cardinality(1 .. N) = Cardinality(S)
    BY <1>7
  <2> HIDE DEF N
  <2> QED
    BY <1>1, <1>6, <2>1, FS_Injection
<1>9. f \in Seq(Int) /\ DOMAIN f = 1 .. N
  <2>1. f \in [1 .. N -> Int]
    BY <1>1, <1>5
  <2> HIDE DEF N
  <2> QED
    BY <1>2, <2>1, FunctionIsSeq
<1>10. \A r \in S : \E k \in 1 .. N : f[k] = r
  BY <1>8 DEF Surjection
<1> QED
  BY <1>9, <1>10 DEF Roots, f, S

(* What all sequences from the first one on add up to, and one of them.    *)
LEMMA RestPart ==
  ASSUME NEW q \in Seq(Seq(RowId)), NEW m \in 1 .. Len(q)
  PROVE  \E a, b \in Seq(RowId) : FlattenSeq(q) = a \o (q[m] \o b)
<1> DEFINE N == Len(q)
           s == RestOf(q)
           P == {j \in 0 .. N : j < m => \E a \in Seq(RowId) : s[1] = a \o s[j + 1]}
<1>1. /\ N \in Nat /\ FlattenSeq(q) = s[1]
      /\ \A k \in 1 .. N + 1 : s[k] \in Seq(RowId)
      /\ \A k \in 1 .. N : q[k] \in Seq(RowId) /\ s[k] = q[k] \o s[k + 1]
  BY RestIs, LenProperties
<1> HIDE DEF s, N
<1>2. 0 \in P
  <2>1. <<>> \in Seq(RowId) /\ s[1] \in Seq(RowId) /\ 0 + 1 = 1 /\ 0 \in 0 .. N
    BY <1>1, EmptySeq
  <2>2. s[1] = <<>> \o s[1]
    BY <2>1, ConcatEmptySeq
  <2> QED
    BY <2>1, <2>2
<1>3. ASSUME NEW j \in 1 .. N, j - 1 \in P PROVE j \in P
  <2>8. j \in 0 .. N
    BY <1>1
  <2>9. SUFFICES ASSUME j < m
                 PROVE  \E a \in Seq(RowId) : s[1] = a \o s[j + 1]
    BY <2>8
  <2>1. j - 1 + 1 = j /\ j - 1 < m /\ m \in 1 .. N /\ j + 1 \in 1 .. N + 1
    BY <1>1, <2>9 DEF N
  <2>2. PICK a \in Seq(RowId) : s[1] = a \o s[j]
    BY <1>3, <2>1
  <2>3. q[j] \in Seq(RowId) /\ s[j] = q[j] \o s[j + 1] /\ s[j + 1] \in Seq(RowId)
    BY <1>1, <2>1
  <2>4. PICK b \in Seq(RowId), c \in Seq(RowId) : b = q[j] /\ c = s[j + 1]
    BY <2>3
  <2>5. s[1] = a \o (b \o c)
    BY <2>2, <2>3, <2>4
  <2>6. (a \o b) \o c = a \o (b \o c) /\ a \o b \in Seq(RowId)
    BY Regroup, ConcatProperties
  <2> QED
    BY <2>4, <2>5, <2>6
<1>4. 0 .. N \subseteq P
  <2> HIDE DEF P
  <2> QED
    BY <1>1, <1>2, <1>3, Induct
<1>5. PICK a \in Seq(RowId) : s[1] = a \o s[m]
  <2>1. m - 1 \in 0 .. N /\ m - 1 < m /\ m - 1 + 1 = m
    BY <1>1 DEF N
  <2> QED
    BY <1>4, <2>1
<1>6. q[m] \in Seq(RowId) /\ s[m] = q[m] \o s[m + 1] /\ s[m + 1] \in Seq(RowId)
  <2>1. m \in 1 .. N /\ m + 1 \in 1 .. N + 1
    BY <1>1 DEF N
  <2> QED
    BY <1>1, <2>1
<1> QED
  BY <1>1, <1>5, <1>6

LEMMA RootPart ==
  ASSUME NEW img \in ImageType, NEW n, NEW r \in RootsOf(img, n)
  PROVE  \E a, b \in Seq(RowId) :
           Walk(img, Roots(img, n), {}, AllCells(img))
             = a \o (Walk(img, <<r>>, {}, AllCells(img)) \o b)
<1> DEFINE all == Roots(img, n)
           q == Asked(img, all)
           one == <<r>>
           p == Asked(img, one)
<1>1. r \in Int /\ all \in Seq(Int) /\ one \in Seq(Int) /\ Len(one) = 1 /\ one[1] = r
  BY RootsAreFinite, RootsAre
<1>2. PICK m \in 1 .. Len(all) : all[m] = r
  BY <1>1, RootsAre, LenProperties
<1> HIDE DEF all, one
<1>3. /\ q \in Seq(Seq(RowId)) /\ Len(q) = Len(all)
      /\ \A k \in 1 .. Len(q) :
              q[k] = Levels(img)[PageCount][<<all[k], RootType(all[k])>>]
      /\ Walk(img, all, {}, AllCells(img)) = RestOf(q)[1]
  BY <1>1, AskedIs
<1>4. /\ p \in Seq(Seq(RowId)) /\ Len(p) = 1
      /\ \A k \in 1 .. Len(p) :
              p[k] = Levels(img)[PageCount][<<one[k], RootType(one[k])>>]
      /\ Walk(img, one, {}, AllCells(img)) = RestOf(p)[1]
  BY <1>1, AskedIs
<1> HIDE DEF q, p
<1>5. \E a, b \in Seq(RowId) : RestOf(q)[1] = a \o (q[m] \o b)
  <2>1. m \in 1 .. Len(q) /\ FlattenSeq(q) = RestOf(q)[1]
    BY <1>2, <1>3, RestIs
  <2>2. \E a, b \in Seq(RowId) : FlattenSeq(q) = a \o (q[m] \o b)
    BY <1>3, <2>1, RestPart
  <2> QED
    BY <2>1, <2>2
<1>6. RestOf(p)[1] = p[1]
  <2>1. /\ p[1] \in Seq(RowId) /\ RestOf(p)[1] = p[1] \o RestOf(p)[2]
        /\ RestOf(p)[2] = <<>>
    <3>1. 1 \in 1 .. Len(p) /\ Len(p) + 1 = 2 /\ 1 + 1 = 2
      BY <1>4
    <3> QED
      BY <1>4, <3>1, RestIs
  <2> QED
    BY <2>1, ConcatEmptySeq
<1>7. p[1] = q[m]
  <2>1. 1 \in 1 .. Len(p) /\ m \in 1 .. Len(q)
    BY <1>2, <1>3, <1>4
  <2>2. p[1] = Levels(img)[PageCount][<<one[1], RootType(one[1])>>]
    BY <1>4, <2>1
  <2>3. q[m] = Levels(img)[PageCount][<<all[m], RootType(all[m])>>]
    BY <1>3, <2>1
  <2> QED
    BY <1>1, <1>2, <2>2, <2>3
<1> QED
  BY <1>3, <1>4, <1>5, <1>6, <1>7 DEF all, one

-----------------------------------------------------------------------------
(* The recovery as a whole: where it is, what the target holds, and what   *)
(* the parser has delivered for the table at hand.                         *)

RowsUnder(n) == Walk(image, Roots(image, n), {}, AllCells(image))

Control ==
  /\ image \in Images /\ Genuine(image, tables)
  /\ result = "running" <=> pc # "done"
  /\ pc \in {"master", "table"} \/ stack = <<>>
  /\ pc = "table" => /\ cursor \in DOMAIN tables
                     /\ tables[cursor].type = "table" /\ tables[cursor].root # 0

Target ==
  /\ Sealed(db)
  /\ success = 0 => \A n \in Names : Inserted(db, n) = <<>>
  /\ pc \in {"master", "tables", "table"} =>
       \A n \in Names : n > cursor => Inserted(db, n) = <<>>
  /\ \A n \in Names : (pc = "table" => n # cursor) =>
       InOrder(Inserted(db, n), RowsUnder(n))

Follows ==
  pc = "table" => \E out : R!Walking(out) /\ InOrder(Inserted(db, cursor), out)

KeepInv == Control /\ Target /\ Follows

(* What the parser reads does not change.                                  *)
LEMMA FileStays ==
  ASSUME [OutNext]_allVars
  PROVE  image' = image
<1> USE DEF input
<1>1. \A answer : Deliver(answer) => image' = image
  BY DEF Deliver
<1>2. Traverse => image' = image
  BY DEF Traverse, SkipPage, OpenFails, OpenBtree, BeginPage,
     AcquireFails, AcquirePage, ParseChild, CellFails, ParseCell,
     OverflowBegin, OverflowFails, OverflowRead, DecodeFails, EndPage
<1>3. MasterRow \/ RefuseRow \/ DropRow \/ InsertRow \/ (\E a \in Callback : PassRow(a))
        => \E answer : Deliver(answer)
  BY DEF MasterRow, RefuseRow, DropRow, InsertRow, PassRow
<1>4. ASSUME \/ MasterParsed \/ LoopCancelled \/ NextTable \/ TableParsed
             \/ TablesDone \/ NextIndex \/ Report \/ Cancel
      PROVE  image' = image
  BY <1>4 DEF MasterParsed, LoopCancelled, NextTable, TableParsed, TablesDone,
     NextIndex, Report, Cancel, vars
<1>5. UNCHANGED allVars => image' = image
  BY DEF allVars, vars
<1>6. (\E answer : Deliver(answer)) => image' = image
  BY <1>1
<1>7. Work => image' = image
  BY <1>2, <1>3, <1>4, <1>6 DEF Work
<1> QED
  BY <1>4, <1>5, <1>7 DEF OutNext, Returned

(* The row of sqlite_master that a call has read names a tree of the file. *)
LEMMA LearnsGenuine ==
  ASSUME TypeOK, FramesOK, OutTypeOK, Genuine(image, tables), MasterRow
  PROVE  Genuine(image, tables')
<1>1. CASE tables' = tables
  BY <1>1
<1>2. CASE tables' # tables
  <2> DEFINE p == Top.page
             i == Top.i
             row == Schema[<<p, i>>]
             cell == image[p].cells[i]
  <2>1. Deliver("OK") \/ Deliver("CANCELLED")
    BY DEF MasterRow
  <2>2. stack # <<>> /\ Top.at = "column"
    BY <2>1 DEF Deliver, At
  <2>3. Top \in Frame /\ FrameOK(Top, image, declined)
    BY <2>2, TopFacts
  <2>4. p \in Pages /\ i \in DOMAIN image[p].cells
    BY <2>2, <2>3 DEF FrameOK, Active
  <2>5. /\ <<p, i>> \in DOMAIN Schema
        /\ tables' = [n \in DOMAIN tables \cup {row.name} |->
                       IF n # row.name THEN tables[n]
                       ELSE [type |-> row.type, root |-> cell.root,
                             sql |-> row.sql]]
    BY <1>2 DEF MasterRow, Learn
  <2>6. row.type = "table" => cell.root \in RootsOf(image, row.name)
    <3> DEFINE x == <<p, i>>
    <3>1. x[1] = p /\ x[2] = i
      OBVIOUS
    <3>2. row = Schema[x] /\ cell = image[x[1]].cells[x[2]]
      BY <3>1
    <3>3. x \in DOMAIN Schema /\ x[2] \in DOMAIN image[x[1]].cells
      BY <2>4, <2>5, <3>1
    <3> HIDE DEF x, p, i, row, cell
    <3>4. row.type = "table" => x \in RootCells(image, row.name)
      BY <3>2, <3>3 DEF RootCells
    <3> QED
      BY <3>2, <3>4 DEF RootsOf
  <2> HIDE DEF p, i, row, cell
  <2>7. ASSUME NEW n \in DOMAIN tables', tables'[n].type = "table"
        PROVE  tables'[n].root \in RootsOf(image, n) \cup {0}
    <3>1. CASE n = row.name
      <4>1. tables'[n] = [type |-> row.type, root |-> cell.root, sql |-> row.sql]
        BY <2>5, <3>1
      <4> QED
        BY <2>6, <2>7, <3>1, <4>1
    <3>2. CASE n # row.name
      <4>1. n \in DOMAIN tables /\ tables'[n] = tables[n]
        BY <2>5, <3>2
      <4> QED
        BY <2>7, <4>1 DEF Genuine
    <3> QED
      BY <3>1, <3>2
  <2> QED
    BY <2>7 DEF Genuine
<1> QED
  BY <1>1, <1>2

LEMMA NearestIs ==
  ASSUME OutTypeOK, Rest # {}
  PROVE  /\ Nearest \in Names /\ Nearest \in DOMAIN tables
         /\ Nearest \in Nat /\ cursor \in Nat /\ Nearest > cursor
<1>1. Nearest \in Names /\ Nearest \in DOMAIN tables
  BY NearestName DEF OutTypeOK
<1>2. Rest \subseteq Nat /\ cursor \in Nat
  <2>1. Names \subseteq Nat
    BY OutputAssumption
  <2>2. cursor \in Names \cup {0} /\ DOMAIN tables \subseteq Names
    BY DEF OutTypeOK
  <2>3. cursor \in Nat
    BY <2>1, <2>2
  <2>4. Rest \subseteq DOMAIN tables
    BY DEF Rest
  <2> QED
    BY <2>1, <2>2, <2>3, <2>4
<1>3. \E n \in Rest : \A m \in Rest : n <= m
  BY <1>2, LeastOne
<1>4. Nearest \in Rest
  BY <1>3 DEF Nearest
<1> QED
  BY <1>1, <1>2, <1>4 DEF Rest

LEMMA ControlStep ==
  ASSUME TypeOK, FramesOK, OutTypeOK, Control, [OutNext]_allVars
  PROVE  Control'
<1> USE DEF outVars, context
<1>1. image' = image
  BY FileStays
<1>2. CASE MasterRow
  <2>1. Genuine(image, tables')
    BY <1>2, LearnsGenuine DEF Control
  <2> QED
    BY <1>1, <1>2, <2>1 DEF MasterRow, Control
<1>3. CASE /\ pc \in {"master", "table"}
           /\ UNCHANGED <<pc, tables, cursor, result>>
  BY <1>1, <1>3 DEF Control
<1>4. CASE RefuseRow \/ DropRow \/ InsertRow \/ (\E answer \in Callback : PassRow(answer))
  <2>1. pc \in {"master", "table"} /\ UNCHANGED <<pc, tables, cursor, result>>
    BY <1>4 DEF RefuseRow, DropRow, InsertRow, PassRow
  <2> QED
    BY <1>3, <2>1
<1>5. CASE pc \in {"master", "table"} /\ Traverse /\ UNCHANGED outVars
  BY <1>3, <1>5
<1>6. CASE MasterParsed \/ TableParsed
  <2>1. /\ stack' = <<>> /\ tables' = tables /\ pc # "done"
        /\ \/ pc' = "done" /\ result' = "CANCELLED"
           \/ pc' = "tables" /\ result' = result
    BY <1>6 DEF MasterParsed, TableParsed, Done, Finish, vars
  <2> QED
    BY <1>1, <2>1 DEF Control
<1>7. CASE LoopCancelled \/ Report
  <2>1. /\ stack' = stack /\ tables' = tables /\ pc' = "done"
        /\ result' \in {"CANCELLED", "DAMAGED", "OK"}
        /\ pc \notin {"master", "table"}
    BY <1>7 DEF LoopCancelled, Report, Finish, vars
  <2> QED
    BY <1>1, <2>1 DEF Control
<1>8. CASE NextTable
  <2>1. /\ stack' = stack /\ tables' = tables /\ pc = "tables" /\ result' = result
        /\ cursor' = Nearest /\ Nearest \in DOMAIN tables
    BY <1>8, NearestIs DEF NextTable, Advance
  <2>2. \/ pc' = "tables"
        \/ pc' = "table" /\ tables[Nearest].type = "table" /\ tables[Nearest].root # 0
    BY <1>8 DEF NextTable
  <2> QED
    BY <1>1, <2>1, <2>2 DEF Control
<1>9. CASE TablesDone \/ NextIndex
  <2>1. /\ stack' = stack /\ tables' = tables /\ result' = result
        /\ pc \notin {"master", "table", "done"} /\ pc' \in {"report", "indices"}
    BY <1>9 DEF TablesDone, NextIndex, vars
  <2> QED
    BY <1>1, <2>1 DEF Control
<1>10. CASE Cancel \/ UNCHANGED allVars
  <2>1. UNCHANGED <<stack, tables, result, pc, cursor>>
    BY <1>10 DEF Cancel, allVars, vars
  <2> QED
    BY <1>1, <2>1 DEF Control
<1> QED
  BY <1>2, <1>4, <1>5, <1>6, <1>7, <1>8, <1>9, <1>10 DEF OutNext, Work, Returned

LEMMA RowsUnderIs ==
  ASSUME image \in Images, NEW n
  PROVE  image \in ImageType /\ RowsUnder(n) \in Seq(RowId)
<1> DEFINE all == Roots(image, n)
<1>1. image \in ImageType
  BY BtreeParseAssumption
<1>2. all \in Seq(Int)
  BY <1>1, RootsAre
<1> HIDE DEF all
<1>3. /\ Walk(image, all, {}, AllCells(image)) = RestOf(Asked(image, all))[1]
      /\ \A k \in 1 .. Len(Asked(image, all)) + 1 :
           RestOf(Asked(image, all))[k] \in Seq(RowId)
      /\ Len(Asked(image, all)) \in Nat
  BY <1>1, <1>2, AskedIs
<1>4. 1 \in 1 .. Len(Asked(image, all)) + 1
  BY <1>3
<1> QED
  BY <1>1, <1>3, <1>4 DEF RowsUnder, all

(* At any moment the rows that are inserted are in the order of the file.  *)
AllOrdered == \A n \in Names : InOrder(Inserted(db, n), RowsUnder(n))

LEMMA OrderedNow ==
  ASSUME TypeOK, OutTypeOK, KeepInv
  PROVE  AllOrdered
<1>1. image \in ImageType /\ image \in Images
  BY RowsUnderIs DEF KeepInv, Control
<1>2. ASSUME pc = "table"
      PROVE  InOrder(Inserted(db, cursor), RowsUnder(cursor))
  <2> DEFINE r == tables[cursor].root
             one == Walk(image, <<r>>, {}, AllCells(image))
  <2>1. PICK out : R!Walking(out) /\ InOrder(Inserted(db, cursor), out)
    BY <1>2 DEF KeepInv, Follows
  <2>2. AtRoot = <<r>>
    BY <1>2 DEF AtRoot
  <2>3. out \in Seq(RowId) /\ IsSubsequence(out, one)
    BY <2>1, <2>2, TableOrdered
  <2>4. r \in RootsOf(image, cursor)
    BY <1>2 DEF KeepInv, Control, Genuine
  <2>5. InOrder(Inserted(db, cursor), one)
    BY <2>1, <2>3, OrderWithin
  <2>6. PICK a, b \in Seq(RowId) : RowsUnder(cursor) = a \o (one \o b)
    BY <1>1, <2>4, RootPart DEF RowsUnder
  <2>7. one \in Seq(RowId)
    <3> DEFINE s == <<r>>
    <3>1. s \in Seq(Int)
      BY <1>1, <2>4, RootsAreFinite
    <3> HIDE DEF s
    <3>2. /\ Walk(image, s, {}, AllCells(image)) = RestOf(Asked(image, s))[1]
          /\ \A k \in 1 .. Len(Asked(image, s)) + 1 :
               RestOf(Asked(image, s))[k] \in Seq(RowId)
          /\ Len(Asked(image, s)) \in Nat
      BY <1>1, <3>1, AskedIs
    <3>3. 1 \in 1 .. Len(Asked(image, s)) + 1
      BY <3>2
    <3> QED
      BY <3>2, <3>3 DEF s
  <2> HIDE DEF one
  <2> QED
    BY <2>5, <2>6, <2>7, OrderPart
<1> QED
  BY <1>2 DEF AllOrdered, KeepInv, Target

LEMMA NothingBegins ==
  ASSUME NEW s \in Seq(Effect), BeginsWith(<<>>, s)
  PROVE  s = <<>>
<1>1. Len(s) = 0
  BY LenProperties DEF BeginsWith
<1> QED
  BY <1>1, EmptySeq

(* Where each loop over the tables has been.                               *)
Later == pc' \in {"master", "tables", "table"} =>
           /\ pc \in {"master", "tables", "table"}
           /\ \A n \in Names : n > cursor' => n > cursor

LEMMA SettledTarget ==
  ASSUME TypeOK, OutTypeOK, KeepInv, image' = image, Settles(db, db'),
         success' = 0 => success = 0, Later
  PROVE  Target'
<1>1. db \in Db /\ db' \in Db /\ Sealed(db') /\ AllOrdered
  BY OrderedNow DEF OutTypeOK, Settles
<1>2. ASSUME NEW n
      PROVE  /\ Inserted(db, n) \in Seq(Effect) /\ Inserted(db', n) \in Seq(Effect)
             /\ BeginsWith(Inserted(db, n), Inserted(db', n))
  BY <1>1, RowsOfDb DEF Settles
<1>3. ASSUME NEW n, Inserted(db, n) = <<>> PROVE Inserted(db', n) = <<>>
  BY <1>2, <1>3, NothingBegins
<1>4. ASSUME NEW n \in Names PROVE InOrder(Inserted(db', n), RowsUnder(n)')
  <2>1. RowsUnder(n)' = RowsUnder(n)
    BY DEF RowsUnder
  <2> QED
    BY <1>1, <1>2, <2>1, OrderShorter DEF AllOrdered
<1>5. success' = 0 => \A n \in Names : Inserted(db', n) = <<>>
  BY <1>3 DEF KeepInv, Target
<1>6. pc' \in {"master", "tables", "table"} =>
        \A n \in Names : n > cursor' => Inserted(db', n) = <<>>
  BY <1>3 DEF KeepInv, Target, Later
<1> QED
  BY <1>1, <1>4, <1>5, <1>6 DEF Target

-----------------------------------------------------------------------------
(* What the steps of the recovery do to the target.                        *)

(* A table or an index created is no row.                                  *)
LEMMA CreateSettles ==
  ASSUME OutTypeOK, Sealed(db), NEW n \in Names, Create(n)
  PROVE  Settles(db, db') /\ (success' = 0 => success = 0)
<1> DEFINE e == Created(n)
           z == Execute(db, e)
<1>1. e \in Effect /\ \A m : ~ Wanted(e, m)
  BY DEF Created, Effect, Wanted
<1>2. db \in Db /\ success \in Nat
  BY DEF OutTypeOK
<1>3. db' \in IF Runs(n) THEN Try(db, z) ELSE {db}
  BY DEF Create
<1>4. success' = 0 => success = 0
  <2>1. success' = success + 1 \/ success' = success
    BY DEF Create
  <2> QED
    BY <1>2, <2>1
<1> HIDE DEF e
<1>5. Settles(db, z)
  <2>1. /\ z \in Db /\ Sealed(z)
        /\ \A m : /\ BeginsWith(Saved(z, m), Saved(db, m))
                  /\ Inserted(z, m) = Inserted(db, m)
    BY <1>1, <1>2, ExecuteInserts
  <2>2. ASSUME NEW m PROVE BeginsWith(Inserted(db, m), Inserted(db, m))
    BY <1>2, RowsOfDb, BeginsIs
  <2> HIDE DEF z
  <2> QED
    BY <2>1, <2>2 DEF Settles
<1> HIDE DEF z
<1>6. CASE Runs(n)
  BY <1>2, <1>3, <1>4, <1>5, <1>6, TrySettles
<1>7. CASE ~ Runs(n)
  BY <1>2, <1>3, <1>4, <1>7, SettlesItself
<1> QED
  BY <1>6, <1>7

LEMMA DropSettles ==
  ASSUME OutTypeOK, Sealed(db), DropRow
  PROVE  Settles(db, db')
<1>1. db \in Db /\ Settles(db, db)
  BY SettlesItself DEF OutTypeOK
<1>2. CASE db' = db
  BY <1>1, <1>2
<1>3. CASE db.faults < MaxSqlFaults /\ db' = Fault(db)
  <2>1. db' \in Try(db, db)
    BY <1>3 DEF Try
  <2> QED
    BY <1>1, <2>1, TrySettles
<1> QED
  BY <1>2, <1>3 DEF DropRow

LEMMA ParsedSettles ==
  ASSUME OutTypeOK, Sealed(db), TableParsed
  PROVE  Settles(db, db')
<1>1. db \in Db
  BY DEF OutTypeOK
<1>2. db' = db \/ db' = Rollback(db) \/ db' \in End(db)
  BY DEF TableParsed
<1> QED
  BY <1>1, <1>2, SettlesItself, RollbackSettles, EndSettles

(* One row more is inserted.                                               *)
Gains(x, y, e) ==
  /\ y \in Db /\ Sealed(y)
  /\ \A n : /\ BeginsWith(Saved(y, n), Saved(x, n))
            /\ Inserted(y, n) = IF Wanted(e, n) THEN Append(Inserted(x, n), e)
                                ELSE Inserted(x, n)

(* Between a BEGIN and a COMMIT that may each fail, the row is inserted    *)
(* and counted, or it is not.                                              *)
LEMMA InsertSteps ==
  ASSUME OutTypeOK, Sealed(db), InsertRow, Row(stmt', Top.page, Top.i) \in Effect
  PROVE  \E x, y :
           /\ Settles(db, x)
           /\ \/ Settles(x, db') /\ success' = success
              \/ /\ Gains(x, y, Row(stmt', Top.page, Top.i)) /\ Settles(y, db')
                 /\ success' = success + 1
<1> DEFINE e == Row(stmt', Top.page, Top.i)
<1>1. PICK x \in IF stmt = None THEN Begin(db) ELSE {db} :
        \E y \in Try(x, Execute(x, e)) :
          IF y.faults # x.faults
          THEN db' = y /\ success' = success
          ELSE /\ success' = success + 1
               /\ db' \in IF success' % Batch = 0 THEN Recommit(y) ELSE {y}
  BY DEF InsertRow
<1>2. e \in Effect /\ db \in Db
  BY DEF OutTypeOK
<1> HIDE DEF e
<1>3. PICK y \in Try(x, Execute(x, e)) :
          IF y.faults # x.faults
          THEN db' = y /\ success' = success
          ELSE /\ success' = success + 1
               /\ db' \in IF success' % Batch = 0 THEN Recommit(y) ELSE {y}
  BY <1>1
<1>4. Settles(db, x)
  BY <1>1, <1>2, BeginSettles, SettlesItself
<1>5. x \in Db /\ Sealed(x)
  BY <1>4 DEF Settles
<1>6. Gains(x, Execute(x, e), e)
  BY <1>2, <1>5, ExecuteInserts DEF Gains
<1>7. Execute(x, e) \in Db /\ Execute(x, e).faults = x.faults
  BY <1>2, <1>5, ExecuteFacts
<1>8. CASE y.faults # x.faults
  <2>1. y = Fault(x) \/ y = Fault(Rollback(x))
    BY <1>3, <1>7, <1>8 DEF Try
  <2>2. x.faults < MaxSqlFaults
    BY <1>3, <1>7, <1>8 DEF Try
  <2>3. y \in Try(x, x)
    BY <2>1, <2>2 DEF Try
  <2>4. Settles(x, y)
    BY <1>5, <2>3, SettlesItself, TrySettles
  <2> QED
    BY <1>3, <1>4, <1>8, <2>4
<1>9. CASE y.faults = x.faults
  <2>1. y \in Db /\ (y = Execute(x, e) \/ y.faults = x.faults + 1)
    BY <1>3, <1>5, <1>7, TryFacts
  <2>2. y = Execute(x, e)
    BY <1>5, <1>9, <2>1 DEF Db
  <2>3. Sealed(y) /\ Gains(x, y, e)
    BY <1>6, <2>2 DEF Gains
  <2>4. Settles(y, db')
    BY <1>3, <1>9, <2>1, <2>3, RecommitSettles, SettlesItself
  <2> QED
    BY <1>3, <1>4, <1>9, <2>3, <2>4 DEF e
<1> QED
  BY <1>8, <1>9

LEMMA InsertTarget ==
  ASSUME NEW n, NEW e \in Effect, Wanted(e, n), \A m : m # n => ~ Wanted(e, m),
         NEW out \in Seq(RowId), NEW row \in RowId, row = IdOf(e),
         db \in Db, InOrder(Inserted(db, n), out), success \in Nat,
         NEW x, NEW y, Settles(db, x),
         \/ Settles(x, db') /\ success' = success
         \/ Gains(x, y, e) /\ Settles(y, db') /\ success' = success + 1
  PROVE  /\ Sealed(db') /\ db' \in Db
         /\ success' = 0 => success = 0 /\ Settles(db, db')
         /\ \A m : BeginsWith(Saved(db', m), Saved(db, m))
         /\ \A m : m # n => BeginsWith(Inserted(db, m), Inserted(db', m))
         /\ InOrder(Inserted(db', n), Append(out, row))
<1> DEFINE more == Append(out, row)
<1>1. more \in Seq(RowId) /\ Len(out) <= Len(more) /\ \A k \in DOMAIN out : more[k] = out[k]
  BY AppendProperties, LenProperties
<1> HIDE DEF more
<1>2. /\ x \in Db /\ Inserted(db, n) \in Seq(Effect) /\ Inserted(x, n) \in Seq(Effect)
      /\ BeginsWith(Inserted(db, n), Inserted(x, n))
  BY RowsOfDb DEF Settles
<1>3. InOrder(Inserted(x, n), out)
  BY <1>2, OrderShorter
<1>4. CASE Settles(x, db') /\ success' = success
  <2>1. Settles(db, db')
    BY <1>4, SettlesBoth
  <2>2. /\ db' \in Db /\ Inserted(db', n) \in Seq(Effect)
        /\ BeginsWith(Inserted(x, n), Inserted(db', n))
    BY <1>4, RowsOfDb DEF Settles
  <2>3. InOrder(Inserted(db', n), out)
    BY <1>2, <1>3, <2>2, OrderShorter
  <2>4. InOrder(Inserted(db', n), more)
    BY <1>1, <2>2, <2>3, OrderLonger
  <2> QED
    BY <1>4, <2>1, <2>2, <2>4 DEF Settles, more
<1>5. CASE Gains(x, y, e) /\ Settles(y, db') /\ success' = success + 1
  <2>1. y \in Db /\ db' \in Db /\ Sealed(db') /\ success' # 0
    BY <1>5 DEF Gains, Settles
  <2>2. Inserted(y, n) = Append(Inserted(x, n), e) /\ Inserted(y, n) \in Seq(Effect)
    BY <1>5, <2>1, RowsOfDb DEF Gains
  <2>3. InOrder(Inserted(y, n), more)
    BY <1>2, <1>3, <2>2, OrderNext DEF more
  <2>4. Inserted(db', n) \in Seq(Effect) /\ BeginsWith(Inserted(y, n), Inserted(db', n))
    BY <1>5, <2>1, RowsOfDb DEF Settles
  <2>5. InOrder(Inserted(db', n), more)
    BY <2>2, <2>3, <2>4, OrderShorter
  <2>6. ASSUME NEW m
        PROVE  /\ Saved(db, m) \in Seq(Effect) /\ Saved(x, m) \in Seq(Effect)
               /\ Saved(y, m) \in Seq(Effect) /\ Saved(db', m) \in Seq(Effect)
               /\ Inserted(db, m) \in Seq(Effect) /\ Inserted(x, m) \in Seq(Effect)
               /\ Inserted(y, m) \in Seq(Effect) /\ Inserted(db', m) \in Seq(Effect)
    BY <1>2, <2>1, RowsOfDb
  <2>7. ASSUME NEW m PROVE BeginsWith(Saved(db', m), Saved(db, m))
    <3>1. /\ BeginsWith(Saved(x, m), Saved(db, m))
          /\ BeginsWith(Saved(y, m), Saved(x, m))
          /\ BeginsWith(Saved(db', m), Saved(y, m))
      BY <1>5 DEF Settles, Gains
    <3>2. BeginsWith(Saved(y, m), Saved(db, m))
      BY <2>6, <3>1, BeginsIs
    <3> QED
      BY <2>6, <3>1, <3>2, BeginsIs
  <2>8. ASSUME NEW m, m # n PROVE BeginsWith(Inserted(db, m), Inserted(db', m))
    <3>1. /\ BeginsWith(Inserted(db, m), Inserted(x, m))
          /\ Inserted(y, m) = Inserted(x, m)
          /\ BeginsWith(Inserted(y, m), Inserted(db', m))
      BY <1>5, <2>8 DEF Settles, Gains
    <3> QED
      BY <2>6, <3>1, BeginsIs
  <2> QED
    BY <2>1, <2>5, <2>7, <2>8 DEF more
<1> QED
  BY <1>4, <1>5

-----------------------------------------------------------------------------
(* Every step keeps the invariant.                                         *)

(* All steps but the insertion of a row settle what is in the target.      *)
LEMMA QuietSettles ==
  ASSUME OutInv, KeepInv, [OutNext]_allVars, ~ InsertRow
  PROVE  Settles(db, db') /\ (success' = 0 => success = 0) /\ Later
<1> USE DEF outVars, context
<1>1. OutTypeOK /\ Sealed(db) /\ Settles(db, db)
  BY SettlesItself DEF OutInv, OutTypeOK, KeepInv, Target
<1>2. CASE UNCHANGED <<pc, cursor, db, success>>
  BY <1>1, <1>2 DEF Later
<1>3. CASE DropRow
  <2>1. UNCHANGED <<pc, cursor, success>>
    BY <1>3 DEF DropRow
  <2> QED
    BY <1>1, <1>3, <2>1, DropSettles DEF Later
<1>4. CASE MasterRow \/ RefuseRow \/ (\E a \in Callback : PassRow(a))
  BY <1>2, <1>4 DEF MasterRow, RefuseRow, PassRow
<1>5. CASE Traverse /\ UNCHANGED outVars
  BY <1>2, <1>5
<1>6. CASE MasterParsed \/ LoopCancelled \/ Report
  <2>1. /\ UNCHANGED <<db, success>>
        /\ \/ pc' = "done"
           \/ pc = "master" /\ pc' = "tables" /\ cursor' = cursor
    BY <1>6 DEF MasterParsed, LoopCancelled, Report, Finish
  <2> QED
    BY <1>1, <2>1 DEF Later
<1>7. CASE NextTable
  <2>1. Rest # {} /\ pc = "tables" /\ cursor' = Nearest
    BY <1>7 DEF NextTable, Advance
  <2>2. Nearest \in Names /\ Nearest \in Nat /\ cursor \in Nat /\ Nearest > cursor
    BY <1>1, <2>1, NearestIs
  <2>3. Names \subseteq Nat
    BY OutputAssumption
  <2>4. Later
    BY <2>1, <2>2, <2>3 DEF Later
  <2>5. Create(Nearest) \/ UNCHANGED <<db, success>>
    BY <1>7 DEF NextTable
  <2> QED
    BY <1>1, <2>2, <2>4, <2>5, CreateSettles
<1>8. CASE TableParsed
  <2>1. success' = success /\ (pc' = "done" \/ (pc' = "tables" /\ pc = "table" /\ cursor' = cursor))
    BY <1>8 DEF TableParsed, Finish
  <2> QED
    BY <1>1, <1>8, <2>1, ParsedSettles DEF Later
<1>9. CASE TablesDone
  <2>1. UNCHANGED <<db, success>> /\ pc' \in {"report", "indices"}
    BY <1>9 DEF TablesDone
  <2> QED
    BY <1>1, <2>1 DEF Later
<1>10. CASE NextIndex
  <2>1. Rest # {} /\ pc' = "indices"
    BY <1>10 DEF NextIndex
  <2>2. Create(Nearest) \/ UNCHANGED <<db, success>>
    BY <1>10 DEF NextIndex
  <2> QED
    BY <1>1, <2>1, <2>2, NearestIs, CreateSettles DEF Later
<1>11. CASE Cancel \/ Returned \/ UNCHANGED allVars
  BY <1>2, <1>11 DEF Cancel, Returned, allVars
<1> QED
  BY <1>3, <1>4, <1>5, <1>6, <1>7, <1>8, <1>9, <1>10, <1>11 DEF OutNext, Work

(* The traversal of a table begins.                                        *)
LEMMA TableFollows ==
  ASSUME OutInv, TypeOK', FramesOK', KeepInv, NextTable, pc' = "table",
         Settles(db, db')
  PROVE  Follows'
<1> DEFINE r == tables[Nearest].root
<1>1. /\ Rest # {} /\ pc = "tables" /\ cursor' = Nearest
      /\ image' = image /\ tables' = tables /\ stack' = stack
  BY DEF NextTable, Advance, input
<1>2. tables[Nearest].type = "table" /\ r # 0 /\ todo' = <<r>>
  BY <1>1 DEF NextTable
<1>3. Nearest \in Names /\ Nearest \in DOMAIN tables /\ Nearest > cursor
  BY <1>1, NearestIs DEF OutInv
<1>4. /\ image \in Images /\ image \in ImageType /\ stack = <<>>
      /\ Genuine(image, tables)
  BY <1>1, RowsUnderIs DEF KeepInv, Control
<1>5. r \in RootsOf(image, Nearest)
  BY <1>2, <1>3, <1>4 DEF Genuine
<1>6. IsForest(image, <<r>>)
  BY <1>3, <1>4, <1>5 DEF Genuine
<1>7. <<r>> \in Seq(Int)
  <2>1. r \in Int
    BY <1>4, <1>5, RootsAreFinite
  <2> HIDE DEF r
  <2> QED
    BY <2>1
<1>8. AtRoot' = <<r>>
  BY <1>1 DEF AtRoot
<1> HIDE DEF r
<1>9. R!Walking(<<>>)'
  BY <1>1, <1>2, <1>4, <1>6, <1>7, <1>8, TableBegins
<1>10. Inserted(db', Nearest) = <<>>
  <2>1. Inserted(db, Nearest) = <<>>
    BY <1>1, <1>3 DEF KeepInv, Target
  <2>2. db' \in Db /\ BeginsWith(Inserted(db, Nearest), Inserted(db', Nearest))
    BY DEF Settles
  <2>3. Inserted(db', Nearest) \in Seq(Effect)
    BY <2>2, RowsOfDb
  <2> QED
    BY <2>1, <2>2, <2>3, NothingBegins
<1>11. InOrder(Inserted(db', cursor'), <<>>)
  BY <1>1, <1>10, OrderNone
<1> QED
  BY <1>9, <1>11 DEF Follows

(* It goes on, and delivers no row.                                        *)
LEMMA QuietFollows ==
  ASSUME KeepInv, pc = "table", UNCHANGED <<pc, tables, cursor, db>>,
         Traverse \/ UNCHANGED vars
  PROVE  Follows'
<1>1. PICK out : R!Walking(out) /\ InOrder(Inserted(db, cursor), out)
  BY DEF KeepInv, Follows
<1>2. AtRoot' = AtRoot
  BY DEF AtRoot
<1>3. R!Walking(out)'
  BY <1>1, <1>2, TableGoesOn
<1> QED
  BY <1>1, <1>3 DEF Follows

(* It delivers a row that is not inserted.                                 *)
LEMMA LostFollows ==
  ASSUME OutInv, KeepInv, pc = "table", UNCHANGED <<pc, tables, cursor>>,
         NEW answer \in Answers, Deliver(answer), Settles(db, db')
  PROVE  Follows'
<1>1. PICK out : R!Walking(out) /\ InOrder(Inserted(db, cursor), out)
  BY DEF KeepInv, Follows
<1>2. AtRoot' = AtRoot
  BY DEF AtRoot
<1>3. PICK row \in RowId : row = TopRow /\ R!Walking(Append(out, row))'
  BY <1>1, <1>2, TableDelivers
<1>4. out \in Seq(RowId)
  BY <1>1, TableOrdered
<1> DEFINE more == Append(out, row)
<1>5. more \in Seq(RowId) /\ Len(out) <= Len(more) /\ \A k \in DOMAIN out : more[k] = out[k]
  BY <1>4, AppendProperties, LenProperties
<1>6. /\ Inserted(db, cursor) \in Seq(Effect) /\ Inserted(db', cursor) \in Seq(Effect)
      /\ BeginsWith(Inserted(db, cursor), Inserted(db', cursor))
  BY RowsOfDb DEF Settles, OutInv, OutTypeOK
<1> HIDE DEF more
<1>7. InOrder(Inserted(db', cursor), out)
  BY <1>1, <1>6, OrderShorter
<1>8. InOrder(Inserted(db', cursor), more)
  BY <1>4, <1>5, <1>6, <1>7, OrderLonger
<1> QED
  BY <1>3, <1>8 DEF Follows, more

LEMMA QuietKeeps ==
  ASSUME OutInv, TypeOK', FramesOK', KeepInv, [OutNext]_allVars, ~ InsertRow
  PROVE  Follows'
<1> USE DEF outVars, context
<1>1. Settles(db, db')
  BY QuietSettles
<1>2. SUFFICES ASSUME pc' = "table" PROVE Follows'
  BY DEF Follows
<1>3. CASE NextTable
  BY <1>1, <1>2, <1>3, TableFollows
<1>4. /\ "OK" \in Answers /\ "CANCELLED" \in Answers
      /\ \A a \in Callback : a # "IGNORE" => a \in Answers
  BY OutputAssumption
<1>5. CASE RefuseRow
  BY <1>1, <1>4, <1>5, LostFollows DEF RefuseRow
<1>6. CASE DropRow
  BY <1>1, <1>4, <1>6, LostFollows DEF DropRow
<1>7. ASSUME NEW a \in Callback, PassRow(a) PROVE Follows'
  BY <1>1, <1>4, <1>7, LostFollows DEF PassRow
<1>8. CASE Traverse /\ UNCHANGED outVars
  BY <1>2, <1>8, QuietFollows
<1>9. CASE Cancel \/ Returned \/ UNCHANGED allVars
  BY <1>2, <1>9, QuietFollows DEF Cancel, Returned, allVars
<1>10. CASE MasterRow \/ MasterParsed \/ LoopCancelled \/ TableParsed \/ TablesDone
            \/ NextIndex \/ Report
  BY <1>2, <1>10 DEF MasterRow, MasterParsed, LoopCancelled, TableParsed,
     TablesDone, NextIndex, Report, Finish
<1> QED
  BY <1>3, <1>5, <1>6, <1>7, <1>8, <1>9, <1>10 DEF OutNext, Work

LEMMA InsertKeeps ==
  ASSUME OutInv, KeepInv, InsertRow, image' = image
  PROVE  /\ Target' /\ Follows'
         /\ \A m : BeginsWith(Saved(db', m), Saved(db, m))
<1> DEFINE e == Row(stmt', Top.page, Top.i)
<1>1. /\ pc = "table" /\ Deliver("OK") /\ "OK" \in Answers
      /\ UNCHANGED <<pc, tables, cursor>>
  BY OutputAssumption DEF InsertRow
<1>2. cursor \in Names /\ stmt' = cursor
  BY InsertFacts DEF OutInv
<1>3. e \in Effect /\ Wanted(e, cursor) /\ (\A m : m # cursor => ~ Wanted(e, m))
  <2>1. stack # <<>> /\ Top.at = "column"
    BY <1>1 DEF Deliver, At
  <2>2. Top \in Frame /\ FrameOK(Top, image, declined)
    BY <2>1, TopFacts DEF OutInv
  <2>3. Top.page \in Pages /\ Top.i \in Nat /\ Top.page # 0
    BY <2>1, <2>2, PageCountAssumption DEF FrameOK, Active, Frame, Pages
  <2> QED
    BY <1>2, <2>3 DEF Effect, Row, Wanted
<1>4. IdOf(e) = TopRow
  BY DEF IdOf, Row, TopRow
<1>5. PICK x, y :
           /\ Settles(db, x)
           /\ \/ Settles(x, db') /\ success' = success
              \/ Gains(x, y, e) /\ Settles(y, db') /\ success' = success + 1
  BY <1>3, InsertSteps DEF OutInv, KeepInv, Target
<1>6. PICK out : R!Walking(out) /\ InOrder(Inserted(db, cursor), out)
  BY <1>1 DEF KeepInv, Follows
<1>7. AtRoot' = AtRoot
  BY <1>1 DEF AtRoot
<1>8. PICK row \in RowId : row = TopRow /\ R!Walking(Append(out, row))'
  BY <1>1, <1>6, <1>7, TableDelivers
<1>9. out \in Seq(RowId)
  BY <1>6, TableOrdered
<1>10. db \in Db /\ success \in Nat
  BY DEF OutInv, OutTypeOK
<1> HIDE DEF e
<1>11. /\ Sealed(db') /\ db' \in Db
       /\ success' = 0 => success = 0 /\ Settles(db, db')
       /\ \A m : BeginsWith(Saved(db', m), Saved(db, m))
       /\ \A m : m # cursor => BeginsWith(Inserted(db, m), Inserted(db', m))
       /\ InOrder(Inserted(db', cursor), Append(out, row))
  <2>1. row = IdOf(e)
    BY <1>4, <1>8
  <2> QED
    BY <1>3, <1>5, <1>6, <1>8, <1>9, <1>10, <2>1, InsertTarget
<1>12. Follows'
  BY <1>1, <1>8, <1>11 DEF Follows
<1>13. ASSUME NEW n
       PROVE  Inserted(db, n) \in Seq(Effect) /\ Inserted(db', n) \in Seq(Effect)
  BY <1>10, <1>11, RowsOfDb
<1>14. Target'
  <2>1. success' = 0 => \A n \in Names : Inserted(db', n) = <<>>
    <3>1. SUFFICES ASSUME success' = 0, NEW n \in Names
                   PROVE  Inserted(db', n) = <<>>
      OBVIOUS
    <3>2. Inserted(db, n) = <<>> /\ BeginsWith(Inserted(db, n), Inserted(db', n))
      BY <1>11, <3>1 DEF KeepInv, Target, Settles
    <3> QED
      BY <1>13, <3>2, NothingBegins
  <2>2. ASSUME NEW n \in Names, n > cursor' PROVE Inserted(db', n) = <<>>
    <3>1. n # cursor /\ n > cursor
      <4>1. Names \subseteq Nat
        BY OutputAssumption
      <4> QED
        BY <1>1, <1>2, <2>2, <4>1
    <3>2. Inserted(db, n) = <<>> /\ BeginsWith(Inserted(db, n), Inserted(db', n))
      BY <1>1, <1>11, <3>1 DEF KeepInv, Target
    <3> QED
      BY <1>13, <3>2, NothingBegins
  <2>3. ASSUME NEW n \in Names, n # cursor'
        PROVE  InOrder(Inserted(db', n), RowsUnder(n)')
    <3>1. RowsUnder(n)' = RowsUnder(n)
      BY DEF RowsUnder
    <3>2. n # cursor
      BY <1>1, <2>3
    <3>3. InOrder(Inserted(db, n), RowsUnder(n)) /\ BeginsWith(Inserted(db, n), Inserted(db', n))
      BY <1>11, <3>2 DEF KeepInv, Target
    <3> QED
      BY <1>13, <3>1, <3>3, OrderShorter
  <2> QED
    BY <1>1, <1>11, <2>1, <2>2, <2>3 DEF Target
<1> QED
  BY <1>11, <1>12, <1>14

LEMMA KeepStep ==
  ASSUME OutInv, TypeOK', FramesOK', KeepInv, [OutNext]_allVars
  PROVE  /\ KeepInv'
         /\ \A m : BeginsWith(Saved(db', m), Saved(db, m))
<1>1. image' = image /\ Control'
  BY FileStays, ControlStep DEF OutInv, KeepInv
<1>2. CASE InsertRow
  BY <1>1, <1>2, InsertKeeps DEF KeepInv
<1>3. CASE ~ InsertRow
  <2>1. Settles(db, db') /\ (success' = 0 => success = 0) /\ Later
    BY <1>3, QuietSettles
  <2>2. Target'
    BY <1>1, <2>1, SettledTarget DEF OutInv
  <2>3. Follows'
    BY <1>3, QuietKeeps
  <2> QED
    BY <1>1, <2>1, <2>2, <2>3 DEF KeepInv, Settles
<1> QED
  BY <1>2, <1>3

LEMMA KeepStarts ==
  ASSUME OutInit, Genuine(image, tables)
  PROVE  KeepInv
<1>1. /\ image \in Images /\ stack = <<>> /\ pc = "master" /\ result = "running"
      /\ db = [open |-> FALSE, done |-> <<>>, pending |-> <<>>, faults |-> 0]
  BY DEF OutInit, Init
<1>2. db.done = <<>> /\ db.pending = <<>> /\ db.done \o db.pending = <<>>
  BY <1>1, ConcatEmptySeq, EmptySeq
<1>3. ASSUME NEW n PROVE Inserted(db, n) = <<>> /\ InOrder(<<>>, RowsUnder(n))
  BY <1>2, RowsNone, OrderNone DEF Inserted
<1> QED
  BY <1>1, <1>2, <1>3 DEF KeepInv, Control, Target, Follows, Sealed

-----------------------------------------------------------------------------
(* The steps of the recovery and those of its promise.                     *)

LEMMA HeldIs ==
  /\ \A n \in Names : Held[n] = Saved(db, n)
  /\ (db.done)' = db.done => Held' = Held
BY DEF Held, Saved

LEMMA ExtendsIs ==
  ASSUME NEW s \in Seq(Effect), NEW t \in Seq(Effect), BeginsWith(t, s)
  PROVE  Promise!Extends(t, s)
<1> DEFINE u == SubSeq(t, 1, Len(s))
<1>1. Len(s) \in Nat /\ Len(t) \in Nat /\ Len(s) <= Len(t)
  BY LenProperties DEF BeginsWith
<1>2. /\ u \in Seq(Effect) /\ Len(u) = Len(s)
      /\ \A k \in 1 .. Len(s) : u[k] = t[k]
  BY <1>1
<1>3. u = s
  <2> HIDE DEF u
  <2>1. \A k \in 1 .. Len(u) : u[k] = s[k]
    BY <1>2 DEF BeginsWith
  <2> QED
    BY <1>2, <2>1, SeqEqual
<1> QED
  BY <1>1, <1>3 DEF Promise!Extends

(* What is committed leaves out some of the rows of the file.              *)
LEMMA HeldLeavesOut ==
  ASSUME OutTypeOK, image \in Images, AllOrdered, NEW n \in Names
  PROVE  Promise!LeavesOut(Held[n], Offered[n])
<1> DEFINE w == RowsUnder(n)
           s == Saved(db, n)
           t == Offered[n]
<1>1. /\ s \in Seq(Effect) /\ Inserted(db, n) \in Seq(Effect)
      /\ BeginsWith(Inserted(db, n), s)
  BY RowsOfDb DEF OutTypeOK
<1>2. w \in Seq(RowId)
  BY RowsUnderIs
<1>3. InOrder(s, w)
  BY <1>1, OrderShorter DEF AllOrdered
<1>4. \A k \in DOMAIN s : s[k].name = n
  <2>1. db.done \in Seq(Effect)
    BY RowsOfDb DEF OutTypeOK
  <2> QED
    BY <2>1, RowsType DEF Saved, Wanted
<1>5. t = [k \in DOMAIN w |-> Row(n, w[k].page, w[k].i)]
  BY DEF Offered, OfferedBy, RowsUnder
<1>6. Held[n] = s
  BY HeldIs
<1> HIDE DEF w, s, t
<1>7. Promise!LeavesOut(s, t)
  BY <1>1, <1>2, <1>3, <1>4, <1>5, OrderLeaves
<1> QED
  BY <1>6, <1>7 DEF t

(* The call returns.                                                       *)
LEMMA ReturnMaps ==
  ASSUME OutInv, KeepInv, [OutNext]_allVars, result' # result
  PROVE  \E r \in {"OK", "DAMAGED", "CANCELLED"} : Promise!Return(r)
<1> USE DEF outVars, context
<1>1. image' = image
  BY FileStays
<1>2. Offered' = Offered
  BY <1>1 DEF Offered, OfferedBy
<1>3. MasterParsed \/ LoopCancelled \/ TableParsed \/ Report
  BY DEF OutNext, Work, Returned, allVars, Cancel, MasterRow, RefuseRow, PassRow,
     DropRow, InsertRow, NextTable, TablesDone, NextIndex
<1>4. pc # "done" /\ result = "running"
  BY <1>3 DEF MasterParsed, LoopCancelled, TableParsed, Report, KeepInv, Control
<1>5. CASE MasterParsed \/ LoopCancelled
  <2>1. result' = "CANCELLED" /\ db' = db
    BY <1>5 DEF MasterParsed, LoopCancelled, Finish
  <2>2. Held' = Held
    BY <2>1, HeldIs
  <2> QED
    BY <1>2, <1>4, <2>1, <2>2 DEF Promise!Return
<1>6. CASE TableParsed
  <2>1. result' = "CANCELLED" /\ (db' = db \/ db' = Rollback(db))
    BY <1>6 DEF TableParsed, Finish
  <2>2. (db.done)' = db.done
    BY <2>1 DEF Rollback, OutInv, OutTypeOK, Db
  <2>3. Held' = Held
    BY <2>2, HeldIs
  <2> QED
    BY <1>2, <1>4, <2>1, <2>3 DEF Promise!Return
<1>7. CASE Report
  <2>1. /\ result' = IF success = 0 THEN "DAMAGED" ELSE "OK"
        /\ db' = db
    BY <1>7 DEF Report, Finish
  <2>2. Held' = Held
    BY <2>1, HeldIs
  <2>3. ASSUME success = 0, NEW n \in Names PROVE Held[n] = <<>>
    <3>1. Inserted(db, n) = <<>>
      BY <2>3 DEF KeepInv, Target
    <3>2. Saved(db, n) \in Seq(Effect) /\ BeginsWith(Inserted(db, n), Saved(db, n))
      BY RowsOfDb DEF OutInv, OutTypeOK
    <3> QED
      BY <3>1, <3>2, NothingBegins, HeldIs
  <2>4. result' = "DAMAGED" => \A n \in Names : Held[n] = <<>>
    BY <2>1, <2>3
  <2>5. result' \in {"OK", "DAMAGED"}
    BY <2>1
  <2> QED
    BY <1>2, <1>4, <2>2, <2>4, <2>5 DEF Promise!Return
<1> QED
  BY <1>3, <1>5, <1>6, <1>7

(* Rows are committed, or nothing is.                                      *)
HeldOrdered == \A n \in Names : Promise!LeavesOut(Held[n], Offered[n])

LEMMA CommitMaps ==
  ASSUME OutInv, OutInv', KeepInv, HeldOrdered', [OutNext]_allVars, result' = result
  PROVE  Promise!Commit \/ UNCHANGED <<Offered, Held, result>>
<1> USE DEF outVars, context
<1>1. image' = image /\ \A m : BeginsWith(Saved(db', m), Saved(db, m))
  BY FileStays, KeepStep DEF OutInv
<1>2. Offered' = Offered
  BY <1>1 DEF Offered, OfferedBy
<1>3. CASE result = "running"
  <2>1. ASSUME NEW n \in Names
        PROVE  Promise!Extends(Held'[n], Held[n]) /\ Promise!LeavesOut(Held'[n], Offered[n])
    <3>1. Held[n] = Saved(db, n) /\ Held'[n] = Saved(db', n)
      BY DEF Held, Saved
    <3>2. Saved(db, n) \in Seq(Effect) /\ Saved(db', n) \in Seq(Effect)
      BY RowsOfDb DEF OutInv, OutTypeOK
    <3>3. Promise!Extends(Saved(db', n), Saved(db, n))
      BY <1>1, <3>2, ExtendsIs
    <3>4. Promise!LeavesOut(Held[n], Offered[n])'
      BY DEF HeldOrdered
    <3> QED
      BY <1>2, <3>1, <3>3, <3>4
  <2> QED
    BY <1>2, <1>3, <2>1 DEF Promise!Commit
<1>4. CASE result # "running"
  <2>1. pc = "done"
    BY <1>4 DEF KeepInv, Control
  <2>2. UNCHANGED <<db, result>>
    BY <2>1 DEF OutNext, Work, Returned, allVars, Cancel, MasterRow, RefuseRow, PassRow,
     DropRow, InsertRow, NextTable, TablesDone, NextIndex, MasterParsed,
     LoopCancelled, TableParsed, Report
  <2>3. Held' = Held
    BY <2>2, HeldIs
  <2> QED
    BY <1>2, <2>2, <2>3
<1> QED
  BY <1>3, <1>4

(* However large the file and the batch, whatever pages and statements     *)
(* fail, whatever the caller's callback answers and whenever               *)
(* sqliterk_cancel is called, sqliterk_output_cb commits the rows of each  *)
(* table in batches, in the order of the damaged table and each once,      *)
(* takes no batch back, and commits none when it reports DAMAGED.          *)
THEOREM RecoveryKeepsPromise == OutSpec /\ Genuine(image, tables) => PromiseIsKept
<1>1. OutInit /\ Genuine(image, tables) => OutInv /\ KeepInv
  BY OutInitialState, KeepStarts DEF OutInv
<1>2. OutInv /\ [OutNext]_allVars => OutInv'
  BY ParserStep, OutTypeStep, TransactionStep DEF OutInv
<1>3. OutInv /\ OutInv' /\ KeepInv /\ [OutNext]_allVars => KeepInv'
  BY KeepStep DEF OutInv
<1>4. OutInit => Promise!Start
  <2>1. SUFFICES ASSUME OutInit PROVE Promise!Start
    OBVIOUS
  <2>2. db.done = <<>> /\ result = "running"
    BY <2>1 DEF OutInit
  <2>3. Held = [n \in Names |-> <<>>]
    BY <2>2, RowsNone DEF Held
  <2> QED
    BY <2>2, <2>3 DEF Promise!Start
<1>5. OutInv /\ KeepInv => HeldOrdered
  BY OrderedNow, HeldLeavesOut DEF HeldOrdered, OutInv, KeepInv, Control
<1>6. OutInv /\ OutInv' /\ KeepInv /\ HeldOrdered' /\ [OutNext]_allVars
        => [Promise!Proceed]_<<Offered, Held, result>>
  BY ReturnMaps, CommitMaps DEF Promise!Proceed
<1> QED
  BY <1>1, <1>2, <1>3, <1>4, <1>5, <1>6, PTL DEF OutSpec, PromiseIsKept, Promise!Spec

===============================================================================
