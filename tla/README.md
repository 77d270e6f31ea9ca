# RepairKit in TLA+

RepairKit recovers the rows of a damaged SQLite (or SQLCipher) database file:
it walks the b-trees of the file page by page, without SQLite, and writes what
it can still read into a new database. This directory holds TLA+ models of it,
the TLC configurations that check them and proofs checked by TLAPS.

## 1. The system

| component | state | operations | hard part | modules |
|---|---|---|---|---|
| **page traversal** (`sqliterk.c`, `sqliterk_btree.c`) | the C call stack, loop indices, overflow chain in progress | `sqliterkParse`, `sqliterkParsePage`, `sqliterkParseMaster`, recursion of `sqliterkBtreeParsePage`, the notifications | damaged pointers form cycles and shared pages; failures at every read; callbacks that refuse or cancel; sub-trees opened from within a callback | PageImage, BtreeParse, RowOrder |
| **page status table** (`sqliterk_pager.c`) | `pagesStatus`, integrity flags | `SetStatus`, `GetStatus`, counters | it is at once the guard of the recursion, the memory of what was done and the progress report | BtreeParse |
| **pager: header and open** (`sqliterk_pager.c`, with `_os.c` and `_crypto.c`) | page size, reserved bytes, page count, integrity, codec, descriptor | `sqliterkPagerOpen`, `sqliterkPagerParseHeader`, `sqliterkPagerClose`, page reads | two attempts with different key salts over the same fields; boundary values of the header; offsets beyond an int | PagerOpen |
| **record decoder, value arrays** (`sqliterk_btree.c`, `_util.c`, `_values.c`, `_column.c`) | the payload, the two lists of a column | varints, integers, serial types, local payload size; alloc, add, clear, free | widths, longest varints, sign extension, headers that lie; growth when memory runs out | Payload, RecordFormat |
| **output** (`sqliterk_output.cpp`) | the context of one recovery: table map, cursor, statement, counters, `cancelled`; the transaction of the target database | `sqliterk_output(_cb)`, `sqliterk_cancel`, row callbacks | cancellation from another thread, batch commits, failing statements, one statement shared by all rows | Output, OutputRows, Recovery, RowBinding |
| **backup of sqlite_master** (`sqliterk_output.cpp`) | a file: header, compressed and encrypted entries; what stdio has buffered | `sqliterk_save_master`, `sqliterk_load_master`, `sqliterk_make_master` | a write that stops or fails half way, results that nobody looks at | MasterRows, BackupStore, MasterFile |
| **facade** (`WCRepairKitManage.mm`) | the database, two backup files, the recovered file | `backupDBPath:`, `recoveryDBPath:` | several file operations that can fail or stop between any two | Facade |
| **demo application** (`LMCoreDataRepairManage.mm`) | the identifier of the last backup, a block that waits 30 seconds | `repairKitStartWithDB:` | what it has checked is 30 seconds old when it acts | Facade |
| decryption, operating system layer | | wrappers of SQLCipher and of the system calls | what they hold when they fail | PagerOpen, by results |
| C interface, SQLCipher framework, project files | | | | - |

`sqliterk_output` sets a row callback and calls `sqliterkParsePage` for page 1
and then for each root page it learnt; the traversal calls back for each row and
reports pages to the status table; the facade calls save, load and output and
moves files. All calls are synchronous on one thread, except `sqliterk_cancel`.

What makes each component correct: the traversal ends, enters no page it is
parsing, delivers each row once and in order, loses only what damage
touches, and reports as checked only what was delivered; a pager that calls its header
intact works with the sizes of the file; a row that is delivered is the record in the file, and no part of it is that of
another row; output commits what it delivered and undoes what was
cancelled; a backup loads as what was saved or not at all; at every moment one
good backup, and the database's rows somewhere, survive.

## 2. Modules

* **PageImage** - the file: one record per page with the numbers that decide
  what the parser does next. Bytes, varints and values are abstracted to the
  outcome of decoding them (`decode`); page numbers are kept. `ChildPointers` is
  the list the code collects, `FileChildren` the one the file format defines; the
  two differ on page 1 and on interior index pages, and the difference is the
  code's.
* **BtreeParse** - the traversal with the status table. The C stack is the
  variable `stack`: one frame per active call of `sqliterkBtreeParsePage`, with
  the loop index `i`, the overflow chain (`next`, `got`, `chain`) and the place
  `at` that the call has reached:

  | `at` | code | left by |
  |---|---|---|
  | begin | `btree.c` 149-160 | BeginPage |
  | acquire | 162-254 up to the switch | AcquireFails, AcquirePage |
  | child | loop 232-236 | ParseChild; waits there for the callee |
  | cell | `sqliterkBtreeParseCell` 291-317 | CellFails, ParseCell |
  | overflow, overflowRead | loop 381-412 | OverflowBegin, OverflowFails, OverflowRead |
  | column | record 415-475, callback 478 | DecodeFails, Deliver |
  | subtree | `sqliterk.c` 229-267 | the return of the sub-tree (Resume) |
  | end | 256-270, `onEndParsePage` | EndPage |

  `sqliterkParsePage` is SkipPage, OpenFails and OpenBtree; `requested` is the
  sequence of page numbers its caller passes (`sqliterkParse`: all of them;
  `sqliterk_output`: page 1 and the roots). `rows`, `lost` and `declined` are
  history: what was delivered, which pages failed, which answers were not OK.
* **RowOrder** - the reference: the in-order walk of the tree as the file format
  defines it, and the properties that compare what was delivered with it.
* **MCBtreeParse** - images and requests for TLC.
* **BtreeParseProofs, RowOrderProofs, RowDamageProofs** - the theorems on BtreeParse and RowOrder; RowDamageProofs
  has those on what damage costs.
* **Output** - `sqliterk_output_cb`, composed with BtreeParse by EXTENDS: the
  traversal runs inside it (`pc` is "master" or "table"), and the row handlers
  `master_onParseColumn` and `table_onParseColumn` are the actions MasterRow,
  RefuseRow, PassRow, DropRow and InsertRow, each of which is BtreeParse's `Deliver` with the
  answer that the handler returns. The rest follows the function from top to bottom:

  | `pc` | code (`sqliterk_output.cpp`) | actions |
  |---|---|---|
  | master | 465-479 | MasterRow, MasterParsed |
  | tables | loop 481-509 | NextTable, LoopCancelled, TablesDone |
  | table | `sqliterk_parse_page(root)` 509, then 510-533 | the row handlers, TableParsed |
  | indices | loop 535-556 | NextIndex, LoopCancelled |
  | report | 558-574 | Report |

  `db` is the target database as far as SQLite's transactions go: effects committed
  and pending. A statement may fail without effect, or fail and roll the transaction
  back, as SQLite does when the disk is full. `Cancel` is `sqliterk_cancel` on another thread, at any
  moment of the call.
* **Recovery** - what a recovery promises, with three variables: rows appear in batches, in
  order and once, none is taken back, none after the return, none at all with DAMAGED.
* **OutputRows** - Output against RowOrder: `Promise` instantiates Recovery with the rows
  that the file holds, the committed rows and the result; and what must be in the target. `Genuine` says what the
  promise needs: each table is a tree that does not meet itself, and a backup names the tables' own roots.
* **OutputProofs** - the theorems on Output, the last that it implements Recovery.
* **MCOutput** - databases, backups and flags for TLC; that they are genuine is an assumption there, which TLC evaluates.
* **Payload** - the rows of one leaf, byte for byte: `sqliterkBtreeParseCell` (ColumnAlloc, NextCell, Leave) and
  `sqliterkBtreeParsePayload` (Overflow; Header, Value and Check, the loop over types and values
  with its offsets in `dec`; Deliver). A list is `[items, held, cap, slots, short]`: what
  `sqliterk_values` says of its capacity, and how much memory there really is; every allocation
  may fail, and `short` (history) says that a growth did and none has succeeded since. A byte is below 2 * `Digits`, so that the varint's flag, continuation, sign and overflow
  of an int keep their places with small numbers. Bytes behind a payload (`Garbage`) are those that the
  code reads without an initialization; a serial type 10 or 11 is a mistake, as in the code.
* **RecordFormat** - the reference: a record as the file format defines it, with recursive functions. `Extreme` is a row of which
  the header's length or a type is a varint of maximal length or beyond an int; the bytes of the values do not count.
* **RowBinding** - Payload, and the parameters of the one REPLACE statement per table, row after row.
  Values are told apart by their origin: own column, rowid, default, NULL.
* **PagerOpen** - opening: `at` follows `sqliterkPagerOpen` ("open", "cipher", "parseFirst", "cipherAgain",
  "parseAgain", or "parse" without a key, then "status"; "failed" closes). `ParseHeader` is
  `sqliterkPagerParseHeader` as a function of the pager, the file, the configuration and a fault, in the order of its
  assignments: what an early return leaves in the fields is what the second attempt starts from.
  `blocks`, `active` and `fds` count what is held. `OpenFile` is `sqliterkOSReadOnlyOpen` with its three failing calls: where the
  path cannot be allocated (51), its Close takes the zero of the new record for a descriptor (87) and closes
  that one; `pathless` (history) counts it. `Acquire` is `sqliterkPageAcquireOne` with offsets of
  an int's width (`ToInt`).
* **MasterRows** - which rows of sqlite_master a backup keeps, and what a load makes of them.
* **BackupStore** - the abstract specification of the backups: a path holds nothing, junk, or one whole backup.
  A save first makes junk of it and then, in one step, the backup; with an error it has not
  done the latter; a load returns a whole backup or nothing.
* **MasterFile** - `sqliterk_save_master` and `sqliterk_load_master` call by call. A file has a
  header ("empty", "dummy", "real") and a prefix of a stream; the save also has a buffer (stdio's), which any fwrite, the
  fseek or the fclose may write, in full or, failing, in part. The process may stop anywhere. `Store`
  instantiates BackupStore: `StoreOf` calls junk what does not load.
* **Facade** - the calls of WCRepairKitManage over BackupStore, extended with the database `db`, the file
  `rec` and the call in progress (`call.at`), one action per file operation, each of which may fail:

  | `call.at` | code (`WCRepairKitManage.mm`) |
  |---|---|
  | removeOld, copy, copying, remove | rotation before the save |
  | dbOpen, save | `sqlite3_open`, `sqliterk_save_master` |
  | discard, restore, restoring, dropOld | after a failed save |
  | load, open, output | `sqliterk_load_master`, `sqliterk_open` and `sqlite3_open`, `sqliterk_output` |
  | replace, copyBack, copyingBack, clean | overwriting the database |

  A copy takes two steps, so that a stop leaves a part. Launch and Due are `repairKitStartWithDB:` and its
  block 30 seconds later; Environment is what the application and the disk do between calls. sqliterk_output
  appears by its promise: rows arrive, then OK or not.
* **MCPagerOpen, MCRows, MCMasterFile, MCFacade** - instances for TLC.
* **RowBindingProofs, PagerOpenProofs, FacadeProofs** - the theorems on them; RowBindingProofs also those on RecordFormat.
* **MasterStoreProofs** - the theorems on MasterFile, and that it implements BackupStore.

Which builds on which: RowOrder and Output extend BtreeParse (and it PageImage), OutputRows extends both;
RowBinding and RecordFormat extend Payload; Facade extends BackupStore; MasterFile instantiates
BackupStore, OutputRows instantiates Recovery. The decoder is joined to the traversal by the
outcome `decode` of a cell, the facade to the backup files by BackupStore and to the recovery by
the three results of `output`: those are the seams.

What is nondeterministic: the image (a constant set), the page whose read or
allocation fails (`Fails`), the answer of the callback, whether a record
with an incomplete payload happens to decode, the statements that SQLite fails, and the moment of
the cancellation. The actions are as fine as the C code's calls, although the traversal is
sequential: a cancellation or a failure may come between any two of them.

Abstractions in Output: calling without a backup (`master_` NULL) is the empty map, so an empty
backup that is not NULL is not modelled; the text of a row of sqlite_master is `Schema`, and
a name that begins with `sqlite_` is the cell's flag `sys`; whether a CREATE statement is
valid is `sql`; one call on a fresh handle.

## 3. Runs

| run | instance | shows |
|---|---|---|
| btree_small | every image of 3 pages over 19 page shapes, chains through b-tree pages and cycles included, `sqliterkParse` and the order 3, 1 (930 000 states) | TypeOK; CheckingAccounted: a mark "checking" does not outlive the visit, unless cancelled; CheckedLeafIsComplete: "checked" means all rows delivered; NoReentry and Terminates where chains keep away from b-tree pages |
| btree_master | recursive mode: sqlite_master rows naming any of 3 pages, and a sound database of 5 pages; one read failure, cancellation | the same with sub-trees opened in a callback; RowsInOrder and DamageIsLocal where the tables are sound |
| btree_database | a sound ten-page database, two unreadable pages, one bad cell, any answers | RowsInOrder, DamageIsLocal, TailsAreTrue |
| btree_wide_master | sqlite_master of two leaves | violated: without an error every leaf is found |
| output_recover | a shop of two tables and an index on six pages; no backup, a full one or a selection; every set of flags; two unreadable pages; cancellation | ReadableIsRecovered: damage costs only its own rows, end to end, even of sqlite_master when there is a backup |
| output_faults | the same shop, one unreadable page, two failing statements, a row callback with three answers, cancellation | TransactionOfOneTable, LossIsOneBatch, CancelIsReported, PromiseIsKept (refinement of Recovery), OutputReturns |
| rows | all rows of up to four bytes; records with integers of every width and sign, a number, blobs and texts, small ones, and ones of more than six bytes with chains shorter than, as long as and longer than the row; the same less their last byte or with one more; varints that the row cuts off; leaves of several rows; one failing allocation or read (95 000 states) | AcceptedIsExact and SoundIsAccepted: the decoder is the file format, in both directions; SlotsHold, NothingLeaks: lists and memory, at every failure; NoStaleValue: no value of a row is inserted with a later one, outside the last column |
| row_defaults | the same | violated: the values that a row has are inserted |
| pager_open | plain, encrypted and truncated files of five page sizes, headers in and out of range; every kind of configuration; one failing call | HeaderTrusted, SaltFlagTrue, PagerFitsFile: what the pager says is true, after whichever attempt; BooksBalance: what is acquired is given back once, and one descriptor is closed unopened for each path that cannot be allocated; AcquiredIsAsked: the page read is the page asked for |
| master_file | saves and loads of four schemas, two keys, three filters; two failing calls or stops; copies in part (700 000 states) | FilesAreSaves: what loads is one whole save; RefillAtStart; ActsAsStore: both calls implement BackupStore |
| backup | three calls by the application or the launch code, on a database that changes and is damaged between them; two failing operations or stops (1 150 000 states) | DatabaseOrRecovery, GoodBackupSurvives, FailedCallRestores |
| reported_backup | the same | violated: a reported backup exists |

**Bounds.** Three pages are enough for a page that is its own child, for two
pages that are each other's, for a leaf shared by two parents or by a parent and a
request, and for a chain through the leaf, an ancestor or a sibling. The ten-page
database has what three pages cannot have: three levels, two overflow pages in one
row, sibling leaves behind a failing one. `MaxDepth` cuts the recursion; it is above the
number of pages, so it cuts nothing wherever NoReentry says something (the
theorem says why); with chains through b-tree pages the recursion
has no bound: there `MaxDepth` cuts it and `CHECK_DEADLOCK FALSE` accepts the cut.
`MaxFaults` bounds the pages that fail, not how often they do. The shop has a table of
two leaves (so that an interior page hides what its leaf returned), a table after it in
the order of the map, one table that the target already has, and an index after both. `Batch` is 2
where the code has 256: its tables have three and two rows, so a batch ends within a table, at its
last row, or spans CREATE statements, which are counted too. `MaxSqlFaults` = 2 lets a COMMIT
fail and the next BEGIN or row after it.

For rows, `Digits` = 4 makes bytes 0 to 7, 4 and above with the flag of a varint, or negative where an integer begins: a type up to 3 is one
byte long, one up to 15 two. `MaxVarint` = 4 and `IntLimit` = 32 put the longest
varint and the overflow of an int within four bytes; `First` = 2 lets a list grow with its third
value; `MaxLeaf` = 6, `MinLocal` = 2 and `PerPage` = 3 make rows of seven bytes overflow: the wide integers, the number, and rows of up to four columns do, and are records. `MaxBehind` = 2
bounds how many uninitialized bytes are read as types before one of them is none. The pager's files are
of real sizes around 512, 1024 and 4096 bytes; its `IntLimit` = 2048 stands for 2^31, so that
files reach four times beyond. In MasterFile a row is two units and `InBuf` = 2, so the buffer is refilled
in the middle and at the end of a row; two faults are a failing fseek and the failing write after it, or a failed save and
a stop in the next. In Facade three calls are a backup, a second one that rotates, and a recovery or a third;
of its three versions of a schema the first has a backup below the 1024 bytes that rotation asks for (`Small`), and the
last cannot be backed up. Nothing moves once `MaxCalls` calls have returned on a damaged database, nor once a leaf has been
read in RowBinding: hence `CHECK_DEADLOCK FALSE` there.

**Fairness.** `WF_vars(Step)` and, in Output, `WF_allVars(Work)`: the parser and
the output run on their caller's thread, each step is a finite piece of C, and nothing they wait
for exists. Nobody has to cancel, so `Cancel` has no fairness. Termination therefore
rests on the algorithm alone. Terminates has two premises that the code does
not enforce: chains that stay away from b-tree pages and chains that end. Without
the second the overflow loop (`btree.c` 381) follows a closed chain for ever; without
the first an overflow visit can clear the mark of a page being parsed. The other modules have no
loop that depends on a file's links, so they state safety only.

**Premises.** TransactionOfOneTable and LossIsOneBatch hold while no statement has failed:
after a failed COMMIT, which is only logged (line 516), the next table's rows join the open
transaction. PromiseIsKept has no such premise. CancelIsReported needs the loop over
the indices: with NO_CREATE_TABLES there is none, the last table's refused row lies under an interior root
that reports OK, and nobody looks at `cancelled` again.
GoodBackupSurvives and FailedCallRestores speak of calls in which file operations do as they are told
(`calm`; the first of them allows stops): backupDBPath: drops the result of the copy and removes the newer backup all the same,
so a failing copy and a failing save lose both. SlotsHold speaks of the values always, and of the list of overflow pages except after its own growth has failed and until it has grown
again (`short`): the result of adding a page is dropped, and the numbers are written behind the slots.
AcceptedIsExact and SoundIsAccepted exclude rows with a varint, among the header's length and the types, of maximal length (the format has eight bits
in the ninth byte, the code reads seven and refuses the flag there) or beyond an int; nothing is asked of the bytes of the values.
PagerFitsFile: with a key, the first attempt's result is ignored, so its failure can hand out a pager
of no pages.

## 4. Proofs

`BtreeParseProofs` proves for every `PageCount`, set of images, requests, answers
and bounds, from the two named assumptions on the constants only:

* `TypeCorrect`: `Spec => []TypeOK`.
* `ChecksAreAccountedFor`: `Spec => []CheckingAccounted`.
* `PagesAreNotReentered`: `Spec => []NoReentry`.
* `RecursionIsBounded`: `Spec => []DepthBounded`: undisturbed, the stack has at most one call more than the file has pages,
  by a map from the callers to their pages that NoReentry makes injective.

TypeOK is not inductive by itself: that `status[p]` or `image[p].cells[i]` makes
sense depends on where a frame is. `FramesOK` adds it (a frame past "begin" has a
page of the file, a frame at a cell has a table leaf and a cell, callers wait in a loop over
children or for a sub-tree), and with it TypeOK is inductive. CheckingAccounted
then needs that a frame ending with CANCELLED has its answer on record, which is part of
FramesOK. NoReentry alone is not inductive either: BeginPage refuses a page because of
its *mark*, so the proof needs `FramesMarked`: undisturbed, a frame between begin
and end has its page marked "checking", and no overflow page of a leaf is a b-tree
page. One lemma per way of changing the stack (a frame goes on, calls, returns)
carries each of these through the actions.

`RowOrderProofs` proves, for every image, damaged or not, and every failure and answer:

* `CheckedLeavesAreComplete`: `Spec => []CheckedLeafIsComplete`.
* `TailsAlwaysTrue`: `Spec => []TailsAreTrue`.

Both rest on `FramesTell`, which says what each call has done so far: one at cell i has delivered the cells before i, one that ends
with OK all of them (so that EndPage may mark the leaf), and one in an overflow loop is, as long as the chain can be
followed, at the page where the chain goes on. "Can be followed" is a condition on the pages lost so far, so it has to be
kept while more are lost; a chain that breaks later says nothing of it any more (`OnChainStays`).

* `RowsAreInOrder`: `Spec => []RowsInOrder`, for every forest of pages, every order of the request, every failure and every answer.

The argument is that the walk of the trees always splits into what has been passed and what the stack still holds. `Left` says
what one call has left: the whole walk below its page before its loop, the rest of its children or cells inside it, nothing at its end. `Waits` adds up
the calls of the stack from the outermost inwards, and below them what is left of the request; `Pending`, the invariant, says that the walk is some part A followed by
what the innermost call finds there, and that the rows delivered are a subsequence of A. A step then does one of three things: it delivers the row that comes
first in what is left (`OrderRows`), it passes rows over because of a failure or a refusal (`OrderReturns`, `OrderProceeds`), or it moves what is left from
one call to the next without touching its order (`OrderCalls`, `OrderOpens`). None of this holds without `Shape`: each place of the file that names a page is
used by one call at most, and on a forest each page has one such place, so no page is on the stack twice and the stack is no deeper than the file
has pages (`DepthBound`) - which is why a walk of PageCount levels reaches every row. The walk itself is unfolded level by level (`WalksAre`) and a sum of sequences part by part (`RestIs`), both by descent to a
least number at which they would fail.

`RowDamageProofs` proves the other half, that nothing is missing:

* `DamageStaysLocal`: `Spec => []DamageIsLocal`, for every forest whose interior table pages have a cell (`Filled`), every failure and every
  answer other than CANCELLED.

`RowsAccounted` keeps the accounts, and the difficulty is that the walk without the lost pages changes while pages are lost. So it fixes a set
`gone` of pages and a number `count` of cells per leaf, for all of them at once: as long as nothing but `gone` was lost, nobody cancelled and no
counted cell was declined or is bad (`Spares`), each row of the walk without them is out, or still owed by a call of the stack
(`Owes`, place by place), or by a request. At the end `gone` is what was lost and `count` is `SureCells`. Two facts see to it that no debt
is dropped: `ChainsOff`, the overflow pages that a call visits are no b-tree pages, so their loss is not that of a child; and
`Untouched`, a tree that is still requested has not been entered, so that no mark refuses it.

`OutputProofs` carries the parser's invariants over to the recovery. To the parser every step of Output but
NextTable is a step of BtreeParse or none, and NextTable only hands it a root page, so TypeOK and
FramesOK stay invariant. On top of them it proves, for every `Batch`, schema, backup, flags and bounds:

* `OutputTypeCorrect`: `OutSpec => []OutTypeOK`.
* `TransactionsHoldOneTable`: `OutSpec => []TransactionOfOneTable`.
* `LossIsLessThanABatch`: `OutSpec => []LossIsOneBatch`.
* `CancellationIsReported`: `OutSpec => []CancelIsReported`, if the caller's row callback does not answer CANCELLED by itself.

* `RecoveryKeepsPromise`: `OutSpec /\ Genuine(image, tables) => PromiseIsKept`, the refinement of Recovery, for every
  failure of a page or a statement, every answer of the callback and a cancellation at any moment.

Neither LossIsOneBatch nor CancelIsReported is inductive: that a transaction is closed when a table ends depends on the
statement being alive exactly while it is open, and that less than a batch is pending depends on the counter, which
CREATE statements advance as well. `TransactionInv` says both: the statement is that of the
cursor and lives in the phase "table" only; an open transaction has a statement; the number of
pending rows is at most `success % Batch`. CancelIsReported needs to know who can have refused a row: `CancelInv` says that a
refusal implies the flag `cancelled`, that after a refusal the loop over the indices has not advanced its cursor (it leaves at its first turn), and that
the report is reached only past that loop, or with NO_CREATE_TABLES. The proofs assume `OutputAssumption`: names are
positive numbers, schema and backup are well-formed, the callback's answers are among `Answers`.

The refinement uses the order of the rows twice. While a table is parsed, RowOrderProofs is instantiated with the
table's root as the request (`R`; `SameTraverse`, `SameDelivery`: the parser's steps are its steps), so that `R!Walking(out)` says that `out`, what has
been delivered for this table, is a subsequence of the walk of its tree. `KeepInv` adds the target: the rows inserted, committed or pending, are in
order some of `out` for the table at hand (`Follows`), some of the file for the others, and none for the tables to come (`Target`). Every step but an
insertion then only settles what is there (`Settles`: the committed rows grow at their end, the inserted ones are at most cut there), however
BEGIN, COMMIT, CREATE and the rollbacks fail; an insertion appends the row that comes next (`InsertTarget`). When nothing was
counted nothing was inserted, so DAMAGED is never said of a target with rows.

`RowBindingProofs` proves, for all leaves, widths and bounds (so for 128, nine and 2^31 too):

* `SlotsAlwaysHold`, `NothingEverLeaks`, `NeverStale`: `Spec => []SlotsHold`, `[]NothingLeaks`, `[]NoStaleValue`.

What makes them inductive is bookkeeping by place: `Roomy` (the values in use have one slot more than their
capacity and no more items than capacity; so has the overflow list unless it is short, `Kept`) and `Booked` (at each place, `blocks` is the column's
five, the record's bytes if there are any, what the lists hold and what is lost).

It proves too that the decoder is the file format, in both directions, for rows of any bytes but those that `Extreme` takes out:

* `AcceptedAlwaysExact`: `Spec => []AcceptedIsExact`.
* `SoundAlwaysAccepted`: `Spec => []SoundIsAccepted`.

The invariant `IRecord` follows one record through the places of the code (`RowIsRight`). While the chain is read, the payload is the prefix
of the row that the pages so far hold (`Fetched`), so that a chain long enough gives exactly the row. From the header on, `Placed` relates the
offsets of the code to the format: the types that are still to be read are those that `TypesFrom` finds at the header's offset, the value's
offset is `Offset` of its index, and the values so far are `FormatValue` of their types (`AllAreExact`). `Way` is what the second
theorem needs: either the row is `OnItsWay`, with nothing wrong so far, or it is already known to be `NoRecord`; each refusal of the code is then a
mistake of the row. A varint that the row cuts off needs a case of its own (`CutOff`, `WayIsNone`, `TurnBroken`): the code reads on behind the
payload, whatever is there, but its offset is then behind the header too, and `Check` ends the row. Under these lie the lemmas on data: the code's varint and integer loops add digits from the left, the format's `PlaceValue` from powers; the sign
extension in 24, 48 and 64 bits is two's complement. All of them are statements on recursive functions, proved by descent: a least
argument at which they fail (WFMin) contradicts the step of the recursion.

`PagerOpenProofs` proves, for every file, configuration, limit and fault:

* `HeaderAlwaysTrusted`, `SaltFlagAlwaysTrue`, `PagerAlwaysFitsFile`, `BooksAlwaysBalance`, `AcquiredIsAlwaysAsked`.

`ParseHeader` is followed through its assignments by lemmas that say what each leaves alone (`Kept`) and what a pager that
claims its header means by it (`Means`); `Attempt` says what is true before each attempt, so that what the first leaves behind
cannot become a claim of the second. PagesCover and ToIntIs are the arithmetic: pages cover the file, and below twice its
limit an int is the number or negative, which the read refuses.

`MasterStoreProofs` proves, for every schema, key, buffer size and fault:

* `LoadableIsOneSave`: `MasterSpec => []FilesAreSaves`. Its strengthening does not speak of loading at all: a real header
  counts rows that were sealed (`Kept`), and (`Writing`) a save has a real header in its buffer only at its last step, over a file whose
  header is not real, when its count is the number of its rows. This is why the first header has to be zeros: every part of the buffer may
  reach the file before.
* `BufferIsFilledFromStart`: `MasterSpec => []RefillAtStart`, from `Reads`: until the file has ended, next_in and total_in move together.

It proves too that the two calls implement the abstract store, for the same constants:

* `BackupsActAsStore`: `MasterSpec => ActsAsStore`.

The refinement mapping reads a file as junk unless it loads, and a save as committed once its real header is placed. The invariant `IStore` ties
what is in flight to what is meant: the rows that a save has handed on are `SavedTo` of the rows it has read, two units each (`SaveRows`); a real header reaches
the file only when all of that stream has (`SaveFile`); a load has read j rows and its map is `Selection` of them (`LoadRows`).
Then one lemma per kind of step says what it is to the store: opening the file is Spoil (OpenMaps), what follows up to the header is nothing
(InsideMaps), the write that completes the header is Commit wherever it happens, in an fwrite or at fclose (CloseMaps), a load that ends is Answer (LoadMaps). What
SavedTo computes is proved by descent (a least row at which the recursion would fail, WFMin), and so is Selection row by row.
`StoreAssumption` says that Nothing and Junk are no backups.

`FacadeProofs` proves, for all rows, schemas, backups and numbers of calls and faults:

* `RowsAreSomewhere`: `FacadeSpec => []DatabaseOrRecovery`. `Owed` says for each place of a recovery where the rows are: in the database
  up to "replace", in the file -recovery from there to "copyingBack", in both at "clean".
* `ABackupIsAlwaysThere`, `FailedBackupRestores`: `FacadeSpec => []GoodBackupSurvives`, `[]FailedCallRestores`. `Guarding` says at each place of
  a backup which of the two files is the good one: the newer up to "copying", the older from "remove" to "restoring", the newer again at "dropOld";
  and that the copy finds no file in its way.

The assumptions on the constants are all named and evaluated by the runs.

Only model-checked: liveness (Terminates, OutputReturns); and ReadableIsRecovered,
which is DamageStaysLocal and the loop over the tables together.

## 5. Findings

Each is a run that TLC finds violated:

* btree_wide_master. `btree.c` 225 reads the right-most pointer of an interior page at offset 8; on page
  1 the b-tree header starts at 100. The last child of a sqlite_master of more than
  one page is never visited.
* row_defaults. `output.cpp` 388 binds the default of column i + 1 to parameter i, although parameters count from
  1: a row with fewer columns than the table (written before an ALTER TABLE ADD COLUMN) loses its last value, which a default
  overwrites, and the last column is not bound. The trace is a row of one column for a table of three.
* reported_backup. `sqliterk_save_master` returns OK when fopen or fwrite fails (`output.cpp` 659, 677, 738, 760);
  `backupDBPath:` then reports a backup that is not there, after it has removed the former one.

What else the code does and the models show, or their premises exclude:

* `pager.h` 27-32 lists the legal status transfers; `onBeginParsePage` (`sqliterk.c` 276) takes any status but
  checking to checking, so `sqliterkParse` delivers the rows of a leaf that it meets before its root twice.
* `btree.h` 55-56: a page that onBeginParsePage refuses is skipped; the overflow loop (`btree.c` 385) ignores the refusal.
* `output.cpp` 558 counts CREATE statements as successes: a recovery that outputs no row
  can return OK.
* `pager.c` 45-47 offers to force a page size; on a plain file whose header is damaged it is overwritten by the default (240-241).
  Page sizes of 32768 (its first byte is read as signed) and 65536 (written as 1) fall back to the default, and the header counts as damaged.
* `btree.c` 190 takes a page without a cell for damaged. An interior page may be left with its right child alone; the parser then
  loses the tree below. DamageIsLocal speaks of databases without such pages (`Filled`).
* Where `sqliterkOSReadOnlyOpen` cannot allocate the path (`sqliterk_os.c` 51-55), the record is all zeros, and `sqliterkOSClose` (87) closes
  descriptor 0 of the process. BooksBalance counts it.
* When the list of overflow pages cannot grow, its capacity is raised all the same (`values.c` 123-135) and the result is
  dropped (`btree.c` 383): further page numbers are written behind the memory it has.
* A short overflow chain leaves zero bytes at the end of the payload, which is decoded all the same.
* After a stop, a partial backup file of more than 1024 bytes is rotated over the good one by the next backup; one of up to
  1024 bytes is removed without a rotation. Hence `calm`.
* The older backup is used only when the newer file is missing, not when it cannot be loaded (`WCRepairKitManage.mm` 139).
* Where copying the recovered file back fails, the database is missing until `sqlite3_open` makes an empty one, the rows are in the file -recovery,
  and later recoveries return nil.
* The identifier of a backup is recorded whether or not the backup succeeded (`LMCoreDataRepairManage.mm` 66), so none follows until
  the model changes; what its check has found is 30 seconds old by then (60).

## 6. Not modelled

* The vendored header `sqlcipher.framework/Headers/sqlite3.h` (10 371 of the 15 406 lines of source) and the binary it describes: third-party
  code. SQLite appears by what a statement, a transaction or an open may do, SQLCipher by which key, salt and page size
  decode a page. Of the project's own 5 000 lines the models translate somewhat more than half; most of the rest is
  declarations, includes, comments and logging.
* The C interface (`sqliterk_api.c`, `SQLiteRepairKit.h`), which forwards each call; logging and its registration (`_os.c`); the getters of
  `_values.c` and `_column.c`, which change nothing and convert only for a caller that asks for another type than the value has.
* `sqliteCheckIntegrityDB`, `backupExistsAtDBPath` and `fixPath` of the facade: they change nothing; user interface and Core Data of the
  demo application.
* In the backup of the facade, a size that cannot be read (`WCRepairKitManage.mm` 43), which counts as 0 and so removes the newer backup without
  a rotation. In the backup files, a header written in part, and names longer than the 520 bytes of the input buffer.
* Decoding without HMAC in `_crypto.c`; compression and RC4, which MasterFile counts in units.
* A second recovery on one handle (every page is visited already, so it skips them all), and `sqliterk_cancel` outside the running
  call (there is no context for it to set).

Out of the prover's reach: liveness under fairness, ENABLED, and the library's theorems of induction, which take an operator for
a parameter. What recursive functions compute is proved here by descent instead.

## 7. Plan

1. ReadableIsRecovered as a theorem, from DamageStaysLocal for each table and an invariant of the loop over the tables.
2. Facade over BackupStore and Recovery, step by step.
