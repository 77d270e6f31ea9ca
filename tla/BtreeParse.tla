------------------------------ MODULE BtreeParse ------------------------------
(***************************************************************************)
(* The page traversal of RepairKit: sqliterkParsePage and the b-tree parser *)
(* under it, with the page status table of the pager.                       *)
(*                                                                          *)
(* The C recursion is an explicit stack, one frame per active call of       *)
(* sqliterkBtreeParsePage; a frame's `at` is the place the call has         *)
(* reached.  The parser is sequential: what is open is the image it reads,  *)
(* the reads and allocations that fail, and the answers of the              *)
(* onParseColumn callback.                                                  *)
(***************************************************************************)
EXTENDS PageImage, FiniteSets

CONSTANTS
  Images,     \* the file images to parse
  Requests,   \* sequences of page numbers passed to sqliterk_parse_page
  Recursive,  \* rk->recursive
  Answers,    \* what the onParseColumn callback may return
  MaxFaults,  \* bound: pages whose read (or whose memory) fails
  MaxDepth    \* bound: depth of the recursion

ASSUME BtreeParseAssumption ==
  /\ Images \subseteq ImageType
  /\ Requests \subseteq Seq(Int)
  /\ Recursive \in BOOLEAN
  /\ "OK" \in Answers /\ Answers \subseteq Codes
  /\ MaxFaults \in Nat
  /\ MaxDepth \in Nat \ {0}

VARIABLES
  image,     \* the file; never changes
  requested, \* the pages passed to sqliterkParsePage in turn; never changes
  todo,      \* pages still to be passed to sqliterkParsePage
  stack,     \* active calls of sqliterkBtreeParsePage, innermost last
  status,    \* pager->pagesStatus
  rc,        \* the result of the last call of sqliterkParsePage
  rows,      \* history: the rows passed to onParseColumn, in order
  lost,      \* history: the pages that could not be read, or parsed for
             \* want of memory
  declined   \* history: [page, answer] of each answer that was not OK

input == <<image, requested>>
vars  == <<input, todo, stack, status, rc, rows, lost, declined>>

Statuses == {"unchecked", "checking", "damaged", "discarded", "checked",
             "invalid"}
Btrees   == {"master", "system", "user"}

(* Mutant: the loops start one element early.                              *)
MutCall(p, b) == [page |-> p, btree |-> b, at |-> "begin", i |-> 0,
                  next |-> 0, got |-> 0, chain |-> {}, rc |-> "OK"]

(* A new call of sqliterkBtreeParsePage for page p of a b-tree of type b.  *)
(* i is the loop index over children or cells; next, got and chain are the *)
(* overflow page to visit, the pages copied and the pages visited.         *)
Call(p, b) == [page |-> p, btree |-> b, at |-> "begin", i |-> 1,
               next |-> 0, got |-> 0, chain |-> {}, rc |-> "OK"]

Top       == stack[Len(stack)]
Callers   == SubSeq(stack, 1, Len(stack) - 1)
At(place) == stack # <<>> /\ Top.at = place
CellNow   == image[Top.page].cells[Top.i]

(* Mutant: the last page number is taken to be invalid.                    *)
MutGetStatus(p) == IF p \in 1 .. PageCount - 1 THEN status[p] ELSE "invalid"

(* sqliterkPagerGetStatus.                                                 *)
GetStatus(p) == IF p \in Pages THEN status[p] ELSE "invalid"

(* sqliterkPagerSetStatus, for the pages of S.                             *)
SetStatus(S, s) ==
  status' = [p \in Pages |-> IF p \in S THEN s ELSE status[p]]

(* The innermost call goes on as f; it goes on as f after a call of c; it  *)
(* goes on at `place` with result `result`.                                *)
Become(f)         == stack' = [stack EXCEPT ![Len(stack)] = f]
BecomeAndCall(f, c) ==
  /\ Len(stack) < MaxDepth
  /\ stack' = Append([stack EXCEPT ![Len(stack)] = f], c)
Go(place, result) == Become([Top EXCEPT !.at = place, !.rc = result])

(* Mutant: the loop over children breaks on every failure.                 *)
MutResumeBreaks(s, result) ==
  IF s # <<>> /\ s[Len(s)].at = "child" /\ result # "OK"
  THEN [s EXCEPT ![Len(s)].at = "end"]
  ELSE IF s # <<>> /\ s[Len(s)].at = "subtree"
  THEN [s EXCEPT ![Len(s)].at = IF s[Len(s)].rc = "OK" THEN "cell" ELSE "end"]
  ELSE s

(* Mutant: a table that cannot be parsed ends the parsing of its master.   *)
MutResumeFails(s, result) ==
  IF s # <<>> /\ s[Len(s)].at = "subtree"
  THEN [s EXCEPT ![Len(s)].at = IF result = "OK" THEN "cell" ELSE "end"]
  ELSE s

(* The innermost call returns `result`.  The loop over children breaks on  *)
(* CANCELLED and ignores every other result; sqliterkNotify_onParseColumn  *)
(* ignores the result of the sub-tree it opened.                           *)
Resume(s, result) ==
  IF s # <<>> /\ s[Len(s)].at = "child" /\ result = "CANCELLED"
  THEN [s EXCEPT ![Len(s)].at = "end"]
  ELSE IF s # <<>> /\ s[Len(s)].at = "subtree"
  THEN [s EXCEPT ![Len(s)].at = IF s[Len(s)].rc = "OK" THEN "cell" ELSE "end"]
  ELSE s

Return(result) ==
  /\ stack' = Resume(Callers, result)
  /\ rc' = IF Callers = <<>> THEN result ELSE rc

(* Page p cannot be read, or memory for it runs out.                       *)
Fails(p) ==
  /\ Cardinality(lost \cup {p}) <= MaxFaults
  /\ lost' = lost \cup {p}

-----------------------------------------------------------------------------
(* sqliterkBtreeOpen accepts p as a root: page 1 is opened as sqlite_master *)
(* whatever it holds, any other page must be a b-tree page.                 *)
Opens(p) == p \in Pages /\ (p = 1 \/ image[p].kind \in BtreeKinds)

(* sqliterkParsePage on the next requested page: a page with a status is   *)
(* skipped with OK.                                                        *)
NextRequest == stack = <<>> /\ todo # <<>> /\ todo' = Tail(todo)

SkipPage ==
  /\ NextRequest
  /\ GetStatus(Head(todo)) # "unchecked"
  /\ rc' = "OK"
  /\ UNCHANGED <<input, stack, status, rows, lost, declined>>

OpenFails ==
  /\ NextRequest
  /\ GetStatus(Head(todo)) = "unchecked"
  /\ \/ Fails(Head(todo)) /\ rc' = "IOERR"
     \/ ~ Opens(Head(todo)) /\ rc' = "DAMAGED" /\ lost' = lost
  /\ UNCHANGED <<input, stack, status, rows, declined>>

OpenBtree ==
  /\ NextRequest
  /\ GetStatus(Head(todo)) = "unchecked"
  /\ Opens(Head(todo))
  /\ stack' = <<Call(Head(todo), IF Head(todo) = 1 THEN "master" ELSE "user")>>
  /\ UNCHANGED <<input, status, rc, rows, lost, declined>>

(* Mutant: onBeginParsePage refuses nothing.                               *)
MutBeginPage ==
  /\ At("begin")
  /\ IF Top.page \notin Pages
     THEN Return("MISUSE") /\ UNCHANGED status
     ELSE /\ SetStatus({Top.page}, "checking")
          /\ Go("acquire", "OK")
          /\ UNCHANGED rc
  /\ UNCHANGED <<input, todo, rows, lost, declined>>

(* sqliterkBtreeParsePage up to onBeginParsePage.  A page number outside   *)
(* the file ends in MISUSE and leaves no trace; so does a page that is     *)
(* being checked.                                                          *)
BeginPage ==
  /\ At("begin")
  /\ IF GetStatus(Top.page) = "checking" \/ Top.page \notin Pages
     THEN Return("MISUSE") /\ UNCHANGED status
     ELSE /\ SetStatus({Top.page}, "checking")
          /\ Go("acquire", "OK")
          /\ UNCHANGED rc
  /\ UNCHANGED <<input, todo, rows, lost, declined>>

(* sqliterkPageAcquire, the check of the page type and of the cell count,  *)
(* and the switch on the type.                                             *)
AcquireFails ==
  /\ At("acquire")
  /\ Fails(Top.page)
  /\ Go("end", "IOERR")
  /\ UNCHANGED <<input, todo, status, rc, rows, declined>>

AcquirePage ==
  /\ At("acquire")
  /\ LET kind == image[Top.page].kind IN
     \/ /\ kind = "other" \/ CellsCount(image, Top.page) = 0
        /\ Go("end", "DAMAGED")
     \/ /\ kind \in InteriorKinds /\ CellsCount(image, Top.page) # 0
        /\ Go("child", "OK")
     \/ /\ kind = "leafTable" /\ CellsCount(image, Top.page) # 0
        /\ Go(IF Top.btree = "system" THEN "end" ELSE "cell", "OK")
     \/ /\ kind = "leafIndex" /\ CellsCount(image, Top.page) # 0
        /\ Go("end", "OK")
  /\ UNCHANGED <<input, todo, status, rc, rows, lost, declined>>

(* Mutant: the loop index is not advanced.                                 *)
MutParseChild ==
  /\ At("child")
  /\ LET kids == ChildPointers(image, Top.page) IN
     IF Top.i > Len(kids)
     THEN Go("end", "OK")
     ELSE BecomeAndCall(Top, Call(kids[Top.i], Top.btree))
  /\ UNCHANGED <<input, todo, status, rc, rows, lost, declined>>

(* The loop over the child pages.                                          *)
ParseChild ==
  /\ At("child")
  /\ LET kids == ChildPointers(image, Top.page) IN
     IF Top.i > Len(kids)
     THEN Go("end", "OK")
     ELSE BecomeAndCall([Top EXCEPT !.i = @ + 1],
                        Call(kids[Top.i], Top.btree))
  /\ UNCHANGED <<input, todo, status, rc, rows, lost, declined>>

(* sqliterkBtreeParseCell and the start of sqliterkBtreeParsePayload.      *)
CellFails ==
  /\ At("cell")
  /\ Top.i <= Len(image[Top.page].cells)
  /\ Fails(Top.page)
  /\ Go("end", "IOERR")
  /\ UNCHANGED <<input, todo, status, rc, rows, declined>>

(* Mutant: the loop over the cells ends one cell early.                    *)
MutParseCell ==
  /\ At("cell")
  /\ IF Top.i >= Len(image[Top.page].cells)
     THEN Go("end", "OK")
     ELSE Become([Top EXCEPT
                    !.at = IF CellNow.need > 0 THEN "overflow" ELSE "column",
                    !.next = CellNow.chain,
                    !.got = 0,
                    !.chain = {}])
  /\ UNCHANGED <<input, todo, status, rc, rows, lost, declined>>

ParseCell ==
  /\ At("cell")
  /\ IF Top.i > Len(image[Top.page].cells)
     THEN Go("end", "OK")
     ELSE Become([Top EXCEPT
                    !.at = IF CellNow.need > 0 THEN "overflow" ELSE "column",
                    !.next = CellNow.chain,
                    !.got = 0,
                    !.chain = {}])
  /\ UNCHANGED <<input, todo, status, rc, rows, lost, declined>>

(* Mutant: the loop stops before the last page that the payload needs.     *)
MutOverflowBegin ==
  /\ At("overflow")
  /\ IF Top.next \in Pages /\ Top.got + 1 < CellNow.need
     THEN /\ SetStatus({Top.next}, "checking")
          /\ Become([Top EXCEPT !.at = "overflowRead",
                                !.chain = @ \cup {Top.next}])
     ELSE Go("column", "OK") /\ UNCHANGED status
  /\ UNCHANGED <<input, todo, rc, rows, lost, declined>>

(* The overflow loop: it runs while the next page number is valid, whether *)
(* or not the payload is complete, and ignores what onBeginParsePage       *)
(* returns.                                                                *)
OverflowBegin ==
  /\ At("overflow")
  /\ IF Top.next \in Pages
     THEN /\ SetStatus({Top.next}, "checking")
          /\ Become([Top EXCEPT !.at = "overflowRead",
                                !.chain = @ \cup {Top.next}])
     ELSE Go("column", "OK") /\ UNCHANGED status
  /\ UNCHANGED <<input, todo, rc, rows, lost, declined>>

OverflowFails ==
  /\ At("overflowRead")
  /\ Fails(Top.next)
  /\ SetStatus({Top.next}, "invalid")
  /\ Go("column", "OK")
  /\ UNCHANGED <<input, todo, rc, rows, declined>>

(* Mutant: the number of the next page is not read.                        *)
MutOverflowRead ==
  /\ At("overflowRead")
  /\ SetStatus({Top.next}, "checked")
  /\ Become([Top EXCEPT !.at = "overflow"])
  /\ UNCHANGED <<input, todo, rc, rows, lost, declined>>

OverflowRead ==
  /\ At("overflowRead")
  /\ SetStatus({Top.next}, "checked")
  /\ Become([Top EXCEPT !.at = "overflow",
                        !.got = IF @ < CellNow.need THEN @ + 1 ELSE @,
                        !.next = image[Top.next].link])
  /\ UNCHANGED <<input, todo, rc, rows, lost, declined>>

(* The record is decoded from what was read, the rest being zeros, so an   *)
(* incomplete payload may decode or not; adding a value may run out of     *)
(* memory.                                                                 *)
Whole == Top.got = CellNow.need

DecodeFails ==
  /\ At("column")
  /\ \/ /\ ~ Whole \/ CellNow.decode # "OK"
        /\ Go("end", IF Whole THEN CellNow.decode ELSE "DAMAGED")
        /\ lost' = lost
     \/ Fails(Top.page) /\ Go("end", "IOERR")
  /\ UNCHANGED <<input, todo, status, rc, rows, declined>>

(* A row of sqlite_master opens the b-tree it names (recursive mode).      *)
OpensSubtree(answer) ==
  /\ answer # "CANCELLED"
  /\ Recursive /\ Top.btree = "master"
  /\ CellNow.root # 0

(* Mutant: the name of the table is not looked at.                         *)
MutSubtreeType(c) == IF c.root = 1 THEN "master" ELSE "user"

(* sqliterkBtreeOpen's type for the sub-tree a row of sqlite_master names. *)
SubtreeType(c) ==
  IF c.sys THEN "system" ELSE IF c.root = 1 THEN "master" ELSE "user"

(* sqliterkNotify_onParseColumn: the callback gets the row and answers; a  *)
(* refusal marks the leaf and the visited overflow pages discarded.        *)
Deliver(answer) ==
  /\ At("column")
  /\ Whole => CellNow.decode = "OK"
  /\ rows' = Append(rows, [page |-> Top.page, i |-> Top.i, whole |-> Whole])
  /\ IF answer \in {"OK", "CANCELLED"}
     THEN UNCHANGED status
     ELSE SetStatus({Top.page} \cup Top.chain, "discarded")
  /\ declined' = IF answer = "OK" THEN declined
                 ELSE declined \cup {[page |-> Top.page, answer |-> answer]}
  /\ LET goOn(place) == [Top EXCEPT !.at = place, !.rc = answer, !.i = @ + 1]
         next == goOn(IF answer = "OK" THEN "cell" ELSE "end")
     IN \/ /\ OpensSubtree(answer) /\ Opens(CellNow.root)
           /\ BecomeAndCall(goOn("subtree"),
                            Call(CellNow.root, SubtreeType(CellNow)))
           /\ UNCHANGED lost
        \/ /\ OpensSubtree(answer) => ~ Opens(CellNow.root)
           /\ Become(next)
           /\ UNCHANGED lost
        \/ /\ OpensSubtree(answer) /\ CellNow.root \in Pages
           /\ Fails(CellNow.root)
           /\ Become(next)
  /\ UNCHANGED <<input, todo, rc>>

(* Mutant: a page that cannot be parsed keeps its mark.                    *)
MutEndPage ==
  /\ At("end")
  /\ IF Top.rc = "OK" THEN SetStatus({Top.page}, "checked")
     ELSE UNCHANGED status
  /\ Return(Top.rc)
  /\ UNCHANGED <<input, todo, rows, lost, declined>>

(* sqliterkNotify_onEndParsePage, and the return of the call.              *)
EndPage ==
  /\ At("end")
  /\ CASE Top.rc = "OK"        -> SetStatus({Top.page}, "checked")
       [] Top.rc = "DAMAGED"   -> SetStatus({Top.page}, "damaged")
       [] Top.rc = "CANCELLED" -> UNCHANGED status
       [] OTHER                -> SetStatus({Top.page}, "invalid")
  /\ Return(Top.rc)
  /\ UNCHANGED <<input, todo, rows, lost, declined>>

-----------------------------------------------------------------------------
Done == stack = <<>> /\ todo = <<>>

Init ==
  /\ image \in Images
  /\ requested \in Requests
  /\ todo = requested
  /\ stack = <<>>
  /\ status = [p \in Pages |-> "unchecked"]
  /\ rc = "OK"
  /\ rows = <<>>
  /\ lost = {}
  /\ declined = {}

(* What the traversal does by itself, between two calls of the callback.   *)
Traverse ==
  \/ SkipPage \/ OpenFails \/ OpenBtree
  \/ BeginPage \/ AcquireFails \/ AcquirePage \/ ParseChild
  \/ CellFails \/ ParseCell
  \/ OverflowBegin \/ OverflowFails \/ OverflowRead
  \/ DecodeFails
  \/ EndPage

Step == Traverse \/ (\E answer \in Answers : Deliver(answer))

(* The calls have all returned; the parser stays as it is.                 *)
Finished == Done /\ UNCHANGED vars

Next == Step \/ Finished

Spec == Init /\ [][Next]_vars

(* The parser runs on its caller's thread and nothing but its own work     *)
(* stops it.                                                               *)
FairSpec == Spec /\ WF_vars(Step)

-----------------------------------------------------------------------------
(* Type invariant.                                                         *)
Places == {"begin", "acquire", "child", "cell", "overflow", "overflowRead",
           "column", "subtree", "end"}

Frame == [page : Int, btree : Btrees, at : Places, i : Nat \ {0},
          next : Int, got : Nat, chain : SUBSET Pages, rc : Codes]

TypeOK ==
  /\ image \in ImageType
  /\ requested \in Seq(Int) /\ todo \in Seq(Int)
  /\ stack \in Seq(Frame)
  /\ status \in [Pages -> Statuses]
  /\ rc \in Codes
  /\ rows \in Seq([page : Pages, i : Nat \ {0}, whole : BOOLEAN])
  /\ lost \in SUBSET Pages
  /\ declined \in SUBSET [page : Pages, answer : Codes]

(* A call that has passed onBeginParsePage and has not yet returned.       *)
Active(f) == f.at # "begin"

(* The mark "checking" is what stops a page from being entered again, so   *)
(* it must not outlive the visit: a page is "checking" only while a call   *)
(* is parsing it, while its leaf reads it as an overflow page, or because  *)
(* its parsing was cancelled.  Otherwise a later visit of the page would   *)
(* be refused and its rows silently dropped.                               *)
Visits(f, p) == \/ f.page = p /\ Active(f)
                \/ f.next = p /\ f.at = "overflowRead"

BeingVisited(p) == \E n \in DOMAIN stack : Visits(stack[n], p)

CheckingAccounted ==
  \A p \in Pages : status[p] = "checking" =>
     BeingVisited(p) \/ [page |-> p, answer |-> "CANCELLED"] \in declined

(* Overflow chains stay away from b-tree pages, and no refusal of the      *)
(* callback can unmark a leaf of sqlite_master while a sub-tree is parsed. *)
Undisturbed ==
  /\ ChainsApart(image)
  /\ Recursive => Answers \subseteq {"OK", "CANCELLED"}

(* The recursion never enters a page it is already parsing, whatever       *)
(* cycles the child pointers of the damaged file form; so its depth is at  *)
(* most the number of pages.                                               *)
NoReentry ==
  Undisturbed =>
    \A m, n \in DOMAIN stack :
       m # n /\ Active(stack[m]) /\ Active(stack[n])
         => stack[m].page # stack[n].page

(* What else is true of every frame: callers wait in a loop over children  *)
(* or for a sub-tree; a frame that reads cells has a table leaf and a cell *)
(* at hand; only a leaf whose row was answered CANCELLED ends with that.   *)
FrameOK(f, img, out) ==
  /\ Active(f) => f.page \in Pages
  /\ f.at = "child" => f.rc = "OK" /\ img[f.page].kind \in InteriorKinds
  /\ f.at \in {"cell", "overflow", "overflowRead", "column", "subtree"}
       => img[f.page].kind = "leafTable"
  /\ f.at \in {"overflow", "overflowRead", "column"}
       => f.i \in DOMAIN img[f.page].cells
  /\ f.at = "overflowRead" => f.next \in Pages
  /\ f.at = "subtree" => f.rc # "CANCELLED"
  /\ f.at = "end" /\ f.rc = "CANCELLED"
       => [page |-> f.page, answer |-> "CANCELLED"] \in out

FramesOK ==
  /\ \A n \in DOMAIN stack : FrameOK(stack[n], image, declined)
  /\ \A n \in 1 .. Len(stack) - 1 : stack[n].at \in {"child", "subtree"}

(* Undisturbed, the pages of the stack keep their mark until they end, and *)
(* a leaf's overflow pages are not among them.                             *)
FrameMarked(f, img, st) ==
  /\ f.at \notin {"begin", "end"} => st[f.page] = "checking"
  /\ f.at \in {"overflow", "overflowRead"} => ~ IsBtree(img, f.next)
  /\ f.at \in {"overflow", "overflowRead", "column"}
       => \A p \in f.chain : ~ IsBtree(img, p)

FramesMarked ==
  Undisturbed => \A n \in DOMAIN stack : FrameMarked(stack[n], image, status)

(* "Checked" is what progress counting reports as parsed: every cell of a  *)
(* table leaf with that status has been passed to the callback, even when  *)
(* the leaf was visited several times, cut short and resumed elsewhere.    *)
(* (A system table, known by its name in sqlite_master, is skipped.)       *)
NoSystemTables(img) ==
  \A p \in Pages : \A k \in DOMAIN img[p].cells : ~ img[p].cells[k].sys

CheckedLeafIsComplete ==
  ChainsApart(image) /\ NoSystemTables(image) =>
    \A p \in Pages : image[p].kind = "leafTable" /\ status[p] = "checked" =>
      \A k \in DOMAIN image[p].cells :
        \E n \in DOMAIN rows : rows[n].page = p /\ rows[n].i = k

(* Parsing ends on every image whose overflow chains end and stay away     *)
(* from b-tree pages, cycles of child pointers included.                   *)
Terminates == Undisturbed /\ ChainsEnd(image) ~> Done
=============================================================================
