---------------------------- MODULE RowOrderProofs ----------------------------
(***************************************************************************)
(* Proofs about the rows that the page traversal delivers: a leaf that is  *)
(* marked "checked" has been delivered whole, no payload whose chain is in *)
(* place is delivered with a tail of zeros, and on a forest of pages the   *)
(* rows come in the order of the walk.                                     *)
(***************************************************************************)
EXTENDS RowOrder, BtreeParseProofs, WellFoundedInduction

-----------------------------------------------------------------------------
(* What a frame tells stays true while rows are added and pages are lost.  *)

RowRec == [page : Pages, i : Nat \ {0}, whole : BOOLEAN]

LEMMA RowsGrow ==
  ASSUME NEW out \in Seq(RowRec), NEW r \in RowRec
  PROVE  /\ Append(out, r) \in Seq(RowRec)
         /\ HasRow(Append(out, r), r.page, r.i)
         /\ \A p, k : HasRow(out, p, k) => HasRow(Append(out, r), p, k)
         /\ \A n \in DOMAIN Append(out, r) :
              \/ Append(out, r)[n] = r
              \/ n \in DOMAIN out /\ Append(out, r)[n] = out[n]
<1> DEFINE next == Append(out, r)
<1>1. /\ next \in Seq(RowRec) /\ Len(next) = Len(out) + 1
      /\ \A n \in 1 .. Len(out) : next[n] = out[n]
      /\ next[Len(out) + 1] = r
  BY AppendProperties
<1>2. /\ DOMAIN next = 1 .. Len(out) + 1 /\ DOMAIN out = 1 .. Len(out)
      /\ Len(out) \in Nat
  BY <1>1, LenProperties
<1> HIDE DEF next
<1>3. Len(out) + 1 \in DOMAIN next /\ \A n \in DOMAIN out : n \in DOMAIN next
  BY <1>2
<1>4. HasRow(next, r.page, r.i)
  BY <1>1, <1>3 DEF HasRow
<1>5. \A p, k : HasRow(out, p, k) => HasRow(next, p, k)
  BY <1>1, <1>2, <1>3 DEF HasRow
<1>6. ASSUME NEW n \in DOMAIN next
      PROVE  next[n] = r \/ (n \in DOMAIN out /\ next[n] = out[n])
  BY <1>1, <1>2
<1> QED
  BY <1>1, <1>4, <1>5, <1>6 DEF next

(* The rows and the lost pages after a step.                               *)
Grows(out, out2, gone, gone2) ==
  /\ \A p, k : HasRow(out, p, k) => HasRow(out2, p, k)
  /\ gone \subseteq gone2

LEMMA OnChainStays ==
  ASSUME NEW f, NEW c, NEW img, NEW gone, NEW gone2, gone \subseteq gone2,
         OnChain(f, c, img, gone)
  PROVE  OnChain(f, c, img, gone2)
<1>1. \A s : s \in [1 .. c.need -> Pages \ gone2] => s \in [1 .. c.need -> Pages \ gone]
  OBVIOUS
<1> QED
  BY <1>1 DEF OnChain

LEMMA TellsOn ==
  ASSUME NEW f, NEW img, NEW out, NEW out2, NEW gone, NEW gone2,
         Grows(out, out2, gone, gone2), FrameTells(f, img, out, gone)
  PROVE  FrameTells(f, img, out2, gone2)
<1>1. ASSUME f.at \in OverflowPlaces \cup {"column"}
      PROVE  OnChain(f, img[f.page].cells[f.i], img, gone2)
  BY <1>1, OnChainStays DEF FrameTells, Grows
<1> QED
  BY <1>1 DEF FrameTells, Grows

(* A new call has told nothing.                                            *)
LEMMA NewCallTells ==
  ASSUME NEW p \in Int, NEW b \in Btrees, NEW img, NEW out, NEW gone,
         NoSystemTables(img) => b # "system"
  PROVE  FrameTells(Call(p, b), img, out, gone)
<1>1. /\ Call(p, b).at = "begin" /\ Call(p, b).i = 1 /\ Call(p, b).btree = b
  BY DEF Call
<1> QED
  BY <1>1 DEF FrameTells, CellPlaces, OverflowPlaces

-----------------------------------------------------------------------------
(* The three ways a step changes the stack.                                *)

LEMMA TopTells ==
  ASSUME TypeOK, FramesOK, FramesTell, stack # <<>>
  PROVE  FrameTells(Top, image, rows, lost)
<1>1. Len(stack) \in DOMAIN stack /\ Top = stack[Len(stack)]
  BY TopFacts
<1> QED
  BY <1>1 DEF FramesTell

LEMMA BecomeTells ==
  ASSUME TypeOK, FramesOK, FramesTell, stack # <<>>,
         NEW f \in Frame, Become(f), image' = image,
         Grows(rows, rows', lost, lost'), FrameTells(f, image, rows', lost')
  PROVE  FramesTell'
<1>1. /\ stack' \in Seq(Frame) /\ Len(stack') = Len(stack)
      /\ Len(stack) \in Nat \ {0}
      /\ stack'[Len(stack)] = f
      /\ \A n \in 1 .. Len(stack) - 1 : stack'[n] = stack[n]
  BY BecomeFacts DEF TypeOK
<1>2. DOMAIN stack' = 1 .. Len(stack) /\ DOMAIN stack = 1 .. Len(stack)
  BY <1>1 DEF TypeOK
<1>3. ASSUME NEW n \in 1 .. Len(stack) - 1
      PROVE  FrameTells(stack'[n], image, rows', lost')
  <2>1. n \in DOMAIN stack /\ stack'[n] = stack[n]
    BY <1>1, <1>2
  <2> QED
    BY <2>1, TellsOn DEF FramesTell
<1>4. \A n \in DOMAIN stack' : n = Len(stack) \/ n \in 1 .. Len(stack) - 1
  BY <1>1, <1>2
<1> QED
  BY <1>1, <1>3, <1>4 DEF FramesTell

LEMMA CallTells ==
  ASSUME TypeOK, FramesOK, FramesTell, stack # <<>>,
         NEW f \in Frame, NEW c \in Frame, BecomeAndCall(f, c), image' = image,
         Grows(rows, rows', lost, lost'), FrameTells(f, image, rows', lost'),
         FrameTells(c, image, rows', lost')
  PROVE  FramesTell'
<1>1. /\ stack' \in Seq(Frame) /\ Len(stack') = Len(stack) + 1
      /\ Len(stack) \in Nat \ {0}
      /\ stack'[Len(stack) + 1] = c
      /\ stack'[Len(stack)] = f
      /\ \A n \in 1 .. Len(stack) - 1 : stack'[n] = stack[n]
  BY CallFacts DEF TypeOK
<1>2. DOMAIN stack' = 1 .. Len(stack) + 1 /\ DOMAIN stack = 1 .. Len(stack)
  BY <1>1 DEF TypeOK
<1>3. ASSUME NEW n \in 1 .. Len(stack) - 1
      PROVE  FrameTells(stack'[n], image, rows', lost')
  <2>1. n \in DOMAIN stack /\ stack'[n] = stack[n]
    BY <1>1, <1>2
  <2> QED
    BY <2>1, TellsOn DEF FramesTell
<1>4. \A n \in DOMAIN stack' :
        n = Len(stack) + 1 \/ n = Len(stack) \/ n \in 1 .. Len(stack) - 1
  BY <1>1, <1>2
<1> QED
  BY <1>1, <1>3, <1>4 DEF FramesTell

(* Of a caller, a return changes the place alone; one that was waiting for *)
(* a sub-tree only ends if its own result is not OK.                       *)
LEMMA MovedTells ==
  ASSUME NEW f \in Frame, NEW img, NEW out, NEW gone,
         FrameTells(f, img, out, gone), NEW place,
         \/ f.at = "child" /\ place = "end" /\ img[f.page].kind \in InteriorKinds
         \/ f.at = "subtree" /\ place = "cell"
         \/ f.at = "subtree" /\ place = "end" /\ f.rc # "OK"
  PROVE  FrameTells(Moved(f, place), img, out, gone)
<1> DEFINE g == Moved(f, place)
<1>1. /\ g.at = place /\ g.page = f.page /\ g.i = f.i /\ g.rc = f.rc
      /\ g.btree = f.btree
  BY DEF Moved, Frame
<1> HIDE DEF g
<1>2. place \in {"end", "cell"}
  OBVIOUS
<1>3. place = "cell" => f.at \in CellPlaces
  BY DEF CellPlaces
<1>4. img[f.page].kind \in InteriorKinds => img[f.page].kind # "leafTable"
  BY DEF InteriorKinds
<1>5. FrameTells(g, img, out, gone)
  BY <1>1, <1>2, <1>3, <1>4 DEF FrameTells, CellPlaces, OverflowPlaces
<1> QED
  BY <1>5 DEF g

LEMMA ReturnTells ==
  ASSUME TypeOK, FramesOK, FramesTell, stack # <<>>, NEW result, Return(result),
         image' = image, rows' = rows, lost' = lost
  PROVE  FramesTell'
<1>1. /\ stack' \in Seq(Frame) /\ Len(stack') = Len(stack) - 1
      /\ Len(stack) \in Nat \ {0}
      /\ \A n \in 1 .. Len(stack) - 1 :
              \/ stack'[n] = stack[n]
              \/ /\ stack[n].at = "child"
                 /\ stack'[n] = Moved(stack[n], "end")
              \/ /\ stack[n].at = "subtree"
                 /\ stack'[n] = Moved(stack[n], "cell")
              \/ /\ stack[n].at = "subtree" /\ stack[n].rc # "OK"
                 /\ stack'[n] = Moved(stack[n], "end")
  BY ReturnFacts DEF TypeOK
<1>2. DOMAIN stack' = 1 .. Len(stack) - 1 /\ DOMAIN stack = 1 .. Len(stack)
  BY <1>1 DEF TypeOK
<1>3. ASSUME NEW n \in 1 .. Len(stack) - 1
      PROVE  FrameTells(stack'[n], image, rows, lost)
  <2>1. n \in DOMAIN stack /\ stack[n] \in Frame
    BY <1>2, ElementOfSeq DEF TypeOK
  <2>2. FrameTells(stack[n], image, rows, lost) /\ FrameOK(stack[n], image, declined)
    BY <2>1 DEF FramesTell, FramesOK
  <2>3. stack[n].at = "child" => image[stack[n].page].kind \in InteriorKinds
    BY <2>2 DEF FrameOK
  <2> QED
    BY <1>1, <2>1, <2>2, <2>3, MovedTells
<1> QED
  BY <1>2, <1>3 DEF FramesTell

-----------------------------------------------------------------------------
(* The overflow chain of a cell, step by step.                             *)

(* The first page of the chain is at hand when the cell is begun.          *)
LEMMA ChainBegins ==
  ASSUME NEW f, NEW c \in Cell, NEW img, NEW gone,
         f.got = 0, f.next = c.chain, c.need > 0 => f.at # "column"
  PROVE  OnChain(f, c, img, gone)
<1>1. c.need \in Nat
  BY DEF Cell
<1> QED
  BY <1>1 DEF OnChain, IsChainOf

(* A call that leaves the chain early does so at a page that no readable   *)
(* chain has.                                                              *)
LEMMA ChainBreaks ==
  ASSUME NEW f, NEW g, NEW c \in Cell, NEW img, NEW gone, NEW gone2,
         gone \subseteq gone2, OnChain(f, c, img, gone), f.got \in Nat,
         g.got = f.got, f.next \notin Pages \ gone2
  PROVE  OnChain(g, c, img, gone2)
<1>1. c.need \in Nat
  BY DEF Cell
<1>2. ASSUME f.got < c.need, NEW s \in [1 .. c.need -> Pages \ gone2],
             IsChainOf(s, c, img)
      PROVE  FALSE
  <2>1. f.got + 1 \in 1 .. c.need
    BY <1>1, <1>2
  <2>2. s \in [1 .. c.need -> Pages \ gone] /\ s[f.got + 1] \in Pages \ gone2
    BY <1>2, <2>1
  <2>3. f.next = s[f.got + 1]
    BY <1>2, <2>2 DEF OnChain
  <2> QED
    BY <2>2, <2>3
<1> QED
  BY <1>2 DEF OnChain

(* A page that was read leads to the next one.                             *)
LEMMA ChainGoesOn ==
  ASSUME NEW f, NEW g, NEW c \in Cell, NEW img, NEW gone,
         OnChain(f, c, img, gone), f.got \in Nat,
         g.got = IF f.got < c.need THEN f.got + 1 ELSE f.got,
         g.next = img[f.next].link, g.at # "column"
  PROVE  OnChain(g, c, img, gone)
<1>1. c.need \in Nat
  BY DEF Cell
<1>2. f.got <= c.need
  BY DEF OnChain
<1>3. g.got <= c.need
  BY <1>1, <1>2
<1>4. ASSUME g.got < c.need, NEW s \in [1 .. c.need -> Pages \ gone],
             IsChainOf(s, c, img)
      PROVE  g.next = s[g.got + 1]
  <2>1. f.got < c.need /\ g.got = f.got + 1 /\ f.got + 1 \in 1 .. c.need - 1
    BY <1>1, <1>2, <1>4
  <2>2. f.next = s[f.got + 1]
    BY <1>4, <2>1 DEF OnChain
  <2>3. s[f.got + 1 + 1] = img[s[f.got + 1]].link
    BY <1>4, <2>1 DEF IsChainOf
  <2> QED
    BY <2>1, <2>2, <2>3
<1> QED
  BY <1>3, <1>4 DEF OnChain

-----------------------------------------------------------------------------
(* What the frames tell is kept by every step.                             *)

LEMMA SameGrows == Grows(rows, rows, lost, lost)
BY DEF Grows

LEMMA FailsGrows ==
  ASSUME NEW p, Fails(p), rows' = rows
  PROVE  Grows(rows, rows', lost, lost')
BY DEF Grows, Fails

LEMMA EndTells ==
  ASSUME NEW f \in Frame, NEW g, NEW img, NEW out, NEW gone,
         FrameTells(f, img, out, gone), g.at = "end", g.btree = f.btree,
         g.rc # "OK"
  PROVE  FrameTells(g, img, out, gone)
BY DEF FrameTells, CellPlaces, OverflowPlaces

LEMMA TellsStep ==
  ASSUME TypeOK, FramesOK, FramesTell, [Next]_vars
  PROVE  FramesTell'
<1> USE DEF input
<1>1. CASE SkipPage \/ OpenFails
  <2>1. stack = <<>> /\ stack' = stack
    BY <1>1 DEF SkipPage, OpenFails, NextRequest
  <2> QED
    BY <2>1 DEF FramesTell
<1>2. CASE OpenBtree
  <2> DEFINE b == IF Head(todo) = 1 THEN "master" ELSE "user"
  <2>1. stack' = <<Call(Head(todo), b)>> /\ Head(todo) \in Int
    BY <1>2, HeadTailProperties DEF OpenBtree, NextRequest, TypeOK
  <2>2. b \in Btrees /\ b # "system"
    BY DEF Btrees
  <2> HIDE DEF b
  <2>3. FrameTells(Call(Head(todo), b), image', rows', lost')
    BY <2>1, <2>2, NewCallTells
  <2> QED
    BY <2>1, <2>3 DEF FramesTell
<1>3. CASE BeginPage
  <2>1. /\ stack # <<>> /\ Top.at = "begin"
        /\ image' = image /\ rows' = rows /\ lost' = lost
    BY <1>3 DEF BeginPage, At
  <2>2. Top \in Frame /\ FrameTells(Top, image, rows, lost)
    BY <2>1, TopFacts, TopTells
  <2>3. CASE Return("MISUSE")
    BY <2>1, <2>3, ReturnTells
  <2>4. CASE Go("acquire", "OK")
    <3> DEFINE f == [Top EXCEPT !.at = "acquire", !.rc = "OK"]
    <3>1. /\ f \in Frame /\ f.at = "acquire" /\ f.i = Top.i
          /\ f.btree = Top.btree
      BY <2>2 DEF Frame, Places, Codes
    <3>2. Become(f)
      BY <2>4 DEF Go
    <3> HIDE DEF f
    <3>3. FrameTells(f, image, rows, lost)
      BY <2>1, <2>2, <3>1 DEF FrameTells, CellPlaces, OverflowPlaces
    <3> QED
      BY <2>1, <3>1, <3>2, <3>3, BecomeTells, SameGrows
  <2> QED
    BY <1>3, <2>3, <2>4 DEF BeginPage
<1>4. CASE AcquireFails \/ CellFails
  <2> DEFINE f == [Top EXCEPT !.at = "end", !.rc = "IOERR"]
  <2>1. /\ stack # <<>> /\ Become(f) /\ Fails(Top.page)
        /\ image' = image /\ rows' = rows
    BY <1>4 DEF AcquireFails, CellFails, At, Go
  <2>2. Top \in Frame /\ FrameTells(Top, image, rows, lost)
    BY <2>1, TopFacts, TopTells
  <2>3. f \in Frame /\ f.at = "end" /\ f.btree = Top.btree /\ f.rc # "OK"
    BY <2>2 DEF Frame, Places, Codes
  <2> HIDE DEF f
  <2>4. Grows(rows, rows', lost, lost')
    BY <2>1, FailsGrows
  <2>5. FrameTells(f, image, rows', lost')
    BY <2>2, <2>3, <2>4, TellsOn, EndTells
  <2> QED
    BY <2>1, <2>3, <2>4, <2>5, BecomeTells
<1>5. CASE AcquirePage
  <2>1. /\ stack # <<>> /\ Top.at = "acquire"
        /\ image' = image /\ rows' = rows /\ lost' = lost
    BY <1>5 DEF AcquirePage, At
  <2>2. Top \in Frame /\ FrameTells(Top, image, rows, lost)
    BY <2>1, TopFacts, TopTells
  <2>3. PICK place \in {"end", "child", "cell"}, code \in {"OK", "DAMAGED"} :
          /\ Go(place, code)
          /\ place = "end" /\ code = "OK"
               => Top.btree = "system" \/ image[Top.page].kind # "leafTable"
    BY <1>5 DEF AcquirePage
  <2> DEFINE f == [Top EXCEPT !.at = place, !.rc = code]
  <2>4. /\ f \in Frame /\ f.at = place /\ f.rc = code /\ f.i = Top.i
        /\ f.page = Top.page /\ f.btree = Top.btree
    BY <2>2, <2>3 DEF Frame, Places, Codes
  <2>5. Become(f)
    BY <2>3 DEF Go
  <2> HIDE DEF f
  <2>6. f.i = 1
    BY <2>1, <2>2, <2>4 DEF FrameTells
  <2>7. FrameTells(f, image, rows, lost)
    BY <2>2, <2>3, <2>4, <2>6 DEF FrameTells, CellPlaces, OverflowPlaces
  <2> QED
    BY <2>1, <2>4, <2>5, <2>7, BecomeTells, SameGrows
<1>6. CASE ParseChild
  <2>1. /\ stack # <<>> /\ Top.at = "child"
        /\ image' = image /\ rows' = rows /\ lost' = lost
    BY <1>6 DEF ParseChild, At
  <2>2. Top \in Frame /\ FrameTells(Top, image, rows, lost) /\ Top.page \in Pages
        /\ image[Top.page].kind # "leafTable"
    BY <2>1, TopFacts, TopTells DEF FrameOK, Active, InteriorKinds
  <2> DEFINE kids == ChildPointers(image, Top.page)
  <2>3. kids \in Seq(Int) /\ Top.i \in Nat \ {0} /\ Top.btree \in Btrees
    BY <2>2, ImageFacts DEF Frame
  <2> HIDE DEF kids
  <2>4. CASE Top.i > Len(kids)
    <3> DEFINE f == [Top EXCEPT !.at = "end", !.rc = "OK"]
    <3>1. Become(f)
      BY <1>6, <2>4 DEF ParseChild, Go, kids
    <3>2. /\ f \in Frame /\ f.page = Top.page /\ f.at = "end"
          /\ f.btree = Top.btree
      BY <2>2 DEF Frame, Places, Codes
    <3> HIDE DEF f
    <3>3. FrameTells(f, image, rows, lost)
      BY <2>2, <3>2 DEF FrameTells, CellPlaces, OverflowPlaces
    <3> QED
      BY <2>1, <3>1, <3>2, <3>3, BecomeTells, SameGrows
  <2>5. CASE ~ (Top.i > Len(kids))
    <3> DEFINE f == [Top EXCEPT !.i = @ + 1]
               c == Call(kids[Top.i], Top.btree)
    <3>1. Top.i \in 1 .. Len(kids) /\ Top.i + 1 \in Nat \ {0}
      BY <2>3, <2>5, LenProperties
    <3>2. kids[Top.i] \in Int
      BY <2>3, <3>1, ElementOfSeq
    <3>3. BecomeAndCall(f, c)
      BY <1>6, <2>5 DEF ParseChild, kids
    <3>4. c \in Frame /\ FrameTells(c, image, rows, lost)
      BY <2>2, <2>3, <3>2, CallIsFrame, NewCallTells DEF FrameTells
    <3>5. f \in Frame /\ f.at = "child" /\ f.btree = Top.btree
      BY <2>1, <2>2, <3>1 DEF Frame
    <3> HIDE DEF f, c
    <3>6. FrameTells(f, image, rows, lost)
      BY <2>2, <3>5 DEF FrameTells, CellPlaces, OverflowPlaces
    <3> QED
      BY <2>1, <3>3, <3>4, <3>5, <3>6, CallTells, SameGrows
  <2> QED
    BY <2>4, <2>5
<1>7. CASE ParseCell
  <2>1. /\ stack # <<>> /\ Top.at = "cell"
        /\ image' = image /\ rows' = rows /\ lost' = lost
    BY <1>7 DEF ParseCell, At
  <2>2. /\ Top \in Frame /\ FrameTells(Top, image, rows, lost)
        /\ Top.page \in Pages /\ image[Top.page].kind = "leafTable"
    BY <2>1, TopFacts, TopTells DEF FrameOK, Active
  <2>3. image[Top.page].cells \in Seq(Cell) /\ Top.i \in Nat \ {0}
    BY <2>2, ImageFacts DEF Frame
  <2>4. \A k \in 1 .. Top.i - 1 : HasRow(rows, Top.page, k)
    BY <2>1, <2>2 DEF FrameTells, CellPlaces
  <2>5. CASE Top.i > Len(image[Top.page].cells)
    <3> DEFINE f == [Top EXCEPT !.at = "end", !.rc = "OK"]
    <3>1. Become(f)
      BY <1>7, <2>5 DEF ParseCell, Go
    <3>2. /\ f \in Frame /\ f.page = Top.page /\ f.at = "end"
          /\ f.btree = Top.btree
      BY <2>2 DEF Frame, Places, Codes
    <3> HIDE DEF f
    <3>3. \A k \in DOMAIN image[Top.page].cells : HasRow(rows, Top.page, k)
      BY <2>3, <2>4, <2>5, LenProperties
    <3>4. FrameTells(f, image, rows, lost)
      BY <2>2, <3>2, <3>3 DEF FrameTells, CellPlaces, OverflowPlaces
    <3> QED
      BY <2>1, <3>1, <3>2, <3>4, BecomeTells, SameGrows
  <2>6. CASE ~ (Top.i > Len(image[Top.page].cells))
    <3> DEFINE place == IF CellNow.need > 0 THEN "overflow" ELSE "column"
               f == [Top EXCEPT !.at = place, !.next = CellNow.chain,
                                !.got = 0, !.chain = {}]
    <3>1. Become(f)
      BY <1>7, <2>6 DEF ParseCell
    <3>2. Top.i \in DOMAIN image[Top.page].cells
      BY <2>3, <2>6, LenProperties
    <3>3. /\ CellNow \in Cell
          /\ ChainsApart(image) => ~ IsBtree(image, CellNow.chain)
      BY <2>2, <3>2, ImageFacts DEF CellNow, ChainsApart
    <3>4. place \in {"overflow", "column"} /\ CellNow.chain \in Int
          /\ (CellNow.need > 0 => place # "column")
      BY <3>3 DEF Cell
    <3> HIDE DEF place
    <3>5. /\ f \in Frame /\ f.page = Top.page /\ f.at = place
          /\ f.next = CellNow.chain /\ f.got = 0 /\ f.i = Top.i
          /\ f.btree = Top.btree
      BY <2>2, <3>4 DEF Frame, Places
    <3> HIDE DEF f
    <3>6. OnChain(f, image[f.page].cells[f.i], image, lost)
      BY <3>3, <3>4, <3>5, ChainBegins DEF CellNow
    <3>7. FrameTells(f, image, rows, lost)
      BY <2>2, <2>4, <3>3, <3>4, <3>5, <3>6 DEF FrameTells, CellPlaces, OverflowPlaces
    <3> QED
      BY <2>1, <3>1, <3>5, <3>7, BecomeTells, SameGrows
  <2> QED
    BY <2>5, <2>6
<1>8. CASE OverflowBegin
  <2>1. /\ stack # <<>> /\ Top.at = "overflow"
        /\ image' = image /\ rows' = rows /\ lost' = lost
    BY <1>8 DEF OverflowBegin, At
  <2>2. /\ Top \in Frame /\ FrameTells(Top, image, rows, lost)
        /\ Top.page \in Pages /\ Top.i \in DOMAIN image[Top.page].cells
    BY <2>1, TopFacts, TopTells DEF FrameOK, Active
  <2>3. CellNow \in Cell /\ Top.got \in Nat
    BY <2>2, ImageFacts DEF CellNow, Frame
  <2>4. /\ OnChain(Top, CellNow, image, lost)
        /\ \A k \in 1 .. Top.i - 1 : HasRow(rows, Top.page, k)
        /\ ChainsApart(image) => ~ IsBtree(image, Top.next)
    BY <2>1, <2>2 DEF FrameTells, CellPlaces, OverflowPlaces, CellNow
  <2>5. CASE Top.next \in Pages
    <3> DEFINE f == [Top EXCEPT !.at = "overflowRead",
                                !.chain = @ \cup {Top.next}]
    <3>1. Become(f)
      BY <1>8, <2>5 DEF OverflowBegin
    <3>2. /\ f \in Frame /\ f.page = Top.page /\ f.at = "overflowRead"
          /\ f.next = Top.next /\ f.got = Top.got /\ f.i = Top.i
          /\ f.btree = Top.btree
      BY <2>2, <2>5 DEF Frame, Places
    <3> HIDE DEF f
    <3>3. OnChain(f, CellNow, image, lost)
      BY <2>4, <3>2 DEF OnChain
    <3>4. FrameTells(f, image, rows, lost)
      BY <2>2, <2>4, <3>2, <3>3 DEF FrameTells, CellPlaces, OverflowPlaces, CellNow
    <3> QED
      BY <2>1, <3>1, <3>2, <3>4, BecomeTells, SameGrows
  <2>6. CASE Top.next \notin Pages
    <3> DEFINE f == [Top EXCEPT !.at = "column", !.rc = "OK"]
    <3>1. Become(f)
      BY <1>8, <2>6 DEF OverflowBegin, Go
    <3>2. /\ f \in Frame /\ f.page = Top.page /\ f.at = "column"
          /\ f.got = Top.got /\ f.i = Top.i /\ f.btree = Top.btree
      BY <2>2 DEF Frame, Places, Codes
    <3> HIDE DEF f
    <3>3. OnChain(f, CellNow, image, lost)
      BY <2>3, <2>4, <2>6, <3>2, ChainBreaks
    <3>4. FrameTells(f, image, rows, lost)
      BY <2>2, <2>4, <3>2, <3>3 DEF FrameTells, CellPlaces, OverflowPlaces, CellNow
    <3> QED
      BY <2>1, <3>1, <3>2, <3>4, BecomeTells, SameGrows
  <2> QED
    BY <2>5, <2>6
<1>9. CASE OverflowFails
  <2> DEFINE f == [Top EXCEPT !.at = "column", !.rc = "OK"]
  <2>1. /\ stack # <<>> /\ Top.at = "overflowRead" /\ Become(f)
        /\ image' = image /\ rows' = rows /\ Fails(Top.next)
    BY <1>9 DEF OverflowFails, At, Go
  <2>2. /\ Top \in Frame /\ FrameTells(Top, image, rows, lost)
        /\ Top.page \in Pages /\ Top.i \in DOMAIN image[Top.page].cells
    BY <2>1, TopFacts, TopTells DEF FrameOK, Active
  <2>3. CellNow \in Cell /\ Top.got \in Nat
    BY <2>2, ImageFacts DEF CellNow, Frame
  <2>4. /\ f \in Frame /\ f.page = Top.page /\ f.at = "column"
        /\ f.got = Top.got /\ f.i = Top.i /\ f.btree = Top.btree
    BY <2>2 DEF Frame, Places, Codes
  <2> HIDE DEF f
  <2>5. /\ OnChain(Top, CellNow, image, lost)
        /\ \A k \in 1 .. Top.i - 1 : HasRow(rows, Top.page, k)
    BY <2>1, <2>2 DEF FrameTells, CellPlaces, OverflowPlaces, CellNow
  <2>6. lost \subseteq lost' /\ Top.next \notin Pages \ lost'
    BY <2>1 DEF Fails
  <2>7. OnChain(f, CellNow, image, lost')
    BY <2>3, <2>4, <2>5, <2>6, ChainBreaks
  <2>8. FrameTells(f, image, rows, lost')
    BY <2>2, <2>4, <2>5, <2>7 DEF FrameTells, CellPlaces, OverflowPlaces, CellNow
  <2>9. Grows(rows, rows', lost, lost')
    BY <2>1, FailsGrows
  <2> QED
    BY <2>1, <2>4, <2>8, <2>9, BecomeTells
<1>10. CASE OverflowRead
  <2> DEFINE got == IF Top.got < CellNow.need THEN Top.got + 1 ELSE Top.got
             f == [Top EXCEPT !.at = "overflow", !.got = got,
                              !.next = image[Top.next].link]
  <2>1. /\ stack # <<>> /\ Top.at = "overflowRead" /\ Become(f)
        /\ image' = image /\ rows' = rows /\ lost' = lost
    BY <1>10 DEF OverflowRead, At
  <2>2. /\ Top \in Frame /\ FrameTells(Top, image, rows, lost)
        /\ Top.page \in Pages /\ Top.i \in DOMAIN image[Top.page].cells
        /\ Top.next \in Pages
    BY <2>1, TopFacts, TopTells DEF FrameOK, Active
  <2>3. CellNow \in Cell /\ Top.got \in Nat /\ image[Top.next].link \in Int
    BY <2>2, ImageFacts DEF CellNow, Frame
  <2>4. got \in Nat
    BY <2>3
  <2>5. got = IF Top.got < CellNow.need THEN Top.got + 1 ELSE Top.got
    OBVIOUS
  <2> HIDE DEF got
  <2>6. /\ f \in Frame /\ f.page = Top.page /\ f.at = "overflow"
        /\ f.got = got /\ f.next = image[Top.next].link /\ f.i = Top.i
        /\ f.btree = Top.btree
    BY <2>2, <2>3, <2>4 DEF Frame, Places
  <2> HIDE DEF f
  <2>7. /\ OnChain(Top, CellNow, image, lost)
        /\ \A k \in 1 .. Top.i - 1 : HasRow(rows, Top.page, k)
        /\ ChainsApart(image) => ~ IsBtree(image, Top.next)
    BY <2>1, <2>2 DEF FrameTells, CellPlaces, OverflowPlaces, CellNow
  <2>8. OnChain(f, CellNow, image, lost)
    BY <2>3, <2>5, <2>6, <2>7, ChainGoesOn
  <2>9. ChainsApart(image) => ~ IsBtree(image, f.next)
    BY <2>2, <2>6, <2>7 DEF ChainsApart
  <2>10. FrameTells(f, image, rows, lost)
    BY <2>2, <2>6, <2>7, <2>8, <2>9 DEF FrameTells, CellPlaces, OverflowPlaces, CellNow
  <2> QED
    BY <2>1, <2>6, <2>10, BecomeTells, SameGrows
<1>11. CASE DecodeFails
  <2>1. /\ stack # <<>> /\ Top.at = "column"
        /\ image' = image /\ rows' = rows
    BY <1>11 DEF DecodeFails, At
  <2>2. /\ Top \in Frame /\ FrameTells(Top, image, rows, lost)
        /\ Top.page \in Pages /\ Top.i \in DOMAIN image[Top.page].cells
    BY <2>1, TopFacts, TopTells DEF FrameOK, Active
  <2>3. CellNow.decode \in {"OK", "MISUSE", "DAMAGED"}
    BY <2>2, ImageFacts DEF CellNow, Cell
  <2>4. PICK code \in {"MISUSE", "DAMAGED", "IOERR"} : Go("end", code)
    BY <1>11, <2>3 DEF DecodeFails
  <2>5. Grows(rows, rows', lost, lost')
    BY <1>11, <2>1, SameGrows, FailsGrows DEF DecodeFails
  <2> DEFINE f == [Top EXCEPT !.at = "end", !.rc = code]
  <2>6. f \in Frame /\ f.at = "end" /\ f.btree = Top.btree /\ f.rc # "OK"
    BY <2>2, <2>4 DEF Frame, Places, Codes
  <2>7. Become(f)
    BY <2>4 DEF Go
  <2> HIDE DEF f
  <2>8. FrameTells(f, image, rows', lost')
    BY <2>2, <2>5, <2>6, TellsOn, EndTells
  <2> QED
    BY <2>1, <2>5, <2>6, <2>7, <2>8, BecomeTells
<1>12. ASSUME NEW answer \in Answers, Deliver(answer)
       PROVE  FramesTell'
  <2>1. stack # <<>> /\ Top.at = "column" /\ image' = image
    BY <1>12 DEF Deliver, At
  <2>2. /\ Top \in Frame /\ FrameTells(Top, image, rows, lost)
        /\ Top.page \in Pages /\ Top.i \in DOMAIN image[Top.page].cells
    BY <2>1, TopFacts, TopTells DEF FrameOK, Active
  <2>3. CellNow \in Cell /\ Top.i \in Nat \ {0} /\ answer \in Codes
    BY <1>12, <2>2, ImageFacts, BtreeParseAssumption DEF CellNow, Frame
  <2> DEFINE r == [page |-> Top.page, i |-> Top.i, whole |-> Whole]
  <2>4. r \in RowRec /\ rows' = Append(rows, r)
    BY <1>12, <2>2, <2>3 DEF Deliver, RowRec, Whole
  <2>5. r.page = Top.page /\ r.i = Top.i /\ rows \in Seq(RowRec)
    BY DEF TypeOK, RowRec
  <2> HIDE DEF r
  <2>6. /\ HasRow(rows', Top.page, Top.i)
        /\ \A p, k : HasRow(rows, p, k) => HasRow(rows', p, k)
    BY <2>4, <2>5, RowsGrow
  <2>7. lost \subseteq lost'
    BY <1>12 DEF Deliver, Fails
  <2>8. Grows(rows, rows', lost, lost')
    BY <2>6, <2>7 DEF Grows
  <2>9. \A k \in 1 .. Top.i : HasRow(rows', Top.page, k)
    <3>1. \A k \in 1 .. Top.i - 1 : HasRow(rows, Top.page, k)
      BY <2>1, <2>2 DEF FrameTells, CellPlaces
    <3>2. \A k \in 1 .. Top.i : k = Top.i \/ k \in 1 .. Top.i - 1
      BY <2>3
    <3> QED
      BY <2>6, <3>1, <3>2
  <2> DEFINE goOn(place) == [Top EXCEPT !.at = place, !.rc = answer, !.i = @ + 1]
             next == goOn(IF answer = "OK" THEN "cell" ELSE "end")
             c == Call(CellNow.root, SubtreeType(CellNow))
  <2>10. PICK j \in Nat \ {0} : j = Top.i + 1
    BY <2>3
  <2>11. \A place \in {"cell", "end", "subtree"} :
           /\ goOn(place) \in Frame /\ goOn(place).page = Top.page
           /\ goOn(place).at = place /\ goOn(place).rc = answer
           /\ goOn(place).i = j /\ goOn(place).btree = Top.btree
    BY <2>2, <2>3, <2>10 DEF Frame, Places
  <2>12. \/ BecomeAndCall(goOn("subtree"), c)
         \/ Become(next)
    BY <1>12 DEF Deliver, OpensSubtree
  <2>13. (IF answer = "OK" THEN "cell" ELSE "end") \in {"cell", "end", "subtree"}
    OBVIOUS
  <2>14. next \in Frame
    BY <2>11, <2>13
  <2>15. \A k \in 1 .. j - 1 : HasRow(rows', Top.page, k)
    BY <2>3, <2>9, <2>10
  <2>16. NoSystemTables(image) => Top.btree # "system"
    BY <2>2 DEF FrameTells
  <2> HIDE DEF goOn
  <2>17. FrameTells(goOn("cell"), image, rows', lost')
    BY <2>11, <2>15, <2>16 DEF FrameTells, CellPlaces, OverflowPlaces
  <2>18. FrameTells(goOn("subtree"), image, rows', lost')
    BY <2>11, <2>15, <2>16 DEF FrameTells, CellPlaces, OverflowPlaces
  <2>19. answer # "OK" => FrameTells(goOn("end"), image, rows', lost')
    BY <2>11, <2>16 DEF FrameTells, CellPlaces, OverflowPlaces
  <2>20. FrameTells(next, image, rows', lost')
    BY <2>17, <2>19
  <2>21. c \in Frame /\ FrameTells(c, image, rows', lost')
    <3>1. CellNow.root \in Int /\ SubtreeType(CellNow) \in Btrees
      BY <2>3 DEF Cell, SubtreeType, Btrees
    <3>2. NoSystemTables(image) => SubtreeType(CellNow) # "system"
      BY <2>2 DEF NoSystemTables, CellNow, SubtreeType
    <3> QED
      BY <3>1, <3>2, CallIsFrame, NewCallTells
  <2> HIDE DEF next, c
  <2>22. CASE Become(next)
    BY <2>1, <2>8, <2>14, <2>20, <2>22, BecomeTells
  <2>23. CASE BecomeAndCall(goOn("subtree"), c)
    BY <2>1, <2>8, <2>11, <2>18, <2>21, <2>23, CallTells
  <2> QED
    BY <2>12, <2>22, <2>23
<1>13. CASE EndPage
  BY <1>13, ReturnTells DEF EndPage, At
<1>14. CASE UNCHANGED vars
  BY <1>14 DEF vars, FramesTell
<1> QED
  BY <1>1, <1>2, <1>3, <1>4, <1>5, <1>6, <1>7, <1>8, <1>9, <1>10, <1>11,
     <1>12, <1>13, <1>14 DEF Next, Step, Traverse, Finished

-----------------------------------------------------------------------------
(* What a step does to the rows, the marks and the image.                  *)

LEMMA ImageStays ==
  ASSUME [Next]_vars
  PROVE  image' = image /\ requested' = requested
BY DEF Next, Step, Traverse, Finished, vars, input, SkipPage, OpenFails, OpenBtree,
       BeginPage, AcquireFails, AcquirePage, ParseChild, CellFails, ParseCell,
       OverflowBegin, OverflowFails, OverflowRead, DecodeFails, Deliver, EndPage

(* Only the callback gets rows, from a call whose payload is read.         *)
LEMMA RowsStep ==
  ASSUME TypeOK, FramesOK, [Next]_vars
  PROVE  /\ lost \subseteq lost'
         /\ \/ rows' = rows
            \/ /\ stack # <<>> /\ Top.at = "column"
               /\ \E r \in RowRec : /\ rows' = Append(rows, r)
                                    /\ r.page = Top.page /\ r.i = Top.i
                                    /\ r.whole = (Top.got = CellNow.need)
<1>1. CASE \E answer \in Answers : Deliver(answer)
  <2>1. PICK answer \in Answers : Deliver(answer)
    BY <1>1
  <2> DEFINE r == [page |-> Top.page, i |-> Top.i, whole |-> Whole]
  <2>2. /\ stack # <<>> /\ Top.at = "column" /\ rows' = Append(rows, r)
        /\ lost \subseteq lost'
    BY <2>1 DEF Deliver, At, Fails
  <2>3. Top.page \in Pages /\ Top.i \in Nat \ {0}
    BY <2>2, TopFacts DEF FrameOK, Active, Frame
  <2>4. Whole \in BOOLEAN
    BY DEF Whole
  <2>5. r \in RowRec /\ r.page = Top.page /\ r.i = Top.i /\ r.whole = Whole
    BY <2>3, <2>4 DEF RowRec
  <2> HIDE DEF r
  <2> QED
    BY <2>2, <2>5 DEF Whole
<1>2. CASE Traverse \/ Finished \/ UNCHANGED vars
  <2>1. rows' = rows
    BY <1>2 DEF Traverse, Finished, vars, SkipPage, OpenFails, OpenBtree,
       BeginPage, AcquireFails, AcquirePage, ParseChild, CellFails, ParseCell,
       OverflowBegin, OverflowFails, OverflowRead, DecodeFails, EndPage
  <2>2. lost \subseteq lost'
    BY <1>2 DEF Traverse, Finished, vars, SkipPage, OpenFails, OpenBtree,
       BeginPage, AcquireFails, AcquirePage, ParseChild, CellFails, ParseCell,
       OverflowBegin, OverflowFails, OverflowRead, DecodeFails, EndPage, Fails
  <2> QED
    BY <2>1, <2>2
<1> QED
  BY <1>1, <1>2 DEF Next, Step

(* A page becomes "checked" as an overflow page that was read, or at the   *)
(* good end of its own call.                                               *)
LEMMA CheckedStep ==
  ASSUME TypeOK, FramesOK, [Next]_vars, NEW p \in Pages, status'[p] = "checked"
  PROVE  \/ status[p] = "checked"
         \/ stack # <<>> /\ Top.at = "overflowRead" /\ p = Top.next
         \/ stack # <<>> /\ Top.at = "end" /\ Top.rc = "OK" /\ p = Top.page
<1>1. CASE SkipPage \/ OpenFails \/ OpenBtree \/ AcquireFails \/ AcquirePage
           \/ ParseChild \/ CellFails \/ ParseCell \/ DecodeFails \/ Finished
           \/ UNCHANGED vars
  BY <1>1 DEF SkipPage, OpenFails, OpenBtree, AcquireFails, AcquirePage,
     ParseChild, CellFails, ParseCell, DecodeFails, Finished, vars
<1>2. CASE BeginPage \/ OverflowBegin \/ OverflowFails
  BY <1>2 DEF BeginPage, OverflowBegin, OverflowFails, SetStatus
<1>3. CASE OverflowRead
  BY <1>3 DEF OverflowRead, At, SetStatus
<1>4. CASE \E answer \in Answers : Deliver(answer)
  <2>1. status' = status \/ SetStatus({Top.page} \cup Top.chain, "discarded")
    BY <1>4 DEF Deliver
  <2> QED
    BY <2>1 DEF SetStatus
<1>5. CASE EndPage
  BY <1>5 DEF EndPage, At, SetStatus
<1> QED
  BY <1>1, <1>2, <1>3, <1>4, <1>5 DEF Next, Step, Traverse

(* The rows that are out stay out.                                         *)
LEMMA RowsStayOut ==
  ASSUME TypeOK, FramesOK, [Next]_vars
  PROVE  \A p, k : HasRow(rows, p, k) => HasRow(rows', p, k)
<1>1. CASE rows' = rows
  BY <1>1
<1>2. ASSUME NEW r \in RowRec, rows' = Append(rows, r)
      PROVE  \A p, k : HasRow(rows, p, k) => HasRow(rows', p, k)
  BY <1>2, RowsGrow DEF TypeOK, RowRec
<1> QED
  BY <1>1, <1>2, RowsStep

LEMMA CheckedLeafStep ==
  ASSUME TypeOK, FramesOK, FramesTell, CheckedLeafIsComplete, [Next]_vars
  PROVE  CheckedLeafIsComplete'
<1>1. image' = image
  BY ImageStays
<1> SUFFICES ASSUME ChainsApart(image), NoSystemTables(image),
                    NEW p \in Pages, image[p].kind = "leafTable",
                    status'[p] = "checked", NEW k \in DOMAIN image[p].cells
             PROVE  HasRow(rows', p, k)
  BY <1>1 DEF CheckedLeafIsComplete, HasRow
<1>2. CASE status[p] = "checked"
  <2>1. HasRow(rows, p, k)
    BY <1>2 DEF CheckedLeafIsComplete, HasRow
  <2> QED
    BY <2>1, RowsStayOut
<1>3. CASE stack # <<>> /\ Top.at = "overflowRead" /\ p = Top.next
  <2>1. ~ IsBtree(image, p)
    BY <1>3, TopTells DEF FrameTells, OverflowPlaces
  <2> QED
    BY <2>1 DEF IsBtree, BtreeKinds
<1>4. CASE stack # <<>> /\ Top.at = "end" /\ Top.rc = "OK" /\ p = Top.page
  <2>1. HasRow(rows, p, k)
    BY <1>4, TopTells DEF FrameTells
  <2> QED
    BY <2>1, RowsStayOut
<1> QED
  BY <1>2, <1>3, <1>4, CheckedStep

LEMMA TailsStep ==
  ASSUME TypeOK, FramesOK, FramesTell, TailsAreTrue, [Next]_vars
  PROVE  TailsAreTrue'
<1>1. image' = image /\ lost \subseteq lost' /\ rows \in Seq(RowRec)
  BY ImageStays, RowsStep DEF TypeOK, RowRec
<1>2. ASSUME NEW c, \E s \in [1 .. c.need -> Pages \ lost'] : IsChainOf(s, c, image)
      PROVE  ChainReadable(c)
  <2>1. PICK s \in [1 .. c.need -> Pages \ lost'] : IsChainOf(s, c, image)
    BY <1>2
  <2>2. s \in [1 .. c.need -> Pages \ lost]
    BY <1>1, <2>1
  <2> QED
    BY <2>1, <2>2 DEF ChainReadable
<1> DEFINE cell(m) == image[rows'[m].page].cells[rows'[m].i]
<1> SUFFICES ASSUME NEW n \in DOMAIN rows',
                    \E s \in [1 .. cell(n).need -> Pages \ lost'] :
                      IsChainOf(s, cell(n), image)
             PROVE  rows'[n].whole
  BY <1>1 DEF TailsAreTrue, ChainReadable
<1> DEFINE c == cell(n)
<1>3. ChainReadable(c)
  BY <1>2
<1>4. CASE rows' = rows
  BY <1>3, <1>4 DEF TailsAreTrue
<1>5. ASSUME stack # <<>>, Top.at = "column", NEW r \in RowRec,
             rows' = Append(rows, r), r.page = Top.page, r.i = Top.i,
             r.whole = (Top.got = CellNow.need)
      PROVE  rows'[n].whole
  <2>1. \/ rows'[n] = r
        \/ n \in DOMAIN rows /\ rows'[n] = rows[n]
    <3>1. \A m \in DOMAIN Append(rows, r) :
            \/ Append(rows, r)[m] = r
            \/ m \in DOMAIN rows /\ Append(rows, r)[m] = rows[m]
      BY <1>1, RowsGrow
    <3> QED
      BY <1>5, <3>1
  <2>2. CASE n \in DOMAIN rows /\ rows'[n] = rows[n]
    BY <1>3, <2>2 DEF TailsAreTrue
  <2>3. CASE rows'[n] = r
    <3>1. c = CellNow
      BY <1>5, <2>3 DEF CellNow
    <3>2. CellNow \in Cell /\ Top.got \in Nat
      BY <1>5, TopFacts, ImageFacts DEF CellNow, FrameOK, Frame, Active
    <3>3. OnChain(Top, CellNow, image, lost)
      BY <1>5, TopTells DEF FrameTells, CellNow
    <3>4. ~ (Top.got < CellNow.need) /\ Top.got <= CellNow.need
      BY <1>3, <1>5, <3>1, <3>3 DEF OnChain, ChainReadable
    <3>5. Top.got = CellNow.need
      BY <3>2, <3>4 DEF Cell
    <3> QED
      BY <1>5, <2>3, <3>5
  <2> QED
    BY <2>1, <2>2, <2>3
<1> QED
  BY <1>4, <1>5, RowsStep

-----------------------------------------------------------------------------
(* The two theorems share an inductive invariant.                          *)
RowsInv == /\ TypeOK /\ FramesOK /\ FramesTell
           /\ CheckedLeafIsComplete /\ TailsAreTrue

LEMMA RowsInvInductive ==
  /\ Init => RowsInv
  /\ RowsInv /\ [Next]_vars => RowsInv'
<1>1. ASSUME Init PROVE RowsInv
  <2>1. /\ rows = <<>> /\ stack = <<>>
        /\ \A p \in Pages : status[p] = "unchecked"
    BY <1>1 DEF Init
  <2> QED
    BY <1>1, <2>1, InitialState DEF RowsInv, FramesTell, CheckedLeafIsComplete,
       TailsAreTrue
<1>2. ASSUME RowsInv, [Next]_vars PROVE RowsInv'
  BY <1>2, TypeStep, TellsStep, CheckedLeafStep, TailsStep DEF RowsInv
<1> QED
  BY <1>1, <1>2

(* Every cell of a table leaf that the parser has marked "checked" has     *)
(* been passed to the callback, on every image whose overflow chains keep  *)
(* apart from the trees, whatever fails and however often the leaf is      *)
(* visited: what the progress count reports as parsed is out.              *)
THEOREM CheckedLeavesAreComplete == Spec => []CheckedLeafIsComplete
<1>1. RowsInv => CheckedLeafIsComplete
  BY DEF RowsInv
<1> QED
  BY <1>1, RowsInvInductive, PTL DEF Spec

(* On every image, cyclic overflow chains included, a row is delivered     *)
(* with a tail of zeros only if the chain of its own payload leaves the    *)
(* file or has a page that could not be read.                              *)
THEOREM TailsAlwaysTrue == Spec => []TailsAreTrue
<1>1. RowsInv => TailsAreTrue
  BY DEF RowsInv
<1> QED
  BY <1>1, RowsInvInductive, PTL DEF Spec

-----------------------------------------------------------------------------
(* Recursion over numbers.                                                 *)

Less == {ss \in Nat \X Nat : ss[1] < ss[2]}

LEMMA LeastOne ==
  ASSUME NEW S \in SUBSET Nat, S # {}
  PROVE  \E n \in S : \A m \in S : n <= m
<1>1. IsWellFoundedOn(Less, Nat)
  BY NatLessThanWellFounded DEF OpToRel, Less
<1>2. PICK n \in S : \A m \in S : <<m, n>> \notin Less
  BY <1>1, WFMin
<1>3. ASSUME NEW m \in Nat, <<m, n>> \notin Less
      PROVE  n <= m
  BY <1>3 DEF Less
<1> QED
  BY <1>2, <1>3

(* f starts with a and goes on by step, up to n.                           *)
Iterates(f, a, step, S, n) ==
  /\ f \in [0 .. n -> S] /\ f[0] = a
  /\ \A j \in 1 .. n : f[j] = step[j][f[j - 1]]

LEMMA Iteration ==
  ASSUME NEW N \in Nat, NEW S, NEW a \in S, NEW step \in [1 .. N -> [S -> S]]
  PROVE  \E f : Iterates(f, a, step, S, N)
<1> DEFINE C == {n \in 0 .. N : ~ \E f : Iterates(f, a, step, S, n)}
<1>1. SUFFICES ASSUME C # {} PROVE FALSE
  OBVIOUS
<1>2. PICK n \in C : \A m \in C : n <= m
  <2>1. C \in SUBSET Nat
    OBVIOUS
  <2> HIDE DEF C
  <2> QED
    BY <1>1, <2>1, LeastOne
<1>3. n \in 0 .. N /\ ~ \E f : Iterates(f, a, step, S, n)
  BY <1>2
<1>4. CASE n = 0
  <2> DEFINE f == [j \in 0 .. 0 |-> a]
  <2>1. Iterates(f, a, step, S, 0)
    BY DEF Iterates
  <2> QED
    BY <1>3, <1>4, <2>1
<1>5. CASE n # 0
  <2>1. n - 1 \in 0 .. N /\ ~ (n <= n - 1) /\ n \in 1 .. N /\ n \in Nat
    BY <1>3, <1>5
  <2>2. n - 1 \notin C
    BY <1>2, <2>1
  <2>3. PICK old : Iterates(old, a, step, S, n - 1)
    BY <2>1, <2>2
  <2>4. old \in [0 .. n - 1 -> S] /\ n - 1 \in 0 .. n - 1 /\ 0 \in 0 .. n - 1
    BY <2>1, <2>3 DEF Iterates
  <2>5. PICK last \in S : last = step[n][old[n - 1]]
    BY <2>1, <2>4
  <2> DEFINE f == [j \in 0 .. n |-> IF j = n THEN last ELSE old[j]]
  <2>6. \A j \in 0 .. n - 1 : f[j] = old[j] /\ old[j] \in S
    BY <2>1, <2>4
  <2>7. f[n] = last /\ f[0] = a
    BY <2>1, <2>3, <2>4, <2>6 DEF Iterates
  <2>8. f \in [0 .. n -> S]
    <3>1. \A j \in 0 .. n : j = n \/ j \in 0 .. n - 1
      BY <2>1
    <3> QED
      BY <2>5, <2>6, <3>1
  <2> HIDE DEF f
  <2>9. ASSUME NEW j \in 1 .. n
        PROVE  f[j] = step[j][f[j - 1]]
    <3>1. CASE j = n
      BY <2>1, <2>4, <2>5, <2>6, <2>7, <3>1
    <3>2. CASE j # n
      <4>1. j \in 1 .. n - 1 /\ j - 1 \in 0 .. n - 1 /\ j \in 0 .. n - 1
        BY <2>1, <3>2
      <4> QED
        BY <2>3, <2>6, <4>1 DEF Iterates
    <3> QED
      BY <3>1, <3>2
  <2> QED
    BY <1>3, <2>7, <2>8, <2>9 DEF Iterates
<1> QED
  BY <1>4, <1>5

(* A property of numbers, given as the set of those that have it.          *)
LEMMA Induct ==
  ASSUME NEW N \in Nat, NEW S, 0 \in S, \A n \in 1 .. N : n - 1 \in S => n \in S
  PROVE  0 .. N \subseteq S
<1> DEFINE C == {n \in 0 .. N : n \notin S}
<1>1. SUFFICES ASSUME C # {} PROVE FALSE
  OBVIOUS
<1>2. PICK n \in C : \A m \in C : n <= m
  <2>1. C \in SUBSET Nat
    OBVIOUS
  <2> HIDE DEF C
  <2> QED
    BY <1>1, <2>1, LeastOne
<1>3. n \in 0 .. N /\ n \notin S /\ n # 0
  BY <1>2
<1>4. n - 1 \in 0 .. N /\ ~ (n <= n - 1) /\ n \in 1 .. N
  BY <1>3
<1>5. n - 1 \in S
  BY <1>2, <1>4
<1> QED
  BY <1>3, <1>4, <1>5

-----------------------------------------------------------------------------
(* A sequence of sequences, added up.                                      *)

LEMMA FunctionIsSeq ==
  ASSUME NEW n \in Nat, NEW S, NEW f \in [1 .. n -> S]
  PROVE  f \in Seq(S) /\ Len(f) = n
<1>1. f \in Seq(S)
  BY SeqDef
<1>2. DOMAIN f = 1 .. n /\ DOMAIN f = 1 .. Len(f) /\ Len(f) \in Nat
  BY <1>1, LenProperties
<1> QED
  BY <1>1, <1>2

(* What the sequences of q add up to, from the left.                       *)
LEMMA FlattenIs ==
  ASSUME NEW S, NEW q \in Seq(Seq(S))
  PROVE  \E f \in [0 .. Len(q) -> Seq(S)] :
           /\ f[0] = <<>> /\ \A j \in 1 .. Len(q) : f[j] = f[j - 1] \o q[j]
           /\ FlattenSeq(q) = f[Len(q)]
<1> DEFINE N == Len(q)
           step == [j \in 1 .. N |-> [t \in Seq(S) |-> t \o q[j]]]
           body(g) == [i \in 1 .. N |-> IF i = 1 THEN q[i] ELSE g[i - 1] \o q[i]]
<1>1. N \in Nat /\ \A j \in 1 .. N : q[j] \in Seq(S)
  BY LenProperties, ElementOfSeq
<1>2. <<>> \in Seq(S)
  BY EmptySeq
<1>3. step \in [1 .. N -> [Seq(S) -> Seq(S)]]
  BY <1>1, ConcatProperties
<1>4. PICK f : Iterates(f, <<>>, step, Seq(S), N)
  <2> HIDE DEF step, N
  <2> QED
    BY <1>1, <1>2, <1>3, Iteration
<1>5. /\ f \in [0 .. N -> Seq(S)] /\ f[0] = <<>>
      /\ \A j \in 1 .. N : f[j] = f[j - 1] \o q[j]
  <2>1. ASSUME NEW j \in 1 .. N
        PROVE  f[j - 1] \in Seq(S) /\ f[j] = step[j][f[j - 1]]
    <3>1. j - 1 \in 0 .. N
      BY <1>1
    <3> HIDE DEF step, N
    <3> QED
      BY <1>4, <3>1 DEF Iterates
  <2>2. \A j \in 1 .. N : f[j] = f[j - 1] \o q[j]
    BY <2>1
  <2> QED
    BY <1>4, <2>2 DEF Iterates
<1>6. CASE N = 0
  <2>1. q = <<>>
    BY <1>6, EmptySeq
  <2> QED
    BY <1>5, <1>6, <2>1 DEF FlattenSeq
<1>7. CASE N # 0
  <2> DEFINE h  == [i \in 1 .. N |-> f[i]]
             fl == CHOOSE g : g = body(g)
  <2>1. h = body(h)
    <3>1. ASSUME NEW i \in 1 .. N PROVE h[i] = body(h)[i]
      <4>1. CASE i = 1
        <5>1. 1 \in 1 .. N /\ f[1 - 1] = <<>> /\ q[1] \in Seq(S)
          BY <1>1, <1>5, <4>1
        <5>2. f[1] = <<>> \o q[1]
          BY <1>5, <5>1
        <5> QED
          BY <4>1, <5>1, <5>2, ConcatEmptySeq
      <4>2. CASE i # 1
        <5>1. i - 1 \in 1 .. N
          BY <1>1, <4>2
        <5> QED
          BY <1>5, <4>2, <5>1
      <4> QED
        BY <4>1, <4>2
    <3> QED
      BY <3>1
  <2>2. fl = body(fl)
    <3> HIDE DEF h, body
    <3> QED
      BY <2>1
  <2>3. FlattenSeq(q) = fl[N]
    BY <1>7 DEF FlattenSeq
  <2> DEFINE P == {n \in 0 .. N : n = 0 \/ fl[n] = f[n]}
  <2>4. \A n \in 1 .. N : n - 1 \in P => n \in P
    <3>1. ASSUME NEW n \in 1 .. N, n - 1 \in P PROVE fl[n] = f[n]
      <4>1. fl[n] = IF n = 1 THEN q[n] ELSE fl[n - 1] \o q[n]
        <5>1. fl[n] = body(fl)[n]
          BY <2>2
        <5> HIDE DEF fl
        <5> QED
          BY <5>1
      <4> HIDE DEF fl
      <4>2. CASE n = 1
        <5>1. 1 \in 1 .. N /\ f[1 - 1] = <<>> /\ q[1] \in Seq(S)
          BY <1>1, <1>5, <4>2
        <5>2. f[1] = <<>> \o q[1]
          BY <1>5, <5>1
        <5> QED
          BY <4>1, <4>2, <5>1, <5>2, ConcatEmptySeq
      <4>3. CASE n # 1
        <5>1. fl[n - 1] = f[n - 1]
          BY <1>1, <3>1, <4>3
        <5>2. f[n] = f[n - 1] \o q[n]
          BY <1>5
        <5> QED
          BY <4>1, <4>3, <5>1, <5>2
      <4> QED
        BY <4>2, <4>3
    <3>2. \A n \in 1 .. N : n \in 0 .. N
      BY <1>1
    <3> HIDE DEF fl
    <3> QED
      BY <3>1, <3>2
  <2>5. 0 .. N \subseteq P
    <3>1. 0 \in P
      BY <1>1
    <3> HIDE DEF P, N
    <3> QED
      BY <1>1, <2>4, <3>1, Induct
  <2>6. fl[N] = f[N]
    <3>1. N \in 0 .. N
      BY <1>1
    <3>2. N \in P
      <4> HIDE DEF P, N
      <4> QED
        BY <2>5, <3>1
    <3> HIDE DEF fl, N
    <3> QED
      BY <1>7, <3>2
  <2> HIDE DEF fl
  <2> QED
    BY <1>5, <2>3, <2>6
<1> QED
  BY <1>6, <1>7

(* What is left of q, from its k-th sequence on.                           *)
IsRest(s, q, S) ==
  /\ s \in [1 .. Len(q) + 1 -> Seq(S)] /\ s[Len(q) + 1] = <<>>
  /\ \A k \in 1 .. Len(q) : s[k] = q[k] \o s[k + 1]

RowId   == [page : Pages, i : Nat \ {0}]
RestOf(q) == CHOOSE s : IsRest(s, q, RowId)

LEMMA RestExists ==
  ASSUME NEW S, NEW q \in Seq(Seq(S))
  PROVE  \E s : IsRest(s, q, S)
<1> DEFINE N == Len(q)
           step == [j \in 1 .. N |-> [t \in Seq(S) |-> q[N + 1 - j] \o t]]
<1>1. N \in Nat /\ \A j \in 1 .. N : q[j] \in Seq(S)
  BY LenProperties, ElementOfSeq
<1>2. <<>> \in Seq(S)
  BY EmptySeq
<1>3. step \in [1 .. N -> [Seq(S) -> Seq(S)]]
  <2>1. \A j \in 1 .. N : q[N + 1 - j] \in Seq(S)
    BY <1>1
  <2> QED
    BY <2>1, ConcatProperties
<1>4. PICK f : Iterates(f, <<>>, step, Seq(S), N)
  <2> HIDE DEF step, N
  <2> QED
    BY <1>1, <1>2, <1>3, Iteration
<1> DEFINE s == [k \in 1 .. N + 1 |-> f[N + 1 - k]]
<1>5. \A k \in 1 .. N + 1 : N + 1 - k \in 0 .. N
  BY <1>1
<1>6. s \in [1 .. N + 1 -> Seq(S)]
  BY <1>4, <1>5 DEF Iterates
<1>7. s[N + 1] = <<>>
  BY <1>1, <1>4 DEF Iterates
<1>8. ASSUME NEW k \in 1 .. N PROVE s[k] = q[k] \o s[k + 1]
  <2> DEFINE j == N + 1 - k
  <2>1. /\ j \in 1 .. N /\ j - 1 \in 0 .. N /\ N + 1 - j = k /\ N + 1 - (k + 1) = j - 1
        /\ k \in 1 .. N + 1 /\ k + 1 \in 1 .. N + 1
    BY <1>1
  <2>2. s[k] = f[j] /\ s[k + 1] = f[j - 1]
    BY <2>1
  <2> HIDE DEF j, s
  <2>3. f[j] = step[j][f[j - 1]] /\ f[j - 1] \in Seq(S)
    BY <1>4, <2>1 DEF Iterates
  <2>4. step[j][f[j - 1]] = q[k] \o f[j - 1]
    BY <2>1, <2>3
  <2> QED
    BY <2>2, <2>3, <2>4
<1> QED
  BY <1>6, <1>7, <1>8 DEF IsRest

LEMMA Regroup ==
  ASSUME NEW a \in Seq(RowId), NEW b \in Seq(RowId), NEW c \in Seq(RowId)
  PROVE  (a \o b) \o c = a \o (b \o c)
BY ConcatAssociative, SMTT(60)

LEMMA RestIs ==
  ASSUME NEW q \in Seq(Seq(RowId))
  PROVE  /\ FlattenSeq(q) \in Seq(RowId) /\ FlattenSeq(q) = RestOf(q)[1]
         /\ \A k \in 1 .. Len(q) + 1 : RestOf(q)[k] \in Seq(RowId)
         /\ RestOf(q)[Len(q) + 1] = <<>>
         /\ \A k \in 1 .. Len(q) : /\ q[k] \in Seq(RowId)
                                   /\ RestOf(q)[k] = q[k] \o RestOf(q)[k + 1]
<1> DEFINE N == Len(q)
           s == RestOf(q)
<1>1. N \in Nat /\ \A j \in 1 .. N : q[j] \in Seq(RowId)
  BY LenProperties, ElementOfSeq
<1>2. IsRest(s, q, RowId)
  BY RestExists DEF RestOf
<1>3. PICK f \in [0 .. N -> Seq(RowId)] :
        /\ f[0] = <<>> /\ \A j \in 1 .. N : f[j] = f[j - 1] \o q[j]
        /\ FlattenSeq(q) = f[N]
  BY FlattenIs
<1> HIDE DEF s
<1>4. /\ s \in [1 .. N + 1 -> Seq(RowId)] /\ s[N + 1] = <<>>
      /\ \A k \in 1 .. N : s[k] = q[k] \o s[k + 1]
  BY <1>2 DEF IsRest
<1> HIDE DEF N
<1> DEFINE P == {n \in 0 .. N : f[n] \o s[n + 1] = s[1]}
<1>5. 0 \in P
  <2>1. s[1] \in Seq(RowId) /\ 0 + 1 = 1 /\ 0 \in 0 .. N
    BY <1>1, <1>4
  <2> QED
    BY <1>3, <2>1, ConcatEmptySeq
<1>6. ASSUME NEW n \in 1 .. N, n - 1 \in P PROVE n \in P
  <2>1. n - 1 + 1 = n /\ n - 1 \in 0 .. N /\ n \in 0 .. N /\ n + 1 \in 1 .. N + 1
    BY <1>1
  <2> DEFINE a == f[n - 1]
             b == q[n]
             c == s[n + 1]
  <2>2. a \in Seq(RowId) /\ b \in Seq(RowId) /\ c \in Seq(RowId)
    BY <1>1, <1>3, <1>4, <2>1
  <2>3. a \o s[n] = s[1]
    BY <1>6, <2>1
  <2>4. f[n] = a \o b /\ s[n] = b \o c
    BY <1>3, <1>4
  <2> HIDE DEF a, b
  <2>5. f[n] \o c = s[1]
    <3> HIDE DEF c
    <3>1. (a \o b) \o c = a \o (b \o c)
      BY ONLY <2>2, Regroup, Zenon
    <3> QED
      BY ONLY <2>3, <2>4, <3>1
  <2> QED
    BY <2>1, <2>5
<1>7. N \in P
  <2> HIDE DEF P
  <2>1. 0 .. N \subseteq P
    BY <1>1, <1>5, <1>6, Induct
  <2> QED
    BY <1>1, <2>1
<1>8. f[N] = s[1]
  <2>1. f[N] \in Seq(RowId) /\ s[N + 1] = <<>>
    BY <1>1, <1>3, <1>4
  <2> QED
    BY <1>7, <2>1, ConcatEmptySeq
<1>9. N + 1 \in Nat /\ 1 \in 1 .. N + 1 /\ s[1] \in Seq(RowId)
  BY <1>1, <1>4
<1> QED
  BY <1>1, <1>3, <1>4, <1>8, <1>9 DEF N, s

-----------------------------------------------------------------------------
(* The rows under a page are those of its parts.                           *)

Trees == Int \X {"master", "user"}

(* Cells of the leaves of img that can be counted on.                      *)
Counts(img) == {c \in [Pages -> Nat] : \A p \in Pages : c[p] <= Len(img[p].cells)}

LEMMA ChildrenAre ==
  ASSUME NEW img \in ImageType, NEW p \in Pages
  PROVE  /\ FileChildren(img, p) \in Seq(Int)
         /\ Len(FileChildren(img, p)) = Len(img[p].kids) + 1
         /\ Len(img[p].kids) \in Nat
         /\ DOMAIN FileChildren(img, p) = 1 .. Len(img[p].kids) + 1
         /\ \A k \in 1 .. Len(img[p].kids) : FileChildren(img, p)[k] = img[p].kids[k]
         /\ FileChildren(img, p)[Len(img[p].kids) + 1] = img[p].right
<1>1. img[p] \in Page
  BY DEF ImageType
<1>2. img[p].kids \in Seq(Int) /\ img[p].right \in Int
  BY <1>1 DEF Page
<1>3. /\ <<img[p].right>> \in Seq(Int) /\ Len(<<img[p].right>>) = 1
      /\ <<img[p].right>>[1] = img[p].right
  BY <1>2
<1> QED
  BY <1>2, <1>3, ConcatProperties, LenProperties DEF FileChildren

(* What the parts of page p are.                                           *)
ArePartsOf(q, img, count, sub, p, b) ==
  /\ q \in Seq(Seq(RowId))
  /\ img[p].kind = "interiorTable" =>
       /\ Len(q) = Len(FileChildren(img, p))
       /\ \A k \in 1 .. Len(q) : q[k] = sub[<<FileChildren(img, p)[k], b>>]
  /\ img[p].kind = "leafTable" =>
       /\ Len(q) = count[p]
       /\ \A k \in 1 .. Len(q) :
            q[k] = <<[page |-> p, i |-> k]>> \o
              IF b = "master" /\ Leads(img[p].cells[k])
              THEN sub[<<img[p].cells[k].root, RootType(img[p].cells[k].root)>>]
              ELSE <<>>
  /\ img[p].kind \notin {"interiorTable", "leafTable"} => q = <<>>

LEMMA PartsAre ==
  ASSUME NEW img \in ImageType, NEW count \in Counts(img), NEW p \in Pages,
         NEW b \in {"master", "user"}, NEW sub \in [Trees -> Seq(RowId)]
  PROVE  ArePartsOf(Parts(img, count, sub, p, b), img, count, sub, p, b)
<1> DEFINE q == Parts(img, count, sub, p, b)
<1>1. img[p] \in Page
  BY DEF ImageType
<1>2. <<>> \in Seq(RowId) /\ <<>> \in Seq(Seq(RowId))
  BY EmptySeq
<1>3. CASE img[p].kind = "interiorTable"
  <2> DEFINE kids == FileChildren(img, p)
  <2>1. kids \in Seq(Int) /\ DOMAIN kids = 1 .. Len(kids) /\ Len(kids) \in Nat
    BY ChildrenAre, LenProperties
  <2>2. \A k \in 1 .. Len(kids) : <<kids[k], b>> \in Trees
    BY <2>1, ElementOfSeq DEF Trees
  <2>3. q = [k \in 1 .. Len(kids) |-> sub[<<kids[k], b>>]]
    BY <1>3, <2>1 DEF Parts
  <2> HIDE DEF q, kids
  <2>4. q \in [1 .. Len(kids) -> Seq(RowId)]
    BY <2>2, <2>3
  <2>5. q \in Seq(Seq(RowId)) /\ Len(q) = Len(kids)
    BY <2>1, <2>4, FunctionIsSeq
  <2> QED
    BY <1>3, <2>3, <2>5 DEF ArePartsOf, q, kids
<1>4. CASE img[p].kind = "leafTable"
  <2> DEFINE tree(k) == IF b = "master" /\ Leads(img[p].cells[k])
                        THEN sub[<<img[p].cells[k].root, RootType(img[p].cells[k].root)>>]
                        ELSE <<>>
             n == count[p]
  <2>1. n \in Nat /\ n <= Len(img[p].cells) /\ img[p].cells \in Seq(Cell)
    BY <1>1 DEF Counts, Page
  <2>2. ASSUME NEW k \in 1 .. n
        PROVE  <<[page |-> p, i |-> k]>> \o tree(k) \in Seq(RowId)
    <3>1. k \in 1 .. Len(img[p].cells) /\ k \in Nat \ {0}
      <4> HIDE DEF n
      <4> QED
        BY <2>1, LenProperties
    <3>2. img[p].cells[k] \in Cell
      BY <2>1, <3>1, ElementOfSeq
    <3>3. img[p].cells[k].root \in Int
      BY <3>2 DEF Cell
    <3>4. <<img[p].cells[k].root, RootType(img[p].cells[k].root)>> \in Trees
      BY <3>3 DEF Trees, RootType
    <3>5. tree(k) \in Seq(RowId)
      BY <1>2, <3>4
    <3>6. [page |-> p, i |-> k] \in RowId
      BY <3>1 DEF RowId
    <3>7. <<[page |-> p, i |-> k]>> \in Seq(RowId)
      BY <3>6
    <3> QED
      BY <3>5, <3>7, ConcatProperties
  <2>3. q = [k \in 1 .. n |-> <<[page |-> p, i |-> k]>> \o tree(k)]
    BY <1>4 DEF Parts
  <2> HIDE DEF q, n, tree
  <2>4. q \in [1 .. n -> Seq(RowId)]
    BY <2>2, <2>3
  <2>5. q \in Seq(Seq(RowId)) /\ Len(q) = n
    BY <2>1, <2>4, FunctionIsSeq
  <2>6. \A k \in 1 .. Len(q) : q[k] = <<[page |-> p, i |-> k]>> \o tree(k)
    BY <2>3, <2>5
  <2> QED
    BY <1>4, <2>5, <2>6 DEF ArePartsOf, q, n, tree
<1>5. CASE img[p].kind \notin {"interiorTable", "leafTable"}
  <2>1. q = <<>>
    BY <1>5 DEF Parts
  <2> QED
    BY <1>2, <1>5, <2>1 DEF ArePartsOf
<1> QED
  BY <1>3, <1>4, <1>5

LEMMA WalksAre ==
  ASSUME NEW img \in ImageType, NEW gone, NEW count \in Counts(img)
  PROVE  LET w == Walks(img, gone, count) IN
         /\ \A d \in 0 .. PageCount : w[d] \in [Trees -> Seq(RowId)]
         /\ \A x \in Trees : w[0][x] = <<>>
         /\ \A d \in 0 .. PageCount : \A x \in Trees :
              x[1] \notin Pages \ gone => w[d][x] = <<>>
         /\ \A d \in 1 .. PageCount : \A x \in Trees :
              x[1] \in Pages \ gone =>
                w[d][x] = FlattenSeq(Parts(img, count, w[d - 1], x[1], x[2]))
<1> DEFINE T == [Trees -> Seq(RowId)]
           level(sub) == [x \in Trees |->
                            IF x[1] \notin Pages \ gone THEN <<>>
                            ELSE FlattenSeq(Parts(img, count, sub, x[1], x[2]))]
           none    == [x \in Trees |-> <<>>]
           step    == [d \in 1 .. PageCount |-> [sub \in T |-> level(sub)]]
           body(w) == [d \in 0 .. PageCount |->
                         [x \in Trees |->
                            IF d = 0 \/ x[1] \notin Pages \ gone THEN <<>>
                            ELSE FlattenSeq(Parts(img, count, w[d - 1], x[1], x[2]))]]
<1>1. PageCount \in Nat /\ <<>> \in Seq(RowId)
  BY PageCountAssumption, EmptySeq
<1>2. none \in T
  BY <1>1
<1>3. \A sub \in T : level(sub) \in T
  <2>1. ASSUME NEW sub \in T, NEW x \in Trees, x[1] \in Pages
        PROVE  FlattenSeq(Parts(img, count, sub, x[1], x[2])) \in Seq(RowId)
    <3>1. x[2] \in {"master", "user"}
      BY DEF Trees
    <3>2. Parts(img, count, sub, x[1], x[2]) \in Seq(Seq(RowId))
      BY <2>1, <3>1, PartsAre DEF ArePartsOf
    <3> QED
      BY <3>2, RestIs
  <2> QED
    BY <1>1, <2>1
<1>4. step \in [1 .. PageCount -> [T -> T]]
  BY <1>3
<1>5. PICK f : Iterates(f, none, step, T, PageCount)
  <2> HIDE DEF step, none, T
  <2> QED
    BY <1>1, <1>2, <1>4, Iteration
<1>6. /\ f \in [0 .. PageCount -> T] /\ f[0] = none
      /\ \A d \in 1 .. PageCount : f[d - 1] \in T /\ f[d] = level(f[d - 1])
  <2>1. ASSUME NEW d \in 1 .. PageCount
        PROVE  f[d - 1] \in T /\ f[d] = step[d][f[d - 1]]
    <3>1. d - 1 \in 0 .. PageCount
      BY <1>1
    <3> HIDE DEF step, T
    <3> QED
      BY <1>5, <3>1 DEF Iterates
  <2>2. ASSUME NEW d \in 1 .. PageCount, NEW sub \in T
        PROVE  step[d][sub] = level(sub)
    <3> HIDE DEF level, T
    <3> QED
      BY DEF step
  <2> HIDE DEF step, level, T, none
  <2> QED
    BY <1>5, <2>1, <2>2 DEF Iterates
<1>7. f = body(f)
  <2>1. ASSUME NEW d \in 0 .. PageCount PROVE f[d] = body(f)[d]
    <3>1. CASE d = 0
      BY <1>6, <3>1
    <3>2. CASE d # 0
      <4>1. d \in 1 .. PageCount
        BY <1>1, <3>2
      <4>2. f[d] = level(f[d - 1])
        BY <1>6, <4>1
      <4> QED
        BY <3>2, <4>2
    <3> QED
      BY <3>1, <3>2
  <2> QED
    BY <1>6, <2>1
<1> DEFINE w == Walks(img, gone, count)
<1>8. w = body(w)
  <2>1. w = CHOOSE g : g = body(g)
    BY DEF Walks, Trees
  <2> HIDE DEF w, body
  <2> QED
    BY <1>7, <2>1
<1> HIDE DEF w
<1>9. w[0] = none
  <2>1. 0 \in 0 .. PageCount
    BY <1>1
  <2>2. w[0] = body(w)[0]
    BY <1>8
  <2>3. body(w)[0] = none
    BY <2>1
  <2> QED
    BY <2>2, <2>3
<1>10. \A d \in 1 .. PageCount : w[d] = level(w[d - 1])
  <2>1. ASSUME NEW d \in 1 .. PageCount PROVE w[d] = level(w[d - 1])
    <3>1. d \in 0 .. PageCount /\ d # 0
      BY <1>1
    <3>2. w[d] = body(w)[d]
      BY <1>8
    <3>3. body(w)[d] = level(w[d - 1])
      BY <3>1
    <3> QED
      BY <3>2, <3>3
  <2> QED
    BY <2>1
<1> HIDE DEF level, none
<1>11. \A d \in 0 .. PageCount : w[d] \in T
  <2> DEFINE P == {d \in 0 .. PageCount : w[d] \in T}
  <2>1. 0 \in P
    BY <1>1, <1>2, <1>9
  <2>2. \A d \in 1 .. PageCount : d - 1 \in P => d \in P
    <3>1. \A d \in 1 .. PageCount : d \in 0 .. PageCount
      BY <1>1
    <3> HIDE DEF T
    <3> QED
      BY <1>3, <1>10, <3>1
  <2> HIDE DEF P
  <2>3. 0 .. PageCount \subseteq P
    BY <1>1, <2>1, <2>2, Induct
  <2> QED
    BY <2>3 DEF P
<1>12. \A d \in 0 .. PageCount : \A x \in Trees :
         x[1] \notin Pages \ gone => w[d][x] = <<>>
  <2>1. ASSUME NEW d \in 0 .. PageCount, NEW x \in Trees, x[1] \notin Pages \ gone
        PROVE  w[d][x] = <<>>
    <3>1. CASE d = 0
      BY <1>9, <3>1 DEF none
    <3>2. CASE d # 0
      <4>1. d \in 1 .. PageCount
        BY <1>1, <3>2
      <4>2. w[d] = level(w[d - 1])
        BY <1>10, <4>1
      <4> QED
        BY <2>1, <4>2 DEF level
    <3> QED
      BY <3>1, <3>2
  <2> QED
    BY <2>1
<1>13. \A d \in 1 .. PageCount : \A x \in Trees :
         x[1] \in Pages \ gone =>
           w[d][x] = FlattenSeq(Parts(img, count, w[d - 1], x[1], x[2]))
  BY <1>10 DEF level
<1>14. \A x \in Trees : w[0][x] = <<>>
  BY <1>9 DEF none
<1> QED
  BY <1>11, <1>12, <1>13, <1>14 DEF w

-----------------------------------------------------------------------------
(* On a forest each page has one place that names it, so no page is on the *)
(* stack twice; every call is at a child or cell that there is; and what   *)
(* is still requested is the end of the request.                           *)

FrameFits(f, img) ==
  /\ f.at \in {"begin", "acquire"} => f.i = 1
  /\ f.at = "child" => f.i <= Len(ChildPointers(img, f.page)) + 1
  /\ f.at \in CellPlaces =>
       f.i <= Len(img[f.page].cells) + 1 /\ f.btree # "system"

(* Some reference leads to page p from page `from` (from 0: a request).    *)
LeadsTo(from, p, img, req) ==
  p \in Pages => \E r \in References(img, req) : r.from[1] = from /\ r.to = p

CallersLead(st, img, req) ==
  \A n \in DOMAIN st :
    LeadsTo(IF n = 1 THEN 0 ELSE st[n - 1].page, st[n].page, img, req)

PagesDiffer(st) ==
  \A m, n \in DOMAIN st : m # n /\ st[m].page \in Pages => st[m].page # st[n].page

IsEndOf(s, t) ==
  /\ Len(s) <= Len(t)
  /\ \A k \in 1 .. Len(s) : s[k] = t[Len(t) - Len(s) + k]

Shape ==
  /\ \A n \in DOMAIN stack : FrameFits(stack[n], image)
  /\ IsEndOf(todo, requested)
  /\ Forest => CallersLead(stack, image, requested) /\ PagesDiffer(stack)

LEMMA ReferencesAre ==
  ASSUME NEW img \in ImageType, NEW req \in Seq(Int)
  PROVE  /\ \A p \in Pages : \A k \in DOMAIN FileChildren(img, p) :
              img[p].kind \in InteriorKinds =>
                LeadsTo(p, FileChildren(img, p)[k], img, req)
         /\ \A p \in Pages : \A k \in DOMAIN img[p].cells :
              img[p].kind = "leafTable" /\ Recursive =>
                LeadsTo(p, img[p].cells[k].root, img, req)
         /\ \A k \in DOMAIN req : LeadsTo(0, req[k], img, req)
<1>1. ASSUME NEW p \in Pages, NEW k \in DOMAIN FileChildren(img, p),
             img[p].kind \in InteriorKinds
      PROVE  LeadsTo(p, FileChildren(img, p)[k], img, req)
  <2> DEFINE r == [from |-> <<p, "child", k>>, to |-> FileChildren(img, p)[k]]
  <2>1. r \in ChildReferences(img, p)
    BY DEF ChildReferences
  <2>2. ChildReferences(img, p) \subseteq References(img, req)
    BY <1>1 DEF References, OfKind
  <2>3. r.from[1] = p /\ r.to = FileChildren(img, p)[k]
    OBVIOUS
  <2> HIDE DEF r
  <2> QED
    BY <2>1, <2>2, <2>3 DEF LeadsTo
<1>2. ASSUME NEW p \in Pages, NEW k \in DOMAIN img[p].cells,
             img[p].kind = "leafTable", Recursive
      PROVE  LeadsTo(p, img[p].cells[k].root, img, req)
  <2> DEFINE r == [from |-> <<p, "root", k>>, to |-> img[p].cells[k].root]
  <2>1. r \in RootReferences(img, p)
    BY <1>2 DEF RootReferences
  <2>2. RootReferences(img, p) \subseteq References(img, req)
    BY <1>2 DEF References, OfKind
  <2>3. r.from[1] = p /\ r.to = img[p].cells[k].root
    OBVIOUS
  <2> HIDE DEF r
  <2> QED
    BY <2>1, <2>2, <2>3 DEF LeadsTo
<1>3. ASSUME NEW k \in DOMAIN req
      PROVE  LeadsTo(0, req[k], img, req)
  <2> DEFINE r == [from |-> <<0, "request", k>>, to |-> req[k]]
  <2>1. r \in RequestReferences(req)
    BY <1>3 DEF RequestReferences
  <2>2. RequestReferences(req) \subseteq References(img, req)
    BY DEF References
  <2>3. r.from[1] = 0 /\ r.to = req[k]
    OBVIOUS
  <2> HIDE DEF r
  <2> QED
    BY <2>1, <2>2, <2>3 DEF LeadsTo
<1> QED
  BY <1>1, <1>2, <1>3

(* What the parser takes for the children of a page.                       *)
LEMMA PointersAre ==
  ASSUME NEW img \in ImageType, NEW p \in Pages
  PROVE  /\ img[p].kind = "interiorTable" =>
              /\ Len(ChildPointers(img, p)) = Len(FileChildren(img, p))
              /\ \A k \in 1 .. Len(FileChildren(img, p)) :
                   \/ ChildPointers(img, p)[k] = FileChildren(img, p)[k]
                   \/ ChildPointers(img, p)[k] \notin Pages
         /\ img[p].kind # "interiorTable" =>
              \A k \in 1 .. Len(ChildPointers(img, p)) :
                \/ ChildPointers(img, p)[k] \notin Pages
                \/ ChildPointers(img, p)[k] = img[p].stray
                \/ \E j \in DOMAIN FileChildren(img, p) :
                     ChildPointers(img, p)[k] = FileChildren(img, p)[j]
<1> DEFINE kids == img[p].kids
           n    == Len(kids)
           cp   == ChildPointers(img, p)
<1>1. img[p] \in Page
  BY DEF ImageType
<1>2. kids \in Seq(Int) /\ img[p].right \in Int /\ img[p].stray \in Int /\ n \in Nat
  BY <1>1 DEF Page
<1>3. Garbage \in Int /\ Garbage \notin Pages
  BY PageCountAssumption DEF Garbage, Pages
<1>4. /\ Len(FileChildren(img, p)) = n + 1 /\ DOMAIN FileChildren(img, p) = 1 .. n + 1
      /\ \A k \in 1 .. n : FileChildren(img, p)[k] = kids[k]
      /\ FileChildren(img, p)[n + 1] = img[p].right
  BY ChildrenAre
<1>5. ASSUME img[p].kind = "interiorTable"
      PROVE  /\ Len(cp) = n + 1
             /\ \A k \in 1 .. n : cp[k] = kids[k]
             /\ cp[n + 1] = img[p].right \/ cp[n + 1] \notin Pages
  <2> DEFINE last == IF p = 1 THEN Garbage ELSE img[p].right
  <2>1. /\ <<last>> \in Seq(Int) /\ Len(<<last>>) = 1 /\ <<last>>[1] = last
    BY <1>2, <1>3
  <2>2. cp = kids \o <<last>>
    BY <1>5 DEF ChildPointers
  <2>3. last = img[p].right \/ last \notin Pages
    BY <1>3
  <2> HIDE DEF cp, last, kids
  <2> QED
    BY <1>2, <2>1, <2>2, <2>3, ConcatProperties
<1>6. ASSUME img[p].kind # "interiorTable", NEW k \in 1 .. Len(cp)
      PROVE  \/ cp[k] = Garbage \/ cp[k] = img[p].stray
             \/ \E j \in 1 .. n : cp[k] = kids[j]
  <2> DEFINE two == <<Garbage, img[p].stray>>
             m   == two \o kids
  <2>1. two \in Seq(Int) /\ Len(two) = 2 /\ two[1] = Garbage /\ two[2] = img[p].stray
    BY <1>2, <1>3
  <2> HIDE DEF two, kids, cp
  <2>2. /\ m \in Seq(Int) /\ Len(m) = n + 2 /\ m[1] = Garbage /\ m[2] = img[p].stray
        /\ \A i \in 3 .. n + 2 : m[i] = kids[i - 2]
    <3>1. /\ m \in Seq(Int) /\ Len(m) = Len(two) + n
          /\ \A i \in 1 .. Len(two) + n :
               m[i] = IF i <= Len(two) THEN two[i] ELSE kids[i - Len(two)]
      <4>1. kids \in Seq(Int)
        BY <1>2
      <4> QED
        BY ONLY <2>1, <4>1, ConcatProperties
    <3> HIDE DEF m, n
    <3>2. n \in Nat
      BY <1>2
    <3> QED
      BY ONLY <2>1, <3>1, <3>2
  <2>3. cp = SubSeq(m, 1, n)
    BY <1>6 DEF ChildPointers, two, cp, kids
  <2>4. \A i \in 1 .. n : m[i] \in Int
    BY <1>2, <2>2, ElementOfSeq
  <2>5. Len(cp) = n /\ \A i \in 1 .. n : cp[i] = m[i]
    <3> HIDE DEF m, cp
    <3> HIDE DEF n
    <3>1. Len(cp) = IF 1 <= n THEN n - 1 + 1 ELSE 0
      BY <1>2, <2>3, <2>4, SubSeqProperties
    <3>2. \A i \in 1 .. n - 1 + 1 : cp[i] = m[1 + i - 1]
      BY <1>2, <2>3, <2>4, SubSeqProperties
    <3> QED
      BY <1>2, <3>1, <3>2
  <2>6. cp[k] = m[k] /\ k \in 1 .. n
    BY <2>5
  <2>7. \/ k = 1 \/ k = 2 \/ (k \in 3 .. n + 2 /\ k - 2 \in 1 .. n)
    <3> HIDE DEF n, m
    <3>1. n \in Nat /\ k \in 1 .. n
      BY <1>2, <2>6
    <3> QED
      BY ONLY <3>1
  <2> HIDE DEF m
  <2> QED
    BY <2>2, <2>6, <2>7
<1> HIDE DEF cp, kids
<1>7. \A k \in 1 .. n + 1 : k \in 1 .. n \/ k = n + 1
  BY <1>2
<1>8. \A j \in 1 .. n : j \in DOMAIN FileChildren(img, p)
  BY <1>2, <1>4
<1> QED
  BY <1>3, <1>4, <1>5, <1>6, <1>7, <1>8 DEF cp

(* One more call: its page is not on the stack, for the place that names   *)
(* it is in the page that now calls it.                                    *)
LEMMA NewPageDiffers ==
  ASSUME NEW st, NEW L \in Nat, DOMAIN st = 1 .. L, NEW p \in Pages, NEW from \in Pages,
         L > 0, st[L].page = from, Forest,
         CallersLead(st, image, requested), PagesDiffer(st),
         LeadsTo(from, p, image, requested)
  PROVE  \A m \in 1 .. L : st[m].page # p
<1> SUFFICES ASSUME NEW m \in 1 .. L, st[m].page = p PROVE FALSE
  OBVIOUS
<1>1. PICK r \in References(image, requested) : r.from[1] = from /\ r.to = p
  BY DEF LeadsTo
<1>2. PICK s \in References(image, requested) :
        s.from[1] = (IF m = 1 THEN 0 ELSE st[m - 1].page) /\ s.to = p
  BY DEF CallersLead, LeadsTo
<1>3. r = s
  <2>1. \A x, y \in References(image, requested) : x.to \in Pages /\ x.to = y.to => x = y
    BY DEF Forest, Sound, IsForest
  <2> QED
    BY <1>1, <1>2, <2>1
<1>4. from = IF m = 1 THEN 0 ELSE st[m - 1].page
  BY <1>1, <1>2, <1>3
<1>5. from # 0
  BY DEF Pages
<1>6. m # 1 /\ st[m - 1].page = from
  BY <1>4, <1>5
<1>7. m - 1 \in 1 .. L /\ L \in 1 .. L /\ m - 1 # L
  BY <1>6
<1> QED
  BY <1>6, <1>7 DEF PagesDiffer

LEMMA BecomeShape ==
  ASSUME TypeOK, Shape, stack # <<>>, NEW f \in Frame, Become(f),
         image' = image, requested' = requested, todo' = todo,
         f.page = Top.page, FrameFits(f, image)
  PROVE  Shape'
<1>1. /\ stack' \in Seq(Frame) /\ Len(stack') = Len(stack)
      /\ Len(stack) \in Nat \ {0}
      /\ stack'[Len(stack)] = f
      /\ \A n \in 1 .. Len(stack) - 1 : stack'[n] = stack[n]
  BY BecomeFacts DEF TypeOK
<1>2. DOMAIN stack' = 1 .. Len(stack) /\ DOMAIN stack = 1 .. Len(stack)
  BY <1>1 DEF TypeOK
<1>3. \A n \in DOMAIN stack : stack'[n].page = stack[n].page
  <2>1. \A n \in DOMAIN stack : n = Len(stack) \/ n \in 1 .. Len(stack) - 1
    BY <1>1, <1>2
  <2> QED
    BY <1>1, <2>1 DEF Top
<1>4. \A n \in DOMAIN stack' : FrameFits(stack'[n], image')
  <2>1. \A n \in DOMAIN stack' : n = Len(stack) \/ (n \in 1 .. Len(stack) - 1 /\ n \in DOMAIN stack)
    BY <1>1, <1>2
  <2> QED
    BY <1>1, <2>1 DEF Shape
<1>5. ASSUME Forest PROVE CallersLead(stack', image, requested) /\ PagesDiffer(stack')
  <2>1. \A n \in DOMAIN stack : n = 1 \/ n - 1 \in DOMAIN stack
    BY <1>1, <1>2
  <2>2. CallersLead(stack, image, requested) /\ PagesDiffer(stack)
    BY <1>5 DEF Shape
  <2>3. CallersLead(stack', image, requested)
    BY <1>2, <1>3, <2>1, <2>2 DEF CallersLead
  <2>4. PagesDiffer(stack')
    BY <1>2, <1>3, <2>2 DEF PagesDiffer
  <2> QED
    BY <2>3, <2>4
<1> QED
  BY <1>4, <1>5 DEF Shape, Forest

LEMMA CallShape ==
  ASSUME TypeOK, FramesOK, Shape, stack # <<>>, NEW f \in Frame, NEW c \in Frame,
         BecomeAndCall(f, c), image' = image, requested' = requested, todo' = todo,
         f.page = Top.page, FrameFits(f, image), FrameFits(c, image),
         Forest => LeadsTo(Top.page, c.page, image, requested), Top.page \in Pages
  PROVE  Shape'
<1>1. /\ stack' \in Seq(Frame) /\ Len(stack') = Len(stack) + 1
      /\ Len(stack) \in Nat \ {0}
      /\ stack'[Len(stack) + 1] = c
      /\ stack'[Len(stack)] = f
      /\ \A n \in 1 .. Len(stack) - 1 : stack'[n] = stack[n]
  BY CallFacts DEF TypeOK
<1>2. DOMAIN stack' = 1 .. Len(stack) + 1 /\ DOMAIN stack = 1 .. Len(stack)
  BY <1>1 DEF TypeOK
<1>3. \A n \in DOMAIN stack : stack'[n].page = stack[n].page
  <2>1. \A n \in DOMAIN stack : n = Len(stack) \/ n \in 1 .. Len(stack) - 1
    BY <1>1, <1>2
  <2> QED
    BY <1>1, <2>1 DEF Top
<1>4. \A n \in DOMAIN stack' : FrameFits(stack'[n], image')
  <2>1. \A n \in DOMAIN stack' :
          \/ n = Len(stack) + 1 \/ n = Len(stack)
          \/ (n \in 1 .. Len(stack) - 1 /\ n \in DOMAIN stack)
    BY <1>1, <1>2
  <2> QED
    BY <1>1, <2>1 DEF Shape
<1>5. ASSUME Forest PROVE CallersLead(stack', image, requested) /\ PagesDiffer(stack')
  <2> DEFINE L == Len(stack)
  <2>1. \A n \in DOMAIN stack : n = 1 \/ n - 1 \in DOMAIN stack
    BY <1>1, <1>2
  <2>2. CallersLead(stack, image, requested) /\ PagesDiffer(stack)
    BY <1>5 DEF Shape
  <2>3. \A n \in DOMAIN stack' : n = L + 1 \/ n \in DOMAIN stack
    BY <1>1, <1>2
  <2>4. L \in DOMAIN stack /\ L + 1 # 1 /\ L + 1 - 1 = L /\ L > 0
    BY <1>1, <1>2
  <2>5. stack[L].page = Top.page
    BY DEF Top
  <2>6. CallersLead(stack', image, requested)
    <3>1. ASSUME NEW n \in DOMAIN stack
          PROVE  LeadsTo(IF n = 1 THEN 0 ELSE stack'[n - 1].page, stack'[n].page,
                         image, requested)
      BY <1>3, <2>1, <2>2 DEF CallersLead
    <3>2. LeadsTo(stack'[L + 1 - 1].page, stack'[L + 1].page, image, requested)
      BY <1>1, <1>3, <1>5, <2>4, <2>5
    <3> HIDE DEF L
    <3>3. ASSUME NEW n \in DOMAIN stack', n = L + 1
          PROVE  LeadsTo(IF n = 1 THEN 0 ELSE stack'[n - 1].page, stack'[n].page,
                         image, requested)
      <4>1. n # 1 /\ L \in Nat
        BY <1>1, <2>4, <3>3 DEF L
      <4>2. stack'[n - 1] = stack'[L + 1 - 1] /\ stack'[n] = stack'[L + 1]
        BY <3>3, <4>1
      <4> QED
        BY <3>2, <4>1, <4>2
    <3> QED
      BY <2>3, <3>1, <3>3 DEF CallersLead
  <2>7. PagesDiffer(stack')
    <3>1. ASSUME c.page \in Pages PROVE \A m \in DOMAIN stack : stack[m].page # c.page
      <4>1. LeadsTo(Top.page, c.page, image, requested)
        BY <1>5
      <4> HIDE DEF L
      <4>2. L \in Nat /\ DOMAIN stack = 1 .. L
        BY <1>1, <1>2 DEF L
      <4> QED
        BY <1>5, <2>2, <2>4, <2>5, <3>1, <4>1, <4>2, NewPageDiffers
    <3>2. stack'[L + 1].page = c.page
      BY <1>1
    <3> HIDE DEF L
    <3> QED
      BY <1>3, <2>2, <2>3, <3>1, <3>2 DEF PagesDiffer
  <2> QED
    BY <2>6, <2>7
<1> QED
  BY <1>4, <1>5 DEF Shape, Forest

LEMMA ReturnShape ==
  ASSUME TypeOK, FramesOK, Shape, stack # <<>>, NEW result, Return(result),
         image' = image, requested' = requested, todo' = todo
  PROVE  Shape'
<1>1. /\ stack' \in Seq(Frame) /\ Len(stack') = Len(stack) - 1
      /\ Len(stack) \in Nat \ {0}
      /\ \A n \in 1 .. Len(stack) - 1 :
              \/ stack'[n] = stack[n]
              \/ stack'[n] = Moved(stack[n], "end")
              \/ /\ stack[n].at = "subtree"
                 /\ stack'[n] = Moved(stack[n], "cell")
  BY ReturnFacts DEF TypeOK
<1>2. DOMAIN stack' = 1 .. Len(stack) - 1 /\ DOMAIN stack = 1 .. Len(stack)
  BY <1>1 DEF TypeOK
<1>3. ASSUME NEW n \in DOMAIN stack'
      PROVE  stack'[n].page = stack[n].page /\ FrameFits(stack'[n], image)
  <2>1. n \in DOMAIN stack
    BY <1>1, <1>2
  <2>2. stack[n] \in Frame /\ FrameFits(stack[n], image)
    BY <1>1, <1>2, <2>1, ElementOfSeq DEF Shape, TypeOK
  <2>3. \A p \in {"end", "cell"} :
          /\ Moved(stack[n], p).page = stack[n].page /\ Moved(stack[n], p).at = p
          /\ Moved(stack[n], p).i = stack[n].i /\ Moved(stack[n], p).btree = stack[n].btree
    BY <2>2 DEF Moved, Frame
  <2>4. FrameFits(Moved(stack[n], "end"), image)
    BY <2>3 DEF FrameFits, CellPlaces, OverflowPlaces
  <2>5. stack[n].at = "subtree" => FrameFits(Moved(stack[n], "cell"), image)
    BY <2>2, <2>3 DEF FrameFits, CellPlaces, OverflowPlaces
  <2> QED
    BY <1>1, <1>2, <2>2, <2>3, <2>4, <2>5
<1>4. ASSUME Forest PROVE CallersLead(stack', image, requested) /\ PagesDiffer(stack')
  <2>1. \A n \in DOMAIN stack' : n \in DOMAIN stack /\ (n = 1 \/ n - 1 \in DOMAIN stack')
    BY <1>1, <1>2
  <2>2. CallersLead(stack, image, requested) /\ PagesDiffer(stack)
    BY <1>4 DEF Shape
  <2>3. CallersLead(stack', image, requested)
    BY <1>3, <2>1, <2>2 DEF CallersLead
  <2>4. PagesDiffer(stack')
    BY <1>3, <2>1, <2>2 DEF PagesDiffer
  <2> QED
    BY <2>3, <2>4
<1> QED
  BY <1>3, <1>4 DEF Shape, Forest

-----------------------------------------------------------------------------
(* The ways a step can go, as far as the order of the rows is concerned.   *)

(* A call goes on as g without a row: to its loop, inside it, or to its    *)
(* end.                                                                    *)
GoesOn(f, g, img) ==
  /\ g.page = f.page /\ g.btree = f.btree
  /\ \/ g.at = "end"
     \/ /\ g.i = f.i
        /\ \/ f.at = "begin" /\ g.at = "acquire"
           \/ /\ f.at = "acquire" /\ g.at = "child"
              /\ img[f.page].kind \in InteriorKinds
           \/ /\ f.at = "acquire" /\ g.at = "cell"
              /\ f.btree # "system" /\ img[f.page].kind = "leafTable"
           \/ f.at \in CellPlaces /\ g.at \in CellPlaces

TakesRequest == SkipPage \/ OpenFails
Returns      == stack # <<>> /\ \E result : Return(result)
Proceeds     == stack # <<>> /\ \E g \in Frame : Become(g) /\ GoesOn(Top, g, image)

(* The loop over the children calls c for the next one.                    *)
CallsChild(g, c) ==
  /\ stack # <<>> /\ Top.at = "child" /\ Top.page \in Pages
  /\ image[Top.page].kind \in InteriorKinds
  /\ Top.i \in 1 .. Len(ChildPointers(image, Top.page))
  /\ c = Call(ChildPointers(image, Top.page)[Top.i], Top.btree)
  /\ g.page = Top.page /\ g.btree = Top.btree /\ g.at = "child" /\ g.i = Top.i + 1
  /\ BecomeAndCall(g, c)

(* A row is out, and the call goes on as g, perhaps after a call of c.     *)
AfterRow(g) ==
  /\ stack # <<>> /\ Top.at = "column" /\ Top.page \in Pages
  /\ image[Top.page].kind = "leafTable"
  /\ Top.i \in DOMAIN image[Top.page].cells
  /\ \E w \in BOOLEAN :
       rows' = Append(rows, [page |-> Top.page, i |-> Top.i, whole |-> w])
  /\ g.page = Top.page /\ g.btree = Top.btree /\ g.i = Top.i + 1

CallsTree(g, c) ==
  /\ g.at = "subtree" /\ BecomeAndCall(g, c)
  /\ c = Call(CellNow.root, SubtreeType(CellNow))
  /\ Recursive /\ Top.btree = "master" /\ CellNow.root # 0

LEMMA ChildStep ==
  ASSUME TypeOK, FramesOK, ParseChild
  PROVE  Proceeds \/ \E g, c \in Frame : CallsChild(g, c)
<1>1. stack # <<>> /\ Top.at = "child"
  BY DEF ParseChild, At
<1>2. /\ Top \in Frame /\ Top.page \in Pages /\ image[Top.page].kind \in InteriorKinds
  BY <1>1, TopFacts DEF FrameOK, Active
<1> DEFINE kids == ChildPointers(image, Top.page)
<1>3. kids \in Seq(Int) /\ Top.i \in Nat \ {0} /\ Top.btree \in Btrees
  BY <1>2, ImageFacts DEF Frame
<1> HIDE DEF kids
<1>4. CASE Top.i > Len(kids)
  <2> DEFINE f == [Top EXCEPT !.at = "end", !.rc = "OK"]
  <2>1. Become(f)
    BY <1>4 DEF ParseChild, Go, kids
  <2>2. f \in Frame /\ f.page = Top.page /\ f.at = "end" /\ f.btree = Top.btree
    BY <1>2 DEF Frame, Places, Codes
  <2> HIDE DEF f
  <2> QED
    BY <1>1, <2>1, <2>2 DEF Proceeds, GoesOn
<1>5. CASE ~ (Top.i > Len(kids))
  <2> DEFINE f == [Top EXCEPT !.i = @ + 1]
             c == Call(kids[Top.i], Top.btree)
  <2>1. Top.i \in 1 .. Len(kids) /\ Top.i + 1 \in Nat \ {0}
    BY <1>3, <1>5, LenProperties
  <2>2. kids[Top.i] \in Int
    BY <1>3, <2>1, ElementOfSeq
  <2>3. BecomeAndCall(f, c)
    BY <1>5 DEF ParseChild, kids
  <2>4. c \in Frame
    BY <1>3, <2>2, CallIsFrame
  <2>5. /\ f \in Frame /\ f.page = Top.page /\ f.at = "child"
        /\ f.btree = Top.btree /\ f.i = Top.i + 1
    BY <1>1, <1>2, <2>1 DEF Frame
  <2>6. CallsChild(f, c)
    <3> HIDE DEF f
    <3> QED
      BY <1>1, <1>2, <2>1, <2>3, <2>5 DEF CallsChild, kids
  <2> QED
    BY <2>4, <2>5, <2>6
<1> QED
  BY <1>4, <1>5

LEMMA RowStep ==
  ASSUME TypeOK, FramesOK, NEW answer \in Answers, Deliver(answer)
  PROVE  \E g \in Frame :
           /\ AfterRow(g)
           /\ \/ Become(g) /\ g.at \in {"cell", "end"}
              \/ \E c \in Frame : CallsTree(g, c)
<1>1. stack # <<>> /\ Top.at = "column"
  BY DEF Deliver, At
<1>2. /\ Top \in Frame /\ Top.page \in Pages /\ image[Top.page].kind = "leafTable"
      /\ Top.i \in DOMAIN image[Top.page].cells
  BY <1>1, TopFacts DEF FrameOK, Active
<1>3. CellNow \in Cell /\ Top.i \in Nat \ {0} /\ answer \in Codes
  BY <1>2, ImageFacts, BtreeParseAssumption DEF CellNow, Frame
<1>4. Whole \in BOOLEAN
  BY DEF Whole
<1>5. rows' = Append(rows, [page |-> Top.page, i |-> Top.i, whole |-> Whole])
  BY DEF Deliver
<1> DEFINE goOn(place) == [Top EXCEPT !.at = place, !.rc = answer, !.i = @ + 1]
           place == IF answer = "OK" THEN "cell" ELSE "end"
           c == Call(CellNow.root, SubtreeType(CellNow))
<1>6. PICK j \in Nat \ {0} : j = Top.i + 1
  BY <1>3
<1>7. \A p \in {"cell", "end", "subtree"} :
         /\ goOn(p) \in Frame /\ goOn(p).page = Top.page
         /\ goOn(p).at = p /\ goOn(p).i = j /\ goOn(p).btree = Top.btree
  BY <1>2, <1>3, <1>6 DEF Frame, Places
<1>8. \/ /\ BecomeAndCall(goOn("subtree"), c)
         /\ Recursive /\ Top.btree = "master" /\ CellNow.root # 0
      \/ Become(goOn(place))
  BY DEF Deliver, OpensSubtree
<1>9. place \in {"cell", "end"}
  OBVIOUS
<1>10. c \in Frame
  <2>1. CellNow.root \in Int /\ SubtreeType(CellNow) \in Btrees
    BY <1>3 DEF Cell, SubtreeType, Btrees
  <2> QED
    BY <2>1, CallIsFrame
<1> HIDE DEF goOn, place
<1>11. \A p \in {"cell", "end", "subtree"} : AfterRow(goOn(p))
  <2> SUFFICES ASSUME NEW p \in {"cell", "end", "subtree"} PROVE AfterRow(goOn(p))
    OBVIOUS
  <2>1. goOn(p).page = Top.page /\ goOn(p).btree = Top.btree /\ goOn(p).i = Top.i + 1
    BY <1>6, <1>7
  <2> QED
    BY <1>1, <1>2, <1>4, <1>5, <2>1 DEF AfterRow
<1>12. CASE Become(goOn(place))
  BY <1>7, <1>9, <1>11, <1>12
<1>13. CASE /\ BecomeAndCall(goOn("subtree"), c)
            /\ Recursive /\ Top.btree = "master" /\ CellNow.root # 0
  <2>1. CallsTree(goOn("subtree"), c)
    BY <1>7, <1>13 DEF CallsTree
  <2> HIDE DEF c
  <2> QED
    BY <1>7, <1>10, <1>11, <2>1
<1> QED
  BY <1>8, <1>12, <1>13

LEMMA ProceedStep ==
  ASSUME TypeOK, FramesOK,
         \/ AcquireFails \/ AcquirePage \/ CellFails \/ ParseCell
         \/ OverflowBegin \/ OverflowFails \/ OverflowRead \/ DecodeFails
  PROVE  Proceeds
<1>1. stack # <<>>
  BY DEF AcquireFails, AcquirePage, CellFails, ParseCell, OverflowBegin,
         OverflowFails, OverflowRead, DecodeFails, At
<1>2. Top \in Frame /\ FrameOK(Top, image, declined)
  BY <1>1, TopFacts
<1>3. ASSUME NEW code \in Codes, Go("end", code) PROVE Proceeds
  <2> DEFINE g == [Top EXCEPT !.at = "end", !.rc = code]
  <2>1. g \in Frame /\ g.page = Top.page /\ g.btree = Top.btree /\ g.at = "end"
    BY <1>2 DEF Frame, Places
  <2>2. Become(g)
    BY <1>3 DEF Go
  <2> HIDE DEF g
  <2> QED
    BY <1>1, <2>1, <2>2 DEF Proceeds, GoesOn
<1>4. CASE AcquireFails \/ CellFails
  BY <1>3, <1>4 DEF AcquireFails, CellFails, Codes
<1>5. CASE DecodeFails
  <2>1. Top.at = "column"
    BY <1>5 DEF DecodeFails, At
  <2>2. CellNow.decode \in Codes
    BY <1>2, <2>1, ImageFacts DEF CellNow, Cell, Codes, FrameOK, Active
  <2> QED
    BY <1>3, <1>5, <2>2 DEF DecodeFails, Codes
<1>6. CASE AcquirePage
  <2>1. Top.at = "acquire"
    BY <1>6 DEF AcquirePage, At
  <2>2. PICK place \in {"end", "child", "cell"}, code \in {"OK", "DAMAGED"} :
          /\ Go(place, code)
          /\ place = "child" => image[Top.page].kind \in InteriorKinds
          /\ place = "cell" => Top.btree # "system" /\ image[Top.page].kind = "leafTable"
    BY <1>6 DEF AcquirePage
  <2> DEFINE g == [Top EXCEPT !.at = place, !.rc = code]
  <2>3. /\ g \in Frame /\ g.page = Top.page /\ g.btree = Top.btree /\ g.at = place
        /\ g.i = Top.i
    BY <1>2, <2>2 DEF Frame, Places, Codes
  <2>4. Become(g)
    BY <2>2 DEF Go
  <2> HIDE DEF g
  <2> QED
    BY <1>1, <2>1, <2>2, <2>3, <2>4 DEF Proceeds, GoesOn
<1>7. CASE ParseCell
  <2>1. Top.at = "cell"
    BY <1>7 DEF ParseCell, At
  <2>2. CASE Top.i > Len(image[Top.page].cells)
    BY <1>3, <1>7, <2>2 DEF ParseCell, Codes
  <2>3. CASE ~ (Top.i > Len(image[Top.page].cells))
    <3> DEFINE place == IF CellNow.need > 0 THEN "overflow" ELSE "column"
               g == [Top EXCEPT !.at = place, !.next = CellNow.chain,
                                !.got = 0, !.chain = {}]
    <3>1. Become(g)
      BY <1>7, <2>3 DEF ParseCell
    <3>2. Top.i \in Nat \ {0} /\ image[Top.page].cells \in Seq(Cell)
      BY <1>2, <2>1, ImageFacts DEF Frame, FrameOK, Active
    <3>3. CellNow \in Cell
      BY <2>3, <3>2, LenProperties, ElementOfSeq DEF CellNow
    <3>4. place \in {"overflow", "column"} /\ CellNow.chain \in Int
      BY <3>3 DEF Cell
    <3> HIDE DEF place
    <3>5. /\ g \in Frame /\ g.page = Top.page /\ g.btree = Top.btree
          /\ g.at = place /\ g.i = Top.i
      BY <1>2, <3>4 DEF Frame, Places
    <3> HIDE DEF g
    <3> QED
      BY <1>1, <2>1, <3>1, <3>4, <3>5 DEF Proceeds, GoesOn, CellPlaces, OverflowPlaces
  <2> QED
    BY <2>2, <2>3
<1>8. CASE OverflowBegin /\ Top.next \in Pages
  <2> DEFINE g == [Top EXCEPT !.at = "overflowRead", !.chain = @ \cup {Top.next}]
  <2>1. Top.at = "overflow" /\ Become(g)
    BY <1>8 DEF OverflowBegin, At
  <2>2. /\ g \in Frame /\ g.page = Top.page /\ g.btree = Top.btree
        /\ g.at = "overflowRead" /\ g.i = Top.i
    BY <1>2, <1>8 DEF Frame, Places
  <2> HIDE DEF g
  <2> QED
    BY <1>1, <2>1, <2>2 DEF Proceeds, GoesOn, CellPlaces, OverflowPlaces
<1>9. CASE (OverflowBegin /\ Top.next \notin Pages) \/ OverflowFails
  <2> DEFINE g == [Top EXCEPT !.at = "column", !.rc = "OK"]
  <2>1. Top.at \in OverflowPlaces /\ Become(g)
    BY <1>9 DEF OverflowBegin, OverflowFails, At, Go, OverflowPlaces
  <2>2. /\ g \in Frame /\ g.page = Top.page /\ g.btree = Top.btree
        /\ g.at = "column" /\ g.i = Top.i
    BY <1>2 DEF Frame, Places, Codes
  <2> HIDE DEF g
  <2> QED
    BY <1>1, <2>1, <2>2 DEF Proceeds, GoesOn, CellPlaces
<1>10. CASE OverflowRead
  <2> DEFINE got == IF Top.got < CellNow.need THEN Top.got + 1 ELSE Top.got
             g == [Top EXCEPT !.at = "overflow", !.got = got,
                              !.next = image[Top.next].link]
  <2>1. Top.at = "overflowRead" /\ Become(g)
    BY <1>10 DEF OverflowRead, At
  <2>2. Top.next \in Pages /\ Top.got \in Nat
    BY <1>2, <2>1 DEF FrameOK, Frame
  <2>3. image[Top.next].link \in Int /\ got \in Nat
    BY <2>2, ImageFacts
  <2> HIDE DEF got
  <2>4. /\ g \in Frame /\ g.page = Top.page /\ g.btree = Top.btree
        /\ g.at = "overflow" /\ g.i = Top.i
    BY <1>2, <2>3 DEF Frame, Places
  <2> HIDE DEF g
  <2> QED
    BY <1>1, <2>1, <2>4 DEF Proceeds, GoesOn, CellPlaces, OverflowPlaces
<1> QED
  BY <1>4, <1>5, <1>6, <1>7, <1>8, <1>9, <1>10

LEMMA BeginStep ==
  ASSUME TypeOK, FramesOK, BeginPage
  PROVE  Returns \/ Proceeds
<1>1. stack # <<>> /\ Top.at = "begin"
  BY DEF BeginPage, At
<1>2. Top \in Frame
  BY <1>1, TopFacts
<1> DEFINE g == [Top EXCEPT !.at = "acquire", !.rc = "OK"]
<1>3. /\ g \in Frame /\ g.page = Top.page /\ g.btree = Top.btree
      /\ g.at = "acquire" /\ g.i = Top.i
  BY <1>2 DEF Frame, Places, Codes
<1>4. Return("MISUSE") \/ Become(g)
  BY DEF BeginPage, Go
<1> HIDE DEF g
<1> QED
  BY <1>1, <1>3, <1>4 DEF Returns, Proceeds, GoesOn

(* Every step but Deliver leaves the rows alone.                           *)
QuietStep ==
  /\ rows' = rows
  /\ \/ TakesRequest \/ OpenBtree
     \/ /\ todo' = todo
        /\ \/ stack' = stack \/ Returns \/ Proceeds
           \/ \E g, c \in Frame : CallsChild(g, c)

LEMMA StepIs ==
  ASSUME TypeOK, FramesOK, [Next]_vars
  PROVE  \/ QuietStep
         \/ todo' = todo /\ \E answer \in Answers : Deliver(answer)
<1>1. CASE SkipPage \/ OpenFails \/ OpenBtree
  BY <1>1 DEF SkipPage, OpenFails, OpenBtree, QuietStep, TakesRequest
<1>2. CASE BeginPage
  BY <1>2, BeginStep DEF BeginPage, QuietStep
<1>3. CASE \/ AcquireFails \/ AcquirePage \/ CellFails \/ ParseCell
           \/ OverflowBegin \/ OverflowFails \/ OverflowRead \/ DecodeFails
  <2>1. Proceeds
    BY <1>3, ProceedStep
  <2>2. rows' = rows /\ todo' = todo
    BY <1>3 DEF AcquireFails, AcquirePage, CellFails, ParseCell, OverflowBegin,
       OverflowFails, OverflowRead, DecodeFails
  <2> QED
    BY <2>1, <2>2 DEF QuietStep
<1>4. CASE ParseChild
  <2>1. rows' = rows /\ todo' = todo
    BY <1>4 DEF ParseChild
  <2> QED
    BY <1>4, <2>1, ChildStep DEF QuietStep
<1>5. CASE EndPage
  BY <1>5 DEF EndPage, At, Returns, QuietStep
<1>6. CASE UNCHANGED vars
  BY <1>6 DEF vars, QuietStep
<1>7. CASE \E answer \in Answers : Deliver(answer)
  BY <1>7 DEF Deliver
<1> QED
  BY <1>1, <1>2, <1>3, <1>4, <1>5, <1>6, <1>7 DEF Next, Step, Traverse, Finished

-----------------------------------------------------------------------------
(* Every step keeps the shape.                                             *)

LEMMA TopFits ==
  ASSUME TypeOK, FramesOK, Shape, stack # <<>>
  PROVE  FrameFits(Top, image)
<1>1. Len(stack) \in DOMAIN stack /\ Top = stack[Len(stack)]
  BY TopFacts
<1> QED
  BY <1>1 DEF Shape

LEMMA CallFits ==
  ASSUME NEW p \in Int, NEW b \in Btrees, NEW img
  PROVE  FrameFits(Call(p, b), img) /\ Call(p, b).page = p
<1>1. Call(p, b).at = "begin" /\ Call(p, b).i = 1 /\ Call(p, b).page = p
  BY DEF Call
<1> QED
  BY <1>1 DEF FrameFits, CellPlaces, OverflowPlaces

LEMMA ProceedsFits ==
  ASSUME TypeOK, FramesOK, Shape, stack # <<>>, NEW g \in Frame, GoesOn(Top, g, image)
  PROVE  FrameFits(g, image)
<1>1. Top \in Frame /\ FrameFits(Top, image) /\ FrameOK(Top, image, declined)
  BY TopFacts, TopFits
<1>2. CASE g.at = "end"
  BY <1>2 DEF FrameFits, CellPlaces, OverflowPlaces
<1>3. CASE Top.at = "begin" /\ g.at = "acquire" /\ g.i = Top.i
  BY <1>1, <1>3 DEF FrameFits, CellPlaces, OverflowPlaces
<1>4. CASE Top.at = "acquire" /\ g.at \in {"child", "cell"} /\ g.i = Top.i
           /\ (g.at = "cell" => Top.btree # "system")
  <2>1. g.i = 1 /\ g.page = Top.page /\ g.btree = Top.btree
    BY <1>1, <1>4 DEF FrameFits, GoesOn
  <2>2. Top.page \in Pages
    BY <1>1, <1>4 DEF FrameOK, Active
  <2>3. Len(ChildPointers(image, g.page)) \in Nat /\ Len(image[g.page].cells) \in Nat
    BY <2>1, <2>2, ImageFacts, LenProperties
  <2>4. 1 <= Len(ChildPointers(image, g.page)) + 1 /\ 1 <= Len(image[g.page].cells) + 1
    BY <2>3
  <2> QED
    BY <1>4, <2>1, <2>4 DEF FrameFits, CellPlaces, OverflowPlaces
<1>5. CASE Top.at \in CellPlaces /\ g.at \in CellPlaces /\ g.i = Top.i
  BY <1>1, <1>5 DEF FrameFits, CellPlaces, OverflowPlaces, GoesOn
<1> QED
  BY <1>2, <1>3, <1>4, <1>5 DEF GoesOn

(* What is taken from the request is its next page.                        *)
LEMMA NextRequested ==
  ASSUME TypeOK, Shape, todo # <<>>, todo' = Tail(todo)
  PROVE  /\ Len(todo) \in Nat \ {0} /\ Len(requested) \in Nat
         /\ Len(todo) <= Len(requested) /\ Len(todo') = Len(todo) - 1
         /\ Len(requested) - Len(todo) + 1 \in DOMAIN requested
         /\ Head(todo) = requested[Len(requested) - Len(todo) + 1]
         /\ IsEndOf(todo', requested)
<1>1. /\ todo \in Seq(Int) /\ requested \in Seq(Int) /\ IsEndOf(todo, requested)
      /\ Len(requested) \in Nat /\ DOMAIN requested = 1 .. Len(requested)
  BY LenProperties DEF TypeOK, Shape
<1>2. /\ Len(todo) \in Nat \ {0} /\ Head(todo) = todo[1]
      /\ Len(todo') = Len(todo) - 1
      /\ \A k \in 1 .. Len(todo) - 1 : todo'[k] = todo[k + 1]
  BY <1>1, EmptySeq, HeadTailProperties
<1>3. 1 \in 1 .. Len(todo) /\ Len(todo) <= Len(requested)
  BY <1>1, <1>2 DEF IsEndOf
<1>4. Head(todo) = requested[Len(requested) - Len(todo) + 1]
  BY <1>1, <1>2, <1>3 DEF IsEndOf
<1>5. Len(requested) - Len(todo) + 1 \in DOMAIN requested
  BY <1>1, <1>2, <1>3
<1>6. ASSUME NEW k \in 1 .. Len(todo')
      PROVE  todo'[k] = requested[Len(requested) - Len(todo') + k]
  <2>1. k \in 1 .. Len(todo) - 1 /\ k + 1 \in 1 .. Len(todo)
    BY <1>2
  <2>2. todo'[k] = requested[Len(requested) - Len(todo) + (k + 1)]
    BY <1>1, <1>2, <2>1 DEF IsEndOf
  <2>3. Len(requested) - Len(todo) + (k + 1) = Len(requested) - Len(todo') + k
    BY <1>1, <1>2, <2>1
  <2> QED
    BY <2>2, <2>3
<1>7. Len(todo') <= Len(requested)
  BY <1>1, <1>2, <1>3
<1>8. IsEndOf(todo', requested)
  BY <1>6, <1>7 DEF IsEndOf
<1> QED
  BY <1>1, <1>2, <1>3, <1>4, <1>5, <1>8

LEMMA ShapeStep ==
  ASSUME TypeOK, FramesOK, Shape, [Next]_vars
  PROVE  Shape'
<1>1. image' = image /\ requested' = requested
  BY ImageStays
<1>2. image \in ImageType /\ requested \in Seq(Int)
  BY DEF TypeOK
<1>3. CASE TakesRequest
  <2>1. todo # <<>> /\ todo' = Tail(todo) /\ stack' = stack
    BY <1>3 DEF TakesRequest, SkipPage, OpenFails, NextRequest
  <2>2. IsEndOf(todo', requested)
    BY <2>1, NextRequested
  <2> QED
    BY <1>1, <2>1, <2>2 DEF Shape, Forest
<1>4. CASE OpenBtree
  <2> DEFINE b == IF Head(todo) = 1 THEN "master" ELSE "user"
  <2>1. todo # <<>> /\ todo' = Tail(todo) /\ stack' = <<Call(Head(todo), b)>>
    BY <1>4 DEF OpenBtree, NextRequest
  <2>2. /\ IsEndOf(todo', requested)
        /\ Len(requested) - Len(todo) + 1 \in DOMAIN requested
        /\ Head(todo) = requested[Len(requested) - Len(todo) + 1]
    BY <2>1, NextRequested
  <2>3. Head(todo) \in Int /\ b \in Btrees
    BY <2>1, HeadTailProperties DEF TypeOK, Btrees
  <2> HIDE DEF b
  <2> DEFINE c == Call(Head(todo), b)
  <2>4. FrameFits(c, image) /\ c.page = Head(todo)
    BY <2>3, CallFits
  <2>5. LeadsTo(0, Head(todo), image, requested)
    BY <1>2, <2>2, ReferencesAre
  <2>6. stack' = <<c>>
    BY <2>1
  <2> HIDE DEF c
  <2>7. \A n \in DOMAIN stack' : n = 1 /\ stack'[n] = c
    BY <2>6
  <2>8. CallersLead(stack', image, requested)
    BY <2>4, <2>5, <2>7 DEF CallersLead
  <2>9. PagesDiffer(stack')
    BY <2>7 DEF PagesDiffer
  <2> QED
    BY <1>1, <2>2, <2>4, <2>7, <2>8, <2>9 DEF Shape
<1>5. CASE todo' = todo /\ stack' = stack
  BY <1>1, <1>5 DEF Shape, Forest
<1>6. CASE todo' = todo /\ Returns
  BY <1>1, <1>6, ReturnShape DEF Returns
<1>7. CASE todo' = todo /\ Proceeds
  <2>1. PICK g \in Frame : Become(g) /\ GoesOn(Top, g, image)
    BY <1>7 DEF Proceeds
  <2>2. stack # <<>> /\ g.page = Top.page
    BY <1>7, <2>1 DEF Proceeds, GoesOn
  <2>3. FrameFits(g, image)
    BY <2>1, <2>2, ProceedsFits
  <2> QED
    BY <1>1, <1>7, <2>1, <2>2, <2>3, BecomeShape
<1>8. ASSUME todo' = todo, NEW g \in Frame, NEW c \in Frame, CallsChild(g, c)
      PROVE  Shape'
  <2> DEFINE kids == ChildPointers(image, Top.page)
             p    == kids[Top.i]
  <2>1. /\ stack # <<>> /\ Top.page \in Pages /\ BecomeAndCall(g, c)
        /\ image[Top.page].kind \in InteriorKinds /\ Top.i \in 1 .. Len(kids)
        /\ g.page = Top.page /\ g.at = "child" /\ g.i = Top.i + 1
        /\ c = Call(p, Top.btree)
    BY <1>8 DEF CallsChild
  <2>2. kids \in Seq(Int) /\ Len(kids) \in Nat /\ Top \in Frame
    BY <2>1, ImageFacts, TopFacts, LenProperties
  <2>3. p \in Int /\ Top.btree \in Btrees
    BY <2>1, <2>2, ElementOfSeq DEF Frame
  <2>4. Top.i + 1 <= Len(kids) + 1
    BY <2>1, <2>2
  <2>5. FrameFits(g, image)
    BY <2>1, <2>4 DEF FrameFits, CellPlaces, OverflowPlaces
  <2> HIDE DEF p
  <2>6. FrameFits(c, image) /\ c.page = p
    BY <2>1, <2>3, CallFits
  <2>7. ASSUME Forest PROVE LeadsTo(Top.page, p, image, requested)
    <3>1. CASE p \notin Pages
      BY <3>1 DEF LeadsTo
    <3>2. ASSUME NEW k \in DOMAIN FileChildren(image, Top.page),
                 p = FileChildren(image, Top.page)[k]
          PROVE  LeadsTo(Top.page, p, image, requested)
      BY <1>2, <2>1, <3>2, ReferencesAre
    <3>3. \/ p \notin Pages
          \/ \E k \in DOMAIN FileChildren(image, Top.page) :
               p = FileChildren(image, Top.page)[k]
      <4>1. CASE image[Top.page].kind = "interiorTable"
        <5>1. /\ Len(kids) = Len(FileChildren(image, Top.page))
              /\ \A k \in 1 .. Len(FileChildren(image, Top.page)) :
                   \/ kids[k] = FileChildren(image, Top.page)[k]
                   \/ kids[k] \notin Pages
          BY <1>2, <2>1, <4>1, PointersAre
        <5>2. /\ DOMAIN FileChildren(image, Top.page) = 1 .. Len(image[Top.page].kids) + 1
              /\ Len(FileChildren(image, Top.page)) = Len(image[Top.page].kids) + 1
          BY <1>2, <2>1, ChildrenAre
        <5> QED
          BY <2>1, <5>1, <5>2 DEF p
      <4>2. CASE image[Top.page].kind = "interiorIndex"
        <5>1. image[Top.page].stray \notin Pages
          BY <2>1, <2>7, <4>2 DEF Forest, Sound, IsForest
        <5>2. \A k \in 1 .. Len(kids) :
                \/ kids[k] \notin Pages
                \/ kids[k] = image[Top.page].stray
                \/ \E j \in DOMAIN FileChildren(image, Top.page) :
                     kids[k] = FileChildren(image, Top.page)[j]
          BY <1>2, <2>1, <4>2, PointersAre
        <5> QED
          BY <2>1, <5>1, <5>2 DEF p
      <4> QED
        BY <2>1, <4>1, <4>2 DEF InteriorKinds
    <3> QED
      BY <3>1, <3>2, <3>3
  <2> QED
    BY <1>1, <1>8, <2>1, <2>5, <2>6, <2>7, CallShape
<1>9. ASSUME todo' = todo, NEW answer \in Answers, Deliver(answer)
      PROVE  Shape'
  <2>1. PICK g \in Frame :
          /\ AfterRow(g)
          /\ \/ Become(g) /\ g.at \in {"cell", "end"}
             \/ \E c \in Frame : CallsTree(g, c)
    BY <1>9, RowStep
  <2>2. /\ stack # <<>> /\ Top.at = "column" /\ Top.page \in Pages
        /\ image[Top.page].kind = "leafTable"
        /\ Top.i \in DOMAIN image[Top.page].cells
        /\ g.page = Top.page /\ g.btree = Top.btree /\ g.i = Top.i + 1
    BY <2>1 DEF AfterRow
  <2>3. image[Top.page].cells \in Seq(Cell) /\ CellNow \in Cell
    BY <2>2, ImageFacts DEF CellNow
  <2>4. Top.i + 1 <= Len(image[Top.page].cells) + 1
    BY <2>2, <2>3, LenProperties
  <2>5. Top.btree # "system"
    BY <2>2, TopFits DEF FrameFits, CellPlaces
  <2>6. g.at \in {"cell", "end", "subtree"}
    BY <2>1 DEF CallsTree
  <2>7. FrameFits(g, image)
    BY <2>2, <2>4, <2>5, <2>6 DEF FrameFits, CellPlaces, OverflowPlaces
  <2>8. ASSUME NEW c \in Frame, CallsTree(g, c) PROVE Shape'
    <3>1. BecomeAndCall(g, c) /\ c = Call(CellNow.root, SubtreeType(CellNow)) /\ Recursive
      BY <2>8 DEF CallsTree
    <3>2. CellNow.root \in Int /\ SubtreeType(CellNow) \in Btrees
      BY <2>3 DEF Cell, SubtreeType, Btrees
    <3>3. FrameFits(c, image) /\ c.page = CellNow.root
      BY <3>1, <3>2, CallFits
    <3>4. LeadsTo(Top.page, CellNow.root, image, requested)
      BY <1>2, <2>2, <3>1, ReferencesAre DEF CellNow
    <3> QED
      BY <1>1, <1>9, <2>2, <2>7, <3>1, <3>3, <3>4, CallShape
  <2> QED
    BY <1>1, <1>9, <2>1, <2>2, <2>7, <2>8, BecomeShape
<1> QED
  BY <1>3, <1>4, <1>5, <1>6, <1>7, <1>8, <1>9, StepIs DEF QuietStep

LEMMA FreshShape ==
  ASSUME requested \in Seq(Int), stack = <<>>, todo = requested
  PROVE  Shape
<1>1. Len(requested) \in Nat
  BY LenProperties
<1>2. IsEndOf(todo, requested)
  BY <1>1 DEF IsEndOf
<1> QED
  BY <1>2 DEF Shape, CallersLead, PagesDiffer

LEMMA InitShape == Init => Shape
<1> SUFFICES ASSUME Init PROVE Shape
  OBVIOUS
<1> QED
  BY InitialState, FreshShape DEF Init, TypeOK

(* The stack is no deeper than the file has pages, not counting a call     *)
(* that is refused because its page is none.                               *)
LEMMA DepthBound ==
  ASSUME TypeOK, FramesOK, Shape, Forest, NEW n \in DOMAIN stack
  PROVE  /\ n <= PageCount + 1
         /\ stack[n].page \in Pages => n <= PageCount
<1>1. /\ stack \in Seq(Frame) /\ Len(stack) \in Nat /\ n \in Nat
      /\ DOMAIN stack = 1 .. Len(stack) /\ PageCount \in Nat
  BY LenProperties, PageCountAssumption DEF TypeOK
<1>2. ASSUME NEW m \in DOMAIN stack, m < Len(stack)
      PROVE  stack[m].page \in Pages
  <2>1. stack[m].at \in {"child", "subtree"} /\ FrameOK(stack[m], image, declined)
    BY <1>1, <1>2 DEF FramesOK
  <2> QED
    BY <2>1 DEF FrameOK, Active
<1>3. ASSUME NEW k \in Nat, k <= Len(stack), \A m \in 1 .. k : stack[m].page \in Pages
      PROVE  k <= PageCount
  <2> SUFFICES ASSUME k > PageCount PROVE FALSE
    BY <1>1
  <2> DEFINE S == 1 .. k
             pageOf == [m \in S |-> stack[m].page]
  <2>1. pageOf \in [S -> Pages]
    BY <1>3
  <2>2. /\ IsFiniteSet(S) /\ Cardinality(S) = k
        /\ IsFiniteSet(Pages) /\ Cardinality(Pages) = PageCount
    <3>1. PageCount \in Nat \ {0} /\ k \in Nat \ {0}
      BY <1>1, PageCountAssumption
    <3> HIDE DEF pageOf
    <3>2. Cardinality(1 .. k) = k - 1 + 1 /\ IsFiniteSet(1 .. k)
      BY ONLY <3>1, FS_Interval
    <3>3. Cardinality(1 .. PageCount) = PageCount - 1 + 1 /\ IsFiniteSet(1 .. PageCount)
      BY ONLY <3>1, FS_Interval
    <3> QED
      BY <3>1, <3>2, <3>3 DEF Pages
  <2>3. \E x, y \in S : x # y /\ pageOf[x] = pageOf[y]
    <3> HIDE DEF S, pageOf
    <3>1. Cardinality(Pages) < Cardinality(S)
      BY <1>1, <2>2
    <3> QED
      BY <2>1, <2>2, <3>1, FS_PigeonHole
  <2>4. PagesDiffer(stack)
    BY DEF Shape
  <2>5. \A m \in S : m \in DOMAIN stack
    BY <1>1, <1>3
  <2> QED
    BY <1>3, <2>3, <2>4, <2>5 DEF PagesDiffer
<1>4. n - 1 <= PageCount
  <2>1. n - 1 \in Nat /\ n - 1 <= Len(stack)
    BY <1>1
  <2>2. \A m \in 1 .. n - 1 : m \in DOMAIN stack /\ m < Len(stack)
    BY <1>1
  <2> QED
    BY <1>2, <1>3, <2>1, <2>2
<1>5. ASSUME stack[n].page \in Pages PROVE n <= PageCount
  <2>1. n <= Len(stack)
    BY <1>1
  <2>2. \A m \in 1 .. n : m = n \/ (m \in DOMAIN stack /\ m < Len(stack))
    BY <1>1
  <2> QED
    BY <1>1, <1>2, <1>3, <1>5, <2>1, <2>2
<1> QED
  BY <1>1, <1>4, <1>5

-----------------------------------------------------------------------------
(* Rows that are passed over, and a row that is passed on.                 *)

(* u is what is left of t after some first rows.                           *)
Drops(t, u) == \E a \in Seq(RowId) : t = a \o u

LEMMA JoinIs ==
  ASSUME NEW S, NEW s \in Seq(S), NEW a \in Seq(S)
  PROVE  /\ s \o a \in Seq(S) /\ Len(s \o a) = Len(s) + Len(a)
         /\ DOMAIN s = 1 .. Len(s) /\ Len(s) \in Nat /\ Len(a) \in Nat
         /\ DOMAIN (s \o a) = 1 .. Len(s) + Len(a)
         /\ \A i \in DOMAIN s : i \in DOMAIN (s \o a) /\ (s \o a)[i] = s[i]
<1> DEFINE t == s \o a
<1>1. /\ t \in Seq(S) /\ Len(t) = Len(s) + Len(a)
      /\ \A i \in 1 .. Len(s) + Len(a) :
           t[i] = IF i <= Len(s) THEN s[i] ELSE a[i - Len(s)]
  BY ConcatProperties
<1>2. /\ DOMAIN s = 1 .. Len(s) /\ Len(s) \in Nat /\ Len(a) \in Nat
      /\ DOMAIN t = 1 .. Len(s) + Len(a)
  BY <1>1, LenProperties
<1> HIDE DEF t
<1>3. \A i \in DOMAIN s : i \in DOMAIN t /\ t[i] = s[i]
  BY <1>1, <1>2
<1> QED
  BY <1>1, <1>2, <1>3 DEF t

LEMMA DropsEmpty ==
  ASSUME NEW t \in Seq(RowId)
  PROVE  Drops(t, t) /\ Drops(t, <<>>)
<1>1. <<>> \in Seq(RowId) /\ <<>> \o t = t /\ t \o <<>> = t
  BY EmptySeq, ConcatEmptySeq
<1> QED
  BY <1>1 DEF Drops

LEMMA DropsMore ==
  ASSUME NEW t \in Seq(RowId), NEW u \in Seq(RowId), NEW v \in Seq(RowId)
  PROVE  /\ Drops(t, u) => Drops(t \o v, u \o v)
         /\ Drops(u \o v, v)
         /\ Drops(t, u) /\ Drops(u, v) => Drops(t, v)
<1>1. ASSUME Drops(t, u) PROVE Drops(t \o v, u \o v)
  <2>1. PICK a \in Seq(RowId) : t = a \o u
    BY <1>1 DEF Drops
  <2>2. (a \o u) \o v = a \o (u \o v)
    BY ONLY <2>1, u \in Seq(RowId), v \in Seq(RowId), Regroup, Zenon
  <2> QED
    BY <2>1, <2>2 DEF Drops
<1>2. ASSUME Drops(t, u), Drops(u, v) PROVE Drops(t, v)
  <2>1. PICK a \in Seq(RowId) : t = a \o u
    BY <1>2 DEF Drops
  <2>2. PICK b \in Seq(RowId) : u = b \o v
    BY <1>2 DEF Drops
  <2>3. (a \o b) \o v = a \o (b \o v) /\ a \o b \in Seq(RowId)
    <3>1. a \in Seq(RowId) /\ b \in Seq(RowId) /\ v \in Seq(RowId)
      OBVIOUS
    <3>2. (a \o b) \o v = a \o (b \o v)
      BY ONLY <3>1, Regroup, Zenon
    <3>3. a \o b \in Seq(RowId)
      BY ONLY <3>1, ConcatProperties
    <3> QED
      BY <3>2, <3>3
  <2> QED
    BY <2>1, <2>2, <2>3 DEF Drops
<1> QED
  BY <1>1, <1>2 DEF Drops

LEMMA SubsequenceOver ==
  ASSUME NEW s \in Seq(RowId), NEW A \in Seq(RowId), NEW a \in Seq(RowId),
         IsSubsequence(s, A)
  PROVE  IsSubsequence(s, A \o a)
<1> DEFINE t == A \o a
<1>1. \A i \in DOMAIN A : i \in DOMAIN t /\ t[i] = A[i]
  BY JoinIs
<1> HIDE DEF t
<1>2. ToSet(A) \subseteq ToSet(t)
  BY <1>1 DEF ToSet
<1>3. ASSUME NEW m \in DOMAIN s, NEW n \in DOMAIN s, m < n
      PROVE  \E i, j \in DOMAIN t : i < j /\ t[i] = s[m] /\ t[j] = s[n]
  <2>1. PICK i \in DOMAIN A, j \in DOMAIN A : i < j /\ A[i] = s[m] /\ A[j] = s[n]
    BY <1>3 DEF IsSubsequence
  <2> QED
    BY <1>1, <2>1
<1>4. ToSet(s) \subseteq ToSet(t)
  BY <1>2 DEF IsSubsequence
<1>5. IsSubsequence(s, t)
  BY <1>3, <1>4 DEF IsSubsequence
<1> QED
  BY <1>5 DEF t

LEMMA SubsequenceOn ==
  ASSUME NEW s \in Seq(RowId), NEW A \in Seq(RowId), NEW r \in RowId,
         IsSubsequence(s, A)
  PROVE  IsSubsequence(Append(s, r), A \o <<r>>)
<1> DEFINE one == <<r>>
           t == A \o one
           u == Append(s, r)
           L == Len(A)
           N == Len(s)
<1>1. one \in Seq(RowId) /\ Len(one) = 1 /\ one[1] = r
  OBVIOUS
<1>2. /\ \A i \in DOMAIN A : i \in DOMAIN t /\ t[i] = A[i]
      /\ DOMAIN A = 1 .. L /\ L \in Nat /\ DOMAIN t = 1 .. L + 1
  <2> HIDE DEF one
  <2>1. /\ \A i \in DOMAIN A : i \in DOMAIN t /\ t[i] = A[i]
        /\ DOMAIN A = 1 .. Len(A) /\ Len(A) \in Nat
        /\ DOMAIN t = 1 .. Len(A) + Len(one)
    <3>1. A \in Seq(RowId) /\ one \in Seq(RowId)
      BY <1>1
    <3> QED
      BY ONLY <3>1, JoinIs
  <2> HIDE DEF t
  <2> QED
    BY <1>1, <2>1
<1>3. t[L + 1] = r
  <2> HIDE DEF one
  <2>1. \A i \in 1 .. Len(A) + Len(one) :
           t[i] = IF i <= Len(A) THEN A[i] ELSE one[i - Len(A)]
    BY ONLY <1>1, A \in Seq(RowId), ConcatProperties
  <2> HIDE DEF t
  <2>2. L + 1 \in 1 .. Len(A) + Len(one) /\ ~ (L + 1 <= Len(A)) /\ L + 1 - Len(A) = 1
    BY <1>1, <1>2
  <2> QED
    BY <1>1, <2>1, <2>2
<1>4. /\ DOMAIN u = 1 .. N + 1 /\ N \in Nat /\ DOMAIN s = 1 .. N
      /\ u[N + 1] = r /\ \A n \in 1 .. N : u[n] = s[n]
  <2>1. /\ u \in Seq(RowId) /\ Len(u) = Len(s) + 1
        /\ \A n \in 1 .. Len(s) : u[n] = s[n]
        /\ u[Len(s) + 1] = r
    BY AppendProperties
  <2>2. DOMAIN u = 1 .. Len(s) + 1 /\ Len(s) \in Nat /\ DOMAIN s = 1 .. Len(s)
    BY <2>1, LenProperties
  <2> QED
    BY <2>1, <2>2
<1> HIDE DEF t, u, L, N
<1>5. L + 1 \in DOMAIN t /\ \A i \in DOMAIN A : i < L + 1
  BY <1>2
<1>6. \A n \in DOMAIN u : n = N + 1 \/ (n \in DOMAIN s /\ n < N + 1)
  BY <1>4
<1>7. \A n \in DOMAIN s : \E i \in DOMAIN A : A[i] = s[n]
  BY DEF IsSubsequence, ToSet
<1>8. ASSUME NEW m \in DOMAIN u, NEW n \in DOMAIN u, m < n
      PROVE  \E i, j \in DOMAIN t : i < j /\ t[i] = u[m] /\ t[j] = u[n]
  <2>1. m \in DOMAIN s
    BY <1>4, <1>8
  <2>2. PICK i \in DOMAIN A : A[i] = s[m]
    BY <1>7, <2>1
  <2>3. CASE n = N + 1
    BY <1>2, <1>3, <1>4, <1>5, <2>1, <2>2, <2>3
  <2>4. CASE n \in DOMAIN s
    <3>1. PICK j \in DOMAIN A, k \in DOMAIN A : j < k /\ A[j] = s[m] /\ A[k] = s[n]
      BY <1>8, <2>1, <2>4 DEF IsSubsequence
    <3> QED
      BY <1>2, <1>4, <2>1, <2>4, <3>1
  <2> QED
    BY <1>6, <2>3, <2>4
<1>9. ToSet(u) \subseteq ToSet(t)
  <2>1. \A n \in DOMAIN u : \E i \in DOMAIN t : t[i] = u[n]
    BY <1>2, <1>3, <1>4, <1>5, <1>6, <1>7
  <2> QED
    BY <2>1 DEF ToSet
<1>10. IsSubsequence(u, t)
  BY <1>8, <1>9 DEF IsSubsequence
<1> QED
  BY <1>10 DEF u, t

(* The rows in `out` are among those of the walk that come before t.       *)
Passed(img, req, out, t) ==
  \E A \in Seq(RowId) :
    /\ Walk(img, req, {}, AllCells(img)) = A \o t
    /\ IsSubsequence(out, A)

LEMMA PassOver ==
  ASSUME NEW img, NEW req, NEW out \in Seq(RowId),
         NEW t \in Seq(RowId), NEW u \in Seq(RowId),
         Passed(img, req, out, t), Drops(t, u)
  PROVE  Passed(img, req, out, u)
<1> DEFINE w == Walk(img, req, {}, AllCells(img))
<1>1. PICK A \in Seq(RowId) : w = A \o t /\ IsSubsequence(out, A)
  BY DEF Passed
<1>2. PICK a \in Seq(RowId) : t = a \o u
  BY DEF Drops
<1> HIDE DEF w
<1>3. (A \o a) \o u = A \o (a \o u) /\ A \o a \in Seq(RowId)
  <2>1. A \in Seq(RowId) /\ a \in Seq(RowId) /\ u \in Seq(RowId)
    OBVIOUS
  <2>2. (A \o a) \o u = A \o (a \o u)
    BY ONLY <2>1, Regroup, Zenon
  <2>3. A \o a \in Seq(RowId)
    BY ONLY <2>1, ConcatProperties
  <2> QED
    BY <2>2, <2>3
<1>4. IsSubsequence(out, A \o a)
  BY <1>1, SubsequenceOver
<1>5. w = (A \o a) \o u
  BY <1>1, <1>2, <1>3
<1> QED
  BY <1>3, <1>4, <1>5 DEF Passed, w

LEMMA PassOn ==
  ASSUME NEW img, NEW req, NEW out \in Seq(RowId), NEW r \in RowId,
         NEW u \in Seq(RowId), Passed(img, req, out, <<r>> \o u)
  PROVE  Passed(img, req, Append(out, r), u)
<1> DEFINE w == Walk(img, req, {}, AllCells(img))
           one == <<r>>
<1>1. PICK A \in Seq(RowId) : w = A \o (one \o u) /\ IsSubsequence(out, A)
  BY DEF Passed
<1>2. one \in Seq(RowId)
  OBVIOUS
<1>3. IsSubsequence(Append(out, r), A \o one)
  BY <1>1, SubsequenceOn
<1> HIDE DEF w, one
<1>4. (A \o one) \o u = A \o (one \o u) /\ A \o one \in Seq(RowId)
  <2>1. A \in Seq(RowId) /\ one \in Seq(RowId) /\ u \in Seq(RowId)
    BY <1>2
  <2>2. (A \o one) \o u = A \o (one \o u)
    BY ONLY <2>1, Regroup, Zenon
  <2>3. A \o one \in Seq(RowId)
    BY ONLY <2>1, ConcatProperties
  <2> QED
    BY <2>2, <2>3
<1>5. w = (A \o one) \o u
  BY <1>1, <1>4
<1> QED
  BY <1>3, <1>4, <1>5 DEF Passed, w

-----------------------------------------------------------------------------
(* The rows that a call still has to deliver, when d more levels of calls  *)
(* fit on the stack.                                                       *)

Levels(img)             == Walks(img, {}, AllCells(img))
PartsAt(img, p, b, d)   == Parts(img, AllCells(img), Levels(img)[d - 1], p, b)
LeftFrom(img, p, b, d, i) == RestOf(PartsAt(img, p, b, d))[i]

Left(f, d, img) ==
  IF f.btree = "system" \/ f.at = "end" THEN <<>>
  ELSE IF f.at \in {"begin", "acquire"} THEN Levels(img)[d][<<f.page, f.btree>>]
  ELSE IF img[f.page].kind = "interiorIndex" THEN <<>>
  ELSE LeftFrom(img, f.page, f.btree, d, f.i)

LEMMA LevelsAre ==
  ASSUME NEW img \in ImageType, NEW d \in 0 .. PageCount, NEW p \in Int,
         NEW b \in {"master", "user"}
  PROVE  /\ AllCells(img) \in Counts(img)
         /\ Levels(img)[d] \in [Trees -> Seq(RowId)]
         /\ Levels(img)[d][<<p, b>>] \in Seq(RowId)
         /\ d = 0 \/ p \notin Pages => Levels(img)[d][<<p, b>>] = <<>>
<1>1. AllCells(img) \in Counts(img)
  <2>1. ASSUME NEW x \in Pages PROVE Len(img[x].cells) \in Nat
    BY LenProperties DEF ImageType, Page
  <2> QED
    BY <2>1 DEF AllCells, Counts
<1> DEFINE L == Levels(img)
           x == <<p, b>>
<1>2. /\ \A e \in 0 .. PageCount : L[e] \in [Trees -> Seq(RowId)]
      /\ \A y \in Trees : L[0][y] = <<>>
      /\ \A e \in 0 .. PageCount : \A y \in Trees : y[1] \notin Pages \ {} => L[e][y] = <<>>
  BY <1>1, WalksAre DEF Levels
<1>3. x \in Trees /\ x[1] = p
  BY DEF Trees
<1> HIDE DEF L, x
<1>4. L[d] \in [Trees -> Seq(RowId)] /\ L[d][x] \in Seq(RowId)
      /\ (d = 0 \/ p \notin Pages => L[d][x] = <<>>)
  BY <1>2, <1>3
<1> QED
  BY <1>1, <1>4 DEF L, x

(* What a call of page p, at its i-th child or cell, has left.             *)
LeftFacts(img, p, b, d, q) ==
  /\ Len(q) \in Nat
  /\ Levels(img)[d][<<p, b>>] = LeftFrom(img, p, b, d, 1)
  /\ \A k \in 1 .. Len(q) + 1 : LeftFrom(img, p, b, d, k) \in Seq(RowId)
  /\ \A k \in 1 .. Len(q) :
       /\ q[k] \in Seq(RowId)
       /\ LeftFrom(img, p, b, d, k) = q[k] \o LeftFrom(img, p, b, d, k + 1)
  /\ ArePartsOf(q, img, AllCells(img), Levels(img)[d - 1], p, b)
  /\ img[p].kind \notin {"interiorTable", "leafTable"} =>
       Levels(img)[d][<<p, b>>] = <<>>

LEMMA LeftFromIs ==
  ASSUME NEW img \in ImageType, NEW p \in Pages, NEW b \in {"master", "user"},
         NEW d \in 1 .. PageCount
  PROVE  LeftFacts(img, p, b, d, PartsAt(img, p, b, d))
<1> DEFINE c == AllCells(img)
           sub == Levels(img)[d - 1]
           q == PartsAt(img, p, b, d)
           x == <<p, b>>
<1>1. d \in 0 .. PageCount /\ d - 1 \in 0 .. PageCount /\ p \in Int
  BY PageCountAssumption DEF Pages
<1>2. c \in Counts(img) /\ sub \in [Trees -> Seq(RowId)]
  BY <1>1, LevelsAre
<1>3. q = Parts(img, c, sub, p, b)
  BY DEF PartsAt
<1>5. Levels(img)[d][<<p, b>>] = FlattenSeq(q)
  <2>1. x \in Trees /\ x[1] = p /\ x[2] = b /\ x[1] \in Pages \ {}
    BY <1>1 DEF Trees
  <2>2. \A e \in 1 .. PageCount : \A y \in Trees : y[1] \in Pages \ {} =>
          Levels(img)[e][y] = FlattenSeq(Parts(img, c, Levels(img)[e - 1], y[1], y[2]))
    BY <1>2, WalksAre DEF Levels
  <2> HIDE DEF x, c
  <2>3. Levels(img)[d][x] = FlattenSeq(Parts(img, c, Levels(img)[d - 1], x[1], x[2]))
    BY <2>1, <2>2
  <2> QED
    BY <1>3, <2>1, <2>3 DEF x
<1>6. ArePartsOf(q, img, c, sub, p, b)
  <2> HIDE DEF c, sub, q
  <2> QED
    BY <1>2, <1>3, PartsAre
<1> HIDE DEF q
<1>7. /\ FlattenSeq(q) = RestOf(q)[1]
      /\ \A k \in 1 .. Len(q) + 1 : RestOf(q)[k] \in Seq(RowId)
      /\ RestOf(q)[Len(q) + 1] = <<>>
      /\ \A k \in 1 .. Len(q) : /\ q[k] \in Seq(RowId)
                                /\ RestOf(q)[k] = q[k] \o RestOf(q)[k + 1]
  BY <1>6, RestIs DEF ArePartsOf
<1>8. Len(q) \in Nat
  BY <1>6, LenProperties DEF ArePartsOf
<1>9. ASSUME img[p].kind \notin {"interiorTable", "leafTable"}
      PROVE  FlattenSeq(q) = <<>>
  <2>1. Len(q) = 0
    BY <1>6, <1>9, EmptySeq DEF ArePartsOf
  <2>2. Len(q) + 1 = 1
    BY <2>1
  <2> QED
    BY <1>7, <2>2
<1>10. \A k : LeftFrom(img, p, b, d, k) = RestOf(q)[k]
  BY DEF LeftFrom, q
<1> QED
  BY <1>5, <1>6, <1>7, <1>8, <1>9, <1>10 DEF LeftFacts, q

-----------------------------------------------------------------------------
(* What a step takes from the rows that a call has left.                   *)

(* Deep enough: a call of a page of the file has a level below it.         *)
Level(f, d) == d \in 0 .. PageCount /\ (f.page \in Pages => d # 0)

LEMMA LeftOfCall ==
  ASSUME NEW img \in ImageType, NEW p \in Int, NEW b \in Btrees, NEW d \in 0 .. PageCount
  PROVE  /\ Left(Call(p, b), d, img) =
              IF b = "system" THEN <<>> ELSE Levels(img)[d][<<p, b>>]
         /\ Left(Call(p, b), d, img) \in Seq(RowId)
<1>1. Call(p, b).at = "begin" /\ Call(p, b).page = p /\ Call(p, b).btree = b
  BY DEF Call
<1>2. Left(Call(p, b), d, img) = IF b = "system" THEN <<>> ELSE Levels(img)[d][<<p, b>>]
  BY <1>1 DEF Left
<1>3. b # "system" => Levels(img)[d][<<p, b>>] \in Seq(RowId)
  <2>1. b # "system" => b \in {"master", "user"}
    BY DEF Btrees
  <2> QED
    BY <2>1, LevelsAre
<1>4. <<>> \in Seq(RowId)
  BY EmptySeq
<1> QED
  BY <1>2, <1>3, <1>4

LEMMA LeftIs ==
  ASSUME NEW img \in ImageType, NEW f \in Frame, NEW d, Level(f, d), NEW out,
         FrameOK(f, img, out), FrameFits(f, img)
  PROVE  Left(f, d, img) \in Seq(RowId)
<1>1. <<>> \in Seq(RowId)
  BY EmptySeq
<1>2. CASE f.btree = "system" \/ f.at = "end"
  BY <1>1, <1>2 DEF Left
<1>3. CASE f.btree # "system" /\ f.at \in {"begin", "acquire"}
  <2>1. f.page \in Int /\ f.btree \in {"master", "user"} /\ d \in 0 .. PageCount
    BY <1>3 DEF Frame, Btrees, Level
  <2> QED
    BY <1>3, <2>1, LevelsAre DEF Left
<1>4. CASE f.btree # "system" /\ f.at \in {"child"} \cup CellPlaces
  <2>1. f.page \in Pages
    BY <1>4 DEF FrameOK, Active, CellPlaces, OverflowPlaces
  <2>2. d \in 1 .. PageCount /\ f.btree \in {"master", "user"} /\ f.i \in Nat \ {0}
    BY <1>4, <2>1, PageCountAssumption DEF Frame, Btrees, Level
  <2> DEFINE q == PartsAt(img, f.page, f.btree, d)
  <2>3. CASE img[f.page].kind = "interiorIndex"
    BY <1>1, <1>4, <2>3 DEF Left, CellPlaces, OverflowPlaces
  <2>4. CASE img[f.page].kind # "interiorIndex"
    <3>1. f.i \in 1 .. Len(q) + 1
      <4>1. CASE f.at = "child"
        <5>1. img[f.page].kind = "interiorTable"
          BY <2>4, <4>1 DEF FrameOK, InteriorKinds
        <5>2. /\ Len(q) = Len(FileChildren(img, f.page))
              /\ Len(ChildPointers(img, f.page)) = Len(FileChildren(img, f.page))
              /\ Len(q) \in Nat
          <6>1. PICK p \in Pages, b \in {"master", "user"} : p = f.page /\ b = f.btree
            BY <2>1, <2>2
          <6> DEFINE r == PartsAt(img, p, b, d)
          <6>4. LeftFacts(img, p, b, d, r)
            BY <2>2, <6>1, LeftFromIs
          <6> HIDE DEF r
          <6>2. Len(r) = Len(FileChildren(img, p)) /\ Len(r) \in Nat
            BY <5>1, <6>1, <6>4 DEF LeftFacts, ArePartsOf
          <6>3. Len(ChildPointers(img, p)) = Len(FileChildren(img, p))
            BY <5>1, <6>1, PointersAre
          <6> QED
            BY <6>1, <6>2, <6>3 DEF r
        <5>3. f.i <= Len(ChildPointers(img, f.page)) + 1
          BY <4>1 DEF FrameFits
        <5> HIDE DEF q
        <5> QED
          BY <2>2, <5>2, <5>3
      <4>2. CASE f.at \in CellPlaces
        <5>1. img[f.page].kind = "leafTable"
          BY <4>2 DEF FrameOK, CellPlaces, OverflowPlaces
        <5>2. Len(q) = Len(img[f.page].cells) /\ Len(q) \in Nat
          <6>1. PICK p \in Pages, b \in {"master", "user"} : p = f.page /\ b = f.btree
            BY <2>1, <2>2
          <6> DEFINE r == PartsAt(img, p, b, d)
          <6>4. LeftFacts(img, p, b, d, r)
            BY <2>2, <6>1, LeftFromIs
          <6> HIDE DEF r
          <6>2. Len(r) = Len(img[p].cells) /\ Len(r) \in Nat
            BY <5>1, <6>1, <6>4 DEF LeftFacts, ArePartsOf, AllCells
          <6> QED
            BY <6>1, <6>2 DEF r
        <5>3. f.i <= Len(img[f.page].cells) + 1
          BY <4>2 DEF FrameFits
        <5> HIDE DEF q
        <5> QED
          BY <2>2, <5>2, <5>3
      <4> QED
        BY <1>4, <4>1, <4>2
    <3>2. LeftFrom(img, f.page, f.btree, d, f.i) \in Seq(RowId)
      BY <2>1, <2>2, <3>1, LeftFromIs DEF LeftFacts
    <3>3. Left(f, d, img) = LeftFrom(img, f.page, f.btree, d, f.i)
      BY <1>4, <2>4 DEF Left, CellPlaces, OverflowPlaces
    <3> QED
      BY <3>2, <3>3
  <2> QED
    BY <2>3, <2>4
<1> QED
  BY <1>2, <1>3, <1>4 DEF Frame, Places, CellPlaces, OverflowPlaces

LEMMA LeftGoesOn ==
  ASSUME NEW img \in ImageType, NEW f \in Frame, NEW g \in Frame, NEW d, Level(f, d),
         NEW out, FrameOK(f, img, out), FrameFits(f, img), GoesOn(f, g, img)
  PROVE  /\ Left(f, d, img) \in Seq(RowId) /\ Left(g, d, img) \in Seq(RowId)
         /\ Drops(Left(f, d, img), Left(g, d, img))
<1>1. Left(f, d, img) \in Seq(RowId)
  BY LeftIs
<1>2. g.page = f.page /\ g.btree = f.btree
  BY DEF GoesOn
<1>3. SUFFICES Left(g, d, img) = <<>> \/ Left(g, d, img) = Left(f, d, img)
  BY <1>1, DropsEmpty, EmptySeq
<1>4. CASE g.at = "end" \/ f.btree = "system"
  BY <1>2, <1>4 DEF Left
<1>5. CASE f.at = "begin" /\ g.at = "acquire" /\ g.i = f.i
  BY <1>2, <1>5 DEF Left
<1>6. CASE f.at \in CellPlaces /\ g.at \in CellPlaces /\ g.i = f.i
  BY <1>2, <1>6 DEF Left, CellPlaces, OverflowPlaces
<1>7. CASE f.btree # "system" /\ f.at = "acquire" /\ g.at \in {"child", "cell"} /\ g.i = f.i
  <2>1. f.i = 1 /\ f.page \in Pages
    BY <1>7 DEF FrameFits, FrameOK, Active
  <2>2. d \in 1 .. PageCount /\ f.btree \in {"master", "user"}
    BY <1>7, <2>1, PageCountAssumption DEF Frame, Btrees, Level
  <2>3. Levels(img)[d][<<f.page, f.btree>>] = LeftFrom(img, f.page, f.btree, d, 1)
    BY <2>1, <2>2, LeftFromIs DEF LeftFacts
  <2> QED
    BY <1>2, <1>7, <2>1, <2>3 DEF Left
<1> QED
  BY <1>4, <1>5, <1>6, <1>7 DEF GoesOn

(* On a forest no index page leads to a row.                               *)
IndexesApart(img) ==
  \A p \in Pages : img[p].kind = "interiorIndex" =>
    /\ img[p].stray \notin Pages
    /\ \A k \in DOMAIN FileChildren(img, p) :
         FileChildren(img, p)[k] \in Pages =>
           img[FileChildren(img, p)[k]].kind \in {"interiorIndex", "leafIndex", "other"}

LEMMA NoRowsBelow ==
  ASSUME NEW img \in ImageType, IndexesApart(img), NEW p \in Pages,
         img[p].kind = "interiorIndex", NEW k \in 1 .. Len(ChildPointers(img, p)),
         ChildPointers(img, p)[k] \in Int,
         NEW b \in {"master", "user"}, NEW d \in 0 .. PageCount
  PROVE  Levels(img)[d][<<ChildPointers(img, p)[k], b>>] = <<>>
<1> DEFINE c == ChildPointers(img, p)[k]
<1>1. \/ c \notin Pages
      \/ \E j \in DOMAIN FileChildren(img, p) : c = FileChildren(img, p)[j]
  <2>1. \A n \in 1 .. Len(ChildPointers(img, p)) :
          \/ ChildPointers(img, p)[n] \notin Pages
          \/ ChildPointers(img, p)[n] = img[p].stray
          \/ \E j \in DOMAIN FileChildren(img, p) :
               ChildPointers(img, p)[n] = FileChildren(img, p)[j]
    BY PointersAre
  <2>2. img[p].stray \notin Pages
    BY DEF IndexesApart
  <2> QED
    BY <2>1, <2>2
<1>2. c \in Pages => img[c].kind \in {"interiorIndex", "leafIndex", "other"}
  BY <1>1 DEF IndexesApart
<1>3. c \in Int
  OBVIOUS
<1> HIDE DEF c
<1>4. CASE d = 0 \/ c \notin Pages
  BY <1>3, <1>4, LevelsAre DEF c
<1>5. CASE d # 0 /\ c \in Pages
  <2>1. d \in 1 .. PageCount /\ img[c].kind \notin {"interiorTable", "leafTable"}
    BY <1>2, <1>5, PageCountAssumption
  <2>2. LeftFacts(img, c, b, d, PartsAt(img, c, b, d))
    BY <1>5, <2>1, LeftFromIs
  <2>3. Levels(img)[d][<<c, b>>] = <<>>
    BY <2>1, <2>2 DEF LeftFacts
  <2> QED
    BY <2>3 DEF c
<1> QED
  BY <1>4, <1>5

LEMMA LeftChild ==
  ASSUME NEW img \in ImageType, IndexesApart(img),
         NEW f \in Frame, NEW g, NEW c, NEW d, Level(f, d),
         f.at = "child", f.page \in Pages, img[f.page].kind \in InteriorKinds,
         f.i \in 1 .. Len(ChildPointers(img, f.page)),
         c = Call(ChildPointers(img, f.page)[f.i], f.btree), c \in Frame,
         g.page = f.page, g.btree = f.btree, g.at = "child", g.i = f.i + 1
  PROVE  /\ d - 1 \in 0 .. PageCount
         /\ Left(f, d, img) \in Seq(RowId) /\ Left(g, d, img) \in Seq(RowId)
         /\ Left(c, d - 1, img) \in Seq(RowId)
         /\ Drops(Left(f, d, img), Left(c, d - 1, img) \o Left(g, d, img))
<1>1. d \in 1 .. PageCount /\ d - 1 \in 0 .. PageCount
  BY PageCountAssumption DEF Level
<1> DEFINE cp == ChildPointers(img, f.page)
<1>2. <<>> \in Seq(RowId) /\ <<>> \o <<>> = <<>>
  BY EmptySeq, ConcatEmptySeq
<1>3. c.page = cp[f.i] /\ c.page \in Int /\ f.btree \in Btrees
  BY DEF Call, Frame
<1>4. /\ Left(c, d - 1, img) = IF f.btree = "system" THEN <<>>
                               ELSE Levels(img)[d - 1][<<cp[f.i], f.btree>>]
      /\ Left(c, d - 1, img) \in Seq(RowId)
  BY <1>1, <1>3, LeftOfCall
<1> HIDE DEF cp
<1>5. CASE f.btree = "system"
  <2>1. /\ Left(f, d, img) = <<>> /\ Left(g, d, img) = <<>>
        /\ Left(c, d - 1, img) = <<>>
    BY <1>4, <1>5 DEF Left
  <2> QED
    BY <1>1, <1>2, <2>1, DropsEmpty
<1>6. CASE f.btree # "system" /\ img[f.page].kind = "interiorIndex"
  <2>1. f.btree \in {"master", "user"}
    BY <1>3, <1>6 DEF Btrees
  <2>2. Levels(img)[d - 1][<<cp[f.i], f.btree>>] = <<>>
    <3>1. PICK p \in Pages, b \in {"master", "user"}, k \in 1 .. Len(ChildPointers(img, f.page)) :
            p = f.page /\ b = f.btree /\ k = f.i
      BY <2>1
    <3>2. ChildPointers(img, p)[k] \in Int
      BY <1>3, <3>1 DEF cp
    <3>3. Levels(img)[d - 1][<<ChildPointers(img, p)[k], b>>] = <<>>
      BY <1>1, <1>6, <3>1, <3>2, NoRowsBelow
    <3> QED
      BY <3>1, <3>3 DEF cp
  <2>3. /\ Left(f, d, img) = <<>> /\ Left(g, d, img) = <<>>
        /\ Left(c, d - 1, img) = <<>>
    BY <1>4, <1>6, <2>2 DEF Left
  <2> QED
    BY <1>1, <1>2, <2>3, DropsEmpty
<1>7. CASE f.btree # "system" /\ img[f.page].kind = "interiorTable"
  <2>1. PICK p \in Pages, b \in {"master", "user"}, k \in Nat :
          p = f.page /\ b = f.btree /\ k = f.i
    BY <1>3, <1>7 DEF Btrees, Frame
  <2> DEFINE q == PartsAt(img, p, b, d)
             one  == q[k]
             rest == LeftFrom(img, p, b, d, k + 1)
  <2>2. LeftFacts(img, p, b, d, q)
    BY <1>1, <2>1, LeftFromIs
  <2>3. /\ Len(cp) = Len(FileChildren(img, p))
        /\ \A j \in 1 .. Len(FileChildren(img, p)) :
             cp[j] = FileChildren(img, p)[j] \/ cp[j] \notin Pages
    BY <1>7, <2>1, PointersAre DEF cp
  <2> HIDE DEF q
  <2>4. /\ Len(q) = Len(FileChildren(img, p)) /\ Len(q) \in Nat
        /\ \A j \in 1 .. Len(q) : q[j] = Levels(img)[d - 1][<<FileChildren(img, p)[j], b>>]
    BY <1>7, <2>1, <2>2 DEF LeftFacts, ArePartsOf
  <2>5. k \in 1 .. Len(q) /\ k + 1 \in 1 .. Len(q) + 1
    <3>1. k \in 1 .. Len(cp)
      BY <2>1 DEF cp
    <3> QED
      BY <2>1, <2>3, <2>4, <3>1
  <2>6. /\ one \in Seq(RowId) /\ rest \in Seq(RowId)
        /\ LeftFrom(img, p, b, d, k) = one \o rest
    BY <2>2, <2>5 DEF LeftFacts
  <2>7. Left(f, d, img) = LeftFrom(img, p, b, d, k) /\ Left(g, d, img) = rest
    BY <1>7, <2>1 DEF Left
  <2>8. Left(c, d - 1, img) = one \/ Left(c, d - 1, img) = <<>>
    <3>1. Left(c, d - 1, img) = Levels(img)[d - 1][<<cp[k], b>>]
      BY <1>4, <1>7, <2>1
    <3>2. CASE cp[k] = FileChildren(img, p)[k]
      BY <2>4, <2>5, <3>1, <3>2
    <3>3. CASE cp[k] \notin Pages
      <4>1. cp[k] \in Int
        BY <1>3, <2>1
      <4>2. Levels(img)[d - 1][<<cp[k], b>>] = <<>>
        BY <1>1, <2>1, <3>3, <4>1, LevelsAre
      <4> QED
        BY <3>1, <4>2
    <3> QED
      BY <2>3, <2>4, <2>5, <3>2, <3>3
  <2> HIDE DEF one, rest
  <2>9. one \o rest \in Seq(RowId) /\ Drops(one \o rest, rest)
        /\ Drops(one \o rest, one \o rest) /\ <<>> \o rest = rest
    BY <2>6, ConcatProperties, ConcatEmptySeq, DropsEmpty, DropsMore
  <2> QED
    BY <1>1, <1>4, <2>6, <2>7, <2>8, <2>9
<1> QED
  BY <1>5, <1>6, <1>7 DEF InteriorKinds

(* Of the rows that a call at a row has left, that row is the first; then  *)
(* come those of the table it names.                                       *)
RowLeft(f, g, d, img) ==
  /\ [page |-> f.page, i |-> f.i] \in RowId /\ d - 1 \in 0 .. PageCount
  /\ \E q, rest \in Seq(RowId) :
       /\ Left(f, d, img) = <<[page |-> f.page, i |-> f.i]>> \o (q \o rest)
       /\ g.at = "end" => Left(g, d, img) = <<>>
       /\ g.at \in {"cell", "subtree"} => Left(g, d, img) = rest
       /\ Recursive /\ f.btree = "master" /\ img[f.page].cells[f.i].root # 0
            => Left(Call(img[f.page].cells[f.i].root,
                         SubtreeType(img[f.page].cells[f.i])), d - 1, img) = q

LEMMA LeftRow ==
  ASSUME NEW img \in ImageType, NEW f \in Frame, NEW g, NEW d, Level(f, d),
         f.at = "column", f.page \in Pages, img[f.page].kind = "leafTable",
         f.btree # "system", f.i \in DOMAIN img[f.page].cells,
         g.page = f.page, g.btree = f.btree, g.i = f.i + 1
  PROVE  RowLeft(f, g, d, img)
<1>1. d \in 1 .. PageCount /\ d - 1 \in 0 .. PageCount
  BY PageCountAssumption DEF Level
<1>2. PICK p \in Pages, b \in {"master", "user"}, k \in Nat \ {0} :
        p = f.page /\ b = f.btree /\ k = f.i
  BY DEF Btrees, Frame
<1> DEFINE cell == img[p].cells[k]
           row  == <<[page |-> p, i |-> k]>>
           tree == IF b = "master" /\ Leads(cell)
                   THEN Levels(img)[d - 1][<<cell.root, RootType(cell.root)>>]
                   ELSE <<>>
           rest == LeftFrom(img, p, b, d, k + 1)
           q    == PartsAt(img, p, b, d)
<1>3. LeftFacts(img, p, b, d, q)
  BY <1>1, <1>2, LeftFromIs
<1>4. cell \in Cell /\ img[p].cells \in Seq(Cell) /\ k \in 1 .. Len(img[p].cells)
  BY <1>2, LenProperties, ElementOfSeq DEF ImageType, Page
<1>5. cell.root \in Int /\ cell.sys \in BOOLEAN
  BY <1>4 DEF Cell
<1> HIDE DEF q
<1>6. /\ Len(q) = Len(img[p].cells) /\ Len(q) \in Nat
      /\ q[k] = row \o tree
  <2>1. ArePartsOf(q, img, AllCells(img), Levels(img)[d - 1], p, b)
        /\ Len(q) \in Nat /\ img[p].kind = "leafTable"
    BY <1>2, <1>3 DEF LeftFacts
  <2>2. Len(q) = Len(img[p].cells)
    BY <2>1 DEF ArePartsOf, AllCells
  <2> QED
    BY <1>4, <2>1, <2>2 DEF ArePartsOf
<1>7. k \in 1 .. Len(q) /\ k + 1 \in 1 .. Len(q) + 1
  <2>1. Len(q) = Len(img[p].cells) /\ Len(q) \in Nat /\ k \in 1 .. Len(img[p].cells)
    BY <1>4, <1>6
  <2> QED
    BY ONLY <2>1
<1>8. rest \in Seq(RowId) /\ LeftFrom(img, p, b, d, k) = (row \o tree) \o rest
  BY <1>3, <1>6, <1>7 DEF LeftFacts
<1>9. tree \in Seq(RowId)
  <2>1. RootType(cell.root) \in {"master", "user"}
    BY DEF RootType
  <2> HIDE DEF cell
  <2>2. Levels(img)[d - 1][<<cell.root, RootType(cell.root)>>] \in Seq(RowId)
    BY <1>1, <1>5, <2>1, LevelsAre
  <2>3. <<>> \in Seq(RowId)
    BY EmptySeq
  <2> QED
    BY <2>2, <2>3
<1>10. row \in Seq(RowId) /\ [page |-> p, i |-> k] \in RowId
  BY <1>2 DEF RowId
<1>11. Left(f, d, img) = LeftFrom(img, p, b, d, k)
  BY <1>2 DEF Left
<1>12. /\ g.at = "end" => Left(g, d, img) = <<>>
       /\ g.at \in {"cell", "subtree"} => Left(g, d, img) = rest
  BY <1>2 DEF Left
<1>13. ASSUME Recursive, b = "master", cell.root # 0
       PROVE  Left(Call(cell.root, SubtreeType(cell)), d - 1, img) = tree
  <2>1. SubtreeType(cell) \in Btrees
    BY DEF SubtreeType, Btrees
  <2>2. Left(Call(cell.root, SubtreeType(cell)), d - 1, img) =
          IF SubtreeType(cell) = "system" THEN <<>>
          ELSE Levels(img)[d - 1][<<cell.root, SubtreeType(cell)>>]
    <3> HIDE DEF cell
    <3> QED
      BY <1>1, <1>5, <2>1, LeftOfCall
  <2>3. CASE cell.sys
    BY <2>2, <2>3 DEF SubtreeType, Leads
  <2>4. CASE ~ cell.sys
    <3>1. SubtreeType(cell) = RootType(cell.root) /\ SubtreeType(cell) # "system"
      BY <2>4 DEF SubtreeType, RootType
    <3>2. Leads(cell)
      BY <1>13, <2>4 DEF Leads
    <3> HIDE DEF cell
    <3> QED
      BY <1>13, <2>2, <3>1, <3>2
  <2> QED
    BY <2>3, <2>4
<1> HIDE DEF row, tree, rest
<1>14. (row \o tree) \o rest = row \o (tree \o rest)
  BY ONLY <1>8, <1>9, <1>10, Regroup, Zenon
<1>15. Left(f, d, img) = row \o (tree \o rest)
  BY <1>8, <1>11, <1>14
<1> QED
  BY <1>1, <1>2, <1>8, <1>9, <1>10, <1>12, <1>13, <1>15 DEF row, RowLeft


-----------------------------------------------------------------------------
(* The rows that the stack and the rest of the request have left.          *)

Asked(img, req) ==
  [k \in DOMAIN req |-> Levels(img)[PageCount][<<req[k], RootType(req[k])>>]]

(* T[n] is what the requests and the first n calls of st have left: the    *)
(* innermost call delivers first.                                          *)
Waits(T, img, req, st, m, td) ==
  /\ T \in [0 .. m -> Seq(RowId)]
  /\ T[0] = RestOf(Asked(img, req))[Len(req) - Len(td) + 1]
  /\ \A n \in 1 .. m : T[n] = Left(st[n], PageCount + 1 - n, img) \o T[n - 1]

Pending(img, req, st, td, out) ==
  \E T : Waits(T, img, req, st, Len(st), td) /\ Passed(img, req, out, T[Len(st)])

OrderInv == Forest => Pending(image, requested, stack, todo, Delivered)

LEMMA AskedIs ==
  ASSUME NEW img \in ImageType, NEW req \in Seq(Int)
  PROVE  LET q == Asked(img, req) IN
         /\ q \in Seq(Seq(RowId)) /\ Len(q) = Len(req) /\ Len(q) \in Nat
         /\ \A k \in 1 .. Len(q) :
              q[k] = Levels(img)[PageCount][<<req[k], RootType(req[k])>>]
         /\ Walk(img, req, {}, AllCells(img)) = RestOf(q)[1]
         /\ \A k \in 1 .. Len(q) + 1 : RestOf(q)[k] \in Seq(RowId)
         /\ \A k \in 1 .. Len(q) : /\ q[k] \in Seq(RowId)
                                   /\ RestOf(q)[k] = q[k] \o RestOf(q)[k + 1]
<1> DEFINE q == Asked(img, req)
           n == Len(req)
           of(k) == Levels(img)[PageCount][<<req[k], RootType(req[k])>>]
<1>1. DOMAIN req = 1 .. n /\ n \in Nat /\ \A k \in 1 .. n : req[k] \in Int
  BY LenProperties, ElementOfSeq
<1>2. ASSUME NEW k \in 1 .. n PROVE of(k) \in Seq(RowId)
  <2>1. RootType(req[k]) \in {"master", "user"} /\ PageCount \in 0 .. PageCount
    BY PageCountAssumption DEF RootType
  <2>2. req[k] \in Int
    BY <1>1
  <2> HIDE DEF n
  <2> QED
    BY <2>1, <2>2, LevelsAre
<1>3. q = [k \in 1 .. n |-> of(k)]
  BY <1>1 DEF Asked
<1>4. Walk(img, req, {}, AllCells(img)) = FlattenSeq(q)
  BY DEF Walk, Levels, Asked
<1> HIDE DEF q, n, of
<1>5. q \in [1 .. n -> Seq(RowId)]
  BY <1>2, <1>3
<1>6. q \in Seq(Seq(RowId)) /\ Len(q) = n
  BY <1>1, <1>5, FunctionIsSeq
<1>7. /\ FlattenSeq(q) = RestOf(q)[1]
      /\ \A k \in 1 .. Len(q) + 1 : RestOf(q)[k] \in Seq(RowId)
      /\ \A k \in 1 .. Len(q) : /\ q[k] \in Seq(RowId)
                                /\ RestOf(q)[k] = q[k] \o RestOf(q)[k + 1]
  BY <1>6, RestIs
<1>8. \A k \in 1 .. Len(q) : q[k] = of(k)
  BY <1>3, <1>6
<1> QED
  BY <1>1, <1>4, <1>6, <1>7, <1>8 DEF q, n, of

(* The first m calls are the same.                                         *)
Agree(st, st2, m) == \A n \in 1 .. m : st2[n] = st[n]

LEMMA WaitsLess ==
  ASSUME NEW T, NEW img, NEW req, NEW st, NEW st2, NEW td, NEW m \in Nat, NEW k \in Nat,
         m <= k, Waits(T, img, req, st, k, td), Agree(st, st2, m)
  PROVE  \E T2 : Waits(T2, img, req, st2, m, td) /\ T2[m] = T[m]
<1> DEFINE T2 == [n \in 0 .. m |-> T[n]]
<1>1. \A n \in 0 .. m : n \in 0 .. k /\ T2[n] = T[n]
  OBVIOUS
<1>2. \A n \in 1 .. m : n \in 1 .. k /\ n \in 0 .. m /\ n - 1 \in 0 .. m
  OBVIOUS
<1>3. 0 \in 0 .. m /\ m \in 0 .. m
  OBVIOUS
<1>4. T2 \in [0 .. m -> Seq(RowId)]
  BY <1>1 DEF Waits
<1> HIDE DEF T2
<1>5. Waits(T2, img, req, st2, m, td)
  BY <1>1, <1>2, <1>3, <1>4 DEF Waits, Agree
<1> QED
  BY <1>1, <1>3, <1>5

(* Of m calls, the last has `new` left, and its callers the rows of t.     *)
Topped(img, req, st, m, td, new, t) ==
  /\ t \in Seq(RowId)
  /\ \E T : /\ Waits(T, img, req, st, m, td)
            /\ T[m] = new \o t /\ T[m] \in Seq(RowId)

LEMMA WaitsNew ==
  ASSUME NEW T, NEW img, NEW req, NEW st, NEW st2, NEW td,
         NEW l \in Nat, NEW m, m = l + 1, NEW k \in Nat, l <= k,
         Waits(T, img, req, st, k, td), Agree(st, st2, l),
         NEW d, d = PageCount + 1 - m,
         NEW new \in Seq(RowId), new = Left(st2[m], d, img)
  PROVE  Topped(img, req, st2, m, td, new, T[l])
<1>0. m \in Nat \ {0} /\ m - 1 = l
  OBVIOUS
<1> DEFINE last == new \o T[l]
           T2   == [n \in 0 .. m |-> IF n = m THEN last ELSE T[n]]
<1>1. l \in 0 .. k /\ m \in 0 .. m /\ 0 \in 0 .. m /\ 0 # m
  BY <1>0
<1>2. T[l] \in Seq(RowId)
  BY <1>1 DEF Waits
<1>3. last \in Seq(RowId)
  BY <1>2, ConcatProperties
<1>4. \A n \in 0 .. m : n = m \/ n \in 0 .. k
  BY <1>0
<1>5. T2 \in [0 .. m -> Seq(RowId)]
  BY <1>3, <1>4 DEF Waits
<1>6. T2[m] = last /\ \A n \in 0 .. m : n # m => T2[n] = T[n]
  BY <1>1
<1>7. T2[0] = T[0]
  BY <1>1, <1>6
<1> HIDE DEF T2
<1>8. ASSUME NEW n \in 1 .. m
      PROVE  T2[n] = Left(st2[n], PageCount + 1 - n, img) \o T2[n - 1]
  <2>1. n - 1 \in 0 .. m /\ n - 1 # m /\ (n = m => n - 1 = l)
    BY <1>0
  <2>2. T2[n - 1] = T[n - 1]
    BY <1>6, <2>1
  <2>3. CASE n = m
    BY <1>6, <2>1, <2>2, <2>3
  <2>4. CASE n # m
    <3>1. n \in 1 .. l /\ n \in 1 .. k /\ n \in 0 .. m
      BY <1>0, <2>4
    <3>2. T[n] = Left(st[n], PageCount + 1 - n, img) \o T[n - 1]
      BY <3>1 DEF Waits
    <3> QED
      BY <1>6, <2>2, <2>4, <3>1, <3>2 DEF Agree
  <2> QED
    BY <2>3, <2>4
<1>9. Waits(T2, img, req, st2, m, td)
  BY <1>5, <1>7, <1>8 DEF Waits
<1> QED
  BY <1>2, <1>3, <1>6, <1>9 DEF Topped

(* The innermost call goes on as g, with a call of c.                      *)
LEMMA WaitsCall ==
  ASSUME NEW T, NEW img, NEW req, NEW st, NEW st2, NEW td, NEW L \in Nat \ {0},
         Waits(T, img, req, st, L, td), Agree(st, st2, L - 1),
         NEW g, NEW c, st2[L] = g, st2[L + 1] = c, NEW d, d = PageCount + 1 - L,
         Left(g, d, img) \in Seq(RowId), Left(c, d - 1, img) \in Seq(RowId)
  PROVE  Topped(img, req, st2, L + 1, td,
                Left(c, d - 1, img) \o Left(g, d, img), T[L - 1])
<1> DEFINE a == Left(c, d - 1, img)
           b == Left(g, d, img)
           t == T[L - 1]
<1>1. PICK N \in Nat, l \in Nat, e \in Int : N = L + 1 /\ l = L - 1 /\ e = d - 1
  BY PageCountAssumption
<1>2. L = l + 1 /\ e = PageCount + 1 - N /\ l <= L /\ L <= L
  BY <1>1, PageCountAssumption
<1>3. /\ a \in Seq(RowId) /\ b \in Seq(RowId)
      /\ b = Left(st2[L], d, img) /\ a = Left(st2[N], e, img)
  BY <1>1
<1> HIDE DEF a, b, t
<1>4. Topped(img, req, st2, L, td, b, t)
  <2>1. Agree(st, st2, l) /\ t = T[l]
    BY <1>1 DEF t
  <2> QED
    BY <1>2, <1>3, <2>1, WaitsNew
<1>5. PICK T1 : Waits(T1, img, req, st2, L, td) /\ T1[L] = b \o t
  BY <1>4 DEF Topped
<1>6. Topped(img, req, st2, N, td, a, T1[L])
  <2>1. Agree(st2, st2, L)
    BY DEF Agree
  <2> QED
    BY <1>1, <1>2, <1>3, <1>5, <2>1, WaitsNew
<1>7. PICK T2 : /\ Waits(T2, img, req, st2, N, td) /\ T2[N] = a \o T1[L]
                /\ T2[N] \in Seq(RowId)
  BY <1>6 DEF Topped
<1>8. T2[N] = a \o (b \o t)
  BY <1>5, <1>7
<1>9. (a \o b) \o t = a \o (b \o t)
  <2>1. a \in Seq(RowId) /\ b \in Seq(RowId) /\ t \in Seq(RowId)
    BY <1>3, <1>4 DEF Topped
  <2> QED
    BY ONLY <2>1, Regroup, Zenon
<1>10. T2[N] = (a \o b) \o t
  BY <1>8, <1>9
<1> QED
  BY <1>1, <1>4, <1>7, <1>10 DEF Topped, a, b, t

-----------------------------------------------------------------------------
(* Every step delivers the next row that is left, or passes rows over.     *)

LEMMA DeliveredIs ==
  ASSUME TypeOK
  PROVE  Delivered \in Seq(RowId)
<1>1. rows \in Seq(RowRec) /\ Len(rows) \in Nat /\ DOMAIN rows = 1 .. Len(rows)
  BY LenProperties DEF TypeOK, RowRec
<1>2. ASSUME NEW n \in 1 .. Len(rows)
      PROVE  [page |-> rows[n].page, i |-> rows[n].i] \in RowId
  <2>1. rows[n] \in RowRec
    BY <1>1, <1>2, ElementOfSeq
  <2> QED
    BY <2>1 DEF RowRec, RowId
<1>3. Delivered \in [1 .. Len(rows) -> RowId]
  BY <1>1, <1>2 DEF Delivered
<1> QED
  BY <1>1, <1>3, FunctionIsSeq

LEMMA DeliveredNext ==
  ASSUME TypeOK, NEW p \in Pages, NEW k \in Nat \ {0}, NEW w \in BOOLEAN,
         rows' = Append(rows, [page |-> p, i |-> k, whole |-> w])
  PROVE  Delivered' = Append(Delivered, [page |-> p, i |-> k])
<1> DEFINE r  == [page |-> p, i |-> k, whole |-> w]
           id == [page |-> p, i |-> k]
           N  == Len(rows)
           D2 == Append(Delivered, id)
<1>1. rows \in Seq(RowRec) /\ r \in RowRec /\ id \in RowId /\ Delivered \in Seq(RowId)
  BY DeliveredIs DEF TypeOK, RowRec, RowId
<1>2. r.page = p /\ r.i = k /\ rows' = Append(rows, r)
  OBVIOUS
<1> HIDE DEF r, id
<1>3. /\ Len(rows') = N + 1 /\ rows' \in Seq(RowRec) /\ rows'[N + 1] = r
      /\ \A n \in 1 .. N : rows'[n] = rows[n]
  BY <1>1, <1>2, AppendProperties
<1>4. /\ DOMAIN rows = 1 .. N /\ N \in Nat /\ DOMAIN rows' = 1 .. N + 1
  BY <1>1, <1>3, LenProperties
<1>5. Len(Delivered) = N
  <2>1. DOMAIN Delivered = 1 .. N
    BY <1>4 DEF Delivered
  <2>2. DOMAIN Delivered = 1 .. Len(Delivered) /\ Len(Delivered) \in Nat
    BY <1>1, LenProperties
  <2> QED
    BY <1>4, <2>1, <2>2
<1> HIDE DEF N
<1>6. /\ D2 \in Seq(RowId) /\ Len(D2) = N + 1 /\ D2[N + 1] = id
      /\ \A n \in 1 .. N : D2[n] = Delivered[n]
  BY <1>1, <1>5, AppendProperties
<1>7. DOMAIN D2 = 1 .. N + 1
  BY <1>6, LenProperties
<1> HIDE DEF D2
<1>8. /\ DOMAIN Delivered' = 1 .. N + 1
      /\ \A n \in 1 .. N + 1 : Delivered'[n] = [page |-> rows'[n].page, i |-> rows'[n].i]
      /\ \A n \in 1 .. N : Delivered[n] = [page |-> rows[n].page, i |-> rows[n].i]
  BY <1>4 DEF Delivered
<1>9. ASSUME NEW n \in 1 .. N + 1 PROVE Delivered'[n] = D2[n]
  <2>1. n = N + 1 \/ n \in 1 .. N
    BY <1>4
  <2>2. CASE n \in 1 .. N
    BY <1>3, <1>6, <1>8, <2>2
  <2>3. CASE n = N + 1
    <3>1. id = [page |-> rows'[n].page, i |-> rows'[n].i]
      BY <1>2, <1>3, <2>3 DEF id
    <3> QED
      BY <1>6, <1>8, <2>3, <3>1
  <2> QED
    BY <2>1, <2>2, <2>3
<1>10. D2 = [n \in 1 .. N + 1 |-> D2[n]]
  BY <1>6, <1>7, LenProperties
<1>11. Delivered' = [n \in 1 .. N + 1 |-> Delivered'[n]]
  BY <1>4 DEF Delivered
<1> QED
  BY <1>9, <1>10, <1>11 DEF D2, id

LEMMA FrameLevel ==
  ASSUME TypeOK, FramesOK, Shape, Forest, NEW n \in DOMAIN stack
  PROVE  /\ stack[n] \in Frame /\ Level(stack[n], PageCount + 1 - n)
         /\ FrameOK(stack[n], image, declined) /\ FrameFits(stack[n], image)
<1>1. /\ stack \in Seq(Frame) /\ n \in Nat \ {0} /\ PageCount \in Nat
      /\ stack[n] \in Frame
  BY LenProperties, ElementOfSeq, PageCountAssumption DEF TypeOK
<1>2. n <= PageCount + 1 /\ (stack[n].page \in Pages => n <= PageCount)
  BY DepthBound
<1>3. /\ PageCount + 1 - n \in 0 .. PageCount
      /\ stack[n].page \in Pages => PageCount + 1 - n # 0
  BY <1>1, <1>2
<1> QED
  BY <1>1, <1>3 DEF Level, FramesOK, Shape

(* Every step ends in one of these two ways.                               *)
LEMMA PendingOver ==
  ASSUME NEW img, NEW req, NEW out \in Seq(RowId), NEW st2, NEW td2,
         NEW t \in Seq(RowId), Passed(img, req, out, t),
         NEW T2, Waits(T2, img, req, st2, Len(st2), td2), T2[Len(st2)] \in Seq(RowId),
         Drops(t, T2[Len(st2)])
  PROVE  Pending(img, req, st2, td2, out)
<1>1. Passed(img, req, out, T2[Len(st2)])
  BY PassOver
<1> QED
  BY <1>1 DEF Pending

LEMMA ToppedOver ==
  ASSUME NEW img, NEW req, NEW out \in Seq(RowId), NEW st2, NEW td2,
         NEW t \in Seq(RowId), Passed(img, req, out, t), NEW m, m = Len(st2),
         NEW new \in Seq(RowId), NEW old \in Seq(RowId), NEW u,
         Topped(img, req, st2, m, td2, new, u), t = old \o u, Drops(old, new)
  PROVE  Pending(img, req, st2, td2, out)
<1>1. u \in Seq(RowId)
  BY DEF Topped
<1>2. PICK T2 : /\ Waits(T2, img, req, st2, m, td2)
                /\ T2[m] = new \o u /\ T2[m] \in Seq(RowId)
  BY DEF Topped
<1>3. Drops(old \o u, new \o u)
  BY <1>1, DropsMore
<1>4. Drops(t, T2[m])
  BY <1>2, <1>3
<1> QED
  BY <1>2, <1>4, PendingOver

(* The first rows of t are those of page p; T2 has the others.             *)
Taken(t, p, img, req, st2, td2) ==
  \E R \in Seq(RowId), q \in Seq(RowId), T2 \in [0 .. 0 -> Seq(RowId)] :
    /\ q = Levels(img)[PageCount][<<p, RootType(p)>>]
    /\ t = q \o R /\ t \in Seq(RowId)
    /\ Waits(T2, img, req, st2, 0, td2) /\ T2[0] = R

LEMMA OrderTaken ==
  ASSUME TypeOK, FramesOK, Shape, stack = <<>>, todo # <<>>, todo' = Tail(todo),
         NEW T, Waits(T, image, requested, stack, 0, todo), NEW st2
  PROVE  Taken(T[0], Head(todo), image, requested, st2, todo')
<1> DEFINE A == Asked(image, requested)
           k == Len(requested) - Len(todo) + 1
           R == RestOf(A)[k + 1]
           T2 == [n \in 0 .. 0 |-> R]
<1>1. /\ Len(todo) \in Nat \ {0} /\ Len(requested) \in Nat
      /\ Len(todo) <= Len(requested) /\ Len(todo') = Len(todo) - 1
      /\ k \in DOMAIN requested /\ Head(todo) = requested[k]
  BY NextRequested
<1>2. image \in ImageType /\ requested \in Seq(Int) /\ DOMAIN requested = 1 .. Len(requested)
  BY LenProperties DEF TypeOK
<1> HIDE DEF A
<1>3. /\ Len(A) = Len(requested) /\ Len(A) \in Nat
      /\ \A j \in 1 .. Len(A) :
           A[j] = Levels(image)[PageCount][<<requested[j], RootType(requested[j])>>]
      /\ \A j \in 1 .. Len(A) + 1 : RestOf(A)[j] \in Seq(RowId)
      /\ \A j \in 1 .. Len(A) : /\ A[j] \in Seq(RowId)
                                /\ RestOf(A)[j] = A[j] \o RestOf(A)[j + 1]
  BY <1>2, AskedIs DEF A
<1>4. k \in 1 .. Len(A) /\ k + 1 \in 1 .. Len(A) + 1 /\ k \in 1 .. Len(A) + 1
      /\ k + 1 = Len(requested) - Len(todo') + 1
  <2>1. k \in 1 .. Len(A)
    BY <1>1, <1>2, <1>3
  <2>2. k + 1 = Len(requested) - Len(todo') + 1
    BY <1>1
  <2> HIDE DEF k
  <2> QED
    BY <1>3, <2>1, <2>2
<1>5. R \in Seq(RowId) /\ A[k] \in Seq(RowId) /\ RestOf(A)[k] = A[k] \o R
      /\ RestOf(A)[k] \in Seq(RowId)
  BY <1>3, <1>4
<1>6. T[0] = RestOf(A)[k]
  BY DEF Waits, A
<1>7. A[k] = Levels(image)[PageCount][<<Head(todo), RootType(Head(todo))>>]
  BY <1>1, <1>3, <1>4
<1>8. T2 \in [0 .. 0 -> Seq(RowId)] /\ T2[0] = R
  BY <1>5
<1>9. R = RestOf(Asked(image, requested))[Len(requested) - Len(todo') + 1]
  BY <1>4 DEF A
<1> HIDE DEF T2, R, k
<1>10. Waits(T2, image, requested, st2, 0, todo')
  BY <1>8, <1>9 DEF Waits
<1> QED
  BY <1>5, <1>6, <1>7, <1>8, <1>10 DEF Taken

LEMMA OrderOpens ==
  ASSUME TypeOK, FramesOK, Shape, NEW out \in Seq(RowId),
         Pending(image, requested, stack, todo, out),
         TakesRequest \/ OpenBtree
  PROVE  Pending(image, requested, stack', todo', out)
<1>1. stack = <<>> /\ todo # <<>> /\ todo' = Tail(todo) /\ Len(stack) = 0
  BY DEF TakesRequest, SkipPage, OpenFails, OpenBtree, NextRequest
<1>2. PICK T : /\ Waits(T, image, requested, stack, 0, todo)
               /\ Passed(image, requested, out, T[0])
  BY <1>1 DEF Pending
<1>3. PICK R \in Seq(RowId), q \in Seq(RowId), T2 \in [0 .. 0 -> Seq(RowId)] :
        /\ q = Levels(image)[PageCount][<<Head(todo), RootType(Head(todo))>>]
        /\ T[0] = q \o R /\ T[0] \in Seq(RowId)
        /\ Waits(T2, image, requested, stack', 0, todo') /\ T2[0] = R
  <2>1. Taken(T[0], Head(todo), image, requested, stack', todo')
    BY <1>1, <1>2, OrderTaken
  <2> QED
    BY <2>1 DEF Taken
<1>4. CASE TakesRequest
  <2>1. stack' = stack /\ Len(stack') = 0
    BY <1>1, <1>4 DEF TakesRequest, SkipPage, OpenFails
  <2>2. Drops(T[0], T2[0])
    BY <1>3, DropsMore
  <2> QED
    BY <1>2, <1>3, <2>1, <2>2, PendingOver
<1>5. CASE OpenBtree
  <2> DEFINE b == RootType(Head(todo))
             c == Call(Head(todo), b)
             p == Head(todo)
  <2>1. stack' = <<c>>
    BY <1>5 DEF OpenBtree, RootType
  <2>2. p \in Int /\ b \in Btrees /\ b # "system" /\ image \in ImageType
    BY <1>1, HeadTailProperties DEF TypeOK, Btrees, RootType
  <2>3. PICK d \in 0 .. PageCount : d = PageCount
    BY PageCountAssumption
  <2> HIDE DEF b, p
  <2>4. Left(c, d, image) = q
    <3>1. c = Call(p, b)
      BY DEF p
    <3>2. q = Levels(image)[d][<<p, b>>]
      BY <1>3, <2>3 DEF p, b
    <3> HIDE DEF c
    <3> QED
      BY <2>2, <3>1, <3>2, LeftOfCall
  <2> HIDE DEF c
  <2>5. Len(stack') = 1 /\ stack'[1] = c
    BY <2>1
  <2>6. Topped(image, requested, stack', 1, todo', q, R)
    <3>1. Agree(stack', stack', 0)
      BY DEF Agree
    <3>2. d = PageCount + 1 - 1 /\ 1 = 0 + 1 /\ 0 <= 0 /\ 0 \in Nat
      BY <2>3, PageCountAssumption
    <3>3. q = Left(stack'[1], d, image)
      BY <2>4, <2>5
    <3>4. Topped(image, requested, stack', 1, todo', q, T2[0])
      BY <1>3, <3>1, <3>2, <3>3, WaitsNew
    <3> QED
      BY <1>3, <3>4
  <2>7. Drops(q, q)
    BY DropsEmpty
  <2>8. 1 = Len(stack')
    BY <2>5
  <2> QED
    BY <1>2, <1>3, <2>6, <2>7, <2>8, ToppedOver
<1> QED
  BY <1>4, <1>5

(* The rows that the innermost call and its callers have left.             *)
LEMMA TopWaits ==
  ASSUME TypeOK, FramesOK, Shape, Forest, stack # <<>>, NEW T,
         Waits(T, image, requested, stack, Len(stack), todo)
  PROVE  \E d, l \in Nat :
           /\ Level(Top, d) /\ d = PageCount + 1 - Len(stack)
           /\ l = Len(stack) - 1 /\ Len(stack) = l + 1 /\ Len(stack) \in Nat \ {0}
           /\ T[Len(stack)] = Left(Top, d, image) \o T[l]
           /\ T[l] \in Seq(RowId) /\ T[Len(stack)] \in Seq(RowId)
           /\ Top \in Frame /\ FrameOK(Top, image, declined) /\ FrameFits(Top, image)
<1> DEFINE L == Len(stack)
           d == PageCount + 1 - L
<1>1. L \in Nat \ {0} /\ Top = stack[L] /\ L \in DOMAIN stack
  BY TopFacts
<1>2. /\ Top \in Frame /\ Level(Top, d)
      /\ FrameOK(Top, image, declined) /\ FrameFits(Top, image)
  BY <1>1, FrameLevel
<1>3. d \in Nat /\ L - 1 \in Nat /\ L = L - 1 + 1
  BY <1>1, <1>2, PageCountAssumption DEF Level
<1>4. L \in 1 .. L /\ L \in 0 .. L /\ L - 1 \in 0 .. L
  BY <1>1
<1>5. T[L] = Left(Top, d, image) \o T[L - 1]
  BY <1>1, <1>4 DEF Waits
<1>6. T[L - 1] \in Seq(RowId) /\ T[L] \in Seq(RowId)
  BY <1>4 DEF Waits
<1> QED
  BY <1>1, <1>2, <1>3, <1>5, <1>6

LEMMA OrderProceeds ==
  ASSUME TypeOK, FramesOK, Shape, Forest, NEW out \in Seq(RowId),
         Pending(image, requested, stack, todo, out), Proceeds
  PROVE  Pending(image, requested, stack', todo, out)
<1>1. stack # <<>> /\ \E g \in Frame : Become(g) /\ GoesOn(Top, g, image)
  BY DEF Proceeds
<1>2. PICK g \in Frame : Become(g) /\ GoesOn(Top, g, image)
  BY <1>1
<1>3. PICK T : /\ Waits(T, image, requested, stack, Len(stack), todo)
               /\ Passed(image, requested, out, T[Len(stack)])
  BY DEF Pending
<1>4. PICK L \in Nat \ {0}, d \in Nat, l \in Nat :
        /\ L = Len(stack)
        /\ Level(Top, d) /\ d = PageCount + 1 - L /\ l = L - 1 /\ L = l + 1
        /\ T[L] = Left(Top, d, image) \o T[l]
        /\ T[l] \in Seq(RowId) /\ T[L] \in Seq(RowId)
        /\ Top \in Frame /\ FrameOK(Top, image, declined) /\ FrameFits(Top, image)
  BY <1>1, <1>3, TopWaits
<1>5. /\ Len(stack') = L /\ stack'[L] = g
      /\ \A n \in 1 .. l : stack'[n] = stack[n]
  BY <1>1, <1>2, <1>4, BecomeFacts DEF TypeOK
<1>6. image \in ImageType
  BY DEF TypeOK
<1>7. /\ Left(Top, d, image) \in Seq(RowId) /\ Left(g, d, image) \in Seq(RowId)
      /\ Drops(Left(Top, d, image), Left(g, d, image))
  BY <1>2, <1>4, <1>6, LeftGoesOn
<1> DEFINE new == Left(g, d, image)
           old == Left(Top, d, image)
<1>8. /\ Agree(stack, stack', l) /\ new = Left(stack'[L], d, image) /\ l <= L
      /\ new \in Seq(RowId)
  BY <1>4, <1>5, <1>7 DEF Agree
<1> HIDE DEF new
<1>9. Topped(image, requested, stack', L, todo, new, T[l])
  BY <1>3, <1>4, <1>8, WaitsNew
<1>10. Drops(old, new) /\ old \in Seq(RowId) /\ T[L] = old \o T[l]
       /\ Passed(image, requested, out, T[L]) /\ L = Len(stack')
  BY <1>3, <1>4, <1>5, <1>7 DEF new
<1> HIDE DEF old
<1> QED
  BY <1>4, <1>8, <1>9, <1>10, ToppedOver

LEMMA OrderCalls ==
  ASSUME TypeOK, FramesOK, Shape, Forest, NEW out \in Seq(RowId),
         Pending(image, requested, stack, todo, out),
         NEW g \in Frame, NEW c \in Frame, CallsChild(g, c)
  PROVE  Pending(image, requested, stack', todo, out)
<1>1. /\ stack # <<>> /\ Top.at = "child" /\ Top.page \in Pages
      /\ image[Top.page].kind \in InteriorKinds
      /\ Top.i \in 1 .. Len(ChildPointers(image, Top.page))
      /\ c = Call(ChildPointers(image, Top.page)[Top.i], Top.btree)
      /\ g.page = Top.page /\ g.btree = Top.btree /\ g.at = "child" /\ g.i = Top.i + 1
      /\ BecomeAndCall(g, c)
  BY DEF CallsChild
<1>2. PICK T : /\ Waits(T, image, requested, stack, Len(stack), todo)
               /\ Passed(image, requested, out, T[Len(stack)])
  BY DEF Pending
<1>3. PICK L \in Nat \ {0}, d \in Nat, l \in Nat :
        /\ L = Len(stack)
        /\ Level(Top, d) /\ d = PageCount + 1 - L /\ l = L - 1 /\ L = l + 1
        /\ T[L] = Left(Top, d, image) \o T[l]
        /\ T[l] \in Seq(RowId) /\ T[L] \in Seq(RowId)
        /\ Top \in Frame /\ FrameOK(Top, image, declined) /\ FrameFits(Top, image)
  BY <1>1, <1>2, TopWaits
<1>4. /\ Len(stack') = L + 1 /\ stack'[L] = g /\ stack'[L + 1] = c
      /\ \A n \in 1 .. L - 1 : stack'[n] = stack[n]
  BY <1>1, <1>3, CallFacts DEF TypeOK
<1>5. image \in ImageType /\ IndexesApart(image)
  BY DEF TypeOK, Forest, Sound, IsForest, IndexesApart
<1>6. /\ d - 1 \in 0 .. PageCount
      /\ Left(Top, d, image) \in Seq(RowId) /\ Left(g, d, image) \in Seq(RowId)
      /\ Left(c, d - 1, image) \in Seq(RowId)
      /\ Drops(Left(Top, d, image), Left(c, d - 1, image) \o Left(g, d, image))
  BY <1>1, <1>3, <1>5, LeftChild
<1> DEFINE new == Left(c, d - 1, image) \o Left(g, d, image)
           old == Left(Top, d, image)
<1>7. Topped(image, requested, stack', L + 1, todo, new, T[L - 1])
  <2>1. Agree(stack, stack', L - 1)
    BY <1>4 DEF Agree
  <2> QED
    BY <1>2, <1>3, <1>4, <1>6, <2>1, WaitsCall
<1>8. /\ new \in Seq(RowId) /\ old \in Seq(RowId) /\ Drops(old, new)
      /\ T[L] = old \o T[L - 1] /\ L + 1 = Len(stack')
      /\ Passed(image, requested, out, T[L])
  BY <1>2, <1>3, <1>4, <1>6, ConcatProperties
<1> HIDE DEF new, old
<1> QED
  BY <1>3, <1>7, <1>8, ToppedOver

LEMMA OrderReturns ==
  ASSUME TypeOK, FramesOK, Shape, Forest, NEW out \in Seq(RowId),
         Pending(image, requested, stack, todo, out), Returns
  PROVE  Pending(image, requested, stack', todo, out)
<1>1. stack # <<>> /\ \E result : Return(result)
  BY DEF Returns
<1>2. PICK result : Return(result)
  BY <1>1
<1>3. PICK T : /\ Waits(T, image, requested, stack, Len(stack), todo)
               /\ Passed(image, requested, out, T[Len(stack)])
  BY DEF Pending
<1>4. PICK L \in Nat \ {0}, d \in Nat, l \in Nat :
        /\ L = Len(stack)
        /\ Level(Top, d) /\ d = PageCount + 1 - L /\ l = L - 1 /\ L = l + 1
        /\ T[L] = Left(Top, d, image) \o T[l]
        /\ T[l] \in Seq(RowId) /\ T[L] \in Seq(RowId)
        /\ Top \in Frame /\ FrameOK(Top, image, declined) /\ FrameFits(Top, image)
  BY <1>1, <1>3, TopWaits
<1>5. /\ Len(stack') = l
      /\ \A n \in 1 .. l :
           \/ stack'[n] = stack[n]
           \/ /\ n = l /\ stack[n].at = "child"
              /\ stack'[n] = Moved(stack[n], "end")
           \/ /\ n = l /\ stack[n].at = "subtree"
              /\ \/ stack'[n] = Moved(stack[n], "cell")
                 \/ stack'[n] = Moved(stack[n], "end")
  <2>1. /\ Len(stack') = Len(stack) - 1
        /\ \A n \in 1 .. Len(stack) - 1 :
             \/ stack'[n] = stack[n]
             \/ /\ n = Len(stack) - 1 /\ stack[n].at = "child"
                /\ stack'[n] = Moved(stack[n], "end")
             \/ /\ n = Len(stack) - 1 /\ stack[n].at = "subtree"
                /\ \/ stack'[n] = Moved(stack[n], "cell")
                   \/ stack'[n] = Moved(stack[n], "end")
    BY <1>1, <1>2, ReturnFacts DEF TypeOK
  <2> QED
    BY <1>4, <2>1
<1>6. image \in ImageType /\ DOMAIN stack = 1 .. L /\ Waits(T, image, requested, stack, L, todo)
      /\ Passed(image, requested, out, T[L])
  BY <1>3, <1>4, LenProperties DEF TypeOK
<1>7. Drops(T[L], T[l])
  <2>1. Left(Top, d, image) \in Seq(RowId)
    BY <1>4, <1>6, LeftIs
  <2> QED
    BY <1>4, <2>1, DropsMore
<1>8. CASE \A n \in 1 .. l : stack'[n] = stack[n]
  <2>1. Agree(stack, stack', l) /\ l <= L
    BY <1>4, <1>8 DEF Agree
  <2>2. \E T2 : Waits(T2, image, requested, stack', l, todo) /\ T2[l] = T[l]
    BY <1>6, <2>1, WaitsLess
  <2>3. PICK T2 : Waits(T2, image, requested, stack', l, todo) /\ T2[l] = T[l]
    BY <2>2
  <2>4. /\ Waits(T2, image, requested, stack', Len(stack'), todo)
        /\ T2[Len(stack')] \in Seq(RowId) /\ Drops(T[L], T2[Len(stack')])
    BY <1>4, <1>5, <1>7, <2>3
  <2> QED
    BY <1>4, <1>6, <2>4, PendingOver
<1>9. CASE \E n \in 1 .. l : stack'[n] # stack[n]
  <2>1. l \in 1 .. l /\ l \in DOMAIN stack /\ l <= L
    BY <1>4, <1>5, <1>6, <1>9
  <2>3. PICK e \in Int, k \in Nat : e = PageCount + 1 - l /\ k = l - 1 /\ l = k + 1 /\ k <= L
    <3>1. l \in Nat /\ 1 <= l /\ l <= L /\ L \in Nat /\ PageCount \in Nat
      BY <1>4, <2>1, PageCountAssumption
    <3>2. /\ PageCount + 1 - l \in Int /\ l - 1 \in Nat
          /\ l = (l - 1) + 1 /\ l - 1 <= L
      BY ONLY <3>1
    <3> QED
      BY ONLY <3>2
  <2> DEFINE f == stack[l]
             g == stack'[l]
  <2>2. /\ f.at \in {"child", "subtree"} /\ g \in {Moved(f, "end"), Moved(f, "cell")}
        /\ f.at = "child" => g = Moved(f, "end")
    BY <1>5, <1>9
  <2>4. /\ f \in Frame /\ Level(f, e)
        /\ FrameOK(f, image, declined) /\ FrameFits(f, image)
    BY <2>1, <2>3, FrameLevel
  <2>5. g \in Frame /\ GoesOn(f, g, image)
    <3>1. \A p \in {"end", "cell"} :
            /\ Moved(f, p) \in Frame /\ Moved(f, p).page = f.page
            /\ Moved(f, p).btree = f.btree /\ Moved(f, p).at = p /\ Moved(f, p).i = f.i
      <4> HIDE DEF f
      <4> QED
        BY <2>4 DEF Moved, Frame, Places
    <3>2. \/ g = Moved(f, "end")
          \/ g = Moved(f, "cell") /\ f.at = "subtree"
      BY <2>2
    <3> HIDE DEF f, g
    <3> QED
      BY <3>1, <3>2 DEF GoesOn, CellPlaces
  <2> DEFINE old == Left(f, e, image)
             new == Left(g, e, image)
  <2>6. old \in Seq(RowId) /\ new \in Seq(RowId) /\ Drops(old, new)
    <3> HIDE DEF f, g
    <3> QED
      BY <1>6, <2>4, <2>5, LeftGoesOn
  <2>7. T[l] = old \o T[k] /\ T[k] \in Seq(RowId)
    <3>1. l \in 1 .. L /\ k \in 0 .. L
      BY <1>4, <2>1, <2>3
    <3> QED
      BY <1>6, <2>3, <3>1 DEF Waits
  <2>8. Agree(stack, stack', k)
    <3>1. \A n \in 1 .. k : n \in 1 .. l /\ n # l
      BY <2>3
    <3> QED
      BY <1>5, <3>1 DEF Agree
  <2>9. new = Left(stack'[l], e, image)
    OBVIOUS
  <2> HIDE DEF f, g, old, new
  <2>10. Topped(image, requested, stack', l, todo, new, T[k])
    BY <1>6, <2>3, <2>6, <2>8, <2>9, WaitsNew
  <2>11. Passed(image, requested, out, T[l])
    BY <1>4, <1>6, <1>7, PassOver
  <2>12. l = Len(stack')
    BY <1>5
  <2> QED
    BY <1>4, <2>6, <2>7, <2>10, <2>11, <2>12, ToppedOver
<1> QED
  BY <1>8, <1>9

(* The row that is delivered next.                                         *)
TopRow == [page |-> Top.page, i |-> Top.i]

LEMMA OrderRows ==
  ASSUME TypeOK, FramesOK, Shape, Forest, NEW answer \in Answers, Deliver(answer),
         NEW out \in Seq(RowId), Pending(image, requested, stack, todo, out)
  PROVE  /\ Pending(image, requested, stack', todo, Append(out, TopRow))
         /\ TopRow \in RowId
<1>1. PICK g \in Frame :
        /\ AfterRow(g)
        /\ \/ Become(g) /\ g.at \in {"cell", "end"}
           \/ \E c \in Frame : CallsTree(g, c)
  BY RowStep
<1>2. /\ stack # <<>> /\ Top.at = "column" /\ Top.page \in Pages
      /\ image[Top.page].kind = "leafTable"
      /\ Top.i \in DOMAIN image[Top.page].cells
      /\ g.page = Top.page /\ g.btree = Top.btree /\ g.i = Top.i + 1
      /\ \E w \in BOOLEAN :
           rows' = Append(rows, [page |-> Top.page, i |-> Top.i, whole |-> w])
  BY <1>1 DEF AfterRow
<1> DEFINE row  == [page |-> Top.page, i |-> Top.i]
           out2 == Append(out, row)
<1>3. row = TopRow
  BY DEF TopRow
<1>4. PICK T : /\ Waits(T, image, requested, stack, Len(stack), todo)
               /\ Passed(image, requested, out, T[Len(stack)])
  BY DEF Pending
<1>5. PICK L \in Nat \ {0}, d \in Nat, l \in Nat :
        /\ L = Len(stack)
        /\ Level(Top, d) /\ d = PageCount + 1 - L /\ l = L - 1 /\ L = l + 1
        /\ T[L] = Left(Top, d, image) \o T[l]
        /\ T[l] \in Seq(RowId) /\ T[L] \in Seq(RowId)
        /\ Top \in Frame /\ FrameOK(Top, image, declined) /\ FrameFits(Top, image)
  BY <1>2, <1>4, TopWaits
<1>6. image \in ImageType /\ Top.btree # "system"
      /\ Waits(T, image, requested, stack, L, todo)
  BY <1>2, <1>4, <1>5 DEF TypeOK, FrameFits, CellPlaces
<1> DEFINE c == Call(CellNow.root, SubtreeType(CellNow))
<1>7. RowLeft(Top, g, d, image)
  BY <1>2, <1>5, <1>6, LeftRow
<1>8. PICK q \in Seq(RowId), rest \in Seq(RowId) :
        /\ Left(Top, d, image) = <<row>> \o (q \o rest)
        /\ g.at = "end" => Left(g, d, image) = <<>>
        /\ g.at \in {"cell", "subtree"} => Left(g, d, image) = rest
        /\ Recursive /\ Top.btree = "master" /\ CellNow.root # 0
             => Left(c, d - 1, image) = q
  BY <1>7 DEF RowLeft, CellNow
<1>14. row \in RowId
  BY <1>7 DEF RowLeft
<1> DEFINE old == q \o rest
           t   == old \o T[l]
<1>9. old \in Seq(RowId) /\ Drops(old, old) /\ Drops(old, rest) /\ Drops(old, <<>>)
      /\ <<>> \in Seq(RowId)
  BY ConcatProperties, DropsEmpty, DropsMore, EmptySeq
<1>10. Passed(image, requested, out2, t) /\ t \in Seq(RowId)
  <2> DEFINE one == <<row>>
  <2> HIDE DEF row
  <2>1. one \in Seq(RowId)
    BY <1>14
  <2> DEFINE u == T[l]
  <2> HIDE DEF one, old
  <2>2. (one \o old) \o u = one \o (old \o u)
    <3>1. one \in Seq(RowId) /\ old \in Seq(RowId) /\ u \in Seq(RowId)
      BY <1>5, <1>9, <2>1
    <3> HIDE DEF u, t
    <3> QED
      BY ONLY <3>1, Regroup, SMTT(60)
  <2>3. t \in Seq(RowId)
    BY <1>5, <1>9, ConcatProperties
  <2>4. T[L] = one \o t
    BY <1>5, <1>8, <2>2 DEF one, old
  <2>5. Passed(image, requested, out, <<row>> \o t)
    BY <1>4, <1>5, <2>4 DEF one
  <2> HIDE DEF t
  <2>6. Passed(image, requested, Append(out, row), t)
    BY <1>14, <2>3, <2>5, PassOn
  <2> QED
    BY <2>3, <2>6
<1>11. out2 \in Seq(RowId)
  BY <1>14, AppendProperties
<1> HIDE DEF out2
<1>12. ASSUME Become(g) /\ g.at \in {"cell", "end"}
       PROVE  Pending(image, requested, stack', todo, out2)
  <2>1. /\ Len(stack') = L /\ stack'[L] = g
        /\ \A n \in 1 .. l : stack'[n] = stack[n]
    BY <1>2, <1>5, <1>12, BecomeFacts DEF TypeOK
  <2> DEFINE new == Left(g, d, image)
  <2>2. new \in Seq(RowId) /\ Drops(old, new)
    <3> HIDE DEF old
    <3> QED
      BY <1>8, <1>9, <1>12
  <2>3. Agree(stack, stack', l) /\ l <= L /\ new = Left(stack'[L], d, image)
    BY <1>5, <2>1 DEF Agree
  <2> HIDE DEF new
  <2>4. Topped(image, requested, stack', L, todo, new, T[l])
    BY <1>5, <1>6, <2>2, <2>3, WaitsNew
  <2>5. t = old \o T[l] /\ L = Len(stack')
    BY <2>1
  <2> HIDE DEF old, t
  <2> QED
    BY <1>9, <1>10, <1>11, <2>2, <2>4, <2>5, ToppedOver
<1>13. ASSUME NEW k \in Frame, CallsTree(g, k)
       PROVE  Pending(image, requested, stack', todo, out2)
  <2>1. /\ g.at = "subtree" /\ BecomeAndCall(g, k) /\ k = c
        /\ Recursive /\ Top.btree = "master" /\ CellNow.root # 0
    BY <1>13 DEF CallsTree
  <2> HIDE DEF c
  <2>2. /\ Len(stack') = L + 1 /\ stack'[L] = g /\ stack'[L + 1] = k
        /\ \A n \in 1 .. L - 1 : stack'[n] = stack[n]
    BY <1>2, <1>5, <2>1, CallFacts DEF TypeOK
  <2>3. Left(g, d, image) = rest /\ Left(k, d - 1, image) = q
    BY <1>8, <2>1
  <2>4. Agree(stack, stack', L - 1)
    BY <2>2 DEF Agree
  <2>5. Topped(image, requested, stack', L + 1, todo,
               Left(k, d - 1, image) \o Left(g, d, image), T[L - 1])
    BY <1>5, <1>6, <2>2, <2>3, <2>4, WaitsCall
  <2>6. Topped(image, requested, stack', L + 1, todo, old, T[l])
    BY <1>5, <2>3, <2>5
  <2>7. t = old \o T[l] /\ L + 1 = Len(stack')
    BY <2>2
  <2> HIDE DEF old, t
  <2> QED
    BY <1>9, <1>10, <1>11, <2>6, <2>7, ToppedOver
<1> QED
  BY <1>1, <1>3, <1>12, <1>13, <1>14 DEF out2

LEMMA OrderQuiet ==
  ASSUME TypeOK, FramesOK, Shape, Forest, NEW out \in Seq(RowId),
         Pending(image, requested, stack, todo, out), QuietStep
  PROVE  Pending(image, requested, stack', todo', out)
<1>1. CASE TakesRequest \/ OpenBtree
  BY <1>1, OrderOpens
<1>2. CASE todo' = todo /\ stack' = stack
  BY <1>2
<1>3. CASE todo' = todo /\ Returns
  BY <1>3, OrderReturns
<1>4. CASE todo' = todo /\ Proceeds
  BY <1>4, OrderProceeds
<1>5. CASE todo' = todo /\ \E g, c \in Frame : CallsChild(g, c)
  BY <1>5, OrderCalls
<1> QED
  BY <1>1, <1>2, <1>3, <1>4, <1>5 DEF QuietStep

LEMMA DeliverRow ==
  ASSUME TypeOK, FramesOK, NEW answer \in Answers, Deliver(answer)
  PROVE  Delivered' = Append(Delivered, TopRow)
<1>1. PICK g \in Frame : AfterRow(g)
  BY RowStep
<1>2. /\ stack # <<>> /\ Top.page \in Pages
      /\ \E w \in BOOLEAN :
           rows' = Append(rows, [page |-> Top.page, i |-> Top.i, whole |-> w])
  BY <1>1 DEF AfterRow
<1>3. PICK w \in BOOLEAN :
        rows' = Append(rows, [page |-> Top.page, i |-> Top.i, whole |-> w])
  BY <1>2
<1>4. PICK p \in Pages, k \in Nat \ {0} : p = Top.page /\ k = Top.i
  BY <1>2, TopFacts DEF Frame
<1>5. rows' = Append(rows, [page |-> p, i |-> k, whole |-> w])
  BY <1>3, <1>4
<1>6. Delivered' = Append(Delivered, [page |-> p, i |-> k])
  BY <1>5, DeliveredNext
<1> QED
  BY <1>4, <1>6 DEF TopRow

LEMMA OrderStep ==
  ASSUME TypeOK, FramesOK, Shape, OrderInv, [Next]_vars
  PROVE  OrderInv'
<1>1. image' = image /\ requested' = requested
  BY ImageStays
<1> SUFFICES ASSUME Forest
             PROVE  Pending(image, requested, stack', todo', Delivered')
  BY <1>1 DEF OrderInv, Forest
<1>2. Pending(image, requested, stack, todo, Delivered)
  BY DEF OrderInv
<1>3. Delivered \in Seq(RowId)
  BY DeliveredIs
<1>4. CASE QuietStep
  <2>1. Delivered' = Delivered
    BY <1>4 DEF QuietStep, Delivered
  <2> QED
    BY <1>2, <1>3, <1>4, <2>1, OrderQuiet
<1>5. CASE todo' = todo /\ \E answer \in Answers : Deliver(answer)
  BY <1>2, <1>3, <1>5, OrderRows, DeliverRow
<1> QED
  BY <1>4, <1>5, StepIs

(* Nothing is out, and everything is requested.                            *)
LEMMA AllPending ==
  ASSUME NEW img \in ImageType, NEW req \in Seq(Int)
  PROVE  Pending(img, req, <<>>, req, <<>>)
<1> DEFINE w == Walk(img, req, {}, AllCells(img))
           A == Asked(img, req)
           T == [n \in 0 .. 0 |-> w]
<1>1. Len(req) \in Nat
  BY LenProperties
<1>2. /\ w = RestOf(A)[1] /\ Len(A) \in Nat
      /\ \A k \in 1 .. Len(A) + 1 : RestOf(A)[k] \in Seq(RowId)
  BY AskedIs
<1> HIDE DEF w, A
<1>3. w = RestOf(A)[1] /\ w \in Seq(RowId)
  <2>1. 1 \in 1 .. Len(A) + 1
    BY <1>2
  <2> QED
    BY <1>2, <2>1
<1>4. T \in [0 .. 0 -> Seq(RowId)] /\ T[0] = w
  BY <1>3
<1> HIDE DEF T
<1>5. Waits(T, img, req, <<>>, 0, req)
  <2>1. Len(req) - Len(req) + 1 = 1
    BY <1>1
  <2> QED
    BY <1>3, <1>4, <2>1 DEF Waits, A
<1>6. Passed(img, req, <<>>, w)
  <2>1. <<>> \in Seq(RowId) /\ <<>> \o w = w
    BY <1>3, EmptySeq, ConcatEmptySeq
  <2>2. IsSubsequence(<<>>, <<>>)
    BY DEF IsSubsequence, ToSet
  <2> QED
    BY <2>1, <2>2 DEF Passed, w
<1>7. Len(<<>>) = 0
  OBVIOUS
<1> QED
  BY <1>4, <1>5, <1>6, <1>7 DEF Pending

LEMMA InitOrder == Init => OrderInv
<1> SUFFICES ASSUME Init, Forest
             PROVE  Pending(image, requested, stack, todo, Delivered)
  BY DEF OrderInv
<1>1. /\ image \in ImageType /\ requested \in Seq(Int) /\ todo = requested
      /\ stack = <<>> /\ rows = <<>>
  BY InitialState DEF Init, TypeOK
<1>2. Delivered = <<>>
  BY <1>1 DEF Delivered
<1> QED
  BY <1>1, <1>2, AllPending

(* The rows that are out are in order when those that are left follow them *)
(* in the walk.                                                            *)
LEMMA PendingOrdered ==
  ASSUME TypeOK, NEW out \in Seq(RowId), Pending(image, requested, stack, todo, out)
  PROVE  IsSubsequence(out, Walk(image, requested, {}, AllCells(image)))
<1> DEFINE w == Walk(image, requested, {}, AllCells(image))
<1>1. PICK T : /\ Waits(T, image, requested, stack, Len(stack), todo)
               /\ Passed(image, requested, out, T[Len(stack)])
  BY DEF Pending
<1> DEFINE t == T[Len(stack)]
<1>2. t \in Seq(RowId)
  <2>1. Len(stack) \in 0 .. Len(stack)
    BY LenProperties DEF TypeOK
  <2> QED
    BY <1>1, <2>1 DEF Waits
<1> HIDE DEF w, t
<1>3. PICK A \in Seq(RowId) : w = A \o t /\ IsSubsequence(out, A)
  BY <1>1 DEF Passed, w, t
<1>4. IsSubsequence(out, w)
  BY <1>2, <1>3, SubsequenceOver
<1> QED
  BY <1>4 DEF w

LEMMA PendingInOrder ==
  ASSUME TypeOK, OrderInv
  PROVE  RowsInOrder
BY PendingOrdered, DeliveredIs DEF RowsInOrder, OrderInv

-----------------------------------------------------------------------------
(* The same for a caller that delivers one request after the other: `out`  *)
(* are the rows delivered since the present request was made.              *)

Walking(out) ==
  /\ TypeOK /\ FramesOK /\ Shape /\ Forest
  /\ out \in Seq(RowId) /\ Pending(image, requested, stack, todo, out)

(* A step that makes a new request.                                        *)
LEMMA WalkingStarts ==
  ASSUME TypeOK', FramesOK', Forest', stack' = <<>>, todo' = requested'
  PROVE  Walking(<<>>)'
<1>1. image' \in ImageType /\ requested' \in Seq(Int) /\ <<>> \in Seq(RowId)
  BY EmptySeq DEF TypeOK
<1>2. Pending(image', requested', stack', todo', <<>>)
  BY <1>1, AllPending
<1>3. Shape'
  <2>1. Len(requested') \in Nat
    BY <1>1, LenProperties
  <2>2. IsEndOf(todo', requested')
    BY <2>1 DEF IsEndOf
  <2> QED
    BY <2>2 DEF Shape, CallersLead, PagesDiffer
<1> QED
  BY <1>1, <1>2, <1>3 DEF Walking

LEMMA WalkingGoesOn ==
  ASSUME NEW out, Walking(out), [Next]_vars, rows' = rows
  PROVE  Walking(out)'
<1>1. image' = image /\ requested' = requested /\ TypeOK' /\ FramesOK' /\ Shape'
  BY ImageStays, TypeStep, ShapeStep DEF Walking
<1>2. QuietStep
  <2>1. ASSUME NEW answer, Deliver(answer) PROVE FALSE
    <3>1. PICK r : rows' = Append(rows, r)
      BY <2>1 DEF Deliver
    <3>2. rows \in Seq(RowRec) /\ Len(rows) \in Nat /\ DOMAIN rows = 1 .. Len(rows)
      BY LenProperties DEF Walking, TypeOK, RowRec
    <3>3. Len(Append(rows, r)) = Len(rows) + 1
      BY <3>2
    <3> QED
      BY <3>1, <3>2, <3>3
  <2> QED
    BY <2>1, StepIs DEF Walking
<1> QED
  BY <1>1, <1>2, OrderQuiet DEF Walking, Forest

LEMMA WalkingDelivers ==
  ASSUME NEW out, Walking(out), NEW answer \in Answers, Deliver(answer)
  PROVE  \E row \in RowId : row = TopRow /\ Walking(Append(out, row))'
<1>1. [Next]_vars /\ todo' = todo
  BY DEF Next, Step, Deliver
<1>2. image' = image /\ requested' = requested /\ TypeOK' /\ FramesOK' /\ Shape'
  BY <1>1, ImageStays, TypeStep, ShapeStep DEF Walking
<1>3. /\ Pending(image, requested, stack', todo, Append(out, TopRow))
      /\ TopRow \in RowId
  BY OrderRows DEF Walking
<1>4. PICK row \in RowId : row = TopRow
  BY <1>3
<1>5. Append(out, row) \in Seq(RowId)
  BY AppendProperties DEF Walking
<1> QED
  BY <1>1, <1>2, <1>3, <1>4, <1>5 DEF Walking, Forest

LEMMA WalkingOrdered ==
  ASSUME NEW out, Walking(out)
  PROVE  IsSubsequence(out, Walk(image, requested, {}, AllCells(image)))
BY PendingOrdered DEF Walking

-----------------------------------------------------------------------------
(* Whatever fails and whatever the callback answers, on every forest of    *)
(* pages the rows come out as a subsequence of the in-order walk of the    *)
(* requested trees: genuine rows only, none twice, in key order, with the  *)
(* rows of a table right after the row of sqlite_master that names it.     *)
THEOREM RowsAreInOrder == Spec => []RowsInOrder
<1> DEFINE Inv == TypeOK /\ FramesOK /\ Shape /\ OrderInv
<1>1. Init => Inv
  BY InitialState, InitShape, InitOrder
<1>2. Inv /\ [Next]_vars => Inv'
  BY TypeStep, ShapeStep, OrderStep
<1>3. Inv => RowsInOrder
  BY PendingInOrder
<1> QED
  BY <1>1, <1>2, <1>3, PTL DEF Spec

=============================================================================
