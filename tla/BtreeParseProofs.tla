--------------------------- MODULE BtreeParseProofs ---------------------------
(***************************************************************************)
(* Proofs about the page traversal: its type invariant, the accounting of  *)
(* the "checking" marks on every image, and the absence of re-entry.       *)
(***************************************************************************)
EXTENDS BtreeParse, SequenceTheorems, FiniteSetTheorems, TLAPS

-----------------------------------------------------------------------------
(* The three ways a step changes the stack.                                *)

(* Become replaces the innermost frame and leaves its callers alone.       *)
LEMMA BecomeFacts ==
  ASSUME NEW f \in Frame, stack \in Seq(Frame), stack # <<>>, Become(f)
  PROVE  /\ stack' \in Seq(Frame)
         /\ Len(stack') = Len(stack)
         /\ Len(stack) \in Nat \ {0}
         /\ stack'[Len(stack)] = f
         /\ \A n \in 1 .. Len(stack) - 1 : stack'[n] = stack[n]
<1>1. Len(stack) \in Nat \ {0}
  BY EmptySeq
<1> DEFINE s == [stack EXCEPT ![Len(stack)] = f]
<1>2. /\ s \in Seq(Frame)
      /\ Len(s) = Len(stack)
      /\ \A j \in 1 .. Len(stack) :
           s[j] = IF j = Len(stack) THEN f ELSE stack[j]
  BY <1>1, ExceptSeq
<1>3. stack' = s
  BY DEF Become
<1> HIDE DEF s
<1> QED
  BY <1>1, <1>2, <1>3

(* BecomeAndCall does so and pushes one frame.                             *)
LEMMA CallFacts ==
  ASSUME NEW f \in Frame, NEW c \in Frame,
         stack \in Seq(Frame), stack # <<>>, BecomeAndCall(f, c)
  PROVE  /\ stack' \in Seq(Frame)
         /\ Len(stack') = Len(stack) + 1
         /\ Len(stack) \in Nat \ {0}
         /\ stack'[Len(stack) + 1] = c
         /\ stack'[Len(stack)] = f
         /\ \A n \in 1 .. Len(stack) - 1 : stack'[n] = stack[n]
<1>1. Len(stack) \in Nat \ {0}
  BY EmptySeq
<1> DEFINE s == [stack EXCEPT ![Len(stack)] = f]
<1>2. /\ s \in Seq(Frame)
      /\ Len(s) = Len(stack)
      /\ \A j \in 1 .. Len(stack) :
           s[j] = IF j = Len(stack) THEN f ELSE stack[j]
  BY <1>1, ExceptSeq
<1>3. stack' = Append(s, c)
  BY DEF BecomeAndCall
<1> HIDE DEF s
<1> QED
  BY <1>1, <1>2, <1>3

(* A frame that has moved on to another place.                             *)
Moved(f, place) == [f EXCEPT !.at = place]

(* Return pops the innermost frame; of the caller it changes `at` alone.   *)
LEMMA ReturnFacts ==
  ASSUME NEW result, stack \in Seq(Frame), stack # <<>>, Return(result)
  PROVE  /\ stack' \in Seq(Frame)
         /\ Len(stack') = Len(stack) - 1
         /\ Len(stack) \in Nat \ {0}
         /\ \A n \in 1 .. Len(stack) - 1 :
              \/ stack'[n] = stack[n]
              \/ /\ n = Len(stack) - 1
                 /\ stack[n].at = "child"
                 /\ stack'[n] = Moved(stack[n], "end")
              \/ /\ n = Len(stack) - 1
                 /\ stack[n].at = "subtree"
                 /\ stack'[n] = Moved(stack[n], "cell")
              \/ /\ n = Len(stack) - 1
                 /\ stack[n].at = "subtree" /\ stack[n].rc # "OK"
                 /\ stack'[n] = Moved(stack[n], "end")
<1>1. Len(stack) \in Nat \ {0}
  BY EmptySeq
<1> DEFINE s == Callers
           m == Len(stack) - 1
<1>2. /\ s \in Seq(Frame)
      /\ Len(s) = m
      /\ \A n \in 1 .. m : s[n] = stack[n]
  <2>1. \A i \in 1 .. m : stack[i] \in Frame
    BY <1>1, ElementOfSeq
  <2>2. 1 \in Int /\ m \in Int /\ m >= 0
    BY <1>1
  <2> HIDE DEF m
  <2>3. /\ SubSeq(stack, 1, m) \in Seq(Frame)
        /\ Len(SubSeq(stack, 1, m)) = IF 1 <= m THEN m - 1 + 1 ELSE 0
        /\ \A i \in 1 .. m - 1 + 1 : SubSeq(stack, 1, m)[i] = stack[1 + i - 1]
    BY <2>1, <2>2, SubSeqProperties
  <2>4. s = SubSeq(stack, 1, m)
    BY DEF Callers, m
  <2> HIDE DEF s
  <2> QED
    BY <2>2, <2>3, <2>4
<1>3. m \in Nat /\ (s # <<>> <=> m # 0)
  BY <1>1, <1>2
<1>4. stack' = Resume(s, result)
  BY DEF Return
<1> HIDE DEF s, m
<1>5. CASE m = 0
  <2>1. s = <<>>
    BY <1>5, <1>3
  <2>2. stack' = <<>>
    BY <2>1, <1>4 DEF Resume
  <2> QED
    BY <2>1, <2>2, <1>1, <1>2, <1>5 DEF m
<1>6. CASE m # 0
  <2>1. s # <<>> /\ m \in 1 .. m /\ Len(s) = m /\ s[m] = stack[m] /\ s[m] \in Frame
    BY <1>2, <1>3, <1>6
  <2>2. \A p \in Places : Moved(s[m], p) \in Frame
    BY <2>1 DEF Frame, Moved
  <2> DEFINE u(p) == [s EXCEPT ![m] = Moved(s[m], p)]
  <2>3. \A p \in Places : /\ u(p) \in Seq(Frame)
                          /\ Len(u(p)) = m
                          /\ \A n \in 1 .. m : u(p)[n] = IF n = m THEN Moved(s[m], p)
                                                        ELSE s[n]
    BY <2>1, <2>2, <1>2, ExceptSeq
  <2>4. \/ stack' = s
        \/ s[m].at = "child" /\ stack' = u("end")
        \/ s[m].at = "subtree" /\ stack' = u("cell")
        \/ s[m].at = "subtree" /\ s[m].rc # "OK" /\ stack' = u("end")
    BY <1>4, <2>1 DEF Resume, Moved
  <2>5. "end" \in Places /\ "cell" \in Places
    BY DEF Places
  <2>6. m = Len(stack) - 1
    BY DEF m
  <2> HIDE DEF u
  <2> QED
    BY <2>1, <2>3, <2>4, <2>5, <2>6, <1>1, <1>2
<1> QED
  BY <1>5, <1>6

-----------------------------------------------------------------------------
(* Type correctness, with what is true of every frame.                     *)

LEMMA TopFacts ==
  ASSUME TypeOK, FramesOK, stack # <<>>
  PROVE  /\ stack \in Seq(Frame)
         /\ Len(stack) \in Nat \ {0}
         /\ Top = stack[Len(stack)]
         /\ Top \in Frame
         /\ FrameOK(Top, image, declined)
<1>1. stack \in Seq(Frame)
  BY DEF TypeOK
<1>2. Len(stack) \in Nat \ {0}
  BY <1>1, EmptySeq
<1>3. Len(stack) \in DOMAIN stack /\ stack[Len(stack)] \in Frame
  BY <1>1, <1>2
<1> QED
  BY <1>1, <1>2, <1>3 DEF FramesOK, Top

(* What may be cited of a page, a cell and the pointers of a page.         *)
LEMMA ImageFacts ==
  ASSUME TypeOK, NEW p \in Pages
  PROVE  /\ image[p] \in Page
         /\ image[p].link \in Int
         /\ image[p].cells \in Seq(Cell)
         /\ \A k \in DOMAIN image[p].cells : image[p].cells[k] \in Cell
         /\ ChildPointers(image, p) \in Seq(Int)
<1>1. image[p] \in Page
  BY DEF TypeOK, ImageType
<1>2. /\ image[p].cells \in Seq(Cell)
      /\ image[p].kids \in Seq(Int)
      /\ image[p].right \in Int /\ image[p].stray \in Int
      /\ image[p].link \in Int
  BY <1>1 DEF Page
<1>3. \A k \in DOMAIN image[p].cells : image[p].cells[k] \in Cell
  BY <1>2, ElementOfSeq, LenProperties
<1>4. Garbage \in Int /\ PageCount \in Nat
  BY PageCountAssumption DEF Garbage
<1>5. ChildPointers(image, p) \in Seq(Int)
  <2>1. image[p].kids \o <<IF p = 1 THEN Garbage ELSE image[p].right>> \in Seq(Int)
    BY <1>2, <1>4
  <2> DEFINE misread == <<Garbage, image[p].stray>> \o image[p].kids
             count   == Len(image[p].kids)
  <2>2. misread \in Seq(Int) /\ Len(misread) = count + 2 /\ count \in Nat
    BY <1>2, <1>4
  <2>3. \A i \in 1 .. count : misread[i] \in Int
    BY <2>2, ElementOfSeq
  <2>4. SubSeq(misread, 1, count) \in Seq(Int)
    <3> HIDE DEF misread, count
    <3> QED
      BY <2>2, <2>3, SubSeqProperties
  <2> QED
    BY <2>1, <2>4 DEF ChildPointers
<1> QED
  BY <1>1, <1>2, <1>3, <1>5

(* The frames stay as they should be when the innermost goes on.           *)
LEMMA BecomeFrames ==
  ASSUME TypeOK, FramesOK, stack # <<>>, NEW f \in Frame, Become(f),
         image' = image, declined \subseteq declined',
         FrameOK(f, image, declined')
  PROVE  stack' \in Seq(Frame) /\ FramesOK'
<1>1. /\ stack' \in Seq(Frame)
      /\ Len(stack') = Len(stack)
      /\ Len(stack) \in Nat \ {0}
      /\ stack'[Len(stack)] = f
      /\ \A n \in 1 .. Len(stack) - 1 : stack'[n] = stack[n]
  BY BecomeFacts DEF TypeOK
<1>2. /\ DOMAIN stack' = 1 .. Len(stack)
      /\ DOMAIN stack = 1 .. Len(stack)
  BY <1>1 DEF TypeOK
<1>3. ASSUME NEW n \in 1 .. Len(stack) - 1
      PROVE  /\ FrameOK(stack'[n], image, declined')
             /\ stack'[n].at \in {"child", "subtree"}
  BY <1>1, <1>2, <1>3 DEF FramesOK, FrameOK
<1> QED
  BY <1>1, <1>2, <1>3 DEF FramesOK

(* ... when it waits for a new call ...                                    *)
LEMMA CallFrames ==
  ASSUME TypeOK, FramesOK, stack # <<>>, NEW f \in Frame, NEW c \in Frame,
         BecomeAndCall(f, c), image' = image, declined \subseteq declined',
         FrameOK(f, image, declined'), f.at \in {"child", "subtree"},
         c.at = "begin"
  PROVE  stack' \in Seq(Frame) /\ FramesOK'
<1>1. /\ stack' \in Seq(Frame)
      /\ Len(stack') = Len(stack) + 1
      /\ Len(stack) \in Nat \ {0}
      /\ stack'[Len(stack) + 1] = c
      /\ stack'[Len(stack)] = f
      /\ \A n \in 1 .. Len(stack) - 1 : stack'[n] = stack[n]
  BY CallFacts DEF TypeOK
<1>2. /\ DOMAIN stack' = 1 .. Len(stack) + 1
      /\ DOMAIN stack = 1 .. Len(stack)
  BY <1>1 DEF TypeOK
<1>3. ASSUME NEW n \in 1 .. Len(stack) - 1
      PROVE  /\ FrameOK(stack'[n], image, declined')
             /\ stack'[n].at \in {"child", "subtree"}
  BY <1>1, <1>2, <1>3 DEF FramesOK, FrameOK
<1>4. FrameOK(c, image, declined')
  BY DEF FrameOK, Active
<1> QED
  BY <1>1, <1>2, <1>3, <1>4 DEF FramesOK

(* ... and when it returns to its caller.                                  *)
LEMMA ReturnFrames ==
  ASSUME TypeOK, FramesOK, stack # <<>>, NEW result, Return(result),
         image' = image, declined' = declined
  PROVE  stack' \in Seq(Frame) /\ FramesOK'
<1>1. /\ stack' \in Seq(Frame)
      /\ Len(stack') = Len(stack) - 1
      /\ Len(stack) \in Nat \ {0}
      /\ \A n \in 1 .. Len(stack) - 1 :
              \/ stack'[n] = stack[n]
              \/ /\ n = Len(stack) - 1
                 /\ stack[n].at = "child"
                 /\ stack'[n] = Moved(stack[n], "end")
              \/ /\ n = Len(stack) - 1
                 /\ stack[n].at = "subtree"
                 /\ stack'[n] = Moved(stack[n], "cell")
              \/ /\ n = Len(stack) - 1
                 /\ stack[n].at = "subtree"
                 /\ stack'[n] = Moved(stack[n], "end")
  BY ReturnFacts DEF TypeOK
<1>2. /\ DOMAIN stack' = 1 .. Len(stack) - 1
      /\ DOMAIN stack = 1 .. Len(stack)
  BY <1>1 DEF TypeOK
<1>3. ASSUME NEW n \in 1 .. Len(stack) - 1
      PROVE  /\ FrameOK(stack'[n], image, declined)
             /\ n < Len(stack) - 1 => stack'[n].at \in {"child", "subtree"}
  <2>1. /\ stack[n] \in Frame
        /\ FrameOK(stack[n], image, declined)
        /\ stack[n].at \in {"child", "subtree"}
    <3>1. stack \in Seq(Frame) /\ n \in DOMAIN stack /\ n \in 1 .. Len(stack)
      BY <1>1, <1>2, <1>3 DEF TypeOK
    <3>2. stack[n] \in Frame
      BY <3>1, ElementOfSeq
    <3> QED
      BY <1>3, <3>1, <3>2 DEF FramesOK
  <2>2. ASSUME stack'[n] = stack[n] PROVE FrameOK(stack'[n], image, declined)
    BY <2>1, <2>2
  <2>3. ASSUME stack[n].at = "child", stack'[n] = Moved(stack[n], "end")
        PROVE  FrameOK(stack'[n], image, declined)
    BY <2>1, <2>3 DEF FrameOK, Moved, Frame, Active
  <2>4. ASSUME stack[n].at = "subtree", stack'[n] = Moved(stack[n], "cell")
        PROVE  FrameOK(stack'[n], image, declined)
    BY <2>1, <2>4 DEF FrameOK, Moved, Frame, Active
  <2>5. ASSUME stack[n].at = "subtree", stack'[n] = Moved(stack[n], "end")
        PROVE  FrameOK(stack'[n], image, declined)
    BY <2>1, <2>5 DEF FrameOK, Moved, Frame, Active
  <2>6. n < Len(stack) - 1 => stack'[n] = stack[n]
    BY <1>1, <1>3
  <2> QED
    BY <1>1, <1>3, <2>1, <2>2, <2>3, <2>4, <2>5, <2>6
<1> QED
  BY <1>1, <1>2, <1>3 DEF FramesOK


(* Codes, places and answers are what they are called.                     *)
LEMMA CallIsFrame ==
  ASSUME NEW p \in Int, NEW b \in Btrees
  PROVE  Call(p, b) \in Frame /\ Call(p, b).at = "begin"
BY DEF Call, Frame, Places, Codes, Btrees

(* Type and frames are kept by every step.                                 *)
LEMMA TypeStep ==
  ASSUME TypeOK, FramesOK, [Next]_vars
  PROVE  TypeOK' /\ FramesOK'
<1> USE DEF input
<1>1. CASE SkipPage
  BY <1>1, HeadTailProperties DEF SkipPage, NextRequest, TypeOK, FramesOK, Codes
<1>2. CASE OpenFails
  <2>1. /\ image' = image /\ requested' = requested /\ stack' = stack
        /\ status' = status /\ rows' = rows /\ declined' = declined
        /\ rc' \in Codes /\ lost' \in SUBSET Pages
        /\ todo # <<>> /\ todo' = Tail(todo)
    <3>1. GetStatus(Head(todo)) = "unchecked" => Head(todo) \in Pages
      BY DEF GetStatus
    <3> QED
      BY <1>2, <3>1 DEF OpenFails, NextRequest, Fails, TypeOK, Codes
  <2>2. todo' \in Seq(Int)
    BY <2>1, HeadTailProperties DEF TypeOK
  <2> QED
    BY <2>1, <2>2 DEF TypeOK, FramesOK
<1>3. CASE OpenBtree
  <2> DEFINE c == Call(Head(todo), IF Head(todo) = 1 THEN "master" ELSE "user")
  <2>1. Head(todo) \in Int /\ Tail(todo) \in Seq(Int)
    BY <1>3, HeadTailProperties DEF OpenBtree, NextRequest, TypeOK
  <2>2. c \in Frame /\ c.at = "begin"
    BY <2>1, CallIsFrame DEF Btrees
  <2>3. stack' = <<c>>
    BY <1>3 DEF OpenBtree
  <2>4. FrameOK(c, image, declined)
    BY <2>2 DEF FrameOK, Active
  <2> HIDE DEF c
  <2>5. FramesOK'
    BY <1>3, <2>2, <2>3, <2>4 DEF FramesOK, OpenBtree
  <2> QED
    BY <1>3, <2>1, <2>2, <2>3, <2>5 DEF TypeOK, OpenBtree, NextRequest
<1>4. CASE BeginPage
  <2>1. stack # <<>> /\ Top.at = "begin"
    BY <1>4 DEF BeginPage, At
  <2>2. Top \in Frame /\ FrameOK(Top, image, declined)
    BY <2>1, TopFacts
  <2>3. image' = image /\ declined' = declined
    BY <1>4 DEF BeginPage
  <2>4. CASE GetStatus(Top.page) = "checking" \/ Top.page \notin Pages
    <3>1. Return("MISUSE") /\ status' = status
      BY <1>4, <2>4 DEF BeginPage
    <3>2. stack' \in Seq(Frame) /\ FramesOK'
      BY <2>1, <2>3, <3>1, ReturnFrames
    <3>3. rc' \in Codes
      BY <3>1 DEF Return, TypeOK, Codes
    <3> QED
      BY <1>4, <3>1, <3>2, <3>3 DEF BeginPage, TypeOK
  <2>5. CASE Top.page \in Pages /\ GetStatus(Top.page) # "checking"
    <3> DEFINE f == [Top EXCEPT !.at = "acquire", !.rc = "OK"]
    <3>1. Become(f) /\ rc' = rc /\ SetStatus({Top.page}, "checking")
      BY <1>4, <2>5 DEF BeginPage, Go
    <3>2. f \in Frame
      BY <2>2 DEF Frame, Places, Codes
    <3>3. FrameOK(f, image, declined)
      BY <2>2, <2>5 DEF FrameOK, Frame, Active
    <3> HIDE DEF f
    <3>4. stack' \in Seq(Frame) /\ FramesOK'
      BY <2>1, <2>3, <3>1, <3>2, <3>3, BecomeFrames
    <3>5. status' \in [Pages -> Statuses]
      BY <3>1 DEF SetStatus, TypeOK, Statuses
    <3> QED
      BY <1>4, <3>1, <3>4, <3>5 DEF BeginPage, TypeOK
  <2> QED
    BY <2>4, <2>5
<1>5. CASE AcquireFails
  <2> DEFINE f == [Top EXCEPT !.at = "end", !.rc = "IOERR"]
  <2>1. stack # <<>> /\ Top.at = "acquire" /\ Become(f) /\ Fails(Top.page)
    BY <1>5 DEF AcquireFails, At, Go
  <2>2. Top \in Frame /\ FrameOK(Top, image, declined)
    BY <2>1, TopFacts
  <2>3. f \in Frame
    BY <2>2 DEF Frame, Places, Codes
  <2>4. FrameOK(f, image, declined) /\ Top.page \in Pages
    BY <2>1, <2>2 DEF FrameOK, Frame, Active
  <2> HIDE DEF f
  <2>5. stack' \in Seq(Frame) /\ FramesOK'
    BY <1>5, <2>1, <2>3, <2>4, BecomeFrames DEF AcquireFails
  <2> QED
    BY <1>5, <2>1, <2>4, <2>5 DEF AcquireFails, Fails, TypeOK
<1>6. CASE AcquirePage
  <2>1. stack # <<>> /\ Top.at = "acquire"
    BY <1>6 DEF AcquirePage, At
  <2>2. Top \in Frame /\ FrameOK(Top, image, declined)
    BY <2>1, TopFacts
  <2>3. PICK place \in {"end", "child", "cell"}, code \in {"OK", "DAMAGED"} :
          /\ Go(place, code)
          /\ place = "child" => code = "OK" /\ image[Top.page].kind \in InteriorKinds
          /\ place = "cell" => image[Top.page].kind = "leafTable"
    BY <1>6 DEF AcquirePage
  <2> DEFINE f == [Top EXCEPT !.at = place, !.rc = code]
  <2>4. f \in Frame
    BY <2>2, <2>3 DEF Frame, Places, Codes
  <2>5. FrameOK(f, image, declined)
    BY <2>1, <2>2, <2>3 DEF FrameOK, Frame, Active
  <2>6. Become(f)
    BY <2>3 DEF Go
  <2> HIDE DEF f
  <2>7. stack' \in Seq(Frame) /\ FramesOK'
    BY <1>6, <2>1, <2>4, <2>5, <2>6, BecomeFrames DEF AcquirePage
  <2> QED
    BY <1>6, <2>7 DEF AcquirePage, TypeOK
<1>7. CASE ParseChild
  <2>1. stack # <<>> /\ Top.at = "child"
    BY <1>7 DEF ParseChild, At
  <2>2. Top \in Frame /\ FrameOK(Top, image, declined)
    BY <2>1, TopFacts
  <2>3. Top.page \in Pages /\ Top.rc = "OK"
    BY <2>1, <2>2 DEF FrameOK, Active
  <2> DEFINE kids == ChildPointers(image, Top.page)
  <2>4. CASE Top.i > Len(kids)
    <3> DEFINE f == [Top EXCEPT !.at = "end", !.rc = "OK"]
    <3>1. Become(f)
      BY <1>7, <2>4 DEF ParseChild, Go
    <3>2. f \in Frame
      BY <2>2 DEF Frame, Places, Codes
    <3>3. FrameOK(f, image, declined)
      BY <2>2, <2>3 DEF FrameOK, Frame, Active
    <3> HIDE DEF f
    <3>4. stack' \in Seq(Frame) /\ FramesOK'
      BY <1>7, <2>1, <3>1, <3>2, <3>3, BecomeFrames DEF ParseChild
    <3> QED
      BY <1>7, <3>4 DEF ParseChild, TypeOK
  <2>5. CASE Top.i <= Len(kids)
    <3> DEFINE f == [Top EXCEPT !.i = @ + 1]
               c == Call(kids[Top.i], Top.btree)
    <3>1. kids \in Seq(Int) /\ Top.i \in Nat \ {0} /\ Top.btree \in Btrees
      BY <2>2, <2>3, ImageFacts DEF Frame
    <3>2. kids[Top.i] \in Int
      BY <2>5, <3>1, ElementOfSeq, LenProperties
    <3>3. c \in Frame /\ c.at = "begin"
      BY <3>1, <3>2, CallIsFrame
    <3>4. ~ (Top.i > Len(kids))
      BY <2>5, <3>1, LenProperties
    <3>5. BecomeAndCall(f, c)
      BY <1>7, <3>4 DEF ParseChild
    <3>6. f \in Frame /\ f.at = "child"
      <4>1. Top.i + 1 \in Nat \ {0}
        BY <3>1
      <4> QED
        BY <2>1, <2>2, <4>1 DEF Frame
    <3>7. FrameOK(f, image, declined)
      BY <2>1, <2>2, <2>3 DEF FrameOK, Frame, Active
    <3> HIDE DEF f, c
    <3>8. stack' \in Seq(Frame) /\ FramesOK'
      BY <1>7, <2>1, <3>3, <3>5, <3>6, <3>7, CallFrames DEF ParseChild
    <3> QED
      BY <1>7, <3>8 DEF ParseChild, TypeOK
  <2>6. Top.i > Len(kids) \/ Top.i <= Len(kids)
    BY <2>2, <2>3, ImageFacts, LenProperties DEF Frame
  <2> QED
    BY <2>4, <2>5, <2>6
<1>8. CASE CellFails
  <2> DEFINE f == [Top EXCEPT !.at = "end", !.rc = "IOERR"]
  <2>1. stack # <<>> /\ Top.at = "cell" /\ Become(f) /\ Fails(Top.page)
    BY <1>8 DEF CellFails, At, Go
  <2>2. Top \in Frame /\ FrameOK(Top, image, declined)
    BY <2>1, TopFacts
  <2>3. f \in Frame
    BY <2>2 DEF Frame, Places, Codes
  <2>4. FrameOK(f, image, declined) /\ Top.page \in Pages
    BY <2>1, <2>2 DEF FrameOK, Frame, Active
  <2> HIDE DEF f
  <2>5. stack' \in Seq(Frame) /\ FramesOK'
    BY <1>8, <2>1, <2>3, <2>4, BecomeFrames DEF CellFails
  <2> QED
    BY <1>8, <2>1, <2>4, <2>5 DEF CellFails, Fails, TypeOK
<1>9. CASE ParseCell
  <2>1. stack # <<>> /\ Top.at = "cell"
    BY <1>9 DEF ParseCell, At
  <2>2. Top \in Frame /\ FrameOK(Top, image, declined)
    BY <2>1, TopFacts
  <2>3. Top.page \in Pages
    BY <2>1, <2>2 DEF FrameOK, Active
  <2>4. image[Top.page].cells \in Seq(Cell) /\ Top.i \in Nat \ {0}
    BY <2>2, <2>3, ImageFacts DEF Frame
  <2>5. CASE Top.i > Len(image[Top.page].cells)
    <3> DEFINE f == [Top EXCEPT !.at = "end", !.rc = "OK"]
    <3>1. Become(f)
      BY <1>9, <2>5 DEF ParseCell, Go
    <3>2. f \in Frame
      BY <2>2 DEF Frame, Places, Codes
    <3>3. FrameOK(f, image, declined)
      BY <2>2, <2>3 DEF FrameOK, Frame, Active
    <3> HIDE DEF f
    <3>4. stack' \in Seq(Frame) /\ FramesOK'
      BY <1>9, <2>1, <3>1, <3>2, <3>3, BecomeFrames DEF ParseCell
    <3> QED
      BY <1>9, <3>4 DEF ParseCell, TypeOK
  <2>6. CASE ~ (Top.i > Len(image[Top.page].cells))
    <3>1. PICK place \in {"overflow", "column"} :
            Become([Top EXCEPT !.at = place, !.next = CellNow.chain,
                               !.got = 0, !.chain = {}])
      BY <1>9, <2>6 DEF ParseCell
    <3> DEFINE f == [Top EXCEPT !.at = place, !.next = CellNow.chain,
                                !.got = 0, !.chain = {}]
    <3>2. Top.i \in DOMAIN image[Top.page].cells
      BY <2>4, <2>6, LenProperties
    <3>3. CellNow \in Cell
      BY <2>3, <3>2, ImageFacts DEF CellNow
    <3>4. f \in Frame
      BY <2>2, <3>1, <3>3 DEF Frame, Places, Cell
    <3>5. FrameOK(f, image, declined)
      BY <2>1, <2>2, <2>3, <3>1, <3>2 DEF FrameOK, Frame, Active
    <3>6. Become(f)
      BY <3>1
    <3> HIDE DEF f
    <3>7. stack' \in Seq(Frame) /\ FramesOK'
      BY <1>9, <2>1, <3>4, <3>5, <3>6, BecomeFrames DEF ParseCell
    <3> QED
      BY <1>9, <3>7 DEF ParseCell, TypeOK
  <2> QED
    BY <2>5, <2>6
<1>10. CASE OverflowBegin
  <2>1. stack # <<>> /\ Top.at = "overflow"
    BY <1>10 DEF OverflowBegin, At
  <2>2. Top \in Frame /\ FrameOK(Top, image, declined)
    BY <2>1, TopFacts
  <2>3. CASE Top.next \in Pages
    <3> DEFINE f == [Top EXCEPT !.at = "overflowRead",
                                !.chain = @ \cup {Top.next}]
    <3>1. Become(f) /\ SetStatus({Top.next}, "checking")
      BY <1>10, <2>3 DEF OverflowBegin
    <3>2. f \in Frame
      BY <2>2, <2>3 DEF Frame, Places
    <3>3. FrameOK(f, image, declined)
      BY <2>1, <2>2, <2>3 DEF FrameOK, Frame, Active
    <3> HIDE DEF f
    <3>4. stack' \in Seq(Frame) /\ FramesOK'
      BY <1>10, <2>1, <3>1, <3>2, <3>3, BecomeFrames DEF OverflowBegin
    <3>5. status' \in [Pages -> Statuses]
      BY <3>1 DEF SetStatus, TypeOK, Statuses
    <3> QED
      BY <1>10, <3>4, <3>5 DEF OverflowBegin, TypeOK
  <2>4. CASE Top.next \notin Pages
    <3> DEFINE f == [Top EXCEPT !.at = "column", !.rc = "OK"]
    <3>1. Become(f) /\ status' = status
      BY <1>10, <2>4 DEF OverflowBegin, Go
    <3>2. f \in Frame
      BY <2>2 DEF Frame, Places, Codes
    <3>3. FrameOK(f, image, declined)
      BY <2>1, <2>2 DEF FrameOK, Frame, Active
    <3> HIDE DEF f
    <3>4. stack' \in Seq(Frame) /\ FramesOK'
      BY <1>10, <2>1, <3>1, <3>2, <3>3, BecomeFrames DEF OverflowBegin
    <3> QED
      BY <1>10, <3>1, <3>4 DEF OverflowBegin, TypeOK
  <2> QED
    BY <2>3, <2>4
<1>11. CASE OverflowFails
  <2> DEFINE f == [Top EXCEPT !.at = "column", !.rc = "OK"]
  <2>1. /\ stack # <<>> /\ Top.at = "overflowRead" /\ Become(f)
        /\ Fails(Top.next) /\ SetStatus({Top.next}, "invalid")
    BY <1>11 DEF OverflowFails, At, Go
  <2>2. Top \in Frame /\ FrameOK(Top, image, declined)
    BY <2>1, TopFacts
  <2>3. f \in Frame
    BY <2>2 DEF Frame, Places, Codes
  <2>4. FrameOK(f, image, declined) /\ Top.next \in Pages
    BY <2>1, <2>2 DEF FrameOK, Frame, Active
  <2> HIDE DEF f
  <2>5. stack' \in Seq(Frame) /\ FramesOK'
    BY <1>11, <2>1, <2>3, <2>4, BecomeFrames DEF OverflowFails
  <2>6. status' \in [Pages -> Statuses]
    BY <2>1 DEF SetStatus, TypeOK, Statuses
  <2> QED
    BY <1>11, <2>1, <2>4, <2>5, <2>6 DEF OverflowFails, Fails, TypeOK
<1>12. CASE OverflowRead
  <2> DEFINE got == IF Top.got < CellNow.need THEN Top.got + 1 ELSE Top.got
             f == [Top EXCEPT !.at = "overflow", !.got = got,
                              !.next = image[Top.next].link]
  <2>1. /\ stack # <<>> /\ Top.at = "overflowRead" /\ Become(f)
        /\ SetStatus({Top.next}, "checked")
    BY <1>12 DEF OverflowRead, At
  <2>2. Top \in Frame /\ FrameOK(Top, image, declined)
    BY <2>1, TopFacts
  <2>3. Top.next \in Pages
    BY <2>1, <2>2 DEF FrameOK
  <2>4. got \in Nat /\ image[Top.next].link \in Int
    BY <2>2, <2>3, ImageFacts DEF Frame
  <2> HIDE DEF got
  <2>5. f \in Frame
    BY <2>2, <2>4 DEF Frame, Places
  <2>6. FrameOK(f, image, declined)
    BY <2>1, <2>2 DEF FrameOK, Frame, Active
  <2> HIDE DEF f
  <2>7. stack' \in Seq(Frame) /\ FramesOK'
    BY <1>12, <2>1, <2>5, <2>6, BecomeFrames DEF OverflowRead
  <2>8. status' \in [Pages -> Statuses]
    BY <2>1 DEF SetStatus, TypeOK, Statuses
  <2> QED
    BY <1>12, <2>7, <2>8 DEF OverflowRead, TypeOK
<1>13. CASE DecodeFails
  <2>1. stack # <<>> /\ Top.at = "column"
    BY <1>13 DEF DecodeFails, At
  <2>2. Top \in Frame /\ FrameOK(Top, image, declined)
    BY <2>1, TopFacts
  <2>3. Top.page \in Pages /\ Top.i \in DOMAIN image[Top.page].cells
    BY <2>1, <2>2 DEF FrameOK, Active
  <2>4. CellNow.decode \in {"OK", "MISUSE", "DAMAGED"}
    BY <2>3, ImageFacts DEF CellNow, Cell
  <2>5. PICK code \in {"OK", "MISUSE", "DAMAGED", "IOERR"} : Go("end", code)
    BY <1>13, <2>4 DEF DecodeFails
  <2>6. lost' \in SUBSET Pages
    BY <1>13, <2>3 DEF DecodeFails, Fails, TypeOK
  <2> DEFINE f == [Top EXCEPT !.at = "end", !.rc = code]
  <2>7. f \in Frame
    BY <2>2, <2>5 DEF Frame, Places, Codes
  <2>8. FrameOK(f, image, declined)
    BY <2>2, <2>3, <2>5 DEF FrameOK, Frame, Active
  <2>9. Become(f)
    BY <2>5 DEF Go
  <2> HIDE DEF f
  <2>10. stack' \in Seq(Frame) /\ FramesOK'
    BY <1>13, <2>1, <2>7, <2>8, <2>9, BecomeFrames DEF DecodeFails
  <2> QED
    BY <1>13, <2>6, <2>10 DEF DecodeFails, TypeOK
<1>14. ASSUME NEW answer \in Answers, Deliver(answer)
       PROVE  TypeOK' /\ FramesOK'
  <2>1. stack # <<>> /\ Top.at = "column"
    BY <1>14 DEF Deliver, At
  <2>2. Top \in Frame /\ FrameOK(Top, image, declined)
    BY <2>1, TopFacts
  <2>3. Top.page \in Pages /\ Top.i \in DOMAIN image[Top.page].cells
    BY <2>1, <2>2 DEF FrameOK, Active
  <2>4. CellNow \in Cell /\ Top.i \in Nat \ {0}
    BY <2>2, <2>3, ImageFacts DEF CellNow, Frame
  <2>5. answer \in Codes
    BY <1>14, BtreeParseAssumption
  <2>6. /\ declined' \in SUBSET [page : Pages, answer : Codes]
        /\ declined \subseteq declined'
        /\ answer = "CANCELLED"
             => [page |-> Top.page, answer |-> "CANCELLED"] \in declined'
    BY <1>14, <2>3, <2>5 DEF Deliver, TypeOK
  <2>7. status' \in [Pages -> Statuses]
    BY <1>14 DEF Deliver, SetStatus, TypeOK, Statuses
  <2>8. rows' \in Seq([page : Pages, i : Nat \ {0}, whole : BOOLEAN])
    BY <1>14, <2>3, <2>4 DEF Deliver, TypeOK, Whole
  <2> DEFINE goOn(place) == [Top EXCEPT !.at = place, !.rc = answer, !.i = @ + 1]
             next == goOn(IF answer = "OK" THEN "cell" ELSE "end")
             c == Call(CellNow.root, SubtreeType(CellNow))
  <2>9. /\ goOn("subtree") \in Frame /\ goOn("subtree").at = "subtree"
        /\ next \in Frame
    <3>1. Top.i + 1 \in Nat \ {0}
      BY <2>4
    <3> QED
      BY <2>2, <2>5, <3>1 DEF Frame, Places
  <2>10. FrameOK(next, image, declined')
    BY <2>1, <2>2, <2>3, <2>6 DEF FrameOK, Frame, Active
  <2>11. answer # "CANCELLED" => FrameOK(goOn("subtree"), image, declined')
    BY <2>1, <2>2, <2>3 DEF FrameOK, Frame, Active
  <2>12. c \in Frame /\ c.at = "begin"
    BY <2>4, CallIsFrame DEF SubtreeType, Btrees, Cell
  <2>13. image' = image
    BY <1>14 DEF Deliver
  <2>14. lost' \in SUBSET Pages
    BY <1>14 DEF Deliver, Fails, TypeOK
  <2>15. \/ Become(next)
         \/ answer # "CANCELLED" /\ BecomeAndCall(goOn("subtree"), c)
    BY <1>14 DEF Deliver, OpensSubtree
  <2> HIDE DEF goOn, next, c
  <2>16. stack' \in Seq(Frame) /\ FramesOK'
    <3>1. CASE Become(next)
      BY <2>1, <2>6, <2>9, <2>10, <2>13, <3>1, BecomeFrames
    <3>2. CASE answer # "CANCELLED" /\ BecomeAndCall(goOn("subtree"), c)
      BY <2>1, <2>6, <2>9, <2>11, <2>12, <2>13, <3>2, CallFrames
    <3> QED
      BY <2>15, <3>1, <3>2
  <2> QED
    BY <1>14, <2>6, <2>7, <2>8, <2>14, <2>16 DEF Deliver, TypeOK
<1>15. CASE EndPage
  <2>1. stack # <<>> /\ Top.at = "end" /\ Return(Top.rc)
    BY <1>15 DEF EndPage, At
  <2>2. Top \in Frame
    BY <2>1, TopFacts
  <2>3. status' \in [Pages -> Statuses]
    BY <1>15 DEF EndPage, SetStatus, TypeOK, Statuses
  <2>4. stack' \in Seq(Frame) /\ FramesOK'
    BY <1>15, <2>1, ReturnFrames DEF EndPage
  <2>5. rc' \in Codes
    BY <2>1, <2>2 DEF Return, TypeOK, Frame
  <2> QED
    BY <1>15, <2>3, <2>4, <2>5 DEF EndPage, TypeOK
<1>16. CASE UNCHANGED vars
  BY <1>16 DEF vars, TypeOK, FramesOK
<1> QED
  BY <1>1, <1>2, <1>3, <1>4, <1>5, <1>6, <1>7, <1>8, <1>9, <1>10, <1>11,
     <1>12, <1>13, <1>14, <1>15, <1>16 DEF Next, Step, Traverse, Finished


-----------------------------------------------------------------------------
(* The accounting of the mark "checking".                                  *)

(* A step that keeps the innermost frame on its page keeps the accounts if *)
(* every page that is now "checking" was so, and is not the overflow page  *)
(* that the frame leaves, or is visited by the frame.                      *)
LEMMA BecomeAccount ==
  ASSUME TypeOK, FramesOK, CheckingAccounted, stack # <<>>,
         NEW f \in Frame, NEW c \in Frame, Become(f) \/ BecomeAndCall(f, c),
         f.page = Top.page, Active(f), declined \subseteq declined',
         \A p \in Pages : status'[p] = "checking" =>
            \/ /\ status[p] = "checking"
               /\ ~ (Top.at = "overflowRead" /\ Top.next = p)
            \/ Visits(f, p)
  PROVE  CheckingAccounted'
<1>1. stack \in Seq(Frame) /\ Len(stack) \in Nat \ {0} /\ Top = stack[Len(stack)]
  BY TopFacts
<1>2. /\ stack' \in Seq(Frame)
      /\ Len(stack') \in {Len(stack), Len(stack) + 1}
      /\ stack'[Len(stack)] = f
      /\ \A n \in 1 .. Len(stack) - 1 : stack'[n] = stack[n]
  <2>1. CASE Become(f)
    BY <1>1, <2>1, BecomeFacts
  <2>2. CASE BecomeAndCall(f, c)
    BY <1>1, <2>2, CallFacts
  <2> QED
    BY <2>1, <2>2
<1>3. /\ DOMAIN stack = 1 .. Len(stack)
      /\ 1 .. Len(stack) \subseteq DOMAIN stack'
  BY <1>1, <1>2
<1>4. SUFFICES ASSUME NEW p \in Pages, status'[p] = "checking",
                      [page |-> p, answer |-> "CANCELLED"] \notin declined'
               PROVE  \E n \in DOMAIN stack' : Visits(stack'[n], p)
  BY DEF CheckingAccounted, BeingVisited
<1>5. CASE Visits(f, p)
  BY <1>1, <1>2, <1>3, <1>5
<1>6. CASE status[p] = "checking" /\ ~ (Top.at = "overflowRead" /\ Top.next = p)
  <2>1. PICK n \in DOMAIN stack : Visits(stack[n], p)
    BY <1>4, <1>6 DEF CheckingAccounted, BeingVisited
  <2>2. CASE n = Len(stack)
    <3>1. Visits(f, p)
      BY <1>1, <1>6, <2>1, <2>2 DEF Visits
    <3> QED
      BY <3>1, <1>5
  <2>3. CASE n \in 1 .. Len(stack) - 1
    BY <1>2, <1>3, <2>1, <2>3
  <2> QED
    BY <1>1, <1>3, <2>2, <2>3
<1> QED
  BY <1>4, <1>5, <1>6

(* A return keeps the accounts if no page becomes "checking" and the page  *)
(* that the frame leaves in that state was cancelled.                      *)
LEMMA ReturnAccount ==
  ASSUME TypeOK, FramesOK, CheckingAccounted, stack # <<>>,
         NEW result, Return(result), declined' = declined,
         \A p \in Pages : status'[p] = "checking" =>
            /\ status[p] = "checking"
            /\ Visits(Top, p) => [page |-> p, answer |-> "CANCELLED"] \in declined
  PROVE  CheckingAccounted'
<1>1. stack \in Seq(Frame) /\ Len(stack) \in Nat \ {0} /\ Top = stack[Len(stack)]
  BY TopFacts
<1>2. /\ stack' \in Seq(Frame)
      /\ Len(stack') = Len(stack) - 1
      /\ \A n \in 1 .. Len(stack) - 1 :
              \/ stack'[n] = stack[n]
              \/ /\ stack[n].at \in {"child", "subtree"}
                 /\ \/ stack'[n] = Moved(stack[n], "end")
                    \/ stack'[n] = Moved(stack[n], "cell")
  <2>1. /\ stack' \in Seq(Frame)
        /\ Len(stack') = Len(stack) - 1
        /\ \A n \in 1 .. Len(stack) - 1 :
              \/ stack'[n] = stack[n]
              \/ /\ n = Len(stack) - 1
                 /\ stack[n].at = "child"
                 /\ stack'[n] = Moved(stack[n], "end")
              \/ /\ n = Len(stack) - 1
                 /\ stack[n].at = "subtree"
                 /\ stack'[n] = Moved(stack[n], "cell")
              \/ /\ n = Len(stack) - 1
                 /\ stack[n].at = "subtree"
                 /\ stack'[n] = Moved(stack[n], "end")
    BY <1>1, ReturnFacts
  <2> QED
    BY <2>1
<1>3. /\ DOMAIN stack = 1 .. Len(stack)
      /\ DOMAIN stack' = 1 .. Len(stack) - 1
  BY <1>1, <1>2
<1>4. SUFFICES ASSUME NEW p \in Pages, status'[p] = "checking",
                      [page |-> p, answer |-> "CANCELLED"] \notin declined
               PROVE  \E n \in DOMAIN stack' : Visits(stack'[n], p)
  BY DEF CheckingAccounted, BeingVisited
<1>5. status[p] = "checking" /\ ~ Visits(Top, p)
  BY <1>4
<1>6. PICK n \in DOMAIN stack : Visits(stack[n], p)
  BY <1>4, <1>5 DEF CheckingAccounted, BeingVisited
<1>7. n \in 1 .. Len(stack) - 1
  BY <1>1, <1>3, <1>5, <1>6
<1>8. stack[n] \in Frame
  BY <1>1, <1>6, ElementOfSeq
<1>9. Visits(stack'[n], p)
  <2>1. CASE stack'[n] = stack[n]
    BY <1>6, <2>1
  <2>2. CASE /\ stack[n].at \in {"child", "subtree"}
             /\ \/ stack'[n] = Moved(stack[n], "end")
                \/ stack'[n] = Moved(stack[n], "cell")
    BY <1>6, <1>8, <2>2 DEF Visits, Active, Moved, Frame
  <2> QED
    BY <1>2, <1>7, <2>1, <2>2
<1> QED
  BY <1>3, <1>7, <1>9

LEMMA AccountStep ==
  ASSUME TypeOK, FramesOK, CheckingAccounted, [Next]_vars
  PROVE  CheckingAccounted'
<1> USE DEF input
<1> DEFINE none == Call(1, "user")
<1>0. none \in Frame
  BY CallIsFrame DEF Btrees
<1> HIDE DEF none
<1>1. CASE SkipPage \/ OpenFails
  BY <1>1 DEF SkipPage, OpenFails, CheckingAccounted, BeingVisited
<1>2. CASE OpenBtree
  BY <1>2 DEF OpenBtree, NextRequest, CheckingAccounted, BeingVisited
<1>3. CASE BeginPage
  <2>1. stack # <<>> /\ Top.at = "begin" /\ declined' = declined
    BY <1>3 DEF BeginPage, At
  <2>2. Top \in Frame
    BY <2>1, TopFacts
  <2>3. CASE GetStatus(Top.page) = "checking" \/ Top.page \notin Pages
    <3>1. Return("MISUSE") /\ status' = status
      BY <1>3, <2>3 DEF BeginPage
    <3>2. \A p \in Pages : ~ Visits(Top, p)
      BY <2>1 DEF Visits, Active
    <3> QED
      BY <2>1, <3>1, <3>2, ReturnAccount
  <2>4. CASE Top.page \in Pages /\ GetStatus(Top.page) # "checking"
    <3> DEFINE f == [Top EXCEPT !.at = "acquire", !.rc = "OK"]
    <3>1. Become(f) /\ SetStatus({Top.page}, "checking")
      BY <1>3, <2>4 DEF BeginPage, Go
    <3>2. f \in Frame /\ f.page = Top.page /\ Active(f)
      BY <2>2 DEF Frame, Places, Codes, Active
    <3> HIDE DEF f
    <3>3. Visits(f, Top.page)
      BY <3>2 DEF Visits
    <3>4. \A p \in Pages : status'[p] = "checking" =>
            status[p] = "checking" \/ p = Top.page
      BY <3>1 DEF SetStatus
    <3> QED
      BY <1>0, <2>1, <3>1, <3>2, <3>3, <3>4, BecomeAccount
  <2> QED
    BY <2>3, <2>4
<1>4. CASE AcquireFails \/ CellFails
  <2> DEFINE f == [Top EXCEPT !.at = "end", !.rc = "IOERR"]
  <2>1. /\ stack # <<>> /\ Top.at \in {"acquire", "cell"} /\ Become(f)
        /\ status' = status /\ declined' = declined
    BY <1>4 DEF AcquireFails, CellFails, At, Go
  <2>2. f \in Frame /\ f.page = Top.page /\ Active(f)
    BY <2>1, TopFacts DEF Frame, Places, Codes, Active
  <2> HIDE DEF f
  <2> QED
    BY <1>0, <2>1, <2>2, BecomeAccount
<1>5. CASE AcquirePage
  <2>1. /\ stack # <<>> /\ Top.at = "acquire"
        /\ status' = status /\ declined' = declined
    BY <1>5 DEF AcquirePage, At
  <2>2. PICK place \in {"end", "child", "cell"}, code \in {"OK", "DAMAGED"} :
          Go(place, code)
    BY <1>5 DEF AcquirePage
  <2> DEFINE f == [Top EXCEPT !.at = place, !.rc = code]
  <2>3. f \in Frame /\ f.page = Top.page /\ Active(f)
    BY <2>1, <2>2, TopFacts DEF Frame, Places, Codes, Active
  <2>4. Become(f)
    BY <2>2 DEF Go
  <2> HIDE DEF f
  <2> QED
    BY <1>0, <2>1, <2>3, <2>4, BecomeAccount
<1>6. CASE ParseChild
  <2> DEFINE c == Call(ChildPointers(image, Top.page)[Top.i], Top.btree)
  <2>1. /\ stack # <<>> /\ Top.at = "child"
        /\ status' = status /\ declined' = declined
    BY <1>6 DEF ParseChild, At
  <2>2. Top \in Frame /\ Top.page \in Pages
    BY <2>1, TopFacts DEF FrameOK, Active
  <2>3. CASE Top.i > Len(ChildPointers(image, Top.page))
    <3> DEFINE f == [Top EXCEPT !.at = "end", !.rc = "OK"]
    <3>1. Become(f)
      BY <1>6, <2>3 DEF ParseChild, Go
    <3>2. f \in Frame /\ f.page = Top.page /\ Active(f)
      BY <2>2 DEF Frame, Places, Codes, Active
    <3> HIDE DEF f
    <3> QED
      BY <1>0, <2>1, <3>1, <3>2, BecomeAccount
  <2>4. CASE ~ (Top.i > Len(ChildPointers(image, Top.page)))
    <3> DEFINE f == [Top EXCEPT !.i = @ + 1]
    <3>1. /\ ChildPointers(image, Top.page) \in Seq(Int)
          /\ Top.i \in Nat \ {0} /\ Top.btree \in Btrees
      BY <2>2, ImageFacts DEF Frame
    <3>2. Top.i \in 1 .. Len(ChildPointers(image, Top.page))
      BY <2>4, <3>1, LenProperties
    <3>3. c \in Frame
      BY <3>1, <3>2, ElementOfSeq, CallIsFrame
    <3>4. BecomeAndCall(f, c)
      BY <1>6, <2>4 DEF ParseChild
    <3>5. Top.i + 1 \in Nat \ {0}
      BY <3>1
    <3>6. f \in Frame /\ f.page = Top.page /\ Active(f)
      BY <2>1, <2>2, <3>5 DEF Frame, Active
    <3> HIDE DEF f, c
    <3> QED
      BY <2>1, <3>3, <3>4, <3>6, BecomeAccount
  <2> QED
    BY <2>3, <2>4
<1>7. CASE ParseCell
  <2>1. /\ stack # <<>> /\ Top.at = "cell"
        /\ status' = status /\ declined' = declined
    BY <1>7 DEF ParseCell, At
  <2>2. Top \in Frame /\ Top.page \in Pages
    BY <2>1, TopFacts DEF FrameOK, Active
  <2>3. CASE Top.i > Len(image[Top.page].cells)
    <3> DEFINE f == [Top EXCEPT !.at = "end", !.rc = "OK"]
    <3>1. Become(f)
      BY <1>7, <2>3 DEF ParseCell, Go
    <3>2. f \in Frame /\ f.page = Top.page /\ Active(f)
      BY <2>2 DEF Frame, Places, Codes, Active
    <3> HIDE DEF f
    <3> QED
      BY <1>0, <2>1, <3>1, <3>2, BecomeAccount
  <2>4. CASE ~ (Top.i > Len(image[Top.page].cells))
    <3>1. PICK place \in {"overflow", "column"} :
            Become([Top EXCEPT !.at = place, !.next = CellNow.chain,
                               !.got = 0, !.chain = {}])
      BY <1>7, <2>4 DEF ParseCell
    <3> DEFINE f == [Top EXCEPT !.at = place, !.next = CellNow.chain,
                                !.got = 0, !.chain = {}]
    <3>2. Top.i \in DOMAIN image[Top.page].cells
      BY <2>2, <2>4, ImageFacts, LenProperties DEF Frame
    <3>3. CellNow \in Cell
      BY <2>2, <3>2, ImageFacts DEF CellNow
    <3>4. f \in Frame /\ f.page = Top.page /\ Active(f)
      BY <2>2, <3>1, <3>3 DEF Frame, Places, Cell, Active
    <3>5. Become(f)
      BY <3>1
    <3> HIDE DEF f
    <3> QED
      BY <1>0, <2>1, <3>4, <3>5, BecomeAccount
  <2> QED
    BY <2>3, <2>4
<1>8. CASE OverflowBegin
  <2>1. stack # <<>> /\ Top.at = "overflow" /\ declined' = declined
    BY <1>8 DEF OverflowBegin, At
  <2>2. Top \in Frame
    BY <2>1, TopFacts
  <2>3. CASE Top.next \in Pages
    <3> DEFINE f == [Top EXCEPT !.at = "overflowRead",
                                !.chain = @ \cup {Top.next}]
    <3>1. Become(f) /\ SetStatus({Top.next}, "checking")
      BY <1>8, <2>3 DEF OverflowBegin
    <3>2. f \in Frame /\ f.page = Top.page /\ Active(f) /\ Visits(f, Top.next)
      BY <2>2, <2>3 DEF Frame, Places, Active, Visits
    <3> HIDE DEF f
    <3>3. \A p \in Pages : status'[p] = "checking" =>
            status[p] = "checking" \/ p = Top.next
      BY <3>1 DEF SetStatus
    <3> QED
      BY <1>0, <2>1, <3>1, <3>2, <3>3, BecomeAccount
  <2>4. CASE Top.next \notin Pages
    <3> DEFINE f == [Top EXCEPT !.at = "column", !.rc = "OK"]
    <3>1. Become(f) /\ status' = status
      BY <1>8, <2>4 DEF OverflowBegin, Go
    <3>2. f \in Frame /\ f.page = Top.page /\ Active(f)
      BY <2>2 DEF Frame, Places, Codes, Active
    <3> HIDE DEF f
    <3> QED
      BY <1>0, <2>1, <3>1, <3>2, BecomeAccount
  <2> QED
    BY <2>3, <2>4
<1>9. CASE OverflowFails
  <2> DEFINE f == [Top EXCEPT !.at = "column", !.rc = "OK"]
  <2>1. /\ stack # <<>> /\ Top.at = "overflowRead" /\ Become(f)
        /\ SetStatus({Top.next}, "invalid") /\ declined' = declined
    BY <1>9 DEF OverflowFails, At, Go
  <2>2. f \in Frame /\ f.page = Top.page /\ Active(f)
    BY <2>1, TopFacts DEF Frame, Places, Codes, Active
  <2> HIDE DEF f
  <2>3. \A p \in Pages : status'[p] = "checking" =>
          status[p] = "checking" /\ p # Top.next
    BY <2>1 DEF SetStatus
  <2> QED
    BY <1>0, <2>1, <2>2, <2>3, BecomeAccount
<1>10. CASE OverflowRead
  <2> DEFINE got == IF Top.got < CellNow.need THEN Top.got + 1 ELSE Top.got
             f == [Top EXCEPT !.at = "overflow", !.got = got,
                              !.next = image[Top.next].link]
  <2>1. /\ stack # <<>> /\ Top.at = "overflowRead" /\ Become(f)
        /\ SetStatus({Top.next}, "checked") /\ declined' = declined
    BY <1>10 DEF OverflowRead, At
  <2>2. Top \in Frame /\ Top.next \in Pages
    BY <2>1, TopFacts DEF FrameOK
  <2>3. got \in Nat /\ image[Top.next].link \in Int
    BY <2>2, ImageFacts DEF Frame
  <2> HIDE DEF got
  <2>4. f \in Frame /\ f.page = Top.page /\ Active(f)
    BY <2>2, <2>3 DEF Frame, Places, Active
  <2> HIDE DEF f
  <2>5. \A p \in Pages : status'[p] = "checking" =>
          status[p] = "checking" /\ p # Top.next
    BY <2>1 DEF SetStatus
  <2> QED
    BY <1>0, <2>1, <2>4, <2>5, BecomeAccount
<1>11. CASE DecodeFails
  <2>1. /\ stack # <<>> /\ Top.at = "column"
        /\ status' = status /\ declined' = declined
    BY <1>11 DEF DecodeFails, At
  <2>2. /\ Top \in Frame /\ Top.page \in Pages
        /\ Top.i \in DOMAIN image[Top.page].cells
    BY <2>1, TopFacts DEF FrameOK, Active
  <2>3. CellNow.decode \in {"OK", "MISUSE", "DAMAGED"}
    BY <2>2, ImageFacts DEF CellNow, Cell
  <2>4. PICK code \in {"OK", "MISUSE", "DAMAGED", "IOERR"} : Go("end", code)
    BY <1>11, <2>3 DEF DecodeFails
  <2> DEFINE f == [Top EXCEPT !.at = "end", !.rc = code]
  <2>5. f \in Frame /\ f.page = Top.page /\ Active(f)
    BY <2>2, <2>4 DEF Frame, Places, Codes, Active
  <2>6. Become(f)
    BY <2>4 DEF Go
  <2> HIDE DEF f
  <2> QED
    BY <1>0, <2>1, <2>5, <2>6, BecomeAccount
<1>12. ASSUME NEW answer \in Answers, Deliver(answer)
       PROVE  CheckingAccounted'
  <2>1. stack # <<>> /\ Top.at = "column" /\ declined \subseteq declined'
    BY <1>12 DEF Deliver, At
  <2>2. /\ Top \in Frame /\ Top.page \in Pages
        /\ Top.i \in DOMAIN image[Top.page].cells
    BY <2>1, TopFacts DEF FrameOK, Active
  <2>3. CellNow \in Cell /\ Top.i \in Nat \ {0}
    BY <2>2, ImageFacts DEF CellNow, Frame
  <2>4. answer \in Codes
    BY <1>12, BtreeParseAssumption
  <2>5. \A p \in Pages : status'[p] = "checking" => status[p] = "checking"
    BY <1>12 DEF Deliver, SetStatus
  <2> DEFINE goOn(place) == [Top EXCEPT !.at = place, !.rc = answer, !.i = @ + 1]
             next == goOn(IF answer = "OK" THEN "cell" ELSE "end")
             c == Call(CellNow.root, SubtreeType(CellNow))
  <2>6. /\ goOn("subtree") \in Frame /\ next \in Frame
        /\ goOn("subtree").page = Top.page /\ next.page = Top.page
        /\ Active(goOn("subtree")) /\ Active(next)
    <3>1. Top.i + 1 \in Nat \ {0}
      BY <2>3
    <3> QED
      BY <2>2, <2>4, <3>1 DEF Frame, Places, Active
  <2>7. c \in Frame
    BY <2>3, CallIsFrame DEF SubtreeType, Btrees, Cell
  <2>8. Become(next) \/ BecomeAndCall(goOn("subtree"), c)
    BY <1>12 DEF Deliver
  <2> HIDE DEF goOn, next, c
  <2> QED
    BY <2>1, <2>5, <2>6, <2>7, <2>8, BecomeAccount
<1>13. CASE EndPage
  <2>1. /\ stack # <<>> /\ Top.at = "end" /\ Return(Top.rc)
        /\ declined' = declined
    BY <1>13 DEF EndPage, At
  <2>2. Top \in Frame /\ FrameOK(Top, image, declined)
    BY <2>1, TopFacts
  <2>3. \A p \in Pages : status'[p] = "checking" =>
          /\ status[p] = "checking"
          /\ p = Top.page => Top.rc = "CANCELLED"
    BY <1>13 DEF EndPage, SetStatus
  <2>4. \A p \in Pages : Visits(Top, p) => p = Top.page
    BY <2>1 DEF Visits
  <2>5. Top.rc = "CANCELLED"
          => [page |-> Top.page, answer |-> "CANCELLED"] \in declined
    BY <2>1, <2>2 DEF FrameOK
  <2> QED
    BY <2>1, <2>3, <2>4, <2>5, ReturnAccount
<1>14. CASE UNCHANGED vars
  BY <1>14 DEF vars, CheckingAccounted, BeingVisited
<1> QED
  BY <1>1, <1>2, <1>3, <1>4, <1>5, <1>6, <1>7, <1>8, <1>9, <1>10, <1>11,
     <1>12, <1>13, <1>14 DEF Next, Step, Traverse, Finished

(* Init establishes all three.                                             *)
LEMMA InitialState ==
  ASSUME Init
  PROVE  TypeOK /\ FramesOK /\ CheckingAccounted
<1>1. image \in ImageType /\ requested \in Seq(Int)
  BY BtreeParseAssumption DEF Init
<1>2. <<>> \in Seq(Frame)
  BY EmptySeq
<1>3. <<>> \in Seq([page : Pages, i : Nat \ {0}, whole : BOOLEAN])
  BY EmptySeq
<1> QED
  BY <1>1, <1>2, <1>3
     DEF Init, TypeOK, FramesOK, CheckingAccounted, Statuses, Codes

(* Every variable keeps its type: stack frames are frames of pages of the  *)
(* file, statuses are statuses, results are result codes.                  *)
THEOREM TypeCorrect == Spec => []TypeOK
<1>1. TypeOK /\ FramesOK /\ [Next]_vars => (TypeOK /\ FramesOK)'
  BY TypeStep
<1> QED
  BY <1>1, InitialState, PTL DEF Spec

(* On every image, whatever fails and whatever the callback answers, a     *)
(* page whose status is "checking" is being visited or was cancelled; no   *)
(* other page is refused a later visit (sqliterkNotify_onBeginParsePage).  *)
THEOREM ChecksAreAccountedFor == Spec => []CheckingAccounted
<1>1. TypeOK /\ FramesOK /\ CheckingAccounted /\ [Next]_vars
        => (TypeOK /\ FramesOK /\ CheckingAccounted)'
  BY TypeStep, AccountStep
<1> QED
  BY <1>1, InitialState, PTL DEF Spec

-----------------------------------------------------------------------------
(* No page is entered while it is being parsed.                            *)

(* The callers of the innermost frame are parsing b-tree pages of the      *)
(* file, all marked, none of them the page of the innermost frame.         *)
LEMMA CallersMarked ==
  ASSUME TypeOK, FramesOK, FramesMarked, NoReentry, Undisturbed,
         stack # <<>>, NEW n \in 1 .. Len(stack) - 1
  PROVE  /\ stack[n] \in Frame
         /\ stack[n].at \in {"child", "subtree"}
         /\ stack[n].page \in Pages
         /\ status[stack[n].page] = "checking"
         /\ IsBtree(image, stack[n].page)
         /\ Active(Top) => stack[n].page # Top.page
<1>1. /\ stack \in Seq(Frame) /\ Len(stack) \in Nat \ {0}
      /\ Top = stack[Len(stack)]
  BY TopFacts
<1>2. n \in DOMAIN stack /\ Len(stack) \in DOMAIN stack /\ n # Len(stack)
  BY <1>1
<1>3. stack[n] \in Frame
  BY <1>1, <1>2, ElementOfSeq
<1>4. stack[n].at \in {"child", "subtree"} /\ FrameOK(stack[n], image, declined)
  BY <1>2 DEF FramesOK
<1>5. /\ Active(stack[n]) /\ stack[n].page \in Pages
      /\ image[stack[n].page].kind \in InteriorKinds \cup {"leafTable"}
  BY <1>4 DEF FrameOK, Active
<1>6. status[stack[n].page] = "checking"
  BY <1>2, <1>4 DEF FramesMarked, FrameMarked
<1>7. IsBtree(image, stack[n].page)
  BY <1>5 DEF IsBtree, BtreeKinds
<1>8. Active(Top) => stack[n].page # Top.page
  BY <1>1, <1>2, <1>5 DEF NoReentry
<1> QED
  BY <1>3, <1>4, <1>5, <1>6, <1>7, <1>8

(* The innermost frame may go on, or enter its page, if it is marked, its  *)
(* callers stay marked and none of them is at its page.                    *)
LEMMA BecomeMarked ==
  ASSUME TypeOK, FramesOK, FramesMarked, NoReentry, Undisturbed, stack # <<>>,
         NEW f \in Frame, NEW c \in Frame,
         Become(f) \/ (BecomeAndCall(f, c) /\ c.at = "begin"),
         image' = image, f.page = Top.page,
         FrameMarked(f, image, status'),
         \A n \in 1 .. Len(stack) - 1 :
            /\ status'[stack[n].page] = "checking"
            /\ stack[n].page # Top.page
  PROVE  FramesMarked' /\ NoReentry'
<1>1. stack \in Seq(Frame) /\ Len(stack) \in Nat \ {0} /\ Top = stack[Len(stack)]
  BY TopFacts
<1>2. /\ stack' \in Seq(Frame)
      /\ stack'[Len(stack)] = f
      /\ \A n \in 1 .. Len(stack) - 1 : stack'[n] = stack[n]
      /\ \/ Len(stack') = Len(stack)
         \/ Len(stack') = Len(stack) + 1 /\ stack'[Len(stack) + 1].at = "begin"
  <2>1. CASE Become(f)
    BY <1>1, <2>1, BecomeFacts
  <2>2. CASE BecomeAndCall(f, c) /\ c.at = "begin"
    BY <1>1, <2>2, CallFacts
  <2> QED
    BY <2>1, <2>2
<1>3. ASSUME NEW n \in DOMAIN stack'
      PROVE  \/ n \in 1 .. Len(stack) - 1 /\ stack'[n] = stack[n]
             \/ n = Len(stack) /\ stack'[n] = f
             \/ stack'[n].at = "begin"
  <2>1. n \in 1 .. Len(stack')
    BY <1>2, <1>3
  <2>2. CASE n = Len(stack) + 1
    BY <1>1, <1>2, <2>1, <2>2
  <2>3. CASE n = Len(stack)
    BY <1>2, <2>3
  <2>4. CASE n \in 1 .. Len(stack) - 1
    BY <1>2, <2>4
  <2> QED
    BY <1>1, <1>2, <2>1, <2>2, <2>3, <2>4
<1>4. FramesMarked'
  <2>1. SUFFICES ASSUME NEW n \in DOMAIN stack'
                 PROVE  FrameMarked(stack'[n], image, status')
    BY DEF FramesMarked
  <2>2. CASE n \in 1 .. Len(stack) - 1 /\ stack'[n] = stack[n]
    BY <2>2, CallersMarked DEF FrameMarked
  <2>3. CASE n = Len(stack) /\ stack'[n] = f
    BY <2>3
  <2>4. CASE stack'[n].at = "begin"
    BY <2>4 DEF FrameMarked
  <2> QED
    BY <1>3, <2>1, <2>2, <2>3, <2>4
<1>5. NoReentry'
  <2>1. SUFFICES ASSUME NEW m \in DOMAIN stack', NEW n \in DOMAIN stack',
                        m # n, Active(stack'[m]), Active(stack'[n])
                 PROVE  stack'[m].page # stack'[n].page
    BY DEF NoReentry
  <2>2. ASSUME NEW k \in DOMAIN stack', Active(stack'[k])
        PROVE  \/ k \in 1 .. Len(stack) - 1 /\ stack'[k] = stack[k]
               \/ k = Len(stack) /\ stack'[k] = f
    BY <1>3, <2>2 DEF Active
  <2>3. CASE m \in 1 .. Len(stack) - 1 /\ n \in 1 .. Len(stack) - 1
    <3>1. /\ stack'[m] = stack[m] /\ stack'[n] = stack[n]
          /\ m \in DOMAIN stack /\ n \in DOMAIN stack
      BY <1>1, <1>2, <2>3
    <3> QED
      BY <2>1, <3>1 DEF NoReentry
  <2>4. CASE m = Len(stack) \/ n = Len(stack)
    BY <1>1, <1>2, <2>1, <2>2, <2>4
  <2> QED
    BY <2>1, <2>2, <2>3, <2>4
<1> QED
  BY <1>4, <1>5

(* A return keeps the callers marked and apart.                            *)
LEMMA ReturnMarked ==
  ASSUME TypeOK, FramesOK, FramesMarked, NoReentry, Undisturbed, stack # <<>>,
         NEW result, Return(result), image' = image,
         \A n \in 1 .. Len(stack) - 1 : status'[stack[n].page] = "checking"
  PROVE  FramesMarked' /\ NoReentry'
<1>1. stack \in Seq(Frame) /\ Len(stack) \in Nat \ {0} /\ Top = stack[Len(stack)]
  BY TopFacts
<1>2. /\ stack' \in Seq(Frame)
      /\ Len(stack') = Len(stack) - 1
      /\ \A n \in 1 .. Len(stack) - 1 :
              \/ stack'[n] = stack[n]
              \/ stack'[n] = Moved(stack[n], "end")
              \/ stack'[n] = Moved(stack[n], "cell")
  <2>1. /\ stack' \in Seq(Frame)
        /\ Len(stack') = Len(stack) - 1
        /\ \A n \in 1 .. Len(stack) - 1 :
              \/ stack'[n] = stack[n]
              \/ /\ n = Len(stack) - 1
                 /\ stack[n].at = "child"
                 /\ stack'[n] = Moved(stack[n], "end")
              \/ /\ n = Len(stack) - 1
                 /\ stack[n].at = "subtree"
                 /\ stack'[n] = Moved(stack[n], "cell")
              \/ /\ n = Len(stack) - 1
                 /\ stack[n].at = "subtree"
                 /\ stack'[n] = Moved(stack[n], "end")
    BY <1>1, ReturnFacts
  <2> QED
    BY <2>1
<1>3. /\ DOMAIN stack = 1 .. Len(stack)
      /\ DOMAIN stack' = 1 .. Len(stack) - 1
  BY <1>1, <1>2
<1>4. ASSUME NEW n \in DOMAIN stack'
      PROVE  /\ stack'[n].page = stack[n].page
             /\ stack'[n].at \in {"child", "subtree", "end", "cell"}
             /\ Active(stack[n]) /\ n \in DOMAIN stack
             /\ status'[stack[n].page] = "checking"
  <2>1. n \in 1 .. Len(stack) - 1 /\ n \in DOMAIN stack
    BY <1>1, <1>3, <1>4
  <2>2. stack[n] \in Frame /\ stack[n].at \in {"child", "subtree"}
    BY <2>1, CallersMarked
  <2>3. CASE stack'[n] = stack[n]
    BY <2>1, <2>2, <2>3 DEF Active
  <2>4. CASE stack'[n] = Moved(stack[n], "end") \/ stack'[n] = Moved(stack[n], "cell")
    BY <2>1, <2>2, <2>4 DEF Active, Moved, Frame
  <2> QED
    BY <1>2, <2>1, <2>3, <2>4
<1>5. FramesMarked'
  BY <1>4 DEF FramesMarked, FrameMarked
<1>6. NoReentry'
  BY <1>4 DEF NoReentry
<1> QED
  BY <1>5, <1>6


(* The leaf whose cells are read is not of the kind its chains may enter.  *)
LEMMA MarkedTop ==
  ASSUME TypeOK, FramesOK, FramesMarked, Undisturbed, stack # <<>>
  PROVE  FrameMarked(Top, image, status)
<1>1. Len(stack) \in DOMAIN stack /\ Top = stack[Len(stack)]
  BY TopFacts
<1> QED
  BY <1>1 DEF FramesMarked

LEMMA ReentryStep ==
  ASSUME TypeOK, FramesOK, FramesMarked, NoReentry, Undisturbed, [Next]_vars
  PROVE  FramesMarked' /\ NoReentry'
<1> USE DEF input
<1> DEFINE none == Call(1, "user")
<1>0. none \in Frame
  BY CallIsFrame DEF Btrees
<1> HIDE DEF none
<1>a. ASSUME stack # <<>>, Active(Top), status' = status,
             NEW n \in 1 .. Len(stack) - 1
      PROVE  status'[stack[n].page] = "checking" /\ stack[n].page # Top.page
  BY <1>a, CallersMarked
<1>1. CASE SkipPage \/ OpenFails
  BY <1>1 DEF SkipPage, OpenFails, NextRequest, FramesMarked, NoReentry
<1>2. CASE OpenBtree
  <2>1. PICK c : stack' = <<c>> /\ c.at = "begin"
    BY <1>2 DEF OpenBtree, Call
  <2>2. \A n \in DOMAIN stack' : n = 1 /\ stack'[n].at = "begin"
    BY <2>1
  <2> QED
    BY <2>2 DEF FramesMarked, NoReentry, FrameMarked, Active
<1>3. CASE BeginPage
  <2>1. stack # <<>> /\ Top.at = "begin" /\ image' = image
    BY <1>3 DEF BeginPage, At
  <2>2. Top \in Frame
    BY <2>1, TopFacts
  <2>3. CASE GetStatus(Top.page) = "checking" \/ Top.page \notin Pages
    <3>1. Return("MISUSE") /\ status' = status
      BY <1>3, <2>3 DEF BeginPage
    <3> QED
      BY <2>1, <3>1, CallersMarked, ReturnMarked
  <2>4. CASE Top.page \in Pages /\ GetStatus(Top.page) # "checking"
    <3> DEFINE f == [Top EXCEPT !.at = "acquire", !.rc = "OK"]
    <3>1. Become(f) /\ SetStatus({Top.page}, "checking")
      BY <1>3, <2>4 DEF BeginPage, Go
    <3>2. f \in Frame /\ f.page = Top.page /\ f.at = "acquire"
      BY <2>2 DEF Frame, Places, Codes
    <3> HIDE DEF f
    <3>3. status[Top.page] # "checking"
      BY <2>4 DEF GetStatus
    <3>4. \A n \in 1 .. Len(stack) - 1 :
            status'[stack[n].page] = "checking" /\ stack[n].page # Top.page
      BY <2>1, <3>1, <3>3, CallersMarked DEF SetStatus
    <3>5. FrameMarked(f, image, status')
      BY <2>4, <3>1, <3>2 DEF FrameMarked, SetStatus
    <3> QED
      BY <1>0, <2>1, <3>1, <3>2, <3>4, <3>5, BecomeMarked
  <2> QED
    BY <2>3, <2>4
<1>4. CASE AcquireFails \/ CellFails
  <2> DEFINE f == [Top EXCEPT !.at = "end", !.rc = "IOERR"]
  <2>1. /\ stack # <<>> /\ Top.at \in {"acquire", "cell"} /\ Become(f)
        /\ status' = status /\ image' = image
    BY <1>4 DEF AcquireFails, CellFails, At, Go
  <2>2. f \in Frame /\ f.page = Top.page /\ Active(Top) /\ f.at = "end"
    BY <2>1, TopFacts DEF Frame, Places, Codes, Active
  <2> HIDE DEF f
  <2>3. FrameMarked(f, image, status')
    BY <2>2 DEF FrameMarked
  <2> QED
    BY <1>0, <1>a, <2>1, <2>2, <2>3, BecomeMarked
<1>5. CASE AcquirePage
  <2>1. /\ stack # <<>> /\ Top.at = "acquire" /\ Active(Top)
        /\ status' = status /\ image' = image
    BY <1>5 DEF AcquirePage, At, Active
  <2>2. PICK place \in {"end", "child", "cell"}, code \in {"OK", "DAMAGED"} :
          Go(place, code)
    BY <1>5 DEF AcquirePage
  <2> DEFINE f == [Top EXCEPT !.at = place, !.rc = code]
  <2>3. f \in Frame /\ f.page = Top.page /\ f.at = place
    BY <2>1, <2>2, TopFacts DEF Frame, Places, Codes
  <2>4. Become(f)
    BY <2>2 DEF Go
  <2> HIDE DEF f
  <2>5. FrameMarked(f, image, status')
    BY <2>1, <2>2, <2>3, MarkedTop DEF FrameMarked
  <2> QED
    BY <1>0, <1>a, <2>1, <2>3, <2>4, <2>5, BecomeMarked
<1>6. CASE ParseChild
  <2> DEFINE c == Call(ChildPointers(image, Top.page)[Top.i], Top.btree)
  <2>1. /\ stack # <<>> /\ Top.at = "child" /\ Active(Top)
        /\ status' = status /\ image' = image
    BY <1>6 DEF ParseChild, At, Active
  <2>2. Top \in Frame /\ Top.page \in Pages /\ FrameMarked(Top, image, status)
    BY <2>1, TopFacts, MarkedTop DEF FrameOK
  <2>3. CASE Top.i > Len(ChildPointers(image, Top.page))
    <3> DEFINE f == [Top EXCEPT !.at = "end", !.rc = "OK"]
    <3>1. Become(f)
      BY <1>6, <2>3 DEF ParseChild, Go
    <3>2. f \in Frame /\ f.page = Top.page /\ f.at = "end"
      BY <2>2 DEF Frame, Places, Codes
    <3> HIDE DEF f
    <3>3. FrameMarked(f, image, status')
      BY <3>2 DEF FrameMarked
    <3> QED
      BY <1>0, <1>a, <2>1, <3>1, <3>2, <3>3, BecomeMarked
  <2>4. CASE ~ (Top.i > Len(ChildPointers(image, Top.page)))
    <3> DEFINE f == [Top EXCEPT !.i = @ + 1]
    <3>1. /\ ChildPointers(image, Top.page) \in Seq(Int)
          /\ Top.i \in Nat \ {0} /\ Top.btree \in Btrees
      BY <2>2, ImageFacts DEF Frame
    <3>2. Top.i \in 1 .. Len(ChildPointers(image, Top.page))
      BY <2>4, <3>1, LenProperties
    <3>3. c \in Frame /\ c.at = "begin"
      BY <3>1, <3>2, ElementOfSeq, CallIsFrame
    <3>4. BecomeAndCall(f, c)
      BY <1>6, <2>4 DEF ParseChild
    <3>5. Top.i + 1 \in Nat \ {0}
      BY <3>1
    <3>6. f \in Frame /\ f.page = Top.page /\ f.at = "child"
      BY <2>1, <2>2, <3>5 DEF Frame
    <3> HIDE DEF f, c
    <3>7. FrameMarked(f, image, status')
      BY <2>1, <2>2, <3>6 DEF FrameMarked
    <3> QED
      BY <1>a, <2>1, <3>3, <3>4, <3>6, <3>7, BecomeMarked
  <2> QED
    BY <2>3, <2>4
<1>7. CASE ParseCell
  <2>1. /\ stack # <<>> /\ Top.at = "cell" /\ Active(Top)
        /\ status' = status /\ image' = image
    BY <1>7 DEF ParseCell, At, Active
  <2>2. /\ Top \in Frame /\ Top.page \in Pages
        /\ image[Top.page].kind = "leafTable"
        /\ FrameMarked(Top, image, status)
    BY <2>1, TopFacts, MarkedTop DEF FrameOK
  <2>3. CASE Top.i > Len(image[Top.page].cells)
    <3> DEFINE f == [Top EXCEPT !.at = "end", !.rc = "OK"]
    <3>1. Become(f)
      BY <1>7, <2>3 DEF ParseCell, Go
    <3>2. f \in Frame /\ f.page = Top.page /\ f.at = "end"
      BY <2>2 DEF Frame, Places, Codes
    <3> HIDE DEF f
    <3>3. FrameMarked(f, image, status')
      BY <3>2 DEF FrameMarked
    <3> QED
      BY <1>0, <1>a, <2>1, <3>1, <3>2, <3>3, BecomeMarked
  <2>4. CASE ~ (Top.i > Len(image[Top.page].cells))
    <3>1. PICK place \in {"overflow", "column"} :
            Become([Top EXCEPT !.at = place, !.next = CellNow.chain,
                               !.got = 0, !.chain = {}])
      BY <1>7, <2>4 DEF ParseCell
    <3> DEFINE f == [Top EXCEPT !.at = place, !.next = CellNow.chain,
                                !.got = 0, !.chain = {}]
    <3>2. Top.i \in DOMAIN image[Top.page].cells
      BY <2>2, <2>4, ImageFacts, LenProperties DEF Frame
    <3>3. CellNow \in Cell /\ ~ IsBtree(image, CellNow.chain)
      BY <2>2, <3>2, ImageFacts DEF CellNow, Undisturbed, ChainsApart
    <3>4. /\ f \in Frame /\ f.page = Top.page /\ f.at = place
          /\ f.next = CellNow.chain /\ f.chain = {}
      BY <2>2, <3>1, <3>3 DEF Frame, Places, Cell
    <3>5. Become(f)
      BY <3>1
    <3> HIDE DEF f
    <3>6. FrameMarked(f, image, status')
      BY <2>1, <2>2, <3>3, <3>4 DEF FrameMarked
    <3> QED
      BY <1>0, <1>a, <2>1, <3>4, <3>5, <3>6, BecomeMarked
  <2> QED
    BY <2>3, <2>4
<1>8. CASE OverflowBegin
  <2>1. /\ stack # <<>> /\ Top.at = "overflow" /\ Active(Top)
        /\ image' = image
    BY <1>8 DEF OverflowBegin, At, Active
  <2>2. /\ Top \in Frame /\ Top.page \in Pages
        /\ image[Top.page].kind = "leafTable"
        /\ FrameMarked(Top, image, status)
    BY <2>1, TopFacts, MarkedTop DEF FrameOK
  <2>3. CASE Top.next \in Pages
    <3> DEFINE f == [Top EXCEPT !.at = "overflowRead",
                                !.chain = @ \cup {Top.next}]
    <3>1. Become(f) /\ SetStatus({Top.next}, "checking")
      BY <1>8, <2>3 DEF OverflowBegin
    <3>2. /\ f \in Frame /\ f.page = Top.page /\ f.at = "overflowRead"
          /\ f.next = Top.next /\ f.chain = Top.chain \cup {Top.next}
      BY <2>2, <2>3 DEF Frame, Places
    <3> HIDE DEF f
    <3>3. FrameMarked(f, image, status')
      BY <2>1, <2>2, <3>1, <3>2 DEF FrameMarked, SetStatus
    <3>4. \A n \in 1 .. Len(stack) - 1 :
            status'[stack[n].page] = "checking" /\ stack[n].page # Top.page
      BY <2>1, <3>1, CallersMarked DEF SetStatus
    <3> QED
      BY <1>0, <2>1, <3>1, <3>2, <3>3, <3>4, BecomeMarked
  <2>4. CASE Top.next \notin Pages
    <3> DEFINE f == [Top EXCEPT !.at = "column", !.rc = "OK"]
    <3>1. Become(f) /\ status' = status
      BY <1>8, <2>4 DEF OverflowBegin, Go
    <3>2. /\ f \in Frame /\ f.page = Top.page /\ f.at = "column"
          /\ f.chain = Top.chain
      BY <2>2 DEF Frame, Places, Codes
    <3> HIDE DEF f
    <3>3. FrameMarked(f, image, status')
      BY <2>1, <2>2, <3>1, <3>2 DEF FrameMarked
    <3> QED
      BY <1>0, <1>a, <2>1, <3>1, <3>2, <3>3, BecomeMarked
  <2> QED
    BY <2>3, <2>4
<1>9. CASE OverflowFails
  <2> DEFINE f == [Top EXCEPT !.at = "column", !.rc = "OK"]
  <2>1. /\ stack # <<>> /\ Top.at = "overflowRead" /\ Active(Top) /\ Become(f)
        /\ SetStatus({Top.next}, "invalid") /\ image' = image
    BY <1>9 DEF OverflowFails, At, Go, Active
  <2>2. /\ Top \in Frame /\ Top.page \in Pages
        /\ image[Top.page].kind = "leafTable"
        /\ FrameMarked(Top, image, status)
    BY <2>1, TopFacts, MarkedTop DEF FrameOK
  <2>3. /\ f \in Frame /\ f.page = Top.page /\ f.at = "column"
        /\ f.chain = Top.chain
    BY <2>2 DEF Frame, Places, Codes
  <2> HIDE DEF f
  <2>4. ~ IsBtree(image, Top.next) /\ IsBtree(image, Top.page)
    BY <2>1, <2>2 DEF FrameMarked, IsBtree, BtreeKinds
  <2>5. FrameMarked(f, image, status')
    BY <2>1, <2>2, <2>3, <2>4 DEF FrameMarked, SetStatus
  <2>6. \A n \in 1 .. Len(stack) - 1 :
          status'[stack[n].page] = "checking" /\ stack[n].page # Top.page
    BY <2>1, <2>4, CallersMarked DEF SetStatus
  <2> QED
    BY <1>0, <2>1, <2>3, <2>5, <2>6, BecomeMarked
<1>10. CASE OverflowRead
  <2> DEFINE got == IF Top.got < CellNow.need THEN Top.got + 1 ELSE Top.got
             f == [Top EXCEPT !.at = "overflow", !.got = got,
                              !.next = image[Top.next].link]
  <2>1. /\ stack # <<>> /\ Top.at = "overflowRead" /\ Active(Top) /\ Become(f)
        /\ SetStatus({Top.next}, "checked") /\ image' = image
    BY <1>10 DEF OverflowRead, At, Active
  <2>2. /\ Top \in Frame /\ Top.page \in Pages /\ Top.next \in Pages
        /\ image[Top.page].kind = "leafTable"
        /\ FrameMarked(Top, image, status)
    BY <2>1, TopFacts, MarkedTop DEF FrameOK
  <2>3. got \in Nat /\ image[Top.next].link \in Int
    BY <2>2, ImageFacts DEF Frame
  <2> HIDE DEF got
  <2>4. /\ f \in Frame /\ f.page = Top.page /\ f.at = "overflow"
        /\ f.chain = Top.chain /\ f.next = image[Top.next].link
    BY <2>2, <2>3 DEF Frame, Places
  <2> HIDE DEF f
  <2>5. ~ IsBtree(image, Top.next) /\ IsBtree(image, Top.page)
    BY <2>1, <2>2 DEF FrameMarked, IsBtree, BtreeKinds
  <2>6. ~ IsBtree(image, image[Top.next].link)
    BY <2>2, <2>5 DEF Undisturbed, ChainsApart
  <2>7. FrameMarked(f, image, status')
    BY <2>1, <2>2, <2>4, <2>5, <2>6 DEF FrameMarked, SetStatus
  <2>8. \A n \in 1 .. Len(stack) - 1 :
          status'[stack[n].page] = "checking" /\ stack[n].page # Top.page
    BY <2>1, <2>5, CallersMarked DEF SetStatus
  <2> QED
    BY <1>0, <2>1, <2>4, <2>7, <2>8, BecomeMarked
<1>11. CASE DecodeFails
  <2>1. /\ stack # <<>> /\ Top.at = "column" /\ Active(Top)
        /\ status' = status /\ image' = image
    BY <1>11 DEF DecodeFails, At, Active
  <2>2. /\ Top \in Frame /\ Top.page \in Pages
        /\ Top.i \in DOMAIN image[Top.page].cells
    BY <2>1, TopFacts DEF FrameOK
  <2>3. CellNow.decode \in {"OK", "MISUSE", "DAMAGED"}
    BY <2>2, ImageFacts DEF CellNow, Cell
  <2>4. PICK code \in {"OK", "MISUSE", "DAMAGED", "IOERR"} : Go("end", code)
    BY <1>11, <2>3 DEF DecodeFails
  <2> DEFINE f == [Top EXCEPT !.at = "end", !.rc = code]
  <2>5. f \in Frame /\ f.page = Top.page /\ f.at = "end"
    BY <2>2, <2>4 DEF Frame, Places, Codes
  <2>6. Become(f)
    BY <2>4 DEF Go
  <2> HIDE DEF f
  <2>7. FrameMarked(f, image, status')
    BY <2>5 DEF FrameMarked
  <2> QED
    BY <1>0, <1>a, <2>1, <2>5, <2>6, <2>7, BecomeMarked
<1>12. ASSUME NEW answer \in Answers, Deliver(answer)
       PROVE  FramesMarked' /\ NoReentry'
  <2>1. stack # <<>> /\ Top.at = "column" /\ Active(Top) /\ image' = image
    BY <1>12 DEF Deliver, At, Active
  <2>2. /\ Top \in Frame /\ Top.page \in Pages
        /\ Top.i \in DOMAIN image[Top.page].cells
        /\ FrameMarked(Top, image, status)
    BY <2>1, TopFacts, MarkedTop DEF FrameOK
  <2>3. CellNow \in Cell /\ Top.i \in Nat \ {0}
    BY <2>2, ImageFacts DEF CellNow, Frame
  <2>4. answer \in Codes
    BY <1>12, BtreeParseAssumption
  <2>5. \/ status' = status
        \/ SetStatus({Top.page} \cup Top.chain, "discarded")
    BY <1>12 DEF Deliver
  <2>6. \A n \in 1 .. Len(stack) - 1 :
          status'[stack[n].page] = "checking" /\ stack[n].page # Top.page
    BY <2>1, <2>2, <2>5, CallersMarked DEF SetStatus, FrameMarked
  <2> DEFINE goOn(place) == [Top EXCEPT !.at = place, !.rc = answer, !.i = @ + 1]
             next == goOn(IF answer = "OK" THEN "cell" ELSE "end")
             c == Call(CellNow.root, SubtreeType(CellNow))
  <2>7. /\ goOn("subtree") \in Frame /\ next \in Frame
        /\ goOn("subtree").page = Top.page /\ next.page = Top.page
        /\ goOn("subtree").at = "subtree"
        /\ next.at = IF answer = "OK" THEN "cell" ELSE "end"
    <3>1. Top.i + 1 \in Nat \ {0}
      BY <2>3
    <3> QED
      BY <2>2, <2>4, <3>1 DEF Frame, Places
  <2>8. c \in Frame /\ c.at = "begin"
    BY <2>3, CallIsFrame DEF SubtreeType, Btrees, Cell
  <2>9. \/ Become(next)
        \/ Recursive /\ BecomeAndCall(goOn("subtree"), c)
    BY <1>12 DEF Deliver, OpensSubtree
  <2> HIDE DEF goOn, next, c
  <2>10. answer \in {"OK", "CANCELLED"} => status' = status
    BY <1>12 DEF Deliver
  <2>11. FrameMarked(next, image, status')
    BY <2>1, <2>2, <2>7, <2>10 DEF FrameMarked
  <2>12. CASE Become(next)
    BY <1>0, <2>1, <2>6, <2>7, <2>11, <2>12, BecomeMarked
  <2>13. CASE Recursive /\ BecomeAndCall(goOn("subtree"), c)
    <3>1. status' = status
      BY <1>12, <2>10, <2>13 DEF Undisturbed
    <3>2. FrameMarked(goOn("subtree"), image, status')
      BY <2>1, <2>2, <2>7, <3>1 DEF FrameMarked
    <3> QED
      BY <2>1, <2>6, <2>7, <2>8, <2>13, <3>2, BecomeMarked
  <2> QED
    BY <2>9, <2>12, <2>13
<1>13. CASE EndPage
  <2>1. /\ stack # <<>> /\ Top.at = "end" /\ Active(Top) /\ Return(Top.rc)
        /\ image' = image
    BY <1>13 DEF EndPage, At, Active
  <2>2. status' = status \/ \E s : SetStatus({Top.page}, s)
    BY <1>13 DEF EndPage
  <2>3. \A n \in 1 .. Len(stack) - 1 : status'[stack[n].page] = "checking"
    BY <2>1, <2>2, CallersMarked DEF SetStatus
  <2> QED
    BY <2>1, <2>3, ReturnMarked
<1>14. CASE UNCHANGED vars
  BY <1>14 DEF vars, FramesMarked, NoReentry, Undisturbed
<1> QED
  BY <1>1, <1>2, <1>3, <1>4, <1>5, <1>6, <1>7, <1>8, <1>9, <1>10, <1>11,
     <1>12, <1>13, <1>14 DEF Next, Step, Traverse, Finished

(* Re-entry never happens, with the invariant that shows it.               *)
LEMMA ReentryInvariant ==
  Spec => [](TypeOK /\ FramesOK /\ FramesMarked /\ NoReentry)
<1> DEFINE IInv == TypeOK /\ FramesOK /\ FramesMarked /\ NoReentry
<1>1. Init => IInv
  <2>1. ASSUME Init PROVE FramesMarked /\ NoReentry
    BY <2>1 DEF Init, FramesMarked, NoReentry
  <2> QED
    BY <2>1, InitialState
<1>2. IInv /\ [Next]_vars => IInv'
  <2> SUFFICES ASSUME IInv, [Next]_vars PROVE IInv'
    OBVIOUS
  <2>1. TypeOK' /\ FramesOK'
    BY TypeStep
  <2>2. image' = image
    BY DEF Next, Step, Traverse, Finished, vars, input, SkipPage, OpenFails, OpenBtree,
           BeginPage, AcquireFails, AcquirePage, ParseChild, CellFails,
           ParseCell, OverflowBegin, OverflowFails, OverflowRead, DecodeFails,
           Deliver, EndPage
  <2>3. CASE Undisturbed
    BY <2>1, <2>3, ReentryStep
  <2>4. CASE ~ Undisturbed
    BY <2>1, <2>2, <2>4 DEF Undisturbed, FramesMarked, NoReentry
  <2> QED
    BY <2>3, <2>4
<1> QED
  BY <1>1, <1>2, PTL DEF Spec

(* On every image whose overflow chains keep apart from its b-tree pages,  *)
(* cyclic child pointers included, no page is entered while it is being    *)
(* parsed: the stack of calls never holds a page twice.                    *)
THEOREM PagesAreNotReentered == Spec => []NoReentry
<1>1. TypeOK /\ FramesOK /\ FramesMarked /\ NoReentry => NoReentry
  OBVIOUS
<1> QED
  BY <1>1, ReentryInvariant, PTL

(* The calls that wait for another one have pages of their own, so at most *)
(* one more call than the file has pages is active at any time.            *)
DepthBounded == Undisturbed => Len(stack) <= PageCount + 1

LEMMA DistinctCallers ==
  ASSUME TypeOK, FramesOK, NoReentry, Undisturbed
  PROVE  Len(stack) <= PageCount + 1
<1> DEFINE m == Len(stack) - 1
           S == 1 .. m
           pageOf == [n \in S |-> stack[n].page]
<1>1. /\ stack \in Seq(Frame) /\ Len(stack) \in Nat
      /\ DOMAIN stack = 1 .. Len(stack) /\ PageCount \in Nat
  BY LenProperties, PageCountAssumption DEF TypeOK
<1>2. SUFFICES ASSUME Len(stack) > PageCount + 1 PROVE FALSE
  BY <1>1
<1>3. m \in Nat /\ m > PageCount
  BY <1>1, <1>2
<1>4. ASSUME NEW n \in S
      PROVE  n \in DOMAIN stack /\ Active(stack[n]) /\ stack[n].page \in Pages
  <2>1. n \in DOMAIN stack
    BY <1>1
  <2>2. stack[n].at \in {"child", "subtree"} /\ FrameOK(stack[n], image, declined)
    BY <2>1 DEF FramesOK
  <2>3. Active(stack[n])
    BY <2>2 DEF Active
  <2> QED
    BY <2>1, <2>2, <2>3 DEF FrameOK
<1>5. pageOf \in [S -> Pages]
  BY <1>4
<1>6. /\ IsFiniteSet(S) /\ Cardinality(S) = m
      /\ IsFiniteSet(Pages) /\ Cardinality(Pages) = PageCount
  <2> HIDE DEF m
  <2>1. Cardinality(1 .. m) = m - 1 + 1 /\ IsFiniteSet(1 .. m)
    BY <1>1, <1>3, FS_Interval
  <2>2. Cardinality(1 .. PageCount) = PageCount - 1 + 1 /\ IsFiniteSet(1 .. PageCount)
    BY <1>1, PageCountAssumption, FS_Interval
  <2> QED
    BY <1>1, <1>3, <2>1, <2>2 DEF Pages
<1>7. \E x, y \in S : x # y /\ pageOf[x] = pageOf[y]
  <2> HIDE DEF S, pageOf, m
  <2>1. Cardinality(Pages) < Cardinality(S)
    BY <1>1, <1>3, <1>6
  <2> QED
    BY <1>5, <1>6, <2>1, FS_PigeonHole
<1> QED
  BY <1>4, <1>7 DEF NoReentry

(* The recursion of sqliterkBtreeParsePage ends on cyclic child pointers:  *)
(* its depth is at most the page count, and one for the call that finds    *)
(* its page being checked.  The bound MaxDepth of the model takes nothing  *)
(* away once it is above that.                                             *)
THEOREM RecursionIsBounded == Spec => []DepthBounded
<1>1. TypeOK /\ FramesOK /\ FramesMarked /\ NoReentry => DepthBounded
  BY DistinctCallers DEF DepthBounded
<1> QED
  BY <1>1, ReentryInvariant, PTL

=============================================================================
