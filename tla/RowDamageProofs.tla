---------------------------- MODULE RowDamageProofs ----------------------------
(***************************************************************************)
(* Proofs about what damage costs: on a forest of pages every row that is  *)
(* in a readable leaf under readable ancestors, before the first bad cell  *)
(* of that leaf, is delivered.                                             *)
(***************************************************************************)
EXTENDS RowOrderProofs

-----------------------------------------------------------------------------
(* The rows under a page, as a set.                                        *)

Under(img, gone, count, d, p, b) == ToSet(Walks(img, gone, count)[d][<<p, b>>])

LEMMA CountsOf ==
  ASSUME NEW img, NEW count \in Counts(img), NEW p \in Pages
  PROVE  count[p] \in Nat /\ count[p] <= Len(img[p].cells)
BY DEF Counts

LEMMA FlattenElement ==
  ASSUME NEW q \in Seq(Seq(RowId)), NEW x \in ToSet(FlattenSeq(q))
  PROVE  \E k \in 1 .. Len(q) : x \in ToSet(q[k])
<1>1. PICK f \in [0 .. Len(q) -> Seq(RowId)] :
        /\ f[0] = <<>> /\ \A j \in 1 .. Len(q) : f[j] = f[j - 1] \o q[j]
        /\ FlattenSeq(q) = f[Len(q)]
  BY FlattenIs
<1>2. Len(q) \in Nat /\ \A k \in 1 .. Len(q) : q[k] \in Seq(RowId)
  BY LenProperties, ElementOfSeq
<1> DEFINE Found(y) == \E k \in 1 .. Len(q) : y \in ToSet(q[k])
           S == {j \in 0 .. Len(q) : \A y \in ToSet(f[j]) : Found(y)}
<1>3. 0 \in S
  <2>1. 0 \in 0 .. Len(q) /\ ToSet(f[0]) = {}
    BY <1>1, <1>2 DEF ToSet
  <2> QED
    BY <2>1
<1>4. ASSUME NEW j \in 1 .. Len(q), j - 1 \in S PROVE j \in S
  <2>1. j \in 0 .. Len(q) /\ j - 1 \in 0 .. Len(q)
    BY <1>2
  <2>2. f[j - 1] \in Seq(RowId) /\ q[j] \in Seq(RowId) /\ f[j] = f[j - 1] \o q[j]
    BY <1>1, <1>2, <2>1
  <2>3. \A y \in ToSet(f[j]) : y \in ToSet(f[j - 1]) \/ y \in ToSet(q[j])
    <3>1. PICK a \in Seq(RowId), c \in Seq(RowId) :
            a = f[j - 1] /\ c = q[j] /\ f[j] = a \o c
      BY <2>2
    <3>2. ASSUME NEW y \in ToSet(a \o c) PROVE y \in ToSet(a) \/ y \in ToSet(c)
      <4>1. PICK n \in DOMAIN (a \o c) : y = (a \o c)[n]
        BY DEF ToSet
      <4>2. /\ Len(a) \in Nat /\ Len(c) \in Nat
            /\ DOMAIN a = 1 .. Len(a) /\ DOMAIN c = 1 .. Len(c)
            /\ DOMAIN (a \o c) = 1 .. Len(a) + Len(c)
        BY LenProperties, JoinIs
      <4>3. CASE n <= Len(a)
        <5>1. n \in DOMAIN a
          BY <4>2, <4>3
        <5> QED
          BY <4>1, <5>1, JoinIs DEF ToSet
      <4>4. CASE n > Len(a)
        <5>1. n \in Len(a) + 1 .. Len(a) + Len(c) /\ n - Len(a) \in DOMAIN c
          BY <4>2, <4>4
        <5>2. (a \o c)[n] = c[n - Len(a)]
          BY <5>1, <4>2, <4>4, ConcatProperties
        <5> QED
          BY <4>1, <5>1, <5>2 DEF ToSet
      <4> QED
        BY <4>2, <4>3, <4>4
    <3> QED
      BY <3>1, <3>2
  <2> QED
    BY <1>4, <2>1, <2>3
<1> HIDE DEF S, Found
<1>5. 0 .. Len(q) \subseteq S
  BY <1>2, <1>3, <1>4, Induct
<1>6. Len(q) \in S
  BY <1>2, <1>5
<1> QED
  BY <1>1, <1>6 DEF S, Found

(* A row under a page is under one of its children, or is a row of one of  *)
(* its counted cells or of the table that such a cell names.               *)
CellHas(x, img, gone, count, d, p, b, k) ==
  \/ x = [page |-> p, i |-> k]
  \/ /\ b = "master" /\ Leads(img[p].cells[k])
     /\ x \in Under(img, gone, count, d - 1, img[p].cells[k].root,
                    RootType(img[p].cells[k].root))

PageHas(x, img, gone, count, d, p, b) ==
  /\ d # 0 /\ p \in Pages \ gone /\ img[p].kind \in {"interiorTable", "leafTable"}
  /\ img[p].kind = "interiorTable" =>
       \E k \in DOMAIN FileChildren(img, p) :
         x \in Under(img, gone, count, d - 1, FileChildren(img, p)[k], b)
  /\ img[p].kind = "leafTable" =>
       \E k \in 1 .. count[p] : CellHas(x, img, gone, count, d, p, b, k)

LEMMA UnderIs ==
  ASSUME NEW img \in ImageType, NEW gone, NEW count \in Counts(img),
         NEW d \in 0 .. PageCount, NEW p \in Int, NEW b \in {"master", "user"},
         NEW x \in Under(img, gone, count, d, p, b)
  PROVE  PageHas(x, img, gone, count, d, p, b)
<1> DEFINE w == Walks(img, gone, count)
<1>1. /\ \A l \in 0 .. PageCount : w[l] \in [Trees -> Seq(RowId)]
      /\ \A y \in Trees : w[0][y] = <<>>
      /\ \A l \in 0 .. PageCount : \A y \in Trees :
           y[1] \notin Pages \ gone => w[l][y] = <<>>
      /\ \A l \in 1 .. PageCount : \A y \in Trees :
           y[1] \in Pages \ gone =>
             w[l][y] = FlattenSeq(Parts(img, count, w[l - 1], y[1], y[2]))
  BY WalksAre
<1>2. x \in ToSet(w[d][<<p, b>>])
  BY DEF Under
<1>3. \A l, r, a : Under(img, gone, count, l, r, a) = ToSet(w[l][<<r, a>>])
  BY DEF Under
<1> HIDE DEF w
<1>4. <<p, b>> \in Trees /\ <<p, b>>[1] = p /\ <<p, b>>[2] = b
  BY DEF Trees
<1>5. ToSet(<<>>) = {}
  BY DEF ToSet
<1>6. d # 0 /\ p \in Pages \ gone
  BY <1>1, <1>2, <1>4, <1>5
<1>7. d \in 1 .. PageCount /\ d - 1 \in 0 .. PageCount
  BY <1>6, PageCountAssumption
<1> DEFINE sub == w[d - 1]
           q   == Parts(img, count, sub, p, b)
<1>8. x \in ToSet(FlattenSeq(q))
  BY <1>1, <1>2, <1>4, <1>6, <1>7
<1>9. sub \in [Trees -> Seq(RowId)]
  BY <1>1, <1>7
<1>10. \A r, a : Under(img, gone, count, d - 1, r, a) = ToSet(sub[<<r, a>>])
  BY <1>3
<1> HIDE DEF sub
<1>11. ArePartsOf(q, img, count, sub, p, b)
  BY <1>6, <1>9, PartsAre
<1> HIDE DEF q
<1>12. q \in Seq(Seq(RowId))
  BY <1>11 DEF ArePartsOf
<1>13. PICK k \in 1 .. Len(q) : x \in ToSet(q[k])
  BY <1>8, <1>12, FlattenElement
<1>14. img[p].kind \in {"interiorTable", "leafTable"}
  <2>1. ASSUME q = <<>> PROVE FALSE
    BY <1>13, <2>1
  <2> QED
    BY <1>11, <2>1 DEF ArePartsOf
<1>15. ASSUME img[p].kind = "interiorTable"
       PROVE  \E j \in DOMAIN FileChildren(img, p) :
                x \in Under(img, gone, count, d - 1, FileChildren(img, p)[j], b)
  <2>1. k \in DOMAIN FileChildren(img, p)
    <3>1. /\ Len(FileChildren(img, p)) = Len(img[p].kids) + 1
          /\ DOMAIN FileChildren(img, p) = 1 .. Len(img[p].kids) + 1
      BY <1>6, ChildrenAre
    <3>2. Len(q) = Len(FileChildren(img, p))
      BY <1>11, <1>15 DEF ArePartsOf
    <3> QED
      BY <3>1, <3>2
  <2>2. q[k] = sub[<<FileChildren(img, p)[k], b>>]
    BY <1>11, <1>15 DEF ArePartsOf
  <2> QED
    BY <1>10, <1>13, <2>1, <2>2
<1>16. ASSUME img[p].kind = "leafTable"
       PROVE  \E j \in 1 .. count[p] : CellHas(x, img, gone, count, d, p, b, j)
  <2> DEFINE c == img[p].cells[k]
             row == [page |-> p, i |-> k]
             more == IF b = "master" /\ Leads(c) THEN sub[<<c.root, RootType(c.root)>>]
                     ELSE <<>>
  <2>1. k \in 1 .. count[p] /\ q[k] = <<row>> \o more
    BY <1>11, <1>16 DEF ArePartsOf
  <2>2. row \in RowId /\ c \in Cell
    <3>1. k \in Nat \ {0} /\ count[p] <= Len(img[p].cells) /\ count[p] \in Nat
      <4>1. count[p] \in Nat /\ count[p] <= Len(img[p].cells)
        BY <1>6, CountsOf
      <4>2. k \in 1 .. count[p]
        BY <2>1
      <4> HIDE DEF c, row, more
      <4> QED
        BY <4>1, <4>2
    <3>2. img[p].cells \in Seq(Cell)
      BY <1>6 DEF ImageType, Page
    <3>3. k \in 1 .. Len(img[p].cells)
      BY <2>1, <3>1, <3>2, LenProperties
    <3> QED
      BY <1>6, <3>1, <3>2, <3>3, ElementOfSeq DEF RowId
  <2>3. b = "master" /\ Leads(c) => <<c.root, RootType(c.root)>> \in Trees
    BY <2>2 DEF Cell, Trees, RootType
  <2>4. more \in Seq(RowId)
    BY <1>9, <2>3, EmptySeq
  <2>5. x = row \/ x \in ToSet(more)
    <3> HIDE DEF row, more
    <3>1. /\ <<row>> \in Seq(RowId) /\ Len(<<row>>) = 1 /\ <<row>>[1] = row
      BY <2>2
    <3>2. PICK n \in DOMAIN q[k] : x = q[k][n]
      BY <1>13 DEF ToSet
    <3>3. /\ Len(more) \in Nat /\ DOMAIN more = 1 .. Len(more)
          /\ DOMAIN q[k] = 1 .. 1 + Len(more)
      BY <2>1, <2>4, <3>1, LenProperties, JoinIs
    <3>4. CASE n = 1
      BY <2>1, <2>4, <3>1, <3>2, <3>4, ConcatProperties
    <3>5. CASE n # 1
      <4>1. n \in 2 .. 1 + Len(more) /\ n - 1 \in DOMAIN more
        BY <3>2, <3>3, <3>5
      <4>2. (<<row>> \o more)[n] = more[n - 1]
        BY <2>4, <3>1, <4>1, <3>3, ConcatProperties
      <4> QED
        BY <2>1, <3>2, <4>1, <4>2 DEF ToSet
    <3> QED
      BY <3>4, <3>5
  <2>6. x \in ToSet(more) => b = "master" /\ Leads(c)
          /\ x \in Under(img, gone, count, d - 1, c.root, RootType(c.root))
    BY <1>5, <1>10
  <2> QED
    BY <2>1, <2>5, <2>6 DEF CellHas
<1> QED
  BY <1>6, <1>14, <1>15, <1>16 DEF PageHas

LEMMA WalkUnder ==
  ASSUME NEW img \in ImageType, NEW gone, NEW count \in Counts(img), NEW req \in Seq(Int),
         NEW x \in ToSet(Walk(img, req, gone, count))
  PROVE  /\ x \in RowId
         /\ \E k \in DOMAIN req :
              x \in Under(img, gone, count, PageCount, req[k], RootType(req[k]))
<1> DEFINE w == Walks(img, gone, count)[PageCount]
           q == [k \in DOMAIN req |-> w[<<req[k], RootType(req[k])>>]]
<1>1. PageCount \in 0 .. PageCount
  BY PageCountAssumption
<1>2. w \in [Trees -> Seq(RowId)]
  BY <1>1, WalksAre
<1>3. \A k \in DOMAIN req :
        Under(img, gone, count, PageCount, req[k], RootType(req[k]))
          = ToSet(w[<<req[k], RootType(req[k])>>])
  BY DEF Under
<1>4. x \in ToSet(FlattenSeq(q))
  BY DEF Walk
<1> HIDE DEF w
<1>5. Len(req) \in Nat /\ DOMAIN req = 1 .. Len(req)
  BY LenProperties
<1>6. q \in [1 .. Len(req) -> Seq(RowId)]
  <2>1. \A k \in DOMAIN req : <<req[k], RootType(req[k])>> \in Trees
    BY <1>5, ElementOfSeq DEF Trees, RootType
  <2> QED
    BY <1>2, <1>5, <2>1
<1>7. \A k \in DOMAIN req : q[k] = w[<<req[k], RootType(req[k])>>]
  OBVIOUS
<1> HIDE DEF q
<1>8. q \in Seq(Seq(RowId)) /\ Len(q) = Len(req)
  BY <1>5, <1>6, FunctionIsSeq
<1>9. PICK k \in 1 .. Len(q) : x \in ToSet(q[k])
  BY <1>4, <1>8, FlattenElement
<1>10. x \in RowId
  <2>1. q[k] \in Seq(RowId)
    BY <1>8, <1>9, ElementOfSeq
  <2> QED
    BY <1>9, <2>1, ElementOfSeq DEF ToSet
<1> QED
  BY <1>3, <1>5, <1>7, <1>8, <1>9, <1>10

-----------------------------------------------------------------------------
(* What is still owed of a walk: the walk is the one without the pages of   *)
(* `gone` and without the cells that are not counted, and the accounts hold *)
(* as long as nothing else was lost or declined.                           *)

(* The row x is still to come from the call f, d levels above the deepest. *)
Owes(x, f, d, img, gone, count) ==
  /\ f.btree # "system" /\ f.page \in Pages \ gone
  /\ \/ /\ f.at \in {"begin", "acquire"}
        /\ x \in Under(img, gone, count, d, f.page, f.btree)
     \/ /\ f.at = "child" /\ img[f.page].kind = "interiorTable"
        /\ \E k \in DOMAIN FileChildren(img, f.page) :
             /\ f.i <= k
             /\ x \in Under(img, gone, count, d - 1, FileChildren(img, f.page)[k], f.btree)
     \/ /\ f.at \in CellPlaces /\ img[f.page].kind = "leafTable"
        /\ f.at = "subtree" => f.rc = "OK"
        /\ \E k \in 1 .. count[f.page] :
             f.i <= k /\ CellHas(x, img, gone, count, d, f.page, f.btree, k)

ChainWithout(c, img, gone) ==
  \E s \in [1 .. c.need -> Pages \ gone] : IsChainOf(s, c, img)

(* Nothing but `gone` was lost, and no counted cell was declined or cannot *)
(* be read.                                                                *)
Spares(img, gone, count, out, answers) ==
  /\ out \subseteq gone
  /\ \A a \in answers : a.answer # "CANCELLED"
  /\ \A p \in Pages : \A k \in 1 .. count[p] :
       /\ \A a \in answers : a.page # p
       /\ img[p].cells[k].decode = "OK" /\ ChainWithout(img[p].cells[k], img, gone)

(* The row x is out, or owed by a call, or by a request.                   *)
Accounted(x, gone, count) ==
  \/ HasRow(rows, x.page, x.i)
  \/ \E n \in DOMAIN stack : Owes(x, stack[n], PageCount + 1 - n, image, gone, count)
  \/ \E k \in DOMAIN todo :
       x \in Under(image, gone, count, PageCount, todo[k], RootType(todo[k]))

Sane == Forest /\ Filled(image) /\ image[1].kind # "interiorTable"

RowsAccounted ==
  Sane =>
    \A gone \in SUBSET Pages : \A count \in Counts(image) :
      Spares(image, gone, count, lost, declined) =>
        \A x \in ToSet(Walk(image, requested, gone, count)) : Accounted(x, gone, count)

(* The overflow pages that a call has visited are no b-tree pages.         *)
ChainOff(f, img) ==
  f.at \in OverflowPlaces \cup {"column"} => \A p \in f.chain : ~ IsBtree(img, p)

ChainsOff == ChainsApart(image) => \A n \in DOMAIN stack : ChainOff(stack[n], image)

(* A tree that is still requested has not been entered.                    *)
Untouched ==
  Forest => \A k \in DOMAIN todo : IsBtree(image, todo[k]) =>
    /\ status[todo[k]] = "unchecked"
    /\ stack # <<>> => stack[1].page # todo[k]

-----------------------------------------------------------------------------
(* The three ways a step changes the stack, as far as the accounts are     *)
(* concerned.                                                              *)

RowsStay == \A p, k : HasRow(rows, p, k) => HasRow(rows', p, k)

LEMMA BecomeOwes ==
  ASSUME TypeOK, stack # <<>>, NEW f \in Frame, Become(f), image' = image,
         todo' = todo, RowsStay, NEW gone, NEW count, NEW x, Accounted(x, gone, count),
         NEW d, d = PageCount + 1 - Len(stack),
         Owes(x, Top, d, image, gone, count) =>
           Owes(x, f, d, image, gone, count) \/ HasRow(rows', x.page, x.i)
  PROVE  Accounted(x, gone, count)'
<1>1. /\ stack' \in Seq(Frame) /\ Len(stack') = Len(stack)
      /\ Len(stack) \in Nat \ {0}
      /\ stack'[Len(stack)] = f
      /\ \A n \in 1 .. Len(stack) - 1 : stack'[n] = stack[n]
  BY BecomeFacts DEF TypeOK
<1>2. /\ DOMAIN stack' = 1 .. Len(stack) /\ DOMAIN stack = 1 .. Len(stack)
      /\ Len(stack) \in DOMAIN stack'
  BY <1>1 DEF TypeOK
<1>3. CASE HasRow(rows, x.page, x.i)
  BY <1>3 DEF RowsStay, Accounted
<1>4. ASSUME NEW n \in DOMAIN stack,
             Owes(x, stack[n], PageCount + 1 - n, image, gone, count)
      PROVE  Accounted(x, gone, count)'
  <2>1. CASE n = Len(stack)
    <3>1. Owes(x, Top, d, image, gone, count)
      BY <1>4, <2>1 DEF Top
    <3>2. Owes(x, stack'[n], PageCount + 1 - n, image', gone, count)
            \/ HasRow(rows', x.page, x.i)
      BY <1>1, <2>1, <3>1
    <3> QED
      BY <1>2, <2>1, <3>2 DEF Accounted
  <2>2. CASE n # Len(stack)
    <3>1. n \in 1 .. Len(stack) - 1
      BY <1>1, <1>2, <2>2
    <3>2. Owes(x, stack'[n], PageCount + 1 - n, image', gone, count)
      BY <1>1, <1>4, <3>1
    <3> QED
      BY <1>2, <3>2 DEF Accounted
  <2> QED
    BY <2>1, <2>2
<1>5. ASSUME NEW k \in DOMAIN todo,
             x \in Under(image, gone, count, PageCount, todo[k], RootType(todo[k]))
      PROVE  Accounted(x, gone, count)'
  BY <1>5 DEF Accounted
<1> QED
  BY <1>3, <1>4, <1>5 DEF Accounted

LEMMA CallOwes ==
  ASSUME TypeOK, stack # <<>>, NEW f \in Frame, NEW c \in Frame, BecomeAndCall(f, c),
         image' = image, todo' = todo, RowsStay,
         NEW gone, NEW count, NEW x, Accounted(x, gone, count),
         NEW d, d = PageCount + 1 - Len(stack), NEW e, e = d - 1,
         Owes(x, Top, d, image, gone, count) =>
           \/ Owes(x, f, d, image, gone, count) \/ Owes(x, c, e, image, gone, count)
           \/ HasRow(rows', x.page, x.i)
  PROVE  Accounted(x, gone, count)'
<1>1. /\ stack' \in Seq(Frame) /\ Len(stack') = Len(stack) + 1
      /\ Len(stack) \in Nat \ {0}
      /\ stack'[Len(stack) + 1] = c
      /\ stack'[Len(stack)] = f
      /\ \A n \in 1 .. Len(stack) - 1 : stack'[n] = stack[n]
  BY CallFacts DEF TypeOK
<1>2. /\ DOMAIN stack' = 1 .. Len(stack) + 1 /\ DOMAIN stack = 1 .. Len(stack)
      /\ Len(stack) \in DOMAIN stack' /\ Len(stack) + 1 \in DOMAIN stack'
  BY <1>1 DEF TypeOK
<1>3. CASE HasRow(rows, x.page, x.i)
  BY <1>3 DEF RowsStay, Accounted
<1>4. ASSUME NEW n \in DOMAIN stack,
             Owes(x, stack[n], PageCount + 1 - n, image, gone, count)
      PROVE  Accounted(x, gone, count)'
  <2>1. CASE n = Len(stack)
    <3>1. Owes(x, Top, d, image, gone, count)
      BY <1>4, <2>1 DEF Top
    <3>2. PICK m : m = n + 1
      OBVIOUS
    <3>3. e = PageCount + 1 - m
      BY <1>1, <2>1, <3>2, PageCountAssumption
    <3>4. \/ Owes(x, stack'[n], PageCount + 1 - n, image', gone, count)
          \/ Owes(x, stack'[m], PageCount + 1 - m, image', gone, count)
          \/ HasRow(rows', x.page, x.i)
      BY <1>1, <2>1, <3>1, <3>2, <3>3
    <3>5. n \in DOMAIN stack' /\ m \in DOMAIN stack'
      BY <1>2, <2>1, <3>2
    <3> QED
      BY <3>4, <3>5 DEF Accounted
  <2>2. CASE n # Len(stack)
    <3>1. n \in 1 .. Len(stack) - 1 /\ n \in DOMAIN stack'
      BY <1>1, <1>2, <2>2
    <3>2. Owes(x, stack'[n], PageCount + 1 - n, image', gone, count)
      BY <1>1, <1>4, <3>1
    <3> QED
      BY <3>1, <3>2 DEF Accounted
  <2> QED
    BY <2>1, <2>2
<1>5. ASSUME NEW k \in DOMAIN todo,
             x \in Under(image, gone, count, PageCount, todo[k], RootType(todo[k]))
      PROVE  Accounted(x, gone, count)'
  BY <1>5 DEF Accounted
<1> QED
  BY <1>3, <1>4, <1>5 DEF Accounted

(* Only a cancelled call takes rows from its caller.                       *)
LEMMA ReturnOwes ==
  ASSUME TypeOK, stack # <<>>, NEW result, Return(result), result # "CANCELLED",
         image' = image, todo' = todo, rows' = rows,
         NEW gone, NEW count, NEW x, Accounted(x, gone, count),
         NEW d, d = PageCount + 1 - Len(stack),
         ~ Owes(x, Top, d, image, gone, count)
  PROVE  Accounted(x, gone, count)'
<1>1. /\ stack' \in Seq(Frame) /\ Len(stack') = Len(stack) - 1
      /\ Len(stack) \in Nat \ {0}
  BY ReturnFacts DEF TypeOK
<1>2. /\ DOMAIN stack' = 1 .. Len(stack) - 1 /\ DOMAIN stack = 1 .. Len(stack)
  BY <1>1 DEF TypeOK
<1>3. ASSUME NEW n \in 1 .. Len(stack) - 1
      PROVE  \/ stack'[n] = stack[n]
             \/ stack[n].at = "subtree" /\ stack[n].rc = "OK"
                /\ stack'[n] = Moved(stack[n], "cell")
             \/ stack[n].at = "subtree" /\ stack[n].rc # "OK"
  <2>1. /\ Callers \in Seq(Frame) /\ Len(Callers) = Len(stack) - 1
        /\ \A k \in 1 .. Len(stack) - 1 : Callers[k] = stack[k]
    BY <1>1, SubSeqProperties DEF Callers, TypeOK
  <2>2. stack' = Resume(Callers, result)
    BY DEF Return
  <2>3. n \in DOMAIN Callers /\ Callers # <<>>
    BY <1>1, <2>1, LenProperties
  <2>4. CASE Callers[Len(Callers)].at # "subtree"
    BY <2>1, <2>2, <2>4 DEF Resume
  <2>5. CASE Callers[Len(Callers)].at = "subtree"
    <3>1. stack' = [Callers EXCEPT ![Len(Callers)].at =
                       IF Callers[Len(Callers)].rc = "OK" THEN "cell" ELSE "end"]
      BY <2>2, <2>3, <2>5 DEF Resume
    <3>2. CASE n = Len(Callers)
      <4>1. stack'[n] = [Callers[n] EXCEPT !.at =
                           IF Callers[n].rc = "OK" THEN "cell" ELSE "end"]
        BY <2>3, <3>1, <3>2
      <4> QED
        BY <2>1, <2>5, <3>2, <4>1 DEF Moved
    <3>3. CASE n # Len(Callers)
      BY <2>1, <2>3, <3>1, <3>3
    <3> QED
      BY <3>2, <3>3
  <2> QED
    BY <2>4, <2>5
<1>4. CASE HasRow(rows, x.page, x.i)
  BY <1>4 DEF Accounted
<1>5. ASSUME NEW n \in DOMAIN stack, NEW l, l = PageCount + 1 - n,
             Owes(x, stack[n], l, image, gone, count)
      PROVE  Accounted(x, gone, count)'
  <2>1. n # Len(stack)
    BY <1>5 DEF Top
  <2>2. n \in 1 .. Len(stack) - 1 /\ n \in DOMAIN stack'
    BY <1>1, <1>2, <2>1
  <2>3. ASSUME stack[n].at = "subtree" /\ stack[n].rc = "OK"
               /\ stack'[n] = Moved(stack[n], "cell")
        PROVE  Owes(x, stack'[n], l, image, gone, count)
    <3>1. stack[n] \in Frame
      BY <1>5, ElementOfSeq DEF TypeOK
    <3>2. PICK g : g = stack'[n]
      OBVIOUS
    <3>3. /\ g.at = "cell" /\ g.page = stack[n].page /\ g.btree = stack[n].btree
          /\ g.i = stack[n].i
      BY <2>3, <3>1, <3>2 DEF Moved, Frame
    <3>4. Owes(x, g, l, image, gone, count)
      BY <1>5, <2>3, <3>3 DEF Owes, CellPlaces, OverflowPlaces
    <3> QED
      BY <3>2, <3>4
  <2>4. ~ (stack[n].at = "subtree" /\ stack[n].rc # "OK")
    BY <1>5 DEF Owes
  <2>5. Owes(x, stack'[n], l, image, gone, count)
    BY <1>3, <1>5, <2>2, <2>3, <2>4
  <2> QED
    BY <1>5, <2>2, <2>5 DEF Accounted
<1>6. ASSUME NEW k \in DOMAIN todo,
             x \in Under(image, gone, count, PageCount, todo[k], RootType(todo[k]))
      PROVE  Accounted(x, gone, count)'
  BY <1>6 DEF Accounted
<1> QED
  BY <1>4, <1>5, <1>6 DEF Accounted

-----------------------------------------------------------------------------
(* Each step of a call passes on what the call owes.                       *)

Ready == /\ TypeOK /\ FramesOK /\ Shape /\ FramesTell /\ CheckingAccounted
         /\ Sane

LEMMA TopLevel ==
  ASSUME Ready, stack # <<>>, NEW d, d = PageCount + 1 - Len(stack)
  PROVE  /\ d \in 0 .. PageCount /\ (Top.page \in Pages => d # 0)
         /\ Top \in Frame /\ FrameOK(Top, image, declined) /\ FrameFits(Top, image)
         /\ FrameTells(Top, image, rows, lost)
         /\ image \in ImageType
<1>1. Len(stack) \in DOMAIN stack /\ Top = stack[Len(stack)]
  BY TopFacts DEF Ready
<1>2. /\ stack[Len(stack)] \in Frame /\ Level(stack[Len(stack)], PageCount + 1 - Len(stack))
      /\ FrameOK(stack[Len(stack)], image, declined)
      /\ FrameFits(stack[Len(stack)], image)
  BY <1>1, FrameLevel DEF Ready, Sane
<1>3. FrameTells(Top, image, rows, lost) /\ image \in ImageType
  BY TopTells DEF Ready, TypeOK
<1> QED
  BY <1>1, <1>2, <1>3 DEF Level

(* What a call owes that has not started its loop.                         *)
LEMMA OwesWhole ==
  ASSUME NEW f \in Frame, NEW d \in 0 .. PageCount, NEW img \in ImageType,
         NEW gone, NEW count \in Counts(img), NEW x,
         Owes(x, f, d, img, gone, count), f.at \in {"begin", "acquire"}
  PROVE  /\ PageHas(x, img, gone, count, d, f.page, f.btree)
         /\ f.page \in Pages \ gone /\ f.btree # "system"
         /\ x \in Under(img, gone, count, d, f.page, f.btree)
         /\ IsBtree(img, f.page)
<1>1. /\ x \in Under(img, gone, count, d, f.page, f.btree)
      /\ f.page \in Pages \ gone /\ f.btree # "system"
  BY DEF Owes, CellPlaces, OverflowPlaces
<1>2. f.page \in Int /\ f.btree \in {"master", "user"}
  BY <1>1 DEF Frame, Btrees
<1>3. PageHas(x, img, gone, count, d, f.page, f.btree)
  BY <1>1, <1>2, UnderIs
<1>4. IsBtree(img, f.page)
  BY <1>1, <1>3 DEF PageHas, IsBtree, BtreeKinds, InteriorKinds
<1> QED
  BY <1>1, <1>3, <1>4

LEMMA BeginOwes ==
  ASSUME Ready, BeginPage, NEW gone, NEW count \in Counts(image), NEW x,
         Spares(image, gone, count, lost, declined), Accounted(x, gone, count)
  PROVE  Accounted(x, gone, count)'
<1> PICK d : d = PageCount + 1 - Len(stack)
  OBVIOUS
<1>1. /\ stack # <<>> /\ Top.at = "begin" /\ image' = image /\ rows' = rows
      /\ todo' = todo /\ TypeOK
  BY DEF BeginPage, At, Ready, input
<1>2. /\ d \in 0 .. PageCount /\ Top \in Frame /\ image \in ImageType
  BY <1>1, TopLevel
<1>3. CASE Return("MISUSE")
  <2>1. ASSUME Owes(x, Top, d, image, gone, count) PROVE FALSE
    <3>1. Top.page \in Pages \ gone /\ IsBtree(image, Top.page)
      BY <1>1, <1>2, <2>1, OwesWhole
    <3>2. status[Top.page] = "checking"
      <4>1. CASE status[Top.page] = "checking"
        BY <4>1
      <4>2. CASE status[Top.page] # "checking"
        <5>1. Go("acquire", "OK")
          BY <3>1, <4>2 DEF BeginPage, GetStatus
        <5>2. Len(stack') = Len(stack)
          <6> DEFINE f == [Top EXCEPT !.at = "acquire", !.rc = "OK"]
          <6>1. f \in Frame /\ Become(f)
            BY <1>2, <5>1 DEF Frame, Places, Codes, Go
          <6> HIDE DEF f
          <6> QED
            BY <1>1, <6>1, BecomeFacts DEF TypeOK
        <5>3. Len(stack') = Len(stack) - 1 /\ Len(stack) \in Nat
          BY <1>1, <1>3, ReturnFacts DEF TypeOK
        <5> QED
          BY <5>2, <5>3
      <4> QED
        BY <4>1, <4>2
    <3>3. BeingVisited(Top.page) \/ [page |-> Top.page, answer |-> "CANCELLED"] \in declined
      BY <3>1, <3>2 DEF Ready, CheckingAccounted
    <3>4. [page |-> Top.page, answer |-> "CANCELLED"] \notin declined
      BY DEF Spares
    <3>5. PICK n \in DOMAIN stack : Visits(stack[n], Top.page)
      BY <3>3, <3>4 DEF BeingVisited
    <3>6. Len(stack) \in DOMAIN stack /\ Top = stack[Len(stack)]
      BY <1>1, TopFacts DEF Ready
    <3>7. CASE stack[n].page = Top.page /\ Active(stack[n])
      <4>1. n # Len(stack)
        BY <1>1, <3>6, <3>7 DEF Active
      <4>2. PagesDiffer(stack)
        BY DEF Ready, Shape, Sane
      <4> QED
        BY <3>1, <3>6, <3>7, <4>1, <4>2 DEF PagesDiffer
    <3>8. CASE stack[n].next = Top.page /\ stack[n].at = "overflowRead"
      <4>1. FrameTells(stack[n], image, rows, lost) /\ ChainsApart(image)
        BY DEF Ready, FramesTell, Sane, Forest, Sound, IsForest
      <4> QED
        BY <3>1, <3>8, <4>1 DEF FrameTells, OverflowPlaces
    <3> QED
      BY <3>5, <3>7, <3>8 DEF Visits
  <2> QED
    BY <1>1, <1>3, <2>1, ReturnOwes
<1>4. CASE Go("acquire", "OK")
  <2> DEFINE f == [Top EXCEPT !.at = "acquire", !.rc = "OK"]
  <2>1. /\ f \in Frame /\ f.page = Top.page /\ f.btree = Top.btree /\ f.at = "acquire"
        /\ Become(f)
    BY <1>2, <1>4 DEF Frame, Places, Codes, Go
  <2> HIDE DEF f
  <2>2. Owes(x, Top, d, image, gone, count) => Owes(x, f, d, image, gone, count)
    <3>1. ASSUME Owes(x, Top, d, image, gone, count)
          PROVE  Owes(x, f, d, image, gone, count)
      <4>1. /\ Top.page \in Pages \ gone /\ Top.btree # "system"
            /\ x \in Under(image, gone, count, d, Top.page, Top.btree)
        BY <1>1, <1>2, <3>1, OwesWhole
      <4> QED
        BY <2>1, <4>1 DEF Owes
    <3> QED
      BY <3>1
  <2>3. RowsStay
    BY <1>1 DEF RowsStay
  <2> QED
    BY <1>1, <2>1, <2>2, <2>3, BecomeOwes
<1> QED
  BY <1>3, <1>4 DEF BeginPage

(* A page that is lost owes nothing.                                       *)
LEMMA LostOwes ==
  ASSUME Ready, AcquireFails \/ CellFails, NEW gone, NEW count \in Counts(image), NEW x,
         Spares(image, gone, count, lost', declined'), Accounted(x, gone, count)
  PROVE  Accounted(x, gone, count)'
<1> PICK d : d = PageCount + 1 - Len(stack)
  OBVIOUS
<1> DEFINE f == [Top EXCEPT !.at = "end", !.rc = "IOERR"]
<1>1. /\ stack # <<>> /\ image' = image /\ rows' = rows /\ todo' = todo /\ TypeOK
      /\ Fails(Top.page) /\ Become(f)
  BY DEF AcquireFails, CellFails, At, Ready, Go, input
<1>2. f \in Frame
  <2>1. Top \in Frame
    BY <1>1, TopLevel
  <2> QED
    BY <2>1 DEF Frame, Places, Codes
<1> HIDE DEF f
<1>3. Top.page \in gone
  BY <1>1 DEF Fails, Spares
<1>4. ~ Owes(x, Top, d, image, gone, count)
  BY <1>3 DEF Owes
<1>5. RowsStay
  BY <1>1 DEF RowsStay
<1> QED
  BY <1>1, <1>2, <1>4, <1>5, BecomeOwes

LEMMA AcquireOwes ==
  ASSUME Ready, AcquirePage, NEW gone, NEW count \in Counts(image), NEW x,
         Accounted(x, gone, count)
  PROVE  Accounted(x, gone, count)'
<1> PICK d : d = PageCount + 1 - Len(stack)
  OBVIOUS
<1>1. /\ stack # <<>> /\ Top.at = "acquire" /\ image' = image /\ rows' = rows
      /\ todo' = todo /\ TypeOK
  BY DEF AcquirePage, At, Ready, input
<1>2. /\ d \in 0 .. PageCount /\ Top \in Frame /\ image \in ImageType
      /\ FrameFits(Top, image)
  BY <1>1, TopLevel
<1>3. Top.i = 1
  BY <1>1, <1>2 DEF FrameFits
<1>4. PICK place \in {"end", "child", "cell"}, code \in {"OK", "DAMAGED"} :
        /\ Go(place, code)
        /\ image[Top.page].kind = "interiorTable" /\ image[Top.page].kids # <<>>
             => place = "child"
        /\ /\ image[Top.page].kind = "leafTable" /\ Len(image[Top.page].cells) # 0
           /\ Top.btree # "system"
           => place = "cell"
  <2>1. image[Top.page].kind = "interiorTable" =>
          CellsCount(image, Top.page) = Len(image[Top.page].kids)
    BY DEF CellsCount, InteriorKinds
  <2>2. image[Top.page].kind = "leafTable" =>
          CellsCount(image, Top.page) = Len(image[Top.page].cells)
    BY DEF CellsCount, InteriorKinds
  <2>3. image[Top.page].kids # <<>> => Len(image[Top.page].kids) # 0
    <3>1. Top.page \in Pages
      BY <1>1, TopLevel DEF FrameOK, Active
    <3>2. image[Top.page].kids \in Seq(Int)
      BY <1>2, <3>1 DEF ImageType, Page
    <3> QED
      BY <3>2, EmptySeq
  <2>4. /\ image[Top.page].kind = "interiorTable" =>
             image[Top.page].kind \in InteriorKinds /\ image[Top.page].kind # "leafTable"
             /\ image[Top.page].kind # "other" /\ image[Top.page].kind # "leafIndex"
        /\ image[Top.page].kind = "leafTable" =>
             image[Top.page].kind \notin InteriorKinds
    BY DEF InteriorKinds
  <2> QED
    BY <2>1, <2>2, <2>3, <2>4 DEF AcquirePage
<1> DEFINE f == [Top EXCEPT !.at = place, !.rc = code]
<1>5. /\ f \in Frame /\ f.page = Top.page /\ f.btree = Top.btree /\ f.at = place
      /\ f.i = Top.i /\ Become(f)
  BY <1>2, <1>4 DEF Frame, Places, Codes, Go
<1> HIDE DEF f
<1>6. ASSUME Owes(x, Top, d, image, gone, count)
      PROVE  Owes(x, f, d, image, gone, count)
  <2>1. /\ Top.page \in Pages \ gone /\ Top.btree # "system"
        /\ PageHas(x, image, gone, count, d, Top.page, Top.btree)
    BY <1>1, <1>2, <1>6, OwesWhole
  <2>2. CASE image[Top.page].kind = "interiorTable"
    <3>1. image[Top.page].kids # <<>>
      BY <2>1, <2>2 DEF Ready, Sane, Filled, OfKind
    <3>2. PICK k \in DOMAIN FileChildren(image, Top.page) :
            x \in Under(image, gone, count, d - 1, FileChildren(image, Top.page)[k], Top.btree)
      BY <2>1, <2>2 DEF PageHas
    <3>3. 1 <= k
      <4>1. DOMAIN FileChildren(image, Top.page) = 1 .. Len(image[Top.page].kids) + 1
        BY <1>2, <2>1, ChildrenAre
      <4> QED
        BY <4>1
    <3> QED
      BY <1>3, <1>4, <1>5, <2>1, <2>2, <3>1, <3>2, <3>3 DEF Owes
  <2>3. CASE image[Top.page].kind = "leafTable"
    <3>1. PICK k \in 1 .. count[Top.page] :
            CellHas(x, image, gone, count, d, Top.page, Top.btree, k)
      BY <2>1, <2>3 DEF PageHas
    <3>2. count[Top.page] \in Nat /\ count[Top.page] <= Len(image[Top.page].cells)
      BY <2>1 DEF Counts
    <3>3. Len(image[Top.page].cells) # 0 /\ 1 <= k
      <4>1. Len(image[Top.page].cells) \in Nat
        BY <1>1, <2>1, ImageFacts, LenProperties
      <4> QED
        BY <3>2, <4>1
    <3>4. f.at = "cell" /\ f.at \in CellPlaces
      BY <1>4, <1>5, <2>1, <2>3, <3>3 DEF CellPlaces
    <3> QED
      BY <1>3, <1>5, <2>1, <2>3, <3>1, <3>3, <3>4 DEF Owes
  <2> QED
    BY <2>1, <2>2, <2>3 DEF PageHas
<1>7. RowsStay
  BY <1>1 DEF RowsStay
<1> QED
  BY <1>1, <1>5, <1>6, <1>7, BecomeOwes

(* The loop over the children passes its next child on to a new call.      *)
LEMMA ChildOwes ==
  ASSUME Ready, ParseChild, NEW gone, NEW count \in Counts(image), NEW x,
         Accounted(x, gone, count)
  PROVE  Accounted(x, gone, count)'
<1> PICK d : d = PageCount + 1 - Len(stack)
  OBVIOUS
<1> PICK e : e = d - 1
  OBVIOUS
<1> DEFINE kids == ChildPointers(image, Top.page)
<1>1. /\ stack # <<>> /\ Top.at = "child" /\ image' = image /\ rows' = rows
      /\ todo' = todo /\ TypeOK /\ RowsStay
  BY DEF ParseChild, At, Ready, input, RowsStay
<1>2. /\ d \in 0 .. PageCount /\ Top \in Frame /\ image \in ImageType
      /\ FrameOK(Top, image, declined)
  BY <1>1, TopLevel
<1>3. Top.page \in Pages
  BY <1>1, <1>2 DEF FrameOK, Active
<1>4. kids \in Seq(Int) /\ Len(kids) \in Nat /\ Top.i \in Nat \ {0} /\ Top.btree \in Btrees
  BY <1>1, <1>2, <1>3, ImageFacts, LenProperties DEF Frame
<1>5. ASSUME image[Top.page].kind = "interiorTable"
      PROVE  /\ kids = FileChildren(image, Top.page)
             /\ DOMAIN FileChildren(image, Top.page) = 1 .. Len(kids)
  <2>1. Top.page # 1
    BY <1>5 DEF Ready, Sane
  <2>2. kids = FileChildren(image, Top.page)
    BY <1>5, <2>1 DEF ChildPointers, FileChildren
  <2> QED
    BY <1>4, <2>2
<1>6. ASSUME Owes(x, Top, d, image, gone, count)
      PROVE  /\ image[Top.page].kind = "interiorTable"
             /\ Top.btree # "system" /\ Top.page \in Pages \ gone
             /\ \E k \in 1 .. Len(kids) :
                  Top.i <= k /\ x \in Under(image, gone, count, e, kids[k], Top.btree)
  <2>1. /\ image[Top.page].kind = "interiorTable"
        /\ Top.btree # "system" /\ Top.page \in Pages \ gone
        /\ \E k \in DOMAIN FileChildren(image, Top.page) :
             /\ Top.i <= k
             /\ x \in Under(image, gone, count, d - 1, FileChildren(image, Top.page)[k], Top.btree)
    BY <1>1, <1>6 DEF Owes, CellPlaces, OverflowPlaces
  <2> QED
    BY <1>5, <2>1
<1> HIDE DEF kids
<1>7. CASE Top.i > Len(kids)
  <2> DEFINE f == [Top EXCEPT !.at = "end", !.rc = "OK"]
  <2>1. f \in Frame /\ Become(f)
    BY <1>2, <1>7 DEF ParseChild, Go, kids, Frame, Places, Codes
  <2> HIDE DEF f
  <2>2. ~ Owes(x, Top, d, image, gone, count)
    BY <1>4, <1>6, <1>7
  <2> QED
    BY <1>1, <2>1, <2>2, BecomeOwes
<1>8. CASE ~ (Top.i > Len(kids))
  <2> DEFINE p == kids[Top.i]
             f == [Top EXCEPT !.i = @ + 1]
             c == Call(p, Top.btree)
  <2>1. Top.i \in 1 .. Len(kids) /\ Top.i + 1 \in Nat \ {0}
    BY <1>4, <1>8
  <2>2. p \in Int
    BY <1>4, <2>1, ElementOfSeq
  <2>3. BecomeAndCall(f, c)
    BY <1>8 DEF ParseChild, kids
  <2>4. /\ f \in Frame /\ f.at = "child" /\ f.btree = Top.btree /\ f.page = Top.page
        /\ f.i = Top.i + 1
    BY <1>1, <1>2, <2>1 DEF Frame
  <2> HIDE DEF f, p
  <2>5. /\ c \in Frame /\ c.at = "begin" /\ c.page = p /\ c.btree = Top.btree
    BY <1>4, <2>2, CallIsFrame DEF Call
  <2> HIDE DEF c
  <2>6. ASSUME Owes(x, Top, d, image, gone, count)
        PROVE  Owes(x, f, d, image, gone, count) \/ Owes(x, c, e, image, gone, count)
    <3>1. PICK k \in 1 .. Len(kids) :
            Top.i <= k /\ x \in Under(image, gone, count, e, kids[k], Top.btree)
      BY <1>6, <2>6
    <3>2. CASE k = Top.i
      <4>1. x \in Under(image, gone, count, e, p, Top.btree)
        BY <3>1, <3>2 DEF p
      <4>2. e \in 0 .. PageCount /\ Top.btree \in {"master", "user"}
        <5>1. d # 0
          BY <1>1, <1>3, TopLevel
        <5>2. e \in 0 .. PageCount
          BY <1>2, <5>1, PageCountAssumption
        <5> QED
          BY <1>4, <1>6, <2>6, <5>2 DEF Btrees
      <4>3. PageHas(x, image, gone, count, e, p, Top.btree)
        BY <1>2, <2>2, <4>1, <4>2, UnderIs
      <4>4. p \in Pages \ gone
        BY <4>3 DEF PageHas
      <4> QED
        BY <1>6, <2>5, <2>6, <4>1, <4>4 DEF Owes
    <3>3. CASE k # Top.i
      <4>1. f.i <= k
        BY <1>4, <2>4, <3>1, <3>3
      <4>2. k \in DOMAIN FileChildren(image, Top.page)
            /\ x \in Under(image, gone, count, d - 1, FileChildren(image, Top.page)[k], Top.btree)
        BY <1>5, <1>6, <2>6, <3>1
      <4> QED
        BY <1>6, <2>4, <2>6, <4>1, <4>2 DEF Owes
    <3> QED
      BY <3>2, <3>3
  <2> QED
    BY <1>1, <2>3, <2>4, <2>5, <2>6, CallOwes
<1> QED
  BY <1>7, <1>8

(* A call that goes on at the same cell owes the same.                     *)
LEMMA SameCell ==
  ASSUME NEW f \in Frame, NEW g \in Frame, NEW d, NEW img, NEW gone, NEW count, NEW x,
         Owes(x, f, d, img, gone, count), f.at \in CellPlaces,
         g.page = f.page, g.btree = f.btree, g.i = f.i, g.at \in CellPlaces \ {"subtree"}
  PROVE  Owes(x, g, d, img, gone, count)
<1>1. /\ f.btree # "system" /\ f.page \in Pages \ gone /\ img[f.page].kind = "leafTable"
      /\ \E k \in 1 .. count[f.page] :
           f.i <= k /\ CellHas(x, img, gone, count, d, f.page, f.btree, k)
  BY DEF Owes, CellPlaces, OverflowPlaces
<1> QED
  BY <1>1 DEF Owes

LEMMA CellOwes ==
  ASSUME Ready, ParseCell, NEW gone, NEW count \in Counts(image), NEW x,
         Accounted(x, gone, count)
  PROVE  Accounted(x, gone, count)'
<1> PICK d : d = PageCount + 1 - Len(stack)
  OBVIOUS
<1>1. /\ stack # <<>> /\ Top.at = "cell" /\ image' = image /\ rows' = rows
      /\ todo' = todo /\ TypeOK /\ RowsStay
  BY DEF ParseCell, At, Ready, input, RowsStay
<1>2. /\ d \in 0 .. PageCount /\ Top \in Frame /\ image \in ImageType
      /\ FrameOK(Top, image, declined)
  BY <1>1, TopLevel
<1>3. Top.page \in Pages
  BY <1>1, <1>2 DEF FrameOK, Active
<1>4. image[Top.page].cells \in Seq(Cell) /\ Len(image[Top.page].cells) \in Nat
      /\ Top.i \in Nat \ {0}
  BY <1>1, <1>2, <1>3, ImageFacts, LenProperties DEF Frame
<1>5. CASE Top.i > Len(image[Top.page].cells)
  <2> DEFINE f == [Top EXCEPT !.at = "end", !.rc = "OK"]
  <2>1. f \in Frame /\ Become(f)
    BY <1>2, <1>5 DEF ParseCell, Go, Frame, Places, Codes
  <2> HIDE DEF f
  <2>2. ~ Owes(x, Top, d, image, gone, count)
    <3>1. ASSUME NEW k \in 1 .. count[Top.page], Top.i <= k PROVE FALSE
      <4>1. count[Top.page] \in Nat /\ count[Top.page] <= Len(image[Top.page].cells)
        BY <1>3 DEF Counts
      <4> QED
        BY <1>4, <1>5, <3>1, <4>1
    <3> QED
      BY <1>1, <3>1 DEF Owes
  <2> QED
    BY <1>1, <2>1, <2>2, BecomeOwes
<1>6. CASE ~ (Top.i > Len(image[Top.page].cells))
  <2> DEFINE place == IF CellNow.need > 0 THEN "overflow" ELSE "column"
             f == [Top EXCEPT !.at = place, !.next = CellNow.chain,
                              !.got = 0, !.chain = {}]
  <2>1. Become(f)
    BY <1>6 DEF ParseCell
  <2>2. CellNow.chain \in Int
    <3>1. Top.i \in DOMAIN image[Top.page].cells
      BY <1>4, <1>6
    <3> QED
      BY <1>1, <1>3, <3>1, ImageFacts DEF CellNow, Cell
  <2>3. place \in {"overflow", "column"}
    OBVIOUS
  <2> HIDE DEF place
  <2>4. /\ f \in Frame /\ f.page = Top.page /\ f.at = place
        /\ f.i = Top.i /\ f.btree = Top.btree
    BY <1>2, <2>2, <2>3 DEF Frame, Places
  <2> HIDE DEF f
  <2>5. Top.at \in CellPlaces /\ f.at \in CellPlaces \ {"subtree"}
    BY <1>1, <2>3, <2>4 DEF CellPlaces, OverflowPlaces
  <2>6. Owes(x, Top, d, image, gone, count) => Owes(x, f, d, image, gone, count)
    BY <1>2, <2>4, <2>5, SameCell
  <2> QED
    BY <1>1, <2>1, <2>4, <2>6, BecomeOwes
<1> QED
  BY <1>5, <1>6

LEMMA OverflowOwes ==
  ASSUME Ready, OverflowBegin \/ OverflowFails \/ OverflowRead,
         NEW gone, NEW count \in Counts(image), NEW x,
         Accounted(x, gone, count)
  PROVE  Accounted(x, gone, count)'
<1> PICK d : d = PageCount + 1 - Len(stack)
  OBVIOUS
<1>1. /\ stack # <<>> /\ Top.at \in OverflowPlaces /\ image' = image /\ rows' = rows
      /\ todo' = todo /\ TypeOK /\ RowsStay
  BY DEF OverflowBegin, OverflowFails, OverflowRead, At, Ready, input, RowsStay, OverflowPlaces
<1>2. Top \in Frame /\ FrameOK(Top, image, declined)
  BY <1>1, TopLevel
<1>3. Top.page \in Pages /\ Top.i \in DOMAIN image[Top.page].cells /\ Top.got \in Nat
  BY <1>1, <1>2 DEF FrameOK, Active, OverflowPlaces, Frame
<1>4. PICK f \in Frame : /\ Become(f) /\ f.page = Top.page /\ f.btree = Top.btree
                         /\ f.i = Top.i /\ f.at \in {"overflow", "overflowRead", "column"}
  <2>1. CASE Go("column", "OK")
    <3> DEFINE f == [Top EXCEPT !.at = "column", !.rc = "OK"]
    <3>1. /\ f \in Frame /\ f.page = Top.page /\ f.btree = Top.btree
          /\ f.i = Top.i /\ f.at = "column" /\ Become(f)
      BY <1>2, <2>1 DEF Frame, Places, Codes, Go
    <3> HIDE DEF f
    <3> QED
      BY <3>1
  <2>2. CASE OverflowBegin /\ Top.next \in Pages
    <3> DEFINE f == [Top EXCEPT !.at = "overflowRead", !.chain = @ \cup {Top.next}]
    <3>1. /\ f \in Frame /\ f.page = Top.page /\ f.btree = Top.btree
          /\ f.i = Top.i /\ f.at = "overflowRead" /\ Become(f)
      BY <1>2, <2>2 DEF Frame, Places, OverflowBegin
    <3> HIDE DEF f
    <3> QED
      BY <3>1
  <2>3. CASE OverflowRead
    <3> DEFINE got == IF Top.got < CellNow.need THEN Top.got + 1 ELSE Top.got
               f   == [Top EXCEPT !.at = "overflow", !.got = got,
                                  !.next = image[Top.next].link]
    <3>1. got \in Nat
      BY <1>3
    <3>2. Top.next \in Pages
      BY <1>2, <2>3 DEF OverflowRead, At, FrameOK
    <3>3. image[Top.next].link \in Int
      BY <1>1, <3>2, ImageFacts
    <3>4. Become(f)
      BY <2>3 DEF OverflowRead
    <3> HIDE DEF got
    <3>5. /\ f \in Frame /\ f.page = Top.page /\ f.btree = Top.btree
          /\ f.i = Top.i /\ f.at = "overflow"
      BY <1>2, <3>1, <3>3 DEF Frame, Places
    <3> HIDE DEF f
    <3> QED
      BY <3>4, <3>5
  <2> QED
    BY <2>1, <2>2, <2>3 DEF OverflowBegin, OverflowFails
<1>5. Top.at \in CellPlaces /\ f.at \in CellPlaces \ {"subtree"}
  BY <1>1, <1>4 DEF CellPlaces, OverflowPlaces
<1>6. Owes(x, Top, d, image, gone, count) => Owes(x, f, d, image, gone, count)
  BY <1>2, <1>4, <1>5, SameCell
<1> QED
  BY <1>1, <1>4, <1>6, BecomeOwes

(* The cell at hand of a call that owes a row: every cell up to that of    *)
(* the row is counted, so its chain is in place and its record decodes.    *)
LEMMA CellSpared ==
  ASSUME Ready, stack # <<>>, Top.at = "column",
         NEW gone, NEW count \in Counts(image), NEW x, NEW d, NEW out, NEW answers,
         lost \subseteq out, Spares(image, gone, count, out, answers),
         Owes(x, Top, d, image, gone, count)
  PROVE  /\ Top.page \in Pages \ gone /\ image[Top.page].kind = "leafTable"
         /\ Top.btree # "system" /\ Top.i \in 1 .. count[Top.page]
         /\ Top.i \in DOMAIN image[Top.page].cells /\ CellNow \in Cell
         /\ \E k \in 1 .. count[Top.page] :
              Top.i <= k /\ CellHas(x, image, gone, count, d, Top.page, Top.btree, k)
         /\ CellNow.decode = "OK" /\ Whole
         /\ \A a \in answers : a.page # Top.page
<1>1. /\ Top \in Frame /\ FrameOK(Top, image, declined) /\ TypeOK
      /\ FrameTells(Top, image, rows, lost)
  BY TopLevel DEF Ready
<1>2. /\ Top.page \in Pages \ gone /\ image[Top.page].kind = "leafTable"
      /\ Top.btree # "system"
      /\ \E k \in 1 .. count[Top.page] :
           Top.i <= k /\ CellHas(x, image, gone, count, d, Top.page, Top.btree, k)
  BY DEF Owes
<1>3. Top.i \in DOMAIN image[Top.page].cells /\ CellNow \in Cell /\ Top.i \in Nat \ {0}
      /\ Top.got \in Nat
  BY <1>1, <1>2, ImageFacts DEF FrameOK, CellNow, Frame
<1>4. Top.i \in 1 .. count[Top.page]
  <2>1. count[Top.page] \in Nat
    BY <1>2 DEF Counts
  <2> QED
    BY <1>2, <1>3, <2>1
<1>5. /\ CellNow.decode = "OK" /\ ChainWithout(CellNow, image, gone)
      /\ \A a \in answers : a.page # Top.page
  BY <1>2, <1>4 DEF Spares, CellNow
<1>6. Whole
  <2>1. OnChain(Top, CellNow, image, lost)
    BY <1>1 DEF FrameTells, CellNow
  <2>2. PICK s \in [1 .. CellNow.need -> Pages \ gone] : IsChainOf(s, CellNow, image)
    BY <1>5 DEF ChainWithout
  <2>3. s \in [1 .. CellNow.need -> Pages \ lost]
    BY <2>2 DEF Spares
  <2>4. Top.got <= CellNow.need /\ ~ (Top.got < CellNow.need)
    BY <2>1, <2>2, <2>3 DEF OnChain
  <2>5. CellNow.need \in Nat
    BY <1>3 DEF Cell
  <2> QED
    BY <1>3, <2>4, <2>5 DEF Whole
<1> QED
  BY <1>2, <1>3, <1>4, <1>5, <1>6

LEMMA DecodeOwes ==
  ASSUME Ready, DecodeFails, NEW gone, NEW count \in Counts(image), NEW x,
         Spares(image, gone, count, lost', declined'), Accounted(x, gone, count)
  PROVE  Accounted(x, gone, count)'
<1> PICK d : d = PageCount + 1 - Len(stack)
  OBVIOUS
<1>1. /\ stack # <<>> /\ Top.at = "column" /\ image' = image /\ rows' = rows
      /\ todo' = todo /\ TypeOK /\ RowsStay
  BY DEF DecodeFails, At, Ready, input, RowsStay
<1>2. lost \subseteq lost'
  BY DEF DecodeFails, Fails
<1>3. ASSUME Owes(x, Top, d, image, gone, count) PROVE FALSE
  <2>1. Top.page \in Pages \ gone /\ CellNow.decode = "OK" /\ Whole
    BY <1>1, <1>2, <1>3, CellSpared
  <2>2. Top.page \notin lost'
    BY <2>1 DEF Spares
  <2> QED
    BY <2>1, <2>2 DEF DecodeFails, Fails
<1>4. Top \in Frame
  BY <1>1, TopLevel
<1>5. PICK code : Go("end", code) /\ code \in Codes
  <2>1. CASE Whole /\ CellNow.decode # "OK" /\ Go("end", CellNow.decode)
    <3>1. Top.page \in Pages /\ Top.i \in DOMAIN image[Top.page].cells
      BY <1>1, TopLevel DEF FrameOK, Active
    <3>2. CellNow \in Cell
      BY <1>1, <3>1, ImageFacts DEF CellNow
    <3> QED
      BY <2>1, <3>2 DEF Cell, Codes
  <2>2. CASE Go("end", "DAMAGED")
    BY <2>2 DEF Codes
  <2>3. CASE Go("end", "IOERR")
    BY <2>3 DEF Codes
  <2> QED
    BY <2>1, <2>2, <2>3 DEF DecodeFails
<1> DEFINE f == [Top EXCEPT !.at = "end", !.rc = code]
<1>6. f \in Frame /\ Become(f)
  BY <1>4, <1>5 DEF Frame, Places, Go
<1> HIDE DEF f
<1> QED
  BY <1>1, <1>3, <1>6, BecomeOwes

(* At its end a call owes nothing.                                         *)
LEMMA EndOwes ==
  ASSUME Ready, EndPage, NEW gone, NEW count \in Counts(image), NEW x,
         Spares(image, gone, count, lost, declined), Accounted(x, gone, count)
  PROVE  Accounted(x, gone, count)'
<1> PICK d : d = PageCount + 1 - Len(stack)
  OBVIOUS
<1>1. /\ stack # <<>> /\ Top.at = "end" /\ image' = image /\ rows' = rows
      /\ todo' = todo /\ TypeOK /\ Return(Top.rc)
  BY DEF EndPage, At, Ready, input
<1>2. ~ Owes(x, Top, d, image, gone, count)
  BY <1>1 DEF Owes, CellPlaces, OverflowPlaces
<1>3. Top.rc # "CANCELLED"
  <2>1. ASSUME Top.rc = "CANCELLED" PROVE FALSE
    <3>1. [page |-> Top.page, answer |-> "CANCELLED"] \in declined
      BY <1>1, <2>1, TopLevel DEF FrameOK
    <3> QED
      BY <3>1 DEF Spares
  <2> QED
    BY <2>1
<1> QED
  BY <1>1, <1>2, <1>3, ReturnOwes

(* A row is out; if the callback took it, the call goes on with the next   *)
(* cell, after the table that the row names.                               *)
LEMMA DeliverOwes ==
  ASSUME Ready, NEW answer \in Answers, Deliver(answer),
         NEW gone, NEW count \in Counts(image), NEW x,
         Spares(image, gone, count, lost', declined'), Accounted(x, gone, count)
  PROVE  Accounted(x, gone, count)'
<1> PICK d : d = PageCount + 1 - Len(stack)
  OBVIOUS
<1> PICK e : e = d - 1
  OBVIOUS
<1>1. /\ stack # <<>> /\ Top.at = "column" /\ image' = image /\ todo' = todo /\ TypeOK
      /\ FramesOK /\ [Next]_vars
  BY DEF Deliver, At, Ready, input, Next, Step
<1>2. RowsStay
  BY <1>1, RowsStayOut DEF RowsStay
<1>3. Top \in Frame /\ d \in 0 .. PageCount /\ FrameOK(Top, image, declined)
      /\ image \in ImageType
  BY <1>1, TopLevel
<1>4. /\ Top.page \in Pages /\ Top.i \in DOMAIN image[Top.page].cells /\ CellNow \in Cell
      /\ Top.i \in Nat \ {0} /\ answer \in Codes /\ d # 0
  BY <1>1, <1>3, ImageFacts, BtreeParseAssumption, TopLevel DEF FrameOK, Active, CellNow, Frame
<1>5. HasRow(rows', Top.page, Top.i)
  <2> DEFINE r == [page |-> Top.page, i |-> Top.i, whole |-> Whole]
  <2>1. r \in RowRec /\ rows' = Append(rows, r) /\ r.page = Top.page /\ r.i = Top.i
    BY <1>4 DEF Deliver, RowRec, Whole
  <2> HIDE DEF r
  <2>2. rows \in Seq(RowRec)
    BY <1>1 DEF TypeOK, RowRec
  <2> QED
    BY <2>1, <2>2, RowsGrow
<1> DEFINE goOn(place) == [Top EXCEPT !.at = place, !.rc = answer, !.i = @ + 1]
           next == goOn(IF answer = "OK" THEN "cell" ELSE "end")
           c == Call(CellNow.root, SubtreeType(CellNow))
<1>6. PICK j \in Nat \ {0} : j = Top.i + 1
  BY <1>4
<1>7. \A place \in {"cell", "end", "subtree"} :
        /\ goOn(place) \in Frame /\ goOn(place).page = Top.page
        /\ goOn(place).at = place /\ goOn(place).rc = answer
        /\ goOn(place).i = j /\ goOn(place).btree = Top.btree
  BY <1>3, <1>4, <1>6 DEF Frame, Places
<1>8. next = goOn("cell") \/ next = goOn("end")
  OBVIOUS
<1>9. next \in Frame
  BY <1>7, <1>8
<1>10. /\ c \in Frame /\ c.page = CellNow.root /\ c.btree = SubtreeType(CellNow)
       /\ c.at = "begin"
  <2>1. CellNow.root \in Int /\ SubtreeType(CellNow) \in Btrees
    BY <1>4 DEF Cell, SubtreeType, Btrees
  <2> QED
    BY <2>1, CallIsFrame DEF Call
<1>11. \/ BecomeAndCall(goOn("subtree"), c)
       \/ Become(next)
  BY DEF Deliver
<1>12. Become(next) => \/ OpensSubtree(answer) => ~ Opens(CellNow.root)
                       \/ CellNow.root \in lost'
                       \/ BecomeAndCall(goOn("subtree"), c)
  BY DEF Deliver, Fails
<1>13. answer = "OK" => next = goOn("cell")
  OBVIOUS
<1>14. answer # "OK" => [page |-> Top.page, answer |-> answer] \in declined'
  BY DEF Deliver
<1>15. lost \subseteq lost'
  BY DEF Deliver, Fails
<1> HIDE DEF goOn, next, c
<1>16. ASSUME Owes(x, Top, d, image, gone, count)
       PROVE  /\ answer = "OK" /\ Top.page \in Pages \ gone /\ Top.btree # "system"
              /\ image[Top.page].kind = "leafTable"
              /\ \/ HasRow(rows', x.page, x.i)
                 \/ /\ Top.btree = "master" /\ Leads(CellNow)
                    /\ x \in Under(image, gone, count, e, CellNow.root,
                                   RootType(CellNow.root))
                 \/ \E k \in 1 .. count[Top.page] :
                      j <= k /\ CellHas(x, image, gone, count, d, Top.page, Top.btree, k)
  <2>1. /\ Top.page \in Pages \ gone /\ Top.btree # "system"
        /\ image[Top.page].kind = "leafTable"
        /\ \A a \in declined' : a.page # Top.page
    BY <1>1, <1>15, <1>16, CellSpared
  <2>2. PICK k \in 1 .. count[Top.page] :
          Top.i <= k /\ CellHas(x, image, gone, count, d, Top.page, Top.btree, k)
    BY <1>1, <1>15, <1>16, CellSpared
  <2>3. answer = "OK"
    BY <1>14, <2>1
  <2>4. CASE k = Top.i
    <3>1. CASE x = [page |-> Top.page, i |-> k]
      BY <1>5, <2>1, <2>3, <2>4, <3>1
    <3>2. CASE /\ Top.btree = "master" /\ Leads(CellNow)
               /\ x \in Under(image, gone, count, e, CellNow.root, RootType(CellNow.root))
      BY <2>1, <2>3, <3>2
    <3> QED
      BY <2>2, <2>4, <3>1, <3>2 DEF CellHas, CellNow
  <2>5. CASE k # Top.i
    <3>1. j <= k
      BY <1>4, <1>6, <2>2, <2>5
    <3> QED
      BY <2>1, <2>2, <2>3, <3>1
  <2> QED
    BY <2>4, <2>5
<1>17. ASSUME Owes(x, Top, d, image, gone, count),
              \E k \in 1 .. count[Top.page] :
                j <= k /\ CellHas(x, image, gone, count, d, Top.page, Top.btree, k)
       PROVE  /\ Owes(x, goOn("cell"), d, image, gone, count)
              /\ Owes(x, goOn("subtree"), d, image, gone, count)
  <2>1. \A g \in Frame :
          /\ g.page = Top.page /\ g.btree = Top.btree /\ g.i = j
          /\ g.at \in {"cell", "subtree"} /\ g.rc = "OK"
          => Owes(x, g, d, image, gone, count)
    <3>1. answer = "OK" /\ Top.page \in Pages \ gone /\ Top.btree # "system"
          /\ image[Top.page].kind = "leafTable"
      BY <1>16, <1>17
    <3> QED
      BY <1>17, <3>1 DEF Owes, CellPlaces
  <2>2. answer = "OK"
    BY <1>16, <1>17
  <2> QED
    BY <1>7, <2>1, <2>2
<1>18. ASSUME Owes(x, Top, d, image, gone, count), Top.btree = "master", Leads(CellNow),
              x \in Under(image, gone, count, e, CellNow.root, RootType(CellNow.root))
       PROVE  /\ Owes(x, c, e, image, gone, count)
              /\ OpensSubtree(answer) /\ Opens(CellNow.root) /\ CellNow.root \notin lost'
  <2>1. e \in 0 .. PageCount
    BY <1>3, <1>4, PageCountAssumption
  <2>2. CellNow.root \in Int /\ RootType(CellNow.root) \in {"master", "user"}
    BY <1>4 DEF Cell, RootType
  <2>3. PageHas(x, image, gone, count, e, CellNow.root, RootType(CellNow.root))
    BY <1>3, <1>18, <2>1, <2>2, UnderIs
  <2>4. /\ CellNow.root \in Pages \ gone
        /\ image[CellNow.root].kind \in {"interiorTable", "leafTable"}
    BY <2>3 DEF PageHas
  <2>5. Opens(CellNow.root)
    BY <2>4 DEF Opens, BtreeKinds, InteriorKinds
  <2>6. CellNow.root \notin lost'
    BY <2>4 DEF Spares
  <2>7. answer = "OK"
    BY <1>16, <1>18
  <2>8. OpensSubtree(answer)
    BY <1>18, <2>7 DEF OpensSubtree, Leads
  <2>9. c.btree = RootType(CellNow.root)
    BY <1>10, <1>18 DEF SubtreeType, RootType, Leads
  <2>10. Owes(x, c, e, image, gone, count)
    BY <1>10, <1>18, <2>2, <2>4, <2>9 DEF Owes
  <2> QED
    BY <2>5, <2>6, <2>8, <2>10
<1>19. CASE BecomeAndCall(goOn("subtree"), c)
  <2>1. Owes(x, Top, d, image, gone, count) =>
          \/ Owes(x, goOn("subtree"), d, image, gone, count)
          \/ Owes(x, c, e, image, gone, count) \/ HasRow(rows', x.page, x.i)
    BY <1>16, <1>17, <1>18
  <2>2. goOn("subtree") \in Frame
    BY <1>7
  <2>3. PICK f \in Frame : f = goOn("subtree")
    BY <2>2
  <2> QED
    BY <1>1, <1>2, <1>10, <1>19, <2>1, <2>3, CallOwes
<1>20. CASE Become(next) /\ ~ BecomeAndCall(goOn("subtree"), c)
  <2>1. Owes(x, Top, d, image, gone, count) =>
          Owes(x, next, d, image, gone, count) \/ HasRow(rows', x.page, x.i)
    BY <1>12, <1>13, <1>16, <1>17, <1>18, <1>20
  <2> QED
    BY <1>1, <1>2, <1>9, <1>20, <2>1, BecomeOwes
<1> QED
  BY <1>11, <1>19, <1>20

-----------------------------------------------------------------------------
(* A tree that is still requested has not been entered.                    *)

(* Whose mark a step changes.                                              *)
LEMMA StatusStep ==
  ASSUME TypeOK, FramesOK, [Next]_vars, NEW p \in Pages
  PROVE  \/ status'[p] = status[p]
         \/ /\ stack # <<>>
            /\ \/ p = Top.page
               \/ Top.at \in OverflowPlaces /\ p = Top.next
               \/ Top.at = "column" /\ p \in Top.chain
<1>1. CASE SkipPage \/ OpenFails \/ OpenBtree \/ AcquireFails \/ AcquirePage
           \/ ParseChild \/ CellFails \/ ParseCell \/ DecodeFails \/ Finished
           \/ UNCHANGED vars
  BY <1>1 DEF SkipPage, OpenFails, OpenBtree, AcquireFails, AcquirePage,
     ParseChild, CellFails, ParseCell, DecodeFails, Finished, vars
<1>2. CASE BeginPage
  BY <1>2 DEF BeginPage, At, SetStatus
<1>3. CASE OverflowBegin
  BY <1>3 DEF OverflowBegin, At, SetStatus, OverflowPlaces
<1>4. CASE OverflowFails \/ OverflowRead
  BY <1>4 DEF OverflowFails, OverflowRead, At, SetStatus, OverflowPlaces
<1>5. CASE \E answer \in Answers : Deliver(answer)
  <2>1. /\ stack # <<>> /\ Top.at = "column"
        /\ status' = status \/ SetStatus({Top.page} \cup Top.chain, "discarded")
    BY <1>5 DEF Deliver, At
  <2> QED
    BY <2>1 DEF SetStatus
<1>6. CASE EndPage
  BY <1>6 DEF EndPage, At, SetStatus
<1> QED
  BY <1>1, <1>2, <1>3, <1>4, <1>5, <1>6 DEF Next, Step, Traverse

LEMMA BecomeTop ==
  ASSUME TypeOK, stack # <<>>, NEW f \in Frame, Become(f)
  PROVE  stack'[Len(stack')] = f
<1>1. Len(stack') = Len(stack) /\ stack'[Len(stack)] = f
  BY BecomeFacts DEF TypeOK
<1> QED
  BY <1>1

LEMMA GoTop ==
  ASSUME TypeOK, FramesOK, stack # <<>>, NEW place \in Places, NEW code \in Codes,
         Go(place, code)
  PROVE  stack'[Len(stack')].at = place /\ stack'[Len(stack')].chain = Top.chain
<1> DEFINE f == [Top EXCEPT !.at = place, !.rc = code]
<1>1. Top \in Frame
  BY TopFacts
<1>2. f \in Frame /\ Become(f) /\ f.at = place /\ f.chain = Top.chain
  BY <1>1 DEF Frame, Go
<1> HIDE DEF f
<1> QED
  BY <1>2, BecomeTop

(* A call collects the overflow pages it visits; none is a b-tree page.    *)
LEMMA ChainsOffStep ==
  ASSUME TypeOK, FramesOK, FramesTell, ChainsOff, [Next]_vars
  PROVE  ChainsOff'
<1>1. image' = image /\ TypeOK' /\ FramesOK'
  BY ImageStays, TypeStep
<1> SUFFICES ASSUME ChainsApart(image), NEW n \in DOMAIN stack',
                    stack'[n].at \in OverflowPlaces \cup {"column"}
             PROVE  ChainOff(stack'[n], image)
  BY <1>1 DEF ChainsOff, ChainOff
<1>2. n = Len(stack')
  <2>1. Len(stack') \in Nat /\ DOMAIN stack' = 1 .. Len(stack')
    BY <1>1, LenProperties DEF TypeOK
  <2>2. \A k \in 1 .. Len(stack') - 1 : stack'[k].at \in {"child", "subtree"}
    BY <1>1 DEF FramesOK
  <2>3. n \notin 1 .. Len(stack') - 1
    BY <2>2 DEF OverflowPlaces
  <2> QED
    BY <2>1, <2>3
<1> DEFINE f == stack'[Len(stack')]
<1>3. f.at \in OverflowPlaces \cup {"column"}
  BY <1>2
<1>4. ASSUME stack # <<>>, Top.at \in OverflowPlaces \cup {"column"}
      PROVE  \A p \in Top.chain : ~ IsBtree(image, p)
  <2>1. Len(stack) \in DOMAIN stack /\ Top = stack[Len(stack)]
    BY <1>4, TopFacts
  <2> QED
    BY <1>4, <2>1 DEF ChainsOff, ChainOff
<1> HIDE DEF f
<1>5. \A place : place \in {"acquire", "end", "child", "cell"} =>
         place \in Places /\ place \notin OverflowPlaces \cup {"column"}
  BY DEF Places, OverflowPlaces
<1>6. CASE SkipPage \/ OpenFails \/ UNCHANGED vars
  <2>1. stack' = stack
    BY <1>6 DEF SkipPage, OpenFails, vars
  <2> QED
    BY <2>1 DEF ChainsOff
<1>7. CASE OpenBtree
  <2>1. f.at = "begin"
    <3>1. \E p, b : stack' = <<Call(p, b)>>
      BY <1>7 DEF OpenBtree
    <3>2. PICK p, b : stack' = <<Call(p, b)>>
      BY <3>1
    <3> QED
      BY <3>2 DEF f, Call
  <2> QED
    BY <1>3, <2>1 DEF OverflowPlaces
<1>8. CASE (BeginPage /\ ~ Return("MISUSE")) \/ AcquireFails \/ AcquirePage \/ CellFails
  <2>1. stack # <<>>
    BY <1>8 DEF BeginPage, AcquireFails, AcquirePage, CellFails, At
  <2>2. PICK place \in {"acquire", "end", "child", "cell"}, code \in Codes : Go(place, code)
    BY <1>8 DEF BeginPage, AcquireFails, AcquirePage, CellFails, Codes
  <2>3. f.at = place
    BY <1>5, <2>1, <2>2, GoTop DEF f
  <2> QED
    BY <1>3, <1>5, <2>2, <2>3
<1>9. ASSUME stack # <<>>, NEW result, Return(result) PROVE ChainOff(stack'[n], image)
  <2>1. /\ stack' \in Seq(Frame) /\ Len(stack') = Len(stack) - 1
        /\ Len(stack) \in Nat \ {0}
        /\ \A k \in 1 .. Len(stack) - 1 :
             \/ stack'[k] = stack[k]
             \/ stack'[k] = Moved(stack[k], "end") \/ stack'[k] = Moved(stack[k], "cell")
    BY <1>9, ReturnFacts DEF TypeOK
  <2>2. n \in 1 .. Len(stack) - 1 /\ n \in DOMAIN stack
    BY <2>1, LenProperties DEF TypeOK
  <2>3. stack[n].at \in {"child", "subtree"} /\ stack[n] \in Frame
    BY <2>2, ElementOfSeq DEF FramesOK, TypeOK
  <2>4. stack'[n].at \in {"child", "subtree", "end", "cell"}
    BY <2>1, <2>2, <2>3 DEF Moved, Frame
  <2> QED
    BY <2>4 DEF OverflowPlaces
<1>10. CASE (BeginPage /\ Return("MISUSE")) \/ EndPage
  BY <1>9, <1>10 DEF BeginPage, EndPage, At
<1>11. ASSUME stack # <<>>, NEW g \in Frame, NEW c \in Frame, BecomeAndCall(g, c),
              c.at = "begin"
       PROVE  FALSE
  <2>1. Len(stack') = Len(stack) + 1 /\ stack'[Len(stack) + 1] = c
    BY <1>11, CallFacts DEF TypeOK
  <2>2. f.at = "begin"
    BY <1>11, <2>1 DEF f
  <2> QED
    BY <1>3, <2>2 DEF OverflowPlaces
<1>12. CASE ParseChild
  <2>1. CASE Go("end", "OK")
    <3>1. f.at = "end"
      BY <1>5, <1>12, <2>1, GoTop DEF f, ParseChild, At, Codes
    <3> QED
      BY <1>3, <1>5, <3>1
  <2>2. CASE ~ Go("end", "OK")
    <3>1. Proceeds \/ \E g, c \in Frame : CallsChild(g, c)
      BY <1>12, ChildStep
    <3>2. PICK h, p : BecomeAndCall(h, Call(p, Top.btree))
                      /\ h = [Top EXCEPT !.i = @ + 1]
                      /\ p = ChildPointers(image, Top.page)[Top.i]
                      /\ Top.i \in Nat \ {0} /\ Top.i <= Len(ChildPointers(image, Top.page))
      <4>1. Top \in Frame /\ stack # <<>> /\ Top.at = "child" /\ Top.page \in Pages
        BY <1>12, TopFacts DEF ParseChild, At, FrameOK, Active
      <4>2. Len(ChildPointers(image, Top.page)) \in Nat /\ Top.i \in Nat \ {0}
        BY <4>1, ImageFacts, LenProperties DEF Frame
      <4> QED
        BY <1>12, <2>2, <4>2 DEF ParseChild
    <3>3. Top \in Frame /\ stack # <<>> /\ Top.page \in Pages
      BY <1>12, TopFacts DEF ParseChild, At, FrameOK, Active
    <3>4. h \in Frame
      BY <3>2, <3>3 DEF Frame
    <3>5. p \in Int
      <4>1. ChildPointers(image, Top.page) \in Seq(Int)
        BY <3>3, ImageFacts
      <4>2. Top.i \in 1 .. Len(ChildPointers(image, Top.page))
        BY <3>2, <4>1, LenProperties
      <4> QED
        BY <3>2, <4>1, <4>2, ElementOfSeq
    <3>6. Call(p, Top.btree) \in Frame /\ Call(p, Top.btree).at = "begin"
      BY <3>3, <3>5, CallIsFrame DEF Frame
    <3> QED
      BY <1>11, <3>2, <3>3, <3>4, <3>6
  <2> QED
    BY <2>1, <2>2
<1>13. CASE ParseCell
  <2>1. stack # <<>> /\ Top.at = "cell"
    BY <1>13 DEF ParseCell, At
  <2>2. Top \in Frame /\ Top.page \in Pages
    BY <2>1, TopFacts DEF FrameOK, Active
  <2>3. CASE Top.i > Len(image[Top.page].cells)
    <3>1. f.at = "end"
      BY <1>5, <1>13, <2>1, <2>3, GoTop DEF f, ParseCell, Codes
    <3> QED
      BY <1>3, <1>5, <3>1
  <2>4. CASE ~ (Top.i > Len(image[Top.page].cells))
    <3> DEFINE place == IF CellNow.need > 0 THEN "overflow" ELSE "column"
               g == [Top EXCEPT !.at = place, !.next = CellNow.chain,
                                !.got = 0, !.chain = {}]
    <3>1. Become(g)
      BY <1>13, <2>4 DEF ParseCell
    <3>2. CellNow.chain \in Int
      <4>1. /\ image[Top.page].cells \in Seq(Cell) /\ Len(image[Top.page].cells) \in Nat
            /\ Top.i \in Nat \ {0}
        BY <2>2, ImageFacts, LenProperties DEF Frame
      <4>2. Top.i \in DOMAIN image[Top.page].cells
        BY <2>4, <4>1
      <4> QED
        BY <2>2, <4>2, ImageFacts DEF CellNow, Cell
    <3>3. place \in Places
      BY DEF Places
    <3> HIDE DEF place
    <3>4. g \in Frame /\ g.chain = {}
      BY <2>2, <3>2, <3>3 DEF Frame
    <3> HIDE DEF g
    <3>5. f = g
      BY <2>1, <3>1, <3>4, BecomeTop DEF f
    <3> QED
      BY <1>2, <3>4, <3>5 DEF ChainOff, f
  <2> QED
    BY <2>3, <2>4
<1>14. CASE OverflowBegin \/ OverflowFails \/ OverflowRead
  <2>1. stack # <<>> /\ Top.at \in OverflowPlaces
    BY <1>14 DEF OverflowBegin, OverflowFails, OverflowRead, At, OverflowPlaces
  <2>2. Top \in Frame /\ FrameOK(Top, image, declined) /\ FrameTells(Top, image, rows, lost)
    BY <2>1, TopFacts, TopTells
  <2>3. ~ IsBtree(image, Top.next)
    BY <2>1, <2>2 DEF FrameTells
  <2>4. f.chain \subseteq Top.chain \cup {Top.next}
    <3>1. CASE Go("column", "OK")
      <4>1. f.chain = Top.chain
        BY <2>1, <3>1, GoTop DEF f, Places, Codes
      <4> QED
        BY <4>1
    <3>2. CASE OverflowBegin /\ Top.next \in Pages
      <4> DEFINE g == [Top EXCEPT !.at = "overflowRead", !.chain = @ \cup {Top.next}]
      <4>1. Become(g) /\ g \in Frame /\ g.chain = Top.chain \cup {Top.next}
        BY <2>2, <3>2 DEF OverflowBegin, Frame, Places
      <4> HIDE DEF g
      <4> QED
        BY <2>1, <4>1, BecomeTop DEF f
    <3>3. CASE OverflowRead
      <4> DEFINE got == IF Top.got < CellNow.need THEN Top.got + 1 ELSE Top.got
                 g == [Top EXCEPT !.at = "overflow", !.got = got,
                                  !.next = image[Top.next].link]
      <4>1. got \in Nat
        BY <2>2 DEF Frame
      <4>2. Top.next \in Pages
        BY <2>2, <3>3 DEF OverflowRead, At, FrameOK
      <4>3. image[Top.next].link \in Int
        BY <4>2, ImageFacts
      <4>4. Become(g)
        BY <3>3 DEF OverflowRead
      <4> HIDE DEF got
      <4>5. g \in Frame /\ g.chain = Top.chain
        BY <2>2, <4>1, <4>3 DEF Frame, Places
      <4> HIDE DEF g
      <4> QED
        BY <2>1, <4>4, <4>5, BecomeTop DEF f
    <3> QED
      BY <1>14, <3>1, <3>2, <3>3 DEF OverflowBegin, OverflowFails
  <2> QED
    BY <1>2, <1>4, <2>1, <2>3, <2>4 DEF ChainOff, f
<1>15. CASE DecodeFails
  <2>1. stack # <<>> /\ Top.at = "column"
    BY <1>15 DEF DecodeFails, At
  <2>2. PICK code \in Codes : Go("end", code)
    <3>1. Top.page \in Pages /\ Top.i \in DOMAIN image[Top.page].cells
      BY <2>1, TopFacts DEF FrameOK, Active
    <3>2. CellNow.decode \in Codes
      BY <3>1, ImageFacts DEF CellNow, Cell, Codes
    <3> QED
      BY <1>15, <3>2 DEF DecodeFails, Codes
  <2>3. f.at = "end"
    BY <1>5, <2>1, <2>2, GoTop DEF f
  <2> QED
    BY <1>3, <1>5, <2>3
<1>16. ASSUME NEW answer \in Answers, Deliver(answer) PROVE ChainOff(stack'[n], image)
  <2>1. PICK g \in Frame :
          /\ AfterRow(g)
          /\ \/ Become(g) /\ g.at \in {"cell", "end"}
             \/ \E c \in Frame : CallsTree(g, c)
    BY <1>16, RowStep
  <2>2. stack # <<>>
    BY <2>1 DEF AfterRow
  <2>3. CASE Become(g) /\ g.at \in {"cell", "end"}
    <3>1. f = g
      BY <2>2, <2>3, BecomeTop DEF f
    <3> QED
      BY <1>3, <1>5, <2>3, <3>1
  <2>4. ASSUME NEW c \in Frame, CallsTree(g, c) PROVE FALSE
    <3>1. BecomeAndCall(g, c) /\ c.at = "begin"
      BY <2>4 DEF CallsTree, Call
    <3> QED
      BY <1>11, <2>2, <3>1
  <2> QED
    BY <2>1, <2>3, <2>4
<1> QED
  BY <1>6, <1>7, <1>8, <1>10, <1>12, <1>13, <1>14, <1>15, <1>16
     DEF Next, Step, Traverse, Finished

(* The first call stays at its page, and the request waits for it.         *)
LEMMA FirstPage ==
  ASSUME TypeOK, FramesOK, [Next]_vars, stack # <<>>
  PROVE  /\ todo' = todo
         /\ stack' # <<>> => stack'[1].page = stack[1].page
<1>1. Len(stack) \in Nat \ {0} /\ stack \in Seq(Frame) /\ Top = stack[Len(stack)]
  BY TopFacts
<1>2. ~ (TakesRequest \/ OpenBtree)
  BY DEF TakesRequest, SkipPage, OpenFails, OpenBtree, NextRequest
<1>3. ASSUME NEW f \in Frame, f.page = Top.page,
             Become(f) \/ \E c \in Frame : BecomeAndCall(f, c)
      PROVE  stack'[1].page = stack[1].page
  <2>1. /\ stack'[Len(stack)] = f
        /\ \A n \in 1 .. Len(stack) - 1 : stack'[n] = stack[n]
    <3>1. CASE Become(f)
      BY <1>1, <3>1, BecomeFacts
    <3>2. CASE \E c \in Frame : BecomeAndCall(f, c)
      BY <1>1, <3>2, CallFacts
    <3> QED
      BY <1>3, <3>1, <3>2
  <2>2. CASE Len(stack) = 1
    BY <1>1, <1>3, <2>1, <2>2
  <2>3. CASE Len(stack) # 1
    <3>1. 1 \in 1 .. Len(stack) - 1
      BY <1>1, <2>3
    <3> QED
      BY <2>1, <3>1
  <2> QED
    BY <2>2, <2>3
<1>4. ASSUME Returns, stack' # <<>> PROVE stack'[1].page = stack[1].page
  <2>1. PICK result : Return(result)
    BY <1>4 DEF Returns
  <2>2. /\ stack' \in Seq(Frame) /\ Len(stack') = Len(stack) - 1
        /\ \A n \in 1 .. Len(stack) - 1 :
             \/ stack'[n] = stack[n]
             \/ stack'[n] = Moved(stack[n], "end") \/ stack'[n] = Moved(stack[n], "cell")
    BY <1>1, <2>1, ReturnFacts
  <2>3. 1 \in 1 .. Len(stack) - 1
    <3>1. Len(stack') # 0
      BY <1>4, <2>2, EmptySeq
    <3> QED
      BY <1>1, <2>2, <3>1
  <2>4. stack[1] \in Frame
    BY <1>1, <2>3, ElementOfSeq
  <2> QED
    BY <2>2, <2>3, <2>4 DEF Moved, Frame
<1>5. CASE QuietStep
  BY <1>2, <1>3, <1>4, <1>5 DEF QuietStep, Proceeds, GoesOn, CallsChild
<1>6. CASE todo' = todo /\ \E answer \in Answers : Deliver(answer)
  <2>1. PICK answer \in Answers : Deliver(answer)
    BY <1>6
  <2>2. PICK g \in Frame :
          /\ AfterRow(g)
          /\ \/ Become(g) /\ g.at \in {"cell", "end"}
             \/ \E c \in Frame : CallsTree(g, c)
    BY <2>1, RowStep
  <2> QED
    BY <1>3, <1>6, <2>2 DEF AfterRow, CallsTree
<1> QED
  BY <1>5, <1>6, StepIs

(* On a forest no page is requested twice.                                 *)
LEMMA RequestsDiffer ==
  ASSUME Forest, NEW j \in DOMAIN requested, NEW k \in DOMAIN requested, j # k,
         requested[j] \in Pages
  PROVE  requested[j] # requested[k]
<1> DEFINE r == [from |-> <<0, "request", j>>, to |-> requested[j]]
           s == [from |-> <<0, "request", k>>, to |-> requested[k]]
<1>1. r \in References(image, requested) /\ s \in References(image, requested)
  BY DEF References, RequestReferences
<1>2. r # s
  <2>1. r.from[3] = j /\ s.from[3] = k
    OBVIOUS
  <2> QED
    BY <2>1
<1>3. r.to = requested[j] /\ s.to = requested[k]
  OBVIOUS
<1>4. \A x, y \in References(image, requested) : x.to \in Pages /\ x.to = y.to => x = y
  BY DEF Forest, Sound, IsForest
<1> HIDE DEF r, s
<1> QED
  BY <1>1, <1>2, <1>3, <1>4

(* No call on the stack is at a page that is still requested.              *)
LEMMA StackIsApart ==
  ASSUME TypeOK, FramesOK, Shape, Forest, Untouched,
         NEW k \in DOMAIN todo, IsBtree(image, todo[k]), NEW n \in DOMAIN stack
  PROVE  stack[n].page # todo[k]
<1>1. /\ stack \in Seq(Frame) /\ Len(stack) \in Nat /\ DOMAIN stack = 1 .. Len(stack)
      /\ requested \in Seq(Int) /\ todo \in Seq(Int) /\ image \in ImageType
  BY LenProperties DEF TypeOK
<1>2. CASE n = 1
  <2>1. stack # <<>>
    BY <1>2
  <2> QED
    BY <1>2, <2>1 DEF Untouched
<1>3. ASSUME n # 1, stack[n].page = todo[k] PROVE FALSE
  <2>1. n - 1 \in 1 .. Len(stack) - 1 /\ n - 1 \in DOMAIN stack
    BY <1>1, <1>3
  <2>2. PICK p : p = stack[n - 1].page
    OBVIOUS
  <2>3. p \in Pages
    BY <2>1, <2>2 DEF FramesOK, FrameOK, Active
  <2>4. todo[k] \in Pages
    BY DEF IsBtree
  <2>5. PICK r \in References(image, requested) : r.from[1] = p /\ r.to = todo[k]
    BY <1>3, <2>2, <2>4 DEF Shape, CallersLead, LeadsTo
  <2>6. PICK j \in DOMAIN requested : requested[j] = todo[k]
    <3>1. IsEndOf(todo, requested)
      BY DEF Shape
    <3>2. /\ k \in 1 .. Len(todo) /\ Len(todo) \in Nat /\ Len(requested) \in Nat
          /\ DOMAIN requested = 1 .. Len(requested) /\ Len(todo) <= Len(requested)
      BY <1>1, <3>1, LenProperties DEF IsEndOf
    <3>3. Len(requested) - Len(todo) + k \in DOMAIN requested
      BY <3>2
    <3> QED
      BY <3>1, <3>2, <3>3 DEF IsEndOf
  <2>7. PICK s \in References(image, requested) : s.from[1] = 0 /\ s.to = todo[k]
    BY <1>1, <2>4, <2>6, ReferencesAre DEF LeadsTo
  <2>8. r = s
    <3>1. \A x, y \in References(image, requested) : x.to \in Pages /\ x.to = y.to => x = y
      BY DEF Forest, Sound, IsForest
    <3> QED
      BY <2>4, <2>5, <2>7, <3>1
  <2> QED
    BY <2>3, <2>5, <2>7, <2>8 DEF Pages
<1> QED
  BY <1>2, <1>3

LEMMA UntouchedStep ==
  ASSUME TypeOK, FramesOK, FramesTell, Shape, ChainsOff, Untouched, [Next]_vars
  PROVE  Untouched'
<1>1. image' = image /\ requested' = requested
  BY ImageStays
<1> SUFFICES ASSUME Forest, NEW k \in DOMAIN todo', IsBtree(image, todo'[k])
             PROVE  /\ status'[todo'[k]] = "unchecked"
                    /\ stack' # <<>> => stack'[1].page # todo'[k]
  BY <1>1 DEF Untouched, Forest
<1>2. todo'[k] \in Pages
  BY DEF IsBtree
<1>3. CASE stack # <<>>
  <2>1. /\ todo' = todo
        /\ stack' # <<>> => stack'[1].page = stack[1].page
    BY <1>3, FirstPage
  <2>2. status[todo[k]] = "unchecked" /\ stack[1].page # todo[k]
    BY <1>3, <2>1 DEF Untouched
  <2>3. Len(stack) \in DOMAIN stack /\ Top = stack[Len(stack)]
    BY <1>3, TopFacts
  <2>4. todo[k] # Top.page
    BY <2>1, <2>3, StackIsApart
  <2>5. Top.at \in OverflowPlaces => todo[k] # Top.next
    BY <2>1, <2>3 DEF FramesTell, FrameTells, Forest, Sound, IsForest
  <2>6. Top.at = "column" => todo[k] \notin Top.chain
    BY <2>1, <2>3 DEF ChainsOff, ChainOff, Forest, Sound, IsForest
  <2>7. status'[todo[k]] = status[todo[k]]
    BY <1>2, <2>1, <2>4, <2>5, <2>6, StatusStep
  <2> QED
    BY <2>1, <2>2, <2>7
<1>4. CASE stack = <<>> /\ todo' = todo /\ stack' = stack /\ status' = status
  BY <1>4 DEF Untouched
<1>5. CASE SkipPage \/ OpenFails \/ OpenBtree
  <2>1. stack = <<>> /\ todo # <<>> /\ todo' = Tail(todo) /\ status' = status
    BY <1>5 DEF SkipPage, OpenFails, OpenBtree, NextRequest
  <2>2. todo \in Seq(Int) /\ Len(todo) \in Nat \ {0} /\ Len(requested) \in Nat
        /\ DOMAIN requested = 1 .. Len(requested) /\ DOMAIN todo = 1 .. Len(todo)
        /\ Len(todo) <= Len(requested)
    BY <2>1, NextRequested, LenProperties DEF TypeOK
  <2>3. k \in 1 .. Len(todo) - 1 /\ todo'[k] = todo[k + 1] /\ k + 1 \in DOMAIN todo
        /\ Head(todo) = todo[1]
    BY <2>1, <2>2, HeadTailProperties
  <2>4. status[todo'[k]] = "unchecked"
    BY <2>3 DEF Untouched
  <2>5. Head(todo) # todo'[k]
    <3>1. PICK m \in Nat : m = Len(requested) - Len(todo)
      <4>1. Len(requested) - Len(todo) \in Nat
        BY <2>2
      <4> QED
        BY <4>1
    <3>2. /\ m + 1 \in DOMAIN requested /\ Head(todo) = requested[m + 1]
      BY <2>1, <3>1, NextRequested
    <3>3. todo[k + 1] = requested[m + (k + 1)]
      BY <2>2, <2>3, <3>1 DEF Shape, IsEndOf
    <3>4. PICK j \in DOMAIN requested : j = m + (k + 1) /\ j # m + 1
      BY <2>2, <2>3, <3>1
    <3>5. requested[j] = todo'[k] /\ requested[j] \in Pages
      BY <1>2, <2>3, <3>3, <3>4
    <3> QED
      BY <3>2, <3>4, <3>5, RequestsDiffer
  <2>6. CASE OpenBtree
    <3>1. stack'[1].page = Head(todo)
      BY <2>6 DEF OpenBtree, Call
    <3> QED
      BY <2>1, <2>4, <2>5, <3>1
  <2>7. CASE SkipPage \/ OpenFails
    <3>1. stack' = <<>>
      BY <2>1, <2>7 DEF SkipPage, OpenFails
    <3> QED
      BY <2>1, <2>4, <3>1
  <2> QED
    BY <1>5, <2>6, <2>7
<1>6. CASE stack = <<>> /\ ~ (SkipPage \/ OpenFails \/ OpenBtree)
  <2>1. UNCHANGED vars
    BY <1>6 DEF Next, Step, Traverse, Finished, BeginPage, AcquireFails, AcquirePage,
       ParseChild, CellFails, ParseCell, OverflowBegin, OverflowFails, OverflowRead,
       DecodeFails, Deliver, EndPage, At
  <2> QED
    BY <1>4, <1>6, <2>1 DEF vars
<1> QED
  BY <1>3, <1>5, <1>6

(* A page of the request is opened unless nothing is owed under it.        *)
LEMMA RequestOwes ==
  ASSUME Ready, Untouched, SkipPage \/ OpenFails \/ OpenBtree,
         NEW gone, NEW count \in Counts(image), NEW x,
         Spares(image, gone, count, lost', declined'), Accounted(x, gone, count)
  PROVE  Accounted(x, gone, count)'
<1>1. /\ stack = <<>> /\ todo # <<>> /\ todo' = Tail(todo) /\ image' = image
      /\ rows' = rows /\ TypeOK /\ image \in ImageType
  BY DEF SkipPage, OpenFails, OpenBtree, NextRequest, input, Ready, TypeOK
<1>2. /\ todo \in Seq(Int) /\ Len(todo) \in Nat \ {0} /\ DOMAIN todo = 1 .. Len(todo)
      /\ Head(todo) = todo[1] /\ todo' \in Seq(Int) /\ Len(todo') = Len(todo) - 1
      /\ \A k \in 1 .. Len(todo) - 1 : todo'[k] = todo[k + 1]
  BY <1>1, HeadTailProperties, EmptySeq, LenProperties DEF TypeOK
<1>3. CASE HasRow(rows, x.page, x.i)
  BY <1>1, <1>3 DEF Accounted
<1>4. ASSUME NEW k \in DOMAIN todo,
             x \in Under(image, gone, count, PageCount, todo[k], RootType(todo[k]))
      PROVE  Accounted(x, gone, count)'
  <2>1. CASE k # 1
    <3>1. PICK j \in 1 .. Len(todo) - 1 : k = j + 1
      <4>1. k - 1 \in 1 .. Len(todo) - 1 /\ k = (k - 1) + 1
        BY <1>2, <2>1
      <4> QED
        BY <4>1
    <3>2. j \in DOMAIN todo' /\ todo'[j] = todo[k]
      BY <1>2, <3>1, LenProperties
    <3> QED
      BY <1>1, <1>4, <3>2 DEF Accounted
  <2>2. CASE k = 1
    <3> DEFINE p == Head(todo)
    <3>1. p \in Int /\ RootType(p) \in {"master", "user"} /\ PageCount \in 0 .. PageCount
      BY <1>1, <1>2, ElementOfSeq, PageCountAssumption DEF RootType
    <3>2. x \in Under(image, gone, count, PageCount, p, RootType(p))
      BY <1>2, <1>4, <2>2
    <3>3. PageHas(x, image, gone, count, PageCount, p, RootType(p))
      BY <1>1, <3>1, <3>2, UnderIs
    <3>4. p \in Pages \ gone /\ IsBtree(image, p) /\ image[p].kind \in BtreeKinds
      BY <3>3 DEF PageHas, IsBtree, BtreeKinds, InteriorKinds
    <3>5. GetStatus(p) = "unchecked" /\ Opens(p) /\ p \notin lost'
      <4>1. status[p] = "unchecked"
        BY <1>2, <2>2, <3>4 DEF Ready, Sane, Untouched
      <4> QED
        BY <3>4, <4>1 DEF GetStatus, Opens, Spares
    <3>6. OpenBtree
      BY <3>5 DEF SkipPage, OpenFails, Fails
    <3>7. stack' = <<Call(p, RootType(p))>>
      BY <3>6 DEF OpenBtree, RootType
    <3> HIDE DEF p
    <3> DEFINE c == Call(p, RootType(p))
    <3>8. c.page = p /\ c.btree = RootType(p) /\ c.at = "begin"
      BY DEF Call
    <3> HIDE DEF c
    <3>9. Owes(x, c, PageCount, image, gone, count)
      BY <3>1, <3>2, <3>4, <3>8 DEF Owes
    <3>10. PICK l : l = PageCount + 1 - 1 /\ l = PageCount
      BY PageCountAssumption
    <3>11. 1 \in DOMAIN stack' /\ stack'[1] = c
      BY <3>7 DEF c
    <3>12. Owes(x, stack'[1], PageCount + 1 - 1, image', gone, count)
      BY <1>1, <3>9, <3>10, <3>11
    <3> QED
      BY <3>11, <3>12 DEF Accounted
  <2> QED
    BY <2>1, <2>2
<1>5. DOMAIN stack = {}
  BY <1>1
<1> QED
  BY <1>3, <1>4, <1>5 DEF Accounted

-----------------------------------------------------------------------------
(* The accounts hold.                                                      *)

DamageInv == /\ TypeOK /\ FramesOK /\ Shape /\ FramesTell /\ CheckingAccounted
             /\ ChainsOff /\ Untouched /\ RowsAccounted

LEMMA LossStays ==
  ASSUME [Next]_vars
  PROVE  lost \subseteq lost' /\ declined \subseteq declined'
<1>1. CASE \E answer \in Answers : Deliver(answer)
  BY <1>1 DEF Deliver, Fails
<1>2. CASE Traverse \/ Finished \/ UNCHANGED vars
  BY <1>2 DEF Traverse, Finished, vars, SkipPage, OpenFails, OpenBtree,
     BeginPage, AcquireFails, AcquirePage, ParseChild, CellFails, ParseCell,
     OverflowBegin, OverflowFails, OverflowRead, DecodeFails, EndPage, Fails
<1> QED
  BY <1>1, <1>2 DEF Next, Step

LEMMA AccountedStep ==
  ASSUME TypeOK, FramesOK, Shape, FramesTell, CheckingAccounted, Untouched,
         RowsAccounted, [Next]_vars
  PROVE  RowsAccounted'
<1>1. image' = image /\ requested' = requested
  BY ImageStays
<1> SUFFICES ASSUME Sane, NEW gone \in SUBSET Pages, NEW count \in Counts(image),
                    Spares(image, gone, count, lost', declined'),
                    NEW x \in ToSet(Walk(image, requested, gone, count))
             PROVE  Accounted(x, gone, count)'
  BY <1>1 DEF RowsAccounted, Sane, Forest
<1>2. lost \subseteq lost' /\ declined \subseteq declined'
  BY LossStays
<1>3. Spares(image, gone, count, lost, declined)
  BY <1>2 DEF Spares
<1>4. Accounted(x, gone, count) /\ Ready
  BY <1>3 DEF RowsAccounted, Ready
<1>5. CASE SkipPage \/ OpenFails \/ OpenBtree
  BY <1>4, <1>5, RequestOwes
<1>6. CASE BeginPage
  BY <1>3, <1>4, <1>6, BeginOwes
<1>7. CASE AcquireFails \/ CellFails
  BY <1>4, <1>7, LostOwes
<1>8. CASE AcquirePage
  BY <1>4, <1>8, AcquireOwes
<1>9. CASE ParseChild
  BY <1>4, <1>9, ChildOwes
<1>10. CASE ParseCell
  BY <1>4, <1>10, CellOwes
<1>11. CASE OverflowBegin \/ OverflowFails \/ OverflowRead
  BY <1>4, <1>11, OverflowOwes
<1>12. CASE DecodeFails
  BY <1>4, <1>12, DecodeOwes
<1>13. CASE \E answer \in Answers : Deliver(answer)
  BY <1>4, <1>13, DeliverOwes
<1>14. CASE EndPage
  BY <1>3, <1>4, <1>14, EndOwes
<1>15. CASE UNCHANGED vars
  BY <1>4, <1>15 DEF vars, input, Accounted
<1> QED
  BY <1>5, <1>6, <1>7, <1>8, <1>9, <1>10, <1>11, <1>12, <1>13, <1>14, <1>15
     DEF Next, Step, Traverse, Finished

LEMMA InitDamage == Init => DamageInv
<1> SUFFICES ASSUME Init PROVE DamageInv
  OBVIOUS
<1>1. /\ TypeOK /\ FramesOK /\ CheckingAccounted /\ Shape /\ stack = <<>>
      /\ todo = requested /\ status = [p \in Pages |-> "unchecked"]
      /\ image \in ImageType /\ requested \in Seq(Int)
  BY InitialState, InitShape DEF Init, TypeOK
<1>2. FramesTell /\ ChainsOff
  BY <1>1 DEF FramesTell, ChainsOff
<1>3. Untouched
  BY <1>1 DEF Untouched, IsBtree
<1>4. RowsAccounted
  <2> SUFFICES ASSUME NEW gone, NEW count \in Counts(image),
                      NEW x \in ToSet(Walk(image, requested, gone, count))
               PROVE  Accounted(x, gone, count)
    BY DEF RowsAccounted
  <2> QED
    BY <1>1, WalkUnder DEF Accounted
<1> QED
  BY <1>1, <1>2, <1>3, <1>4 DEF DamageInv

(* The cells that no damage keeps from the callback can be counted on.     *)
LEMMA SureCellsSpared ==
  ASSUME TypeOK, \A a \in declined : a.answer # "CANCELLED"
  PROVE  SureCells \in Counts(image) /\ Spares(image, lost, SureCells, lost, declined)
<1> DEFINE sound(p, k) == /\ image[p].cells[k].decode = "OK"
                          /\ ChainReadable(image[p].cells[k])
           n(p) == Len(image[p].cells)
           sure(p, m) == /\ m \in 0 .. n(p) /\ \A k \in 1 .. m : sound(p, k)
                         /\ m < n(p) => ~ sound(p, m + 1)
           left(p) == \E a \in Codes : [page |-> p, answer |-> a] \in declined
<1>1. SureCells = [p \in Pages |-> IF left(p) THEN 0 ELSE CHOOSE m : sure(p, m)]
  BY DEF SureCells
<1>2. ASSUME NEW p \in Pages PROVE \E m : sure(p, m)
  <2>1. n(p) \in Nat
    BY <1>2, ImageFacts, LenProperties
  <2> DEFINE S == {m \in 0 .. n(p) : m < n(p) => ~ sound(p, m + 1)}
  <2>2. S \in SUBSET Nat /\ n(p) \in S
    BY <2>1
  <2> HIDE DEF sound
  <2>3. PICK m \in S : \A l \in S : m <= l
    <3> HIDE DEF S
    <3> QED
      BY <2>2, LeastOne
  <2>4. ASSUME NEW k \in 1 .. m, ~ sound(p, k) PROVE FALSE
    <3>1. PICK l \in 0 .. n(p) : k = l + 1 /\ l < m
      <4>1. k - 1 \in 0 .. n(p) /\ k = (k - 1) + 1 /\ k - 1 < m
        BY <2>1, <2>3
      <4> QED
        BY <4>1
    <3>2. l \in S
      BY <2>4, <3>1
    <3>3. m \in Nat /\ l \in Nat
      BY <2>2, <2>3, <3>1
    <3> QED
      BY <2>3, <3>1, <3>2, <3>3
  <2> QED
    BY <2>3, <2>4
<1>3. \A p \in Pages : ~ left(p) => sure(p, SureCells[p])
  <2> HIDE DEF sure, left
  <2> QED
    BY <1>1, <1>2
<1>4. \A p \in Pages : left(p) => SureCells[p] = 0
  BY <1>1
<1>5. \A p \in Pages : n(p) \in Nat
  BY ImageFacts, LenProperties
<1>6. SureCells \in Counts(image)
  <2>1. \A p \in Pages : SureCells[p] \in Nat /\ SureCells[p] <= n(p)
    <3> HIDE DEF sound, left
    <3> QED
      BY <1>3, <1>4, <1>5
  <2>2. SureCells \in [Pages -> Nat]
    <3> HIDE DEF left, sure
    <3> QED
      BY <1>1, <2>1
  <2> QED
    BY <2>1, <2>2 DEF Counts
<1>7. ASSUME NEW p \in Pages, NEW k \in 1 .. SureCells[p]
      PROVE  /\ \A a \in declined : a.page # p
             /\ image[p].cells[k].decode = "OK"
             /\ ChainWithout(image[p].cells[k], image, lost)
  <2>1. ~ left(p)
    <3> HIDE DEF left
    <3> QED
      BY <1>4, <1>7
  <2>2. sound(p, k)
    <3> HIDE DEF sound, left
    <3> QED
      BY <1>3, <1>7, <2>1
  <2>3. \A a \in declined : a.page # p
    <3>1. ASSUME NEW a \in declined, a.page = p PROVE FALSE
      <4>1. a \in [page : Pages, answer : Codes]
        BY DEF TypeOK
      <4>2. a = [page |-> p, answer |-> a.answer] /\ a.answer \in Codes
        BY <3>1, <4>1
      <4> QED
        BY <2>1, <4>2
    <3> QED
      BY <3>1
  <2> QED
    BY <2>2, <2>3 DEF ChainReadable, ChainWithout
<1> HIDE DEF sound, left, sure, n
<1> QED
  BY <1>6, <1>7 DEF Spares

LEMMA AccountsClosed ==
  ASSUME DamageInv
  PROVE  DamageIsLocal
<1> SUFFICES ASSUME Done, Sane, \A a \in declined : a.answer # "CANCELLED",
                    NEW x \in ToSet(Walk(image, requested, lost, SureCells))
             PROVE  x \in ToSet(Delivered)
  BY DEF DamageIsLocal, Sane
<1>1. TypeOK /\ lost \in SUBSET Pages /\ image \in ImageType /\ requested \in Seq(Int)
  BY DEF DamageInv, TypeOK
<1>2. SureCells \in Counts(image) /\ Spares(image, lost, SureCells, lost, declined)
  BY <1>1, SureCellsSpared
<1>3. Accounted(x, lost, SureCells)
  BY <1>1, <1>2 DEF DamageInv, RowsAccounted
<1>4. DOMAIN stack = {} /\ DOMAIN todo = {}
  BY DEF Done
<1>5. PICK n \in DOMAIN rows : rows[n].page = x.page /\ rows[n].i = x.i
  BY <1>3, <1>4 DEF Accounted, HasRow
<1>6. x \in RowId
  BY <1>1, <1>2, WalkUnder
<1>7. x = [page |-> rows[n].page, i |-> rows[n].i]
  BY <1>5, <1>6 DEF RowId
<1> QED
  BY <1>7 DEF Delivered, ToSet

(* On every forest of pages whose interior pages have cells, whatever      *)
(* fails: when the parsing ends and was not cancelled, every row is out    *)
(* that is in a readable leaf under readable ancestors, before the first   *)
(* bad cell of that leaf.  sqliterkBtreeParsePage gives up a page for its  *)
(* own damage alone.                                                       *)
THEOREM DamageStaysLocal == Spec => []DamageIsLocal
<1>1. Init => DamageInv
  BY InitDamage
<1>2. DamageInv /\ [Next]_vars => DamageInv'
  BY TypeStep, ShapeStep, TellsStep, AccountStep, ChainsOffStep, UntouchedStep,
     AccountedStep DEF DamageInv
<1>3. DamageInv => DamageIsLocal
  BY AccountsClosed
<1> QED
  BY <1>1, <1>2, <1>3, PTL DEF Spec
=============================================================================
