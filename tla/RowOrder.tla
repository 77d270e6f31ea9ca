------------------------------- MODULE RowOrder -------------------------------
(***************************************************************************)
(* What the traversal of BtreeParse is for: the rows of an intact or        *)
(* partly damaged tree, each once and in key order.  The reference is the   *)
(* in-order walk of the tree as the file format defines it, not as the      *)
(* parser reads it.                                                         *)
(***************************************************************************)
EXTENDS BtreeParse, SequencesExt

(* A row of sqlite_master is followed, in recursive mode, by the rows of   *)
(* the table it names, unless that is a system table.                      *)
Leads(c)    == Recursive /\ c.root # 0 /\ ~ c.sys
RootType(p) == IF p = 1 THEN "master" ELSE "user"

(* What page p of a b-tree of type b adds up from, with its first count[p] *)
(* cells if it is a leaf; sub has the rows of the trees below it.          *)
Parts(img, count, sub, p, b) ==
  CASE img[p].kind = "interiorTable" ->
         [k \in DOMAIN FileChildren(img, p) |-> sub[<<FileChildren(img, p)[k], b>>]]
    [] img[p].kind = "leafTable" ->
         [k \in 1 .. count[p] |->
            LET c == img[p].cells[k] IN
            <<[page |-> p, i |-> k]>> \o
              IF b = "master" /\ Leads(c) THEN sub[<<c.root, RootType(c.root)>>]
              ELSE <<>>]
    [] OTHER -> <<>>

(* The rows of img under each page, in order, without the pages `gone`:    *)
(* of trees of at most d levels.                                           *)
Walks(img, gone, count) ==
  LET w[d \in 0 .. PageCount] ==
        [x \in Int \X {"master", "user"} |->
           IF d = 0 \/ x[1] \notin Pages \ gone THEN <<>>
           ELSE FlattenSeq(Parts(img, count, w[d - 1], x[1], x[2]))]
  IN w

(* The rows under the given roots.                                         *)
Walk(img, roots, gone, count) ==
  LET rowsUnder == Walks(img, gone, count)[PageCount]
  IN FlattenSeq([k \in DOMAIN roots |-> rowsUnder[<<roots[k], RootType(roots[k])>>]])

(* Every place of the file, and of the request, that names a page.         *)
ChildReferences(img, p) ==
  {[from |-> <<p, "child", k>>, to |-> FileChildren(img, p)[k]] :
     k \in DOMAIN FileChildren(img, p)}
ChainReferences(img, p) ==
  {[from |-> <<p, "cell", k>>, to |-> img[p].cells[k].chain] :
     k \in DOMAIN img[p].cells}
RootReferences(img, p) ==
  {[from |-> <<p, "root", k>>, to |-> img[p].cells[k].root] :
     k \in {k \in DOMAIN img[p].cells : Recursive}}
LinkReferences(img) ==
  {[from |-> <<p, "link", 0>>, to |-> img[p].link] : p \in {p \in Pages : ~ IsBtree(img, p)}}
RequestReferences(req) ==
  {[from |-> <<0, "request", k>>, to |-> req[k]] : k \in DOMAIN req}

OfKind(img, kinds) == {p \in Pages : img[p].kind \in kinds}

References(img, req) ==
  (UNION {ChildReferences(img, p) : p \in OfKind(img, InteriorKinds)})
    \cup (UNION {ChainReferences(img, p) : p \in OfKind(img, {"leafTable"})})
    \cup (UNION {RootReferences(img, p) : p \in OfKind(img, {"leafTable"})})
    \cup LinkReferences(img) \cup RequestReferences(req)

(* Each page is named at most once, and index pages lead to index pages.   *)
IsForest(img, req) ==
  /\ ChainsApart(img)
  /\ \A r, s \in References(img, req) :
       r.to \in Pages /\ r.to = s.to => r = s
  /\ \A p \in Pages : img[p].kind = "interiorIndex" =>
       /\ img[p].stray \notin Pages
       /\ \A k \in DOMAIN FileChildren(img, p) :
            FileChildren(img, p)[k] \in Pages =>
              img[FileChildren(img, p)[k]].kind
                \in {"interiorIndex", "leafIndex", "other"}

Sound  == {x \in Images \X Requests : IsForest(x[1], x[2])}
Forest == <<image, requested>> \in Sound

AllCells(img) == [p \in Pages |-> Len(img[p].cells)]

Delivered == [n \in DOMAIN rows |-> [page |-> rows[n].page, i |-> rows[n].i]]

(* s is a subsequence of t, for sequences without repetitions.             *)
IsSubsequence(s, t) ==
  /\ ToSet(s) \subseteq ToSet(t)
  /\ \A m, n \in DOMAIN s : m < n =>
       \E i, j \in DOMAIN t : i < j /\ t[i] = s[m] /\ t[j] = s[n]

(* The overflow pages that the cell needs can be reached and read.         *)
IsChainOf(s, c, img) ==
  /\ c.need > 0 => s[1] = c.chain
  /\ \A k \in 1 .. c.need - 1 : s[k + 1] = img[s[k]].link

ChainReadable(c) ==
  \E s \in [1 .. c.need -> Pages \ lost] : IsChainOf(s, c, image)

(* How many leading cells of leaf p no damage can keep from the callback:  *)
(* the parser gives up the rest of a leaf at its first bad cell, and at    *)
(* the first row that the callback declines.                               *)
SureCells ==
  [p \in Pages |->
    IF \E a \in Codes : [page |-> p, answer |-> a] \in declined THEN 0
    ELSE LET sound(k) == /\ image[p].cells[k].decode = "OK"
                         /\ ChainReadable(image[p].cells[k])
         IN CHOOSE m \in 0 .. Len(image[p].cells) :
              /\ \A k \in 1 .. m : sound(k)
              /\ m < Len(image[p].cells) => ~ sound(m + 1)]

-----------------------------------------------------------------------------
(* On a forest, whatever fails and whatever the callback answers, the      *)
(* callback sees genuine rows only, none twice, in key order: the rows     *)
(* delivered are a subsequence of the in-order walk of the trees.          *)
RowsInOrder ==
  Forest =>
    IsSubsequence(Delivered, Walk(image, requested, {}, AllCells(image)))

(* Interior table pages have a cell, as the file format has it: the parser *)
(* takes one with a right child alone for damaged.                         *)
Filled(img) == \A p \in OfKind(img, {"interiorTable"}) : img[p].kids # <<>>

(* Damage is local.  At the end every row is out that is in a leaf whose   *)
(* ancestors can be read, before the first bad cell of that leaf: damage   *)
(* elsewhere, in sibling leaves or in other trees, costs it nothing.       *)
(* (A cancelled parse, a sqlite_master of several pages, and interior      *)
(* pages without a cell are apart.)                                        *)
DamageIsLocal ==
  /\ Done /\ Forest /\ Filled(image)
  /\ image[1].kind # "interiorTable"
  /\ \A d \in declined : d.answer # "CANCELLED"
  => ToSet(Walk(image, requested, lost, SureCells)) \subseteq ToSet(Delivered)

(* A row whose overflow pages were all in place is never delivered with a  *)
(* tail of zeros: only a break of its own chain can do that.               *)
TailsAreTrue ==
  \A n \in DOMAIN rows :
    ChainReadable(image[rows[n].page].cells[rows[n].i]) => rows[n].whole

(* What makes TailsAreTrue and CheckedLeafIsComplete inductive.  A call     *)
(* that reads cells has passed the earlier ones on; one that ends well has *)
(* passed all; and while an overflow chain can be followed, the call is at *)
(* the page where the payload goes on.                                     *)
HasRow(out, p, k) == \E n \in DOMAIN out : out[n].page = p /\ out[n].i = k

OverflowPlaces == {"overflow", "overflowRead"}
CellPlaces     == OverflowPlaces \cup {"cell", "column", "subtree"}

OnChain(f, c, img, gone) ==
  /\ f.got <= c.need
  /\ f.got < c.need =>
       \A s \in [1 .. c.need -> Pages \ gone] :
         IsChainOf(s, c, img) => f.at # "column" /\ f.next = s[f.got + 1]

FrameTells(f, img, out, gone) ==
  /\ f.at \in {"begin", "acquire"} => f.i = 1
  /\ NoSystemTables(img) => f.btree # "system"
  /\ f.at \in CellPlaces => \A k \in 1 .. f.i - 1 : HasRow(out, f.page, k)
  /\ /\ f.at = "end" /\ f.rc = "OK" /\ f.btree # "system"
     /\ img[f.page].kind = "leafTable"
     => \A k \in DOMAIN img[f.page].cells : HasRow(out, f.page, k)
  /\ f.at \in OverflowPlaces /\ ChainsApart(img) => ~ IsBtree(img, f.next)
  /\ f.at \in OverflowPlaces \cup {"column"}
       => OnChain(f, img[f.page].cells[f.i], img, gone)

FramesTell == \A n \in DOMAIN stack : FrameTells(stack[n], image, rows, lost)

(* btree.c: "recursively parse the page until it find the leaf page or any *)
(* error occur".  Without an error the parser finds every leaf.            *)
NoErrorLosesNoRow ==
  Done /\ Forest /\ lost = {} /\ declined = {}
    => ToSet(Walk(image, requested, {}, SureCells)) \subseteq ToSet(Delivered)

=============================================================================
