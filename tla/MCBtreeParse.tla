----------------------------- MODULE MCBtreeParse -----------------------------
(***************************************************************************)
(* File images and requests for the runs of the page traversal.            *)
(***************************************************************************)
EXTENDS RowOrder

Plain         == [chain |-> 0, need |-> 0, decode |-> "OK", root |-> 0,
                  sys |-> FALSE]
Long(p, n)    == [Plain EXCEPT !.chain = p, !.need = n]
Bad           == [Plain EXCEPT !.decode = "DAMAGED"]
Empty         == [Plain EXCEPT !.decode = "MISUSE"]
Table(p)      == [Plain EXCEPT !.root = p]
SystemTable(p) == [Table(p) EXCEPT !.sys = TRUE]

Blank           == [kind |-> "other", kids |-> <<>>, right |-> 0, stray |-> 0,
                    cells |-> <<>>, link |-> 0]
Leaf(cells)     == [Blank EXCEPT !.kind = "leafTable", !.cells = cells]
Node(kids, r)   == [Blank EXCEPT !.kind = "interiorTable", !.kids = kids,
                                 !.right = r]
IndexNode(kids, r, s) == [Node(kids, r) EXCEPT !.kind = "interiorIndex",
                                               !.stray = s]
IndexLeaf       == [Blank EXCEPT !.kind = "leafIndex", !.cells = <<Plain>>]
Overflow(p)     == [Blank EXCEPT !.link = p]

(* sqliterkParse: every page in turn.                                      *)
ParseAll == [i \in Pages |-> i]

(* Every image of three pages, each page a small leaf, a node with two     *)
(* children, an overflow page or an index leaf, in every way of naming one *)
(* another: shared leaves, cycles, chains through b-tree pages.            *)
SmallPages ==
  {Leaf(<<Plain>>), Leaf(<<Plain, Bad>>), IndexLeaf}
    \cup {Leaf(<<Long(p, 1), Plain>>) : p \in Pages}
    \cup {Node(<<p>>, q) : p \in Pages, q \in Pages}
    \cup {Overflow(p) : p \in 0 .. PageCount}

SmallImages   == [Pages -> SmallPages]
SmallRequests == {ParseAll, <<3, 1>>}

(* A database of ten pages in good order: sqlite_master in page 1, a      *)
(* table of three levels at 2 with a row of two overflow pages, an index   *)
(* at 8 and a second table at 9.                                           *)
Database ==
  << Leaf(<<Table(2), Table(8), Table(9)>>),
     Node(<<3>>, 4),
     Leaf(<<Plain, Plain>>),
     Node(<<5>>, 6),
     Leaf(<<Long(7, 2)>>),
     Leaf(<<Plain, Bad, Plain>>),
     Overflow(10),
     IndexLeaf,
     Leaf(<<Plain>>),
     Overflow(0) >>

DatabaseImages   == {Database}
DatabaseRequests == {<<1, 2, 8, 9>>}

(* Recursive mode: a sqlite_master whose rows name sound roots, each other,*)
(* page 1 itself, a system table or nothing at all, in one page or two;    *)
(* the other pages of the file are blank.                                  *)
SmallMasters ==
  LET roots == 0 .. 3
      master == {Leaf(<<Table(p), Table(q)>>) : p \in roots, q \in roots}
                  \cup {Leaf(<<SystemTable(p), Table(2)>>) : p \in roots}
                  \cup {Node(<<2>>, 3)}
      second == {Leaf(<<Table(p)>>) : p \in roots}
                  \cup {Node(<<p>>, q) : p \in 1 .. 3, q \in 1 .. 3}
      third  == {Leaf(<<Plain>>), IndexNode(<<1, 2, 2>>, 1, 2)}
  IN {<<m, s, t>> \o [p \in 1 .. PageCount - 3 |-> Blank] :
        m \in master, s \in second, t \in third}

(* A sound sqlite_master with a table that has an overflow page, a system  *)
(* table, another table and a row that names no page.                      *)
Recovered ==
  << Leaf(<<Table(2), SystemTable(4), Table(5), Table(0)>>),
     Leaf(<<Plain, Long(3, 1)>>),
     Overflow(0),
     Leaf(<<Plain>>),
     Leaf(<<Plain>>) >>

MasterImages    == SmallMasters \cup {Recovered}
MasterRequests  == {ParseAll, <<1>>}
MasterFirst     == {<<1>>}

(* A sqlite_master of two leaves.                                          *)
WideMasterImages == {<<Node(<<2>>, 3), Leaf(<<Plain>>), Leaf(<<Plain>>)>>}
=============================================================================
