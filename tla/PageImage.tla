------------------------------ MODULE PageImage ------------------------------
(***************************************************************************)
(* The damaged database file as the parser of RepairKit sees it: one       *)
(* record per page, holding the numbers that decide what the parser does   *)
(* next.  Bytes, varints and column values are abstracted to the outcome   *)
(* of decoding them; page numbers are kept because following them is what  *)
(* the traversal is about.                                                 *)
(***************************************************************************)
EXTENDS Integers, Sequences

CONSTANT PageCount  \* pager->pagecount: pages of the file

ASSUME PageCountAssumption == PageCount \in Nat \ {0}

Pages == 1 .. PageCount

(* A page number that no page of the file has.  It is what the parser gets *)
(* when it reads four bytes that are not a page number, such as bytes 8-11 *)
(* of page 1, which spell "orma" (part of "SQLite format 3").              *)
Garbage == PageCount + 1

(* The result codes that the traversal tells apart.  IOERR stands for the  *)
(* failures that are reported as neither DAMAGED nor CANCELLED: an I/O     *)
(* error, a short read, a page that does not decrypt, no memory.           *)
Codes == {"OK", "MISUSE", "IOERR", "DAMAGED", "DISCARD", "CANCELLED"}

InteriorKinds == {"interiorTable", "interiorIndex"}
BtreeKinds    == InteriorKinds \cup {"leafTable", "leafIndex"}
Kinds         == BtreeKinds \cup {"other"}

(* A cell of a table leaf.  Its payload needs `need` overflow pages, the   *)
(* first one being `chain`; `decode` is the outcome of decoding the record *)
(* when its whole payload has been read.  In sqlite_master the record      *)
(* names a root page (0 when type or name is NULL), and `sys` says whether *)
(* the name begins like that of a system table.                            *)
Cell == [chain : Int, need : Nat, decode : {"OK", "MISUSE", "DAMAGED"},
         root : Int, sys : BOOLEAN]

(* A page.  `kids` are the left-child pointers of its cells and `right`    *)
(* the right-most pointer of an interior page; `stray` is the number found *)
(* where the low half of an interior index page's right-most pointer,      *)
(* taken for a cell offset, leads; `link` is its first four bytes, the     *)
(* next-page pointer when the page is used as an overflow page.            *)
Page == [kind : Kinds, kids : Seq(Int), right : Int, stray : Int,
         cells : Seq(Cell), link : Int]

ImageType == [Pages -> Page]

IsBtree(img, p) == p \in Pages /\ img[p].kind \in BtreeKinds

(* The pages that the file format says an interior page points to.         *)
FileChildren(img, p) == img[p].kids \o <<img[p].right>>

(* Mutant: the right-most pointer is taken for the first child.            *)
MutChildPointers(img, p) ==
  IF img[p].kind = "interiorTable" THEN <<img[p].right>> \o img[p].kids
  ELSE <<>>

(* The pages that sqliterkBtreeParsePage collects in pagenos.  The         *)
(* right-most pointer is read at offset 8 of the page, which is inside the *)
(* database header on page 1; on an interior index page the cell pointer   *)
(* array is taken to start 4 bytes early, at the right-most pointer.       *)
ChildPointers(img, p) ==
  IF img[p].kind = "interiorTable"
  THEN img[p].kids \o <<IF p = 1 THEN Garbage ELSE img[p].right>>
  ELSE SubSeq(<<Garbage, img[p].stray>> \o img[p].kids, 1, Len(img[p].kids))

(* The number of cells that the page header states.                        *)
CellsCount(img, p) ==
  Len(IF img[p].kind \in InteriorKinds THEN img[p].kids ELSE img[p].cells)

-----------------------------------------------------------------------------
(* No overflow chain enters a page of a b-tree: neither the first page of  *)
(* a chain nor a page linked from a non-b-tree page is a b-tree page.      *)
ChainsApart(img) ==
  /\ \A p \in Pages : img[p].kind = "leafTable" =>
       \A k \in DOMAIN img[p].cells : ~ IsBtree(img, img[p].cells[k].chain)
  /\ \A p \in Pages : ~ IsBtree(img, p) => ~ IsBtree(img, img[p].link)

(* Following the links of non-b-tree pages always leaves them: no set of   *)
(* them is closed under link.                                              *)
ChainsEnd(img) ==
  \A S \in SUBSET {p \in Pages : ~ IsBtree(img, p)} :
    S # {} => \E p \in S : img[p].link \notin S
=============================================================================
