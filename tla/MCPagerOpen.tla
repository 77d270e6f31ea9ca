---------------------------- MODULE MCPagerOpen ----------------------------
(***************************************************************************)
(* Files and configurations for the runs of the pager.                     *)
(***************************************************************************)
EXTENDS PagerOpen

Plain == [size |-> 3072, hi |-> 2, lo |-> 0, resv |-> 0, free |-> 1,
          magic |-> TRUE, enc |-> 0, salt |-> TRUE]

(* Page sizes of 512, 1024, 32768 and 65536 bytes and no such size;        *)
(* reserved sizes that do and do not fit into a signed byte; free page     *)
(* counts in and out of range; truncated files; a damaged first page.      *)
PlainDisks ==
  {[Plain EXCEPT !.size = n, !.hi = b[1], !.lo = b[2], !.resv = r, !.free = f,
                 !.magic = m] :
     n \in {0, 99, 100, 1025, 3072, 8192},
     b \in {<<2, 0>>, <<4, 0>>, <<128, 0>>, <<0, 1>>, <<3, 232>>},
     r \in {0, 48, 200}, f \in {-1, 0, 1, 90}, m \in BOOLEAN}

EncryptedDisks ==
  {[Plain EXCEPT !.size = n, !.hi = 4, !.resv = r, !.free = f, !.magic = m,
                 !.enc = 1024, !.salt = s] :
     n \in {0, 1000, 3072}, r \in {0, 48}, f \in {1, 90}, m \in BOOLEAN,
     s \in BOOLEAN}

AllDisks == PlainDisks \cup EncryptedDisks

AllConfs ==
  {[kind |-> "none", size |-> 0, salt |-> FALSE]}
    \cup [kind : {"force"}, size : {512, 4096, 65536}, salt : {FALSE}]
    \cup [kind : {"cipher"}, size : {0, 1024}, salt : BOOLEAN]
=============================================================================
