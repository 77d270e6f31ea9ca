------------------------------ MODULE PagerOpen ------------------------------
(***************************************************************************)
(* sqliterkPagerOpen: what the pager takes from the header of a file that  *)
(* may be damaged, truncated or encrypted, from the configuration and from *)
(* its defaults; what it allocates and gives back; and the pages that are  *)
(* read with these settings.  Decryption (SQLCipher, with HMAC) is         *)
(* external: a page is decoded with the right key, salt and page size.     *)
(***************************************************************************)
EXTENDS Integers, FiniteSets

CONSTANTS
  Disks,      \* the files
  Confs,      \* the configurations
  Default,    \* SQLITRK_CONFIG_DEFAULT_PAGESIZE
  CodecSize,  \* SQLCipher's default page size
  Reserve,    \* what it reserves of a page
  IntLimit,   \* an int is less than this
  MaxFaults   \* bound: failing allocations and system calls

(* A file: its size; the two bytes of the page size, the byte of the       *)
(* reserved size and the free page count of its header; whether the rest   *)
(* of page 1 and, when it is encrypted (with pages of enc bytes), its salt *)
(* are sound.                                                              *)
Disk == [size : Nat, hi : 0 .. 255, lo : 0 .. 255, resv : 0 .. 255, free : Int,
         magic : BOOLEAN, enc : Nat, salt : BOOLEAN]

(* Neither key nor page size; a page size without a key; a key, with a     *)
(* page size or 0 and, when salt, the salt of a backup.                    *)
Conf == [kind : {"none", "force", "cipher"}, size : Nat, salt : BOOLEAN]

ASSUME PagerAssumption ==
  /\ Disks \subseteq Disk /\ Confs \subseteq Conf
  /\ {Default, CodecSize, Reserve, IntLimit} \subseteq Nat \ {0}
  /\ Reserve < 512 /\ CodecSize >= 512 /\ Default >= 512
  /\ \A c \in Confs : c.size = 0 \/ c.size >= 512
  /\ MaxFaults \in Nat

VARIABLES
  at,      \* where sqliterkPagerOpen is, or "closed", or "opened"
  disk, conf,
  pager,   \* thePager
  blocks,  \* allocations that are held
  fds,     \* descriptors opened less descriptors closed
  active,  \* sqlcipher_activate() less sqlcipher_deactivate()
  page,    \* the last page read: its number, result and offset
  faults,
  pathless \* history: paths that could not be allocated

files     == <<fds, pathless>>
pagerVars == <<at, disk, conf, pager, blocks, active, page, faults, files>>

NoPager == [file |-> FALSE, codec |-> "none", status |-> FALSE, flags |-> {},
            pagesize |-> 0, reserved |-> 0, free |-> 0, count |-> 0,
            usable |-> 0]
NoPage  == [no |-> 0, rc |-> "none", offset |-> 0]

-----------------------------------------------------------------------------
(* sqliterkParseInt takes the first byte as signed.                        *)
Signed(b)     == IF b < 128 THEN b ELSE b - 256
SizeField(d)  == Signed(d.hi) * 256 + d.lo
ResvField(d)  == Signed(d.resv)

(* What the file format means by them.                                     *)
TrueSize(d) == IF d.hi = 0 /\ d.lo = 1 THEN 65536 ELSE d.hi * 256 + d.lo

PowersOfTwo == {2 ^ k : k \in 0 .. 16}

(* sqliterkOSRead, without a fault.                                        *)
ReadResult(d, offset, size) ==
  IF offset < 0 THEN "IOERR"
  ELSE IF offset + size > d.size THEN "SHORT_READ" ELSE "OK"

(* The codec's salt is that of the file or the one of the backup.          *)
Decodes(p, d, c) ==
  /\ d.enc = p.pagesize
  /\ IF p.codec = "file" THEN d.salt ELSE c.salt

Clear(p) == [p EXCEPT !.flags = @ \ {"HEADER"}]

(* The fields of a header whose magic is sound: a page size that is given, *)
(* or is the codec's, only has to agree.                                   *)
FieldsFixed(p, d) ==
  IF SizeField(d) # p.pagesize
  THEN Clear([p EXCEPT !.free = d.free]) ELSE [p EXCEPT !.free = d.free]

FieldsFree(p, d) ==
  IF SizeField(d) \notin PowersOfTwo \/ SizeField(d) < 512
  THEN Clear([p EXCEPT !.free = d.free, !.pagesize = Default])
  ELSE [p EXCEPT !.free = d.free, !.pagesize = SizeField(d)]

(* Mutant: a reserved size that the format does not have is not noticed.   *)
MutReserved(p, d) ==
  IF p.codec # "none" THEN p ELSE [p EXCEPT !.reserved = ResvField(d)]

Reserved(p, d) ==
  IF p.codec # "none"
  THEN IF ResvField(d) # p.reserved THEN Clear(p) ELSE p
  ELSE IF ResvField(d) < 0 THEN Clear([p EXCEPT !.reserved = 0])
                           ELSE [p EXCEPT !.reserved = ResvField(d)]

(* Page 1 has been read.                                                   *)
Header(p, d, c, force) ==
  LET q == [p EXCEPT !.flags = @ \cup {"HEADER"}]
  IN IF p.codec # "none" /\ ~ (d.magic /\ Decodes(p, d, c)) THEN Clear(p)
     ELSE IF p.codec = "none" /\ ~ (d.magic /\ d.enc = 0)
     THEN Clear([p EXCEPT !.pagesize = Default, !.reserved = 0, !.free = 0])
     ELSE Reserved(IF p.codec # "none" \/ force # 0
                   THEN FieldsFixed(q, d) ELSE FieldsFree(q, d), d)

Counted(p, d)   == [p EXCEPT !.count = (d.size + p.pagesize - 1) \div p.pagesize]
FreeChecked(p)  == IF p.free < 0 \/ p.free > p.count
                   THEN Clear([p EXCEPT !.free = 0]) ELSE p

(* Mutant: the usable size is not set.                                     *)
MutMeasured(p)  == p
Measured(p)     == [p EXCEPT !.usable = p.pagesize - p.reserved]

(* sqliterkPagerParseHeader: the results it may have, with a fault or      *)
(* without.                                                                *)
ParseHeader(p0, d, c, force, fault) ==
  LET p    == IF force # 0 THEN [p0 EXCEPT !.pagesize = force] ELSE p0
      read == ReadResult(d, 0, IF p.codec = "none" THEN 100 ELSE p.pagesize)
      q    == Header(p, d, c, force)
      r    == Counted(q, d)
  IN IF fault THEN {[pager |-> p, rc |-> "NOMEM"]}
                     \cup {[pager |-> Clear(p), rc |-> "IOERR"]}
                     \cup IF read = "OK" THEN {[pager |-> q, rc |-> "IOERR"]} ELSE {}
     ELSE IF read # "OK" THEN {[pager |-> Clear(p), rc |-> read]}
     ELSE IF r.count < 1 THEN {[pager |-> r, rc |-> "DAMAGED"]}
     ELSE {[pager |-> Measured(FreeChecked(r)), rc |-> "OK"]}

-----------------------------------------------------------------------------
Fault   == faults < MaxFaults /\ faults' = faults + 1
NoFault == UNCHANGED faults
Same    == UNCHANGED <<disk, conf, page>>

Alloc ==
  /\ at = "closed" /\ UNCHANGED <<disk, conf, pager, active, page, files>>
  /\ \/ at' = "open" /\ blocks' = blocks + 1 /\ NoFault
     \/ at' = "closed" /\ UNCHANGED blocks /\ Fault

(* sqliterkOSReadOnlyOpen: the record of the file, its path, the           *)
(* descriptor.  A failure ends in sqliterkOSClose, which closes what is not*)
(* negative: without a path the record is still zero, and so descriptor 0  *)
(* is closed, which was not opened here.                                   *)
OpenFile ==
  /\ at = "open" /\ Same /\ UNCHANGED active
  /\ \/ /\ at' = IF conf.kind = "cipher" THEN "cipher" ELSE "parse"
        /\ pager' = [pager EXCEPT !.file = TRUE]
        /\ blocks' = blocks + 2 /\ fds' = fds + 1
        /\ UNCHANGED pathless /\ NoFault
     \/ \E what \in {"record", "path", "descriptor"} :
          /\ at' = "failed" /\ UNCHANGED <<pager, blocks>> /\ Fault
          /\ IF what = "path" THEN fds' = fds - 1 /\ pathless' = pathless + 1
             ELSE UNCHANGED files

(* sqliterkCryptoSetCipher.                                                *)
WithCodec(p, c, salt) ==
  [p EXCEPT !.codec = salt, !.reserved = Reserve,
            !.pagesize = IF c.size > 0 THEN c.size ELSE CodecSize]

(* Mutant: the codec of the first attempt is not freed.                    *)
MutSetCipher(here, next, salt) ==
  /\ at = here /\ Same /\ UNCHANGED files
  /\ \/ /\ at' = next /\ pager' = WithCodec(pager, conf, salt)
        /\ active' = active + 1 /\ blocks' = blocks + 1 /\ NoFault
     \/ at' = "failed" /\ UNCHANGED <<pager, blocks, active>> /\ Fault

SetCipher(here, next, salt) ==
  LET more == IF pager.codec = "none" THEN 1 ELSE 0
  IN /\ at = here /\ Same /\ UNCHANGED files
     /\ \/ /\ at' = next /\ pager' = WithCodec(pager, conf, salt)
           /\ active' = active + more /\ blocks' = blocks + more /\ NoFault
        \/ at' = "failed" /\ UNCHANGED <<pager, blocks, active>> /\ Fault

(* The salt is marked correct where the header was read with the file's.   *)
(* Mutant: or with that of the backup.                                     *)
MutSalted(p, rc) ==
  IF "HEADER" \in p.flags THEN [p EXCEPT !.flags = @ \cup {"KDF_SALT"}] ELSE p

Salted(p, rc) ==
  IF "HEADER" \in p.flags /\ (at = "parseFirst" \/ (at = "parse" /\ rc = "OK"))
  THEN [p EXCEPT !.flags = @ \cup {"KDF_SALT"}] ELSE p

(* The result of the first attempt is ignored.                             *)
ParseHeaders ==
  /\ at \in {"parse", "parseFirst", "parseAgain"}
  /\ Same /\ UNCHANGED <<blocks, active, files>>
  /\ \E fault \in BOOLEAN :
       /\ IF fault THEN Fault ELSE NoFault
       /\ \E r \in ParseHeader(pager, disk, conf,
                     IF conf.kind = "force" THEN conf.size ELSE 0, fault) :
            /\ pager' = Salted(r.pager, r.rc)
            /\ at' = IF at # "parseFirst"
                     THEN IF r.rc = "OK" THEN "status" ELSE "failed"
                     ELSE IF "HEADER" \notin r.pager.flags /\ conf.salt
                     THEN "cipherAgain" ELSE "status"

Status ==
  /\ at = "status" /\ Same /\ UNCHANGED <<active, files>>
  /\ \/ /\ at' = "opened" /\ pager' = [pager EXCEPT !.status = TRUE]
        /\ blocks' = blocks + 1 /\ NoFault
     \/ at' = "failed" /\ UNCHANGED <<pager, blocks>> /\ Fault

(* sqliterkPagerClose, which also ends a failed attempt.                   *)
Held(b) == IF b THEN 1 ELSE 0

Close ==
  /\ at \in {"opened", "failed"} /\ UNCHANGED <<disk, conf, pathless>> /\ NoFault
  /\ at' = "closed" /\ pager' = NoPager /\ page' = NoPage
  /\ blocks' = blocks - 1 - 2 * Held(pager.file) - Held(pager.status)
                 - Held(pager.codec # "none")
  /\ fds' = fds - Held(pager.file)
  /\ active' = active - Held(pager.codec # "none")

-----------------------------------------------------------------------------
(* sqliterkPageAcquireOne                                                  *)

(* Of two int: what does not fit is taken modulo 2 * IntLimit.             *)
ToInt(x) == ((x + IntLimit) % (2 * IntLimit)) - IntLimit

(* Mutant: pages are counted from 0.                                       *)
MutOffset(n) == ToInt(n * pager.pagesize)

Offset(n)    == ToInt((n - 1) * pager.pagesize)

Acquire(n) ==
  /\ at = "opened" /\ n \in 1 .. pager.count
  /\ LET read == ReadResult(disk, Offset(n), pager.pagesize)
     IN \/ /\ NoFault
           /\ page' = [no |-> n, offset |-> Offset(n),
                       rc |-> IF read = "OK" /\ pager.codec # "none"
                                 /\ ~ Decodes(pager, disk, conf)
                              THEN "DAMAGED" ELSE read]
        \/ Fault /\ page' = [no |-> n, offset |-> Offset(n), rc |-> "IOERR"]
  /\ UNCHANGED <<at, disk, conf, pager, blocks, active, files>>

PagerInit ==
  /\ at = "closed" /\ disk \in Disks /\ conf \in Confs
  /\ pager = NoPager /\ blocks = 0 /\ active = 0
  /\ page = NoPage /\ faults = 0 /\ fds = 0 /\ pathless = 0

PagerNext ==
  \/ Alloc \/ OpenFile \/ ParseHeaders \/ Status \/ Close
  \/ SetCipher("cipher", "parseFirst", "file")
  \/ SetCipher("cipherAgain", "parseAgain", "conf")
  \/ \E n \in 1 .. pager.count : Acquire(n)

PagerSpec == PagerInit /\ [][PagerNext]_pagerVars

-----------------------------------------------------------------------------
Opened == at = "opened"
Sound  == "HEADER" \in pager.flags

(* A pager that calls its header sound works with the page size, the       *)
(* reserved size and the free page count that the header means, whatever   *)
(* was tried and failed before.                                            *)
HeaderTrusted ==
  Opened /\ Sound => /\ pager.pagesize = TrueSize(disk)
                     /\ pager.reserved = disk.resv
                     /\ pager.free = disk.free

(* The salt is called correct only where the one in the file is.           *)
SaltFlagTrue ==
  "KDF_SALT" \in pager.flags /\ conf.kind = "cipher" => disk.salt

(* A pager that is handed out fits its file: the pages cover it, the free  *)
(* ones are some of them, the usable size is that of the page size in use. *)
(* (With a key this takes a header or a second salt, and no failing call:  *)
(* the first attempt's result is ignored.)                                 *)
Fits(p, d) ==
  /\ p.count >= 1
  /\ (p.count - 1) * p.pagesize < d.size /\ d.size <= p.count * p.pagesize
  /\ p.free \in 0 .. p.count
  /\ p.usable = p.pagesize - p.reserved /\ p.usable > 0

PagerFitsFile ==
  Opened /\ (conf.kind = "cipher" => faults = 0 /\ (conf.salt \/ Sound))
    => Fits(pager, disk)

(* What has been allocated, opened and activated is what the pager holds,  *)
(* in the middle of an attempt and after every way it may fail: each is    *)
(* given back once.  But a path that cannot be allocated costs the process *)
(* a descriptor that the pager has not opened.                             *)
BooksBalance ==
  /\ active = Held(pager.codec # "none")
  /\ blocks = IF at = "closed" THEN 0
              ELSE 1 + 2 * Held(pager.file) + Held(pager.status) + active
  /\ fds = Held(pager.file) - pathless

(* A page that is read is the page that was asked for, in files of up to   *)
(* twice what an int counts; and in files an int can count, a whole page is*)
(* read.                                                                   *)
AcquiredIsAsked ==
  /\ page.rc = "OK" /\ disk.size <= 2 * IntLimit
       => page.offset = (page.no - 1) * pager.pagesize
  /\ page.rc = "SHORT_READ" /\ disk.size <= IntLimit
       => disk.size < page.no * pager.pagesize
=============================================================================
