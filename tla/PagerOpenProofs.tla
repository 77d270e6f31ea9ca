---------------------------- MODULE PagerOpenProofs ----------------------------
(***************************************************************************)
(* Proofs about sqliterkPagerOpen and sqliterkPageAcquireOne: what a pager *)
(* claims of its header and its salt is true of the file, it fits the      *)
(* file, its books balance, and a page read is the page asked for.         *)
(***************************************************************************)
EXTENDS PagerOpen, TLAPS

-----------------------------------------------------------------------------
(* Numbers.                                                                *)

LEMMA Division ==
  ASSUME NEW s \in Nat, NEW b \in Nat \ {0}
  PROVE  /\ s = b * (s \div b) + (s % b)
         /\ s \div b \in Nat /\ s % b \in 0 .. b - 1
OBVIOUS

LEMMA Remainder ==
  ASSUME NEW b \in Nat \ {0}, NEW q \in Nat, NEW r \in 0 .. b - 1
  PROVE  (b * q + r) % b = r
OBVIOUS

LEMMA Monotone ==
  ASSUME NEW a \in Nat, NEW b \in Nat, NEW c \in Nat, a <= b
  PROVE  a * c \in Nat /\ b * c \in Nat /\ a * c <= b * c
<1>1. PICK d \in Nat : b = a + d
  <2>1. b - a \in Nat /\ b = a + (b - a)
    OBVIOUS
  <2> QED
    BY <2>1
<1>2. b * c = a * c + d * c /\ d * c \in Nat /\ a * c \in Nat
  BY <1>1
<1> QED
  BY <1>2

(* The pages cover the file, the last of them in part.                     *)
LEMMA PagesCover ==
  ASSUME NEW s \in Nat, NEW b \in Nat \ {0}, NEW c, c = (s + b - 1) \div b
  PROVE  /\ c \in Nat /\ s <= c * b
         /\ s > 0 => c >= 1
         /\ c >= 1 => (c - 1) * b < s
<1> DEFINE r == (s + b - 1) % b
<1>1. s + b - 1 \in Nat
  OBVIOUS
<1>2. s + b - 1 = b * c + r /\ c \in Nat /\ r \in 0 .. b - 1
  BY <1>1, Division
<1> HIDE DEF r
<1>3. b * c = c * b /\ (c - 1) * b = c * b - b
  BY <1>2
<1>4. c * b \in Nat
  BY <1>2
<1>5. s <= c * b /\ (c - 1) * b < s
  BY <1>2, <1>3, <1>4
<1>6. c = 0 => c * b = 0
  OBVIOUS
<1> QED
  BY <1>2, <1>5, <1>6

(* Below twice its limit, an int is the number or negative.                *)
LEMMA ToIntIs ==
  ASSUME NEW x \in 0 .. 2 * IntLimit - 1
  PROVE  ToInt(x) = IF x < IntLimit THEN x ELSE x - 2 * IntLimit
<1> DEFINE b == 2 * IntLimit
<1>1. IntLimit \in Nat \ {0} /\ b \in Nat \ {0} /\ b = IntLimit + IntLimit
  BY PagerAssumption
<1> HIDE DEF b
<1>2. CASE x < IntLimit
  <2>1. x + IntLimit \in 0 .. b - 1 /\ b * 0 + (x + IntLimit) = x + IntLimit
    BY <1>1, <1>2
  <2>2. (x + IntLimit) % b = x + IntLimit
    BY <1>1, <2>1, Remainder
  <2> QED
    BY <1>1, <1>2, <2>2 DEF ToInt, b
<1>3. CASE ~ (x < IntLimit)
  <2>1. x - IntLimit \in 0 .. b - 1 /\ b * 1 + (x - IntLimit) = x + IntLimit
    BY <1>1, <1>3 DEF b
  <2>2. (x + IntLimit) % b = x - IntLimit
    BY <1>1, <2>1, Remainder
  <2> QED
    BY <1>1, <1>3, <2>2 DEF ToInt, b
<1> QED
  BY <1>2, <1>3

-----------------------------------------------------------------------------
(* The pager.                                                              *)

Pager == [file : BOOLEAN, codec : {"none", "file", "conf"}, status : BOOLEAN,
          flags : SUBSET {"HEADER", "KDF_SALT"}, pagesize : Nat, reserved : Int,
          free : Int, count : Int, usable : Int]

(* What parsing the header leaves alone.                                   *)
Kept(p, q) ==
  /\ q.file = p.file /\ q.codec = p.codec /\ q.status = p.status
  /\ "KDF_SALT" \in q.flags <=> "KDF_SALT" \in p.flags

(* The header means what the pager has taken from it.                      *)
Means(p, d) ==
  p.pagesize = TrueSize(d) /\ p.reserved = d.resv /\ p.free = d.free

Claims(p) == "HEADER" \in p.flags

(* Before page 1 is parsed: nothing is claimed yet; with a codec, page size*)
(* and reserved size are the codec's; a forced page size is in place.      *)
Ready(p, force) ==
  /\ p \in Pager /\ ~ Claims(p)
  /\ p.codec # "none" => /\ p.pagesize >= 512 /\ p.reserved = Reserve
                         /\ force = 0
  /\ force # 0 => p.pagesize = force /\ force >= 512

LEMMA ClearIs ==
  ASSUME NEW p \in Pager
  PROVE  /\ Clear(p) \in Pager /\ ~ Claims(Clear(p)) /\ Kept(p, Clear(p))
         /\ Clear(p).pagesize = p.pagesize /\ Clear(p).reserved = p.reserved
         /\ Clear(p).free = p.free /\ Clear(p).count = p.count
         /\ Clear(p).usable = p.usable
BY DEF Clear, Claims, Kept, Pager

LEMMA DiskIs ==
  ASSUME NEW d \in Disk
  PROVE  /\ d.size \in Nat /\ d.hi \in 0 .. 255 /\ d.lo \in 0 .. 255
         /\ d.resv \in 0 .. 255 /\ d.free \in Int
         /\ SizeField(d) \in Int /\ TrueSize(d) \in Nat
         /\ SizeField(d) >= 512 => SizeField(d) = TrueSize(d)
         /\ ResvField(d) \in -128 .. 127
         /\ ResvField(d) >= 0 => ResvField(d) = d.resv
<1>1. /\ d.size \in Nat /\ d.hi \in 0 .. 255 /\ d.lo \in 0 .. 255
      /\ d.resv \in 0 .. 255 /\ d.free \in Int
  BY DEF Disk
<1>2. /\ SizeField(d) = (IF d.hi < 128 THEN d.hi ELSE d.hi - 256) * 256 + d.lo
      /\ ResvField(d) = IF d.resv < 128 THEN d.resv ELSE d.resv - 256
  BY DEF SizeField, ResvField, Signed
<1>3. /\ ResvField(d) \in -128 .. 127
      /\ ResvField(d) >= 0 => ResvField(d) = d.resv
  BY <1>1, <1>2
<1>4. d.hi * 256 + d.lo \in Nat /\ (d.hi < 2 => d.hi * 256 + d.lo < 512)
  <2>1. PICK h \in 0 .. 255, l \in 0 .. 255 : h = d.hi /\ l = d.lo
    BY <1>1
  <2>2. h * 256 + l \in Nat /\ (h < 2 => h * 256 + l < 512)
    OBVIOUS
  <2> QED
    BY <2>1, <2>2
<1>5. TrueSize(d) \in Nat
  BY <1>4 DEF TrueSize
<1>6. CASE d.hi < 128
  <2>1. SizeField(d) = d.hi * 256 + d.lo
    BY <1>2, <1>6
  <2>2. SizeField(d) >= 512 => ~ (d.hi = 0 /\ d.lo = 1)
    BY <1>4, <2>1
  <2> QED
    BY <1>1, <1>3, <1>4, <1>5, <2>1, <2>2 DEF TrueSize
<1>7. CASE d.hi >= 128
  <2>1. SizeField(d) = (d.hi - 256) * 256 + d.lo
    BY <1>1, <1>2, <1>7
  <2>2. SizeField(d) \in Int /\ SizeField(d) < 0
    <3> d.hi \in 128 .. 255
      BY <1>1, <1>7
    <3>1. PICK h \in 128 .. 255, l \in 0 .. 255 : h = d.hi /\ l = d.lo
      BY <1>1
    <3>2. (h - 256) * 256 + l \in Int /\ (h - 256) * 256 + l < 0
      OBVIOUS
    <3> QED
      BY <2>1, <3>1, <3>2
  <2> QED
    BY <1>1, <1>3, <1>5, <2>2
<1> QED
  BY <1>1, <1>6, <1>7

(* The fields of a sound header, with a page size that is settled ...      *)
LEMMA FieldsFixedIs ==
  ASSUME NEW p \in Pager, NEW d \in Disk, p.pagesize >= 512
  PROVE  LET q == FieldsFixed(p, d)
         IN /\ q \in Pager /\ Kept(p, q)
            /\ q.pagesize = p.pagesize /\ q.reserved = p.reserved
            /\ q.free = d.free /\ q.count = p.count
            /\ Claims(q) => q.pagesize = TrueSize(d)
<1>1. d.free \in Int
  BY DiskIs
<1> DEFINE q == [p EXCEPT !.free = d.free]
<1>2. /\ q \in Pager /\ Kept(p, q) /\ q.free = d.free
      /\ q.pagesize = p.pagesize /\ q.reserved = p.reserved /\ q.count = p.count
  BY <1>1 DEF Pager, Kept
<1> HIDE DEF q
<1>3. FieldsFixed(p, d) = IF SizeField(d) # p.pagesize THEN Clear(q) ELSE q
  BY DEF FieldsFixed, q
<1>4. Kept(q, Clear(q)) /\ Kept(p, q) => Kept(p, Clear(q))
  BY DEF Kept
<1> QED
  BY <1>2, <1>3, <1>4, ClearIs, DiskIs

(* ... and with one that is free.                                          *)
LEMMA FieldsFreeIs ==
  ASSUME NEW p \in Pager, NEW d \in Disk
  PROVE  LET q == FieldsFree(p, d)
         IN /\ q \in Pager /\ Kept(p, q)
            /\ q.pagesize >= 512 /\ q.reserved = p.reserved
            /\ q.free = d.free /\ q.count = p.count
            /\ Claims(q) => q.pagesize = TrueSize(d)
<1>1. /\ d.free \in Int /\ SizeField(d) \in Int /\ Default \in Nat /\ Default >= 512
      /\ SizeField(d) >= 512 => SizeField(d) = TrueSize(d)
  BY DiskIs, PagerAssumption
<1>2. CASE SizeField(d) \notin PowersOfTwo \/ SizeField(d) < 512
  <2> DEFINE q == [p EXCEPT !.free = d.free, !.pagesize = Default]
  <2>1. /\ q \in Pager /\ Kept(p, q) /\ q.free = d.free
        /\ q.pagesize = Default /\ q.reserved = p.reserved /\ q.count = p.count
    BY <1>1 DEF Pager, Kept
  <2> HIDE DEF q
  <2>2. FieldsFree(p, d) = Clear(q)
    BY <1>2 DEF FieldsFree, q
  <2>3. Kept(q, Clear(q)) /\ Kept(p, q) => Kept(p, Clear(q))
    BY DEF Kept
  <2> QED
    BY <1>1, <2>1, <2>2, <2>3, ClearIs
<1>3. CASE ~ (SizeField(d) \notin PowersOfTwo \/ SizeField(d) < 512)
  <2>1. PICK z \in Nat : z >= 512 /\ z = TrueSize(d) /\ z = SizeField(d)
    BY <1>1, <1>3
  <2>2. PICK f \in Int : f = d.free
    BY <1>1
  <2> DEFINE q == [p EXCEPT !.free = f, !.pagesize = z]
  <2>3. /\ q \in Pager /\ Kept(p, q) /\ q.free = d.free
        /\ q.pagesize = z /\ q.reserved = p.reserved /\ q.count = p.count
    BY <2>2, z \in Nat, f \in Int DEF Pager, Kept
  <2>4. FieldsFree(p, d) = q
    BY <1>3, <2>1, <2>2 DEF FieldsFree
  <2> HIDE DEF q
  <2> QED
    BY <2>1, <2>2, <2>3, <2>4
<1> QED
  BY <1>2, <1>3

LEMMA ReservedIs ==
  ASSUME NEW p \in Pager, NEW d \in Disk, p.codec # "none" => p.reserved = Reserve
  PROVE  LET q == Reserved(p, d)
         IN /\ q \in Pager /\ Kept(p, q)
            /\ q.pagesize = p.pagesize /\ q.free = p.free /\ q.count = p.count
            /\ q.reserved \in 0 .. 511
            /\ p.codec # "none" => q.reserved = p.reserved
            /\ Claims(q) => Claims(p) /\ q.reserved = d.resv
<1>1. /\ ResvField(d) \in -128 .. 127 /\ Reserve \in 0 .. 511
      /\ ResvField(d) >= 0 => ResvField(d) = d.resv
  BY DiskIs, PagerAssumption
<1>2. CASE p.codec # "none"
  <2>1. Reserved(p, d) = IF ResvField(d) # p.reserved THEN Clear(p) ELSE p
    BY <1>2 DEF Reserved
  <2>2. Kept(p, p)
    BY DEF Kept
  <2> QED
    BY <1>1, <1>2, <2>1, <2>2, ClearIs
<1>3. CASE p.codec = "none" /\ ResvField(d) < 0
  <2> DEFINE q == [p EXCEPT !.reserved = 0]
  <2>1. /\ q \in Pager /\ Kept(p, q) /\ q.reserved = 0
        /\ q.pagesize = p.pagesize /\ q.free = p.free /\ q.count = p.count
    BY DEF Pager, Kept
  <2> HIDE DEF q
  <2>2. Reserved(p, d) = Clear(q)
    BY <1>3 DEF Reserved, q
  <2>3. Kept(q, Clear(q)) /\ Kept(p, q) => Kept(p, Clear(q))
    BY DEF Kept
  <2> QED
    BY <1>3, <2>1, <2>2, <2>3, ClearIs
<1>4. CASE p.codec = "none" /\ ResvField(d) >= 0
  <2> DEFINE z == ResvField(d)
             q == [p EXCEPT !.reserved = z]
  <2>1. z \in 0 .. 511 /\ z = d.resv
    BY <1>1, <1>4
  <2>2. Reserved(p, d) = q
    BY <1>1, <1>4 DEF Reserved
  <2> HIDE DEF z
  <2>3. /\ q \in Pager /\ Kept(p, q) /\ q.reserved = z
        /\ q.pagesize = p.pagesize /\ q.free = p.free /\ q.count = p.count
        /\ Claims(q) => Claims(p)
    BY <2>1 DEF Pager, Kept, Claims
  <2> QED
    BY <1>4, <2>1, <2>2, <2>3
<1> QED
  BY <1>1, <1>2, <1>3, <1>4

(* Page 1 has been read: a header that is called sound is one.             *)
LEMMA HeaderIs ==
  ASSUME NEW d \in Disk, NEW c \in Conf, NEW force \in Nat, NEW p, Ready(p, force)
  PROVE  LET q == Header(p, d, c, force)
         IN /\ q \in Pager /\ Kept(p, q) /\ q.count = p.count
            /\ q.pagesize >= 512 /\ q.reserved \in 0 .. 511
            /\ p.codec # "none" =>
                 q.pagesize = p.pagesize /\ q.reserved = p.reserved
            /\ Claims(q) => /\ Means(q, d)
                            /\ p.codec = "file" => d.salt
<1> DEFINE q == [p EXCEPT !.flags = @ \cup {"HEADER"}]
<1>1. p \in Pager /\ Default \in Nat /\ Default >= 512 /\ Reserve \in 0 .. 511
  BY PagerAssumption DEF Ready
<1>2. /\ q \in Pager /\ Kept(p, q) /\ q.count = p.count
      /\ q.pagesize = p.pagesize /\ q.reserved = p.reserved
  BY <1>1 DEF Pager, Kept
<1> HIDE DEF q
<1>3. CASE p.codec # "none" /\ ~ (d.magic /\ Decodes(p, d, c))
  <2>1. Header(p, d, c, force) = Clear(p)
    BY <1>3 DEF Header
  <2> QED
    BY <1>1, <1>3, <2>1, ClearIs DEF Ready
<1>4. CASE p.codec = "none" /\ ~ (d.magic /\ d.enc = 0)
  <2> DEFINE o == [p EXCEPT !.pagesize = Default, !.reserved = 0, !.free = 0]
  <2>a. o \in Pager
    <3>1. PICK z \in Nat, n \in Int : z = Default /\ n = 0
      BY <1>1
    <3>2. [p EXCEPT !.pagesize = z] \in Pager
      BY <1>1, z \in Nat DEF Pager
    <3>3. [[p EXCEPT !.pagesize = z] EXCEPT !.reserved = n, !.free = n] \in Pager
      BY <3>2, n \in Int DEF Pager
    <3> QED
      BY <3>1, <3>3
  <2>b. /\ o.file = p.file /\ o.codec = p.codec /\ o.status = p.status
        /\ o.flags = p.flags /\ o.count = p.count
    BY <1>1 DEF Pager
  <2>c. o.pagesize = Default /\ o.reserved = 0
    BY <1>1 DEF Pager
  <2>1. /\ o \in Pager /\ Kept(p, o) /\ o.count = p.count
        /\ o.pagesize = Default /\ o.reserved = 0
    BY <2>a, <2>b, <2>c DEF Kept
  <2> HIDE DEF o
  <2>2. Header(p, d, c, force) = Clear(o)
    BY <1>4 DEF Header, o
  <2>3. Kept(o, Clear(o)) /\ Kept(p, o) => Kept(p, Clear(o))
    BY DEF Kept
  <2> QED
    BY <1>1, <1>4, <2>1, <2>2, <2>3, ClearIs
<1>5. CASE /\ ~ (p.codec # "none" /\ ~ (d.magic /\ Decodes(p, d, c)))
           /\ ~ (p.codec = "none" /\ ~ (d.magic /\ d.enc = 0))
  <2> DEFINE f == IF p.codec # "none" \/ force # 0
                  THEN FieldsFixed(q, d) ELSE FieldsFree(q, d)
  <2>1. Header(p, d, c, force) = Reserved(f, d)
    BY <1>5 DEF Header, q
  <2>2. /\ f \in Pager /\ Kept(q, f) /\ f.pagesize >= 512
        /\ f.reserved = p.reserved /\ f.free = d.free /\ f.count = p.count
        /\ Claims(f) => f.pagesize = TrueSize(d)
        /\ p.codec # "none" => f.pagesize = p.pagesize
    <3>1. CASE p.codec # "none" \/ force # 0
      <4>1. q.pagesize >= 512
        BY <1>2, <3>1 DEF Ready
      <4> QED
        BY <1>2, <3>1, <4>1, FieldsFixedIs
    <3>2. CASE ~ (p.codec # "none" \/ force # 0)
      BY <1>2, <3>2, FieldsFreeIs
    <3> QED
      BY <3>1, <3>2
  <2> HIDE DEF f
  <2>3. Kept(p, f)
    BY <1>2, <2>2 DEF Kept
  <2>4. f.codec # "none" => f.reserved = Reserve
    BY <2>2, <2>3 DEF Ready, Kept
  <2> DEFINE h == Reserved(f, d)
  <2>5. /\ h \in Pager /\ Kept(f, h)
        /\ h.pagesize = f.pagesize /\ h.free = f.free /\ h.count = f.count
        /\ h.reserved \in 0 .. 511
        /\ f.codec # "none" => h.reserved = f.reserved
        /\ Claims(h) => Claims(f) /\ h.reserved = d.resv
    BY <2>2, <2>4, ReservedIs
  <2> HIDE DEF h
  <2>6. Kept(p, h)
    BY <2>3, <2>5 DEF Kept
  <2>7. p.codec = "file" => d.salt
    BY <1>5 DEF Decodes
  <2>8. Claims(h) => Means(h, d)
    BY <2>2, <2>5 DEF Means
  <2> QED
    BY <2>1, <2>2, <2>3, <2>5, <2>6, <2>7, <2>8 DEF Kept, h
<1> QED
  BY <1>3, <1>4, <1>5

(* The number of pages is counted with the page size in use.               *)
Covers(p, d) == p.count >= 1 => (p.count - 1) * p.pagesize < d.size

LEMMA CountedIs ==
  ASSUME NEW p \in Pager, NEW d \in Disk, p.pagesize >= 512
  PROVE  LET q == Counted(p, d)
         IN /\ q \in Pager /\ Kept(p, q) /\ (Claims(q) <=> Claims(p))
            /\ q.pagesize = p.pagesize /\ q.reserved = p.reserved
            /\ q.free = p.free /\ q.count \in Nat
            /\ Covers(q, d) /\ d.size <= q.count * q.pagesize
            /\ d.size > 0 => q.count >= 1
<1>1. PICK s \in Nat, b \in Nat : s = d.size /\ b = p.pagesize /\ b >= 512
  BY DiskIs DEF Pager
<1>2. PICK c : c = (s + b - 1) \div b
  OBVIOUS
<1>3. /\ c \in Nat /\ s <= c * b
      /\ s > 0 => c >= 1
      /\ c >= 1 => (c - 1) * b < s
  <2>1. b \in Nat \ {0}
    BY <1>1
  <2> QED
    BY <1>2, <2>1, PagesCover
<1> DEFINE q == [p EXCEPT !.count = c]
<1>4. /\ q \in Pager /\ Kept(p, q) /\ (Claims(q) <=> Claims(p))
      /\ q.pagesize = p.pagesize /\ q.reserved = p.reserved
      /\ q.free = p.free /\ q.count = c
  BY <1>3 DEF Pager, Kept, Claims
<1>5. q = Counted(p, d)
  BY <1>1, <1>2 DEF Counted
<1> HIDE DEF q
<1> QED
  BY <1>1, <1>3, <1>4, <1>5 DEF Covers

LEMMA FreeCheckedIs ==
  ASSUME NEW p \in Pager, p.count \in Nat
  PROVE  LET q == FreeChecked(p)
         IN /\ q \in Pager /\ Kept(p, q) /\ (Claims(q) => Claims(p) /\ q.free = p.free)
            /\ q.pagesize = p.pagesize /\ q.reserved = p.reserved
            /\ q.count = p.count /\ q.free \in 0 .. q.count
<1>1. p.free \in Int
  BY DEF Pager
<1>2. CASE p.free < 0 \/ p.free > p.count
  <2> DEFINE q == [p EXCEPT !.free = 0]
  <2>1. /\ q \in Pager /\ Kept(p, q) /\ q.free = 0
        /\ q.pagesize = p.pagesize /\ q.reserved = p.reserved
        /\ q.count = p.count
    BY DEF Pager, Kept
  <2> HIDE DEF q
  <2>2. FreeChecked(p) = Clear(q)
    BY <1>2 DEF FreeChecked, q
  <2>3. Kept(q, Clear(q)) /\ Kept(p, q) => Kept(p, Clear(q))
    BY DEF Kept
  <2> QED
    BY <2>1, <2>2, <2>3, ClearIs
<1>3. CASE ~ (p.free < 0 \/ p.free > p.count)
  BY <1>1, <1>3 DEF FreeChecked, Kept
<1> QED
  BY <1>2, <1>3

LEMMA MeasuredIs ==
  ASSUME NEW p \in Pager, p.pagesize >= 512, p.reserved \in 0 .. 511
  PROVE  LET q == Measured(p)
         IN /\ q \in Pager /\ Kept(p, q) /\ (Claims(q) <=> Claims(p))
            /\ q.pagesize = p.pagesize /\ q.reserved = p.reserved
            /\ q.free = p.free /\ q.count = p.count
            /\ q.usable = q.pagesize - q.reserved /\ q.usable > 0
<1>1. p.pagesize \in Nat /\ p.reserved \in Nat
  BY DEF Pager
<1>2. PICK u \in Int : u = p.pagesize - p.reserved /\ u > 0
  BY <1>1
<1> DEFINE q == [p EXCEPT !.usable = u]
<1>3. /\ q \in Pager /\ Kept(p, q) /\ (Claims(q) <=> Claims(p))
      /\ q.pagesize = p.pagesize /\ q.reserved = p.reserved
      /\ q.free = p.free /\ q.count = p.count /\ q.usable = u
  BY u \in Int DEF Pager, Kept, Claims
<1>4. q = Measured(p)
  BY <1>2 DEF Measured
<1> HIDE DEF q
<1> QED
  BY <1>2, <1>3, <1>4

(* sqliterkPagerParseHeader, whatever it returns.                          *)
LEMMA ParseHeaderIs ==
  ASSUME NEW d \in Disk, NEW c \in Conf, NEW force \in Nat, NEW fault \in BOOLEAN,
         NEW p0 \in Pager, ~ Claims(p0), Covers(p0, d),
         p0.codec = "none" => p0.count = 0,
         p0.codec # "none" =>
           p0.pagesize >= 512 /\ p0.reserved = Reserve /\ force = 0,
         force = 0 \/ force >= 512,
         NEW r \in ParseHeader(p0, d, c, force, fault)
  PROVE  /\ r.pager \in Pager /\ Kept(p0, r.pager) /\ Covers(r.pager, d)
         /\ p0.codec # "none" =>
              r.pager.pagesize = p0.pagesize /\ r.pager.reserved = p0.reserved
         /\ Claims(r.pager) => /\ Means(r.pager, d)
                               /\ p0.codec = "file" => d.salt
         /\ r.rc = "OK" => Fits(r.pager, d)
         /\ ~ fault /\ p0.codec # "none" /\ Claims(r.pager) => r.rc = "OK"
<1> DEFINE p == IF force # 0 THEN [p0 EXCEPT !.pagesize = force] ELSE p0
           read == ReadResult(d, 0, IF p.codec = "none" THEN 100 ELSE p.pagesize)
           h == Header(p, d, c, force)
           k == Counted(h, d)
           m == Measured(FreeChecked(k))
<1>1. /\ Ready(p, force) /\ Kept(p0, p) /\ p.count = p0.count /\ p \in Pager
      /\ p0.codec # "none" => p = p0
  <2>1. CASE force = 0
    BY <2>1 DEF Ready, Kept
  <2>2. CASE force # 0
    BY <2>2 DEF Ready, Kept, Claims, Pager
  <2> QED
    BY <2>1, <2>2
<1>2. \/ r.pager = p /\ r.rc # "OK"
      \/ r.pager = Clear(p) /\ r.rc # "OK"
      \/ r.pager = h /\ r.rc # "OK" /\ fault
      \/ /\ r.pager = k /\ r.rc # "OK" /\ k.count < 1
         /\ ~ fault /\ read = "OK"
      \/ r.pager = m /\ r.rc = "OK" /\ ~ (k.count < 1)
  <2>1. CASE fault
    BY <2>1 DEF ParseHeader
  <2>2. CASE ~ fault /\ read # "OK"
    BY <2>2 DEF ParseHeader
  <2>3. CASE ~ fault /\ read = "OK" /\ k.count < 1
    BY <2>3 DEF ParseHeader
  <2>4. CASE ~ fault /\ read = "OK" /\ ~ (k.count < 1)
    BY <2>4 DEF ParseHeader
  <2> QED
    BY <2>1, <2>2, <2>3, <2>4
<1> HIDE DEF p
<1>3. /\ h \in Pager /\ Kept(p, h) /\ h.count = p.count
      /\ h.pagesize >= 512 /\ h.reserved \in 0 .. 511
      /\ p.codec # "none" => h.pagesize = p.pagesize /\ h.reserved = p.reserved
      /\ Claims(h) => Means(h, d) /\ (p.codec = "file" => d.salt)
  BY <1>1, HeaderIs
<1> HIDE DEF h
<1>4. /\ k \in Pager /\ Kept(h, k) /\ (Claims(k) <=> Claims(h))
      /\ k.pagesize = h.pagesize /\ k.reserved = h.reserved
      /\ k.free = h.free /\ k.count \in Nat
      /\ Covers(k, d) /\ d.size <= k.count * k.pagesize
      /\ d.size > 0 => k.count >= 1
  BY <1>3, CountedIs
<1> HIDE DEF k
<1> DEFINE f == FreeChecked(k)
<1>5. /\ f \in Pager /\ Kept(k, f) /\ (Claims(f) => Claims(k) /\ f.free = k.free)
      /\ f.pagesize = k.pagesize /\ f.reserved = k.reserved
      /\ f.count = k.count /\ f.free \in 0 .. f.count
  BY <1>4, FreeCheckedIs
<1> HIDE DEF f
<1>6. /\ m \in Pager /\ Kept(f, m) /\ (Claims(m) <=> Claims(f))
      /\ m.pagesize = f.pagesize /\ m.reserved = f.reserved
      /\ m.free = f.free /\ m.count = f.count
      /\ m.usable = m.pagesize - m.reserved /\ m.usable > 0
  BY <1>3, <1>4, <1>5, MeasuredIs DEF f
<1> HIDE DEF m
<1>7. Kept(p0, h) /\ Kept(p0, k) /\ Kept(p0, m)
  BY <1>1, <1>3, <1>4, <1>5, <1>6 DEF Kept
<1>8. p.codec = p0.codec
  BY <1>1 DEF Kept
<1>9. CASE r.pager = p /\ r.rc # "OK"
  <2>1. ~ Claims(p)
    BY <1>1 DEF Ready
  <2>2. Covers(p, d)
    BY <1>1, <1>8 DEF Covers
  <2> QED
    BY <1>1, <1>9, <2>1, <2>2
<1>10. CASE r.pager = Clear(p) /\ r.rc # "OK"
  <2>1. /\ Clear(p) \in Pager /\ ~ Claims(Clear(p)) /\ Kept(p, Clear(p))
        /\ Clear(p).pagesize = p.pagesize /\ Clear(p).reserved = p.reserved
        /\ Clear(p).count = p.count
    BY <1>1, ClearIs
  <2>2. Covers(Clear(p), d) /\ Kept(p0, Clear(p))
    BY <1>1, <1>8, <2>1 DEF Covers, Kept
  <2> QED
    BY <1>1, <1>8, <1>10, <2>1, <2>2
<1>11. CASE r.pager = h /\ r.rc # "OK" /\ fault
  <2>1. Covers(h, d)
    BY <1>1, <1>3, <1>8 DEF Covers
  <2> QED
    BY <1>1, <1>3, <1>7, <1>8, <1>11, <2>1
<1>12. CASE r.pager = k /\ r.rc # "OK" /\ k.count < 1 /\ ~ fault /\ read = "OK"
  <2>1. Claims(k) => Means(k, d) /\ (p.codec = "file" => d.salt)
    BY <1>3, <1>4 DEF Means
  <2>2. p.codec = "none"
    <3>1. SUFFICES ASSUME p.codec # "none" PROVE FALSE
      OBVIOUS
    <3>2. p.pagesize >= 512 /\ p.pagesize \in Nat /\ d.size \in Nat
      BY <1>1, <3>1, DiskIs DEF Ready, Pager
    <3>3. ~ (p.pagesize > d.size)
      BY <1>12, <3>1, <3>2 DEF ReadResult
    <3> QED
      BY <1>4, <1>12, <3>2, <3>3
  <2> QED
    BY <1>4, <1>7, <1>8, <1>12, <2>1, <2>2
<1>13. CASE r.pager = m /\ r.rc = "OK" /\ ~ (k.count < 1)
  <2>1. Claims(m) => Means(m, d) /\ (p.codec = "file" => d.salt)
    BY <1>3, <1>4, <1>5, <1>6 DEF Means
  <2>2. m.count = k.count /\ m.pagesize = k.pagesize /\ m.free \in 0 .. m.count
    BY <1>5, <1>6
  <2>3. m.count >= 1
    BY <1>4, <1>13, <2>2
  <2>4. Covers(m, d) /\ d.size <= m.count * m.pagesize
    BY <1>4, <2>2 DEF Covers
  <2>5. Fits(m, d)
    BY <1>6, <2>2, <2>3, <2>4 DEF Fits, Covers
  <2> QED
    BY <1>1, <1>3, <1>4, <1>5, <1>6, <1>7, <1>8, <1>13, <2>1, <2>4, <2>5
<1> QED
  BY <1>2, <1>9, <1>10, <1>11, <1>12, <1>13

-----------------------------------------------------------------------------
(* The invariant: at each place of an attempt, what the codec, the header  *)
(* and the flags can be, and what is held.                                 *)

Trying == {"open", "cipher", "parse", "parseFirst", "cipherAgain", "parseAgain"}

CipherSize(c) == IF c.size > 0 THEN c.size ELSE CodecSize

Typed ==
  /\ at \in Trying \cup {"closed", "status", "opened", "failed"}
  /\ disk \in Disk /\ conf \in Conf /\ (conf.size = 0 \/ conf.size >= 512)
  /\ pager \in Pager /\ faults \in Nat /\ pathless \in Nat

Attempt ==
  /\ at \in {"closed", "open"} => pager = NoPager
  /\ pager.status => at = "opened"
  /\ at \in {"cipher", "parse"} => pager.codec = "none" /\ pager.count = 0
  /\ at \in {"parseFirst", "cipherAgain"} => pager.codec = "file"
  /\ at = "parseAgain" => pager.codec = "conf"
  /\ at = "parse" => conf.kind # "cipher"
  /\ at \in {"cipher", "parseFirst", "cipherAgain", "parseAgain"}
       => conf.kind = "cipher"
  /\ pager.codec # "none" => /\ conf.kind = "cipher" /\ pager.reserved = Reserve
                             /\ pager.pagesize = CipherSize(conf)

Truthful ==
  /\ at \in Trying => ~ Claims(pager)
  /\ Claims(pager) => Means(pager, disk)
  /\ SaltFlagTrue
  /\ Covers(pager, disk)

Fitting ==
  at \in {"status", "opened"}
    /\ (conf.kind = "cipher" => faults = 0 /\ (conf.salt \/ Claims(pager)))
  => Fits(pager, disk)

Reading == (at # "opened" => page = NoPage) /\ AcquiredIsAsked

IPager == Typed /\ BooksBalance /\ Attempt /\ Truthful /\ Fitting /\ Reading

LEMMA NoPagerIs ==
  /\ NoPager \in Pager /\ ~ Claims(NoPager) /\ "KDF_SALT" \notin NoPager.flags
  /\ ~ NoPager.file /\ ~ NoPager.status /\ NoPager.codec = "none"
  /\ NoPager.count = 0 /\ NoPager.pagesize = 0
BY DEF NoPager, Pager, Claims

LEMMA NoPageIs ==
  (page = NoPage => AcquiredIsAsked) /\ (page' = NoPage => AcquiredIsAsked')
BY DEF NoPage, AcquiredIsAsked

LEMMA SaltedIs ==
  ASSUME NEW p \in Pager, NEW rc
  PROVE  LET q == Salted(p, rc)
         IN /\ q \in Pager /\ (Claims(q) <=> Claims(p))
            /\ q.file = p.file /\ q.codec = p.codec /\ q.status = p.status
            /\ q.pagesize = p.pagesize /\ q.reserved = p.reserved
            /\ q.free = p.free /\ q.count = p.count /\ q.usable = p.usable
            /\ "KDF_SALT" \in q.flags =>
                 \/ "KDF_SALT" \in p.flags
                 \/ Claims(p) /\ at \in {"parse", "parseFirst"}
<1>1. CASE Salted(p, rc) = p
  BY <1>1
<1>2. CASE /\ Salted(p, rc) = [p EXCEPT !.flags = @ \cup {"KDF_SALT"}]
           /\ Claims(p) /\ at \in {"parse", "parseFirst"}
  BY <1>2 DEF Pager, Claims
<1> QED
  BY <1>1, <1>2 DEF Salted, Claims

LEMMA WithCodecIs ==
  ASSUME NEW p \in Pager, NEW c \in Conf, NEW salt \in {"file", "conf"}
  PROVE  LET q == WithCodec(p, c, salt)
         IN /\ q \in Pager /\ (Claims(q) <=> Claims(p))
            /\ "KDF_SALT" \in q.flags <=> "KDF_SALT" \in p.flags
            /\ q.file = p.file /\ q.codec = salt /\ q.status = p.status
            /\ q.pagesize = CipherSize(c) /\ q.reserved = Reserve
            /\ q.free = p.free /\ q.count = p.count
<1>1. PICK z \in Nat, n \in Int : z = CipherSize(c) /\ n = Reserve
  BY PagerAssumption DEF CipherSize, Conf
<1> DEFINE o == [p EXCEPT !.codec = salt, !.reserved = n]
           q == [o EXCEPT !.pagesize = z]
<1>2. /\ o \in Pager /\ o.flags = p.flags
      /\ o.file = p.file /\ o.codec = salt /\ o.status = p.status
      /\ o.reserved = n /\ o.free = p.free /\ o.count = p.count
  BY n \in Int DEF Pager
<1> HIDE DEF o
<1>3. /\ q \in Pager /\ q.flags = p.flags
      /\ q.file = p.file /\ q.codec = salt /\ q.status = p.status
      /\ q.pagesize = z /\ q.reserved = n /\ q.free = p.free /\ q.count = p.count
  BY <1>2, z \in Nat DEF Pager
<1>4. q = WithCodec(p, c, salt)
  BY <1>1 DEF WithCodec, o, CipherSize
<1> HIDE DEF q
<1> QED
  BY <1>1, <1>3, <1>4 DEF Claims

LEMMA PagerInitially == PagerInit => IPager
<1> SUFFICES ASSUME PagerInit PROVE IPager
  OBVIOUS
<1>1. Typed
  BY NoPagerIs, PagerAssumption DEF PagerInit, Typed
<1>2. BooksBalance /\ Attempt
  BY NoPagerIs DEF PagerInit, BooksBalance, Attempt, Held
<1>3. Truthful /\ Fitting /\ Reading
  BY NoPagerIs, NoPageIs
     DEF PagerInit, Truthful, Trying, SaltFlagTrue, Covers, Fitting, Reading
<1> QED
  BY <1>1, <1>2, <1>3 DEF IPager

LEMMA AllocStep == IPager /\ Alloc => IPager'
<1> SUFFICES ASSUME IPager, Alloc PROVE IPager'
  OBVIOUS
<1>1. /\ at = "closed" /\ at' \in {"open", "closed"} /\ pager = NoPager
      /\ UNCHANGED <<disk, conf, pager, active, page, files>>
      /\ faults' \in Nat /\ page = NoPage
      /\ at' = "open" => blocks' = blocks + 1
      /\ at' = "closed" => blocks' = blocks
  BY DEF IPager, Typed, Attempt, Reading, Alloc, Fault, NoFault
<1>2. Typed'
  BY <1>1 DEF IPager, Typed, Trying, files
<1>3. BooksBalance' /\ Attempt'
  BY <1>1, NoPagerIs DEF IPager, BooksBalance, Attempt, Held, files
<1>4. Truthful' /\ Fitting'
  BY <1>1, NoPagerIs DEF Truthful, SaltFlagTrue, Covers, Fitting
<1>5. Reading'
  BY <1>1 DEF IPager, Reading, AcquiredIsAsked
<1> QED
  BY <1>2, <1>3, <1>4, <1>5 DEF IPager

LEMMA OpenFileStep == IPager /\ OpenFile => IPager'
<1> SUFFICES ASSUME IPager, OpenFile PROVE IPager'
  OBVIOUS
<1>1. /\ at = "open" /\ UNCHANGED <<disk, conf, page, active>> /\ pager = NoPager
      /\ faults' \in Nat /\ page = NoPage
  BY DEF IPager, Typed, Attempt, Reading, OpenFile, Same, Fault, NoFault
<1>2. blocks = 1 /\ active = 0 /\ fds = 0 - pathless /\ pathless \in Nat
  BY <1>1, NoPagerIs DEF IPager, Typed, BooksBalance, Held
<1>3. /\ pager' \in Pager /\ ~ Claims(pager') /\ pager'.flags = NoPager.flags
      /\ ~ pager'.status /\ pager'.codec = "none" /\ pager'.count = 0
      /\ blocks' = 1 + 2 * Held(pager'.file)
      /\ fds' = Held(pager'.file) - pathless' /\ pathless' \in Nat
  <2>1. CASE /\ pager' = [pager EXCEPT !.file = TRUE] /\ blocks' = blocks + 2
             /\ fds' = fds + 1 /\ pathless' = pathless
    <3>1. /\ pager' \in Pager /\ pager'.flags = NoPager.flags /\ pager'.file
          /\ ~ pager'.status /\ pager'.codec = "none" /\ pager'.count = 0
      BY <1>1, <2>1, NoPagerIs DEF Pager
    <3> QED
      BY <1>2, <2>1, <3>1, NoPagerIs DEF Claims, Held
  <2>2. CASE /\ UNCHANGED <<pager, blocks>>
             /\ \/ fds' = fds - 1 /\ pathless' = pathless + 1
                \/ UNCHANGED files
    <3>1. fds' = 0 - pathless' /\ pathless' \in Nat
      BY <1>2, <2>2 DEF files
    <3> QED
      BY <1>1, <1>2, <2>2, <3>1, NoPagerIs DEF Held
  <2> QED
    BY <2>1, <2>2 DEF OpenFile
<1>4. \/ at' = "cipher" /\ conf.kind = "cipher"
      \/ at' = "parse" /\ conf.kind # "cipher"
      \/ at' = "failed"
  BY DEF OpenFile
<1>5. Typed'
  BY <1>1, <1>3, <1>4 DEF IPager, Typed, Trying
<1>6. BooksBalance'
  BY <1>1, <1>2, <1>3, <1>4 DEF BooksBalance, Held
<1>7. Attempt'
  BY <1>1, <1>3, <1>4 DEF Attempt
<1>8. Truthful' /\ Fitting'
  BY <1>3, <1>4, NoPagerIs DEF Truthful, SaltFlagTrue, Covers, Fitting
<1>9. Reading'
  BY <1>1, <1>4, NoPageIs DEF Reading
<1> QED
  BY <1>5, <1>6, <1>7, <1>8, <1>9 DEF IPager

LEMMA SetCipherStep ==
  ASSUME IPager,
         NEW here, NEW next, NEW salt,
         \/ here = "cipher" /\ next = "parseFirst" /\ salt = "file"
         \/ here = "cipherAgain" /\ next = "parseAgain" /\ salt = "conf",
         SetCipher(here, next, salt)
  PROVE  IPager'
<1>1. /\ at = here /\ UNCHANGED <<disk, conf, page>> /\ page = NoPage
      /\ conf.kind = "cipher" /\ ~ Claims(pager) /\ ~ pager.status
      /\ faults' \in Nat /\ AcquiredIsAsked' /\ conf \in Conf /\ pager \in Pager
      /\ Covers(pager, disk)
  BY NoPageIs DEF IPager, Typed, Attempt, Truthful, Trying, Reading, SetCipher,
       Same, Fault, NoFault
<1>f. UNCHANGED <<fds, pathless>>
  BY DEF SetCipher, files
<1>2. CASE at' = "failed" /\ UNCHANGED <<pager, blocks, active>>
  <2>1. Typed' /\ BooksBalance'
    BY <1>1, <1>f, <1>2 DEF IPager, Typed, Trying, BooksBalance
  <2>2. Attempt'
    BY <1>1, <1>2 DEF IPager, Attempt
  <2>3. Truthful' /\ Fitting' /\ Reading'
    BY <1>1, <1>2 DEF IPager, Truthful, SaltFlagTrue, Fitting, Reading
  <2> QED
    BY <2>1, <2>2, <2>3 DEF IPager
<1>3. CASE /\ at' = next /\ pager' = WithCodec(pager, conf, salt)
           /\ active' = active + Held(pager.codec = "none")
           /\ blocks' = blocks + Held(pager.codec = "none")
  <2>1. /\ pager' \in Pager /\ (Claims(pager') <=> Claims(pager))
        /\ "KDF_SALT" \in pager'.flags <=> "KDF_SALT" \in pager.flags
        /\ pager'.file = pager.file /\ pager'.codec = salt
        /\ pager'.status = pager.status
        /\ pager'.pagesize = CipherSize(conf) /\ pager'.reserved = Reserve
        /\ pager'.free = pager.free /\ pager'.count = pager.count
    BY <1>1, <1>3, WithCodecIs
  <2>2. Typed'
    BY <1>1, <1>f, <1>3, <2>1 DEF IPager, Typed, Trying
  <2>3. BooksBalance'
    <3>f. fds' = Held(pager'.file) - pathless'
      BY <1>f, <2>1 DEF IPager, BooksBalance
    <3>1. CASE pager.codec = "none"
      <4>1. /\ active = 0 /\ active' = active + 1 /\ blocks' = blocks + 1
            /\ blocks = 1 + 2 * Held(pager.file) + Held(pager.status) + 0
        BY <1>1, <1>3, <3>1 DEF IPager, BooksBalance, Held
      <4>2. active' = 1 /\ blocks' = 1 + 2 * Held(pager.file) + Held(pager.status) + 1
        BY <4>1 DEF Held
      <4> QED
        BY <1>3, <2>1, <3>f, <4>2 DEF BooksBalance, Held
    <3>2. CASE pager.codec # "none"
      <4>1. /\ active = 1 /\ active' = active + 0 /\ blocks' = blocks + 0
            /\ blocks = 1 + 2 * Held(pager.file) + Held(pager.status) + 1
        BY <1>1, <1>3, <3>2 DEF IPager, BooksBalance, Held
      <4>2. active' = 1 /\ blocks' = 1 + 2 * Held(pager.file) + Held(pager.status) + 1
        BY <4>1 DEF Held
      <4> QED
        BY <1>3, <2>1, <3>f, <4>2 DEF BooksBalance, Held
    <3> QED
      BY <3>1, <3>2
  <2>4. Attempt'
    BY <1>1, <1>3, <2>1 DEF IPager, Attempt, CipherSize
  <2>5. Covers(pager', disk)
    <3>1. CASE here = "cipher"
      BY <1>1, <2>1, <3>1 DEF IPager, Attempt, Covers
    <3>2. CASE here = "cipherAgain"
      BY <1>1, <2>1, <3>2 DEF IPager, Attempt, Covers
    <3> QED
      BY <3>1, <3>2
  <2>6. Truthful' /\ Fitting' /\ Reading'
    BY <1>1, <1>3, <2>1, <2>5
       DEF IPager, Truthful, SaltFlagTrue, Fitting, Reading
  <2> QED
    BY <2>2, <2>3, <2>4, <2>6 DEF IPager
<1> QED
  BY <1>2, <1>3 DEF SetCipher, Held

LEMMA StatusStep == IPager /\ Status => IPager'
<1> SUFFICES ASSUME IPager, Status PROVE IPager'
  OBVIOUS
<1>1. /\ at = "status" /\ UNCHANGED <<disk, conf, page, active>> /\ page = NoPage
      /\ ~ pager.status /\ pager \in Pager /\ faults' \in Nat /\ AcquiredIsAsked'
      /\ Covers(pager, disk)
  BY NoPageIs DEF IPager, Typed, Attempt, Truthful, Trying, Reading, Status,
       Same, Fault, NoFault
<1>f. UNCHANGED <<fds, pathless>>
  BY DEF Status, files
<1>2. CASE at' = "failed" /\ UNCHANGED <<pager, blocks>>
  BY <1>1, <1>f, <1>2 DEF IPager, Typed, Trying, BooksBalance, Attempt, Truthful,
     SaltFlagTrue, Fitting, Reading
<1>3. CASE /\ at' = "opened" /\ pager' = [pager EXCEPT !.status = TRUE]
           /\ blocks' = blocks + 1 /\ NoFault
  <2>1. /\ pager' \in Pager /\ pager'.flags = pager.flags /\ pager'.status
        /\ pager'.file = pager.file /\ pager'.codec = pager.codec
        /\ pager'.pagesize = pager.pagesize /\ pager'.reserved = pager.reserved
        /\ pager'.free = pager.free /\ pager'.count = pager.count
        /\ pager'.usable = pager.usable
    BY <1>1, <1>3 DEF Pager
  <2>2. Typed' /\ Attempt'
    BY <1>1, <1>f, <1>3, <2>1 DEF IPager, Typed, Trying, Attempt
  <2>3. BooksBalance'
    <3>1. active \in 0 .. 1 /\ Held(pager.file) \in 0 .. 1
      BY DEF IPager, BooksBalance, Held
    <3>2. blocks = 1 + 2 * Held(pager.file) + 0 + active
      BY <1>1 DEF IPager, BooksBalance, Held
    <3>3. blocks' = 1 + 2 * Held(pager.file) + 1 + active
      BY <1>3, <3>1, <3>2
    <3>4. fds' = Held(pager'.file) - pathless'
      BY <1>f, <2>1 DEF IPager, BooksBalance
    <3> QED
      BY <1>1, <1>3, <2>1, <3>3, <3>4 DEF IPager, BooksBalance, Held
  <2>4. (Claims(pager') <=> Claims(pager)) /\ Covers(pager', disk)
    BY <1>1, <2>1 DEF Claims, Covers
  <2>5. Truthful'
    BY <1>1, <1>3, <2>1, <2>4 DEF IPager, Truthful, SaltFlagTrue, Trying, Means
  <2>6. Fitting'
    BY <1>1, <1>3, <2>1, <2>4 DEF IPager, Fitting, Fits, NoFault
  <2> QED
    BY <1>1, <1>3, <2>2, <2>3, <2>5, <2>6 DEF IPager, Reading
<1> QED
  BY <1>2, <1>3 DEF Status

LEMMA CloseStep == IPager /\ Close => IPager'
<1> SUFFICES ASSUME IPager, Close PROVE IPager'
  OBVIOUS
<1>1. /\ at' = "closed" /\ pager' = NoPager /\ page' = NoPage /\ faults' = faults
      /\ UNCHANGED <<disk, conf>> /\ at \in {"opened", "failed"}
  BY DEF Close, NoFault
<1>2. AcquiredIsAsked'
  BY <1>1 DEF NoPage, AcquiredIsAsked
<1>3. BooksBalance'
  <2> DEFINE c == Held(pager.codec # "none")
             f == Held(pager.file)
             s == Held(pager.status)
  <2>1. c \in 0 .. 1 /\ f \in 0 .. 1 /\ s \in 0 .. 1
    BY DEF Held
  <2>2. active = c /\ blocks = 1 + 2 * f + s + c
    BY <1>1 DEF IPager, BooksBalance
  <2>3. active' = active - c /\ blocks' = blocks - 1 - 2 * f - s - c
    BY DEF Close
  <2> HIDE DEF c, f, s
  <2>4. active' = 0 /\ blocks' = 0
    BY <2>1, <2>2, <2>3
  <2>5. fds = f - pathless /\ fds' = fds - f /\ pathless' = pathless
        /\ pathless \in Nat
    BY DEF IPager, Typed, BooksBalance, Close, f
  <2>6. fds' = 0 - pathless'
    BY <2>1, <2>5
  <2> QED
    BY <1>1, <2>4, <2>6, NoPagerIs DEF BooksBalance, Held
<1>p. pathless' = pathless
  BY DEF Close
<1>4. Typed' /\ Attempt' /\ Truthful' /\ Fitting'
  BY <1>1, <1>p, NoPagerIs
     DEF IPager, Typed, Trying, Attempt, Truthful, SaltFlagTrue, Covers, Fitting
<1> QED
  BY <1>1, <1>2, <1>3, <1>4 DEF IPager, Reading

LEMMA ParseHeadersStep == IPager /\ ParseHeaders => IPager'
<1> SUFFICES ASSUME IPager, ParseHeaders PROVE IPager'
  OBVIOUS
<1> DEFINE force == IF conf.kind = "force" THEN conf.size ELSE 0
<1>1. /\ at \in {"parse", "parseFirst", "parseAgain"}
      /\ UNCHANGED <<disk, conf, page, blocks, active>> /\ page = NoPage
      /\ disk \in Disk /\ conf \in Conf /\ force \in Nat
      /\ force = 0 \/ force >= 512
      /\ conf.kind = "cipher" => force = 0
      /\ pager \in Pager /\ ~ Claims(pager) /\ ~ pager.status
      /\ Covers(pager, disk)
  BY DEF IPager, Typed, Attempt, Truthful, Trying, Reading, ParseHeaders, Same, Conf
<1>2. /\ at = "parse" => pager.codec = "none" /\ conf.kind # "cipher"
      /\ at = "parseFirst" => pager.codec = "file" /\ conf.kind = "cipher"
      /\ at = "parseAgain" => pager.codec = "conf" /\ conf.kind = "cipher"
      /\ pager.codec = "none" => pager.count = 0
      /\ pager.codec # "none" => /\ conf.kind = "cipher"
                                 /\ pager.reserved = Reserve
                                 /\ pager.pagesize = CipherSize(conf)
                                 /\ pager.pagesize >= 512
  <2>1. CipherSize(conf) >= 512
    BY PagerAssumption DEF IPager, Typed, CipherSize
  <2> QED
    BY <1>1, <2>1 DEF IPager, Attempt
<1>3. PICK fault \in BOOLEAN :
        /\ IF fault THEN Fault ELSE NoFault
        /\ \E r \in ParseHeader(pager, disk, conf, force, fault) :
             /\ pager' = Salted(r.pager, r.rc)
             /\ at' = IF at # "parseFirst"
                      THEN IF r.rc = "OK" THEN "status" ELSE "failed"
                      ELSE IF "HEADER" \notin r.pager.flags /\ conf.salt
                      THEN "cipherAgain" ELSE "status"
  BY DEF ParseHeaders
<1>4. PICK r \in ParseHeader(pager, disk, conf, force, fault) :
             /\ pager' = Salted(r.pager, r.rc)
             /\ at' = IF at # "parseFirst"
                      THEN IF r.rc = "OK" THEN "status" ELSE "failed"
                      ELSE IF "HEADER" \notin r.pager.flags /\ conf.salt
                      THEN "cipherAgain" ELSE "status"
  BY <1>3
<1> HIDE DEF force
<1>5. /\ r.pager \in Pager /\ Kept(pager, r.pager) /\ Covers(r.pager, disk)
      /\ pager.codec # "none" =>
           r.pager.pagesize = pager.pagesize /\ r.pager.reserved = pager.reserved
      /\ Claims(r.pager) => /\ Means(r.pager, disk)
                            /\ pager.codec = "file" => disk.salt
      /\ r.rc = "OK" => Fits(r.pager, disk)
      /\ ~ fault /\ pager.codec # "none" /\ Claims(r.pager) => r.rc = "OK"
  BY <1>1, <1>2, ParseHeaderIs
<1> DEFINE q == r.pager
<1>6. /\ pager' \in Pager /\ (Claims(pager') <=> Claims(q))
      /\ pager'.file = q.file /\ pager'.codec = q.codec /\ pager'.status = q.status
      /\ pager'.pagesize = q.pagesize /\ pager'.reserved = q.reserved
      /\ pager'.free = q.free /\ pager'.count = q.count /\ pager'.usable = q.usable
      /\ "KDF_SALT" \in pager'.flags =>
           \/ "KDF_SALT" \in q.flags
           \/ Claims(q) /\ at \in {"parse", "parseFirst"}
  BY <1>4, <1>5, SaltedIs
<1>7. /\ q.file = pager.file /\ q.codec = pager.codec /\ q.status = pager.status
      /\ "KDF_SALT" \in q.flags => "KDF_SALT" \in pager.flags
  BY <1>5 DEF Kept
<1>8. /\ Covers(pager', disk) /\ (Claims(pager') => Means(pager', disk))
      /\ r.rc = "OK" => Fits(pager', disk)
  BY <1>5, <1>6 DEF Covers, Means, Fits
<1> HIDE DEF q
<1>9. /\ faults' \in Nat /\ (faults' = 0 => ~ fault)
  BY <1>3 DEF IPager, Typed, Fault, NoFault
<1>10. /\ at' \in {"status", "failed", "cipherAgain"}
       /\ at' = "cipherAgain" => at = "parseFirst" /\ ~ Claims(pager') /\ conf.salt
       /\ at' = "status" => \/ r.rc = "OK"
                            \/ at = "parseFirst" /\ (Claims(q) \/ ~ conf.salt)
  BY <1>1, <1>4, <1>6 DEF Claims, q
<1>f. UNCHANGED <<fds, pathless>>
  BY DEF ParseHeaders, files
<1>11. Typed'
  BY <1>1, <1>f, <1>6, <1>9, <1>10 DEF IPager, Typed, Trying
<1>12. BooksBalance'
  BY <1>1, <1>f, <1>6, <1>7, <1>10 DEF IPager, BooksBalance
<1>13. Attempt'
  BY <1>1, <1>2, <1>5, <1>6, <1>7, <1>10 DEF IPager, Attempt, CipherSize, q
<1>14. SaltFlagTrue'
  BY <1>1, <1>2, <1>5, <1>6, <1>7 DEF IPager, Truthful, SaltFlagTrue, q
<1>15. Truthful'
  BY <1>1, <1>8, <1>10, <1>14 DEF Truthful, Trying
<1>16. Fitting'
  BY <1>1, <1>2, <1>5, <1>6, <1>8, <1>9, <1>10 DEF Fitting, q
<1>17. Reading'
  BY <1>1, <1>10, NoPageIs DEF Reading
<1> QED
  BY <1>11, <1>12, <1>13, <1>15, <1>16, <1>17 DEF IPager

LEMMA AcquireStep ==
  ASSUME IPager, NEW n \in 1 .. pager.count, Acquire(n)
  PROVE  IPager'
<1>1. /\ at = "opened" /\ UNCHANGED <<at, disk, conf, pager, blocks, active, fds, pathless>>
      /\ faults' \in Nat /\ (faults' = 0 => faults = 0)
  BY DEF IPager, Typed, Acquire, Fault, NoFault, files
<1>2. PICK ps \in Nat, cnt \in Int, size \in Nat :
        ps = pager.pagesize /\ cnt = pager.count /\ size = disk.size
  BY DiskIs DEF IPager, Typed, Pager
<1>3. cnt \in Nat /\ n \in Nat /\ n >= 1 /\ n <= cnt /\ (cnt - 1) * ps < size
  BY <1>2 DEF IPager, Truthful, Covers
<1> DEFINE x == (n - 1) * ps
<1>4. x \in Nat /\ x < size /\ n * ps = x + ps
  <2>1. n - 1 \in Nat /\ cnt - 1 \in Nat /\ n - 1 <= cnt - 1
    BY <1>3
  <2>2. x \in Nat /\ (cnt - 1) * ps \in Nat /\ x <= (cnt - 1) * ps
    BY <2>1, Monotone
  <2>3. n * ps = x + ps
    BY <1>3
  <2> QED
    BY <1>3, <2>2, <2>3
<1>5. Offset(n) = ToInt(x)
  BY <1>2 DEF Offset
<1> HIDE DEF x
<1>6. IntLimit \in Nat \ {0}
  BY PagerAssumption
<1>7. x < 2 * IntLimit =>
        Offset(n) = IF x < IntLimit THEN x ELSE x - 2 * IntLimit
  <2> SUFFICES ASSUME x < 2 * IntLimit
               PROVE  Offset(n) = IF x < IntLimit THEN x ELSE x - 2 * IntLimit
    OBVIOUS
  <2>1. x \in 0 .. 2 * IntLimit - 1
    BY <1>4, <1>6
  <2> QED
    BY <1>5, <2>1, ToIntIs
<1>8. page'.no = n /\ page'.offset = Offset(n)
  BY DEF Acquire
<1>9. /\ page'.rc = "OK" => /\ ~ (Offset(n) < 0)
                            /\ ~ (Offset(n) + ps > size)
      /\ page'.rc = "SHORT_READ" => ~ (Offset(n) < 0) /\ Offset(n) + ps > size
  BY <1>2 DEF Acquire, ReadResult
<1>10. page'.rc = "OK" /\ size <= 2 * IntLimit => page'.offset = x
  BY <1>4, <1>6, <1>7, <1>8, <1>9
<1>11. page'.rc = "SHORT_READ" /\ size <= IntLimit => size < n * ps
  BY <1>4, <1>6, <1>7, <1>9
<1>12. AcquiredIsAsked'
  BY <1>1, <1>2, <1>8, <1>10, <1>11 DEF AcquiredIsAsked, x
<1>13. Typed' /\ BooksBalance' /\ Attempt' /\ Truthful'
  BY <1>1 DEF IPager, Typed, BooksBalance, Attempt, Truthful, SaltFlagTrue
<1>14. Fitting' /\ Reading'
  BY <1>1, <1>12 DEF IPager, Fitting, Reading
<1> QED
  BY <1>13, <1>14 DEF IPager

LEMMA PagerInvariant == PagerSpec => []IPager
<1>1. IPager /\ UNCHANGED pagerVars => IPager'
  BY DEF IPager, Typed, BooksBalance, Attempt, Truthful, SaltFlagTrue, Fitting,
         Reading, AcquiredIsAsked, pagerVars, files
<1>2. IPager /\ [PagerNext]_pagerVars => IPager'
  <2> SUFFICES ASSUME IPager, PagerNext PROVE IPager'
    BY <1>1
  <2>1. CASE SetCipher("cipher", "parseFirst", "file")
    BY <2>1, SetCipherStep
  <2>2. CASE SetCipher("cipherAgain", "parseAgain", "conf")
    BY <2>2, SetCipherStep
  <2>3. CASE \E n \in 1 .. pager.count : Acquire(n)
    BY <2>3, AcquireStep
  <2> QED
    BY <2>1, <2>2, <2>3, AllocStep, OpenFileStep, ParseHeadersStep, StatusStep,
       CloseStep DEF PagerNext
<1> QED
  BY <1>2, PagerInitially, PTL DEF PagerSpec

(* sqliterkPagerOpen never calls a header sound whose page size, reserved  *)
(* size or free page count it did not take, in whichever way it came by    *)
(* them, and for every file and configuration.                             *)
THEOREM HeaderAlwaysTrusted == PagerSpec => []HeaderTrusted
<1>1. IPager => HeaderTrusted
  BY DEF IPager, Truthful, Claims, Means, HeaderTrusted, Sound, Opened
<1> QED
  BY <1>1, PagerInvariant, PTL

(* Nor a salt correct that is damaged, though the same pager is tried with *)
(* the salt of the backup next.                                            *)
THEOREM SaltFlagAlwaysTrue == PagerSpec => []SaltFlagTrue
<1>1. IPager => SaltFlagTrue
  BY DEF IPager, Truthful
<1> QED
  BY <1>1, PagerInvariant, PTL

(* The pages of a pager that is handed out cover its file.                 *)
THEOREM PagerAlwaysFitsFile == PagerSpec => []PagerFitsFile
<1>1. IPager => PagerFitsFile
  BY DEF IPager, Fitting, PagerFitsFile, Opened, Sound, Claims
<1> QED
  BY <1>1, PagerInvariant, PTL

(* sqliterkPagerClose frees what an attempt has allocated, closes the file *)
(* and deactivates SQLCipher as often as it was activated, wherever the    *)
(* attempt failed; and descriptor 0, which nobody opened here, is closed   *)
(* exactly as often as the allocation of a path has failed.                *)
THEOREM BooksAlwaysBalance == PagerSpec => []BooksBalance
<1>1. IPager => BooksBalance
  BY DEF IPager
<1> QED
  BY <1>1, PagerInvariant, PTL

(* sqliterkPageAcquireOne multiplies in an int; the product is the offset  *)
(* of the page, or the read fails, in files of less than 4 GiB.            *)
THEOREM AcquiredIsAlwaysAsked == PagerSpec => []AcquiredIsAsked
<1>1. IPager => AcquiredIsAsked
  BY DEF IPager, Reading
<1> QED
  BY <1>1, PagerInvariant, PTL
=============================================================================
