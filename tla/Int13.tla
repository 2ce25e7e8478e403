--------------------------------- MODULE Int13 ---------------------------------
(***************************************************************************)
(* The drive that int13handler.py shows to the guest, on an image in       *)
(* memory (inmememu.py, also under the looper) or on the file itself       *)
(* (imageemu.py).  Nobody checks an address against the size of the image: *)
(* a read past its end is cut short, a write makes it grow, and with its   *)
(* size goes the geometry by which every CHS address is turned into an     *)
(* offset.                                                                 *)
(*                                                                         *)
(* The guest turns sector numbers into CHS addresses as nbd.py and         *)
(* hdddump.py do.  Images are whole numbers of sectors.  That a command    *)
(* gets to the server, and only one for its drive, is Boot.                *)
(***************************************************************************)
EXTENDS Integers, Sequences

CONSTANTS
  Sizes,         \* of the image, in sectors
  Addresses,     \* sectors the guest accesses
  Lens, Offsets, \* how many, and the offset of its buffer
  Values,        \* what it writes
  MaxWrites      \* bound: write calls

ASSUME Int13Assumption ==
  /\ Sizes \subseteq Nat \ {0} /\ Addresses \subseteq Nat
  /\ Lens \subseteq 1 .. 127 /\ MaxWrites \in Nat
ASSUME OffsetAssumption == Offsets \subseteq 0 .. 65535

VARIABLES
  inmem,         \* an image in memory
  file, image,   \* the image file, and the image used: [size, data]
  base,          \* history: size of the image when the machine was started
  geom, lbas,    \* what the guest was told by AH=08h and AH=48h, 0 heads if nothing
  call,          \* the registers of the guest's call, fn "none" if there is none
  answer,        \* to its last read or write
  broken,        \* the server has ended with an exception
  careless,      \* history: the guest accessed a sector it was not told of
  outside,       \* history: an access went past the end of the image
  writes

guest == <<geom, lbas, careless>>
vars == <<inmem, file, image, base, guest, call, answer, broken, outside, writes>>

-------------------------------------------------------------------------------
(* Geometry and addresses *)

\* The floppies of 720 and 1440 KB and one disk, in sectors.
Known == {1440, 2880, 513600}

\* chssize.
ChsSize(n) ==
  IF n = 1440 THEN [c |-> 80, h |-> 2, s |-> 9]
  ELSE IF n = 2880 THEN [c |-> 80, h |-> 2, s |-> 18]
  ELSE IF n = 513600 THEN [c |-> 856, h |-> 10, s |-> 60]
  ELSE [c |-> n \div (255 * 63), h |-> 255, s |-> 63]

\* Mutant: the number of cylinders, not the last one, is put in the registers.
ToldOneMore(g) == [g EXCEPT !.c = ((IF @ > 1024 THEN 1024 ELSE @) % 1024) + 1]

\* What AH=08h tells, in ten bits: an image smaller than a cylinder has 1024 of them.
Told(g) == [g EXCEPT !.c = (((IF @ > 1024 THEN 1024 ELSE @) - 1) % 1024) + 1]

Total(g) == g.c * g.h * g.s

\* lba_chs of nbd.py.
LbaChs(a, g) ==
  [c |-> (a \div g.s) \div g.h, h |-> (a \div g.s) % g.h, s |-> (a % g.s) + 1]

\* Mutant: the upper bits of the cylinder are not masked.
CxUnmasked(chs) == chs.s + ((chs.c \div 256) % 4) * 64 + chs.c * 256

\* CX of read_sector.
Cx(chs) == chs.s + ((chs.c \div 256) % 4) * 64 + (chs.c % 256) * 256

\* paramstochs.
ParamsToChs(cx, dh) ==
  [c |-> cx \div 256 + ((cx \div 64) % 4) * 256, h |-> dh, s |-> cx % 64]

\* Mutant: sectors are counted from 0.
TolbaFromZero(chs, g) == (chs.c * g.h + chs.h) * g.s + chs.s

Tolba(chs, g) == (chs.c * g.h + chs.h) * g.s + chs.s - 1

-------------------------------------------------------------------------------
(* The image: "old" is what it was, and the zeros of a hole in the file *)

Content(img, b) == IF b \in DOMAIN img.data THEN img.data[b] ELSE "old"

\* A slice or a read ends with the image.
ReadAt(img, a, l) ==
  [k \in 1 .. (IF a + l <= img.size THEN l ELSE IF a < img.size THEN img.size - a ELSE 0)
     |-> Content(img, a + k - 1)]

\* Mutant: the slice has no length, so the data are inserted.
GrownInserted(img, at, l) == img.size + l

Grown(img, at, l) == IF at + l > img.size THEN at + l ELSE img.size

\* A bytearray is extended at its end wherever past it a slice begins.
WriteAt(img, a, l, v) ==
  LET at == IF inmem /\ a > img.size THEN img.size ELSE a
      new == at .. at + l - 1
  IN [size |-> Grown(img, at, l),
      data |-> [b \in DOMAIN img.data \cup new |-> IF b \in new THEN v ELSE img.data[b]]]

-------------------------------------------------------------------------------
(* The guest *)

NoCall == [fn |-> "none", at |-> 0, len |-> 0, cx |-> 0, dh |-> 0, bx |-> 0, v |-> "old"]
NoGeometry == [c |-> 0, h |-> 0, s |-> 0]
NoAnswer == [at |-> 0, data |-> << >>]

Init ==
  /\ inmem \in BOOLEAN /\ base \in Sizes
  /\ file = [size |-> base, data |-> << >>] /\ image = file
  /\ geom = NoGeometry /\ lbas = 0 /\ call = NoCall /\ answer = NoAnswer
  /\ broken = FALSE /\ careless = FALSE /\ outside = FALSE /\ writes = 0

Waits == call = NoCall /\ ~broken

\* AH=08h, 48h, and all those that change nothing, implemented or not.
Asks(fn) ==
  /\ Waits /\ call' = [NoCall EXCEPT !.fn = fn] /\ answer' = NoAnswer
  /\ UNCHANGED <<inmem, file, image, base, guest, broken, outside, writes>>

Requests(fn, a, l, o, v) ==
  /\ call' = [fn |-> fn, at |-> a, len |-> l, bx |-> o, v |-> v,
              cx |-> IF geom.h = 0 THEN 0 ELSE Cx(LbaChs(a, geom)),
              dh |-> IF geom.h = 0 THEN 0 ELSE LbaChs(a, geom).h]
  /\ writes' = (IF v = "old" THEN writes ELSE writes + 1) /\ answer' = NoAnswer
  /\ UNCHANGED <<inmem, file, image, base, geom, lbas, broken, outside>>

\* AH=02h and 03h, as a rule within the geometry that it was told.
AccessesChs(a, l, o, v) ==
  /\ Waits /\ geom.h # 0 /\ LbaChs(a, geom).c < 1024
  /\ Requests(IF v = "old" THEN "read" ELSE "write", a, l, o, v)
  /\ careless' = (careless \/ a + l > Total(geom))

\* AH=42h and 43h.
AccessesLba(a, l, o, v) ==
  /\ Waits /\ lbas # 0
  /\ Requests(IF v = "old" THEN "ext_read" ELSE "ext_write", a, l, o, v)
  /\ careless' = (careless \/ a + l > lbas)

-------------------------------------------------------------------------------
(* The server *)

GetChsCmd ==
  /\ call.fn = "get_chs" /\ call' = NoCall
  /\ geom' = Told(ChsSize(image.size))
  /\ UNCHANGED <<inmem, file, image, base, lbas, careless, answer, broken, outside, writes>>

ExtParams ==
  /\ call.fn = "ext_params" /\ call' = NoCall
  /\ lbas' = image.size
  /\ UNCHANGED <<inmem, file, image, base, geom, careless, answer, broken, outside, writes>>

\* reset_cmd, implemented_noop, not_implemented_no_error, dasd_cmd, ext_check and KeyError.
OtherCmd ==
  /\ call.fn = "other" /\ call' = NoCall
  /\ UNCHANGED <<inmem, file, image, base, guest, answer, broken, outside, writes>>

\* Where the call's data are in the image.
Sector ==
  IF call.fn \in {"read", "write"}
    THEN Tolba(ParamsToChs(call.cx, call.dh), ChsSize(image.size))
    ELSE call.at

\* Mutant: the end of the buffer is packed, not the beginning of its last page.
LastPageEnd == call.bx + 512 * call.len

\* putmem and getmem go by pages of 1024; the address of each is packed in 16 bits.
LastPage == call.bx + 1024 * ((512 * call.len - 1) \div 1024)

Fits == LastPage <= 65535

GoesOutside == outside' = (outside \/ Sector + call.len > image.size)

ReadCmd ==
  /\ call.fn \in {"read", "ext_read"} /\ Fits /\ call' = NoCall
  /\ answer' = [at |-> call.at, data |-> ReadAt(image, Sector, call.len)]
  /\ GoesOutside
  /\ UNCHANGED <<inmem, file, image, base, guest, broken, writes>>

WriteCmd ==
  /\ call.fn \in {"write", "ext_write"} /\ Fits /\ call' = NoCall
  /\ image' = WriteAt(image, Sector, call.len, call.v)
  /\ file' = IF inmem THEN file ELSE image'
  /\ answer' = [at |-> call.at, data |-> << >>]
  /\ GoesOutside
  /\ UNCHANGED <<inmem, base, guest, broken, writes>>

\* struct.error: the server ends, and the guest waits in start.
Breaks ==
  /\ call.len > 0 /\ ~Fits /\ ~broken /\ broken' = TRUE
  /\ UNCHANGED <<inmem, file, image, base, guest, call, answer, outside, writes>>

Process == GetChsCmd \/ ExtParams \/ OtherCmd \/ ReadCmd \/ WriteCmd \/ Breaks

\* The machine is reset, also in the middle of a call, and the server is started again, by
\* hand or by the looper, whose children each have a copy of the image as it was read.
Restart ==
  /\ image' = file /\ base' = file.size
  /\ geom' = NoGeometry /\ lbas' = 0 /\ call' = NoCall /\ answer' = NoAnswer
  /\ broken' = FALSE /\ careless' = FALSE /\ outside' = FALSE
  /\ UNCHANGED <<inmem, file, writes>>

Next ==
  \/ \E fn \in {"get_chs", "ext_params", "other"} : Asks(fn)
  \/ \E a \in Addresses, l \in Lens, o \in Offsets :
       \E v \in Values \cup {"old"} :
         /\ v = "old" \/ writes < MaxWrites
         /\ AccessesChs(a, l, o, v) \/ AccessesLba(a, l, o, v)
  \/ Process \/ Restart

Spec == Init /\ [][Next]_vars
FairSpec == Spec /\ WF_vars(Process)

-------------------------------------------------------------------------------
(* Properties *)

IsImage(img) == img.size \in Nat \ {0} /\ \A b \in DOMAIN img.data : b < img.size

AtMost(n, max) == n \in Nat /\ n <= max

\* Every register fits.
TypeOK ==
  /\ inmem \in BOOLEAN /\ broken \in BOOLEAN /\ careless \in BOOLEAN /\ outside \in BOOLEAN
  /\ IsImage(file) /\ IsImage(image) /\ base \in Nat \ {0}
  /\ AtMost(geom.c, 1024) /\ AtMost(geom.h, 255) /\ AtMost(geom.s, 63)
  /\ geom = NoGeometry \/ 0 \notin {geom.c, geom.h, geom.s}
  /\ lbas \in Nat /\ writes \in 0 .. MaxWrites
  /\ AtMost(call.cx, 65535) /\ AtMost(call.dh, 255) /\ (call.cx % 64 # 0 \/ call.cx = 0)

Blocks == {a + k - 1 : a \in Addresses, k \in UNION {1 .. l : l \in Lens}}

Drive == INSTANCE Disk WITH
  Blocks <- Blocks,
  keeps <- ~inmem,
  disk <- [b \in Blocks |-> Content(image, b)]

\* Until a call goes past the end of the image, the guest sees a drive: each sector number
\* is one place, through the geometry and the registers, and reads are whole.
ImplementsDisk == Drive!Init /\ [][outside' \/ [Drive!Next]_(Drive!vars)]_vars

\* A guest that keeps to what it was told goes past the end only of an image that is of no
\* known size and smaller than a cylinder, which it is told has 1024 of them.
StaysInside ==
  outside => careless \/ (base \notin Known /\ base < 255 * 63)

\* What the guest was told stays true until a write goes past the end; then the geometry
\* may change under a file system that is in use.
GeometryKept ==
  ~outside => geom \in {NoGeometry, Told(ChsSize(image.size))} /\ lbas \in {0, image.size}

\* Every call is answered, unless its buffer leaves the segment.
CallsReturn == call.fn # "none" ~> call.fn = "none" \/ call.bx + 512 * call.len > 65536
===============================================================================
