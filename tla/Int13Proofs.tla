------------------------------ MODULE Int13Proofs ------------------------------
(***************************************************************************)
(* A sector number survives its way through CHS and the registers, for any *)
(* geometry; a guest that keeps to what it was told stays inside the       *)
(* image, what it was told stays true until somebody leaves it, and until  *)
(* then the server and its image are a drive.                              *)
(***************************************************************************)
EXTENDS Int13, TLAPS

\* Division with a remainder.
LEMMA DivMod ==
  ASSUME NEW a \in Int, NEW n \in Int, n > 0, a >= 0
  PROVE  /\ a \div n \in Int /\ a \div n >= 0
         /\ a % n \in Int /\ a % n >= 0 /\ a % n < n
         /\ a = (a \div n) * n + (a % n)
<1>1. a \div n \in Int /\ a \div n >= 0 /\ a % n \in Int
  BY SMT
<1>2. a % n >= 0 /\ a % n < n
  BY SMT
<1>3. a = (a \div n) * n + (a % n)
  BY Z3
<1> QED BY <1>1, <1>2, <1>3

\* What paramstochs takes from CX is what read_sector put into it: ten bits of the
\* cylinder and six of the sector.
LEMMA CxRoundTrip ==
  ASSUME NEW c \in Nat, c <= 1023, NEW h, NEW s \in Nat, s <= 63
  PROVE  ParamsToChs(Cx([c |-> c, h |-> h, s |-> s]), h) = [c |-> c, h |-> h, s |-> s]
<1> DEFINE hi == c \div 256
           lo == c % 256
           cx == s + hi * 64 + lo * 256
<1>1. hi \in 0 .. 3 /\ lo \in 0 .. 255 /\ c = hi * 256 + lo /\ hi % 4 = hi
  BY Z3
<1>2. cx \div 256 = lo /\ (cx \div 64) % 4 = hi /\ cx % 64 = s
  <2> HIDE DEF hi, lo
  <2>1. cx \div 256 = lo BY <1>1, Z3
  <2>2. cx \div 64 = lo * 4 + hi BY <1>1, Z3
  <2>3. (lo * 4 + hi) % 4 = hi BY <1>1, Z3
  <2>4. cx % 64 = s BY <1>1, Z3
  <2> QED BY <2>1, <2>2, <2>3, <2>4
<1>3. Cx([c |-> c, h |-> h, s |-> s]) = cx
  BY <1>1 DEF Cx
<1>4. lo + hi * 256 = c
  BY <1>1, Z3
<1> HIDE DEF cx, hi, lo
<1> QED BY <1>2, <1>3, <1>4 DEF ParamsToChs

\* The drives that chssize makes of an image.
LEMMA Geometries ==
  ASSUME NEW n \in Nat
  PROVE  LET g == ChsSize(n)
         IN /\ g = [c |-> g.c, h |-> g.h, s |-> g.s]
            /\ g.c \in Int /\ g.c >= 0
            /\ g.h \in Int /\ 0 < g.h /\ g.h <= 255
            /\ g.s \in Int /\ 0 < g.s /\ g.s <= 63
  BY DEF ChsSize

\* A sector number is the same again after lba_chs, the registers, paramstochs and tolba.
THEOREM AddressRoundTrip ==
  ASSUME NEW a \in Nat, NEW g, NEW t,
         g.h \in Int, 0 < g.h, g.s \in Int, 0 < g.s, g.s <= 63,
         t.h = g.h, t.s = g.s, LbaChs(a, t).c < 1024
  PROVE  Tolba(ParamsToChs(Cx(LbaChs(a, t)), LbaChs(a, t).h), g) = a
<1> DEFINE q == a \div g.s
           r == a % g.s
           c == q \div g.h
           h == q % g.h
<1>1. q \in Int /\ q >= 0 /\ r \in Int /\ r >= 0 /\ r < g.s /\ a = q * g.s + r
  BY DivMod
<1>2. c \in Int /\ c >= 0 /\ h \in Int /\ h >= 0 /\ h < g.h /\ q = c * g.h + h
  <2> HIDE DEF q
  <2>1. q \in Int /\ q >= 0 /\ g.h \in Int /\ g.h > 0
    BY <1>1
  <2> QED BY <2>1, DivMod, Zenon
<1>3. LbaChs(a, t) = [c |-> c, h |-> h, s |-> r + 1]
  BY DEF LbaChs
<1>4. c <= 1023
  <2>1. c < 1024
    <3> HIDE DEF c, q, r, h
    <3> QED BY <1>3
  <2> HIDE DEF c
  <2> QED BY <1>2, <2>1
<1>5. c \in Nat /\ r + 1 \in Nat /\ r + 1 <= 63
  <2> HIDE DEF c, q, r, h
  <2> QED BY <1>1, <1>2, <1>4
<1>6. ParamsToChs(Cx(LbaChs(a, t)), LbaChs(a, t).h) = [c |-> c, h |-> h, s |-> r + 1]
  <2> HIDE DEF c, q, r, h
  <2> DEFINE s == r + 1
             x == LbaChs(a, t)
  <2>1. s \in Nat /\ s <= 63 /\ x = [c |-> c, h |-> h, s |-> s] /\ x.h = h
    BY <1>3, <1>5
  <2> HIDE DEF s, x
  <2>2. ParamsToChs(Cx([c |-> c, h |-> h, s |-> s]), h) = [c |-> c, h |-> h, s |-> s]
    BY <1>4, <1>5, <2>1, CxRoundTrip
  <2>3. ParamsToChs(Cx(x), x.h) = [c |-> c, h |-> h, s |-> s]
    BY <2>1, <2>2
  <2> QED BY <2>3 DEF s, x
<1>7. Tolba([c |-> c, h |-> h, s |-> r + 1], g) = (c * g.h + h) * g.s + (r + 1) - 1
  BY DEF Tolba
<1>8. (c * g.h + h) * g.s + (r + 1) - 1 = q * g.s + r
  <2> HIDE DEF c, q, r, h
  <2>1. q * g.s \in Int
    BY <1>1
  <2> QED BY <1>1, <1>2, <2>1
<1> QED BY <1>1, <1>3, <1>6, <1>7, <1>8

\* What AH=08h tells differs in the cylinders only, and is no more than the image has
\* unless that has none.
LEMMA ToldFits ==
  ASSUME NEW n \in Nat, n \in Known \/ n >= 255 * 63
  PROVE  Total(Told(ChsSize(n))) <= n
<1>1. CASE n \in Known
  <2>1. Total(Told(ChsSize(n))) = n
    BY <1>1, Z3 DEF Known, ChsSize, Told, Total
  <2> QED BY <2>1
<1>2. CASE n \notin Known /\ n >= 255 * 63
  <2> DEFINE c == n \div (255 * 63)
             d == (((IF c > 1024 THEN 1024 ELSE c) - 1) % 1024) + 1
  <2>1. c \in Int /\ c >= 1 /\ c * 255 * 63 <= n
    BY <1>2, Z3
  <2>2. d \in Int /\ d <= c
    <3> HIDE DEF c
    <3> QED BY <2>1, Z3
  <2>3. Told(ChsSize(n)) = [c |-> d, h |-> 255, s |-> 63]
    BY <1>2 DEF Known, ChsSize, Told
  <2>4. Total(Told(ChsSize(n))) = d * 255 * 63
    <3> HIDE DEF d, c
    <3> QED BY <2>3 DEF Total
  <2> HIDE DEF d, c
  <2> QED BY <2>1, <2>2, <2>4
<1> QED BY <1>1, <1>2

-------------------------------------------------------------------------------
(* The invariant *)

\* Images that are no drive in CHS addresses: smaller than one cylinder.
Small == base \notin Known /\ base < 255 * 63

\* Sizes are numbers, and so are the registers of a call.
Numbers ==
  /\ base \in Nat /\ image.size \in Nat /\ file.size \in Nat
  /\ geom.h \in Int /\ geom.s \in Int /\ (geom.h # 0 => 0 < geom.h /\ 0 < geom.s)
  /\ call.at \in Nat /\ call.len \in Nat /\ call.cx \in Int /\ call.dh \in Int

\* As long as nobody left the image, it is what it was and so is what the guest was told.
Unchanged ==
  ~outside =>
    /\ image.size = base
    /\ geom \in {NoGeometry, Told(ChsSize(base))} /\ lbas \in {0, base}

\* The call under way stays inside.
CallInside ==
  ~outside /\ ~careless =>
    /\ call.fn \in {"read", "write"} /\ ~Small =>
         Tolba(ParamsToChs(call.cx, call.dh), ChsSize(base)) + call.len <= base
    /\ call.fn \in {"ext_read", "ext_write"} => call.at + call.len <= base

DriveInv == Numbers /\ Unchanged /\ CallInside /\ (outside => careless \/ Small)

\* The guest begins with nothing told and nothing called.
LEMMA InitDrive == Init => DriveInv
<1> SUFFICES ASSUME Init PROVE DriveInv
  OBVIOUS
<1>1. base \in Nat /\ image.size = base /\ file.size = base
  <2>1. Sizes \subseteq Nat
    BY Int13Assumption
  <2>2. base \in Nat
    BY <2>1 DEF Init
  <2> QED BY <2>2 DEF Init
<1>2. Numbers
  BY <1>1 DEF Init, Numbers, NoGeometry, NoCall
<1> QED BY <1>1, <1>2 DEF Init, DriveInv, Unchanged, CallInside, NoCall

\* As long as nobody left the image, the registers of a CHS call say the sector that the
\* guest means.
LEMMA ChsCallNumber ==
  ASSUME DriveInv, ~outside, NEW a \in Addresses, NEW l, NEW o, NEW v, AccessesChs(a, l, o, v)
  PROVE  Tolba(ParamsToChs(call'.cx, call'.dh), ChsSize(base)) = a
<1> DEFINE g == LbaChs(a, geom)
<1>1. a \in Nat /\ base \in Nat
  BY Int13Assumption DEF DriveInv, Numbers
<1>2. geom = Told(ChsSize(base)) /\ geom.h # 0 /\ g.c < 1024
  BY DEF AccessesChs, NoGeometry, DriveInv, Unchanged
<1>3. geom.h = ChsSize(base).h /\ geom.s = ChsSize(base).s
  BY <1>1, <1>2, Geometries DEF Told
<1>4. call'.cx = Cx(g) /\ call'.dh = g.h
  BY <1>2 DEF AccessesChs, Requests
<1>5. Tolba(ParamsToChs(Cx(g), g.h), ChsSize(base)) = a
  <2> HIDE DEF g
  <2> QED BY <1>1, <1>2, <1>3, Geometries, AddressRoundTrip DEF g
<1> HIDE DEF g
<1> QED BY <1>4, <1>5

\* The guest makes a call.
LEMMA CallKeeps ==
  ASSUME DriveInv, NEW a \in Addresses, NEW l \in Lens, NEW o \in Offsets, NEW v,
         AccessesChs(a, l, o, v) \/ AccessesLba(a, l, o, v)
  PROVE  DriveInv'
<1> DEFINE g == LbaChs(a, geom)
<1>0. a \in Nat /\ l \in Nat
  <2>1. Addresses \subseteq Nat /\ Lens \subseteq 1 .. 127
    BY Int13Assumption
  <2>2. l \in 1 .. 127
    BY <2>1
  <2> QED BY <2>1, <2>2
<1>1. UNCHANGED <<inmem, file, image, base, geom, lbas, broken, outside>>
  BY DEF AccessesChs, AccessesLba, Requests
<1>2. /\ call'.at = a /\ call'.len = l
      /\ call'.cx = (IF geom.h = 0 THEN 0 ELSE Cx(g))
      /\ call'.dh = (IF geom.h = 0 THEN 0 ELSE g.h)
  BY DEF AccessesChs, AccessesLba, Requests
<1>3. ASSUME geom.h # 0
      PROVE  Cx(g) \in Int /\ g.h \in Int
  <2> DEFINE q == a \div geom.s
             r == a % geom.s
             c == q \div geom.h
  <2>1. 0 < geom.h /\ 0 < geom.s /\ geom.h \in Int /\ geom.s \in Int
    BY <1>3 DEF DriveInv, Numbers
  <2>2. q \in Int /\ q >= 0 /\ r \in Int
    BY <1>0, <2>1, DivMod
  <2>3. c \in Int /\ q % geom.h \in Int
    <3> HIDE DEF q
    <3> QED BY <2>1, <2>2, DivMod
  <2>4. g.c = c /\ g.h = q % geom.h /\ g.s = r + 1
    BY DEF LbaChs
  <2> HIDE DEF q, r, c, g
  <2> QED BY <2>2, <2>3, <2>4 DEF Cx
<1>4. Numbers'
  <2> HIDE DEF g
  <2> QED BY <1>0, <1>1, <1>2, <1>3 DEF DriveInv, Numbers
<1>5. Unchanged'
  BY <1>1 DEF DriveInv, Unchanged, NoGeometry
<1>6. (outside => careless \/ Small)'
  <2>1. Small' = Small
    BY <1>1 DEF Small
  <2>2. careless => careless'
    BY Zenon DEF AccessesChs, AccessesLba
  <2> QED BY <1>1, <2>1, <2>2, Zenon DEF DriveInv
<1>7. CallInside'
  <2> SUFFICES ASSUME ~outside, ~careless'
               PROVE  CallInside'
    BY <1>1 DEF CallInside
  <2>1. geom \in {NoGeometry, Told(ChsSize(base))} /\ lbas \in {0, base}
    BY DEF DriveInv, Unchanged
  <2>2. CASE AccessesChs(a, l, o, v)
    <3>1. geom = Told(ChsSize(base)) /\ geom.h # 0 /\ g.c < 1024
      BY <2>1, <2>2 DEF AccessesChs, NoGeometry
    <3>2. call'.fn \in {"read", "write"}
      BY <2>2 DEF AccessesChs, Requests
    <3>3. a + l <= Total(Told(ChsSize(base)))
      <4>1. ~(a + l > Total(geom))
        BY <2>2, Zenon DEF AccessesChs
      <4>2. Total(geom) \in Int
        <5>1. geom.h = ChsSize(base).h /\ geom.s = ChsSize(base).s
          BY <3>1, Geometries DEF Told, DriveInv, Numbers
        <5>2. geom.c \in Int
          BY <3>1, Geometries DEF Told, DriveInv, Numbers
        <5> QED BY <5>2 DEF DriveInv, Numbers, Total
      <4> QED BY <1>0, <3>1, <4>1, <4>2
    <3>4. Tolba(ParamsToChs(call'.cx, call'.dh), ChsSize(base)) = a
      BY <2>2, ChsCallNumber
    <3>5. ~Small => Total(Told(ChsSize(base))) <= base
      BY ToldFits DEF Small, DriveInv, Numbers
    <3>6. ~Small => a + l <= base
      <4>1. Total(Told(ChsSize(base))) \in Int
        BY Geometries DEF Told, Total, DriveInv, Numbers
      <4> QED BY <1>0, <3>3, <3>5, <4>1 DEF DriveInv, Numbers
    <3> HIDE DEF g
    <3> QED BY <1>1, <1>2, <3>2, <3>4, <3>6 DEF CallInside, Small
  <2>3. CASE AccessesLba(a, l, o, v)
    <3>1. call'.fn \in {"ext_read", "ext_write"}
      BY <2>3 DEF AccessesLba, Requests
    <3>2. lbas = base /\ ~(a + l > lbas)
      BY <2>1, <2>3 DEF AccessesLba
    <3>3. a + l <= base
      BY <1>0, <3>2 DEF DriveInv, Numbers
    <3> QED BY <1>1, <1>2, <3>1, <3>3 DEF CallInside
  <2> QED BY <2>2, <2>3
<1> QED BY <1>4, <1>5, <1>6, <1>7 DEF DriveInv

\* A call that asks or changes nothing is made or answered.
LEMMA AsksKeeps ==
  ASSUME DriveInv, NEW fn, fn \notin {"read", "write", "ext_read", "ext_write"}, Asks(fn)
  PROVE  DriveInv'
<1>1. UNCHANGED <<inmem, file, image, base, geom, lbas, broken, outside, careless>>
  BY DEF Asks, guest
<1>2. call'.fn = fn /\ call'.at = 0 /\ call'.len = 0 /\ call'.cx = 0 /\ call'.dh = 0
  BY DEF Asks, NoCall
<1>3. Numbers'
  BY <1>1, <1>2 DEF DriveInv, Numbers
<1> QED BY <1>1, <1>2, <1>3 DEF DriveInv, Unchanged, CallInside, Small

\* After a call there is none.
LEMMA NoCallInside == call' = NoCall => CallInside'
  BY DEF NoCall, CallInside

\* Telling the guest.
LEMMA TellsKeeps ==
  ASSUME DriveInv, GetChsCmd \/ ExtParams \/ OtherCmd
  PROVE  DriveInv'
<1>1. /\ UNCHANGED <<file, image, base, outside, careless>>
      /\ call' = NoCall
      /\ geom' \in {geom, Told(ChsSize(image.size))} /\ lbas' \in {lbas, image.size}
  BY DEF GetChsCmd, ExtParams, OtherCmd, guest
<1>2. Unchanged'
  BY <1>1 DEF DriveInv, Unchanged
<1>3. geom'.h \in Int /\ geom'.s \in Int /\ (geom'.h # 0 => 0 < geom'.h /\ 0 < geom'.s)
  <2>1. CASE geom' = geom
    BY <2>1 DEF DriveInv, Numbers
  <2>2. CASE geom' = Told(ChsSize(image.size))
    <3>1. geom'.h = ChsSize(image.size).h /\ geom'.s = ChsSize(image.size).s
      BY <2>2, Geometries DEF Told, DriveInv, Numbers
    <3> QED BY <3>1, Geometries DEF DriveInv, Numbers
  <2> QED BY <1>1, <2>1, <2>2
<1>4. Numbers'
  BY <1>1, <1>3 DEF DriveInv, Numbers, NoCall
<1> QED BY <1>1, <1>2, <1>4, NoCallInside DEF DriveInv, Small

\* Where a call's data are is a number.
LEMMA SectorNumber == Numbers => Sector \in Int
<1> SUFFICES ASSUME Numbers PROVE Sector \in Int
  OBVIOUS
<1> DEFINE g == ChsSize(image.size)
<1>1. g.c \in Int /\ g.h \in Int /\ g.s \in Int
  BY Geometries DEF Numbers
<1>2. ParamsToChs(call.cx, call.dh).c \in Int /\ ParamsToChs(call.cx, call.dh).h \in Int
      /\ ParamsToChs(call.cx, call.dh).s \in Int
  BY DEF ParamsToChs, Numbers
<1>3. Tolba(ParamsToChs(call.cx, call.dh), g) \in Int
  <2> HIDE DEF g
  <2> QED BY <1>1, <1>2 DEF Tolba
<1> QED BY <1>3 DEF Sector, Numbers

\* A read or write that leaves the image was made carelessly, or the image is small.
LEMMA LeavesForAReason ==
  ASSUME DriveInv, ~outside, GoesOutside, outside',
         call.fn \in {"read", "ext_read", "write", "ext_write"}
  PROVE  careless \/ Small
<1> SUFFICES ASSUME ~careless, ~Small PROVE FALSE
  OBVIOUS
<1>1. image.size = base
  BY DEF DriveInv, Unchanged
<1>2. CallInside /\ Numbers
  BY DEF DriveInv
<1>3. Sector + call.len <= base
  BY <1>1, <1>2 DEF CallInside, Sector
<1>4. Sector + call.len > image.size
  BY DEF GoesOutside
<1> QED BY <1>1, <1>2, <1>3, <1>4, SectorNumber DEF Numbers

\* A read changes nothing but the history.
LEMMA ReadKeeps == DriveInv /\ ReadCmd => DriveInv'
<1> SUFFICES ASSUME DriveInv, ReadCmd PROVE DriveInv'
  OBVIOUS
<1>1. UNCHANGED <<file, image, base, geom, lbas, careless>> /\ call' = NoCall
  BY DEF ReadCmd, guest
<1>2. outside => outside'
  BY DEF ReadCmd, GoesOutside
<1>3. Numbers' /\ Unchanged'
  BY <1>1, <1>2 DEF DriveInv, Numbers, Unchanged, NoCall
<1>4. outside' => careless \/ Small
  BY LeavesForAReason DEF ReadCmd, DriveInv
<1> QED BY <1>1, <1>3, <1>4, NoCallInside DEF DriveInv, Small

\* A write inside the image leaves its size.
LEMMA WriteKeeps == DriveInv /\ WriteCmd => DriveInv'
<1> SUFFICES ASSUME DriveInv, WriteCmd PROVE DriveInv'
  OBVIOUS
<1> DEFINE at == IF inmem /\ Sector > image.size THEN image.size ELSE Sector
<1>1. /\ UNCHANGED <<base, geom, lbas, careless>> /\ call' = NoCall
      /\ file' = (IF inmem THEN file ELSE image')
  BY DEF WriteCmd, guest
<1>2. image'.size = Grown(image, at, call.len)
  BY DEF WriteCmd, WriteAt
<1>3. Sector \in Int /\ image.size \in Nat /\ call.len \in Nat /\ file.size \in Nat
  BY SectorNumber DEF DriveInv, Numbers
<1>4. image'.size \in Nat
  BY <1>2, <1>3 DEF Grown
<1>5. file'.size \in Nat
  BY <1>1, <1>3, <1>4
<1>6. Numbers'
  BY <1>1, <1>4, <1>5 DEF DriveInv, Numbers, NoCall
<1>7. ~outside' => ~outside /\ image'.size = image.size
  <2> SUFFICES ASSUME ~outside' PROVE ~outside /\ image'.size = image.size
    OBVIOUS
  <2>1. outside' = (outside \/ Sector + call.len > image.size)
    BY DEF WriteCmd, GoesOutside
  <2>2. ~outside /\ ~(Sector + call.len > image.size)
    BY <2>1
  <2>3. at = Sector /\ ~(at + call.len > image.size)
    BY <1>3, <2>2
  <2> HIDE DEF at
  <2> QED BY <1>2, <2>2, <2>3 DEF Grown
<1>8. Unchanged'
  BY <1>1, <1>7 DEF DriveInv, Unchanged
<1>9. outside' => careless \/ Small
  BY LeavesForAReason DEF WriteCmd, DriveInv
<1> QED BY <1>1, <1>6, <1>8, <1>9, NoCallInside DEF DriveInv, Small

\* Every step.
LEMMA StepKeeps == DriveInv /\ [Next]_vars => DriveInv'
<1> SUFFICES ASSUME DriveInv, [Next]_vars PROVE DriveInv'
  OBVIOUS
<1>1. ASSUME NEW fn \in {"get_chs", "ext_params", "other"}, Asks(fn) PROVE DriveInv'
  BY <1>1, AsksKeeps
<1>2. ASSUME NEW a \in Addresses, NEW l \in Lens, NEW o \in Offsets,
             NEW v \in Values \cup {"old"},
             AccessesChs(a, l, o, v) \/ AccessesLba(a, l, o, v)
      PROVE  DriveInv'
  BY <1>2, CallKeeps
<1>3. CASE GetChsCmd \/ ExtParams \/ OtherCmd
  BY <1>3, TellsKeeps
<1>4. CASE ReadCmd
  BY <1>4, ReadKeeps
<1>5. CASE WriteCmd
  BY <1>5, WriteKeeps
<1>6. CASE Breaks
  BY <1>6 DEF Breaks, guest, DriveInv, Numbers, Unchanged, CallInside, Small
<1>7. CASE Restart
  <2>1. /\ file' = file /\ image' = file /\ base' = file.size /\ geom' = NoGeometry /\ lbas' = 0
        /\ call' = NoCall /\ outside' = FALSE
    BY <1>7 DEF Restart
  <2>2. Numbers'
    BY <2>1 DEF DriveInv, Numbers, NoGeometry, NoCall
  <2> QED BY <2>1, <2>2, NoCallInside DEF DriveInv, Unchanged
<1>8. CASE UNCHANGED vars
  BY <1>8 DEF vars, guest, DriveInv, Numbers, Unchanged, CallInside, Small
<1> QED BY <1>1, <1>2, <1>3, <1>4, <1>5, <1>6, <1>7, <1>8 DEF Next, Process

\* The invariant holds always.
LEMMA DriveAlways == Spec => []DriveInv
<1> QED BY InitDrive, StepKeeps, PTL DEF Spec

-------------------------------------------------------------------------------
\* For images and addresses of any size: a guest that keeps to what it was told leaves only
\* an image that is smaller than a cylinder and of no known size.
THEOREM OutsideForAReason == Spec => []StaysInside
<1>1. DriveInv => StaysInside
  BY DEF DriveInv, Small, StaysInside, Known
<1> QED BY <1>1, DriveAlways, PTL

\* What the guest was told is true until somebody leaves the image.
THEOREM ToldIsTrue == Spec => []GeometryKept
<1>1. DriveInv => GeometryKept
  BY DEF DriveInv, Unchanged, GeometryKept
<1> QED BY <1>1, DriveAlways, PTL

-------------------------------------------------------------------------------
(* The types *)

\* An image holds something at numbers of sectors only, all below its size.
ImageOK(img) ==
  /\ img.size \in Nat \ {0} /\ DOMAIN img.data \subseteq Int
  /\ \A b \in DOMAIN img.data : b < img.size

FlagsOK == inmem \in BOOLEAN /\ broken \in BOOLEAN /\ careless \in BOOLEAN /\ outside \in BOOLEAN

GeomOK ==
  /\ AtMost(geom.c, 1024) /\ AtMost(geom.h, 255) /\ AtMost(geom.s, 63)
  /\ geom = NoGeometry \/ 0 \notin {geom.c, geom.h, geom.s}

Registers(cx, dh) == AtMost(cx, 65535) /\ AtMost(dh, 255) /\ (cx % 64 # 0 \/ cx = 0)

RegistersOK == Registers(call.cx, call.dh)

Typed ==
  /\ FlagsOK /\ ImageOK(file) /\ ImageOK(image) /\ base \in Nat \ {0}
  /\ GeomOK /\ lbas \in Nat /\ writes \in 0 .. MaxWrites /\ RegistersOK

\* What AH=08h tells fits the registers, also of an image without a cylinder.
LEMMA ToldRange ==
  ASSUME NEW n \in Nat, geom' = Told(ChsSize(n))
  PROVE  GeomOK'
<1> DEFINE g == ChsSize(n)
           t == IF g.c > 1024 THEN 1024 ELSE g.c
           u == (t - 1) % 1024
<1>1. /\ g = [c |-> g.c, h |-> g.h, s |-> g.s]
      /\ g.c \in Int /\ g.c >= 0
      /\ g.h \in Int /\ 0 < g.h /\ g.h <= 255
      /\ g.s \in Int /\ 0 < g.s /\ g.s <= 63
  BY Geometries
<1>2. geom'.c = u + 1 /\ geom'.h = g.h /\ geom'.s = g.s
  <2>1. geom' = [g EXCEPT !.c = u + 1]
    BY DEF Told
  <2> HIDE DEF g, u
  <2> QED BY <1>1, <2>1
<1>3. t - 1 \in Int
  <2> HIDE DEF g
  <2> QED BY <1>1
<1>4. u \in Int /\ u >= 0 /\ u < 1024
  <2> HIDE DEF t
  <2> QED BY <1>3
<1> HIDE DEF g, u
<1> QED BY <1>1, <1>2, <1>4 DEF GeomOK, AtMost

\* A remainder is what is left of a multiple.
LEMMA ModOfSum ==
  ASSUME NEW s \in Nat, 0 < s, s < 64, NEW k \in Nat
  PROVE  (s + k * 64) % 64 = s
<1> DEFINE y == s + k * 64
<1>1. y \in Int /\ y >= 0 /\ y = s + k * 64
  OBVIOUS
<1> HIDE DEF y
<1> DEFINE d == y \div 64
           r == y % 64
<1>2. d \in Int /\ r \in Int /\ r >= 0 /\ r < 64 /\ y = d * 64 + r
  BY <1>1, DivMod
<1> HIDE DEF d, r
<1>3. r = s
  BY <1>1, <1>2
<1> QED BY <1>3, Zenon DEF y, r

\* CX holds ten bits of the cylinder and a sector that is not 0, for any cylinder.
LEMMA CxRange ==
  ASSUME NEW c \in Nat, NEW s \in Nat, 0 < s, s < 64, NEW x, x.c = c, x.s = s
  PROVE  AtMost(Cx(x), 65535) /\ Cx(x) % 64 # 0
<1> DEFINE q == c \div 256
           hi == q % 4
           lo == c % 256
<1>1. q \in Int /\ q >= 0 /\ lo \in Int /\ lo >= 0 /\ lo < 256
  BY DivMod
<1>2. hi \in Int /\ hi >= 0 /\ hi < 4
  <2> HIDE DEF q
  <2> QED BY <1>1, DivMod DEF q
<1>3. Cx(x) = s + hi * 64 + lo * 256
  BY DEF Cx
<1> HIDE DEF q, hi, lo
<1>4. hi + lo * 4 \in Nat /\ Cx(x) = s + (hi + lo * 4) * 64
  BY <1>1, <1>2, <1>3
<1>5. Cx(x) % 64 = s
  BY <1>4, ModOfSum
<1>6. AtMost(Cx(x), 65535)
  BY <1>1, <1>2, <1>3 DEF AtMost
<1> QED BY <1>5, <1>6

\* The registers that the guest makes of a sector number, for any geometry it was told.
LEMMA RegistersRange ==
  ASSUME NEW a \in Nat, GeomOK, geom.h # 0
  PROVE  Registers(Cx(LbaChs(a, geom)), LbaChs(a, geom).h)
<1> DEFINE q == a \div geom.s
           r == a % geom.s
           x == LbaChs(a, geom)
           c == x.c
           s == x.s
<1>1. geom.h \in Int /\ 0 < geom.h /\ geom.h <= 255 /\ geom.s \in Int /\ 0 < geom.s /\ geom.s <= 63
  BY DEF GeomOK, NoGeometry, AtMost
<1>2. q \in Int /\ q >= 0 /\ r \in Int /\ r >= 0 /\ r < geom.s
  BY <1>1, DivMod
<1>3. q \div geom.h \in Int /\ q \div geom.h >= 0 /\ q % geom.h \in Int /\ q % geom.h >= 0
      /\ q % geom.h < geom.h
  <2> HIDE DEF q
  <2> QED BY <1>1, <1>2, DivMod
<1>4. x.c = q \div geom.h /\ x.h = q % geom.h /\ x.s = r + 1
  BY DEF LbaChs
<1> HIDE DEF q, r, x
<1>5. c \in Nat /\ s \in Nat /\ 0 < s /\ s < 64 /\ AtMost(x.h, 255) /\ x.c = c /\ x.s = s
  BY <1>1, <1>2, <1>3, <1>4 DEF AtMost
<1> HIDE DEF c, s
<1>6. AtMost(Cx(x), 65535) /\ Cx(x) % 64 # 0
  BY <1>5, CxRange
<1> QED BY <1>5, <1>6 DEF x, Registers

\* A write leaves an image, whether it is inside, at the end or past it.
LEMMA WrittenImage ==
  ASSUME NEW img, ImageOK(img), NEW a \in Int, NEW l \in Nat, NEW v
  PROVE  ImageOK(WriteAt(img, a, l, v))
<1> DEFINE at == IF inmem /\ a > img.size THEN img.size ELSE a
           w == WriteAt(img, a, l, v)
<1>1. at \in Int /\ img.size \in Nat \ {0}
  BY DEF ImageOK
<1>2. w.size = Grown(img, at, l) /\ DOMAIN w.data = DOMAIN img.data \cup (at .. at + l - 1)
  BY DEF WriteAt
<1> HIDE DEF at, w
<1>3. w.size \in Nat \ {0} /\ w.size >= img.size /\ w.size >= at + l
  BY <1>1, <1>2 DEF Grown
<1>4. DOMAIN w.data \subseteq Int /\ \A b \in DOMAIN w.data : b < w.size
  BY <1>1, <1>2, <1>3 DEF ImageOK
<1> QED BY <1>3, <1>4 DEF ImageOK, w

\* The initial states have the types.
LEMMA TypedInit == Init => Typed
<1> SUFFICES ASSUME Init PROVE Typed
  OBVIOUS
<1>1. FlagsOK
  BY Zenon DEF Init, FlagsOK
<1>2. base \in Nat \ {0} /\ file = [size |-> base, data |-> << >>] /\ image = file
  <2>1. Sizes \subseteq Nat \ {0}
    BY Int13Assumption
  <2> QED BY <2>1 DEF Init
<1>3. ImageOK(file) /\ ImageOK(image)
  <2>1. DOMAIN file.data = {}
    BY <1>2
  <2> QED BY <1>2, <2>1 DEF ImageOK
<1>4. GeomOK /\ RegistersOK /\ lbas \in Nat
  BY DEF Init, GeomOK, RegistersOK, Registers, AtMost, NoGeometry, NoCall
<1>5. writes \in 0 .. MaxWrites
  <2>1. MaxWrites \in Nat
    BY Int13Assumption
  <2> QED BY <2>1 DEF Init
<1> QED BY <1>1, <1>2, <1>3, <1>4, <1>5 DEF Typed

\* The flags stay flags.
LEMMA FlagsStep == FlagsOK /\ [Next]_vars => FlagsOK'
<1> SUFFICES ASSUME FlagsOK, [Next]_vars PROVE FlagsOK'
  OBVIOUS
<1> USE DEF FlagsOK, guest
<1>1. ASSUME NEW fn, Asks(fn) PROVE FlagsOK'
  BY <1>1, Zenon DEF Asks
<1>2. ASSUME NEW a, NEW l, NEW o, NEW v, AccessesChs(a, l, o, v) \/ AccessesLba(a, l, o, v)
      PROVE  FlagsOK'
  <2>1. /\ careless' = (careless \/ a + l > Total(geom)) \/ careless' = (careless \/ a + l > lbas)
        /\ UNCHANGED <<inmem, broken, outside>>
    BY <1>2 DEF AccessesChs, AccessesLba, Requests
  <2> QED BY <2>1, Zenon
<1>3. CASE GetChsCmd \/ ExtParams \/ OtherCmd
  BY <1>3, Zenon DEF GetChsCmd, ExtParams, OtherCmd
<1>4. CASE ReadCmd \/ WriteCmd
  <2>1. outside' = (outside \/ Sector + call.len > image.size) /\ UNCHANGED <<inmem, broken, careless>>
    BY <1>4, Zenon DEF ReadCmd, WriteCmd, GoesOutside
  <2> QED BY <2>1, Zenon
<1>5. CASE Breaks \/ Restart
  BY <1>5, Zenon DEF Breaks, Restart
<1>6. CASE UNCHANGED vars
  BY <1>6, Zenon DEF vars
<1> QED BY <1>1, <1>2, <1>3, <1>4, <1>5, <1>6 DEF Next, Process

\* A call leaves the image alone, and its registers fit.
LEMMA TypedCall ==
  ASSUME Typed, FlagsOK', NEW a \in Addresses, NEW l \in Lens, NEW o \in Offsets, NEW v,
         v = "old" \/ writes < MaxWrites,
         AccessesChs(a, l, o, v) \/ AccessesLba(a, l, o, v)
  PROVE  Typed'
<1>1. UNCHANGED <<file, image, base, geom, lbas>>
  BY DEF AccessesChs, AccessesLba, Requests
<1>2. RegistersOK'
  <2>1. /\ call'.cx = (IF geom.h = 0 THEN 0 ELSE Cx(LbaChs(a, geom)))
        /\ call'.dh = (IF geom.h = 0 THEN 0 ELSE LbaChs(a, geom).h)
    BY DEF AccessesChs, AccessesLba, Requests
  <2>2. CASE geom.h = 0
    BY <2>1, <2>2 DEF RegistersOK, Registers, AtMost
  <2>3. CASE geom.h # 0
    <3>1. a \in Nat
      BY Int13Assumption
    <3>2. call'.cx = Cx(LbaChs(a, geom)) /\ call'.dh = LbaChs(a, geom).h
      BY <2>1, <2>3
    <3>3. Registers(Cx(LbaChs(a, geom)), LbaChs(a, geom).h)
      BY <2>3, <3>1, RegistersRange DEF Typed
    <3> QED BY <3>2, <3>3 DEF RegistersOK
  <2> QED BY <2>2, <2>3
<1>3. writes' \in 0 .. MaxWrites
  <2>1. writes' = (IF v = "old" THEN writes ELSE writes + 1)
    BY DEF AccessesChs, AccessesLba, Requests
  <2>2. MaxWrites \in Nat
    BY Int13Assumption
  <2> QED BY <2>1, <2>2 DEF Typed
<1> QED BY <1>1, <1>2, <1>3 DEF Typed, ImageOK, GeomOK

\* Every step keeps the types.
LEMMA TypedStep == DriveInv /\ Typed /\ [Next]_vars => Typed'
<1> SUFFICES ASSUME DriveInv, Typed, [Next]_vars PROVE Typed'
  OBVIOUS
<1>0. FlagsOK'
  BY FlagsStep DEF Typed
<1>1. ASSUME call' = NoCall PROVE RegistersOK'
  BY <1>1 DEF RegistersOK, Registers, AtMost, NoCall
<1>2. ASSUME NEW fn, Asks(fn) PROVE Typed'
  <2>1. UNCHANGED <<file, image, base, geom, lbas, writes>> /\ call'.cx = 0 /\ call'.dh = 0
    BY <1>2 DEF Asks, guest, NoCall
  <2>2. RegistersOK'
    BY <2>1 DEF RegistersOK, Registers, AtMost
  <2> QED BY <1>0, <2>1, <2>2 DEF Typed, ImageOK, GeomOK
<1>3. ASSUME NEW a \in Addresses, NEW l \in Lens, NEW o \in Offsets,
             NEW v \in Values \cup {"old"}, v = "old" \/ writes < MaxWrites,
             AccessesChs(a, l, o, v) \/ AccessesLba(a, l, o, v)
      PROVE  Typed'
  BY <1>0, <1>3, TypedCall
<1>4. CASE GetChsCmd
  <2>1. geom' = Told(ChsSize(image.size)) /\ image.size \in Nat /\ call' = NoCall
        /\ UNCHANGED <<file, image, base, lbas, writes>>
    BY <1>4 DEF GetChsCmd, Typed, ImageOK
  <2>2. GeomOK'
    BY <2>1, ToldRange
  <2> QED BY <1>0, <1>1, <2>1, <2>2 DEF Typed, ImageOK
<1>5. CASE ExtParams \/ OtherCmd
  <2>1. lbas' \in {lbas, image.size} /\ call' = NoCall /\ UNCHANGED <<file, image, base, geom, writes>>
    BY <1>5 DEF ExtParams, OtherCmd, guest
  <2>2. lbas' \in Nat
    BY <2>1 DEF Typed, ImageOK
  <2> QED BY <1>0, <1>1, <2>1, <2>2 DEF Typed, ImageOK, GeomOK
<1>6. CASE ReadCmd
  <2>1. call' = NoCall /\ UNCHANGED <<file, image, base, geom, lbas, writes>>
    BY <1>6 DEF ReadCmd, guest
  <2> QED BY <1>0, <1>1, <2>1 DEF Typed, ImageOK, GeomOK
<1>7. CASE WriteCmd
  <2>1. /\ call' = NoCall /\ UNCHANGED <<base, geom, lbas, writes>>
        /\ image' = WriteAt(image, Sector, call.len, call.v)
        /\ file' \in {file, image'}
    BY <1>7 DEF WriteCmd, guest
  <2>2. Sector \in Int /\ call.len \in Nat
    BY SectorNumber DEF DriveInv, Numbers
  <2>3. ImageOK(WriteAt(image, Sector, call.len, call.v))
    BY <2>2, WrittenImage DEF Typed
  <2>4. ImageOK(image')
    BY <2>1, <2>3
  <2>5. ImageOK(file')
    BY <2>1, <2>4 DEF Typed
  <2>6. ImageOK(image)' /\ ImageOK(file)'
    BY <2>4, <2>5 DEF ImageOK
  <2> QED BY <1>0, <1>1, <2>1, <2>6 DEF Typed, GeomOK
<1>8. CASE Breaks
  BY <1>0, <1>8 DEF Breaks, guest, Typed, ImageOK, GeomOK, RegistersOK
<1>9. CASE Restart
  <2>1. /\ file' = file /\ image' = file /\ base' = file.size /\ geom' = NoGeometry /\ lbas' = 0
        /\ call' = NoCall /\ writes' = writes
    BY <1>9 DEF Restart
  <2>2. GeomOK'
    BY <2>1 DEF GeomOK, NoGeometry, AtMost
  <2> QED BY <1>0, <1>1, <2>1, <2>2 DEF Typed, ImageOK
<1>10. CASE UNCHANGED vars
  BY <1>0, <1>10 DEF vars, guest, Typed, ImageOK, GeomOK, RegistersOK
<1> QED BY <1>2, <1>3, <1>4, <1>5, <1>6, <1>7, <1>8, <1>9, <1>10 DEF Next, Process

\* The types hold always.
LEMMA TypedAlways == Spec => []Typed
<1> QED BY TypedInit, TypedStep, InitDrive, StepKeeps, PTL DEF Spec

\* For images and addresses of any size, every register a guest makes of a sector number
\* fits, what it is told fits the registers, and an image holds nothing past its end
\* (int13handler.py:22-119, nbd.py:24-52, chssize.py:1-18).
THEOREM Int13Types == Spec => []TypeOK
<1>1. Typed => TypeOK
  BY DEF Typed, FlagsOK, ImageOK, GeomOK, RegistersOK, Registers, TypeOK, IsImage
<1> QED BY <1>1, TypedAlways, PTL

-------------------------------------------------------------------------------
(* The drive *)

\* A restart finds the file; the call under way is for a sector the guest means, and as long
\* as nobody left the image its registers say so.
ImageInv ==
  /\ inmem => file.data = << >>
  /\ ~inmem => file = image
  /\ call.fn \in {"read", "ext_read", "write", "ext_write"} =>
       call.at \in Addresses /\ call.len \in Lens
  /\ call.fn \in {"write", "ext_write"} => call.v \in Values
  /\ ~outside /\ call.fn \in {"read", "write"} =>
       Tolba(ParamsToChs(call.cx, call.dh), ChsSize(base)) = call.at

\* Nothing was written and nothing called.
LEMMA InitImage == Init => ImageInv
  BY DEF Init, ImageInv, NoCall

\* Without a call, only the file matters.
LEMMA NoCallImage ==
  ASSUME call' = NoCall, (inmem => file.data = << >>)', (~inmem => file = image)'
  PROVE  ImageInv'
<1> QED BY DEF ImageInv, NoCall

\* A call is for a sector the guest means.
LEMMA CallImage ==
  ASSUME DriveInv, ImageInv, NEW a \in Addresses, NEW l \in Lens, NEW o \in Offsets,
         NEW v \in Values \cup {"old"}, AccessesChs(a, l, o, v) \/ AccessesLba(a, l, o, v)
  PROVE  ImageInv'
<1>1. UNCHANGED <<inmem, file, image, base, outside>>
  BY DEF AccessesChs, AccessesLba, Requests
<1>2. call'.at = a /\ call'.len = l /\ call'.v = v
  BY DEF AccessesChs, AccessesLba, Requests
<1>3. call'.fn \in {"write", "ext_write"} => v # "old"
  BY DEF AccessesChs, AccessesLba, Requests
<1>4. ~outside /\ call'.fn \in {"read", "write"} =>
        Tolba(ParamsToChs(call'.cx, call'.dh), ChsSize(base)) = a
  BY ChsCallNumber DEF AccessesLba, Requests
<1> QED BY <1>1, <1>2, <1>3, <1>4 DEF ImageInv

\* Every step keeps this.
LEMMA ImageStep == DriveInv /\ ImageInv /\ [Next]_vars => ImageInv'
<1> SUFFICES ASSUME DriveInv, ImageInv, [Next]_vars PROVE ImageInv'
  OBVIOUS
<1>1. ASSUME NEW fn \in {"get_chs", "ext_params", "other"}, Asks(fn) PROVE ImageInv'
  BY <1>1 DEF Asks, NoCall, ImageInv
<1>2. ASSUME NEW a \in Addresses, NEW l \in Lens, NEW o \in Offsets,
             NEW v \in Values \cup {"old"},
             AccessesChs(a, l, o, v) \/ AccessesLba(a, l, o, v)
      PROVE  ImageInv'
  BY <1>2, CallImage
<1>3. CASE GetChsCmd \/ ExtParams \/ OtherCmd \/ ReadCmd
  BY <1>3, NoCallImage DEF GetChsCmd, ExtParams, OtherCmd, ReadCmd, ImageInv
<1>4. CASE WriteCmd
  BY <1>4, NoCallImage DEF WriteCmd, ImageInv
<1>5. CASE Breaks
  BY <1>5 DEF Breaks, ImageInv
<1>6. CASE Restart
  BY <1>6, NoCallImage DEF Restart, ImageInv
<1>7. CASE UNCHANGED vars
  BY <1>7 DEF vars, ImageInv
<1> QED BY <1>1, <1>2, <1>3, <1>4, <1>5, <1>6, <1>7 DEF Next, Process

\* A call that stays inside is for the sectors asked for.
LEMMA SectorsAsked ==
  ASSUME DriveInv, ImageInv, GoesOutside, ~outside',
         call.fn \in {"read", "ext_read", "write", "ext_write"}
  PROVE  Sector = call.at /\ Sector + call.len <= image.size /\ image.size \in Nat
<1>1. ~outside /\ ~(Sector + call.len > image.size)
  BY DEF GoesOutside
<1>2. image.size = base
  BY <1>1 DEF DriveInv, Unchanged
<1>3. Sector = call.at
  BY <1>1, <1>2 DEF ImageInv, Sector
<1>4. Sector \in Int /\ call.len \in Nat /\ image.size \in Nat
  BY SectorNumber DEF DriveInv, Numbers
<1> QED BY <1>1, <1>3, <1>4

\* The sectors of a call are among those that are followed.
LEMMA CallBlocks ==
  ASSUME NEW a \in Addresses, NEW l \in Lens
  PROVE  /\ l \in Nat /\ a \in Nat /\ a \in Blocks /\ a + l - 1 \in Blocks
         /\ \A k \in 1 .. l : a + k - 1 \in Blocks
<1>1. l \in 1 .. 127
  BY Int13Assumption
<1>2. ASSUME NEW k \in 1 .. l PROVE a + k - 1 \in Blocks
  <2>1. k \in UNION {1 .. n : n \in Lens}
    OBVIOUS
  <2> HIDE DEF Blocks
  <2>2. \A m \in UNION {1 .. n : n \in Lens} : a + m - 1 \in Blocks
    BY DEF Blocks
  <2> QED BY <2>1, <2>2
<1> HIDE DEF Blocks
<1>3. a \in Nat /\ l >= 1
  BY <1>1, Int13Assumption
<1>4. 1 \in 1 .. l /\ l \in 1 .. l /\ a + 1 - 1 = a
  BY <1>1, <1>3
<1>5. a + 1 - 1 \in Blocks /\ a + l - 1 \in Blocks
  BY <1>2, <1>4
<1> QED BY <1>1, <1>2, <1>3, <1>4, <1>5

\* The sectors that are followed are numbers.
LEMMA BlocksAreNumbers == \A b \in Blocks : b \in Int
<1> SUFFICES ASSUME NEW a \in Addresses, NEW l \in Lens, NEW k \in 1 .. l
             PROVE  a + k - 1 \in Int
  BY DEF Blocks
<1> QED BY Int13Assumption

\* What a write inside the image leaves is what it wrote where it wrote, and else what was
\* there.
LEMMA WrittenContent ==
  ASSUME NEW img, NEW a \in Int, NEW l \in Nat, NEW v, NEW b \in Int,
         img.size \in Nat, a + l <= img.size
  PROVE  Content(WriteAt(img, a, l, v), b) = IF b \in a .. a + l - 1 THEN v ELSE Content(img, b)
<1> DEFINE new == a .. a + l - 1
<1>1. WriteAt(img, a, l, v).data
        = [c \in DOMAIN img.data \cup new |-> IF c \in new THEN v ELSE img.data[c]]
  BY DEF WriteAt
<1> HIDE DEF new
<1>2. CASE b \in new
  BY <1>1, <1>2 DEF Content, new
<1>3. CASE b \notin new
  BY <1>1, <1>3 DEF Content, new
<1> QED BY <1>2, <1>3

\* A read that stays inside reads the drive.
LEMMA ReadRefines ==
  ASSUME DriveInv, ImageInv, ReadCmd, ~outside'
  PROVE  Drive!Next
<1> DEFINE a == call.at
           l == call.len
           d == [b \in Blocks |-> Content(image, b)]
<1>1. /\ call.fn \in {"read", "ext_read"} /\ GoesOutside /\ UNCHANGED <<inmem, image>>
      /\ answer' = [at |-> a, data |-> ReadAt(image, Sector, l)]
  BY DEF ReadCmd
<1>2. a \in Addresses /\ l \in Lens
  BY <1>1 DEF ImageInv
<1>3. l \in Nat /\ a \in Nat /\ a \in Blocks /\ a + l - 1 \in Blocks
  BY <1>2, CallBlocks
<1>4. Sector = a /\ a + l <= image.size
  BY <1>1, SectorsAsked
<1> HIDE DEF a, l
<1>5. ReadAt(image, Sector, l) = [k \in 1 .. l |-> d[a + k - 1]]
  <2>1. \A k \in 1 .. l : d[a + k - 1] = Content(image, a + k - 1)
    BY <1>2, CallBlocks DEF a, l
  <2> QED BY <1>3, <1>4, <2>1 DEF ReadAt
<1>6. Drive!Read(a, l)
  BY <1>1, <1>3, <1>5 DEF Drive!Read
<1> QED BY <1>2, <1>3, <1>6 DEF Drive!Next

\* A write that stays inside writes the drive.
LEMMA WriteRefines ==
  ASSUME DriveInv, ImageInv, WriteCmd, ~outside'
  PROVE  Drive!Next
<1> DEFINE a == call.at
           l == call.len
           v == call.v
<1>1. /\ call.fn \in {"write", "ext_write"} /\ GoesOutside /\ inmem' = inmem
      /\ answer' = [at |-> a, data |-> << >>]
      /\ image' = WriteAt(image, Sector, l, v)
  BY DEF WriteCmd
<1>2. a \in Addresses /\ l \in Lens /\ v \in Values
  BY <1>1 DEF ImageInv
<1>3. l \in Nat /\ a \in Nat /\ a \in Blocks /\ a + l - 1 \in Blocks
  BY <1>2, CallBlocks
<1>4. Sector = a /\ a + l <= image.size /\ image.size \in Nat
  BY <1>1, SectorsAsked
<1> HIDE DEF a, l, v
<1>5. \A b \in Blocks : b \in Int
  BY BlocksAreNumbers
<1>6. \A b \in Blocks :
        Content(image', b) = IF b \in a .. a + l - 1 THEN v ELSE Content(image, b)
  BY <1>1, <1>3, <1>4, <1>5, WrittenContent
<1>7. Drive!Write(a, l, v)
  BY <1>1, <1>6 DEF Drive!Write
<1> QED BY <1>2, <1>3, <1>7 DEF Drive!Next

\* A restart starts the drive again: an image in memory is as the file was, and the file
\* has all that was written.
LEMMA RestartRefines ==
  ASSUME ImageInv, Restart
  PROVE  Drive!Next
<1>1. image' = file /\ answer' = NoAnswer /\ inmem' = inmem
  BY DEF Restart
<1>2. CASE inmem
  <2>1. \A b \in Blocks : Content(image', b) = "old"
    BY <1>1, <1>2 DEF ImageInv, Content
  <2> QED BY <1>1, <1>2, <2>1 DEF Drive!Next, Drive!Restarted, Drive!Fresh, Drive!NoAnswer, NoAnswer
<1>3. CASE ~inmem
  BY <1>1, <1>3 DEF ImageInv, Drive!Next, Drive!Restarted, Drive!NoAnswer, NoAnswer
<1> QED BY <1>2, <1>3

\* Every step that leaves the accesses inside is one of the drive, or leaves it alone.
LEMMA StepRefines ==
  DriveInv /\ ImageInv /\ [Next]_vars => outside' \/ [Drive!Next]_(Drive!vars)
<1> SUFFICES ASSUME DriveInv, ImageInv, [Next]_vars, ~outside'
             PROVE  [Drive!Next]_(Drive!vars)
  OBVIOUS
<1>1. CASE answer' = NoAnswer /\ UNCHANGED <<inmem, image>>
  BY <1>1 DEF Drive!Next, Drive!Taken, Drive!NoAnswer, NoAnswer
<1>2. CASE UNCHANGED <<inmem, image, answer>>
  BY <1>2 DEF Drive!vars
<1>3. ASSUME NEW fn, Asks(fn) PROVE [Drive!Next]_(Drive!vars)
  BY <1>1, <1>3 DEF Asks
<1>4. ASSUME NEW a, NEW l, NEW o, NEW v, AccessesChs(a, l, o, v) \/ AccessesLba(a, l, o, v)
      PROVE  [Drive!Next]_(Drive!vars)
  BY <1>1, <1>4 DEF AccessesChs, AccessesLba, Requests
<1>5. CASE GetChsCmd \/ ExtParams \/ OtherCmd \/ Breaks
  BY <1>2, <1>5 DEF GetChsCmd, ExtParams, OtherCmd, Breaks
<1>6. CASE ReadCmd
  BY <1>6, ReadRefines
<1>7. CASE WriteCmd
  BY <1>7, WriteRefines
<1>8. CASE Restart
  BY <1>8, RestartRefines
<1>9. CASE UNCHANGED vars
  BY <1>2, <1>9 DEF vars
<1> QED BY <1>3, <1>4, <1>5, <1>6, <1>7, <1>8, <1>9 DEF Next, Process

\* For images, addresses and values of any kind: until a call goes past the end of the
\* image, the server shows the guest a drive, whole reads of what was last written to the
\* very sectors asked for, also after a restart (int13handler.py:59-119, inmememu.py:5-23,
\* imageemu.py:5-24).
THEOREM ServesADrive == Spec => ImplementsDisk
<1>1. Init => Drive!Init
  BY DEF Init, Drive!Init, Drive!Fresh, Drive!NoAnswer, NoAnswer, Content
<1>2. Init => DriveInv /\ ImageInv
  BY InitDrive, InitImage
<1>3. DriveInv /\ ImageInv /\ [Next]_vars => DriveInv' /\ ImageInv'
  BY StepKeeps, ImageStep
<1>4. DriveInv /\ ImageInv /\ [Next]_vars => outside' \/ [Drive!Next]_(Drive!vars)
  BY StepRefines
<1> QED BY <1>1, <1>2, <1>3, <1>4, PTL DEF Spec, ImplementsDisk
===============================================================================
