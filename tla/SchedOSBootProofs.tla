-------------------------- MODULE SchedOSBootProofs -------------------------
(***************************************************************************)
(* Proofs about how programs come into memory: the disk that mkbootdisk    *)
(* writes (SchedOSDisk), and the loaders that read it (SchedOSBoot).       *)
(***************************************************************************)
EXTENDS SchedOSBoot, SchedOSNaturals, SequenceTheorems

-----------------------------------------------------------------------------
(***************************************************************************)
(* mkbootdisk writes the image it is asked for, for any files and however  *)
(* write() takes what it is given.                                         *)
(*                                                                         *)
(* The image is put together argument by argument, Parts.  PlaceInv says   *)
(* how much of it is written at each place of main(), CountInv that        *)
(* nsectors keeps step.                                                    *)
(***************************************************************************)

Contents == Seq(Cells)

LEMMA CellsAssociate == \A x, y, z \in Seq(Cells) : (x \o y) \o z = x \o (y \o z)
BY ConcatAssociative

LEMMA ZerosSeq ==
  ASSUME DiskAssumption, NEW n \in Nat
  PROVE  Zeros(n) \in Contents /\ Len(Zeros(n)) = n
<1>1. Zeros(n) \in [1 .. n -> Cells]
  BY DEF DiskAssumption, Zeros
<1> QED BY <1>1 DEF Contents

LEMMA ZerosAdd ==
  ASSUME DiskAssumption, NEW n \in Nat, NEW m \in Nat
  PROVE  Zeros(n) \o Zeros(m) = Zeros(n + m)
<1>1. PICK y, z : y = Zeros(n) /\ z = Zeros(m)
  OBVIOUS
<1>2. y \in Seq(Cells) /\ Len(y) = n /\ z \in Seq(Cells) /\ Len(z) = m
  BY <1>1, ZerosSeq DEF Contents
<1>3. /\ y \o z \in Seq(Cells) /\ Len(y \o z) = n + m
      /\ \A k \in 1 .. n + m : (y \o z)[k] = IF k <= n THEN y[k] ELSE z[k - n]
  <2>1. /\ y \o z \in Seq(Cells) /\ Len(y \o z) = Len(y) + Len(z)
        /\ \A k \in 1 .. Len(y) + Len(z) :
             (y \o z)[k] = IF k <= Len(y) THEN y[k] ELSE z[k - Len(y)]
    BY <1>2, ConcatProperties
  <2> QED BY <1>2, <2>1
<1>4. ASSUME NEW k \in 1 .. n + m PROVE (y \o z)[k] = Zeros(n + m)[k]
  <2>1. Zeros(n + m)[k] = 0 /\ (k <= n => y[k] = 0) /\ (~ (k <= n) => z[k - n] = 0)
    BY <1>1 DEF Zeros
  <2>2. (y \o z)[k] = IF k <= n THEN y[k] ELSE z[k - n]
    BY <1>3
  <2> QED BY <2>1, <2>2
<1>5. Zeros(n + m) \in Seq(Cells) /\ Len(Zeros(n + m)) = n + m
  BY ZerosSeq, n + m \in Nat DEF Contents
<1>6. y \o z = Zeros(n + m)
  BY <1>3, <1>4, <1>5, SeqEqual
<1> QED BY <1>1, <1>6

(* The padding that Pad computes is the one that fills the last sector.      *)
LEMMA PaddingAmount ==
  ASSUME DiskAssumption, NEW n \in Nat
  PROVE  /\ (-n) % SECTORSIZE \in Nat
         /\ (-n) % SECTORSIZE = IF n % SECTORSIZE # 0 THEN SECTORSIZE - (n % SECTORSIZE) ELSE 0
         /\ \E k \in Nat : n + ((-n) % SECTORSIZE) = k * SECTORSIZE
<1>1. SECTORSIZE \in Nat \ {0}
  BY DEF DiskAssumption
<1> QED BY <1>1, DivisionOfNegative

LEMMA SectorsSeq ==
  ASSUME DiskAssumption, NEW q \in Contents
  PROVE  Sectors(q) \in Contents
<1>1. (-Len(q)) % SECTORSIZE \in Nat
  BY LenProperties, PaddingAmount DEF Contents
<1> QED BY <1>1, ZerosSeq, ConcatProperties DEF Sectors, Contents

LEMMA FirstFrom ==
  ASSUME NEW S, NEW q \in Seq(S), NEW n \in Nat
  PROVE  /\ First(q, n) \in Seq(S) /\ From(q, n) \in Seq(S)
         /\ First(q, n) \o From(q, n) = q
         /\ Len(First(q, n)) = IF n < Len(q) THEN n ELSE Len(q)
         /\ Len(From(q, n)) = IF n < Len(q) THEN Len(q) - n ELSE 0
<1>1. Len(q) \in Nat /\ \A k \in 1 .. Len(q) : q[k] \in S
  BY LenProperties, ElementOfSeq
<1>2. CASE n < Len(q)
  <2>1. First(q, n) = SubSeq(q, 1, n)
    BY <1>2 DEF First
  <2>2. SubSeq(q, 1, n) \in Seq(S) /\ Len(SubSeq(q, 1, n)) = n
    BY <1>1, <1>2, SubSeqProperties
  <2>3. SubSeq(q, n + 1, Len(q)) \in Seq(S) /\ Len(SubSeq(q, n + 1, Len(q))) = Len(q) - n
    BY <1>1, <1>2, SubSeqProperties
  <2>4. SubSeq(q, 1, n) \o SubSeq(q, n + 1, Len(q)) = SubSeq(q, 1, Len(q))
    BY <1>1, <1>2, ConcatAdjacentSubSeq, 1 \in 1 .. Len(q) + 1, n \in 1 - 1 .. Len(q),
       Len(q) \in n .. Len(q)
  <2>5. SubSeq(q, 1, Len(q)) = q
    BY SubSeqFull
  <2> QED BY <1>2, <2>1, <2>2, <2>3, <2>4, <2>5 DEF From
<1>3. CASE ~ (n < Len(q))
  <2>1. First(q, n) = q
    BY <1>3, SubSeqFull DEF First
  <2>2. From(q, n) = <<>>
    BY <1>1, <1>3, SubSeqEmpty DEF From
  <2>3. q \o <<>> = q
    BY ConcatEmptySeq
  <2> QED BY <1>3, <2>1, <2>2, <2>3
<1> QED BY <1>2, <1>3

LEMMA FirstOfConcat ==
  ASSUME NEW S, NEW q \in Seq(S), NEW t \in Seq(S)
  PROVE  First(q \o t, Len(q)) = q
<1>1. Len(q) \in Nat /\ Len(t) \in Nat
  BY LenProperties
<1>2. q \o t \in Seq(S) /\ Len(q \o t) = Len(q) + Len(t)
  BY ConcatProperties
<1>3. First(q \o t, Len(q)) = SubSeq(q \o t, 1, Len(q))
  BY <1>1, <1>2 DEF First
<1>4. CASE Len(q) = 0
  <2>1. q = <<>>
    BY <1>4, EmptySeq
  <2>2. SubSeq(q \o t, 1, Len(q)) = <<>>
    BY <1>4, SubSeqEmpty
  <2> QED BY <1>3, <2>1, <2>2
<1>5. CASE Len(q) # 0
  <2>1. SubSeq(q \o t, 1, Len(q)) = SubSeq(q, 1, Len(q))
    BY <1>1, <1>5, SubSeqOfConcat1
  <2> QED BY <1>3, <2>1, SubSeqFull
<1> QED BY <1>4, <1>5

(* u[k] is the image up to the k-th argument.                                *)
Parts(u) ==
  /\ u \in [0 .. Len(args) -> Contents]
  /\ u[0] = bootblock \o Zeros(Missing(SECTORSIZE - 2, bootblock)) \o SIGNATURE
  /\ \A k \in 1 .. Len(args) :
       u[k] = IF args[k].skip
              THEN u[k - 1] \o Zeros(Missing(args[k].sector * SECTORSIZE, u[k - 1]))
              ELSE u[k - 1] \o Sectors(args[k].file)
  /\ Image = u[Len(args)] \o Zeros(Missing(SECTORS * SECTORSIZE, u[Len(args)]))

LEMMA ImageParts ==
  ASSUME DiskAssumption, bootblock \in Contents, args \in Seq(Arguments), ~TooLarge
  PROVE  \E u : Parts(u)
<1> DEFINE part(k, v) == IF args[k].skip
                         THEN v \o Zeros(Missing(args[k].sector * SECTORSIZE, v))
                         ELSE v \o Sectors(args[k].file)
           head == bootblock \o Zeros(Missing(SECTORSIZE - 2, bootblock)) \o SIGNATURE
           upTo == CHOOSE f : f = [k \in 0 .. Len(args) |->
                     IF k = 0 THEN head
                     ELSE IF args[k].skip
                     THEN f[k - 1] \o Zeros(Missing(args[k].sector * SECTORSIZE, f[k - 1]))
                     ELSE f[k - 1] \o Sectors(args[k].file)]
<1>1. Image = upTo[Len(args)] \o Zeros(Missing(SECTORS * SECTORSIZE, upTo[Len(args)]))
  BY DEF Image, ImageOf
<1>2. head \in Contents
  <2>1. Missing(SECTORSIZE - 2, bootblock) \in Nat
    BY LenProperties DEF Missing, DiskAssumption, Contents
  <2>2. SIGNATURE \in Seq(Cells)
    BY DEF DiskAssumption, SIGNATURE
  <2> QED BY <2>1, <2>2, ZerosSeq, ConcatProperties DEF Contents
<1>3. \A k \in 1 .. Len(args), v \in Contents : part(k, v) \in Contents
  <2>1. SUFFICES ASSUME NEW k \in 1 .. Len(args), NEW v \in Contents PROVE part(k, v) \in Contents
    OBVIOUS
  <2>2. args[k] \in Arguments
    BY ElementOfSeq
  <2>3. CASE args[k].skip
    <3>1. args[k].sector \in Nat
      BY <2>2, <2>3 DEF Arguments
    <3>2. args[k].sector * SECTORSIZE \in Nat
      BY <3>1 DEF DiskAssumption
    <3>3. Missing(args[k].sector * SECTORSIZE, v) \in Nat
      BY <3>2, LenProperties DEF Missing, Contents
    <3>4. PICK z : z = Zeros(Missing(args[k].sector * SECTORSIZE, v))
      OBVIOUS
    <3>5. z \in Seq(Cells)
      BY <3>3, <3>4, ZerosSeq DEF Contents
    <3> QED BY <2>3, <3>4, <3>5, ConcatProperties DEF Contents
  <2>4. CASE ~args[k].skip
    <3>1. args[k].file \in Contents
      BY <2>2, <2>4 DEF Arguments, Contents
    <3>2. PICK z : z = Sectors(args[k].file)
      OBVIOUS
    <3>3. z \in Seq(Cells)
      BY <3>1, <3>2, SectorsSeq DEF Contents
    <3> QED BY <2>4, <3>2, <3>3, ConcatProperties DEF Contents
  <2> QED BY <2>3, <2>4
<1> HIDE DEF part, head
<1>4. \E f : f = [k \in 0 .. Len(args) |-> IF k = 0 THEN head ELSE part(k, f[k - 1])]
  <2> DEFINE step == [x \in Nat \X Contents |->
                       IF x[1] + 1 \in 1 .. Len(args) THEN part(x[1] + 1, x[2]) ELSE x[2]]
  <2>1. step \in [Nat \X Contents -> Contents]
    BY <1>3
  <2>2. PICK f \in [Nat -> Contents] :
               f[0] = head /\ \A n \in Nat : f[n + 1] = step[<<n, f[n]>>]
    <3> HIDE DEF step
    <3>1. PICK h, g : h = head /\ g = step
      OBVIOUS
    <3>2. h \in Contents /\ g \in [Nat \X Contents -> Contents]
      BY <1>2, <2>1, <3>1
    <3>3. PICK f : Iterates(f, Contents, h, g)
      BY <3>2, Recursion
    <3> QED BY <3>1, <3>3 DEF Iterates
  <2> DEFINE g == [k \in 0 .. Len(args) |-> f[k]]
  <2>3. ASSUME NEW k \in 0 .. Len(args)
        PROVE  f[k] = IF k = 0 THEN head ELSE part(k, g[k - 1])
    <3>1. CASE k = 0
      BY <2>2, <3>1
    <3>2. CASE k # 0
      <4>1. k - 1 \in Nat /\ k - 1 + 1 = k /\ k \in 1 .. Len(args) /\ k - 1 \in 0 .. Len(args)
        BY <3>2, LenProperties
      <4>2. f[k] = step[<<k - 1, f[k - 1]>>]
        <5> HIDE DEF step
        <5> QED BY <2>2, <4>1
      <4>3. f[k - 1] \in Contents /\ g[k - 1] = f[k - 1]
        BY <4>1
      <4>4. step[<<k - 1, f[k - 1]>>] = part(k, f[k - 1])
        BY <4>1, <4>3
      <4> QED BY <3>2, <4>2, <4>3, <4>4
    <3> QED BY <3>1, <3>2
  <2> HIDE DEF step
  <2>4. g = [k \in 0 .. Len(args) |-> IF k = 0 THEN head ELSE part(k, g[k - 1])]
    BY <2>3
  <2> HIDE DEF g
  <2> QED BY <2>4
<1>5. upTo = [k \in 0 .. Len(args) |-> IF k = 0 THEN head ELSE part(k, upTo[k - 1])]
  BY <1>4 DEF part, head
<1> HIDE DEF upTo
<1>6. 0 .. Len(args) \subseteq {k \in 0 .. Len(args) : upTo[k] \in Contents}
  <2> DEFINE G == {k \in 0 .. Len(args) : upTo[k] \in Contents}
  <2>1. Len(args) \in Nat
    BY LenProperties
  <2>2. 0 \in G
    BY <1>2, <1>5, <2>1
  <2>3. ASSUME NEW n \in 0 .. Len(args) - 1, n \in G PROVE n + 1 \in G
    <3>1. n + 1 \in 1 .. Len(args) /\ n + 1 - 1 = n /\ n + 1 # 0 /\ n + 1 \in 0 .. Len(args)
      BY <2>1
    <3>2. upTo[n + 1] = part(n + 1, upTo[n])
      BY <1>5, <3>1
    <3> QED BY <1>3, <2>3, <3>1, <3>2
  <2> HIDE DEF G
  <2> QED BY <2>1, <2>2, <2>3, SetInductionUpTo DEF G
<1>7. upTo \in [0 .. Len(args) -> Contents]
  BY <1>5, <1>6
<1>8. upTo[0] = head
  BY <1>5, LenProperties
<1>9. ASSUME NEW k \in 1 .. Len(args) PROVE upTo[k] = part(k, upTo[k - 1])
  BY <1>5, LenProperties
<1>10. Parts(upTo)
  BY <1>1, <1>7, <1>8, <1>9 DEF part, head, Parts
<1> QED BY <1>10

LEMMA ImageFixed ==
  ASSUME UNCHANGED input
  PROVE  Image' = Image
<1>1. bootblock' = bootblock /\ args' = args
  BY DEF input
<1> QED BY <1>1 DEF Image, ImageOf

-----------------------------------------------------------------------------
(* What is on the disk and what is about to be written.                      *)
Written == disk \o buf

DiskTypes ==
  /\ bootblock \in Contents /\ args \in Seq(Arguments)
  /\ disk \in Contents /\ buf \in Contents /\ rest \in Contents
  /\ i \in 1 .. Len(args) + 1
  /\ pos \in Nat /\ nsectors \in Nat
  /\ tool \in {"start", "args", "read", "done", "failed"}

CountInv ==
  /\ tool = "start" => disk = <<>> /\ buf = <<>> /\ i = 1 /\ nsectors = 0
  /\ tool = "args" => Len(Written) = nsectors * SECTORSIZE
  /\ tool = "read" => /\ Len(Written) = nsectors * SECTORSIZE + pos
                      /\ i <= Len(args) /\ ~args[i].skip
                      /\ pos + Len(rest) = Len(args[i].file)
  /\ tool = "done" => /\ buf = <<>>
                      /\ Len(Written) = nsectors * SECTORSIZE /\ nsectors >= SECTORS

(* A short write moves bytes from buf to the disk.                           *)
LEMMA ShortWrite ==
  ASSUME DiskTypes, NEW w \in Nat, write(w)
  PROVE  disk' \in Contents /\ buf' \in Contents /\ Written' = Written
<1>1. PICK d1, b1, f, r : d1 = disk /\ b1 = buf /\ f = First(buf, w) /\ r = From(buf, w)
  OBVIOUS
<1>2. d1 \in Seq(Cells) /\ b1 \in Seq(Cells)
  BY <1>1 DEF DiskTypes, Contents
<1>3. f \in Seq(Cells) /\ r \in Seq(Cells) /\ f \o r = b1
  BY <1>1, <1>2, FirstFrom
<1>4. disk' = d1 \o f /\ buf' = r
  BY <1>1 DEF write
<1>5. d1 \o f \in Seq(Cells)
  BY <1>2, <1>3, ConcatProperties
<1>6. (d1 \o f) \o r = d1 \o b1
  <2>1. f \in Seq(Cells) /\ r \in Seq(Cells)
    BY <1>3
  <2>2. (d1 \o f) \o r = d1 \o (f \o r)
    BY <1>2, <2>1, CellsAssociate, Zenon
  <2> QED BY <1>3, <2>2
<1> QED BY <1>1, <1>3, <1>4, <1>5, <1>6 DEF Written, Contents

(* A new diskwrite() adds to what was written before.                        *)
LEMMA NewWrite ==
  ASSUME DiskTypes, buf = <<>>, disk' = disk, NEW q \in Contents, buf' = q
  PROVE  /\ buf' \in Contents /\ disk' \in Contents
         /\ Written' = Written \o q
         /\ Len(Written) \in Nat /\ Len(q) \in Nat /\ Len(Written') = Len(Written) + Len(q)
<1>1. PICK d1 : d1 = disk
  OBVIOUS
<1>2. d1 \in Seq(Cells) /\ q \in Seq(Cells)
  BY <1>1 DEF DiskTypes, Contents
<1>3. d1 \o <<>> = d1
  BY <1>2, ConcatEmptySeq
<1>4. Len(d1) \in Nat /\ Len(q) \in Nat /\ Len(d1 \o q) = Len(d1) + Len(q)
  BY <1>2, ConcatProperties, LenProperties
<1> QED BY <1>1, <1>2, <1>3, <1>4 DEF Written, Contents

LEMMA HeadSector ==
  ASSUME DiskAssumption, NEW b \in Contents, Len(b) <= SECTORSIZE - 2
  PROVE  LET q == b \o Zeros(SECTORSIZE - 2 - Len(b)) \o SIGNATURE
         IN  q \in Contents /\ Len(q) = SECTORSIZE
<1>1. Len(b) \in Nat
  BY LenProperties DEF Contents
<1>2. PICK z : z = Zeros(SECTORSIZE - 2 - Len(b))
  OBVIOUS
<1>3. z \in Seq(Cells) /\ Len(z) = SECTORSIZE - 2 - Len(b)
  BY <1>1, <1>2, ZerosSeq DEF DiskAssumption, Contents
<1>4. SIGNATURE \in Seq(Cells) /\ Len(SIGNATURE) = 2
  BY DEF DiskAssumption, SIGNATURE
<1>5. b \o z \in Seq(Cells) /\ Len(b \o z) = SECTORSIZE - 2
  BY <1>1, <1>3, ConcatProperties DEF Contents, DiskAssumption
<1>6. PICK y : y = b \o z
  OBVIOUS
<1>7. y \o SIGNATURE \in Seq(Cells) /\ Len(y \o SIGNATURE) = SECTORSIZE - 2 + 2
  <2>1. y \in Seq(Cells) /\ Len(y) = SECTORSIZE - 2
    BY <1>5, <1>6
  <2>2. y \o SIGNATURE \in Seq(Cells) /\ Len(y \o SIGNATURE) = Len(y) + Len(SIGNATURE)
    BY <1>4, <2>1, ConcatProperties
  <2> QED BY <1>4, <2>1, <2>2
<1>8. SECTORSIZE - 2 + 2 = SECTORSIZE
  BY DEF DiskAssumption
<1> QED BY <1>2, <1>6, <1>7, <1>8 DEF Contents

LEMMA NextArgument ==
  ASSUME DiskTypes, i <= Len(args)
  PROVE  /\ args[i] \in Arguments
         /\ args[i].skip => args[i].sector \in Nat
         /\ ~args[i].skip => args[i].file \in Contents /\ args[i].skip = FALSE
         /\ args[i].skip => args[i].skip = TRUE
<1>1. PICK a, n : a = args /\ n = i
  OBVIOUS
<1>2. a \in Seq(Arguments) /\ n \in 1 .. Len(a)
  BY <1>1, LenProperties DEF DiskTypes
<1>3. a[n] \in Arguments
  BY <1>2, ElementOfSeq
<1> QED BY <1>1, <1>3 DEF Arguments, Contents

LEMMA DiskTypesStep ==
  ASSUME DiskAssumption, DiskTypes, CountInv, DiskNext
  PROVE  DiskTypes' /\ CountInv'
<1>1. /\ Len(args) \in Nat /\ i \in Nat /\ SECTORSIZE \in Nat /\ nsectors * SECTORSIZE \in Nat
      /\ (nsectors + 1) * SECTORSIZE = nsectors * SECTORSIZE + SECTORSIZE
  BY LenProperties, TimesSucc DEF DiskTypes, DiskAssumption
<1>2. ASSUME diskwrite PROVE DiskTypes' /\ CountInv'
  <2>1. CASE usage
    BY <2>1 DEF DiskTypes, CountInv, usage, input
  <2>2. CASE ~usage
    <3>1. PICK w \in 1 .. Len(buf) : write(w)
      BY <1>2, <2>2 DEF diskwrite
    <3>2. UNCHANGED <<input, i, rest, pos, nsectors, tool>> /\ buf # <<>>
      BY <1>2, <2>2 DEF diskwrite
    <3>3. w \in Nat
      BY LenProperties DEF DiskTypes, Contents
    <3>4. disk' \in Contents /\ buf' \in Contents /\ Written' = Written
      BY <3>1, <3>3, ShortWrite
    <3>5. tool # "start" /\ tool # "done"
      BY <3>2 DEF CountInv
    <3> QED BY <3>2, <3>4, <3>5 DEF DiskTypes, CountInv, input
  <2> QED BY <2>1, <2>2
<1>3. ASSUME BootSector PROVE DiskTypes' /\ CountInv'
  <2>1. PICK q : q = bootblock \o Zeros(SECTORSIZE - 2 - Len(bootblock)) \o SIGNATURE
    OBVIOUS
  <2>2. q \in Contents /\ Len(q) = SECTORSIZE
    <3>1. ~ (Len(bootblock) > SECTORSIZE - 2) /\ bootblock \in Contents
      BY <1>3 DEF BootSector, TooLarge, DiskTypes
    <3>2. Len(bootblock) <= SECTORSIZE - 2
      BY <3>1, LenProperties DEF Contents, DiskAssumption
    <3> QED BY <2>1, <3>1, <3>2, HeadSector
  <2>3. buf = <<>> /\ disk' = disk /\ buf' = q /\ disk = <<>> /\ tool' = "args" /\ nsectors' = 1
    BY <1>3, <2>1 DEF BootSector, At, CountInv
  <2>4. /\ buf' \in Contents /\ disk' \in Contents
        /\ Len(Written') = Len(Written) + Len(q)
    BY <2>2, <2>3, NewWrite
  <2>5. Len(Written) = 0
    BY <2>3, ConcatEmptySeq DEF Written
  <2>6. Len(Written') = nsectors' * SECTORSIZE
    BY <1>1, <2>2, <2>3, <2>4, <2>5
  <2> QED BY <1>3, <2>3, <2>4, <2>6 DEF DiskTypes, CountInv, BootSector, input
<1>4. ASSUME NoBootSector PROVE DiskTypes' /\ CountInv'
  BY <1>4 DEF NoBootSector, DiskTypes, CountInv, usage, input
<1>5. ASSUME At("args"), WriteZeroSector PROVE DiskTypes' /\ CountInv'
  <2>1. Zeros(SECTORSIZE) \in Contents /\ Len(Zeros(SECTORSIZE)) = SECTORSIZE
    BY ZerosSeq, <1>1
  <2>2. buf = <<>> /\ disk' = disk /\ buf' = Zeros(SECTORSIZE)
    BY <1>5 DEF WriteZeroSector, At
  <2>3. /\ buf' \in Contents /\ disk' \in Contents
        /\ Len(Written') = Len(Written) + SECTORSIZE
    BY <2>1, <2>2, NewWrite
  <2>4. Len(Written') = nsectors' * SECTORSIZE
    BY <1>1, <1>5, <2>3 DEF CountInv, At, WriteZeroSector
  <2> QED BY <1>5, <2>3, <2>4 DEF DiskTypes, CountInv, WriteZeroSector, At, input
<1>6. ASSUME Skip PROVE DiskTypes' /\ CountInv'
  <2>1. CASE usage
    BY <2>1 DEF DiskTypes, CountInv, usage, input
  <2>2. CASE WriteZeroSector
    BY <1>5, <1>6, <2>2 DEF Skip, More
  <2>3. CASE ~usage /\ ~WriteZeroSector
    <3>1. UNCHANGED <<input, disk, buf, pos, rest, nsectors, tool>> /\ i' = i + 1 /\ i <= Len(args)
          /\ tool = "args"
      BY <1>6, <2>3 DEF Skip, More, At
    <3>2. i' \in 1 .. Len(args') + 1
      BY <1>1, <3>1 DEF DiskTypes, input
    <3>3. Written' = Written
      BY <3>1 DEF Written
    <3> QED BY <3>1, <3>2, <3>3 DEF DiskTypes, CountInv, input
  <2> QED BY <2>1, <2>2, <2>3
<1>7. ASSUME fopencheck PROVE DiskTypes' /\ CountInv'
  <2>1. CASE usage
    BY <2>1 DEF DiskTypes, CountInv, usage, input
  <2>2. CASE ~usage
    <3>1. /\ i <= Len(args) /\ args[i].skip = FALSE /\ tool = "args" /\ tool' = "read"
          /\ rest' = args[i].file /\ pos' = 0
          /\ UNCHANGED <<input, i, disk, buf, nsectors>>
      BY <1>7, <2>2 DEF fopencheck, More, At
    <3>2. args[i].file \in Contents
      BY <3>1, NextArgument
    <3>3. Written' = Written /\ Len(rest') \in Nat
      BY <3>1, <3>2, LenProperties DEF Written, Contents
    <3> QED BY <1>1, <3>1, <3>2, <3>3 DEF DiskTypes, CountInv, input
  <2> QED BY <2>1, <2>2
<1>8. ASSUME fread PROVE DiskTypes' /\ CountInv'
  <2>1. PICK q, f, r : q = rest /\ f = First(q, BUFSIZE) /\ r = From(q, BUFSIZE)
    OBVIOUS
  <2>2. q \in Seq(Cells)
    BY <2>1 DEF DiskTypes, Contents
  <2>3. f \in Seq(Cells) /\ r \in Seq(Cells) /\ f \o r = q
    BY <2>1, <2>2, FirstFrom DEF DiskAssumption
  <2>4. Len(q) = Len(f) + Len(r) /\ Len(f) \in Nat /\ Len(r) \in Nat
    BY <2>3, ConcatProperties, LenProperties
  <2>5. /\ tool = "read" /\ buf = <<>> /\ buf' = f /\ rest' = r /\ pos' = pos + Len(f)
        /\ UNCHANGED <<input, i, disk, nsectors, tool>>
    BY <1>8, <2>1 DEF fread, At
  <2>6. /\ buf' \in Contents /\ disk' \in Contents /\ Len(Written) \in Nat
        /\ Len(Written') = Len(Written) + Len(f)
    BY <2>3, <2>5, NewWrite DEF Contents
  <2>7. pos' \in Nat /\ pos' + Len(rest') = pos + Len(rest)
    BY <2>1, <2>4, <2>5 DEF DiskTypes
  <2>8. Len(Written') = nsectors' * SECTORSIZE + pos'
    <3>1. PICK c, k, l : c = nsectors * SECTORSIZE /\ k = pos /\ l = Len(f)
      OBVIOUS
    <3>2. c \in Nat /\ k \in Nat /\ l \in Nat
      BY <1>1, <2>4, <3>1 DEF DiskTypes
    <3>3. Len(Written) = c + k
      BY <2>5, <3>1 DEF CountInv
    <3>4. Len(Written') = c + k + l /\ pos' = k + l /\ nsectors' * SECTORSIZE = c
      BY <2>5, <2>6, <3>1, <3>3
    <3> QED BY <3>2, <3>4
  <2> QED BY <2>3, <2>5, <2>6, <2>7, <2>8 DEF DiskTypes, CountInv, input, Contents
<1>9. ASSUME Pad PROVE DiskTypes' /\ CountInv'
  <2>1. PICK p, k : p = Padding /\ k \in Nat /\ p \in Nat /\ pos + p = k * SECTORSIZE
    <3>1. PICK n : n = pos
      OBVIOUS
    <3>2. n \in Nat
      BY <3>1 DEF DiskTypes
    <3>3. Padding = (-n) % SECTORSIZE
      BY <3>1, <3>2, PaddingAmount DEF Padding
    <3> QED BY <3>1, <3>2, <3>3, PaddingAmount
  <2>2. (pos + p) \div SECTORSIZE = k
    <3>1. PICK x, y : x = (pos + p) \div SECTORSIZE /\ y = (pos + p) % SECTORSIZE
      OBVIOUS
    <3>2. SECTORSIZE \in Nat \ {0} /\ pos + p \in Int
      BY <2>1 DEF DiskAssumption, DiskTypes
    <3>3. y \in 0 .. SECTORSIZE - 1 /\ x \in Int /\ pos + p = x * SECTORSIZE + y
      BY <3>1, <3>2, Division
    <3>4. k * SECTORSIZE + 0 = x * SECTORSIZE + y /\ 0 \in 0 .. SECTORSIZE - 1
      BY <2>1, <3>2, <3>3
    <3>5. k = x
      BY <2>1, <3>2, <3>3, <3>4, DivisionUnique
    <3> QED BY <3>1, <3>5
  <2>3. Zeros(p) \in Contents /\ Len(Zeros(p)) = p
    BY <2>1, ZerosSeq
  <2>4. /\ buf = <<>> /\ buf' = Zeros(p) /\ disk' = disk /\ pos' = pos + p /\ tool = "read"
        /\ nsectors' = nsectors + k /\ i' = i + 1 /\ tool' = "args" /\ UNCHANGED <<input, rest>>
    BY <1>9, <2>1, <2>2 DEF Pad, At
  <2>5. /\ buf' \in Contents /\ disk' \in Contents /\ Len(Written) \in Nat
        /\ Len(Written') = Len(Written) + p
    BY <2>3, <2>4, NewWrite
  <2>6. (nsectors + k) * SECTORSIZE = nsectors * SECTORSIZE + k * SECTORSIZE
        /\ k * SECTORSIZE \in Nat
    BY <1>1, <2>1, TimesAdd DEF DiskTypes
  <2>7. Len(Written') = nsectors' * SECTORSIZE
    BY <1>1, <2>1, <2>4, <2>5, <2>6 DEF CountInv, DiskTypes
  <2>8. i' \in 1 .. Len(args') + 1
    BY <1>1, <2>4 DEF CountInv, input
  <2>9. {nsectors', pos'} \subseteq Nat
    BY <1>1, <2>1, <2>4 DEF DiskTypes
  <2>10. DiskTypes'
    BY <1>1, <2>4, <2>5, <2>8, <2>9 DEF DiskTypes, input
  <2> QED BY <2>4, <2>7, <2>10 DEF CountInv
<1>10. ASSUME FillDisk PROVE DiskTypes' /\ CountInv'
  <2>1. CASE WriteZeroSector
    BY <1>5, <1>10, <2>1 DEF FillDisk
  <2>2. CASE ~WriteZeroSector
    <3>1. /\ tool = "args" /\ nsectors >= SECTORS /\ tool' = "done" /\ buf = <<>>
          /\ UNCHANGED <<input, i, disk, buf, rest, pos, nsectors>>
      BY <1>10, <2>2 DEF FillDisk, At
    <3>2. Written' = Written /\ Len(Written) = nsectors * SECTORSIZE
      BY <3>1 DEF Written, CountInv
    <3>3. CountInv'
      BY <3>1, <3>2 DEF CountInv
    <3> QED BY <3>1, <3>3 DEF DiskTypes, input
  <2> QED BY <2>1, <2>2
<1> QED BY <1>2, <1>3, <1>4, <1>6, <1>7, <1>8, <1>9, <1>10 DEF DiskNext

-----------------------------------------------------------------------------
(* How far the image has been written.                                       *)
Filling == IF i <= Len(args) THEN args[i].sector ELSE SECTORS

PlaceInv(u) ==
  /\ tool = "args" => \E m \in Nat :
       /\ Written = u[i - 1] \o Zeros(m)
       /\ m # 0 => /\ i <= Len(args) => args[i].skip
                   /\ Len(Written) <= Filling * SECTORSIZE
  /\ tool = "read" => Written \o rest = u[i - 1] \o args[i].file
  /\ tool = "done" => Written = Image
  /\ tool = "failed" => \E w \in Contents : Image = Written \o w

ImageInv ==
  /\ TooLarge => tool \in {"start", "failed"}
  /\ ~TooLarge => \E u : Parts(u) /\ PlaceInv(u)

DiskInv == DiskTypes /\ CountInv /\ ImageInv

(* Zeros that have been written already are not missing any more.            *)
LEMMA ZerosFill ==
  ASSUME DiskAssumption, NEW q \in Contents, NEW m \in Nat, NEW N \in Nat,
         m # 0 => Len(q \o Zeros(m)) <= N
  PROVE  q \o Zeros(Missing(N, q)) =
           (q \o Zeros(m)) \o Zeros(Missing(N, q \o Zeros(m)))
<1>1. PICK y : y = Zeros(m)
  OBVIOUS
<1>2. y \in Seq(Cells) /\ Len(y) = m /\ q \in Seq(Cells) /\ Len(q) \in Nat
  BY <1>1, ZerosSeq, LenProperties DEF Contents
<1>3. PICK x : x = q \o y
  OBVIOUS
<1>4. x \in Seq(Cells) /\ Len(x) = Len(q) + m
  BY <1>2, <1>3, ConcatProperties
<1>5. PICK k : k = Missing(N, x)
  OBVIOUS
<1>6. k \in Nat /\ Missing(N, q) = m + k
  BY <1>1, <1>2, <1>3, <1>4, <1>5 DEF Missing
<1>7. PICK z : z = Zeros(k)
  OBVIOUS
<1>8. z \in Seq(Cells) /\ y \o z = Zeros(m + k)
  BY <1>1, <1>6, <1>7, ZerosSeq, ZerosAdd DEF Contents
<1>9. (q \o y) \o z = q \o (y \o z)
  <2>1. q \in Seq(Cells) /\ y \in Seq(Cells) /\ z \in Seq(Cells)
    BY <1>2, <1>8
  <2> QED BY <2>1, CellsAssociate, Zenon
<1> QED BY <1>1, <1>3, <1>5, <1>6, <1>7, <1>8, <1>9

LEMMA ZerosDone ==
  ASSUME DiskAssumption, NEW q \in Contents, NEW N \in Nat, Len(q) >= N
  PROVE  q \o Zeros(Missing(N, q)) = q
<1>1. Missing(N, q) = 0 /\ q \in Seq(Cells)
  BY LenProperties DEF Missing, Contents
<1>2. Zeros(0) = <<>>
  BY DEF Zeros
<1> QED BY <1>1, <1>2, ConcatEmptySeq

LEMMA NoZeros ==
  ASSUME NEW q \in Contents
  PROVE  q \o Zeros(0) = q
<1>1. Zeros(0) = <<>> /\ q \in Seq(Cells)
  BY DEF Zeros, Contents
<1> QED BY <1>1, ConcatEmptySeq

(* Every part begins the next one, and the last begins the image.            *)
LEMMA PartsExtend ==
  ASSUME DiskAssumption, DiskTypes, NEW u, Parts(u)
  PROVE  /\ \A k \in 1 .. Len(args) : \E w \in Contents : u[k] = u[k - 1] \o w
         /\ \E w \in Contents : Image = u[Len(args)] \o w
         /\ Image \in Contents
<1>1. ASSUME NEW N \in Nat, NEW q \in Contents PROVE Zeros(Missing(N, q)) \in Contents
  <2>1. Len(q) \in Nat
    BY LenProperties DEF Contents
  <2>2. Missing(N, q) \in Nat
    BY <2>1 DEF Missing
  <2> QED BY <2>2, ZerosSeq
<1>2. ASSUME NEW k \in 1 .. Len(args) PROVE \E w \in Contents : u[k] = u[k - 1] \o w
  <2>1. args[k] \in Arguments
    BY ElementOfSeq DEF DiskTypes
  <2>2. u[k - 1] \in Contents
    <3>1. k - 1 \in 0 .. Len(args)
      BY LenProperties DEF DiskTypes
    <3> QED BY <3>1 DEF Parts
  <2>3. CASE args[k].skip
    <3>1. args[k].sector \in Nat
      BY <2>1, <2>3 DEF Arguments
    <3>2. args[k].sector * SECTORSIZE \in Nat
      BY <3>1 DEF DiskAssumption
    <3> QED BY <1>1, <2>2, <2>3, <3>2 DEF Parts
  <2>4. CASE ~args[k].skip
    <3>1. Sectors(args[k].file) \in Contents
      BY <2>1, <2>4, SectorsSeq DEF Arguments, Contents
    <3> QED BY <2>4, <3>1 DEF Parts
  <2> QED BY <2>3, <2>4
<1>3. u[Len(args)] \in Contents /\ SECTORS * SECTORSIZE \in Nat
  <2>1. SECTORS * SECTORSIZE \in Nat
    BY DEF DiskAssumption
  <2>2. Len(args) \in Nat
    BY LenProperties DEF DiskTypes
  <2> QED BY <2>1, <2>2 DEF Parts
<1>4. PICK w \in Contents : Image = u[Len(args)] \o w
  BY <1>1, <1>3 DEF Parts
<1>5. Image \in Contents
  BY <1>3, <1>4, ConcatProperties DEF Contents
<1> QED BY <1>2, <1>4, <1>5

LEMMA PartsPrefix ==
  ASSUME DiskAssumption, DiskTypes, NEW u, Parts(u)
  PROVE  \A k \in 0 .. Len(args) : \E w \in Contents : Image = u[k] \o w
<1>1. PICK n, img : n = Len(args) /\ img = Image
  OBVIOUS
<1>2. n \in Nat /\ u \in [0 .. n -> Seq(Cells)]
  BY <1>1, LenProperties DEF DiskTypes, Parts, Contents
<1>3. \A k \in 1 .. n : \E w \in Seq(Cells) : u[k] = u[k - 1] \o w
  BY <1>1, PartsExtend DEF Contents
<1>4. \E w \in Seq(Cells) : img = u[n] \o w
  BY <1>1, PartsExtend DEF Contents
<1> DEFINE G == {k \in 0 .. n : \E w \in Seq(Cells) : img = u[n - k] \o w}
<1>5. 0 \in G
  <2>1. n - 0 = n /\ 0 \in 0 .. n
    BY <1>2
  <2> QED BY <1>4, <2>1
<1>6. ASSUME NEW k \in 0 .. n - 1, k \in G PROVE k + 1 \in G
  <2>1. PICK w \in Seq(Cells) : img = u[n - k] \o w
    BY <1>6
  <2>2. n - k \in 1 .. n /\ n - k - 1 = n - (k + 1) /\ k + 1 \in 0 .. n /\ n - (k + 1) \in 0 .. n
    BY <1>2
  <2>3. PICK v \in Seq(Cells) : u[n - k] = u[n - (k + 1)] \o v
    BY <1>3, <2>2
  <2>4. u[n - (k + 1)] \in Seq(Cells)
    BY <1>2, <2>2
  <2>5. PICK q : q = u[n - (k + 1)]
    OBVIOUS
  <2>6. (q \o v) \o w = q \o (v \o w) /\ v \o w \in Seq(Cells)
    <3>1. q \in Seq(Cells)
      BY <2>4, <2>5
    <3>2. (q \o v) \o w = q \o (v \o w)
      BY <3>1, CellsAssociate, Zenon
    <3> QED BY <3>2, ConcatProperties
  <2>7. img = u[n - (k + 1)] \o (v \o w)
    BY <2>1, <2>3, <2>5, <2>6
  <2> QED BY <2>2, <2>6, <2>7
<1> HIDE DEF G
<1>7. 0 .. n \subseteq G
  BY <1>2, <1>5, <1>6, SetInductionUpTo
<1>8. ASSUME NEW k \in 0 .. n PROVE \E w \in Seq(Cells) : img = u[k] \o w
  <2>1. n - k \in G /\ n - (n - k) = k
    BY <1>2, <1>7
  <2> QED BY <2>1 DEF G
<1> QED BY <1>1, <1>8 DEF Contents

(* The filling that goes on is the part that the argument asks for, or, at   *)
(* the end, the image.                                                       *)
LEMMA FillingParts ==
  ASSUME DiskAssumption, DiskTypes, NEW u, Parts(u), PlaceInv(u), tool = "args",
         i <= Len(args) => args[i].skip
  PROVE  /\ Written \in Contents
         /\ Filling \in Nat /\ Filling * SECTORSIZE \in Nat
         /\ Written \o Zeros(Missing(Filling * SECTORSIZE, Written)) =
              IF i <= Len(args) THEN u[i] ELSE Image
<1>1. PICK m \in Nat : /\ Written = u[i - 1] \o Zeros(m)
                       /\ m # 0 => Len(Written) <= Filling * SECTORSIZE
  BY DEF PlaceInv
<1>2. PICK n : n = i - 1
  OBVIOUS
<1>3. Len(args) \in Nat /\ i \in 1 .. Len(args) + 1 /\ n \in 0 .. Len(args)
  BY <1>2, LenProperties DEF DiskTypes
<1>4. u[n] \in Contents
  BY <1>3 DEF Parts
<1>5. Filling \in Nat
  BY <1>3, NextArgument DEF Filling, DiskAssumption
<1>6. PICK N : N = Filling * SECTORSIZE
  OBVIOUS
<1>7. N \in Nat
  BY <1>5, <1>6 DEF DiskAssumption
<1>8. PICK q : q = u[n]
  OBVIOUS
<1>9. q \o Zeros(Missing(N, q)) = Written \o Zeros(Missing(N, Written))
  <2>1. q \in Contents /\ Written = q \o Zeros(m) /\ (m # 0 => Len(q \o Zeros(m)) <= N)
    BY <1>1, <1>2, <1>4, <1>6, <1>8
  <2>2. q \o Zeros(Missing(N, q)) = (q \o Zeros(m)) \o Zeros(Missing(N, q \o Zeros(m)))
    BY <1>7, <2>1, ZerosFill
  <2> QED BY <2>1, <2>2
<1>10. q \o Zeros(Missing(N, q)) = IF i <= Len(args) THEN u[i] ELSE Image
  <2>1. CASE i <= Len(args)
    <3>1. i \in 1 .. Len(args) /\ args[i].skip
      BY <1>3, <2>1
    <3>2. u[i] = u[i - 1] \o Zeros(Missing(args[i].sector * SECTORSIZE, u[i - 1]))
      BY <3>1 DEF Parts
    <3> QED BY <1>2, <1>6, <1>8, <2>1, <3>2 DEF Filling
  <2>2. CASE ~ (i <= Len(args))
    <3>1. n = Len(args)
      BY <1>2, <1>3, <2>2
    <3> QED BY <1>6, <1>8, <2>2, <3>1 DEF Parts, Filling
  <2> QED BY <2>1, <2>2
<1>11. Written \in Contents
  BY ConcatProperties DEF DiskTypes, Written, Contents
<1> QED BY <1>5, <1>6, <1>7, <1>9, <1>10, <1>11

(* Without an argument "@n" nothing is filled.                               *)
LEMMA NoFilling ==
  ASSUME DiskAssumption, DiskTypes, NEW u, Parts(u), PlaceInv(u), tool = "args",
         i <= Len(args), ~args[i].skip
  PROVE  Written = u[i - 1]
<1>1. Written = u[i - 1] \o Zeros(0)
  BY DEF PlaceInv
<1>2. u[i - 1] \in Contents
  <2>1. i - 1 \in 0 .. Len(args)
    BY LenProperties DEF DiskTypes
  <2> QED BY <2>1 DEF Parts
<1> QED BY <1>1, <1>2, NoZeros

LEMMA PrefixTrans ==
  ASSUME NEW q \in Contents, NEW v \in Contents, NEW w \in Contents
  PROVE  \E x \in Contents : (q \o v) \o w = q \o x
<1>1. q \in Seq(Cells) /\ v \in Seq(Cells) /\ w \in Seq(Cells)
  BY DEF Contents
<1>2. (q \o v) \o w = q \o (v \o w)
  BY <1>1, CellsAssociate, Zenon
<1>3. v \o w \in Contents
  BY <1>1, ConcatProperties DEF Contents
<1> QED BY <1>2, <1>3

(* What has been written is a beginning of the image.                        *)
LEMMA PlacePrefix ==
  ASSUME DiskAssumption, DiskTypes, CountInv, NEW u, Parts(u), PlaceInv(u)
  PROVE  \E w \in Contents : Image = Written \o w
<1>1. Len(args) \in Nat /\ i \in 1 .. Len(args) + 1
  BY LenProperties DEF DiskTypes
<1>2. Written \in Contents
  BY ConcatProperties DEF DiskTypes, Written, Contents
<1>3. PICK q, img : q = Written /\ img = Image
  OBVIOUS
<1>4. q \in Contents /\ img \in Contents
  BY <1>2, <1>3, PartsExtend
<1>5. SUFFICES \E w \in Contents : img = q \o w
  BY <1>3
<1>6. CASE tool = "start"
  <2>1. q = <<>>
    BY <1>3, <1>6, ConcatEmptySeq DEF CountInv, Written
  <2>2. img = <<>> \o img
    BY <1>4, ConcatEmptySeq DEF Contents
  <2> QED BY <1>4, <2>1, <2>2
<1>7. CASE tool = "args" /\ (i <= Len(args) => args[i].skip)
  <2>1. PICK z : z = Zeros(Missing(Filling * SECTORSIZE, Written))
    OBVIOUS
  <2>2. q \o z = IF i <= Len(args) THEN u[i] ELSE img
    BY <1>3, <1>7, <2>1, FillingParts
  <2>3. z \in Contents
    <3>1. Filling * SECTORSIZE \in Nat
      BY <1>7, FillingParts
    <3>2. Missing(Filling * SECTORSIZE, Written) \in Nat
      BY <1>2, <3>1, LenProperties DEF Missing, Contents
    <3> QED BY <2>1, <3>2, ZerosSeq
  <2>4. CASE i <= Len(args)
    <3>1. i \in 0 .. Len(args)
      BY <1>1, <2>4
    <3>2. PICK w \in Contents : img = u[i] \o w
      BY <1>3, <3>1, PartsPrefix
    <3>3. img = (q \o z) \o w
      BY <2>2, <2>4, <3>2
    <3>4. PICK x \in Contents : (q \o z) \o w = q \o x
      BY <1>4, <2>3, <3>2, PrefixTrans, Zenon
    <3> QED BY <3>3, <3>4
  <2>5. CASE ~ (i <= Len(args))
    BY <2>2, <2>3, <2>5
  <2> QED BY <2>4, <2>5
<1>8. CASE tool = "args" /\ ~ (i <= Len(args) => args[i].skip)
  <2>1. q = u[i - 1]
    BY <1>3, <1>8, NoFilling
  <2>2. i - 1 \in 0 .. Len(args)
    BY <1>1
  <2> QED BY <1>3, <2>1, <2>2, PartsPrefix
<1>9. CASE tool = "read"
  <2>1. PICK f, r, v, z : f = args[i].file /\ r = rest /\ v = u[i - 1]
                         /\ z = Zeros((-Len(f)) % SECTORSIZE)
    OBVIOUS
  <2>2. i <= Len(args) /\ ~args[i].skip /\ q \o r = v \o f
    BY <1>3, <1>9, <2>1 DEF CountInv, PlaceInv
  <2>3. f \in Contents /\ v \in Contents /\ r \in Contents
    <3>1. i - 1 \in 0 .. Len(args)
      BY <1>1
    <3>2. v \in Contents
      BY <2>1, <3>1 DEF Parts
    <3>3. f \in Contents /\ r \in Contents
      BY <2>1, <2>2, NextArgument DEF DiskTypes
    <3> QED BY <3>2, <3>3
  <2>4. z \in Contents
    BY <2>1, <2>3, PaddingAmount, LenProperties, ZerosSeq DEF Contents
  <2>5. u[i] = v \o (f \o z)
    <3>1. i \in 1 .. Len(args)
      BY <1>1, <2>2
    <3>2. u[i] = u[i - 1] \o Sectors(args[i].file)
      BY <2>2, <3>1 DEF Parts
    <3> QED BY <2>1, <3>2 DEF Sectors
  <2>6. v \o (f \o z) = (v \o f) \o z
    <3>1. v \in Seq(Cells) /\ f \in Seq(Cells) /\ z \in Seq(Cells)
      BY <2>3, <2>4 DEF Contents
    <3> QED BY <3>1, CellsAssociate, Zenon
  <2>7. PICK w \in Contents : img = u[i] \o w
    <3>1. i \in 0 .. Len(args)
      BY <1>1, <2>2
    <3> QED BY <1>3, <3>1, PartsPrefix
  <2>8. img = ((q \o r) \o z) \o w
    BY <2>2, <2>5, <2>6, <2>7
  <2>9. PICK x \in Contents : (q \o r) \o z = q \o x
    <3>1. q \in Contents /\ r \in Contents /\ z \in Contents
      BY <1>4, <2>3, <2>4
    <3> QED BY <3>1, PrefixTrans, Zenon
  <2>10. img = (q \o x) \o w
    BY <2>8, <2>9
  <2>11. PICK y \in Contents : (q \o x) \o w = q \o y
    BY <1>4, <2>7, <2>9, PrefixTrans, Zenon
  <2> QED BY <2>10, <2>11
<1>10. CASE tool = "done"
  <2>1. img = q /\ q \o <<>> = q /\ <<>> \in Contents
    BY <1>3, <1>4, <1>10, ConcatEmptySeq, EmptySeq DEF PlaceInv, Contents
  <2> QED BY <2>1
<1>11. CASE tool = "failed"
  BY <1>3, <1>11 DEF PlaceInv
<1> QED BY <1>6, <1>7, <1>8, <1>9, <1>10, <1>11 DEF DiskTypes

LEMMA InputFixed ==
  ASSUME DiskNext
  PROVE  bootblock' = bootblock /\ args' = args /\ UNCHANGED input
BY DEF DiskNext, diskwrite, usage, BootSector, NoBootSector, Skip, WriteZeroSector, fopencheck,
   fread, Pad, FillDisk, input

(* A sector of zeros, where zeros are missing.                               *)
LEMMA ZeroSectorStep ==
  ASSUME DiskAssumption, DiskTypes, CountInv, NEW u, Parts(u), PlaceInv(u),
         At("args"), WriteZeroSector, nsectors < Filling,
         i <= Len(args) => args[i].skip
  PROVE  PlaceInv(u)'
<1>1. PICK m \in Nat : Written = u[i - 1] \o Zeros(m)
  BY DEF PlaceInv, At
<1>2. PICK q, v, c, n : q = Written /\ v = u[i - 1] /\ c = SECTORSIZE /\ n = nsectors
  OBVIOUS
<1>3. c \in Nat /\ c > 2 /\ n \in Nat /\ Filling \in Nat
  BY <1>2, FillingParts DEF DiskAssumption, DiskTypes, At
<1>4. i - 1 \in 0 .. Len(args)
  BY LenProperties DEF DiskTypes
<1>5. v \in Contents
  BY <1>2, <1>4 DEF Parts
<1>6. Zeros(c) \in Contents /\ Len(Zeros(c)) = c
  BY <1>3, ZerosSeq
<1>7. buf = <<>> /\ disk' = disk /\ buf' = Zeros(c) /\ UNCHANGED <<input, i, tool>>
  BY <1>2 DEF At, WriteZeroSector
<1>8. Written' = q \o Zeros(c) /\ Len(Written') = Len(q) + c /\ Len(q) \in Nat
  BY <1>2, <1>6, <1>7, NewWrite
<1>9. Written' = v \o Zeros(m + c)
  <2>1. q = v \o Zeros(m)
    BY <1>1, <1>2
  <2>2. v \in Seq(Cells) /\ Zeros(m) \in Seq(Cells) /\ Zeros(c) \in Seq(Cells)
    BY <1>3, <1>5, ZerosSeq DEF Contents
  <2>3. (v \o Zeros(m)) \o Zeros(c) = v \o (Zeros(m) \o Zeros(c))
    BY <2>2, CellsAssociate, Zenon
  <2>4. Zeros(m) \o Zeros(c) = Zeros(m + c)
    BY <1>3, ZerosAdd
  <2> QED BY <1>8, <2>1, <2>3, <2>4
<1>10. Len(Written') <= Filling * SECTORSIZE
  <2>1. Len(q) = n * c
    BY <1>2 DEF CountInv, At
  <2>2. (n + 1) * c <= Filling * c /\ (n + 1) * c = n * c + c /\ n * c \in Int
    BY <1>2, <1>3, TimesMonotonic, TimesSucc
  <2> QED BY <1>2, <1>3, <1>8, <2>1, <2>2
<1>11. args' = args /\ i' = i /\ tool' = "args" /\ Filling' = Filling
  BY <1>7 DEF At, input, Filling
<1>12. m + c \in Nat
  BY <1>3
<1>13. Written' = u[i' - 1] \o Zeros(m + c)
  BY <1>2, <1>9, <1>11
<1> QED BY <1>10, <1>11, <1>12, <1>13 DEF PlaceInv

(* An argument that is done with.                                            *)
LEMMA NextPart ==
  ASSUME DiskAssumption, DiskTypes, NEW u, Parts(u), i <= Len(args),
         tool' = "args", i' = i + 1, Written' = u[i]
  PROVE  PlaceInv(u)'
<1>1. i \in 0 .. Len(args) /\ i' - 1 = i
  BY LenProperties DEF DiskTypes
<1>2. u[i] \in Contents
  BY <1>1 DEF Parts
<1>3. Written' = u[i' - 1] \o Zeros(0)
  BY <1>1, <1>2, NoZeros
<1> QED BY <1>3 DEF PlaceInv

LEMMA PlaceStep ==
  ASSUME DiskAssumption, DiskTypes, CountInv, ~TooLarge, NEW u, Parts(u), PlaceInv(u), DiskNext
  PROVE  PlaceInv(u)'
<1>1. bootblock' = bootblock /\ args' = args /\ Image' = Image
  BY InputFixed, ImageFixed
<1>2. Len(args) \in Nat /\ i \in 1 .. Len(args) + 1 /\ i - 1 \in 0 .. Len(args)
  BY LenProperties DEF DiskTypes
<1>3. ASSUME usage PROVE PlaceInv(u)'
  <2>1. Written' = Written /\ tool' = "failed"
    BY <1>3 DEF usage, Written
  <2>2. PICK w \in Contents : Image = Written \o w
    BY PlacePrefix
  <2> QED BY <1>1, <2>1, <2>2 DEF PlaceInv
<1>4. ASSUME diskwrite, ~usage PROVE PlaceInv(u)'
  <2>1. PICK w \in 1 .. Len(buf) : write(w)
    BY <1>4 DEF diskwrite
  <2>2. UNCHANGED <<input, i, rest, pos, nsectors, tool>>
    BY <1>4 DEF diskwrite
  <2>3. w \in Nat
    BY LenProperties DEF DiskTypes, Contents
  <2>4. Written' = Written
    BY <2>1, <2>3, ShortWrite
  <2> QED BY <1>1, <2>2, <2>4 DEF PlaceInv, Filling
<1>5. ASSUME BootSector PROVE PlaceInv(u)'
  <2>1. PICK q : q = bootblock \o Zeros(SECTORSIZE - 2 - Len(bootblock)) \o SIGNATURE
    OBVIOUS
  <2>2. ~ (Len(bootblock) > SECTORSIZE - 2) /\ bootblock \in Contents
    BY <1>5 DEF BootSector, TooLarge, DiskTypes
  <2>3. Len(bootblock) <= SECTORSIZE - 2 /\ Len(bootblock) \in Nat
    BY <2>2, LenProperties DEF Contents, DiskAssumption
  <2>4. q \in Contents
    BY <2>1, <2>2, <2>3, HeadSector
  <2>5. Missing(SECTORSIZE - 2, bootblock) = SECTORSIZE - 2 - Len(bootblock)
    BY <2>3 DEF Missing, DiskAssumption
  <2>6. q = u[0]
    BY <2>1, <2>5 DEF Parts
  <2>7. buf = <<>> /\ disk' = disk /\ buf' = q /\ disk = <<>> /\ tool' = "args" /\ i' = 1
    BY <1>5, <2>1 DEF BootSector, At, CountInv
  <2>8. Written' = q
    BY <2>4, <2>7, ConcatEmptySeq DEF Written, Contents
  <2>9. Written' = u[i' - 1] \o Zeros(0)
    BY <2>4, <2>6, <2>7, <2>8, NoZeros
  <2> QED BY <2>7, <2>9 DEF PlaceInv
<1>6. ASSUME Skip, ~usage PROVE PlaceInv(u)'
  <2>1. /\ At("args") /\ tool = "args" /\ i <= Len(args) /\ args[i].skip /\ buf = <<>>
        /\ Filling = args[i].sector
    BY <1>6 DEF Skip, More, At, Filling
  <2>2. CASE nsectors < args[i].sector /\ WriteZeroSector
    BY <2>1, <2>2, ZeroSectorStep
  <2>3. CASE ~ (nsectors < args[i].sector /\ WriteZeroSector)
    <3>1. /\ nsectors = args[i].sector /\ i' = i + 1
          /\ UNCHANGED <<input, disk, buf, rest, pos, nsectors, tool>>
      BY <1>6, <2>3 DEF Skip
    <3>2. PICK q, N : q = Written /\ N = Filling * SECTORSIZE
      OBVIOUS
    <3>3. q \in Contents /\ N \in Nat /\ q \o Zeros(Missing(N, q)) = u[i]
      BY <2>1, <3>2, FillingParts
    <3>4. Len(q) = N
      BY <2>1, <3>1, <3>2 DEF CountInv
    <3>5. q = u[i]
      BY <3>3, <3>4, ZerosDone
    <3>6. Written' = u[i]
      BY <3>1, <3>2, <3>5 DEF Written
    <3> QED BY <2>1, <3>1, <3>6, NextPart
  <2> QED BY <2>2, <2>3
<1>7. ASSUME fopencheck, ~usage PROVE PlaceInv(u)'
  <2>1. /\ i <= Len(args) /\ ~args[i].skip /\ tool = "args" /\ tool' = "read"
        /\ rest' = args[i].file /\ UNCHANGED <<input, i, disk, buf, nsectors>>
    BY <1>7 DEF fopencheck, More, At
  <2>2. Written = u[i - 1]
    BY <2>1, NoFilling
  <2>3. Written' = Written
    BY <2>1 DEF Written
  <2> QED BY <1>1, <2>1, <2>2, <2>3 DEF PlaceInv
<1>8. ASSUME fread PROVE PlaceInv(u)'
  <2>1. PICK q, f, r, t : q = rest /\ f = First(q, BUFSIZE) /\ r = From(q, BUFSIZE) /\ t = Written
    OBVIOUS
  <2>2. q \in Seq(Cells) /\ t \in Seq(Cells)
    BY <2>1, ConcatProperties DEF DiskTypes, Contents, Written
  <2>3. f \in Seq(Cells) /\ r \in Seq(Cells) /\ f \o r = q
    BY <2>1, <2>2, FirstFrom DEF DiskAssumption
  <2>4. /\ tool = "read" /\ buf = <<>> /\ buf' = f /\ rest' = r /\ disk' = disk
        /\ UNCHANGED <<input, i, tool>>
    BY <1>8, <2>1 DEF fread, At
  <2>5. Written' = t \o f
    BY <2>1, <2>3, <2>4, NewWrite DEF Contents
  <2>6. (t \o f) \o r = t \o (f \o r)
    <3>1. f \in Seq(Cells) /\ r \in Seq(Cells) /\ t \in Seq(Cells)
      BY <2>2, <2>3
    <3> QED BY <3>1, CellsAssociate, Zenon
  <2>7. Written' \o rest' = Written \o rest
    BY <2>1, <2>3, <2>4, <2>5, <2>6
  <2> QED BY <1>1, <2>4, <2>7 DEF PlaceInv
<1>9. ASSUME Pad PROVE PlaceInv(u)'
  <2>1. PICK f, v, t, z : f = args[i].file /\ v = u[i - 1] /\ t = Written /\ z = Zeros(Padding)
    OBVIOUS
  <2>2. /\ tool = "read" /\ buf = <<>> /\ rest = <<>> /\ buf' = z /\ disk' = disk
        /\ i' = i + 1 /\ tool' = "args"
    BY <1>9, <2>1 DEF Pad, At
  <2>3. i <= Len(args) /\ ~args[i].skip /\ pos + Len(rest) = Len(f) /\ t \o rest = v \o f
    BY <2>1, <2>2 DEF CountInv, PlaceInv
  <2>4. f \in Seq(Cells) /\ v \in Seq(Cells) /\ t \in Seq(Cells)
    <3>1. f \in Seq(Cells)
      BY <2>1, <2>3, NextArgument DEF Contents
    <3>2. v \in Seq(Cells)
      BY <1>2, <2>1 DEF Parts, Contents
    <3>3. t \in Seq(Cells)
      BY <2>1, ConcatProperties DEF DiskTypes, Contents, Written
    <3> QED BY <3>1, <3>2, <3>3
  <2>5. t = v \o f
    BY <2>2, <2>3, <2>4, ConcatEmptySeq
  <2>6. pos = Len(f)
    BY <2>2, <2>3, EmptySeq DEF DiskTypes
  <2>7. Padding = (-Len(f)) % SECTORSIZE /\ Padding \in Nat
    <3>1. PICK n : n = pos
      OBVIOUS
    <3>2. n \in Nat
      BY <3>1 DEF DiskTypes
    <3> QED BY <2>6, <3>1, <3>2, PaddingAmount DEF Padding
  <2>8. z \in Seq(Cells)
    BY <2>1, <2>7, ZerosSeq DEF Contents
  <2>9. Written' = t \o z
    BY <2>1, <2>2, <2>8, NewWrite DEF Contents
  <2>10. (v \o f) \o z = v \o (f \o z)
    BY <2>4, <2>8, CellsAssociate, Zenon
  <2>11. u[i] = v \o (f \o z)
    <3>1. i \in 1 .. Len(args)
      BY <1>2, <2>3
    <3>2. u[i] = u[i - 1] \o Sectors(args[i].file)
      BY <2>3, <3>1 DEF Parts
    <3> QED BY <2>1, <2>7, <3>2 DEF Sectors
  <2>12. Written' = u[i]
    BY <2>5, <2>9, <2>10, <2>11
  <2> QED BY <2>2, <2>3, <2>12, NextPart
<1>10. ASSUME FillDisk PROVE PlaceInv(u)'
  <2>1. At("args") /\ tool = "args" /\ ~ (i <= Len(args)) /\ Filling = SECTORS
    BY <1>2, <1>10 DEF FillDisk, At, Filling
  <2>2. CASE nsectors < SECTORS /\ WriteZeroSector
    BY <2>1, <2>2, ZeroSectorStep
  <2>3. CASE ~ (nsectors < SECTORS /\ WriteZeroSector)
    <3>1. nsectors >= SECTORS /\ tool' = "done" /\ UNCHANGED <<disk, buf>>
      BY <1>10, <2>3 DEF FillDisk
    <3>2. PICK q, N, n : q = Written /\ N = Filling * SECTORSIZE /\ n = nsectors
      OBVIOUS
    <3>3. q \in Contents /\ N \in Nat /\ q \o Zeros(Missing(N, q)) = Image
      BY <2>1, <3>2, FillingParts
    <3>4. Len(q) = n * SECTORSIZE /\ n \in Nat /\ SECTORS \in Nat /\ SECTORS <= n
      BY <2>1, <3>1, <3>2 DEF CountInv, DiskTypes, DiskAssumption
    <3>5. N <= Len(q)
      BY <2>1, <3>2, <3>4, TimesMonotonic DEF DiskAssumption
    <3>6. q = Image
      BY <3>3, <3>4, <3>5, ZerosDone
    <3>7. Written' = Image'
      BY <1>1, <3>1, <3>2, <3>6 DEF Written
    <3> QED BY <3>1, <3>7 DEF PlaceInv
  <2> QED BY <2>2, <2>3
<1>11. NoBootSector => usage
  BY DEF NoBootSector
<1> QED BY <1>3, <1>4, <1>5, <1>6, <1>7, <1>8, <1>9, <1>10, <1>11 DEF DiskNext

LEMMA DiskInitial ==
  ASSUME DiskAssumption, DiskInit
  PROVE  DiskInv
<1>1. DiskTypes
  <2>1. args \in Seq(Arguments) /\ bootblock \in Contents /\ <<>> \in Contents
    BY EmptySeq DEF DiskInit, DiskAssumption, Contents
  <2>2. Len(args) \in Nat
    BY <2>1, LenProperties
  <2>3. 1 \in 1 .. Len(args) + 1
    BY <2>2
  <2> QED BY <2>1, <2>3 DEF DiskInit, DiskTypes
<1>2. CountInv
  BY DEF DiskInit, CountInv
<1>3. ImageInv
  <2>1. ASSUME NEW u PROVE PlaceInv(u)
    BY DEF DiskInit, PlaceInv
  <2> QED BY <1>1, <2>1, ImageParts DEF DiskInit, DiskTypes, ImageInv
<1> QED BY <1>1, <1>2, <1>3 DEF DiskInv

LEMMA DiskStep ==
  ASSUME DiskAssumption, DiskInv, DiskNext
  PROVE  DiskInv'
<1>1. DiskTypes /\ CountInv /\ ImageInv
  BY DEF DiskInv
<1>2. DiskTypes' /\ CountInv'
  BY <1>1, DiskTypesStep
<1>3. bootblock' = bootblock /\ args' = args /\ Image' = Image
  BY InputFixed, ImageFixed
<1>4. CASE TooLarge
  <2>1. tool \in {"start", "failed"}
    BY <1>1, <1>4 DEF ImageInv
  <2>2. tool' = "failed"
    BY <1>1, <1>4, <2>1 DEF DiskNext, diskwrite, BootSector, NoBootSector, usage, Skip, More,
       fopencheck, fread, Pad, FillDisk, At, CountInv
  <2> QED BY <1>2, <1>3, <1>4, <2>2 DEF ImageInv, TooLarge, DiskInv
<1>5. CASE ~TooLarge
  <2>1. PICK u : Parts(u) /\ PlaceInv(u)
    BY <1>1, <1>5 DEF ImageInv
  <2>2. Parts(u)'
    BY <1>3, <2>1 DEF Parts
  <2>3. PlaceInv(u)'
    BY <1>1, <1>5, <2>1, PlaceStep
  <2> QED BY <1>2, <1>3, <1>5, <2>2, <2>3 DEF ImageInv, TooLarge, DiskInv
<1> QED BY <1>4, <1>5

LEMMA DiskUnchanged ==
  ASSUME DiskInv, UNCHANGED diskvars
  PROVE  DiskInv'
<1>1. /\ bootblock' = bootblock /\ args' = args /\ i' = i /\ disk' = disk /\ buf' = buf
      /\ rest' = rest /\ pos' = pos /\ nsectors' = nsectors /\ tool' = tool
  BY DEF diskvars
<1>2. Image' = Image
  BY <1>1, ImageFixed DEF input
<1>3. Written' = Written /\ Filling' = Filling /\ TooLarge' = TooLarge
  BY <1>1 DEF Written, Filling, TooLarge
<1>4. \A u : (Parts(u) /\ PlaceInv(u)) => (Parts(u) /\ PlaceInv(u))'
  BY <1>1, <1>2, <1>3 DEF Parts, PlaceInv
<1>5. ImageInv'
  BY <1>1, <1>3, <1>4 DEF DiskInv, ImageInv
<1>6. DiskTypes' /\ CountInv'
  BY <1>1, <1>3 DEF DiskInv, DiskTypes, CountInv
<1> QED BY <1>5, <1>6 DEF DiskInv

LEMMA DiskMeaning ==
  ASSUME DiskAssumption, DiskInv
  PROVE  SectorCount /\ DiskImage
<1>1. DiskTypes /\ CountInv /\ ImageInv
  BY DEF DiskInv
<1>2. buf = <<>> => Written = disk
  BY <1>1, ConcatEmptySeq DEF Written, DiskTypes, Contents
<1>3. SectorCount
  BY <1>1, <1>2 DEF SectorCount, At, CountInv
<1>4. ~TooLarge => disk \o buf = First(Image, Len(disk \o buf))
  <2>1. SUFFICES ASSUME ~TooLarge PROVE disk \o buf = First(Image, Len(disk \o buf))
    OBVIOUS
  <2>2. PICK u : Parts(u) /\ PlaceInv(u)
    BY <1>1, <2>1 DEF ImageInv
  <2>3. PICK w \in Contents : Image = Written \o w
    BY <1>1, <2>2, PlacePrefix
  <2>4. PICK q, img : q = Written /\ img = Image
    OBVIOUS
  <2>5. q \in Seq(Cells) /\ w \in Seq(Cells) /\ img = q \o w
    BY <1>1, <2>3, <2>4, ConcatProperties DEF DiskTypes, Written, Contents
  <2>6. First(q \o w, Len(q)) = q
    BY <2>5, FirstOfConcat
  <2> QED BY <2>4, <2>5, <2>6 DEF Written
<1>5. tool = "done" => disk = Image
  <2>1. SUFFICES ASSUME tool = "done" PROVE disk = Image
    OBVIOUS
  <2>2. ~TooLarge
    BY <1>1, <2>1 DEF ImageInv
  <2>3. PICK u : Parts(u) /\ PlaceInv(u)
    BY <1>1, <2>2 DEF ImageInv
  <2> QED BY <1>1, <1>2, <2>1, <2>3 DEF PlaceInv, CountInv
<1> QED BY <1>3, <1>4, <1>5 DEF DiskImage

LEMMA DiskInvariant == Spec => []DiskInv
<1>1. Init => DiskInv
  BY DiskInitial, DiskAssumption DEF Init
<1>2. DiskInv /\ [Next]_vars => DiskInv'
  <2> SUFFICES ASSUME DiskInv, [Next]_vars PROVE DiskInv'
    OBVIOUS
  <2>1. DiskNext => DiskInv'
    BY DiskStep, DiskAssumption
  <2>2. UNCHANGED diskvars => DiskInv'
    BY DiskUnchanged
  <2> QED BY <2>1, <2>2 DEF Next, vars
<1> QED BY <1>1, <1>2, PTL DEF Spec

(***************************************************************************)
(* Whatever files mkbootdisk is given, and however its calls of write()    *)
(* are cut short, what it has written is a beginning of the image asked    *)
(* for, and all of it when it exits with success.                          *)
(***************************************************************************)
THEOREM DiskIsImage == Spec => []DiskImage
<1>1. DiskInv => DiskImage
  BY DiskMeaning, DiskAssumption
<1> QED BY <1>1, DiskInvariant, PTL

(***************************************************************************)
(* nsectors is the number of sectors on the disk wherever main() compares  *)
(* it with a limit.                                                        *)
(***************************************************************************)
THEOREM SectorsCounted == Spec => []SectorCount
<1>1. DiskInv => SectorCount
  BY DiskMeaning, DiskAssumption
<1> QED BY <1>1, DiskInvariant, PTL

-----------------------------------------------------------------------------
(***************************************************************************)
(* The loaders put every segment in its place.                             *)
(*                                                                         *)
(* Reading(p) says how far readseg() has come with the segment p: the      *)
(* sectors below seg.va are in memory, and the drive works on seg.sect or  *)
(* has found it.  Standing(p) says that p is in memory.  The sectors read  *)
(* for one segment overlap no other except with the same cells, and        *)
(* program_loader() writes where the kernel is not: LinkerAssumption.      *)
(***************************************************************************)

(* The disk is finished, and it is one that the linker has put together.     *)
DiskReady ==
  /\ disk \in Disks /\ Len(disk) \in Nat /\ nsectors \in Nat
  /\ Len(disk) = nsectors * SECTORSIZE /\ Len(disk) >= SECTORS * SECTORSIZE

InputInv == bootblock \in BOOTBLOCKS /\ args \in ArgLists

(* The first page of the kernel, as readseg() is asked for it.               *)
Page == [load |-> TRUE, va |-> ELFHDR, offset |-> 0, filesz |-> PAGESIZE, memsz |-> PAGESIZE]

K == Kernel(disk)

(* The cell of the disk that belongs at address x, in the file part of p.    *)
Filed(p, x) == disk[SECTORSIZE + p.offset + (x - p.va) + 1]

ReadUpTo(p, limit) ==
  \A x \in Addresses : RoundDown(p.va, SECTORSIZE) <= x /\ x < limit => mem[x] = Filed(p, x)

DriveInv ==
  /\ drive.busy => seg.asked /\ drive.sector = seg.sect
  /\ seg.asked => Reading
  /\ seg.asked /\ ~drive.busy => drive.data = Sector(seg.sect)

(* The n-th sector of the disk is the one that belongs at address x.         *)
Abreast(n, x, p) == (n - 1) * SECTORSIZE + p.va = x + p.offset

Progress(p) ==
  /\ seg.end_va = p.va + p.filesz /\ seg.memsz = p.va + p.memsz
  /\ RoundDown(p.va, SECTORSIZE) <= seg.va
  /\ Abreast(seg.sect, seg.va, p)
  /\ ReadUpTo(p, seg.va)

Standing(p) == \A x \in Extent(p) : mem[x] = Content(disk, p, x)

KernelStands(n) == \A m \in 1 .. n : Standing(K[m])

SegTypes ==
  /\ seg \in [va : Nat, end_va : Nat, memsz : Nat, sect : Nat, asked : BOOLEAN]
  /\ seg.va % SECTORSIZE = 0

DriveTypes ==
  /\ drive = [busy |-> drive.busy, sector |-> drive.sector, data |-> drive.data]
  /\ drive.busy \in BOOLEAN
  /\ DOMAIN drive.data = 0 .. SECTORSIZE - 1

BootTypes ==
  /\ DOMAIN mem = Addresses
  /\ SegTypes /\ DriveTypes
  /\ ph \in Nat \ {0} /\ program \in 1 .. Len(RamImages) + 1
  /\ boot \in {"bios", "header", "segments", "read", "kernel", "load", "run", "spin", "panic"}

HeaderInv ==
  boot \in {"segments", "read", "kernel", "load", "run", "panic"} =>
    mem[ELFHDR] = disk[SECTORSIZE + 1] /\ mem[ELFHDR] \in DOMAIN Headers

LoadInv ==
  /\ boot = "header" => Progress(Page)
  /\ boot = "segments" => ph \in 1 .. Len(K) + 1 /\ KernelStands(ph - 1)
  /\ boot = "read" => ph \in 1 .. Len(K) /\ Progress(K[ph]) /\ KernelStands(ph - 1)
  /\ boot \in {"kernel", "load", "run", "panic"} => KernelStands(Len(K))

Untouched == boot = "bios" /\ program = 1 /\ ~seg.asked /\ ~drive.busy

LEMMA RoundDownFacts ==
  ASSUME NEW c \in Nat \ {0}, NEW a \in Nat
  PROVE  /\ RoundDown(a, c) \in Nat /\ RoundDown(a, c) <= a /\ a < RoundDown(a, c) + c
         /\ RoundDown(a, c) % c = 0
         /\ \E k \in Nat : RoundDown(a, c) = k * c
<1>1. PICK k, r : k = a \div c /\ r = a % c
  OBVIOUS
<1>2. k \in Int /\ r \in 0 .. c - 1 /\ a = k * c + r
  BY <1>1, Division
<1>3. RoundDown(a, c) = k * c
  BY <1>1, <1>2, TimesMonotonic DEF RoundDown
<1>4. k >= 0
  <2>1. SUFFICES ASSUME k <= -1 PROVE FALSE
    BY <1>2
  <2>2. k * c <= (-1) * c
    BY <1>2, <2>1, TimesMonotonic
  <2> QED BY <1>2, <2>2
<1>5. k * c \in Nat
  BY <1>2, <1>4
<1>6. (k * c) % c = 0
  <2>1. PICK h, s, b : b = k * c /\ h = b \div c /\ s = b % c
    OBVIOUS
  <2>2. b \in Int
    BY <1>5, <2>1
  <2>3. h \in Int /\ s \in 0 .. c - 1 /\ b = h * c + s
    BY <2>1, <2>2, Division
  <2>4. h * c + s = k * c + 0
    BY <2>1, <2>3
  <2>5. s = 0
    BY <1>2, <2>3, <2>4, DivisionUnique, 0 \in 0 .. c - 1
  <2> QED BY <2>1, <2>5
<1> QED BY <1>2, <1>3, <1>4, <1>5, <1>6

(* A multiple of c is where everything up to the next one is rounded to.     *)
LEMMA RoundDownUnique ==
  ASSUME NEW c \in Nat \ {0}, NEW x \in Nat, NEW b \in Nat, b % c = 0, b <= x, x < b + c
  PROVE  RoundDown(x, c) = b
<1>1. PICK k, h, r : k = b \div c /\ h = x \div c /\ r = x % c
  OBVIOUS
<1>2. k \in Int /\ b = k * c
  BY <1>1, Division
<1>3. h \in Int /\ r \in 0 .. c - 1 /\ x = h * c + r
  BY <1>1, Division
<1>4. x - b \in 0 .. c - 1 /\ k * c + (x - b) = h * c + r
  BY <1>2, <1>3
<1>5. r = x - b
  BY <1>2, <1>3, <1>4, DivisionUnique
<1> QED BY <1>1, <1>5 DEF RoundDown

LEMMA NextMultiple ==
  ASSUME NEW c \in Nat \ {0}, NEW b \in Nat, b % c = 0
  PROVE  (b + c) % c = 0
<1>1. PICK k, e, h, r : k = b \div c /\ e = b + c /\ h = e \div c /\ r = e % c
  OBVIOUS
<1>2. k \in Int /\ b = k * c
  BY <1>1, Division
<1>3. h \in Int /\ r \in 0 .. c - 1 /\ b + c = h * c + r
  <2>1. e \in Int
    BY <1>1
  <2>2. h \in Int /\ r \in 0 .. c - 1 /\ e = h * c + r
    BY <1>1, <2>1, Division
  <2> QED BY <1>1, <2>2
<1>4. (k + 1) * c + 0 = h * c + r /\ k + 1 \in Int
  BY <1>2, <1>3, TimesSucc
<1>5. r = 0
  BY <1>3, <1>4, DivisionUnique, 0 \in 0 .. c - 1
<1> QED BY <1>1, <1>5

(* Two multiples of c are c apart.                                           *)
LEMMA MultiplesApart ==
  ASSUME NEW c \in Nat \ {0}, NEW a \in Nat, NEW b \in Nat, a % c = 0, b % c = 0, a < b + c
  PROVE  a <= b
<1>1. PICK k, h : k = a \div c /\ h = b \div c
  OBVIOUS
<1>2. k \in Int /\ a = k * c /\ h \in Int /\ b = h * c
  BY <1>1, Division
<1>3. CASE k <= h
  BY <1>2, <1>3, TimesMonotonic
<1>4. CASE h + 1 <= k
  <2>1. (h + 1) * c <= k * c /\ (h + 1) * c = h * c + c
    BY <1>2, <1>4, TimesMonotonic, TimesSucc
  <2> QED BY <1>2, <2>1
<1> QED BY <1>2, <1>3, <1>4

-----------------------------------------------------------------------------

LEMMA Sizes ==
  /\ SECTORSIZE \in Nat \ {0} /\ PAGESIZE \in Nat \ {0} /\ MEMORY \in Nat /\ ELFHDR \in Nat
  /\ SECTORS * SECTORSIZE \in Nat
  /\ ELFHDR + PAGESIZE <= MEMORY /\ ELFHDR % SECTORSIZE = 0
  /\ SECTORSIZE + PAGESIZE <= SECTORS * SECTORSIZE
  /\ ELFHDR \in Addresses
BY BootAssumption, DiskAssumption DEF BootAssumption, DiskAssumption, Addresses

LEMMA DiskFixed ==
  ASSUME UNCHANGED diskvars
  PROVE  /\ disk' = disk /\ nsectors' = nsectors /\ tool' = tool /\ K' = K
         /\ DiskReady' = DiskReady
BY DEF diskvars, K, DiskReady

LEMMA PageFits ==
  ASSUME DiskReady
  PROVE  Page \in Segments /\ OnDisk(disk, Page)
<1>1. Page \in Segments
  BY Sizes DEF Page, Segments
<1>2. 0 % SECTORSIZE = 0
  BY Sizes, SMT
<1>3. SECTORSIZE + 0 + PAGESIZE <= Len(disk)
  BY Sizes DEF DiskReady
<1> QED BY <1>1, <1>2, <1>3, Sizes DEF Page, OnDisk

(* What the linker guarantees of the kernel on this disk.                    *)
LEMMA KernelFits ==
  ASSUME DiskReady, disk[SECTORSIZE + 1] \in DOMAIN Headers
  PROVE  /\ K \in Seq(Segments) /\ Len(K) \in Nat
         /\ \A n \in 1 .. Len(K) :
              /\ K[n] \in Segments /\ OnDisk(disk, K[n]) /\ ~ Reaches(K[n], ELFHDR)
              /\ \A m \in 1 .. n - 1 : \A x \in Extent(K[m]) :
                   Reaches(K[n], x) => /\ x \notin Bss(K[m]) /\ x \notin Bss(K[n])
                                       /\ K[n].va - K[n].offset = K[m].va - K[m].offset
<1>1. K \in Seq(Segments)
  BY BootAssumption DEF BootAssumption, K, Kernel
<1>2. Len(K) \in Nat /\ \A n \in 1 .. Len(K) : K[n] \in Segments
  BY <1>1, LenProperties, ElementOfSeq
<1>3. KernelLinked(disk)
  BY LinkerAssumption DEF DiskReady, LinkerAssumption
<1> QED BY <1>1, <1>2, <1>3 DEF KernelLinked, K

LEMMA SegmentFields ==
  ASSUME NEW p \in Segments
  PROVE  p.va \in Nat /\ p.offset \in Nat /\ p.filesz \in Nat /\ p.memsz \in Nat
BY DEF Segments

(* The sector that readseg() is at is on the disk.                           *)
LEMMA SectorExists ==
  ASSUME DiskReady, SegTypes, NEW p \in Segments, OnDisk(disk, p), Progress(p), seg.va < seg.end_va
  PROVE  seg.sect < nsectors
<1>1. PICK c, a, e, k, N : c = SECTORSIZE /\ a = seg.va /\ e = seg.end_va /\ k = seg.sect /\ N = nsectors
  OBVIOUS
<1>2. c \in Nat /\ a \in Nat /\ e \in Nat /\ k \in Nat /\ N \in Nat
  BY <1>1, Sizes DEF SegTypes, DiskReady
<1>3. (k - 1) * c + p.va = a + p.offset /\ e = p.va + p.filesz /\ a < e
  BY <1>1 DEF Progress, Abreast
<1>4. c + p.offset + p.filesz <= N * c
  BY <1>1 DEF OnDisk, DiskReady
<1>5. (k - 1) * c = k * c - c /\ k * c \in Int /\ N * c \in Int
  BY <1>2, TimesSucc, TimesMonotonic
<1>6. k * c < N * c
  BY <1>2, <1>3, <1>4, <1>5, SegmentFields
<1>7. N <= k => N * c <= k * c
  BY <1>2, TimesMonotonic
<1> QED BY <1>1, <1>2, <1>5, <1>6, <1>7

(* What insl() puts into memory belongs there.                               *)
LEMMA ReadDataMem ==
  ASSUME DiskReady, BootTypes, DriveInv, NEW p \in Segments, Progress(p), ReadData
  PROVE  \A x \in Addresses :
           mem'[x] = IF seg.va <= x /\ x < seg.va + SECTORSIZE THEN Filed(p, x) ELSE mem[x]
<1>1. SUFFICES ASSUME NEW x \in Addresses
               PROVE  mem'[x] = IF seg.va <= x /\ x < seg.va + SECTORSIZE THEN Filed(p, x) ELSE mem[x]
  OBVIOUS
<1>2. PICK c, a, k : c = SECTORSIZE /\ a = seg.va /\ k = seg.sect
  OBVIOUS
<1>3. c \in Nat \ {0} /\ a \in Nat /\ k \in Nat /\ x \in Nat
  BY <1>2, Sizes DEF BootTypes, SegTypes, Addresses
<1>4. drive.data = Sector(k)
  BY <1>2 DEF ReadData, DriveInv, waitdisk
<1>5. DOMAIN drive.data = 0 .. c - 1
  BY <1>2 DEF BootTypes, DriveTypes
<1>6. mem'[x] = IF x - a \in 0 .. c - 1 THEN drive.data[x - a] ELSE mem[x]
  BY <1>2, <1>5 DEF ReadData
<1>7. ASSUME a <= x, x < a + c PROVE drive.data[x - a] = Filed(p, x)
  <2>1. x - a \in 0 .. c - 1
    BY <1>3, <1>7
  <2>2. drive.data[x - a] = disk[k * c + (x - a) + 1]
    BY <1>2, <1>4, <2>1 DEF Sector
  <2>3. (k - 1) * c + p.va = a + p.offset /\ (k - 1) * c = k * c - c /\ k * c \in Int
    BY <1>2, <1>3, TimesSucc, TimesMonotonic DEF Progress, Abreast
  <2>4. k * c + (x - a) + 1 = c + p.offset + (x - p.va) + 1
    <3>1. PICK t, u, v, o : t = k * c /\ u = (k - 1) * c /\ v = p.va /\ o = p.offset
      OBVIOUS
    <3>2. t \in Int /\ v \in Nat /\ o \in Nat /\ u = t - c /\ u + v = a + o
      BY <2>3, <3>1, SegmentFields
    <3>3. t + (x - a) + 1 = c + o + (x - v) + 1
      BY <1>3, <3>2
    <3> QED BY <3>1, <3>3
  <2> QED BY <1>2, <2>2, <2>4 DEF Filed
<1>8. (a <= x /\ x < a + c) <=> x - a \in 0 .. c - 1
  BY <1>3
<1> QED BY <1>2, <1>6, <1>7, <1>8

LEMMA NextAbreast ==
  ASSUME NEW p \in Segments, NEW n \in Nat, NEW x \in Nat, Abreast(n, x, p)
  PROVE  Abreast(n + 1, x + SECTORSIZE, p)
<1>1. SECTORSIZE \in Nat /\ p.va \in Nat /\ p.offset \in Nat
  BY Sizes, SegmentFields
<1>2. (n - 1) * SECTORSIZE = n * SECTORSIZE - SECTORSIZE /\ n * SECTORSIZE \in Int
  BY <1>1, TimesSucc, TimesMonotonic
<1>3. n * SECTORSIZE - SECTORSIZE + p.va = x + p.offset
  BY <1>2 DEF Abreast
<1>4. n * SECTORSIZE + p.va = x + SECTORSIZE + p.offset
  <2>1. PICK t, v, o : t = n * SECTORSIZE /\ v = p.va /\ o = p.offset
    OBVIOUS
  <2>2. t \in Int /\ v \in Nat /\ o \in Nat /\ SECTORSIZE \in Nat
    BY <1>1, <1>2, <2>1
  <2>3. t - SECTORSIZE + v = x + o
    BY <1>3, <2>1
  <2>4. t + v = x + SECTORSIZE + o
    BY <2>2, <2>3
  <2> QED BY <2>1, <2>4
<1>5. n + 1 - 1 = n
  OBVIOUS
<1> QED BY <1>4, <1>5 DEF Abreast

LEMMA ReadDataProgress ==
  ASSUME DiskReady, BootTypes, DriveInv, NEW p \in Segments, Progress(p), ReadData, UNCHANGED diskvars
  PROVE  Progress(p)' /\ SegTypes' /\ seg'.asked = FALSE /\ seg'.end_va = seg.end_va
<1>1. PICK c, a, k : c = SECTORSIZE /\ a = seg.va /\ k = seg.sect
  OBVIOUS
<1>2. c \in Nat \ {0} /\ a \in Nat /\ k \in Nat /\ a % c = 0
  BY <1>1, Sizes DEF BootTypes, SegTypes
<1>3. /\ seg'.va = a + c /\ seg'.sect = k + 1 /\ seg'.asked = FALSE
      /\ seg'.end_va = seg.end_va /\ seg'.memsz = seg.memsz
      /\ seg' \in [va : Nat, end_va : Nat, memsz : Nat, sect : Nat, asked : BOOLEAN]
  <2>1. seg' = [seg EXCEPT !.va = a + c, !.sect = k + 1, !.asked = FALSE]
    BY <1>1 DEF ReadData
  <2>2. seg \in [va : Nat, end_va : Nat, memsz : Nat, sect : Nat, asked : BOOLEAN]
    BY DEF BootTypes, SegTypes
  <2>3. a + c \in Nat /\ k + 1 \in Nat
    BY <1>2
  <2> QED BY <2>1, <2>2, <2>3
<1>4. SegTypes'
  BY <1>1, <1>2, <1>3, NextMultiple DEF SegTypes
<1>5. Abreast(k + 1, a + c, p)
  <2>1. Abreast(k, a, p)
    BY <1>1 DEF Progress
  <2>2. k \in Nat /\ a \in Nat /\ c = SECTORSIZE
    BY <1>1, <1>2
  <2>3. Abreast(k + 1, a + SECTORSIZE, p)
    BY <2>1, <2>2, NextAbreast
  <2> QED BY <2>2, <2>3
<1>6. RoundDown(p.va, c) \in Nat /\ RoundDown(p.va, c) <= a
  BY <1>1, <1>2, RoundDownFacts, SegmentFields DEF Progress
<1>7. ASSUME NEW x \in Addresses, RoundDown(p.va, c) <= x, x < a + c
      PROVE  mem'[x] = Filed(p, x)
  <2>1. mem'[x] = IF a <= x /\ x < a + c THEN Filed(p, x) ELSE mem[x]
    BY <1>1, ReadDataMem
  <2>2. CASE a <= x
    BY <1>7, <2>1, <2>2
  <2>3. CASE x < a
    BY <1>1, <1>2, <1>7, <2>1, <2>3 DEF Progress, ReadUpTo, Addresses
  <2> QED BY <1>2, <2>2, <2>3 DEF Addresses
<1>8. Filed(p, 0)' = Filed(p, 0) /\ \A x \in Addresses : Filed(p, x)' = Filed(p, x)
  BY DiskFixed DEF Filed
<1>9. ReadUpTo(p, seg.va)'
  BY <1>1, <1>3, <1>7, <1>8 DEF ReadUpTo
<1>10. seg'.end_va = p.va + p.filesz /\ seg'.memsz = p.va + p.memsz
  BY <1>3 DEF Progress
<1>11. RoundDown(p.va, SECTORSIZE) <= a + c
  BY <1>1, <1>2, <1>6
<1>12. Abreast(seg'.sect, seg'.va, p)
  <2>1. seg'.sect = k + 1 /\ seg'.va = a + c
    BY <1>3
  <2> QED BY <1>5, <2>1
<1>13. RoundDown(p.va, SECTORSIZE) <= seg'.va
  BY <1>3, <1>11
<1>14. Progress(p)'
  BY <1>9, <1>10, <1>12, <1>13 DEF Progress
<1> QED BY <1>3, <1>4, <1>14

(* The first sector that is read for a segment.                              *)
LEMMA FirstAbreast ==
  ASSUME NEW p \in Segments, p.va % SECTORSIZE = p.offset % SECTORSIZE
  PROVE  /\ 1 + p.offset \div SECTORSIZE \in Nat
         /\ Abreast(1 + p.offset \div SECTORSIZE, RoundDown(p.va, SECTORSIZE), p)
<1>1. PICK c, v, o, k, r : c = SECTORSIZE /\ v = p.va /\ o = p.offset /\ k = o \div c /\ r = o % c
  OBVIOUS
<1>2. c \in Nat \ {0} /\ v \in Nat /\ o \in Nat
  BY <1>1, Sizes, SegmentFields
<1>3. k \in Int /\ r \in 0 .. c - 1 /\ o = k * c + r
  <2>1. c \in Nat \ {0} /\ o \in Int
    BY <1>2
  <2>2. o % c \in 0 .. c - 1 /\ o \div c \in Int /\ o = (o \div c) * c + (o % c)
    BY <2>1, Division
  <2> QED BY <1>1, <2>2, Zenon
<1>4. k >= 0
  <2>1. SUFFICES ASSUME k <= -1 PROVE FALSE
    BY <1>3
  <2>2. k * c <= (-1) * c
    BY <1>2, <1>3, <2>1, TimesMonotonic
  <2> QED BY <1>2, <1>3, <2>2
<1>5. 1 + k \in Nat /\ 1 + k - 1 = k
  BY <1>3, <1>4
<1>6. k * c \in Int
  BY <1>2, <1>3, TimesMonotonic
<1>7. RoundDown(v, c) = v - r
  BY <1>1 DEF RoundDown
<1>8. k * c + v = (v - r) + o
  <2>1. PICK t : t = k * c
    OBVIOUS
  <2> QED BY <1>2, <1>3, <1>6, <2>1
<1>9. (1 + k - 1) * c + v = RoundDown(v, c) + o
  BY <1>5, <1>7, <1>8
<1> QED BY <1>1, <1>5, <1>9 DEF Abreast

LEMMA ReadSegStarts ==
  ASSUME NEW p \in Segments, NEW n \in Nat, Abreast(n, RoundDown(p.va, SECTORSIZE), p),
         ReadSeg(p.va, p.filesz, p.memsz, n)
  PROVE  Progress(p)' /\ SegTypes' /\ seg'.asked = FALSE
<1>1. PICK b : b = RoundDown(p.va, SECTORSIZE)
  OBVIOUS
<1>2. b \in Nat /\ b % SECTORSIZE = 0
  BY <1>1, Sizes, SegmentFields, RoundDownFacts
<1>3. seg' = [va |-> b, end_va |-> p.va + p.filesz, memsz |-> p.va + p.memsz,
              sect |-> n, asked |-> FALSE]
  BY <1>1 DEF ReadSeg
<1>4. p.va + p.filesz \in Nat /\ p.va + p.memsz \in Nat
  BY SegmentFields
<1>5. SegTypes' /\ seg'.asked = FALSE
  BY <1>2, <1>3, <1>4 DEF SegTypes
<1>6. seg'.va = b /\ seg'.sect = n /\ seg'.end_va = p.va + p.filesz /\ seg'.memsz = p.va + p.memsz
  BY <1>3
<1>7. ReadUpTo(p, seg.va)'
  BY <1>1, <1>2, <1>6 DEF ReadUpTo, Addresses
<1>8. Abreast(seg'.sect, seg'.va, p) /\ RoundDown(p.va, SECTORSIZE) <= seg'.va
  BY <1>1, <1>2, <1>6
<1> QED BY <1>5, <1>6, <1>7, <1>8 DEF Progress

(* The cells that insl() writes are reached, and nothing else.               *)
LEMMA CellsReached ==
  ASSUME SegTypes, NEW p \in Segments, Progress(p), seg.va < seg.end_va,
         NEW x \in Addresses, seg.va <= x, x < seg.va + SECTORSIZE
  PROVE  Reaches(p, x)
<1>1. PICK a, b : a = seg.va /\ b = RoundDown(p.va, SECTORSIZE)
  OBVIOUS
<1>2. a \in Nat /\ a % SECTORSIZE = 0 /\ x \in Nat /\ SECTORSIZE \in Nat \ {0}
  BY <1>1, Sizes DEF SegTypes, Addresses
<1>3. RoundDown(x, SECTORSIZE) = a
  BY <1>1, <1>2, RoundDownUnique
<1>4. a < p.va + p.filesz /\ b <= a /\ b \in Nat
  BY <1>1, <1>2, SegmentFields, RoundDownFacts DEF Progress
<1>5. b <= x
  BY <1>1, <1>2, <1>4
<1> QED BY <1>1, <1>3, <1>4, <1>5 DEF Reaches

(* So are the cells that are cleared.                                        *)
LEMMA BssReached ==
  ASSUME NEW p \in Segments, NEW x \in Bss(p)
  PROVE  Reaches(p, x)
<1>1. p.va \in Nat /\ p.filesz \in Nat /\ p.memsz \in Nat
  BY SegmentFields
<1>2. x \in Int /\ p.va <= x /\ x < p.va + p.memsz
  BY <1>1 DEF Bss
<1>3. RoundDown(p.va, SECTORSIZE) \in Nat /\ RoundDown(p.va, SECTORSIZE) <= p.va
  BY <1>1, Sizes, RoundDownFacts
<1>4. RoundDown(p.va, SECTORSIZE) <= x
  BY <1>1, <1>2, <1>3
<1> QED BY <1>2, <1>4 DEF Reaches

LEMMA ExtentCells ==
  ASSUME NEW p \in Segments, OnDisk(disk, p), NEW x \in Extent(p)
  PROVE  /\ x \in Addresses /\ x \in Nat /\ p.va <= x /\ x < p.va + p.memsz
         /\ x \notin Bss(p) => x < p.va + p.filesz
         /\ x \in Bss(p) => ~ (x < p.va + p.filesz)
<1>1. PICK v, f, s : v = p.va /\ f = p.filesz /\ s = p.memsz
  OBVIOUS
<1>2. v \in Nat /\ f \in Nat /\ s \in Nat /\ MEMORY \in Nat
  BY <1>1, SegmentFields, Sizes
<1>3. v + s <= MEMORY
  BY <1>1 DEF OnDisk
<1>4. x \in v .. v + s - 1
  BY <1>1 DEF Extent
<1>5. x \in Nat /\ x < MEMORY /\ v <= x /\ x < v + s
  BY <1>2, <1>3, <1>4
<1>6. x \in Bss(p) <=> x \in v + f .. v + s - 1
  BY <1>1 DEF Bss
<1>7. x \in Addresses
  BY <1>2, <1>5 DEF Addresses
<1> QED BY <1>1, <1>2, <1>5, <1>6, <1>7

LEMMA ReadDataKeeps ==
  ASSUME DiskReady, BootTypes, DriveInv, disk[SECTORSIZE + 1] \in DOMAIN Headers,
         ReadData, UNCHANGED diskvars,
         NEW n \in 1 .. Len(K), Progress(K[n])
  PROVE  /\ mem'[ELFHDR] = mem[ELFHDR]
         /\ \A m \in 1 .. n - 1 : Standing(K[m]) => Standing(K[m])'
<1>1. PICK p : p = K[n]
  OBVIOUS
<1>2. p \in Segments /\ OnDisk(disk, p) /\ ~ Reaches(p, ELFHDR)
  BY <1>1, KernelFits
<1>3. Progress(p) /\ SegTypes /\ seg.va < seg.end_va
  BY <1>1 DEF BootTypes, ReadData, Reading
<1>4. \A x \in Addresses :
        mem'[x] = IF seg.va <= x /\ x < seg.va + SECTORSIZE THEN Filed(p, x) ELSE mem[x]
  BY <1>2, <1>3, ReadDataMem
<1>5. \A x \in Addresses : seg.va <= x /\ x < seg.va + SECTORSIZE => Reaches(p, x)
  BY <1>2, <1>3, CellsReached
<1>6. mem'[ELFHDR] = mem[ELFHDR]
  BY <1>2, <1>4, <1>5, Sizes
<1>7. ASSUME NEW m \in 1 .. n - 1, Standing(K[m]) PROVE Standing(K[m])'
  <2>1. PICK q : q = K[m]
    OBVIOUS
  <2>2. m \in 1 .. Len(K)
    BY KernelFits
  <2>3. q \in Segments /\ OnDisk(disk, q) /\ Standing(q)
    BY <1>7, <2>1, <2>2, KernelFits
  <2>4. \A x \in Extent(q) : Reaches(p, x) => x \notin Bss(q) /\ p.va - p.offset = q.va - q.offset
    BY <1>1, <2>1, KernelFits
  <2>5. ASSUME NEW x \in Extent(q) PROVE mem'[x] = Content(disk, q, x)
    <3>1. x \in Addresses /\ mem[x] = Content(disk, q, x)
      BY <2>3, <2>5, ExtentCells DEF Standing
    <3>2. CASE seg.va <= x /\ x < seg.va + SECTORSIZE
      <4>1. x \notin Bss(q) /\ p.va - p.offset = q.va - q.offset
        BY <1>5, <2>4, <2>5, <3>1, <3>2
      <4>2. x < q.va + q.filesz /\ x \in Nat
        BY <2>3, <2>5, <4>1, ExtentCells
      <4>3. SECTORSIZE + p.offset + (x - p.va) + 1 = SECTORSIZE + q.offset + (x - q.va) + 1
        <5>1. PICK pv, po, qv, qo, c : pv = p.va /\ po = p.offset /\ qv = q.va /\ qo = q.offset
                                       /\ c = SECTORSIZE
          OBVIOUS
        <5>2. pv \in Nat /\ po \in Nat /\ qv \in Nat /\ qo \in Nat /\ c \in Nat
          BY <1>2, <2>3, <5>1, SegmentFields, Sizes
        <5>3. pv - po = qv - qo
          BY <4>1, <5>1
        <5>4. c + po + (x - pv) + 1 = c + qo + (x - qv) + 1
          BY <4>2, <5>2, <5>3
        <5> QED BY <5>1, <5>4
      <4>4. mem'[x] = Filed(p, x)
        BY <1>4, <3>1, <3>2
      <4> QED BY <4>2, <4>3, <4>4 DEF Filed, Content
    <3>3. CASE ~ (seg.va <= x /\ x < seg.va + SECTORSIZE)
      BY <1>4, <3>1, <3>3
    <3> QED BY <3>2, <3>3
  <2>6. Standing(q)'
    BY <2>5, DiskFixed DEF Standing
  <2> QED BY <2>1, <2>6, DiskFixed
<1> QED BY <1>6, <1>7

(* Clearing its bss completes a segment, and harms no earlier one.           *)
LEMMA ClearBssCompletes ==
  ASSUME DiskReady, BootTypes, disk[SECTORSIZE + 1] \in DOMAIN Headers,
         ClearBss, UNCHANGED diskvars,
         NEW n \in 1 .. Len(K), Progress(K[n]), KernelStands(n - 1)
  PROVE  mem'[ELFHDR] = mem[ELFHDR] /\ KernelStands(n)'
<1>1. PICK p : p = K[n]
  OBVIOUS
<1>2. p \in Segments /\ OnDisk(disk, p) /\ ~ Reaches(p, ELFHDR)
  BY <1>1, KernelFits
<1>3. ASSUME NEW x \in Addresses
      PROVE  mem'[x] = IF x \in Bss(p) THEN 0 ELSE mem[x]
  <2>1. seg.end_va = p.va + p.filesz /\ seg.memsz = p.va + p.memsz
    BY <1>1 DEF Progress
  <2>2. p.va + p.filesz \in Nat /\ p.va + p.memsz \in Nat /\ x \in Nat
    BY <1>2, SegmentFields DEF Addresses
  <2>3. mem'[x] = IF seg.end_va <= x /\ x < seg.memsz THEN 0 ELSE mem[x]
    BY DEF ClearBss, Cleared
  <2>4. x \in Bss(p) <=> p.va + p.filesz <= x /\ x < p.va + p.memsz
    <3>1. PICK v, f, s : v = p.va /\ f = p.filesz /\ s = p.memsz
      OBVIOUS
    <3>2. v \in Nat /\ f \in Nat /\ s \in Nat
      BY <1>2, <3>1, SegmentFields
    <3>3. x \in Bss(p) <=> x \in v + f .. v + s - 1
      BY <3>1 DEF Bss
    <3> QED BY <2>2, <3>1, <3>2, <3>3
  <2> QED BY <2>1, <2>3, <2>4
<1>4. mem'[ELFHDR] = mem[ELFHDR]
  BY <1>2, <1>3, BssReached, Sizes
<1>5. ASSUME NEW m \in 1 .. n - 1 PROVE Standing(K[m])'
  <2>1. PICK q : q = K[m]
    OBVIOUS
  <2>2. m \in 1 .. Len(K)
    BY KernelFits
  <2>3. q \in Segments /\ OnDisk(disk, q) /\ Standing(q)
    BY <2>1, <2>2, KernelFits DEF KernelStands
  <2>4. \A x \in Extent(q) : Reaches(p, x) => x \notin Bss(p)
    BY <1>1, <2>1, KernelFits
  <2>5. ASSUME NEW x \in Extent(q) PROVE mem'[x] = Content(disk, q, x)
    <3>1. x \in Addresses /\ mem[x] = Content(disk, q, x)
      BY <2>3, <2>5, ExtentCells DEF Standing
    <3>2. x \notin Bss(p)
      BY <1>2, <2>4, <2>5, BssReached
    <3> QED BY <1>3, <3>1, <3>2
  <2>6. Standing(q)'
    BY <2>5, DiskFixed DEF Standing
  <2> QED BY <2>1, <2>6, DiskFixed
<1>6. Standing(p)'
  <2>1. ASSUME NEW x \in Extent(p) PROVE mem'[x] = Content(disk, p, x)
    <3>1. x \in Addresses /\ x \in Nat /\ p.va <= x
      BY <1>2, <2>1, ExtentCells
    <3>2. CASE x \in Bss(p)
      BY <1>2, <1>3, <3>1, <3>2, ExtentCells DEF Content
    <3>3. CASE x \notin Bss(p)
      <4>1. x < p.va + p.filesz
        BY <1>2, <3>3, ExtentCells
      <4>2. seg.va >= seg.end_va /\ seg.end_va = p.va + p.filesz /\ seg.va \in Nat
        BY <1>1 DEF ClearBss, ReadDone, Progress, BootTypes, SegTypes
      <4>3. x < seg.va
        BY <1>2, <3>1, <4>1, <4>2, SegmentFields
      <4>4. RoundDown(p.va, SECTORSIZE) <= x
        <5>1. p.va \in Nat
          BY <1>2, SegmentFields
        <5>2. RoundDown(p.va, SECTORSIZE) \in Nat /\ RoundDown(p.va, SECTORSIZE) <= p.va
          BY <5>1, RoundDownFacts, Sizes
        <5> QED BY <3>1, <5>1, <5>2
      <4>5. mem[x] = Filed(p, x)
        BY <1>1, <3>1, <4>3, <4>4 DEF Progress, ReadUpTo
      <4> QED BY <1>3, <3>1, <3>3, <4>1, <4>5 DEF Filed, Content
    <3> QED BY <3>2, <3>3
  <2> QED BY <2>1, DiskFixed DEF Standing
<1>7. \A m \in 1 .. n : m = n \/ m \in 1 .. n - 1
  BY KernelFits
<1>8. \A m \in 1 .. n : Standing(K[m])'
  BY <1>1, <1>5, <1>6, <1>7, DiskFixed
<1> QED BY <1>4, <1>8, DiskFixed DEF KernelStands

-----------------------------------------------------------------------------
(* The programs.                                                             *)

Program(q, n) == Headers[ElfHeader(disk, q)][n]

(* The segment p of program q is as in its image.                            *)
Copy(q, p) ==
  \A k \in 0 .. p.memsz - 1 :
    mem[p.va + k] = IF k < p.filesz THEN mem[RamImages[q] + p.offset + k] ELSE 0

ProgramInv ==
  /\ boot \in {"kernel", "load", "run"} => \A q \in 1 .. program - 1 : Elf(disk, q)
  /\ boot = "load" => Elf(disk, program)

ProgramsPlaced ==
  /\ boot \in {"kernel", "load", "run"} =>
       \A q \in 1 .. program - 1 : \A n \in Loads(disk, q) : Copy(q, Program(q, n))
  /\ boot = "load" =>
       \A n \in Loads(disk, program) : n < ph => Copy(program, Program(program, n))

BootInv ==
  /\ BootTypes /\ DriveInv
  /\ tool # "done" => Untouched
  /\ tool = "done" => HeaderInv /\ LoadInv /\ ProgramInv /\ (Aligned => ProgramsPlaced)

LEMMA ProgramFits ==
  ASSUME DiskReady, disk[SECTORSIZE + 1] \in DOMAIN Headers, NEW q \in 1 .. Len(RamImages)
  PROVE  /\ InKernel(K, RamImages[q])
         /\ Elf(disk, q) => \A n \in Loads(disk, q) :
              LET p == Program(q, n)
              IN  /\ p \in Segments /\ p.load
                  /\ p.filesz <= p.memsz /\ p.va + p.memsz <= MEMORY
                  /\ \A k \in 0 .. p.filesz - 1 : InKernel(K, RamImages[q] + p.offset + k)
                  /\ \A x \in Copied(p) : x # ELFHDR /\ ~ InKernel(K, x)
                  /\ \A r \in 1 .. Len(RamImages) : Elf(disk, r) => \A m \in Loads(disk, r) :
                       <<q, n>> # <<r, m>> => Copied(p) \cap Extent(Program(r, m)) = {}
                  /\ Aligned => p.va % PAGESIZE = 0
<1>1. ProgramsLinked(disk)
  BY LinkerAssumption DEF DiskReady, LinkerAssumption
<1>2. InKernel(K, RamImages[q])
  BY <1>1 DEF ProgramsLinked, K
<1>3. ASSUME Elf(disk, q), NEW n \in Loads(disk, q)
      PROVE  Program(q, n) \in Segments /\ Program(q, n).load
  <2>1. PICK h : h = Headers[ElfHeader(disk, q)]
    OBVIOUS
  <2>2. h \in Seq(Segments)
    BY <1>3, <2>1, BootAssumption DEF BootAssumption, Elf
  <2>3. n \in 1 .. Len(h) /\ h[n].load
    BY <1>3, <2>1 DEF Loads
  <2>4. h[n] \in Segments
    BY <2>2, <2>3, ElementOfSeq
  <2> QED BY <2>1, <2>3, <2>4 DEF Program
<1>4. ASSUME Elf(disk, q), Aligned, NEW n \in Loads(disk, q)
      PROVE  Program(q, n).va % PAGESIZE = 0
  BY <1>4 DEF Aligned, DiskReady, Program
<1>5. ASSUME Elf(disk, q), NEW n \in Loads(disk, q)
      PROVE  LET p == Program(q, n)
             IN  /\ p.filesz <= p.memsz /\ p.va + p.memsz <= MEMORY
                 /\ \A k \in 0 .. p.filesz - 1 : InKernel(K, RamImages[q] + p.offset + k)
                 /\ \A x \in Copied(p) : x # ELFHDR /\ ~ InKernel(K, x)
                 /\ \A r \in 1 .. Len(RamImages) : Elf(disk, r) => \A m \in Loads(disk, r) :
                      <<q, n>> # <<r, m>> => Copied(p) \cap Extent(Program(r, m)) = {}
  BY <1>1, <1>5 DEF ProgramsLinked, K, Program
<1> QED BY <1>2, <1>3, <1>4, <1>5

(* Where the kernel stands, every image begins with its ELF header.          *)
LEMMA ImageHeader ==
  ASSUME DiskReady, disk[SECTORSIZE + 1] \in DOMAIN Headers, KernelStands(Len(K)),
         NEW q \in 1 .. Len(RamImages)
  PROVE  mem[RamImages[q]] = ElfHeader(disk, q)
<1>1. \E n \in 1 .. Len(K) : RamImages[q] \in Extent(K[n])
  BY ProgramFits DEF InKernel
<1>2. PICK n : n = CHOOSE k \in 1 .. Len(K) : RamImages[q] \in Extent(K[k])
  OBVIOUS
<1>3. n \in 1 .. Len(K) /\ RamImages[q] \in Extent(K[n])
  BY <1>1, <1>2
<1>4. mem[RamImages[q]] = Content(disk, K[n], RamImages[q])
  BY <1>3 DEF KernelStands, Standing
<1>5. ElfHeader(disk, q) = Content(disk, K[n], RamImages[q])
  BY <1>2 DEF ElfHeader, K
<1> QED BY <1>4, <1>5

(* copyseg() writes into the pages of its segment.                           *)
LEMMA CopySegmentKeeps ==
  ASSUME BootTypes, CopySegment, ProgramHeaders[ph].load,
         NEW p \in Segments, p = ProgramHeaders[ph], p.filesz <= p.memsz
  PROVE  \A x \in Addresses : x \notin Copied(p) => mem'[x] = mem[x]
<1>1. PICK b, v, f, s : b = RoundDown(p.va, PAGESIZE) /\ v = p.va /\ f = p.filesz /\ s = p.memsz
  OBVIOUS
<1>2. v \in Nat /\ f \in Nat /\ s \in Nat /\ f <= s /\ b \in Nat /\ b <= v
  <2>1. v \in Nat /\ f \in Nat /\ s \in Nat /\ f <= s
    BY <1>1, SegmentFields
  <2> QED BY <1>1, <2>1, RoundDownFacts, Sizes
<1>3. SUFFICES ASSUME NEW x \in Addresses, x \notin Copied(p) PROVE mem'[x] = mem[x]
  OBVIOUS
<1>4. x \in Nat /\ ~ (b <= x /\ x < v + s)
  BY <1>1, <1>2, <1>3 DEF Copied, Addresses
<1>5. ~ (b <= x /\ x < v + f) /\ ~ (v + f <= x /\ x < v + s)
  BY <1>2, <1>4
<1>6. copyseg(p.va, RamImages[program] + p.offset, p.filesz, p.memsz)
  BY DEF CopySegment
<1>7. mem'[x] = IF v + f <= x /\ x < v + s THEN 0
                ELSE IF b <= x /\ x < v + f THEN mem[RamImages[program] + p.offset + (x - b)]
                ELSE mem[x]
  BY <1>1, <1>6 DEF copyseg, Cleared
<1> QED BY <1>5, <1>7

(* If it begins with a page, this is what it writes.                         *)
LEMMA CopySegmentCopies ==
  ASSUME BootTypes, CopySegment, ProgramHeaders[ph].load,
         NEW p \in Segments, p = ProgramHeaders[ph], p.filesz <= p.memsz, p.va + p.memsz <= MEMORY,
         p.va % PAGESIZE = 0
  PROVE  \A k \in 0 .. p.memsz - 1 :
           mem'[p.va + k] = IF k < p.filesz THEN mem[RamImages[program] + p.offset + k] ELSE 0
<1>1. PICK v, f, s, o : v = p.va /\ f = p.filesz /\ s = p.memsz /\ o = RamImages[program] + p.offset
  OBVIOUS
<1>2. v \in Nat /\ f \in Nat /\ s \in Nat /\ f <= s /\ v + s <= MEMORY /\ MEMORY \in Nat
  BY <1>1, SegmentFields, Sizes
<1>3. RoundDown(v, PAGESIZE) = v
  <2>1. v % PAGESIZE = 0
    BY <1>1
  <2>2. RoundDown(v, PAGESIZE) = v - (v % PAGESIZE)
    BY DEF RoundDown
  <2>3. v - 0 = v
    BY <1>2
  <2> QED BY <2>1, <2>2, <2>3
<1>4. SUFFICES ASSUME NEW k \in 0 .. s - 1
               PROVE  mem'[v + k] = IF k < f THEN mem[o + k] ELSE 0
  BY <1>1
<1>5. PICK x : x = v + k
  OBVIOUS
<1>6. copyseg(p.va, RamImages[program] + p.offset, p.filesz, p.memsz)
  BY DEF CopySegment
<1>7. \A a \in Addresses :
        mem'[a] = IF v + f <= a /\ a < v + s THEN 0
                  ELSE IF v <= a /\ a < v + f THEN mem[o + (a - v)]
                  ELSE mem[a]
  BY <1>1, <1>3, <1>6 DEF copyseg, Cleared
<1>8. /\ x \in Addresses /\ x - v = k
      /\ k < f => ~ (v + f <= x /\ x < v + s) /\ (v <= x /\ x < v + f)
      /\ ~ (k < f) => v + f <= x /\ x < v + s
  BY <1>2, <1>5 DEF Addresses
<1>9. mem'[x] = IF k < f THEN mem[o + k] ELSE 0
  <2>1. mem'[x] = IF v + f <= x /\ x < v + s THEN 0
                  ELSE IF v <= x /\ x < v + f THEN mem[o + (x - v)]
                  ELSE mem[x]
    BY <1>7, <1>8
  <2> QED BY <1>8, <2>1
<1> QED BY <1>5, <1>9

(* The segment that CopySegment is at.                                       *)
LEMMA CurrentSegment ==
  ASSUME DiskReady, disk[SECTORSIZE + 1] \in DOMAIN Headers, KernelStands(Len(K)),
         Elf(disk, program), ph \in Nat \ {0}
  PROVE  /\ program \in 1 .. Len(RamImages)
         /\ ProgramHeaders = Headers[ElfHeader(disk, program)]
         /\ ph <= Len(ProgramHeaders) => ProgramHeaders[ph] = Program(program, ph)
         /\ ph <= Len(ProgramHeaders) /\ ProgramHeaders[ph].load => ph \in Loads(disk, program)
         /\ \A n \in Loads(disk, program) : n \in Nat /\ n <= Len(ProgramHeaders)
<1>1. program \in 1 .. Len(RamImages) /\ ElfHeader(disk, program) \in DOMAIN Headers
  BY DEF Elf
<1>2. ProgramHeaders = Headers[ElfHeader(disk, program)]
  BY <1>1, ImageHeader DEF ProgramHeaders
<1>3. PICK h : h = Headers[ElfHeader(disk, program)]
  OBVIOUS
<1>4. h \in Seq(Segments)
  BY <1>1, <1>3, BootAssumption DEF BootAssumption
<1>5. Len(h) \in Nat
  BY <1>4, LenProperties
<1>6. Loads(disk, program) = {n \in 1 .. Len(h) : h[n].load}
  BY <1>3 DEF Loads
<1>7. ph <= Len(h) => ph \in 1 .. Len(h)
  BY <1>5
<1>8. ph <= Len(h) => h[ph] = Program(program, ph)
  BY <1>3 DEF Program
<1>9. \A n \in Loads(disk, program) : n \in Nat /\ n <= Len(h)
  BY <1>5, <1>6
<1> QED BY <1>1, <1>2, <1>3, <1>6, <1>7, <1>8, <1>9

LEMMA KernelCells ==
  ASSUME DiskReady, disk[SECTORSIZE + 1] \in DOMAIN Headers
  PROVE  /\ \A x : InKernel(K, x) => x \in Addresses
         /\ \A n \in 1 .. Len(K) : \A x \in Extent(K[n]) : InKernel(K, x)
<1>1. ASSUME NEW n \in 1 .. Len(K), NEW x \in Extent(K[n]) PROVE x \in Addresses
  <2>1. PICK p : p = K[n]
    OBVIOUS
  <2>2. p \in Segments /\ OnDisk(disk, p)
    BY <2>1, KernelFits
  <2> QED BY <1>1, <2>1, <2>2, ExtentCells
<1> QED BY <1>1 DEF InKernel

(* The kernel survives program_loader().                                     *)
LEMMA CopySparesKernel ==
  ASSUME DiskReady, BootTypes, disk[SECTORSIZE + 1] \in DOMAIN Headers, KernelStands(Len(K)),
         Elf(disk, program), CopySegment, UNCHANGED diskvars
  PROVE  /\ mem'[ELFHDR] = mem[ELFHDR]
         /\ \A x : InKernel(K, x) => mem'[x] = mem[x]
         /\ KernelStands(Len(K))'
<1>1. \A x \in Addresses : x = ELFHDR \/ InKernel(K, x) => mem'[x] = mem[x]
  <2>1. CASE ~ProgramHeaders[ph].load
    BY <2>1 DEF CopySegment
  <2>2. CASE ProgramHeaders[ph].load
    <3>1. PICK p : p = ProgramHeaders[ph]
      OBVIOUS
    <3>2. ph \in Nat \ {0} /\ ph <= Len(ProgramHeaders)
      BY DEF BootTypes, CopySegment
    <3>3. /\ program \in 1 .. Len(RamImages) /\ p = Program(program, ph)
          /\ ph \in Loads(disk, program)
      BY <2>2, <3>1, <3>2, CurrentSegment
    <3>4. /\ p \in Segments /\ p.filesz <= p.memsz
          /\ \A x \in Copied(p) : x # ELFHDR /\ ~ InKernel(K, x)
      BY <3>3, ProgramFits
    <3>5. \A x \in Addresses : x \notin Copied(p) => mem'[x] = mem[x]
      BY <2>2, <3>1, <3>4, CopySegmentKeeps
    <3> QED BY <3>4, <3>5
  <2> QED BY <2>1, <2>2
<1>2. \A x : InKernel(K, x) => mem'[x] = mem[x]
  BY <1>1, KernelCells
<1>3. \A n \in 1 .. Len(K) : \A x \in Extent(K[n]) : mem'[x] = Content(disk, K[n], x)
  BY <1>2, KernelCells DEF KernelStands, Standing
<1>4. KernelStands(Len(K))'
  BY <1>3, DiskFixed DEF KernelStands, Standing
<1> QED BY <1>1, <1>2, <1>4, Sizes

(* So do the programs that are already in place.                             *)
LEMMA CopySparesPrograms ==
  ASSUME DiskReady, BootTypes, disk[SECTORSIZE + 1] \in DOMAIN Headers, KernelStands(Len(K)),
         Elf(disk, program), CopySegment, UNCHANGED diskvars,
         NEW r \in 1 .. Len(RamImages), Elf(disk, r), NEW m \in Loads(disk, r),
         <<r, m>> # <<program, ph>>, Copy(r, Program(r, m))
  PROVE  Copy(r, Program(r, m))'
<1>1. PICK q : q = Program(r, m)
  OBVIOUS
<1>2. /\ q \in Segments /\ q.filesz <= q.memsz /\ q.va + q.memsz <= MEMORY
      /\ \A k \in 0 .. q.filesz - 1 : InKernel(K, RamImages[r] + q.offset + k)
  BY <1>1, ProgramFits
<1>3. \A x \in Extent(q) : mem'[x] = mem[x]
  <2>1. CASE ~ProgramHeaders[ph].load
    BY <2>1 DEF CopySegment
  <2>2. CASE ProgramHeaders[ph].load
    <3>1. PICK p : p = ProgramHeaders[ph]
      OBVIOUS
    <3>2. ph \in Nat \ {0} /\ ph <= Len(ProgramHeaders)
      BY DEF BootTypes, CopySegment
    <3>3. /\ program \in 1 .. Len(RamImages) /\ p = Program(program, ph)
          /\ ph \in Loads(disk, program)
      BY <2>2, <3>1, <3>2, CurrentSegment
    <3>4. p \in Segments /\ p.filesz <= p.memsz /\ Copied(p) \cap Extent(q) = {}
      BY <1>1, <3>3, ProgramFits
    <3>5. \A x \in Addresses : x \notin Copied(p) => mem'[x] = mem[x]
      BY <2>2, <3>1, <3>4, CopySegmentKeeps
    <3>6. \A x \in Extent(q) : x \in Addresses
      <4>1. PICK v, s : v = q.va /\ s = q.memsz
        OBVIOUS
      <4>2. v \in Nat /\ s \in Nat /\ MEMORY \in Nat
        BY <1>2, <4>1, SegmentFields, Sizes
      <4>3. v + s <= MEMORY
        BY <1>2, <4>1
      <4>4. v .. v + s - 1 \subseteq Addresses
        BY <4>2, <4>3 DEF Addresses
      <4> QED BY <4>1, <4>4 DEF Extent
    <3> QED BY <3>4, <3>5, <3>6
  <2> QED BY <2>1, <2>2
<1>4. ASSUME NEW k \in 0 .. q.memsz - 1
      PROVE  mem'[q.va + k] = IF k < q.filesz THEN mem'[RamImages[r] + q.offset + k] ELSE 0
  <2>1. q.va + k \in Extent(q)
    BY <1>2, SegmentFields DEF Extent
  <2>2. mem[q.va + k] = IF k < q.filesz THEN mem[RamImages[r] + q.offset + k] ELSE 0
    BY <1>1 DEF Copy
  <2>3. k < q.filesz => k \in 0 .. q.filesz - 1
    BY <1>2, SegmentFields
  <2>4. k < q.filesz => mem'[RamImages[r] + q.offset + k] = mem[RamImages[r] + q.offset + k]
    BY <1>2, <2>3, CopySparesKernel
  <2> QED BY <1>3, <2>1, <2>2, <2>4
<1>5. Copy(r, q)'
  BY <1>4 DEF Copy
<1>6. Program(r, m)' = q
  BY <1>1, DiskFixed DEF Program
<1> QED BY <1>5, <1>6

(* And the segment that is copied gets in place, if it begins with a page.   *)
LEMMA CopyPlaces ==
  ASSUME DiskReady, BootTypes, disk[SECTORSIZE + 1] \in DOMAIN Headers, KernelStands(Len(K)),
         Elf(disk, program), CopySegment, UNCHANGED diskvars, Aligned, ph \in Loads(disk, program),
         NEW r, r = program, NEW n, n = ph
  PROVE  Copy(r, Program(r, n))'
<1>1. PICK q : q = Program(program, ph)
  OBVIOUS
<1>2. ph \in Nat \ {0} /\ ph <= Len(ProgramHeaders)
  BY DEF BootTypes, CopySegment
<1>3. r \in 1 .. Len(RamImages) /\ q = ProgramHeaders[ph]
  BY <1>1, <1>2, CurrentSegment
<1>4. /\ q \in Segments /\ q.load /\ q.filesz <= q.memsz /\ q.va + q.memsz <= MEMORY
      /\ \A k \in 0 .. q.filesz - 1 : InKernel(K, RamImages[r] + q.offset + k)
      /\ q.va % PAGESIZE = 0
  BY <1>1, <1>3, ProgramFits
<1>5. \A k \in 0 .. q.memsz - 1 :
        mem'[q.va + k] = IF k < q.filesz THEN mem[RamImages[r] + q.offset + k] ELSE 0
  BY <1>1, <1>3, <1>4, CopySegmentCopies
<1>6. ASSUME NEW k \in 0 .. q.memsz - 1
      PROVE  mem'[q.va + k] = IF k < q.filesz THEN mem'[RamImages[r] + q.offset + k] ELSE 0
  <2>1. k < q.filesz => k \in 0 .. q.filesz - 1
    BY <1>4, SegmentFields
  <2>2. k < q.filesz => mem'[RamImages[r] + q.offset + k] = mem[RamImages[r] + q.offset + k]
    BY <1>4, <2>1, CopySparesKernel
  <2> QED BY <1>5, <2>2
<1>7. Copy(r, q)'
  BY <1>6 DEF Copy
<1>8. Program(r, n)' = q
  BY <1>1, DiskFixed DEF Program
<1> QED BY <1>7, <1>8

-----------------------------------------------------------------------------

LEMMA BootStarts ==
  ASSUME BootInit
  PROVE  BootTypes /\ Untouched
<1>1. Len(RamImages) \in Nat
  BY BootAssumption, LenProperties DEF BootAssumption
<1>2. DOMAIN mem = Addresses
  BY DEF BootInit
<1>3. SegTypes
  <2>1. 0 % SECTORSIZE = 0
    BY Sizes
  <2> QED BY <2>1 DEF BootInit, SegTypes
<1>4. DriveTypes
  BY DEF BootInit, DriveTypes
<1>5. program \in 1 .. Len(RamImages) + 1
  BY <1>1 DEF BootInit
<1> QED BY <1>2, <1>3, <1>4, <1>5 DEF BootInit, BootTypes, Untouched

(* When mkbootdisk is done, the disk is one of those the linker speaks of.   *)
LEMMA DiskGetsReady ==
  ASSUME DiskInv, InputInv, tool = "done"
  PROVE  DiskReady
<1>1. disk = Image /\ ~TooLarge
  BY DiskMeaning, DiskAssumption DEF DiskImage, DiskInv, ImageInv
<1>2. bootblock \in BOOTBLOCKS /\ ~ (Len(bootblock) > SECTORSIZE - 2) /\ args \in ArgLists
  BY <1>1 DEF InputInv, TooLarge
<1>3. Len(bootblock) <= SECTORSIZE - 2
  <2>1. bootblock \in Contents
    BY DEF DiskInv, DiskTypes
  <2> QED BY <1>2, <2>1, Sizes, LenProperties DEF Contents
<1>4. disk \in Disks
  BY <1>1, <1>2, <1>3 DEF Disks, Image
<1>5. disk \in Contents /\ nsectors \in Nat /\ buf = <<>>
      /\ Len(Written) = nsectors * SECTORSIZE /\ nsectors >= SECTORS
  BY DEF DiskInv, DiskTypes, CountInv
<1>6. Len(disk) = nsectors * SECTORSIZE /\ Len(disk) \in Nat
  <2>1. Written = disk
    BY <1>5, ConcatEmptySeq DEF Written, Contents
  <2> QED BY <1>5, <2>1, LenProperties DEF Contents
<1>7. SECTORS * SECTORSIZE <= nsectors * SECTORSIZE
  <2>1. SECTORS \in Int /\ nsectors \in Int /\ SECTORS <= nsectors /\ SECTORSIZE \in Nat
    BY <1>5, DiskAssumption DEF DiskAssumption
  <2> QED BY <2>1, TimesMonotonic
<1>8. Len(disk) >= SECTORS * SECTORSIZE
  BY <1>6, <1>7, Sizes
<1> QED BY <1>4, <1>5, <1>6, <1>8 DEF DiskReady

(* The actions that read sectors.                                            *)

LEMMA ReadCommandStep ==
  ASSUME BootTypes, DriveInv, ReadCommand, UNCHANGED diskvars
  PROVE  /\ BootTypes' /\ DriveInv'
         /\ seg'.va = seg.va /\ seg'.end_va = seg.end_va /\ seg'.memsz = seg.memsz
         /\ seg'.sect = seg.sect
<1>1. PICK b, a, e, s, k, n, g : b = boot /\ a = seg.va /\ e = seg.end_va /\ s = seg.memsz /\ k = seg.sect
                                 /\ g = drive.data /\ n = drive.sector
  OBVIOUS
<1>2. seg' = [seg EXCEPT !.asked = TRUE]
  BY DEF ReadCommand
<1>3. /\ seg' \in [va : Nat, end_va : Nat, memsz : Nat, sect : Nat, asked : BOOLEAN]
      /\ seg'.va = a /\ seg'.end_va = e /\ seg'.memsz = s /\ seg'.sect = k /\ seg'.asked = TRUE
  BY <1>1, <1>2 DEF BootTypes, SegTypes
<1>4. drive' = [busy |-> TRUE, sector |-> k, data |-> g]
  <2>1. drive = [busy |-> drive.busy, sector |-> n, data |-> g]
    BY <1>1 DEF BootTypes, DriveTypes
  <2> QED BY <1>1, <2>1 DEF ReadCommand
<1>5. drive'.busy = TRUE /\ drive'.sector = k /\ drive'.data = g
  BY <1>4
<1>6. SegTypes'
  BY <1>1, <1>3 DEF SegTypes, BootTypes
<1>7. DriveTypes'
  BY <1>1, <1>4, <1>5 DEF DriveTypes, BootTypes
<1>8. Reading'
  BY <1>1, <1>3 DEF ReadCommand, Reading
<1>9. BootTypes'
  BY <1>6, <1>7 DEF BootTypes, ReadCommand
<1>10. DriveInv'
  BY <1>3, <1>5, <1>8 DEF DriveInv
<1> QED BY <1>1, <1>3, <1>9, <1>10

LEMMA DriveStep ==
  ASSUME BootTypes, DriveInv, Drive, UNCHANGED diskvars
  PROVE  BootTypes' /\ DriveInv'
<1>1. PICK g, n : g = Sector(drive.sector) /\ n = drive.sector
  OBVIOUS
<1>2. drive' = [busy |-> FALSE, sector |-> n, data |-> g]
  <2>1. drive = [busy |-> drive.busy, sector |-> n, data |-> drive.data]
    BY <1>1 DEF BootTypes, DriveTypes
  <2> QED BY <1>1, <2>1 DEF Drive
<1>3. drive'.busy = FALSE /\ drive'.sector = n /\ drive'.data = g
  BY <1>2
<1>4. DOMAIN g = 0 .. SECTORSIZE - 1
  BY <1>1 DEF Sector
<1>5. DriveTypes'
  BY <1>2, <1>3, <1>4 DEF DriveTypes
<1>6. BootTypes'
  BY <1>5 DEF BootTypes, Drive, SegTypes
<1>7. n = seg.sect /\ seg.asked /\ Reading
  BY <1>1 DEF Drive, DriveInv
<1>8. Sector(n)' = g
  BY <1>1, DiskFixed DEF Sector
<1>9. DriveInv'
  BY <1>3, <1>7, <1>8 DEF DriveInv, Drive, Reading
<1> QED BY <1>6, <1>9

LEMMA ReadDataStep ==
  ASSUME DiskReady, BootTypes, DriveInv, ReadData, UNCHANGED diskvars,
         NEW p \in Segments, Progress(p)
  PROVE  BootTypes' /\ DriveInv'
<1>1. PICK b, n, g : b = boot /\ n = drive.sector /\ g = [k \in DOMAIN drive.data |-> Garbage]
  OBVIOUS
<1>2. drive.busy = FALSE
  BY DEF ReadData, waitdisk, BootTypes, DriveTypes
<1>3. drive' = [busy |-> FALSE, sector |-> n, data |-> g]
  <2>1. PICK y : y = drive.data
    OBVIOUS
  <2>2. drive = [busy |-> FALSE, sector |-> n, data |-> y]
    BY <1>1, <1>2, <2>1 DEF BootTypes, DriveTypes
  <2>3. drive' = [drive EXCEPT !.data = g]
    BY <1>1 DEF ReadData
  <2> QED BY <2>2, <2>3
<1>4. drive'.busy = FALSE /\ drive'.sector = n /\ drive'.data = g
  BY <1>3
<1>5. DOMAIN g = 0 .. SECTORSIZE - 1
  BY <1>1 DEF BootTypes, DriveTypes
<1>6. DriveTypes'
  BY <1>3, <1>4, <1>5 DEF DriveTypes
<1>7. SegTypes' /\ seg'.asked = FALSE
  BY ReadDataProgress
<1>8. DOMAIN mem' = Addresses
  BY DEF ReadData
<1>9. BootTypes'
  BY <1>6, <1>7, <1>8 DEF BootTypes, ReadData
<1>10. DriveInv'
  BY <1>4, <1>7 DEF DriveInv
<1> QED BY <1>9, <1>10

(* What the invariant says of memory, where no action touches it.            *)
LEMMA MemoryFixed ==
  ASSUME UNCHANGED diskvars, UNCHANGED <<mem, ph, program, boot>>, HeaderInv, LoadInv, ProgramInv,
         Aligned => ProgramsPlaced,
         seg'.va = seg.va, seg'.end_va = seg.end_va, seg'.memsz = seg.memsz, seg'.sect = seg.sect
  PROVE  HeaderInv' /\ LoadInv' /\ ProgramInv' /\ (Aligned => ProgramsPlaced)'
<1>1. disk' = disk /\ K' = K
  BY DiskFixed
<1>2. \A p : Filed(p, 0)' = Filed(p, 0) /\ \A x : Filed(p, x)' = Filed(p, x)
  BY <1>1 DEF Filed
<1>3. \A p : Progress(p) => Progress(p)'
  BY <1>2 DEF Progress, ReadUpTo
<1>4. \A p : Standing(p) => Standing(p)'
  BY <1>1 DEF Standing
<1>5. \A n : KernelStands(n) => KernelStands(n)'
  BY <1>1, <1>4 DEF KernelStands
<1>6. HeaderInv'
  BY <1>1 DEF HeaderInv
<1>7. LoadInv'
  <2>1. PICK b, n, k : b = boot /\ n = ph /\ k = K
    OBVIOUS
  <2>2. boot' = b /\ ph' = n /\ K' = k
    BY <1>1, <2>1
  <2>3. b = "header" => Progress(Page)'
    BY <1>3, <2>1 DEF LoadInv
  <2>4. b = "segments" => n \in 1 .. Len(k) + 1 /\ KernelStands(n - 1)'
    BY <1>5, <2>1 DEF LoadInv
  <2>5. b = "read" => n \in 1 .. Len(k) /\ Progress(k[n])' /\ KernelStands(n - 1)'
    BY <1>3, <1>5, <2>1 DEF LoadInv
  <2>6. b \in {"kernel", "load", "run", "panic"} => KernelStands(Len(k))'
    BY <1>5, <2>1 DEF LoadInv
  <2> QED BY <2>2, <2>3, <2>4, <2>5, <2>6 DEF LoadInv
<1>8. ProgramInv'
  BY <1>1 DEF ProgramInv
<1>9. ProgramsPlaced => ProgramsPlaced'
  BY <1>1 DEF ProgramsPlaced, Copy, Program
<1> QED BY <1>6, <1>7, <1>8, <1>9

(* Before the loaders have come so far, nothing is said of programs.         *)
LEMMA NoPrograms ==
  ASSUME boot' \in {"bios", "header", "segments", "read", "spin", "panic"}
  PROVE  ProgramInv' /\ (Aligned => ProgramsPlaced)'
BY DEF ProgramInv, ProgramsPlaced

LEMMA LoadingStep ==
  ASSUME DiskReady, BootInv, tool = "done", UNCHANGED diskvars,
         bootmain \/ ReadCommand \/ Drive \/ ReadData
  PROVE  BootInv'
<1>1. BootTypes /\ DriveInv /\ HeaderInv /\ LoadInv /\ ProgramInv /\ (Aligned => ProgramsPlaced)
  BY DEF BootInv
<1>2. tool' = "done" /\ disk' = disk /\ K' = K
  BY DiskFixed
<1>3. CASE bootmain
  <2>1. Abreast(1, RoundDown(ELFHDR, SECTORSIZE), Page) /\ 1 \in Nat
    <3>1. RoundDown(ELFHDR, SECTORSIZE) = ELFHDR
      <4>1. RoundDown(ELFHDR, SECTORSIZE) = ELFHDR - 0
        BY Sizes DEF RoundDown
      <4> QED BY <4>1, Sizes
    <3>2. (1 - 1) * SECTORSIZE + ELFHDR = ELFHDR + 0
      BY Sizes
    <3> QED BY <3>1, <3>2 DEF Abreast, Page
  <2>2. ReadSeg(Page.va, Page.filesz, Page.memsz, 1)
    BY <1>3 DEF bootmain, Page
  <2>3. Progress(Page)' /\ SegTypes' /\ seg'.asked = FALSE
    <3>1. Page.va = ELFHDR /\ Page \in Segments
      BY PageFits DEF Page
    <3>2. Abreast(1, RoundDown(Page.va, SECTORSIZE), Page)
      BY <2>1, <3>1
    <3> QED BY <2>1, <2>2, <3>1, <3>2, ReadSegStarts
  <2>4. boot' = "header" /\ UNCHANGED <<mem, drive, ph, program>> /\ boot = "bios"
    BY <1>3 DEF bootmain
  <2>5. BootTypes'
    BY <1>1, <2>3, <2>4 DEF BootTypes, DriveTypes
  <2>6. drive.busy = FALSE
    BY <1>1, <2>4 DEF DriveInv, Reading, BootTypes, DriveTypes
  <2>7. DriveInv'
    BY <2>3, <2>4, <2>6 DEF DriveInv
  <2>8. HeaderInv' /\ LoadInv'
    BY <2>3, <2>4 DEF HeaderInv, LoadInv
  <2> QED BY <1>2, <2>4, <2>5, <2>7, <2>8, NoPrograms DEF BootInv
<1>4. CASE ReadCommand
  <2>1. /\ BootTypes' /\ DriveInv'
        /\ seg'.va = seg.va /\ seg'.end_va = seg.end_va /\ seg'.memsz = seg.memsz
        /\ seg'.sect = seg.sect
    BY <1>1, <1>4, ReadCommandStep
  <2>2. UNCHANGED <<mem, ph, program, boot>>
    BY <1>4 DEF ReadCommand
  <2>3. HeaderInv' /\ LoadInv' /\ ProgramInv' /\ (Aligned => ProgramsPlaced)'
    BY <1>1, <2>1, <2>2, MemoryFixed
  <2> QED BY <1>2, <2>1, <2>3 DEF BootInv
<1>5. CASE Drive
  <2>1. BootTypes' /\ DriveInv'
    BY <1>1, <1>5, DriveStep
  <2>2. UNCHANGED <<mem, ph, program, boot>> /\ seg' = seg
    BY <1>5 DEF Drive
  <2>3. HeaderInv' /\ LoadInv' /\ ProgramInv' /\ (Aligned => ProgramsPlaced)'
    BY <1>1, <2>2, MemoryFixed
  <2> QED BY <1>2, <2>1, <2>3 DEF BootInv
<1>6. CASE ReadData
  <2>1. boot \in {"header", "read"} /\ UNCHANGED <<ph, program, boot>>
    BY <1>6 DEF ReadData, Reading
  <2>2. CASE boot = "header"
    <3>1. Progress(Page) /\ Page \in Segments
      BY <1>1, <2>2, PageFits DEF LoadInv
    <3>2. BootTypes' /\ DriveInv' /\ Progress(Page)'
      BY <1>1, <1>6, <3>1, ReadDataStep, ReadDataProgress
    <3>3. HeaderInv' /\ LoadInv'
      BY <2>1, <2>2, <3>2 DEF HeaderInv, LoadInv
    <3> QED BY <1>2, <2>1, <2>2, <3>2, <3>3, NoPrograms DEF BootInv
  <2>3. CASE boot = "read"
    <3>1. /\ disk[SECTORSIZE + 1] \in DOMAIN Headers /\ mem[ELFHDR] = disk[SECTORSIZE + 1]
          /\ ph \in 1 .. Len(K) /\ Progress(K[ph]) /\ KernelStands(ph - 1)
      BY <1>1, <2>3 DEF HeaderInv, LoadInv
    <3>2. PICK n, p : n = ph /\ p = K[ph]
      OBVIOUS
    <3>3. n \in 1 .. Len(K) /\ p = K[n] /\ p \in Segments /\ Progress(p)
      BY <3>1, <3>2, KernelFits
    <3>4. BootTypes' /\ DriveInv' /\ Progress(p)'
      BY <1>1, <1>6, <3>3, ReadDataStep, ReadDataProgress
    <3>5. mem'[ELFHDR] = mem[ELFHDR] /\ \A m \in 1 .. n - 1 : Standing(K[m]) => Standing(K[m])'
      BY <1>1, <1>6, <3>1, <3>3, ReadDataKeeps
    <3>6. KernelStands(n - 1)'
      BY <1>2, <3>1, <3>2, <3>5 DEF KernelStands
    <3>7. ph' = n /\ K'[ph'] = p /\ boot' = "read"
      BY <1>2, <2>1, <2>3, <3>2
    <3>8. HeaderInv'
      BY <1>2, <3>1, <3>5, <3>7 DEF HeaderInv
    <3>9. LoadInv'
      BY <1>2, <3>3, <3>4, <3>6, <3>7 DEF LoadInv
    <3> QED BY <1>2, <3>4, <3>7, <3>8, <3>9, NoPrograms DEF BootInv
  <2> QED BY <2>1, <2>2, <2>3
<1> QED BY <1>3, <1>4, <1>5, <1>6

LEMMA SegmentStep ==
  ASSUME DiskReady, BootInv, tool = "done", UNCHANGED diskvars,
         ReadHeader \/ LoadSegment \/ ClearBss \/ EnterKernel
  PROVE  BootInv'
<1>1. BootTypes /\ DriveInv /\ HeaderInv /\ LoadInv
  BY DEF BootInv
<1>2. tool' = "done" /\ disk' = disk /\ K' = K
  BY DiskFixed
<1>3. ASSUME DOMAIN mem' = Addresses, UNCHANGED <<drive, seg, program>>, ph' \in Nat \ {0},
             boot' \in {"segments", "spin"},
             boot \in {"header", "read"} => ReadDone
      PROVE  BootTypes' /\ DriveInv'
  <2>1. BootTypes'
    BY <1>1, <1>3 DEF BootTypes, SegTypes, DriveTypes
  <2>2. seg.asked = FALSE
    <3>1. seg.va \in Nat /\ seg.end_va \in Nat /\ seg.asked \in BOOLEAN
      BY <1>1 DEF BootTypes, SegTypes
    <3> QED BY <1>1, <1>3, <3>1 DEF DriveInv, Reading, ReadDone
  <2>3. drive.busy = FALSE
    BY <1>1, <2>2 DEF DriveInv, BootTypes, DriveTypes
  <2> QED BY <1>3, <2>1, <2>2, <2>3 DEF DriveInv
<1>4. CASE ReadHeader
  <2>1. /\ boot = "header" /\ ReadDone /\ mem' = Cleared(mem, seg.end_va, seg.memsz) /\ ph' = 1
        /\ boot' = (IF mem'[ELFHDR] \in DOMAIN Headers THEN "segments" ELSE "spin")
        /\ UNCHANGED <<drive, seg, program>>
    BY <1>4 DEF ReadHeader
  <2>2. DOMAIN mem' = Addresses
    BY <2>1 DEF Cleared
  <2>3. BootTypes' /\ DriveInv'
    BY <1>3, <2>1, <2>2
  <2>4. mem'[ELFHDR] = disk[SECTORSIZE + 1]
    <3>1. Progress(Page)
      BY <1>1, <2>1 DEF LoadInv
    <3>2. /\ seg.end_va = ELFHDR + PAGESIZE /\ seg.memsz = ELFHDR + PAGESIZE
          /\ RoundDown(ELFHDR, SECTORSIZE) <= seg.va
      BY <3>1 DEF Progress, Page
    <3>3. seg.va \in Nat /\ ELFHDR < seg.va /\ ELFHDR < seg.end_va
      <4>1. PICK v, e : v = seg.va /\ e = seg.end_va
        OBVIOUS
      <4>2. v \in Nat /\ e \in Nat /\ ELFHDR \in Nat /\ PAGESIZE \in Nat \ {0}
        BY <1>1, <4>1, Sizes DEF BootTypes, SegTypes
      <4>3. v >= e /\ e = ELFHDR + PAGESIZE
        BY <2>1, <3>2, <4>1 DEF ReadDone
      <4>4. ELFHDR < e /\ ELFHDR < v
        BY <4>2, <4>3
      <4> QED BY <4>1, <4>2, <4>4
    <3>4. mem[ELFHDR] = Filed(Page, ELFHDR)
      <4>1. RoundDown(ELFHDR, SECTORSIZE) <= ELFHDR
        BY RoundDownFacts, Sizes
      <4>2. Page.va = ELFHDR
        BY DEF Page
      <4> QED BY <3>1, <3>3, <4>1, <4>2, Sizes DEF Progress, ReadUpTo
    <3>5. Filed(Page, ELFHDR) = disk[SECTORSIZE + 1]
      <4>1. SECTORSIZE + 0 + (ELFHDR - ELFHDR) + 1 = SECTORSIZE + 1
        BY Sizes
      <4> QED BY <4>1 DEF Filed, Page
    <3>6. mem'[ELFHDR] = mem[ELFHDR]
      <4>1. PICK e : e = seg.end_va
        OBVIOUS
      <4>2. e = seg.memsz /\ e \in Nat /\ ELFHDR < e
        BY <3>2, <3>3, <4>1, Sizes
      <4>3. mem'[ELFHDR] = IF e <= ELFHDR /\ ELFHDR < e THEN 0 ELSE mem[ELFHDR]
        BY <2>1, <4>1, <4>2, Sizes DEF Cleared
      <4> QED BY <4>2, <4>3, Sizes
    <3> QED BY <3>4, <3>5, <3>6
  <2>5. HeaderInv'
    BY <1>2, <2>1, <2>4 DEF HeaderInv
  <2>6. LoadInv'
    <3>1. CASE boot' = "segments"
      <4>1. disk[SECTORSIZE + 1] \in DOMAIN Headers
        BY <2>1, <2>4, <3>1
      <4>2. Len(K) \in Nat
        BY <4>1, KernelFits
      <4>3. 1 \in 1 .. Len(K) + 1
        BY <4>2
      <4>4. \A m \in 1 .. 1 - 1 : FALSE
        OBVIOUS
      <4>5. KernelStands(1 - 1)'
        BY <4>4 DEF KernelStands
      <4> QED BY <1>2, <2>1, <3>1, <4>3, <4>5 DEF LoadInv
    <3>2. CASE boot' # "segments"
      BY <2>1, <3>2 DEF LoadInv
    <3> QED BY <3>1, <3>2
  <2> QED BY <1>2, <2>1, <2>3, <2>5, <2>6, NoPrograms DEF BootInv
<1>5. CASE LoadSegment
  <2>1. /\ boot = "segments" /\ boot' = "read" /\ UNCHANGED <<mem, drive, ph, program>>
        /\ ph <= Len(KernelHeaders)
    BY <1>5 DEF LoadSegment
  <2>2. /\ mem[ELFHDR] = disk[SECTORSIZE + 1] /\ disk[SECTORSIZE + 1] \in DOMAIN Headers
        /\ KernelHeaders = K
    BY <1>1, <2>1 DEF HeaderInv, KernelHeaders, K, Kernel
  <2>3. PICK n, p : n = ph /\ p = K[ph]
    OBVIOUS
  <2>4. n \in 1 .. Len(K) /\ KernelStands(n - 1)
    BY <1>1, <2>1, <2>2, <2>3, KernelFits DEF LoadInv
  <2>5. p \in Segments /\ OnDisk(disk, p) /\ p = K[n]
    BY <2>2, <2>3, <2>4, KernelFits
  <2>6. /\ 1 + p.offset \div SECTORSIZE \in Nat
        /\ Abreast(1 + p.offset \div SECTORSIZE, RoundDown(p.va, SECTORSIZE), p)
    BY <2>5, FirstAbreast DEF OnDisk
  <2>7. ReadSeg(p.va, p.filesz, p.memsz, 1 + p.offset \div SECTORSIZE)
    BY <1>5, <2>2, <2>3 DEF LoadSegment
  <2>8. Progress(p)' /\ SegTypes' /\ seg'.asked = FALSE
    BY <2>5, <2>6, <2>7, ReadSegStarts
  <2>9. BootTypes'
    BY <1>1, <2>1, <2>8 DEF BootTypes, DriveTypes
  <2>10. DriveInv'
    <3>1. drive.busy = FALSE
      BY <1>1, <2>1 DEF DriveInv, Reading, BootTypes, DriveTypes
    <3> QED BY <2>1, <2>8, <3>1 DEF DriveInv
  <2>11. ph' = n /\ K'[ph'] = p
    BY <1>2, <2>1, <2>3
  <2>12. KernelStands(n - 1)'
    BY <1>2, <2>1, <2>4 DEF KernelStands, Standing
  <2>13. HeaderInv' /\ LoadInv'
    <3>1. HeaderInv'
      BY <1>2, <2>1, <2>2 DEF HeaderInv
    <3> QED BY <1>2, <2>1, <2>4, <2>8, <2>11, <2>12, <3>1 DEF LoadInv
  <2> QED BY <1>2, <2>1, <2>9, <2>10, <2>13, NoPrograms DEF BootInv
<1>6. CASE ClearBss
  <2>1. /\ boot = "read" /\ ReadDone /\ boot' = "segments" /\ UNCHANGED <<drive, seg, program>>
        /\ ph' = ph + 1 /\ DOMAIN mem' = Addresses
    BY <1>6 DEF ClearBss, Cleared
  <2>2. /\ disk[SECTORSIZE + 1] \in DOMAIN Headers /\ mem[ELFHDR] = disk[SECTORSIZE + 1]
        /\ ph \in 1 .. Len(K) /\ Progress(K[ph]) /\ KernelStands(ph - 1)
    BY <1>1, <2>1 DEF HeaderInv, LoadInv
  <2>3. PICK n : n = ph
    OBVIOUS
  <2>4. n \in 1 .. Len(K) /\ Progress(K[n]) /\ KernelStands(n - 1) /\ Len(K) \in Nat
    BY <2>2, <2>3, KernelFits
  <2>5. mem'[ELFHDR] = mem[ELFHDR] /\ KernelStands(n)'
    BY <1>1, <1>6, <2>2, <2>4, ClearBssCompletes
  <2>6. ph' = n + 1 /\ n + 1 \in 1 .. Len(K) + 1 /\ n + 1 - 1 = n /\ n + 1 \in Nat \ {0}
    BY <2>1, <2>3, <2>4
  <2>7. BootTypes' /\ DriveInv'
    BY <1>3, <2>1, <2>6
  <2>8. HeaderInv'
    BY <1>2, <2>1, <2>2, <2>5 DEF HeaderInv
  <2>9. KernelStands(ph - 1)'
    <3>1. ph' - 1 = n
      BY <2>4, <2>6
    <3> QED BY <2>5, <3>1 DEF KernelStands
  <2>10. LoadInv'
    BY <1>2, <2>1, <2>6, <2>9 DEF LoadInv
  <2> QED BY <1>2, <2>1, <2>7, <2>8, <2>10, NoPrograms DEF BootInv
<1>7. CASE EnterKernel
  <2>1. /\ boot = "segments" /\ boot' = "kernel" /\ UNCHANGED <<mem, drive, seg, ph>> /\ program' = 1
        /\ ph > Len(KernelHeaders)
    BY <1>7 DEF EnterKernel
  <2>2. /\ mem[ELFHDR] = disk[SECTORSIZE + 1] /\ disk[SECTORSIZE + 1] \in DOMAIN Headers
        /\ KernelHeaders = K
    BY <1>1, <2>1 DEF HeaderInv, KernelHeaders, K, Kernel
  <2>3. PICK n : n = ph
    OBVIOUS
  <2>4. n \in 1 .. Len(K) + 1 /\ n > Len(K) /\ KernelStands(n - 1) /\ Len(K) \in Nat
    BY <1>1, <2>1, <2>2, <2>3, KernelFits DEF LoadInv
  <2>5. n - 1 = Len(K)
    BY <2>4
  <2>6. KernelStands(Len(K))'
    BY <1>2, <2>1, <2>4, <2>5 DEF KernelStands, Standing
  <2>7. HeaderInv' /\ LoadInv'
    BY <1>2, <2>1, <2>2, <2>6 DEF HeaderInv, LoadInv
  <2>8. Len(RamImages) \in Nat
    BY BootAssumption, LenProperties DEF BootAssumption
  <2>9. BootTypes'
    BY <1>1, <2>1, <2>8 DEF BootTypes, SegTypes, DriveTypes
  <2>10. DriveInv'
    BY <1>1, <2>1 DEF DriveInv, Reading
  <2>11. \A q \in 1 .. 1 - 1 : FALSE
    OBVIOUS
  <2>12. ProgramInv' /\ (Aligned => ProgramsPlaced)'
    BY <2>1, <2>11 DEF ProgramInv, ProgramsPlaced
  <2> QED BY <1>2, <2>7, <2>9, <2>10, <2>12 DEF BootInv
<1> QED BY <1>4, <1>5, <1>6, <1>7

LEMMA ProgramStep ==
  ASSUME DiskReady, BootInv, tool = "done", UNCHANGED diskvars,
         program_loader \/ CopySegment \/ ProgramLoaded \/ Run
  PROVE  BootInv'
<1>1. BootTypes /\ DriveInv /\ HeaderInv /\ LoadInv /\ ProgramInv /\ (Aligned => ProgramsPlaced)
  BY DEF BootInv
<1>2. tool' = "done" /\ disk' = disk /\ K' = K
  BY DiskFixed
<1>3. boot \in {"kernel", "load"} /\ boot' \in {"kernel", "load", "run", "panic"} /\ UNCHANGED <<drive, seg>>
  BY DEF program_loader, CopySegment, ProgramLoaded, Run
<1>4. /\ mem[ELFHDR] = disk[SECTORSIZE + 1] /\ disk[SECTORSIZE + 1] \in DOMAIN Headers
      /\ KernelStands(Len(K))
  BY <1>1, <1>3 DEF HeaderInv, LoadInv
<1>5. DriveInv'
  BY <1>1, <1>3 DEF DriveInv, Reading
<1>6. ASSUME DOMAIN mem' = Addresses, ph' \in Nat \ {0}, program' \in 1 .. Len(RamImages) + 1
      PROVE  BootTypes'
  BY <1>1, <1>3, <1>6 DEF BootTypes, SegTypes, DriveTypes
<1>7. ASSUME mem'[ELFHDR] = mem[ELFHDR], KernelStands(Len(K))'
      PROVE  HeaderInv' /\ LoadInv'
  BY <1>2, <1>3, <1>4, <1>7 DEF HeaderInv, LoadInv
<1>8. ASSUME mem' = mem PROVE HeaderInv' /\ LoadInv'
  <2>1. KernelStands(Len(K))'
    BY <1>2, <1>4, <1>8 DEF KernelStands, Standing
  <2> QED BY <1>7, <1>8, <2>1
<1>9. Len(RamImages) \in Nat /\ program \in 1 .. Len(RamImages) + 1 /\ ph \in Nat \ {0}
  BY <1>1, BootAssumption, LenProperties DEF BootAssumption, BootTypes
<1>10. CASE program_loader
  <2>1. /\ boot = "kernel" /\ program <= Len(RamImages) /\ ph' = 1 /\ UNCHANGED <<mem, program>>
        /\ boot' = (IF mem[RamImages[program]] \in DOMAIN Headers THEN "load" ELSE "panic")
    BY <1>10 DEF program_loader
  <2>2. program \in 1 .. Len(RamImages)
    BY <1>9, <2>1
  <2>3. mem[RamImages[program]] = ElfHeader(disk, program)
    BY <1>4, <2>2, ImageHeader
  <2>4. boot' = "load" => Elf(disk, program)
    BY <2>1, <2>2, <2>3 DEF Elf
  <2>5. BootTypes'
    BY <1>1, <1>6, <1>9, <2>1 DEF BootTypes
  <2>6. ProgramInv'
    BY <1>1, <1>2, <2>1, <2>4 DEF ProgramInv
  <2>7. boot' = "load" => \A n \in Loads(disk, program) : ~ (n < 1)
    <3>1. SUFFICES ASSUME boot' = "load", NEW n \in Loads(disk, program) PROVE ~ (n < 1)
      OBVIOUS
    <3>2. PICK h : h = Headers[ElfHeader(disk, program)]
      OBVIOUS
    <3>3. n \in 1 .. Len(h)
      BY <3>1, <3>2 DEF Loads
    <3>4. Len(h) \in Nat
      BY <2>4, <3>1, <3>2, BootAssumption, LenProperties DEF BootAssumption, Elf
    <3> QED BY <3>3, <3>4
  <2>8. Aligned => ProgramsPlaced'
    BY <1>1, <1>2, <2>1, <2>7 DEF ProgramsPlaced, Copy, Program
  <2> QED BY <1>2, <1>5, <1>8, <2>1, <2>5, <2>6, <2>8 DEF BootInv
<1>11. CASE CopySegment
  <2>1. /\ boot = "load" /\ boot' = "load" /\ program' = program /\ ph' = ph + 1
        /\ ph <= Len(ProgramHeaders)
    BY <1>11 DEF CopySegment
  <2>2. Elf(disk, program) /\ \A q \in 1 .. program - 1 : Elf(disk, q)
    BY <1>1, <2>1 DEF ProgramInv
  <2>3. mem'[ELFHDR] = mem[ELFHDR] /\ KernelStands(Len(K))'
    BY <1>1, <1>4, <1>11, <2>2, CopySparesKernel
  <2>4. DOMAIN mem' = Addresses
    BY <1>1, <1>11 DEF CopySegment, copyseg, Cleared, BootTypes
  <2>5. BootTypes'
    BY <1>6, <1>9, <2>1, <2>4
  <2>6. ProgramInv'
    BY <1>2, <2>1, <2>2 DEF ProgramInv
  <2>7. Aligned => ProgramsPlaced'
    <3>1. SUFFICES ASSUME Aligned PROVE ProgramsPlaced'
      OBVIOUS
    <3>2. PICK k, r : k = ph /\ r = program
      OBVIOUS
    <3>3. r \in 1 .. Len(RamImages)
      BY <2>2, <3>2 DEF Elf
    <3>4. ASSUME NEW q \in 1 .. r - 1, NEW n \in Loads(disk, q) PROVE Copy(q, Program(q, n))'
      <4>1. q \in 1 .. Len(RamImages) /\ q # r
        BY <1>9, <3>3
      <4>2. Elf(disk, q)
        BY <2>2, <3>2
      <4>3. Copy(q, Program(q, n))
        BY <1>1, <2>1, <3>1, <3>2 DEF ProgramsPlaced
      <4>4. <<q, n>> # <<program, ph>>
        BY <3>2, <4>1
      <4> QED BY <1>1, <1>4, <1>11, <2>2, <4>1, <4>2, <4>3, <4>4, CopySparesPrograms
    <3>5. ASSUME NEW n \in Loads(disk, r), n < k + 1 PROVE Copy(r, Program(r, n))'
      <4>1. n \in Nat
        BY <1>4, <1>9, <2>2, <3>2, <3>5, CurrentSegment
      <4>2. CASE n = k
        BY <1>1, <1>4, <1>11, <2>2, <3>1, <3>2, <3>5, <4>2, CopyPlaces
      <4>3. CASE n # k
        <5>1. n < k
          BY <1>9, <3>2, <3>5, <4>1, <4>3
        <5>2. Copy(r, Program(r, n))
          BY <1>1, <2>1, <3>1, <3>2, <3>5, <5>1 DEF ProgramsPlaced
        <5>3. <<r, n>> # <<program, ph>> /\ Elf(disk, r)
          BY <2>2, <3>2, <4>3
        <5> QED BY <1>1, <1>4, <1>11, <2>2, <3>3, <3>5, <5>2, <5>3, CopySparesPrograms
      <4> QED BY <4>2, <4>3
    <3>6. program' = r /\ ph' = k + 1 /\ boot' = "load" /\ Loads(disk, r)' = Loads(disk, r)
          /\ \A q : Loads(disk, q)' = Loads(disk, q)
      BY <1>2, <2>1, <3>2
    <3> QED BY <1>2, <3>4, <3>5, <3>6 DEF ProgramsPlaced
  <2> QED BY <1>2, <1>5, <1>7, <2>3, <2>5, <2>6, <2>7 DEF BootInv
<1>12. CASE ProgramLoaded
  <2>1. /\ boot = "load" /\ boot' = "kernel" /\ program' = program + 1 /\ UNCHANGED <<mem, ph>>
        /\ ph > Len(ProgramHeaders)
    BY <1>12 DEF ProgramLoaded
  <2>2. Elf(disk, program) /\ \A q \in 1 .. program - 1 : Elf(disk, q)
    BY <1>1, <2>1 DEF ProgramInv
  <2>3. /\ program \in 1 .. Len(RamImages)
        /\ \A n \in Loads(disk, program) : n \in Nat /\ n <= Len(ProgramHeaders)
    BY <1>4, <1>9, <2>2, CurrentSegment
  <2>4. program' \in 1 .. Len(RamImages) + 1
    BY <1>9, <2>1, <2>3
  <2>5. BootTypes'
    BY <1>1, <1>6, <1>9, <2>1, <2>4 DEF BootTypes
  <2>6. PICK r : r = program
    OBVIOUS
  <2>7. \A q \in 1 .. program' - 1 : q = r \/ q \in 1 .. r - 1
    <3>1. program' = r + 1 /\ r \in Int
      BY <1>9, <2>1, <2>3, <2>6
    <3>2. \A q \in 1 .. r + 1 - 1 : q = r \/ q \in 1 .. r - 1
      BY <3>1
    <3> QED BY <3>1, <3>2
  <2>8. ProgramInv'
    BY <1>2, <2>1, <2>2, <2>6, <2>7 DEF ProgramInv
  <2>9. Aligned => ProgramsPlaced'
    <3>1. SUFFICES ASSUME Aligned PROVE ProgramsPlaced'
      OBVIOUS
    <3>2. ProgramsPlaced
      BY <1>1, <3>1
    <3>3. PICK h : h = ProgramHeaders
      OBVIOUS
    <3>4. Len(h) \in Nat /\ ph > Len(h)
      <4>1. h \in Seq(Segments)
        BY <1>4, <1>9, <2>2, <3>3, CurrentSegment, BootAssumption DEF BootAssumption, Elf
      <4> QED BY <2>1, <3>3, <4>1, LenProperties
    <3>5. \A n \in Loads(disk, r) : n < ph
      BY <1>9, <2>3, <2>6, <3>3, <3>4
    <3>6. \A n \in Loads(disk, r) : Copy(r, Program(r, n))
      BY <2>1, <2>6, <3>2, <3>5 DEF ProgramsPlaced
    <3>7. \A q \in 1 .. program' - 1 : \A n \in Loads(disk, q) : Copy(q, Program(q, n))
      BY <2>1, <2>6, <2>7, <3>2, <3>6 DEF ProgramsPlaced
    <3>8. \A q, n : Copy(q, Program(q, n)) => Copy(q, Program(q, n))'
      BY <1>2, <2>1 DEF Copy, Program
    <3> QED BY <1>2, <2>1, <2>6, <3>7, <3>8 DEF ProgramsPlaced
  <2> QED BY <1>2, <1>5, <1>8, <2>1, <2>5, <2>8, <2>9 DEF BootInv
<1>13. CASE Run
  <2>1. boot = "kernel" /\ boot' = "run" /\ UNCHANGED <<mem, ph, program>>
    BY <1>13 DEF Run
  <2>2. BootTypes'
    BY <1>1, <1>6, <1>9, <2>1 DEF BootTypes
  <2>3. ProgramInv'
    BY <1>1, <1>2, <2>1 DEF ProgramInv
  <2>4. Aligned => ProgramsPlaced'
    BY <1>1, <1>2, <2>1 DEF ProgramsPlaced, Copy, Program
  <2> QED BY <1>2, <1>5, <1>8, <2>1, <2>2, <2>3, <2>4 DEF BootInv
<1> QED BY <1>10, <1>11, <1>12, <1>13

LEMMA BootStep ==
  ASSUME DiskReady, BootInv, tool = "done", UNCHANGED diskvars, BootNext
  PROVE  BootInv'
BY LoadingStep, SegmentStep, ProgramStep DEF BootNext

DiskRight == InputInv /\ (tool = "done" => DiskReady)

LEMMA InputInvariant == Spec => []InputInv
<1>1. Init => InputInv
  BY DEF Init, DiskInit, InputInv
<1>2. InputInv /\ [Next]_vars => InputInv'
  BY InputFixed DEF InputInv, Next, vars, diskvars
<1> QED BY <1>1, <1>2, PTL DEF Spec

LEMMA DiskReadyInvariant == Spec => []DiskRight
<1>1. DiskInv /\ InputInv => DiskRight
  BY DiskGetsReady DEF DiskRight
<1> QED BY <1>1, DiskInvariant, InputInvariant, PTL

(* While the disk is made, the machine is off.                               *)
LEMMA OffStep ==
  ASSUME BootInv, DiskInv, DiskNext, UNCHANGED memvars
  PROVE  BootInv'
<1>1. tool # "done"
  BY DEF DiskInv, CountInv, DiskNext, diskwrite, BootSector, NoBootSector, Skip, More, fopencheck,
     fread, Pad, FillDisk, At
<1>2. Untouched /\ BootTypes
  BY <1>1 DEF BootInv
<1>3. Untouched' /\ BootTypes' /\ boot' = "bios"
  BY <1>2 DEF Untouched, BootTypes, SegTypes, DriveTypes, memvars
<1>4. DriveInv'
  BY <1>3 DEF Untouched, DriveInv
<1>5. HeaderInv' /\ LoadInv'
  BY <1>3 DEF HeaderInv, LoadInv
<1> QED BY <1>3, <1>4, <1>5, NoPrograms DEF BootInv

LEMMA BootFixed ==
  ASSUME BootInv, UNCHANGED vars
  PROVE  BootInv'
<1>1. UNCHANGED diskvars /\ UNCHANGED <<mem, drive, seg, ph, program, boot>>
  BY DEF vars, memvars
<1>2. BootTypes' /\ DriveInv' /\ tool' = tool
  BY <1>1, DiskFixed DEF BootInv, BootTypes, SegTypes, DriveTypes, DriveInv, Reading, Sector
<1>3. tool # "done" => Untouched'
  BY <1>1 DEF BootInv, Untouched
<1>4. tool = "done" => HeaderInv' /\ LoadInv' /\ ProgramInv' /\ (Aligned => ProgramsPlaced)'
  BY <1>1, MemoryFixed DEF BootInv
<1> QED BY <1>2, <1>3, <1>4 DEF BootInv

LEMMA BootInvariant == Spec => []BootInv
<1>1. Init => BootInv
  <2> SUFFICES ASSUME Init PROVE BootInv
    OBVIOUS
  <2>1. BootTypes /\ Untouched /\ tool # "done"
    BY BootStarts DEF Init, DiskInit
  <2> QED BY <2>1 DEF BootInv, DriveInv, Untouched
<1>2. DiskInv /\ DiskRight /\ BootInv /\ [Next]_vars => BootInv'
  <2> SUFFICES ASSUME DiskInv, DiskRight, BootInv, [Next]_vars PROVE BootInv'
    OBVIOUS
  <2>1. CASE DiskNext /\ UNCHANGED memvars
    BY <2>1, OffStep
  <2>2. CASE tool = "done" /\ BootNext /\ UNCHANGED diskvars
    BY <2>2, BootStep DEF DiskRight
  <2>3. CASE UNCHANGED vars
    BY <2>3, BootFixed
  <2> QED BY <2>1, <2>2, <2>3 DEF Next
<1> QED BY <1>1, <1>2, DiskInvariant, DiskReadyInvariant, PTL DEF Spec

(***************************************************************************)
(* Whatever is on the disk, the loader's variables stay in their ranges,   *)
(* and it reads no sector that is not on the disk.                         *)
(***************************************************************************)
THEOREM BootTypeCorrect == Spec => []TypeOK
<1>1. DiskInv /\ DiskRight /\ BootInv => TypeOK
  <2> SUFFICES ASSUME DiskInv, DiskRight, BootInv PROVE TypeOK
    OBVIOUS
  <2>1. i \in 1 .. Len(args) + 1 /\ {nsectors, pos} \subseteq Nat
        /\ tool \in {"start", "args", "read", "done", "failed"}
    BY DEF DiskInv, DiskTypes
  <2>2. BootTypes /\ DriveInv
    BY DEF BootInv
  <2>3. {seg.va, seg.sect, seg.end_va, seg.memsz} \subseteq Nat /\ seg.va % SECTORSIZE = 0
    BY <2>2 DEF BootTypes, SegTypes
  <2>4. drive.busy => drive.sector < nsectors
    <3>1. SUFFICES ASSUME drive.busy PROVE drive.sector < nsectors
      OBVIOUS
    <3>2. Reading /\ drive.sector = seg.sect
      BY <2>2, <3>1 DEF DriveInv
    <3>3. tool = "done" /\ DiskReady /\ HeaderInv /\ LoadInv
      BY <3>2 DEF BootInv, DiskRight, Untouched, Reading
    <3>4. SegTypes /\ seg.va < seg.end_va
      BY <2>2, <3>2 DEF BootTypes, Reading
    <3>5. CASE boot = "header"
      <4>1. Progress(Page)
        BY <3>3, <3>5 DEF LoadInv
      <4> QED BY <3>2, <3>3, <3>4, <4>1, PageFits, SectorExists
    <3>6. CASE boot = "read"
      <4>1. ph \in 1 .. Len(K) /\ Progress(K[ph]) /\ disk[SECTORSIZE + 1] \in DOMAIN Headers
        BY <3>3, <3>6 DEF LoadInv, HeaderInv
      <4>2. K[ph] \in Segments /\ OnDisk(disk, K[ph])
        BY <3>3, <4>1, KernelFits
      <4> QED BY <3>2, <3>3, <3>4, <4>1, <4>2, SectorExists
    <3> QED BY <3>2, <3>5, <3>6 DEF Reading
  <2> QED BY <2>1, <2>2, <2>3, <2>4 DEF TypeOK, BootTypes, DriveTypes
<1> QED BY <1>1, DiskInvariant, DiskReadyInvariant, BootInvariant, PTL

(***************************************************************************)
(* While the kernel runs, each of its segments is in memory as on the      *)
(* disk, for any kernel that is linked without overlap: the whole sectors  *)
(* that readseg() reads, the order in which the segments come and the time *)
(* the drive takes do no harm, nor does program_loader() afterwards.       *)
(***************************************************************************)
THEOREM KernelInPlace == Spec => []KernelLoaded
<1>1. DiskRight /\ BootInv => KernelLoaded
  <2> SUFFICES ASSUME DiskRight, BootInv, boot \in {"kernel", "load", "run"},
                      NEW n \in 1 .. Len(KernelHeaders), NEW k \in 0 .. KernelHeaders[n].memsz - 1
               PROVE  mem[KernelHeaders[n].va + k]
                        = IF k < KernelHeaders[n].filesz
                          THEN disk[SECTORSIZE + (KernelHeaders[n].offset + k) + 1] ELSE 0
    BY DEF KernelLoaded, InPlace
  <2>1. tool = "done" /\ DiskReady /\ HeaderInv /\ LoadInv
    BY DEF BootInv, DiskRight, Untouched
  <2>2. disk[SECTORSIZE + 1] \in DOMAIN Headers /\ KernelHeaders = K /\ KernelStands(Len(K))
    BY <2>1 DEF HeaderInv, LoadInv, KernelHeaders, K, Kernel
  <2>3. PICK p, v, f, s, o, c : p = K[n] /\ v = p.va /\ f = p.filesz /\ s = p.memsz /\ o = p.offset
                                /\ c = SECTORSIZE
    OBVIOUS
  <2>4. p \in Segments /\ v \in Nat /\ f \in Nat /\ s \in Nat /\ o \in Nat /\ c \in Nat
    BY <2>1, <2>2, <2>3, KernelFits, SegmentFields, Sizes
  <2>5. k \in 0 .. s - 1 /\ Standing(p)
    BY <2>2, <2>3 DEF KernelStands
  <2>6. PICK x : x = v + k
    OBVIOUS
  <2>7. x \in v .. v + s - 1 /\ x - v = k /\ (x < v + f <=> k < f)
    BY <2>4, <2>5, <2>6
  <2>8. x \in Extent(p)
    BY <2>3, <2>7 DEF Extent
  <2>9. mem[x] = IF x < v + f THEN disk[c + o + (x - v) + 1] ELSE 0
    BY <2>3, <2>5, <2>8 DEF Standing, Content
  <2>10. c + o + k + 1 = c + (o + k) + 1
    BY <2>4, <2>5
  <2>11. mem[x] = IF k < f THEN disk[c + (o + k) + 1] ELSE 0
    BY <2>7, <2>9, <2>10
  <2> QED BY <2>2, <2>3, <2>6, <2>11
<1> QED BY <1>1, DiskReadyInvariant, BootInvariant, PTL

(***************************************************************************)
(* If the linker begins every segment of a program with a page, each       *)
(* program that program_loader() has loaded is in memory as in its image,  *)
(* and stays so while the others are loaded.  Without Aligned it is false, *)
(* as boot_unaligned shows: copyseg() begins at the page, but with the     *)
(* first byte of the segment.                                              *)
(***************************************************************************)
THEOREM ProgramsInPlace ==
  ASSUME Aligned
  PROVE  Spec => []ProgramsLoaded
<1>1. DiskRight /\ BootInv => ProgramsLoaded
  <2> SUFFICES ASSUME DiskRight, BootInv PROVE ProgramsLoaded
    OBVIOUS
  <2> SUFFICES ASSUME boot \in {"kernel", "load", "run"}, NEW q \in 1 .. program - 1,
                      NEW n \in 1 .. Len(Headers[mem[RamImages[q]]]),
                      Headers[mem[RamImages[q]]][n].load,
                      NEW k \in 0 .. Headers[mem[RamImages[q]]][n].memsz - 1
               PROVE  mem[Headers[mem[RamImages[q]]][n].va + k]
                        = IF k < Headers[mem[RamImages[q]]][n].filesz
                          THEN mem[RamImages[q] + (Headers[mem[RamImages[q]]][n].offset + k)] ELSE 0
    BY DEF ProgramsLoaded, InPlace
  <2>1. /\ tool = "done" /\ DiskReady /\ HeaderInv /\ LoadInv /\ ProgramInv /\ ProgramsPlaced
        /\ BootTypes
    BY DEF BootInv, DiskRight, Untouched
  <2>2. disk[SECTORSIZE + 1] \in DOMAIN Headers /\ KernelStands(Len(K))
    BY <2>1 DEF HeaderInv, LoadInv
  <2>3. q \in 1 .. Len(RamImages) /\ RamImages[q] \in Nat /\ Elf(disk, q)
    <3>1. program \in 1 .. Len(RamImages) + 1 /\ Len(RamImages) \in Nat /\ RamImages \in Seq(Nat)
      BY <2>1, BootAssumption, LenProperties DEF BootTypes, BootAssumption
    <3>2. q \in 1 .. Len(RamImages)
      BY <3>1
    <3> QED BY <2>1, <3>1, <3>2, ElementOfSeq DEF ProgramInv
  <2>4. mem[RamImages[q]] = ElfHeader(disk, q)
    BY <2>1, <2>2, <2>3, ImageHeader
  <2>5. PICK p, f, o : p = Program(q, n) /\ f = p.filesz /\ o = p.offset
    OBVIOUS
  <2>6. n \in Loads(disk, q) /\ p = Headers[mem[RamImages[q]]][n]
    BY <2>4, <2>5 DEF Loads, Program
  <2>7. p \in Segments /\ f \in Nat /\ o \in Nat
    BY <2>1, <2>2, <2>3, <2>5, <2>6, ProgramFits, SegmentFields
  <2>8. Copy(q, p)
    BY <2>1, <2>5, <2>6 DEF ProgramsPlaced
  <2>9. k \in 0 .. p.memsz - 1 /\ k \in Int
    BY <2>6
  <2>10. mem[p.va + k] = IF k < f THEN mem[RamImages[q] + o + k] ELSE 0
    BY <2>5, <2>8, <2>9 DEF Copy
  <2>11. RamImages[q] + o + k = RamImages[q] + (o + k)
    BY <2>3, <2>7, <2>9
  <2> QED BY <2>5, <2>6, <2>10, <2>11
<1> QED BY <1>1, DiskReadyInvariant, BootInvariant, PTL
(***************************************************************************)
(* With the same hypothesis copyseg() does what its comment says: it       *)
(* copies 'filesz' bytes to 'dst', clears the memory from there to         *)
(* dst + memsz, and changes nothing else.                                  *)
(***************************************************************************)
THEOREM CopiesAsDocumented ==
  ASSUME Aligned
  PROVE  Spec => CopysegAsDocumented
<1> DEFINE Documented ==
      boot = "load" /\ mem' # mem =>
        LET p == ProgramHeaders[ph]
        IN  \A a \in Addresses :
              mem'[a] = IF a \notin p.va .. p.va + p.memsz - 1 THEN mem[a]
                        ELSE IF a < p.va + p.filesz
                        THEN mem[RamImages[program] + p.offset + (a - p.va)]
                        ELSE 0
<1>1. DiskRight /\ BootInv /\ [Next]_vars => [Documented]_vars
  <2> SUFFICES ASSUME DiskRight, BootInv, Next, boot = "load", mem' # mem PROVE Documented
    OBVIOUS
  <2>1. CopySegment /\ ProgramHeaders[ph].load
    <3>1. BootNext
      BY DEF Next, memvars
    <3> QED BY <3>1 DEF BootNext, bootmain, ReadCommand, Drive, ReadData, ReadDone, Reading, ReadHeader,
               LoadSegment, ClearBss, EnterKernel, program_loader, CopySegment, ProgramLoaded, Run
  <2>2. /\ tool = "done" /\ DiskReady /\ disk[SECTORSIZE + 1] \in DOMAIN Headers /\ KernelStands(Len(K))
        /\ Elf(disk, program) /\ ph \in Nat \ {0} /\ ph <= Len(ProgramHeaders)
    BY <2>1 DEF BootInv, DiskRight, Untouched, HeaderInv, LoadInv, ProgramInv, BootTypes, CopySegment
  <2>3. PICK p : p = ProgramHeaders[ph]
    OBVIOUS
  <2>4. /\ program \in 1 .. Len(RamImages) /\ ph \in Loads(disk, program)
        /\ p = Program(program, ph)
    BY <2>1, <2>2, <2>3, CurrentSegment
  <2>5. /\ p \in Segments /\ p.filesz <= p.memsz /\ p.va + p.memsz <= MEMORY
        /\ p.va % PAGESIZE = 0
    BY <2>2, <2>4, ProgramFits
  <2>6. PICK v, f, s : v = p.va /\ f = p.filesz /\ s = p.memsz
    OBVIOUS
  <2>7. v \in Nat /\ f \in Nat /\ s \in Nat /\ f <= s /\ v + s <= MEMORY /\ MEMORY \in Nat
    BY <2>5, <2>6, SegmentFields, Sizes
  <2>8. ASSUME NEW a \in Addresses, a \notin v .. v + s - 1 PROVE mem'[a] = mem[a]
    <3>1. RoundDown(v, PAGESIZE) = v
      <4>1. RoundDown(v, PAGESIZE) = v - 0
        BY <2>5, <2>6 DEF RoundDown
      <4> QED BY <2>7, <4>1
    <3>2. a \notin Copied(p)
      BY <2>6, <2>8, <3>1 DEF Copied
    <3> QED BY <2>1, <2>3, <2>5, <2>8, <3>2, CopySegmentKeeps DEF BootInv
  <2>9. ASSUME NEW a \in v .. v + s - 1
        PROVE  mem'[a] = IF a < v + f THEN mem[RamImages[program] + p.offset + (a - v)] ELSE 0
    <3>1. PICK k : k = a - v
      OBVIOUS
    <3>2. k \in 0 .. s - 1 /\ v + k = a /\ (k < f <=> a < v + f)
      BY <2>7, <2>9, <3>1
    <3>3. mem'[v + k] = IF k < f THEN mem[RamImages[program] + p.offset + k] ELSE 0
      BY <2>1, <2>3, <2>5, <2>6, <3>2, CopySegmentCopies DEF BootInv
    <3> QED BY <3>1, <3>2, <3>3
  <2>10. ASSUME NEW a \in Addresses
         PROVE  mem'[a] = IF a \notin v .. v + s - 1 THEN mem[a]
                          ELSE IF a < v + f THEN mem[RamImages[program] + p.offset + (a - v)]
                          ELSE 0
    BY <2>8, <2>9
  <2> QED BY <2>3, <2>6, <2>10
<1> QED BY <1>1, DiskReadyInvariant, BootInvariant, PTL DEF Spec, CopysegAsDocumented
=============================================================================
