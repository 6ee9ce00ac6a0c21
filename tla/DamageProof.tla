----------------------------- MODULE DamageProof -----------------------------
(***************************************************************************)
(* What remembering and copying a damaged region guarantee, and theorems   *)
(* about the damage slots of one client, for every size of the             *)
(* framebuffer, every alignment and every number of slots.                 *)
(***************************************************************************)
EXTENDS DamageSlots, SequenceTheorems, TLAPS

LEMMA Division ==
  ASSUME NEW a \in Nat, NEW n \in Nat \ {0}
  PROVE  /\ a \div n \in Nat /\ a % n \in 0..(n - 1)
         /\ a = n * (a \div n) + (a % n)
  BY SMT

LEMMA MultipleMod ==
  ASSUME NEW k \in Nat, NEW n \in Nat \ {0}
  PROVE  (n * k) % n = 0
  BY SMTT(30)

\* A multiple of n at or below the group of another one is no later multiple.
LEMMA MultipleOrder ==
  ASSUME NEW i \in Nat, NEW k \in Nat, NEW n \in Nat \ {0}, n * i < n * k + n
  PROVE  i <= k
  <1>. SUFFICES ASSUME i > k  PROVE FALSE
    OBVIOUS
  <1>. DEFINE d == i - (k + 1)
  <1>1. d \in Nat /\ i = d + (k + 1)
    OBVIOUS
  <1>. HIDE DEF d
  <1>2. n * d \in Nat
    BY <1>1
  <1>3. n * i = n * d + n * (k + 1)
    BY <1>1
  <1>4. n * (k + 1) = n * k + n /\ n * k \in Nat
    OBVIOUS
  <1>. QED  BY <1>2, <1>3, <1>4

LEMMA RegionFields ==
  ASSUME NEW r \in Region
  PROVE  /\ r \in Box /\ valid(r)
         /\ r.xmin \in Nat /\ r.xmax \in Nat /\ r.ymin \in Nat /\ r.ymax \in Nat
         /\ r.xmin <= r.xmax /\ r.xmax < Width /\ r.ymin <= r.ymax /\ r.ymax < Height
  BY DEF Region, Box, valid

\* The columns that are copied include those of the region.
LEMMA ExtentCovers ==
  ASSUME NEW r \in Region
  PROVE  x_start(r) <= r.xmin /\ r.xmax < x_extent(r)
  <1>1. Align \in Nat \ {0} /\ Width \in Nat
    BY DamageAssumption
  <1>2. r.xmin \in Nat /\ r.xmax \in Nat /\ r.xmax < Width
    BY RegionFields
  <1>3. r.xmin % Align \in 0..(Align - 1) /\ r.xmax % Align \in 0..(Align - 1)
    BY <1>1, <1>2, Division
  <1>4. x_start(r) <= r.xmin
    BY <1>1, <1>2, <1>3 DEF x_start
  <1>5. r.xmax < x_extent(r)
    BY <1>1, <1>2, <1>3 DEF x_extent
  <1>. QED  BY <1>4, <1>5

\* Copying a region copies at least the region (fb.c:83-100).
LEMMA BlitCovers ==
  ASSUME NEW r \in Region
  PROVE  covered(r) \subseteq blit(r) /\ blit(r) \subseteq Pixels
  <1>1. Align \in Nat \ {0} /\ Width \in Nat
    BY DamageAssumption
  <1>2. r.xmin \in Nat /\ r.xmax \in Nat /\ r.xmax < Width
    BY RegionFields
  <1>3. x_start(r) <= r.xmin /\ r.xmax < x_extent(r)
    BY ExtentCovers
  <1>4. x_start(r) \in Int /\ x_extent(r) \in Int
    <2>1. r.xmin % Align \in 0..(Align - 1) /\ r.xmax % Align \in 0..(Align - 1)
      BY <1>1, <1>2, Division
    <2>2. x_start(r) \in Int
      BY <1>2, <2>1 DEF x_start
    <2>3. r.xmax + 1 \in Int /\ r.xmax + (Align - (r.xmax % Align)) \in Int
      BY <1>1, <1>2, <2>1
    <2>. QED  BY <1>1, <2>2, <2>3 DEF x_extent
  <1>5. ASSUME NEW p \in covered(r)
        PROVE  p \in blit(r)
    <2>1. p \in Pixels /\ r.xmin <= p[1] /\ p[1] <= r.xmax /\ r.ymin <= p[2] /\ p[2] <= r.ymax
      BY <1>5 DEF covered
    <2>2. p[1] \in Int
      BY <2>1 DEF Pixels
    <2>3. x_start(r) <= p[1] /\ p[1] < x_extent(r)
      BY <1>2, <1>3, <1>4, <2>1, <2>2
    <2>. QED  BY <2>1, <2>3 DEF blit
  <1>. QED  BY <1>5 DEF blit

\* On a screen as wide as whole groups, copy_to_fb refuses no region.
LEMMA WholeGroupsCopy ==
  ASSUME NEW r \in Region, Width % Align = 0
  PROVE  copies(r)
  <1>. DEFINE a == r.xmin
              b == r.xmax
              A == Align
              i == a \div A
              j == b \div A
              w == Width \div A
              e == x_extent(r)
              s == x_start(r)
  <1>1. A \in Nat \ {0} /\ Width \in Nat
    BY DamageAssumption
  <1>2. a \in Nat /\ b \in Nat /\ a <= b /\ b < Width
    BY RegionFields
  <1>3. i \in Nat /\ a % A \in 0..(A - 1) /\ a = A * i + (a % A)
    BY <1>1, <1>2, Division
  <1>4. j \in Nat /\ b % A \in 0..(A - 1) /\ b = A * j + (b % A)
    BY <1>1, <1>2, Division
  <1>5. w \in Nat /\ Width = A * w
    BY <1>1, Division
  <1>6. s = A * i
    BY <1>1, <1>2, <1>3 DEF x_start
  <1>. HIDE DEF A, i, j, w, s
  <1>7. \E k \in Nat : k >= i /\ e = A * k
    <2>1. CASE e = Width
      <3>1. A * i < A * w + A
        BY <1>1, <1>2, <1>3, <1>5
      <3>2. w >= i
        BY <1>1, <1>3, <1>5, <3>1, MultipleOrder
      <3>. QED  BY <1>5, <2>1, <3>2
    <2>2. CASE e # Width /\ (b + 1) % A = 0
      <3>1. e = b + 1
        BY <1>1, <1>2, <2>2 DEF x_extent, A
      <3>. DEFINE k == (b + 1) \div A
      <3>2. k \in Nat /\ b + 1 = A * k
        <4>1. b + 1 \in Nat
          BY <1>2
        <4>2. k \in Nat /\ b + 1 = A * k + ((b + 1) % A)
          BY <1>1, <4>1, Division
        <4>. QED  BY <1>1, <1>2, <2>2, <4>2
      <3>. HIDE DEF k
      <3>3. A * i <= a /\ a < A * k
        BY <1>1, <1>2, <1>3, <3>2
      <3>4. k >= i
        <4>1. A * i < A * k + A
          BY <1>1, <1>2, <1>3, <3>2, <3>3
        <4>. QED  BY <1>1, <1>3, <3>2, <4>1, MultipleOrder
      <3>. QED  BY <3>1, <3>2, <3>4
    <2>3. CASE e # Width /\ (b + 1) % A # 0
      <3>1. e = b + (A - (b % A))
        BY <1>1, <1>2, <1>4, <2>3 DEF x_extent, A
      <3>2. e = A * (j + 1)
        BY <1>1, <1>4, <3>1
      <3>3. A * i < A * j + A
        BY <1>1, <1>2, <1>3, <1>4
      <3>4. j + 1 >= i
        <4>1. i <= j
          BY <1>1, <1>3, <1>4, <3>3, MultipleOrder
        <4>. QED  BY <1>3, <1>4, <4>1
      <3>. QED  BY <1>4, <3>2, <3>4
    <2>. QED  BY <2>1, <2>2, <2>3
  <1>8. PICK k \in Nat : k >= i /\ e = A * k
    BY <1>7
  <1>9. e - s = A * (k - i) /\ k - i \in Nat
    <2>. HIDE DEF e
    <2>. QED  BY <1>1, <1>3, <1>6, <1>8
  <1>10. (e - s) % A = 0
    BY <1>1, <1>9, MultipleMod
  <1>. QED  BY <1>10 DEF copies, s, A

LEMMA FullRegion == Full \in Region /\ covered(Full) = Pixels
  <1>1. Full \in Region
    BY DamageAssumption DEF Full, Region, Box, valid
  <1>. QED  BY <1>1, DamageAssumption DEF Full, covered, Pixels

\* A slot that grows keeps what it stood for and takes the new region in.
LEMMA GrowCovers ==
  ASSUME NEW old \in Region, NEW r \in Region
  PROVE  /\ grow(old, r) \in Region
         /\ covered(old) \cup covered(r) \subseteq covered(grow(old, r))
  <1>1. /\ old.xmin \in Nat /\ old.xmax \in Nat /\ old.ymin \in Nat /\ old.ymax \in Nat
        /\ old.xmin <= old.xmax /\ old.xmax < Width /\ old.ymin <= old.ymax /\ old.ymax < Height
    BY RegionFields
  <1>2. /\ r.xmin \in Nat /\ r.xmax \in Nat /\ r.ymin \in Nat /\ r.ymax \in Nat
        /\ r.xmin <= r.xmax /\ r.xmax < Width /\ r.ymin <= r.ymax /\ r.ymax < Height
    BY RegionFields
  <1>3. grow(old, r) \in Region
    BY <1>1, <1>2, DamageAssumption DEF grow, Region, Box, valid
  <1>4. /\ grow(old, r).xmin <= old.xmin /\ grow(old, r).xmin <= r.xmin
        /\ old.xmax <= grow(old, r).xmax /\ r.xmax <= grow(old, r).xmax
        /\ grow(old, r).ymin <= old.ymin /\ grow(old, r).ymin <= r.ymin
        /\ old.ymax <= grow(old, r).ymax /\ r.ymax <= grow(old, r).ymax
    BY <1>1, <1>2 DEF grow
  <1>5. ASSUME NEW p \in Pixels
        PROVE  p \in covered(old) \cup covered(r) => p \in covered(grow(old, r))
    <2>1. p[1] \in Int /\ p[2] \in Int
      BY DEF Pixels
    <2>2. /\ grow(old, r).xmin \in Nat /\ grow(old, r).xmax \in Nat
          /\ grow(old, r).ymin \in Nat /\ grow(old, r).ymax \in Nat
      BY <1>3, RegionFields
    <2>. QED  BY <1>1, <1>2, <1>4, <2>1, <2>2 DEF covered
  <1>. QED  BY <1>3, <1>5 DEF covered

\* accumulate_dmg stays within the slots and forgets no damage.
LEMMA Accumulate ==
  ASSUME NEW d \in Seq(Region), Len(d) <= Slots, NEW r \in Region
  PROVE  /\ accumulate_dmg(d, r) \in Seq(Region)
         /\ Len(accumulate_dmg(d, r)) <= Slots
         /\ accumulate_dmg(d, r) # <<>>
         /\ damaged(d) \cup covered(r) \subseteq damaged(accumulate_dmg(d, r))
  <1>. DEFINE n == accumulate_dmg(d, r)
  <1>1. Slots \in Nat \ {0} /\ Len(d) \in Nat /\ DOMAIN d = 1..Len(d)
    BY DamageAssumption, LenProperties
  <1>2. CASE Len(d) < Slots
    <2>1. n = Append(d, r)
      BY <1>2 DEF accumulate_dmg
    <2>2. /\ n \in Seq(Region) /\ Len(n) = Len(d) + 1
          /\ \A i \in 1..Len(d) : n[i] = d[i]
          /\ n[Len(d) + 1] = r
      BY <2>1, AppendProperties
    <2>3. DOMAIN n = 1..(Len(d) + 1)
      BY <2>2, LenProperties
    <2>4. Len(n) <= Slots /\ n # <<>>
      BY <1>1, <1>2, <2>2, EmptySeq
    <2>5. covered(r) \subseteq damaged(n)
      BY <1>1, <2>2, <2>3 DEF damaged
    <2>6. \A i \in DOMAIN d : i \in DOMAIN n /\ n[i] = d[i]
      BY <1>1, <2>2, <2>3
    <2>7. damaged(d) \subseteq damaged(n)
      BY <2>6 DEF damaged
    <2>. QED  BY <2>2, <2>4, <2>5, <2>7
  <1>3. CASE ~(Len(d) < Slots)
    <2>1. Len(d) = Slots
      <3>. DEFINE l == Len(d)
      <3>1. l \in Nat /\ Slots \in Nat /\ l <= Slots /\ ~(l < Slots)
        BY <1>1, <1>3
      <3>. HIDE DEF l
      <3>2. l = Slots
        BY ONLY <3>1
      <3>. QED  BY <3>2 DEF l
    <2>2. n = [i \in 1..Slots |-> IF i = Slots THEN grow(d[i], r) ELSE d[i]]
      BY <1>3, <2>1 DEF accumulate_dmg
    <2>3. \A i \in 1..Slots : d[i] \in Region
      BY <1>1, <2>1, ElementOfSeq
    <2>4. Slots \in 1..Slots
      BY <1>1
    <2>5. /\ grow(d[Slots], r) \in Region
          /\ covered(d[Slots]) \cup covered(r) \subseteq covered(grow(d[Slots], r))
      BY <2>3, <2>4, GrowCovers
    <2>6. n \in [1..Slots -> Region]
      BY <2>2, <2>3, <2>5
    <2>7. n \in Seq(Region) /\ Len(n) = Slots /\ DOMAIN n = 1..Slots
      BY <1>1, <2>6, SeqDef, LenProperties
    <2>8. n # <<>> /\ Len(n) <= Slots
      BY <1>1, <2>7, EmptySeq
    <2>9. covered(r) \subseteq damaged(n)
      BY <2>2, <2>4, <2>5, <2>7 DEF damaged
    <2>10. \A i \in DOMAIN d : i \in DOMAIN n /\ covered(d[i]) \subseteq covered(n[i])
      BY <1>1, <2>1, <2>2, <2>5, <2>7
    <2>11. damaged(d) \subseteq damaged(n)
      BY <2>10 DEF damaged
    <2>. QED  BY <2>7, <2>8, <2>9, <2>11
  <1>. QED  BY <1>2, <1>3

\* Copying all slots copies all damage.
LEMMA BlitsDamage ==
  ASSUME NEW d \in Seq(Region)
  PROVE  damaged(d) \subseteq UNION {blit(d[i]) : i \in DOMAIN d}
  <1>1. \A i \in DOMAIN d : covered(d[i]) \subseteq blit(d[i])
    BY LenProperties, ElementOfSeq, BlitCovers
  <1>. QED  BY <1>1 DEF damaged

LEMMA DamagedPixels ==
  ASSUME NEW d  PROVE damaged(d) \subseteq Pixels
  BY DEF damaged, covered

-----------------------------------------------------------------------------
(* The slots of one client.                                                *)

LEMMA SlotsTyped == SlotsTypeOK /\ [SlotsNext]_slots_vars => SlotsTypeOK'
  <1>. SUFFICES ASSUME SlotsTypeOK, [SlotsNext]_slots_vars  PROVE SlotsTypeOK'
    OBVIOUS
  <1>1. ASSUME NEW r \in Corners, report(r)  PROVE SlotsTypeOK'
    <2>1. r \in Region
      BY <1>1, DamageAssumption DEF Corners, Region, Box, report
    <2>2. covered(r) \subseteq Pixels
      BY DEF covered
    <2>. QED  BY <1>1, <2>1, <2>2, Accumulate DEF SlotsTypeOK, report
  <1>2. CASE copy_out
    <2>1. used' = <<>> /\ <<>> \in Seq(Region) /\ Len(<<>>) = 0 /\ reported' = {}
      BY <1>2, EmptySeq DEF copy_out
    <2>. QED  BY <2>1, DamageAssumption DEF SlotsTypeOK
  <1>3. CASE UNCHANGED slots_vars
    BY <1>3 DEF slots_vars, SlotsTypeOK
  <1>. QED  BY <1>1, <1>2, <1>3 DEF SlotsNext

LEMMA SlotsStart == SlotsInit => SlotsTypeOK /\ CopyIncludesReported
  <1>1. <<>> \in Seq(Region) /\ Len(<<>>) = 0
    BY EmptySeq
  <1>. QED  BY <1>1, DamageAssumption DEF SlotsInit, SlotsTypeOK, CopyIncludesReported

\* The slots never hold more than SPR16_DMG_SLOTS regions of the screen
\* (accumulate_dmg, server.c).
THEOREM SlotsTypeCorrect == SlotsSpec => []SlotsTypeOK
  <1>1. SlotsInit => SlotsTypeOK
    BY SlotsStart
  <1>2. SlotsTypeOK /\ [SlotsNext]_slots_vars => SlotsTypeOK'
    BY SlotsTyped
  <1>. QED  BY <1>1, <1>2, PTL DEF SlotsSpec

SlotsKept == reported \subseteq damaged(used)

LEMMA SlotsKeptStep == SlotsTypeOK /\ SlotsKept /\ [SlotsNext]_slots_vars => SlotsKept'
  <1>. SUFFICES ASSUME SlotsTypeOK, SlotsKept, [SlotsNext]_slots_vars  PROVE SlotsKept'
    OBVIOUS
  <1>1. ASSUME NEW r \in Corners, report(r)  PROVE SlotsKept'
    <2>1. r \in Region
      BY <1>1, DamageAssumption DEF Corners, Region, Box, report
    <2>2. damaged(used) \cup covered(r) \subseteq damaged(accumulate_dmg(used, r))
      BY <2>1, Accumulate DEF SlotsTypeOK
    <2>. QED  BY <1>1, <2>2 DEF SlotsKept, report
  <1>2. CASE copy_out
    BY <1>2 DEF copy_out, SlotsKept
  <1>3. CASE UNCHANGED slots_vars
    BY <1>3 DEF slots_vars, SlotsKept
  <1>. QED  BY <1>1, <1>2, <1>3 DEF SlotsNext

\* Every pixel reported since the slots were emptied is copied when they are
\* copied next, however many regions were merged (server.c:643-662).
THEOREM NothingReportedIsLost == SlotsSpec => []CopyIncludesReported
  <1>1. SlotsInit => SlotsTypeOK /\ SlotsKept
    BY SlotsStart DEF SlotsInit, SlotsKept
  <1>2. SlotsTypeOK /\ SlotsKept /\ [SlotsNext]_slots_vars => SlotsTypeOK' /\ SlotsKept'
    BY SlotsTyped, SlotsKeptStep
  <1>3. SlotsTypeOK /\ SlotsKept => CopyIncludesReported
    BY BlitsDamage DEF SlotsTypeOK, SlotsKept, CopyIncludesReported
  <1>. QED  BY <1>1, <1>2, <1>3, PTL DEF SlotsSpec

\* When the width of the screen is a multiple of PIXL_ALIGN, copy_to_fb
\* refuses none of the regions (fb.c:85-103).
THEOREM AlignedScreensAreCopied == SlotsSpec => []SlotsCanBeEmptied
  <1>1. SlotsTypeOK => SlotsCanBeEmptied
    <2>. SUFFICES ASSUME SlotsTypeOK, Width % Align = 0, NEW i \in DOMAIN used
                  PROVE  copies(used[i])
      BY DEF SlotsCanBeEmptied
    <2>1. used[i] \in Region
      BY LenProperties, ElementOfSeq DEF SlotsTypeOK
    <2>. QED  BY <2>1, WholeGroupsCopy
  <1>. QED  BY <1>1, SlotsTypeCorrect, PTL
=============================================================================
