--------------------------- MODULE WearLevelProofs ---------------------------
(* Theorems about WearLevelSector, for every configuration the assumptions     *)
(* allow: its types; and, when power does not fail between two bytes of the    *)
(* bitmap, that the directory names the slot of the last save and that the     *)
(* storage implements StateRegister.                                           *)
EXTENDS WearLevelSector, NaturalsInduction, WellFoundedInduction, TLAPS

-----------------------------------------------------------------------------
(* The first inductive invariant: whatever was left on the flash, the program  *)
(* works on slots that lie in the data sectors.                                *)

main == directory["main"]
backup == directory["backup"]

\* The numbers of the slots of n words that lie in the data sectors.
SlotIds(n) == {id \in 0 .. LastValidAddress : n * id + n <= LastValidAddress}

IsSlot(s) == \E id \in SlotIds(size) : s = size * id

\* A bit of the bitmap is cleared only for a slot of the size it is kept with.
BitsFit ==
    /\ main.config = Blank => \A b \in 0 .. BitmapBytes - 1 : main.bitmap[b] = 0
    /\ main.config \in Sizes =>
        \A b \in 0 .. BitmapBytes - 1 :
            main.bitmap[b] > 0 => b * BitsPerByte + main.bitmap[b] \in SlotIds(main.config)

\* The backup never gets a main preamble: it is never read.
BackupUntagged ==
    /\ ~backup.tag
    /\ copy = "backup" /\ initDone /\ eraseNeeded
       /\ step \in {"rewrite", "bitmap", "bytes", "tag"} => ~tagRead

Off == step = "off" => buffer = None /\ ~initDone

SetUp ==
    ~initDone /\ step # "off" =>
        /\ step \in {"config", "erase", "rewrite", "tag"}
        /\ buffer = None /\ size = Blank /\ slot = 0 /\ lastStored = 0
        /\ valid /\ eraseNeeded
        /\ copy = "main" /\ step \in {"config", "erase"} => ~Loadable("main")
        /\ copy = "main" /\ step \in {"rewrite", "tag"} => main = ErasedDirectory
        /\ copy = "backup" => main = [ErasedDirectory EXCEPT !.tag = TRUE]

Checking ==
    step = "sizeCheck" =>
        /\ initDone /\ valid /\ buffer = None
        /\ slot = lastStored
        /\ main.tag /\ main.config = size
        /\ size # Blank => IsSlot(slot)

Running ==
    initDone /\ step \notin {"off", "sizeCheck"} =>
        /\ size = deviceSize
        /\ buffer = None <=> step \in {"idle", "error"}
        /\ IsSlot(slot) /\ IsSlot(lastStored)

AtStep ==
    /\ step \in {"idle", "next", "write", "error", "bitmap", "bytes"} => initDone
    /\ step = "write" => pos <= size
    /\ step = "bytes" =>
        low \in 0 .. BitmapBytes - 1 /\ low < (slot \div size) \div BitsPerByte
    /\ step \notin {"next", "write", "error"} => slot = lastStored
    /\ initDone /\ copy = "main" =>
        /\ step = "rewrite" => main = ErasedDirectory
        /\ step \in {"bitmap", "bytes", "tag"} => main.config = size

SlotInv ==
    /\ TypeOK
    /\ BitsFit /\ BackupUntagged
    /\ Off /\ SetUp /\ Checking /\ Running /\ AtStep

-----------------------------------------------------------------------------
(* The second one, for losses of power between steps other than those of the   *)
(* bitmap's bytes: the directory names the slot of the last save.              *)

\* The bitmap that names slot id: so many bits are cleared.
BitmapOf(id) ==
    [b \in 0 .. BitmapBytes - 1 |->
        IF b < id \div BitsPerByte THEN BitsPerByte
        ELSE IF b = id \div BitsPerByte THEN id % BitsPerByte ELSE 0]

\* The bitmap of slot old with that of slot id written over it, as far as the
\* bytes above l.
BitmapBetween(old, id, l) ==
    [b \in 0 .. BitmapBytes - 1 |->
        IF b = id \div BitsPerByte THEN id % BitsPerByte
        ELSE IF b > id \div BitsPerByte THEN 0
        ELSE IF b > l THEN BitsPerByte
        ELSE BitmapOf(old)[b]]

\* The directory names slot s, for the size the device has.
Names(s) ==
    /\ main.tag /\ main.config = size
    /\ \E id \in SlotIds(size) : main.bitmap = BitmapOf(id) /\ s = size * id

\* The main copy names a slot, whenever power may fail.
MainReadable ==
    step # "bytes" \/ copy = "backup" =>
        \E id \in 0 .. LastValidAddress :
            /\ main.bitmap = BitmapOf(id)
            /\ main.config = Blank => id = 0
            /\ main.config \in Sizes => id \in SlotIds(main.config)

\* From one save to the next the directory and the last slot agree; where no
\* state of this size was saved yet, nothing can be read as one.
Stored ==
    /\ step = "sizeCheck" => size = Blank \/ Names(slot)
    /\ step \in {"idle", "next", "write"} =>
        IF valid THEN Names(lastStored)
        ELSE /\ lastStored = 0 /\ main.tag /\ main.config # size
             /\ main.config = Blank => data[0] = Blank

\* The search for a good slot goes up from the last one: in its sector, to the
\* first slot that ends in the next sector, or over the end of the ring, and
\* never comes back to it.
LastSector == EndSector(lastStored)
Searching ==
    step \in {"next", "write"} =>
        \/ /\ ~crossed /\ ~changed
           /\ EndSector(slot) = LastSector
           /\ IF step = "next" THEN slot >= lastStored ELSE slot >= lastStored + size
        \/ /\ crossed /\ ~changed
           /\ slot >= lastStored + size
           /\ slot <= (LastSector + 1) * SectorWords
           /\ (LastSector + 1) * SectorWords < slot + size
        \/ /\ crossed /\ ~changed
           /\ slot = 0 /\ lastStored >= SectorWords
        \/ /\ changed /\ step = "write"
           /\ \/ slot >= lastStored + size
              \/ slot = size /\ lastStored >= SectorWords

\* The main copy while it is rewritten for slot id: over the bitmap of an earlier
\* slot, or over an erased one.
MainRewritten(id) ==
    /\ step = "config" =>
        /\ main.tag
        /\ main.config = size =>
            eraseNeeded \/ \E old \in 0 .. id : main.bitmap = BitmapOf(old)
        /\ main.config = Blank => data[0] = Blank
    /\ step = "erase" => main.tag /\ eraseNeeded
    /\ step = "rewrite" => tagRead /\ eraseNeeded
    /\ step \in {"bitmap", "bytes", "tag"} =>
        IF eraseNeeded THEN tagRead /\ ~main.tag ELSE main.tag
    /\ step = "bitmap" => \E old \in 0 .. id : main.bitmap = BitmapOf(old)
    /\ step = "bytes" =>
        \E old \in 0 .. id :
            /\ old \div BitsPerByte < id \div BitsPerByte
            /\ main.bitmap = BitmapBetween(old, id, low)
    /\ step = "tag" => main.bitmap = BitmapOf(id)

Rewriting ==
    initDone /\ step \in {"config", "erase", "rewrite", "bitmap", "bytes", "tag"} =>
        /\ valid
        /\ SlotHolds(slot, size, buffer)
        /\ IF copy = "main"
           THEN \E id \in SlotIds(size) : slot = size * id /\ MainRewritten(id)
           ELSE Names(slot)

KeepInv == MainReadable /\ Stored /\ Searching /\ Rewriting
-----------------------------------------------------------------------------
(* Arithmetic.                                                                 *)

\* Multiplication by a natural number is monotone.
LEMMA TimesMonotone ==
    ASSUME NEW a \in Nat, NEW b \in Nat, NEW c \in Nat, a <= b
    PROVE  a * c <= b * c
  BY SMT

\* Quotient and remainder.
LEMMA Quotient ==
    ASSUME NEW a \in Nat, NEW b \in Nat \ {0}
    PROVE  /\ a \div b \in Nat /\ a % b \in 0 .. b - 1
           /\ a = (a \div b) * b + (a % b)
  BY SMT

\* The quotient is the only number whose multiples enclose the dividend.
LEMMA QuotientIs ==
    ASSUME NEW a \in Nat, NEW b \in Nat \ {0}, NEW q \in Nat,
           q * b <= a, a < q * b + b
    PROVE  a \div b = q
<1> DEFINE p == a \div b
           r == a % b
<1>1. p \in Nat /\ r \in 0 .. b - 1 /\ a = p * b + r
  BY Quotient
<1> SUFFICES p = q
  OBVIOUS
<1> HIDE DEF p, r
<1>2. ASSUME p < q PROVE FALSE
  <2>1. (p + 1) * b <= q * b
    BY <1>1, <1>2, TimesMonotone
  <2>2. (p + 1) * b = p * b + b
    BY <1>1
  <2> QED
    BY <2>1, <2>2, <1>1
<1>3. ASSUME q < p PROVE FALSE
  <2>1. (q + 1) * b <= p * b
    BY <1>1, <1>3, TimesMonotone
  <2>2. (q + 1) * b = q * b + b
    OBVIOUS
  <2> QED
    BY <2>1, <2>2, <1>1
<1> QED
  BY <1>1, <1>2, <1>3

\* The quotient grows with the dividend.
LEMMA QuotientMonotone ==
    ASSUME NEW a \in Nat, NEW c \in Nat, NEW b \in Nat \ {0}, a <= c
    PROVE  a \div b <= c \div b
<1> DEFINE p == a \div b
           q == c \div b
<1>1. /\ p \in Nat /\ a % b \in 0 .. b - 1 /\ a = p * b + (a % b)
      /\ q \in Nat /\ c % b \in 0 .. b - 1 /\ c = q * b + (c % b)
  BY Quotient
<1> SUFFICES ~(q < p)
  BY <1>1
<1> SUFFICES ASSUME q < p PROVE FALSE
  OBVIOUS
<1> HIDE DEF p, q
<1>2. (q + 1) * b <= p * b
  BY <1>1, TimesMonotone
<1>3. (q + 1) * b = q * b + b
  BY <1>1
<1> QED
  BY <1>1, <1>2, <1>3

\* What the assumptions say of the constants.
LEMMA Constants ==
    /\ SectorWords \in Nat \ {0} /\ DataSectors \in Nat /\ DataSectors >= 3
    /\ BitmapBytes \in Nat \ {0} /\ BitsPerByte \in Nat \ {0}
    /\ LastValidAddress \in Nat /\ LastValidAddress + 1 = SectorWords * DataSectors
    /\ 3 * SectorWords <= LastValidAddress + 1
    /\ Address = 0 .. LastValidAddress
<1>1. PICK n \in Sizes : TRUE
  BY SectorAssumption
<1>2. /\ SectorWords \in Nat \ {0} /\ DataSectors \in Nat /\ DataSectors >= 3
      /\ BitmapBytes \in Nat /\ BitsPerByte \in Nat \ {0} /\ n \in Nat \ {0}
      /\ SectorWords * DataSectors <= n * (BitmapBytes * BitsPerByte)
  BY SectorAssumption
<1>3. 3 * SectorWords <= DataSectors * SectorWords
  BY <1>2, TimesMonotone
<1>4. SectorWords * DataSectors = DataSectors * SectorWords /\ SectorWords * DataSectors \in Nat
  BY <1>2
<1>5. BitmapBytes # 0
  <2> SUFFICES ASSUME BitmapBytes = 0 PROVE FALSE
    OBVIOUS
  <2>1. n * (BitmapBytes * BitsPerByte) = 0
    BY <1>2
  <2> QED
    BY <2>1, <1>2, <1>3, <1>4
<1> QED
  BY <1>2, <1>3, <1>4, <1>5 DEF LastValidAddress, Address

\* What they say of a size.
LEMMA SizeFacts ==
    ASSUME NEW n \in Sizes
    PROVE  /\ n \in Nat \ {0} /\ 2 * n <= SectorWords
           /\ n # Blank /\ n # Dirty
           /\ LastValidAddress + 1 <= n * (BitmapBytes * BitsPerByte)
  BY SectorAssumption, Constants

\* The values that stand for the content of a word, and for what is kept.
LEMMA ValueFacts ==
    /\ None # Blank /\ None # Dirty /\ Blank # Dirty
    /\ \A v \in States : v # None /\ v # Blank /\ v # Dirty
  BY SectorAssumption

\* The words of a slot.
LEMMA SlotFacts ==
    ASSUME NEW n \in Sizes, NEW id \in SlotIds(n)
    PROVE  /\ id \in Nat /\ n * id \in Nat /\ n * id + n <= LastValidAddress
           /\ n * id \in Address
           /\ \A i \in 0 .. n - 1 : n * id + i \in Address
           /\ (n * id) \div n = id
<1>1. n \in Nat \ {0} /\ id \in Nat /\ n * id + n <= LastValidAddress
  BY SizeFacts, Constants DEF SlotIds
<1>2. n * id \in Nat /\ n * id = id * n
  BY <1>1
<1>3. (n * id) \div n = id
  BY <1>1, <1>2, QuotientIs
<1> HIDE DEF LastValidAddress
<1> DEFINE s == n * id
<1>4. s \in Nat /\ s + n <= LastValidAddress /\ LastValidAddress \in Nat
  BY <1>1, <1>2, Constants
<1> HIDE DEF s
<1>5. s \in 0 .. LastValidAddress /\ \A i \in 0 .. n - 1 : s + i \in 0 .. LastValidAddress
  BY <1>4, <1>1
<1> QED
  BY <1>1, <1>2, <1>3, <1>5, Constants DEF s

\* A multiple of the size that fits is a slot.
LEMMA MultipleIsSlot ==
    ASSUME NEW n \in Sizes, NEW id \in Nat, n * id + n <= LastValidAddress
    PROVE  id \in SlotIds(n)
<1>1. n \in Nat \ {0} /\ LastValidAddress \in Nat
  BY SizeFacts, Constants
<1>2. 1 * id <= n * id
  BY <1>1, TimesMonotone
<1>3. n * id \in Nat
  BY <1>1
<1> HIDE DEF LastValidAddress
<1>4. id <= LastValidAddress
  BY <1>1, <1>2, <1>3
<1> QED
  BY <1>1, <1>4 DEF SlotIds

\* The first slot.
LEMMA FirstSlot ==
    ASSUME NEW n \in Sizes
    PROVE  0 \in SlotIds(n) /\ n * 0 = 0
<1>1. n \in Nat \ {0} /\ 2 * n <= SectorWords /\ SectorWords \in Nat \ {0}
      /\ LastValidAddress \in Nat /\ 3 * SectorWords <= LastValidAddress + 1
  BY SizeFacts, Constants
<1> HIDE DEF LastValidAddress
<1>2. n * 0 = 0
  BY <1>1
<1>3. n <= LastValidAddress
  BY <1>1
<1> QED
  BY <1>1, <1>2, <1>3, MultipleIsSlot

\* The slot after a slot is a slot.
LEMMA NextIsSlot ==
    ASSUME size \in Sizes, NEW s, IsSlot(s)
    PROVE  /\ IsSlot(NextSlot(s))
           /\ NextSlot(s) \in Nat
           /\ \/ NextSlot(s) = s + size
              \/ NextSlot(s) = 0 /\ s + size + size > LastValidAddress
<1>1. size \in Nat \ {0} /\ LastValidAddress \in Nat
  BY SizeFacts, Constants
<1>2. PICK id \in SlotIds(size) : s = size * id
  BY DEF IsSlot
<1>3. id \in Nat /\ s \in Nat
  BY <1>2, SlotFacts
<1> HIDE DEF LastValidAddress
<1>4. CASE s + size + size > LastValidAddress
  <2>1. NextSlot(s) = 0
    BY <1>4 DEF NextSlot
  <2> QED
    BY <2>1, <1>4, FirstSlot DEF IsSlot
<1>5. CASE ~(s + size + size > LastValidAddress)
  <2>1. NextSlot(s) = s + size
    BY <1>5 DEF NextSlot
  <2>2. size * (id + 1) = s + size
    BY <1>1, <1>2, <1>3
  <2>3. s + size + size <= LastValidAddress
    BY <1>1, <1>3, <1>5
  <2>4. id + 1 \in SlotIds(size)
    BY <1>3, <2>2, <2>3, MultipleIsSlot
  <2> QED
    BY <2>1, <2>2, <2>4, <1>1, <1>3 DEF IsSlot
<1> QED
  BY <1>4, <1>5

\* The bitmap has a bit for each slot.
LEMMA IdBits ==
    ASSUME NEW n \in Sizes, NEW id \in SlotIds(n)
    PROVE  /\ id \in Nat
           /\ id \div BitsPerByte \in 0 .. BitmapBytes - 1
           /\ id % BitsPerByte \in 0 .. BitsPerByte - 1
           /\ id = (id \div BitsPerByte) * BitsPerByte + (id % BitsPerByte)
<1> DEFINE q == id \div BitsPerByte
           r == id % BitsPerByte
<1>1. id \in Nat /\ n * id \in Nat /\ n * id + n <= LastValidAddress
  BY SlotFacts
<1>2. n \in Nat \ {0} /\ LastValidAddress \in Nat /\ BitmapBytes \in Nat \ {0}
      /\ BitsPerByte \in Nat \ {0}
      /\ LastValidAddress + 1 <= n * (BitmapBytes * BitsPerByte)
  BY SizeFacts, Constants
<1>3. q \in Nat /\ r \in 0 .. BitsPerByte - 1 /\ id = q * BitsPerByte + r
  BY <1>1, <1>2, Quotient
<1> HIDE DEF q, r, LastValidAddress
<1>4. ASSUME q >= BitmapBytes PROVE FALSE
  <2>1. BitmapBytes * BitsPerByte <= q * BitsPerByte
    BY <1>2, <1>3, <1>4, TimesMonotone
  <2>2. BitmapBytes * BitsPerByte \in Nat /\ q * BitsPerByte \in Nat
    BY <1>2, <1>3
  <2>3. BitmapBytes * BitsPerByte <= id
    BY <2>1, <2>2, <1>3
  <2>4. (BitmapBytes * BitsPerByte) * n <= id * n
    BY <2>2, <2>3, <1>1, <1>2, TimesMonotone
  <2>5. id * n = n * id /\ (BitmapBytes * BitsPerByte) * n = n * (BitmapBytes * BitsPerByte)
    BY <2>2, <1>1, <1>2
  <2> QED
    BY <2>2, <2>4, <2>5, <1>1, <1>2
<1>5. q \in 0 .. BitmapBytes - 1
  BY <1>2, <1>3, <1>4
<1> QED
  BY <1>1, <1>3, <1>5 DEF q, r
-----------------------------------------------------------------------------
(* The bitmap.                                                                 *)

Bitmap == [0 .. BitmapBytes - 1 -> Byte]

\* The scan of the bitmap stops at its first byte that is not all zero.
LEMMA ScanStops ==
    ASSUME NEW c \in Copies, directory[c].bitmap \in Bitmap,
           NEW m \in 0 .. BitmapBytes - 1, directory[c].bitmap[m] < BitsPerByte,
           \A e \in 0 .. m - 1 : directory[c].bitmap[e] = BitsPerByte
    PROVE  MappedSlot(c) = directory[c].config * (m * BitsPerByte + directory[c].bitmap[m])
<1> DEFINE bitmap == directory[c].bitmap
           Stops(b) == /\ bitmap[b] < BitsPerByte \/ b = BitmapBytes - 1
                       /\ \A e \in 0 .. b - 1 : bitmap[e] = BitsPerByte
<1>1. BitmapBytes \in Nat \ {0} /\ BitsPerByte \in Nat \ {0}
  BY Constants
<1>2. DOMAIN bitmap = 0 .. BitmapBytes - 1
  BY DEF Bitmap
<1>3. Stops(m)
  OBVIOUS
<1>4. ASSUME NEW b \in 0 .. BitmapBytes - 1, Stops(b) PROVE b = m
  <2>1. ASSUME b < m PROVE FALSE
    <3>1. b \in 0 .. m - 1 /\ b # BitmapBytes - 1
      BY <2>1, <1>1
    <3>2. bitmap[b] = BitsPerByte
      BY <3>1
    <3> QED
      BY <3>1, <3>2, <1>4, <1>1
  <2>2. ASSUME m < b PROVE FALSE
    <3>1. m \in 0 .. b - 1
      BY <2>2, <1>1
    <3>2. bitmap[m] = BitsPerByte
      BY <3>1, <1>4
    <3> QED
      BY <3>2, <1>1
  <2> QED
    BY <2>1, <2>2, <1>1
<1> DEFINE first == CHOOSE b \in DOMAIN bitmap : Stops(b)
<1> HIDE DEF Stops
<1>5. first = m
  BY <1>2, <1>3, <1>4
<1>6. MappedSlot(c) = directory[c].config * (first * BitsPerByte + bitmap[first])
  BY DEF MappedSlot, Stops
<1> QED
  BY <1>5, <1>6

\* Some byte stops it: there is a first one that is not all zero, or the last.
LEMMA ScanEnds ==
    ASSUME NEW bitmap \in Bitmap
    PROVE  \E m \in 0 .. BitmapBytes - 1 :
              /\ bitmap[m] < BitsPerByte \/ m = BitmapBytes - 1
              /\ \A e \in 0 .. m - 1 : bitmap[e] = BitsPerByte
<1> DEFINE Open == {b \in 0 .. BitmapBytes - 1 : bitmap[b] < BitsPerByte}
<1>1. BitmapBytes \in Nat \ {0} /\ BitsPerByte \in Nat \ {0}
  BY Constants
<1>2. \A b \in 0 .. BitmapBytes - 1 : bitmap[b] \in 0 .. BitsPerByte
  BY DEF Bitmap, Byte
<1>3. CASE Open = {}
  <2>1. \A b \in 0 .. BitmapBytes - 1 : bitmap[b] = BitsPerByte
    BY <1>1, <1>2, <1>3
  <2>2. /\ BitmapBytes - 1 \in 0 .. BitmapBytes - 1
        /\ \A e \in 0 .. (BitmapBytes - 1) - 1 : e \in 0 .. BitmapBytes - 1
    BY <1>1
  <2> QED
    BY <2>1, <2>2
<1>4. CASE Open # {}
  <2>1. Open \subseteq Nat
    BY <1>1
  <2> HIDE DEF Open
  <2>6. \E x \in Open : \A y \in Open : ~(<<y, x>> \in OpToRel(<, Nat))
    BY <1>4, <2>1, NatLessThanWellFounded, WFMin
  <2>2. PICK m \in Open : \A e \in Open : ~(<<e, m>> \in OpToRel(<, Nat))
    BY <2>6
  <2>3. ASSUME NEW e \in Open PROVE ~(e < m)
    <3>1. e \in Nat /\ m \in Nat
      BY <2>1, <2>2
    <3> QED
      BY <2>2, <3>1, Zenon DEF OpToRel
  <2>7. m \in 0 .. BitmapBytes - 1 /\ bitmap[m] < BitsPerByte
    BY Zenon, <2>2 DEF Open
  <2>4. \A e \in 0 .. m - 1 : e \in 0 .. BitmapBytes - 1 /\ e < m
    BY <1>1, <2>7
  <2>5. \A e \in 0 .. m - 1 : bitmap[e] = BitsPerByte
    BY <1>1, <1>2, <2>3, <2>4 DEF Open
  <2> QED
    BY <2>5, <2>7, Zenon
<1> QED
  BY <1>3, <1>4

\* A copy that can be loaded maps to a slot.
LEMMA MappedIsSlot ==
    ASSUME directory \in [Copies -> Directory], BitsFit, main.config \in Sizes
    PROVE  \E id \in SlotIds(main.config) : MappedSlot("main") = main.config * id
<1> DEFINE bitmap == main.bitmap
           byte == CHOOSE b \in DOMAIN bitmap :
                      /\ bitmap[b] < BitsPerByte \/ b = BitmapBytes - 1
                      /\ \A e \in 0 .. b - 1 : bitmap[e] = BitsPerByte
<1>1. BitmapBytes \in Nat \ {0} /\ BitsPerByte \in Nat \ {0}
  BY Constants
<1>2. bitmap \in Bitmap /\ DOMAIN bitmap = 0 .. BitmapBytes - 1
  BY DEF Bitmap, Directory, main, Copies
<1>3. /\ byte \in 0 .. BitmapBytes - 1
      /\ \A e \in 0 .. byte - 1 : bitmap[e] = BitsPerByte
  BY <1>2, ScanEnds
<1>4. MappedSlot("main") = main.config * (byte * BitsPerByte + bitmap[byte])
  BY DEF MappedSlot, main
<1>5. \A b \in 0 .. BitmapBytes - 1 :
          /\ bitmap[b] \in 0 .. BitsPerByte
          /\ bitmap[b] > 0 => b * BitsPerByte + bitmap[b] \in SlotIds(main.config)
  BY <1>2 DEF BitsFit, Bitmap, Byte
<1> HIDE DEF byte, bitmap
<1>6. CASE bitmap[byte] > 0
  BY <1>3, <1>4, <1>5, <1>6
<1>7. CASE bitmap[byte] = 0 /\ byte > 0
  <2>1. byte - 1 \in 0 .. byte - 1 /\ byte - 1 \in 0 .. BitmapBytes - 1
    BY <1>1, <1>3, <1>7
  <2>2. bitmap[byte - 1] = BitsPerByte
    BY <2>1, <1>3
  <2>3. (byte - 1) * BitsPerByte + bitmap[byte - 1] \in SlotIds(main.config)
    BY <2>1, <2>2, <1>5, <1>1
  <2>4. (byte - 1) * BitsPerByte + bitmap[byte - 1] = byte * BitsPerByte + bitmap[byte]
    BY <2>2, <1>1, <1>3, <1>7
  <2> QED
    BY <2>3, <2>4, <1>4
<1>8. CASE bitmap[byte] = 0 /\ byte = 0
  <2>1. byte * BitsPerByte + bitmap[byte] = 0
    BY <1>1, <1>8
  <2> QED
    BY <2>1, <1>4, FirstSlot
<1> QED
  BY <1>3, <1>5, <1>6, <1>7, <1>8

\* The bitmap of a slot maps to it.
LEMMA BitmapMaps ==
    ASSUME directory \in [Copies -> Directory], main.config \in Sizes,
           NEW id \in SlotIds(main.config), main.bitmap = BitmapOf(id)
    PROVE  MappedSlot("main") = main.config * id
<1> DEFINE m == id \div BitsPerByte
           r == id % BitsPerByte
<1>1. BitmapBytes \in Nat \ {0} /\ BitsPerByte \in Nat \ {0}
  BY Constants
<1>2. /\ m \in 0 .. BitmapBytes - 1 /\ r \in 0 .. BitsPerByte - 1
      /\ id = m * BitsPerByte + r
  BY IdBits
<1>3. main.bitmap = [b \in 0 .. BitmapBytes - 1 |->
                        IF b < m THEN BitsPerByte ELSE IF b = m THEN r ELSE 0]
  BY Zenon DEF BitmapOf
<1> HIDE DEF m, r
<1>4. main.bitmap \in Bitmap
  BY DEF Bitmap, Directory, main, Copies
<1>5. main.bitmap[m] = r
  BY <1>2, <1>3, <1>1
<1>6. \A e \in 0 .. m - 1 : main.bitmap[e] = BitsPerByte
  <2> TAKE e \in 0 .. m - 1
  <2>1. e \in 0 .. BitmapBytes - 1 /\ e < m
    BY <1>1, <1>2
  <2> QED
    BY <2>1, <1>3
<1>7. "main" \in Copies /\ r < BitsPerByte
  BY <1>1, <1>2 DEF Copies
<1>8. MappedSlot("main") = main.config * (m * BitsPerByte + main.bitmap[m])
  BY <1>2, <1>4, <1>5, <1>6, <1>7, ScanStops DEF main
<1> QED
  BY <1>2, <1>5, <1>8
-----------------------------------------------------------------------------
(* The flash keeps its types.                                                  *)

\* A programmed word holds what was there, what was written, or neither.
LEMMA ProgramType ==
    ASSUME NEW S, NEW old \in S \cup {Blank, Dirty}, NEW new \in S \cup {Blank, Dirty}
    PROVE  Program(old, new) \in S \cup {Blank, Dirty}
  BY DEF Program

\* Erasing blanks the words of a sector and keeps the others.
LEMMA EraseType ==
    ASSUME data \in [Address -> States \cup {Blank, Dirty}], NEW n
    PROVE  EraseSector(data, n) \in [Address -> States \cup {Blank, Dirty}]
  BY DEF EraseSector

\* Clearing bits of a byte leaves a bitmap in which only that byte has changed.
LEMMA ClearType ==
    ASSUME NEW bitmap \in Bitmap, NEW byte \in Int, NEW zeros \in Byte
    PROVE  /\ ClearBits(bitmap, byte, zeros) \in Bitmap
           /\ \A b \in 0 .. BitmapBytes - 1 :
                ClearBits(bitmap, byte, zeros)[b] =
                    IF b = byte /\ zeros > bitmap[b] THEN zeros ELSE bitmap[b]
<1> DEFINE new == IF zeros > bitmap[byte] THEN zeros ELSE bitmap[byte]
<1>1. ClearBits(bitmap, byte, zeros) = [bitmap EXCEPT ![byte] = new]
  BY DEF ClearBits
<1>2. byte \in 0 .. BitmapBytes - 1 => new \in Byte
  BY DEF Bitmap
<1> HIDE DEF new
<1>3. [bitmap EXCEPT ![byte] = new] \in Bitmap
  BY <1>2 DEF Bitmap
<1>4. \A b \in 0 .. BitmapBytes - 1 :
          [bitmap EXCEPT ![byte] = new][b] = IF b = byte THEN new ELSE bitmap[b]
  BY DEF Bitmap
<1> QED
  BY <1>1, <1>3, <1>4 DEF new

\* The content of a slot is a state or none.
LEMMA ContentType ==
    ASSUME NEW s, NEW n
    PROVE  SlotContent(s, n) \in States \cup {Dirty}
  BY DEF SlotContent

\* An erased directory.
LEMMA ErasedFacts ==
    /\ ErasedDirectory \in Directory /\ ~ErasedDirectory.tag
    /\ ErasedDirectory.config = Blank
    /\ \A b \in 0 .. BitmapBytes - 1 : ErasedDirectory.bitmap[b] = 0
  BY Constants DEF ErasedDirectory, Directory, Byte

\* Both copies are directories.
LEMMA CopyTypes ==
    ASSUME directory \in [Copies -> Directory]
    PROVE  /\ main \in Directory /\ backup \in Directory
           /\ main.bitmap \in Bitmap /\ backup.bitmap \in Bitmap
           /\ \A c \in Copies : directory[c].bitmap \in Bitmap
  BY DEF main, backup, Copies, Directory, Bitmap

-----------------------------------------------------------------------------
(* The first invariant holds of the initial states and of every step.          *)

\* The flash of a new device is erased.
LEMMA InitSlot == ASSUME Init PROVE SlotInv
<1>1. 0 \in Address /\ 0 \in 0 .. MaxFaults /\ 0 \in -1 .. BitmapBytes
  BY Constants, SectorAssumption
<1>2. directory \in [Copies -> Directory] /\ main = ErasedDirectory /\ backup = ErasedDirectory
  BY ErasedFacts DEF Init, main, backup, Copies
<1>3. TypeOK
  BY <1>1, <1>2 DEF Init, TypeOK, Copies
<1>4. BitsFit /\ BackupUntagged
  <2>1. Blank \notin Sizes
    BY SizeFacts
  <2> QED
    BY <1>2, <2>1, ErasedFacts DEF BitsFit, BackupUntagged, Init
<1>5. Off /\ SetUp /\ Checking /\ Running /\ AtStep
  BY DEF Init, Off, SetUp, Checking, Running, AtStep
<1> QED
  BY <1>3, <1>4, <1>5 DEF SlotInv

\* The bits fit as long as the directory does not change.
LEMMA FitStays ==
    ASSUME BitsFit, UNCHANGED directory
    PROVE  BitsFit' /\ main' = main /\ backup' = backup
  BY DEF BitsFit, main, backup

\* Boot from a directory that was kept.
LEMMA BootSlot == ASSUME SlotInv, Boot PROVE SlotInv'
<1> USE DEF SlotInv
<1>1. Loadable("main") /\ Source = "main"
  BY DEF Boot, Source, Loadable, BackupUntagged, backup
<1>2. main.tag /\ main.config \in Sizes
  BY <1>1 DEF Loadable, main
<1>3. /\ size' = main.config /\ slot' = MappedSlot("main") /\ lastStored' = slot'
      /\ initDone' /\ valid' /\ step' = "sizeCheck"
      /\ UNCHANGED <<flash, buffer, search, rewrite, loaded, device>>
  BY <1>1 DEF Boot, main
<1>4. PICK id \in SlotIds(main.config) : slot' = main.config * id
  BY <1>2, <1>3, MappedIsSlot DEF TypeOK
<1>5. slot' \in Address
  BY <1>2, <1>4, SlotFacts
<1>6. TypeOK'
  BY <1>2, <1>3, <1>5 DEF TypeOK, flash, search, rewrite, device
<1>7. BitsFit' /\ main' = main /\ backup' = backup
  BY <1>3, FitStays DEF flash
<1>8. BackupUntagged' /\ Off' /\ SetUp' /\ Running' /\ AtStep'
  BY <1>3, <1>7 DEF BackupUntagged, Off, SetUp, Running, AtStep, Boot, rewrite
<1>9. Checking'
  BY <1>2, <1>3, <1>4, <1>7 DEF Checking, Off, Boot, IsSlot, SlotIds
<1> QED
  BY <1>6, <1>7, <1>8, <1>9

\* Boot of a new device.
LEMMA FirstBootSlot == ASSUME SlotInv, FirstBoot PROVE SlotInv'
<1> USE DEF SlotInv
<1>1. 0 \in Address
  BY Constants
<1>2. TypeOK'
  BY <1>1 DEF FirstBoot, TypeOK, flash, search, device, Copies
<1>3. BitsFit' /\ main' = main /\ backup' = backup
  BY FitStays DEF FirstBoot, flash
<1>4. BackupUntagged' /\ Off' /\ Checking' /\ Running' /\ AtStep'
  BY <1>3 DEF FirstBoot, BackupUntagged, Off, Checking, Running, AtStep
<1>5. SetUp'
  BY <1>3 DEF FirstBoot, SetUp, Off, Loadable, main, flash
<1> QED
  BY <1>2, <1>3, <1>4, <1>5

\* The elements are given their state.
LEMMA LoadStateSlot == ASSUME SlotInv, LoadState PROVE SlotInv'
<1> USE DEF SlotInv
<1>1. size \in Sizes /\ size # Blank
  BY SizeFacts DEF LoadState, TypeOK
<1>2. TypeOK'
  BY ContentType DEF LoadState, TypeOK, flash, position, search, rewrite, device
<1>3. BitsFit' /\ main' = main /\ backup' = backup
  BY FitStays DEF LoadState, flash
<1>4. BackupUntagged' /\ Off' /\ SetUp' /\ Checking' /\ AtStep'
  BY <1>3 DEF LoadState, BackupUntagged, Off, SetUp, Checking, AtStep, position, rewrite
<1>5. Running'
  BY <1>1 DEF LoadState, Running, Checking, IsSlot, position, device
<1> QED
  BY <1>2, <1>3, <1>4, <1>5

\* The elements start from their defaults.
LEMMA DropStateSlot == ASSUME SlotInv, DropState PROVE SlotInv'
<1> USE DEF SlotInv
<1>1. 0 \in Address
  BY Constants
<1>2. TypeOK'
  BY <1>1, EraseType DEF DropState, TypeOK, search, rewrite, device
<1>3. BitsFit' /\ main' = main /\ backup' = backup
  BY FitStays DEF DropState
<1>4. BackupUntagged' /\ Off' /\ SetUp' /\ Checking' /\ AtStep'
  BY <1>3 DEF DropState, BackupUntagged, Off, SetUp, Checking, AtStep, rewrite
<1>5. 0 \in SlotIds(deviceSize) /\ deviceSize * 0 = 0
  BY FirstSlot DEF TypeOK
<1>6. Running'
  BY <1>5 DEF DropState, Running, Checking, IsSlot, SlotIds, device
<1> QED
  BY <1>2, <1>3, <1>4, <1>6
\* Where the program writes a slot its size is the device's.
LEMMA RunningFacts ==
    ASSUME SlotInv, initDone, step \notin {"off", "sizeCheck"}
    PROVE  /\ size \in Sizes /\ size \in Nat \ {0} /\ size # Blank /\ size = deviceSize
           /\ IsSlot(slot) /\ IsSlot(lastStored)
           /\ slot \in Nat /\ lastStored \in Nat
           /\ slot + size <= LastValidAddress /\ lastStored + size <= LastValidAddress
           /\ buffer = None <=> step \in {"idle", "error"}
<1>1. /\ size = deviceSize /\ deviceSize \in Sizes /\ IsSlot(slot) /\ IsSlot(lastStored)
      /\ buffer = None <=> step \in {"idle", "error"}
  BY DEF SlotInv, TypeOK, Running
<1>2. size \in Sizes /\ size \in Nat \ {0} /\ size # Blank
  BY <1>1, SizeFacts
<1> QED
  BY <1>1, <1>2, SlotFacts DEF IsSlot

\* A save begins.
LEMMA SaveStateSlot == ASSUME SlotInv, NEW v \in States, SaveState(v) PROVE SlotInv'
<1>1. initDone
  BY DEF SaveState, SlotInv, AtStep
<1>2. v # None
  BY ValueFacts
<1> USE DEF SlotInv
<1>3. TypeOK'
  BY DEF SaveState, TypeOK, flash, position, rewrite, device
<1>4. BitsFit' /\ main' = main /\ backup' = backup
  BY FitStays DEF SaveState, flash
<1>5. BackupUntagged' /\ Off' /\ SetUp' /\ Checking' /\ AtStep'
  BY <1>1, <1>4 DEF SaveState, BackupUntagged, Off, SetUp, Checking, AtStep, position, rewrite
<1>6. Running'
  BY <1>1, <1>2 DEF SaveState, Running, IsSlot, position, device
<1> QED
  BY <1>3, <1>4, <1>5, <1>6

\* The next slot is taken.
LEMMA TakeNextSlotSlot == ASSUME SlotInv, TakeNextSlot PROVE SlotInv'
<1>1. initDone /\ size \in Sizes /\ size \in Nat \ {0} /\ size # Blank /\ IsSlot(slot)
      /\ buffer # None
  BY RunningFacts DEF TakeNextSlot, SlotInv, AtStep
<1> USE DEF SlotInv
<1>2. /\ slot' = NextSlot(slot) /\ pos' = 0 /\ step' = "write"
      /\ data' = data \/ data' = EraseSector(data, EndSector(slot'))
      /\ {crossed', changed'} \subseteq BOOLEAN
      /\ UNCHANGED <<directory, initDone, size, lastStored, valid, buffer, rewrite,
                     loaded, device>>
  BY DEF TakeNextSlot, TypeOK
<1>3. IsSlot(slot')
  BY <1>1, <1>2, NextIsSlot
<1>4. slot' \in Address
  BY <1>1, <1>3, SlotFacts DEF IsSlot
<1>5. TypeOK'
  BY <1>2, <1>4, EraseType DEF TypeOK, rewrite, device
<1>6. BitsFit' /\ main' = main /\ backup' = backup
  BY <1>2, FitStays
<1>7. BackupUntagged' /\ Off' /\ SetUp' /\ Checking' /\ AtStep'
  BY <1>1, <1>2, <1>6 DEF BackupUntagged, Off, SetUp, Checking, AtStep, rewrite
<1>8. Running'
  <2>1. IsSlot(slot)' /\ IsSlot(lastStored)'
    BY <1>1, <1>2, <1>3 DEF Running, IsSlot, SlotIds, TakeNextSlot
  <2> QED
    BY <1>1, <1>2, <2>1 DEF Running, device, TakeNextSlot
<1> QED
  BY <1>5, <1>6, <1>7, <1>8

\* A word of the slot is written.
LEMMA WriteWordSlot == ASSUME SlotInv, WriteWord PROVE SlotInv'
<1>1. initDone /\ size \in Sizes /\ size \in Nat \ {0} /\ size # Blank /\ buffer # None
  BY RunningFacts DEF WriteWord, SlotInv, AtStep
<1> USE DEF SlotInv
<1>2. /\ step = "write" /\ pos < size /\ pos' = pos + 1
      /\ \/ data' = [data EXCEPT ![slot + pos] = Program(@, buffer)] /\ faults' = faults
         \/ data' = [data EXCEPT ![slot + pos] = Dirty] /\ faults' \in 0 .. MaxFaults
      /\ UNCHANGED <<directory, step, position, buffer, crossed, changed, rewrite,
                     loaded, deviceSize>>
  BY SectorAssumption DEF WriteWord, TypeOK
<1>3. data' \in [Address -> States \cup {Blank, Dirty}]
  <2>1. \A a \in Address : Program(data[a], buffer) \in States \cup {Blank, Dirty}
    BY <1>1, ProgramType DEF TypeOK
  <2> QED
    BY <1>2, <2>1 DEF TypeOK
<1>4. TypeOK'
  BY <1>2, <1>3 DEF TypeOK, position, rewrite
<1>5. BitsFit' /\ main' = main /\ backup' = backup
  BY <1>2, FitStays
<1>6. BackupUntagged' /\ Off' /\ SetUp' /\ Checking'
  BY <1>1, <1>2, <1>5 DEF BackupUntagged, Off, SetUp, Checking, position, rewrite
<1>7. AtStep'
  BY <1>1, <1>2, <1>5 DEF AtStep, TypeOK, position, rewrite
<1>8. Running'
  BY <1>1, <1>2 DEF Running, IsSlot, SlotIds, position
<1> QED
  BY <1>4, <1>5, <1>6, <1>7, <1>8

\* The slot holds the state, and the directory is to be written.
LEMMA VerifiedSlot == ASSUME SlotInv, Verified PROVE SlotInv'
<1>1. initDone /\ size # Blank /\ buffer # None /\ slot \in Nat /\ lastStored \in Nat
  BY RunningFacts DEF Verified, SlotInv, AtStep
<1> USE DEF SlotInv
<1>2. TypeOK'
  BY <1>1 DEF Verified, TypeOK, flash, search, device, Copies
<1>3. BitsFit' /\ main' = main /\ backup' = backup
  BY FitStays DEF Verified, flash
<1>4. BackupUntagged' /\ Off' /\ SetUp' /\ Checking' /\ AtStep'
  BY <1>1, <1>3 DEF Verified, BackupUntagged, Off, SetUp, Checking, AtStep
<1>5. Running'
  BY <1>1 DEF Verified, Running, IsSlot, SlotIds, device
<1> QED
  BY <1>2, <1>3, <1>4, <1>5

\* Another slot is to be tried.
LEMMA TryAgainSlot == ASSUME SlotInv, TryAgain PROVE SlotInv'
<1>1. initDone /\ size # Blank /\ buffer # None
  BY RunningFacts DEF TryAgain, SlotInv, AtStep
<1> USE DEF SlotInv
<1>2. TypeOK'
  BY DEF TryAgain, TypeOK, flash, position, search, rewrite, device
<1>3. BitsFit' /\ main' = main /\ backup' = backup
  BY FitStays DEF TryAgain, flash
<1>4. BackupUntagged' /\ Off' /\ SetUp' /\ Checking' /\ AtStep'
  BY <1>1, <1>3 DEF TryAgain, BackupUntagged, Off, SetUp, Checking, AtStep, position, rewrite
<1>5. Running'
  BY <1>1 DEF TryAgain, Running, IsSlot, position, device
<1> QED
  BY <1>2, <1>3, <1>4, <1>5

\* The storage gives up.
LEMMA WriteFailedSlot == ASSUME SlotInv, WriteFailed PROVE SlotInv'
<1>1. initDone /\ size # Blank
  BY RunningFacts DEF WriteFailed, SlotInv, AtStep
<1> USE DEF SlotInv
<1>2. TypeOK'
  BY DEF WriteFailed, TypeOK, flash, position, search, rewrite, device
<1>3. BitsFit' /\ main' = main /\ backup' = backup
  BY FitStays DEF WriteFailed, flash
<1>4. BackupUntagged' /\ Off' /\ SetUp' /\ Checking' /\ AtStep'
  BY <1>1, <1>3 DEF WriteFailed, BackupUntagged, Off, SetUp, Checking, AtStep, position, rewrite
<1>5. Running'
  BY <1>1 DEF WriteFailed, Running, IsSlot, position, device
<1> QED
  BY <1>2, <1>3, <1>4, <1>5
\* One copy of the directory changes.
LEMMA CopyChanges ==
    ASSUME directory \in [Copies -> Directory], NEW c \in Copies, NEW d \in Directory,
           directory' = [directory EXCEPT ![c] = d]
    PROVE  /\ directory' \in [Copies -> Directory]
           /\ main' = IF c = "main" THEN d ELSE main
           /\ backup' = IF c = "backup" THEN d ELSE backup
  BY DEF Copies, main, backup

\* A directory with another field.
LEMMA FieldChanges ==
    ASSUME NEW d \in Directory
    PROVE  /\ \A v \in Sizes \cup {Blank, Dirty} :
                LET e == [d EXCEPT !.config = v]
                IN e \in Directory /\ e.tag = d.tag /\ e.config = v /\ e.bitmap = d.bitmap
           /\ \A v \in Bitmap :
                LET e == [d EXCEPT !.bitmap = v]
                IN e \in Directory /\ e.tag = d.tag /\ e.config = d.config /\ e.bitmap = v
           /\ \A v \in BOOLEAN :
                LET e == [d EXCEPT !.tag = v]
                IN e \in Directory /\ e.tag = v /\ e.config = d.config /\ e.bitmap = d.bitmap
  BY DEF Directory, Bitmap

\* What WriteConfig and RewriteConfig leave of a copy.
LEMMA ConfigWritten ==
    ASSUME SlotInv, NEW config \in Sizes \cup {Blank},
           directory' = [directory EXCEPT ![copy].config = Program(@, config)]
    PROVE  LET d == directory[copy]
               e == directory'[copy]
           IN /\ directory' \in [Copies -> Directory]
              /\ e.tag = d.tag /\ e.bitmap = d.bitmap
              /\ e.config = Program(d.config, config)
              /\ main' = IF copy = "main" THEN e ELSE main
              /\ backup' = IF copy = "backup" THEN e ELSE backup
<1> DEFINE d == directory[copy]
           v == Program(d.config, config)
           new == [d EXCEPT !.config = v]
<1>1. copy \in Copies /\ directory \in [Copies -> Directory] /\ d \in Directory
  BY DEF SlotInv, TypeOK
<1>2. d.config \in Sizes \cup {Blank, Dirty}
  BY <1>1 DEF Directory
<1>3. v \in Sizes \cup {Blank, Dirty}
  BY <1>2, ProgramType
<1>4. new \in Directory /\ new.tag = d.tag /\ new.config = v /\ new.bitmap = d.bitmap
  BY <1>1, <1>3, FieldChanges
<1>5. directory' = [directory EXCEPT ![copy] = new]
  BY <1>1
<1> HIDE DEF v, new
<1>6. directory'[copy] = new
  BY <1>1, <1>5
<1>7. /\ directory' \in [Copies -> Directory]
      /\ main' = IF copy = "main" THEN new ELSE main
      /\ backup' = IF copy = "backup" THEN new ELSE backup
  BY <1>1, <1>4, <1>5, CopyChanges
<1> QED
  BY <1>4, <1>6, <1>7 DEF v

\* The configuration of a copy is written.
LEMMA WriteConfigSlot == ASSUME SlotInv, WriteConfig PROVE SlotInv'
<1> DEFINE config == IF initDone THEN size ELSE Blank
           d == directory[copy]
           e == directory'[copy]
<1>1. /\ step = "config"
      /\ directory' = [directory EXCEPT ![copy].config = Program(@, config)]
      /\ eraseNeeded' = (eraseNeeded \/ e.config # config)
      /\ step' = IF eraseNeeded' THEN "erase" ELSE IF initDone THEN "bitmap" ELSE "tag"
      /\ UNCHANGED <<data, position, buffer, search, copy, tagRead, low, loaded, device>>
  BY Zenon DEF WriteConfig
<1>2. config \in Sizes \cup {Blank} /\ (initDone => config = size /\ size # Blank)
  BY <1>1, RunningFacts DEF SlotInv, TypeOK
<1> HIDE DEF config
<1>3. /\ directory' \in [Copies -> Directory]
      /\ e.tag = d.tag /\ e.bitmap = d.bitmap
      /\ e.config = Program(d.config, config)
      /\ main' = IF copy = "main" THEN e ELSE main
      /\ backup' = IF copy = "backup" THEN e ELSE backup
  BY <1>1, <1>2, ConfigWritten
<1>4. copy \in Copies /\ d = IF copy = "main" THEN main ELSE backup
  BY DEF SlotInv, TypeOK, Copies, main, backup
<1> HIDE DEF d, e
<1> USE DEF SlotInv
<1>5. TypeOK'
  BY <1>1, <1>3 DEF TypeOK, position, search, device
<1>6. BitsFit'
  <2>1. CASE copy = "main"
    <3>1. main'.bitmap = main.bitmap /\ main'.config = Program(main.config, config)
      BY <2>1, <1>3, <1>4
    <3>2. BitmapBytes \in Nat /\ Blank # Dirty /\ Dirty \notin Sizes /\ Blank \notin Sizes
      BY Constants, ValueFacts, SizeFacts
    <3>3. CASE main.config = Blank
      BY <3>1, <3>3 DEF BitsFit
    <3>4. CASE main.config # Blank
      <4>1. main'.config \in {main.config, Dirty}
        BY <3>1, <3>4 DEF Program
      <4> QED
        BY <3>1, <3>2, <3>4, <4>1 DEF BitsFit, SlotIds, LastValidAddress
    <3> QED
      BY <3>3, <3>4
  <2>2. CASE copy = "backup"
    BY <2>2, <1>3 DEF BitsFit
  <2> QED
    BY <2>1, <2>2, <1>4 DEF Copies
<1>7. BackupUntagged'
  BY <1>1, <1>3, <1>4 DEF BackupUntagged, position
<1>8. Off' /\ Checking'
  BY <1>1 DEF Off, Checking
<1>9. SetUp'
  <2> SUFFICES ASSUME ~initDone PROVE SetUp'
    BY <1>1 DEF SetUp, position
  <2>1. config = Blank
    BY DEF config
  <2>2. e.config = d.config
    BY <2>1, <1>3 DEF Program
  <2>3. eraseNeeded /\ eraseNeeded' /\ step' = "erase"
    BY <1>1 DEF SetUp
  <2>4. ASSUME copy = "main" PROVE ~Loadable("main")'
    BY <2>2, <2>4, <1>1, <1>3, <1>4 DEF SetUp, Loadable, main
  <2>5. ASSUME copy = "backup" PROVE main' = [ErasedDirectory EXCEPT !.tag = TRUE]
    BY <2>5, <1>1, <1>3 DEF SetUp
  <2> QED
    BY <2>3, <2>4, <2>5, <1>1 DEF SetUp, position
<1>10. Running'
  BY <1>1 DEF Running, IsSlot, SlotIds, position, device
<1>11. AtStep'
  BY <1>1, <1>2, <1>3, <1>4 DEF AtStep, position
<1> QED
  BY <1>5, <1>6, <1>7, <1>8, <1>9, <1>10, <1>11

\* A copy is erased.
LEMMA EraseDirectorySlot == ASSUME SlotInv, EraseDirectory PROVE SlotInv'
<1> USE DEF SlotInv
<1>1. copy \in Copies /\ directory \in [Copies -> Directory]
  BY DEF TypeOK
<1>2. /\ directory' \in [Copies -> Directory]
      /\ main' = IF copy = "main" THEN ErasedDirectory ELSE main
      /\ backup' = IF copy = "backup" THEN ErasedDirectory ELSE backup
  BY <1>1, CopyChanges, ErasedFacts DEF EraseDirectory
<1>3. /\ step = "erase" /\ step' = "rewrite"
      /\ tagRead' \in BOOLEAN /\ (copy = "backup" => ~tagRead')
      /\ UNCHANGED <<data, position, buffer, search, copy, eraseNeeded, low, loaded,
                     device>>
  BY DEF EraseDirectory, BackupUntagged, backup
<1>4. TypeOK'
  BY <1>2, <1>3 DEF TypeOK, position, search, device
<1>5. BitsFit'
  <2>1. Blank \notin Sizes
    BY SizeFacts
  <2>2. CASE copy = "main"
    BY <2>1, <2>2, <1>2, ErasedFacts DEF BitsFit
  <2>3. CASE copy # "main"
    BY <2>3, <1>2 DEF BitsFit
  <2> QED
    BY <2>2, <2>3
<1>6. BackupUntagged'
  BY <1>2, <1>3, ErasedFacts DEF BackupUntagged
<1>7. Off' /\ Checking'
  BY <1>3 DEF Off, Checking
<1>8. SetUp'
  BY <1>1, <1>2, <1>3 DEF SetUp, position, Copies
<1>9. Running' /\ AtStep'
  BY <1>2, <1>3 DEF Running, AtStep, IsSlot, SlotIds, position, device
<1> QED
  BY <1>4, <1>5, <1>6, <1>7, <1>8, <1>9

\* The configuration of an erased copy is written.
LEMMA RewriteConfigSlot == ASSUME SlotInv, RewriteConfig PROVE SlotInv'
<1> USE DEF SlotInv
<1>1. /\ step = "rewrite" /\ step' = IF initDone THEN "bitmap" ELSE "tag"
      /\ UNCHANGED <<data, position, buffer, search, rewrite, loaded, device>>
  BY DEF RewriteConfig
<1>2. CASE ~initDone
  <2>1. UNCHANGED directory /\ step' = "tag"
    BY <1>2 DEF RewriteConfig
  <2>2. TypeOK'
    BY <2>1, <1>1 DEF TypeOK, position, search, rewrite, device
  <2>3. BitsFit' /\ main' = main /\ backup' = backup
    BY <2>1, FitStays
  <2>4. BackupUntagged' /\ Off' /\ SetUp' /\ Checking' /\ Running' /\ AtStep'
    BY <2>1, <2>3, <1>1, <1>2
    DEF BackupUntagged, Off, SetUp, Checking, Running, AtStep, position, rewrite
  <2> QED
    BY <2>2, <2>3, <2>4
<1>3. CASE initDone
  <2>1. size \in Sizes /\ size # Blank /\ Blank \notin Sizes
    BY <1>1, <1>3, RunningFacts, SizeFacts
  <2> DEFINE d == directory[copy]
             e == directory'[copy]
  <2>2. directory' = [directory EXCEPT ![copy].config = Program(@, size)]
    BY <1>3 DEF RewriteConfig
  <2>3. /\ directory' \in [Copies -> Directory]
        /\ e.tag = d.tag /\ e.bitmap = d.bitmap
        /\ e.config = Program(d.config, size)
        /\ main' = IF copy = "main" THEN e ELSE main
        /\ backup' = IF copy = "backup" THEN e ELSE backup
    BY <2>1, <2>2, ConfigWritten
  <2>4. copy \in Copies /\ d = IF copy = "main" THEN main ELSE backup
    BY DEF TypeOK, Copies, main, backup
  <2> HIDE DEF d, e
  <2>5. TypeOK'
    BY <1>1, <1>3, <2>3 DEF TypeOK, position, search, rewrite, device
  <2>6. ASSUME copy = "main"
        PROVE  main'.config = size /\ \A b \in 0 .. BitmapBytes - 1 : main'.bitmap[b] = 0
    BY <2>1, <2>3, <2>4, <2>6, <1>1, <1>3, ErasedFacts DEF AtStep, Program
  <2>7. BitsFit'
    <3>1. CASE copy = "main"
      BY <2>1, <2>6, <3>1 DEF BitsFit
    <3>2. CASE copy # "main"
      BY <2>3, <3>2 DEF BitsFit
    <3> QED
      BY <3>1, <3>2
  <2>8. BackupUntagged' /\ Off' /\ SetUp' /\ Checking' /\ Running' /\ AtStep'
    BY <1>1, <1>3, <2>3, <2>4, <2>6
    DEF BackupUntagged, Off, SetUp, Checking, Running, AtStep, IsSlot, SlotIds,
        position, rewrite, device
  <2> QED
    BY <2>5, <2>7, <2>8
<1> QED
  BY <1>2, <1>3
\* Bits that fit a slot fit every slot before it.
LEMMA EarlierFits ==
    ASSUME NEW n \in Sizes, NEW id \in SlotIds(n), NEW old \in 0 .. id
    PROVE  old \in SlotIds(n)
<1>1. n \in Nat \ {0} /\ id \in Nat /\ n * id \in Nat /\ n * id + n <= LastValidAddress
  BY SlotFacts, SizeFacts
<1>2. old * n <= id * n /\ n * old = old * n /\ n * id = id * n /\ n * old \in Nat
  BY <1>1, TimesMonotone
<1>3. LastValidAddress \in Nat
  BY Constants
<1> HIDE DEF LastValidAddress
<1>4. n * old + n <= LastValidAddress
  BY <1>1, <1>2, <1>3
<1> QED
  BY <1>4, MultipleIsSlot

\* The number of the slot being written.
LEMMA CurrentId ==
    ASSUME SlotInv, initDone, step \notin {"off", "sizeCheck"}
    PROVE  slot \div size \in SlotIds(size) /\ slot = size * (slot \div size)
<1>1. size \in Sizes
  BY RunningFacts
<1>2. PICK id \in SlotIds(size) : slot = size * id
  BY RunningFacts DEF IsSlot
<1>3. slot \div size = id
  BY <1>1, <1>2, SlotFacts
<1> QED
  BY <1>2, <1>3

\* What clearing bits leaves of a copy.
LEMMA BitsCleared ==
    ASSUME SlotInv, NEW byte \in Int, NEW zeros \in Byte,
           directory' = [directory EXCEPT ![copy].bitmap = ClearBits(@, byte, zeros)]
    PROVE  LET d == directory[copy]
               e == directory'[copy]
           IN /\ directory' \in [Copies -> Directory]
              /\ e.tag = d.tag /\ e.config = d.config
              /\ e.bitmap = ClearBits(d.bitmap, byte, zeros)
              /\ e.bitmap \in Bitmap
              /\ \A b \in 0 .. BitmapBytes - 1 :
                    e.bitmap[b] = IF b = byte /\ zeros > d.bitmap[b] THEN zeros ELSE d.bitmap[b]
              /\ main' = IF copy = "main" THEN e ELSE main
              /\ backup' = IF copy = "backup" THEN e ELSE backup
<1> DEFINE d == directory[copy]
           v == ClearBits(d.bitmap, byte, zeros)
           new == [d EXCEPT !.bitmap = v]
<1>1. copy \in Copies /\ directory \in [Copies -> Directory] /\ d \in Directory
  BY DEF SlotInv, TypeOK
<1>2. d.bitmap \in Bitmap
  BY <1>1, CopyTypes
<1>3. /\ v \in Bitmap
      /\ \A b \in 0 .. BitmapBytes - 1 :
            v[b] = IF b = byte /\ zeros > d.bitmap[b] THEN zeros ELSE d.bitmap[b]
  BY <1>2, ClearType
<1>4. directory' = [directory EXCEPT ![copy] = new]
  BY <1>1
<1> HIDE DEF v
<1>5. new \in Directory /\ new.tag = d.tag /\ new.config = d.config /\ new.bitmap = v
  BY <1>1, <1>3, FieldChanges
<1> HIDE DEF new
<1>6. directory'[copy] = new
  BY <1>1, <1>4
<1>7. /\ directory' \in [Copies -> Directory]
      /\ main' = IF copy = "main" THEN new ELSE main
      /\ backup' = IF copy = "backup" THEN new ELSE backup
  BY <1>1, <1>4, <1>5, CopyChanges
<1> HIDE DEF d
<1> QED
  BY <1>3, <1>5, <1>6, <1>7 DEF v, d

\* Clearing bits for a slot of the size in the copy keeps the bits fitting.
LEMMA ClearedFits ==
    ASSUME SlotInv, NEW byte \in Int, NEW zeros \in Byte,
           directory' = [directory EXCEPT ![copy].bitmap = ClearBits(@, byte, zeros)],
           copy = "main" => /\ main.config = size /\ size \in Sizes
                            /\ byte * BitsPerByte + zeros \in SlotIds(size)
    PROVE  BitsFit'
<1>1. Blank \notin Sizes
  BY SizeFacts
<1>2. copy \in Copies
  BY DEF SlotInv, TypeOK
<1>3. CASE copy = "main"
  <2>1. /\ main'.config = main.config
        /\ \A b \in 0 .. BitmapBytes - 1 :
              main'.bitmap[b] = IF b = byte /\ zeros > main.bitmap[b] THEN zeros ELSE main.bitmap[b]
    <3>1. LET d == directory[copy]
              e == directory'[copy]
          IN /\ e.config = d.config
             /\ \A b \in 0 .. BitmapBytes - 1 :
                   e.bitmap[b] = IF b = byte /\ zeros > d.bitmap[b] THEN zeros ELSE d.bitmap[b]
             /\ main' = IF copy = "main" THEN e ELSE main
      BY BitsCleared
    <3> QED
      BY <3>1, <1>3 DEF main
  <2>2. main'.config = size /\ main.config = size /\ size \in Sizes
    BY <2>1, <1>3
  <2>3. ASSUME NEW b \in 0 .. BitmapBytes - 1, main'.bitmap[b] > 0
        PROVE  b * BitsPerByte + main'.bitmap[b] \in SlotIds(size)
    <3>1. CASE b = byte /\ zeros > main.bitmap[b]
      BY <3>1, <2>1, <1>3
    <3>2. CASE ~(b = byte /\ zeros > main.bitmap[b])
      BY <3>2, <2>1, <2>2, <2>3 DEF SlotInv, BitsFit
    <3> QED
      BY <3>1, <3>2
  <2> QED
    BY <2>2, <2>3, <1>1 DEF BitsFit
<1>4. CASE copy # "main"
  <2>1. main' = IF copy = "main" THEN directory'[copy] ELSE main
    BY BitsCleared
  <2> QED
    BY <2>1, <1>4 DEF SlotInv, BitsFit, SlotIds, LastValidAddress
<1> QED
  BY <1>3, <1>4

\* The bit of the slot is cleared.
LEMMA WriteBitmapSlot == ASSUME SlotInv, WriteBitmap PROVE SlotInv'
<1> DEFINE id == slot \div size
           byte == id \div BitsPerByte
           zeros == id % BitsPerByte
<1>1. initDone /\ step = "bitmap" /\ size \in Sizes /\ size # Blank /\ buffer # None
  BY RunningFacts DEF WriteBitmap, SlotInv, AtStep
<1>2. id \in SlotIds(size) /\ slot = size * id
  BY <1>1, CurrentId
<1>3. /\ byte \in 0 .. BitmapBytes - 1 /\ zeros \in 0 .. BitsPerByte - 1
      /\ id = byte * BitsPerByte + zeros
      /\ BitmapBytes \in Nat /\ BitsPerByte \in Nat
  BY <1>1, <1>2, IdBits, Constants
<1>4. /\ directory' = [directory EXCEPT ![copy].bitmap = ClearBits(@, byte, zeros)]
      /\ low' = byte - 1
      /\ step' \in {"bytes", "tag"} /\ (step' = "bytes" => byte > 0)
      /\ UNCHANGED <<data, position, buffer, search, copy, eraseNeeded, tagRead,
                     loaded, device>>
  BY DEF WriteBitmap
<1>5. id = slot \div size
  OBVIOUS
<1> HIDE DEF id, zeros
<1>6. zeros \in Byte /\ byte \in Int
  BY <1>3 DEF Byte
<1>7. byte = id \div BitsPerByte
  OBVIOUS
<1> HIDE DEF byte
<1>8. LET d == directory[copy]
          e == directory'[copy]
      IN /\ directory' \in [Copies -> Directory]
         /\ e.tag = d.tag /\ e.config = d.config
         /\ main' = IF copy = "main" THEN e ELSE main
         /\ backup' = IF copy = "backup" THEN e ELSE backup
  BY <1>4, <1>6, BitsCleared
<1>9. copy \in Copies /\ directory[copy] = IF copy = "main" THEN main ELSE backup
  BY DEF SlotInv, TypeOK, Copies, main, backup
<1>10. BitsFit'
  <2>1. copy = "main" => main.config = size
    BY <1>1 DEF SlotInv, AtStep
  <2> QED
    BY <2>1, <1>1, <1>2, <1>3, <1>4, <1>6, ClearedFits
<1> USE DEF SlotInv
<1>11. TypeOK'
  BY <1>3, <1>4, <1>8 DEF TypeOK, position, search, device
<1>12. BackupUntagged' /\ Off' /\ SetUp' /\ Checking'
  BY <1>1, <1>4, <1>8, <1>9 DEF BackupUntagged, Off, SetUp, Checking, position
<1>13. Running'
  BY <1>1, <1>4 DEF Running, IsSlot, SlotIds, position, device
<1>0. AtStep'
  <2>1. step' = "bytes" =>
           /\ low' \in 0 .. BitmapBytes - 1
           /\ low' < (slot' \div size') \div BitsPerByte
    BY <1>3, <1>4, <1>5, <1>7 DEF position
  <2>2. initDone' /\ copy' = "main" => main'.config = size'
    BY <1>1, <1>4, <1>8, <1>9 DEF AtStep, position
  <2> QED
    BY <2>1, <2>2, <1>1, <1>4 DEF AtStep, position
<1> QED
  BY <1>10, <1>11, <1>12, <1>13, <1>0

\* An earlier byte is cleared.
LEMMA ClearEarlierByteSlot == ASSUME SlotInv, ClearEarlierByte PROVE SlotInv'
<1> DEFINE id == slot \div size
           byte == id \div BitsPerByte
<1>1. initDone /\ step = "bytes" /\ size \in Sizes /\ size # Blank /\ buffer # None
  BY RunningFacts DEF ClearEarlierByte, SlotInv, AtStep
<1>2. id \in SlotIds(size)
  BY <1>1, CurrentId
<1>3. /\ id \in Nat /\ byte \in 0 .. BitmapBytes - 1
      /\ id = byte * BitsPerByte + (id % BitsPerByte) /\ id % BitsPerByte \in 0 .. BitsPerByte - 1
      /\ BitmapBytes \in Nat /\ BitsPerByte \in Nat
  BY <1>1, <1>2, IdBits, Constants
<1>4. low \in 0 .. BitmapBytes - 1 /\ low < byte
  BY <1>1 DEF SlotInv, AtStep
<1>5. /\ directory' = [directory EXCEPT ![copy].bitmap = ClearBits(@, low, BitsPerByte)]
      /\ low' = low - 1 /\ step' = IF low = 0 THEN "tag" ELSE "bytes"
      /\ UNCHANGED <<data, position, buffer, search, copy, eraseNeeded, tagRead,
                     loaded, device>>
  BY DEF ClearEarlierByte
<1>6. byte = (slot \div size) \div BitsPerByte
  OBVIOUS
<1> HIDE DEF id, byte
<1>7. BitsPerByte \in Byte /\ low \in Int
  BY <1>3, <1>4 DEF Byte
<1>8. LET d == directory[copy]
          e == directory'[copy]
      IN /\ directory' \in [Copies -> Directory]
         /\ e.tag = d.tag /\ e.config = d.config
         /\ main' = IF copy = "main" THEN e ELSE main
         /\ backup' = IF copy = "backup" THEN e ELSE backup
  BY <1>5, <1>7, BitsCleared
<1>9. copy \in Copies /\ directory[copy] = IF copy = "main" THEN main ELSE backup
  BY DEF SlotInv, TypeOK, Copies, main, backup
<1>10. BitsFit'
  <2>1. copy = "main" => main.config = size
    BY <1>1 DEF SlotInv, AtStep
  <2>2. (low + 1) * BitsPerByte <= byte * BitsPerByte
    BY <1>3, <1>4, TimesMonotone
  <2>3. (low + 1) * BitsPerByte = low * BitsPerByte + BitsPerByte
    BY <1>3, <1>4
  <2>4. low * BitsPerByte \in Nat /\ byte * BitsPerByte \in Nat
    BY <1>3, <1>4
  <2>5. low * BitsPerByte + BitsPerByte \in 0 .. id
    BY <2>2, <2>3, <2>4, <1>3
  <2>6. low * BitsPerByte + BitsPerByte \in SlotIds(size)
    BY <2>5, <1>1, <1>2, EarlierFits
  <2> QED
    BY <2>1, <2>6, <1>1, <1>5, <1>7, ClearedFits
<1> USE DEF SlotInv
<1>11. TypeOK'
  BY <1>3, <1>4, <1>5, <1>8 DEF TypeOK, position, search, device
<1>12. BackupUntagged' /\ Off' /\ SetUp' /\ Checking'
  BY <1>1, <1>5, <1>8, <1>9 DEF BackupUntagged, Off, SetUp, Checking, position
<1>13. Running'
  BY <1>1, <1>5 DEF Running, IsSlot, SlotIds, position, device
<1>0. AtStep'
  <2>1. step' = "bytes" =>
           /\ low' \in 0 .. BitmapBytes - 1
           /\ low' < (slot' \div size') \div BitsPerByte
    BY <1>3, <1>4, <1>5, <1>6 DEF position
  <2>2. initDone' /\ copy' = "main" => main'.config = size'
    BY <1>1, <1>5, <1>8, <1>9 DEF AtStep, position
  <2> QED
    BY <2>1, <2>2, <1>1, <1>5 DEF AtStep, position
<1> QED
  BY <1>10, <1>11, <1>12, <1>13, <1>0
\* What putting the first bytes back leaves of a copy.
LEMMA TagPut ==
    ASSUME SlotInv, NEW c \in Copies, NEW t \in BOOLEAN,
           directory' = [directory EXCEPT ![c].tag = @ \/ t]
    PROVE  LET d == directory[c]
               e == directory'[c]
           IN /\ directory' \in [Copies -> Directory]
              /\ e = [d EXCEPT !.tag = d.tag \/ t]
              /\ e.tag = (d.tag \/ t) /\ e.config = d.config /\ e.bitmap = d.bitmap
              /\ main' = IF c = "main" THEN e ELSE main
              /\ backup' = IF c = "backup" THEN e ELSE backup
<1> DEFINE d == directory[c]
           v == d.tag \/ t
           new == [d EXCEPT !.tag = v]
<1>1. directory \in [Copies -> Directory] /\ d \in Directory
  BY DEF SlotInv, TypeOK
<1>2. v \in BOOLEAN
  OBVIOUS
<1>3. directory' = [directory EXCEPT ![c] = new]
  BY <1>1
<1> HIDE DEF v
<1>4. new \in Directory /\ new.tag = v /\ new.config = d.config /\ new.bitmap = d.bitmap
  BY <1>1, <1>2, FieldChanges
<1>5. directory'[c] = new
  BY <1>1, <1>3
<1> HIDE DEF new
<1>6. /\ directory' \in [Copies -> Directory]
      /\ main' = IF c = "main" THEN new ELSE main
      /\ backup' = IF c = "backup" THEN new ELSE backup
  BY <1>1, <1>3, <1>4, CopyChanges
<1> HIDE DEF d
<1> QED
  BY <1>4, <1>5, <1>6 DEF v, d, new

\* The first bytes of the main copy go back.
LEMMA WriteTagSlot == ASSUME SlotInv, WriteTag PROVE SlotInv'
<1> DEFINE t == IF initDone THEN eraseNeeded /\ tagRead ELSE TRUE
           e == directory'["main"]
<1>1. /\ step = "tag" /\ copy = "main" /\ copy' = "backup" /\ step' = "config"
      /\ UNCHANGED <<data, position, buffer, search, eraseNeeded, tagRead, low, loaded,
                     device>>
  BY DEF WriteTag
<1>2. "main" \in Copies /\ "backup" \in Copies
  BY DEF Copies
<1>3. directory' = [directory EXCEPT !["main"].tag = @ \/ t]
  BY <1>1 DEF WriteTag, TagWritten
<1>4. t \in BOOLEAN
  BY DEF SlotInv, TypeOK
<1>5. ~initDone => t
  OBVIOUS
<1> HIDE DEF t
<1>6. LET d == directory["main"]
      IN /\ directory' \in [Copies -> Directory]
         /\ e = [d EXCEPT !.tag = d.tag \/ t]
         /\ e.tag = (d.tag \/ t) /\ e.config = d.config /\ e.bitmap = d.bitmap
         /\ main' = e /\ backup' = backup
  BY <1>2, <1>3, <1>4, TagPut
<1> HIDE DEF e
<1> USE DEF SlotInv
<1>7. TypeOK'
  BY <1>1, <1>2, <1>6 DEF TypeOK, position, search, device
<1>8. BitsFit'
  BY <1>6 DEF BitsFit, SlotIds, LastValidAddress, main
<1>9. BackupUntagged' /\ Off' /\ Checking' /\ AtStep'
  BY <1>1, <1>6 DEF BackupUntagged, Off, Checking, AtStep, position
<1>10. SetUp'
  <2>1. ~initDone => main' = [ErasedDirectory EXCEPT !.tag = TRUE]
    <3> SUFFICES ASSUME ~initDone PROVE main' = [ErasedDirectory EXCEPT !.tag = TRUE]
      OBVIOUS
    <3>1. main = ErasedDirectory
      BY <1>1 DEF SetUp
    <3>2. main' = [main EXCEPT !.tag = main.tag \/ t]
      BY <1>6 DEF main
    <3>3. (main.tag \/ t) = TRUE
      BY <1>5
    <3> QED
      BY <3>1, <3>2, <3>3
  <2> QED
    BY <2>1, <1>1 DEF SetUp, position
<1>11. Running'
  BY <1>1 DEF Running, IsSlot, SlotIds, position, device
<1> QED
  BY <1>7, <1>8, <1>9, <1>10, <1>11

\* The directory is written: the save, or the setting up, is done.
LEMMA WriteBackupTagSlot == ASSUME SlotInv, WriteBackupTag PROVE SlotInv'
<1> DEFINE t == IF initDone THEN eraseNeeded /\ tagRead ELSE TRUE
           c == IF initDone THEN "backup" ELSE "main"
           e == directory'[c]
<1>1. /\ step = "tag" /\ copy = "backup"
      /\ UNCHANGED <<size, slot, lastStored, valid, search, rewrite, loaded, device>>
      /\ IF initDone
         THEN buffer' = None /\ UNCHANGED <<data, initDone>> /\ step' = "idle"
         ELSE /\ data' = EraseSector(data, 0) /\ initDone' = TRUE
              /\ UNCHANGED buffer /\ step' = "sizeCheck"
  BY DEF WriteBackupTag
<1>2. c \in Copies /\ t \in BOOLEAN
  BY DEF Copies, SlotInv, TypeOK
<1>3. directory' = [directory EXCEPT ![c].tag = @ \/ t]
  BY <1>1 DEF WriteBackupTag, TagWritten
<1>4. initDone => c = "backup" /\ ~t
  BY <1>1 DEF SlotInv, BackupUntagged
<1>5. ~initDone => c = "main" /\ t
  OBVIOUS
<1> HIDE DEF t, c
<1>6. LET d == directory[c]
      IN /\ directory' \in [Copies -> Directory]
         /\ e.tag = (d.tag \/ t) /\ e.config = d.config /\ e.bitmap = d.bitmap
         /\ main' = IF c = "main" THEN e ELSE main
         /\ backup' = IF c = "backup" THEN e ELSE backup
  BY <1>2, <1>3, TagPut
<1> HIDE DEF e
<1> USE DEF SlotInv
<1>7. /\ main'.config = main.config /\ main'.bitmap = main.bitmap
      /\ main.tag => main'.tag
      /\ ~initDone => main'.tag
      /\ ~backup'.tag
  BY <1>4, <1>5, <1>6 DEF main, backup, BackupUntagged
<1>8. TypeOK'
  BY <1>1, <1>6, EraseType DEF TypeOK, search, rewrite, device
<1>9. BitsFit'
  BY <1>7 DEF BitsFit, SlotIds, LastValidAddress
<1>10. CASE initDone
  <2>1. BackupUntagged' /\ Off' /\ SetUp' /\ Checking'
    BY <1>1, <1>7, <1>10 DEF BackupUntagged, Off, SetUp, Checking
  <2>2. slot = lastStored
    BY <1>1, <1>10 DEF AtStep
  <2>3. Running' /\ AtStep'
    BY <1>1, <1>10, <2>2 DEF Running, AtStep, IsSlot, SlotIds, device, rewrite
  <2> QED
    BY <2>1, <2>3, <1>8, <1>9
<1>11. CASE ~initDone
  <2>1. /\ buffer = None /\ size = Blank /\ slot = lastStored /\ valid
        /\ main.config = Blank
    BY <1>1, <1>11, ErasedFacts DEF SetUp, ErasedDirectory
  <2>2. BackupUntagged' /\ Off' /\ SetUp' /\ Checking'
    BY <1>1, <1>7, <1>11, <2>1 DEF BackupUntagged, Off, SetUp, Checking
  <2>3. Running' /\ AtStep'
    BY <1>1, <1>11 DEF Running, AtStep, rewrite
  <2> QED
    BY <2>2, <2>3, <1>8, <1>9
<1> QED
  BY <1>10, <1>11

\* The power fails.
LEMMA PowerLossSlot == ASSUME SlotInv, PowerLoss PROVE SlotInv'
<1> USE DEF SlotInv
<1>1. 0 \in Address /\ 0 \in -1 .. BitmapBytes
  BY Constants
<1>5. faults' \in 0 .. MaxFaults
  BY SectorAssumption DEF PowerLoss, TypeOK
<1>6. "main" \in Copies
  BY DEF Copies
<1>2. TypeOK'
  BY <1>1, <1>5, <1>6, Zenon DEF PowerLoss, TypeOK, flash
<1>3. BitsFit' /\ main' = main /\ backup' = backup
  BY FitStays DEF PowerLoss, flash
<1>4. BackupUntagged' /\ Off' /\ SetUp' /\ Checking' /\ Running' /\ AtStep'
  BY <1>3 DEF PowerLoss, BackupUntagged, Off, SetUp, Checking, Running, AtStep
<1> QED
  BY <1>2, <1>3, <1>4

\* The device gets other elements.
LEMMA ReconfigureSlot == ASSUME SlotInv, Reconfigure PROVE SlotInv'
<1> USE DEF SlotInv
<1>1. TypeOK'
  BY SectorAssumption DEF Reconfigure, TypeOK, flash, position, search, rewrite
<1>2. BitsFit' /\ main' = main /\ backup' = backup
  BY FitStays DEF Reconfigure, flash
<1>3. BackupUntagged' /\ Off' /\ SetUp' /\ Checking' /\ Running' /\ AtStep'
  BY <1>2
  DEF Reconfigure, BackupUntagged, Off, SetUp, Checking, Running, AtStep, position, rewrite
<1> QED
  BY <1>1, <1>2, <1>3

\* Every step keeps the first invariant.
LEMMA NextSlotInv == SlotInv /\ [Next]_vars => SlotInv'
<1> SUFFICES ASSUME SlotInv, [Next]_vars PROVE SlotInv'
  OBVIOUS
<1>1. CASE Storage
  BY <1>1, BootSlot, FirstBootSlot, LoadStateSlot, DropStateSlot, TakeNextSlotSlot,
     WriteWordSlot, VerifiedSlot, TryAgainSlot, WriteFailedSlot, WriteConfigSlot,
     EraseDirectorySlot, RewriteConfigSlot, WriteBitmapSlot, ClearEarlierByteSlot,
     WriteTagSlot, WriteBackupTagSlot
  DEF Storage
<1>2. ASSUME NEW v \in States, SaveState(v) PROVE SlotInv'
  BY <1>2, SaveStateSlot
<1>3. CASE PowerLoss
  BY <1>3, PowerLossSlot
<1>4. CASE Reconfigure
  BY <1>4, ReconfigureSlot
<1>5. CASE UNCHANGED vars
  <2>1. BitsFit' /\ main' = main /\ backup' = backup
    BY <1>5, FitStays DEF vars, flash, SlotInv
  <2> QED
    BY <1>5, <2>1
    DEF SlotInv, vars, TypeOK, BackupUntagged, Off, SetUp, Checking, Running, AtStep,
        IsSlot, Loadable, main, flash, position, search, rewrite, device
<1> QED
  BY <1>1, <1>2, <1>3, <1>4, <1>5 DEF Next

-----------------------------------------------------------------------------
(* Types.                                                                      *)

\* In every reachable state, also after losses of power between two bytes of the
\* bitmap, the program works on slots in the data sectors and the backup copy has
\* no main preamble.
THEOREM SlotInvariant == Spec => []SlotInv
<1>1. Init => SlotInv
  BY InitSlot
<1> QED
  BY <1>1, NextSlotInv, PTL DEF Spec

\* The storage keeps to its types: every address it reads or writes lies in the
\* data sectors.
THEOREM StorageTypes == Spec => []TypeOK
<1>1. SlotInv => TypeOK
  BY DEF SlotInv
<1> QED
  BY <1>1, SlotInvariant, PTL
-----------------------------------------------------------------------------
(* Bitmaps of slots.                                                           *)

\* The bytes of the bitmap of a slot.
LEMMA BitmapOfBytes ==
    ASSUME NEW id \in Nat, id \div BitsPerByte \in 0 .. BitmapBytes - 1
    PROVE  /\ BitmapOf(id) \in Bitmap
           /\ \A b \in 0 .. BitmapBytes - 1 :
                BitmapOf(id)[b] = IF b < id \div BitsPerByte THEN BitsPerByte
                                  ELSE IF b = id \div BitsPerByte THEN id % BitsPerByte ELSE 0
<1> DEFINE m == id \div BitsPerByte
           r == id % BitsPerByte
<1>1. BitsPerByte \in Nat \ {0}
  BY Constants
<1>2. r \in 0 .. BitsPerByte - 1
  BY <1>1, Quotient
<1>3. BitmapOf(id) = [b \in 0 .. BitmapBytes - 1 |->
                        IF b < m THEN BitsPerByte ELSE IF b = m THEN r ELSE 0]
  BY Zenon DEF BitmapOf
<1> HIDE DEF m, r
<1>4. /\ BitmapOf(id) \in Bitmap
      /\ \A b \in 0 .. BitmapBytes - 1 :
            BitmapOf(id)[b] = IF b < m THEN BitsPerByte ELSE IF b = m THEN r ELSE 0
  BY <1>1, <1>2, <1>3 DEF Bitmap, Byte
<1> QED
  BY <1>4, Zenon DEF m, r

\* Bitmaps with the same bytes are the same.
LEMMA SameBytes ==
    ASSUME NEW f \in Bitmap, NEW g \in Bitmap,
           \A b \in 0 .. BitmapBytes - 1 : f[b] = g[b]
    PROVE  f = g
<1> DEFINE S == 0 .. BitmapBytes - 1
<1>1. f = [b \in S |-> f[b]] /\ g = [b \in S |-> g[b]] /\ \A b \in S : f[b] = g[b]
  BY DEF Bitmap
<1> HIDE DEF S
<1>2. [b \in S |-> f[b]] = [b \in S |-> g[b]]
  BY <1>1
<1> QED
  BY <1>1, <1>2

\* An erased bitmap is that of slot 0.
LEMMA ErasedIsFirst == ErasedDirectory.bitmap = BitmapOf(0)
<1>1. BitmapBytes \in Nat \ {0} /\ BitsPerByte \in Nat \ {0}
  BY Constants
<1>2. 0 \div BitsPerByte = 0 /\ 0 % BitsPerByte = 0
  BY <1>1, Quotient, QuotientIs
<1>3. 0 \in Nat /\ 0 \div BitsPerByte \in 0 .. BitmapBytes - 1
  BY <1>1, <1>2
<1>4. ErasedDirectory.bitmap = [b \in 0 .. BitmapBytes - 1 |-> 0]
  BY DEF ErasedDirectory
<1>5. BitmapOf(0) = [b \in 0 .. BitmapBytes - 1 |->
                        IF b < 0 THEN BitsPerByte ELSE IF b = 0 THEN 0 ELSE 0]
  BY <1>2 DEF BitmapOf
<1> QED
  BY <1>1, <1>4, <1>5

\* Numbers in order have their bytes and bits in order.
LEMMA IdsInOrder ==
    ASSUME NEW n \in Sizes, NEW id \in SlotIds(n), NEW old \in 0 .. id
    PROVE  /\ old \in Nat /\ old \in SlotIds(n)
           /\ old \div BitsPerByte \in 0 .. BitmapBytes - 1
           /\ old % BitsPerByte \in 0 .. BitsPerByte - 1
           /\ old \div BitsPerByte <= id \div BitsPerByte
           /\ old \div BitsPerByte = id \div BitsPerByte =>
                old % BitsPerByte <= id % BitsPerByte
<1>1. BitsPerByte \in Nat \ {0}
  BY Constants
<1>2. old \in SlotIds(n)
  BY EarlierFits
<1>3. id \in Nat /\ old \in Nat /\ old <= id
  BY SlotFacts
<1>4. /\ old \div BitsPerByte \in 0 .. BitmapBytes - 1
      /\ old % BitsPerByte \in 0 .. BitsPerByte - 1
      /\ old = (old \div BitsPerByte) * BitsPerByte + (old % BitsPerByte)
      /\ id \div BitsPerByte \in 0 .. BitmapBytes - 1
      /\ id % BitsPerByte \in 0 .. BitsPerByte - 1
      /\ id = (id \div BitsPerByte) * BitsPerByte + (id % BitsPerByte)
  BY <1>2, IdBits
<1>5. old \div BitsPerByte <= id \div BitsPerByte
  BY <1>1, <1>3, QuotientMonotone
<1> DEFINE m0 == old \div BitsPerByte
           r0 == old % BitsPerByte
           m == id \div BitsPerByte
           r == id % BitsPerByte
<1>6. m0 = m => r0 <= r
  <2>1. /\ old = m0 * BitsPerByte + r0 /\ id = m * BitsPerByte + r
        /\ m \in Int /\ r \in Int /\ r0 \in Int
    BY <1>4
  <2> HIDE DEF m0, r0, m, r
  <2> QED
    BY <2>1, <1>1, <1>3
<1> QED
  BY <1>2, <1>3, <1>4, <1>5, <1>6

\* Writing the bit of a slot over the bitmap of an earlier one: in the same byte
\* that is all, and the byte before tells whether it is.
LEMMA BitOverEarlier ==
    ASSUME NEW n \in Sizes, NEW id \in SlotIds(n), NEW old \in 0 .. id,
           NEW m, m = id \div BitsPerByte,
           NEW new \in Bitmap,
           \A b \in 0 .. BitmapBytes - 1 :
              new[b] = IF b = m /\ id % BitsPerByte > BitmapOf(old)[b]
                       THEN id % BitsPerByte ELSE BitmapOf(old)[b]
    PROVE  /\ m > 0 /\ BitmapOf(old)[m - 1] < BitsPerByte =>
                /\ old \div BitsPerByte < m
                /\ new = BitmapBetween(old, id, m - 1)
           /\ ~(m > 0 /\ BitmapOf(old)[m - 1] < BitsPerByte) =>
                /\ old \div BitsPerByte = m
                /\ new = BitmapOf(id)
<1> DEFINE m0 == old \div BitsPerByte
           r0 == old % BitsPerByte
           r == id % BitsPerByte
           O == BitmapOf(old)
           N == BitmapOf(id)
           B == BitmapBetween(old, id, m - 1)
<1>1. BitmapBytes \in Nat \ {0} /\ BitsPerByte \in Nat \ {0}
  BY Constants
<1>2. /\ m0 \in 0 .. BitmapBytes - 1 /\ r0 \in 0 .. BitsPerByte - 1
      /\ m0 <= m /\ (m0 = m => r0 <= r) /\ old \in Nat
  BY IdsInOrder
<1>3. m \in 0 .. BitmapBytes - 1 /\ r \in 0 .. BitsPerByte - 1 /\ id \in Nat
  BY IdBits
<1>4. /\ O \in Bitmap
      /\ \A b \in 0 .. BitmapBytes - 1 :
            O[b] = IF b < m0 THEN BitsPerByte ELSE IF b = m0 THEN r0 ELSE 0
  BY <1>2, BitmapOfBytes
<1>5. /\ N \in Bitmap
      /\ \A b \in 0 .. BitmapBytes - 1 :
            N[b] = IF b < m THEN BitsPerByte ELSE IF b = m THEN r ELSE 0
  BY <1>3, BitmapOfBytes
<1>6. B = [b \in 0 .. BitmapBytes - 1 |->
              IF b = m THEN r ELSE IF b > m THEN 0
              ELSE IF b > m - 1 THEN BitsPerByte ELSE O[b]]
  BY Zenon DEF BitmapBetween
<1>7. \A b \in 0 .. BitmapBytes - 1 : new[b] = IF b = m /\ r > O[b] THEN r ELSE O[b]
  OBVIOUS
<1> HIDE DEF m0, r0, r, O, N, B
<1>8. \A f, g \in Bitmap : (\A b \in 0 .. BitmapBytes - 1 : f[b] = g[b]) => f = g
  BY SameBytes
<1>9. \A b \in 0 .. BitmapBytes - 1 :
          B[b] = IF b = m THEN r ELSE IF b > m THEN 0
                 ELSE IF b > m - 1 THEN BitsPerByte ELSE O[b]
  BY <1>6
<1>10. B \in Bitmap
  <2>1. \A b \in 0 .. BitmapBytes - 1 : O[b] \in Byte
    BY <1>4 DEF Bitmap
  <2> QED
    BY <1>1, <1>3, <1>6, <2>1 DEF Bitmap, Byte
<1>11. CASE m0 < m
  <2>1. m > 0 /\ O[m - 1] < BitsPerByte
    <3>1. m - 1 \in 0 .. BitmapBytes - 1 /\ ~(m - 1 < m0)
      BY <1>1, <1>2, <1>3, <1>11
    <3> QED
      BY <1>1, <1>2, <1>3, <1>4, <3>1
  <2>2. \A b \in 0 .. BitmapBytes - 1 : new[b] = B[b]
    BY <1>1, <1>2, <1>3, <1>4, <1>7, <1>9, <1>11
  <2>3. new = B
    BY <2>2, <1>8, <1>10
  <2> QED
    BY <2>1, <2>3, <1>11 DEF m0, O, B
<1>12. CASE m0 = m
  <2>1. ~(m > 0 /\ O[m - 1] < BitsPerByte)
    <3>1. m > 0 => m - 1 \in 0 .. BitmapBytes - 1 /\ m - 1 < m0
      BY <1>1, <1>2, <1>3, <1>12
    <3> QED
      BY <1>1, <1>4, <3>1
  <2>2. \A b \in 0 .. BitmapBytes - 1 : new[b] = N[b]
    BY <1>1, <1>2, <1>3, <1>4, <1>5, <1>7, <1>12
  <2>3. new = N
    BY <2>2, <1>5, <1>8
  <2> QED
    BY <2>1, <2>3, <1>12 DEF m0, O, N
<1> QED
  BY <1>2, <1>3, <1>11, <1>12

\* The bytes in between.
LEMMA BetweenBytes ==
    ASSUME NEW n \in Sizes, NEW id \in SlotIds(n), NEW old \in 0 .. id, NEW l \in Int
    PROVE  /\ BitmapBetween(old, id, l) \in Bitmap
           /\ \A b \in 0 .. BitmapBytes - 1 :
                BitmapBetween(old, id, l)[b] =
                    IF b = id \div BitsPerByte THEN id % BitsPerByte
                    ELSE IF b > id \div BitsPerByte THEN 0
                    ELSE IF b > l THEN BitsPerByte ELSE BitmapOf(old)[b]
<1> DEFINE m == id \div BitsPerByte
           r == id % BitsPerByte
           O == BitmapOf(old)
<1>1. BitmapBytes \in Nat \ {0} /\ BitsPerByte \in Nat \ {0}
  BY Constants
<1>2. m \in 0 .. BitmapBytes - 1 /\ r \in 0 .. BitsPerByte - 1
  BY IdBits
<1>3. O \in Bitmap
  BY IdsInOrder, BitmapOfBytes
<1>4. BitmapBetween(old, id, l) =
          [b \in 0 .. BitmapBytes - 1 |->
              IF b = m THEN r ELSE IF b > m THEN 0
              ELSE IF b > l THEN BitsPerByte ELSE O[b]]
  BY Zenon DEF BitmapBetween
<1> HIDE DEF m, r, O
<1>5. \A b \in 0 .. BitmapBytes - 1 : O[b] \in Byte
  BY <1>3 DEF Bitmap
<1>6. /\ BitmapBetween(old, id, l) \in Bitmap
      /\ \A b \in 0 .. BitmapBytes - 1 :
            BitmapBetween(old, id, l)[b] =
                IF b = m THEN r ELSE IF b > m THEN 0
                ELSE IF b > l THEN BitsPerByte ELSE O[b]
  BY <1>1, <1>2, <1>4, <1>5 DEF Bitmap, Byte
<1> QED
  BY <1>6, Zenon DEF m, r, O

\* Clearing the next earlier byte goes one byte further; after byte 0 the bitmap
\* is that of the slot.
LEMMA ByteBetween ==
    ASSUME NEW n \in Sizes, NEW id \in SlotIds(n), NEW old \in 0 .. id,
           NEW l \in 0 .. BitmapBytes - 1, l < id \div BitsPerByte,
           NEW new \in Bitmap,
           \A b \in 0 .. BitmapBytes - 1 :
              new[b] = IF b = l /\ BitsPerByte > BitmapBetween(old, id, l)[b]
                       THEN BitsPerByte ELSE BitmapBetween(old, id, l)[b]
    PROVE  /\ new = BitmapBetween(old, id, l - 1)
           /\ l = 0 => new = BitmapOf(id)
<1> DEFINE m == id \div BitsPerByte
           r == id % BitsPerByte
           O == BitmapOf(old)
           N == BitmapOf(id)
           B == BitmapBetween(old, id, l)
           C == BitmapBetween(old, id, l - 1)
<1>1. BitmapBytes \in Nat \ {0} /\ BitsPerByte \in Nat \ {0}
  BY Constants
<1>2. m \in 0 .. BitmapBytes - 1 /\ r \in 0 .. BitsPerByte - 1 /\ id \in Nat
  BY IdBits
<1>3. /\ B \in Bitmap
      /\ \A b \in 0 .. BitmapBytes - 1 :
            B[b] = IF b = m THEN r ELSE IF b > m THEN 0 ELSE IF b > l THEN BitsPerByte ELSE O[b]
  BY BetweenBytes
<1>4. /\ C \in Bitmap
      /\ \A b \in 0 .. BitmapBytes - 1 :
            C[b] = IF b = m THEN r ELSE IF b > m THEN 0 ELSE IF b > l - 1 THEN BitsPerByte ELSE O[b]
  <2>1. l - 1 \in Int
    OBVIOUS
  <2> QED
    BY <2>1, BetweenBytes
<1>5. /\ N \in Bitmap
      /\ \A b \in 0 .. BitmapBytes - 1 :
            N[b] = IF b < m THEN BitsPerByte ELSE IF b = m THEN r ELSE 0
  BY <1>2, BitmapOfBytes
<1>6. O \in Bitmap
  BY IdsInOrder, BitmapOfBytes
<1>7. l < m /\ \A b \in 0 .. BitmapBytes - 1 :
                  new[b] = IF b = l /\ BitsPerByte > B[b] THEN BitsPerByte ELSE B[b]
  OBVIOUS
<1> HIDE DEF m, r, O, N, B, C
<1>8. \A f, g \in Bitmap : (\A b \in 0 .. BitmapBytes - 1 : f[b] = g[b]) => f = g
  BY SameBytes
<1>9. \A b \in 0 .. BitmapBytes - 1 : O[b] \in 0 .. BitsPerByte
  BY <1>6 DEF Bitmap, Byte
<1>10. \A b \in 0 .. BitmapBytes - 1 : new[b] = C[b]
  BY <1>1, <1>2, <1>3, <1>4, <1>7, <1>9
<1>11. l = 0 => \A b \in 0 .. BitmapBytes - 1 : C[b] = N[b]
  BY <1>1, <1>2, <1>4, <1>5
<1>12. new = C
  BY <1>4, <1>8, <1>10
<1>13. l = 0 => new = N
  BY <1>4, <1>5, <1>8, <1>11, <1>12
<1> QED
  BY <1>12, <1>13 DEF C, N
\* The scan while the bytes are cleared: the earlier slot, until its own byte is
\* cleared; from then on the new one.
LEMMA BetweenMaps ==
    ASSUME directory \in [Copies -> Directory], main.config \in Sizes,
           NEW id \in SlotIds(main.config), NEW old \in 0 .. id,
           NEW l \in Int, l < id \div BitsPerByte,
           old \div BitsPerByte < id \div BitsPerByte,
           main.bitmap = BitmapBetween(old, id, l)
    PROVE  MappedSlot("main") =
              main.config * (IF old \div BitsPerByte <= l THEN old ELSE id)
<1> DEFINE m0 == old \div BitsPerByte
           r0 == old % BitsPerByte
           m == id \div BitsPerByte
           r == id % BitsPerByte
           O == BitmapOf(old)
           B == main.bitmap
<1>1. BitmapBytes \in Nat \ {0} /\ BitsPerByte \in Nat \ {0}
  BY Constants
<1>2. /\ m \in 0 .. BitmapBytes - 1 /\ r \in 0 .. BitsPerByte - 1
      /\ id = m * BitsPerByte + r
  BY IdBits
<1>3. /\ m0 \in 0 .. BitmapBytes - 1 /\ r0 \in 0 .. BitsPerByte - 1
      /\ old \in Nat /\ old \in SlotIds(main.config)
  BY IdsInOrder
<1>4. old = m0 * BitsPerByte + r0
  BY <1>3, IdBits
<1>5. \A b \in 0 .. BitmapBytes - 1 :
          O[b] = IF b < m0 THEN BitsPerByte ELSE IF b = m0 THEN r0 ELSE 0
  BY <1>3, BitmapOfBytes
<1>6. /\ B \in Bitmap
      /\ \A b \in 0 .. BitmapBytes - 1 :
            B[b] = IF b = m THEN r ELSE IF b > m THEN 0 ELSE IF b > l THEN BitsPerByte ELSE O[b]
  BY BetweenBytes
<1>7. l < m /\ m0 < m /\ "main" \in Copies
  BY DEF Copies
<1>8. B = directory["main"].bitmap
  BY DEF main
<1> HIDE DEF m0, r0, m, r, O, B
<1>9. CASE m0 <= l
  <2>1. B[m0] = r0 /\ r0 < BitsPerByte
    BY <1>1, <1>2, <1>3, <1>5, <1>6, <1>7, <1>9
  <2>2. ASSUME NEW e \in 0 .. m0 - 1 PROVE B[e] = BitsPerByte
    <3>1. e \in 0 .. BitmapBytes - 1 /\ e < m0 /\ ~(e > l) /\ e < m
      BY <1>1, <1>2, <1>3, <1>7, <1>9
    <3> QED
      BY <3>1, <1>2, <1>5, <1>6
  <2>3. MappedSlot("main") = main.config * (m0 * BitsPerByte + B[m0])
    BY <2>1, <2>2, <1>3, <1>6, <1>7, <1>8, ScanStops DEF main
  <2> QED
    BY <2>1, <2>3, <1>4, <1>9 DEF m0
<1>10. CASE ~(m0 <= l)
  <2>1. B[m] = r /\ r < BitsPerByte
    BY <1>1, <1>2, <1>6
  <2>2. ASSUME NEW e \in 0 .. m - 1 PROVE B[e] = BitsPerByte
    <3>1. e \in 0 .. BitmapBytes - 1 /\ e < m /\ (e > l \/ e < m0)
      BY <1>1, <1>2, <1>3, <1>10
    <3> QED
      BY <3>1, <1>2, <1>3, <1>5, <1>6
  <2>3. MappedSlot("main") = main.config * (m * BitsPerByte + B[m])
    BY <2>1, <2>2, <1>2, <1>6, <1>7, <1>8, ScanStops DEF main
  <2> QED
    BY <2>1, <2>3, <1>2, <1>10 DEF m0
<1> QED
  BY <1>9, <1>10

-----------------------------------------------------------------------------
(* The content of slots.                                                       *)

\* The content of the slot of n words at s.
Holds(memory, s, n, v) == \A i \in 0 .. n - 1 : memory[s + i] = v
ContentIn(memory, s, n) ==
    IF \E v \in States : Holds(memory, s, n, v)
    THEN CHOOSE v \in States : Holds(memory, s, n, v)
    ELSE Dirty

\* It is that of the data sectors.
LEMMA ContentRead ==
    ASSUME NEW s, NEW n
    PROVE  SlotContent(s, n) = ContentIn(data, s, n)
  BY Zenon DEF SlotContent, SlotHolds, ContentIn, Holds

\* A slot all of whose words hold a state has that content.
LEMMA ContentIs ==
    ASSUME NEW memory, NEW s \in Nat, NEW n \in Nat \ {0}, NEW v \in States,
           Holds(memory, s, n, v)
    PROVE  ContentIn(memory, s, n) = v
<1>1. 0 \in 0 .. n - 1 /\ s + 0 = s
  OBVIOUS
<1>2. \A w : Holds(memory, s, n, w) => memory[s] = w
  BY <1>1 DEF Holds
<1>3. \A w \in States : Holds(memory, s, n, w) => w = v
  BY <1>2
<1> QED
  BY <1>3 DEF ContentIn

\* A slot none of whose words change keeps its content.
LEMMA ContentStays ==
    ASSUME NEW memory, NEW new, NEW s \in Nat, NEW n \in Nat \ {0},
           \A i \in 0 .. n - 1 : new[s + i] = memory[s + i]
    PROVE  ContentIn(new, s, n) = ContentIn(memory, s, n)
<1>1. \A v \in States : Holds(new, s, n, v) <=> Holds(memory, s, n, v)
  BY DEF Holds
<1>2. CASE \E v \in States : Holds(memory, s, n, v)
  BY <1>1, <1>2, ContentIs
<1>3. CASE ~ \E v \in States : Holds(memory, s, n, v)
  BY <1>1, <1>3 DEF ContentIn
<1> QED
  BY <1>2, <1>3

\* A slot whose first word is erased holds no state.
LEMMA BlankContent ==
    ASSUME NEW memory, NEW s \in Nat, NEW n \in Nat \ {0}, memory[s] = Blank
    PROVE  ContentIn(memory, s, n) = Dirty
<1>1. 0 \in 0 .. n - 1 /\ s + 0 = s
  OBVIOUS
<1>2. \A v \in States : ~Holds(memory, s, n, v)
  BY <1>1, ValueFacts DEF Holds
<1> QED
  BY <1>2 DEF ContentIn

-----------------------------------------------------------------------------
(* The search for a slot.                                                      *)

\* A sector encloses its addresses.
LEMMA Sectors ==
    ASSUME NEW a \in Nat
    PROVE  /\ SectorOf(a) \in Nat
           /\ SectorOf(a) * SectorWords <= a
           /\ a < SectorOf(a) * SectorWords + SectorWords
<1>1. SectorWords \in Nat \ {0}
  BY Constants
<1>2. /\ a \div SectorWords \in Nat /\ a % SectorWords \in 0 .. SectorWords - 1
      /\ a = (a \div SectorWords) * SectorWords + (a % SectorWords)
  BY <1>1, Quotient
<1> DEFINE q == a \div SectorWords
           p == q * SectorWords
<1>3. p \in Nat
  BY <1>1, <1>2
<1> HIDE DEF p
<1>4. p <= a /\ a < p + SectorWords
  BY <1>1, <1>2, <1>3 DEF p
<1> QED
  BY <1>2, <1>4 DEF p, SectorOf

\* It is the only one that does.
LEMMA SectorIs ==
    ASSUME NEW a \in Nat, NEW q \in Nat, q * SectorWords <= a,
           a < q * SectorWords + SectorWords
    PROVE  SectorOf(a) = q
  BY Constants, QuotientIs DEF SectorOf

\* Less than a sector further on there is the same sector or the next.
LEMMA SectorStep ==
    ASSUME NEW a \in Nat, NEW b \in Nat, a <= b, b <= a + SectorWords
    PROVE  SectorOf(b) = SectorOf(a) \/ SectorOf(b) = SectorOf(a) + 1
<1> DEFINE q == SectorOf(a)
           p == q * SectorWords
<1>1. SectorWords \in Nat \ {0}
  BY Constants
<1>2. q \in Nat /\ q * SectorWords <= a /\ a < q * SectorWords + SectorWords
  BY Sectors
<1> HIDE DEF q
<1>3. p \in Nat /\ (q + 1) * SectorWords = p + SectorWords
  BY <1>1, <1>2
<1>4. p <= a /\ a < p + SectorWords
  BY <1>2
<1> HIDE DEF p
<1>5. CASE b < p + SectorWords
  BY <1>1, <1>2, <1>3, <1>4, <1>5, SectorIs DEF p, q
<1>6. CASE b >= p + SectorWords
  <2>1. b < (p + SectorWords) + SectorWords
    BY <1>1, <1>3, <1>4
  <2>2. q + 1 \in Nat
    BY <1>2
  <2>3. SectorOf(b) = q + 1
    BY <2>1, <2>2, <1>3, <1>6, SectorIs
  <2> QED
    BY <2>3 DEF q
<1> QED
  BY <1>1, <1>3, <1>5, <1>6

\* Words in other sectors than the erased one stay, those in it become blank.
LEMMA Erased ==
    ASSUME NEW n, NEW a \in Address
    PROVE  /\ SectorOf(a) # n => EraseSector(data, n)[a] = data[a]
           /\ SectorOf(a) = n => EraseSector(data, n)[a] = Blank
  BY DEF EraseSector
\* The words of the last slot stay as they are.
LastKept == \A i \in 0 .. size - 1 : data'[lastStored + i] = data[lastStored + i]

\* The sector where a slot ends, and where the last one does.
LEMMA SearchFacts ==
    ASSUME SlotInv, step \in {"next", "write"}
    PROVE  /\ initDone /\ size \in Sizes /\ size \in Nat \ {0} /\ 2 * size <= SectorWords
           /\ slot \in Nat /\ lastStored \in Nat
           /\ slot + size <= LastValidAddress /\ lastStored + size <= LastValidAddress
           /\ SectorWords \in Nat /\ LastValidAddress \in Nat
           /\ 3 * SectorWords <= LastValidAddress + 1
           /\ LastSector \in Nat /\ LastSector * SectorWords \in Nat
           /\ (LastSector + 1) * SectorWords = LastSector * SectorWords + SectorWords
           /\ LastSector * SectorWords <= lastStored + size - 1
           /\ lastStored + size - 1 < LastSector * SectorWords + SectorWords
           /\ \A i \in 0 .. size - 1 : lastStored + i \in Address
<1>1. initDone
  BY DEF SlotInv, AtStep
<1>2. /\ size \in Sizes /\ size \in Nat \ {0} /\ slot \in Nat /\ lastStored \in Nat
      /\ slot + size <= LastValidAddress /\ lastStored + size <= LastValidAddress
  BY <1>1, RunningFacts
<1>3. 2 * size <= SectorWords
  BY <1>2, SizeFacts
<1>4. /\ SectorWords \in Nat /\ LastValidAddress \in Nat
      /\ 3 * SectorWords <= LastValidAddress + 1
  BY Constants
<1>5. lastStored + size - 1 \in Nat
  BY <1>2
<1>6. /\ LastSector \in Nat
      /\ LastSector * SectorWords <= lastStored + size - 1
      /\ lastStored + size - 1 < LastSector * SectorWords + SectorWords
  BY <1>5, Sectors DEF LastSector, EndSector
<1>7. /\ LastSector * SectorWords \in Nat
      /\ (LastSector + 1) * SectorWords = LastSector * SectorWords + SectorWords
  BY <1>4, <1>6
<1> HIDE DEF LastValidAddress
<1>8. \A i \in 0 .. size - 1 : lastStored + i \in 0 .. LastValidAddress
  BY <1>2, <1>4
<1> QED
  BY <1>1, <1>2, <1>3, <1>4, <1>6, <1>7, <1>8, Constants

\* Erasing a sector above the one where the last slot ends leaves it alone, and so
\* does erasing the first sector when the last slot begins after it.
LEMMA EraseKeepsLast ==
    ASSUME SlotInv, step \in {"next", "write"}, NEW n,
           data' = EraseSector(data, n),
           \/ n = LastSector + 1
           \/ n = 0 /\ lastStored >= SectorWords
    PROVE  LastKept
<1>1. /\ size \in Nat \ {0} /\ lastStored \in Nat /\ SectorWords \in Nat /\ LastSector \in Nat
      /\ lastStored + size - 1 < LastSector * SectorWords + SectorWords
      /\ LastSector * SectorWords \in Nat
      /\ \A i \in 0 .. size - 1 : lastStored + i \in Address
  BY SearchFacts
<1>2. SUFFICES ASSUME NEW i \in 0 .. size - 1
               PROVE  SectorOf(lastStored + i) # n
  BY <1>1, Erased DEF LastKept
<1>3. lastStored + i \in Nat
  BY <1>1
<1> DEFINE q == SectorOf(lastStored + i)
<1>4. q \in Nat /\ q * SectorWords <= lastStored + i
      /\ lastStored + i < q * SectorWords + SectorWords
  BY <1>3, Sectors
<1> HIDE DEF q
<1>5. CASE n = LastSector + 1
  <2>1. (LastSector + 1) * SectorWords = LastSector * SectorWords + SectorWords
    BY <1>1
  <2>2. ASSUME q = n PROVE FALSE
    <3>1. LastSector * SectorWords + SectorWords <= lastStored + i
      BY <2>1, <2>2, <1>4, <1>5
    <3> QED
      BY <3>1, <1>1
  <2> QED
    BY <2>2 DEF q
<1>6. CASE n = 0 /\ lastStored >= SectorWords
  <2>1. ASSUME q = 0 PROVE FALSE
    <3>1. 0 * SectorWords = 0
      BY <1>1
    <3>2. lastStored + i < SectorWords
      BY <2>1, <3>1, <1>1, <1>4
    <3> QED
      BY <3>2, <1>1, <1>6
  <2> QED
    BY <2>1, <1>6 DEF q
<1> QED
  BY <1>5, <1>6

\* Taking the next slot goes on with the search, and the sector it may erase is
\* not one of the last slot.
LEMMA SearchGoesOn ==
    ASSUME SlotInv, Searching, TakeNextSlot
    PROVE  Searching' /\ LastKept
<1> DEFINE E == LastSector
           p == LastSector * SectorWords
<1>0. PICK next : next = NextSlot(slot)
  OBVIOUS
<1>1. step = "next" /\ step \in {"next", "write"} /\ step' = "write"
      /\ UNCHANGED <<size, lastStored>> /\ slot' = next
  BY <1>0 DEF TakeNextSlot
<1>2. /\ size \in Sizes /\ size \in Nat \ {0} /\ 2 * size <= SectorWords
      /\ slot \in Nat /\ lastStored \in Nat
      /\ slot + size <= LastValidAddress /\ lastStored + size <= LastValidAddress
      /\ SectorWords \in Nat /\ LastValidAddress \in Nat
      /\ 3 * SectorWords <= LastValidAddress + 1
      /\ E \in Nat /\ p \in Nat
      /\ (E + 1) * SectorWords = p + SectorWords
      /\ p <= lastStored + size - 1 /\ lastStored + size - 1 < p + SectorWords
  BY <1>1, SearchFacts
<1>3. IsSlot(slot) /\ IsSlot(lastStored)
  BY <1>1, RunningFacts DEF SlotInv, AtStep
<1>4. /\ next \in Nat
      /\ next = slot + size \/ (next = 0 /\ slot + size + size > LastValidAddress)
  BY <1>2, <1>3, <1>0, NextIsSlot
<1>5. IF EndSector(slot) # EndSector(next)
      THEN data' = EraseSector(data, EndSector(next)) /\ crossed' = TRUE /\ changed' = changed
      ELSE changed' = (changed \/ crossed) /\ data' = data /\ crossed' = crossed
  BY <1>1 DEF TakeNextSlot, EndSector
<1>6. LastSector' = E
  BY <1>1 DEF LastSector, EndSector
<1>7. EndSector(slot)' = EndSector(next)
  BY <1>1 DEF EndSector
<1>8. /\ EndSector(slot) = SectorOf(slot + size - 1)
      /\ EndSector(next) = SectorOf(next + size - 1)
      /\ slot + size - 1 \in Nat /\ next + size - 1 \in Nat
  BY <1>2, <1>4 DEF EndSector
<1>9. data' = data => LastKept
  BY DEF LastKept
<1>10. (SectorWords >= size) => SectorOf(size - 1) = 0
  <2>1. 0 * SectorWords = 0 /\ size - 1 \in Nat
    BY <1>2
  <2> QED
    BY <2>1, <1>2, SectorIs
<1> HIDE DEF LastValidAddress, E, p
\* In the sector of the last slot.
<1>11. CASE ~crossed /\ ~changed /\ EndSector(slot) = E /\ slot >= lastStored
  <2>1. CASE next = slot + size
    <3>1. EndSector(next) = E \/ EndSector(next) = E + 1
      <4>1. slot + size - 1 <= next + size - 1 /\ next + size - 1 <= slot + size - 1 + SectorWords
        BY <2>1, <1>2, <1>4
      <4> QED
        BY <4>1, <1>8, <1>11, SectorStep
    <3>2. CASE EndSector(next) = E
      <4>1. ~crossed' /\ ~changed' /\ data' = data
        BY <3>2, <1>5, <1>11
      <4>2. slot' >= lastStored' + size'
        BY <2>1, <1>1, <1>2, <1>11
      <4> QED
        BY <4>1, <4>2, <3>2, <1>1, <1>6, <1>7, <1>9 DEF Searching
    <3>3. CASE EndSector(next) = E + 1
      <4>1. crossed' /\ ~changed' /\ data' = EraseSector(data, E + 1)
        BY <3>3, <1>2, <1>5, <1>11
      <4>2. slot' >= lastStored' + size'
        BY <2>1, <1>1, <1>2, <1>11
      <4>3. slot + size - 1 < p + SectorWords
        <5>1. slot + size - 1 < E * SectorWords + SectorWords
          BY <1>8, <1>11, Sectors
        <5> QED
          BY <5>1 DEF p, E
      <4>4. p + SectorWords <= next + size - 1
        BY <3>3, <1>2, <1>8, Sectors
      <4>5. slot' <= (E + 1) * SectorWords /\ (E + 1) * SectorWords < slot' + size'
        BY <2>1, <4>3, <4>4, <1>1, <1>2, <1>4
      <4>6. LastKept
        BY <4>1, <1>1, EraseKeepsLast DEF E
      <4> QED
        BY <4>1, <4>2, <4>5, <4>6, <1>1, <1>6 DEF Searching
    <3> QED
      BY <3>1, <3>2, <3>3
  <2>2. CASE next = 0 /\ slot + size + size > LastValidAddress
    <3>1. EndSector(next) = 0
      BY <2>2, <1>2, <1>8, <1>10
    <3>2. E >= 2
      <4>1. slot + size - 1 >= 2 * SectorWords
        BY <2>2, <1>2
      <4>2. slot + size - 1 < p + SectorWords
        <5>1. slot + size - 1 < E * SectorWords + SectorWords
          BY <1>8, <1>11, Sectors
        <5> QED
          BY <5>1 DEF p, E
      <4>3. p > SectorWords
        BY <4>1, <4>2, <1>2
      <4>4. ASSUME E <= 1 PROVE FALSE
        <5>1. E * SectorWords <= 1 * SectorWords
          BY <4>4, <1>2, TimesMonotone
        <5> QED
          BY <5>1, <4>3, <1>2 DEF p, E
      <4> QED
        BY <4>4, <1>2
    <3>3. 2 * SectorWords <= p
      <4>1. 2 * SectorWords <= E * SectorWords
        BY <3>2, <1>2, TimesMonotone
      <4> QED
        BY <4>1 DEF p, E
    <3>4. lastStored >= SectorWords
      BY <3>3, <1>2
    <3>5. crossed' /\ ~changed' /\ data' = EraseSector(data, 0)
      BY <3>1, <3>2, <1>2, <1>5, <1>11
    <3>6. LastKept
      BY <3>4, <3>5, <1>1, EraseKeepsLast
    <3> QED
      BY <2>2, <3>4, <3>5, <3>6, <1>1 DEF Searching
  <2> QED
    BY <2>1, <2>2, <1>4
\* At the first slot that ends in the next sector.
<1>12. CASE /\ crossed /\ ~changed /\ slot >= lastStored + size
            /\ slot <= p + SectorWords /\ p + SectorWords < slot + size
  <2>1. EndSector(slot) = E + 1
    <3>1. E + 1 \in Nat
      BY <1>2
    <3>2. /\ (E + 1) * SectorWords <= slot + size - 1
          /\ slot + size - 1 < (E + 1) * SectorWords + SectorWords
      BY <1>2, <1>12
    <3> QED
      BY <3>1, <3>2, <1>8, SectorIs
  <2>2. CASE next = slot + size
    <3>1. EndSector(next) = E + 1
      <4>1. E + 1 \in Nat
        BY <1>2
      <4>2. /\ (E + 1) * SectorWords <= next + size - 1
            /\ next + size - 1 < (E + 1) * SectorWords + SectorWords
        BY <2>2, <1>2, <1>12
      <4> QED
        BY <4>1, <4>2, <1>8, SectorIs
    <3>2. changed' /\ data' = data
      BY <2>1, <3>1, <1>5, <1>12
    <3>3. slot' >= lastStored' + size'
      BY <2>2, <1>1, <1>2, <1>12
    <3> QED
      BY <3>2, <3>3, <1>1, <1>9 DEF Searching
  <2>3. CASE next = 0 /\ slot + size + size > LastValidAddress
    <3>1. EndSector(next) = 0
      BY <2>3, <1>2, <1>8, <1>10
    <3>6. EndSector(slot) # EndSector(next)
      BY <2>1, <3>1, <1>2
    <3>2. crossed' /\ ~changed' /\ data' = EraseSector(data, 0)
      BY <3>1, <3>6, <1>5, <1>12
    <3>3. SectorWords <= 2 * size /\ lastStored > size
      <4>1. (E + 1) * SectorWords < SectorWords * DataSectors
        BY <1>2, <1>12, Constants
      <4>2. E + 1 < DataSectors
        <5>1. ASSUME E + 1 >= DataSectors PROVE FALSE
          <6>1. DataSectors * SectorWords <= (E + 1) * SectorWords
            BY <5>1, <1>2, Constants, TimesMonotone
          <6>2. DataSectors * SectorWords = SectorWords * DataSectors
                /\ DataSectors * SectorWords \in Nat /\ (E + 1) * SectorWords \in Nat
            BY <1>2, Constants
          <6> QED
            BY <6>1, <6>2, <4>1
        <5> QED
          BY <5>1, <1>2, Constants
      <4>3. (E + 2) * SectorWords <= DataSectors * SectorWords
        BY <4>2, <1>2, Constants, TimesMonotone
      <4>4. (E + 2) * SectorWords = p + SectorWords + SectorWords
        BY <1>2 DEF p, E
      <4>5. DataSectors * SectorWords = LastValidAddress + 1
        BY <1>2, Constants
      <4>6. p + SectorWords + SectorWords <= slot + size + size
        BY <4>3, <4>4, <4>5, <2>3, <1>2
      <4>7. SectorWords <= 2 * size
        BY <4>6, <1>2, <1>12
      <4>8. p >= SectorWords
        <5>1. slot + size + size >= 3 * SectorWords
          BY <2>3, <1>2
        <5> QED
          BY <5>1, <4>7, <1>2, <1>12
      <4> QED
        BY <4>7, <4>8, <1>2
    <3>4. lastStored >= SectorWords
      <4>1. PICK id \in SlotIds(size) : lastStored = size * id
        BY <1>3 DEF IsSlot
      <4>2. id \in Nat
        BY <4>1, <1>2, SlotFacts
      <4>3. ASSUME id <= 1 PROVE FALSE
        <5>1. id * size <= 1 * size
          BY <4>2, <4>3, <1>2, TimesMonotone
        <5>2. id * size = size * id
          BY <4>2, <1>2
        <5> QED
          BY <5>1, <5>2, <4>1, <3>3, <1>2
      <4>4. 2 * size <= id * size
        BY <4>2, <4>3, <1>2, TimesMonotone
      <4>5. id * size = size * id
        BY <4>2, <1>2
      <4> QED
        BY <4>1, <4>4, <4>5, <3>3, <1>2
    <3>5. LastKept
      BY <3>2, <3>4, <1>1, EraseKeepsLast
    <3> QED
      BY <2>3, <3>2, <3>4, <3>5, <1>1 DEF Searching
  <2> QED
    BY <2>2, <2>3, <1>4
\* At the first slot of the ring.
<1>13. CASE crossed /\ ~changed /\ slot = 0 /\ lastStored >= SectorWords
  <2>1. next = size
    BY <1>2, <1>4, <1>13
  <2>2. EndSector(slot) = 0
    BY <1>2, <1>8, <1>10, <1>13
  <2>3. EndSector(next) = 0
    <3>1. 0 * SectorWords = 0 /\ next + size - 1 < SectorWords
      BY <2>1, <1>2
    <3> QED
      BY <3>1, <1>2, <1>8, SectorIs
  <2>4. changed' /\ data' = data
    BY <2>2, <2>3, <1>5, <1>13
  <2> QED
    BY <2>1, <2>4, <1>1, <1>9, <1>13 DEF Searching
<1> QED
  <2>1. p = LastSector * SectorWords
    BY DEF p
  <2> QED
    BY <2>1, <1>1, <1>2, <1>11, <1>12, <1>13 DEF Searching, E

\* The words written while a slot is tried are not those of the last one.
LEMMA WritesElsewhere ==
    ASSUME SlotInv, Searching, step = "write", NEW i \in 0 .. size - 1,
           NEW j \in 0 .. size - 1
    PROVE  slot + i # lastStored + j
  BY SearchFacts DEF Searching
-----------------------------------------------------------------------------
(* The second invariant holds of the initial states and of every step, unless  *)
(* power fails between two bytes of the bitmap.                                *)

\* The main copy stays readable while it does not change.
LEMMA ReadableStays ==
    ASSUME MainReadable, step # "bytes" \/ copy = "backup",
           main'.bitmap = main.bitmap, main'.config = main.config
    PROVE  MainReadable'
<1>1. PICK id \in 0 .. LastValidAddress :
         /\ main.bitmap = BitmapOf(id)
         /\ main.config = Blank => id = 0
         /\ main.config \in Sizes => id \in SlotIds(main.config)
  BY DEF MainReadable
<1> QED
  BY <1>1 DEF MainReadable

\* It is readable when it names a slot of its size.
LEMMA ReadableNamed ==
    ASSUME main'.config \in Sizes,
           NEW id \in SlotIds(main'.config), main'.bitmap = BitmapOf(id)
    PROVE  MainReadable'
<1>1. id \in 0 .. LastValidAddress /\ main'.config # Blank
  BY SizeFacts DEF SlotIds
<1> QED
  BY <1>1 DEF MainReadable

\* An erased main copy is readable.
LEMMA ReadableErased ==
    ASSUME main'.bitmap = BitmapOf(0)
    PROVE  MainReadable'
<1>1. 0 \in 0 .. LastValidAddress
  BY Constants
<1>2. main'.config \in Sizes => 0 \in SlotIds(main'.config)
  BY FirstSlot
<1> QED
  BY <1>1, <1>2 DEF MainReadable

\* The directory of a new device is erased.
LEMMA InitKeep == ASSUME Init PROVE KeepInv
<1>1. main = ErasedDirectory
  BY DEF Init, main, Copies
<1>2. main.bitmap = BitmapOf(0) /\ main.config = Blank
  BY <1>1, ErasedIsFirst, ErasedFacts
<1>3. 0 \in 0 .. LastValidAddress /\ Blank \notin Sizes
  BY Constants, SizeFacts
<1> QED
  BY <1>2, <1>3 DEF Init, KeepInv, MainReadable, Stored, Searching, Rewriting

\* Boot reads the slot the directory names.
LEMMA BootKeep == ASSUME SlotInv, KeepInv, Boot PROVE KeepInv'
<1>1. Source = "main" /\ main.tag /\ main.config \in Sizes
  BY DEF SlotInv, BackupUntagged, Boot, Source, Loadable, main, backup
<1>2. /\ step = "off" /\ step' = "sizeCheck" /\ initDone'
      /\ size' = main.config /\ slot' = MappedSlot("main")
      /\ UNCHANGED directory
  BY <1>1 DEF Boot, main, flash
<1>3. PICK id \in SlotIds(main.config) : main.bitmap = BitmapOf(id)
  BY <1>1, <1>2 DEF KeepInv, MainReadable
<1>4. slot' = main.config * id
  BY <1>1, <1>2, <1>3, BitmapMaps DEF SlotInv, TypeOK
<1>5. main' = main
  BY <1>2 DEF main
<1>6. Names(slot)'
  BY <1>1, <1>2, <1>3, <1>4, <1>5 DEF Names
<1>7. MainReadable'
  BY <1>2, <1>5, ReadableStays DEF KeepInv
<1> QED
  BY <1>2, <1>6, <1>7 DEF KeepInv, Stored, Searching, Rewriting

\* Boot of a new device leaves the directory.
LEMMA FirstBootKeep == ASSUME SlotInv, KeepInv, FirstBoot PROVE KeepInv'
<1>1. step = "off" /\ step' = "config" /\ ~initDone' /\ main' = main
  BY DEF FirstBoot, main, flash
<1>2. MainReadable'
  BY <1>1, ReadableStays DEF KeepInv
<1> QED
  BY <1>1, <1>2 DEF KeepInv, Stored, Searching, Rewriting

\* The state is loaded from the slot the directory names.
LEMMA LoadStateKeep == ASSUME SlotInv, KeepInv, LoadState PROVE KeepInv'
<1>1. /\ step = "sizeCheck" /\ step' = "idle" /\ size = deviceSize
      /\ UNCHANGED <<directory, data, size, slot, lastStored, valid>> /\ main' = main
  BY DEF LoadState, main, flash, position
<1>2. size # Blank
  BY <1>1, SizeFacts DEF SlotInv, TypeOK
<1>3. valid /\ slot = lastStored
  BY <1>1 DEF SlotInv, Checking
<1>4. Names(lastStored)'
  BY <1>1, <1>2, <1>3 DEF KeepInv, Stored, Names
<1>5. MainReadable'
  BY <1>1, ReadableStays DEF KeepInv
<1> QED
  BY <1>1, <1>3, <1>4, <1>5 DEF KeepInv, Stored, Searching, Rewriting

\* A state of another size is dropped.
LEMMA DropStateKeep == ASSUME SlotInv, KeepInv, DropState PROVE KeepInv'
<1>1. /\ step = "sizeCheck" /\ step' = "idle" /\ size # deviceSize /\ size' = deviceSize
      /\ ~valid' /\ lastStored' = 0 /\ data' = EraseSector(data, 0) /\ main' = main
  BY DEF DropState, main
<1>2. main.tag /\ main.config = size
  BY <1>1 DEF SlotInv, Checking
<1>3. data'[0] = Blank
  <2>1. 0 \in Address /\ 0 * SectorWords <= 0 /\ 0 < 0 * SectorWords + SectorWords
    BY Constants
  <2>2. SectorOf(0) = 0
    BY <2>1, SectorIs
  <2> QED
    BY <2>1, <2>2, <1>1, Erased
<1>4. MainReadable'
  BY <1>1, ReadableStays DEF KeepInv
<1> QED
  BY <1>1, <1>2, <1>3, <1>4 DEF KeepInv, Stored, Searching, Rewriting

\* A save begins at the last slot.
LEMMA SaveStateKeep == ASSUME SlotInv, KeepInv, NEW v \in States, SaveState(v) PROVE KeepInv'
<1>1. /\ step = "idle" /\ step' = "next" /\ ~crossed' /\ ~changed' /\ main' = main
      /\ UNCHANGED <<directory, data, initDone, size, slot, lastStored, valid>>
  BY DEF SaveState, main, flash, position
<1>2. slot = lastStored /\ slot \in Nat
  BY <1>1, RunningFacts DEF SlotInv, AtStep
<1>3. MainReadable'
  BY <1>1, ReadableStays DEF KeepInv
<1>4. Stored'
  BY <1>1 DEF KeepInv, Stored, Names
<1>5. Searching'
  BY <1>1, <1>2 DEF Searching, LastSector, EndSector
<1> QED
  BY <1>1, <1>3, <1>4, <1>5 DEF KeepInv, Rewriting

\* The directory stays as it is while a slot is searched for, and so does the last
\* slot.
LEMMA StoredStays ==
    ASSUME SlotInv, Stored, step \in {"next", "write"}, step' \in {"next", "write", "error"},
           LastKept, main' = main, UNCHANGED <<size, lastStored, valid>>
    PROVE  Stored'
<1>1. ~valid => lastStored = 0
  BY DEF Stored
<1>2. lastStored = 0 => data'[0] = data[0]
  <2> SUFFICES ASSUME lastStored = 0 PROVE data'[0] = data[0]
    OBVIOUS
  <2>1. 0 \in 0 .. size - 1 /\ lastStored + 0 = 0
    BY SearchFacts
  <2>2. data'[lastStored + 0] = data[lastStored + 0]
    BY <2>1 DEF LastKept
  <2> QED
    BY <2>1, <2>2
<1> QED
  BY <1>1, <1>2 DEF Stored, Names

\* The search goes on.
LEMMA TakeNextSlotKeep ==
    ASSUME SlotInv, KeepInv, TakeNextSlot
    PROVE  KeepInv' /\ LastKept
<1>1. /\ step = "next" /\ step' = "write" /\ main' = main
      /\ UNCHANGED <<directory, initDone, size, lastStored, valid>>
  BY DEF TakeNextSlot, main
<1>2. Searching' /\ LastKept
  BY SearchGoesOn DEF KeepInv
<1>3. Stored'
  BY <1>1, <1>2, StoredStays DEF KeepInv
<1>4. MainReadable'
  BY <1>1, ReadableStays DEF KeepInv
<1> QED
  BY <1>1, <1>2, <1>3, <1>4 DEF KeepInv, Rewriting

\* A word is written outside the last slot.
LEMMA WriteWordKeep ==
    ASSUME SlotInv, KeepInv, WriteWord
    PROVE  KeepInv' /\ LastKept
<1>1. /\ step = "write" /\ step' = "write" /\ main' = main /\ pos < size
      /\ \/ data' = [data EXCEPT ![slot + pos] = Program(@, buffer)]
         \/ data' = [data EXCEPT ![slot + pos] = Dirty]
      /\ UNCHANGED <<directory, initDone, size, slot, lastStored, valid, crossed, changed>>
  BY DEF WriteWord, main, position
<1>2. pos \in 0 .. size - 1
  BY <1>1, SearchFacts DEF SlotInv, TypeOK
<1>3. LastKept
  <2> SUFFICES ASSUME NEW j \in 0 .. size - 1
               PROVE  data'[lastStored + j] = data[lastStored + j]
    BY DEF LastKept
  <2>1. slot + pos # lastStored + j
    BY <1>1, <1>2, WritesElsewhere DEF KeepInv
  <2>2. lastStored + j \in Address /\ DOMAIN data = Address
    BY <1>1, SearchFacts DEF SlotInv, TypeOK
  <2> QED
    BY <1>1, <2>1, <2>2
<1>4. Stored'
  BY <1>1, <1>3, StoredStays DEF KeepInv
<1>5. MainReadable'
  BY <1>1, ReadableStays DEF KeepInv
<1>6. Searching'
  BY <1>1 DEF KeepInv, Searching, LastSector, EndSector
<1> QED
  BY <1>1, <1>3, <1>4, <1>5, <1>6 DEF KeepInv, Rewriting

\* The directory is about to be written for a slot that holds the state.
LEMMA VerifiedKeep == ASSUME SlotInv, KeepInv, Verified PROVE KeepInv'
<1> DEFINE id == slot \div size
<1>1. /\ step = "write" /\ step' = "config" /\ main' = main /\ copy' = "main" /\ valid'
      /\ SlotHolds(slot, size, buffer)
      /\ eraseNeeded' = (lastStored > slot)
      /\ UNCHANGED <<directory, data, initDone, size, slot, buffer>>
  BY DEF Verified, main, flash
<1>2. initDone /\ size \in Nat \ {0} /\ size # Blank
  BY <1>1, RunningFacts DEF SlotInv, AtStep
<1>3. id \in SlotIds(size) /\ slot = size * id
  BY <1>1, <1>2, CurrentId
<1>4. main.tag
  BY <1>1 DEF KeepInv, Stored, Names
<1>5. ASSUME main.config = size, ~eraseNeeded'
      PROVE  \E old \in 0 .. id : main.bitmap = BitmapOf(old)
  <2>1. Names(lastStored)
    BY <1>1, <1>5 DEF KeepInv, Stored
  <2>2. PICK old \in SlotIds(size) : main.bitmap = BitmapOf(old) /\ lastStored = size * old
    BY <2>1 DEF Names
  <2>3. old \in Nat /\ id \in Nat
    BY <1>3, Constants DEF SlotIds
  <2> HIDE DEF id
  <2>4. ASSUME old > id PROVE FALSE
    <3>1. (id + 1) * size <= old * size
      BY <2>3, <2>4, <1>2, TimesMonotone
    <3>2. (id + 1) * size = size * id + size /\ old * size = size * old
          /\ size * id \in Nat /\ size * old \in Nat
      BY <2>3, <1>2
    <3>3. lastStored = size * old /\ slot = size * id
      BY <2>2, <1>3
    <3>4. ~(lastStored > slot)
      BY <1>1, <1>5
    <3> QED
      BY <3>1, <3>2, <3>3, <3>4, <1>2
  <2>5. old \in 0 .. id
    BY <2>3, <2>4
  <2> QED
    BY <2>2, <2>5
<1>6. main.config = Blank => data[0] = Blank
  BY <1>1, <1>2 DEF KeepInv, Stored, Names
<1>7. MainRewritten(id)'
  <2>1. eraseNeeded' \/ main.config # size \/ \E old \in 0 .. id : main.bitmap = BitmapOf(old)
    BY <1>5
  <2>2. id' = id
    BY <1>1
  <2> HIDE DEF id
  <2> QED
    BY <2>1, <2>2, <1>1, <1>4, <1>6 DEF MainRewritten
<1>8. SlotHolds(slot, size, buffer)'
  BY <1>1 DEF SlotHolds
<1>9. MainReadable'
  BY <1>1, ReadableStays DEF KeepInv
<1>10. Rewriting'
  <2>1. id' = id
    BY <1>1
  <2>2. id \in SlotIds(size') /\ slot' = size' * id
    BY <1>1, <1>3
  <2> HIDE DEF id
  <2>3. \E k \in SlotIds(size') : slot' = size' * k /\ MainRewritten(k)'
    BY <2>1, <2>2, <1>7
  <2> QED
    BY <2>3, <1>1, <1>2, <1>8 DEF Rewriting
<1> QED
  BY <1>1, <1>9, <1>10 DEF KeepInv, Stored, Searching

\* The next slot is to be tried.
LEMMA TryAgainKeep == ASSUME SlotInv, KeepInv, TryAgain PROVE KeepInv'
<1>1. /\ step = "write" /\ step' = "next" /\ main' = main /\ ~changed
      /\ UNCHANGED <<directory, data, initDone, size, slot, lastStored, valid, crossed, changed>>
  BY DEF TryAgain, main, flash, position, search
<1>2. LastKept
  BY <1>1 DEF LastKept
<1>3. Stored'
  BY <1>1, <1>2, StoredStays DEF KeepInv
<1>4. MainReadable'
  BY <1>1, ReadableStays DEF KeepInv
<1>5. Searching'
  <2>1. size \in Nat /\ slot \in Nat /\ lastStored \in Nat
    BY <1>1, SearchFacts
  <2> QED
    BY <1>1, <2>1 DEF KeepInv, Searching, LastSector, EndSector
<1> QED
  BY <1>1, <1>3, <1>4, <1>5 DEF KeepInv, Rewriting

\* The storage gives up.
LEMMA WriteFailedKeep == ASSUME SlotInv, KeepInv, WriteFailed PROVE KeepInv'
<1>1. step = "write" /\ step' = "error" /\ main' = main
  BY DEF WriteFailed, main, flash
<1>2. MainReadable'
  BY <1>1, ReadableStays DEF KeepInv
<1> QED
  BY <1>1, <1>2 DEF KeepInv, Stored, Searching, Rewriting
AtDirectory == step \in {"config", "erase", "rewrite", "bitmap", "bytes", "tag"}

\* While the main copy is written the slot has a number.
LEMMA MainWriting ==
    ASSUME SlotInv, KeepInv, initDone, AtDirectory, copy = "main"
    PROVE  \E id \in SlotIds(size) :
              slot = size * id /\ id = slot \div size /\ MainRewritten(id)
<1>1. size \in Sizes
  BY RunningFacts DEF AtDirectory
<1>2. PICK id \in SlotIds(size) : slot = size * id /\ MainRewritten(id)
  BY DEF KeepInv, Rewriting, AtDirectory
<1>3. slot \div size = id
  BY <1>1, <1>2, SlotFacts
<1> QED
  BY <1>2, <1>3

\* Steps that only write the directory keep what is known of the slot.
LEMMA DirectoryStep ==
    ASSUME SlotInv, KeepInv, initDone, AtDirectory, AtDirectory',
           UNCHANGED <<data, position, buffer>>,
           IF copy' = "main"
           THEN \E id \in SlotIds(size) : slot = size * id /\ MainRewritten(id)'
           ELSE Names(slot)'
    PROVE  Stored' /\ Searching' /\ Rewriting'
<1>1. /\ initDone' /\ slot' = slot /\ size' = size /\ valid' = valid /\ buffer' = buffer
      /\ data' = data
  BY DEF position
<1>2. valid /\ SlotHolds(slot, size, buffer)
  BY DEF KeepInv, Rewriting, AtDirectory
<1>3. SlotHolds(slot, size, buffer)'
  BY <1>1, <1>2 DEF SlotHolds
<1>4. CASE copy' = "main"
  <2>1. PICK id \in SlotIds(size) : slot = size * id /\ MainRewritten(id)'
    BY <1>4
  <2>2. \E k \in SlotIds(size') : slot' = size' * k /\ MainRewritten(k)'
    BY <2>1, <1>1
  <2> QED
    BY <2>2, <1>1, <1>2, <1>3, <1>4 DEF Stored, Searching, Rewriting, AtDirectory
<1>5. CASE copy' # "main"
  BY <1>1, <1>2, <1>3, <1>5 DEF Stored, Searching, Rewriting, AtDirectory
<1> QED
  BY <1>4, <1>5

\* Steps that write the backup leave the main copy as it names the slot.
LEMMA BackupStep ==
    ASSUME SlotInv, KeepInv, initDone, AtDirectory, AtDirectory', copy = "backup",
           copy' = "backup", main' = main, UNCHANGED <<data, position, buffer>>
    PROVE  KeepInv'
<1>1. Names(slot)
  BY DEF KeepInv, Rewriting, AtDirectory
<1>2. Names(slot)'
  BY <1>1 DEF Names, position
<1>3. MainReadable'
  BY ReadableStays DEF KeepInv
<1> QED
  BY <1>2, <1>3, DirectoryStep DEF KeepInv

\* Steps of the setting up that leave bits and configuration of the main copy.
LEMMA SetUpStep ==
    ASSUME SlotInv, KeepInv, ~initDone, ~initDone', AtDirectory, AtDirectory',
           main'.bitmap = main.bitmap, main'.config = main.config
    PROVE  KeepInv'
<1>1. step # "bytes"
  BY DEF SlotInv, AtStep
<1>2. MainReadable'
  BY <1>1, ReadableStays DEF KeepInv
<1> QED
  BY <1>2 DEF KeepInv, Stored, Searching, Rewriting, AtDirectory

\* The configuration is written: a directory for another size is to be erased, and
\* one without a size names the first slot.
LEMMA WriteConfigKeep == ASSUME SlotInv, KeepInv, WriteConfig PROVE KeepInv'
<1> DEFINE config == IF initDone THEN size ELSE Blank
           d == directory[copy]
           e == directory'[copy]
<1>1. /\ step = "config"
      /\ directory' = [directory EXCEPT ![copy].config = Program(@, config)]
      /\ eraseNeeded' = (eraseNeeded \/ e.config # config)
      /\ step' = IF eraseNeeded' THEN "erase" ELSE IF initDone THEN "bitmap" ELSE "tag"
      /\ UNCHANGED <<data, position, buffer, search, copy, tagRead, low, loaded, device>>
  BY Zenon DEF WriteConfig
<1>2. config \in Sizes \cup {Blank} /\ (initDone => config = size /\ size \in Sizes)
  BY <1>1, RunningFacts DEF SlotInv, TypeOK
<1>3. /\ e.tag = d.tag /\ e.bitmap = d.bitmap
      /\ e.config = Program(d.config, config)
      /\ main' = IF copy = "main" THEN e ELSE main
  BY <1>1, <1>2, ConfigWritten
<1>4. copy \in {"main", "backup"} /\ d = IF copy = "main" THEN main ELSE backup
  BY DEF SlotInv, TypeOK, Copies, main, backup
<1>5. AtDirectory /\ AtDirectory' /\ initDone' = initDone
  BY <1>1 DEF AtDirectory, position
<1>6. ~initDone => config = Blank
  OBVIOUS
<1> HIDE DEF config, d, e
<1>7. CASE ~initDone
  <2>1. main'.bitmap = main.bitmap /\ main'.config = main.config
    BY <1>3, <1>4, <1>6, <1>7 DEF Program
  <2> QED
    BY <2>1, <1>5, <1>7, SetUpStep
<1>8. CASE initDone /\ copy = "backup"
  BY <1>1, <1>3, <1>5, <1>8, BackupStep
<1>9. CASE initDone /\ copy = "main"
  <2>1. size \in Sizes /\ config = size
    BY <1>2, <1>9
  <2>2. PICK id \in SlotIds(size) : slot = size * id /\ MainRewritten(id)
    BY <1>5, <1>9, MainWriting
  <2>3. /\ main.tag
        /\ main.config = size =>
              eraseNeeded \/ \E old \in 0 .. id : main.bitmap = BitmapOf(old)
    BY <2>2, <1>1 DEF MainRewritten
  <2>4. PICK now \in 0 .. LastValidAddress :
           /\ main.bitmap = BitmapOf(now)
           /\ main.config = Blank => now = 0
           /\ main.config \in Sizes => now \in SlotIds(main.config)
    BY <1>1 DEF KeepInv, MainReadable
  <2>5. /\ main'.tag /\ main'.bitmap = main.bitmap
        /\ main'.config = Program(main.config, size) /\ main' = e
    BY <2>1, <2>3, <1>3, <1>4, <1>9
  <2>6. 0 \in 0 .. id /\ 0 \in SlotIds(size)
    BY <2>1, <2>2, SlotFacts, FirstSlot
  <2>7. size # Blank /\ size # Dirty /\ Blank # Dirty /\ Dirty \notin Sizes
    BY <2>1, SizeFacts, ValueFacts
  <2>8. \/ main'.config = size /\ main.config = Blank /\ now = 0
        \/ main'.config = size /\ main.config = size
        \/ main'.config = main.config /\ size = Blank
        \/ main'.config = Dirty
    BY <2>4, <2>5 DEF Program
  <2>9. MainReadable'
    BY <2>1, <2>4, <2>5, <2>6, <2>7, <2>8 DEF MainReadable
  <2>10. MainRewritten(id)'
    <3>1. CASE eraseNeeded'
      BY <2>5, <1>1, <3>1 DEF MainRewritten
    <3>2. CASE ~eraseNeeded'
      <4>1. step' = "bitmap" /\ ~eraseNeeded /\ main'.config = size
        BY <3>2, <2>1, <2>5, <1>1, <1>9
      <4>2. \E old \in 0 .. id : main.bitmap = BitmapOf(old)
        BY <4>1, <2>3, <2>4, <2>6, <2>7, <2>8
      <4> QED
        BY <3>2, <4>1, <4>2, <2>5 DEF MainRewritten
    <3> QED
      BY <3>1, <3>2
  <2> QED
    BY <2>2, <2>9, <2>10, <1>1, <1>5, <1>9, DirectoryStep DEF KeepInv
<1> QED
  BY <1>4, <1>7, <1>8, <1>9

\* The main preamble is read, and the copy is erased.
LEMMA EraseDirectoryKeep == ASSUME SlotInv, KeepInv, EraseDirectory PROVE KeepInv'
<1>1. /\ step = "erase" /\ step' = "rewrite"
      /\ tagRead' = (initDone /\ directory[copy].tag)
      /\ UNCHANGED <<data, position, buffer, copy, eraseNeeded>>
  BY DEF EraseDirectory
<1>2. copy \in Copies /\ directory \in [Copies -> Directory]
  BY DEF SlotInv, TypeOK
<1>3. main' = IF copy = "main" THEN ErasedDirectory ELSE main
  BY <1>2, CopyChanges, ErasedFacts DEF EraseDirectory
<1>4. AtDirectory /\ AtDirectory' /\ initDone' = initDone
  BY <1>1 DEF AtDirectory, position
<1>5. CASE copy = "main"
  <2>1. MainReadable'
    BY <1>3, <1>5, ErasedIsFirst, ReadableErased
  <2>2. CASE initDone
    <3>1. PICK id \in SlotIds(size) : slot = size * id /\ MainRewritten(id)
      BY <1>4, <1>5, <2>2, MainWriting
    <3>2. main.tag /\ eraseNeeded
      BY <3>1, <1>1 DEF MainRewritten
    <3>3. MainRewritten(id)'
      BY <3>2, <2>2, <1>1, <1>5 DEF MainRewritten, main
    <3> QED
      BY <2>1, <2>2, <3>1, <3>3, <1>1, <1>4, <1>5, DirectoryStep DEF KeepInv
  <2>3. CASE ~initDone
    BY <2>1, <2>3, <1>1, <1>4 DEF KeepInv, Stored, Searching, Rewriting
  <2> QED
    BY <2>2, <2>3
<1>6. CASE copy = "backup"
  <2>1. CASE initDone
    BY <2>1, <1>1, <1>3, <1>4, <1>6, BackupStep
  <2>2. CASE ~initDone
    BY <2>2, <1>3, <1>4, <1>6, SetUpStep
  <2> QED
    BY <2>1, <2>2
<1> QED
  BY <1>2, <1>5, <1>6 DEF Copies

\* The erased copy gets its configuration.
LEMMA RewriteConfigKeep == ASSUME SlotInv, KeepInv, RewriteConfig PROVE KeepInv'
<1>1. /\ step = "rewrite" /\ step' = IF initDone THEN "bitmap" ELSE "tag"
      /\ UNCHANGED <<data, position, buffer, copy, eraseNeeded, tagRead>>
  BY DEF RewriteConfig, rewrite
<1>2. AtDirectory /\ AtDirectory' /\ initDone' = initDone
  BY <1>1 DEF AtDirectory, position
<1>3. CASE ~initDone
  <2>1. main' = main
    BY <1>3 DEF RewriteConfig, main
  <2> QED
    BY <2>1, <1>2, <1>3, SetUpStep
<1>4. CASE initDone
  <2> DEFINE d == directory[copy]
             e == directory'[copy]
  <2>1. size \in Sizes
    BY <1>1, <1>4, RunningFacts
  <2>2. directory' = [directory EXCEPT ![copy].config = Program(@, size)]
    BY <1>4 DEF RewriteConfig
  <2>3. /\ e.tag = d.tag /\ e.bitmap = d.bitmap
        /\ e.config = Program(d.config, size)
        /\ main' = IF copy = "main" THEN e ELSE main
    BY <2>1, <2>2, ConfigWritten
  <2>4. copy \in {"main", "backup"} /\ d = IF copy = "main" THEN main ELSE backup
    BY DEF SlotInv, TypeOK, Copies, main, backup
  <2> HIDE DEF d, e
  <2>5. CASE copy = "backup"
    BY <2>3, <2>5, <1>1, <1>2, <1>4, BackupStep
  <2>6. CASE copy = "main"
    <3>1. PICK id \in SlotIds(size) : slot = size * id /\ MainRewritten(id)
      BY <1>2, <1>4, <2>6, MainWriting
    <3>2. main = ErasedDirectory
      BY <1>1, <1>4, <2>6 DEF SlotInv, AtStep
    <3>3. main'.bitmap = BitmapOf(0) /\ ~main'.tag
      BY <2>3, <2>4, <2>6, <3>2, ErasedFacts, ErasedIsFirst
    <3>4. tagRead /\ eraseNeeded
      BY <3>1, <1>1 DEF MainRewritten
    <3>5. 0 \in 0 .. id
      BY <2>1, <3>1, SlotFacts
    <3>6. MainRewritten(id)'
      BY <3>3, <3>4, <3>5, <1>1, <1>4 DEF MainRewritten
    <3>7. MainReadable'
      BY <3>3, ReadableErased
    <3> QED
      BY <2>6, <3>1, <3>6, <3>7, <1>1, <1>2, <1>4, DirectoryStep DEF KeepInv
  <2> QED
    BY <2>4, <2>5, <2>6
<1> QED
  BY <1>3, <1>4
\* The bit of the slot is written over the bitmap of an earlier slot.
LEMMA BitmapOutcome ==
    ASSUME SlotInv, KeepInv, WriteBitmap, copy = "main"
    PROVE  \E id \in SlotIds(size) : \E old \in 0 .. id :
              /\ slot = size * id
              /\ main.config = size /\ main.bitmap = BitmapOf(old)
              /\ main'.config = size /\ main'.tag = main.tag
              /\ IF eraseNeeded THEN tagRead /\ ~main.tag ELSE main.tag
              /\ \/ /\ step' = "bytes" /\ low' = id \div BitsPerByte - 1
                    /\ old \div BitsPerByte < id \div BitsPerByte
                    /\ main'.bitmap = BitmapBetween(old, id, low')
                 \/ /\ step' = "tag"
                    /\ main'.bitmap = BitmapOf(id)
<1> DEFINE m == (slot \div size) \div BitsPerByte
           zeros == (slot \div size) % BitsPerByte
           d == directory[copy]
           e == directory'[copy]
<1>1. /\ step = "bitmap"
      /\ directory' = [directory EXCEPT ![copy].bitmap = ClearBits(@, m, zeros)]
      /\ low' = m - 1
      /\ step' = IF m > 0 /\ d.bitmap[m - 1] < BitsPerByte THEN "bytes" ELSE "tag"
  BY Zenon DEF WriteBitmap
<1>2. initDone /\ AtDirectory /\ size \in Sizes
  BY <1>1, RunningFacts DEF AtDirectory, SlotInv, AtStep
<1>3. PICK id \in SlotIds(size) :
         slot = size * id /\ id = slot \div size /\ MainRewritten(id)
  BY <1>2, MainWriting
<1>4. m = id \div BitsPerByte /\ zeros = id % BitsPerByte
  BY <1>3
<1>5. /\ m \in 0 .. BitmapBytes - 1 /\ zeros \in 0 .. BitsPerByte - 1
      /\ BitsPerByte \in Nat
  BY <1>2, <1>4, IdBits, Constants
<1>6. zeros \in Byte /\ m \in Int
  BY <1>5 DEF Byte
<1> HIDE DEF m, zeros
<1>7. /\ e.tag = d.tag /\ e.config = d.config
      /\ e.bitmap \in Bitmap
      /\ \A b \in 0 .. BitmapBytes - 1 :
            e.bitmap[b] = IF b = m /\ zeros > d.bitmap[b] THEN zeros ELSE d.bitmap[b]
      /\ main' = IF copy = "main" THEN e ELSE main
  BY <1>1, <1>6, BitsCleared
<1>8. d = main /\ main' = e
  BY <1>7 DEF main
<1> HIDE DEF d, e
<1>9. PICK old \in 0 .. id : main.bitmap = BitmapOf(old)
  BY <1>1, <1>3 DEF MainRewritten
<1>10. /\ main.config = size
       /\ IF eraseNeeded THEN tagRead /\ ~main.tag ELSE main.tag
  BY <1>1, <1>2, <1>3 DEF MainRewritten, SlotInv, AtStep
<1>11. /\ main'.bitmap \in Bitmap
       /\ \A b \in 0 .. BitmapBytes - 1 :
             main'.bitmap[b] = IF b = m /\ id % BitsPerByte > BitmapOf(old)[b]
                               THEN id % BitsPerByte ELSE BitmapOf(old)[b]
  BY <1>4, <1>7, <1>8, <1>9
<1>12. /\ m > 0 /\ BitmapOf(old)[m - 1] < BitsPerByte =>
             /\ old \div BitsPerByte < m
             /\ main'.bitmap = BitmapBetween(old, id, m - 1)
       /\ ~(m > 0 /\ BitmapOf(old)[m - 1] < BitsPerByte) => main'.bitmap = BitmapOf(id)
  <2>1. \A new \in Bitmap :
           (\A b \in 0 .. BitmapBytes - 1 :
               new[b] = IF b = m /\ id % BitsPerByte > BitmapOf(old)[b]
                        THEN id % BitsPerByte ELSE BitmapOf(old)[b])
           => /\ m > 0 /\ BitmapOf(old)[m - 1] < BitsPerByte =>
                   /\ old \div BitsPerByte < m
                   /\ new = BitmapBetween(old, id, m - 1)
              /\ ~(m > 0 /\ BitmapOf(old)[m - 1] < BitsPerByte) => new = BitmapOf(id)
    BY <1>2, <1>4, BitOverEarlier
  <2> QED
    BY <1>11, <2>1
<1>13. main'.config = size /\ main'.tag = main.tag
  BY <1>7, <1>8, <1>10
<1>14. CASE m > 0 /\ BitmapOf(old)[m - 1] < BitsPerByte
  BY <1>1, <1>3, <1>4, <1>8, <1>9, <1>10, <1>12, <1>13, <1>14
<1>15. CASE ~(m > 0 /\ BitmapOf(old)[m - 1] < BitsPerByte)
  BY <1>1, <1>3, <1>8, <1>9, <1>10, <1>12, <1>13, <1>15
<1> QED
  BY <1>14, <1>15

\* The directory names the slot, or the earlier bytes are to be cleared.
LEMMA WriteBitmapKeep == ASSUME SlotInv, KeepInv, WriteBitmap PROVE KeepInv'
<1>1. /\ step = "bitmap" /\ step' \in {"bytes", "tag"}
      /\ UNCHANGED <<data, position, buffer, copy, eraseNeeded, tagRead>>
  BY DEF WriteBitmap
<1>2. AtDirectory /\ AtDirectory' /\ initDone /\ initDone' = initDone
  BY <1>1 DEF AtDirectory, position, SlotInv, AtStep
<1>3. copy \in {"main", "backup"}
  BY DEF SlotInv, TypeOK, Copies
<1>4. CASE copy = "backup"
  <2>1. main' = main
    BY <1>4 DEF WriteBitmap, main
  <2> QED
    BY <2>1, <1>1, <1>2, <1>4, BackupStep
<1>5. CASE copy = "main"
  <2>0. PICK id \in SlotIds(size) : \E old \in 0 .. id :
           /\ slot = size * id
           /\ main'.config = size /\ main'.tag = main.tag
           /\ IF eraseNeeded THEN tagRead /\ ~main.tag ELSE main.tag
           /\ \/ /\ step' = "bytes"
                 /\ old \div BitsPerByte < id \div BitsPerByte
                 /\ main'.bitmap = BitmapBetween(old, id, low')
              \/ /\ step' = "tag"
                 /\ main'.bitmap = BitmapOf(id)
    BY <1>5, BitmapOutcome
  <2>1. PICK old \in 0 .. id :
           /\ slot = size * id
           /\ main'.config = size /\ main'.tag = main.tag
           /\ IF eraseNeeded THEN tagRead /\ ~main.tag ELSE main.tag
           /\ \/ /\ step' = "bytes"
                 /\ old \div BitsPerByte < id \div BitsPerByte
                 /\ main'.bitmap = BitmapBetween(old, id, low')
              \/ /\ step' = "tag"
                 /\ main'.bitmap = BitmapOf(id)
    BY <2>0
  <2>2. size \in Sizes
    BY <1>1, <1>2, RunningFacts
  <2>3. MainReadable'
    <3>1. CASE step' = "bytes"
      BY <3>1, <1>1, <1>5 DEF MainReadable
    <3>2. CASE step' = "tag"
      BY <3>2, <2>1, <2>2, ReadableNamed
    <3> QED
      BY <3>1, <3>2, <1>1
  <2>4. MainRewritten(id)'
    <3>1. CASE step' = "bytes"
      BY <3>1, <2>1, <1>1 DEF MainRewritten
    <3>2. CASE step' = "tag"
      BY <3>2, <2>1, <1>1 DEF MainRewritten
    <3> QED
      BY <3>1, <3>2, <1>1
  <2> QED
    BY <1>1, <1>2, <1>5, <2>1, <2>3, <2>4, DirectoryStep DEF KeepInv
<1> QED
  BY <1>3, <1>4, <1>5

\* An earlier byte is cleared: the bitmap goes on towards that of the slot.
LEMMA ByteOutcome ==
    ASSUME SlotInv, KeepInv, ClearEarlierByte, copy = "main"
    PROVE  \E id \in SlotIds(size) : \E old \in 0 .. id :
              /\ slot = size * id
              /\ low \in 0 .. BitmapBytes - 1 /\ low < id \div BitsPerByte
              /\ old \div BitsPerByte < id \div BitsPerByte
              /\ main.config = size /\ main.bitmap = BitmapBetween(old, id, low)
              /\ main'.config = size /\ main'.tag = main.tag
              /\ IF eraseNeeded THEN tagRead /\ ~main.tag ELSE main.tag
              /\ low' = low - 1
              /\ main'.bitmap = BitmapBetween(old, id, low - 1)
              /\ low = 0 => main'.bitmap = BitmapOf(id)
<1> DEFINE d == directory[copy]
           e == directory'[copy]
<1>1. /\ step = "bytes" /\ low' = low - 1
      /\ directory' = [directory EXCEPT ![copy].bitmap = ClearBits(@, low, BitsPerByte)]
  BY DEF ClearEarlierByte
<1>2. initDone /\ AtDirectory /\ size \in Sizes
  BY <1>1, RunningFacts DEF AtDirectory, SlotInv, AtStep
<1>3. PICK id \in SlotIds(size) :
         slot = size * id /\ id = slot \div size /\ MainRewritten(id)
  BY <1>2, MainWriting
<1>4. /\ low \in 0 .. BitmapBytes - 1 /\ low < id \div BitsPerByte
      /\ main.config = size
  BY <1>1, <1>2, <1>3 DEF SlotInv, AtStep
<1>5. BitsPerByte \in Byte /\ low \in Int
  BY <1>4, Constants DEF Byte
<1>6. /\ e.tag = d.tag /\ e.config = d.config
      /\ e.bitmap \in Bitmap
      /\ \A b \in 0 .. BitmapBytes - 1 :
            e.bitmap[b] = IF b = low /\ BitsPerByte > d.bitmap[b] THEN BitsPerByte ELSE d.bitmap[b]
      /\ main' = IF copy = "main" THEN e ELSE main
  BY <1>1, <1>5, BitsCleared
<1>7. d = main /\ main' = e
  BY <1>6 DEF main
<1> HIDE DEF d, e
<1>8. /\ \E old \in 0 .. id :
             /\ old \div BitsPerByte < id \div BitsPerByte
             /\ main.bitmap = BitmapBetween(old, id, low)
      /\ IF eraseNeeded THEN tagRead /\ ~main.tag ELSE main.tag
  BY <1>1, <1>3 DEF MainRewritten
<1>9. PICK old \in 0 .. id :
         /\ old \div BitsPerByte < id \div BitsPerByte
         /\ main.bitmap = BitmapBetween(old, id, low)
  BY <1>8
<1>10. \A new \in Bitmap :
          (\A b \in 0 .. BitmapBytes - 1 :
              new[b] = IF b = low /\ BitsPerByte > BitmapBetween(old, id, low)[b]
                       THEN BitsPerByte ELSE BitmapBetween(old, id, low)[b])
          => /\ new = BitmapBetween(old, id, low - 1)
             /\ low = 0 => new = BitmapOf(id)
  BY <1>2, <1>4, ByteBetween
<1>11. /\ main'.bitmap = BitmapBetween(old, id, low - 1)
       /\ low = 0 => main'.bitmap = BitmapOf(id)
  BY <1>6, <1>7, <1>9, <1>10
<1>12. main'.config = size /\ main'.tag = main.tag
  BY <1>4, <1>6, <1>7
<1> QED
  BY <1>1, <1>3, <1>4, <1>8, <1>9, <1>11, <1>12

\* After the last earlier byte the directory names the slot.
LEMMA ClearEarlierByteKeep == ASSUME SlotInv, KeepInv, ClearEarlierByte PROVE KeepInv'
<1>1. /\ step = "bytes" /\ step' = IF low = 0 THEN "tag" ELSE "bytes"
      /\ UNCHANGED <<data, position, buffer, copy, eraseNeeded, tagRead>>
  BY DEF ClearEarlierByte
<1>2. AtDirectory /\ AtDirectory' /\ initDone /\ initDone' = initDone
  BY <1>1 DEF AtDirectory, position, SlotInv, AtStep
<1>3. copy \in {"main", "backup"}
  BY DEF SlotInv, TypeOK, Copies
<1>4. CASE copy = "backup"
  <2>1. main' = main
    BY <1>4 DEF ClearEarlierByte, main
  <2> QED
    BY <2>1, <1>1, <1>2, <1>4, BackupStep
<1>5. CASE copy = "main"
  <2>0. PICK id \in SlotIds(size) : \E old \in 0 .. id :
           /\ slot = size * id
           /\ old \div BitsPerByte < id \div BitsPerByte
           /\ main'.config = size /\ main'.tag = main.tag
           /\ IF eraseNeeded THEN tagRead /\ ~main.tag ELSE main.tag
           /\ low' = low - 1
           /\ main'.bitmap = BitmapBetween(old, id, low - 1)
           /\ low = 0 => main'.bitmap = BitmapOf(id)
    BY <1>5, ByteOutcome
  <2>1. PICK old \in 0 .. id :
           /\ slot = size * id
           /\ old \div BitsPerByte < id \div BitsPerByte
           /\ main'.config = size /\ main'.tag = main.tag
           /\ IF eraseNeeded THEN tagRead /\ ~main.tag ELSE main.tag
           /\ low' = low - 1
           /\ main'.bitmap = BitmapBetween(old, id, low - 1)
           /\ low = 0 => main'.bitmap = BitmapOf(id)
    BY <2>0
  <2>2. size \in Sizes
    BY <1>1, <1>2, RunningFacts
  <2>3. CASE low = 0
    <3>1. MainReadable'
      BY <2>1, <2>2, <2>3, ReadableNamed
    <3>2. MainRewritten(id)'
      BY <1>1, <2>1, <2>3 DEF MainRewritten
    <3> QED
      BY <1>1, <1>2, <1>5, <2>1, <3>1, <3>2, DirectoryStep DEF KeepInv
  <2>4. CASE low # 0
    <3>1. MainReadable'
      BY <1>1, <1>5, <2>4 DEF MainReadable
    <3>2. main'.bitmap = BitmapBetween(old, id, low')
      BY <2>1
    <3>3. MainRewritten(id)'
      BY <1>1, <2>1, <2>4, <3>2 DEF MainRewritten
    <3> QED
      BY <1>1, <1>2, <1>5, <2>1, <3>1, <3>3, DirectoryStep DEF KeepInv
  <2> QED
    BY <2>3, <2>4
<1> QED
  BY <1>3, <1>4, <1>5

\* With the main preamble back, the main copy names the slot.
LEMMA TagOutcome ==
    ASSUME SlotInv, KeepInv, WriteTag, initDone
    PROVE  /\ Names(slot)' /\ main'.bitmap = main.bitmap /\ main'.config = main.config
           /\ \E id \in SlotIds(size) :
                /\ slot = size * id /\ main.bitmap = BitmapOf(id)
                /\ main.config = size
<1> DEFINE t == eraseNeeded /\ tagRead
           e == directory'["main"]
<1>1. step = "tag" /\ copy = "main" /\ UNCHANGED position
  BY DEF WriteTag
<1>2. "main" \in Copies /\ t \in BOOLEAN
  BY DEF Copies, SlotInv, TypeOK
<1>3. directory' = [directory EXCEPT !["main"].tag = @ \/ t]
  BY <1>1 DEF WriteTag, TagWritten
<1> HIDE DEF t
<1>4. LET d == directory["main"]
      IN /\ e.tag = (d.tag \/ t) /\ e.config = d.config /\ e.bitmap = d.bitmap
         /\ main' = e
  BY <1>2, <1>3, TagPut
<1> HIDE DEF e
<1>5. /\ main'.tag = (main.tag \/ t) /\ main'.config = main.config
      /\ main'.bitmap = main.bitmap
  BY <1>4 DEF main
<1>6. PICK id \in SlotIds(size) : slot = size * id /\ MainRewritten(id)
  BY <1>1, MainWriting DEF AtDirectory
<1>7. /\ main.bitmap = BitmapOf(id) /\ main.config = size
      /\ IF eraseNeeded THEN tagRead /\ ~main.tag ELSE main.tag
  BY <1>1, <1>6 DEF MainRewritten, SlotInv, AtStep
<1>8. main'.tag
  BY <1>5, <1>7 DEF t
<1>9. Names(slot)'
  BY <1>1, <1>5, <1>6, <1>7, <1>8 DEF Names, position
<1> QED
  BY <1>5, <1>6, <1>7, <1>9

\* The main copy is done.
LEMMA WriteTagKeep == ASSUME SlotInv, KeepInv, WriteTag PROVE KeepInv'
<1>1. /\ step = "tag" /\ step' = "config" /\ copy = "main" /\ copy' = "backup"
      /\ UNCHANGED <<data, position, buffer>>
  BY DEF WriteTag
<1>2. AtDirectory /\ AtDirectory' /\ initDone' = initDone
  BY <1>1 DEF AtDirectory, position
<1>3. CASE initDone
  <2>1. Names(slot)' /\ main'.bitmap = main.bitmap /\ main'.config = main.config
    BY <1>3, TagOutcome
  <2>2. MainReadable'
    BY <2>1, <1>1, ReadableStays DEF KeepInv
  <2> QED
    BY <2>1, <2>2, <1>1, <1>2, <1>3, DirectoryStep DEF KeepInv
<1>4. CASE ~initDone
  <2>1. "main" \in Copies /\ directory' = [directory EXCEPT !["main"].tag = @ \/ TRUE]
    BY <1>1, <1>4 DEF WriteTag, TagWritten, Copies
  <2>2. LET d == directory["main"]
            e == directory'["main"]
        IN e.config = d.config /\ e.bitmap = d.bitmap /\ main' = e
    BY <2>1, TagPut
  <2>3. main'.bitmap = main.bitmap /\ main'.config = main.config
    BY <2>2 DEF main
  <2> QED
    BY <2>3, <1>2, <1>4, SetUpStep
<1> QED
  BY <1>3, <1>4

\* What the last step of writing the directory leaves of the main copy.
LEMMA BackupTagOutcome ==
    ASSUME SlotInv, WriteBackupTag
    PROVE  /\ main'.bitmap = main.bitmap /\ main'.config = main.config
           /\ initDone => main' = main
<1>1. step = "tag" /\ copy = "backup"
  BY DEF WriteBackupTag
<1>2. CASE initDone
  <2>1. main' = main
    BY <1>1, <1>2 DEF WriteBackupTag, TagWritten, main
  <2> QED
    BY <2>1
<1>3. CASE ~initDone
  <2>1. "main" \in Copies /\ directory' = [directory EXCEPT !["main"].tag = @ \/ TRUE]
    BY <1>1, <1>3 DEF WriteBackupTag, TagWritten, Copies
  <2>2. LET d == directory["main"]
            e == directory'["main"]
        IN e.config = d.config /\ e.bitmap = d.bitmap /\ main' = e
    BY <2>1, TagPut
  <2>3. main'.bitmap = main.bitmap /\ main'.config = main.config
    BY <2>2 DEF main
  <2> QED
    BY <2>3, <1>3
<1> QED
  BY <1>2, <1>3

\* The save is done, and the main copy names its slot.
LEMMA WriteBackupTagKeep == ASSUME SlotInv, KeepInv, WriteBackupTag PROVE KeepInv'
<1>1. /\ step = "tag" /\ copy = "backup"
      /\ UNCHANGED <<size, slot, lastStored, valid>>
      /\ step' = IF initDone THEN "idle" ELSE "sizeCheck"
  BY DEF WriteBackupTag
<1>2. /\ main'.bitmap = main.bitmap /\ main'.config = main.config
      /\ initDone => main' = main
  BY BackupTagOutcome
<1>3. MainReadable'
  BY <1>1, <1>2, ReadableStays DEF KeepInv
<1>4. CASE initDone
  <2>1. valid /\ Names(slot) /\ slot = lastStored
    BY <1>1, <1>4 DEF KeepInv, Rewriting, SlotInv, AtStep
  <2>2. Names(lastStored)'
    BY <2>1, <1>1, <1>2, <1>4 DEF Names
  <2> QED
    BY <2>1, <2>2, <1>1, <1>3, <1>4 DEF KeepInv, Stored, Searching, Rewriting
<1>5. CASE ~initDone
  <2>1. size = Blank
    BY <1>1, <1>5 DEF SlotInv, SetUp
  <2> QED
    BY <2>1, <1>1, <1>3, <1>5 DEF KeepInv, Stored, Searching, Rewriting
<1> QED
  BY <1>4, <1>5

\* The power fails where the main copy can be read.
LEMMA PowerLossKeep ==
    ASSUME ~LossBetweenBytes, SlotInv, KeepInv, PowerLoss
    PROVE  KeepInv'
<1>1. step # "bytes" /\ step' = "off" /\ ~initDone' /\ main' = main
  BY DEF PowerLoss, main, flash
<1>2. MainReadable'
  BY <1>1, ReadableStays DEF KeepInv
<1> QED
  BY <1>1, <1>2 DEF KeepInv, Stored, Searching, Rewriting

\* Other elements do not touch the flash.
LEMMA ReconfigureKeep == ASSUME SlotInv, KeepInv, Reconfigure PROVE KeepInv'
<1>1. step = "off" /\ step' = "off" /\ ~initDone /\ ~initDone' /\ main' = main
  BY DEF Reconfigure, main, flash, position, SlotInv, Off
<1>2. MainReadable'
  BY <1>1, ReadableStays DEF KeepInv
<1> QED
  BY <1>1, <1>2 DEF KeepInv, Stored, Searching, Rewriting

\* Every step keeps the second invariant.
LEMMA NextKeepInv ==
    ASSUME ~LossBetweenBytes
    PROVE  SlotInv /\ KeepInv /\ [Next]_vars => KeepInv'
<1> SUFFICES ASSUME SlotInv, KeepInv, [Next]_vars PROVE KeepInv'
  OBVIOUS
<1>1. CASE Storage
  BY <1>1, BootKeep, FirstBootKeep, LoadStateKeep, DropStateKeep, TakeNextSlotKeep,
     WriteWordKeep, VerifiedKeep, TryAgainKeep, WriteFailedKeep, WriteConfigKeep,
     EraseDirectoryKeep, RewriteConfigKeep, WriteBitmapKeep, ClearEarlierByteKeep,
     WriteTagKeep, WriteBackupTagKeep
  DEF Storage
<1>2. ASSUME NEW v \in States, SaveState(v) PROVE KeepInv'
  BY <1>2, SaveStateKeep
<1>3. CASE PowerLoss
  BY <1>3, PowerLossKeep
<1>4. CASE Reconfigure
  BY <1>4, ReconfigureKeep
<1>5. CASE UNCHANGED vars
  BY <1>5
  DEF vars, flash, position, search, rewrite, device, KeepInv, MainReadable, Stored,
      Searching, Rewriting, MainRewritten, Names, SlotHolds, LastSector, EndSector, main
<1> QED
  BY <1>1, <1>2, <1>3, <1>4, <1>5 DEF Next

-----------------------------------------------------------------------------
(* The directory.                                                              *)

\* Without a loss of power between two bytes of the bitmap, whenever power fails
\* otherwise and whatever words come out wrong, the main copy can be read back
\* and the search for a slot leaves the last one alone.
THEOREM KeepInvariant ==
    ASSUME ~LossBetweenBytes
    PROVE  Spec => []KeepInv
<1>1. Init => KeepInv
  BY InitKeep
<1> QED
  BY <1>1, NextKeepInv, SlotInvariant, PTL DEF Spec

\* Between saves the bitmap on the flash names the slot the program takes for the
\* last one: a restart finds the state that was saved last.
THEOREM BitmapNamesLastSlot ==
    ASSUME ~LossBetweenBytes
    PROVE  Spec => []BitmapNamesSlot
<1>1. SlotInv /\ KeepInv => BitmapNamesSlot
  <2> SUFFICES ASSUME SlotInv, KeepInv, step = "idle", valid
               PROVE  Loadable("main") /\ MappedSlot("main") = slot
    BY DEF BitmapNamesSlot
  <2>1. initDone /\ slot = lastStored
    BY DEF SlotInv, AtStep
  <2>2. size \in Sizes
    BY <2>1, RunningFacts
  <2>3. Names(lastStored)
    BY DEF KeepInv, Stored
  <2>4. PICK id \in SlotIds(size) : main.bitmap = BitmapOf(id) /\ lastStored = size * id
    BY <2>3 DEF Names
  <2>5. main.tag /\ main.config = size
    BY <2>3 DEF Names
  <2>6. MappedSlot("main") = size * id
    BY <2>2, <2>4, <2>5, BitmapMaps DEF SlotInv, TypeOK
  <2> QED
    BY <2>1, <2>2, <2>4, <2>5, <2>6 DEF Loadable, main
<1> QED
  BY <1>1, SlotInvariant, KeepInvariant, PTL
-----------------------------------------------------------------------------
(* What a restart would find, in the terms of the main copy.                   *)

\* The slot the scan takes a copy with this size and these bits for.
Mapped(config, bitmap) ==
    config * ((CHOOSE b \in DOMAIN bitmap :
                  /\ bitmap[b] < BitsPerByte \/ b = BitmapBytes - 1
                  /\ \A e \in 0 .. b - 1 : bitmap[e] = BitsPerByte) * BitsPerByte
              + bitmap[CHOOSE b \in DOMAIN bitmap :
                  /\ bitmap[b] < BitsPerByte \/ b = BitmapBytes - 1
                  /\ \A e \in 0 .. b - 1 : bitmap[e] = BitsPerByte])

Current == main.tag /\ main.config = deviceSize

KeptRead ==
    Kept = IF Current THEN ContentIn(data, Mapped(main.config, main.bitmap), deviceSize)
           ELSE None

KeptNames ==
    \A id \in SlotIds(deviceSize) :
        Current /\ main.bitmap = BitmapOf(id) =>
            Kept = ContentIn(data, deviceSize * id, deviceSize)

KeptBetween ==
    \A id \in SlotIds(deviceSize) : \A old \in 0 .. id : \A l \in Int :
        /\ Current /\ main.bitmap = BitmapBetween(old, id, l)
        /\ l < id \div BitsPerByte /\ old \div BitsPerByte < id \div BitsPerByte
        => Kept = ContentIn(data, deviceSize * (IF old \div BitsPerByte <= l THEN old ELSE id),
                            deviceSize)

\* While the storage is set up nothing is kept.
SetUpEmpty == ~initDone /\ step # "off" => Kept = None

\* A restart reads the main copy: the slot it names, or, while the earlier bytes
\* are cleared, the slot that was named before or the new one.
LEMMA KeptFacts == SlotInv => KeptRead /\ KeptNames /\ KeptBetween /\ SetUpEmpty
<1> SUFFICES ASSUME SlotInv PROVE KeptRead /\ KeptNames /\ KeptBetween /\ SetUpEmpty
  OBVIOUS
<1>1. deviceSize \in Sizes /\ directory \in [Copies -> Directory] /\ ~Loadable("backup")
  BY DEF SlotInv, TypeOK, BackupUntagged, Loadable, backup
<1>2. Loadable("main") <=> main.tag /\ main.config \in Sizes
  BY DEF Loadable, main
<1>3. MappedSlot("main") = Mapped(main.config, main.bitmap)
  BY Zenon DEF MappedSlot, Mapped, main
<1>4. Kept = IF Current THEN ContentIn(data, MappedSlot("main"), deviceSize) ELSE None
  <2>1. CASE Loadable("main")
    BY <1>1, <1>2, <2>1, ContentRead DEF Kept, Source, main, Current
  <2>2. CASE ~Loadable("main")
    BY <1>1, <1>2, <2>2 DEF Kept, Source, Current
  <2> QED
    BY <2>1, <2>2
<1>5. KeptRead
  BY Zenon, <1>3, <1>4 DEF KeptRead
<1>6. KeptNames
  <2> SUFFICES ASSUME NEW id \in SlotIds(deviceSize), Current, main.bitmap = BitmapOf(id)
               PROVE  Kept = ContentIn(data, deviceSize * id, deviceSize)
    BY Zenon DEF KeptNames
  <2>1. MappedSlot("main") = deviceSize * id
    BY <1>1, BitmapMaps DEF Current
  <2> QED
    BY <2>1, <1>4
<1>7. KeptBetween
  <2> SUFFICES ASSUME NEW id \in SlotIds(deviceSize), NEW old \in 0 .. id, NEW l \in Int,
                      Current, main.bitmap = BitmapBetween(old, id, l),
                      l < id \div BitsPerByte,
                      old \div BitsPerByte < id \div BitsPerByte
               PROVE  Kept = ContentIn(data,
                         deviceSize * (IF old \div BitsPerByte <= l THEN old ELSE id),
                         deviceSize)
    BY Zenon DEF KeptBetween
  <2>1. MappedSlot("main") = deviceSize * (IF old \div BitsPerByte <= l THEN old ELSE id)
    BY <1>1, BetweenMaps DEF Current
  <2> QED
    BY Zenon, <2>1, <1>4
<1>8. SetUpEmpty
  <2> SUFFICES ASSUME ~initDone, step # "off" PROVE ~Current
    BY <1>5 DEF SetUpEmpty, KeptRead
  <2>1. CASE copy = "main" /\ step \in {"config", "erase"}
    BY <2>1, <1>1, <1>2 DEF SlotInv, SetUp, Current
  <2>2. CASE copy = "main" /\ step \in {"rewrite", "tag"}
    BY <2>2, ErasedFacts DEF SlotInv, SetUp, Current
  <2>3. CASE copy = "backup"
    BY <2>3, <1>1, ErasedFacts, SizeFacts DEF SlotInv, SetUp, Current, Directory
  <2> QED
    BY <2>1, <2>2, <2>3 DEF SlotInv, SetUp, TypeOK, Copies
<1> QED
  BY <1>5, <1>6, <1>7, <1>8

\* So it does after the step.
LEMMA KeptFactsNext == SlotInv' => KeptRead' /\ KeptNames' /\ KeptBetween' /\ SetUpEmpty'
  BY KeptFacts, PTL

\* Where data and main copy stay, so does what is kept.
LEMMA KeptStays ==
    ASSUME SlotInv, SlotInv', UNCHANGED <<data, deviceSize>>,
           main'.tag = main.tag, main'.config = main.config, main'.bitmap = main.bitmap
    PROVE  Kept' = Kept
<1>1. KeptRead /\ KeptRead'
  BY KeptFacts, KeptFactsNext
<1>2. Current' <=> Current
  BY DEF Current
<1> QED
  BY <1>1, <1>2 DEF KeptRead

\* Nothing is kept where the main copy has no preamble, or another size.
LEMMA KeptNone ==
    /\ SlotInv /\ ~Current => Kept = None
    /\ SlotInv' /\ ~Current' => Kept' = None
  BY KeptFacts, KeptFactsNext DEF KeptRead

\* What is kept is a state, or bytes nobody saved, or nothing.
KeptTyped == Kept \in States \cup {None, Dirty}
LEMMA KeptTypes == (SlotInv => KeptTyped) /\ (SlotInv' => KeptTyped')
<1>1. SlotInv => KeptTyped
  BY KeptFacts DEF KeptRead, ContentIn, KeptTyped
<1>2. SlotInv' => KeptTyped'
  BY <1>1, PTL
<1> QED
  BY <1>1, <1>2
-----------------------------------------------------------------------------
(* Step by step: what a restart would find changes only where StateRegister    *)
(* lets it.                                                                    *)

\* Steps that touch neither data nor main copy.
LEMMA FlashStays ==
    ASSUME SlotInv, SlotInv', UNCHANGED <<data, directory, deviceSize>>
    PROVE  Kept' = Kept
  BY KeptStays DEF main

\* A state of another size was not kept for this device before it is dropped.
LEMMA DropStateQuiet ==
    ASSUME SlotInv, SlotInv', DropState
    PROVE  Kept' = Kept
<1>1. ~Current
  BY DEF DropState, SlotInv, Checking, Current
<1>2. ~Current'
  BY <1>1 DEF DropState, Current, main, device
<1> QED
  BY <1>1, <1>2, KeptNone

\* The search for a slot leaves what is kept alone.
LEMMA SearchQuiet ==
    ASSUME SlotInv, SlotInv', KeepInv, step \in {"next", "write"}, LastKept,
           UNCHANGED <<directory, deviceSize>>
    PROVE  Kept' = Kept
<1>1. /\ size = deviceSize /\ size \in Nat \ {0} /\ lastStored \in Nat
  BY RunningFacts, SearchFacts
<1>2. main' = main
  BY DEF main
<1>3. CASE valid
  <2>1. PICK id \in SlotIds(size) : main.bitmap = BitmapOf(id) /\ lastStored = size * id
    BY <1>3 DEF KeepInv, Stored, Names
  <2>2. Current /\ Current'
    BY <1>1, <1>2, <1>3 DEF KeepInv, Stored, Names, Current
  <2>3. Kept = ContentIn(data, lastStored, size)
    BY <1>1, <2>1, <2>2, KeptFacts DEF KeptNames
  <2>4. Kept' = ContentIn(data', lastStored, size)
    <3>1. main'.bitmap = BitmapOf(id) /\ deviceSize' = size
      BY <1>1, <1>2, <2>1
    <3> QED
      BY <3>1, <2>1, <2>2, KeptFactsNext DEF KeptNames
  <2>5. ContentIn(data', lastStored, size) = ContentIn(data, lastStored, size)
    <3>1. PICK s \in Nat : s = lastStored
      BY <1>1
    <3>2. PICK n \in Nat \ {0} : n = size
      BY <1>1
    <3>3. PICK old : old = data
      OBVIOUS
    <3>4. PICK new : new = data'
      OBVIOUS
    <3>5. \A i \in 0 .. n - 1 : new[s + i] = old[s + i]
      BY <3>1, <3>2, <3>3, <3>4 DEF LastKept
    <3>6. ContentIn(new, s, n) = ContentIn(old, s, n)
      BY <3>5, ContentStays, ZenonT(60)
    <3> QED
      BY <3>1, <3>2, <3>3, <3>4, <3>6
  <2> QED
    BY <2>3, <2>4, <2>5
<1>4. CASE ~valid
  <2>1. ~Current /\ ~Current'
    BY <1>1, <1>2, <1>4 DEF KeepInv, Stored, Current
  <2> QED
    BY <2>1, KeptNone
<1> QED
  BY <1>3, <1>4

\* The slot that is to be named holds the state being saved.
LEMMA SlotWritten ==
    ASSUME SlotInv, KeepInv, initDone, AtDirectory
    PROVE  /\ size = deviceSize /\ size \in Nat \ {0} /\ size \in Sizes
           /\ slot \in Nat /\ buffer \in States
           /\ ContentIn(data, slot, size) = buffer
<1>1. /\ size = deviceSize /\ size \in Nat \ {0} /\ size \in Sizes /\ slot \in Nat
      /\ buffer # None
  BY RunningFacts DEF AtDirectory
<1>2. buffer \in States
  BY <1>1 DEF SlotInv, TypeOK
<1>3. Holds(data, slot, size, buffer)
  BY DEF KeepInv, Rewriting, AtDirectory, SlotHolds, Holds
<1> QED
  BY <1>1, <1>2, <1>3, ContentIs

\* The configuration of the main copy: the first one exposes an erased slot.
LEMMA WriteConfigOutcome ==
    ASSUME SlotInv, SlotInv', KeepInv, WriteConfig
    PROVE  \/ Kept' = Kept
           \/ initDone /\ Kept = None /\ Kept' = Dirty
<1> DEFINE config == IF initDone THEN size ELSE Blank
           d == directory[copy]
           e == directory'[copy]
<1>1. /\ step = "config"
      /\ directory' = [directory EXCEPT ![copy].config = Program(@, config)]
      /\ step' \in {"erase", "bitmap", "tag"}
      /\ UNCHANGED <<data, position, deviceSize>>
  BY Zenon DEF WriteConfig, device
<1>2. config \in Sizes \cup {Blank} /\ (initDone => config = size /\ size \in Sizes)
  BY <1>1, RunningFacts DEF SlotInv, TypeOK
<1>3. /\ e.tag = d.tag /\ e.bitmap = d.bitmap
      /\ e.config = Program(d.config, config)
      /\ main' = IF copy = "main" THEN e ELSE main
  BY <1>1, <1>2, ConfigWritten
<1>4. copy \in {"main", "backup"} /\ d = IF copy = "main" THEN main ELSE backup
  BY DEF SlotInv, TypeOK, Copies, main, backup
<1>5. AtDirectory
  BY <1>1 DEF AtDirectory
<1> HIDE DEF config, d, e
<1>6. CASE ~initDone
  <2>1. ~initDone' /\ step # "off" /\ step' # "off"
    BY <1>1, <1>6 DEF position
  <2> QED
    BY <2>1, <1>6, KeptFacts, KeptFactsNext DEF SetUpEmpty
<1>7. CASE initDone /\ copy = "backup"
  BY <1>1, <1>3, <1>7, KeptStays
<1>8. CASE initDone /\ copy = "main"
  <2>1. /\ config = size /\ size = deviceSize /\ size \in Nat \ {0} /\ size \in Sizes
    BY <1>2, <1>5, <1>8, SlotWritten
  <2>2. /\ main'.tag = main.tag /\ main'.bitmap = main.bitmap
        /\ main'.config = Program(main.config, size)
    BY <2>1, <1>3, <1>4, <1>8
  <2>3. size # Blank /\ size # Dirty
    BY <2>1, SizeFacts
  <2>4. CASE main.config = size
    BY <2>2, <2>4, <1>1, KeptStays DEF Program
  <2>5. CASE main.config = Blank
    <3>1. PICK id \in SlotIds(size) : slot = size * id /\ MainRewritten(id)
      BY <1>5, <1>8, MainWriting
    <3>2. main.tag /\ data[0] = Blank
      BY <3>1, <2>5, <1>1 DEF MainRewritten
    <3>3. main.bitmap = BitmapOf(0)
      BY <2>5, <1>1 DEF KeepInv, MainReadable
    <3>4. 0 \in SlotIds(size) /\ size * 0 = 0
      BY <2>1, FirstSlot
    <3>5. deviceSize' = size /\ data' = data
      BY <1>1, <2>1
    <3>6. Current' /\ main'.bitmap = BitmapOf(0)
      BY <3>2, <3>3, <3>5, <2>2, <2>3, <2>5 DEF Current, Program
    <3>7. Kept' = ContentIn(data, 0, size)
      BY <3>4, <3>5, <3>6, KeptFactsNext DEF KeptNames
    <3>8. Kept' = Dirty
      BY <3>2, <3>7, <2>1, BlankContent
    <3>9. Kept = None
      BY <2>1, <2>3, <2>5, KeptNone DEF Current
    <3> QED
      BY <3>8, <3>9, <1>8
  <2>6. CASE main.config # size /\ main.config # Blank
    <3>1. main'.config = Dirty
      BY <2>2, <2>3, <2>6 DEF Program
    <3>2. ~Current /\ ~Current'
      BY <3>1, <2>1, <2>3, <2>6, <1>1 DEF Current
    <3> QED
      BY <3>2, KeptNone
  <2> QED
    BY <2>4, <2>5, <2>6
<1> QED
  BY <1>4, <1>6, <1>7, <1>8

\* Erasing the main copy loses what was kept.
LEMMA EraseDirectoryOutcome ==
    ASSUME SlotInv, SlotInv', EraseDirectory
    PROVE  \/ Kept' = Kept
           \/ initDone /\ Kept' = None
<1>1. /\ step = "erase" /\ step' = "rewrite" /\ initDone' = initDone
      /\ UNCHANGED <<data, deviceSize>>
  BY DEF EraseDirectory, position, device
<1>2. copy \in Copies /\ directory \in [Copies -> Directory]
  BY DEF SlotInv, TypeOK
<1>3. main' = IF copy = "main" THEN ErasedDirectory ELSE main
  BY <1>2, CopyChanges, ErasedFacts DEF EraseDirectory
<1>4. CASE ~initDone
  BY <1>1, <1>4, KeptFacts, KeptFactsNext DEF SetUpEmpty
<1>5. CASE initDone /\ copy = "main"
  <2>1. ~Current'
    BY <1>3, <1>5, ErasedFacts DEF Current
  <2> QED
    BY <2>1, <1>5, KeptNone
<1>6. CASE initDone /\ copy # "main"
  BY <1>1, <1>3, <1>6, KeptStays
<1> QED
  BY <1>4, <1>5, <1>6

\* The configuration of an erased copy does not make it readable.
LEMMA RewriteConfigQuiet ==
    ASSUME SlotInv, SlotInv', RewriteConfig
    PROVE  Kept' = Kept
<1>1. /\ step = "rewrite" /\ step' \in {"bitmap", "tag"} /\ initDone' = initDone
      /\ UNCHANGED <<data, deviceSize>>
  BY DEF RewriteConfig, position, device
<1>2. CASE ~initDone
  BY <1>1, <1>2, KeptFacts, KeptFactsNext DEF SetUpEmpty
<1>3. CASE initDone
  <2> DEFINE d == directory[copy]
             e == directory'[copy]
  <2>1. size \in Sizes
    BY <1>1, <1>3, RunningFacts
  <2>2. directory' = [directory EXCEPT ![copy].config = Program(@, size)]
    BY <1>3 DEF RewriteConfig
  <2>3. /\ e.tag = d.tag
        /\ main' = IF copy = "main" THEN e ELSE main
    BY <2>1, <2>2, ConfigWritten
  <2>4. CASE copy = "main"
    <3>1. d = main /\ main = ErasedDirectory
      BY <2>4, <1>1, <1>3 DEF SlotInv, AtStep, main
    <3> HIDE DEF d, e
    <3>2. ~main.tag /\ ~main'.tag
      BY <3>1, <2>3, <2>4, ErasedFacts
    <3> QED
      BY <3>2, KeptNone DEF Current
  <2>5. CASE copy # "main"
    BY <2>3, <2>5, <1>1, KeptStays
  <2> QED
    BY <2>4, <2>5
<1> QED
  BY <1>2, <1>3
\* The bit of the slot: the main copy names it, or still the earlier slot.
LEMMA WriteBitmapOutcome ==
    ASSUME SlotInv, SlotInv', KeepInv, WriteBitmap
    PROVE  Kept' = Kept \/ Kept' = buffer
<1>1. step = "bitmap" /\ UNCHANGED <<data, position, deviceSize, copy>>
  BY DEF WriteBitmap, device
<1>2. initDone /\ AtDirectory
  BY <1>1 DEF AtDirectory, SlotInv, AtStep
<1>3. CASE copy # "main"
  <2>1. main' = main
    BY <1>3 DEF WriteBitmap, main
  <2> QED
    BY <2>1, <1>1, KeptStays
<1>4. CASE copy = "main"
  <2>1. PICK id \in SlotIds(size) : \E old \in 0 .. id :
           /\ slot = size * id
           /\ main.config = size /\ main.bitmap = BitmapOf(old)
           /\ main'.config = size /\ main'.tag = main.tag
           /\ \/ /\ step' = "bytes" /\ low' = id \div BitsPerByte - 1
                 /\ old \div BitsPerByte < id \div BitsPerByte
                 /\ main'.bitmap = BitmapBetween(old, id, low')
              \/ /\ step' = "tag"
                 /\ main'.bitmap = BitmapOf(id)
    BY <1>4, BitmapOutcome
  <2>2. PICK old \in 0 .. id :
           /\ slot = size * id
           /\ main.config = size /\ main.bitmap = BitmapOf(old)
           /\ main'.config = size /\ main'.tag = main.tag
           /\ \/ /\ low' = id \div BitsPerByte - 1
                 /\ old \div BitsPerByte < id \div BitsPerByte
                 /\ main'.bitmap = BitmapBetween(old, id, low')
              \/ /\ main'.bitmap = BitmapOf(id)
    BY <2>1
  <2>3. /\ size = deviceSize /\ size \in Sizes /\ slot \in Nat
        /\ ContentIn(data, slot, size) = buffer
    BY <1>2, SlotWritten
  <2>4. deviceSize' = size /\ data' = data
    BY <1>1, <2>3
  <2>5. CASE ~main.tag
    BY <2>2, <2>5, KeptNone DEF Current
  <2>6. CASE main.tag
    <3>1. Current /\ Current'
      BY <2>2, <2>3, <2>4, <2>6 DEF Current
    <3>2. CASE main'.bitmap = BitmapOf(id)
      <4>1. Kept' = ContentIn(data, size * id, size)
        BY <2>4, <3>1, <3>2, KeptFactsNext DEF KeptNames
      <4> QED
        BY <4>1, <2>2, <2>3
    <3>3. CASE /\ low' = id \div BitsPerByte - 1
               /\ old \div BitsPerByte < id \div BitsPerByte
               /\ main'.bitmap = BitmapBetween(old, id, low')
      <4>1. old \in SlotIds(size) /\ id \in SlotIds(size)
        BY <2>2, <2>3, EarlierFits
      <4>2. Kept = ContentIn(data, size * old, size)
        BY <4>1, <2>2, <2>3, <3>1, KeptFacts DEF KeptNames
      <4>3. /\ id \div BitsPerByte \in Int /\ old \div BitsPerByte \in Int
            /\ BitsPerByte \in Nat \ {0}
        BY <4>1, <2>3, IdBits, Constants
      <4> DEFINE m == id \div BitsPerByte
                 m0 == old \div BitsPerByte
      <4>4. PICK l \in Int : l = m - 1
        BY <4>3
      <4>5. main'.bitmap = BitmapBetween(old, id, l) /\ m0 < m
        BY <3>3, <4>4
      <4>6. l < m /\ m0 <= l
        BY <4>3, <4>4, <4>5
      <4>7. Kept' = ContentIn(data', deviceSize' * (IF m0 <= l THEN old ELSE id), deviceSize')
        <5>1. id \in SlotIds(deviceSize')
          BY <2>4
        <5> QED
          BY Zenon, <5>1, <3>1, <4>4, <4>5, <4>6, KeptFactsNext DEF KeptBetween
      <4> QED
        BY <4>2, <4>6, <4>7, <2>4
    <3> QED
      BY <2>2, <3>2, <3>3
  <2> QED
    BY <2>5, <2>6
<1> QED
  BY <1>3, <1>4

\* An earlier byte: when it is the one that named the earlier slot, the new one is
\* named from here on.
LEMMA ClearEarlierByteOutcome ==
    ASSUME SlotInv, SlotInv', KeepInv, ClearEarlierByte
    PROVE  Kept' = Kept \/ Kept' = buffer
<1>1. step = "bytes" /\ UNCHANGED <<data, position, deviceSize, copy>>
  BY DEF ClearEarlierByte, device
<1>2. initDone /\ AtDirectory
  BY <1>1 DEF AtDirectory, SlotInv, AtStep
<1>3. CASE copy # "main"
  <2>1. main' = main
    BY <1>3 DEF ClearEarlierByte, main
  <2> QED
    BY <2>1, <1>1, KeptStays
<1>4. CASE copy = "main"
  <2>1. PICK id \in SlotIds(size) : \E old \in 0 .. id :
           /\ slot = size * id
           /\ low \in 0 .. BitmapBytes - 1 /\ low < id \div BitsPerByte
           /\ old \div BitsPerByte < id \div BitsPerByte
           /\ main.config = size /\ main.bitmap = BitmapBetween(old, id, low)
           /\ main'.config = size /\ main'.tag = main.tag
           /\ main'.bitmap = BitmapBetween(old, id, low - 1)
    BY <1>4, ByteOutcome
  <2>2. PICK old \in 0 .. id :
           /\ slot = size * id
           /\ low \in 0 .. BitmapBytes - 1 /\ low < id \div BitsPerByte
           /\ old \div BitsPerByte < id \div BitsPerByte
           /\ main.config = size /\ main.bitmap = BitmapBetween(old, id, low)
           /\ main'.config = size /\ main'.tag = main.tag
           /\ main'.bitmap = BitmapBetween(old, id, low - 1)
    BY <2>1
  <2>3. /\ size = deviceSize /\ size \in Sizes /\ slot \in Nat
        /\ ContentIn(data, slot, size) = buffer
    BY <1>2, SlotWritten
  <2>4. deviceSize' = size /\ data' = data
    BY <1>1, <2>3
  <2>5. CASE ~main.tag
    BY <2>2, <2>5, KeptNone DEF Current
  <2>6. CASE main.tag
    <3>1. Current /\ Current'
      BY <2>2, <2>3, <2>4, <2>6 DEF Current
    <3>2. old \in SlotIds(size) /\ id \in SlotIds(size) /\ BitmapBytes \in Nat
      BY <2>2, <2>3, EarlierFits, Constants
    <3>3. /\ id \div BitsPerByte \in Int /\ old \div BitsPerByte \in Int
          /\ BitsPerByte \in Nat \ {0}
      BY <3>2, <2>3, IdBits, Constants
    <3> DEFINE m == id \div BitsPerByte
               m0 == old \div BitsPerByte
    <3>4. PICK l \in Int : l = low
      BY <2>2, <3>2
    <3>5. PICK k \in Int : k = l - 1
      OBVIOUS
    <3>6. /\ main.bitmap = BitmapBetween(old, id, l) /\ main'.bitmap = BitmapBetween(old, id, k)
          /\ m0 < m /\ l < m
      BY <2>2, <3>4, <3>5
    <3>7. k < m
      BY <3>3, <3>5, <3>6
    <3>8. Kept = ContentIn(data, deviceSize * (IF m0 <= l THEN old ELSE id), deviceSize)
      <4>1. id \in SlotIds(deviceSize)
        BY <2>3
      <4> QED
        BY Zenon, <4>1, <3>1, <3>6, KeptFacts DEF KeptBetween
    <3>9. Kept' = ContentIn(data', deviceSize' * (IF m0 <= k THEN old ELSE id), deviceSize')
      <4>1. id \in SlotIds(deviceSize')
        BY <2>4
      <4> QED
        BY Zenon, <4>1, <3>1, <3>6, <3>7, KeptFactsNext DEF KeptBetween
    <3>10. CASE m0 <= k
      BY <3>3, <3>5, <3>8, <3>9, <3>10, <2>3, <2>4
    <3>11. CASE ~(m0 <= k)
      BY <3>9, <3>11, <2>2, <2>3, <2>4
    <3> QED
      BY <3>10, <3>11
  <2> QED
    BY <2>5, <2>6
<1> QED
  BY <1>3, <1>4

\* The main preamble makes the main copy name the slot.
LEMMA WriteTagOutcome ==
    ASSUME SlotInv, SlotInv', KeepInv, WriteTag
    PROVE  \/ Kept' = Kept
           \/ initDone /\ Kept' = buffer
<1>1. /\ step = "tag" /\ step' = "config" /\ initDone' = initDone
      /\ UNCHANGED <<data, position, deviceSize>>
  BY DEF WriteTag, position, device
<1>2. CASE ~initDone
  BY <1>1, <1>2, KeptFacts, KeptFactsNext DEF SetUpEmpty
<1>3. CASE initDone
  <2>1. Names(slot)' /\ slot' = slot /\ size' = size
    BY <1>1, <1>3, TagOutcome DEF position
  <2>2. /\ size = deviceSize /\ ContentIn(data, slot, size) = buffer
    BY <1>1, <1>3, SlotWritten DEF AtDirectory
  <2>3. deviceSize' = size /\ data' = data
    BY <1>1, <2>2
  <2>4. PICK id \in SlotIds(size) : main'.bitmap = BitmapOf(id) /\ slot = size * id
    BY <2>1 DEF Names
  <2>5. Current'
    BY <2>1, <2>3 DEF Names, Current
  <2>6. Kept' = ContentIn(data, size * id, size)
    BY <2>3, <2>4, <2>5, KeptFactsNext DEF KeptNames
  <2> QED
    BY <2>2, <2>4, <2>6, <1>3
<1> QED
  BY <1>2, <1>3

\* When the save is reported as done, its state is the one kept.
LEMMA WriteBackupTagOutcome ==
    ASSUME SlotInv, SlotInv', KeepInv, WriteBackupTag
    PROVE  /\ Kept' = Kept
           /\ initDone => Kept = buffer
<1>1. step = "tag" /\ copy = "backup" /\ UNCHANGED deviceSize
  BY DEF WriteBackupTag, device
<1>2. /\ main'.config = main.config
      /\ initDone => main' = main
  BY BackupTagOutcome
<1>3. CASE ~initDone
  <2>1. main.config = Blank /\ deviceSize # Blank
    BY <1>1, <1>3, ErasedFacts, SizeFacts DEF SlotInv, SetUp, TypeOK, Directory
  <2>2. ~Current /\ ~Current'
    BY <2>1, <1>1, <1>2 DEF Current
  <2> QED
    BY <2>2, <1>3, KeptNone
<1>4. CASE initDone
  <2>1. data' = data
    BY <1>4 DEF WriteBackupTag
  <2>2. Names(slot)
    BY <1>1, <1>4 DEF KeepInv, Rewriting
  <2>3. size = deviceSize /\ ContentIn(data, slot, size) = buffer
    BY <1>1, <1>4, SlotWritten DEF AtDirectory
  <2>4. Kept = ContentIn(data, slot, size)
    BY <2>2, <2>3, KeptFacts DEF KeptNames, Names, Current
  <2>5. Kept' = Kept
    BY <2>1, <1>1, <1>2, <1>4, KeptStays
  <2> QED
    BY <2>3, <2>4, <2>5
<1> QED
  BY <1>3, <1>4
-----------------------------------------------------------------------------
(* The storage implements StateRegister.                                       *)

mode == CASE step = "off" -> "down" [] step = "error" -> "failed" [] OTHER -> "up"

Promised == [Register!Next]_<<Kept, buffer, mode>>

\* The power is on unless the program is off or gave up.
LEMMA Modes ==
    /\ step = "off" => mode = "down"
    /\ step = "error" => mode = "failed"
    /\ step \notin {"off", "error"} => mode = "up"
    /\ step' = "off" => mode' = "down"
    /\ step' = "error" => mode' = "failed"
    /\ step' \notin {"off", "error"} => mode' = "up"
  BY DEF mode

\* A step that changes nothing of what is promised.
LEMMA Quiet ==
    ASSUME Kept' = Kept, buffer' = buffer, mode' = mode
    PROVE  Promised
  BY DEF Promised

\* A step of a save that loses, exposes, or puts the state into effect.
LEMMA SaveStep ==
    ASSUME buffer # None, buffer' = buffer, mode' = mode,
           \/ Kept' = Kept \/ Kept' = buffer \/ Kept' = None
           \/ Kept = None /\ Kept' = Dirty
    PROVE  Promised
  BY DEF Promised, mode, Register!Next, Register!Commit, Register!Lose, Register!Expose

\* At boot a restart finds what it would have found before, a state of another
\* size is no loss.
LEMMA BootPromised ==
    ASSUME SlotInv, SlotInv', Boot \/ FirstBoot \/ LoadState \/ DropState
    PROVE  Promised
<1>1. CASE Boot \/ FirstBoot
  <2>1. Kept' = Kept
    BY <1>1, FlashStays DEF Boot, FirstBoot, flash, device
  <2>2. mode = "down" /\ mode' = "up" /\ buffer' = buffer
    BY <1>1, Modes DEF Boot, FirstBoot
  <2> QED
    BY <2>1, <2>2 DEF Promised, mode, Register!Next, Register!PowerUp
<1>2. CASE LoadState
  <2>1. Kept' = Kept
    BY <1>2, FlashStays DEF LoadState, flash, device
  <2>2. mode' = mode /\ buffer' = buffer
    BY <1>2, Modes DEF LoadState
  <2> QED
    BY <2>1, <2>2, Quiet
<1>3. CASE DropState
  <2>1. mode' = mode /\ buffer' = buffer
    BY <1>3, Modes DEF DropState
  <2> QED
    BY <2>1, <1>3, DropStateQuiet, Quiet
<1> QED
  BY <1>1, <1>2, <1>3

\* While a slot is searched for and written, the state last saved stays.
LEMMA SearchPromised ==
    ASSUME SlotInv, SlotInv', KeepInv,
           TakeNextSlot \/ WriteWord \/ Verified \/ TryAgain \/ WriteFailed
    PROVE  Promised
<1>1. CASE TakeNextSlot \/ WriteWord
  <2>1. /\ step \in {"next", "write"} /\ step' = "write" /\ buffer' = buffer
        /\ UNCHANGED <<directory, deviceSize>>
    BY <1>1 DEF TakeNextSlot, WriteWord, device
  <2>2. LastKept
    BY <1>1, TakeNextSlotKeep, WriteWordKeep
  <2>3. Kept' = Kept
    BY <2>1, <2>2, SearchQuiet
  <2> QED
    BY <2>1, <2>3, Modes, Quiet
<1>2. CASE Verified \/ TryAgain
  <2>1. Kept' = Kept
    BY <1>2, FlashStays DEF Verified, TryAgain, flash, device
  <2>2. mode' = mode /\ buffer' = buffer
    BY <1>2, Modes DEF Verified, TryAgain
  <2> QED
    BY <2>1, <2>2, Quiet
<1>3. CASE WriteFailed
  <2>1. Kept' = Kept
    BY <1>3, FlashStays DEF WriteFailed, flash, device
  <2>2. mode = "up" /\ mode' = "failed" /\ buffer' = None
    BY <1>3, Modes DEF WriteFailed
  <2> QED
    BY <2>1, <2>2 DEF Promised, mode, Register!Next, Register!GiveUp
<1> QED
  BY <1>1, <1>2, <1>3

\* While the directory is written, the state saved takes effect at one step, or
\* what was kept is lost first.
LEMMA DirectoryPromised ==
    ASSUME SlotInv, SlotInv', KeepInv,
           WriteConfig \/ EraseDirectory \/ RewriteConfig \/ WriteBitmap \/ ClearEarlierByte
           \/ WriteTag
    PROVE  Promised
<1>1. AtDirectory /\ AtDirectory' /\ buffer' = buffer
  BY DEF WriteConfig, EraseDirectory, RewriteConfig, WriteBitmap, ClearEarlierByte,
     WriteTag, AtDirectory
<1>2. mode' = mode
  BY <1>1, Modes DEF AtDirectory
<1>3. /\ initDone => buffer # None
      /\ step \in {"bitmap", "bytes"} => initDone
  BY <1>1, RunningFacts DEF AtDirectory, SlotInv, AtStep
<1>4. CASE WriteConfig
  BY <1>1, <1>2, <1>3, <1>4, WriteConfigOutcome, Quiet, SaveStep
<1>5. CASE EraseDirectory
  BY <1>1, <1>2, <1>3, <1>5, EraseDirectoryOutcome, Quiet, SaveStep
<1>6. CASE RewriteConfig
  BY <1>1, <1>2, <1>6, RewriteConfigQuiet, Quiet
<1>7. CASE WriteBitmap
  <2>1. initDone
    BY <1>3, <1>7 DEF WriteBitmap
  <2> QED
    BY <2>1, <1>1, <1>2, <1>3, <1>7, WriteBitmapOutcome, SaveStep
<1>8. CASE ClearEarlierByte
  <2>1. initDone
    BY <1>3, <1>8 DEF ClearEarlierByte
  <2> QED
    BY <2>1, <1>1, <1>2, <1>3, <1>8, ClearEarlierByteOutcome, SaveStep
<1>9. CASE WriteTag
  BY <1>1, <1>2, <1>3, <1>9, WriteTagOutcome, Quiet, SaveStep
<1> QED
  BY <1>4, <1>5, <1>6, <1>7, <1>8, <1>9

\* A save reported as done has taken effect.
LEMMA DonePromised ==
    ASSUME SlotInv, SlotInv', KeepInv, WriteBackupTag
    PROVE  Promised
<1>1. /\ step = "tag" /\ step' \in {"idle", "sizeCheck"}
      /\ buffer' = IF initDone THEN None ELSE buffer
  BY DEF WriteBackupTag
<1>2. Kept' = Kept /\ (initDone => Kept = buffer)
  BY WriteBackupTagOutcome
<1>3. mode' = mode
  BY <1>1, Modes
<1>4. CASE initDone
  <2>1. buffer # None
    BY <1>1, <1>4, RunningFacts
  <2> QED
    BY <2>1, <1>1, <1>2, <1>3, <1>4 DEF Promised, mode, Register!Next, Register!Finish
<1>5. CASE ~initDone
  BY <1>1, <1>2, <1>3, <1>5, Quiet
<1> QED
  BY <1>4, <1>5

\* Saves begin, power is lost and the device is set up differently as the register
\* allows.
LEMMA EnvironmentPromised ==
    ASSUME SlotInv, SlotInv', (\E v \in States : SaveState(v)) \/ PowerLoss \/ Reconfigure
    PROVE  Promised
<1>1. ASSUME NEW v \in States, SaveState(v) PROVE Promised
  <2>1. /\ step = "idle" /\ step' = "next" /\ buffer' = v
        /\ UNCHANGED <<data, directory, deviceSize>>
    BY <1>1 DEF SaveState, flash, device
  <2>2. Kept' = Kept
    BY <2>1, FlashStays
  <2>3. buffer = None
    BY <2>1, RunningFacts DEF SlotInv, AtStep
  <2>4. mode = "up" /\ mode' = "up"
    BY <2>1, Modes
  <2> QED
    BY <2>1, <2>2, <2>3, <2>4 DEF Promised, mode, Register!Next, Register!Start
<1>2. CASE PowerLoss
  <2>1. step' = "off" /\ buffer' = None /\ UNCHANGED <<data, directory, deviceSize>>
    BY <1>2 DEF PowerLoss, flash
  <2>2. Kept' = Kept /\ mode' = "down"
    BY <2>1, FlashStays, Modes
  <2> QED
    BY <2>1, <2>2 DEF Promised, mode, Register!Next, Register!PowerLoss
<1>3. CASE Reconfigure
  <2>1. step = "off" /\ step' = "off" /\ buffer' = buffer
    BY <1>3 DEF Reconfigure
  <2>2. Kept' \in States \cup {None, Dirty}
    BY KeptTypes DEF KeptTyped
  <2>3. mode = "down" /\ mode' = "down"
    BY <2>1, Modes
  <2> QED
    BY <2>1, <2>2, <2>3 DEF Promised, mode, Register!Next, Register!Reconfigure
<1> QED
  BY <1>1, <1>2, <1>3

\* Every step is a step of the register, or leaves it as it is.
LEMMA NextPromised == SlotInv /\ SlotInv' /\ KeepInv /\ [Next]_vars => Promised
<1> SUFFICES ASSUME SlotInv, SlotInv', KeepInv, [Next]_vars PROVE Promised
  OBVIOUS
<1>1. CASE Storage
  BY Zenon, <1>1, BootPromised, SearchPromised, DirectoryPromised, DonePromised DEF Storage
<1>2. CASE (\E v \in States : SaveState(v)) \/ PowerLoss \/ Reconfigure
  BY <1>2, EnvironmentPromised
<1>3. CASE UNCHANGED vars
  <2>1. UNCHANGED <<data, directory, deviceSize, buffer, step>>
    BY <1>3 DEF vars, flash, device
  <2>2. Kept' = Kept /\ mode' = mode
    BY <2>1, FlashStays DEF mode
  <2> QED
    BY <2>1, <2>2, Quiet
<1> QED
  BY Zenon, <1>1, <1>2, <1>3 DEF Next

\* The storage keeps the promise of state storage, for every device and flash the
\* assumptions allow: whenever the power fails, except between two bytes of the
\* bitmap, and whatever words come out wrong, a restart finds the state last saved,
\* the one being saved, or, in the middle of a save, none.
THEOREM StorageKeepsPromise ==
    ASSUME ~LossBetweenBytes
    PROVE  Spec => KeepsPromise
<1>1. Init => Register!Init
  <2> SUFFICES ASSUME Init PROVE Register!Init
    OBVIOUS
  <2>1. SlotInv /\ ~Current
    BY InitSlot, ErasedFacts DEF Init, Current, main, Copies
  <2> QED
    BY <2>1, KeptNone, Modes DEF Init, mode, Register!Init
<1>2. SlotInv /\ SlotInv' /\ KeepInv /\ [Next]_vars => Promised
  BY NextPromised
<1> QED
  BY <1>1, <1>2, SlotInvariant, KeepInvariant, PTL
  DEF Spec, KeepsPromise, Register!Spec, Promised, mode
=============================================================================
