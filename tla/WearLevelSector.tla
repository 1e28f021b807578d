--------------------------- MODULE WearLevelSector ---------------------------
(* State storage on flash (Supla::StateWearLevelingSector): the state of all   *)
(* elements is one slot; each save takes the next slot of a ring of data       *)
(* sectors, and a directory sector, kept twice, says in a bitmap which slot is *)
(* the last one.  Flash can only clear bits, and only a whole sector can be    *)
(* erased.  Power may fail between any two flash operations, and any word      *)
(* written may turn out wrong.                                                 *)
(*                                                                             *)
(* A word of data is erased (Blank), part of the slot of a state, or neither.  *)
(* Addresses count words from the first slot; a bitmap byte is the number of   *)
(* its zero bits, the only thing that is read of it.  The section preamble is  *)
(* always the same and written just before the configuration: one flag, tag,   *)
(* stands for what is written last, the main Preamble.                         *)
EXTENDS Integers

CONSTANTS
    States,        \* what the elements save
    None, Blank, Dirty,
    SectorWords, DataSectors,
    BitmapBytes, BitsPerByte,
    Sizes,         \* sizes of a slot, one per configuration of the device
    MaxFaults,
    LossBetweenBytes   \* power may also fail between two bytes of the bitmap

ASSUME SectorAssumption ==
    /\ States \cap {None, Blank, Dirty} = {}
    /\ None # Blank /\ None # Dirty /\ Blank # Dirty
    /\ SectorWords \in Nat /\ DataSectors \in Nat
    /\ BitmapBytes \in Nat /\ BitsPerByte \in Nat \ {0}
    /\ Sizes \subseteq Nat \ {0} /\ Sizes # {}
    /\ MaxFaults \in Nat /\ LossBetweenBytes \in BOOLEAN
    \* four sectors, two of them data, are the least the constructor accepts; with
    \* two or with slots above half a sector a run of bad writes may erase the
    \* sector of the slot the directory still names
    /\ DataSectors >= 3
    /\ \A s \in Sizes : 2 * s <= SectorWords
    \* a size is not 0xFFFF; the code does not check that what is left of the
    \* directory sector has a bit for every slot (4096 bytes have 32000)
    /\ Sizes \cap {Blank, Dirty} = {}
    /\ \A s \in Sizes : SectorWords * DataSectors <= s * (BitmapBytes * BitsPerByte)

Copies == {"main", "backup"}
Address == 0 .. SectorWords * DataSectors - 1
Byte == 0 .. BitsPerByte

VARIABLES
    data,           \* the data sectors
    directory,      \* the two copies of the first sector
    step,           \* where the program is
    initDone,
    size,           \* slotSize(); Blank while elementStateSize is 0xFFFF
    slot,           \* currentSlotAddress
    lastStored,     \* lastStoredSlotAddress
    valid,          \* elementStateCrcCValid
    buffer,         \* dataBuffer: the state being saved, or None
    pos,            \* words of it already written
    crossed,        \* nextSectorErased
    changed,        \* sectorChanged
    copy,           \* the copy writeSectionPreamble is at
    eraseNeeded,    \* isEraseNeeded; from there on also dataFromSector # nullptr
    tagRead,        \* dataFromSector holds a main Preamble
    low,            \* the earlier bitmap byte to be cleared
    loaded,         \* what the elements were given at boot
    deviceSize,     \* the size this device's elements need
    faults          \* words that came out wrong, losses of power in the middle of
                    \* a boot or a save, and changes of deviceSize, so far

flash == <<data, directory>>
search == <<pos, crossed, changed>>
rewrite == <<copy, eraseNeeded, tagRead, low>>
position == <<initDone, size, slot, lastStored, valid>>
device == <<deviceSize, faults>>
vars == <<flash, step, position, buffer, search, rewrite, loaded, device>>

----------------------------------------------------------------------------
(* The flash. *)

\* Programming can only clear bits: over anything but erased words it leaves
\* neither the old nor the new content.
Program(old, new) ==
    IF new \in {Blank, old} THEN old ELSE IF old = Blank THEN new ELSE Dirty

SectorOf(address) == address \div SectorWords

EraseSector(memory, n) ==
    [a \in Address |-> IF SectorOf(a) = n THEN Blank ELSE memory[a]]

ErasedDirectory ==
    [tag |-> FALSE, config |-> Blank, bitmap |-> [b \in 0 .. BitmapBytes - 1 |-> 0]]

ClearBits(bitmap, byte, zeros) ==
    [bitmap EXCEPT ![byte] = IF zeros > @ THEN zeros ELSE @]

\* The content of a slot: the state all of whose words it holds.
SlotHolds(s, n, v) == \A i \in 0 .. n - 1 : data[s + i] = v
SlotContent(s, n) ==
    IF \E v \in States : SlotHolds(s, n, v)
    THEN CHOOSE v \in States : SlotHolds(s, n, v)
    ELSE Dirty

----------------------------------------------------------------------------
(* Addresses. *)

LastValidAddress == SectorWords * DataSectors - 1

\* Mutant of NextSlot: the ring has no end.
NextSlotUnbounded(s) == s + size

\* Mutant of NextSlot: a slot is tried again until it holds the state.
NextSlotRepeated(s) == IF s = lastStored THEN (s + size) % LastValidAddress ELSE s

NextSlot(s) ==
    IF s + size + size > LastValidAddress THEN 0 ELSE s + size

\* Mutant of EndSector: the sector where the slot begins.
StartSector(s) == SectorOf(s)

EndSector(s) == SectorOf(s + size - 1)

----------------------------------------------------------------------------
(* Boot. *)

\* tryLoadPreamblesFrom(): an unset size does not match its checksum either.
Loadable(c) == directory[c].tag /\ directory[c].config \in Sizes

\* The scan passes the bytes that are all zero and counts the zeros of the next.
MappedSlot(c) ==
    LET bitmap == directory[c].bitmap
        byte == CHOOSE b \in DOMAIN bitmap :
                    /\ bitmap[b] < BitsPerByte \/ b = BitmapBytes - 1
                    /\ \A e \in 0 .. b - 1 : bitmap[e] = BitsPerByte
    IN directory[c].config * (byte * BitsPerByte + bitmap[byte])

Source == IF Loadable("main") THEN "main" ELSE "backup"

Boot ==
    /\ step = "off"
    /\ Loadable(Source)
    /\ initDone' = TRUE /\ valid' = TRUE
    /\ size' = directory[Source].config
    /\ slot' = MappedSlot(Source) /\ lastStored' = slot'
    /\ step' = "sizeCheck"
    /\ UNCHANGED <<flash, buffer, search, rewrite, loaded, device>>

\* Neither copy can be read: the storage is set up anew.
FirstBoot ==
    /\ step = "off"
    /\ ~Loadable("main") /\ ~Loadable("backup")
    /\ initDone' = FALSE /\ valid' = TRUE
    /\ size' = Blank /\ slot' = 0 /\ lastStored' = 0
    /\ eraseNeeded' = TRUE /\ copy' = "main"
    /\ step' = "config"
    /\ UNCHANGED <<flash, buffer, search, tagRead, low, loaded, device>>

\* IsStateStorageValid() and LoadStateStorage(): the checksum of the slot is not
\* looked at.
LoadState ==
    /\ step = "sizeCheck"
    /\ size = deviceSize
    /\ loaded' = SlotContent(slot, size)
    /\ step' = "idle"
    /\ UNCHANGED <<flash, position, buffer, search, rewrite, device>>

DropState ==
    /\ step = "sizeCheck"
    /\ size # deviceSize
    /\ size' = deviceSize /\ valid' = FALSE
    /\ slot' = 0 /\ lastStored' = 0
    /\ data' = EraseSector(data, 0)
    /\ loaded' = None
    /\ step' = "idle"
    /\ UNCHANGED <<directory, initDone, buffer, search, rewrite, device>>

----------------------------------------------------------------------------
(* A save.  One that changes nothing writes nothing. *)

SaveState(v) ==
    /\ step = "idle"
    /\ ~SlotHolds(slot, size, v)
    /\ buffer' = v
    /\ crossed' = FALSE /\ changed' = FALSE
    /\ step' = "next"
    /\ UNCHANGED <<flash, position, pos, rewrite, loaded, device>>

\* The slot after the current one; when it ends in another sector, that sector is
\* erased first.
TakeNextSlot ==
    /\ step = "next"
    /\ slot' = NextSlot(slot)
    /\ IF EndSector(slot) # EndSector(slot')
       THEN /\ data' = EraseSector(data, EndSector(slot'))
            /\ crossed' = TRUE /\ UNCHANGED changed
       ELSE changed' = (changed \/ crossed) /\ UNCHANGED <<data, crossed>>
    /\ pos' = 0
    /\ step' = "write"
    /\ UNCHANGED <<directory, initDone, size, lastStored, valid, buffer, rewrite,
                   loaded, device>>

\* One word of the slot.  Bad flash may hold something else afterwards: a slot
\* with such a word is as good as one whose first word is wrong.
WriteWord ==
    /\ step = "write" /\ pos < size
    /\ \/ /\ data' = [data EXCEPT ![slot + pos] = Program(@, buffer)]
          /\ UNCHANGED faults
       \/ /\ pos = 0 /\ faults < MaxFaults
          /\ data' = [data EXCEPT ![slot + pos] = Dirty]
          /\ faults' = faults + 1
    /\ pos' = pos + 1
    /\ UNCHANGED <<directory, step, position, buffer, crossed, changed, rewrite,
                   loaded, deviceSize>>

\* Mutant of Verified: the directory is not erased when the ring starts over.
VerifiedWithoutErase ==
    /\ step = "write" /\ pos = size
    /\ SlotHolds(slot, size, buffer)
    /\ valid' = TRUE
    /\ eraseNeeded' = FALSE
    /\ lastStored' = slot
    /\ copy' = "main"
    /\ step' = "config"
    /\ UNCHANGED <<flash, initDone, size, slot, buffer, search, tagRead, low,
                   loaded, device>>

\* The slot is read back.
Verified ==
    /\ step = "write" /\ pos = size
    /\ SlotHolds(slot, size, buffer)
    /\ valid' = TRUE
    /\ eraseNeeded' = (lastStored > slot)
    /\ lastStored' = slot
    /\ copy' = "main"
    /\ step' = "config"
    /\ UNCHANGED <<flash, initDone, size, slot, buffer, search, tagRead, low,
                   loaded, device>>

TryAgain ==
    /\ step = "write" /\ pos = size
    /\ ~SlotHolds(slot, size, buffer)
    /\ ~changed
    /\ step' = "next"
    /\ UNCHANGED <<flash, position, buffer, search, rewrite, loaded, device>>

WriteFailed ==
    /\ step = "write" /\ pos = size
    /\ ~SlotHolds(slot, size, buffer)
    /\ changed
    /\ buffer' = None
    /\ step' = "error"
    /\ UNCHANGED <<flash, position, search, rewrite, loaded, device>>

----------------------------------------------------------------------------
(* writeSectionPreamble(): the main copy of the directory, then the backup. *)

WriteConfig ==
    /\ step = "config"
    /\ LET config == IF initDone THEN size ELSE Blank
       IN /\ directory' =
                 [directory EXCEPT ![copy].config = Program(@, config)]
          /\ eraseNeeded' = (eraseNeeded \/ directory'[copy].config # config)
    /\ step' = IF eraseNeeded' THEN "erase" ELSE IF initDone THEN "bitmap" ELSE "tag"
    /\ UNCHANGED <<data, position, buffer, search, copy, tagRead, low, loaded,
                   device>>

\* The first bytes of the sector are read, and the sector is erased.
EraseDirectory ==
    /\ step = "erase"
    /\ tagRead' = (initDone /\ directory[copy].tag)
    /\ directory' = [directory EXCEPT ![copy] = ErasedDirectory]
    /\ step' = "rewrite"
    /\ UNCHANGED <<data, position, buffer, search, copy, eraseNeeded, low, loaded,
                   device>>

RewriteConfig ==
    /\ step = "rewrite"
    /\ directory' = IF initDone
                    THEN [directory EXCEPT ![copy].config = Program(@, size)]
                    ELSE directory
    /\ step' = IF initDone THEN "bitmap" ELSE "tag"
    /\ UNCHANGED <<data, position, buffer, search, rewrite, loaded, device>>

\* The bit of the current slot, and, when the byte before it is not all zero,
\* every earlier byte.
WriteBitmap ==
    /\ step = "bitmap"
    /\ LET id == slot \div size
           byte == id \div BitsPerByte
       IN /\ directory' = [directory EXCEPT ![copy].bitmap =
                               ClearBits(@, byte, id % BitsPerByte)]
          /\ low' = byte - 1
          /\ step' = IF byte > 0 /\ directory[copy].bitmap[byte - 1] < BitsPerByte
                     THEN "bytes" ELSE "tag"
    /\ UNCHANGED <<data, position, buffer, search, copy, eraseNeeded, tagRead,
                   loaded, device>>

ClearEarlierByte ==
    /\ step = "bytes"
    /\ directory' = [directory EXCEPT ![copy].bitmap =
                         ClearBits(@, low, BitsPerByte)]
    /\ low' = low - 1
    /\ step' = IF low = 0 THEN "tag" ELSE "bytes"
    /\ UNCHANGED <<data, position, buffer, search, copy, eraseNeeded, tagRead,
                   loaded, device>>

\* The first bytes of the sector go back last.  Setting the storage up writes
\* them to the main copy, also when it is at the backup.
TagWritten ==
    LET written == IF initDone THEN copy ELSE "main"
        tag == IF initDone THEN eraseNeeded /\ tagRead ELSE TRUE
    IN [directory EXCEPT ![written].tag = @ \/ tag]

WriteTag ==
    /\ step = "tag" /\ copy = "main"
    /\ directory' = TagWritten
    /\ copy' = "backup" /\ step' = "config"
    /\ UNCHANGED <<data, position, buffer, search, eraseNeeded, tagRead, low,
                   loaded, device>>

WriteBackupTag ==
    /\ step = "tag" /\ copy = "backup"
    /\ directory' = TagWritten
    /\ IF initDone
       THEN /\ buffer' = None
            /\ UNCHANGED <<data, initDone>>
            /\ step' = "idle"
       ELSE \* the first data sector is made ready
            /\ data' = EraseSector(data, 0)
            /\ initDone' = TRUE
            /\ UNCHANGED buffer
            /\ step' = "sizeCheck"
    /\ UNCHANGED <<size, slot, lastStored, valid, search, rewrite, loaded, device>>

----------------------------------------------------------------------------
(* The environment. *)

PowerLoss ==
    /\ step # "off"
    /\ step = "bytes" => LossBetweenBytes
    /\ IF step \in {"idle", "error"}
       THEN UNCHANGED faults
       ELSE /\ faults < MaxFaults
            /\ faults' = faults + 1
    /\ step' = "off"
    /\ initDone' = FALSE /\ size' = Blank /\ slot' = 0 /\ lastStored' = 0
    /\ valid' = FALSE
    /\ buffer' = None /\ pos' = 0 /\ crossed' = FALSE /\ changed' = FALSE
    /\ copy' = "main" /\ eraseNeeded' = FALSE /\ tagRead' = FALSE /\ low' = 0
    /\ loaded' = None
    /\ UNCHANGED <<flash, deviceSize>>

\* A new firmware or configuration has other elements.
Reconfigure ==
    /\ step = "off"
    /\ faults < MaxFaults
    /\ deviceSize' \in Sizes \ {deviceSize}
    /\ faults' = faults + 1
    /\ UNCHANGED <<flash, step, position, buffer, search, rewrite, loaded>>

Init ==
    /\ data = [a \in Address |-> Blank]
    /\ directory = [c \in Copies |-> ErasedDirectory]
    /\ step = "off"
    /\ initDone = FALSE /\ size = Blank /\ slot = 0 /\ lastStored = 0
    /\ valid = FALSE
    /\ buffer = None /\ pos = 0 /\ crossed = FALSE /\ changed = FALSE
    /\ copy = "main" /\ eraseNeeded = FALSE /\ tagRead = FALSE /\ low = 0
    /\ loaded = None
    /\ deviceSize \in Sizes /\ faults = 0

Storage ==
    \/ Boot \/ FirstBoot \/ LoadState \/ DropState
    \/ TakeNextSlot \/ WriteWord \/ Verified \/ TryAgain \/ WriteFailed
    \/ WriteConfig \/ EraseDirectory \/ RewriteConfig
    \/ WriteBitmap \/ ClearEarlierByte \/ WriteTag \/ WriteBackupTag

Next ==
    \/ Storage
    \/ \E v \in States : SaveState(v)
    \/ PowerLoss
    \/ Reconfigure

Spec == Init /\ [][Next]_vars

\* The program runs on while it has power; saves, losses of power and new
\* configurations need not happen.
FairSpec == Spec /\ WF_vars(Storage)

----------------------------------------------------------------------------

Directory == [tag : BOOLEAN, config : Sizes \cup {Blank, Dirty},
              bitmap : [0 .. BitmapBytes - 1 -> Byte]]

\* The storage keeps to its types: every address lies in the data sectors.
TypeOK ==
    /\ data \in [Address -> States \cup {Blank, Dirty}]
    /\ directory \in [Copies -> Directory]
    /\ step \in {"off", "sizeCheck", "idle", "next", "write", "error", "config",
                 "erase", "rewrite", "bitmap", "bytes", "tag"}
    /\ size \in Sizes \cup {Blank}
    /\ slot \in Address /\ lastStored \in Address
    /\ buffer \in States \cup {None}
    /\ pos \in Nat /\ low \in -1 .. BitmapBytes
    /\ copy \in Copies
    /\ loaded \in States \cup {None, Dirty}
    /\ deviceSize \in Sizes /\ faults \in 0 .. MaxFaults
    /\ {initDone, valid, crossed, changed, eraseNeeded, tagRead} \subseteq BOOLEAN

\* Between saves the bitmap on the flash names the slot the program holds for the
\* current one, after wraps, retries and restarts from whatever was left.
BitmapNamesSlot ==
    step = "idle" /\ valid => Loadable("main") /\ MappedSlot("main") = slot

\* What a restart would give the elements.
Kept == IF Loadable(Source) /\ directory[Source].config = deviceSize
        THEN SlotContent(MappedSlot(Source), deviceSize)
        ELSE None

Register == INSTANCE StateRegister WITH
    Garbage <- Dirty,
    kept <- Kept,
    saving <- buffer,
    mode <- CASE step = "off" -> "down" [] step = "error" -> "failed" [] OTHER -> "up"

\* The storage keeps the promise of state storage: whenever the power fails and
\* whatever words come out wrong, a restart finds the state last saved, the one
\* being saved, or, in the middle of a save, none.
KeepsPromise == Register!Spec

\* A save ends, done or given up, whatever half-written slots it has to pass.
SaveEnds == buffer # None ~> buffer = None
=============================================================================
