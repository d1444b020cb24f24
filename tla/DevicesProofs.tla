--------------------------- MODULE DevicesProofs ---------------------------
(***************************************************************************)
(* First the class FileDescriptorsManager taken alone: for every number of *)
(* entries and every set of objects, any sequence of alloc (), assign ()   *)
(* and free () leaves each entry in agreement with the back pointer of its *)
(* object.  Then Devices, which adds the registry, for any number of       *)
(* devices, slots and entries: the two tables lead only to devices that    *)
(* are alive, and the registry with its holes is the table of names        *)
(* DeviceNames describes.                                                  *)
(***************************************************************************)
EXTENDS Devices, Least

-----------------------------------------------------------------------------
(* The descriptors alone *)

FdmInv == FdmTypeOK /\ EntriesPointBack

\* The array is empty and no object has a descriptor.
LEMMA FdmInitInv == FdmInit => FdmInv
  BY FdmAssumption DEF FdmInit, FdmInv, FdmTypeOK, EntriesPointBack, Errnos, Descriptors

\* An object without a descriptor is in no entry, so that the new one is the
\* only one it has; what the entry held before loses its only one.
LEMMA SetEntryKeeps ==
  ASSUME FdmInv, NEW fd \in Descriptors, NEW io \in IOs, ~Allocated(io),
         SetEntry(fd, io), errno' \in Errnos
  PROVE  FdmInv'
<1>1. FdmTypeOK'
  BY DEF FdmInv, FdmTypeOK, SetEntry
<1>2. ASSUME NEW other \in Descriptors, sfDescriptorsArray'[other] # nullptr
      PROVE  fFileDescriptor'[sfDescriptorsArray'[other]] = other
  <2>1. CASE other = fd
    BY <2>1 DEF FdmInv, FdmTypeOK, SetEntry
  <2>2. CASE other # fd
    <3>1. sfDescriptorsArray'[other] = sfDescriptorsArray[other]
      BY <2>2 DEF FdmInv, FdmTypeOK, SetEntry
    <3>2. fFileDescriptor[sfDescriptorsArray[other]] = other
      BY <1>2, <3>1 DEF FdmInv, EntriesPointBack
    <3>3. sfDescriptorsArray[other] # io
      BY <3>2, FdmAssumption DEF Allocated, Descriptors
    <3> QED BY <3>1, <3>2, <3>3 DEF FdmInv, FdmTypeOK, SetEntry
  <2> QED BY <2>1, <2>2
<1> QED BY <1>1, <1>2 DEF FdmInv, EntriesPointBack

\* A call that is refused changes errno only.
LEMMA RefusedKeeps ==
  ASSUME FdmInv, errno' \in Errnos, UNCHANGED <<sfDescriptorsArray, fFileDescriptor>>
  PROVE  FdmInv'
  BY DEF FdmInv, FdmTypeOK, EntriesPointBack

\* free () clears the entry and the back pointer of the object in it.
LEMMA FreeKeeps ==
  ASSUME FdmInv, NEW fd, Free(fd)
  PROVE  FdmInv'
<1>1. CASE ~IsValid(fd) \/ sfDescriptorsArray[fd] = nullptr
  BY <1>1, RefusedKeeps DEF Free, Refuses, FdmInv, FdmTypeOK, Errnos
<1>2. CASE IsValid(fd) /\ sfDescriptorsArray[fd] # nullptr
  <2>1. FdmTypeOK'
    BY <1>2 DEF FdmInv, FdmTypeOK, Free, IsValid, Errnos, noFileDescriptor
  <2>2. ASSUME NEW other \in Descriptors, sfDescriptorsArray'[other] # nullptr
        PROVE  fFileDescriptor'[sfDescriptorsArray'[other]] = other
    <3>1. other # fd /\ sfDescriptorsArray'[other] = sfDescriptorsArray[other]
      BY <1>2, <2>2 DEF FdmInv, FdmTypeOK, Free, IsValid
    <3>2. sfDescriptorsArray[other] # sfDescriptorsArray[fd]
      BY <1>2, <2>2, <3>1 DEF FdmInv, EntriesPointBack, IsValid
    <3> QED BY <1>2, <2>2, <3>1, <3>2
               DEF FdmInv, FdmTypeOK, EntriesPointBack, Free, IsValid
  <2> QED BY <2>1, <2>2 DEF FdmInv, EntriesPointBack
<1> QED BY <1>1, <1>2

\* Whichever of alloc (), assign () and free () is called.
LEMMA FdmNextInv == FdmInv /\ [FdmNext]_fdmVars => FdmInv'
<1> SUFFICES ASSUME FdmInv, [FdmNext]_fdmVars PROVE FdmInv'
  OBVIOUS
<1>1. ASSUME NEW io \in IOs, Alloc(io) PROVE FdmInv'
  <2>1. CASE \E fd \in Descriptors : AllocGives(io, fd) /\ UNCHANGED errno
    BY <2>1, SetEntryKeeps DEF AllocGives, FdmInv, FdmTypeOK
  <2>2. CASE Refuses("alloc", noFileDescriptor, AllocErrno(io))
    BY <2>2, RefusedKeeps DEF Refuses, AllocErrno, Errnos
  <2> QED BY <1>1, <2>1, <2>2 DEF Alloc
<1>2. ASSUME NEW fd \in -1 .. sfSize, NEW io \in IOs, Assign(fd, io) PROVE FdmInv'
  <2>1. CASE IsValid(fd) /\ ~Allocated(io) /\ SetEntry(fd, io) /\ UNCHANGED errno
    BY <2>1, SetEntryKeeps DEF IsValid, FdmInv, FdmTypeOK
  <2>2. CASE Refuses("assign", fd, "EBADF") \/ Refuses("assign", fd, "EBUSY")
    BY <2>2, RefusedKeeps DEF Refuses, Errnos
  <2> QED BY <1>2, <2>1, <2>2 DEF Assign
<1>3. ASSUME NEW fd \in -1 .. sfSize, Free(fd) PROVE FdmInv'
  BY <1>3, FreeKeeps
<1>4. CASE UNCHANGED fdmVars
  BY <1>4, RefusedKeeps DEF fdmVars, FdmInv, FdmTypeOK
<1> QED BY <1>1, <1>2, <1>3, <1>4 DEF FdmNext

\* The array, the back pointers and errno keep their types.
THEOREM FdmTypeCorrect == FdmSpec => []FdmTypeOK
<1>1. FdmInv => FdmTypeOK
  BY DEF FdmInv
<1> QED BY <1>1, FdmInitInv, FdmNextInv, PTL DEF FdmSpec

\* No object is ever reachable through two descriptors, whatever assign ()
\* displaces and however calls follow each other.
THEOREM EntriesPointBackAlways == FdmSpec => []EntriesPointBack
<1>1. FdmInv => EntriesPointBack
  BY DEF FdmInv
<1> QED BY <1>1, FdmInitInv, FdmNextInv, PTL DEF FdmSpec

\* alloc () leaves the entries of the standard streams alone.
THEOREM StandardEntriesKept == FdmSpec => StandardEntriesReserved
<1> DEFINE Step == \A fd \in 0 .. (FirstAllocated - 1) :
                     sfDescriptorsArray'[fd] # sfDescriptorsArray[fd] => last'.op # "alloc"
<1>1. ASSUME FdmInv, [FdmNext]_fdmVars PROVE [Step]_fdmVars
  <2> SUFFICES ASSUME FdmNext, NEW fd \in 0 .. (FirstAllocated - 1),
                      sfDescriptorsArray'[fd] # sfDescriptorsArray[fd]
               PROVE  last'.op # "alloc"
    BY <1>1
  <2>1. ASSUME NEW io \in IOs, Alloc(io) PROVE FALSE
    <3>1. PICK new \in Descriptors : AllocGives(io, new)
      BY <2>1 DEF Alloc, Refuses
    <3>2. new # fd
      BY <3>1 DEF AllocGives, LowestFree, FirstAllocated
    <3> QED BY <1>1, <3>1, <3>2 DEF AllocGives, SetEntry, FdmInv, FdmTypeOK
  <2>2. ASSUME NEW arg, NEW io, Assign(arg, io) PROVE last'.op = "assign"
    BY <2>2 DEF Assign, Refuses, Returns
  <2>3. ASSUME NEW arg, Free(arg) PROVE last'.op = "free"
    BY <2>3 DEF Free, Refuses, Returns
  <2> QED BY <2>1, <2>2, <2>3 DEF FdmNext
<1> QED BY <1>1, FdmInitInv, FdmNextInv, PTL DEF FdmSpec, StandardEntriesReserved

\* alloc () fills an empty entry: what it finds in others, it leaves there.
THEOREM AllocKeepsObjects == FdmSpec => AllocNeverDisplaces
<1> DEFINE Step == \A fd \in Descriptors :
                     (/\ sfDescriptorsArray[fd] # nullptr
                      /\ sfDescriptorsArray'[fd] # sfDescriptorsArray[fd])
                        => last'.op \in {"assign", "free"}
<1>1. ASSUME FdmInv, [FdmNext]_fdmVars PROVE [Step]_fdmVars
  <2> SUFFICES ASSUME FdmNext, NEW fd \in Descriptors, sfDescriptorsArray[fd] # nullptr,
                      sfDescriptorsArray'[fd] # sfDescriptorsArray[fd]
               PROVE  last'.op \in {"assign", "free"}
    BY <1>1
  <2>1. ASSUME NEW io \in IOs, Alloc(io) PROVE FALSE
    <3>1. PICK new \in Descriptors : AllocGives(io, new)
      BY <2>1 DEF Alloc, Refuses
    <3>2. new # fd
      BY <3>1 DEF AllocGives, LowestFree
    <3> QED BY <1>1, <3>1, <3>2 DEF AllocGives, SetEntry, FdmInv, FdmTypeOK
  <2>2. ASSUME NEW arg, NEW io, Assign(arg, io) PROVE last'.op = "assign"
    BY <2>2 DEF Assign, Refuses, Returns
  <2>3. ASSUME NEW arg, Free(arg) PROVE last'.op = "free"
    BY <2>3 DEF Free, Refuses, Returns
  <2> QED BY <2>1, <2>2, <2>3 DEF FdmNext
<1> QED BY <1>1, FdmInitInv, FdmNextInv, PTL DEF FdmSpec, AllocNeverDisplaces

-----------------------------------------------------------------------------
(* Devices: the invariant *)

\* The slots that hold a device.
SlotsOf(dev) == {i \in Registry!Slots : sfRegistryArray[i] = dev}

\* The types of what FdmTypeOK does not speak of.
RegistryTypeOK ==
  /\ sfRegistryArray \in [Registry!Slots -> IOs \cup {nullptr}]
  /\ debug \in BOOLEAN
  /\ alive \subseteq IOs /\ opened \subseteq IOs /\ held \subseteq IOs

\* The application's count of its calls is the number of slots.
AddedAreCounted == added = [dev \in IOs |-> Cardinality(SlotsOf(dev))]

\* A device in a slot, and one that is held, was not destroyed.
ReachedAreAlive ==
  /\ \A dev \in IOs : added[dev] # 0 => dev \in alive
  /\ held \subseteq alive

\* To be held, to be open and to have a descriptor are one and the same.
HeldAreOpened ==
  /\ held = opened
  /\ \A dev \in IOs : dev \in held <=> fFileDescriptor[dev] # noFileDescriptor

\* A device is reached through its slots, which the application counts, or
\* through its descriptor, which it has while the application holds it.
IInv == /\ FdmInv
        /\ RegistryTypeOK
        /\ AddedAreCounted
        /\ ReachedAreAlive
        /\ HeldAreOpened
        /\ NamesAreUnique

-----------------------------------------------------------------------------
(* The slots of a device, and their number *)

\* What the refinement mapping makes of the slots.
registrations == [dev \in IOs |-> Cardinality(SlotsOf(dev))]

\* A device has finitely many slots, and none if it has zero.
LEMMA SlotsAreCounted ==
  ASSUME NEW dev
  PROVE  /\ IsFiniteSet(SlotsOf(dev))
         /\ Cardinality(SlotsOf(dev)) \in 0 .. RegistrySize
         /\ Cardinality(SlotsOf(dev)) = 0 <=> SlotsOf(dev) = {}
<1>1. /\ 0 \in Int /\ RegistrySize - 1 \in Int /\ ~(0 > RegistrySize - 1)
      /\ RegistrySize - 1 - 0 + 1 = RegistrySize /\ RegistrySize \in Nat
  BY DevicesAssumption
<1>2. IsFiniteSet(Registry!Slots) /\ Cardinality(Registry!Slots) = RegistrySize
  BY <1>1, FS_Interval DEF Registry!Slots
<1>3. SlotsOf(dev) \in SUBSET Registry!Slots
  BY DEF SlotsOf
<1>4. IsFiniteSet(SlotsOf(dev)) /\ Cardinality(SlotsOf(dev)) <= RegistrySize
  BY <1>2, <1>3, FS_Subset
<1> QED BY <1>1, <1>4, FS_CardinalityType, FS_EmptySet

\* A search that goes through all slots finds a first one if there is any.
LEMMA FirstSlot ==
  ASSUME NEW T \in SUBSET Registry!Slots, T # {}
  PROVE  \E i \in T : \A j \in 0 .. (i - 1) : j \notin T
<1>1. RegistrySize - 1 \in Nat /\ T \in SUBSET (0 .. (RegistrySize - 1))
  BY DevicesAssumption DEF Registry!Slots
<1>2. PICK i \in T : \A j \in T : i <= j
  BY <1>1, LeastExists
<1>3. i \in Nat
  BY <1>1
<1> QED BY <1>2, <1>3

\* add () to an empty slot is one registration more.
LEMMA SlotFilled ==
  ASSUME RegistryTypeOK, NEW dev \in IOs, NEW i \in Registry!Slots, sfRegistryArray[i] = nullptr,
         sfRegistryArray' = [sfRegistryArray EXCEPT ![i] = dev]
  PROVE  registrations' = [registrations EXCEPT ![dev] = @ + 1]
<1>1. SlotsOf(dev)' = SlotsOf(dev) \cup {i} /\ i \notin SlotsOf(dev)
  BY FdmAssumption DEF SlotsOf, RegistryTypeOK
<1>2. \A other \in IOs : other # dev => SlotsOf(other)' = SlotsOf(other)
  BY FdmAssumption DEF SlotsOf, RegistryTypeOK
<1>3. Cardinality(SlotsOf(dev)') = Cardinality(SlotsOf(dev)) + 1
  BY <1>1, SlotsAreCounted, FS_AddElement
<1> QED BY <1>2, <1>3 DEF registrations

\* remove () of a slot is one registration less.
LEMMA SlotEmptied ==
  ASSUME RegistryTypeOK, NEW dev \in IOs, NEW i \in Registry!Slots, sfRegistryArray[i] = dev,
         sfRegistryArray' = [sfRegistryArray EXCEPT ![i] = nullptr]
  PROVE  /\ registrations[dev] \in Nat \ {0}
         /\ registrations' = [registrations EXCEPT ![dev] = @ - 1]
<1>1. SlotsOf(dev)' = SlotsOf(dev) \ {i} /\ i \in SlotsOf(dev)
  BY FdmAssumption DEF SlotsOf, RegistryTypeOK
<1>2. \A other \in IOs : other # dev => SlotsOf(other)' = SlotsOf(other)
  BY FdmAssumption DEF SlotsOf, RegistryTypeOK
<1>3. Cardinality(SlotsOf(dev)') = Cardinality(SlotsOf(dev)) - 1
  BY <1>1, SlotsAreCounted, FS_RemoveElement
<1>4. Cardinality(SlotsOf(dev)) \in Nat \ {0}
  BY <1>1, SlotsAreCounted
<1> QED BY <1>2, <1>3, <1>4 DEF registrations

\* The count is a matter of the array alone.
LEMMA SlotsKept ==
  ASSUME UNCHANGED sfRegistryArray
  PROVE  registrations' = registrations
  BY DEF registrations, SlotsOf

\* A device in a slot is registered.
LEMMA InSlotIsCounted ==
  ASSUME NEW i \in Registry!Slots, sfRegistryArray[i] \in IOs
  PROVE  registrations[sfRegistryArray[i]] # 0
<1>1. i \in SlotsOf(sfRegistryArray[i])
  BY DEF SlotsOf
<1> QED BY <1>1, SlotsAreCounted DEF registrations

\* What remove () does to the slots: it empties one if the device has any.
LEMMA RemoveEmptiesOne ==
  ASSUME NEW dev \in IOs, Registry!Remove(dev)
  PROVE  \/ \E i \in Registry!Slots :
              /\ sfRegistryArray[i] = dev
              /\ sfRegistryArray' = [sfRegistryArray EXCEPT ![i] = nullptr]
         \/ registrations[dev] = 0 /\ UNCHANGED sfRegistryArray
<1>1. CASE \E i \in Registry!Slots : Registry!Position(dev, i)
  BY <1>1 DEF Registry!Remove, Registry!Position
<1>2. CASE ~\E i \in Registry!Slots : Registry!Position(dev, i)
  <2>1. SlotsOf(dev) = {}
    <3> SUFFICES ASSUME SlotsOf(dev) # {} PROVE FALSE
      OBVIOUS
    <3>1. PICK i \in SlotsOf(dev) : \A j \in 0 .. (i - 1) : j \notin SlotsOf(dev)
      <4>1. SlotsOf(dev) \in SUBSET Registry!Slots
        BY DEF SlotsOf
      <4> QED BY <4>1, FirstSlot
    <3>2. \A j \in 0 .. (i - 1) : j \in Registry!Slots
      BY <3>1, DevicesAssumption DEF SlotsOf, Registry!Slots
    <3>3. Registry!Position(dev, i) /\ i \in Registry!Slots
      BY <3>1, <3>2 DEF SlotsOf, Registry!Position
    <3> QED BY <1>2, <3>3
  <2>2. registrations[dev] = 0
    BY <2>1, SlotsAreCounted DEF registrations
  <2> QED BY <1>2, <2>2 DEF Registry!Remove
<1> QED BY <1>1, <1>2

-----------------------------------------------------------------------------
(* What the steps keep *)

\* The part of the invariant about registrations, and the part about descriptors.
RegistryInv == /\ RegistryTypeOK
               /\ AddedAreCounted
               /\ ReachedAreAlive
               /\ NamesAreUnique

DescriptorsInv == FdmInv /\ HeldAreOpened /\ held \subseteq IOs

\* A device that is not held has no descriptor that could be taken from it.
LEMMA NotHeldHasNone ==
  ASSUME DescriptorsInv, NEW dev \in IOs, dev \notin held,
         fFileDescriptor' = [fFileDescriptor EXCEPT ![dev] = noFileDescriptor]
  PROVE  fFileDescriptor' = fFileDescriptor /\ dev \notin opened /\ ~Allocated(dev)
  BY DEF DescriptorsInv, FdmInv, FdmTypeOK, HeldAreOpened, Allocated, noFileDescriptor

\* A call that leaves the descriptors and the drivers alone.
LEMMA DescriptorsKept ==
  ASSUME DescriptorsInv, errno' \in Errnos,
         UNCHANGED <<sfDescriptorsArray, fFileDescriptor, opened, held>>
  PROVE  DescriptorsInv'
  BY RefusedKeeps DEF DescriptorsInv, HeldAreOpened

\* open () of a device: the driver has it open exactly if alloc () succeeded.
LEMMA OpensKeeps ==
  ASSUME DescriptorsInv, NEW dev \in IOs, Opens(dev)
  PROVE  /\ DescriptorsInv'
         /\ held' \in {held, held \cup {dev}}
<1>1. CASE /\ Fails("open", noFileDescriptor, "EIO")
           /\ UNCHANGED <<sfDescriptorsArray, fFileDescriptor, opened, held>>
  BY <1>1, DescriptorsKept DEF Fails, Errnos
<1>2. ASSUME NEW fd \in Descriptors, AllocGives(dev, fd), errno' = "0",
             opened' = opened \cup {dev}, held' = held \cup {dev}
      PROVE  DescriptorsInv' /\ held' \in {held, held \cup {dev}}
  <2>1. FdmInv'
    BY <1>2, SetEntryKeeps DEF AllocGives, DescriptorsInv, Errnos
  <2>2. HeldAreOpened'
    BY <1>2 DEF AllocGives, SetEntry, DescriptorsInv, FdmInv, FdmTypeOK, HeldAreOpened,
                Descriptors, noFileDescriptor
  <2> QED BY <1>2, <2>1, <2>2 DEF DescriptorsInv
<1>3. ASSUME dev \notin opened, NEW e \in {AllocErrno(dev), "EIO"},
             Fails("open", noFileDescriptor, e),
             fFileDescriptor' = [fFileDescriptor EXCEPT ![dev] = noFileDescriptor],
             UNCHANGED <<sfDescriptorsArray, opened, held>>
      PROVE  DescriptorsInv' /\ held' = held
  <2>1. dev \notin held
    BY <1>3 DEF DescriptorsInv, HeldAreOpened
  <2>2. errno' \in Errnos
    BY <1>3 DEF Fails, AllocErrno, Errnos
  <2> QED BY <1>3, <2>1, <2>2, NotHeldHasNone, DescriptorsKept
<1> QED BY <1>1, <1>2, <1>3 DEF Opens

\* close () clears the entry and the back pointer of one device.
LEMMA CloseKeeps ==
  ASSUME DescriptorsInv, NEW fd, Close(fd)
  PROVE  DescriptorsInv' /\ held' \subseteq held
<1>1. CASE /\ Fails("close", fd, "EBADF")
           /\ UNCHANGED <<sfDescriptorsArray, fFileDescriptor, opened, held>>
  BY <1>1, DescriptorsKept DEF Fails, Errnos
<1>2. CASE GetIo(fd) # nullptr
  <2> DEFINE dev == GetIo(fd)
  <2>1. /\ fd \in Descriptors /\ sfDescriptorsArray[fd] = dev
        /\ dev \in IOs /\ fFileDescriptor[dev] = fd
    BY <1>2 DEF GetIo, IsValid, DescriptorsInv, FdmInv, FdmTypeOK, EntriesPointBack
  <2>2. /\ ReleaseDescriptor(dev) /\ errno' \in Errnos
        /\ opened' = opened \ {dev} /\ held' = held \ {dev}
    BY <1>2 DEF Close, Fails, Errnos
  <2> HIDE DEF dev
  <2>3. /\ sfDescriptorsArray' = [sfDescriptorsArray EXCEPT ![fd] = nullptr]
        /\ fFileDescriptor' = [fFileDescriptor EXCEPT ![dev] = noFileDescriptor]
    <3>1. IsValid(fFileDescriptor[dev])
      BY <2>1 DEF IsValid
    <3>2. fFileDescriptor' = [fFileDescriptor EXCEPT ![dev] = noFileDescriptor,
                                                     ![dev] = noFileDescriptor]
      BY <2>1, <2>2, <3>1 DEF ReleaseDescriptor
    <3>3. fFileDescriptor \in [IOs -> Descriptors \cup {noFileDescriptor}]
      BY DEF DescriptorsInv, FdmInv, FdmTypeOK
    <3> QED BY <2>1, <2>2, <3>1, <3>2, <3>3 DEF ReleaseDescriptor
  <2>4. FdmTypeOK'
    BY <2>1, <2>2, <2>3 DEF DescriptorsInv, FdmInv, FdmTypeOK
  <2>5. ASSUME NEW other \in Descriptors, sfDescriptorsArray'[other] # nullptr
        PROVE  fFileDescriptor'[sfDescriptorsArray'[other]] = other
    <3>1. other # fd /\ sfDescriptorsArray'[other] = sfDescriptorsArray[other]
      BY <2>1, <2>3, <2>5 DEF DescriptorsInv, FdmInv, FdmTypeOK
    <3>2. fFileDescriptor[sfDescriptorsArray[other]] = other
      BY <2>5, <3>1 DEF DescriptorsInv, FdmInv, EntriesPointBack
    <3> QED BY <2>1, <2>3, <2>5, <3>1, <3>2 DEF DescriptorsInv, FdmInv, FdmTypeOK
  <2>6. HeldAreOpened'
    BY <2>1, <2>2, <2>3 DEF DescriptorsInv, FdmInv, FdmTypeOK, HeldAreOpened
  <2> QED BY <2>2, <2>4, <2>5, <2>6 DEF DescriptorsInv, FdmInv, EntriesPointBack
<1> QED BY <1>1, <1>2 DEF Close

\* add () of a name that no other slot holds, in builds that look.
LEMMA AddKeeps ==
  ASSUME RegistryInv, NEW dev \in alive, Registry!Add(dev),
         added' = [added EXCEPT ![dev] = @ + 1], UNCHANGED <<alive, opened, held, debug>>
  PROVE  RegistryInv'
<1>1. PICK i \in Registry!Slots :
         /\ sfRegistryArray[i] = nullptr
         /\ sfRegistryArray' = [sfRegistryArray EXCEPT ![i] = dev]
  BY DEF Registry!Add
<1>2. dev \in IOs
  BY DEF RegistryInv, RegistryTypeOK
<1>3. RegistryTypeOK'
  BY <1>1, <1>2 DEF RegistryInv, RegistryTypeOK
<1>4. AddedAreCounted'
  BY <1>1, <1>2, SlotFilled DEF RegistryInv, AddedAreCounted, registrations
<1>5. ReachedAreAlive'
  BY <1>2 DEF RegistryInv, RegistryTypeOK, AddedAreCounted, ReachedAreAlive
<1>6. NamesAreUnique'
  <2>1. debug => \A j \in Registry!Slots :
                   sfRegistryArray[j] # nullptr => fName[sfRegistryArray[j]] # fName[dev]
    BY DEF Registry!Add, Registry!Duplicate, Registry!SameName
  <2>2. \A j \in Registry!Slots :
          sfRegistryArray'[j] = IF j = i THEN dev ELSE sfRegistryArray[j]
    BY <1>1 DEF RegistryInv, RegistryTypeOK
  <2> QED BY <2>1, <2>2 DEF RegistryInv, NamesAreUnique
<1> QED BY <1>3, <1>4, <1>5, <1>6 DEF RegistryInv

\* remove () takes as many registrations from the device as the application's
\* count does: one, or none if it has none.
LEMMA RemoveKeeps ==
  ASSUME RegistryInv, NEW dev \in IOs, Registry!Remove(dev),
         added' = [added EXCEPT ![dev] = IF @ = 0 THEN 0 ELSE @ - 1],
         UNCHANGED <<alive, opened, held, debug>>
  PROVE  RegistryInv'
<1>1. added = registrations
  BY DEF RegistryInv, AddedAreCounted, registrations
<1>2. ASSUME NEW i \in Registry!Slots, sfRegistryArray[i] = dev,
             sfRegistryArray' = [sfRegistryArray EXCEPT ![i] = nullptr]
      PROVE  RegistryInv'
  <2>1. RegistryTypeOK'
    BY <1>2 DEF RegistryInv, RegistryTypeOK
  <2>2. AddedAreCounted'
    <3>1. /\ registrations' = [registrations EXCEPT ![dev] = @ - 1]
          /\ registrations[dev] # 0
      BY <1>2, SlotEmptied DEF RegistryInv
    <3>2. added' = registrations'
      BY <1>1, <3>1
    <3> QED BY <3>2 DEF AddedAreCounted, registrations
  <2>3. ReachedAreAlive'
    BY <1>1 DEF RegistryInv, ReachedAreAlive, registrations
  <2>4. NamesAreUnique'
    <3>1. \A j \in Registry!Slots : sfRegistryArray'[j] \in {sfRegistryArray[j], nullptr}
      BY <1>2 DEF RegistryInv, RegistryTypeOK
    <3> QED BY <3>1 DEF RegistryInv, NamesAreUnique
  <2> QED BY <2>1, <2>2, <2>3, <2>4 DEF RegistryInv
<1>3. ASSUME registrations[dev] = 0, UNCHANGED sfRegistryArray PROVE RegistryInv'
  <2>1. added' = added
    BY <1>1, <1>3 DEF registrations
  <2> QED BY <1>3, <2>1, SlotsKept DEF RegistryInv, RegistryTypeOK, AddedAreCounted,
                                       registrations, ReachedAreAlive, NamesAreUnique
<1> QED BY <1>2, <1>3, RemoveEmptiesOne

\* Where the registry is left alone, what is held and alive must still agree.
LEMMA RegistryKept ==
  ASSUME RegistryInv, UNCHANGED <<sfRegistryArray, added, debug>>,
         alive' \subseteq IOs, opened' \subseteq IOs, held' \subseteq alive',
         \A dev \in IOs : added[dev] # 0 => dev \in alive'
  PROVE  RegistryInv'
<1>1. AddedAreCounted'
  BY SlotsKept DEF RegistryInv, AddedAreCounted, registrations
<1> QED BY <1>1 DEF RegistryInv, RegistryTypeOK, ReachedAreAlive, NamesAreUnique

\* A path leads to a device in a slot, and so to one that was added.
LEMMA FoundIsAdded ==
  ASSUME RegistryInv, NEW path, NEW dev \in IOs, Registry!Identifies(path, dev)
  PROVE  added[dev] # 0
<1>1. PICK i \in Registry!Slots : dev = sfRegistryArray[i]
  BY FdmAssumption DEF Registry!Identifies
<1> QED BY <1>1, InSlotIsCounted DEF RegistryInv, AddedAreCounted, registrations

\* Nothing is registered, open or held at first.
LEMMA InitIInv == Init => IInv
<1> SUFFICES ASSUME Init PROVE IInv
  OBVIOUS
<1>1. FdmInv /\ HeldAreOpened
  BY FdmInitInv DEF Init, FdmInit, HeldAreOpened
<1>2. /\ sfRegistryArray = [i \in Registry!Slots |-> nullptr] /\ debug \in BOOLEAN
      /\ alive = IOs /\ opened = {} /\ held = {} /\ added = [dev \in IOs |-> 0]
  BY DEF Init, Registry!Init
<1>3. \A dev \in IOs : SlotsOf(dev) = {}
  BY <1>2, FdmAssumption DEF SlotsOf
<1>4. \A dev \in IOs : Cardinality(SlotsOf(dev)) = 0
  BY <1>3, FS_EmptySet
<1>5. AddedAreCounted /\ ReachedAreAlive /\ RegistryTypeOK /\ NamesAreUnique
  BY <1>2, <1>4 DEF AddedAreCounted, ReachedAreAlive, RegistryTypeOK, NamesAreUnique
<1> QED BY <1>1, <1>5 DEF IInv

\* One step for each call, and for construction and destruction.
LEMMA NextIInv == IInv /\ [Next]_vars => IInv'
<1> SUFFICES ASSUME IInv, [Next]_vars PROVE IInv'
  OBVIOUS
<1>1. DescriptorsInv /\ RegistryInv
  BY DEF IInv, DescriptorsInv, RegistryInv, RegistryTypeOK
<1>2. \A dev \in IOs : added[dev] # 0 => dev \in alive
  BY DEF IInv, ReachedAreAlive
<1>3. alive \subseteq IOs /\ opened \subseteq IOs /\ held \subseteq alive /\ errno \in Errnos
  BY DEF IInv, RegistryTypeOK, ReachedAreAlive, FdmInv, FdmTypeOK
<1>4. ASSUME NEW dev \in IOs, Construct(dev), UNCHANGED debug
      PROVE  DescriptorsInv' /\ RegistryInv'
  <2>1. DescriptorsInv'
    BY <1>1, <1>3, <1>4, NotHeldHasNone, DescriptorsKept DEF Construct
  <2> QED BY <1>1, <1>2, <1>3, <1>4, <2>1, RegistryKept DEF Construct
<1>5. ASSUME NEW dev \in IOs, Destroy(dev), UNCHANGED debug
      PROVE  DescriptorsInv' /\ RegistryInv'
  <2>1. DescriptorsInv'
    BY <1>1, <1>3, <1>5, NotHeldHasNone, DescriptorsKept DEF Destroy
  <2> QED BY <1>1, <1>2, <1>3, <1>5, <2>1, RegistryKept DEF Destroy
<1>6. ASSUME NEW dev \in IOs, Add(dev), UNCHANGED debug
      PROVE  DescriptorsInv' /\ RegistryInv'
  <2>1. DescriptorsInv'
    BY <1>1, <1>3, <1>6, DescriptorsKept DEF Add
  <2>2. CASE Registry!Add(dev) /\ added' = [added EXCEPT ![dev] = @ + 1]
    BY <1>1, <1>6, <2>1, <2>2, AddKeeps DEF Add
  <2>3. CASE Registry!AddAborts(dev) /\ UNCHANGED added
    BY <1>1, <1>2, <1>3, <1>6, <2>1, <2>3, RegistryKept DEF Add, Registry!AddAborts
  <2> QED BY <1>6, <2>2, <2>3 DEF Add
<1>7. ASSUME NEW dev \in IOs, Remove(dev), UNCHANGED debug
      PROVE  DescriptorsInv' /\ RegistryInv'
  <2>1. DescriptorsInv'
    BY <1>1, <1>3, <1>7, DescriptorsKept DEF Remove, descriptors, fdmVars
  <2> QED BY <1>1, <1>7, <2>1, RemoveKeeps DEF Remove, descriptors
<1>8. ASSUME NEW path, Open(path), UNCHANGED debug
      PROVE  DescriptorsInv' /\ RegistryInv'
  <2>1. PICK dev \in IOs \cup {nullptr} :
          /\ Registry!Identifies(path, dev)
          /\ \/ dev # nullptr /\ Opens(dev)
             \/ /\ Fails("open", noFileDescriptor, "EBADF")
                /\ UNCHANGED <<sfDescriptorsArray, fFileDescriptor, opened, held>>
          /\ UNCHANGED registry
    BY <1>8 DEF Open
  <2>2. CASE dev # nullptr /\ Opens(dev)
    <3>1. DescriptorsInv' /\ held' \in {held, held \cup {dev}} /\ dev \in IOs
      BY <1>1, <2>2, OpensKeeps
    <3>2. dev \in alive
      BY <1>2, <2>1, <2>2, FoundIsAdded, <1>1, <3>1
    <3>3. opened' \subseteq IOs
      BY <3>1 DEF DescriptorsInv, HeldAreOpened
    <3> QED BY <1>1, <1>2, <1>3, <1>8, <2>1, <3>1, <3>2, <3>3, RegistryKept DEF registry
  <2>3. CASE /\ Fails("open", noFileDescriptor, "EBADF")
             /\ UNCHANGED <<sfDescriptorsArray, fFileDescriptor, opened, held>>
    <3>1. DescriptorsInv'
      BY <1>1, <2>3, DescriptorsKept DEF Fails, Errnos
    <3> QED BY <1>1, <1>2, <1>3, <1>8, <2>1, <2>3, <3>1, RegistryKept DEF registry
  <2> QED BY <2>1, <2>2, <2>3
<1>9. ASSUME NEW fd, Close(fd), UNCHANGED debug
      PROVE  DescriptorsInv' /\ RegistryInv'
  <2>1. DescriptorsInv' /\ held' \subseteq held
    BY <1>1, <1>9, CloseKeeps
  <2>2. opened' \subseteq IOs
    BY <2>1 DEF DescriptorsInv, HeldAreOpened
  <2> QED BY <1>1, <1>2, <1>3, <1>9, <2>1, <2>2, RegistryKept DEF Close, registry
<1>10. CASE UNCHANGED vars
  <2>1. DescriptorsInv'
    BY <1>1, <1>3, <1>10, DescriptorsKept DEF vars, fdmVars
  <2>2. RegistryInv'
    BY <1>1, <1>2, <1>3, <1>10, RegistryKept DEF vars
  <2> QED BY <2>1, <2>2 DEF IInv, DescriptorsInv, RegistryInv
<1>11. DescriptorsInv' /\ RegistryInv' => IInv'
  BY DEF IInv, DescriptorsInv, RegistryInv
<1> QED BY <1>4, <1>5, <1>6, <1>7, <1>8, <1>9, <1>10, <1>11 DEF Next

-----------------------------------------------------------------------------
(* The registry as a table of names *)

namesVars == <<registrations, found>>

\* What a path leads to has its name and is registered; it leads to nothing if
\* no registered device has its name.
LEMMA IdentifiedIsPromised ==
  ASSUME RegistryTypeOK, NEW path, path.prefix \in BOOLEAN, NEW dev \in IOs \cup {nullptr},
         Registry!Identifies(path, dev)
  PROVE  dev \in IF Names!Named(path) = {} THEN {nullptr} ELSE Names!Named(path)
<1>1. ASSUME NEW i \in Registry!Slots, Registry!Matches(path, i)
      PROVE  sfRegistryArray[i] \in Names!Named(path)
  <2>1. sfRegistryArray[i] \in IOs
    BY <1>1 DEF Registry!Matches, RegistryTypeOK
  <2>2. registrations[sfRegistryArray[i]] > 0
    <3>1. registrations[sfRegistryArray[i]] \in 0 .. RegistrySize
      BY <2>1, SlotsAreCounted DEF registrations
    <3> QED BY <2>1, <3>1, InSlotIsCounted
  <2>3. path.prefix /\ path.rest = fName[sfRegistryArray[i]]
    BY <1>1 DEF Registry!Matches
  <2>4. Names!Named(path) = {thing \in IOs : /\ registrations[thing] > 0
                                            /\ path.prefix /\ path.rest = fName[thing]}
    BY DEF Names!Named, registrations, SlotsOf
  <2> QED BY <2>1, <2>2, <2>3, <2>4
<1>2. ASSUME NEW i \in Registry!Slots, Registry!FirstMatch(path, i), dev = sfRegistryArray[i]
      PROVE  dev \in Names!Named(path)
  BY <1>1, <1>2 DEF Registry!FirstMatch
<1>3. ASSUME ~\E i \in Registry!Slots : Registry!FirstMatch(path, i)
      PROVE  Names!Named(path) = {}
  <2> SUFFICES ASSUME NEW thing \in Names!Named(path) PROVE FALSE
    OBVIOUS
  <2>1. thing \in IOs /\ registrations[thing] > 0 /\ path.prefix /\ path.rest = fName[thing]
    BY DEF Names!Named, registrations, SlotsOf
  <2>2. PICK i \in SlotsOf(thing) : TRUE
    BY <2>1, SlotsAreCounted DEF registrations
  <2> DEFINE T == {j \in Registry!Slots : Registry!Matches(path, j)}
  <2>3. i \in T
    BY <2>1, <2>2, FdmAssumption DEF SlotsOf, Registry!Matches
  <2>4. PICK k \in T : \A j \in 0 .. (k - 1) : j \notin T
    <3>1. T \in SUBSET Registry!Slots /\ T # {}
      BY <2>3
    <3> QED BY <3>1, FirstSlot
  <2>5. \A j \in 0 .. (k - 1) : j \in Registry!Slots
    BY <2>4, DevicesAssumption DEF Registry!Slots
  <2> QED BY <1>3, <2>4, <2>5 DEF Registry!FirstMatch
<1> QED BY <1>2, <1>3 DEF Registry!Identifies

\* An array of empty slots is a table with no registrations.
LEMMA InitMaps == Init => Names!Init
<1> SUFFICES ASSUME Init PROVE Names!Init
  OBVIOUS
<1>1. \A dev \in IOs : SlotsOf(dev) = {}
  BY FdmAssumption DEF Init, Registry!Init, SlotsOf
<1>2. registrations = [dev \in IOs |-> 0]
  BY <1>1, FS_EmptySet DEF registrations
<1> QED BY <1>2 DEF Init, Names!Init, registrations, SlotsOf

\* Every step of the two tables is a step of the table of names, or is none of
\* its business.
LEMMA NextMaps == IInv /\ [Next]_vars => [Names!Next]_namesVars
<1> SUFFICES ASSUME IInv, [Next]_vars PROVE [Names!Next]_namesVars
  OBVIOUS
<1>1. ASSUME UNCHANGED <<sfRegistryArray, found>> PROVE UNCHANGED namesVars
  BY <1>1, SlotsKept DEF namesVars
<1>2. ASSUME NEW dev \in IOs, Add(dev) PROVE [Names!Next]_namesVars
  <2>1. CASE Registry!Add(dev)
    <3>1. PICK i \in Registry!Slots :
             /\ sfRegistryArray[i] = nullptr
             /\ sfRegistryArray' = [sfRegistryArray EXCEPT ![i] = dev]
      BY <2>1 DEF Registry!Add
    <3>2. registrations' = [registrations EXCEPT ![dev] = @ + 1]
      BY <3>1, SlotFilled DEF IInv
    <3>3. Names!Register(dev)
      BY <1>2, <3>2 DEF Add, Names!Register, registrations, SlotsOf
    <3> QED BY <3>3 DEF Names!Next
  <2>2. CASE Registry!AddAborts(dev)
    BY <1>1, <1>2, <2>2 DEF Add, Registry!AddAborts
  <2> QED BY <1>2, <2>1, <2>2 DEF Add
<1>3. ASSUME NEW dev \in IOs, Remove(dev) PROVE [Names!Next]_namesVars
  <2>1. CASE UNCHANGED sfRegistryArray
    BY <1>1, <1>3, <2>1 DEF Remove
  <2>2. ASSUME NEW i \in Registry!Slots, sfRegistryArray[i] = dev,
               sfRegistryArray' = [sfRegistryArray EXCEPT ![i] = nullptr]
        PROVE  Names!Next
    <3>1. /\ registrations[dev] \in Nat \ {0}
          /\ registrations' = [registrations EXCEPT ![dev] = @ - 1]
      BY <2>2, SlotEmptied DEF IInv
    <3>2. registrations[dev] > 0
      BY <3>1
    <3>3. Names!Remove(dev)
      BY <1>3, <3>1, <3>2 DEF Remove, Names!Remove, registrations, SlotsOf
    <3> QED BY <3>3 DEF Names!Next
  <2> QED BY <1>3, <2>1, <2>2, RemoveEmptiesOne DEF Remove
<1>4. ASSUME NEW path \in Paths, Open(path) PROVE Names!Next
  <2>1. PICK dev \in IOs \cup {nullptr} : /\ Registry!Identifies(path, dev)
                                          /\ found' = [path |-> path, device |-> dev]
                                          /\ UNCHANGED sfRegistryArray
    BY <1>4 DEF Open, registry
  <2>2. dev \in IF Names!Named(path) = {} THEN {nullptr} ELSE Names!Named(path)
    BY <2>1, IdentifiedIsPromised, DevicesAssumption DEF IInv
  <2>3. Names!LookUp(path)
    BY <2>1, <2>2, SlotsKept DEF Names!LookUp, registrations, SlotsOf
  <2> QED BY <2>3 DEF Names!Next
<1>5. CASE UNCHANGED vars
  BY <1>1, <1>5 DEF vars
<1>6. ASSUME NEW dev \in IOs, Construct(dev) \/ Destroy(dev) PROVE UNCHANGED namesVars
  BY <1>1, <1>6 DEF Construct, Destroy
<1>7. ASSUME NEW fd, Close(fd) PROVE UNCHANGED namesVars
  BY <1>1, <1>7 DEF Close, registry
<1> QED BY <1>2, <1>3, <1>4, <1>5, <1>6, <1>7 DEF Next

-----------------------------------------------------------------------------
(* The theorems *)

\* Devices come and go, are added, opened, closed and removed in any order:
\* the invariant stays.
THEOREM DevicesSafety == Spec => []IInv
  BY InitIInv, NextIInv, PTL DEF Spec

\* The two tables and the sets of devices keep their types, and no device is
\* added more often than there are slots.
THEOREM DevicesTypeCorrect == Spec => []TypeOK
<1>1. ASSUME IInv PROVE TypeOK
  <2>1. added \in [IOs -> 0 .. RegistrySize]
    BY <1>1, SlotsAreCounted DEF IInv, AddedAreCounted
  <2> QED BY <1>1, <2>1 DEF IInv, FdmInv, RegistryTypeOK, TypeOK
<1> QED BY <1>1, DevicesSafety, PTL

\* The destructor tells neither the registry nor the descriptors array, and
\* yet no path and no descriptor leads to a destroyed device.
THEOREM NothingEverDangles == Spec => []NothingDangles
<1>1. ASSUME IInv PROVE NothingDangles
  <2>1. ASSUME NEW i \in Registry!Slots PROVE sfRegistryArray[i] \in alive \cup {nullptr}
    BY <1>1, <2>1, InSlotIsCounted
       DEF IInv, RegistryTypeOK, AddedAreCounted, ReachedAreAlive, registrations
  <2>2. ASSUME NEW fd \in Descriptors PROVE sfDescriptorsArray[fd] \in alive \cup {nullptr}
    <3> SUFFICES ASSUME sfDescriptorsArray[fd] # nullptr
                 PROVE  sfDescriptorsArray[fd] \in held
      BY <1>1 DEF IInv, ReachedAreAlive
    <3>1. sfDescriptorsArray[fd] \in IOs /\ fFileDescriptor[sfDescriptorsArray[fd]] = fd
      BY <1>1, <2>2 DEF IInv, FdmInv, FdmTypeOK, EntriesPointBack
    <3> QED BY <1>1, <2>2, <3>1 DEF IInv, HeldAreOpened, Descriptors, noFileDescriptor
  <2> QED BY <2>1, <2>2 DEF NothingDangles
<1> QED BY <1>1, DevicesSafety, PTL

\* add () of DEBUG builds lets no two devices of one name in, nor one device
\* twice, whatever was removed before.
THEOREM NamesStayUnique == Spec => []NamesAreUnique
<1>1. IInv => NamesAreUnique
  BY DEF IInv
<1> QED BY <1>1, DevicesSafety, PTL

\* close () leaves a device as open () wants to find it.
THEOREM ClosedStayOpenable == Spec => []ClosedCanBeReopened
<1>1. IInv => ClosedCanBeReopened
  BY DEF IInv, HeldAreOpened, FdmInv, FdmTypeOK, ClosedCanBeReopened, Allocated,
         noFileDescriptor
<1> QED BY <1>1, DevicesSafety, PTL

\* The array of devices with holes implements the table of names.
THEOREM ImplementsDeviceNames == Spec => NamesSpec
  BY InitMaps, NextMaps, DevicesSafety, PTL
     DEF Spec, NamesSpec, Names!Spec, namesVars, registrations, SlotsOf
=============================================================================
