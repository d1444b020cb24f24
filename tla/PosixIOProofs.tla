--------------------------- MODULE PosixIOProofs ---------------------------
(***************************************************************************)
(* PosixIO for every number of descriptors, size of pools, set of devices  *)
(* and choice of drivers: first what holds however the API is used, then   *)
(* what a system sized and used with care (Careful) can rely on, that      *)
(* nothing leaks, nothing crashes, errno and the result of a call agree,   *)
(* and the descriptors array implements DescriptorTable.                   *)
(***************************************************************************)
EXTENDS PosixIO, FiniteSetTheorems, TLAPS

\* The facts about descriptors alone.
Links == /\ sfDescriptorsArray \in [Descriptors -> IOs \cup {nullptr}]
         /\ fFileDescriptor \in [IOs -> Descriptors \cup {noFileDescriptor}]
         /\ BackPointersHold
         /\ PooledKnowTheirEntry

\* The types of the variables Links says nothing of.
OtherTypes == /\ errno \in Errnos
              /\ filesInUse \subseteq Files /\ socketsInUse \subseteq Sockets
              /\ fFileSystem \in [Files -> FileSystems \cup {nullptr}]
              /\ mounted \subseteq FileSystems
              /\ opened \subseteq IOs /\ held \subseteq IOs

\* These facts are inductive together only: a new descriptor is safe because
\* a free object has none, and an object is freed safely because the
\* descriptor it names is its own and the only one it has.
IInv == /\ Links
        /\ OtherTypes
        /\ FreeObjectsDetached
        /\ FilesInUseAttached

-----------------------------------------------------------------------------
(* What the calls on the two pools do *)

\* aquire () of the pool of files gives one that was free.
LEMMA FilesAquired ==
  ASSUME NEW file, FilesPool!Aquire(file)
  PROVE  /\ file \in Files /\ file \notin filesInUse
         /\ filesInUse' = filesInUse \cup {file}
  BY DEF FilesPool!Aquire, FilesPool!FirstFree, Files, FilesPool!Objects

\* aquire () of the pool of sockets gives one that was free.
LEMMA SocketAquired ==
  ASSUME NEW sock, SocketsPool!Aquire(sock)
  PROVE  /\ sock \in Sockets /\ sock \notin socketsInUse
         /\ socketsInUse' = socketsInUse \cup {sock}
  BY DEF SocketsPool!Aquire, SocketsPool!FirstFree, Sockets, SocketsPool!Objects

\* The objects of the system are of three distinct kinds.
LEMMA Kinds ==
  /\ Files \subseteq IOs /\ Sockets \subseteq IOs /\ Devices \subseteq IOs
  /\ Devices \cap Pooled = {} /\ Files \cap Sockets = {}
  /\ nullptr \notin IOs /\ nullptr \notin FileSystems
  /\ sfSize \in Nat /\ sfSize > 3
  BY PosixIOAssumption, FdmAssumption DEF Pooled

-----------------------------------------------------------------------------
(* The three ways a call changes descriptors *)

\* A device, or an object no descriptor leads to, gets an empty entry.
LEMMA AllocKeepsLinks ==
  ASSUME Links, NEW io \in IOs, NEW fd \in Descriptors, AllocGives(io, fd),
         io \in Pooled => Detached(io)
  PROVE  /\ Links'
         /\ \A o \in IOs \ {io} : Detached(o) => Detached(o)'
<1>1. /\ sfDescriptorsArray[fd] = nullptr
      /\ sfDescriptorsArray' = [sfDescriptorsArray EXCEPT ![fd] = io]
      /\ fFileDescriptor' = [fFileDescriptor EXCEPT ![io] = fd]
      /\ ~(fFileDescriptor[io] >= 0)
  BY DEF AllocGives, LowestFree, SetEntry, Allocated
<1>2. /\ sfDescriptorsArray' \in [Descriptors -> IOs \cup {nullptr}]
      /\ fFileDescriptor' \in [IOs -> Descriptors \cup {noFileDescriptor}]
  BY <1>1 DEF Links
<1>3. BackPointersHold'
  BY <1>1, Kinds DEF Links, BackPointersHold, Descriptors, noFileDescriptor
<1>4. PooledKnowTheirEntry'
  BY <1>1, Kinds DEF Links, PooledKnowTheirEntry, Pooled, Detached
<1>5. \A o \in IOs \ {io} : Detached(o) => Detached(o)'
  BY <1>1 DEF Links, Detached
<1> QED  BY <1>2, <1>3, <1>4, <1>5 DEF Links

\* allocFileDescriptor () failed: the object forgets the descriptor it may
\* have had.  That breaks nothing for a file or a socket, which had none.
LEMMA NoDescriptorKeepsLinks ==
  ASSUME Links, NEW io \in IOs, NEW now, NoDescriptor(io, now),
         io \in Pooled => Detached(io)
  PROVE  /\ Links'
         /\ \A o \in IOs : Detached(o) => Detached(o)'
<1>1. /\ UNCHANGED sfDescriptorsArray
      /\ fFileDescriptor' = [fFileDescriptor EXCEPT ![io] = noFileDescriptor]
  BY DEF NoDescriptor
<1>2. fFileDescriptor' \in [IOs -> Descriptors \cup {noFileDescriptor}]
  BY <1>1 DEF Links
<1>3. BackPointersHold'
  BY <1>1, Kinds DEF Links, BackPointersHold, Descriptors, noFileDescriptor
<1>4. PooledKnowTheirEntry'
  BY <1>1, Kinds DEF Links, PooledKnowTheirEntry, Pooled, Detached
<1>5. \A o \in IOs : Detached(o) => Detached(o)'
  BY <1>1 DEF Links, Detached
<1> QED  BY <1>1, <1>2, <1>3, <1>4, <1>5 DEF Links

\* close () empties the entry its object names, which is the object's own.
LEMMA ReleaseKeepsLinks ==
  ASSUME Links, NEW io \in IOs, ReleaseDescriptor(io)
  PROVE  /\ Links'
         /\ \A o \in IOs : Detached(o) => Detached(o)'
         /\ io \in Pooled => Detached(io)'
         /\ \A fd \in Descriptors :
               sfDescriptorsArray[fd] \notin {io, nullptr}
                 => sfDescriptorsArray'[fd] = sfDescriptorsArray[fd]
<1> DEFINE fd == fFileDescriptor[io]
<1>1. /\ fd \in Descriptors \cup {noFileDescriptor}
      /\ fd \in Descriptors => sfDescriptorsArray[fd] = io
  BY Kinds DEF Links, BackPointersHold, Descriptors
<1>2. /\ fFileDescriptor' = [fFileDescriptor EXCEPT ![io] = noFileDescriptor]
      /\ sfDescriptorsArray' = IF fd \in Descriptors
                                 THEN [sfDescriptorsArray EXCEPT ![fd] = nullptr]
                                 ELSE sfDescriptorsArray
  BY <1>1 DEF ReleaseDescriptor, IsValid, Links
<1>3. /\ sfDescriptorsArray' \in [Descriptors -> IOs \cup {nullptr}]
      /\ fFileDescriptor' \in [IOs -> Descriptors \cup {noFileDescriptor}]
  BY <1>2 DEF Links
<1>4. BackPointersHold'
  BY <1>1, <1>2, Kinds DEF Links, BackPointersHold, Descriptors, noFileDescriptor
<1>5. PooledKnowTheirEntry'
  BY <1>1, <1>2, Kinds DEF Links, PooledKnowTheirEntry, Pooled, Descriptors, noFileDescriptor
<1>6. \A o \in IOs : Detached(o) => Detached(o)'
  BY <1>1, <1>2, Kinds DEF Links, Detached
<1>7. io \in Pooled => Detached(io)'
  BY <1>1, <1>2, Kinds DEF Links, PooledKnowTheirEntry, Detached, Descriptors, noFileDescriptor
<1>8. \A i \in Descriptors :
         sfDescriptorsArray[i] \notin {io, nullptr}
           => sfDescriptorsArray'[i] = sfDescriptorsArray[i]
  BY <1>1, <1>2 DEF Links
<1> QED  BY <1>3, <1>4, <1>5, <1>6, <1>7, <1>8 DEF Links

-----------------------------------------------------------------------------
(* One lemma per call *)

\* A step that leaves descriptors, pools and what is held alone.
LEMMA QuietStep ==
  ASSUME IInv, errno' \in Errnos, mounted' \subseteq FileSystems,
         UNCHANGED <<sfDescriptorsArray, fFileDescriptor, poolVars, opened, held>>
  PROVE  IInv'
  BY DEF IInv, Links, OtherTypes, BackPointersHold, PooledKnowTheirEntry, poolVars,
         FreeObjectsDetached, FilesInUseAttached, Detached, InUse

\* The values that may be found in errno.
LEMMA ErrnoTypes ==
  /\ \A io \in IOs : AllocErrno(io) \in Errnos
  /\ \A function, e : e \in Errnos => ErrnoAfter(function, e) \subseteq Errnos
  /\ \A io \in IOs : NoDescriptorErrno(io) \subseteq Errnos
  BY DEF AllocErrno, ErrnoAfter, NoDescriptorErrno, Errnos

\* A device may have a descriptor already, which alloc () refuses to change.
LEMMA OpenDeviceStep ==
  ASSUME IInv, NEW dev \in Devices, OpenDevice(dev)
  PROVE  IInv'
<1>1. dev \in IOs /\ dev \notin Pooled
  BY Kinds
<1>2. UNCHANGED <<poolVars, mounted>>
  BY DEF OpenDevice
<1>3. CASE /\ Fails("open", noFileDescriptor, "EIO")
           /\ UNCHANGED <<sfDescriptorsArray, fFileDescriptor, opened, held>>
  BY <1>2, <1>3, QuietStep DEF Fails, Errnos, IInv, OtherTypes
<1>4. CASE GetsDescriptor(dev, opened \cup {dev}, "open", "0")
  <2>1. PICK fd \in Descriptors : AllocGives(dev, fd)
    BY <1>4 DEF GetsDescriptor
  <2>2. /\ Links'
        /\ \A o \in IOs \ {dev} : Detached(o) => Detached(o)'
    BY <1>1, <2>1, AllocKeepsLinks DEF IInv
  <2>3. OtherTypes'
    BY <1>1, <1>2, <1>4 DEF GetsDescriptor, IInv, OtherTypes, Errnos, poolVars
  <2>4. FreeObjectsDetached'
    BY <1>1, <1>2, <1>4, <2>2, Kinds
       DEF GetsDescriptor, IInv, FreeObjectsDetached, InUse, poolVars, Pooled
  <2>5. FilesInUseAttached'
    BY <1>2 DEF IInv, FilesInUseAttached, poolVars
  <2> QED  BY <2>2, <2>3, <2>4, <2>5 DEF IInv
<1>5. CASE /\ NoDescriptor(dev, opened \cup {dev})
           /\ \E e \in NoDescriptorErrno(dev) : Fails("open", noFileDescriptor, e)
           /\ UNCHANGED held
  <2>1. /\ Links'
        /\ \A o \in IOs : Detached(o) => Detached(o)'
    BY <1>1, <1>5, NoDescriptorKeepsLinks DEF IInv
  <2>2. OtherTypes'
    BY <1>1, <1>2, <1>5, ErrnoTypes DEF NoDescriptor, Fails, IInv, OtherTypes, poolVars
  <2>3. FreeObjectsDetached'
    BY <1>2, <1>5, <2>1, Kinds DEF IInv, FreeObjectsDetached, InUse, poolVars, Pooled
  <2>4. FilesInUseAttached'
    BY <1>2 DEF IInv, FilesInUseAttached, poolVars
  <2> QED  BY <2>1, <2>2, <2>3, <2>4 DEF IInv
<1> QED  BY <1>3, <1>4, <1>5 DEF OpenDevice

\* An object just taken from its pool goes through allocFileDescriptor ().
LEMMA AquiredStep ==
  ASSUME IInv, NEW io \in Pooled, io \notin InUse, InUse' = InUse \cup {io},
         NEW now \in SUBSET IOs, NEW op, NEW e \in Errnos,
         \/ GetsDescriptor(io, now, op, e)
         \/ NoDescriptor(io, now) /\ held' \in {held, held \cup {io}}
  PROVE  Links' /\ FreeObjectsDetached' /\ opened' \subseteq IOs /\ held' \subseteq IOs
<1>1. io \in IOs /\ Detached(io)
  BY Kinds DEF IInv, FreeObjectsDetached, Pooled
<1>2. CASE GetsDescriptor(io, now, op, e)
  <2>1. PICK fd \in Descriptors : AllocGives(io, fd)
    BY <1>2 DEF GetsDescriptor
  <2>2. /\ Links'
        /\ \A o \in IOs \ {io} : Detached(o) => Detached(o)'
    BY <1>1, <2>1, AllocKeepsLinks DEF IInv
  <2>3. FreeObjectsDetached'
    BY <1>1, <1>2, <2>2, Kinds DEF GetsDescriptor, IInv, FreeObjectsDetached, Pooled
  <2> QED  BY <1>1, <1>2, <2>2, <2>3 DEF GetsDescriptor, IInv, OtherTypes
<1>3. CASE NoDescriptor(io, now) /\ held' \in {held, held \cup {io}}
  <2>1. /\ Links'
        /\ \A o \in IOs : Detached(o) => Detached(o)'
    BY <1>1, <1>3, NoDescriptorKeepsLinks DEF IInv
  <2>2. FreeObjectsDetached'
    BY <1>1, <1>3, <2>1, Kinds DEF IInv, FreeObjectsDetached, Pooled
  <2> QED  BY <1>1, <1>3, <2>1, <2>2 DEF NoDescriptor, IInv, OtherTypes
<1> QED  BY <1>2, <1>3

\* A file from the pool has no descriptor, and is attached before it gets one.
LEMMA OpenFileStep ==
  ASSUME IInv, NEW fs \in FileSystems \cup {nullptr}, OpenFile(fs)
  PROVE  IInv'
<1>1. fs \in FileSystems /\ fs # nullptr /\ UNCHANGED <<socketsInUse, mounted>>
  BY Kinds DEF OpenFile, IInv, OtherTypes
<1>2. ASSUME NEW file \in Files, NEW e \in ErrnoAfter("vopen_file", "0"),
             NEW now, now = (IF e = "0" THEN opened \cup {file} ELSE opened),
             FilesPool!Aquire(file),
             fFileSystem' = [fFileSystem EXCEPT ![file] = fs],
             \/ GetsDescriptor(file, now, "open", e)
             \/ /\ NoDescriptor(file, now)
                /\ \E ee \in NoDescriptorErrno(file) :
                      Fails("open", noFileDescriptor, ee)
                /\ UNCHANGED held
      PROVE  IInv'
  <2>1. file \notin filesInUse /\ filesInUse' = filesInUse \cup {file}
    BY <1>2, FilesAquired
  <2>2. /\ file \in Pooled /\ file \in IOs /\ file \notin InUse
        /\ InUse' = InUse \cup {file}
    BY <1>1, <2>1, Kinds DEF InUse, Pooled, IInv, OtherTypes
  <2>3. e \in Errnos /\ now \subseteq IOs
    BY <1>2, <2>2, ErrnoTypes DEF Errnos, IInv, OtherTypes
  <2>4. Links' /\ FreeObjectsDetached' /\ opened' \subseteq IOs /\ held' \subseteq IOs
    BY <1>2, <2>2, <2>3, AquiredStep
  <2>5. errno' \in Errnos
    BY <1>2, <2>2, <2>3, ErrnoTypes DEF GetsDescriptor, Fails
  <2>6. OtherTypes' /\ FilesInUseAttached'
    BY <1>1, <1>2, <2>1, <2>4, <2>5 DEF IInv, OtherTypes, FilesInUseAttached
  <2> QED  BY <2>4, <2>6 DEF IInv
<1>3. CASE /\ FilesPool!AquireFails
           /\ Crashes("open")
           /\ UNCHANGED <<sfDescriptorsArray, fFileDescriptor, fFileSystem, opened, held>>
  BY <1>1, <1>3, QuietStep DEF Crashes, FilesPool!AquireFails, poolVars, IInv, OtherTypes
<1> QED  BY <1>2, <1>3 DEF OpenFile

\* The entry and the back pointer go before the object returns to its pool.
LEMMA CloseIOStep ==
  ASSUME IInv, NEW io \in IOs, NEW arg, CloseIO(io, arg)
  PROVE  IInv'
<1>1. CASE ~IsOpened(io)
  BY <1>1, QuietStep DEF CloseIO, Fails, Errnos, IInv, OtherTypes
<1>2. CASE IsOpened(io)
  <2>1. /\ ReleaseDescriptor(io) /\ ReturnToPool(io) /\ UNCHANGED mounted
        /\ opened' = opened \ {io} /\ held' = held \ {io}
    BY <1>2 DEF CloseIO
  <2>2. errno' \in Errnos
    BY <1>2, ErrnoTypes DEF CloseIO, Errnos
  <2>3. /\ Links'
        /\ \A o \in IOs : Detached(o) => Detached(o)'
        /\ io \in Pooled => Detached(io)'
    BY <2>1, ReleaseKeepsLinks DEF IInv
  <2>4. /\ filesInUse' = filesInUse \ {io}
        /\ socketsInUse' = socketsInUse \ {io}
        /\ fFileSystem' = IF io \in Files THEN [fFileSystem EXCEPT ![io] = nullptr]
                                           ELSE fFileSystem
    BY <2>1, Kinds DEF ReturnToPool, FilesPool!Release, SocketsPool!Release, IInv,
                       FilesInUseAttached, OtherTypes
  <2>5. FreeObjectsDetached'
    BY <2>1, <2>3, <2>4, Kinds DEF IInv, FreeObjectsDetached, InUse, Pooled
  <2>6. OtherTypes' /\ FilesInUseAttached'
    BY <2>1, <2>2, <2>4, Kinds DEF IInv, OtherTypes, FilesInUseAttached
  <2> QED  BY <2>3, <2>5, <2>6 DEF IInv
<1> QED  BY <1>1, <1>2

\* What socket () and accept () share: a socket taken from its pool.
LEMMA NewSocketStep ==
  ASSUME IInv, UNCHANGED <<filesInUse, fFileSystem, mounted>>, errno' \in Errnos,
         NEW sock, SocketsPool!Aquire(sock), NEW op,
         \/ GetsDescriptor(sock, opened \cup {sock}, op, "0")
         \/ /\ NoDescriptor(sock, opened \cup {sock})
            /\ held' \in {held, held \cup {sock}}
         \/ UNCHANGED <<sfDescriptorsArray, fFileDescriptor, opened, held>>
  PROVE  IInv'
<1>1. /\ sock \in Sockets /\ sock \notin socketsInUse
      /\ socketsInUse' = socketsInUse \cup {sock}
  BY SocketAquired
<1>2. /\ sock \in Pooled /\ sock \in IOs /\ sock \notin InUse
      /\ InUse' = InUse \cup {sock}
  BY <1>1, Kinds DEF InUse, Pooled, IInv, OtherTypes
<1>3. CASE UNCHANGED <<sfDescriptorsArray, fFileDescriptor, opened, held>>
  <2>1. Links' /\ OtherTypes' /\ FilesInUseAttached'
    BY <1>1, <1>3 DEF IInv, Links, OtherTypes, BackPointersHold, PooledKnowTheirEntry,
                      FilesInUseAttached
  <2>2. FreeObjectsDetached'
    BY <1>2, <1>3 DEF IInv, FreeObjectsDetached, Detached
  <2> QED  BY <2>1, <2>2 DEF IInv
<1>4. CASE \/ GetsDescriptor(sock, opened \cup {sock}, op, "0")
           \/ /\ NoDescriptor(sock, opened \cup {sock})
              /\ held' \in {held, held \cup {sock}}
  <2>1. opened \cup {sock} \subseteq IOs /\ "0" \in Errnos
    BY <1>2 DEF IInv, OtherTypes, Errnos
  <2>2. Links' /\ FreeObjectsDetached' /\ opened' \subseteq IOs /\ held' \subseteq IOs
    BY <1>2, <1>4, <2>1, AquiredStep
  <2>3. OtherTypes' /\ FilesInUseAttached'
    BY <1>1, <2>2 DEF IInv, OtherTypes, FilesInUseAttached
  <2> QED  BY <2>2, <2>3 DEF IInv
<1> QED  BY <1>3, <1>4

\* A socket from the pool has no descriptor.
LEMMA OpenSocketStep ==
  ASSUME IInv, NEW api, OpenSocket(api)
  PROVE  IInv'
<1>1. UNCHANGED <<filesInUse, fFileSystem, mounted>>
  BY DEF OpenSocket
<1>2. ASSUME NEW sock, SocketsPool!FirstFree(sock), OpenSocketFails(sock)
      PROVE  IInv'
  <2>1. errno' \in Errnos
    BY <1>2 DEF OpenSocketFails, Fails, Errnos
  <2>2. UNCHANGED <<sfDescriptorsArray, fFileDescriptor, opened, held>>
    BY <1>2 DEF OpenSocketFails
  <2>3. CASE UNCHANGED socketsInUse
    BY <1>1, <2>1, <2>2, <2>3, QuietStep DEF poolVars, IInv, OtherTypes
  <2>4. CASE socketsInUse' = socketsInUse \cup {sock}
    <3>1. SocketsPool!Aquire(sock)
      BY <1>2, <2>4 DEF SocketsPool!Aquire
    <3> QED  BY <1>1, <2>1, <2>2, <3>1, NewSocketStep
  <2> QED  BY <1>2, <2>3, <2>4 DEF OpenSocketFails
<1>3. ASSUME NEW sock, SocketsPool!Aquire(sock),
             \/ GetsDescriptor(sock, opened \cup {sock}, "socket", "0")
             \/ /\ NoDescriptor(sock, opened \cup {sock})
                /\ \E e \in NoDescriptorErrno(sock) : Fails("socket", noFileDescriptor, e)
                /\ held' = IF api = "C++" THEN held \cup {sock} ELSE held
      PROVE  IInv'
  <2>1. sock \in IOs
    BY <1>3, SocketAquired, Kinds
  <2>2. errno' \in Errnos /\ (held' \in {held, held \cup {sock}})
    BY <1>3, <2>1, ErrnoTypes DEF GetsDescriptor, Fails, Errnos
  <2> QED  BY <1>1, <1>3, <2>2, NewSocketStep
<1>4. ASSUME SocketsPool!AquireFails,
             Fails("socket", noFileDescriptor, IF api = "C" THEN "EBADF" ELSE "ENFILE"),
             UNCHANGED <<sfDescriptorsArray, fFileDescriptor, opened, held>>
      PROVE  IInv'
  <2>1. errno' \in Errnos
    BY <1>4 DEF Fails, Errnos
  <2> QED  BY <1>1, <1>4, <2>1, QuietStep DEF SocketsPool!AquireFails, poolVars, IInv, OtherTypes
<1> QED  BY <1>2, <1>3, <1>4 DEF OpenSocket

\* Nor has the one that accept () takes.
LEMMA AcceptStep ==
  ASSUME IInv, NEW api, NEW arg, AcceptOn(api, arg)
  PROVE  IInv'
<1>1. UNCHANGED <<filesInUse, fFileSystem, mounted>>
  BY DEF AcceptOn
<1>2. ASSUME NEW e \in Errnos, AcceptGivesNull(api, arg, e)
      PROVE  errno' \in Errnos
  BY <1>2 DEF AcceptGivesNull, Crashes, Fails, IInv, OtherTypes
<1>3. ASSUME NEW sock, SocketsPool!Aquire(sock),
             \/ GetsDescriptor(sock, opened \cup {sock}, "accept", "0")
             \/ /\ NoDescriptor(sock, opened \cup {sock})
                /\ \E e \in NoDescriptorErrno(sock) : AcceptGivesNull(api, arg, e)
                /\ UNCHANGED held
             \/ /\ AcceptGivesNull(api, arg, "EIO")
                /\ UNCHANGED <<sfDescriptorsArray, fFileDescriptor, opened, held>>
      PROVE  IInv'
  <2>1. sock \in IOs
    BY <1>3, SocketAquired, Kinds
  <2>2. errno' \in Errnos
    BY <1>2, <1>3, <2>1, ErrnoTypes DEF GetsDescriptor, Errnos
  <2>3. held' = held => held' \in {held, held \cup {sock}}
    OBVIOUS
  <2> QED  BY <1>1, <1>3, <2>2, <2>3, NewSocketStep
<1>4. ASSUME SocketsPool!AquireFails, AcceptGivesNull(api, arg, "EMFILE"),
             UNCHANGED <<sfDescriptorsArray, fFileDescriptor, opened, held>>
      PROVE  IInv'
  <2>1. errno' \in Errnos
    BY <1>2, <1>4 DEF Errnos
  <2> QED  BY <1>1, <1>4, <2>1, QuietStep DEF SocketsPool!AquireFails, poolVars, IInv, OtherTypes
<1> QED  BY <1>3, <1>4 DEF AcceptOn

-----------------------------------------------------------------------------
(* The theorems, however the API is used *)

\* Nothing is open and every pooled object is free.
LEMMA InitIInv == Init => IInv
<1> SUFFICES ASSUME Init PROVE IInv
  OBVIOUS
<1>1. /\ sfDescriptorsArray = [fd \in Descriptors |-> nullptr]
      /\ fFileDescriptor = [io \in IOs |-> noFileDescriptor]
      /\ errno = "0" /\ filesInUse = {} /\ socketsInUse = {}
      /\ fFileSystem = [file \in Files |-> nullptr]
      /\ mounted = {} /\ opened = {} /\ held = {}
  BY DEF Init, FdmInit, FilesPool!Init, SocketsPool!Init
<1>2. Links
  BY <1>1, Kinds DEF Links, BackPointersHold, PooledKnowTheirEntry, Pooled, noFileDescriptor
<1>3. OtherTypes /\ FilesInUseAttached
  BY <1>1 DEF OtherTypes, FilesInUseAttached, Errnos
<1>4. FreeObjectsDetached
  BY <1>1, Kinds DEF FreeObjectsDetached, Detached, Pooled
<1> QED  BY <1>2, <1>3, <1>4 DEF IInv

\* One step, by whichever call.
LEMMA NextIInv == IInv /\ [Next]_vars => IInv'
<1> SUFFICES ASSUME IInv, [Next]_vars PROVE IInv'
  OBVIOUS
<1>1. ASSUME NEW dev \in Devices, OpenDevice(dev) PROVE IInv'
  BY <1>1, OpenDeviceStep
<1>2. ASSUME NEW fs \in FileSystems \cup {nullptr}, OpenRefused(fs) PROVE IInv'
  BY <1>2, QuietStep DEF OpenRefused, Fails, Errnos, IInv, OtherTypes
<1>3. ASSUME NEW fs \in FileSystems \cup {nullptr}, OpenFile(fs) PROVE IInv'
  BY <1>3, OpenFileStep
<1>4. ASSUME NEW api, OpenSocket(api) PROVE IInv'
  BY <1>4, OpenSocketStep
<1>5. ASSUME NEW fd, Close(fd) PROVE IInv'
  <2>1. CASE CloseBadDescriptor(fd)
    BY <2>1, QuietStep DEF CloseBadDescriptor, Fails, Errnos, IInv, OtherTypes
  <2> QED  BY <1>5, <2>1, CloseIOStep DEF Close
<1>6. ASSUME NEW fd, Accept(fd) PROVE IInv'
  BY <1>6, AcceptStep DEF Accept
<1>7. ASSUME NEW fd, SocketCallBadDescriptor(fd) PROVE IInv'
  BY <1>7, QuietStep DEF SocketCallBadDescriptor, Fails, Crashes, Errnos, IInv, OtherTypes
<1>8. ASSUME NEW fd, UseSocket(fd) PROVE IInv'
  <2>1. errno' \in Errnos
    BY <1>8, ErrnoTypes DEF UseSocket, Errnos
  <2> QED  BY <1>8, <2>1, QuietStep DEF UseSocket, IInv, OtherTypes
<1>9. ASSUME NEW io \in IOs, CloseObject(io) PROVE IInv'
  BY <1>9, CloseIOStep DEF CloseObject
<1>10. ASSUME NEW sock, AcceptObject(sock) PROVE IInv'
  BY <1>10, AcceptStep DEF AcceptObject
<1>11. ASSUME NEW fs \in FileSystems, SetBlockDevice(fs) PROVE IInv'
  BY <1>11, QuietStep DEF SetBlockDevice, fdmVars, IInv, OtherTypes
<1>12. CASE UNCHANGED vars
  BY <1>12, QuietStep DEF vars, poolVars, IInv, OtherTypes
<1> QED
  BY <1>1, <1>2, <1>3, <1>4, <1>5, <1>6, <1>7, <1>8, <1>9, <1>10, <1>11, <1>12 DEF Next

\* The inductive invariant holds in every reachable state.
THEOREM Safety == Spec => []IInv
  BY InitIInv, NextIInv, PTL DEF Spec

\* The variables keep the types of the C++ declarations.
THEOREM TypeCorrect == Spec => []TypeOK
<1>1. IInv => TypeOK
  BY DEF IInv, Links, OtherTypes, TypeOK, FdmTypeOK
<1> QED  BY <1>1, Safety, PTL

\* Whatever fails, and however full the tables are, an object that believes it
\* has a descriptor is what that descriptor designates.
THEOREM BackPointersCorrect == Spec => []BackPointersHold
<1>1. IInv => BackPointersHold
  BY DEF IInv, Links
<1> QED  BY <1>1, Safety, PTL

\* No pool ever hands out an object that a descriptor or a caller still has.
THEOREM PoolsHandOutFreeObjects == Spec => []FreeObjectsDetached
<1>1. IInv => FreeObjectsDetached
  BY DEF IInv
<1> QED  BY <1>1, Safety, PTL

\* A file or a socket is never reached through two descriptors.
THEOREM OneDescriptorEach == Spec => []PooledKnowTheirEntry
<1>1. IInv => PooledKnowTheirEntry
  BY DEF IInv, Links
<1> QED  BY <1>1, Safety, PTL

\* do_release () of a file in use finds the file system, hence the pool.
THEOREM FilesFindTheirPool == Spec => []FilesInUseAttached
<1>1. IInv => FilesInUseAttached
  BY DEF IInv
<1> QED  BY <1>1, Safety, PTL

-----------------------------------------------------------------------------
(* Descriptors of files and sockets end by their own close () only *)

\* alloc () fills an entry that was empty.
LEMMA GetsDescriptorEndsNone ==
  ASSUME Links, NEW io, NEW now, NEW op, NEW e, GetsDescriptor(io, now, op, e)
  PROVE  EndsByItsClose
<1>1. PICK fd \in Descriptors : AllocGives(io, fd)
  BY DEF GetsDescriptor
<1>2. /\ sfDescriptorsArray[fd] = nullptr
      /\ sfDescriptorsArray' = [sfDescriptorsArray EXCEPT ![fd] = io]
  BY <1>1 DEF AllocGives, LowestFree, SetEntry
<1> QED  BY <1>2, Kinds DEF EndsByItsClose, Links, Pooled

\* The entry that close () clears is the one it was called with.
LEMMA CloseEndsItsOwn ==
  ASSUME Links, NEW io \in IOs, NEW arg, CloseIO(io, arg),
         io \in Pooled => arg = fFileDescriptor[io]
  PROVE  EndsByItsClose
<1>1. CASE UNCHANGED sfDescriptorsArray
  BY <1>1 DEF EndsByItsClose
<1>2. CASE ReleaseDescriptor(io) /\ \E e : Returns("close", arg, e)
  <2> SUFFICES ASSUME NEW fd \in Descriptors, sfDescriptorsArray[fd] \in Pooled,
                      sfDescriptorsArray'[fd] # sfDescriptorsArray[fd]
               PROVE  /\ sfDescriptorsArray'[fd] = nullptr
                      /\ last'.op = "close" /\ last'.arg = fd
    BY DEF EndsByItsClose
  <2>1. sfDescriptorsArray[fd] = io /\ io \in Pooled
    BY <1>2, Kinds, ReleaseKeepsLinks DEF Pooled
  <2>2. fFileDescriptor[io] = fd
    BY <2>1 DEF Links, PooledKnowTheirEntry
  <2>3. sfDescriptorsArray' = [sfDescriptorsArray EXCEPT ![fd] = nullptr]
    BY <1>2, <2>2 DEF ReleaseDescriptor, IsValid
  <2> QED  BY <1>2, <2>1, <2>2, <2>3 DEF Returns, Links
<1> QED  BY <1>1, <1>2 DEF CloseIO

\* No other call clears an entry.
LEMMA NextEndsByItsClose == IInv /\ [Next]_vars => EndsByItsClose
<1> SUFFICES ASSUME IInv, [Next]_vars PROVE EndsByItsClose
  OBVIOUS
<1>1. Links
  BY DEF IInv
<1>2. CASE UNCHANGED sfDescriptorsArray
  BY <1>2 DEF EndsByItsClose
<1>3. ASSUME NEW dev, OpenDevice(dev) PROVE EndsByItsClose
  BY <1>1, <1>2, <1>3, GetsDescriptorEndsNone DEF OpenDevice, NoDescriptor
<1>4. ASSUME NEW fs, OpenRefused(fs) \/ OpenFile(fs) PROVE EndsByItsClose
  BY <1>1, <1>2, <1>4, GetsDescriptorEndsNone DEF OpenRefused, OpenFile, NoDescriptor
<1>5. ASSUME NEW api, OpenSocket(api) PROVE EndsByItsClose
  BY <1>1, <1>2, <1>5, GetsDescriptorEndsNone DEF OpenSocket, OpenSocketFails, NoDescriptor
<1>6. ASSUME NEW api, NEW arg, AcceptOn(api, arg) PROVE EndsByItsClose
  BY <1>1, <1>2, <1>6, GetsDescriptorEndsNone DEF AcceptOn, NoDescriptor
<1>7. ASSUME NEW fd, Close(fd) PROVE EndsByItsClose
  <2>1. CASE CloseBadDescriptor(fd)
    BY <1>2, <2>1 DEF CloseBadDescriptor
  <2>2. ASSUME NEW io \in IOs, GetIo(fd) = io, CloseIO(io, fd) PROVE EndsByItsClose
    <3>1. fd \in Descriptors /\ sfDescriptorsArray[fd] = io
      BY <2>2, Kinds DEF GetIo, IsValid
    <3>2. io \in Pooled => fd = fFileDescriptor[io]
      BY <1>1, <3>1 DEF Links, PooledKnowTheirEntry
    <3> QED  BY <1>1, <2>2, <3>2, CloseEndsItsOwn
  <2> QED  BY <1>7, <2>1, <2>2 DEF Close
<1>8. ASSUME NEW io \in IOs, CloseObject(io) PROVE EndsByItsClose
  BY <1>1, <1>8, CloseEndsItsOwn DEF CloseObject
<1>9. ASSUME NEW fd, SocketCallBadDescriptor(fd) \/ UseSocket(fd) PROVE EndsByItsClose
  BY <1>2, <1>9 DEF SocketCallBadDescriptor, UseSocket
<1>10. ASSUME NEW fs, SetBlockDevice(fs) PROVE EndsByItsClose
  BY <1>2, <1>10 DEF SetBlockDevice, fdmVars
<1>11. CASE UNCHANGED vars
  BY <1>2, <1>11 DEF vars
<1> QED
  BY <1>3, <1>4, <1>5, <1>6, <1>7, <1>8, <1>9, <1>10, <1>11
     DEF Next, Accept, AcceptObject

\* However the API is used, no call takes a file or a socket away from a
\* descriptor other than the one it closes.
THEOREM Isolation == Spec => OnlyItsCloseEndsADescriptor
  BY Safety, NextEndsByItsClose, PTL DEF Spec, OnlyItsCloseEndsADescriptor

-----------------------------------------------------------------------------
(* A careful use: what the steps keep besides *)

HeldHaveDescriptors ==
  \A io \in IOs : io \in held <=> fFileDescriptor[io] # noFileDescriptor

\* To have a descriptor, to be held by the application, to be opened by the
\* driver and, for a pooled object, to be in use, are one and the same.
CInv == /\ IInv
        /\ EntriesPointBack
        /\ HeldHaveDescriptors
        /\ held = opened
        /\ NothingLeaks
        /\ NoFault
        /\ ErrnoTellsFailure

-----------------------------------------------------------------------------
(* There is always room *)

\* alloc () finds an entry: a full array would hold more objects than exist.
LEMMA RoomInArray ==
  ASSUME Careful, Links, EntriesPointBack,
         NEW io \in IOs, fFileDescriptor[io] = noFileDescriptor
  PROVE  ~AllocFails(io)
<1> DEFINE E == FirstAllocated .. (sfSize - 1)
<1> SUFFICES ASSUME \A i \in E : sfDescriptorsArray[i] # nullptr PROVE FALSE
  BY DEF AllocFails, Allocated, TableFull, noFileDescriptor
<1> DEFINE f == [i \in E |-> sfDescriptorsArray[i]]
<1>1. \A i \in E : i \in Descriptors /\ fFileDescriptor[sfDescriptorsArray[i]] = i
  BY Kinds DEF EntriesPointBack, Descriptors, FirstAllocated
<1>2. f \in [E -> IOs \ {io}]
  BY <1>1, Kinds DEF Links, Descriptors, noFileDescriptor, FirstAllocated
<1>3. \A i, j \in E : i # j => f[i] # f[j]
  BY <1>1
<1>4. IsFiniteSet(E) /\ Cardinality(E) = sfSize - FirstAllocated
  <2>1. FirstAllocated \in Int /\ sfSize - 1 \in Int /\ ~(FirstAllocated > sfSize - 1)
    BY Kinds DEF FirstAllocated
  <2> QED  BY <2>1, FS_Interval, Kinds DEF FirstAllocated
<1>5. /\ IsFiniteSet(IOs \ {io}) /\ Cardinality(IOs \ {io}) = Cardinality(IOs) - 1
      /\ Cardinality(IOs) \in Nat
  BY FS_RemoveElement, FS_CardinalityType DEF Careful
<1>6. Cardinality(IOs \ {io}) < Cardinality(E)
  BY <1>4, <1>5, Kinds DEF Careful, FirstAllocated
<1> HIDE DEF E, f
<1> QED  BY <1>2, <1>3, <1>4, <1>5, <1>6, FS_PigeonHole

\* A pool has as many objects as slots.
LEMMA PoolCardinality ==
  ASSUME NEW n \in Nat, NEW array,
         \A i, j \in 0 .. (n - 1) : array[i] = array[j] => i = j
  PROVE  Cardinality({array[i] : i \in 0 .. (n - 1)}) = n
<1> DEFINE S == 0 .. (n - 1)
           T == {array[i] : i \in S}
           f == [i \in S |-> array[i]]
<1>1. f \in Bijection(S, T)
  BY DEF Bijection, Injection, Surjection, IsInjective
<1>2. IsFiniteSet(S) /\ Cardinality(S) = n
  BY FS_Interval
<1>3. ExistsBijection(S, T)
  BY <1>1 DEF ExistsBijection
<1> HIDE DEF S, T
<1>4. Cardinality(T) = n
  BY <1>2, <1>3, FS_Bijection
<1> QED  BY <1>4 DEF S, T

\* An application that keeps within the pools never finds one exhausted.
LEMMA RoomInPools ==
  ASSUME CInv
  PROVE  /\ Cardinality(held \cap Files) < FilesPoolSize => ~FilesPool!AllInUse
         /\ Cardinality(held \cap Sockets) < SocketsPoolSize => ~SocketsPool!AllInUse
<1>1. /\ Cardinality(Files) = FilesPoolSize /\ FilesPoolSize \in Nat
      /\ Cardinality(Sockets) = SocketsPoolSize /\ SocketsPoolSize \in Nat
  BY PoolCardinality, PosixIOAssumption
     DEF FilesPool!IsPool, SocketsPool!IsPool, Files, Sockets, FilesPool!Objects,
         SocketsPool!Objects, FilesPool!Slots, SocketsPool!Slots
<1>2. ASSUME FilesPool!AllInUse PROVE held \cap Files = Files
  BY <1>2, Kinds DEF FilesPool!AllInUse, CInv, NothingLeaks, Files, InUse
<1>3. ASSUME SocketsPool!AllInUse PROVE held \cap Sockets = Sockets
  BY <1>3, Kinds DEF SocketsPool!AllInUse, CInv, NothingLeaks, Sockets, InUse
<1> QED  BY <1>1, <1>2, <1>3

-----------------------------------------------------------------------------
(* The two ways a call succeeds *)

\* What is left to show of a step once IInv is known to be kept.
Kept == /\ EntriesPointBack'
        /\ HeldHaveDescriptors'
        /\ held' = opened'
        /\ NoFault'
        /\ ErrnoTellsFailure'

\* With room in the array, an object that is opened gets the lowest entry.
LEMMA GetsDescriptorKeeps ==
  ASSUME CInv, NEW io \in IOs, fFileDescriptor[io] = noFileDescriptor,
         NEW op \in Table!Opening, GetsDescriptor(io, opened \cup {io}, op, "0")
  PROVE  /\ Kept
         /\ held' = held \cup {io}
         /\ \E fd \in Descriptors : Table!Open(fd, io)
<1>1. PICK fd \in Descriptors : /\ AllocGives(io, fd)
                                /\ Returns(op, noFileDescriptor, fd)
  BY DEF GetsDescriptor
<1>2. /\ sfDescriptorsArray' = [sfDescriptorsArray EXCEPT ![fd] = io]
      /\ fFileDescriptor' = [fFileDescriptor EXCEPT ![io] = fd]
      /\ opened' = opened \cup {io} /\ held' = held \cup {io}
      /\ errno' = "0" /\ fault' = fault
  BY <1>1 DEF GetsDescriptor, AllocGives, SetEntry
<1>3. \A i \in Descriptors : sfDescriptorsArray[i] # io
  BY Kinds DEF CInv, EntriesPointBack, Descriptors, noFileDescriptor
<1>4. EntriesPointBack'
  BY <1>2, <1>3, Kinds DEF CInv, IInv, Links, EntriesPointBack
<1>5. HeldHaveDescriptors' /\ held' = opened' /\ NoFault'
  BY <1>2 DEF CInv, IInv, Links, HeldHaveDescriptors, NoFault, Descriptors, noFileDescriptor
<1>6. ErrnoTellsFailure'
  BY <1>1, <1>2 DEF ErrnoTellsFailure, Returns, Descriptors
<1>7. Table!Open(fd, io)
  <2>1. /\ fd \in FirstAllocated .. (sfSize - 1)
        /\ sfDescriptorsArray[fd] = nullptr
        /\ \A i \in FirstAllocated .. (fd - 1) : sfDescriptorsArray[i] # nullptr
    BY <1>1 DEF AllocGives, LowestFree
  <2>2. fd \notin Table!Standard
    BY <2>1 DEF Table!Standard, FirstAllocated
  <2>3. \A i \in Table!Descriptors \ Table!Standard :
           sfDescriptorsArray[i] = nullptr => fd <= i
    BY <2>1, Kinds DEF Table!Standard, Table!Descriptors, FirstAllocated
  <2>4. Table!Returned(Table!Opening, {-1}, {fd})
    BY <1>1 DEF Table!Returned, Returns, noFileDescriptor
  <2> QED
    BY <1>2, <1>3, <2>1, <2>2, <2>3, <2>4 DEF Table!Open, Table!Descriptors, Descriptors
<1> QED  BY <1>2, <1>4, <1>5, <1>6, <1>7 DEF Kept

\* A close () ends its descriptor and takes the object from the application.
LEMMA CloseIOKeeps ==
  ASSUME CInv, NEW io \in held, NEW arg, arg = fFileDescriptor[io], CloseIO(io, arg)
  PROVE  /\ Kept
         /\ held' = held \ {io} /\ InUse' = InUse \ {io}
         /\ arg \in Descriptors /\ Table!Close(arg)
<1>1. /\ io \in IOs /\ arg \in Descriptors /\ sfDescriptorsArray[arg] = io
  BY Kinds DEF CInv, IInv, OtherTypes, Links, BackPointersHold, HeldHaveDescriptors,
               Descriptors
<1>2. IsOpened(io)
  BY DEF CInv, IsOpened
<1>3. /\ ReleaseDescriptor(io) /\ ReturnToPool(io)
      /\ opened' = opened \ {io} /\ held' = held \ {io}
  BY <1>2 DEF CloseIO
<1>4. PICK e \in ErrnoAfter("close", "0") :
         /\ errno' = e
         /\ Returns("close", arg, IF e = "0" THEN 0 ELSE -1)
  BY <1>1, <1>2 DEF CloseIO, IsValid
<1>5. /\ sfDescriptorsArray' = [sfDescriptorsArray EXCEPT ![arg] = nullptr]
      /\ fFileDescriptor' = [fFileDescriptor EXCEPT ![io] = noFileDescriptor]
      /\ fault' = fault
  BY <1>1, <1>3, Kinds DEF ReleaseDescriptor, IsValid, CInv, IInv, Links
<1>6. EntriesPointBack'
  BY <1>1, <1>5, Kinds DEF CInv, IInv, Links, EntriesPointBack
<1>7. HeldHaveDescriptors' /\ held' = opened' /\ NoFault'
  BY <1>1, <1>3, <1>5 DEF CInv, IInv, Links, HeldHaveDescriptors, NoFault
<1>8. ErrnoTellsFailure'
  BY <1>4 DEF ErrnoTellsFailure, Returns, ErrnoAfter
<1>9. InUse' = InUse \ {io}
  BY <1>1, <1>3, Kinds DEF ReturnToPool, FilesPool!Release, SocketsPool!Release, CInv, IInv,
                           FilesInUseAttached, OtherTypes, InUse
<1>10. Table!Close(arg)
  BY <1>1, <1>4, <1>5, Kinds DEF Table!Close, Table!Returned, Returns
<1> QED  BY <1>1, <1>3, <1>6, <1>7, <1>8, <1>9, <1>10 DEF Kept

-----------------------------------------------------------------------------
(* One lemma per call: what it keeps, and the step of the table it is *)

tableVars == <<sfDescriptorsArray, last>>

Refines == Kept /\ NothingLeaks' /\ [Table!Next]_tableVars

\* A call that gives no descriptor and takes none.
LEMMA QuietCall ==
  ASSUME CInv, ErrnoTellsFailure', fault' = fault, [Table!Next]_tableVars,
         UNCHANGED <<sfDescriptorsArray, fFileDescriptor, poolVars, opened, held>>
  PROVE  Refines
  BY DEF CInv, Kept, Refines, EntriesPointBack, HeldHaveDescriptors, NothingLeaks, NoFault,
         InUse, poolVars

\* A failed open (), socket () or accept () changes nothing but errno.
LEMMA OpeningFails ==
  ASSUME CInv, NEW op \in Table!Opening, NEW e \in Errnos \ {"0"},
         Fails(op, noFileDescriptor, e),
         UNCHANGED <<sfDescriptorsArray, fFileDescriptor, poolVars, opened, held>>
  PROVE  Refines
<1>1. Table!OpenFails
  BY DEF Table!OpenFails, Table!Returned, Fails, Returns, noFileDescriptor
<1>2. ErrnoTellsFailure' /\ fault' = fault
  BY DEF ErrnoTellsFailure, Fails, Returns
<1> QED  BY <1>1, <1>2, QuietCall DEF Table!Next

\* An object that is not held gets a descriptor.
LEMMA OpeningSucceeds ==
  ASSUME CInv, NEW io \in IOs, io \notin held,
         NEW op \in Table!Opening, GetsDescriptor(io, opened \cup {io}, op, "0"),
         InUse' = IF io \in Pooled THEN InUse \cup {io} ELSE InUse
  PROVE  Refines
<1>1. fFileDescriptor[io] = noFileDescriptor
  BY DEF CInv, HeldHaveDescriptors
<1>2. /\ Kept /\ held' = held \cup {io}
      /\ \E fd \in Descriptors : Table!Open(fd, io)
  BY <1>1, GetsDescriptorKeeps
<1>3. NothingLeaks'
  BY <1>2 DEF CInv, NothingLeaks
<1>4. Table!Next
  BY <1>2 DEF Table!Next, Table!Descriptors, Descriptors
<1> QED  BY <1>2, <1>3, <1>4 DEF Refines

\* Every close () of an open object is one of DescriptorTable.
LEMMA ClosingSucceeds ==
  ASSUME CInv, NEW io \in held, NEW arg, arg = fFileDescriptor[io], CloseIO(io, arg)
  PROVE  Refines
<1>1. /\ Kept /\ held' = held \ {io} /\ InUse' = InUse \ {io}
      /\ arg \in Descriptors /\ Table!Close(arg)
  BY CloseIOKeeps
<1>2. NothingLeaks'
  BY <1>1 DEF CInv, NothingLeaks
<1>3. Table!Next
  BY <1>1 DEF Table!Next, Table!Descriptors, Descriptors
<1> QED  BY <1>1, <1>2, <1>3 DEF Refines

\* A device is exclusive, so that it is closed whenever it can be opened.
LEMMA CarefulOpenDevice ==
  ASSUME Careful, CInv, NEW dev \in Devices, OpenDevice(dev)
  PROVE  Refines
<1>1. dev \in IOs /\ dev \notin Pooled /\ UNCHANGED poolVars
  BY Kinds DEF OpenDevice
<1>2. CASE /\ Fails("open", noFileDescriptor, "EIO")
           /\ UNCHANGED <<sfDescriptorsArray, fFileDescriptor, opened, held>>
  BY <1>1, <1>2, OpeningFails DEF Table!Opening, Errnos
<1>3. CASE dev \notin opened
  <2>1. dev \notin held /\ fFileDescriptor[dev] = noFileDescriptor
    BY <1>1, <1>3 DEF CInv, HeldHaveDescriptors
  <2>2. ~AllocFails(dev)
    BY <1>1, <2>1, RoomInArray DEF CInv, IInv
  <2>3. ASSUME GetsDescriptor(dev, opened \cup {dev}, "open", "0") PROVE Refines
    BY <1>1, <2>1, <2>3, OpeningSucceeds DEF Table!Opening, InUse, poolVars
  <2> QED  BY <1>2, <2>2, <2>3 DEF OpenDevice, NoDescriptor
<1> QED  BY <1>2, <1>3 DEF OpenDevice, Careful

\* The pool of files is not overrun: aquire () gives one.
LEMMA CarefulOpenFile ==
  ASSUME Careful, CInv, NEW fs, OpenFile(fs)
  PROVE  Refines
<1>1. Cardinality(held \cap Files) < FilesPoolSize /\ UNCHANGED socketsInUse
  BY DEF OpenFile, Careful
<1>2. ~FilesPool!AquireFails
  BY <1>1, RoomInPools DEF FilesPool!AquireFails
<1>3. ErrnoAfter("vopen_file", "0") = {"0"}
  BY DEF Careful, ErrnoAfter
<1>4. PICK file \in Files :
         /\ FilesPool!Aquire(file)
         /\ \/ GetsDescriptor(file, opened \cup {file}, "open", "0")
            \/ NoDescriptor(file, opened \cup {file})
  BY <1>2, <1>3 DEF OpenFile
<1>5. /\ file \in IOs /\ file \in Pooled /\ file \notin InUse
      /\ InUse' = InUse \cup {file}
  BY <1>1, <1>4, FilesAquired, Kinds DEF Pooled, InUse, CInv, IInv, OtherTypes
<1>6. file \notin held /\ fFileDescriptor[file] = noFileDescriptor
  BY <1>5 DEF CInv, NothingLeaks, HeldHaveDescriptors
<1>7. ~AllocFails(file)
  BY <1>5, <1>6, RoomInArray DEF CInv, IInv
<1> QED  BY <1>4, <1>5, <1>6, <1>7, OpeningSucceeds DEF NoDescriptor, Table!Opening

\* What socket () and accept () share.
LEMMA CarefulNewSocket ==
  ASSUME Careful, CInv, NEW op \in Table!Opening, NEW sock, SocketsPool!Aquire(sock),
         UNCHANGED filesInUse,
         \/ GetsDescriptor(sock, opened \cup {sock}, op, "0")
         \/ NoDescriptor(sock, opened \cup {sock})
  PROVE  Refines
<1>1. /\ sock \in IOs /\ sock \in Pooled /\ sock \notin InUse
      /\ InUse' = InUse \cup {sock}
  BY SocketAquired, Kinds DEF Pooled, InUse, CInv, IInv, OtherTypes
<1>2. sock \notin held /\ fFileDescriptor[sock] = noFileDescriptor
  BY <1>1 DEF CInv, NothingLeaks, HeldHaveDescriptors
<1>3. ~AllocFails(sock)
  BY <1>1, <1>2, RoomInArray DEF CInv, IInv
<1> QED  BY <1>1, <1>2, <1>3, OpeningSucceeds DEF NoDescriptor

\* Nor is the pool of sockets.
LEMMA CarefulOpenSocket ==
  ASSUME Careful, CInv, NEW api, OpenSocket(api)
  PROVE  Refines
<1>1. /\ Cardinality(held \cap Sockets) < SocketsPoolSize
      /\ UNCHANGED <<filesInUse, fFileSystem>>
  BY DEF OpenSocket, Careful
<1>2. ~SocketsPool!AquireFails
  BY <1>1, RoomInPools DEF SocketsPool!AquireFails
<1>3. ASSUME NEW sock \in Sockets, OpenSocketFails(sock) PROVE Refines
  <2>1. IsOpened(sock)
    BY <1>3 DEF OpenSocketFails, IsOpened, Careful
  <2> QED  BY <1>1, <1>3, <2>1, OpeningFails DEF OpenSocketFails, Table!Opening, Errnos, poolVars
<1>4. ASSUME NEW sock \in Sockets, SocketsPool!Aquire(sock),
             \/ GetsDescriptor(sock, opened \cup {sock}, "socket", "0")
             \/ NoDescriptor(sock, opened \cup {sock})
      PROVE  Refines
  BY <1>1, <1>4, CarefulNewSocket DEF Table!Opening
<1> QED  BY <1>2, <1>3, <1>4 DEF OpenSocket

\* do_accept () does not fail, so that its socket gets a descriptor.
LEMMA CarefulAccept ==
  ASSUME Careful, CInv, NEW api, NEW arg, AcceptOn(api, arg)
  PROVE  Refines
<1>1. Cardinality(held \cap Sockets) < SocketsPoolSize /\ UNCHANGED filesInUse
  BY DEF AcceptOn, Careful
<1>2. ~SocketsPool!AquireFails
  BY <1>1, RoomInPools DEF SocketsPool!AquireFails
<1>3. PICK sock \in Sockets :
         /\ SocketsPool!Aquire(sock)
         /\ \/ GetsDescriptor(sock, opened \cup {sock}, "accept", "0")
            \/ NoDescriptor(sock, opened \cup {sock})
  BY <1>2 DEF AcceptOn, Careful
<1> QED  BY <1>1, <1>3, CarefulNewSocket DEF Table!Opening

\* A descriptor that leads nowhere is refused, any other is held.
LEMMA CarefulClose ==
  ASSUME CInv, NEW fd \in -1 .. sfSize, Close(fd)
  PROVE  Refines
<1>1. CASE CloseBadDescriptor(fd)
  <2>1. Table!CloseUnused(fd)
    BY <1>1, Kinds DEF CloseBadDescriptor, Table!CloseUnused, Table!Unused, Table!Returned,
                       Table!Descriptors, Fails, Returns, GetIo, IsValid, Descriptors
  <2>2. ErrnoTellsFailure'
    BY <1>1 DEF CloseBadDescriptor, Fails, Returns, ErrnoTellsFailure
  <2> QED  BY <1>1, <2>1, <2>2, QuietCall DEF CloseBadDescriptor, Fails, Table!Next
<1>2. ASSUME NEW io \in IOs, GetIo(fd) = io, CloseIO(io, fd) PROVE Refines
  <2>1. fd \in Descriptors /\ sfDescriptorsArray[fd] = io
    BY <1>2, Kinds DEF GetIo, IsValid
  <2>2. fd = fFileDescriptor[io] /\ io \in held
    BY <2>1, Kinds DEF CInv, EntriesPointBack, HeldHaveDescriptors, Descriptors,
                       noFileDescriptor
  <2> QED  BY <1>2, <2>2, ClosingSucceeds
<1> QED  BY <1>1, <1>2 DEF Close

\* A call on a socket leaves the array alone.
LEMMA CarefulSocketCall ==
  ASSUME Careful, CInv, NEW fd \in -1 .. sfSize,
         SocketCallBadDescriptor(fd) \/ UseSocket(fd)
  PROVE  Refines
<1>1. CASE SocketCallBadDescriptor(fd)
  <2>1. Fails("use", fd, "EBADF")
    BY <1>1 DEF SocketCallBadDescriptor, Careful
  <2>2. Table!Use(fd)
    BY <1>1, <2>1 DEF SocketCallBadDescriptor, Table!Use, Table!Returned, Fails, Returns
  <2>3. ErrnoTellsFailure'
    BY <2>1 DEF Fails, Returns, ErrnoTellsFailure
  <2> QED  BY <1>1, <2>1, <2>2, <2>3, QuietCall DEF SocketCallBadDescriptor, Fails, Table!Next
<1>2. CASE UseSocket(fd)
  <2>1. PICK e \in ErrnoAfter("use", "0") :
           errno' = e /\ Returns("use", fd, IF e = "0" THEN 0 ELSE -1)
    BY <1>2 DEF UseSocket
  <2>2. fd \in Descriptors /\ sfDescriptorsArray[fd] # nullptr
    BY <1>2, Kinds DEF UseSocket, GetIo, IsValid
  <2>3. ~Table!Unused(fd)
    BY <2>2 DEF Table!Unused, Table!Descriptors, Descriptors
  <2>4. Table!Use(fd)
    BY <1>2, <2>1, <2>3 DEF UseSocket, Table!Use, Table!Returned, Returns
  <2>5. ErrnoTellsFailure'
    BY <2>1 DEF Returns, ErrnoTellsFailure, ErrnoAfter
  <2> QED  BY <1>2, <2>4, <2>5, QuietCall DEF UseSocket, Table!Next
<1> QED  BY <1>1, <1>2

-----------------------------------------------------------------------------
(* The theorems, for a careful use *)

\* Nothing is held and the table is empty.
LEMMA InitCInv == Init => CInv /\ Table!Init
<1> SUFFICES ASSUME Init PROVE CInv /\ Table!Init
  OBVIOUS
<1>1. /\ sfDescriptorsArray = [fd \in Descriptors |-> nullptr]
      /\ fFileDescriptor = [io \in IOs |-> noFileDescriptor]
      /\ errno = "0" /\ filesInUse = {} /\ socketsInUse = {}
      /\ opened = {} /\ held = {} /\ fault = "none"
      /\ last = [op |-> "init", arg |-> noFileDescriptor, ret |-> 0]
  BY DEF Init, FdmInit, FilesPool!Init, SocketsPool!Init
<1>2. CInv
  BY <1>1, InitIInv DEF CInv, EntriesPointBack, HeldHaveDescriptors, NothingLeaks, InUse,
                        NoFault, ErrnoTellsFailure
<1>3. Table!Init
  BY <1>1 DEF Table!Init, Table!Descriptors, Descriptors, noFileDescriptor
<1> QED  BY <1>2, <1>3

\* One step of the system is one of DescriptorTable, or none.
LEMMA NextCInv ==
  ASSUME Careful
  PROVE  CInv /\ [Next]_vars => CInv' /\ [Table!Next]_tableVars
<1> SUFFICES ASSUME CInv, [Next]_vars PROVE Refines
  BY NextIInv DEF Refines, Kept, CInv
<1>1. ASSUME NEW dev \in Devices, OpenDevice(dev) PROVE Refines
  BY <1>1, CarefulOpenDevice
<1>2. ASSUME NEW fs, OpenRefused(fs) PROVE Refines
  BY <1>2, OpeningFails DEF OpenRefused, Table!Opening, Errnos
<1>3. ASSUME NEW fs, OpenFile(fs) PROVE Refines
  BY <1>3, CarefulOpenFile
<1>4. ASSUME NEW api, OpenSocket(api) PROVE Refines
  BY <1>4, CarefulOpenSocket
<1>5. ASSUME NEW api, NEW arg, AcceptOn(api, arg) PROVE Refines
  BY <1>5, CarefulAccept
<1>6. ASSUME NEW fd \in -1 .. sfSize, Close(fd) PROVE Refines
  BY <1>6, CarefulClose
<1>7. ASSUME NEW fd \in -1 .. sfSize, SocketCallBadDescriptor(fd) \/ UseSocket(fd)
      PROVE  Refines
  BY <1>7, CarefulSocketCall
<1>8. ASSUME NEW io, CloseObject(io) PROVE Refines
  BY <1>8, ClosingSucceeds DEF CloseObject
<1>9. CASE UNCHANGED <<fdmVars, poolVars, opened, held>>
  BY <1>9, QuietCall DEF fdmVars, tableVars, CInv, ErrnoTellsFailure
<1>10. ASSUME NEW fs, SetBlockDevice(fs) PROVE Refines
  BY <1>9, <1>10 DEF SetBlockDevice
<1>11. CASE UNCHANGED vars
  BY <1>9, <1>11 DEF vars, fdmVars, poolVars
<1> QED
  BY <1>1, <1>2, <1>3, <1>4, <1>5, <1>6, <1>7, <1>8, <1>10, <1>11
     DEF Next, Accept, AcceptObject

\* Used with care, the system keeps CInv.
THEOREM CarefulSafety ==
  ASSUME Careful
  PROVE  Spec => []CInv
  BY InitCInv, NextCInv, PTL DEF Spec

\* Used with care, the pools count as in use what the application can still
\* close, and nothing else, whatever the drivers and stacks refuse.
THEOREM NothingLeaksIfCareful ==
  ASSUME Careful
  PROVE  Spec => []NothingLeaks
<1>1. CInv => NothingLeaks
  BY DEF CInv
<1> QED  BY <1>1, CarefulSafety, PTL

\* Used with care, no call dereferences a null pointer.
THEOREM NoFaultIfCareful ==
  ASSUME Careful
  PROVE  Spec => []NoFault
<1>1. CInv => NoFault
  BY DEF CInv
<1> QED  BY <1>1, CarefulSafety, PTL

\* Used with care, a call returns -1 exactly when it leaves errno set.
THEOREM ErrnoIfCareful ==
  ASSUME Careful
  PROVE  Spec => []ErrnoTellsFailure
<1>1. CInv => ErrnoTellsFailure
  BY DEF CInv
<1> QED  BY <1>1, CarefulSafety, PTL

\* Used with care, the application holds exactly the opened objects it can
\* reach by descriptor.
THEOREM HeldAreReachableIfCareful ==
  ASSUME Careful
  PROVE  Spec => []HeldAreReachable
<1>1. ASSUME CInv PROVE HeldAreReachable
  <2>1. ASSUME NEW io \in held
        PROVE  io # nullptr /\ \E fd \in Descriptors : sfDescriptorsArray[fd] = io
    BY <1>1, Kinds DEF CInv, IInv, OtherTypes, Links, HeldHaveDescriptors,
                       BackPointersHold, Descriptors
  <2>2. ASSUME NEW fd \in Descriptors, sfDescriptorsArray[fd] # nullptr
        PROVE  sfDescriptorsArray[fd] \in held
    BY <1>1, <2>2 DEF CInv, IInv, Links, HeldHaveDescriptors, EntriesPointBack,
                      Descriptors, noFileDescriptor
  <2> QED  BY <1>1, <2>1, <2>2 DEF HeldAreReachable, CInv
<1> QED  BY <1>1, CarefulSafety, PTL

\* Used with care, open (), close (), socket () and accept () implement the
\* descriptor table that the API documentation describes.
THEOREM ImplementsDescriptorTable ==
  ASSUME Careful
  PROVE  Spec => TableSpec
  BY InitCInv, NextCInv, PTL DEF Spec, TableSpec, Table!Spec, tableVars
=============================================================================
