------------------------------ MODULE PosixIO ------------------------------
(***************************************************************************)
(* Objects and descriptors: open (), close (), socket (), accept () and    *)
(* the calls on sockets, as they act together on the descriptors array,    *)
(* on the back pointers, and on the pools files and sockets come from.     *)
(* The API is called by one task at a time; one call is one step.          *)
(* Drivers, file systems and network stacks are classes the application    *)
(* derives; all that is kept of them is whether an object is opened and    *)
(* which of their functions may report an error.                           *)
(***************************************************************************)
EXTENDS FileDescriptorsManager, FiniteSets

CONSTANTS Devices,            \* the CharDevice objects
          FileSystems,        \* the FileSystem objects, sharing one files pool
          FilesPoolSize, FilesArray,      \* TPool<File>
          SocketsPoolSize, SocketsArray,  \* TPool<Socket>, the NetStack's
          MayFail,            \* the implementation functions that may fail
          OverridesIsOpened,  \* objects whose class overrides do_is_opened ()
          Exclusive,          \* devices whose driver refuses a second open
          Disciplined         \* the application keeps within the pools and
                              \* makes socket calls on open descriptors only

VARIABLES filesInUse, socketsInUse,  \* fInUse of each pool
          fFileSystem,   \* File -> the file system it was opened on, or nullptr
          mounted,       \* file systems with fBlockDevice # nullptr
          opened,        \* objects whose driver has them opened
          held           \* objects given to the application and not yet closed

vars == <<sfDescriptorsArray, fFileDescriptor, errno, last, fault,
          filesInUse, socketsInUse, fFileSystem, mounted, opened, held>>

poolVars == <<filesInUse, socketsInUse, fFileSystem>>

FilesPool == INSTANCE Pool WITH
  fSize <- FilesPoolSize, fArray <- FilesArray, inUse <- filesInUse

SocketsPool == INSTANCE Pool WITH
  fSize <- SocketsPoolSize, fArray <- SocketsArray, inUse <- socketsInUse

Files == FilesPool!Objects

Sockets == SocketsPool!Objects

Pooled == Files \cup Sockets

InUse == filesInUse \cup socketsInUse

Failures == {"vopen_device", "vopen_file", "close", "socket", "accept", "use"}

ASSUME PosixIOAssumption ==
  /\ FilesPool!IsPool /\ SocketsPool!IsPool
  /\ IOs = Devices \cup Files \cup Sockets
  /\ Devices \cap Files = {} /\ Devices \cap Sockets = {} /\ Files \cap Sockets = {}
  /\ nullptr \notin FileSystems
  /\ MayFail \subseteq Failures
  /\ OverridesIsOpened \subseteq IOs
  /\ Exclusive \subseteq Devices
  /\ Disciplined \in BOOLEAN

Init == /\ FdmInit
        /\ FilesPool!Init /\ SocketsPool!Init
        /\ fFileSystem = [file \in Files |-> nullptr]
        /\ mounted = {}
        /\ opened = {}
        /\ held = {}

-----------------------------------------------------------------------------
(* Parts shared by the calls *)

IsOpened(io) == io \in OverridesIsOpened => io \in opened

\* errno after an implementation function ran: untouched (e) or its error.
ErrnoAfter(function, e) == {e} \cup (IF function \in MayFail THEN {"EIO"} ELSE {})

Crashes(function) == /\ fault' = function
                     /\ UNCHANGED <<errno, last>>

\* Mutation: the caller did not clear errno first.
GetsDescriptor_KeepsErrno(io, now, op, e) ==
  \E fd \in Descriptors : /\ AllocGives(io, fd)
                          /\ opened' = now
                          /\ held' = held \cup {io}
                          /\ Returns(op, noFileDescriptor, fd)
                          /\ UNCHANGED <<errno, fault>>

\* IO::allocFileDescriptor () on an object the driver has opened (the set
\* now), when it finds an entry.  e is errno at the time of the call.
GetsDescriptor(io, now, op, e) ==
  \E fd \in Descriptors : /\ AllocGives(io, fd)
                          /\ opened' = now
                          /\ held' = held \cup {io}
                          /\ errno' = e
                          /\ Returns(op, noFileDescriptor, fd)
                          /\ UNCHANGED fault

\* The same call when alloc () fails: the object is closed and detached,
\* but it is not given back to its pool.
NoDescriptor(io, now) ==
  /\ AllocFails(io)
  /\ opened' = now \ {io}
  /\ fFileDescriptor' = [fFileDescriptor EXCEPT ![io] = noFileDescriptor]
  /\ UNCHANGED sfDescriptorsArray

NoDescriptorErrno(io) == ErrnoAfter("close", AllocErrno(io))

-----------------------------------------------------------------------------
(* open () *)

\* A device is opened by its driver first and gets a descriptor afterwards.
OpenDevice(dev) ==
  /\ UNCHANGED <<poolVars, mounted>>
  /\ \/ /\ "vopen_device" \in MayFail \/ dev \in Exclusive \cap opened
        /\ Fails("open", noFileDescriptor, "EIO")
        /\ UNCHANGED <<sfDescriptorsArray, fFileDescriptor, opened, held>>
     \/ /\ dev \notin Exclusive \cap opened
        /\ GetsDescriptor(dev, opened \cup {dev}, "open", "0")
     \/ /\ dev \notin Exclusive \cap opened
        /\ NoDescriptor(dev, opened \cup {dev})
        /\ \E e \in NoDescriptorErrno(dev) : Fails("open", noFileDescriptor, e)
        /\ UNCHANGED held

\* A null or an empty path; no file system for the path (fs = nullptr), or one
\* without a block device.
OpenRefused(fs) ==
  /\ \/ \E e \in {"EFAULT", "ENOENT"} : Fails("open", noFileDescriptor, e)
     \/ fs \notin mounted /\ Fails("open", noFileDescriptor, "EBADF")
  /\ UNCHANGED <<sfDescriptorsArray, fFileDescriptor, poolVars, mounted, opened, held>>

\* FileSystem::open () ignores the result of do_vopen (): a file that could
\* not be opened gets a descriptor like the others.
OpenFile(fs) ==
  /\ fs \in mounted
  /\ Disciplined => Cardinality(held \cap Files) < FilesPoolSize
  /\ UNCHANGED <<socketsInUse, mounted>>
  /\ \/ \E file \in Files, e \in ErrnoAfter("vopen_file", "0") :
          LET now == IF e = "0" THEN opened \cup {file} ELSE opened IN
          /\ FilesPool!Aquire(file)
          /\ fFileSystem' = [fFileSystem EXCEPT ![file] = fs]
          /\ \/ GetsDescriptor(file, now, "open", e)
             \/ /\ NoDescriptor(file, now)
                /\ \E ee \in NoDescriptorErrno(file) :
                      Fails("open", noFileDescriptor, ee)
                /\ UNCHANGED held
     \/ /\ FilesPool!AquireFails
        /\ Crashes("open")
        /\ UNCHANGED <<sfDescriptorsArray, fFileDescriptor, fFileSystem, opened, held>>

-----------------------------------------------------------------------------
(* close () *)

\* Mutations: do_release () of one class is missing, or does not forget the
\* file system.
ReturnToPool_FilesOnly(io) ==
  LET isFile == io \in Files /\ fFileSystem[io] # nullptr IN
  /\ IF isFile THEN FilesPool!Release(io) ELSE UNCHANGED filesInUse
  /\ fFileSystem' = IF isFile THEN [fFileSystem EXCEPT ![io] = nullptr] ELSE fFileSystem
  /\ UNCHANGED socketsInUse

ReturnToPool_SocketsOnly(io) ==
  /\ IF io \in Sockets THEN SocketsPool!Release(io) ELSE UNCHANGED socketsInUse
  /\ UNCHANGED <<filesInUse, fFileSystem>>

ReturnToPool_KeepsFileSystem(io) ==
  /\ IF io \in Files THEN FilesPool!Release(io) ELSE UNCHANGED filesInUse
  /\ IF io \in Sockets THEN SocketsPool!Release(io) ELSE UNCHANGED socketsInUse
  /\ UNCHANGED fFileSystem

\* do_release (): a file reaches its pool through the file system it was
\* opened on, a socket through the NetStack; devices are not pooled.
ReturnToPool(io) ==
  LET isFile == io \in Files /\ fFileSystem[io] # nullptr IN
  /\ IF isFile THEN FilesPool!Release(io) ELSE UNCHANGED filesInUse
  /\ IF io \in Sockets THEN SocketsPool!Release(io) ELSE UNCHANGED socketsInUse
  /\ fFileSystem' = IF isFile THEN [fFileSystem EXCEPT ![io] = nullptr] ELSE fFileSystem

\* IO::close ().  free () of a descriptor the object does not have sets EBADF.
CloseIO(io, arg) ==
  /\ UNCHANGED mounted
  /\ \/ /\ ~IsOpened(io)
        /\ Fails("close", arg, "EBADF")
        /\ UNCHANGED <<sfDescriptorsArray, fFileDescriptor, poolVars, opened, held>>
     \/ /\ IsOpened(io)
        /\ \E e \in ErrnoAfter("close", "0") :
             /\ errno' = IF IsValid(fFileDescriptor[io]) THEN e ELSE "EBADF"
             /\ Returns("close", arg, IF e = "0" THEN 0 ELSE -1)
        /\ ReleaseDescriptor(io)
        /\ ReturnToPool(io)
        /\ opened' = opened \ {io}
        /\ held' = held \ {io}

CloseBadDescriptor(fd) ==
  /\ GetIo(fd) = nullptr
  /\ Fails("close", fd, "EBADF")
  /\ UNCHANGED <<sfDescriptorsArray, fFileDescriptor, poolVars, mounted, opened, held>>

\* __posix_close (): any integer may be passed; one below and one above the
\* array stand for those out of range.
Close(fd) == \/ CloseBadDescriptor(fd)
             \/ \E io \in IOs : GetIo(fd) = io /\ CloseIO(io, fd)

\* io->close (), on a pointer the application holds.
CloseObject(io) == /\ io \in held
                   /\ CloseIO(io, fFileDescriptor[io])

-----------------------------------------------------------------------------
(* socket () and accept () *)

\* A failed do_socket () is followed by sock->close (), which returns early
\* when the class says that the socket is not opened.
OpenSocketFails(sock) ==
  /\ "socket" \in MayFail
  /\ IF IsOpened(sock) THEN UNCHANGED socketsInUse
                       ELSE socketsInUse' = socketsInUse \cup {sock}
  /\ Fails("socket", noFileDescriptor, "EBADF")
  /\ UNCHANGED <<sfDescriptorsArray, fFileDescriptor, opened, held>>

\* The result of allocFileDescriptor () is ignored: a C++ caller is given
\* the socket even when it has no descriptor.
OpenSocket(api) ==
  /\ Disciplined => Cardinality(held \cap Sockets) < SocketsPoolSize
  /\ UNCHANGED <<filesInUse, fFileSystem, mounted>>
  /\ \/ \E sock \in Sockets :
          \/ SocketsPool!FirstFree(sock) /\ OpenSocketFails(sock)
          \/ /\ SocketsPool!Aquire(sock)
             /\ GetsDescriptor(sock, opened \cup {sock}, "socket", "0")
          \/ /\ SocketsPool!Aquire(sock)
             /\ NoDescriptor(sock, opened \cup {sock})
             /\ \E e \in NoDescriptorErrno(sock) : Fails("socket", noFileDescriptor, e)
             /\ held' = IF api = "C++" THEN held \cup {sock} ELSE held
     \/ /\ SocketsPool!AquireFails
        /\ Fails("socket", noFileDescriptor, IF api = "C" THEN "EBADF" ELSE "ENFILE")
        /\ UNCHANGED <<sfDescriptorsArray, fFileDescriptor, opened, held>>

\* Socket::accept () gave nullptr: __posix_accept () calls a method on it.
AcceptGivesNull(api, arg, e) == IF api = "C" THEN Crashes("accept")
                                             ELSE Fails("accept", arg, e)

\* Socket::accept () on a listening socket.
AcceptOn(api, arg) ==
  /\ Disciplined => Cardinality(held \cap Sockets) < SocketsPoolSize
  /\ UNCHANGED <<filesInUse, fFileSystem, mounted>>
  /\ \/ \E sock \in Sockets :
          /\ SocketsPool!Aquire(sock)
          /\ \/ GetsDescriptor(sock, opened \cup {sock}, "accept", "0")
             \/ /\ NoDescriptor(sock, opened \cup {sock})
                /\ \E e \in NoDescriptorErrno(sock) : AcceptGivesNull(api, arg, e)
                /\ UNCHANGED held
             \/ /\ "accept" \in MayFail
                /\ AcceptGivesNull(api, arg, "EIO")
                /\ UNCHANGED <<sfDescriptorsArray, fFileDescriptor, opened, held>>
     \/ /\ SocketsPool!AquireFails
        /\ AcceptGivesNull(api, arg, "EMFILE")
        /\ UNCHANGED <<sfDescriptorsArray, fFileDescriptor, opened, held>>

Accept(fd) == \E sock \in Sockets : GetIo(fd) = sock /\ AcceptOn("C", fd)

AcceptObject(sock) == sock \in held /\ AcceptOn("C++", fFileDescriptor[sock])

\* Any socket call by descriptor (accept () included): getSocket () reads
\* the type of the entry's object before anything checks that there is one.
SocketCallBadDescriptor(fd) ==
  /\ UNCHANGED <<sfDescriptorsArray, fFileDescriptor, poolVars, mounted, opened, held>>
  /\ \/ /\ GetIo(fd) = nullptr
        /\ ~Disciplined
        /\ Crashes("getSocket")
     \/ /\ GetIo(fd) \in Devices \cup Files
        /\ Fails("use", fd, "EBADF")

\* bind (), connect (), listen (), ... change nothing this module keeps.
UseSocket(fd) ==
  /\ GetIo(fd) \in Sockets
  /\ \E e \in ErrnoAfter("use", "0") : /\ errno' = e
                                       /\ Returns("use", fd, IF e = "0" THEN 0 ELSE -1)
  /\ UNCHANGED <<sfDescriptorsArray, fFileDescriptor, fault, poolVars, mounted, opened, held>>

-----------------------------------------------------------------------------

\* MountManager gives a file system its block device and takes it away; the
\* calls of the application on files may come at any time in between.
SetBlockDevice(fs) ==
  /\ mounted' \in {mounted \cup {fs}, mounted \ {fs}} \ {mounted}
  /\ UNCHANGED <<fdmVars, poolVars, opened, held>>

Next ==
  /\ fault = "none"
  /\ \/ \E dev \in Devices : OpenDevice(dev)
     \/ \E fs \in FileSystems \cup {nullptr} : OpenRefused(fs) \/ OpenFile(fs)
     \/ \E api \in {"C", "C++"} : OpenSocket(api)
     \/ \E fd \in -1 .. sfSize :
          Close(fd) \/ Accept(fd) \/ SocketCallBadDescriptor(fd) \/ UseSocket(fd)
     \/ \E io \in IOs : CloseObject(io)
     \/ \E sock \in Sockets : AcceptObject(sock)
     \/ \E fs \in FileSystems : SetBlockDevice(fs)

Spec == Init /\ [][Next]_vars

-----------------------------------------------------------------------------
(* Properties that hold however the API is used *)

\* The variables have the types of the C++ declarations.
TypeOK == /\ FdmTypeOK
          /\ filesInUse \subseteq Files /\ socketsInUse \subseteq Sockets
          /\ fFileSystem \in [Files -> FileSystems \cup {nullptr}]
          /\ mounted \subseteq FileSystems
          /\ opened \subseteq IOs /\ held \subseteq IOs

\* An object that believes it has a descriptor is what that descriptor
\* designates: close () of an object cannot free another object's entry.
BackPointersHold ==
  \A io \in IOs : fFileDescriptor[io] >= 0
                    => sfDescriptorsArray[fFileDescriptor[io]] = io

\* A file or socket is reached through one descriptor at most, and knows it.
PooledKnowTheirEntry ==
  \A fd \in Descriptors : sfDescriptorsArray[fd] \in Pooled
                             => fFileDescriptor[sfDescriptorsArray[fd]] = fd

Detached(io) == /\ fFileDescriptor[io] = noFileDescriptor
                /\ \A fd \in Descriptors : sfDescriptorsArray[fd] # io

\* An object the pool would hand out next is nobody's: no descriptor leads to
\* it, it claims none, and the application does not hold it.  Two open files
\* are never the same object.
FreeObjectsDetached ==
  \A io \in Pooled \ InUse : io \notin held /\ Detached(io)

\* A file in use knows the file system it must be given back through, and a
\* free one has forgotten it: do_release () can always find the pool.
FilesInUseAttached ==
  \A file \in Files : file \in filesInUse <=> fFileSystem[file] # nullptr

\* No call takes a file or a socket away from a descriptor, unless it is the
\* close () of that very descriptor.
EndsByItsClose ==
  \A fd \in Descriptors :
     (/\ sfDescriptorsArray[fd] \in Pooled
      /\ sfDescriptorsArray'[fd] # sfDescriptorsArray[fd])
        => /\ sfDescriptorsArray'[fd] = nullptr
           /\ last'.op = "close" /\ last'.arg = fd

OnlyItsCloseEndsADescriptor == [][EndsByItsClose]_vars

-----------------------------------------------------------------------------
(* Properties of a system sized and used with care: see Careful *)

\* The array has an entry for every object, devices are not shared, and an
\* object may refuse close () only if its opening always succeeds.
Careful == /\ Disciplined
           /\ IsFiniteSet(IOs)
           /\ Cardinality(IOs) <= sfSize - FirstAllocated
           /\ Exclusive = Devices
           /\ "accept" \notin MayFail
           /\ "vopen_file" \notin MayFail
           /\ "socket" \in MayFail => OverridesIsOpened \cap Sockets = {}

\* What the pools count as in use is exactly what the application can still
\* close: nothing is lost however calls succeed, fail and interleave.
NothingLeaks == InUse = held \cap Pooled

\* The objects the application holds are those it can reach by descriptor,
\* and the driver has each of them opened.
HeldAreReachable ==
  /\ held = {sfDescriptorsArray[fd] : fd \in Descriptors} \ {nullptr}
  /\ held = opened

\* No call dereferences a null pointer.
NoFault == fault = "none"

\* errno is set exactly when the last call failed.
ErrnoTellsFailure == last.ret = -1 <=> errno # "0"

\* The descriptors array behaves as the table POSIX describes.
Table == INSTANCE DescriptorTable WITH
  Objects <- IOs, none <- nullptr, Size <- sfSize, table <- sfDescriptorsArray

TableSpec == Table!Spec
=============================================================================
