---------------------- MODULE FileDescriptorsManager ----------------------
(***************************************************************************)
(* os::posix::FileDescriptorsManager: the array that maps a descriptor to  *)
(* the IO object it designates, together with the back pointer every IO    *)
(* object keeps (IO::fFileDescriptor).  The operators below are the code's *)
(* calls; PosixIO composes them into open (), close (), socket () and so   *)
(* on.  Spec is the class taken alone, its public calls in any order.      *)
(***************************************************************************)
EXTENDS Integers

CONSTANTS IOs,      \* the objects derived from class IO
          nullptr,  \* the null pointer
          sfSize    \* number of entries of the descriptors array

\* The constructor asserts size > 3 (0, 1 and 2 are reserved).
ASSUME FdmAssumption == /\ sfSize \in Nat /\ sfSize > 3
                        /\ nullptr \notin IOs

VARIABLES sfDescriptorsArray,  \* descriptor -> IO object or nullptr
          fFileDescriptor,     \* IO object -> descriptor or noFileDescriptor
          errno,               \* the C library's errno
          last,                \* the last call: its name, descriptor argument, result
          fault                \* "none", or the function that dereferenced nullptr

fdmVars == <<sfDescriptorsArray, fFileDescriptor, errno, last, fault>>

noFileDescriptor == -1

Descriptors == 0 .. (sfSize - 1)

FirstAllocated == 3

Errnos == {"0", "EBADF", "EBUSY", "ENFILE", "EMFILE", "EIO", "EFAULT", "ENOENT"}

IsValid(fildes) == fildes \in Descriptors

GetIo(fildes) ==
  IF IsValid(fildes) THEN sfDescriptorsArray[fildes] ELSE nullptr

Returns(op, arg, ret) == last' = [op |-> op, arg |-> arg, ret |-> ret]

FdmInit == /\ sfDescriptorsArray = [fd \in Descriptors |-> nullptr]
           /\ fFileDescriptor = [io \in IOs |-> noFileDescriptor]
           /\ errno = "0"
           /\ last = [op |-> "init", arg |-> noFileDescriptor, ret |-> 0]
           /\ fault = "none"

-----------------------------------------------------------------------------
(* alloc *)

\* Mutation: descriptor 0 taken for `none'.
Allocated_NotAtZero(io) == fFileDescriptor[io] > 0

Allocated(io) == fFileDescriptor[io] >= 0

\* Mutations: the scan starts at 0, does not test the entry, does not stop at
\* the first free one.
LowestFree_FromZero(fd) == /\ fd \in Descriptors
                           /\ sfDescriptorsArray[fd] = nullptr

LowestFree_Unchecked(fd) == fd = FirstAllocated

LowestFree_AnyFree(fd) == /\ fd \in FirstAllocated .. (sfSize - 1)
                          /\ sfDescriptorsArray[fd] = nullptr

\* Entries 0, 1, 2 (stdin, stdout, stderr) are never handed out.
LowestFree(fd) == /\ fd \in FirstAllocated .. (sfSize - 1)
                  /\ sfDescriptorsArray[fd] = nullptr
                  /\ \A i \in FirstAllocated .. (fd - 1) :
                        sfDescriptorsArray[i] # nullptr

TableFull == \A i \in FirstAllocated .. (sfSize - 1) :
                sfDescriptorsArray[i] # nullptr

AllocFails(io) == Allocated(io) \/ TableFull

\* Mutation: an errno the interface does not document.
AllocErrno_Other(io) == IF Allocated(io) THEN "EBUSY" ELSE "ENOMEM"

AllocErrno(io) == IF Allocated(io) THEN "EBUSY" ELSE "ENFILE"

\* Mutation: setFileDescriptor () forgotten.
SetEntry_NoBackPointer(fd, io) ==
  /\ sfDescriptorsArray' = [sfDescriptorsArray EXCEPT ![fd] = io]
  /\ UNCHANGED fFileDescriptor

SetEntry(fd, io) ==
  /\ sfDescriptorsArray' = [sfDescriptorsArray EXCEPT ![fd] = io]
  /\ fFileDescriptor' = [fFileDescriptor EXCEPT ![io] = fd]

AllocGives(io, fd) == /\ ~Allocated(io)
                      /\ LowestFree(fd)
                      /\ SetEntry(fd, io)

-----------------------------------------------------------------------------
(* Parts of the calls that modules extending this one compose *)

Fails(op, arg, e) == /\ errno' = e
                     /\ Returns(op, arg, -1)
                     /\ UNCHANGED fault

\* Mutations: the entry, or the back pointer, is not cleared.
ReleaseDescriptor_KeepsEntry(io) ==
  /\ fFileDescriptor' = [fFileDescriptor EXCEPT ![io] = noFileDescriptor]
  /\ UNCHANGED <<sfDescriptorsArray, fault>>

ReleaseDescriptor_KeepsBackPointer(io) ==
  /\ sfDescriptorsArray' = IF IsValid(fFileDescriptor[io])
                             THEN [sfDescriptorsArray EXCEPT ![fFileDescriptor[io]] = nullptr]
                             ELSE sfDescriptorsArray
  /\ UNCHANGED <<fFileDescriptor, fault>>

\* FileDescriptorsManager::free (fFileDescriptor), then the object's own
\* back pointer is cleared whatever free () found.
ReleaseDescriptor(io) ==
  LET fd == fFileDescriptor[io] IN
  IF IsValid(fd)
    THEN /\ sfDescriptorsArray' = [sfDescriptorsArray EXCEPT ![fd] = nullptr]
         /\ fFileDescriptor' = [fFileDescriptor EXCEPT
                                  ![sfDescriptorsArray[fd]] = noFileDescriptor,
                                  ![io] = noFileDescriptor]
         /\ fault' = IF sfDescriptorsArray[fd] = nullptr THEN "free" ELSE fault
    ELSE /\ fFileDescriptor' = [fFileDescriptor EXCEPT ![io] = noFileDescriptor]
         /\ UNCHANGED <<sfDescriptorsArray, fault>>

-----------------------------------------------------------------------------
(* The class taken alone *)

Refuses(op, arg, e) == /\ errno' = e
                       /\ Returns(op, arg, -1)
                       /\ UNCHANGED <<sfDescriptorsArray, fFileDescriptor, fault>>

Alloc(io) ==
  \/ \E fd \in Descriptors : /\ AllocGives(io, fd)
                             /\ Returns("alloc", noFileDescriptor, fd)
                             /\ UNCHANGED <<errno, fault>>
  \/ /\ AllocFails(io)
     /\ Refuses("alloc", noFileDescriptor, AllocErrno(io))

\* assign () replaces whatever the entry held, without telling the object
\* it displaces.
Assign(fd, io) ==
  \/ /\ IsValid(fd) /\ ~Allocated(io)
     /\ SetEntry(fd, io)
     /\ Returns("assign", fd, fd)
     /\ UNCHANGED <<errno, fault>>
  \/ /\ ~IsValid(fd)
     /\ Refuses("assign", fd, "EBADF")
  \/ /\ IsValid(fd) /\ Allocated(io)
     /\ Refuses("assign", fd, "EBUSY")

\* free () of an entry that is already empty calls a method on nullptr.
Free(fd) ==
  \/ /\ ~IsValid(fd)
     /\ Refuses("free", fd, "EBADF")
  \/ /\ IsValid(fd) /\ sfDescriptorsArray[fd] = nullptr
     /\ fault' = "free"
     /\ UNCHANGED <<sfDescriptorsArray, fFileDescriptor, errno, last>>
  \/ /\ IsValid(fd) /\ sfDescriptorsArray[fd] # nullptr
     /\ sfDescriptorsArray' = [sfDescriptorsArray EXCEPT ![fd] = nullptr]
     /\ fFileDescriptor' = [fFileDescriptor EXCEPT
                              ![sfDescriptorsArray[fd]] = noFileDescriptor]
     /\ Returns("free", fd, 0)
     /\ UNCHANGED <<errno, fault>>

FdmNext ==
  /\ fault = "none"
  /\ \/ \E io \in IOs : Alloc(io)
     \/ \E fd \in -1 .. sfSize, io \in IOs : Assign(fd, io)
     \/ \E fd \in -1 .. sfSize : Free(fd)

FdmSpec == FdmInit /\ [][FdmNext]_fdmVars

-----------------------------------------------------------------------------
(* Properties *)

\* The array, the back pointers and the outcome of the last call have the
\* types the C++ declarations give them.
FdmTypeOK ==
  /\ sfDescriptorsArray \in [Descriptors -> IOs \cup {nullptr}]
  /\ fFileDescriptor \in [IOs -> Descriptors \cup {noFileDescriptor}]
  /\ errno \in Errnos

\* Whatever the order of alloc (), assign () and free (), the object a
\* descriptor designates names that same descriptor: no object is ever
\* reachable through two descriptors, even when assign () displaces another.
EntriesPointBack ==
  \A fd \in Descriptors :
     sfDescriptorsArray[fd] # nullptr
        => fFileDescriptor[sfDescriptorsArray[fd]] = fd

\* The entries of the standard streams are filled by assign () only, however
\* full the rest of the array is: a scan of alloc () never reaches them.
StandardEntriesReserved ==
  [][\A fd \in 0 .. (FirstAllocated - 1) :
        sfDescriptorsArray'[fd] # sfDescriptorsArray[fd]
           => last'.op # "alloc"]_fdmVars

\* alloc () never displaces an object: an entry that changes from one object
\* to another does so by assign ().
AllocNeverDisplaces ==
  [][\A fd \in Descriptors :
        (/\ sfDescriptorsArray[fd] # nullptr
         /\ sfDescriptorsArray'[fd] # sfDescriptorsArray[fd])
           => last'.op \in {"assign", "free"}]_fdmVars
=============================================================================
