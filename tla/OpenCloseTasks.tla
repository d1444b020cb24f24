--------------------------- MODULE OpenCloseTasks ---------------------------
(***************************************************************************)
(* open () and close () at the granularity of their reads and writes of    *)
(* the descriptors array, of the back pointers and of a file's pointer to  *)
(* its file system, called by tasks that preempt each other.  None of the  *)
(* code takes a lock.  The scans of the files pool are single steps here:  *)
(* PoolScan takes them apart.                                              *)
(***************************************************************************)
EXTENDS Integers

CONSTANTS Tasks,
          Openers,        \* the tasks that call open ()
          Devices,
          FilesPoolSize, FilesArray,  \* TPool<File>
          FileSystem,     \* the one file system, mounted
          nullptr,
          sfSize          \* number of entries of the descriptors array

VARIABLES sfDescriptorsArray, fFileDescriptor,
          filesInUse,     \* fInUse of the pool
          fFileSystem,    \* File -> FileSystem or nullptr
          pc,             \* task -> where it is in the code
          io,             \* task -> the object its call is about
          fd,             \* task -> the loop variable of alloc (), the argument of free ()
          theirs,         \* task -> the descriptors open () returned to it, each
                          \* with the object opened
          lowest,         \* task -> the first entry that was free when its
                          \* alloc () began (sfSize if there was none)
          fault           \* "none", or "free" when it dereferenced nullptr

vars == <<sfDescriptorsArray, fFileDescriptor, filesInUse, fFileSystem,
          pc, io, fd, theirs, lowest, fault>>

FilesPool == INSTANCE Pool WITH
  fSize <- FilesPoolSize, fArray <- FilesArray, inUse <- filesInUse

Files == FilesPool!Objects

IOs == Devices \cup Files

ASSUME OpenCloseTasksAssumption ==
  /\ Openers \subseteq Tasks
  /\ FilesPool!IsPool
  /\ Devices \cap Files = {}
  /\ nullptr \notin IOs \cup {FileSystem}
  /\ sfSize \in Nat /\ sfSize > 3

noFileDescriptor == -1

Descriptors == 0 .. (sfSize - 1)

FirstAllocated == 3

GetIo(fildes) == IF fildes \in Descriptors THEN sfDescriptorsArray[fildes] ELSE nullptr

OpenSteps == {"attach", "alloc", "alloc_test", "alloc_set", "alloc_back", "open_return", "undo"}

CloseSteps == {"free", "free_back", "free_entry", "close_back", "release", "detach"}

Init == /\ sfDescriptorsArray = [d \in Descriptors |-> nullptr]
        /\ fFileDescriptor = [o \in IOs |-> noFileDescriptor]
        /\ FilesPool!Init
        /\ fFileSystem = [file \in Files |-> nullptr]
        /\ pc = [t \in Tasks |-> "idle"]
        /\ io = [t \in Tasks |-> nullptr]
        /\ fd = [t \in Tasks |-> noFileDescriptor]
        /\ theirs = [t \in Tasks |-> {}]
        /\ lowest = [t \in Tasks |-> FirstAllocated]
        /\ fault = "none"

At(t, step) == pc[t] = step

Goto(t, step) == /\ pc' = [pc EXCEPT ![t] = step]
                 /\ UNCHANGED <<io, lowest>>

\* The local variables of the call are gone.
Returns(t) == /\ pc' = [pc EXCEPT ![t] = "idle"]
              /\ io' = [io EXCEPT ![t] = nullptr]
              /\ fd' = [fd EXCEPT ![t] = noFileDescriptor]
              /\ lowest' = [lowest EXCEPT ![t] = FirstAllocated]

links == <<sfDescriptorsArray, fFileDescriptor>>

pool == <<filesInUse, fFileSystem>>

-----------------------------------------------------------------------------
(* open () *)

Begins(t, object, step) == /\ At(t, "idle")
                           /\ io' = [io EXCEPT ![t] = object]
                           /\ pc' = [pc EXCEPT ![t] = step]
                           /\ UNCHANGED <<fd, lowest>>

\* The application does not open more files than the pool has.
CallOpenFile(t) ==
  /\ t \in Openers
  /\ \E file \in Files : FilesPool!Aquire(file) /\ Begins(t, file, "attach")
  /\ UNCHANGED <<links, fFileSystem, theirs, fault>>

\* A device is opened again only after its last close () has returned.
CallOpenDevice(t, dev) ==
  /\ t \in Openers
  /\ \A u \in Tasks : /\ At(u, "idle") \/ io[u] # dev
                      /\ \A pair \in theirs[u] : pair[2] # dev
  /\ Begins(t, dev, "alloc")
  /\ UNCHANGED <<links, pool, theirs, fault>>

\* FileSystem::open (): setFileSystem (), and do_vopen ().
Attach(t) == /\ At(t, "attach")
             /\ fFileSystem' = [fFileSystem EXCEPT ![io[t]] = FileSystem]
             /\ Goto(t, "alloc")
             /\ UNCHANGED <<links, filesInUse, fd, theirs, fault>>

\* Mutation: the scan leaves out the first entry.
ScanFrom_Next == FirstAllocated + 1

ScanFrom == FirstAllocated

IsFirstFree(i) == /\ i \in FirstAllocated .. sfSize
                  /\ i < sfSize => sfDescriptorsArray[i] = nullptr
                  /\ \A j \in FirstAllocated .. (i - 1) : sfDescriptorsArray[j] # nullptr

\* lowest is history, kept for Done.
Alloc(t) ==
  /\ At(t, "alloc")
  /\ IF fFileDescriptor[io[t]] >= 0
       THEN Goto(t, "undo") /\ UNCHANGED fd
       ELSE /\ pc' = [pc EXCEPT ![t] = "alloc_test"]
            /\ fd' = [fd EXCEPT ![t] = ScanFrom]
            /\ lowest' = [lowest EXCEPT ![t] =
                            CHOOSE i \in FirstAllocated .. sfSize : IsFirstFree(i)]
            /\ UNCHANGED io
  /\ UNCHANGED <<links, pool, theirs, fault>>

\* Mutations: the entry is not tested; the scan goes one past the last one.
IsFree_Untested(i) == i < sfSize

IsFree_Past(i) == i = sfSize \/ sfDescriptorsArray[i] = nullptr

IsFree(i) == i < sfSize /\ sfDescriptorsArray[i] = nullptr

\* Mutation: the loop does not advance.
Advance_Not(t) == UNCHANGED fd

Advance(t) == fd' = [fd EXCEPT ![t] = @ + 1]

AllocTest(t) ==
  /\ At(t, "alloc_test")
  /\ \/ IsFree(fd[t]) /\ Goto(t, "alloc_set") /\ UNCHANGED fd
     \/ fd[t] < sfSize /\ ~IsFree(fd[t]) /\ Advance(t) /\ Goto(t, "alloc_test")
     \/ fd[t] = sfSize /\ Goto(t, "undo") /\ UNCHANGED fd
  /\ UNCHANGED <<links, pool, theirs, fault>>

AllocSet(t) == /\ At(t, "alloc_set")
               /\ sfDescriptorsArray' = [sfDescriptorsArray EXCEPT ![fd[t]] = io[t]]
               /\ Goto(t, "alloc_back")
               /\ UNCHANGED <<fFileDescriptor, pool, fd, theirs, fault>>

AllocBack(t) == /\ At(t, "alloc_back")
                /\ fFileDescriptor' = [fFileDescriptor EXCEPT ![io[t]] = fd[t]]
                /\ Goto(t, "open_return")
                /\ UNCHANGED <<sfDescriptorsArray, pool, fd, theirs, fault>>

\* __posix_open () returns io->getFileDescriptor ().
OpenReturn(t) ==
  /\ At(t, "open_return")
  /\ theirs' = [theirs EXCEPT ![t] = @ \cup {<<fFileDescriptor[io[t]], io[t]>>}]
  /\ Returns(t)
  /\ UNCHANGED <<links, pool, fault>>

\* alloc () returned -1: do_close () and clearFileDescriptor ().
Undo(t) == /\ At(t, "undo")
           /\ fFileDescriptor' = [fFileDescriptor EXCEPT ![io[t]] = noFileDescriptor]
           /\ Returns(t)
           /\ UNCHANGED <<sfDescriptorsArray, pool, theirs, fault>>

-----------------------------------------------------------------------------
(* close () *)

\* A descriptor that leads nowhere, or none at all: EBADF.
CloseRefused(t, d) == /\ At(t, "idle")
                      /\ GetIo(d) = nullptr
                      /\ UNCHANGED vars

\* By the task that has the descriptor, or by one it was handed to.  getIo ()
\* reads the entry; the driver's do_close () follows.  The early return of
\* IO::close () is for objects that do_is_opened () calls closed; those behind
\* a descriptor that was returned and not closed since are open.
CallClose(t, u, pair) ==
  /\ pair \in theirs[u]
  /\ GetIo(pair[1]) # nullptr
  /\ Begins(t, GetIo(pair[1]), "free")
  /\ theirs' = [theirs EXCEPT ![u] = @ \ {pair}]
  /\ UNCHANGED <<links, pool, fault>>

\* The argument of FileDescriptorsManager::free (), which refuses -1.
Free(t) ==
  LET d == fFileDescriptor[io[t]] IN
  /\ At(t, "free")
  /\ fd' = [fd EXCEPT ![t] = d]
  /\ Goto(t, IF d \in Descriptors THEN "free_back" ELSE "close_back")
  /\ UNCHANGED <<links, pool, theirs, fault>>

\* sfDescriptorsArray[fildes]->clearFileDescriptor ()
FreeBack(t) ==
  LET object == sfDescriptorsArray[fd[t]] IN
  /\ At(t, "free_back")
  /\ IF object = nullptr
       THEN fault' = "free" /\ Goto(t, "free_back") /\ UNCHANGED fFileDescriptor
       ELSE /\ fFileDescriptor' = [fFileDescriptor EXCEPT ![object] = noFileDescriptor]
            /\ Goto(t, "free_entry")
            /\ UNCHANGED fault
  /\ UNCHANGED <<sfDescriptorsArray, pool, fd, theirs>>

\* Mutation: the entry is not cleared.
ClearEntry_Not(d) == UNCHANGED sfDescriptorsArray

ClearEntry(d) == sfDescriptorsArray' = [sfDescriptorsArray EXCEPT ![d] = nullptr]

FreeEntry(t) == /\ At(t, "free_entry")
                /\ ClearEntry(fd[t])
                /\ Goto(t, "close_back")
                /\ UNCHANGED <<fFileDescriptor, pool, fd, theirs, fault>>

\* IO::close () clears the back pointer again.  A device's do_release () is
\* empty.
CloseBack(t) ==
  /\ At(t, "close_back")
  /\ fFileDescriptor' = [fFileDescriptor EXCEPT ![io[t]] = noFileDescriptor]
  /\ IF io[t] \in Files THEN Goto(t, "release") /\ UNCHANGED fd ELSE Returns(t)
  /\ UNCHANGED <<sfDescriptorsArray, pool, theirs, fault>>

\* File::do_release (): pool->release (this), through the file system.
Release(t) ==
  /\ At(t, "release")
  /\ \/ /\ fFileSystem[io[t]] # nullptr
        /\ FilesPool!Release(io[t])
        /\ Goto(t, "detach")
        /\ UNCHANGED fd
     \/ /\ fFileSystem[io[t]] = nullptr
        /\ UNCHANGED filesInUse
        /\ Returns(t)
  /\ UNCHANGED <<links, fFileSystem, theirs, fault>>

\* setFileSystem (nullptr), on an object that is already free.
Detach(t) == /\ At(t, "detach")
             /\ fFileSystem' = [fFileSystem EXCEPT ![io[t]] = nullptr]
             /\ Returns(t)
             /\ UNCHANGED <<links, filesInUse, theirs, fault>>

-----------------------------------------------------------------------------

Step(t) ==
  /\ fault = "none"
  /\ \/ Attach(t) \/ Alloc(t) \/ AllocTest(t) \/ AllocSet(t) \/ AllocBack(t)
     \/ OpenReturn(t) \/ Undo(t)
     \/ Free(t) \/ FreeBack(t) \/ FreeEntry(t) \/ CloseBack(t)
     \/ Release(t) \/ Detach(t)

Next ==
  \E t \in Tasks :
    \/ Step(t)
    \/ /\ fault = "none"
       /\ \/ CallOpenFile(t)
          \/ \E dev \in Devices : CallOpenDevice(t, dev)
          \/ \E d \in -1 .. sfSize : CloseRefused(t, d)
          \/ \E u \in Tasks : \E pair \in theirs[u] : CallClose(t, u, pair)

\* A task that is inside a call goes on: the scheduler runs every ready task.
Spec == Init /\ [][Next]_vars /\ \A t \in Tasks : WF_vars(Step(t))

-----------------------------------------------------------------------------
(* Properties *)

\* The types of the declarations; a task about to write an entry has the
\* index of one.
TypeOK ==
  /\ sfDescriptorsArray \in [Descriptors -> IOs \cup {nullptr}]
  /\ fFileDescriptor \in [IOs -> Descriptors \cup {noFileDescriptor}]
  /\ filesInUse \subseteq Files
  /\ fFileSystem \in [Files -> {FileSystem, nullptr}]
  /\ pc \in [Tasks -> {"idle"} \cup OpenSteps \cup CloseSteps]
  /\ io \in [Tasks -> IOs \cup {nullptr}]
  /\ fd \in [Tasks -> -1 .. sfSize]
  /\ theirs \in [Tasks -> SUBSET (Descriptors \X IOs)]
  /\ lowest \in [Tasks -> FirstAllocated .. sfSize]
  /\ \A t \in Tasks : pc[t] \in {"alloc_set", "free_entry"} => fd[t] \in Descriptors

\* A descriptor that open () returned leads to the object that was opened,
\* and the object back to it, until the descriptor is closed; whatever steps
\* of other tasks come in between.
DescriptorsLead ==
  \A t \in Tasks : \A pair \in theirs[t] :
     /\ sfDescriptorsArray[pair[1]] = pair[2]
     /\ fFileDescriptor[pair[2]] = pair[1]

\* An entry in use is somebody's: a task was given its descriptor, or is in a
\* call about its object.  No entry is lost to the program.
NoEntryIsLost ==
  \A d \in Descriptors :
     sfDescriptorsArray[d] # nullptr
       => \E t \in Tasks : \/ <<d, sfDescriptorsArray[d]>> \in theirs[t]
                           \/ io[t] = sfDescriptorsArray[d]

\* Between finding its argument and using the entry, free () is not overtaken.
NoFault == fault = "none"

\* What the call of a task has done that other tasks can tell.
Done(t) ==
  CASE pc[t] \in {"alloc_test", "alloc_set"} -> [did |-> "look", fd |-> lowest[t]]
    [] pc[t] \in {"alloc_back", "open_return"} ->
         [did |-> "take", fd |-> fd[t], object |-> io[t]]
    [] pc[t] = "undo" -> [did |-> "fail"]
    [] pc[t] = "free" ->
         [did |-> "close", fd |-> fFileDescriptor[io[t]], object |-> io[t]]
    [] pc[t] \in {"free_back", "free_entry"} ->
         [did |-> "close", fd |-> fd[t], object |-> io[t]]
    [] OTHER -> [did |-> "nothing"]

\* However the tasks' steps interleave, each call takes effect at one of its
\* writes of the array: open () at AllocSet, close () at FreeEntry.  Nobody
\* else changes what its entry leads to.  However closes overtake its scan,
\* alloc () gives no later entry than the first that was free when it began,
\* and fails only if none was, never because the object seems to be open.
Table == INSTANCE SharedDescriptorTable WITH
  Callers <- Tasks, Objects <- IOs, none <- nullptr, Size <- sfSize,
  table <- sfDescriptorsArray, returned <- theirs, call <- [t \in Tasks |-> Done(t)]

SharedTableSpec == Table!Spec

\* Neither call waits: it returns whatever the other tasks do.
EveryCallReturns ==
  \A t \in Tasks : ~At(t, "idle") ~> At(t, "idle") \/ fault # "none"

\* src/posix-io/IO.cpp:184, the end of close () is to `Release objects acquired
\* from a pool': once no call is under way, the files in use are those that
\* descriptors were returned for.
QuietPoolIsAccounted ==
  (\A t \in Tasks : At(t, "idle"))
    => \A file \in filesInUse : \E t \in Tasks : \E pair \in theirs[t] : pair[2] = file
=============================================================================
