# A TLA+ model of µOS++ POSIX-IO

This directory models the POSIX input/output layer of this repository: the
descriptors array, the pools of files, sockets and directories, the registry of
devices, the mount manager, and the C and C++ calls that run through them. TLC checks the models
on small instances; TLAPS proves the most important results for every value of
the constants.

Paths below are relative to the repository root; line numbers are those of the
commit beside this directory.

## 1. The system

The library is a set of C++ base classes. An application derives classes from
them (drivers, file systems, network stacks), implements the `do_*()`
functions, and calls the library through C functions (`__posix_open()`, ...) or
C++ methods (`os::posix::open()`, `io->close()`, ...). There is no task, lock or
interrupt in the library: everything runs in the caller's task.

| Component | State it keeps | Operations | Depends on |
|---|---|---|---|
| `Pool`, `TPool` (`src/posix-io/Pool.cpp`) | `fArray` (objects, constant), `fInUse` (flags) | `aquire()`, `release()` | - |
| `FileDescriptorsManager` | `sfDescriptorsArray` (descriptor to object), and each object's `fFileDescriptor` | `alloc()`, `assign()`, `free()`, `getIo()`, `isValid()`, `getSocket()` | the objects' back pointers |
| `IO` (base of all open objects) | `fFileDescriptor`; whether the driver has it open | `vopen()`, `allocFileDescriptor()`, `close()`, `read()`, `write()`, `writev()`, `fcntl()`, `fstat()` | the manager, the registry, the mount manager |
| `File`, `FileSystem` | `fFileSystem` of a file; `fFilesPool`, `fDirsPool`, `fBlockDevice` of a file system | `open()`, `opendir()`, `lseek()`, `ftruncate()`, `fsync()`, the calls by path | pools, mount manager |
| `Socket`, `NetStack` | `fSocketsPool` | `socket()`, `accept()`, `bind()`, ... | pool, manager |
| `CharDevice` | `fName` | constructor, destructor, `ioctl()`, `matchName()`, `do_vopen()` | - |
| `CharDevicesRegistry` | `sfRegistryArray` | `add()`, `remove()`, `identifyDevice()` | the devices' names |
| `MountManager` | `sfRoot`, `sfFileSystemsArray`, `sfPathsArray` | `mount()`, `umount()`, `setRoot()`, `identifyFileSystem()` | the file systems' block devices |
| `Directory` | `fFileSystem`, the pooled object itself is the `DIR *` | `read()`, `rewind()`, `close()` | directories pool |
| C functions (`src/newlib/c-posix-syscalls.cpp`) | `errno` | identify the object of a descriptor or path, call the method | all of the above |
| newlib wrappers, aliases, `BlockDevice`, `NetInterface`, driver sample, tests | none | - | - |

How they interact. `open()` asks the registry for a device, or else the mount
manager for a file system, which takes a `File` from its pool; the driver's
`do_vopen()` runs; then `allocFileDescriptor()` enters the object into the
array and its number into the object. `close()` runs the driver's `do_close()`,
clears both links, and `do_release()` returns the object to its pool, which a
file finds through the file system it was opened on. `socket()` and `accept()`
do the same with the network stack's pool. The links between an object, its
entry, its pool and its file system are kept in four places and changed in
several steps; almost every interesting error is one of them out of step.

What is hard here, and what correctness means for each part:

- *Partial failure.* Every call runs application code that may fail in the
  middle (`do_vopen`, `do_close`, `do_socket`, `do_accept`); what was taken must
  be given back. (`NothingLeaks`, `HeldAreReachable`, `FilesInUseAttached`)
- *Tables and pools at their limits.* (`AllocNeverDisplaces`,
  `StandardEntriesReserved`, `NoFault`)
- *Long legal sequences.* Objects are reused through pools: a stale link in an
  object would make a later user close another's descriptor. (`BackPointersHold`,
  `PooledKnowTheirEntry`, `FreeObjectsDetached`, `OnlyItsCloseEndsADescriptor`)
- *Objects that disappear* while tables point to them: devices removed, added
  twice, destroyed. (`NothingDangles`, `NamesSpec`, `NamesAreUnique`,
  `ClosedCanBeReopened`)
- *Pointers used after a close*: nothing in a directory stream tells that it was
  closed. (`NothingLeaks` and `CrashesOnlyWhenAllAreHeld` of `DirectoryStreams`)
- *Mounts that change* under paths, files and streams. (`AssertsHold`,
  `NothingLostByUmount`, `PathsKeepTheirMeaning`, `TableSpec` of `MountManager`)
- *errno*, one variable shared by all calls. (`ErrnoTellsFailure`,
  `ErrnoIsOfThisCall`)
- *Casts* of the object found by descriptor to the class a call needs.
  (`CastsAreRight`)
- *Two tasks in unlocked code.* (`OneOwner`, `NullMeansFull`,
  `EveryCallReturns`, `DescriptorsLead`, `NoEntryIsLost`, `SharedTableSpec`,
  `CountIsWhatWasTaken`, `TakenIsAPrefix`)

`PROJECT.json` lists each hazard with its line.

## 2. The modules

| Module | Models | Grain |
|---|---|---|
| `Pool` | `aquire()` / `release()`, instantiated by the modules that have a pool | a call is a step |
| `PoolScan` | the same two functions, called by tasks that preempt each other | a read or a write of a flag is a step |
| `FileDescriptorsManager` | the class, alone, with any caller | a call is a step |
| `PosixIO` | `open()`, `close()`, `socket()`, `accept()`, socket calls, composed with the manager and two pools | a call is a step |
| `PosixIOClaims` | what a test says of `close()` and the code does not do | - |
| `OpenCloseTasks` | `open()` and `close()` called by tasks that preempt each other | a read or a write of an entry, a back pointer or a file's file system is a step |
| `CharDevicesRegistry` | the class, with and without DEBUG | a call is a step |
| `Devices` | devices from constructor to destructor: registered, opened by path, closed, removed | a call is a step |
| `DeviceNames` | abstract: a path leads to a device registered under its name | - |
| `DescriptorTable` | abstract: what POSIX promises of descriptors | - |
| `SharedDescriptorTable` | abstract: what is left of that promise when calls of several tasks overlap | - |
| `DescriptorCalls` | the other calls by descriptor, from the C function to the `do_*()` function, and the C functions that only answer ENOSYS | a call is a step |
| `Writev` | the loop of `IO::do_writev()` in several tasks | a `do_write()` is a step |
| `MountManager` | the mount table and the calls by path | a call is a step |
| `MountTable` | abstract: a function from mount points to file systems | - |
| `DirectoryStreams` | `opendir()`, `readdir()`, `rewinddir()`, `closedir()` and their pool | a call is a step |
| `*Proofs`, `Least` | the theorems, and a lemma they share (section 5) | - |
| `MC*` | the instances TLC checks | - |

Composition: `PosixIO` EXTENDS `FileDescriptorsManager` (one descriptors array)
and has two INSTANCEs of `Pool`; `DirectoryStreams` and `OpenCloseTasks` have one.
`Devices` EXTENDS `FileDescriptorsManager` and has an INSTANCE of
`CharDevicesRegistry`: two tables that point to the same devices. `PosixIO`
implements `DescriptorTable`, `OpenCloseTasks` implements `SharedDescriptorTable`,
`MountManager` implements `MountTable`, and `Devices` implements `DeviceNames`, by
INSTANCE ... WITH and the abstract specification as a property.

How state and actions correspond to the code:

- **Variables** have the names of the C++ data members (`sfDescriptorsArray`,
  `fFileDescriptor`, `fFileSystem`, `fInUse`, `sfRoot`, ...). A pointer is the
  object itself, a model value, and `nullptr` is a constant. `mounted` stands for
  the file systems whose `fBlockDevice` is not null (`PosixIO`,
  `DirectoryStreams`; `MountManager` keeps the block device itself). `errno` is a
  string, `"0"` when clear.
- **What the application sees** is kept too: `last` (the last call, its argument
  and result), `held` (objects it was given and has not closed), `opened`
  (objects whose driver has them open).
- **`fault`** is what ended the program: a null pointer dereferenced, or an
  assertion. After it nothing happens, so runs that can reach it do not check for
  deadlock.
- **An action is a whole call**: `Close(fd)` is `__posix_close()`, `IO::close()`,
  `FileDescriptorsManager::free()` and the class's `do_release()` together; a
  disjunct is an outcome. Where the grain matters, because the code in between
  belongs to other tasks, a module of its own takes the call apart (`PoolScan`,
  `OpenCloseTasks`, `Writev`).
- **Application code** is its outcomes. Constants choose which: `MayFail` (which
  `do_*()` functions may report an error), `OverridesIsOpened` (classes that
  define `do_is_opened()`; the base class answers true, `IO.cpp:195`),
  `Exclusive` (drivers that refuse a second open). A function that a class derived
  has not overridden is the base class's: `DescriptorCalls`, `MountManager` and
  `DirectoryStreams` have those as definitions of their own (`IODefault`,
  `SocketDefault`, `Default`, `DoRead`, ...), one more outcome of every call.
- **Paths** are sequences of characters, since prefixes matter to
  `identifyFileSystem()`; in `Devices` a path is whether it begins with the prefix of
  devices, and the rest, which is compared as a whole. Data transferred is not kept, except in `Writev`, where
  a byte is named by its task, buffer and place.
- Definitions named `X_Something` right before `X` are wrong versions of `X`
  (a dropped test, an off-by-one, a missing reset). Each property of each passing
  run fails when one of them replaces `X`; `PROJECT.json` says which.

## 3. What the runs check

Passing runs:

- `descriptors` - the manager alone, any order of `alloc()`, `assign()`, `free()`.
  Entry and back pointer agree (`EntriesPointBack`); `alloc()` never displaces an
  object and never touches entries 0-2. `assign()` can displace, and the run
  shows that agreement survives it.
- `any_use` - the composed system, however it is used: failing drivers, a device
  shared by two openers, a table with three free entries for six objects, pools
  that run out, `close()` of descriptors out of range. Whatever is done, no object is
  handed out twice, none keeps a stale back pointer, and no call takes a file
  or socket away from a descriptor except the `close()` of that descriptor.
- `careful_use` - the same system within the limits the definition `Careful`
  states: the array has room for all objects, the pools are not overrun, devices
  are exclusive, `do_vopen()` of files and `do_accept()` do not fail. Then nothing
  leaks, nothing crashes, `errno` is set exactly when a call returns -1, and the
  array implements `DescriptorTable`. `Careful` is the price of the code's flaws:
  each conjunct is needed, and section 4 tells why.
- `mounts` - the two arrays of the mount table, scanned by different criteria,
  stay in step and implement `MountTable`; `umount()` writes all data before the
  block device goes (`do_sync()` writes nothing without one, so that the order of
  `MountManager.cpp:185` and `:187` matters although the call is one step); no path trips an assertion while no file system is
  mounted in two places (`apart`); what a file system is given of a path is what
  follows one of its mount points; and a call by path returns -1 exactly when it
  leaves `errno` set, whatever `errno` was.
- `descriptor_calls` - every call reaches an object of the class it casts to;
  `errno` after a call is that call's own, whether a driver or a base class
  answered; and where one of them did, its reason for failing is ENOSYS (the base
  class's) or the driver's, never one for which a descriptor is refused before.
- `streams` - two programs share the directories pool. No stream is lost or given
  to both while neither uses a stream it has closed. Even if they do - close a
  stream twice, read one that the other was given meanwhile - no place of the pool
  is lost, the assertions of `Directory` hold, and the null pointer of the exhausted
  pool is used only when every directory is with a program.
- `devices` - any order of construction, `add()` (twice, of one name, in either
  build), `remove()`, `open()`, `close()` and destruction. Paths lead where `DeviceNames`
  says; in a DEBUG build names are unique; neither table keeps a pointer to a
  destroyed device if the application removes as often as it adds and closes what
  it opens; and a device nobody has open can be opened, also after an `open()` that
  found no entry or a `close()` whose driver failed.
- `open_close_tasks` - one task in `open()` and two in `close()`, which may also close
  descriptors the first one hands them, at every read and write. Descriptors lead
  to their objects and back (`DescriptorsLead`), no entry is lost, `free()` never
  meets an empty entry, and every call returns. `SharedTableSpec`: each call takes
  effect at one of its writes of the array, `open()` where `alloc()` fills the entry
  and `close()` where `free()` empties it; `alloc()` gives no later entry than the
  first that was free when it began, and `open()` fails only if none was.
- `writev` - the count returned is what the device took from this call, with two
  tasks, short writes and errors; with drivers that take buffers whole, the output
  of a task is at every moment a beginning of what it asked for.
- `pool_scan` - with one task in `aquire()` and two in `release()`, without a
  lock: no object has two owners, `nullptr` means that the pool was full at some
  moment of the call, and every call returns.

Bounds, and why they are enough:

| Run | Bound | What it makes happen |
|---|---|---|
| `descriptors` | two entries past the standard ones, three objects | the full array, displacement, reuse |
| `any_use` | three entries past the standard ones; two devices, two files, two sockets | full array and empty pools in all combinations; one class of each kind with and without `do_is_opened()` |
| `careful_use` | five entries and five objects | the array exactly full |
| `mounts` | two slots, three file systems, three mount points one of which lies in another, four paths | full table, holes refilled in either order, nested mounts in either order, a path below a mount point, one that lacks only its slash, `rename()` across mount points |
| `descriptor_calls` | one object of each class, four entries that change hands freely, one arbitrary old `errno` | every class met by every call, on standard descriptors and on others |
| `streams` | two programs, two file systems, three directories | exhaustion, reuse by the other program and on the other file system, a stream given out twice |
| `devices` | three devices, two of one name, three registry slots, two entries past the standard ones | full registry (with devices added twice), holes before and after, one name twice, full array |
| `open_close_tasks`, `pool_race` | three (two) tasks, two files, one device, two (three) entries past the standard ones | closes on either side of the scan, an object reopened while its last close is under way |
| `writev` | two tasks, vectors of one to three buffers, lengths 0-2 | interleavings at every buffer, empty buffers |
| `pool_scan` | three tasks, three slots | releases on either side of the scan |

Nothing grows without bound in these models, so no counter needs a cap. The
descriptor arguments are -1 .. `sfSize`: one value out of range on either side.
Symmetry is used over file systems (`mounts`, `streams`), programs (`streams`) and
tasks (`writev`), which occur in no definition by name.

Fairness is assumed in `PoolScan` and `OpenCloseTasks` only: weak fairness of each
task's `Step`, that is, a task inside a call goes on. It stands for a scheduler
that runs every ready task, the only one under which a call that holds no lock could
be expected to return. No fairness is assumed of the calls being made. The other
modules have no liveness property: a call is one step and always returns.

What `OpenCloseTasks` asks of the application: one task opens (`Openers`); it opens no
more files than the pool has; and a device is opened again only after the
`close()` of it has returned. Without the last, `IO.cpp:182` - the back pointer is
cleared a second time, after the entry became free - wipes the new open's. Nor does
the damage stay with the device. Let a `close()` of descriptor 3 stand before
`IO.cpp:181`. An `open()` of the device is refused with EBUSY but clears its back
pointer (`IO.cpp:143`); the next one gets entry 4; then the old `close()` reads the
new back pointer and frees entry 4, which was just returned. The next file opened gets
4, and the device's user closes that file. If both closes read 4 before either clears
the entry, the second dereferences null. So neither `DescriptorsLead` nor `NoFault`
holds without that condition.

## 4. Where the code and its documentation disagree

Two runs show a statement of the repository violated:

- `shared_device` - a device whose driver allows a second open. The first `open()`
  returns 3. For the second, `alloc()` refuses with EBUSY, and `allocFileDescriptor()`
  then closes the driver and wipes the *first* opener's back pointer
  (`IO.cpp:142-143`); descriptor 3 still leads to the device. A third `open()`
  therefore finds a device without a descriptor and gets 4, beside 3. Now `close(3)`
  returns 0, but what `IO::close()` frees is the entry of the back pointer
  (`IO.cpp:181`), 4: descriptor 3 leads to the device still, and 4, which nobody
  closed, to nothing. `src/tests/device/main.cpp:240`, "Check if descriptor freed",
  expects the opposite of a `close()` that returned 0. (Without the third `open()`,
  `close(3)` answers EBADF in the run's configuration, since the driver, closed by the
  second, defines `do_is_opened()`: `IO.cpp:171`.)
- `pool_race` - `File::do_release()` returns the file to its pool (`File.cpp:80`)
  before it forgets the file system (`File.cpp:82`). An `open()` in another task that
  is given the file in between has its file system wiped, and the `close()` of its
  descriptor never returns the file to the pool. One opener and one closer suffice.

Others were met while modelling and are in the actions, without a run of
their own:

- `open()` of a file with a full array closes the file (`IO.cpp:142`) but never
  returns it to its pool, although `IO.h:171` has `do_release()` called "at the end of
  close, to release objects acquired from a pool".
- `FileSystem::open()` ignores `do_vopen()`'s result (`FileSystem.cpp:338`): `open()`
  returns a descriptor of a file that was not opened, where `types.h:177` promises
  -1.
- `identifyFileSystem()` cuts the second path of `rename()` where the first is cut
  (`MountManager.cpp:99`), whatever it begins with, even past its end.
  `PathsKeepTheirMeaning` speaks of second paths under the same mount point only.
- `mount()` and `umount()` ignore the results of `do_mount()` and `do_unmount()`
  (`MountManager.cpp:160`, `:186`): they return 0 with `errno` set, and paths reach a
  file system that did not mount. `setRoot()` returns the error but leaves the root set.
- with nested mount points the first matching slot wins, not the longest
  mount point; `MountTable` leaves the choice open.
- in a build without DEBUG two devices may have one name; which of them a path
  reaches depends on the slots they happen to have.
- `FileSystem::open()` (`FileSystem.cpp:335`) and `opendir()` use the result of
  `aquire()` unchecked, and `__posix_accept()` (`c-posix-syscalls.cpp:455`) that of
  `Socket::accept()`: null when the pool is exhausted.
- `getSocket()` (`FileDescriptorsManager.cpp:156`) reads the type of an entry's
  object before anything checks that there is one.
- `FileSystem::opendir()` ignores `do_vopen()`'s result like `open()`.
- `sync()` (`FileSystem.cpp:115`, "Enumerate all mounted file systems") does
  not reach the root, which is not in the array.
- a file system mounted in two places loses its block device when one is
  unmounted; the next path through the other trips an assertion
  (`FileSystem.cpp:71`). `AssertsHold` excludes this case by `apart`.
- the comment at `IO.cpp:346` says that "fstat() on a socket returns a zero'd
  buffer"; neither `IO` nor `Socket` does that: `do_fstat()` fails with ENOSYS
  (`IO.cpp:441`) unless a driver overrides it.
- `isatty()` answers -1 for a bad descriptor (`c-posix-syscalls.cpp:223`), and
  `ioctl()` refuses sockets although the comment at line 421 lists it among the
  functions that "should work on sockets".
- two tasks in `aquire()` at once can be given the same object. `Aquirers` has one
  task in `pool_scan`, and the theorems assume `OneAquirer`.

## 5. What is proved

tlapm proves these for any number of descriptors, slots, tasks and programs, sizes
of pools, sets of objects, devices, file systems and paths, and choices of failing
functions. The only assumptions are the named ASSUMEs of the modules (the
constants are what their comments say) and those named below. Most modules are laid
out alike: the inductive invariant, lemmas about the parts shared by calls, one
lemma per call, `Init` and `Next`, theorems. TLC has checked each inductive
invariant on the instance of section 3 before.

**`PosixIOProofs`**. First without further assumption. The invariants of `any_use`
are inductive only together. `IInv` has the links between array and back pointers,
the types, "a free object is detached", and "a file is in use exactly when it has
a file system". The argument: a free object has no descriptor, so the entry it
gets is its only one; hence the entry a `close()` clears is its own, so that what
returns to the pool is detached; and a file finds its pool because only
`do_release()` forgets the file system. Theorems: `TypeCorrect`,
`BackPointersCorrect`, `OneDescriptorEach`, `PoolsHandOutFreeObjects`,
`FilesFindTheirPool`, and the action property `Isolation`.

Then assuming `Careful`. `CInv` adds to `IInv` that being held by
the application, having a descriptor, being open in the driver and, for pooled
objects, being in use are one and the same. It needs a counting argument: as
many entries as objects means `alloc()` finds room (pigeonhole), and a pool that
`Disciplined` callers use has a free object. Theorems: `NothingLeaksIfCareful`,
`NoFaultIfCareful`, `ErrnoIfCareful`, `HeldAreReachableIfCareful`, and
`ImplementsDescriptorTable` - initial states map to initial states, and each
call maps to one step of `DescriptorTable` or a stutter.

**`DevicesProofs`** (no further assumption). First the descriptors alone:
`FdmTypeCorrect`, `EntriesPointBackAlways`, `StandardEntriesKept`,
`AllocKeepsObjects`. Then the two tables together. The registry side of the
invariant is a count: the slots a device has are as many as the application's
`add()` calls less its `remove()` calls, so that a device it may destroy has none.
`remove()` keeps the count because its search goes through all slots, holes
included. The descriptors side is that being held, being open in the driver
and having a descriptor are the same, which every outcome of `open()` and `close()`
keeps, the one included in which the array is full and the device is closed again.
Theorems: `DevicesTypeCorrect`, `NothingEverDangles`, `NamesStayUnique`,
`ClosedStayOpenable`, and `ImplementsDeviceNames`, whose mapping takes an array to
the number of slots of each device.

**`MountManagerProofs`** (no further assumption). Added to the properties, the
invariant has that no path is in two slots (`DistinctPaths`), and that, while no
file system is in two places, those in place have their block device (`OnePlace`):
unmounting one place takes the block device of all. Calls by path are sorted by how
they end - refused before anything is looked up, looked up, tripped over an
assertion - so that each property is shown of three cases instead of eleven calls.
`PathsKeepTheirMeaning` rests on lemmas about prefixes: what `Skip` leaves of a path,
put behind the mount point, is the path. Theorems: `MountTypeCorrect`,
`NothingIsLostByUmount`, `MountAssertsHold`, `PathsAlwaysKeepTheirMeaning`,
`ErrnoAlwaysTellsFailure`, and `ImplementsMountTable`; for that one the array of
paths is read as the domain of a function, and as many mount points as
slots in use (a bijection) means that `mount()` is refused exactly when the function
is full.

**`DirectoryStreamsProofs`** (no further assumption). Added to the properties,
the invariant has that every directory a program was ever given still points to
its file system, closed or not: `close()` does not clear the pointer, which is why
the assertions hold even for streams used after their close. Theorems: `NoStreamLeaks`, `StreamAssertsHold`,
`CrashMeansAllHeld`.

**`OpenCloseTasksProofs`** (assuming `OneOpener`: no two tasks in `open()`). Each
entry in use is owned by a descriptor that was returned or by one call
(`EntriesAreOwned`), each object by one call or one descriptor (`OneOwner`), and
`Knows(t)` says what a task may rely on at each of its steps, for example that the
entry it is about to fill is empty, and no later than the first that was free when
it began. Only the opener fills entries, so the entry it has
seen free stays free; only the owner of an object changes the object's back
pointer. Of the pool the proofs use only that the file `open()` is given was not in
use, which `PoolScanProofs` shows of the pool's own steps. Theorems: `TasksTypeOK`,
`TasksDescriptorsLead`, `TasksLoseNoEntry`, `TasksDoNotFault`.

`ImplementsSharedTable` maps the place of each task in the code, with its local
variables, to what its call has done (`Done`). It needs one more invariant,
`Detached`: an object with a back pointer is behind a descriptor, or in a call at a
step where it should have one, so that `alloc()` never takes a closed object for an
open one. Each step is then one step of the abstract table or changes nothing that it
tells apart. `AloneTakesLowest` assumes `OneTask` instead, and ties the two grains of
the same calls together: without preemption the steps change the array as
`DescriptorTable`, which `PosixIO` implements, says, and the entry filled is the
lowest unused one. (TLC refutes that for an opener and one closer.)

`TasksGetShorter` and `ScansGetShorter` (of `PoolScanProofs`) are what `EveryCallReturns`
rests on apart from the scheduler: `StepsLeft(t)` is a natural number, every step of
task `t` makes it smaller, and no step of another task makes it larger.

**`DescriptorCallsProofs`** (no further assumption). First `DescriptorCalls`: every
call ends with one of a few kinds of `Outcome`, in which result, `errno` and the
object whose implementation function was entered agree, and a failure inside such a
function has ENOSYS or the driver's reason; one lemma per kind of end and one per call.
Theorems: `ErrnoAlwaysOfThisCall`, `CastsAlwaysRight`.

Then `Writev`. The device's output is one sequence to which every task appends. The
invariant: the bytes of a task in it lie before its index and are in order, their
number is its local `total`, and with whole buffers they are all bytes of the first
so many buffers. Theorems: `CountIsAlwaysWhatWasTaken`, `TakenIsAlwaysAPrefix`.

**`PoolScanProofs`** (assuming `OneAquirer`: no two tasks in `aquire()`). The
inductive invariant says of a task in `aquire()` that, unless every flag was up
at some moment of its call, a slot at or after its index is free, and that the
slot it is about to take is free; and of a task in `release()` that its object is
still in use. Only the one task in `aquire()` raises flags, so what it has seen
free stays free. Theorems: `OneOwnerIfOneAquirer`, `NullMeansFullIfOneAquirer`. With
`ReleaseAhead`, that a scan of `release()` has not passed its object,
`ReleaseAlwaysFinds`: `release()` never runs to the end of the array and returns
false. `ScansGetShorter` bounds the steps of a call by the size of the pool.

**`Least`** has one lemma: a set of indices that is not empty has a least one. A
search that looks for "the first slot that ..." ends for this reason, and the
proofs of `Devices`, `MountManager` and `OpenCloseTasks` cite it wherever the code
scans an array.

**Only model-checked.** Liveness (`EveryCallReturns`, of `PoolScan` and
`OpenCloseTasks`): the prover does not handle ENABLED and fairness. What it needs of the
code, that calls get shorter, is proved. The two properties of section 4 that fail are
TLC's too.

## 6. Not modelled

- The reentrant newlib names (`c-newlib-reent.cpp`) and the linker aliases: they
  forward their arguments and keep no state.
- `BlockDevice`, `NetInterface` (empty classes), the driver sample, the tests
  (read as statements about the calls).
- Data read and written, stat buffers, addresses, the modes and flags of `open()`:
  passed through to application code untouched.
- Two tasks that open at once, and calls on a descriptor that another task is
  closing: the library has no lock and says of concurrency only that `errno` should
  be per task. `PoolScan`, `OpenCloseTasks` and `Writev` look at what holds without one.
  They take reads and writes of a `bool`, an `int` and a pointer as atomic.
- Two early returns that these modules' limits rule out: `release()` running to the
  end of the array (`Pool.cpp:82`), which `ReleaseAlwaysFinds` shows not to happen with
  one task in `aquire()`; and, in `OpenCloseTasks`, `close()` of an object that
  `do_is_opened()` calls closed (`IO.cpp:171`), since descriptors are closed there only by
  a task that has them. `PosixIO` has the second.
- Which file system a file was opened on, as far as `FilesInUseAttached` goes: it says
  that a file in use has one, and all file systems of `PosixIO` share one pool.
- Partial writes by a driver whose `do_sync()` fails: it returns nothing.
- Memory: pools and arrays are constructed once, before the first call.

## 7. Plan

Done, in this order: `Pool`, `FileDescriptorsManager`, `PosixIO` with
`DescriptorTable` and its proofs; `MountManager` with `MountTable`; `PoolScan` with its
proofs; `DescriptorCalls`; `DirectoryStreams`; `Writev`; then `CharDevicesRegistry` and
`Devices` with `DeviceNames`, `OpenCloseTasks`, programs that share directory streams,
nested mount points and the base classes' own functions.

Then the proofs of section 5, from the composed system to `DirectoryStreams`,
`OpenCloseTasks`, `MountManager`, `Devices`, `Writev` and `DescriptorCalls`; last
`SharedDescriptorTable`, which `OpenCloseTasks` implements.

Left: what a call on a descriptor may do while another task closes it, beyond
`Writev`, is not modelled.
