------------------------------ MODULE Devices ------------------------------
(***************************************************************************)
(* The life of a device: constructed, added to the registry, opened by     *)
(* path, closed by descriptor, removed, destroyed, in any order a careful  *)
(* application may choose.  Two tables hold pointers to it, the registry   *)
(* and the descriptors array, and its destructor tells neither.  The board *)
(* has no file system, and drivers refuse a second open.                   *)
(***************************************************************************)
EXTENDS FileDescriptorsManager, FiniteSets

CONSTANTS fName,          \* device -> its name
          RegistrySize,
          Paths,          \* of open (): whether it begins with /dev/, and the rest
          MayFail         \* devices whose driver may fail to open or to close

VARIABLES sfRegistryArray, debug,
          alive,    \* the devices between constructor and destructor
          opened,   \* devices their driver has opened
          held,     \* devices the application opened and has not closed
          added,    \* device -> add () minus remove () calls of the application
          found     \* the path last looked up, and the device it led to

vars == <<fdmVars, sfRegistryArray, debug, alive, opened, held, added, found>>

Registry == INSTANCE CharDevicesRegistry WITH sfSize <- RegistrySize

ASSUME DevicesAssumption ==
  /\ DOMAIN fName = IOs
  /\ RegistrySize \in Nat \ {0}
  /\ \A path \in Paths : path.prefix \in BOOLEAN
  /\ MayFail \subseteq IOs

Init == /\ FdmInit
        /\ Registry!Init
        /\ alive = IOs
        /\ opened = {} /\ held = {}
        /\ added = [dev \in IOs |-> 0]
        /\ found = [path |-> nullptr, device |-> nullptr]

registry == <<sfRegistryArray, added, alive>>

descriptors == <<fdmVars, opened, held>>

-----------------------------------------------------------------------------
(* Construction and registration *)

Construct(dev) ==
  /\ dev \notin alive
  /\ alive' = alive \cup {dev}
  /\ fFileDescriptor' = [fFileDescriptor EXCEPT ![dev] = noFileDescriptor]
  /\ UNCHANGED <<sfDescriptorsArray, errno, last, fault, opened, held,
                 sfRegistryArray, added, found>>

\* The application destroys a device it has removed as often as it added it,
\* and has closed.
Destroy(dev) ==
  /\ dev \in alive /\ added[dev] = 0 /\ dev \notin held
  /\ alive' = alive \ {dev}
  /\ fFileDescriptor' = [fFileDescriptor EXCEPT ![dev] = noFileDescriptor]
  /\ UNCHANGED <<sfDescriptorsArray, errno, last, fault, opened, held,
                 sfRegistryArray, added, found>>

Add(dev) ==
  /\ dev \in alive
  /\ \/ /\ Registry!Add(dev)
        /\ added' = [added EXCEPT ![dev] = @ + 1]
        /\ UNCHANGED fault
     \/ /\ Registry!AddAborts(dev)
        /\ fault' = "abort"
        /\ UNCHANGED added
  /\ UNCHANGED <<alive, found, opened, held, sfDescriptorsArray, fFileDescriptor, errno, last>>

\* Also of a device that was not added, or is open.
Remove(dev) ==
  /\ dev \in alive
  /\ Registry!Remove(dev)
  /\ added' = [added EXCEPT ![dev] = IF @ = 0 THEN 0 ELSE @ - 1]
  /\ UNCHANGED <<alive, found, descriptors>>

-----------------------------------------------------------------------------
(* open () and close () *)

Opens(dev) ==
  \/ /\ dev \in opened \cup MayFail
     /\ Fails("open", noFileDescriptor, "EIO")
     /\ UNCHANGED <<sfDescriptorsArray, fFileDescriptor, opened, held>>
  \/ /\ dev \notin opened
     /\ \E fd \in Descriptors : /\ AllocGives(dev, fd)
                                /\ Returns("open", noFileDescriptor, fd)
     /\ opened' = opened \cup {dev}
     /\ held' = held \cup {dev}
     /\ errno' = "0"
     /\ UNCHANGED fault
  \/ /\ dev \notin opened
     /\ AllocFails(dev)
     /\ \E e \in {AllocErrno(dev)} \cup (IF dev \in MayFail THEN {"EIO"} ELSE {}) :
          Fails("open", noFileDescriptor, e)
     /\ fFileDescriptor' = [fFileDescriptor EXCEPT ![dev] = noFileDescriptor]
     /\ UNCHANGED <<sfDescriptorsArray, opened, held>>

Open(path) ==
  \E dev \in IOs \cup {nullptr} :
    /\ Registry!Identifies(path, dev)
    /\ found' = [path |-> path, device |-> dev]
    /\ \/ dev # nullptr /\ Opens(dev)
       \/ /\ dev = nullptr
          /\ Fails("open", noFileDescriptor, "EBADF")
          /\ UNCHANGED <<sfDescriptorsArray, fFileDescriptor, opened, held>>
    /\ UNCHANGED registry

\* __posix_close () and IO::close (), with the default do_is_opened ();
\* do_close () may report an error.
Close(fd) ==
  LET dev == GetIo(fd) IN
  /\ \/ /\ dev = nullptr
        /\ Fails("close", fd, "EBADF")
        /\ UNCHANGED <<sfDescriptorsArray, fFileDescriptor, opened, held>>
     \/ /\ dev # nullptr
        /\ ReleaseDescriptor(dev)
        /\ \/ errno' = "0" /\ Returns("close", fd, 0)
           \/ dev \in MayFail /\ errno' = "EIO" /\ Returns("close", fd, -1)
        /\ opened' = opened \ {dev}
        /\ held' = held \ {dev}
  /\ UNCHANGED <<registry, found>>

-----------------------------------------------------------------------------

Next ==
  /\ fault = "none"
  /\ \/ \E dev \in IOs : Construct(dev) \/ Destroy(dev) \/ Add(dev) \/ Remove(dev)
     \/ \E path \in Paths : Open(path)
     \/ \E fd \in -1 .. sfSize : Close(fd)
  /\ UNCHANGED debug

Spec == Init /\ [][Next]_vars

-----------------------------------------------------------------------------
(* Properties *)

TypeOK == /\ FdmTypeOK
          /\ sfRegistryArray \in [Registry!Slots -> IOs \cup {nullptr}]
          /\ alive \subseteq IOs /\ opened \subseteq IOs /\ held \subseteq IOs
          /\ added \in [IOs -> 0 .. RegistrySize]

\* No path and no descriptor leads to a device that was destroyed, through
\* any history of the two tables, when the application removes as often as it
\* adds and closes what it opens.
NothingDangles ==
  /\ \A i \in Registry!Slots : sfRegistryArray[i] \in alive \cup {nullptr}
  /\ \A fd \in Descriptors : sfDescriptorsArray[fd] \in alive \cup {nullptr}

\* What the check of DEBUG builds is for: a name stands for one device.
NamesAreUnique ==
  debug => \A i, j \in Registry!Slots :
             i # j /\ sfRegistryArray[i] # nullptr /\ sfRegistryArray[j] # nullptr
               => fName[sfRegistryArray[i]] # fName[sfRegistryArray[j]]

\* A device can be opened as often as it is closed: whatever happened to its
\* registration meanwhile, one that nobody has open is not refused as busy.
ClosedCanBeReopened ==
  \A dev \in IOs : dev \notin held => dev \notin opened /\ ~Allocated(dev)

\* Whatever the history of its slots, the registry is the table of names
\* DeviceNames describes.
Names == INSTANCE DeviceNames WITH
  Things <- IOs, NameOf <- fName, none <- nullptr, answer <- found,
  registrations <- [dev \in IOs |->
                      Cardinality({i \in Registry!Slots : sfRegistryArray[i] = dev})]

NamesSpec == Names!Spec
=============================================================================
