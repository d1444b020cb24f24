------------------------ MODULE CharDevicesRegistry ------------------------
(***************************************************************************)
(* os::posix::CharDevicesRegistry: the array of registered devices, and    *)
(* the search of it by path.  Devices composes it with the descriptors.    *)
(***************************************************************************)
EXTENDS Naturals

CONSTANTS fName,     \* device -> its name, a constructor argument
          nullptr,
          sfSize     \* number of slots

VARIABLES sfRegistryArray,  \* slot -> device or nullptr
          debug             \* the build has DEBUG defined

Slots == 0 .. (sfSize - 1)

Init == /\ sfRegistryArray = [i \in Slots |-> nullptr]
        /\ debug \in BOOLEAN

SameName(dev, i) == /\ sfRegistryArray[i] # nullptr
                    /\ fName[sfRegistryArray[i]] = fName[dev]

\* Mutation: the check ends at the first empty slot.
Duplicate_UpToHole(dev) ==
  /\ debug
  /\ \E i \in Slots : /\ SameName(dev, i)
                      /\ \A j \in 0 .. (i - 1) : sfRegistryArray[j] # nullptr

\* A build without DEBUG does not look.
Duplicate(dev) == debug /\ \E i \in Slots : SameName(dev, i)

Full == \A i \in Slots : sfRegistryArray[i] # nullptr

\* add () calls abort ().
AddAborts(dev) == (Duplicate(dev) \/ Full) /\ UNCHANGED sfRegistryArray

Add(dev) ==
  /\ ~Duplicate(dev)
  /\ \E i \in Slots :
       /\ sfRegistryArray[i] = nullptr
       /\ \A j \in 0 .. (i - 1) : sfRegistryArray[j] # nullptr
       /\ sfRegistryArray' = [sfRegistryArray EXCEPT ![i] = dev]

\* Mutation: the search ends at the first empty slot.
Position_UpToHole(dev, i) ==
  /\ sfRegistryArray[i] = dev
  /\ \A j \in 0 .. (i - 1) : sfRegistryArray[j] \notin {dev, nullptr}

Position(dev, i) == /\ sfRegistryArray[i] = dev
                    /\ \A j \in 0 .. (i - 1) : sfRegistryArray[j] # dev

\* remove () of a device that is not there tells nobody.
Remove(dev) ==
  IF \E i \in Slots : Position(dev, i)
    THEN \E i \in Slots :
           /\ Position(dev, i)
           /\ sfRegistryArray' = [sfRegistryArray EXCEPT ![i] = nullptr]
    ELSE UNCHANGED sfRegistryArray

\* strncmp () with the prefix /dev/, then matchName () with the whole rest.
Matches(path, i) == /\ path.prefix
                    /\ sfRegistryArray[i] # nullptr
                    /\ fName[sfRegistryArray[i]] = path.rest

\* Mutation: the search ends at the first empty slot.
FirstMatch_UpToHole(path, i) ==
  /\ Matches(path, i)
  /\ \A j \in 0 .. (i - 1) : sfRegistryArray[j] # nullptr /\ ~Matches(path, j)

FirstMatch(path, i) == /\ Matches(path, i)
                       /\ \A j \in 0 .. (i - 1) : ~Matches(path, j)

\* identifyDevice (path) gives dev, or nullptr.
Identifies(path, dev) ==
  \/ \E i \in Slots : FirstMatch(path, i) /\ dev = sfRegistryArray[i]
  \/ dev = nullptr /\ ~\E i \in Slots : FirstMatch(path, i)
=============================================================================
