---------------------------- MODULE MountManager ----------------------------
(***************************************************************************)
(* os::posix::MountManager, and the calls that reach a file system by path *)
(* (mkdir, stat, rename, sync, open, ...).  A path is the sequence of its  *)
(* characters.  Of a file system this module keeps its block device, which *)
(* tells whether it may be used, and whether it holds unwritten data.      *)
(***************************************************************************)
EXTENDS SequencesExt

CONSTANTS FileSystems, nullptr,
          sfSize,        \* slots of the mount table
          MountPaths,    \* paths given to mount () and umount ()
          Paths,         \* paths given to the other calls
          BlockDevices

\* mount () asserts that the path is not null and ends with a slash.
ASSUME MountAssumption ==
  /\ sfSize \in Nat \ {0}
  /\ nullptr \notin FileSystems \cup BlockDevices
  /\ nullptr \notin MountPaths
  /\ (MountPaths \cup Paths) \ {nullptr} \subseteq Seq(STRING)
  /\ \A path \in MountPaths : path # <<>> /\ Last(path) = "/"

VARIABLES sfRoot, sfFileSystemsArray, sfPathsArray,
          fBlockDevice,   \* file system -> block device or nullptr
          dirty,          \* file systems with data not yet on their device
          call,           \* the last call: its kind, the paths it looked up, the
                          \* file system found, the paths passed on to it, what
                          \* the call returned and errno as it left it
          apart,          \* no file system was mounted where it already was
                          \* mounted elsewhere
          fault           \* "none", or "assert"

tableVars == <<sfRoot, sfFileSystemsArray, sfPathsArray, fBlockDevice>>

vars == <<tableVars, dirty, call, apart, fault>>

Slots == 0 .. (sfSize - 1)

Returns(op, paths, fs, passed, ret, e) ==
  call' = [op |-> op, paths |-> paths, fs |-> fs, passed |-> passed, ret |-> ret, errno |-> e]

Refused(op, paths, e) == /\ Returns(op, paths, nullptr, <<>>, -1, e)
                         /\ UNCHANGED <<tableVars, dirty, apart, fault>>

Init == /\ sfRoot = nullptr
        /\ sfFileSystemsArray = [i \in Slots |-> nullptr]
        /\ sfPathsArray = [i \in Slots |-> nullptr]
        /\ fBlockDevice = [fs \in FileSystems |-> nullptr]
        /\ dirty = {}
        /\ call = [op |-> "init", paths |-> <<>>, fs |-> nullptr, passed |-> <<>>,
                   ret |-> 0, errno |-> "0"]
        /\ apart = TRUE
        /\ fault = "none"

\* Mutation: errno keeps what an earlier call left in it.
Cleared_Not == call.errno

\* errno = 0
Cleared == "0"

\* What the functions of a file system return, and errno then.  A driver's
\* succeed or fail, those it has not overridden report ENOSYS, which here
\* stands for a driver's errors too.
Succeeds(ret, e) == ret = 0 /\ e = Cleared

Default(ret, e) == ret = -1 /\ e = "ENOSYS"

Outcome(ret, e) == Succeeds(ret, e) \/ Default(ret, e)

-----------------------------------------------------------------------------
(* The mount table *)

UsedPaths == {sfPathsArray[i] : i \in Slots} \ {nullptr}

FirstFree(i) == /\ sfFileSystemsArray[i] = nullptr
                /\ \A j \in 0 .. (i - 1) : sfFileSystemsArray[j] # nullptr

\* Where the application has fs mounted, the root included.
InPlace(fs) == fs = sfRoot \/ \E i \in Slots : sfFileSystemsArray[i] = fs

\* Mutation: setBlockDevice () forgotten.
Fill_NoBlockDevice(i, fs, path, blockDevice) ==
  /\ sfFileSystemsArray' = [sfFileSystemsArray EXCEPT ![i] = fs]
  /\ sfPathsArray' = [sfPathsArray EXCEPT ![i] = path]
  /\ UNCHANGED fBlockDevice

Fill(i, fs, path, blockDevice) ==
  /\ sfFileSystemsArray' = [sfFileSystemsArray EXCEPT ![i] = fs]
  /\ sfPathsArray' = [sfPathsArray EXCEPT ![i] = path]
  /\ fBlockDevice' = [fBlockDevice EXCEPT ![fs] = blockDevice]

\* Mutation: the path stays in its slot.
Clear_KeepsPath(i) ==
  /\ sfFileSystemsArray' = [sfFileSystemsArray EXCEPT ![i] = nullptr]
  /\ fBlockDevice' = [fBlockDevice EXCEPT ![sfFileSystemsArray[i]] = nullptr]
  /\ UNCHANGED sfPathsArray

Clear(i) ==
  /\ sfFileSystemsArray' = [sfFileSystemsArray EXCEPT ![i] = nullptr]
  /\ sfPathsArray' = [sfPathsArray EXCEPT ![i] = nullptr]
  /\ fBlockDevice' = [fBlockDevice EXCEPT ![sfFileSystemsArray[i]] = nullptr]

\* Mutation: a mount point in use is mounted upon.
Busy_Never(path) == FALSE

Busy(path) == path \in UsedPaths

\* The result of do_mount () is not looked at; errno keeps what it left there.
Mount(fs, path, blockDevice) ==
  \/ /\ Busy(path)
     /\ Refused("mount", <<path>>, "EBUSY")
  \/ /\ ~Busy(path)
     /\ \E i \in Slots : FirstFree(i) /\ Fill(i, fs, path, blockDevice)
     /\ \E ret \in {0, -1}, e \in {Cleared, "ENOSYS"} :
          Outcome(ret, e) /\ Returns("mount", <<path>>, fs, <<>>, 0, e)
     /\ apart' = (apart /\ ~InPlace(fs))
     /\ UNCHANGED <<sfRoot, dirty, fault>>
  \/ /\ ~Busy(path)
     /\ \A i \in Slots : sfFileSystemsArray[i] # nullptr
     /\ Refused("mount", <<path>>, "ENOENT")

\* Mutation: setBlockDevice (nullptr) comes before do_sync ().
Synced_Late(synced) == dirty' = dirty \ {fs \in synced : fBlockDevice'[fs] # nullptr}

\* do_sync () of these file systems writes all their data, as far as they have
\* a block device to write it on when it is called.  Those without a do_sync ()
\* of their own have never any to write.
Synced(synced) == dirty' = dirty \ {fs \in synced : fBlockDevice[fs] # nullptr}

\* The file system is synchronised before it loses its block device: what
\* do_sync () writes depends on the block device of the state before, not on
\* the one Clear leaves.  The results of do_sync () and do_unmount () are not
\* looked at.
Umount(path) ==
  \/ /\ ~Busy(path)
     /\ Refused("umount", <<path>>, "EINVAL")
  \/ \E i \in Slots :
       /\ sfPathsArray[i] = path
       /\ \A j \in 0 .. (i - 1) : sfPathsArray[j] # path
       /\ Clear(i)
       /\ Synced({sfFileSystemsArray[i]})
       /\ \E ret \in {0, -1}, e \in {Cleared, "ENOSYS"} :
            Outcome(ret, e) /\ Returns("umount", <<path>>, sfFileSystemsArray[i], <<>>, 0, e)
       /\ UNCHANGED <<sfRoot, apart, fault>>

\* The root stays set when do_mount () fails.
SetRoot(fs, blockDevice) ==
  /\ sfRoot' = fs
  /\ fBlockDevice' = [fBlockDevice EXCEPT ![fs] = blockDevice]
  /\ \E ret \in {0, -1}, e \in {Cleared, "ENOSYS"} :
       Outcome(ret, e) /\ Returns("setRoot", <<>>, fs, <<>>, ret, e)
  /\ apart' = (apart /\ ~InPlace(fs))
  /\ UNCHANGED <<sfFileSystemsArray, sfPathsArray, dirty, fault>>

-----------------------------------------------------------------------------
(* identifyFileSystem () *)

Matches(i, path) == sfPathsArray[i] # nullptr /\ IsPrefix(sfPathsArray[i], path)

FirstMatch(i, path) == /\ Matches(i, path)
                       /\ \A j \in 0 .. (i - 1) : ~Matches(j, path)

\* The file system of a path, and where the path passed on to it begins: at
\* the slash that ends the mount point.
Identified(path) ==
  IF \E i \in Slots : Matches(i, path)
    THEN LET i == CHOOSE i \in Slots : FirstMatch(i, path)
         IN  [fs |-> sfFileSystemsArray[i], from |-> Len(sfPathsArray[i])]
    ELSE [fs |-> sfRoot, from |-> 1]

\* A pointer past the terminator leads to whatever follows the string.
Outside == <<"?">>

\* Mutation: the slash is skipped too.
Skip_Slash(path, from) ==
  IF from > Len(path) THEN Outside ELSE SubSeq(path, from + 1, Len(path))

Skip(path, from) ==
  IF from > Len(path) + 1 THEN Outside ELSE SubSeq(path, from, Len(path))

-----------------------------------------------------------------------------
(* Calls by path *)

\* A null or an empty path is refused before anything else.
BadPath(op, path) == \/ /\ path = nullptr
                        /\ Refused(op, <<>>, "EFAULT")
                     \/ /\ path = <<>>
                        /\ Refused(op, <<>>, "ENOENT")

IsGood(path) == path \notin {nullptr, <<>>}

\* The file system's own function is entered, with the paths passed on.
Enters(op, paths, passed, writes) ==
  LET fs == Identified(paths[1]).fs IN
  \/ /\ fs # nullptr /\ fBlockDevice[fs] # nullptr
     /\ \E ret \in {0, -1}, e \in {Cleared, "ENOSYS"} :
          /\ Outcome(ret, e)
          /\ Returns(op, paths, fs, passed, ret, e)
          /\ dirty' \in {dirty, IF writes THEN dirty \cup {fs} ELSE dirty}
     /\ UNCHANGED <<tableVars, apart, fault>>
  \/ /\ fs # nullptr /\ fBlockDevice[fs] = nullptr
     /\ fault' = "assert"
     /\ UNCHANGED <<tableVars, dirty, call, apart>>

NoFileSystem(op, paths, e) == /\ Identified(paths[1]).fs = nullptr
                              /\ Refused(op, paths, e)

OnOnePath(op, path, writes) ==
  \/ BadPath(op, path)
  \/ IsGood(path) /\ NoFileSystem(op, <<path>>, "ENOENT")
  \/ /\ IsGood(path)
     /\ Enters(op, <<path>>, <<Skip(path, Identified(path).from)>>, writes)

\* mkdir () and rmdir (), which assert the block device themselves.
Mkdir(path) == OnOnePath("by path", path, TRUE)

\* unlink () and chmod (), through methods of the file system that do.
Unlink(path) == OnOnePath("by path", path, TRUE)

\* stat () and utime () are also given a structure, which must be there.
WithStructure(op, path, struct, writes) ==
  \/ struct = nullptr /\ Refused(op, <<>>, "EFAULT")
  \/ struct # nullptr /\ OnOnePath(op, path, writes)

Stat(path, buf) == WithStructure("by path", path, buf, FALSE)

Utime(path, times) == WithStructure("by path", path, times, TRUE)

\* The length is looked at after the file system has been found.
Truncate(path, length) ==
  \/ BadPath("by path", path)
  \/ IsGood(path) /\ NoFileSystem("by path", <<path>>, "ENOENT")
  \/ /\ IsGood(path) /\ Identified(path).fs # nullptr /\ length < 0
     /\ Returns("by path", <<path>>, Identified(path).fs, <<>>, -1, "EINVAL")
     /\ UNCHANGED <<tableVars, dirty, apart, fault>>
  \/ /\ IsGood(path) /\ length >= 0
     /\ Enters("by path", <<path>>, <<Skip(path, Identified(path).from)>>, TRUE)

\* The second path is cut where the first one is.
Rename(existing, new) ==
  LET from == Identified(existing).from IN
  \/ /\ nullptr \in {existing, new}
     /\ Refused("by path", <<>>, "EFAULT")
  \/ /\ nullptr \notin {existing, new} /\ <<>> \in {existing, new}
     /\ Refused("by path", <<>>, "ENOENT")
  \/ /\ IsGood(existing) /\ IsGood(new)
     /\ \/ NoFileSystem("by path", <<existing, new>>, "ENOENT")
        \/ Enters("by path", <<existing, new>>, <<Skip(existing, from), Skip(new, from)>>, TRUE)

\* open () of a path that is no device's, and opendir (); the result of
\* do_vopen () is not looked at.
Open(path) ==
  LET found == Identified(path) IN
  \/ BadPath("open", path)
  \/ IsGood(path) /\ NoFileSystem("open", <<path>>, "EBADF")
  \/ /\ IsGood(path) /\ found.fs # nullptr
     /\ \/ /\ fBlockDevice[found.fs] = nullptr
           /\ Returns("open", <<path>>, found.fs, <<>>, -1, "EBADF")
        \/ /\ fBlockDevice[found.fs] # nullptr
           /\ \E ret \in {0, -1}, e \in {Cleared, "ENOSYS"} :
                /\ Outcome(ret, e)
                /\ Returns("open", <<path>>, found.fs, <<Skip(path, found.from)>>, 0, e)
     /\ UNCHANGED <<tableVars, dirty, apart, fault>>

\* sync () goes through the array of mounted file systems.
Sync == /\ UNCHANGED <<tableVars, apart, fault>>
        /\ Synced({sfFileSystemsArray[i] : i \in Slots} \ {nullptr})
        /\ \E e \in {Cleared, "ENOSYS"} : Returns("sync", <<>>, nullptr, <<>>, 0, e)

-----------------------------------------------------------------------------

Next ==
  /\ fault = "none"
  /\ \/ \E fs \in FileSystems, blockDevice \in BlockDevices :
          \/ SetRoot(fs, blockDevice)
          \/ \E path \in MountPaths : Mount(fs, path, blockDevice)
     \/ \E path \in MountPaths : Umount(path)
     \/ \E path \in Paths :
          \/ Mkdir(path) \/ Unlink(path) \/ Open(path)
          \/ \E struct \in {nullptr, "struct"} : Stat(path, struct) \/ Utime(path, struct)
          \/ \E length \in {-1, 0} : Truncate(path, length)
          \/ \E new \in Paths : Rename(path, new)
     \/ Sync

Spec == Init /\ [][Next]_vars

-----------------------------------------------------------------------------
(* Properties *)

\* The types of the declarations; and a slot holds a file system and its path,
\* or neither, since mount () looks for free slots in one array and for used
\* paths in the other.
TypeOK ==
  /\ sfRoot \in FileSystems \cup {nullptr}
  /\ sfFileSystemsArray \in [Slots -> FileSystems \cup {nullptr}]
  /\ sfPathsArray \in [Slots -> MountPaths \cup {nullptr}]
  /\ fBlockDevice \in [FileSystems -> BlockDevices \cup {nullptr}]
  /\ dirty \subseteq FileSystems
  /\ \A i \in Slots : sfFileSystemsArray[i] = nullptr <=> sfPathsArray[i] = nullptr

\* FileSystem.cpp:71 and the methods assert (fBlockDevice != nullptr): no
\* sequence of mounts and unmounts lets a path reach a file system without
\* its block device, while no file system is in two places.
AssertsHold == apart => fault = "none"

\* A file system that lost its block device has nothing left to write on it.
NothingLostByUmount ==
  \A fs \in dirty : fBlockDevice[fs] # nullptr

\* The mount points of a file system, without the slash they end with.
Places(fs) == (IF fs = sfRoot THEN {<<>>} ELSE {})
                \cup {Front(sfPathsArray[i]) : i \in {j \in Slots : sfFileSystemsArray[j] = fs}}

\* MountManager.cpp:95, `adjust paths to skip over prefix, but keep /': what a
\* file system is given of a path is what follows one of its mount points, and
\* what it is given of rename ()'s second path too, if that path begins there.
PathsKeepTheirMeaning ==
  call.passed # <<>> =>
    \E place \in Places(call.fs) :
       /\ call.paths[1] = place \o call.passed[1]
       /\ \A i \in DOMAIN call.passed :
            IsPrefix(place, call.paths[i]) => call.paths[i] = place \o call.passed[i]

\* A call by path returns -1 exactly if it leaves errno set, whatever errno
\* held before and whether it was refused here or failed in the file system.
\* Not so mount (), umount () and open (), which ignore the file system's results.
ErrnoTellsFailure ==
  call.op \in {"setRoot", "by path"} => (call.ret = -1 <=> call.errno # "0")

Table == INSTANCE MountTable WITH
  Points <- MountPaths, Names <- Paths \cup {nullptr}, Volumes <- FileSystems, none <- nullptr,
  Capacity <- sfSize, root <- sfRoot,
  mounts <- [path \in UsedPaths |->
               sfFileSystemsArray[CHOOSE i \in Slots : sfPathsArray[i] = path]],
  answer <- [path |-> IF call.paths = <<>> THEN nullptr ELSE call.paths[1],
             reached |-> call.fs]

\* Through any history of the slots, the mount table is the function from
\* mount points to file systems MountTable describes, and a path reaches the
\* file system of a mount point it begins with.
TableSpec == Table!Spec
=============================================================================
