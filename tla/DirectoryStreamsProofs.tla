----------------------- MODULE DirectoryStreamsProofs -----------------------
(***************************************************************************)
(* For every pool of directories and every set of programs and file        *)
(* systems: no place of the pool is lost, no stream is given to two        *)
(* programs, and the assertions of Directory hold, closed streams used or  *)
(* not.                                                                    *)
(***************************************************************************)
EXTENDS DirectoryStreams, TLAPS

StreamTypes == /\ dirsInUse \subseteq Dirs
               /\ fFileSystem \in [Dirs -> FileSystems \cup {nullptr}]
               /\ mounted \subseteq FileSystems
               /\ held \in [Programs -> SUBSET Dirs]
               /\ stale \in [Programs -> SUBSET Dirs]
               /\ misused \in BOOLEAN

\* close () leaves the object pointing to its file system: whatever a program
\* was ever given goes on passing the assertions.
KnownStreamsHaveFileSystems ==
  \A p \in Programs : \A dir \in held[p] \cup stale[p] : fFileSystem[dir] # nullptr

IInv == /\ StreamTypes
        /\ KnownStreamsHaveFileSystems
        /\ NothingLeaks
        /\ CrashesOnlyWhenAllAreHeld
        /\ AssertsHold

\* aquire () of the pool gives a directory that was free.
LEMMA DirAquired ==
  ASSUME NEW dir, DirsPool!Aquire(dir)
  PROVE  /\ dir \in Dirs /\ dir \notin dirsInUse
         /\ dirsInUse' = dirsInUse \cup {dir}
  BY DEF DirsPool!Aquire, DirsPool!FirstFree, Dirs, DirsPool!Objects

\* Every directory is free and no program has a stream.
LEMMA InitIInv == Init => IInv
  BY DEF Init, DirsPool!Init, IInv, StreamTypes, KnownStreamsHaveFileSystems,
         NothingLeaks, CrashesOnlyWhenAllAreHeld, AssertsHold, Held

\* A call that changes neither the pool nor who holds what.
LEMMA QuietIInv ==
  ASSUME IInv, UNCHANGED <<dirsInUse, fFileSystem, held, stale>>,
         mounted' \subseteq FileSystems, misused' \in BOOLEAN, misused => misused',
         fault' = fault
  PROVE  IInv'
  BY DEF IInv, StreamTypes, KnownStreamsHaveFileSystems, NothingLeaks,
         CrashesOnlyWhenAllAreHeld, AssertsHold, Held

\* While no closed stream is used, a free object is with nobody.
LEMMA OpendirIInv ==
  ASSUME IInv, fault = "none",
         NEW p \in Programs, NEW fs \in FileSystems, Opendir(p, fs)
  PROVE  IInv'
<1>1. ASSUME NEW dir \in Dirs, DirsPool!Aquire(dir),
             fFileSystem' = [fFileSystem EXCEPT ![dir] = fs],
             held' = [held EXCEPT ![p] = @ \cup {dir}],
             stale' = [stale EXCEPT ![p] = @ \ {dir}],
             UNCHANGED <<mounted, misused, fault>>
      PROVE  IInv'
  <2>1. dir \notin dirsInUse /\ dirsInUse' = dirsInUse \cup {dir}
    BY <1>1, DirAquired
  <2>2. StreamTypes'
    BY <1>1, <2>1 DEF IInv, StreamTypes
  <2>3. KnownStreamsHaveFileSystems'
    BY <1>1, DirectoryStreamsAssumption DEF IInv, StreamTypes, KnownStreamsHaveFileSystems
  <2>4. Held' = Held \cup {dir}
    BY <1>1 DEF Held, IInv, StreamTypes
  <2>5. ASSUME ~misused, NEW q \in Programs, NEW r \in Programs, q # r
        PROVE  held'[q] \cap held'[r] = {}
    <3>1. \A s \in Programs : dir \notin held[s]
      BY <2>1, <2>5 DEF IInv, NothingLeaks, Held
    <3>2. held[q] \cap held[r] = {}
      BY <2>5 DEF IInv, NothingLeaks
    <3> QED BY <1>1, <2>5, <3>1, <3>2 DEF IInv, StreamTypes
  <2>6. NothingLeaks'
    BY <1>1, <2>1, <2>4, <2>5 DEF IInv, NothingLeaks
  <2>7. CrashesOnlyWhenAllAreHeld' /\ AssertsHold'
    BY <1>1 DEF CrashesOnlyWhenAllAreHeld, AssertsHold
  <2> QED BY <2>2, <2>3, <2>6, <2>7 DEF IInv
<1>2. ASSUME DirsPool!AquireFails, Crashes("null"),
             UNCHANGED <<fFileSystem, held, stale, mounted, misused>>
      PROVE  IInv'
  <2>1. UNCHANGED dirsInUse /\ Dirs \subseteq dirsInUse
    BY <1>2 DEF DirsPool!AquireFails, DirsPool!AllInUse, Dirs
  <2>2. Held = Dirs
    BY <2>1 DEF IInv, NothingLeaks, StreamTypes, Held
  <2> QED BY <1>2, <2>1, <2>2 DEF IInv, StreamTypes, KnownStreamsHaveFileSystems,
             NothingLeaks, CrashesOnlyWhenAllAreHeld, AssertsHold, Held, Crashes
<1> QED BY <1>1, <1>2 DEF Opendir, Returns

\* readdir () of a stream, closed or not, finds its file system.
LEMMA ReadIInv ==
  ASSUME IInv, NEW p \in Programs, NEW dir \in Dirs, Read(p, dir) PROVE IInv'
<1>1. Asserts(dir)
  BY DEF Read, Uses, Asserts, IInv, KnownStreamsHaveFileSystems
<1>2. misused' \in BOOLEAN /\ (misused => misused') /\ mounted' \subseteq FileSystems
  BY DEF Read, Uses, IInv, StreamTypes
<1> QED BY <1>1, <1>2, QuietIInv DEF Read, DoRead, Returns

\* A stream closed by the program that holds it is held by no other; one
\* closed again may be somebody's, and then the program has misused it.
LEMMA CloseIInv ==
  ASSUME IInv, fault = "none", NEW p \in Programs, NEW dir \in Dirs, Close(p, dir)
  PROVE  IInv'
<1>1. Asserts(dir)
  BY DEF Close, Uses, Asserts, IInv, KnownStreamsHaveFileSystems
<1>2. /\ dirsInUse' = dirsInUse \ {dir}
      /\ held' = [held EXCEPT ![p] = @ \ {dir}]
      /\ stale' = [stale EXCEPT ![p] = @ \cup {dir}]
      /\ UNCHANGED <<fFileSystem, mounted, fault>>
      /\ misused' = (misused \/ dir \notin held[p])
  BY <1>1 DEF Close, Uses, GiveBack, DirsPool!Release, Returns
<1>3. StreamTypes'
  BY <1>2 DEF IInv, StreamTypes
<1>4. KnownStreamsHaveFileSystems'
  BY <1>1, <1>2 DEF IInv, StreamTypes, KnownStreamsHaveFileSystems, Asserts
<1>5. dirsInUse' \subseteq Held'
  BY <1>2 DEF IInv, StreamTypes, NothingLeaks, Held
<1>6. ASSUME ~misused'
      PROVE  /\ Held' \subseteq dirsInUse'
             /\ \A q, r \in Programs : q # r => held'[q] \cap held'[r] = {}
  <2>1. /\ ~misused /\ dir \in held[p]
        /\ Held \subseteq dirsInUse
        /\ \A q, r \in Programs : q # r => held[q] \cap held[r] = {}
    BY <1>2, <1>6 DEF IInv, StreamTypes, NothingLeaks
  <2>2. \A q \in Programs : held'[q] = held[q] \ {dir}
    BY <1>2, <2>1 DEF IInv, StreamTypes
  <2> QED BY <1>2, <2>1, <2>2 DEF Held
<1>7. NothingLeaks'
  BY <1>5, <1>6 DEF NothingLeaks
<1>8. CrashesOnlyWhenAllAreHeld' /\ AssertsHold'
  BY <1>2 DEF IInv, CrashesOnlyWhenAllAreHeld, AssertsHold
<1> QED BY <1>3, <1>4, <1>7, <1>8 DEF IInv

\* Block devices come and go under open streams.
LEMMA SetBlockDeviceIInv ==
  ASSUME IInv, NEW fs \in FileSystems, SetBlockDevice(fs) PROVE IInv'
<1>1. mounted' \subseteq FileSystems /\ misused' \in BOOLEAN
  BY DEF SetBlockDevice, IInv, StreamTypes
<1> QED BY <1>1, QuietIInv DEF SetBlockDevice

\* One step, by whichever call.
LEMMA NextIInv == IInv /\ [Next]_vars => IInv'
<1> SUFFICES ASSUME IInv, [Next]_vars PROVE IInv'
  OBVIOUS
<1>1. CASE UNCHANGED vars
  BY <1>1, QuietIInv DEF vars, streamVars, IInv, StreamTypes
<1>2. ASSUME UNCHANGED streamVars, UNCHANGED fault PROVE IInv'
  BY <1>2, QuietIInv DEF streamVars, IInv, StreamTypes
<1>3. ASSUME NEW fs, OpendirRefused(fs) PROVE IInv'
  BY <1>2, <1>3 DEF OpendirRefused, Returns
<1>4. CASE NoStream
  BY <1>2, <1>4 DEF NoStream, Returns
<1> QED BY <1>1, <1>3, <1>4, OpendirIInv, ReadIInv, CloseIInv, SetBlockDeviceIInv DEF Next

\* The invariant, for every pool, every set of programs and any mounts.
THEOREM StreamsSafety == Spec => []IInv
  BY InitIInv, NextIInv, PTL DEF Spec

\* opendir () and closedir () lose no place of the pool, whatever failed and
\* whoever used a closed stream; while nobody does, the pool counts exactly
\* the open streams, and each of them is one program's.
THEOREM NoStreamLeaks == Spec => []NothingLeaks
<1>1. IInv => NothingLeaks
  BY DEF IInv
<1> QED BY <1>1, StreamsSafety, PTL

\* The assertions of Directory::read (), rewind () and close () hold.
THEOREM StreamAssertsHold == Spec => []AssertsHold
<1>1. IInv => AssertsHold
  BY DEF IInv
<1> QED BY <1>1, StreamsSafety, PTL

\* FileSystem::opendir () uses a null pointer only when every directory of
\* the pool is with a program.
THEOREM CrashMeansAllHeld == Spec => []CrashesOnlyWhenAllAreHeld
<1>1. IInv => CrashesOnlyWhenAllAreHeld
  BY DEF IInv
<1> QED BY <1>1, StreamsSafety, PTL
=============================================================================
