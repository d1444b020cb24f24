------------------------- MODULE MountManagerProofs -------------------------
(***************************************************************************)
(* MountManager for any number of slots, any file systems and paths: the   *)
(* two arrays stay in step, a path is cut behind a mount point it begins   *)
(* with, and the arrays are the function MountTable describes.             *)
(***************************************************************************)
EXTENDS MountManager, Least, SequenceTheorems, TLAPS

\* A mount point is in one slot.
DistinctPaths ==
  \A i, j \in Slots : sfPathsArray[i] # nullptr /\ sfPathsArray[i] = sfPathsArray[j] => i = j

\* While no file system is in two places, those in place have their block
\* device.
OnePlace ==
  apart => /\ fault = "none"
           /\ \A fs \in FileSystems : InPlace(fs) => fBlockDevice[fs] # nullptr
           /\ \A i \in Slots : sfFileSystemsArray[i] # nullptr =>
                /\ sfFileSystemsArray[i] # sfRoot
                /\ \A j \in Slots : sfFileSystemsArray[i] = sfFileSystemsArray[j] => i = j

\* What every step keeps: the properties, and what makes them last.
IInv == /\ TypeOK
        /\ DistinctPaths
        /\ OnePlace
        /\ NothingLostByUmount
        /\ PathsKeepTheirMeaning
        /\ ErrnoTellsFailure

\* nullptr is neither a file system nor a path, and a good path is not empty.
LEMMA Pointers ==
  /\ nullptr \notin FileSystems /\ nullptr \notin BlockDevices /\ nullptr \notin MountPaths
  /\ \A path \in MountPaths : path \in Seq(STRING) /\ Len(path) > 0
  /\ \A path \in Paths : IsGood(path) => path \in Seq(STRING) /\ Len(path) > 0
  /\ sfSize \in Nat /\ sfSize > 0
<1>1. ASSUME NEW path \in Seq(STRING), path # <<>> PROVE Len(path) > 0
  BY <1>1
<1> QED BY <1>1, MountAssumption DEF IsGood

-----------------------------------------------------------------------------
(* Paths and their prefixes *)

\* The path passed on, put behind the mount point without its slash, is the path.
LEMMA SkipAfter ==
  ASSUME NEW S, NEW place \in Seq(S), NEW path \in Seq(S), IsPrefix(place, path)
  PROVE  path = place \o Skip(path, Len(place) + 1)
<1>1. Len(place) \in Nat /\ Len(path) \in Nat /\ Len(place) <= Len(path)
  BY DEF IsPrefix
<1>2. Skip(path, Len(place) + 1) = SubSeq(path, Len(place) + 1, Len(path))
  BY <1>1 DEF Skip
<1>3. place = SubSeq(path, 1, Len(place))
  BY SubSeqFull DEF IsPrefix
<1>4. SubSeq(path, 1, Len(place)) \o SubSeq(path, Len(place) + 1, Len(path))
        = SubSeq(path, 1, Len(path))
  <2>1. /\ 1 \in 1 .. Len(path) + 1 /\ Len(place) \in 1 - 1 .. Len(path)
        /\ Len(path) \in Len(place) .. Len(path)
    BY <1>1
  <2> QED BY <2>1, ConcatAdjacentSubSeq
<1>5. SubSeq(path, 1, Len(path)) = path
  BY SubSeqFull
<1> QED BY <1>2, <1>3, <1>4, <1>5

\* What begins with a mount point begins with it without its slash.
LEMMA FrontIsPrefix ==
  ASSUME NEW S, NEW point \in Seq(S), NEW path \in Seq(S), Len(point) > 0, IsPrefix(point, path)
  PROVE  /\ Front(point) \in Seq(S) /\ Len(Front(point)) = Len(point) - 1
         /\ IsPrefix(Front(point), path)
<1> DEFINE n == Len(point) - 1
<1>1. /\ Len(path) \in Nat /\ n \in Nat /\ 1 \in Int /\ n - 1 + 1 = n
      /\ Len(point) = n + 1 /\ n <= Len(path)
  BY DEF IsPrefix
<1>2. point = SubSeq(path, 1, n + 1)
  BY <1>1, SubSeqFull DEF IsPrefix
<1>3. \A k \in 1 .. n : point[k] \in S
  BY <1>1
<1>4. SubSeq(point, 1, n) \in Seq(S) /\ Len(SubSeq(point, 1, n)) = n
  <2> HIDE DEF n
  <2>1. /\ SubSeq(point, 1, n) \in Seq(S)
        /\ Len(SubSeq(point, 1, n)) = IF 1 <= n THEN n - 1 + 1 ELSE 0
    BY <1>1, <1>3, SubSeqProperties
  <2> QED BY <1>1, <2>1
<1>5. SubSeq(point, 1, n) = SubSeq(path, 1, n)
  <2> HIDE DEF n
  <2>1. CASE n = 0
    BY <2>1, SubSeqEmpty
  <2>2. CASE n > 0
    <3>1. /\ 1 \in 1 .. Len(path) /\ n + 1 \in 1 .. Len(path)
          /\ 1 \in 1 .. (n + 1) - 1 + 1 /\ n \in 1 .. (n + 1) - 1 + 1
          /\ 1 + 1 - 1 = 1 /\ 1 + n - 1 = n
      BY <1>1, <2>2 DEF IsPrefix
    <3>2. SubSeq(SubSeq(path, 1, n + 1), 1, n) = SubSeq(path, 1 + 1 - 1, 1 + n - 1)
      BY <3>1, SubSeqOfSubSeq
    <3> QED BY <1>2, <3>1, <3>2
  <2> QED BY <1>1, <2>1, <2>2
<1>6. SubSeq(SubSeq(point, 1, n), 1, n) = SubSeq(point, 1, n)
  BY <1>4, SubSeqFull
<1> QED BY <1>1, <1>4, <1>5, <1>6 DEF IsPrefix, Front

-----------------------------------------------------------------------------
(* identifyFileSystem () *)

\* The search ends at the first slot that matches, or finds the root.
LEMMA WhatIsIdentified ==
  ASSUME TypeOK, NEW path
  PROVE  \/ \E i \in Slots : /\ Matches(i, path)
                             /\ Identified(path) = [fs |-> sfFileSystemsArray[i],
                                                    from |-> Len(sfPathsArray[i])]
         \/ /\ \A i \in Slots : ~Matches(i, path)
            /\ Identified(path) = [fs |-> sfRoot, from |-> 1]
<1>1. CASE \A i \in Slots : ~Matches(i, path)
  BY <1>1 DEF Identified
<1>2. CASE \E i \in Slots : Matches(i, path)
  <2> DEFINE T == {i \in Slots : Matches(i, path)}
             first == CHOOSE i \in Slots : FirstMatch(i, path)
  <2>1. sfSize - 1 \in Nat /\ T \in SUBSET (0 .. (sfSize - 1)) /\ T # {}
    BY <1>2, Pointers DEF Slots
  <2>2. PICK i \in T : \A j \in T : i <= j
    <3> HIDE DEF T
    <3> QED BY <2>1, LeastExists
  <2>3. FirstMatch(i, path)
    BY <2>2, Pointers DEF FirstMatch, Slots
  <2>4. first \in Slots /\ FirstMatch(first, path)
    BY <2>3
  <2>5. Identified(path) = [fs |-> sfFileSystemsArray[first], from |-> Len(sfPathsArray[first])]
    BY <1>2 DEF Identified
  <2> QED BY <2>4, <2>5 DEF FirstMatch
<1> QED BY <1>1, <1>2

\* What is found is a file system in place, or nullptr.
LEMMA IdentifiedIsInPlace ==
  ASSUME TypeOK, NEW path
  PROVE  /\ Identified(path).fs \in FileSystems \cup {nullptr}
         /\ InPlace(Identified(path).fs)
  BY WhatIsIdentified DEF TypeOK, InPlace

\* The path is cut behind one of the file system's places.
LEMMA CutAtAPlace ==
  ASSUME TypeOK, NEW path \in Seq(STRING), Identified(path).fs # nullptr
  PROVE  \E place \in Places(Identified(path).fs) :
            /\ place \in Seq(STRING) /\ IsPrefix(place, path)
            /\ Identified(path).from = Len(place) + 1
<1>1. ASSUME NEW i \in Slots, Matches(i, path), Identified(path).fs = sfFileSystemsArray[i],
             Identified(path).from = Len(sfPathsArray[i])
      PROVE  \E place \in Places(Identified(path).fs) :
                /\ place \in Seq(STRING) /\ IsPrefix(place, path)
                /\ Identified(path).from = Len(place) + 1
  <2> DEFINE point == sfPathsArray[i]
  <2>1. point \in Seq(STRING) /\ Len(point) > 0 /\ IsPrefix(point, path)
    BY <1>1, Pointers DEF TypeOK, Matches
  <2>2. /\ Front(point) \in Seq(STRING) /\ Len(Front(point)) = Len(point) - 1
        /\ IsPrefix(Front(point), path)
    BY <2>1, FrontIsPrefix
  <2>3. Front(point) \in Places(Identified(path).fs)
    BY <1>1 DEF Places
  <2>4. Len(point) \in Nat
    BY <2>1
  <2> QED BY <1>1, <2>2, <2>3, <2>4
<1>2. CASE Identified(path) = [fs |-> sfRoot, from |-> 1]
  <2> DEFINE place == <<>>
  <2>1. place \in Places(Identified(path).fs)
    BY <1>2 DEF Places
  <2>2. place \in Seq(STRING) /\ Len(place) + 1 = 1
    OBVIOUS
  <2>3. IsPrefix(place, path)
    <3>1. SubSeq(<<>>, 1, 0) = <<>> /\ SubSeq(path, 1, 0) = <<>>
      BY SubSeqEmpty
    <3> QED BY <3>1 DEF IsPrefix
  <2> HIDE DEF place
  <2> QED BY <1>2, <2>1, <2>2, <2>3
<1> QED BY <1>1, <1>2, WhatIsIdentified

-----------------------------------------------------------------------------
(* Calls by path *)

\* A call refused before it looks anything up.
RefusedEarly ==
  /\ UNCHANGED <<tableVars, dirty, apart, fault>>
  /\ call'.paths = <<>> /\ call'.fs = nullptr /\ call'.passed = <<>>
  /\ ErrnoTellsFailure'

\* A call that looked up the first of its paths, and may have entered the
\* file system.
LooksUp(paths) ==
  LET found == Identified(paths[1]) IN
  /\ paths # <<>> /\ paths[1] \in Paths /\ IsGood(paths[1])
  /\ UNCHANGED <<tableVars, apart, fault>>
  /\ dirty' \subseteq dirty \cup {fs \in FileSystems : fBlockDevice[fs] # nullptr}
  /\ call'.paths = paths /\ call'.fs = found.fs
  /\ call'.passed # <<>> =>
       /\ found.fs # nullptr
       /\ DOMAIN call'.passed = DOMAIN paths /\ 1 \in DOMAIN paths
       /\ \A i \in DOMAIN paths : /\ paths[i] \in Paths /\ IsGood(paths[i])
                                  /\ call'.passed[i] = Skip(paths[i], found.from)
  /\ ErrnoTellsFailure'

\* A call that trips over a file system without block device.
Trips(path) ==
  /\ path \in Paths /\ IsGood(path)
  /\ Identified(path).fs # nullptr /\ fBlockDevice[Identified(path).fs] = nullptr
  /\ fault' = "assert"
  /\ UNCHANGED <<tableVars, dirty, call, apart>>

\* What is left of a call by path.
EndsAsOneOf == RefusedEarly \/ (\E paths : LooksUp(paths)) \/ (\E path : Trips(path))

\* Null, empty and otherwise bad arguments are refused early.
LEMMA RefusedWithoutPath ==
  ASSUME NEW op, NEW e, e # "0", Refused(op, <<>>, e)
  PROVE  RefusedEarly
  BY DEF Refused, Returns, RefusedEarly, ErrnoTellsFailure

\* So is a null or an empty path.
LEMMA BadPathEnds ==
  ASSUME NEW op, NEW path, BadPath(op, path)
  PROVE  RefusedEarly
<1>1. Refused(op, <<>>, "EFAULT") \/ Refused(op, <<>>, "ENOENT")
  BY DEF BadPath
<1>2. "EFAULT" # "0" /\ "ENOENT" # "0"
  OBVIOUS
<1> QED BY <1>1, <1>2, RefusedWithoutPath

\* A path that leads to no file system was looked up.
LEMMA NoFileSystemEnds ==
  ASSUME NEW op, NEW paths, paths # <<>>, paths[1] \in Paths, IsGood(paths[1]),
         NEW e, e # "0", NoFileSystem(op, paths, e)
  PROVE  LooksUp(paths)
  BY DEF NoFileSystem, Refused, Returns, LooksUp, ErrnoTellsFailure

\* One that leads to a file system is passed on, or trips.
LEMMA EntersEnds ==
  ASSUME TypeOK, NEW op, NEW paths, NEW passed, NEW writes,
         paths # <<>>, 1 \in DOMAIN paths, DOMAIN passed = DOMAIN paths,
         \A i \in DOMAIN paths : /\ paths[i] \in Paths /\ IsGood(paths[i])
                                 /\ passed[i] = Skip(paths[i], Identified(paths[1]).from),
         Enters(op, paths, passed, writes)
  PROVE  LooksUp(paths) \/ Trips(paths[1])
<1> DEFINE fs == Identified(paths[1]).fs
<1>1. fs \in FileSystems \cup {nullptr}
  BY IdentifiedIsInPlace
<1>2. CASE /\ fs # nullptr /\ fBlockDevice[fs] # nullptr
           /\ \E ret \in {0, -1}, e \in {Cleared, "ENOSYS"} :
                /\ Outcome(ret, e)
                /\ Returns(op, paths, fs, passed, ret, e)
                /\ dirty' \in {dirty, IF writes THEN dirty \cup {fs} ELSE dirty}
           /\ UNCHANGED <<tableVars, apart, fault>>
  <2>1. PICK ret \in {0, -1}, e \in {Cleared, "ENOSYS"} :
                /\ Outcome(ret, e)
                /\ Returns(op, paths, fs, passed, ret, e)
                /\ dirty' \in {dirty, IF writes THEN dirty \cup {fs} ELSE dirty}
    BY <1>2
  <2>2. ErrnoTellsFailure'
    <3>1. ret = -1 <=> e # "0"
      BY <2>1 DEF Outcome, Succeeds, Default, Cleared
    <3>2. call'.ret = ret /\ call'.errno = e
      BY <2>1 DEF Returns
    <3> QED BY <3>1, <3>2 DEF ErrnoTellsFailure
  <2>3. dirty' \subseteq dirty \cup {f \in FileSystems : fBlockDevice[f] # nullptr}
    BY <1>1, <1>2, <2>1
  <2>4. call'.paths = paths /\ call'.fs = fs /\ call'.passed = passed
    BY <2>1 DEF Returns
  <2> HIDE DEF fs
  <2> QED BY <1>2, <2>2, <2>3, <2>4 DEF LooksUp, fs
<1>3. CASE /\ fs # nullptr /\ fBlockDevice[fs] = nullptr
           /\ fault' = "assert"
           /\ UNCHANGED <<tableVars, dirty, call, apart>>
  BY <1>3 DEF Trips
<1> QED BY <1>2, <1>3 DEF Enters

\* The calls on one path do one of the three.
LEMMA OnOnePathEnds ==
  ASSUME TypeOK, NEW op, NEW path \in Paths, NEW writes, OnOnePath(op, path, writes)
  PROVE  EndsAsOneOf
<1>1. CASE BadPath(op, path)
  BY <1>1, BadPathEnds DEF EndsAsOneOf
<1>2. CASE IsGood(path) /\ NoFileSystem(op, <<path>>, "ENOENT")
  <2>1. <<path>> # <<>> /\ <<path>>[1] = path
    OBVIOUS
  <2>2. LooksUp(<<path>>)
    BY <1>2, <2>1, NoFileSystemEnds
  <2> QED BY <2>2 DEF EndsAsOneOf
<1>3. CASE IsGood(path) /\ Enters(op, <<path>>, <<Skip(path, Identified(path).from)>>, writes)
  <2> DEFINE paths == <<path>>
             passed == <<Skip(path, Identified(path).from)>>
  <2>1. /\ paths # <<>> /\ 1 \in DOMAIN paths /\ DOMAIN passed = DOMAIN paths
        /\ \A i \in DOMAIN paths : /\ paths[i] \in Paths /\ IsGood(paths[i])
                                   /\ passed[i] = Skip(paths[i], Identified(paths[1]).from)
    BY <1>3
  <2> HIDE DEF paths, passed
  <2>2. Enters(op, paths, passed, writes)
    BY <1>3 DEF paths, passed
  <2> QED BY <2>1, <2>2, EntersEnds DEF EndsAsOneOf
<1> QED BY <1>1, <1>2, <1>3 DEF OnOnePath

\* truncate () and open () do what the others do, and refuse more.
LEMMA TruncateEnds ==
  ASSUME TypeOK, NEW path \in Paths, NEW length, Truncate(path, length)
  PROVE  EndsAsOneOf
<1>1. CASE \/ BadPath("by path", path)
           \/ IsGood(path) /\ NoFileSystem("by path", <<path>>, "ENOENT")
           \/ /\ IsGood(path)
              /\ Enters("by path", <<path>>, <<Skip(path, Identified(path).from)>>, TRUE)
  BY <1>1, OnOnePathEnds DEF OnOnePath
<1>2. CASE /\ IsGood(path)
           /\ Returns("by path", <<path>>, Identified(path).fs, <<>>, -1, "EINVAL")
           /\ UNCHANGED <<tableVars, dirty, apart, fault>>
  <2>1. <<path>> # <<>> /\ <<path>>[1] = path
    OBVIOUS
  <2>2. LooksUp(<<path>>)
    BY <1>2, <2>1 DEF LooksUp, Returns, ErrnoTellsFailure
  <2> QED BY <2>2 DEF EndsAsOneOf
<1> QED BY <1>1, <1>2 DEF Truncate

\* open () has an end of its own: it returns 0 whatever do_vopen () said.
LEMMA OpenEnds ==
  ASSUME TypeOK, NEW path \in Paths, Open(path)
  PROVE  EndsAsOneOf
<1> DEFINE found == Identified(path)
           paths == <<path>>
           passed == <<Skip(path, Identified(path).from)>>
<1>1. CASE BadPath("open", path)
  BY <1>1, BadPathEnds DEF EndsAsOneOf
<1>2. CASE IsGood(path) /\ NoFileSystem("open", <<path>>, "EBADF")
  <2>1. <<path>> # <<>> /\ <<path>>[1] = path
    OBVIOUS
  <2>2. LooksUp(<<path>>)
    BY <1>2, <2>1, NoFileSystemEnds
  <2> QED BY <2>2 DEF EndsAsOneOf
<1>3. CASE /\ IsGood(path) /\ found.fs # nullptr
           /\ \/ Returns("open", <<path>>, found.fs, <<>>, -1, "EBADF")
              \/ \E e \in {Cleared, "ENOSYS"} :
                    Returns("open", <<path>>, found.fs, <<Skip(path, found.from)>>, 0, e)
           /\ UNCHANGED <<tableVars, dirty, apart, fault>>
  <2>1. /\ paths # <<>> /\ paths[1] = path /\ 1 \in DOMAIN paths /\ DOMAIN passed = DOMAIN paths
        /\ \A i \in DOMAIN paths : /\ paths[i] \in Paths /\ IsGood(paths[i])
                                   /\ passed[i] = Skip(paths[i], Identified(paths[1]).from)
    BY <1>3
  <2>2. /\ call'.op = "open" /\ call'.paths = paths /\ call'.fs = Identified(path).fs
        /\ call'.passed \in {<<>>, passed}
    BY <1>3 DEF Returns
  <2>3. ErrnoTellsFailure'
    BY <2>2 DEF ErrnoTellsFailure
  <2> HIDE DEF paths, passed
  <2>4. LooksUp(paths)
    BY <1>3, <2>1, <2>2, <2>3 DEF LooksUp
  <2> QED BY <2>4 DEF EndsAsOneOf
<1> QED BY <1>1, <1>2, <1>3 DEF Open

\* rename () looks up the first path and cuts both.
LEMMA RenameEnds ==
  ASSUME TypeOK, NEW existing \in Paths, NEW new \in Paths, Rename(existing, new)
  PROVE  EndsAsOneOf
<1> DEFINE from == Identified(existing).from
           paths == <<existing, new>>
           passed == <<Skip(existing, from), Skip(new, from)>>
<1>1. CASE Refused("by path", <<>>, "EFAULT") \/ Refused("by path", <<>>, "ENOENT")
  BY <1>1, RefusedWithoutPath DEF EndsAsOneOf
<1>2. CASE /\ IsGood(existing) /\ IsGood(new)
           /\ \/ NoFileSystem("by path", paths, "ENOENT")
              \/ Enters("by path", paths, passed, TRUE)
  <2>1. /\ paths # <<>> /\ paths[1] = existing /\ 1 \in DOMAIN paths
        /\ DOMAIN paths = {1, 2} /\ DOMAIN passed = DOMAIN paths
        /\ paths[2] = new /\ passed[1] = Skip(existing, from) /\ passed[2] = Skip(new, from)
    <3>1. 1 .. 2 = {1, 2}
      OBVIOUS
    <3> QED BY <3>1
  <2>2. \A i \in DOMAIN paths : /\ paths[i] \in Paths /\ IsGood(paths[i])
                                /\ passed[i] = Skip(paths[i], Identified(paths[1]).from)
    <3> HIDE DEF paths, passed
    <3> QED BY <1>2, <2>1
  <2> HIDE DEF paths, passed
  <2>3. (\E p : LooksUp(p)) \/ (\E p : Trips(p))
    BY <1>2, <2>1, <2>2, NoFileSystemEnds, EntersEnds
  <2> QED BY <2>3 DEF EndsAsOneOf
<1> QED BY <1>1, <1>2 DEF Rename

\* stat () and utime () without their structure are refused early.
LEMMA WithStructureEnds ==
  ASSUME TypeOK, NEW op, NEW path \in Paths, NEW struct, NEW writes,
         WithStructure(op, path, struct, writes)
  PROVE  EndsAsOneOf
<1>1. CASE Refused(op, <<>>, "EFAULT")
  BY <1>1, RefusedWithoutPath DEF EndsAsOneOf
<1>2. CASE OnOnePath(op, path, writes)
  BY <1>2, OnOnePathEnds
<1> QED BY <1>1, <1>2 DEF WithStructure

\* A call by path, whichever it is.
ByPath(path) ==
  \/ Mkdir(path) \/ Unlink(path) \/ Open(path)
  \/ \E struct \in {nullptr, "struct"} : Stat(path, struct) \/ Utime(path, struct)
  \/ \E length \in {-1, 0} : Truncate(path, length)
  \/ \E new \in Paths : Rename(path, new)

\* Each of the calls by path ends in one of the three ways.
LEMMA ByPathEnds ==
  ASSUME TypeOK, NEW path \in Paths, ByPath(path)
  PROVE  EndsAsOneOf
<1>1. CASE Mkdir(path) \/ Unlink(path)
  BY <1>1, OnOnePathEnds DEF Mkdir, Unlink
<1>2. CASE \E struct \in {nullptr, "struct"} : Stat(path, struct) \/ Utime(path, struct)
  BY <1>2, WithStructureEnds DEF Stat, Utime
<1> QED BY <1>1, <1>2, OpenEnds, TruncateEnds, RenameEnds DEF ByPath

-----------------------------------------------------------------------------
(* What the steps keep *)

\* Where nothing is mounted or unmounted, only data and the last call change.
LEMMA TablesKept ==
  ASSUME IInv, UNCHANGED <<tableVars, apart, fault>>,
         dirty' \subseteq dirty \cup {fs \in FileSystems : fBlockDevice[fs] # nullptr},
         PathsKeepTheirMeaning', ErrnoTellsFailure'
  PROVE  IInv'
<1> USE DEF tableVars
<1>1. TypeOK' /\ DistinctPaths'
  BY DEF IInv, TypeOK, DistinctPaths
<1>2. OnePlace'
  BY DEF IInv, OnePlace, InPlace
<1>3. NothingLostByUmount'
  BY DEF IInv, NothingLostByUmount
<1> QED BY <1>1, <1>2, <1>3 DEF IInv

\* An assertion may fail once a file system is in two places.
LEMMA OnlyFaults ==
  ASSUME IInv, UNCHANGED <<tableVars, dirty, call, apart>>, fault' = fault \/ ~apart
  PROVE  IInv'
<1> USE DEF tableVars
<1>1. TypeOK' /\ DistinctPaths' /\ NothingLostByUmount'
  BY DEF IInv, TypeOK, DistinctPaths, NothingLostByUmount
<1>2. OnePlace'
  BY DEF IInv, OnePlace, InPlace
<1>3. \A fs : Places(fs)' = Places(fs)
  BY DEF Places
<1>4. PathsKeepTheirMeaning' /\ ErrnoTellsFailure'
  BY <1>3 DEF IInv, PathsKeepTheirMeaning, ErrnoTellsFailure
<1> QED BY <1>1, <1>2, <1>4 DEF IInv

\* What a file system is given of a path is what follows a place of its own.
LEMMA LooksUpKeepsMeaning ==
  ASSUME TypeOK, NEW paths, LooksUp(paths)
  PROVE  PathsKeepTheirMeaning'
<1> SUFFICES ASSUME call'.passed # <<>>
             PROVE  \E place \in Places(call.fs)' :
                      /\ call'.paths[1] = place \o call'.passed[1]
                      /\ \A i \in DOMAIN call'.passed : IsPrefix(place, call'.paths[i])
                           => call'.paths[i] = place \o call'.passed[i]
  BY DEF PathsKeepTheirMeaning
<1> DEFINE found == Identified(paths[1])
<1>1. /\ found.fs # nullptr /\ call'.fs = found.fs /\ call'.paths = paths
      /\ DOMAIN call'.passed = DOMAIN paths /\ 1 \in DOMAIN paths
      /\ \A i \in DOMAIN paths : /\ paths[i] \in Seq(STRING)
                                 /\ call'.passed[i] = Skip(paths[i], found.from)
  BY Pointers DEF LooksUp
<1>2. PICK place \in Places(found.fs) : /\ place \in Seq(STRING) /\ IsPrefix(place, paths[1])
                                        /\ found.from = Len(place) + 1
  BY <1>1, CutAtAPlace
<1>3. \A i \in DOMAIN paths : IsPrefix(place, paths[i]) => paths[i] = place \o call'.passed[i]
  <2> SUFFICES ASSUME NEW i \in DOMAIN paths, IsPrefix(place, paths[i])
               PROVE  paths[i] = place \o call'.passed[i]
    OBVIOUS
  <2>1. paths[i] \in Seq(STRING) /\ call'.passed[i] = Skip(paths[i], Len(place) + 1)
    BY <1>1, <1>2
  <2> QED BY <1>2, <2>1, SkipAfter
<1>4. place \in Places(call.fs)'
  BY <1>1, <1>2 DEF LooksUp, tableVars, Places
<1> QED BY <1>1, <1>2, <1>3, <1>4

\* However a call by path ends, it keeps the invariant.
LEMMA EndsKeep == ASSUME IInv, EndsAsOneOf PROVE IInv'
<1>1. CASE RefusedEarly
  <2>1. PathsKeepTheirMeaning'
    BY <1>1 DEF RefusedEarly, PathsKeepTheirMeaning
  <2> QED BY <1>1, <2>1, TablesKept DEF RefusedEarly
<1>2. ASSUME NEW paths, LooksUp(paths) PROVE IInv'
  BY <1>2, LooksUpKeepsMeaning, TablesKept DEF LooksUp, IInv
<1>3. ASSUME NEW path, Trips(path) PROVE IInv'
  <2>1. ~apart
    BY <1>3, IdentifiedIsInPlace DEF Trips, IInv, OnePlace
  <2> QED BY <1>3, <2>1, OnlyFaults DEF Trips
<1> QED BY <1>1, <1>2, <1>3 DEF EndsAsOneOf

\* A refused call changes nothing but its own outcome.
LEMMA RefusedKeeps ==
  ASSUME IInv, NEW op, NEW paths, NEW e, e # "0", Refused(op, paths, e)
  PROVE  IInv'
<1>1. PathsKeepTheirMeaning' /\ ErrnoTellsFailure'
  BY DEF Refused, Returns, PathsKeepTheirMeaning, ErrnoTellsFailure
<1> QED BY <1>1, TablesKept DEF Refused

\* The slot that is filled was empty in both arrays.
LEMMA MountKeeps ==
  ASSUME IInv, NEW fs \in FileSystems, NEW path \in MountPaths, NEW blockDevice \in BlockDevices,
         Mount(fs, path, blockDevice)
  PROVE  IInv'
<1>1. CASE Refused("mount", <<path>>, "EBUSY") \/ Refused("mount", <<path>>, "ENOENT")
  <2>1. "EBUSY" # "0" /\ "ENOENT" # "0"
    OBVIOUS
  <2> QED BY <1>1, <2>1, RefusedKeeps
<1>2. ASSUME NEW i \in Slots, ~Busy(path), FirstFree(i), Fill(i, fs, path, blockDevice),
             NEW ret, NEW e, Returns("mount", <<path>>, fs, <<>>, 0, e),
             apart' = (apart /\ ~InPlace(fs)), UNCHANGED <<sfRoot, dirty, fault>>
      PROVE  IInv'
  <2> USE <1>2, Pointers DEF Fill
  <2>1. /\ sfFileSystemsArray[i] = nullptr /\ sfPathsArray[i] = nullptr
        /\ \A j \in Slots : sfPathsArray[j] # path
    BY DEF FirstFree, IInv, TypeOK, Busy, UsedPaths
  <2>2. TypeOK'
    BY DEF IInv, TypeOK
  <2>3. DistinctPaths'
    BY <2>1 DEF IInv, TypeOK, DistinctPaths
  <2>4. OnePlace'
    BY <2>1 DEF IInv, TypeOK, OnePlace, InPlace
  <2>5. NothingLostByUmount'
    BY DEF IInv, TypeOK, NothingLostByUmount
  <2>6. PathsKeepTheirMeaning' /\ ErrnoTellsFailure'
    BY DEF Returns, PathsKeepTheirMeaning, ErrnoTellsFailure
  <2> QED BY <2>2, <2>3, <2>4, <2>5, <2>6 DEF IInv
<1> QED BY <1>1, <1>2 DEF Mount

\* The file system's data is written before its block device goes.
LEMMA UmountKeeps ==
  ASSUME IInv, NEW path \in MountPaths, Umount(path)
  PROVE  IInv'
<1>1. CASE Refused("umount", <<path>>, "EINVAL")
  <2>1. "EINVAL" # "0"
    OBVIOUS
  <2> QED BY <1>1, <2>1, RefusedKeeps
<1>2. ASSUME NEW i \in Slots, sfPathsArray[i] = path, Synced({sfFileSystemsArray[i]}), Clear(i),
             NEW ret, NEW e,
             Returns("umount", <<path>>, sfFileSystemsArray[i], <<>>, 0, e),
             UNCHANGED <<sfRoot, apart, fault>>
      PROVE  IInv'
  <2> USE <1>2, Pointers DEF Clear, Synced
  <2>1. sfFileSystemsArray[i] \in FileSystems
    BY DEF IInv, TypeOK
  <2>2. TypeOK'
    BY <2>1 DEF IInv, TypeOK
  <2>3. DistinctPaths'
    BY DEF IInv, TypeOK, DistinctPaths
  <2>4. OnePlace'
    BY <2>1 DEF IInv, TypeOK, OnePlace, InPlace
  <2>5. NothingLostByUmount'
    BY <2>1 DEF IInv, TypeOK, NothingLostByUmount
  <2>6. PathsKeepTheirMeaning' /\ ErrnoTellsFailure'
    BY DEF Returns, PathsKeepTheirMeaning, ErrnoTellsFailure
  <2> QED BY <2>2, <2>3, <2>4, <2>5, <2>6 DEF IInv
<1> QED BY <1>1, <1>2 DEF Umount

\* A file system that was in place gets another block device, not none.
LEMMA SetRootKeeps ==
  ASSUME IInv, NEW fs \in FileSystems, NEW blockDevice \in BlockDevices, SetRoot(fs, blockDevice)
  PROVE  IInv'
<1> USE Pointers DEF SetRoot
<1>1. PICK ret \in {0, -1}, e \in {Cleared, "ENOSYS"} :
        Outcome(ret, e) /\ Returns("setRoot", <<>>, fs, <<>>, ret, e)
  OBVIOUS
<1>2. TypeOK'
  BY DEF IInv, TypeOK
<1>3. DistinctPaths'
  BY DEF IInv, DistinctPaths
<1>4. OnePlace'
  BY DEF IInv, TypeOK, OnePlace, InPlace
<1>5. NothingLostByUmount'
  BY DEF IInv, TypeOK, NothingLostByUmount
<1>6. ErrnoTellsFailure'
  <2>1. ret = -1 <=> e # "0"
    BY <1>1 DEF Outcome, Succeeds, Default, Cleared
  <2> QED BY <1>1, <2>1 DEF Returns, ErrnoTellsFailure
<1>7. PathsKeepTheirMeaning'
  BY <1>1 DEF Returns, PathsKeepTheirMeaning
<1> QED BY <1>2, <1>3, <1>4, <1>5, <1>6, <1>7 DEF IInv

\* sync () only writes data.
LEMMA SyncKeeps == ASSUME IInv, Sync PROVE IInv'
<1>1. PathsKeepTheirMeaning' /\ ErrnoTellsFailure'
  BY DEF Sync, Returns, PathsKeepTheirMeaning, ErrnoTellsFailure
<1>2. dirty' \subseteq dirty
  BY DEF Sync, Synced
<1> QED BY <1>1, <1>2, TablesKept DEF Sync

\* An empty table has the invariant.
LEMMA InitIInv == Init => IInv
  BY Pointers DEF Init, IInv, TypeOK, DistinctPaths, OnePlace, InPlace, NothingLostByUmount,
                  PathsKeepTheirMeaning, ErrnoTellsFailure

\* One step for each call.
LEMMA NextIInv == IInv /\ [Next]_vars => IInv'
<1> SUFFICES ASSUME IInv, [Next]_vars PROVE IInv'
  OBVIOUS
<1>1. CASE UNCHANGED vars
  BY <1>1, OnlyFaults DEF vars
<1>2. CASE Next
  <2>1. ASSUME NEW path \in Paths, ByPath(path) PROVE IInv'
    BY <2>1, ByPathEnds, EndsKeep DEF IInv
  <2> QED BY <1>2, <2>1, MountKeeps, UmountKeeps, SetRootKeeps, SyncKeeps DEF Next, ByPath
<1> QED BY <1>1, <1>2

-----------------------------------------------------------------------------
(* The table as a function *)

\* What the refinement mapping makes of the arrays, and of the last call.
mounted == [path \in UsedPaths |->
              sfFileSystemsArray[CHOOSE i \in Slots : sfPathsArray[i] = path]]

answered == [path |-> IF call.paths = <<>> THEN nullptr ELSE call.paths[1],
             reached |-> call.fs]

tableOf == <<mounted, sfRoot, answered>>

\* The function has the mount point of every slot in use, and the file system
\* beside it.
MountedIsTable ==
  \A i \in Slots : sfPathsArray[i] # nullptr =>
     sfPathsArray[i] \in UsedPaths /\ mounted[sfPathsArray[i]] = sfFileSystemsArray[i]

\* A path is in one slot, which CHOOSE therefore finds.
LEMMA Mounted == IInv => MountedIsTable
<1> SUFFICES ASSUME IInv, NEW i \in Slots, sfPathsArray[i] # nullptr
             PROVE  /\ sfPathsArray[i] \in UsedPaths
                    /\ mounted[sfPathsArray[i]] = sfFileSystemsArray[i]
  BY DEF MountedIsTable
<1>1. sfPathsArray[i] \in UsedPaths
  BY DEF UsedPaths
<1>2. (CHOOSE j \in Slots : sfPathsArray[j] = sfPathsArray[i]) = i
  BY DEF IInv, DistinctPaths
<1> QED BY <1>1, <1>2 DEF mounted

\* As many mount points as slots in use.
LEMMA SizeOfTable ==
  ASSUME TypeOK, DistinctPaths
  PROVE  /\ Table!Cardinality(DOMAIN mounted) <= sfSize
         /\ Table!Cardinality(DOMAIN mounted) \in Nat
         /\ Table!Cardinality(DOMAIN mounted) = sfSize
              <=> \A i \in Slots : sfFileSystemsArray[i] # nullptr
<1> DEFINE Used == {i \in Slots : sfPathsArray[i] # nullptr}
           f == [i \in Used |-> sfPathsArray[i]]
<1>1. f \in Bijection(Used, UsedPaths)
  BY DEF DistinctPaths, UsedPaths, Bijection, Injection, Surjection, IsInjective
<1>2. IsFiniteSet(Slots) /\ Cardinality(Slots) = sfSize
  <2>1. 0 \in Int /\ sfSize - 1 \in Int /\ ~(0 > sfSize - 1) /\ (sfSize - 1) - 0 + 1 = sfSize
    BY Pointers
  <2> QED BY <2>1, FS_Interval DEF Slots
<1>3. Used \in SUBSET Slots /\ (Used = Slots <=> \A i \in Slots : sfFileSystemsArray[i] # nullptr)
  BY DEF TypeOK
<1>4. ExistsBijection(Used, UsedPaths)
  BY <1>1 DEF ExistsBijection
<1> HIDE DEF Used, f
<1>5. /\ IsFiniteSet(Used) /\ Cardinality(Used) <= sfSize /\ Cardinality(Used) \in Nat
      /\ Cardinality(Used) = sfSize <=> Used = Slots
  BY <1>2, <1>3, FS_Subset, FS_CardinalityType
<1>6. Cardinality(UsedPaths) = Cardinality(Used)
  BY <1>4, <1>5, FS_Bijection
<1>7. Table!Cardinality(DOMAIN mounted) = Cardinality(UsedPaths)
  <2>1. DOMAIN mounted = UsedPaths
    BY DEF mounted
  <2>2. \A S : Table!Cardinality(S) = Cardinality(S)
    BY DEF Cardinality, Table!Cardinality
  <2> QED BY <2>1, <2>2
<1> QED BY <1>3, <1>5, <1>6, <1>7

\* What is there to be seen of a refused call.
LEMMA RefusedAnswers ==
  ASSUME NEW op, NEW paths, NEW e, Refused(op, paths, e)
  PROVE  /\ mounted' = mounted /\ sfRoot' = sfRoot
         /\ answered' = [path |-> IF paths = <<>> THEN nullptr ELSE paths[1],
                         reached |-> nullptr]
  BY DEF Refused, Returns, mounted, answered, tableVars, UsedPaths

\* mount () adds a path to the function, or is refused as it should be.
LEMMA MountMaps ==
  ASSUME IInv, IInv', NEW fs \in FileSystems, NEW path \in MountPaths,
         NEW blockDevice \in BlockDevices, Mount(fs, path, blockDevice)
  PROVE  Table!Mount(path, fs) \/ Table!MountRefused(path)
<1>0. <<path>> # <<>> /\ <<path>>[1] = path
  OBVIOUS
<1>1. CASE Busy(path) /\ Refused("mount", <<path>>, "EBUSY")
  <2>1. path \in DOMAIN mounted
    BY <1>1 DEF Busy, mounted
  <2> QED BY <1>0, <1>1, <2>1, RefusedAnswers
          DEF Table!MountRefused, Table!Answers, mounted, answered
<1>2. CASE /\ \A i \in Slots : sfFileSystemsArray[i] # nullptr
           /\ Refused("mount", <<path>>, "ENOENT")
  <2>1. Table!Cardinality(DOMAIN mounted) = sfSize
    BY <1>2, SizeOfTable DEF IInv
  <2> QED BY <1>0, <1>2, <2>1, RefusedAnswers
          DEF Table!MountRefused, Table!Answers, mounted, answered
<1>3. ASSUME NEW i \in Slots, ~Busy(path), FirstFree(i), Fill(i, fs, path, blockDevice),
             NEW ret, NEW e, Returns("mount", <<path>>, fs, <<>>, 0, e),
             UNCHANGED sfRoot
      PROVE  Table!Mount(path, fs)
  <2>1. path \notin DOMAIN mounted
    BY <1>3 DEF Busy, mounted
  <2>2. Table!Cardinality(DOMAIN mounted) < sfSize
    BY <1>3, SizeOfTable, Pointers DEF IInv, FirstFree
  <2>3. answered' = [path |-> path, reached |-> fs]
    BY <1>0, <1>3 DEF Returns, answered
  <2>4. UsedPaths' = UsedPaths \cup {path} /\ sfPathsArray[i] = nullptr
    BY <1>3, Pointers DEF Fill, FirstFree, IInv, TypeOK, UsedPaths
  <2>5. mounted' = [p \in UsedPaths \cup {path} |-> IF p = path THEN fs ELSE mounted[p]]
    <3>1. MountedIsTable /\ MountedIsTable'
      BY Mounted, IInv, IInv', PTL
    <3>2. ASSUME NEW p \in UsedPaths \cup {path}
          PROVE  mounted'[p] = IF p = path THEN fs ELSE mounted[p]
      <4>1. CASE p = path
        BY <1>3, <3>1, <4>1, Pointers DEF Fill, MountedIsTable, IInv, TypeOK
      <4>2. CASE p # path
        <5>1. PICK j \in Slots : sfPathsArray[j] = p /\ p # nullptr /\ j # i
          BY <2>4, <4>2 DEF UsedPaths
        <5>2. sfPathsArray'[j] = p /\ sfFileSystemsArray'[j] = sfFileSystemsArray[j]
          BY <1>3, <5>1 DEF Fill, IInv, TypeOK
        <5> QED BY <3>1, <4>2, <5>1, <5>2 DEF MountedIsTable
      <4> QED BY <4>1, <4>2
    <3>3. mounted' = [p \in UsedPaths' |-> mounted'[p]]
      BY DEF mounted
    <3> QED BY <2>4, <3>2, <3>3
  <2>6. DOMAIN mounted = UsedPaths
    BY DEF mounted
  <2> QED BY <1>3, <2>1, <2>2, <2>3, <2>5, <2>6 DEF Table!Mount, Table!Answers, mounted, answered
<1> QED BY <1>1, <1>2, <1>3 DEF Mount

\* umount () takes the path of its slot out of the function, and no other.
LEMMA UmountMaps ==
  ASSUME IInv, IInv', NEW path \in MountPaths, Umount(path)
  PROVE  Table!Umount(path)
<1>0. <<path>> # <<>> /\ <<path>>[1] = path /\ DOMAIN mounted = UsedPaths
  BY DEF mounted
<1>1. CASE ~Busy(path) /\ Refused("umount", <<path>>, "EINVAL")
  <2>1. path \notin UsedPaths
    BY <1>1 DEF Busy
  <2>2. mounted = [p \in UsedPaths \ {path} |-> mounted[p]]
    <3>1. UsedPaths \ {path} = UsedPaths
      BY <2>1
    <3> QED BY <3>1 DEF mounted
  <2> QED BY <1>0, <1>1, <2>1, <2>2, RefusedAnswers
          DEF Table!Umount, Table!Answers, mounted, answered
<1>2. ASSUME NEW i \in Slots, sfPathsArray[i] = path, Clear(i), NEW ret, NEW e,
             Returns("umount", <<path>>, sfFileSystemsArray[i], <<>>, 0, e),
             UNCHANGED sfRoot
      PROVE  Table!Umount(path)
  <2>1. MountedIsTable /\ MountedIsTable'
    BY Mounted, IInv, IInv', PTL
  <2>2. path \in UsedPaths /\ mounted[path] = sfFileSystemsArray[i]
    BY <1>2, <2>1, Pointers DEF MountedIsTable
  <2>3. answered' = [path |-> path, reached |-> mounted[path]]
    BY <1>0, <1>2, <2>2 DEF Returns, answered
  <2>4. UsedPaths' = UsedPaths \ {path}
    <3>1. \A j \in Slots : j # i /\ sfPathsArray[j] # nullptr => sfPathsArray[j] # path
      BY <1>2 DEF IInv, DistinctPaths
    <3>2. \A j \in Slots : sfPathsArray'[j] = IF j = i THEN nullptr ELSE sfPathsArray[j]
      BY <1>2 DEF Clear, IInv, TypeOK
    <3> QED BY <1>2, <3>1, <3>2 DEF UsedPaths
  <2>5. mounted' = [p \in UsedPaths \ {path} |-> mounted[p]]
    <3>1. ASSUME NEW p \in UsedPaths \ {path} PROVE mounted'[p] = mounted[p]
      <4>1. PICK j \in Slots : sfPathsArray[j] = p /\ p # nullptr /\ j # i
        BY <1>2 DEF UsedPaths
      <4>2. sfPathsArray'[j] = p /\ sfFileSystemsArray'[j] = sfFileSystemsArray[j]
        BY <1>2, <4>1 DEF Clear, IInv, TypeOK
      <4> QED BY <2>1, <4>1, <4>2 DEF MountedIsTable
    <3>2. mounted' = [p \in UsedPaths' |-> mounted'[p]]
      BY DEF mounted
    <3> QED BY <2>4, <3>1, <3>2
  <2> QED BY <1>0, <1>2, <2>2, <2>3, <2>5 DEF Table!Umount, Table!Answers, mounted, answered
<1> QED BY <1>1, <1>2 DEF Umount

\* setRoot () replaces the root.
LEMMA SetRootMaps ==
  ASSUME NEW fs \in FileSystems, NEW blockDevice, SetRoot(fs, blockDevice)
  PROVE  Table!SetRoot(fs)
<1>1. answered' = [path |-> nullptr, reached |-> fs]
  BY DEF SetRoot, Returns, answered
<1>2. mounted' = mounted
  BY DEF SetRoot, mounted, UsedPaths
<1> QED BY <1>1, <1>2 DEF SetRoot, Table!SetRoot, Table!Answers, mounted, answered

\* What a path leads to is a file system of a mount point it begins with, or
\* the root if there is none.
LEMMA IdentifiedIsPromised ==
  ASSUME IInv, NEW path
  PROVE  Identified(path).fs \in Table!VolumesOf(path)
<1>1. Table!PointsOf(path) = {point \in UsedPaths : IsPrefix(point, path)}
  BY DEF Table!PointsOf, Table!IsPrefix, IsPrefix, mounted
<1>2. MountedIsTable
  BY Mounted
<1>3. ASSUME NEW i \in Slots, Matches(i, path), Identified(path).fs = sfFileSystemsArray[i]
      PROVE  Identified(path).fs \in Table!VolumesOf(path)
  <2>1. /\ sfPathsArray[i] \in Table!PointsOf(path)
        /\ mounted[sfPathsArray[i]] = sfFileSystemsArray[i]
    BY <1>1, <1>2, <1>3 DEF Matches, MountedIsTable
  <2> QED BY <1>3, <2>1 DEF Table!VolumesOf, mounted
<1>4. CASE (\A i \in Slots : ~Matches(i, path)) /\ Identified(path).fs = sfRoot
  <2>1. Table!PointsOf(path) = {}
    BY <1>1, <1>4 DEF Matches, UsedPaths
  <2> QED BY <1>4, <2>1 DEF Table!VolumesOf
<1> QED BY <1>3, <1>4, WhatIsIdentified DEF IInv

\* The call that looks nothing up.
LEMMA QuietMaps ==
  ASSUME UNCHANGED tableVars, call'.paths = <<>>, call'.fs = nullptr
  PROVE  Table!Resolve(nullptr)
<1>1. answered' = [path |-> nullptr, reached |-> nullptr]
  BY DEF answered
<1>2. mounted' = mounted /\ sfRoot' = sfRoot
  BY DEF mounted, tableVars, UsedPaths
<1> QED BY <1>1, <1>2 DEF Table!Resolve, Table!Answers, mounted, answered

\* A call by path answers what LookUp () of the table may answer, or nothing.
LEMMA EndsMap ==
  ASSUME IInv, EndsAsOneOf
  PROVE  [Table!Next]_tableOf
<1>1. CASE RefusedEarly
  BY <1>1, QuietMaps DEF RefusedEarly, Table!Next
<1>2. ASSUME NEW paths, LooksUp(paths) PROVE Table!Next
  <2>1. answered' = [path |-> paths[1], reached |-> Identified(paths[1]).fs]
    BY <1>2 DEF LooksUp, answered
  <2>2. mounted' = mounted /\ sfRoot' = sfRoot
    BY <1>2 DEF LooksUp, mounted, tableVars, UsedPaths
  <2>3. Identified(paths[1]).fs \in Table!VolumesOf(paths[1])
    BY IdentifiedIsPromised
  <2>4. paths[1] # nullptr /\ paths[1] \in Paths
    BY <1>2 DEF LooksUp, IsGood
  <2>5. Table!Resolve(paths[1])
    BY <2>1, <2>2, <2>3, <2>4 DEF Table!Resolve, Table!Answers, mounted, answered
  <2> QED BY <2>4, <2>5 DEF Table!Next
<1>3. ASSUME NEW path, Trips(path) PROVE UNCHANGED tableOf
  BY <1>3 DEF Trips, tableOf, mounted, answered, tableVars, UsedPaths
<1> QED BY <1>1, <1>2, <1>3 DEF EndsAsOneOf

\* An empty pair of arrays is the empty function.
LEMMA InitMaps == Init => Table!Init
<1> SUFFICES ASSUME Init PROVE Table!Init
  OBVIOUS
<1>1. UsedPaths = {}
  BY DEF Init, UsedPaths
<1>2. mounted = <<>>
  BY <1>1 DEF mounted
<1> QED BY <1>2 DEF Init, Table!Init, mounted

\* Every step of the arrays is a step of the function, or changes nothing.
LEMMA NextMaps == IInv /\ IInv' /\ [Next]_vars => [Table!Next]_tableOf
<1> SUFFICES ASSUME IInv, IInv', [Next]_vars PROVE [Table!Next]_tableOf
  OBVIOUS
<1>1. CASE UNCHANGED vars
  BY <1>1 DEF vars, tableVars, tableOf, mounted, answered, UsedPaths
<1>2. CASE Next
  <2>1. ASSUME NEW path \in Paths, ByPath(path) PROVE [Table!Next]_tableOf
    BY <2>1, ByPathEnds, EndsMap DEF IInv
  <2>2. ASSUME NEW fs \in FileSystems, NEW blockDevice \in BlockDevices,
               \/ SetRoot(fs, blockDevice)
               \/ \E path \in MountPaths : Mount(fs, path, blockDevice)
        PROVE  Table!Next
    BY <2>2, SetRootMaps, MountMaps DEF Table!Next
  <2>3. ASSUME NEW path \in MountPaths, Umount(path) PROVE Table!Next
    BY <2>3, UmountMaps DEF Table!Next
  <2>4. ASSUME Sync PROVE Table!Next
    BY <2>4, QuietMaps DEF Sync, Returns, Table!Next
  <2> QED BY <1>2, <2>1, <2>2, <2>3, <2>4 DEF Next, ByPath
<1> QED BY <1>1, <1>2

-----------------------------------------------------------------------------
(* The theorems *)

\* Mounts, unmounts and calls by path in any order keep the invariant.
THEOREM MountSafety == Spec => []IInv
  BY InitIInv, NextIInv, PTL DEF Spec

\* The mount table keeps its types, and its two arrays stay in step.
THEOREM MountTypeCorrect == Spec => []TypeOK
<1>1. IInv => TypeOK
  BY DEF IInv
<1> QED BY <1>1, MountSafety, PTL

\* umount () synchronises before the block device goes: what has data to
\* write has a device to write it to.
THEOREM NothingIsLostByUmount == Spec => []NothingLostByUmount
<1>1. IInv => NothingLostByUmount
  BY DEF IInv
<1> QED BY <1>1, MountSafety, PTL

\* assert (fBlockDevice != nullptr) does not fail in the methods, as long as no
\* file system was mounted where it already was.
THEOREM MountAssertsHold == Spec => []AssertsHold
<1>1. IInv => AssertsHold
  BY DEF IInv, OnePlace, AssertsHold
<1> QED BY <1>1, MountSafety, PTL

\* identifyFileSystem () cuts every path behind a mount point of the file
\* system it finds, whatever is mounted inside what, and rename ()'s second
\* path too if it begins there.
THEOREM PathsAlwaysKeepTheirMeaning == Spec => []PathsKeepTheirMeaning
<1>1. IInv => PathsKeepTheirMeaning
  BY DEF IInv
<1> QED BY <1>1, MountSafety, PTL

\* The calls by path, and setRoot (), return -1 exactly if they leave errno set.
THEOREM ErrnoAlwaysTellsFailure == Spec => []ErrnoTellsFailure
<1>1. IInv => ErrnoTellsFailure
  BY DEF IInv
<1> QED BY <1>1, MountSafety, PTL

\* The two arrays with holes implement the function from mount points to file
\* systems, and identifyFileSystem () what it promises.
THEOREM ImplementsMountTable == Spec => TableSpec
  BY InitMaps, NextMaps, MountSafety, PTL
     DEF Spec, TableSpec, Table!Spec, tableOf, mounted, answered
=============================================================================
