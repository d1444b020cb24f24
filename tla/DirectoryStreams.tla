-------------------------- MODULE DirectoryStreams --------------------------
(***************************************************************************)
(* opendir (), readdir (), rewinddir () and closedir (): directories have  *)
(* no descriptor, what the program gets is the pooled object itself, and   *)
(* nothing in it tells a stream that is open from one that was closed and  *)
(* perhaps given to another program.  The file systems share one pool.     *)
(***************************************************************************)
EXTENDS Naturals

CONSTANTS FileSystems, Programs, nullptr,
          DirsPoolSize, DirsArray,  \* TPool<Directory>
          MayFail       \* the implementation functions that may fail

VARIABLES dirsInUse,    \* fInUse of the pool
          fFileSystem,  \* Directory -> the file system it was last opened on
          mounted,      \* file systems with fBlockDevice # nullptr
          held,         \* program -> streams it was given and has not closed
          stale,        \* program -> streams it has closed, whose pointer it keeps
          misused,      \* a program went on using a stream it had closed
          errno, ret,   \* of the last call; ret is a stream, nullptr, 0 or -1
          fault         \* "none", or what failed

streamVars == <<dirsInUse, fFileSystem, mounted, held, stale, misused>>

vars == <<streamVars, errno, ret, fault>>

DirsPool == INSTANCE Pool WITH fSize <- DirsPoolSize, fArray <- DirsArray, inUse <- dirsInUse

Dirs == DirsPool!Objects

ASSUME DirectoryStreamsAssumption ==
  /\ DirsPool!IsPool
  /\ nullptr \notin FileSystems \cup Dirs
  /\ MayFail \subseteq {"opendir", "close"}

Init == /\ DirsPool!Init
        /\ fFileSystem = [dir \in Dirs |-> nullptr]
        /\ mounted = {}
        /\ held = [p \in Programs |-> {}] /\ stale = [p \in Programs |-> {}]
        /\ misused = FALSE
        /\ errno = "0" /\ ret = nullptr /\ fault = "none"

Returns(r, e) == ret' = r /\ errno' = e /\ UNCHANGED fault

Crashes(how) == fault' = how /\ UNCHANGED <<errno, ret>>

-----------------------------------------------------------------------------
(* opendir () *)

\* No path, no file system for it (fs = nullptr), or no block device.
OpendirRefused(fs) ==
  /\ \/ \E e \in {"EFAULT", "ENOENT"} : Returns(nullptr, e)
     \/ fs \notin mounted /\ Returns(nullptr, "EBADF")
  /\ UNCHANGED streamVars

\* The result of do_vopen () is ignored: a directory that could not be opened
\* is given to the program like the others.
Opendir(p, fs) ==
  /\ fs \in mounted
  /\ \/ \E dir \in Dirs :
          /\ DirsPool!Aquire(dir)
          /\ fFileSystem' = [fFileSystem EXCEPT ![dir] = fs]
          /\ \/ Returns(dir, "0")
             \/ "opendir" \in MayFail /\ Returns(dir, "EIO")
          /\ held' = [held EXCEPT ![p] = @ \cup {dir}]
          /\ stale' = [stale EXCEPT ![p] = @ \ {dir}]
     \/ /\ DirsPool!AquireFails
        /\ Crashes("null")
        /\ UNCHANGED <<fFileSystem, held, stale>>
  /\ UNCHANGED <<mounted, misused>>

-----------------------------------------------------------------------------
(* Calls on a stream *)

\* A null DIR is the C functions' own concern.
NoStream == /\ \/ Returns(nullptr, "ENOENT")     \* readdir (), rewinddir ()
               \/ Returns("-1", "ENOENT")        \* closedir ()
            /\ UNCHANGED streamVars

\* A program may go on using a stream it has closed.
Uses(p, dir) == /\ dir \in held[p] \cup stale[p]
                /\ misused' = (misused \/ dir \notin held[p])

Asserts(dir) == fFileSystem[dir] # nullptr

\* Without a driver's functions a directory is empty, and closes.
DoRead == Returns(nullptr, "0")

DoClose == "0"

\* readdir () and rewinddir (); what a driver's do_read () returns is not kept.
Read(p, dir) ==
  /\ Uses(p, dir)
  /\ IF Asserts(dir) THEN DoRead \/ Returns("entry", "0") ELSE Crashes("assert")
  /\ UNCHANGED <<dirsInUse, fFileSystem, mounted, held, stale>>

\* Mutations: the object is given back only after a success; its file system
\* is forgotten.
GiveBack_OnSuccess(dir, result) ==
  /\ IF result = "0" THEN DirsPool!Release(dir) ELSE UNCHANGED dirsInUse
  /\ UNCHANGED fFileSystem

GiveBack_Forgets(dir, result) == /\ DirsPool!Release(dir)
                                 /\ fFileSystem' = [fFileSystem EXCEPT ![dir] = nullptr]

\* The object is released whatever do_close () returned, to the pool of its
\* file system, which it goes on pointing to.
GiveBack(dir, result) == DirsPool!Release(dir) /\ UNCHANGED fFileSystem

Close(p, dir) ==
  /\ Uses(p, dir)
  /\ \/ /\ Asserts(dir)
        /\ \E result \in {DoClose} \cup (IF "close" \in MayFail THEN {"-1"} ELSE {}) :
             /\ Returns(result, IF result = "0" THEN "0" ELSE "EIO")
             /\ GiveBack(dir, result)
        /\ held' = [held EXCEPT ![p] = @ \ {dir}]
        /\ stale' = [stale EXCEPT ![p] = @ \cup {dir}]
     \/ /\ ~Asserts(dir)
        /\ Crashes("assert")
        /\ UNCHANGED <<dirsInUse, fFileSystem, held, stale>>
  /\ UNCHANGED mounted

-----------------------------------------------------------------------------

\* Mounts and unmounts come at any time, with streams open or not.
SetBlockDevice(fs) ==
  /\ mounted' \in {mounted \cup {fs}, mounted \ {fs}} \ {mounted}
  /\ UNCHANGED <<dirsInUse, fFileSystem, held, stale, misused, errno, ret, fault>>

Next == /\ fault = "none"
        /\ \/ \E fs \in FileSystems \cup {nullptr} : OpendirRefused(fs)
           \/ \E p \in Programs, fs \in FileSystems : Opendir(p, fs)
           \/ \E p \in Programs, dir \in Dirs : Read(p, dir) \/ Close(p, dir)
           \/ NoStream
           \/ \E fs \in FileSystems : SetBlockDevice(fs)

Spec == Init /\ [][Next]_vars

-----------------------------------------------------------------------------
(* Properties *)

\* Directory.cpp:95, 105 and 115 assert that a stream has its file system: no
\* program trips them, not even one that goes on using a stream it has closed.
AssertsHold == fault # "assert"

Held == UNION {held[p] : p \in Programs}

\* What the pool counts as in use are streams that programs have open: none is
\* lost, those included whose opening or closing failed.  While no program uses
\* a stream it has closed, the pool counts all of them and no stream is given
\* to two programs.
NothingLeaks ==
  /\ dirsInUse \subseteq Held
  /\ ~misused => /\ dirsInUse = Held
                 /\ \A p, q \in Programs : p # q => held[p] \cap held[q] = {}

\* opendir () uses the null pointer of an exhausted pool (FileSystem.cpp:353)
\* only when programs have every directory open: none used a place for good.
CrashesOnlyWhenAllAreHeld == fault = "null" => Held = Dirs
=============================================================================
