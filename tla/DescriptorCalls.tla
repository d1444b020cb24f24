-------------------------- MODULE DescriptorCalls --------------------------
(***************************************************************************)
(* The calls on open descriptors: read (), write (), ioctl (), lseek (),   *)
(* isatty (), bind () and the others, from the C function through the      *)
(* method of the object to the implementation function a driver overrides. *)
(* PosixIO models how descriptors come and go; here they change freely.    *)
(***************************************************************************)
EXTENDS Integers

CONSTANTS Devices, Files, Sockets, nullptr,
          sfSize  \* number of entries of the descriptors array

IOs == Devices \cup Files \cup Sockets

ASSUME DescriptorCallsAssumption ==
  /\ sfSize \in Nat /\ sfSize > 3
  /\ nullptr \notin IOs
  /\ Devices \cap Files = {} /\ Devices \cap Sockets = {} /\ Files \cap Sockets = {}

VARIABLES sfDescriptorsArray,
          errno,  \* "old" is a value left from before the program's last look
          last    \* the last call: its name, descriptor and result, and the
                  \* object whose implementation function it entered (or nullptr)

vars == <<sfDescriptorsArray, errno, last>>

Descriptors == 0 .. (sfSize - 1)

GetIo(fildes) == IF fildes \in Descriptors THEN sfDescriptorsArray[fildes] ELSE nullptr

\* What do_is_opened () and do_is_connected () of an object may answer.
States == {"closed", "disconnected", "ready"}

IsOpened(state) == state # "closed"

IsConnected(state) == state # "disconnected"

Init == /\ sfDescriptorsArray = [fd \in Descriptors |-> nullptr]
        /\ errno = "old"
        /\ last = [op |-> "init", fd |-> 0, ret |-> 0, entered |-> nullptr]

-----------------------------------------------------------------------------
(* How a call ends *)

Ends(op, fd, ret, e) ==
  /\ errno' = e
  /\ last' = [op |-> op, fd |-> fd, ret |-> ret, entered |-> nullptr]
  /\ UNCHANGED sfDescriptorsArray

\* Mutation: errno is not set.
Refuses_Silently(op, fd, e) == Ends(op, fd, -1, errno)

Refuses(op, fd, e) == Ends(op, fd, -1, e)

\* The implementation function returns ret and leaves errno at e.
Enters(op, fd, io, ret, e) ==
  /\ errno' = e
  /\ last' = [op |-> op, fd |-> fd, ret |-> ret, entered |-> io]
  /\ UNCHANGED sfDescriptorsArray

\* errno = 0, before do_...
Cleared == "0"

\* A driver's own function returns one of the results, or reports an error.
Overridden(op, fd, io, results) ==
  \/ \E ret \in results : Enters(op, fd, io, ret, Cleared)
  \/ Enters(op, fd, io, -1, "EIMPL")

\* The functions a driver has not overridden are those of the classes.
NotImplemented(op, fd, io) == Enters(op, fd, io, -1, "ENOSYS")

\* do_writev () reports what do_write () does; only isatty () has an answer.
IODefault(op, fd, io) ==
  \/ op \in {"read", "write", "writev", "fcntl", "fstat"} /\ NotImplemented(op, fd, io)
  \/ op = "isatty" /\ io \notin Devices /\ Enters(op, fd, io, 0, "ENOTTY")

CharDeviceDefault(op, fd, io) ==
  \/ op = "ioctl" /\ NotImplemented(op, fd, io)
  \/ op = "isatty" /\ io \in Devices /\ Enters(op, fd, io, 1, Cleared)

FileDefault(op, fd, io) ==
  op \in {"lseek", "ftruncate", "fsync"} /\ NotImplemented(op, fd, io)

SocketDefault(op, fd, io) == op = "socket_call" /\ NotImplemented(op, fd, io)

\* errno = 0; return do_...
Runs(op, fd, io, results) ==
  \/ Overridden(op, fd, io, results)
  \/ IODefault(op, fd, io) \/ CharDeviceDefault(op, fd, io)
  \/ FileDefault(op, fd, io) \/ SocketDefault(op, fd, io)

\* The same after the object was asked whether it is opened and connected.
RunsIfReady(op, fd, io, state, results) ==
  \/ ~IsOpened(state) /\ Refuses(op, fd, "EBADF")
  \/ IsOpened(state) /\ ~IsConnected(state) /\ Refuses(op, fd, "EIO")
  \/ IsOpened(state) /\ IsConnected(state) /\ Runs(op, fd, io, results)

-----------------------------------------------------------------------------
(* Calls on any descriptor *)

\* Without an object, descriptor 0 is an empty input.
Read(fd, buf, state) ==
  LET io == GetIo(fd) IN
  \/ io = nullptr /\ fd = 0 /\ Ends("read", fd, 0, errno)
  \/ io = nullptr /\ fd # 0 /\ Refuses("read", fd, "EBADF")
  \/ io # nullptr /\ buf = nullptr /\ Refuses("read", fd, "EFAULT")
  \/ io # nullptr /\ buf # nullptr /\ RunsIfReady("read", fd, io, state, {0, 1})

\* Without an object, descriptors 1 and 2 are the trace output, whose function
\* is given the buffer unchecked.  nbyte is 0 or more, for which 1 stands.
Write(fd, buf, nbyte, state) ==
  LET io == GetIo(fd) IN
  \/ io = nullptr /\ fd \in {1, 2} /\ Ends("write", fd, nbyte, errno)
  \/ io = nullptr /\ fd \notin {1, 2} /\ Refuses("write", fd, "EBADF")
  \/ io # nullptr /\ buf = nullptr /\ Refuses("write", fd, "EFAULT")
  \/ /\ io # nullptr /\ buf # nullptr
     /\ \/ nbyte > 0 /\ RunsIfReady("write", fd, io, state, 0 .. nbyte)
        \/ nbyte = 0 /\ ~IsOpened(state) /\ Refuses("write", fd, "EBADF")
        \/ nbyte = 0 /\ IsOpened(state) /\ ~IsConnected(state) /\ Refuses("write", fd, "EIO")
        \/ nbyte = 0 /\ IsOpened(state) /\ IsConnected(state) /\ Ends("write", fd, 0, "0")

\* do_writev () is one function here; Writev models the loop inside it.
Writev(fd, iov, iovcnt, state) ==
  LET io == GetIo(fd) IN
  \/ io = nullptr /\ Refuses("writev", fd, "EBADF")
  \/ io # nullptr /\ iov = nullptr /\ Refuses("writev", fd, "EFAULT")
  \/ io # nullptr /\ iov # nullptr /\ iovcnt <= 0 /\ Refuses("writev", fd, "EINVAL")
  \/ /\ io # nullptr /\ iov # nullptr /\ iovcnt > 0
     /\ RunsIfReady("writev", fd, io, state, 0 .. iovcnt)

Fcntl(fd, state) ==
  LET io == GetIo(fd) IN
  \/ io = nullptr /\ Refuses("fcntl", fd, "EBADF")
  \/ io # nullptr /\ RunsIfReady("fcntl", fd, io, state, {0})

Fstat(fd, buf, state) ==
  LET io == GetIo(fd) IN
  \/ io = nullptr /\ Refuses("fstat", fd, "EBADF")
  \/ io # nullptr /\ buf = nullptr /\ Refuses("fstat", fd, "EFAULT")
  \/ io # nullptr /\ buf # nullptr /\ RunsIfReady("fstat", fd, io, state, {0})

\* The object is not asked whether it is opened.
Isatty(fd) ==
  LET io == GetIo(fd) IN
  \/ io = nullptr /\ fd <= 2 /\ Ends("isatty", fd, 1, errno)
  \/ io = nullptr /\ fd > 2 /\ Refuses("isatty", fd, "EBADF")
  \/ io # nullptr /\ Runs("isatty", fd, io, {0, 1})

-----------------------------------------------------------------------------
(* Calls on descriptors of one type.  The object is not asked whether it is *)
(* opened or connected.                                                     *)

Ioctl(fd, state) ==
  LET io == GetIo(fd) IN
  \/ io = nullptr /\ Refuses("ioctl", fd, "EBADF")
  \/ io \in IOs \ Devices /\ Refuses("ioctl", fd, "ENOTTY")
  \/ io \in Devices /\ Runs("ioctl", fd, io, {0})

\* Mutation: getType () is not looked at.
OfType_Any(io, type) == io # nullptr

OfType(io, type) == io \in type

Lseek(fd, state) ==
  LET io == GetIo(fd) IN
  \/ io = nullptr /\ Refuses("lseek", fd, "EBADF")
  \/ io # nullptr /\ ~OfType(io, Files) /\ Refuses("lseek", fd, "ESPIPE")
  \/ OfType(io, Files) /\ Runs("lseek", fd, io, {0, 1})

Ftruncate(fd, length, state) ==
  LET io == GetIo(fd) IN
  \/ io = nullptr /\ Refuses("ftruncate", fd, "EBADF")
  \/ io # nullptr /\ ~OfType(io, Files) /\ Refuses("ftruncate", fd, "EINVAL")
  \/ OfType(io, Files) /\ length < 0 /\ Refuses("ftruncate", fd, "EINVAL")
  \/ OfType(io, Files) /\ length >= 0 /\ Runs("ftruncate", fd, io, {0})

Fsync(fd, state) ==
  LET io == GetIo(fd) IN
  \/ io = nullptr /\ Refuses("fsync", fd, "EBADF")
  \/ io # nullptr /\ ~OfType(io, Files) /\ Refuses("fsync", fd, "EINVAL")
  \/ OfType(io, Files) /\ Runs("fsync", fd, io, {0})

\* bind (), connect (), listen (), send (), recv () and the others.  A
\* descriptor without an object is PosixIO's SocketCallBadDescriptor.
SocketCall(fd, state) ==
  LET io == GetIo(fd) IN
  \/ io # nullptr /\ ~OfType(io, Sockets) /\ Refuses("socket_call", fd, "EBADF")
  \/ OfType(io, Sockets) /\ Runs("socket_call", fd, io, {0, 1})

\* getpid (), select (), chdir (), link () and the others there only to be
\* linked with; those that return a pointer return a null one.
Unavailable == Refuses("unavailable", 0, "ENOSYS")

-----------------------------------------------------------------------------

Others(op) == last' = [last EXCEPT !.op = op, !.ret = 0, !.entered = nullptr]

\* open (), close (), assign (): an object has one descriptor at most.
Rebind(fd, io) ==
  /\ io # nullptr => \A other \in Descriptors : sfDescriptorsArray[other] # io
  /\ sfDescriptorsArray' = [sfDescriptorsArray EXCEPT ![fd] = io]
  /\ Others("rebind")
  /\ UNCHANGED errno

\* The program goes on; whatever errno holds is from then on an old value.
Look == /\ errno' = "old"
        /\ Others("look")
        /\ UNCHANGED sfDescriptorsArray

Next ==
  \/ \E fd \in Descriptors, io \in IOs \cup {nullptr} : Rebind(fd, io)
  \/ Look
  \/ Unavailable
  \/ \E fd \in -1 .. sfSize :
       \/ Isatty(fd)
       \/ \E state \in States :
            \/ Fcntl(fd, state) \/ Ioctl(fd, state) \/ Lseek(fd, state)
            \/ Fsync(fd, state) \/ SocketCall(fd, state)
            \/ \E length \in {-1, 0} : Ftruncate(fd, length, state)
            \/ \E buf \in {nullptr, "buf"} :
                 \/ Read(fd, buf, state) \/ Fstat(fd, buf, state)
                 \/ \E nbyte \in {0, 1} : Write(fd, buf, nbyte, state)
                 \/ \E iovcnt \in {0, 1} : Writev(fd, buf, iovcnt, state)

Spec == Init /\ [][Next]_vars

-----------------------------------------------------------------------------
(* Properties *)

\* The value of errno after a call is about that call: a failure has set it,
\* whatever it held before; a failure of an implementation function to ENOSYS
\* or to the driver's own reason, never to one for which a method refuses a
\* descriptor before that function; and after a success of an implementation
\* function it is clear, only isatty () may give its reason for answering 0.
\* Programs that test errno after a call, as the tests of the repository do,
\* rely on it.
ErrnoIsOfThisCall ==
  /\ last.ret = -1 => errno \notin {"0", "old"}
  /\ last.ret = -1 /\ last.entered # nullptr => errno \in {"ENOSYS", "EIMPL"}
  /\ last.entered # nullptr /\ last.ret >= 0
       => errno = "0" \/ (last.op = "isatty" /\ last.ret = 0)

\* The static_cast of a call leads to an object of that class.
CastsAreRight ==
  /\ last.op \in {"lseek", "ftruncate", "fsync"} => last.entered \in Files \cup {nullptr}
  /\ last.op = "ioctl" => last.entered \in Devices \cup {nullptr}
  /\ last.op = "socket_call" => last.entered \in Sockets \cup {nullptr}
=============================================================================
