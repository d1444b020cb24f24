------------------------ MODULE OpenCloseTasksProofs ------------------------
(***************************************************************************)
(* open () and close () without a lock, for any number of tasks, objects   *)
(* and entries, with one task in open (): only it fills entries, so one    *)
(* that it has seen free stays free until it fills it.                     *)
(***************************************************************************)
EXTENDS OpenCloseTasks, Least, TLAPS

\* Two tasks in alloc () at once could fill the same entry.
OneOpener == \A t, u \in Openers : t = u

\* The tasks whose call still has its object: one that is at the last step of
\* do_release () has given its file back already.
Working(t) == pc[t] \notin {"idle", "detach"}

CallsHaveObjects ==
  \A t \in Tasks :
    /\ pc[t] = "idle" <=> io[t] = nullptr
    /\ pc[t] \in {"attach", "release", "detach"} => io[t] \in Files
    /\ pc[t] \in OpenSteps => t \in Openers

\* An object is in one call, or behind one descriptor of one task, or free.
OneOwner ==
  /\ \A t, u \in Tasks : Working(t) /\ Working(u) /\ io[t] = io[u] => t = u
  /\ \A t, u \in Tasks : Working(t) => \A pair \in theirs[u] : pair[2] # io[t]
  /\ \A t, u \in Tasks : t # u => \A p \in theirs[t], q \in theirs[u] : p[2] # q[2]

OwnedFilesInUse ==
  \A t \in Tasks :
    /\ Working(t) /\ io[t] \in Files => io[t] \in filesInUse
    /\ \A pair \in theirs[t] : pair[2] \in Files => pair[2] \in filesInUse

\* The call of task t is about an object that sits in entry d.
HasEntry(t, d) ==
  \/ pc[t] \in {"alloc_back", "open_return", "free_back", "free_entry"} /\ fd[t] = d
  \/ pc[t] = "free" /\ fFileDescriptor[io[t]] = d

EntriesAreOwned ==
  \A d \in Descriptors : sfDescriptorsArray[d] # nullptr =>
     \E t \in Tasks : \/ <<d, sfDescriptorsArray[d]>> \in theirs[t]
                      \/ io[t] = sfDescriptorsArray[d] /\ HasEntry(t, d)

\* What a task knows at each step of its call.
Knows(t) ==
  /\ pc[t] \in {"alloc_back", "open_return", "free_back"} => fd[t] \in Descriptors
  /\ pc[t] = "free" => fFileDescriptor[io[t]] \in Descriptors
  /\ \A d \in Descriptors : HasEntry(t, d) => sfDescriptorsArray[d] = io[t]
  /\ pc[t] = "open_return" => fFileDescriptor[io[t]] = fd[t]
  /\ pc[t] = "alloc_set" => sfDescriptorsArray[fd[t]] = nullptr
  /\ pc[t] \in {"alloc_test", "alloc_set"} => fd[t] \in FirstAllocated .. lowest[t]
  /\ pc[t] = "alloc_test" /\ lowest[t] < sfSize => sfDescriptorsArray[lowest[t]] = nullptr

CallInv == \A t \in Tasks : Knows(t)

IInv == /\ TypeOK
        /\ CallsHaveObjects
        /\ OneOwner
        /\ OwnedFilesInUse
        /\ EntriesAreOwned
        /\ CallInv
        /\ DescriptorsLead
        /\ NoFault

-----------------------------------------------------------------------------

\* What the assumption says of pointers and indices.
LEMMA Facts ==
  /\ nullptr \notin IOs /\ FileSystem # nullptr
  /\ Files \subseteq IOs
  /\ sfSize \in Nat /\ sfSize > 3 /\ 0 \in Descriptors
  /\ \A d \in Descriptors : d \in Int /\ 0 <= d /\ d < sfSize /\ d # noFileDescriptor
  BY OpenCloseTasksAssumption DEF IOs, Descriptors, noFileDescriptor

\* Nothing is open at the start.
LEMMA InitIInv == Init => IInv
<1> SUFFICES ASSUME Init PROVE IInv
  OBVIOUS
<1> USE Facts DEF Init
<1>1. TypeOK
  BY DEF TypeOK, FilesPool!Init, Descriptors, FirstAllocated, OpenSteps, CloseSteps,
         noFileDescriptor
<1>2. CallsHaveObjects /\ OneOwner /\ OwnedFilesInUse /\ EntriesAreOwned /\ CallInv
  BY DEF CallsHaveObjects, OneOwner, OwnedFilesInUse, EntriesAreOwned, CallInv, Knows,
         HasEntry, Working, OpenSteps
<1>3. DescriptorsLead /\ NoFault
  BY DEF DescriptorsLead, NoFault
<1> QED BY <1>1, <1>2, <1>3 DEF IInv

-----------------------------------------------------------------------------
(* open () *)

\* Attaching a file to its file system concerns only the file.
LEMMA AttachIInv ==
  ASSUME IInv, NEW t \in Tasks, Attach(t) PROVE IInv'
<1> USE Facts DEF IInv, Attach, At, Goto, links
<1>1. TypeOK'
  BY DEF TypeOK, CallsHaveObjects, OpenSteps, CloseSteps
<1>2. CallsHaveObjects'
  BY DEF CallsHaveObjects, TypeOK, OpenSteps
<1>3. OneOwner'
  BY DEF OneOwner, TypeOK, Working
<1>4. OwnedFilesInUse'
  BY DEF OwnedFilesInUse, TypeOK, Working
<1>5. EntriesAreOwned'
  BY DEF EntriesAreOwned, HasEntry, TypeOK
<1>6. CallInv'
  BY DEF CallInv, Knows, HasEntry, TypeOK
<1>7. DescriptorsLead' /\ NoFault'
  BY DEF DescriptorsLead, NoFault
<1> QED BY <1>1, <1>2, <1>3, <1>4, <1>5, <1>6, <1>7

\* There is a first free entry, or none.
LEMMA FirstFreeExists ==
  LET first == CHOOSE i \in FirstAllocated .. sfSize : IsFirstFree(i)
  IN  first \in FirstAllocated .. sfSize /\ IsFirstFree(first)
<1> USE Facts DEF FirstAllocated
<1> DEFINE T == {i \in FirstAllocated .. sfSize : i < sfSize => sfDescriptorsArray[i] = nullptr}
<1>1. PICK i \in T : \A j \in T : i <= j
  <2>1. sfSize \in T /\ T \in SUBSET (0 .. sfSize)
    OBVIOUS
  <2> HIDE DEF T
  <2> QED BY <2>1, LeastExists
<1>2. IsFirstFree(i)
  BY <1>1 DEF IsFirstFree
<1> QED BY <1>2

\* alloc () begins; the scan has a first free entry, or none, to pass.
LEMMA AllocIInv ==
  ASSUME IInv, NEW t \in Tasks, Alloc(t) PROVE IInv'
<1> USE Facts DEF IInv, Alloc, At, Goto, links, pool, ScanFrom, FirstAllocated
<1> DEFINE first == CHOOSE i \in FirstAllocated .. sfSize : IsFirstFree(i)
<1>0. first \in FirstAllocated .. sfSize /\ IsFirstFree(first)
  BY FirstFreeExists
<1> HIDE DEF first
<1>1. TypeOK'
  BY <1>0 DEF TypeOK, CallsHaveObjects, OpenSteps, CloseSteps
<1>2. CallsHaveObjects'
  BY DEF CallsHaveObjects, TypeOK, OpenSteps
<1>3. OneOwner'
  BY DEF OneOwner, TypeOK, Working
<1>4. OwnedFilesInUse'
  BY DEF OwnedFilesInUse, TypeOK, Working
<1>5. EntriesAreOwned'
  BY DEF EntriesAreOwned, HasEntry, TypeOK
<1>6. CallInv'
  BY <1>0 DEF CallInv, Knows, HasEntry, TypeOK, IsFirstFree, first
<1>7. DescriptorsLead' /\ NoFault'
  BY DEF DescriptorsLead, NoFault
<1> QED BY <1>1, <1>2, <1>3, <1>4, <1>5, <1>6, <1>7

\* Only one task fills entries, and only it looks for them.
LEMMA AllocTestIInv ==
  ASSUME IInv, NEW t \in Tasks, AllocTest(t) PROVE IInv'
<1> USE Facts DEF IInv, AllocTest, IsFree, Advance, At, Goto, links, pool, FirstAllocated
<1>0. /\ fd[t] \in Int /\ 0 <= fd[t] /\ fd[t] <= sfSize
      /\ fd[t] < sfSize => fd[t] + 1 \in -1 .. sfSize /\ fd[t] \in Descriptors
  BY DEF TypeOK, CallInv, Knows, Descriptors
<1>1. TypeOK'
  <2>1. fd' \in [Tasks -> -1 .. sfSize] /\ pc' \in [Tasks -> {"idle"} \cup OpenSteps \cup CloseSteps]
    BY <1>0 DEF TypeOK, OpenSteps
  <2>2. ASSUME NEW u \in Tasks, pc'[u] \in {"alloc_set", "free_entry"}
        PROVE  fd'[u] \in Descriptors
    <3>1. CASE u = t
      BY <1>0, <2>2, <3>1 DEF TypeOK
    <3>2. CASE u # t
      BY <2>2, <3>2 DEF TypeOK
    <3> QED BY <3>1, <3>2
  <2> QED BY <2>1, <2>2 DEF TypeOK
<1>2. CallsHaveObjects'
  BY DEF CallsHaveObjects, TypeOK, OpenSteps
<1>3. OneOwner'
  BY DEF OneOwner, TypeOK, Working
<1>4. OwnedFilesInUse'
  BY DEF OwnedFilesInUse, TypeOK, Working
<1>5. EntriesAreOwned'
  BY DEF EntriesAreOwned, HasEntry, TypeOK
<1>6. CallInv'
  BY DEF CallInv, Knows, HasEntry, TypeOK
<1>7. DescriptorsLead' /\ NoFault'
  BY DEF DescriptorsLead, NoFault
<1> QED BY <1>1, <1>2, <1>3, <1>4, <1>5, <1>6, <1>7

\* The entry is still free: no other task is in alloc ().
LEMMA AllocSetIInv ==
  ASSUME OneOpener, IInv, NEW t \in Tasks, AllocSet(t) PROVE IInv'
<1> USE Facts DEF IInv, AllocSet, At, Goto, links, pool, FirstAllocated
<1>0. /\ fd[t] \in Descriptors /\ sfDescriptorsArray[fd[t]] = nullptr
      /\ io[t] \in IOs
      /\ \A u \in Tasks : pc[u] \in OpenSteps => u = t
  BY DEF TypeOK, CallInv, Knows, CallsHaveObjects, OneOpener, OpenSteps
<1>1. TypeOK'
  BY <1>0 DEF TypeOK, OpenSteps
<1>2. CallsHaveObjects'
  BY DEF CallsHaveObjects, TypeOK, OpenSteps
<1>3. OneOwner'
  BY DEF OneOwner, TypeOK, Working
<1>4. OwnedFilesInUse'
  BY DEF OwnedFilesInUse, TypeOK, Working
<1>5. EntriesAreOwned'
  BY <1>0 DEF EntriesAreOwned, HasEntry, TypeOK
<1>6. CallInv'
  <2> SUFFICES ASSUME NEW u \in Tasks PROVE Knows(u)'
    BY DEF CallInv
  <2>1. CASE u = t
    BY <1>0, <2>1 DEF HasEntry, Knows, TypeOK
  <2>2. CASE u # t
    <3>1. pc'[u] = pc[u] /\ pc[u] \notin OpenSteps
      BY <1>0, <2>2 DEF TypeOK
    <3>2. \A d \in Descriptors : HasEntry(u, d) => d # fd[t]
      BY <1>0, <2>2 DEF CallInv, Knows, CallsHaveObjects, HasEntry
    <3> QED BY <1>0, <2>2, <3>1, <3>2 DEF CallInv, Knows, HasEntry, TypeOK, OpenSteps
  <2> QED BY <2>1, <2>2
<1>7. DescriptorsLead' /\ NoFault'
  BY <1>0 DEF DescriptorsLead, NoFault, TypeOK
<1> QED BY <1>1, <1>2, <1>3, <1>4, <1>5, <1>6, <1>7

\* The object is in the entry its back pointer is set to.
LEMMA AllocBackIInv ==
  ASSUME IInv, NEW t \in Tasks, AllocBack(t) PROVE IInv'
<1> USE Facts DEF IInv, AllocBack, At, Goto, links, pool, FirstAllocated
<1>0. /\ fd[t] \in Descriptors /\ sfDescriptorsArray[fd[t]] = io[t]
      /\ io[t] \in IOs
  BY DEF TypeOK, CallInv, Knows, CallsHaveObjects, HasEntry
<1>1. TypeOK'
  BY <1>0 DEF TypeOK, OpenSteps
<1>2. CallsHaveObjects'
  BY DEF CallsHaveObjects, TypeOK, OpenSteps
<1>3. OneOwner'
  BY DEF OneOwner, TypeOK, Working
<1>4. OwnedFilesInUse'
  BY DEF OwnedFilesInUse, TypeOK, Working
<1>5. EntriesAreOwned'
  BY <1>0 DEF EntriesAreOwned, HasEntry, TypeOK, OneOwner, Working
<1>6. CallInv'
  BY <1>0 DEF CallInv, Knows, HasEntry, TypeOK, OneOwner, Working
<1>7. DescriptorsLead' /\ NoFault'
  BY <1>0 DEF DescriptorsLead, NoFault, TypeOK, OneOwner, Working
<1> QED BY <1>1, <1>2, <1>3, <1>4, <1>5, <1>6, <1>7

\* Entry and back pointer agree when open () returns.
LEMMA OpenReturnIInv ==
  ASSUME IInv, NEW t \in Tasks, OpenReturn(t) PROVE IInv'
<1> USE Facts DEF IInv, OpenReturn, At, Returns, links, pool, FirstAllocated
<1>0. /\ fd[t] \in Descriptors /\ sfDescriptorsArray[fd[t]] = io[t]
      /\ fFileDescriptor[io[t]] = fd[t]
      /\ io[t] \in IOs
  BY DEF TypeOK, CallInv, Knows, CallsHaveObjects, HasEntry
<1>8. theirs' = [theirs EXCEPT ![t] = @ \cup {<<fd[t], io[t]>>}]
  BY <1>0
<1>9. \A u \in Tasks : theirs'[u] = IF u = t THEN theirs[t] \cup {<<fd[t], io[t]>>} ELSE theirs[u]
  BY <1>8 DEF TypeOK
<1>1. TypeOK'
  <2>1. theirs' \in [Tasks -> SUBSET (Descriptors \X IOs)]
    BY <1>0, <1>8 DEF TypeOK
  <2> QED BY <1>0, <2>1 DEF TypeOK, noFileDescriptor
<1>2. CallsHaveObjects'
  BY DEF CallsHaveObjects, TypeOK, OpenSteps
<1>3. OneOwner'
  BY <1>0, <1>9 DEF OneOwner, TypeOK, Working
<1>4. OwnedFilesInUse'
  BY <1>0, <1>9 DEF OwnedFilesInUse, TypeOK, Working
<1>5. EntriesAreOwned'
  BY <1>0, <1>9 DEF EntriesAreOwned, HasEntry, TypeOK
<1>6. CallInv'
  BY <1>0, <1>9 DEF CallInv, Knows, HasEntry, TypeOK
<1>7. DescriptorsLead' /\ NoFault'
  BY <1>0, <1>9 DEF DescriptorsLead, NoFault, TypeOK
<1> QED BY <1>1, <1>2, <1>3, <1>4, <1>5, <1>6, <1>7

\* A failed open () leaves no entry behind.
LEMMA UndoIInv ==
  ASSUME IInv, NEW t \in Tasks, Undo(t) PROVE IInv'
<1> USE Facts DEF IInv, Undo, At, Returns, links, pool, FirstAllocated
<1>0. io[t] \in IOs
  BY DEF TypeOK, CallsHaveObjects
<1>1. TypeOK'
  BY <1>0 DEF TypeOK, noFileDescriptor
<1>2. CallsHaveObjects'
  BY DEF CallsHaveObjects, TypeOK, OpenSteps
<1>3. OneOwner'
  BY DEF OneOwner, TypeOK, Working
<1>4. OwnedFilesInUse'
  BY DEF OwnedFilesInUse, TypeOK, Working
<1>5. EntriesAreOwned'
  BY <1>0 DEF EntriesAreOwned, HasEntry, TypeOK, OneOwner, Working
<1>6. CallInv'
  BY <1>0 DEF CallInv, Knows, HasEntry, TypeOK, OneOwner, Working
<1>7. DescriptorsLead' /\ NoFault'
  BY <1>0 DEF DescriptorsLead, NoFault, TypeOK, OneOwner, Working
<1> QED BY <1>1, <1>2, <1>3, <1>4, <1>5, <1>6, <1>7

-----------------------------------------------------------------------------
(* close () *)

\* The object of a close () still has the entry that free () is given.
LEMMA FreeIInv ==
  ASSUME IInv, NEW t \in Tasks, Free(t) PROVE IInv'
<1> USE Facts DEF IInv, Free, At, Goto, links, pool, FirstAllocated
<1>0. /\ fFileDescriptor[io[t]] \in Descriptors
      /\ sfDescriptorsArray[fFileDescriptor[io[t]]] = io[t]
      /\ io[t] \in IOs
  BY DEF TypeOK, CallInv, Knows, CallsHaveObjects, HasEntry
<1>1. TypeOK'
  BY <1>0 DEF TypeOK, CloseSteps, Descriptors
<1>2. CallsHaveObjects'
  BY DEF CallsHaveObjects, TypeOK, OpenSteps
<1>3. OneOwner'
  BY DEF OneOwner, TypeOK, Working
<1>4. OwnedFilesInUse'
  BY DEF OwnedFilesInUse, TypeOK, Working
<1>5. EntriesAreOwned'
  BY <1>0 DEF EntriesAreOwned, HasEntry, TypeOK
<1>6. CallInv'
  BY <1>0 DEF CallInv, Knows, HasEntry, TypeOK
<1>7. DescriptorsLead' /\ NoFault'
  BY DEF DescriptorsLead, NoFault
<1> QED BY <1>1, <1>2, <1>3, <1>4, <1>5, <1>6, <1>7

\* The entry leads to the object of the call: nullptr is not dereferenced.
LEMMA FreeBackIInv ==
  ASSUME IInv, NEW t \in Tasks, FreeBack(t) PROVE IInv'
<1> USE Facts DEF IInv, FreeBack, At, Goto, links, pool, FirstAllocated
<1>0. /\ fd[t] \in Descriptors /\ sfDescriptorsArray[fd[t]] = io[t]
      /\ \A u \in Tasks : pc[u] # "idle" => io[u] \in IOs
  BY DEF TypeOK, CallInv, Knows, CallsHaveObjects, HasEntry
<1>1. TypeOK'
  BY <1>0 DEF TypeOK, CloseSteps, noFileDescriptor
<1>2. CallsHaveObjects'
  BY <1>0 DEF CallsHaveObjects, TypeOK, OpenSteps
<1>3. OneOwner'
  BY <1>0 DEF OneOwner, TypeOK, Working
<1>4. OwnedFilesInUse'
  BY <1>0 DEF OwnedFilesInUse, TypeOK, Working
<1>5. EntriesAreOwned'
  BY <1>0 DEF EntriesAreOwned, HasEntry, TypeOK, OneOwner, Working
<1>6. CallInv'
  <2> SUFFICES ASSUME NEW u \in Tasks PROVE Knows(u)'
    BY DEF CallInv
  <2>1. CASE u = t
    BY <1>0, <2>1 DEF CallInv, Knows, HasEntry, TypeOK
  <2>2. CASE u # t
    <3>1. pc'[u] = pc[u] /\ io'[u] = io[u] /\ fd'[u] = fd[u]
      BY <1>0, <2>2 DEF TypeOK
    <3>2. pc[u] = "free" \/ pc[u] = "open_return" => fFileDescriptor'[io[u]] = fFileDescriptor[io[u]]
      BY <1>0, <2>2 DEF TypeOK, OneOwner, Working
    <3> QED BY <1>0, <3>1, <3>2 DEF CallInv, Knows, HasEntry, TypeOK
  <2> QED BY <2>1, <2>2
<1>7. DescriptorsLead' /\ NoFault'
  BY <1>0 DEF DescriptorsLead, NoFault, TypeOK, OneOwner, Working
<1> QED BY <1>1, <1>2, <1>3, <1>4, <1>5, <1>6, <1>7

\* The entry that is cleared is the object's own.
LEMMA FreeEntryIInv ==
  ASSUME IInv, NEW t \in Tasks, FreeEntry(t) PROVE IInv'
<1> USE Facts DEF IInv, FreeEntry, ClearEntry, At, Goto, links, pool, FirstAllocated
<1>0. /\ fd[t] \in Descriptors /\ sfDescriptorsArray[fd[t]] = io[t]
      /\ io[t] \in IOs
  BY DEF TypeOK, CallInv, Knows, CallsHaveObjects, HasEntry
<1>1. TypeOK'
  BY <1>0 DEF TypeOK, CloseSteps
<1>2. CallsHaveObjects'
  BY DEF CallsHaveObjects, TypeOK, OpenSteps
<1>3. OneOwner'
  BY DEF OneOwner, TypeOK, Working
<1>4. OwnedFilesInUse'
  BY DEF OwnedFilesInUse, TypeOK, Working
<1>5. EntriesAreOwned'
  BY <1>0 DEF EntriesAreOwned, HasEntry, TypeOK, OneOwner, Working
<1>6. CallInv'
  BY <1>0 DEF CallInv, Knows, HasEntry, TypeOK, OneOwner, Working
<1>7. DescriptorsLead' /\ NoFault'
  BY <1>0 DEF DescriptorsLead, NoFault, TypeOK, OneOwner, Working
<1> QED BY <1>1, <1>2, <1>3, <1>4, <1>5, <1>6, <1>7

\* The second clearing finds the object still with this call.
LEMMA CloseBackIInv ==
  ASSUME IInv, NEW t \in Tasks, CloseBack(t) PROVE IInv'
<1> USE Facts DEF IInv, CloseBack, At, Goto, Returns, links, pool, FirstAllocated
<1>0. io[t] \in IOs
  BY DEF TypeOK, CallsHaveObjects
<1>1. TypeOK'
  BY <1>0 DEF TypeOK, CloseSteps, noFileDescriptor
<1>2. CallsHaveObjects'
  BY <1>0 DEF CallsHaveObjects, TypeOK, OpenSteps
<1>3. OneOwner'
  BY <1>0 DEF OneOwner, TypeOK, Working
<1>4. OwnedFilesInUse'
  BY <1>0 DEF OwnedFilesInUse, TypeOK, Working
<1>5. EntriesAreOwned'
  BY <1>0 DEF EntriesAreOwned, HasEntry, TypeOK, OneOwner, Working
<1>6. CallInv'
  BY <1>0 DEF CallInv, Knows, HasEntry, TypeOK, OneOwner, Working
<1>7. DescriptorsLead' /\ NoFault'
  BY <1>0 DEF DescriptorsLead, NoFault, TypeOK, OneOwner, Working
<1> QED BY <1>1, <1>2, <1>3, <1>4, <1>5, <1>6, <1>7

\* The file returns to the pool when no entry leads to it.
LEMMA ReleaseIInv ==
  ASSUME IInv, NEW t \in Tasks, Release(t) PROVE IInv'
<1> USE Facts DEF IInv, Release, At, Goto, Returns, links, pool, FirstAllocated
<1>0. io[t] \in Files
  BY DEF CallsHaveObjects
<1>1. TypeOK'
  BY <1>0 DEF TypeOK, CloseSteps, noFileDescriptor, FilesPool!Release
<1>2. CallsHaveObjects'
  BY <1>0 DEF CallsHaveObjects, TypeOK, OpenSteps
<1>3. OneOwner'
  BY <1>0 DEF OneOwner, TypeOK, Working
<1>4. OwnedFilesInUse'
  BY <1>0 DEF OwnedFilesInUse, TypeOK, Working, OneOwner, FilesPool!Release
<1>5. EntriesAreOwned'
  BY <1>0 DEF EntriesAreOwned, HasEntry, TypeOK, OneOwner, Working
<1>6. CallInv'
  BY <1>0 DEF CallInv, Knows, HasEntry, TypeOK, OneOwner, Working
<1>7. DescriptorsLead' /\ NoFault'
  BY <1>0 DEF DescriptorsLead, NoFault, TypeOK, OneOwner, Working
<1> QED BY <1>1, <1>2, <1>3, <1>4, <1>5, <1>6, <1>7

\* The last step of do_release () concerns no entry.
LEMMA DetachIInv ==
  ASSUME IInv, NEW t \in Tasks, Detach(t) PROVE IInv'
<1> USE Facts DEF IInv, Detach, At, Goto, Returns, links, pool, FirstAllocated
<1>0. io[t] \in Files
  BY DEF CallsHaveObjects
<1>1. TypeOK'
  BY <1>0 DEF TypeOK, CloseSteps, noFileDescriptor
<1>2. CallsHaveObjects'
  BY <1>0 DEF CallsHaveObjects, TypeOK, OpenSteps
<1>3. OneOwner'
  BY <1>0 DEF OneOwner, TypeOK, Working
<1>4. OwnedFilesInUse'
  BY <1>0 DEF OwnedFilesInUse, TypeOK, Working
<1>5. EntriesAreOwned'
  BY <1>0 DEF EntriesAreOwned, HasEntry, TypeOK, OneOwner, Working
<1>6. CallInv'
  BY <1>0 DEF CallInv, Knows, HasEntry, TypeOK, OneOwner, Working
<1>7. DescriptorsLead' /\ NoFault'
  BY <1>0 DEF DescriptorsLead, NoFault, TypeOK, OneOwner, Working
<1> QED BY <1>1, <1>2, <1>3, <1>4, <1>5, <1>6, <1>7

-----------------------------------------------------------------------------
(* Calls that begin, and all steps *)

\* A file given out by the pool is in no other call and behind no descriptor.
LEMMA CallOpenFileIInv ==
  ASSUME IInv, NEW t \in Tasks, CallOpenFile(t) PROVE IInv'
<1> USE Facts DEF IInv, CallOpenFile, Begins, At, links, pool, FirstAllocated
<1>0. PICK file \in Files : FilesPool!Aquire(file) /\ Begins(t, file, "attach")
  OBVIOUS
<1>9. /\ file \notin filesInUse /\ filesInUse' = filesInUse \cup {file}
  BY <1>0 DEF FilesPool!Aquire, FilesPool!FirstFree
<1>1. TypeOK'
  BY <1>0, <1>9 DEF TypeOK, OpenSteps
<1>2. CallsHaveObjects'
  BY <1>0 DEF CallsHaveObjects, TypeOK, OpenSteps
<1>3. OneOwner'
  BY <1>0, <1>9 DEF OneOwner, TypeOK, Working, OwnedFilesInUse
<1>4. OwnedFilesInUse'
  BY <1>0, <1>9 DEF OwnedFilesInUse, TypeOK, Working
<1>5. EntriesAreOwned'
  BY <1>0 DEF EntriesAreOwned, HasEntry, TypeOK, CallsHaveObjects
<1>6. CallInv'
  BY <1>0 DEF CallInv, Knows, HasEntry, TypeOK
<1>7. DescriptorsLead' /\ NoFault'
  BY <1>0 DEF DescriptorsLead, NoFault
<1> QED BY <1>1, <1>2, <1>3, <1>4, <1>5, <1>6, <1>7

\* Nor is a device, as the application waits for its close ().
LEMMA CallOpenDeviceIInv ==
  ASSUME IInv, NEW t \in Tasks, NEW dev \in Devices, CallOpenDevice(t, dev) PROVE IInv'
<1> USE Facts DEF IInv, CallOpenDevice, Begins, At, links, pool, FirstAllocated
<1>0. dev \in IOs /\ dev \notin Files
  BY OpenCloseTasksAssumption DEF IOs
<1>1. TypeOK'
  BY <1>0 DEF TypeOK, OpenSteps
<1>2. CallsHaveObjects'
  BY <1>0 DEF CallsHaveObjects, TypeOK, OpenSteps
<1>3. OneOwner'
  BY <1>0 DEF OneOwner, TypeOK, Working
<1>4. OwnedFilesInUse'
  BY <1>0 DEF OwnedFilesInUse, TypeOK, Working
<1>5. EntriesAreOwned'
  BY <1>0 DEF EntriesAreOwned, HasEntry, TypeOK, CallsHaveObjects
<1>6. CallInv'
  BY <1>0 DEF CallInv, Knows, HasEntry, TypeOK
<1>7. DescriptorsLead' /\ NoFault'
  BY <1>0 DEF DescriptorsLead, NoFault
<1> QED BY <1>1, <1>2, <1>3, <1>4, <1>5, <1>6, <1>7

\* The descriptor passes from the task that had it to the call.
LEMMA CallCloseIInv ==
  ASSUME IInv, NEW t \in Tasks, NEW u \in Tasks, NEW pair \in theirs[u], CallClose(t, u, pair)
  PROVE  IInv'
<1> USE Facts DEF IInv, CallClose, GetIo, Begins, At, links, pool, FirstAllocated
<1>0. /\ pair \in Descriptors \X IOs
      /\ sfDescriptorsArray[pair[1]] = pair[2] /\ fFileDescriptor[pair[2]] = pair[1]
      /\ GetIo(pair[1]) = pair[2]
  BY DEF TypeOK, DescriptorsLead
<1>9. \A v \in Tasks : theirs'[v] = IF v = u THEN theirs[u] \ {pair} ELSE theirs[v]
  BY DEF TypeOK
<1>10. \A p \in theirs[u] : p[2] = pair[2] => p = pair
  BY <1>0 DEF TypeOK, DescriptorsLead
<1>1. TypeOK'
  <2>1. theirs' \in [Tasks -> SUBSET (Descriptors \X IOs)]
    BY DEF TypeOK
  <2> QED BY <1>0, <2>1 DEF TypeOK, CloseSteps
<1>2. CallsHaveObjects'
  BY <1>0 DEF CallsHaveObjects, TypeOK, OpenSteps
<1>3. OneOwner'
  BY <1>0, <1>9, <1>10 DEF OneOwner, TypeOK, Working
<1>4. OwnedFilesInUse'
  BY <1>0, <1>9 DEF OwnedFilesInUse, TypeOK, Working
<1>5. EntriesAreOwned'
  BY <1>0, <1>9 DEF EntriesAreOwned, HasEntry, TypeOK, CallsHaveObjects
<1>6. CallInv'
  BY <1>0 DEF CallInv, Knows, HasEntry, TypeOK
<1>7. DescriptorsLead' /\ NoFault'
  BY <1>0, <1>9 DEF DescriptorsLead, NoFault
<1> QED BY <1>1, <1>2, <1>3, <1>4, <1>5, <1>6, <1>7

\* Every step keeps the invariant.
LEMMA NextIInv == ASSUME OneOpener PROVE IInv /\ [Next]_vars => IInv'
<1> SUFFICES ASSUME IInv, [Next]_vars PROVE IInv'
  OBVIOUS
<1>1. CASE UNCHANGED vars
  BY <1>1 DEF vars, IInv, TypeOK, CallsHaveObjects, OneOwner, OwnedFilesInUse, EntriesAreOwned,
              CallInv, Knows, HasEntry, Working, DescriptorsLead, NoFault
<1>2. ASSUME NEW t \in Tasks, Step(t) PROVE IInv'
  BY <1>2, AttachIInv, AllocIInv, AllocTestIInv, AllocSetIInv, AllocBackIInv, OpenReturnIInv,
     UndoIInv, FreeIInv, FreeBackIInv, FreeEntryIInv, CloseBackIInv, ReleaseIInv, DetachIInv
     DEF Step
<1>3. ASSUME NEW t \in Tasks, CallOpenFile(t) PROVE IInv'
  BY <1>3, CallOpenFileIInv
<1>4. ASSUME NEW t \in Tasks, NEW dev \in Devices, CallOpenDevice(t, dev) PROVE IInv'
  BY <1>4, CallOpenDeviceIInv
<1>5. ASSUME NEW t \in Tasks, NEW d \in -1 .. sfSize, CloseRefused(t, d) PROVE IInv'
  BY <1>1, <1>5 DEF CloseRefused
<1>6. ASSUME NEW t \in Tasks, NEW u \in Tasks, NEW pair \in theirs[u], CallClose(t, u, pair)
      PROVE  IInv'
  BY <1>6, CallCloseIInv
<1> QED BY <1>1, <1>2, <1>3, <1>4, <1>5, <1>6 DEF Next

-----------------------------------------------------------------------------
(* Theorems *)

\* With one task in open () and any number in close (), the invariant holds in
\* every reachable state.
THEOREM TasksSafety == ASSUME OneOpener PROVE Spec => []IInv
<1>1. Init => IInv
  BY InitIInv
<1>2. IInv /\ [Next]_vars => IInv'
  BY NextIInv
<1> QED BY <1>1, <1>2, PTL DEF Spec

\* A descriptor that open () returned leads to the object that was opened, and
\* the object back to it, whatever steps of other tasks come in between.
THEOREM TasksDescriptorsLead == ASSUME OneOpener PROVE Spec => []DescriptorsLead
<1>1. IInv => DescriptorsLead
  BY DEF IInv
<1> QED BY <1>1, TasksSafety, PTL

\* No entry stays in use that no task can close.
THEOREM TasksLoseNoEntry == ASSUME OneOpener PROVE Spec => []NoEntryIsLost
<1>1. IInv => NoEntryIsLost
  BY DEF IInv, EntriesAreOwned, NoEntryIsLost
<1> QED BY <1>1, TasksSafety, PTL

\* free () never dereferences the nullptr of an entry already cleared.
THEOREM TasksDoNotFault == ASSUME OneOpener PROVE Spec => []NoFault
<1>1. IInv => NoFault
  BY DEF IInv
<1> QED BY <1>1, TasksSafety, PTL

\* The variables keep their types, and no index runs out of the array.
THEOREM TasksTypeOK == ASSUME OneOpener PROVE Spec => []TypeOK
<1>1. IInv => TypeOK
  BY DEF IInv
<1> QED BY <1>1, TasksSafety, PTL

-----------------------------------------------------------------------------
(* The refinement *)

\* The steps of a call at which its object has a back pointer.
BackPointerSteps == {"open_return", "free", "free_back"}

\* An object with a back pointer is behind a descriptor or in such a call, so
\* that alloc () never finds the object of its call open already.
Detached ==
  \A object \in IOs : fFileDescriptor[object] # noFileDescriptor =>
     \E t \in Tasks : \/ \E pair \in theirs[t] : pair[2] = object
                      \/ io[t] = object /\ pc[t] \in BackPointerSteps

\* Done, case by case.
DoneIs(t) ==
  /\ pc[t] \in {"alloc_test", "alloc_set"} => Done(t) = Table!Looked(lowest[t])
  /\ pc[t] \in {"alloc_back", "open_return"} => Done(t) = Table!Took(fd[t], io[t])
  /\ pc[t] = "undo" => Done(t) = Table!Failed
  /\ pc[t] = "free" => Done(t) = Table!Closes(fFileDescriptor[io[t]], io[t])
  /\ pc[t] \in {"free_back", "free_entry"} => Done(t) = Table!Closes(fd[t], io[t])
  /\ pc[t] \in {"idle", "attach", "alloc", "close_back", "release", "detach"}
       => Done(t) = Table!Outside

\* It holds before and after any step.
LEMMA DoneCases == ASSUME NEW t PROVE DoneIs(t) /\ DoneIs(t)'
<1>1. DoneIs(t)
  BY Zenon DEF DoneIs, Done, Table!Looked, Table!Took, Table!Failed, Table!Closes, Table!Outside
<1>2. DoneIs(t)'
  BY Zenon DEF DoneIs, Done, Table!Looked, Table!Took, Table!Failed, Table!Closes, Table!Outside
<1> QED BY <1>1, <1>2

\* The steps of one task leave what the others have done.
LEMMA OthersDone ==
  ASSUME IInv, NEW t \in Tasks, NEW u \in Tasks, u # t,
         \/ Step(t) \/ CallOpenFile(t) \/ (\E dev \in Devices : CallOpenDevice(t, dev))
         \/ \E v \in Tasks : \E pair \in theirs[v] : CallClose(t, v, pair)
  PROVE  Done(u)' = Done(u)
<1>1. /\ pc'[u] = pc[u] /\ io'[u] = io[u] /\ fd'[u] = fd[u] /\ lowest'[u] = lowest[u]
  BY DEF IInv, TypeOK, Step, Attach, Alloc, AllocTest, Advance, AllocSet, AllocBack, OpenReturn,
         Undo, Free, FreeBack, FreeEntry, CloseBack, Release, Detach, CallOpenFile,
         CallOpenDevice, CallClose, Begins, Goto, Returns
<1>2. pc[u] = "free" => fFileDescriptor'[io[u]] = fFileDescriptor[io[u]]
  <2>1. CASE UNCHANGED fFileDescriptor
    BY <2>1
  <2>2. CASE AllocBack(t) \/ Undo(t) \/ FreeBack(t) \/ CloseBack(t)
    <3>1. Working(t) /\ fFileDescriptor' \in {fFileDescriptor,
                             [fFileDescriptor EXCEPT ![io[t]] = fFileDescriptor'[io[t]]]}
      BY <2>2 DEF IInv, TypeOK, CallInv, Knows, HasEntry, CallsHaveObjects, AllocBack, Undo,
                  FreeBack, CloseBack, At, Goto, Returns, Working
    <3>2. pc[u] = "free" => io[u] # io[t] /\ io[u] \in IOs
      BY <3>1 DEF IInv, OneOwner, Working, TypeOK, CallsHaveObjects
    <3> QED BY <3>1, <3>2 DEF IInv, TypeOK
  <2> QED BY <2>1, <2>2
          DEF Step, Attach, Alloc, AllocTest, AllocSet, OpenReturn, Free, FreeEntry, Release,
              Detach, CallOpenFile, CallOpenDevice, CallClose, links
<1> QED BY <1>1, <1>2, Zenon DEF Done

\* What a task's step makes of its call is the whole change of the mapping.
LEMMA DoneChanges ==
  ASSUME NEW t \in Tasks, NEW what, Done(t)' = what,
         \A u \in Tasks : u # t => Done(u)' = Done(u)
  PROVE  Table!Does(t, what)
  BY DEF Table!Does

\* A step of which the others can tell nothing.
LEMMA DoneStutters ==
  ASSUME NEW t \in Tasks, Done(t)' = Done(t), UNCHANGED <<sfDescriptorsArray, theirs>>,
         \A u \in Tasks : u # t => Done(u)' = Done(u)
  PROVE  UNCHANGED <<sfDescriptorsArray, theirs, [u \in Tasks |-> Done(u)]>>
  OBVIOUS

-----------------------------------------------------------------------------
(* Objects are detached when nobody has them open *)

\* Nothing is open and no back pointer is set.
LEMMA InitDetached == Init => Detached
  BY DEF Init, Detached

\* Only AllocBack sets a back pointer; it is cleared before the object leaves
\* its close ().
LEMMA DetachedKeeps ==
  ASSUME IInv, Detached, [Next]_vars PROVE Detached'
<1> USE DEF IInv, Detached, BackPointerSteps
<1>1. CASE UNCHANGED vars
  BY <1>1 DEF vars
<1>2. ASSUME NEW t \in Tasks,
             \/ Attach(t) \/ Alloc(t) \/ AllocTest(t) \/ AllocSet(t) \/ FreeEntry(t)
             \/ Release(t) \/ Detach(t) \/ CallOpenFile(t)
             \/ \E dev \in Devices : CallOpenDevice(t, dev)
      PROVE  Detached'
  BY <1>2 DEF TypeOK, Attach, Alloc, AllocTest, Advance, AllocSet, FreeEntry, Release, Detach,
              CallOpenFile, CallOpenDevice, Begins, At, Goto, Returns, links
<1>3. ASSUME NEW t \in Tasks, AllocBack(t) PROVE Detached'
  BY <1>3 DEF TypeOK, AllocBack, At, Goto
<1>4. ASSUME NEW t \in Tasks, OpenReturn(t) PROVE Detached'
  <2>1. <<fFileDescriptor[io[t]], io[t]>> \in theirs'[t]
    BY <1>4 DEF TypeOK, OpenReturn
  <2>2. \A u \in Tasks : theirs[u] \subseteq theirs'[u]
    BY <1>4 DEF TypeOK, OpenReturn
  <2>3. ASSUME NEW object \in IOs, fFileDescriptor[object] # noFileDescriptor
        PROVE  \E u \in Tasks : \/ \E pair \in theirs'[u] : pair[2] = object
                                \/ io'[u] = object /\ pc'[u] \in BackPointerSteps
    <3>1. CASE object = io[t]
      BY <2>1, <3>1
    <3>2. CASE object # io[t]
      BY <1>4, <2>2, <2>3, <3>2 DEF TypeOK, OpenReturn, Returns
    <3> QED BY <3>1, <3>2
  <2> QED BY <1>4, <2>3 DEF OpenReturn, links
<1>5. ASSUME NEW t \in Tasks, Undo(t) \/ CloseBack(t) PROVE Detached'
  BY <1>5 DEF TypeOK, Undo, CloseBack, At, Goto, Returns
<1>6. ASSUME NEW t \in Tasks, Free(t) PROVE Detached'
  BY <1>6 DEF TypeOK, CallInv, Knows, Free, At, Goto, links
<1>7. ASSUME NEW t \in Tasks, FreeBack(t) PROVE Detached'
  BY <1>7 DEF TypeOK, CallInv, Knows, HasEntry, FreeBack, At, Goto
<1>8. ASSUME NEW t \in Tasks, NEW u \in Tasks, NEW pair \in theirs[u], CallClose(t, u, pair)
      PROVE  Detached'
  BY <1>8 DEF TypeOK, DescriptorsLead, GetIo, CallClose, Begins, At, links
<1> QED BY <1>1, <1>2, <1>3, <1>4, <1>5, <1>6, <1>7, <1>8 DEF Next, Step, CloseRefused

-----------------------------------------------------------------------------
(* Every step is one of the shared table, or stutters *)

TableVars == <<sfDescriptorsArray, theirs, [t \in Tasks |-> Done(t)]>>

TableStep == Table!Next \/ UNCHANGED TableVars

\* Nothing is open and no call has begun.
LEMMA InitTable == Init => Table!Init
<1> SUFFICES ASSUME Init PROVE Table!Init
  OBVIOUS
<1>1. \A t \in Tasks : Done(t) = Table!Outside
  BY DoneCases DEF Init, DoneIs
<1> QED BY <1>1 DEF Init, Table!Init, Table!Descriptors, Descriptors

\* The steps on a call's own object and variables, and on the pool.
LEMMA LocalSteps ==
  ASSUME IInv, NEW t \in Tasks,
         \/ Attach(t) \/ AllocBack(t) \/ Free(t) \/ FreeBack(t) \/ CloseBack(t)
         \/ Release(t) \/ Detach(t) \/ CallOpenFile(t)
         \/ \E dev \in Devices : CallOpenDevice(t, dev)
  PROVE  UNCHANGED TableVars
<1>1. \A u \in Tasks : u # t => Done(u)' = Done(u)
  BY OthersDone DEF Step, IInv, NoFault
<1>2. Done(t)' = Done(t)
  <2>1. CASE \/ Attach(t) \/ CloseBack(t) \/ Release(t) \/ Detach(t) \/ CallOpenFile(t)
             \/ \E dev \in Devices : CallOpenDevice(t, dev)
    <3>1. /\ pc[t] \in {"idle", "attach", "close_back", "release", "detach"}
          /\ pc'[t] \in {"idle", "attach", "alloc", "release", "detach"}
      BY <2>1 DEF IInv, TypeOK, Attach, CloseBack, Release, Detach, CallOpenFile,
                  CallOpenDevice, Begins, At, Goto, Returns
    <3> QED BY <3>1, DoneCases DEF DoneIs
  <2>2. CASE AllocBack(t)
    BY <2>2, DoneCases DEF DoneIs, IInv, TypeOK, AllocBack, At, Goto
  <2>3. CASE Free(t)
    BY <2>3, DoneCases DEF DoneIs, IInv, TypeOK, CallInv, Knows, Free, At, Goto
  <2>4. CASE FreeBack(t)
    BY <2>4, DoneCases, Facts
       DEF DoneIs, IInv, TypeOK, CallInv, Knows, HasEntry, CallsHaveObjects, FreeBack, At, Goto
  <2> QED BY <2>1, <2>2, <2>3, <2>4
<1>3. UNCHANGED <<sfDescriptorsArray, theirs>>
  BY DEF Attach, AllocBack, Free, FreeBack, CloseBack, Release, Detach, CallOpenFile,
         CallOpenDevice, links
<1> QED BY <1>1, <1>2, <1>3, DoneStutters DEF TableVars

\* alloc () finds its object closed, and looks.
LEMMA AllocLooks ==
  ASSUME IInv, Detached, NEW t \in Tasks, Alloc(t) PROVE Table!Look(t)
<1>1. fFileDescriptor[io[t]] = noFileDescriptor
  BY DEF IInv, TypeOK, CallsHaveObjects, OneOwner, Working, Detached, BackPointerSteps, Alloc, At
<1>2. /\ pc[t] = "alloc" /\ pc'[t] = "alloc_test" /\ UNCHANGED <<sfDescriptorsArray, theirs>>
      /\ lowest' = [lowest EXCEPT ![t] = CHOOSE i \in FirstAllocated .. sfSize : IsFirstFree(i)]
  BY <1>1 DEF IInv, TypeOK, Alloc, At, links, noFileDescriptor
<1>3. lowest'[t] \in FirstAllocated .. sfSize /\ IsFirstFree(lowest'[t])
  BY <1>2, FirstFreeExists DEF IInv, TypeOK
<1>4. Done(t) = Table!Outside /\ Done(t)' = Table!Looked(lowest'[t])
  BY <1>2, DoneCases DEF DoneIs
<1>5. Table!Does(t, Table!Looked(lowest'[t]))
  BY <1>4, OthersDone, DoneChanges DEF Step, IInv, NoFault
<1>6. Table!Did(t, "nothing")
  BY <1>4 DEF Table!Did, Table!Outside
<1>7. /\ lowest'[t] \in 0 .. sfSize
      /\ lowest'[t] < sfSize => Table!Unused(lowest'[t])
      /\ \A other \in Table!Descriptors : Table!Unused(other) => lowest'[t] <= other
  BY <1>3, Facts DEF IsFirstFree, FirstAllocated, Table!Unused, Table!Descriptors, Table!Standard
<1> QED BY <1>2, <1>5, <1>6, <1>7 DEF Table!Look

\* The object of a call that is about to fill an entry is in no other one.
LEMMA TakenIsNowhere ==
  ASSUME IInv, NEW t \in Tasks, pc[t] = "alloc_set"
  PROVE  \A d \in Descriptors : sfDescriptorsArray[d] # io[t]
<1> SUFFICES ASSUME NEW d \in Descriptors, sfDescriptorsArray[d] = io[t] PROVE FALSE
  OBVIOUS
<1>1. io[t] # nullptr /\ EntriesAreOwned
  BY DEF IInv, CallsHaveObjects
<1>2. PICK u \in Tasks : \/ <<d, sfDescriptorsArray[d]>> \in theirs[u]
                         \/ io[u] = sfDescriptorsArray[d] /\ HasEntry(u, d)
  BY <1>1 DEF EntriesAreOwned
<1>3. <<d, sfDescriptorsArray[d]>>[2] = io[t]
  OBVIOUS
<1>4. \A pair \in theirs[u] : pair[2] # io[t]
  BY DEF IInv, OneOwner, Working
<1>5. HasEntry(u, d) /\ Working(u) /\ io[u] = io[t]
  BY <1>2, <1>3, <1>4 DEF HasEntry, Working
<1> QED BY <1>5 DEF IInv, OneOwner, Working, HasEntry

\* The entry is free, and no later than the first that was; the object is in
\* no other one.
LEMMA AllocSetTakes ==
  ASSUME IInv, NEW t \in Tasks, AllocSet(t) PROVE Table!Take(t)
<1>1. /\ pc[t] = "alloc_set" /\ pc'[t] = "alloc_back" /\ theirs' = theirs
      /\ io'[t] = io[t] /\ fd'[t] = fd[t] /\ io[t] \in IOs /\ fd[t] \in Descriptors
      /\ sfDescriptorsArray' = [sfDescriptorsArray EXCEPT ![fd[t]] = io[t]]
  BY DEF IInv, TypeOK, CallsHaveObjects, AllocSet, At, Goto
<1>2. Done(t) = Table!Looked(lowest[t]) /\ Done(t)' = Table!Took(fd[t], io[t])
  BY <1>1, DoneCases DEF DoneIs
<1>3. Table!Does(t, Table!Took(fd[t], io[t]))
  BY <1>2, OthersDone, DoneChanges DEF Step, IInv, NoFault
<1>4. /\ Table!Did(t, "look")
      /\ [u \in Tasks |-> Done(u)][t].fd = lowest[t]
  BY <1>2 DEF Table!Did, Table!Looked
<1>5. Table!Unused(fd[t]) /\ fd[t] <= lowest[t]
  BY <1>1, Facts
     DEF IInv, TypeOK, CallInv, Knows, FirstAllocated, Table!Unused, Table!Descriptors,
         Table!Standard, Descriptors
<1>6. \A d \in Descriptors : sfDescriptorsArray[d] # io[t]
  BY <1>1, TakenIsNowhere
<1> QED BY <1>1, <1>3, <1>4, <1>5, <1>6 DEF Table!Take, Table!Descriptors, Descriptors

\* The scan ended behind the last entry: none was free when it began.
LEMMA AllocTestFails ==
  ASSUME IInv, NEW t \in Tasks, AllocTest(t), ~UNCHANGED TableVars PROVE Table!Fail(t)
<1>1. UNCHANGED <<sfDescriptorsArray, theirs>> /\ lowest' = lowest /\ pc[t] = "alloc_test"
  BY DEF AllocTest, Goto, links, At
<1>2. \A u \in Tasks : u # t => Done(u)' = Done(u)
  BY OthersDone DEF Step, IInv, NoFault
<1>3. Done(t)' # Done(t)
  BY <1>1, <1>2, DoneStutters DEF TableVars
<1>4. fd[t] = sfSize /\ pc'[t] = "undo"
  <2>1. pc'[t] \in {"alloc_test", "alloc_set"} => Done(t)' = Done(t)
    BY <1>1, DoneCases DEF DoneIs
  <2> QED BY <1>3, <2>1 DEF IInv, TypeOK, AllocTest, Goto, At
<1>5. lowest[t] = sfSize
  BY <1>1, <1>4, Facts DEF IInv, TypeOK, CallInv, Knows, FirstAllocated
<1>6. Done(t) = Table!Looked(sfSize) /\ Done(t)' = Table!Failed
  BY <1>1, <1>4, <1>5, DoneCases DEF DoneIs
<1>7. Table!Does(t, Table!Failed)
  BY <1>2, <1>6, DoneChanges
<1>8. Table!Did(t, "look") /\ [u \in Tasks |-> Done(u)][t].fd = sfSize
  BY <1>6 DEF Table!Did, Table!Looked
<1> QED BY <1>1, <1>7, <1>8 DEF Table!Fail

\* The other ends of open ().
LEMMA OpenEnds ==
  ASSUME IInv, NEW t \in Tasks, OpenReturn(t) \/ Undo(t) PROVE Table!Return(t) \/ Table!Fail(t)
<1>1. pc'[t] = "idle" /\ UNCHANGED sfDescriptorsArray
  BY DEF IInv, TypeOK, OpenReturn, Undo, Returns, links
<1>2. Done(t)' = Table!Outside
  BY <1>1, DoneCases DEF DoneIs
<1>3. Table!Does(t, Table!Outside)
  BY <1>2, OthersDone, DoneChanges DEF Step, IInv, NoFault
<1>4. CASE OpenReturn(t)
  <2>1. /\ pc[t] = "open_return" /\ fFileDescriptor[io[t]] = fd[t]
        /\ theirs' = [theirs EXCEPT ![t] = @ \cup {<<fd[t], io[t]>>}]
    BY <1>4 DEF IInv, CallInv, Knows, OpenReturn, At
  <2>2. Done(t) = Table!Took(fd[t], io[t])
    BY <2>1, DoneCases DEF DoneIs
  <2>3. /\ Table!Did(t, "take")
        /\ [u \in Tasks |-> Done(u)][t].fd = fd[t]
        /\ [u \in Tasks |-> Done(u)][t].object = io[t]
    BY <2>2 DEF Table!Did, Table!Took
  <2> QED BY <1>1, <1>3, <2>1, <2>3 DEF Table!Return
<1>5. CASE Undo(t)
  <2>1. pc[t] = "undo" /\ UNCHANGED theirs
    BY <1>5 DEF Undo, At
  <2>2. Done(t) = Table!Failed
    BY <2>1, DoneCases DEF DoneIs
  <2>3. Table!Did(t, "fail")
    BY <2>2 DEF Table!Did, Table!Failed
  <2> QED BY <1>1, <1>3, <2>1, <2>3 DEF Table!Fail
<1> QED BY <1>4, <1>5

\* close () begins with a descriptor that was returned.
LEMMA CallCloseCloses ==
  ASSUME IInv, NEW t \in Tasks, NEW v \in Tasks, NEW pair \in theirs[v], CallClose(t, v, pair)
  PROVE  Table!Close(t)
<1>1. /\ pair \in Descriptors \X IOs
      /\ sfDescriptorsArray[pair[1]] = pair[2] /\ fFileDescriptor[pair[2]] = pair[1]
  BY DEF IInv, TypeOK, DescriptorsLead
<1>2. /\ pc[t] = "idle" /\ pc'[t] = "free" /\ io'[t] = pair[2]
      /\ UNCHANGED <<sfDescriptorsArray, fFileDescriptor>>
      /\ theirs' = [theirs EXCEPT ![v] = @ \ {pair}]
  BY <1>1 DEF IInv, TypeOK, CallClose, Begins, GetIo, At, links
<1>3. Done(t) = Table!Outside /\ Done(t)' = Table!Closes(pair[1], pair[2])
  BY <1>1, <1>2, DoneCases DEF DoneIs
<1>4. Table!Does(t, Table!Closes(pair[1], pair[2]))
  BY <1>3, OthersDone, DoneChanges
<1>5. Table!Did(t, "nothing")
  BY <1>3 DEF Table!Did, Table!Outside
<1> QED BY <1>2, <1>4, <1>5 DEF Table!Close

\* The entry that is cleared is the one close () was called with.
LEMMA FreeEntryClears ==
  ASSUME IInv, NEW t \in Tasks, FreeEntry(t) PROVE Table!Clear(t)
<1>1. /\ pc[t] = "free_entry" /\ pc'[t] = "close_back" /\ UNCHANGED theirs
      /\ fd[t] \in Descriptors /\ sfDescriptorsArray[fd[t]] = io[t]
      /\ sfDescriptorsArray' = [sfDescriptorsArray EXCEPT ![fd[t]] = nullptr]
  BY DEF IInv, TypeOK, CallInv, Knows, HasEntry, FreeEntry, ClearEntry, At, Goto
<1>2. Done(t) = Table!Closes(fd[t], io[t]) /\ Done(t)' = Table!Outside
  BY <1>1, DoneCases DEF DoneIs
<1>3. Table!Does(t, Table!Outside)
  BY <1>2, OthersDone, DoneChanges DEF Step, IInv, NoFault
<1>4. /\ Table!Did(t, "close")
      /\ [u \in Tasks |-> Done(u)][t].fd = fd[t]
      /\ [u \in Tasks |-> Done(u)][t].object = io[t]
  BY <1>2 DEF Table!Did, Table!Closes
<1> QED BY <1>1, <1>3, <1>4 DEF Table!Clear

\* One abstract step, or none, for each step of a task.
LEMMA NextTable ==
  ASSUME IInv, Detached, [Next]_vars PROVE TableStep
<1>1. CASE UNCHANGED vars
  BY <1>1 DEF vars, TableStep, TableVars, Done
<1>2. ASSUME NEW t \in Tasks,
             \/ Table!Look(t) \/ Table!Take(t) \/ Table!Return(t) \/ Table!Fail(t)
             \/ Table!Close(t) \/ Table!Clear(t)
      PROVE  TableStep
  BY <1>2 DEF TableStep, Table!Next
<1>3. ASSUME NEW t \in Tasks, Step(t) PROVE TableStep
  BY <1>2, <1>3, LocalSteps, AllocLooks, AllocSetTakes, AllocTestFails, OpenEnds,
     FreeEntryClears DEF Step, TableStep
<1>4. ASSUME NEW t \in Tasks,
             CallOpenFile(t) \/ \E dev \in Devices : CallOpenDevice(t, dev)
      PROVE  TableStep
  BY <1>4, LocalSteps DEF TableStep
<1>5. ASSUME NEW t \in Tasks, NEW v \in Tasks, NEW pair \in theirs[v], CallClose(t, v, pair)
      PROVE  TableStep
  BY <1>2, <1>5, CallCloseCloses
<1> QED BY <1>1, <1>3, <1>4, <1>5 DEF Next, CloseRefused

\* While one task opens and any number close, the steps of open () and close ()
\* amount to the table other tasks may expect: each call takes effect once,
\* at one write, on an entry and an object nobody else has.
THEOREM ImplementsSharedTable == ASSUME OneOpener PROVE Spec => SharedTableSpec
<1>1. Init => Table!Init
  BY InitTable
<1>2. IInv /\ Detached /\ [Next]_vars => [Table!Next]_TableVars
  BY NextTable DEF TableStep
<1>3. Init => Detached
  BY InitDetached
<1>4. IInv /\ Detached /\ [Next]_vars => Detached'
  BY DetachedKeeps
<1> QED BY <1>1, <1>2, <1>3, <1>4, TasksSafety, PTL
        DEF Spec, SharedTableSpec, Table!Spec, TableVars
-----------------------------------------------------------------------------
(* What makes calls return: apart from fairness *)

\* How many steps of its own a call needs at most.
StepsLeft(t) ==
  CASE pc[t] = "attach" -> sfSize + 6
    [] pc[t] = "alloc" -> sfSize + 5
    [] pc[t] = "alloc_test" -> (sfSize - fd[t]) + 4
    [] pc[t] = "free" -> 6
    [] pc[t] = "free_back" -> 5
    [] pc[t] = "free_entry" -> 4
    [] pc[t] \in {"alloc_set", "close_back"} -> 3
    [] pc[t] \in {"alloc_back", "release"} -> 2
    [] pc[t] \in {"open_return", "undo", "detach"} -> 1
    [] OTHER -> 0

\* Every step of a task brings its call nearer to its end, and no step of
\* another task puts it off.
CallsGetShorter ==
  [][\A t \in Tasks : pc[t] # "idle" =>
        /\ StepsLeft(t)' \in Nat /\ StepsLeft(t)' <= StepsLeft(t)
        /\ Step(t) => StepsLeft(t)' < StepsLeft(t)]_vars

\* StepsLeft, case by case.
StepsLeftIs(t) ==
  /\ pc[t] = "attach" => StepsLeft(t) = sfSize + 6
  /\ pc[t] = "alloc" => StepsLeft(t) = sfSize + 5
  /\ pc[t] = "alloc_test" => StepsLeft(t) = (sfSize - fd[t]) + 4
  /\ pc[t] = "free" => StepsLeft(t) = 6
  /\ pc[t] = "free_back" => StepsLeft(t) = 5
  /\ pc[t] = "free_entry" => StepsLeft(t) = 4
  /\ pc[t] \in {"alloc_set", "close_back"} => StepsLeft(t) = 3
  /\ pc[t] \in {"alloc_back", "release"} => StepsLeft(t) = 2
  /\ pc[t] \in {"open_return", "undo", "detach"} => StepsLeft(t) = 1
  /\ pc[t] = "idle" => StepsLeft(t) = 0

\* It holds before and after any step.
LEMMA StepsLeftCases == ASSUME NEW t PROVE StepsLeftIs(t) /\ StepsLeftIs(t)'
<1>1. StepsLeftIs(t)
  BY DEF StepsLeftIs, StepsLeft
<1>2. StepsLeftIs(t)'
  BY DEF StepsLeftIs, StepsLeft
<1> QED BY <1>1, <1>2

\* A step of a call: free () finds the entry and goes on, and the scan of
\* alloc () has at most the whole array before it.
LEMMA StepShortens ==
  ASSUME IInv, NEW t \in Tasks, Step(t) PROVE StepsLeft(t)' < StepsLeft(t)
<1> USE Facts, StepsLeftCases DEF IInv, TypeOK, At, Goto, Returns, StepsLeftIs
<1>1. CASE Attach(t) \/ AllocSet(t) \/ AllocBack(t) \/ OpenReturn(t) \/ Undo(t)
  BY <1>1 DEF Attach, AllocSet, AllocBack, OpenReturn, Undo
<1>2. CASE Alloc(t)
  BY <1>2 DEF Alloc, ScanFrom, FirstAllocated
<1>3. CASE AllocTest(t)
  BY <1>3 DEF AllocTest, IsFree, Advance
<1>4. CASE Free(t) \/ FreeEntry(t) \/ CloseBack(t) \/ Release(t) \/ Detach(t)
  BY <1>4 DEF Free, FreeEntry, CloseBack, Release, Detach
<1>5. CASE FreeBack(t)
  BY <1>5 DEF FreeBack, CallInv, Knows, HasEntry, CallsHaveObjects
<1> QED BY <1>1, <1>2, <1>3, <1>4, <1>5 DEF Step

\* A call's place in the code and its loop variable are its own.
LEMMA OthersDoNotPutOff ==
  ASSUME IInv, [Next]_vars, NEW t \in Tasks, pc[t] # "idle", ~Step(t)
  PROVE  pc'[t] = pc[t] /\ fd'[t] = fd[t]
<1> USE DEF IInv, TypeOK, At, Goto, Returns, Begins
<1>1. ASSUME NEW u \in Tasks, u # t, Step(u) PROVE pc'[t] = pc[t] /\ fd'[t] = fd[t]
  BY <1>1 DEF Step, Attach, Alloc, AllocTest, Advance, AllocSet, AllocBack, OpenReturn, Undo,
              Free, FreeBack, FreeEntry, CloseBack, Release, Detach
<1>2. ASSUME NEW u \in Tasks,
             \/ CallOpenFile(u) \/ \E dev \in Devices : CallOpenDevice(u, dev)
             \/ \E v \in Tasks : \E pair \in theirs[v] : CallClose(u, v, pair)
      PROVE  pc'[t] = pc[t] /\ fd'[t] = fd[t]
  BY <1>2 DEF CallOpenFile, CallOpenDevice, CallClose
<1> QED BY <1>1, <1>2 DEF Next, CloseRefused, vars

\* What EveryCallReturns rests on apart from the scheduler: an open () or a
\* close () needs a bounded number of its task's steps, whatever the others
\* do to the array while it scans.
THEOREM TasksGetShorter == ASSUME OneOpener PROVE Spec => CallsGetShorter
<1>1. ASSUME IInv, IInv', [Next]_vars, NEW t \in Tasks, pc[t] # "idle"
      PROVE  /\ StepsLeft(t)' \in Nat /\ StepsLeft(t)' <= StepsLeft(t)
             /\ Step(t) => StepsLeft(t)' < StepsLeft(t)
  <2>1. StepsLeft(t) \in Nat /\ StepsLeft(t)' \in Nat
    BY <1>1, Facts, StepsLeftCases DEF StepsLeftIs, IInv, TypeOK, OpenSteps, CloseSteps
  <2>2. Step(t) => StepsLeft(t)' < StepsLeft(t)
    BY <1>1, StepShortens
  <2>3. ~Step(t) => StepsLeft(t)' = StepsLeft(t)
    BY <1>1, OthersDoNotPutOff DEF StepsLeft
  <2> QED BY <2>1, <2>2, <2>3
<1>2. IInv /\ IInv' /\ [Next]_vars =>
        [\A t \in Tasks : pc[t] # "idle" =>
           /\ StepsLeft(t)' \in Nat /\ StepsLeft(t)' <= StepsLeft(t)
           /\ Step(t) => StepsLeft(t)' < StepsLeft(t)]_vars
  BY <1>1
<1> QED BY <1>2, TasksSafety, PTL DEF Spec, CallsGetShorter

-----------------------------------------------------------------------------
(* A program of one task *)

OneTask == \A t, u \in Tasks : t = u

\* Nobody frees an entry behind the scan.
StillFirst ==
  \A t \in Tasks : pc[t] \in {"alloc_test", "alloc_set"} => IsFirstFree(lowest[t])

\* The array changes as in DescriptorTable: an object that is in no entry gets
\* the lowest unused one past the standard ones, or an entry becomes unused.
LowestIsTaken ==
  [][\E d \in Descriptors :
       \/ sfDescriptorsArray' = [sfDescriptorsArray EXCEPT ![d] = nullptr]
       \/ /\ IsFirstFree(d)
          /\ \E object \in IOs :
               /\ \A other \in Descriptors : sfDescriptorsArray[other] # object
               /\ sfDescriptorsArray' = [sfDescriptorsArray EXCEPT ![d] = object]
    ]_sfDescriptorsArray

\* Only alloc () begins a scan, and only the one task changes the array.
LEMMA StillFirstKeeps ==
  ASSUME OneTask, IInv, StillFirst, [Next]_vars PROVE StillFirst'
<1> USE Facts DEF StillFirst, IInv, TypeOK, At, Goto, Returns, Begins, links
<1>1. CASE UNCHANGED vars
  BY <1>1 DEF vars, IsFirstFree
<1>2. ASSUME NEW t \in Tasks, Alloc(t) PROVE StillFirst'
  BY <1>2, FirstFreeExists DEF Alloc, IsFirstFree
<1>3. ASSUME NEW t \in Tasks, AllocTest(t) PROVE StillFirst'
  BY <1>3 DEF AllocTest, IsFirstFree
<1>4. ASSUME NEW t \in Tasks, Step(t) \/ CallOpenFile(t)
               \/ (\E dev \in Devices : CallOpenDevice(t, dev))
               \/ (\E u \in Tasks : \E pair \in theirs[u] : CallClose(t, u, pair)),
             ~Alloc(t), ~AllocTest(t)
      PROVE  StillFirst'
  <2>1. pc'[t] \notin {"alloc_test", "alloc_set"}
    BY <1>4 DEF Step, Attach, AllocSet, AllocBack, OpenReturn, Undo, Free, FreeBack, FreeEntry,
                CloseBack, Release, Detach, CallOpenFile, CallOpenDevice, CallClose
  <2> QED BY <2>1 DEF OneTask
<1> QED BY <1>1, <1>2, <1>3, <1>4 DEF Next, CloseRefused

\* What the calls do with the array in one step each in PosixIO they do in
\* their several steps too, when no other task comes in between.
THEOREM AloneTakesLowest == ASSUME OneTask PROVE Spec => LowestIsTaken
<1>1. Init => StillFirst
  BY DEF Init, StillFirst
<1>2. ASSUME IInv, StillFirst, [Next]_vars
      PROVE  \/ UNCHANGED sfDescriptorsArray
             \/ \E d \in Descriptors :
                  \/ sfDescriptorsArray' = [sfDescriptorsArray EXCEPT ![d] = nullptr]
                  \/ /\ IsFirstFree(d)
                     /\ \E object \in IOs :
                          /\ \A other \in Descriptors : sfDescriptorsArray[other] # object
                          /\ sfDescriptorsArray' = [sfDescriptorsArray EXCEPT ![d] = object]
  <2>1. ASSUME NEW t \in Tasks, AllocSet(t)
        PROVE  /\ fd[t] \in Descriptors /\ IsFirstFree(fd[t]) /\ io[t] \in IOs
               /\ \A other \in Descriptors : sfDescriptorsArray[other] # io[t]
               /\ sfDescriptorsArray' = [sfDescriptorsArray EXCEPT ![fd[t]] = io[t]]
    <3>1. /\ pc[t] = "alloc_set" /\ fd[t] \in Descriptors /\ io[t] \in IOs
          /\ sfDescriptorsArray' = [sfDescriptorsArray EXCEPT ![fd[t]] = io[t]]
      BY <1>2, <2>1 DEF IInv, TypeOK, CallsHaveObjects, AllocSet, At
    <3>2. fd[t] = lowest[t] /\ IsFirstFree(fd[t])
      <4>1. IsFirstFree(lowest[t])
        BY <1>2, <3>1 DEF StillFirst
      <4>2. fd[t] \in FirstAllocated .. lowest[t] /\ sfDescriptorsArray[fd[t]] = nullptr
        BY <1>2, <3>1 DEF IInv, CallInv, Knows
      <4>3. lowest[t] \in Int /\ fd[t] \in Int
        BY <1>2, <3>1, Facts DEF IInv, TypeOK, FirstAllocated
      <4>4. fd[t] <= lowest[t] - 1 => FALSE
        BY <4>1, <4>2, <4>3 DEF IsFirstFree, FirstAllocated
      <4> QED BY <4>1, <4>2, <4>3, <4>4 DEF FirstAllocated
    <3>3. \A other \in Descriptors : sfDescriptorsArray[other] # io[t]
      BY <1>2, <3>1, TakenIsNowhere
    <3> QED BY <3>1, <3>2, <3>3
  <2>2. ASSUME NEW t \in Tasks, FreeEntry(t)
        PROVE  /\ fd[t] \in Descriptors
               /\ sfDescriptorsArray' = [sfDescriptorsArray EXCEPT ![fd[t]] = nullptr]
    BY <1>2, <2>2 DEF IInv, TypeOK, FreeEntry, ClearEntry, At
  <2>3. \/ UNCHANGED sfDescriptorsArray
        \/ \E t \in Tasks : AllocSet(t) \/ FreeEntry(t)
    BY <1>2 DEF Next, Step, vars, links, Attach, Alloc, AllocTest, AllocBack, OpenReturn, Undo,
                Free, FreeBack, CloseBack, Release, Detach, CallOpenFile, CallOpenDevice,
                CallClose, CloseRefused
  <2> QED BY <2>1, <2>2, <2>3
<1>3. IInv /\ StillFirst /\ [Next]_vars => StillFirst'
  BY StillFirstKeeps
<1>4. IInv /\ StillFirst /\ [Next]_vars =>
        [\E d \in Descriptors :
           \/ sfDescriptorsArray' = [sfDescriptorsArray EXCEPT ![d] = nullptr]
           \/ /\ IsFirstFree(d)
              /\ \E object \in IOs :
                   /\ \A other \in Descriptors : sfDescriptorsArray[other] # object
                   /\ sfDescriptorsArray' = [sfDescriptorsArray EXCEPT ![d] = object]
        ]_sfDescriptorsArray
  BY <1>2
<1>5. OneOpener
  BY OpenCloseTasksAssumption DEF OneTask, OneOpener
<1> QED BY <1>1, <1>3, <1>4, <1>5, TasksSafety, PTL DEF Spec, LowestIsTaken
=============================================================================
