--------------------------- MODULE PoolScanProofs ---------------------------
(***************************************************************************)
(* Without a lock, one task may call aquire () while any number of others  *)
(* call release (): for every pool and every set of tasks, no object gets  *)
(* two owners, and aquire () gives nullptr only of a pool that was full.   *)
(***************************************************************************)
EXTENDS PoolScan, TLAPS

OneAquirer == \A t, u \in Aquirers : t = u

\* What a task inside aquire () knows: the slot it is about to take is free,
\* and ahead of a scan there is a free slot, if the pool was never full.
AquireInv ==
  \A t \in Tasks :
    /\ pc[t] \in {"aquire_test", "aquire_set"} => t \in Aquirers
    /\ pc[t] = "aquire_set" => ~fInUse[i[t]]
    /\ pc[t] = "aquire_test" =>
         full[t] \/ \E s \in Slots : i[t] <= s /\ ~fInUse[s]

\* What a task inside release () knows: its object is still in use.
ReleaseInv ==
  \A t \in Tasks :
    /\ pc[t] \in {"release_test", "release_clear"} <=> file[t] # nullptr
    /\ file[t] # nullptr => fInUse[file[t]]
    /\ pc[t] = "release_clear" => i[t] = file[t]

IInv == TypeOK /\ OneOwner /\ AquireInv /\ ReleaseInv

\* No call is under way and every flag is down.
LEMMA InitIInv == Init => IInv
<1> USE PoolScanAssumption
<1> SUFFICES ASSUME Init PROVE IInv
    OBVIOUS
<1>1. TypeOK
  BY DEF Init, TypeOK, Slots, Steps, AllUp
<1>2. OneOwner
  BY DEF Init, OneOwner
<1>3. AquireInv /\ ReleaseInv
  BY DEF Init, AquireInv, ReleaseInv
<1> QED BY <1>1, <1>2, <1>3 DEF IInv

\* A scan has nothing behind it when it begins.
LEMMA CallAquireIInv ==
  ASSUME IInv, NEW t \in Tasks, CallAquire(t) PROVE IInv'
<1> USE PoolScanAssumption DEF CallAquire, Goto, Start, IInv
<1>1. TypeOK'
  BY DEF TypeOK, Slots, Steps, AllUp
<1>2. OneOwner'
  BY DEF OneOwner, TypeOK
<1>3. AquireInv'
  <2> SUFFICES ASSUME NEW u \in Tasks
      PROVE  /\ pc'[u] \in {"aquire_test", "aquire_set"} => u \in Aquirers
             /\ pc'[u] = "aquire_set" => ~fInUse'[i'[u]]
             /\ pc'[u] = "aquire_test" =>
                  full'[u] \/ \E s \in Slots : i'[u] <= s /\ ~fInUse'[s]
      BY DEF AquireInv
  <2>1. CASE u = t
    <3>1. full'[t] = AllUp /\ i'[t] = 0 /\ pc'[t] = "aquire_test"
      BY <2>1 DEF TypeOK
    <3>2. \A s \in Slots : 0 <= s
      BY DEF Slots
    <3> QED BY <2>1, <3>1, <3>2 DEF AllUp
  <2>2. CASE u # t
    BY <2>2 DEF AquireInv, TypeOK
  <2> QED BY <2>1, <2>2
<1>4. ReleaseInv'
  BY DEF ReleaseInv, TypeOK
<1> QED BY <1>1, <1>2, <1>3, <1>4

\* What the scan passes was in use, or the pool was full since it began.
LEMMA AquireTestIInv ==
  ASSUME IInv, NEW t \in Tasks, AquireTest(t) PROVE IInv'
<1> USE PoolScanAssumption DEF AquireTest, Goto, Advance, IsFree, IInv
<1>1. TypeOK'
  <2>1. fInUse' \in [Slots -> BOOLEAN] /\ full' \in [Tasks -> BOOLEAN]
    BY DEF TypeOK
  <2>2. pc' \in [Tasks -> Steps]
    BY DEF TypeOK, Steps
  <2>3. i' \in [Tasks -> 0 .. fSize]
    <3>1. i[t] < fSize => i[t] + 1 \in 0 .. fSize
      BY DEF TypeOK
    <3> QED BY <3>1 DEF TypeOK
  <2>4. ASSUME NEW u \in Tasks, pc'[u] \in {"aquire_set", "release_clear"}
        PROVE  i'[u] \in Slots
    <3>1. CASE u = t
      BY <2>4, <3>1 DEF TypeOK, Slots, Steps
    <3>2. CASE u # t
      BY <2>4, <3>2 DEF TypeOK
    <3> QED BY <3>1, <3>2
  <2>5. file' \in [Tasks -> Slots \cup {nullptr}] /\ holders' \in [Tasks -> SUBSET Slots]
    BY DEF TypeOK
  <2> QED BY <2>1, <2>2, <2>3, <2>4, <2>5 DEF TypeOK
<1>2. OneOwner'
  BY DEF OneOwner, TypeOK
<1>3. AquireInv'
  <2> SUFFICES ASSUME NEW u \in Tasks
      PROVE  /\ pc'[u] \in {"aquire_test", "aquire_set"} => u \in Aquirers
             /\ pc'[u] = "aquire_set" => ~fInUse'[i'[u]]
             /\ pc'[u] = "aquire_test" =>
                  full'[u] \/ \E s \in Slots : i'[u] <= s /\ ~fInUse'[s]
      BY DEF AquireInv
  <2>1. CASE u = t /\ IsFree(t)
    BY <2>1 DEF AquireInv, TypeOK
  <2>2. CASE u = t /\ ~IsFree(t)
    <3>1. pc'[t] = "aquire_test" /\ fInUse[i[t]] /\ i'[t] = i[t] + 1 /\ i[t] \in Nat
      BY <2>2 DEF TypeOK
    <3>2. ASSUME NEW s \in Slots, i[t] <= s, ~fInUse[s] PROVE i[t] + 1 <= s
      BY <3>1, <3>2 DEF Slots
    <3> QED BY <2>2, <3>1, <3>2 DEF AquireInv
  <2>3. CASE u # t
    BY <2>3 DEF AquireInv, TypeOK
  <2> QED BY <2>1, <2>2, <2>3
<1>4. ReleaseInv'
  BY DEF ReleaseInv, TypeOK
<1> QED BY <1>1, <1>2, <1>3, <1>4

\* The only step that takes a slot: its flag was down, so that nobody had the
\* object, and no other task is inside aquire ().
LEMMA AquireSetIInv ==
  ASSUME OneAquirer, IInv, NEW t \in Tasks, AquireSet(t) PROVE IInv'
<1> USE PoolScanAssumption DEF AquireSet, Goto, Flags, IInv
<1>1. i[t] \in Slots /\ ~fInUse[i[t]] /\ t \in Aquirers
  BY DEF TypeOK, AquireInv
<1>2. TypeOK'
  BY <1>1 DEF TypeOK, Slots, Steps
<1>3. OneOwner'
  BY <1>1 DEF OneOwner, ReleaseInv, TypeOK
<1>4. AquireInv'
  <2> SUFFICES ASSUME NEW u \in Tasks PROVE pc'[u] \notin {"aquire_test", "aquire_set"}
      BY DEF AquireInv
  <2> QED BY <1>1 DEF AquireInv, TypeOK, OneAquirer
<1>5. ReleaseInv'
  BY <1>1 DEF ReleaseInv, TypeOK
<1> QED BY <1>2, <1>3, <1>4, <1>5

\* An aquire () that returns nullptr takes nothing.
LEMMA AquireNullIInv ==
  ASSUME IInv, NEW t \in Tasks, AquireNull(t) PROVE IInv'
<1> USE PoolScanAssumption DEF AquireNull, Goto, IInv
<1>1. TypeOK'
  BY DEF TypeOK, Steps
<1>2. OneOwner' /\ AquireInv' /\ ReleaseInv'
  BY DEF OneOwner, AquireInv, ReleaseInv, TypeOK
<1> QED BY <1>1, <1>2

\* The object goes from its holder to the call.
LEMMA CallReleaseIInv ==
  ASSUME IInv, NEW t \in Tasks, NEW u \in Tasks, NEW s \in Slots, CallRelease(t, u, s)
  PROVE  IInv'
<1> USE PoolScanAssumption DEF CallRelease, Goto, Start, IInv
<1>1. TypeOK'
  BY DEF TypeOK, Slots, Steps
<1>2. OneOwner'
  BY DEF OneOwner, TypeOK
<1>3. AquireInv'
  BY DEF AquireInv, TypeOK
<1>4. ReleaseInv'
  <2>1. s # nullptr /\ fInUse[s]
    BY DEF OneOwner, Slots
  <2> QED BY <2>1 DEF ReleaseInv, TypeOK
<1> QED BY <1>1, <1>2, <1>3, <1>4

\* The flag that release () finds is that of its argument.
LEMMA ReleaseTestIInv ==
  ASSUME IInv, NEW t \in Tasks, ReleaseTest(t) PROVE IInv'
<1> USE PoolScanAssumption DEF ReleaseTest, Goto, Advance, IsFile, IInv
<1>1. TypeOK'
  <2>1. fInUse' \in [Slots -> BOOLEAN] /\ full' \in [Tasks -> BOOLEAN]
    BY DEF TypeOK
  <2>2. pc' \in [Tasks -> Steps]
    BY DEF TypeOK, Steps
  <2>3. i' \in [Tasks -> 0 .. fSize]
    <3>1. i[t] < fSize => i[t] + 1 \in 0 .. fSize
      BY DEF TypeOK
    <3> QED BY <3>1 DEF TypeOK
  <2>4. ASSUME NEW u \in Tasks, pc'[u] \in {"aquire_set", "release_clear"}
        PROVE  i'[u] \in Slots
    <3>1. CASE u = t
      BY <2>4, <3>1 DEF TypeOK, Slots, Steps
    <3>2. CASE u # t
      BY <2>4, <3>2 DEF TypeOK
    <3> QED BY <3>1, <3>2
  <2>5. file' \in [Tasks -> Slots \cup {nullptr}] /\ holders' \in [Tasks -> SUBSET Slots]
    BY DEF TypeOK
  <2> QED BY <2>1, <2>2, <2>3, <2>4, <2>5 DEF TypeOK
<1>2. OneOwner'
  BY DEF OneOwner, TypeOK
<1>3. AquireInv'
  BY DEF AquireInv, TypeOK
<1>4. ReleaseInv'
  BY DEF ReleaseInv, TypeOK
<1> QED BY <1>1, <1>2, <1>3, <1>4

\* A flag that goes down only helps the scans of the others.
LEMMA ReleaseClearIInv ==
  ASSUME IInv, NEW t \in Tasks, ReleaseClear(t) PROVE IInv'
<1> USE PoolScanAssumption DEF ReleaseClear, Goto, Flags, IInv
<1>1. i[t] \in Slots /\ file[t] = i[t] /\ file[t] # nullptr
  BY DEF TypeOK, ReleaseInv
<1>2. TypeOK'
  <2>1. fInUse' \in [Slots -> BOOLEAN] /\ pc' \in [Tasks -> Steps]
    BY DEF TypeOK, Steps
  <2>2. full' \in [Tasks -> BOOLEAN]
    BY DEF TypeOK
  <2>3. file' \in [Tasks -> Slots \cup {nullptr}]
    BY DEF TypeOK
  <2>4. ASSUME NEW u \in Tasks, pc'[u] \in {"aquire_set", "release_clear"}
        PROVE  i'[u] \in Slots
    BY <2>4 DEF TypeOK
  <2> QED BY <2>1, <2>2, <2>3, <2>4 DEF TypeOK
<1>3. OneOwner'
  <2>1. \A u \in Tasks : file'[u] = IF u = t THEN nullptr ELSE file[u]
    BY DEF TypeOK
  <2>2. \A u \in Tasks : \A s \in holders[u] : s \in Slots /\ s # i[t] /\ s # nullptr
    BY <1>1 DEF OneOwner, TypeOK, Slots
  <2>3. \A s \in Slots : s # i[t] => fInUse'[s] = fInUse[s]
    BY DEF TypeOK
  <2> QED BY <2>1, <2>2, <2>3 DEF OneOwner
<1>4. AquireInv'
  BY <1>1 DEF AquireInv, TypeOK
<1>5. ReleaseInv'
  BY <1>1 DEF ReleaseInv, OneOwner, TypeOK
<1> QED BY <1>2, <1>3, <1>4, <1>5

\* The invariant, for every pool and every set of tasks of which one at most
\* calls aquire ().
THEOREM ScanSafety == ASSUME OneAquirer PROVE Spec => []IInv
<1>1. ASSUME IInv, [Next]_vars PROVE IInv'
  <2>1. CASE UNCHANGED vars
    BY <1>1, <2>1 DEF vars, IInv, TypeOK, OneOwner, AquireInv, ReleaseInv
  <2>2. ASSUME NEW t \in Tasks, CallAquire(t) PROVE IInv'
    BY <1>1, <2>2, CallAquireIInv
  <2>3. ASSUME NEW t \in Tasks, NEW u \in Tasks, NEW s \in Slots, CallRelease(t, u, s)
        PROVE  IInv'
    BY <1>1, <2>3, CallReleaseIInv
  <2>4. ASSUME NEW t \in Tasks, Step(t) PROVE IInv'
    BY <1>1, <2>4, OneAquirer, AquireTestIInv, AquireSetIInv, AquireNullIInv,
       ReleaseTestIInv, ReleaseClearIInv DEF Step
  <2> QED BY <1>1, <2>1, <2>2, <2>3, <2>4 DEF Next
<1> QED BY InitIInv, <1>1, PTL DEF Spec

\* Pool::aquire () of one task and Pool::release () of the others never give
\* an object a second owner, whatever their interleaving.
THEOREM OneOwnerIfOneAquirer == ASSUME OneAquirer PROVE Spec => []OneOwner
<1>1. IInv => OneOwner
  BY DEF IInv
<1> QED BY ScanSafety, <1>1, PTL

\* Pool::aquire () of that task gives nullptr only if the pool was full at
\* some moment of the call: a release () that overtakes the scan hides no slot.
THEOREM NullMeansFullIfOneAquirer == ASSUME OneAquirer PROVE Spec => []NullMeansFull
<1>1. ASSUME IInv PROVE NullMeansFull
  <2> SUFFICES ASSUME NEW t \in Tasks, pc[t] = "aquire_test", i[t] = fSize
               PROVE  full[t]
      BY DEF NullMeansFull
  <2>1. \A s \in Slots : ~(i[t] <= s)
    BY PoolScanAssumption DEF Slots
  <2> QED BY <1>1, <2>1 DEF IInv, AquireInv
<1> QED BY ScanSafety, <1>1, PTL

-----------------------------------------------------------------------------
(* What makes calls return: apart from fairness *)

\* A scan of release () has not passed the slot of its object.
ReleaseAhead == \A t \in Tasks : pc[t] = "release_test" => i[t] <= file[t]

\* A flag that is up stays up until the call that is to clear it does.
LEMMA ReleaseAheadKeeps == IInv /\ ReleaseAhead /\ [Next]_vars => ReleaseAhead'
<1> SUFFICES ASSUME IInv, ReleaseAhead, [Next]_vars PROVE ReleaseAhead'
  OBVIOUS
<1> USE PoolScanAssumption DEF IInv, TypeOK, ReleaseAhead, Slots
<1>1. CASE UNCHANGED vars
  BY <1>1 DEF vars
<1>2. ASSUME NEW t \in Tasks, CallAquire(t) PROVE ReleaseAhead'
  BY <1>2 DEF CallAquire, Goto, Start
<1>3. ASSUME NEW t \in Tasks, NEW u \in Tasks, NEW s \in Slots, CallRelease(t, u, s)
      PROVE  ReleaseAhead'
  BY <1>3 DEF CallRelease, Goto, Start
<1>4. ASSUME NEW t \in Tasks, AquireTest(t) \/ AquireSet(t) \/ AquireNull(t)
      PROVE  ReleaseAhead'
  BY <1>4 DEF AquireTest, AquireSet, AquireNull, Goto, Advance
<1>5. ASSUME NEW t \in Tasks, ReleaseTest(t) PROVE ReleaseAhead'
  <2>1. file[t] \in Slots /\ fInUse[file[t]] /\ i[t] <= file[t]
    BY <1>5 DEF ReleaseTest, ReleaseInv
  <2>2. pc'[t] = "release_test" => i[t] # file[t] /\ i'[t] = i[t] + 1
    BY <1>5, <2>1 DEF ReleaseTest, Goto, Advance, IsFile
  <2>3. \A u \in Tasks \ {t} : i'[u] = i[u] /\ pc'[u] = pc[u] /\ file'[u] = file[u]
    BY <1>5 DEF ReleaseTest, Goto, Advance
  <2> QED BY <1>5, <2>1, <2>2, <2>3 DEF ReleaseTest
<1>6. ASSUME NEW t \in Tasks, ReleaseClear(t) PROVE ReleaseAhead'
  BY <1>6 DEF ReleaseClear, Goto
<1> QED BY <1>1, <1>2, <1>3, <1>4, <1>5, <1>6 DEF Next, Step

\* Pool::release () finds the object it is given, and does not run to the end
\* of the array: it never returns false to a task that holds the object.
ReleaseFinds == \A t \in Tasks : pc[t] = "release_test" => i[t] < fSize

\* For every pool, and every set of tasks of which one at most calls aquire ().
THEOREM ReleaseAlwaysFinds == ASSUME OneAquirer PROVE Spec => []ReleaseFinds
<1>1. Init => ReleaseAhead
  BY DEF Init, ReleaseAhead
<1>2. IInv /\ ReleaseAhead => ReleaseFinds
  BY PoolScanAssumption DEF IInv, TypeOK, ReleaseInv, ReleaseAhead, ReleaseFinds, Slots
<1> QED BY <1>1, <1>2, ReleaseAheadKeeps, ScanSafety, PTL DEF Spec

\* How many steps of its own a call needs at most.
StepsLeft(t) ==
  IF pc[t] \in {"aquire_test", "release_test"} THEN (fSize - i[t]) + 2
  ELSE IF pc[t] \in {"aquire_set", "release_clear"} THEN 1
  ELSE 0

\* Every step of a task brings its call nearer to its end, and no step of
\* another task puts it off.
CallsGetShorter ==
  [][\A t \in Tasks : pc[t] # "idle" =>
        /\ StepsLeft(t)' \in Nat /\ StepsLeft(t)' <= StepsLeft(t)
        /\ Step(t) => StepsLeft(t)' < StepsLeft(t)]_vars

\* What EveryCallReturns rests on apart from the scheduler: a call needs at
\* most one step for each slot and two more, whatever flags other tasks change.
THEOREM ScansGetShorter == ASSUME OneAquirer PROVE Spec => CallsGetShorter
<1> USE PoolScanAssumption
<1>1. ASSUME IInv, IInv', [Next]_vars, NEW t \in Tasks, pc[t] # "idle"
      PROVE  /\ StepsLeft(t)' \in Nat /\ StepsLeft(t)' <= StepsLeft(t)
             /\ Step(t) => StepsLeft(t)' < StepsLeft(t)
  <2> USE DEF IInv, TypeOK, Steps, Slots, StepsLeft
  <2>1. StepsLeft(t) \in Nat /\ StepsLeft(t)' \in Nat
    BY <1>1
  <2>2. ASSUME Step(t) PROVE StepsLeft(t)' < StepsLeft(t)
    BY <1>1, <2>2 DEF Step, AquireTest, AquireSet, AquireNull, ReleaseTest, ReleaseClear, Goto,
                      Advance, IsFree, IsFile
  <2>3. ASSUME UNCHANGED <<pc[t], i[t]>> PROVE StepsLeft(t)' <= StepsLeft(t)
    BY <2>1, <2>3
  <2>4. Step(t) \/ UNCHANGED <<pc[t], i[t]>>
    <3>1. ASSUME NEW u \in Tasks, u # t, Step(u) PROVE UNCHANGED <<pc[t], i[t]>>
      BY <1>1, <3>1 DEF Step, AquireTest, AquireSet, AquireNull, ReleaseTest, ReleaseClear,
                        Goto, Advance
    <3>2. ASSUME NEW u \in Tasks,
                 CallAquire(u) \/ \E v \in Tasks, s \in Slots : CallRelease(u, v, s)
          PROVE  UNCHANGED <<pc[t], i[t]>>
      BY <1>1, <3>2 DEF CallAquire, CallRelease, Goto, Start
    <3> QED BY <1>1, <3>1, <3>2 DEF Next, vars
  <2> QED BY <2>1, <2>2, <2>3, <2>4
<1>2. IInv /\ IInv' /\ [Next]_vars =>
        [\A t \in Tasks : pc[t] # "idle" =>
           /\ StepsLeft(t)' \in Nat /\ StepsLeft(t)' <= StepsLeft(t)
           /\ Step(t) => StepsLeft(t)' < StepsLeft(t)]_vars
  BY <1>1
<1> QED BY <1>2, ScanSafety, PTL DEF Spec, CallsGetShorter
=============================================================================
