------------------------------ MODULE PoolScan ------------------------------
(***************************************************************************)
(* Pool::aquire () and Pool::release () at the granularity of their reads  *)
(* and writes of fInUse, called by tasks that preempt each other.  Neither *)
(* takes a lock.  A slot stands for the object constructed in it.          *)
(***************************************************************************)
EXTENDS Naturals

CONSTANTS Tasks,
          Aquirers,  \* the tasks that call aquire ()
          fSize, nullptr

ASSUME PoolScanAssumption == /\ Aquirers \subseteq Tasks
                             /\ fSize \in Nat
                             /\ nullptr \notin 0 .. fSize

VARIABLES fInUse,   \* slot -> flag
          pc,       \* task -> where it is in the code
          i,        \* task -> its loop variable
          file,     \* task -> the argument of release ()
          holders,  \* task -> objects aquire () returned to it
          full      \* task -> every flag was up at some moment of its aquire ()

vars == <<fInUse, pc, i, file, holders, full>>

Slots == 0 .. (fSize - 1)

Steps == {"idle", "aquire_test", "aquire_set", "release_test", "release_clear"}

AllUp == \A s \in Slots : fInUse[s]

Init == /\ fInUse = [s \in Slots |-> FALSE]
        /\ pc = [t \in Tasks |-> "idle"]
        /\ i = [t \in Tasks |-> 0]
        /\ file = [t \in Tasks |-> nullptr]
        /\ holders = [t \in Tasks |-> {}]
        /\ full = [t \in Tasks |-> FALSE]

Goto(t, step) == pc' = [pc EXCEPT ![t] = step]

\* Mutation: the scan leaves out the first slot.
Start_AtOne(t) == i' = [i EXCEPT ![t] = 1]

Start(t) == i' = [i EXCEPT ![t] = 0]

\* Mutation: the loop does not advance.
Advance_Not(t) == UNCHANGED i

Advance(t) == i' = [i EXCEPT ![t] = @ + 1]

\* full is history, kept for NullMeansFull.
Flags(new) == /\ fInUse' = new
              /\ full' = [u \in Tasks |-> full[u] \/ \A s \in Slots : new[s]]

-----------------------------------------------------------------------------
(* aquire () *)

CallAquire(t) == /\ t \in Aquirers /\ pc[t] = "idle"
                 /\ Goto(t, "aquire_test")
                 /\ Start(t)
                 /\ full' = [full EXCEPT ![t] = AllUp]
                 /\ UNCHANGED <<fInUse, file, holders>>

\* Mutation: the flag is not tested.
IsFree_Untested(t) == i[t] < fSize

IsFree(t) == i[t] < fSize /\ ~fInUse[i[t]]

AquireTest(t) ==
  /\ pc[t] = "aquire_test"
  /\ \/ /\ IsFree(t)
        /\ Goto(t, "aquire_set")
        /\ UNCHANGED i
     \/ /\ i[t] < fSize /\ ~IsFree(t)
        /\ Advance(t)
        /\ UNCHANGED pc
  /\ UNCHANGED <<fInUse, file, holders, full>>

AquireSet(t) ==
  /\ pc[t] = "aquire_set"
  /\ Flags([fInUse EXCEPT ![i[t]] = TRUE])
  /\ holders' = [holders EXCEPT ![t] = @ \cup {i[t]}]
  /\ Goto(t, "idle")
  /\ UNCHANGED <<i, file>>

\* The loop ran to its end: nullptr.
AquireNull(t) == /\ pc[t] = "aquire_test" /\ i[t] = fSize
                 /\ Goto(t, "idle")
                 /\ UNCHANGED <<fInUse, i, file, holders, full>>

-----------------------------------------------------------------------------
(* release () *)

\* By the task that holds the object, or by one it was handed to.
CallRelease(t, u, s) == /\ pc[t] = "idle" /\ s \in holders[u]
                        /\ holders' = [holders EXCEPT ![u] = @ \ {s}]
                        /\ file' = [file EXCEPT ![t] = s]
                        /\ Start(t)
                        /\ Goto(t, "release_test")
                        /\ UNCHANGED <<fInUse, full>>

IsFile(t) == i[t] < fSize /\ fInUse[i[t]] /\ i[t] = file[t]

\* A release () that finds nothing, i[t] = fSize, would return false.  With one
\* task in aquire () no scan gets there (ReleaseAlwaysFinds of PoolScanProofs),
\* so the action has no such outcome.
ReleaseTest(t) ==
  /\ pc[t] = "release_test"
  /\ \/ /\ IsFile(t)
        /\ Goto(t, "release_clear")
        /\ UNCHANGED i
     \/ /\ i[t] < fSize /\ ~IsFile(t)
        /\ Advance(t)
        /\ UNCHANGED pc
  /\ UNCHANGED <<fInUse, file, holders, full>>

ReleaseClear(t) ==
  /\ pc[t] = "release_clear"
  /\ Flags([fInUse EXCEPT ![i[t]] = FALSE])
  /\ file' = [file EXCEPT ![t] = nullptr]
  /\ Goto(t, "idle")
  /\ UNCHANGED <<i, holders>>

-----------------------------------------------------------------------------

Step(t) == \/ AquireTest(t) \/ AquireSet(t) \/ AquireNull(t)
           \/ ReleaseTest(t) \/ ReleaseClear(t)

Next == \E t \in Tasks :
          \/ CallAquire(t)
          \/ \E u \in Tasks, s \in Slots : CallRelease(t, u, s)
          \/ Step(t)

\* A task that is inside a call goes on: the scheduler runs every ready task.
Spec == Init /\ [][Next]_vars /\ \A t \in Tasks : WF_vars(Step(t))

-----------------------------------------------------------------------------
(* Properties *)

\* The types of the declarations; the loop variable of a task about to write
\* is a slot.
TypeOK ==
  /\ fInUse \in [Slots -> BOOLEAN]
  /\ pc \in [Tasks -> Steps]
  /\ i \in [Tasks -> 0 .. fSize]
  /\ file \in [Tasks -> Slots \cup {nullptr}]
  /\ holders \in [Tasks -> SUBSET Slots]
  /\ full \in [Tasks -> BOOLEAN]
  /\ \A t \in Tasks : pc[t] \in {"aquire_set", "release_clear"} => i[t] \in Slots

\* An object has one owner: it is not in the hands of two tasks, nor in those
\* of one while another is giving it back, and its flag is up meanwhile.
OneOwner ==
  \A t \in Tasks :
    /\ \A s \in holders[t] : /\ fInUse[s]
                             /\ \A u \in Tasks : s # file[u] /\ (u # t => s \notin holders[u])
    /\ \A u \in Tasks \ {t} : file[t] # nullptr => file[t] # file[u]

\* aquire () gives nullptr only if at some moment of the call no object was
\* free, however releases overtake its scan.
NullMeansFull ==
  \A t \in Tasks : pc[t] = "aquire_test" /\ i[t] = fSize => full[t]

\* Neither scan waits: a call returns whatever the other tasks do.
EveryCallReturns == \A t \in Tasks : pc[t] # "idle" ~> pc[t] = "idle"
=============================================================================
