----------------------------- MODULE ThreadGuard -----------------------------
(***************************************************************************)
(* LocalExecutor::ThreadGuard (src/cpp/executor/local_executor.cpp):      *)
(* a process-wide size_t counter CurThreads and a bound MaxThreads, both   *)
(* function-local statics shared by every LocalExecutor.  The guard's      *)
(* constructor and destructor run under one mutex, so each is one atomic  *)
(* step.  The LocalExecutor constructor writes MaxThreads without the      *)
(* mutex.  size_t arithmetic wraps modulo 2^SizeBits.                      *)
(***************************************************************************)
EXTENDS Naturals, FiniteSets

CONSTANTS Threads,              \* threads calling LocalExecutor::Execute
          NumCores,             \* num_cores arguments given to LocalExecutor
          HardwareConcurrency,  \* what std::thread::hardware_concurrency() may return
          MaxExecutors,         \* bound on LocalExecutor objects constructed
          SizeBits              \* width of size_t in the model

SizeMod == 2 ^ SizeBits

ASSUME /\ MaxExecutors \in Nat \ {0}
       /\ \A n \in NumCores \cup HardwareConcurrency : n \in 0 .. SizeMod - 1

VARIABLES guard,       \* guard[t]: "idle", "busy" (last Execute refused), "shared", "exclusive"
          maxThreads,  \* MaxThreads()
          curThreads,  \* CurThreads()
          executors    \* LocalExecutor objects constructed so far

vars == <<guard, maxThreads, curThreads, executors>>

Modes == {"idle", "busy", "shared", "exclusive"}

TypeOK ==
  /\ guard \in [Threads -> Modes]
  /\ maxThreads \in 0 .. SizeMod - 1
  /\ curThreads \in 0 .. SizeMod - 1
  /\ executors \in 0 .. MaxExecutors

\* Both statics start at 0.
Init ==
  /\ guard = [t \in Threads |-> "idle"]
  /\ maxThreads = 0
  /\ curThreads = 0
  /\ executors = 0

\* LocalExecutor::LocalExecutor: num_cores 0 means hardware_concurrency(),
\* then SetMaxThreads overwrites the shared bound.
LocalExecutor(numCores) ==
  /\ executors < MaxExecutors
  /\ executors' = executors + 1
  /\ \E n \in IF numCores = 0 THEN HardwareConcurrency ELSE {numCores} :
        maxThreads' = n
  /\ UNCHANGED <<guard, curThreads>>

CanStart(t) == executors > 0 /\ guard[t] \in {"idle", "busy"}

\* Mutant: the exclusive guard does not check that the worker is idle.
ThreadGuardExclusiveUnchecked(t) ==
  /\ CanStart(t)
  /\ guard' = [guard EXCEPT ![t] = "exclusive"] /\ curThreads' = maxThreads
  /\ UNCHANGED <<maxThreads, executors>>

\* ThreadGuard(exclusive = true): refuse unless the counter is 0, then
\* claim every slot.
ThreadGuardExclusive(t) ==
  /\ CanStart(t)
  /\ IF curThreads # 0
       THEN guard' = [guard EXCEPT ![t] = "busy"] /\ UNCHANGED curThreads
       ELSE guard' = [guard EXCEPT ![t] = "exclusive"] /\ curThreads' = maxThreads
  /\ UNCHANGED <<maxThreads, executors>>

\* ThreadGuard(exclusive = false): refuse when the counter equals the bound,
\* otherwise take one slot.
ThreadGuardShared(t) ==
  /\ CanStart(t)
  /\ IF curThreads = maxThreads
       THEN guard' = [guard EXCEPT ![t] = "busy"] /\ UNCHANGED curThreads
       ELSE guard' = [guard EXCEPT ![t] = "shared"] /\ curThreads' = (curThreads + 1) % SizeMod
  /\ UNCHANGED <<maxThreads, executors>>

\* Mutant: the destructor decrements whatever the mode.
ReleaseDecrement(t) ==
  /\ guard[t] \in {"shared", "exclusive"}
  /\ curThreads' = (curThreads - 1) % SizeMod
  /\ guard' = [guard EXCEPT ![t] = "idle"]
  /\ UNCHANGED <<maxThreads, executors>>

\* ~ThreadGuard: an exclusive guard resets the counter, a shared one
\* decrements it.
Release(t) ==
  /\ guard[t] \in {"shared", "exclusive"}
  /\ curThreads' = IF guard[t] = "exclusive" THEN 0 ELSE (curThreads - 1) % SizeMod
  /\ guard' = [guard EXCEPT ![t] = "idle"]
  /\ UNCHANGED <<maxThreads, executors>>

Next ==
  \/ \E n \in NumCores : LocalExecutor(n)
  \/ \E t \in Threads : \/ ThreadGuardExclusive(t)
                        \/ ThreadGuardShared(t)
                        \/ Release(t)

\* Every sandbox run returns (spec 5: no cancellation, limits trip), so a
\* held guard is eventually destroyed.
Spec == Init /\ [][Next]_vars /\ \A t \in Threads : WF_vars(Release(t))

-----------------------------------------------------------------------------
Holding(mode) == {t \in Threads : guard[t] = mode}

\* Spec 5: an exclusive run sees the whole machine (it runs alone), and
\* shared runs never outnumber maxThreads.  Breaking it takes a sequence of
\* acquires and releases that leaves CurThreads out of step with the holders.
AdmissionExclusion ==
  /\ Holding("exclusive") # {} => Holding("shared") = {} /\ Cardinality(Holding("exclusive")) = 1
  /\ Cardinality(Holding("shared")) <= maxThreads

\* The guard admits and refuses exactly as the abstract admission policy
\* does: worker_busy only when the policy refuses, a slot only when it grants.
Policy == INSTANCE AdmissionPolicy WITH Capacities <- 0 .. SizeMod - 1

PolicyRefinement == Policy!Spec
==============================================================================
