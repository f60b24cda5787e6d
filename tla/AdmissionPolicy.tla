--------------------------- MODULE AdmissionPolicy ---------------------------
(***************************************************************************)
(* What the admission guard of the local executor promises (spec 4.3 and  *)
(* 5): a request either gets a slot at once or is refused with            *)
(* worker_busy; a shared request is admitted exactly when no exclusive run *)
(* holds the worker and fewer than maxThreads shared runs hold it; an      *)
(* exclusive request is admitted exactly when the worker is idle.          *)
(* The state is only who holds the worker; there is no counter.            *)
(***************************************************************************)
EXTENDS Naturals, FiniteSets

CONSTANTS Threads,     \* threads calling LocalExecutor::Execute
          Capacities   \* the values maxThreads may be given

VARIABLES guard,       \* guard[t]: "idle", "busy" (last try refused), "shared", "exclusive"
          maxThreads

vars == <<guard, maxThreads>>

Holding(mode) == {t \in Threads : guard[t] = mode}

MayAdmitShared == Holding("exclusive") = {} /\ Cardinality(Holding("shared")) < maxThreads

MayAdmitExclusive == Holding("exclusive") \cup Holding("shared") = {}

Init == guard = [t \in Threads |-> "idle"] /\ maxThreads = 0

Configure(n) == maxThreads' = n /\ UNCHANGED guard

Try(t, mode, allowed) ==
  /\ guard[t] \in {"idle", "busy"}
  /\ guard' = [guard EXCEPT ![t] = IF allowed THEN mode ELSE "busy"]
  /\ UNCHANGED maxThreads

Leave(t) ==
  /\ guard[t] \in {"shared", "exclusive"}
  /\ guard' = [guard EXCEPT ![t] = "idle"]
  /\ UNCHANGED maxThreads

Next ==
  \/ \E n \in Capacities : Configure(n)
  \/ \E t \in Threads : \/ Try(t, "shared", MayAdmitShared)
                        \/ Try(t, "exclusive", MayAdmitExclusive)
                        \/ Leave(t)

Spec == Init /\ [][Next]_vars
==============================================================================
