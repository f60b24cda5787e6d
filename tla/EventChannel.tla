----------------------------- MODULE EventChannel -----------------------------
(***************************************************************************)
(* What an event stream promises its subscriber (spec 4.6, 5): each queue  *)
(* is a FIFO of events; the transport receives, from every queue, its      *)
(* events in enqueue order; closing a queue lets its reader finish once   *)
(* everything sent before has gone out, and what is sent after the reader *)
(* has finished is discarded.                                              *)
(***************************************************************************)
EXTENDS Sequences

CONSTANTS Queues, Events

VARIABLES pending,   \* pending[q]: sent to q and not yet on the transport
          stream,    \* what the transport has received, in order
          closed,    \* closed[q]: q was stopped
          finished   \* finished[q]: q's reader has returned

vars == <<pending, stream, closed, finished>>

Init ==
  /\ pending = [q \in Queues |-> <<>>]
  /\ stream = <<>>
  /\ closed = [q \in Queues |-> FALSE]
  /\ finished = [q \in Queues |-> FALSE]

Send(q, e) ==
  /\ pending' = [pending EXCEPT ![q] = Append(@, e)]
  /\ UNCHANGED <<stream, closed, finished>>

Close(q) ==
  /\ closed' = [closed EXCEPT ![q] = TRUE]
  /\ UNCHANGED <<pending, stream, finished>>

Deliver(q) ==
  /\ ~finished[q]
  /\ pending[q] # <<>>
  /\ stream' = Append(stream, Head(pending[q]))
  /\ pending' = [pending EXCEPT ![q] = Tail(@)]
  /\ UNCHANGED <<closed, finished>>

Finish(q) ==
  /\ closed[q] /\ ~finished[q]
  /\ pending[q] = <<>>
  /\ finished' = [finished EXCEPT ![q] = TRUE]
  /\ UNCHANGED <<pending, stream, closed>>

Next ==
  \E q \in Queues :
     \/ \E e \in Events : Send(q, e)
     \/ Close(q)
     \/ Deliver(q)
     \/ Finish(q)

\* The reader of a queue keeps forwarding while it has events and returns
\* once its queue is closed and empty.
Spec == Init /\ [][Next]_vars /\ \A q \in Queues : WF_vars(Deliver(q)) /\ WF_vars(Finish(q))
==============================================================================
