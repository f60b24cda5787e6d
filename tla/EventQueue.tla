------------------------------ MODULE EventQueue ------------------------------
(***************************************************************************)
(* manager::EventQueue (src/manager/event_queue.{hpp,cpp}): producer       *)
(* threads Enqueue typed events, some thread calls Stop, and one writer    *)
(* thread per queue runs BindWriter, forwarding each dequeued event to a   *)
(* shared gRPC transport.  Enqueue, Dequeue and Stop each run under        *)
(* queue_mutex_, so each is one step; Dequeue's Await is its guard.        *)
(* Writers of queues in Serialized run BindWriter and hold the shared      *)
(* serializing mutex across each Write; the others run BindWriterUnlocked. *)
(*                                                                         *)
(* An event is <<p, k>>: the k-th event producer p enqueued.  What the     *)
(* helper constructors put into it is payload and left out.                *)
(***************************************************************************)
EXTENDS Naturals, Sequences, FiniteSets

CONSTANTS Queues,      \* EventQueue objects, one subscriber writer each
          Producers,   \* threads calling the typed helpers (Enqueue)
          MaxEvents,   \* events each producer enqueues, a model bound
          Serialized,  \* queues whose writer uses BindWriter(writer, mutex)
          None

ASSUME Serialized \subseteq Queues /\ None \notin Queues

EventIds == Producers \X (1 .. MaxEvents)

VARIABLES queue,     \* queue_: the std::queue of each EventQueue
          stopped,   \* stopped_
          wpc,       \* where each queue's BindWriter loop is
          held,      \* the event its Dequeue returned, being written
          mutex,     \* holder of the serializing std::mutex, or None
          stream,    \* events the transport has received, in order
          sent       \* events each producer has enqueued

vars == <<queue, stopped, wpc, held, mutex, stream, sent>>

TypeOK ==
  /\ queue \in [Queues -> Seq(EventIds)]
  /\ stopped \in [Queues -> BOOLEAN]
  /\ wpc \in [Queues -> {"dequeue", "lock", "write", "ended"}]
  /\ held \in [Queues -> EventIds \cup {None}]
  /\ mutex \in Queues \cup {None}
  /\ stream \in Seq(EventIds)
  /\ sent \in [Producers -> 0 .. MaxEvents]

Init ==
  /\ queue = [q \in Queues |-> <<>>]
  /\ stopped = [q \in Queues |-> FALSE]
  /\ wpc = [q \in Queues |-> "dequeue"]
  /\ held = [q \in Queues |-> None]
  /\ mutex = None
  /\ stream = <<>>
  /\ sent = [p \in Producers |-> 0]

\* The private builders (Compilation, Generation, Evaluation, ...): a
\* fresh proto::Event from the helper's arguments.  The payload is named
\* by its producer and that producer's count, all the properties compare.
NewEvent(p) == <<p, sent[p] + 1>>

\* EventQueue::Enqueue: a push under the queue mutex, whether or not the
\* queue was stopped.
Enqueue(q, e) == queue' = [queue EXCEPT ![q] = Append(@, e)]

\* A public typed helper (FatalError, TaskScore, CompilationDone, ...)
\* called by producer p: it builds its event and enqueues it.
Notify(p, q) ==
  /\ sent[p] < MaxEvents
  /\ Enqueue(q, NewEvent(p))
  /\ sent' = [sent EXCEPT ![p] = @ + 1]
  /\ UNCHANGED <<stopped, wpc, held, mutex, stream>>

\* EventQueue::Stop.
Stop(q) ==
  /\ stopped' = [stopped EXCEPT ![q] = TRUE]
  /\ UNCHANGED <<queue, wpc, held, mutex, stream, sent>>

\* Dequeue, as a writer that checks the stop flag first would do it.
DequeueDiscardOnStop(q) ==
  /\ wpc[q] = "dequeue"
  /\ stopped[q] \/ queue[q] # <<>>
  /\ IF stopped[q]
       THEN wpc' = [wpc EXCEPT ![q] = "ended"] /\ UNCHANGED <<queue, held>>
       ELSE /\ held' = [held EXCEPT ![q] = Head(queue[q])]
            /\ queue' = [queue EXCEPT ![q] = Tail(@)]
            /\ wpc' = [wpc EXCEPT ![q] = "lock"]
  /\ UNCHANGED <<stopped, mutex, stream, sent>>

\* One iteration's `event = Dequeue()` of the BindWriter loop: Await
\* stopped_ or a non-empty queue; an empty queue then ends the loop,
\* otherwise the front is popped.
Dequeue(q) ==
  /\ wpc[q] = "dequeue"
  /\ stopped[q] \/ queue[q] # <<>>
  /\ IF queue[q] = <<>>
       THEN wpc' = [wpc EXCEPT ![q] = "ended"] /\ UNCHANGED <<queue, held>>
       ELSE /\ held' = [held EXCEPT ![q] = Head(queue[q])]
            /\ queue' = [queue EXCEPT ![q] = Tail(@)]
            /\ wpc' = [wpc EXCEPT ![q] = "lock"]
  /\ UNCHANGED <<stopped, mutex, stream, sent>>

\* BindWriterUnlocked: the writer goes to the write without a mutex.
LockSkipped(q) ==
  /\ wpc[q] = "lock"
  /\ wpc' = [wpc EXCEPT ![q] = "write"]
  /\ UNCHANGED <<queue, stopped, held, mutex, stream, sent>>

\* BindWriter's lock_guard on the serializing mutex; BindWriterUnlocked
\* goes straight to the write.
Lock(q) ==
  \/ /\ q \in Serialized
     /\ wpc[q] = "lock"
     /\ mutex = None
     /\ mutex' = q
     /\ wpc' = [wpc EXCEPT ![q] = "write"]
     /\ UNCHANGED <<queue, stopped, held, stream, sent>>
  \/ q \notin Serialized /\ LockSkipped(q)

\* writer->Write(*event) completes; the lock_guard is released at the end
\* of the iteration.  wpc[q] = "write" is the call being in progress.
Write(q) ==
  /\ wpc[q] = "write"
  /\ stream' = Append(stream, held[q])
  /\ held' = [held EXCEPT ![q] = None]
  /\ mutex' = IF q \in Serialized THEN None ELSE mutex
  /\ wpc' = [wpc EXCEPT ![q] = "dequeue"]
  /\ UNCHANGED <<queue, stopped, sent>>

Next ==
  \/ \E p \in Producers, q \in Queues : Notify(p, q)
  \/ \E q \in Queues : Stop(q) \/ Dequeue(q) \/ Lock(q) \/ Write(q)

\* The writer threads are runnable and absl's Await re-checks its
\* condition whenever the queue mutex is released, so each writer step
\* that stays enabled is eventually taken.
Spec == Init /\ [][Next]_vars
        /\ \A q \in Queues : WF_vars(Dequeue(q)) /\ WF_vars(Lock(q)) /\ WF_vars(Write(q))

-----------------------------------------------------------------------------
(* Pending events of q: those still in queue_ and the one its writer holds. *)
Pending(q) == IF held[q] = None THEN queue[q] ELSE <<held[q]>> \o queue[q]

Channel == INSTANCE EventChannel
             WITH Events <- EventIds, pending <- [q \in Queues |-> Pending(q)],
                  closed <- stopped, finished <- [q \in Queues |-> wpc[q] = "ended"]

\* Spec 3 and 5: the transport receives each queue's events in enqueue
\* order, nothing is lost while the writer still runs, and after Stop the
\* writer drains the queue and then returns.  Checks Dequeue's Await and
\* empty-queue exit and BindWriter's loop against EventChannel.
ChannelRefinement == Channel!Spec
==============================================================================
