----------------------------- MODULE FileStreams -----------------------------
(***************************************************************************)
(* The chunked file streams of util::File (src/cpp/util/file.cpp): the     *)
(* OsRead producer, the OsWrite receiver with its temp file and commit,    *)
(* and the three callers that connect them:                                *)
(*   "hash"      File::Hash(src), reading src to the end;                  *)
(*   "hardcopy"  File::HardCopy(src, dst, overwrite, exist_ok);            *)
(*   "serve"     a fetch of dst from a peer: the fetching side's           *)
(*               File::Write(dst, false, false) receiver is fed through    *)
(*               File::Receiver::sendChunk by the peer's                   *)
(*               HandleRequestFile(src) / next_chunk promise chain.        *)
(* Each caller runs concurrently with the others on one src and one dst.  *)
(*                                                                         *)
(* A file's contents are the sequence of its chunks.  Faults names the    *)
(* system calls the environment may fail: "open" (open of src), "read",   *)
(* "close" (of src or of the temp file), "mkstemp", "write", "fsync" and  *)
(* "send" (the capnp call is rejected).                                    *)
(* rfd[c] / wfd[c] are the kernel descriptors of c's producer / receiver;  *)
(* "lost" is a descriptor still open in the kernel whose number the        *)
(* producer has already overwritten with -1.                               *)
(*                                                                         *)
(* The fault model also has MaxCrashes operating-system crashes: the page *)
(* cache is lost, the disk keeps what was fsynced, and the restarted      *)
(* process issues the same calls again.  A commit links or renames the    *)
(* temp file into place and never fsyncs the directory, so after a crash  *)
(* the destination may hold any version published since the last crash;  *)
(* of that version's chunks only those fsynced before the link are sure   *)
(* to survive.  versions holds these <<contents, synced chunks>> pairs.   *)
(***************************************************************************)
EXTENDS Naturals, Sequences

CONSTANTS Callers, SrcContent, OldContent, Faults, NoFile, EOS, MaxCrashes

ASSUME SrcContent # <<>> /\ SrcContent # OldContent

Ops == {"hash", "hardcopy", "serve"}

VARIABLES op,         \* which call c is making
          ow, eo,     \* its overwrite and exist_ok arguments
          pc,         \* where the call is
          rfd, rpos,  \* the producer's descriptor and how many chunks it read
          buf,        \* the chunk last produced, or EOS (the empty chunk)
          wfd, temp,  \* the receiver's descriptor and its mkostemp file
          noop,       \* Write returned the no-op receiver (exist_ok)
          done,       \* the receiver's *done flag: the commit has started
          dst,        \* contents at the destination path
          outcome,    \* "returned" or "thrown" once pc[c] = "done"
          versions,   \* what a crash may leave at the destination
          crashes

vars == <<op, ow, eo, pc, rfd, rpos, buf, wfd, temp, noop, done, dst, outcome,
          versions, crashes>>

\* A file on disk: its contents and how many of its chunks are durable.
Durable(f) == <<f, IF f = NoFile THEN 0 ELSE Len(f)>>

TypeOK ==
  /\ op \in [Callers -> Ops]
  /\ ow \in [Callers -> BOOLEAN] /\ eo \in [Callers -> BOOLEAN]
  /\ pc \in [Callers -> {"write", "open", "read", "put", "send", "wait", "done"}]
  /\ rfd \in [Callers -> {"none", "open", "lost", "closed"}]
  /\ rpos \in [Callers -> 0 .. Len(SrcContent)]
  /\ wfd \in [Callers -> {"none", "open", "closed"}]
  /\ noop \in [Callers -> BOOLEAN] /\ done \in [Callers -> BOOLEAN]
  /\ outcome \in [Callers -> {"none", "returned", "thrown"}]
  /\ crashes \in 0 .. MaxCrashes

Entry(c) == IF op[c] = "serve" THEN "write" ELSE "open"

\* HardCopy takes its flags from Copy; a fetch writes with overwrite and
\* exist_ok false (local_executor.cpp:209-210).
Init ==
  /\ op \in [Callers -> Ops]
  /\ ow \in [Callers -> BOOLEAN] /\ eo \in [Callers -> BOOLEAN]
  /\ \A c \in Callers : op[c] # "hardcopy" => ~ow[c] /\ ~eo[c]
  /\ pc = [c \in Callers |-> Entry(c)]
  /\ rfd = [c \in Callers |-> "none"] /\ rpos = [c \in Callers |-> 0]
  /\ buf = [c \in Callers |-> EOS]
  /\ wfd = [c \in Callers |-> "none"] /\ temp = [c \in Callers |-> NoFile]
  /\ noop = [c \in Callers |-> FALSE] /\ done = [c \in Callers |-> FALSE]
  /\ dst \in {NoFile, OldContent}
  /\ outcome = [c \in Callers |-> "none"]
  /\ versions = {Durable(dst)} /\ crashes = 0

Set(f, c, v) == [f EXCEPT ![c] = v]

Goto(c, next) ==
  /\ pc' = Set(pc, c, next)
  /\ outcome' = IF next = "done" THEN Set(outcome, c, "returned") ELSE outcome

\* An exception leaves the call; the producer and receiver lambdas are
\* destroyed, and neither closes its descriptor.
Unwind(c) == pc' = Set(pc, c, "done") /\ outcome' = Set(outcome, c, "thrown")

\* The receiver's kj::defer finalizer: a temp file never committed is removed.
Finalize(c) == temp' = IF done[c] THEN temp ELSE Set(temp, c, NoFile)

-----------------------------------------------------------------------------
(* The producer: OsRead and the lambda it returns.                         *)

OpenSrc(c) ==
  /\ pc[c] = "open"
  /\ \/ /\ "open" \in Faults
        /\ Unwind(c) /\ Finalize(c)
        /\ UNCHANGED <<rfd, wfd>>
     \/ /\ rfd' = Set(rfd, c, "open")
        /\ Goto(c, IF op[c] = "hardcopy" THEN "write" ELSE "read")
        /\ UNCHANGED <<temp, wfd>>
  /\ UNCHANGED <<op, ow, eo, rpos, buf, noop, done, dst, versions>>

\* Where the caller goes with the chunk it got from producer().
AfterRead(c, chunk) ==
  CASE op[c] = "hash"     -> IF chunk = EOS THEN "done" ELSE "read"
    [] op[c] = "hardcopy" -> "put"
    [] op[c] = "serve"    -> "send"

\* One producer() call.  A read error and a failing close both set fd to
\* -1 first; on the read error path close(-1) then leaves the descriptor
\* open.  No caller calls the producer again after its empty chunk, so
\* the fd == -1 early return (line 148) is not an action.
Read(c) ==
  /\ pc[c] = "read"
  /\ \/ /\ rfd[c] = "open" /\ rpos[c] < Len(SrcContent)
        /\ rpos' = Set(rpos, c, rpos[c] + 1)
        /\ buf' = Set(buf, c, SrcContent[rpos'[c]])
        /\ Goto(c, AfterRead(c, buf'[c]))
        /\ UNCHANGED <<rfd, temp>>
     \/ /\ rfd[c] = "open" /\ "read" \in Faults
        /\ rfd' = Set(rfd, c, "lost")
        /\ Unwind(c) /\ Finalize(c)
        /\ UNCHANGED <<rpos, buf>>
     \/ /\ rfd[c] = "open" /\ rpos[c] = Len(SrcContent)
        /\ rfd' = Set(rfd, c, "closed")
        /\ \/ buf' = Set(buf, c, EOS) /\ Goto(c, AfterRead(c, EOS)) /\ UNCHANGED temp
           \/ "close" \in Faults /\ Unwind(c) /\ Finalize(c) /\ UNCHANGED buf
        /\ UNCHANGED rpos
  /\ UNCHANGED <<op, ow, eo, wfd, noop, done, dst, versions>>

-----------------------------------------------------------------------------
(* The receiver: File::Write, OsWrite and the lambda it returns.           *)

\* OsWrite: mkostemp next to the destination.
OsWriteOpen(c, next) ==
  \/ /\ "mkstemp" \in Faults
     /\ Unwind(c) /\ UNCHANGED <<temp, wfd>>
  \/ /\ temp' = Set(temp, c, <<>>) /\ wfd' = Set(wfd, c, "open")
     /\ Goto(c, next)

\* File::Write: an existing destination without overwrite is a no-op
\* receiver under exist_ok and EEXIST otherwise.
OpenWrite(c) ==
  LET next == IF op[c] = "serve" THEN "open" ELSE "read" IN
  /\ pc[c] = "write"
  /\ IF ~ow[c] /\ dst # NoFile
       THEN IF eo[c]
              THEN noop' = Set(noop, c, TRUE) /\ Goto(c, next) /\ UNCHANGED <<temp, wfd>>
              ELSE Unwind(c) /\ UNCHANGED <<temp, wfd, noop>>
       ELSE OsWriteOpen(c, next) /\ UNCHANGED noop
  /\ UNCHANGED <<op, ow, eo, rfd, rpos, buf, done, dst, versions>>

\* Mutant: the receiver writes its chunks straight into the destination.
WriteChunkInPlace(c, chunk, next) ==
  \/ /\ dst' = IF dst = NoFile THEN <<chunk>> ELSE Append(dst, chunk)
     /\ Goto(c, next) /\ UNCHANGED <<temp, wfd, versions>>
  \/ /\ "write" \in Faults
     /\ wfd' = Set(wfd, c, "closed") /\ Unwind(c) /\ Finalize(c)
     /\ UNCHANGED <<dst, versions>>

\* A data chunk: the write loop, or a write error that closes the fd and
\* throws.
WriteChunk(c, chunk, next) ==
  \/ /\ temp' = Set(temp, c, Append(temp[c], chunk))
     /\ Goto(c, next) /\ UNCHANGED <<wfd, dst, versions>>
  \/ /\ "write" \in Faults
     /\ wfd' = Set(wfd, c, "closed") /\ Unwind(c) /\ Finalize(c)
     /\ UNCHANGED <<dst, versions>>

\* OsAtomicMove(temp, dst, overwrite, exist_ok), after fsync and close;
\* synced is how many chunks of the temp file fsync made durable.
AtomicMove(c, next, synced) ==
  LET Publish == /\ dst' = temp[c] /\ temp' = Set(temp, c, NoFile)
                 /\ versions' = versions \cup {<<temp[c], synced>>}
                 /\ Goto(c, next)
  IN CASE ow[c] -> Publish
       [] dst = NoFile -> Publish
       [] eo[c] -> Goto(c, next) /\ UNCHANGED <<dst, versions, temp>>
       [] OTHER -> Unwind(c) /\ UNCHANGED <<dst, versions, temp>>

\* Mutant: the temp file is moved into place without the fsync.
CommitUnsynced(c, next) ==
  /\ done' = Set(done, c, TRUE)
  /\ wfd' = Set(wfd, c, "closed")
  /\ AtomicMove(c, next, 0)

\* The empty chunk commits: *done = true, then fsync || close || atomic
\* move.  A failing fsync skips the close, leaving the descriptor open; a
\* failing close still frees it.  Either throws with *done already set,
\* so the finalizer keeps the temp file.
Commit(c, next) ==
  /\ done' = Set(done, c, TRUE)
  /\ \/ /\ "fsync" \in Faults
        /\ Unwind(c) /\ UNCHANGED <<wfd, temp, dst, versions>>
     \/ /\ wfd' = Set(wfd, c, "closed")
        /\ \/ AtomicMove(c, next, Len(temp[c]))
           \/ "close" \in Faults /\ Unwind(c) /\ UNCHANGED <<temp, dst, versions>>

\* receiver(chunk): the no-op receiver of exist_ok, or OsWrite's lambda.
Receive(c, chunk, next) ==
  IF noop[c]
    THEN Goto(c, next) /\ UNCHANGED <<temp, wfd, done, dst, versions>>
    ELSE IF chunk = EOS
      THEN Commit(c, next)
      ELSE WriteChunk(c, chunk, next) /\ UNCHANGED done

-----------------------------------------------------------------------------
(* The callers.                                                            *)

\* HardCopy's loop body: receiver(chunk) for each chunk, then the final
\* empty chunk.
Put(c) ==
  /\ pc[c] = "put"
  /\ Receive(c, buf[c], IF buf[c] = EOS THEN "done" ELSE "read")
  /\ UNCHANGED <<op, ow, eo, rfd, rpos, buf, noop>>

\* next_chunk: sendChunkRequest(chunk).send(); a rejected call ends both
\* the peer's chain and the fetch, whose receiver is then destroyed.
Send(c) ==
  /\ pc[c] = "send"
  /\ \/ Goto(c, "wait") /\ UNCHANGED temp
     \/ "send" \in Faults /\ Unwind(c) /\ Finalize(c)
  /\ UNCHANGED <<op, ow, eo, rfd, rpos, buf, wfd, noop, done, dst, versions>>

\* Mutant: the continuation asks for another chunk even after the empty one.
DeliverAlwaysContinue(c) ==
  /\ pc[c] = "wait"
  /\ Receive(c, buf[c], "read")
  /\ UNCHANGED <<op, ow, eo, rfd, rpos, buf, noop>>

\* Receiver::sendChunk runs receiver_(chunk) on the fetching side; when
\* the call resolves, next_chunk continues while the chunk was non-empty.
Deliver(c) ==
  /\ pc[c] = "wait"
  /\ Receive(c, buf[c], IF buf[c] = EOS THEN "done" ELSE "read")
  /\ UNCHANGED <<op, ow, eo, rfd, rpos, buf, noop>>

Step(c) ==
  /\ \/ OpenSrc(c) \/ OpenWrite(c) \/ Read(c) \/ Put(c) \/ Send(c) \/ Deliver(c)
  /\ UNCHANGED crashes

\* An operating-system crash and the restart of the process, which makes
\* the same calls again.  The kernel closes every descriptor; temp files
\* stay on disk where nothing refers to them any more.
Crash ==
  /\ crashes < MaxCrashes
  /\ crashes' = crashes + 1
  /\ \E v \in versions :
       /\ dst' \in IF v[1] = NoFile THEN {NoFile}
                   ELSE {SubSeq(v[1], 1, k) : k \in v[2] .. Len(v[1])}
       /\ versions' = {Durable(dst')}
  /\ pc' = [c \in Callers |-> Entry(c)]
  /\ rfd' = [c \in Callers |-> "none"] /\ rpos' = [c \in Callers |-> 0]
  /\ buf' = [c \in Callers |-> EOS]
  /\ wfd' = [c \in Callers |-> "none"] /\ temp' = [c \in Callers |-> NoFile]
  /\ noop' = [c \in Callers |-> FALSE] /\ done' = [c \in Callers |-> FALSE]
  /\ outcome' = [c \in Callers |-> "none"]
  /\ UNCHANGED <<op, ow, eo>>

Next == (\E c \in Callers : Step(c)) \/ Crash

\* Each caller is a runnable thread or a pending capnp call that the peer
\* answers or the transport rejects.
Spec == Init /\ [][Next]_vars /\ \A c \in Callers : WF_vars(Step(c))

-----------------------------------------------------------------------------
(* Properties.                                                             *)

\* Spec 4.1: only the final commit publishes.  Whatever the interleaving of
\* copies and fetches and whichever system call fails, the destination is
\* absent, its old contents, or the whole source, never a partial file.
DestinationAtomic == dst \in {NoFile, OldContent, SrcContent}

\* Every Hash, HardCopy and fetch eventually returns or throws: the
\* producer ends after its empty chunk and next_chunk stops after sending it.
CallsReturn == \A c \in Callers : <>(pc[c] = "done")

\* Spec 4.1 (all filesystem errors surface, no silent masking) and the
\* descriptor table as a resource: once a call has returned or thrown,
\* every descriptor it opened is closed.
DescriptorsReleased ==
  \A c \in Callers : pc[c] = "done" =>
     rfd[c] \in {"none", "closed"} /\ wfd[c] \in {"none", "closed"}
==============================================================================
