------------------------------- MODULE Executor -------------------------------
(***************************************************************************)
(* LocalExecutor::Execute (src/cpp/executor/local_executor.cpp) run by     *)
(* concurrent request threads over one content-addressed store, with the  *)
(* util::File operations it calls (src/cpp/util/file.cpp) and the         *)
(* admission guard of module ThreadGuard.                                  *)
(*                                                                         *)
(* Files.  A path is a tuple naming where it lives: StorePath(h) is the    *)
(* blob of hash h, StoreTemp(r, h) the mkostemp sibling a writer of that   *)
(* blob stages into, BoxPath(r, n) and TmpPath(r, s) the files of request  *)
(* r's TempDir.  fs[p] is the inode linked at p (NoFile when none); an     *)
(* inode is named after the path that created it, and content[i] is what  *)
(* its bytes hash to (Partial while a writer is still streaming chunks).   *)
(* A hardlink is fs[q] = fs[p]: both names share content and mode.         *)
(*                                                                         *)
(* Each request runs one Execute call; pc[r] is where that call is, and a  *)
(* thrown exception records outcome[r] and unwinds through "cleanup",     *)
(* which is the TempDir destructor.                                        *)
(***************************************************************************)
EXTENDS Naturals, Sequences, FiniteSets, SequencesExt

CONSTANTS Reqs,                 \* request threads, one Execute call each
          Requests,             \* the proto::Request values a call may carry
          Hashes,               \* blob contents, named by their SHA-256
          Names,                \* file names appearing in requests
          IllegalNames,         \* names containing '/' or NUL
          AbsoluteNames,        \* names beginning with '/'
          Infos,                \* sandbox::ExecutionInfo values Execute may return
          DeviceLayouts,        \* which of TRUE (temp and store directories share a
                                \* filesystem) and FALSE the worker may be set up with
          NoFile,               \* no inode linked at a path; no value yet
          Partial,              \* contents of a file still being written
          NumCores, HardwareConcurrency, MaxExecutors, SizeBits

ASSUME IllegalNames \subseteq Names /\ AbsoluteNames \subseteq IllegalNames

ASSUME {NoFile, Partial} \cap Hashes = {}

\* killed[r]: the part of Execute's result the properties read: whether the
\* sandbox stopped the run at a scaled limit.
VARIABLES pc, req, idx, loaded, killed, status, outs, outcome, tmp,
          fs, content, writable,
          guard, maxThreads, curThreads, executors,
          sameDevice            \* the worker's layout, fixed when it starts

execVars == <<pc, req, idx, loaded, killed, status, outs, outcome, tmp>>
fileVars == <<fs, content, writable>>
guardVars == <<guard, maxThreads, curThreads, executors>>
vars == <<execVars, fileVars, guardVars, sameDevice>>

TG == INSTANCE ThreadGuard WITH Threads <- Reqs

-----------------------------------------------------------------------------
(* Paths.                                                                  *)
StorePath(h) == <<"cas", h>>
StoreTemp(r, h) == <<"castmp", r, h>>
BoxPath(r, n) == <<"box", r, n>>
TmpPath(r, s) == <<"tmp", r, s>>
Stdio == {"stdin", "stdout", "stderr"}

\* Files outside the worker's directories, e.g. /bin/sh.
SysPath(n) == <<"sys", n>>
SysPaths == {SysPath(n) : n \in AbsoluteNames}

\* JoinPath(sandbox_dir, n): an absolute second argument is returned as is.
JoinBox(r, n) == IF n \in AbsoluteNames THEN SysPath(n) ELSE BoxPath(r, n)

TmpPaths(r) == {BoxPath(r, n) : n \in Names} \cup {TmpPath(r, s) : s \in Stdio}
Paths == {StorePath(h) : h \in Hashes} \cup {StoreTemp(r, h) : r \in Reqs, h \in Hashes}
           \cup UNION {TmpPaths(r) : r \in Reqs} \cup SysPaths

Exists(p) == fs[p] # NoFile

\* A new inode named p, linked at p.
Create(p, c) ==
  /\ fs' = [fs EXCEPT ![p] = p]
  /\ content' = [content EXCEPT ![p] = c]
  /\ writable' = [writable EXCEPT ![p] = TRUE]

\* Removing names; an inode no name links any more is gone.
Unlink(S) ==
  /\ fs' = [p \in Paths |-> IF p \in S THEN NoFile ELSE fs[p]]
  /\ LET live == {fs'[p] : p \in Paths} IN
       /\ content' = [i \in Paths |-> IF i \in live THEN content[i] ELSE NoFile]
       /\ writable' = [i \in Paths |-> i \in live /\ writable[i]]

-----------------------------------------------------------------------------
(* Requests.  FileInfo: [name, type, hash, executable, inline].            *)
FileTypes == {"STDIN", "STDOUT", "STDERR", "USER"}

\* PrepareFile and RetrieveFile: where a FileInfo lives inside the TempDir.
FilePath(r, f) ==
  CASE f.type = "STDIN"  -> TmpPath(r, "stdin")
    [] f.type = "STDOUT" -> TmpPath(r, "stdout")
    [] f.type = "STDERR" -> TmpPath(r, "stderr")
    [] OTHER             -> BoxPath(r, f.name)

\* IsIllegalChar applied to every character of a USER name.
Illegal(f) == f.type = "USER" /\ f.name \in IllegalNames

Input(r) == req[r].input[idx[r]]

\* RetrieveFile is called for stdout, stderr, then every declared output.
Retrieved(r) == <<[type |-> "STDOUT"], [type |-> "STDERR"]>> \o req[r].output

Outcomes == {"none", "response", "logic_error", "eexist", "fetch_failed",
             "invalid_name", "prepare_failed", "busy", "sandbox_failed", "enoent"}

-----------------------------------------------------------------------------
Init ==
  /\ pc = [r \in Reqs |-> "start"]
  /\ req \in [Reqs -> Requests]
  /\ idx = [r \in Reqs |-> 1]
  /\ loaded = [r \in Reqs |-> FALSE]
  /\ killed = [r \in Reqs |-> FALSE]
  /\ status = [r \in Reqs |-> "NONE"]
  /\ outs = [r \in Reqs |-> <<>>]
  /\ outcome = [r \in Reqs |-> "none"]
  /\ tmp = [r \in Reqs |-> "none"]
  \* The system files exist; their contents are not modelled.
  /\ fs = [p \in Paths |-> IF p \in SysPaths THEN p ELSE NoFile]
  /\ content = [p \in Paths |-> NoFile]
  /\ writable = [p \in Paths |-> p \in SysPaths]
  /\ TG!Init
  /\ sameDevice \in DeviceLayouts

\* Execute is left, by an exception or by returning the response: the
\* TempDir destructor runs next.
Exit(r, why) == pc' = [pc EXCEPT ![r] = "cleanup"] /\ outcome' = [outcome EXCEPT ![r] = why]

Goto(r, l) == pc' = [pc EXCEPT ![r] = l]

\* Lines 19-22: a FIFO request is rejected before anything else.
Start(r) ==
  /\ pc[r] = "start"
  /\ executors > 0
  /\ IF req[r].fifo THEN Exit(r, "logic_error")
     ELSE /\ Goto(r, IF req[r].input = <<>> THEN "mktemp" ELSE "fetch")
          /\ UNCHANGED outcome
  /\ UNCHANGED <<req, idx, loaded, killed, status, outs, tmp, fileVars, guardVars>>

(* Lines 23-25, MaybeRequestFile and File::Write: every input blob is made *)
(* present in the store before the TempDir exists.                         *)
\* Mutant: the input index is not reset when the fetch loop ends.
NextInputNoReset(r, after) ==
  /\ idx' = [idx EXCEPT ![r] = @ + 1]
  /\ Goto(r, IF idx[r] < Len(req[r].input) THEN "fetch" ELSE after)

NextInput(r, after) ==
  IF idx[r] < Len(req[r].input)
    THEN idx' = [idx EXCEPT ![r] = @ + 1] /\ Goto(r, "fetch")
    ELSE idx' = [idx EXCEPT ![r] = 1] /\ Goto(r, after)

\* MaybeRequestFile: a blob already present (Size >= 0) is not fetched.
Fetch(r) ==
  /\ pc[r] = "fetch"
  /\ IF Exists(StorePath(Input(r).hash))
       THEN NextInput(r, "mktemp")
       ELSE Goto(r, "fetch_open") /\ UNCHANGED idx
  /\ UNCHANGED <<req, loaded, killed, status, outs, outcome, tmp, fileVars, guardVars>>

\* Mutant: the blob is written in place instead of through a temp sibling.
FetchOpenInPlace(r) ==
  LET h == Input(r).hash IN
  /\ pc[r] = "fetch_open"
  /\ IF Exists(StorePath(h))
       THEN Exit(r, "eexist") /\ UNCHANGED fileVars
       ELSE Create(StorePath(h), Partial) /\ Goto(r, "fetch_data") /\ UNCHANGED outcome
  /\ UNCHANGED <<req, idx, loaded, killed, status, outs, tmp, guardVars>>

\* File::Write(path, overwrite = false, exist_ok = false): the blob appeared
\* since MaybeRequestFile looked, so EEXIST is thrown; otherwise OsWrite
\* opens the mkostemp sibling.
FetchOpen(r) ==
  LET h == Input(r).hash IN
  /\ pc[r] = "fetch_open"
  /\ IF Exists(StorePath(h))
       THEN Exit(r, "eexist") /\ UNCHANGED fileVars
       ELSE Create(StoreTemp(r, h), Partial) /\ Goto(r, "fetch_data") /\ UNCHANGED outcome
  /\ UNCHANGED <<req, idx, loaded, killed, status, outs, tmp, guardVars>>

\* The chunks: inline contents, or the fetch callback, which may fail; the
\* receiver is then destroyed unfinalized and removes its temp file.
FetchData(r) ==
  LET t == StoreTemp(r, Input(r).hash) IN
  /\ pc[r] = "fetch_data"
  /\ \/ /\ content' = [content EXCEPT ![t] = Input(r).hash]
        /\ Goto(r, "fetch_commit")
        /\ UNCHANGED <<fs, writable, outcome>>
     \/ /\ ~Input(r).inline
        /\ Unlink({t})
        /\ Exit(r, "fetch_failed")
  /\ UNCHANGED <<req, idx, loaded, killed, status, outs, tmp, guardVars>>

\* The empty chunk: fsync, close, OsAtomicMove(temp, path, false, false):
\* link, and on EEXIST return the error without removing the temp file.
FetchCommit(r) ==
  LET h == Input(r).hash
      t == StoreTemp(r, h)
  IN
  /\ pc[r] = "fetch_commit"
  /\ IF Exists(StorePath(h))
       THEN Exit(r, "eexist") /\ UNCHANGED <<fs, idx>>
       ELSE /\ fs' = [fs EXCEPT ![StorePath(h)] = fs[t], ![t] = NoFile]
            /\ NextInput(r, "mktemp")
            /\ UNCHANGED outcome
  /\ UNCHANGED <<req, loaded, killed, status, outs, tmp, content, writable, guardVars>>

\* Lines 27-45: TempDir, Keep() when keep_sandbox, MakeDirs(box).
MakeTemp(r) ==
  /\ pc[r] = "mktemp"
  /\ tmp' = [tmp EXCEPT ![r] = "live"]
  /\ Goto(r, IF req[r].input = <<>> THEN "prepare" ELSE "stage")
  /\ UNCHANGED <<req, idx, loaded, killed, status, outs, outcome, fileVars, guardVars>>

\* Lines 64-76 with PrepareFile and File::Copy: validate the name, hardlink
\* the blob into the TempDir (a private copy across devices), chmod it
\* r-x when executable, and note whether it is the main executable.
Stage(r) ==
  LET f == Input(r)
      p == FilePath(r, f)
      src == fs[StorePath(f.hash)]
      ino == IF sameDevice THEN src ELSE p
  IN
  /\ pc[r] = "stage"
  /\ IF Illegal(f)
       THEN Exit(r, "invalid_name") /\ UNCHANGED <<idx, loaded, fileVars>>
       ELSE /\ IF sameDevice
                 THEN /\ fs' = [fs EXCEPT ![p] = src]
                      /\ UNCHANGED content
                 ELSE /\ fs' = [fs EXCEPT ![p] = p]
                      /\ content' = [content EXCEPT ![p] = content[src]]
            /\ writable' = [i \in Paths |->
                              IF i = ino THEN (IF f.executable THEN FALSE
                                               ELSE IF sameDevice THEN writable[i] ELSE TRUE)
                              ELSE writable[i]]
            /\ loaded' = [loaded EXCEPT ![r] = @ \/ f.name = req[r].executable]
            /\ IF idx[r] < Len(req[r].input)
                 THEN idx' = [idx EXCEPT ![r] = @ + 1] /\ UNCHANGED pc
                 ELSE idx' = [idx EXCEPT ![r] = 1] /\ Goto(r, "prepare")
            /\ UNCHANGED outcome
  /\ UNCHANGED <<req, killed, status, outs, tmp, guardVars>>

\* Lines 78-90: when an input of any type was named like the executable,
\* JoinPath(sandbox_dir, executable) is handed to PrepareForExecution, which
\* makes it immutable; a missing file fails.
Prepare(r) ==
  LET p == JoinBox(r, req[r].executable) IN
  /\ pc[r] = "prepare"
  /\ IF loaded[r] /\ ~Exists(p)
       THEN Exit(r, "prepare_failed") /\ UNCHANGED writable
       ELSE /\ writable' = IF loaded[r] THEN [writable EXCEPT ![fs[p]] = FALSE] ELSE writable
            /\ Goto(r, "admit")
            /\ UNCHANGED outcome
  /\ UNCHANGED <<req, idx, loaded, killed, status, outs, tmp, fs, content, guardVars>>

\* Line 93: ThreadGuard; worker_busy is thrown at once, never waited out.
Admit(r) ==
  /\ pc[r] = "admit"
  /\ IF req[r].exclusive THEN TG!ThreadGuardExclusive(r) ELSE TG!ThreadGuardShared(r)
  /\ IF guard'[r] = "busy" THEN Exit(r, "busy") ELSE Goto(r, "run") /\ UNCHANGED outcome
  /\ UNCHANGED <<req, idx, loaded, killed, status, outs, tmp, fileVars>>

(* The sandbox.  Execute runs the program with limits scaled by 1.2        *)
(* (lines 55-57); a run that reaches a scaled limit is killed by a signal. *)
ScaledCpuMillis(l) == l.cpu * 1200
ScaledWallMillis(l) == l.wall * 1200
ScaledMemoryKb(l) == (l.memory * 12) \div 10

Killed(l, i) ==
  \/ l.cpu # 0 /\ i.cpu + i.sys >= ScaledCpuMillis(l)
  \/ l.wall # 0 /\ i.wall >= ScaledWallMillis(l)
  \/ l.memory # 0 /\ i.memory >= ScaledMemoryKb(l)

SandboxInfos(l) == {i \in Infos : Killed(l, i) => i.signal # 0}

\* Mutant: the CPU rule ignores system time.
ClassifyUserTime(l, i) ==
  CASE l.memory # 0 /\ i.memory >= l.memory              -> "MEMORY_LIMIT"
    [] l.cpu # 0 /\ i.cpu >= l.cpu * 1000                -> "TIME_LIMIT"
    [] l.wall # 0 /\ i.wall >= l.wall * 1000            -> "TIME_LIMIT"
    [] i.signal # 0                                    -> "SIGNAL"
    [] i.status_code # 0                               -> "NONZERO"
    [] OTHER                                           -> "SUCCESS"

\* Lines 101-136: times become seconds (ms / 1000.0) and are compared with
\* the unscaled limits; the first matching rule wins.
Classify(l, i) ==
  CASE l.memory # 0 /\ i.memory >= l.memory              -> "MEMORY_LIMIT"
    [] l.cpu # 0 /\ i.sys + i.cpu >= l.cpu * 1000       -> "TIME_LIMIT"
    [] l.wall # 0 /\ i.wall >= l.wall * 1000            -> "TIME_LIMIT"
    [] i.signal # 0                                    -> "SIGNAL"
    [] i.status_code # 0                               -> "NONZERO"
    [] OTHER                                           -> "SUCCESS"

\* What the program may write: stdout and stderr always, any declared
\* output it creates, and any file of the box it has write permission on.
StdPaths(r) == {TmpPath(r, "stdout"), TmpPath(r, "stderr")}
NewOutputs(r) == {BoxPath(r, o.name) : o \in {o \in ToSet(req[r].output) : ~Illegal(o)}}
\* The program is rooted in box/: stdin is only an open descriptor to it.
Writable(r) == {p \in {BoxPath(r, n) : n \in Names} : Exists(p) /\ writable[fs[p]]}

SandboxWrites(r) ==
  UNION {[StdPaths(r) \cup D -> Hashes] : D \in SUBSET ((NewOutputs(r) \ StdPaths(r)) \cup Writable(r))}

\* Lines 94-136: Execute; the guard is released when the block ends, also
\* when Execute fails; a successful run is classified.
Run(r) ==
  /\ pc[r] = "run"
  /\ TG!Release(r)
  /\ \/ /\ Exit(r, "sandbox_failed")
        /\ UNCHANGED <<killed, status, fileVars>>
     \/ \E i \in SandboxInfos(req[r].limit), w \in SandboxWrites(r) :
          /\ killed' = [killed EXCEPT ![r] = Killed(req[r].limit, i)]
          /\ status' = [status EXCEPT ![r] = Classify(req[r].limit, i)]
          /\ fs' = [p \in Paths |-> IF p \in DOMAIN w /\ ~Exists(p) THEN p ELSE fs[p]]
          /\ content' = [n \in Paths |->
                           IF \E p \in DOMAIN w : fs'[p] = n
                             THEN w[CHOOSE p \in DOMAIN w : fs'[p] = n]
                             ELSE content[n]]
          /\ writable' = [n \in Paths |-> IF n \in DOMAIN w /\ ~Exists(n) THEN TRUE ELSE writable[n]]
          /\ Goto(r, "retrieve")
          /\ UNCHANGED outcome
  /\ UNCHANGED <<req, idx, loaded, outs, tmp>>

(* Lines 138-156 with RetrieveFile: hash each file and copy it into the    *)
(* store under its hash.                                                   *)
NextRetrieve(r) ==
  IF idx[r] < Len(Retrieved(r))
    THEN idx' = [idx EXCEPT ![r] = @ + 1] /\ Goto(r, "retrieve") /\ UNCHANGED outcome
    ELSE idx' = [idx EXCEPT ![r] = 1] /\ Exit(r, "response")

\* Mutant: ENOENT of a declared output is swallowed without demotion.
MissingNoDemote(r, f) ==
  IF f.type \in {"STDOUT", "STDERR"}
    THEN Exit(r, "enoent") /\ UNCHANGED <<idx, status>>
    ELSE NextRetrieve(r) /\ UNCHANGED status

\* A declared output that is missing (ENOENT) is skipped and turns a
\* SUCCESS into MISSING_FILES; a missing stdout or stderr propagates.
Missing(r, f) ==
  IF f.type \in {"STDOUT", "STDERR"}
    THEN Exit(r, "enoent") /\ UNCHANGED <<idx, status>>
    ELSE /\ status' = [status EXCEPT ![r] = IF @ = "SUCCESS" THEN "MISSING_FILES" ELSE @]
         /\ NextRetrieve(r)

\* File::Hash, then File::Copy(file, SHAToPath(hash)): a hardlink on one
\* device, EEXIST taken as success; across devices HardCopy, whose
\* File::Write is a no-op when the blob exists and otherwise opens a temp file.
Retrieve(r) ==
  LET f == Retrieved(r)[idx[r]]
      p == FilePath(r, f)
      h == content[fs[p]]
  IN
  /\ pc[r] = "retrieve"
  /\ CASE Illegal(f) ->
            Exit(r, "invalid_name") /\ UNCHANGED <<idx, status, outs, fileVars>>
       [] ~Exists(p) ->
            Missing(r, f) /\ UNCHANGED <<outs, fileVars>>
       [] Exists(StorePath(h)) \/ sameDevice ->
            /\ fs' = IF Exists(StorePath(h)) THEN fs ELSE [fs EXCEPT ![StorePath(h)] = fs[p]]
            /\ outs' = [outs EXCEPT ![r] = Append(@, h)]
            /\ NextRetrieve(r)
            /\ UNCHANGED <<status, content, writable>>
       [] OTHER ->
            /\ Create(StoreTemp(r, h), h)
            /\ outs' = [outs EXCEPT ![r] = Append(@, h)]
            /\ Goto(r, "ingest_commit")
            /\ UNCHANGED <<idx, status, outcome>>
  /\ UNCHANGED <<req, loaded, killed, tmp, guardVars>>

\* The empty chunk of HardCopy: OsAtomicMove(temp, blob, false, true); an
\* existing blob is success, and the temp file is then left in place.
IngestCommit(r) ==
  LET h == outs[r][Len(outs[r])]
      t == StoreTemp(r, h)
  IN
  /\ pc[r] = "ingest_commit"
  /\ fs' = IF Exists(StorePath(h)) THEN fs
           ELSE [fs EXCEPT ![StorePath(h)] = fs[t], ![t] = NoFile]
  /\ NextRetrieve(r)
  /\ UNCHANGED <<req, loaded, killed, status, outs, tmp, content, writable, guardVars>>

\* Mutant: the TempDir is removed on the normal return only.
CleanupOnReturn(r) ==
  /\ pc[r] = "cleanup"
  /\ IF tmp[r] = "live" /\ ~req[r].keep_sandbox /\ outcome[r] = "response"
       THEN Unlink(TmpPaths(r)) /\ tmp' = [tmp EXCEPT ![r] = "removed"]
       ELSE /\ tmp' = [tmp EXCEPT ![r] = IF @ = "live" THEN "kept" ELSE @]
            /\ UNCHANGED fileVars
  /\ Goto(r, "done")
  /\ UNCHANGED <<req, idx, loaded, killed, status, outs, outcome, guardVars>>

\* ~TempDir: RemoveTree of the whole directory unless Keep() was called.
Cleanup(r) ==
  /\ pc[r] = "cleanup"
  /\ IF tmp[r] = "live" /\ ~req[r].keep_sandbox
       THEN Unlink(TmpPaths(r)) /\ tmp' = [tmp EXCEPT ![r] = "removed"]
       ELSE /\ tmp' = [tmp EXCEPT ![r] = IF @ = "live" THEN "kept" ELSE @]
            /\ UNCHANGED fileVars
  /\ Goto(r, "done")
  /\ UNCHANGED <<req, idx, loaded, killed, status, outs, outcome, guardVars>>

Step(r) ==
  \/ Start(r) \/ Fetch(r) \/ FetchOpen(r) \/ FetchData(r) \/ FetchCommit(r)
  \/ MakeTemp(r) \/ Stage(r) \/ Prepare(r) \/ Admit(r) \/ Run(r)
  \/ Retrieve(r) \/ IngestCommit(r) \/ Cleanup(r)

Next ==
  /\ \/ \E n \in NumCores : TG!LocalExecutor(n) /\ UNCHANGED <<execVars, fileVars>>
     \/ \E r \in Reqs : Step(r)
  /\ UNCHANGED sameDevice

Spec == Init /\ [][Next]_vars

-----------------------------------------------------------------------------
Labels == {"start", "fetch", "fetch_open", "fetch_data", "fetch_commit", "mktemp",
           "stage", "prepare", "admit", "run", "retrieve", "ingest_commit",
           "cleanup", "done"}

TypeOK ==
  /\ pc \in [Reqs -> Labels]
  /\ req \in [Reqs -> Requests]
  /\ idx \in [Reqs -> Nat \ {0}]
  /\ \A r \in Reqs : pc[r] \in {"fetch", "fetch_open", "fetch_data", "fetch_commit", "stage"} =>
                     idx[r] \in 1 .. Len(req[r].input)
  /\ loaded \in [Reqs -> BOOLEAN]
  /\ killed \in [Reqs -> BOOLEAN]
  /\ status \in [Reqs -> {"NONE", "SUCCESS", "NONZERO", "SIGNAL", "TIME_LIMIT",
                           "MEMORY_LIMIT", "MISSING_FILES"}]
  /\ outs \in [Reqs -> Seq(Hashes)]
  /\ outcome \in [Reqs -> Outcomes]
  /\ tmp \in [Reqs -> {"none", "live", "kept", "removed"}]
  /\ fs \in [Paths -> Paths \cup {NoFile}]
  /\ content \in [Paths -> Hashes \cup {Partial, NoFile}]
  /\ writable \in [Paths -> BOOLEAN]
  /\ TG!TypeOK

-----------------------------------------------------------------------------
(* Safety.                                                                 *)

\* Spec 3: a blob at StorePath(h) has contents hashing to h.  Concurrent
\* fetches and ingests of one hash, staging by hardlink and the program's
\* own writes must never leave a partial or different file under a hash.
StoreIntegrity ==
  \A h \in Hashes : Exists(StorePath(h)) => content[fs[StorePath(h)]] = h

\* Spec 3: the TempDir of a request is removed on every way out of Execute,
\* exceptions included, unless keep_sandbox.
TempDirCleanup ==
  \A r \in Reqs : pc[r] = "done" /\ ~req[r].keep_sandbox =>
     \A p \in TmpPaths(r) : ~Exists(p)

\* Spec 4.4 steps 10-11: a returned SUCCESS carries a stored blob for
\* stdout, stderr and every declared output; MISSING_FILES is returned only
\* when some declared output could not be ingested.
SuccessComplete ==
  \A r \in Reqs : outcome[r] = "response" =>
     /\ status[r] = "SUCCESS" =>
          /\ Len(outs[r]) = Len(Retrieved(r))
          /\ \A k \in DOMAIN outs[r] : Exists(StorePath(outs[r][k]))
     /\ status[r] = "MISSING_FILES" => Len(outs[r]) < Len(Retrieved(r))

\* A run the sandbox stopped at its (1.2x scaled) limit is reported as a
\* limit, never as a plain SIGNAL: scaling (lines 55-57) and classification
\* against the unscaled limits (lines 113-136) must agree.
LimitKillsReported ==
  \A r \in Reqs : outcome[r] = "response" /\ killed[r] =>
     status[r] \in {"TIME_LIMIT", "MEMORY_LIMIT"}

(* Statements of the spec that the code does not meet; each is checked by *)
(* a run expected to find it violated.                                     *)

\* Spec 4.2: two writers of the same missing blob race and the loser
\* treats EEXIST as success, so a request never fails because another one
\* fetched the same input.
FetchRaceTolerated == \A r \in Reqs : outcome[r] # "eexist"

\* Spec 3, 4.4 and 7: the sandbox only acts on what a valid request names
\* inside its own box.  An illegal USER file name aborts the request before
\* the sandbox runs, and PrepareForExecution, which the code reaches for
\* any input named like the executable (STDIN ones are never name-checked),
\* never changes a file outside the worker's directories.
SandboxGetsValidNames ==
  /\ \A r \in Reqs : status[r] # "NONE" =>
        \A f \in ToSet(req[r].input) \cup ToSet(req[r].output) : ~Illegal(f)
  /\ \A p \in SysPaths : writable[p]

\* Spec 4.1: a writer stages into a temp sibling that only the commit
\* publishes; once Execute has returned, none of its temp files is left in
\* the store.
NoStrayTemps ==
  \A r \in Reqs, h \in Hashes : pc[r] = "done" => ~Exists(StoreTemp(r, h))
==============================================================================
