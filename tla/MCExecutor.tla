----------------------------- MODULE MCExecutor -----------------------------
(***************************************************************************)
(* Small instances of Executor: two concurrent Execute calls, two blob     *)
(* hashes, names "a", "b", "in" and one name with a '/'.                         *)
(***************************************************************************)
EXTENDS Executor, TLC

CONSTANTS r1, r2, h1, h2

MCReqs == {r1, r2}
MCHashes == {h1, h2}
MCNames == {"a", "b", "in", "x/y"}
MCIllegalNames == {"x/y"}

NoLimit == [cpu |-> 0, wall |-> 0, memory |-> 0]

\* A compiled solution: executable input "a" fetched through the callback,
\* output "b", a 2 s CPU limit.
Solution ==
  [fifo |-> FALSE, exclusive |-> FALSE, keep_sandbox |-> FALSE, executable |-> "a",
   input |-> <<[name |-> "a", type |-> "USER", hash |-> h1, executable |-> TRUE, inline |-> FALSE]>>,
   output |-> <<[name |-> "b", type |-> "USER"]>>,
   limit |-> [NoLimit EXCEPT !.cpu = 2]]

\* An exclusive run that keeps its sandbox, reads the same blob inline on
\* stdin and declares output "a".
Benchmark ==
  [fifo |-> FALSE, exclusive |-> TRUE, keep_sandbox |-> TRUE, executable |-> "b",
   input |-> <<[name |-> "in", type |-> "STDIN", hash |-> h1, executable |-> FALSE, inline |-> TRUE]>>,
   output |-> <<[name |-> "a", type |-> "USER"]>>,
   limit |-> [NoLimit EXCEPT !.memory = 2]]

\* A request naming a FIFO, and one whose input name contains '/'.
FifoRequest == [Solution EXCEPT !.fifo = TRUE]
BadInput == [Solution EXCEPT !.input = <<[@[1] EXCEPT !.name = "x/y", !.hash = h2]>>]

\* A request with an illegal output name.
BadOutput == [Solution EXCEPT !.output = <<[name |-> "x/y", type |-> "USER"]>>]


MCRequests == {Solution, Benchmark, FifoRequest, BadInput}

\* Two calls of the same solution, both fetching blob h1 through the callback.
RaceRequests == {Solution}

\* A checker reading a plain (non-executable) input file "b" given inline.
Checker ==
  [Solution EXCEPT !.input = <<[name |-> "b", type |-> "USER", hash |-> h1, executable |-> FALSE, inline |-> TRUE]>>,
                   !.executable = "a", !.output = <<>>]

HardlinkRequests == {Checker}

\* Calls that declare an output named "x/y".
BadOutputRequests == {BadOutput}

\* A system interpreter "/sh" run on a script passed as stdin, the STDIN
\* input carrying the interpreter's name.
Interpreter ==
  [Solution EXCEPT !.executable = "/sh", !.output = <<>>,
                   !.input = <<[name |-> "/sh", type |-> "STDIN", hash |-> h1, executable |-> FALSE, inline |-> TRUE]>>]

\* The names above and the absolute name "/sh".
BoundaryNames == MCNames \cup {"/sh"}
BoundaryIllegalNames == MCIllegalNames \cup {"/sh"}
BoundaryRequests == {BadOutput, Interpreter}

\* Exit code 1, killed by signal 9, 2.4 s of CPU time split between user
\* and system time, 2 KB of memory.
Info(c, s, m, sig, code) ==
  [cpu |-> c, sys |-> s, wall |-> 0, memory |-> m, signal |-> sig, status_code |-> code]
MCInfos ==
  { Info(u[1], u[2], u[3], sig, code) :
      u \in {<<0, 0, 0>>, <<1000, 1400, 0>>, <<0, 0, 2>>}, sig \in {0, 9}, code \in {0, 1} }

Perms == Permutations(MCReqs)
==============================================================================
