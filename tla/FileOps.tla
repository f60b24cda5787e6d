------------------------------- MODULE FileOps -------------------------------
(***************************************************************************)
(* The path-level operations of util::File (src/cpp/util/file.cpp):        *)
(* File::Copy over OsAtomicCopy with its HardCopy fallback, File::Move     *)
(* over OsAtomicMove, and File::Remove, called concurrently by several     *)
(* threads on a few paths that may lie on different filesystems.          *)
(*                                                                         *)
(* fs[p] is the inode linked at p (NoFile when none) and data[i] what the *)
(* inode holds: an initial inode is named after its path and holds that  *)
(* name; the inode a caller's HardCopy creates is named after the caller. *)
(* Each link(), rename() and remove() is one step.  A HardCopy is two    *)
(* steps: opening the source together with Write's existence check and   *)
(* the temp file's contents, then the commit that links or renames the  *)
(* temp file into place; other callers run between them.  Module         *)
(* FileStreams checks the chunk-by-chunk interleavings.  No               *)
(* path is a symlink (the code only creates files with mkostemp, link and *)
(* rename), so OsIsLink is false.                                          *)
(***************************************************************************)
EXTENDS Naturals

CONSTANTS Callers, Paths, Device, NoFile

ASSUME Device \in [Paths -> Nat] /\ NoFile \notin Paths \cup Callers

Ops == {"copy", "move", "remove"}
Inodes == Paths \cup Callers

VARIABLES op, from, to, ow, eo,  \* each caller's call and its arguments
          pc,                    \* where the call is
          ret,                   \* where Copy returns to
          fs, data,
          orig,                  \* what from held when the call started
          outcome,
          seen                   \* history: what from has held during the call

vars == <<op, from, to, ow, eo, pc, ret, fs, data, orig, outcome, seen>>
args == <<op, from, to, ow, eo, orig>>

Labels == {"c_link", "c_remove", "c_relink", "hardcopy", "m_move", "m_unlink",
           "hc_commit", "remove", "done"}

TypeOK ==
  /\ op \in [Callers -> Ops]
  /\ from \in [Callers -> Paths] /\ to \in [Callers -> Paths]
  /\ ow \in [Callers -> BOOLEAN] /\ eo \in [Callers -> BOOLEAN]
  /\ pc \in [Callers -> Labels] /\ ret \in [Callers -> {"remove", "done"}]
  /\ fs \in [Paths -> Inodes \cup {NoFile}]
  /\ data \in [Inodes -> Paths \cup {NoFile}]
  /\ outcome \in [Callers -> {"none", "returned", "thrown"}]
  /\ seen \in [Callers -> SUBSET (Paths \cup {NoFile})]

\* What path p holds: its inode's data, or NoFile.
Contents(p) == IF fs[p] = NoFile THEN NoFile ELSE data[fs[p]]

Entry == [copy |-> "c_link", move |-> "m_move", remove |-> "remove"]

Init ==
  /\ op \in [Callers -> Ops]
  /\ from \in [Callers -> Paths] /\ to \in [Callers -> Paths]
  /\ \A c \in Callers : from[c] # to[c]
  /\ ow \in [Callers -> BOOLEAN] /\ eo \in [Callers -> BOOLEAN]
  /\ pc = [c \in Callers |-> Entry[op[c]]]
  \* Move calls Copy and then Remove(from).
  /\ ret = [c \in Callers |-> IF op[c] = "move" THEN "remove" ELSE "done"]
  /\ \E present \in SUBSET Paths :
        fs = [p \in Paths |-> IF p \in present THEN p ELSE NoFile]
  /\ data = [i \in Inodes |-> IF i \in Paths THEN i ELSE NoFile]
  /\ orig = [c \in Callers |-> Contents(from[c])]
  /\ outcome = [c \in Callers |-> "none"]
  /\ seen = [c \in Callers |-> {orig[c]}]

Goto(c, l) == pc' = [pc EXCEPT ![c] = l] /\ UNCHANGED outcome
Finish(c, how) ==
  /\ pc' = [pc EXCEPT ![c] = "done"]
  /\ outcome' = [outcome EXCEPT ![c] = how]
\* Copy returning normally: to the caller, or on to Move's Remove(from).
CopyReturns(c) ==
  IF ret[c] = "done" THEN Finish(c, "returned") ELSE Goto(c, ret[c])

\* What link(s, d) and rename(s, d) fail with, or "ok".  link() creates
\* the new name before it compares mounts, so an existing d is EEXIST
\* even across filesystems.
LinkErr(s, d) ==
  CASE fs[s] = NoFile -> "ENOENT"
    [] fs[d] # NoFile -> "EEXIST"
    [] Device[s] # Device[d] -> "EXDEV"
    [] OTHER -> "ok"
RenameErr(s, d) ==
  CASE fs[s] = NoFile -> "ENOENT"
    [] Device[s] # Device[d] -> "EXDEV"
    [] OTHER -> "ok"

Link(s, d) == fs' = [fs EXCEPT ![d] = fs[s]]
Rename(s, d) == fs' = [fs EXCEPT ![d] = fs[s], ![s] = NoFile]
Unlink(p) == fs' = [fs EXCEPT ![p] = NoFile]

-----------------------------------------------------------------------------
(* File::Copy: OsAtomicCopy, falling back to HardCopy on any error.        *)

\* Mutant: on EEXIST the destination is replaced even without overwrite.
CopyLinkIgnoringOverwrite(c) ==
  LET e == LinkErr(from[c], to[c]) IN
  /\ pc[c] = "c_link"
  /\ CASE e = "ok" -> Link(from[c], to[c]) /\ CopyReturns(c)
       [] e # "EEXIST" -> Goto(c, "hardcopy") /\ UNCHANGED fs
       [] eo[c] -> CopyReturns(c) /\ UNCHANGED fs
       [] OTHER -> Goto(c, "c_remove") /\ UNCHANGED fs
  /\ UNCHANGED <<args, ret, data>>

\* The first link(); on EEXIST: success under exist_ok, the error without
\* overwrite, otherwise remove and link again.
CopyLink(c) ==
  LET e == LinkErr(from[c], to[c]) IN
  /\ pc[c] = "c_link"
  /\ CASE e = "ok" -> Link(from[c], to[c]) /\ CopyReturns(c)
       [] e # "EEXIST" -> Goto(c, "hardcopy") /\ UNCHANGED fs
       [] eo[c] -> CopyReturns(c) /\ UNCHANGED fs
       [] ~ow[c] -> Goto(c, "hardcopy") /\ UNCHANGED fs
       [] OTHER -> Goto(c, "c_remove") /\ UNCHANGED fs
  /\ UNCHANGED <<args, ret, data>>

\* OsRemove(dst); a failure (the file is already gone) returns errno.
CopyRemove(c) ==
  /\ pc[c] = "c_remove"
  /\ IF fs[to[c]] # NoFile
       THEN Unlink(to[c]) /\ Goto(c, "c_relink")
       ELSE Goto(c, "hardcopy") /\ UNCHANGED fs
  /\ UNCHANGED <<args, ret, data>>

CopyRelink(c) ==
  /\ pc[c] = "c_relink"
  /\ IF LinkErr(from[c], to[c]) = "ok"
       THEN Link(from[c], to[c]) /\ CopyReturns(c)
       ELSE Goto(c, "hardcopy") /\ UNCHANGED fs
  /\ UNCHANGED <<args, ret, data>>

\* HardCopy(from, to, overwrite, exist_ok) up to its loop: Read(from)
\* throws ENOENT; Write(to) is a no-op receiver under exist_ok, or throws
\* EEXIST, for an existing destination without overwrite; otherwise the
\* temp file, inode c, receives what the opened source holds.
HardCopyOpen(c) ==
  /\ pc[c] = "hardcopy"
  /\ CASE fs[from[c]] = NoFile ->
            Finish(c, "thrown") /\ UNCHANGED data
       [] ~ow[c] /\ fs[to[c]] # NoFile ->
            IF eo[c] THEN CopyReturns(c) /\ UNCHANGED data
                     ELSE Finish(c, "thrown") /\ UNCHANGED data
       [] OTHER ->
            /\ data' = [data EXCEPT ![c] = data[fs[from[c]]]]
            /\ Goto(c, "hc_commit")
  /\ UNCHANGED <<args, ret, fs>>

\* Mutant: the commit calls OsAtomicMove with its default exist_ok = true.
HardCopyCommitDefaultExistOk(c) ==
  /\ pc[c] = "hc_commit"
  /\ IF ow[c] \/ fs[to[c]] = NoFile
       THEN fs' = [fs EXCEPT ![to[c]] = c] /\ CopyReturns(c)
       ELSE CopyReturns(c) /\ UNCHANGED fs
  /\ UNCHANGED <<args, ret, data>>

\* The empty chunk's commit: OsAtomicMove(temp, to, overwrite, exist_ok)
\* renames under overwrite, else links; a destination created since
\* Write's check makes link fail with EEXIST, success under exist_ok.
HardCopyCommit(c) ==
  /\ pc[c] = "hc_commit"
  /\ CASE ow[c] \/ fs[to[c]] = NoFile ->
            fs' = [fs EXCEPT ![to[c]] = c] /\ CopyReturns(c)
       [] eo[c] -> CopyReturns(c) /\ UNCHANGED fs
       [] OTHER -> Finish(c, "thrown") /\ UNCHANGED fs
  /\ UNCHANGED <<args, ret, data>>

-----------------------------------------------------------------------------
(* File::Move: `if (OsIsLink(from) || !OsAtomicMove(...)) { Copy; Remove }` *)
(* OsAtomicMove returns 0 on success and errno on failure.                 *)

\* OsAtomicMove's rename (overwrite) or link.  A zero result goes on to
\* Copy; an errno makes the condition false and Move returns.
MoveAtomic(c) ==
  /\ pc[c] = "m_move"
  /\ IF ow[c]
       THEN LET e == RenameErr(from[c], to[c]) IN
            IF e = "ok" THEN Rename(from[c], to[c]) /\ Goto(c, "c_link")
                        ELSE Finish(c, "returned") /\ UNCHANGED fs
       ELSE LET e == LinkErr(from[c], to[c]) IN
            CASE e = "ok" -> Link(from[c], to[c]) /\ Goto(c, "m_unlink")
              [] e = "EEXIST" /\ eo[c] -> Goto(c, "c_link") /\ UNCHANGED fs
              [] OTHER -> Finish(c, "returned") /\ UNCHANGED fs
  /\ UNCHANGED <<args, ret, data>>

\* OsAtomicMove's remove(src) after the link; ENOENT counts as success.
MoveUnlink(c) ==
  /\ pc[c] = "m_unlink"
  /\ IF fs[from[c]] # NoFile THEN Unlink(from[c]) ELSE UNCHANGED fs
  /\ Goto(c, "c_link")
  /\ UNCHANGED <<args, ret, data>>

\* File::Remove, called directly or at the end of Move.
Remove(c) ==
  /\ pc[c] = "remove"
  /\ IF fs[from[c]] # NoFile
       THEN Unlink(from[c]) /\ Finish(c, "returned")
       ELSE Finish(c, "thrown") /\ UNCHANGED fs
  /\ UNCHANGED <<args, ret, data>>

Step(c) ==
  \/ CopyLink(c) \/ CopyRemove(c) \/ CopyRelink(c)
  \/ HardCopyOpen(c) \/ HardCopyCommit(c)
  \/ MoveAtomic(c) \/ MoveUnlink(c) \/ Remove(c)

\* The history variable seen records, after every step, what each
\* caller's source path holds.
Observe == seen' = [c \in Callers |-> seen[c] \cup {Contents(from[c])'}]

Next == (\E c \in Callers : Step(c)) /\ Observe

Spec == Init /\ [][Next]_vars

-----------------------------------------------------------------------------
(* Properties.                                                             *)

\* Spec 4.1 (exist_ok never overwrites; only overwrite unlinks and
\* retries): an existing file is unlinked or replaced only by a step of a
\* call made with overwrite, or of a Move or Remove of that very path.
ReplaceOnlyWithOverwrite ==
  [][\A p \in Paths :
        fs[p] # NoFile /\ fs'[p] # fs[p] =>
          \E c \in Callers :
             /\ pc'[c] # pc[c]
             /\ ow[c] \/ (p = from[c] /\ op[c] \in {"move", "remove"})]_vars

\* Spec 4.1 (copy is a hardlink, or a stream copy with overwrite and
\* exist_ok honoured): a Copy without exist_ok that returns normally has,
\* when it returns, put at its destination contents that its source held
\* at some point during the call, even when another caller creates the
\* destination between HardCopy's existence check and its commit.
CopyDeliversSource ==
  [][\A c \in Callers :
        op[c] = "copy" /\ ~eo[c] /\ pc[c] # "done" /\ outcome'[c] = "returned" =>
           Contents(to[c])' \in seen[c] \ {NoFile}]_vars

Moved(c) ==
  /\ orig[c] # NoFile
  /\ fs[from[c]] = NoFile
  /\ fs[to[c]] # NoFile /\ data[fs[to[c]]] = orig[c]

\* Spec 4.1 (move is hardlink + unlink(src), falling back to copy +
\* remove; every error surfaces): a Move returns normally exactly when the
\* source's contents are now at the destination and the source is gone.
MoveContract ==
  \A c \in Callers : op[c] = "move" /\ pc[c] = "done" =>
     (outcome[c] = "returned" <=> Moved(c))
==============================================================================
