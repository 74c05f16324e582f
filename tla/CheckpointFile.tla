--------------------------- MODULE CheckpointFile ---------------------------
(***************************************************************************)
(* The journal checkpoint FILE and its compare-and-swap replacement, as    *)
(* several processes sharing one home run it                               *)
(* (src/packages/cli/src/drivers/checkpoint-file.ts).                      *)
(*                                                                         *)
(* replace() serializes writers with `journal.checkpoint.lock`, created    *)
(* O_EXCL: creation is the mutex.  Under the lock the destination is read  *)
(* again and written (tmp, then rename) only while it still holds the      *)
(* bytes the caller validated.  A lock whose holder crashed is NEVER       *)
(* reclaimed: callers wait, then throw, until the operator removes it.     *)
(*                                                                         *)
(* The lock inode is identified with the process that created it, so       *)
(* releaseLock()'s fstat(fd).nlink > 0 is `lock = p`.                      *)
(***************************************************************************)

CONSTANTS
  Writers,                              \* Procs of CheckpointRegister
  Contents,                             \* as there
  NoContent, Untrusted,                 \* Absent and Unreadable there
  Free,                                 \* no lock file at the lock path
  Stray                                 \* a lock file whose process left it behind

ASSUME LockAssumption == Free \notin Writers /\ Stray \notin Writers /\ Free # Stray
ASSUME PathAssumption ==
  NoContent \notin Contents /\ Untrusted \notin Contents /\ NoContent # Untrusted

PathState == Contents \cup {NoContent, Untrusted}
Requests  == [expected : Contents \cup {NoContent}, next : Contents, force : BOOLEAN]
NoRequest == [expected |-> NoContent, next |-> NoContent, force |-> FALSE]
Results   == {"true", "false", "threw"}

VARIABLES
  file,   \* what the checkpoint path holds
  lock,   \* which process's inode the lock path names
  stage,     \* where each process is inside replace()
  req,    \* the arguments of each process's call
  res     \* the answer each call is about to give

swapVars == <<file, lock, stage, req, res>>

Holding == {"locked", "writing", "release"}
Stages     == {"idle", "waiting", "returned"} \cup Holding

SwapTypeOK ==
  /\ file \in PathState
  /\ lock \in Writers \cup {Free, Stray}
  /\ stage \in [Writers -> Stages]
  /\ req \in [Writers -> Requests \cup {NoRequest}]
  /\ res \in [Writers -> Results]

SwapInit ==
  /\ file \in PathState
  /\ lock = Free
  /\ stage = [p \in Writers |-> "idle"]
  /\ req = [p \in Writers |-> NoRequest]
  /\ res = [p \in Writers |-> "threw"]

SwapGoto(p, at) == stage' = [stage EXCEPT ![p] = at]

-----------------------------------------------------------------------------
(* replace(), step by step.                                                *)

\* A call, with the arguments its caller validated the file against.
Replace(p) ==
  /\ stage[p] = "idle"
  /\ \E r \in Requests : req' = [req EXCEPT ![p] = r]
  /\ SwapGoto(p, "waiting")
  /\ UNCHANGED <<file, lock, res>>

\* The answer is decided; the file keeps what it holds.
Decide(p, result, at) ==
  /\ res' = [res EXCEPT ![p] = result]
  /\ SwapGoto(p, at)
  /\ UNCHANGED <<file, lock, req>>

\* ensureTrustedContainingDir() or openSync() throws before there is a lock.
Refuse(p) == stage[p] = "waiting" /\ Decide(p, "threw", "returned")

\* Mutant: a lock that looks old is taken over.
AcquireLockReclaims(p) ==
  /\ stage[p] = "waiting"
  /\ lock' = p
  /\ SwapGoto(p, "locked")
  /\ UNCHANGED <<file, req, res>>

\* openSync(O_CREAT | O_EXCL) succeeds only when nothing is at the lock path.
AcquireLock(p) ==
  /\ stage[p] = "waiting"
  /\ lock = Free
  /\ lock' = p
  /\ SwapGoto(p, "locked")
  /\ UNCHANGED <<file, req, res>>

\* Mutant: the wait for the lock has no deadline.
GiveUpNever(p) == FALSE /\ Refuse(p)

\* The lock is still there at the deadline: heldError(), nothing was touched.
GiveUp(p) == lock # Free /\ Refuse(p)

\* readTrusted() under the lock throws on what it does not trust.
ReadThrows(p) ==
  /\ stage[p] = "locked"
  /\ file = Untrusted
  /\ Decide(p, "threw", "release")

\* Already exactly these bytes: nothing to write, nothing to destroy.
AlreadyThere(p) ==
  /\ stage[p] = "locked"
  /\ file = req[p].next
  /\ Decide(p, "true", "release")

\* Mutant: the destination is not compared again under the lock.
ExpectedAlways(p) == p \in Writers

Expected(p) == file = req[p].expected \/ req[p].force

\* Changed under the caller: left byte-identical, it may be evidence.
Conflict(p) ==
  /\ stage[p] = "locked"
  /\ file \notin {Untrusted, req[p].next}
  /\ ~Expected(p)
  /\ Decide(p, "false", "release")

\* Still what the caller validated (or forced): go on to write.
Validate(p) ==
  /\ stage[p] = "locked"
  /\ file \notin {Untrusted, req[p].next}
  /\ Expected(p)
  /\ SwapGoto(p, "writing")
  /\ UNCHANGED <<file, lock, req, res>>

\* Mutant: the destination is truncated and written in place.
RenameTorn(p) ==
  /\ stage[p] = "writing"
  /\ file' \in {req[p].next, "torn"}
  /\ res' = [res EXCEPT ![p] = "true"]
  /\ SwapGoto(p, "release")
  /\ UNCHANGED <<lock, req>>

\* writeLocked(): the tmp file is complete, rename puts it in place.
Rename(p) ==
  /\ stage[p] = "writing"
  /\ file' = req[p].next
  /\ res' = [res EXCEPT ![p] = "true"]
  /\ SwapGoto(p, "release")
  /\ UNCHANGED <<lock, req>>

\* writeLocked() throws (disk full, rename refused): the file is untouched.
WriteFails(p) == stage[p] = "writing" /\ Decide(p, "threw", "release")

\* releaseLock(): unlink the path only while it still names our own inode.  A
\* failed fstat or unlink is swallowed, and the lock file is nobody's from then.
ReleaseLock(p) ==
  /\ stage[p] = "release"
  /\ IF lock = p THEN lock' \in {Free, Stray} ELSE UNCHANGED lock
  /\ SwapGoto(p, "returned")
  /\ UNCHANGED <<file, req, res>>

\* The process is outside replace() again.
Leave(p) ==
  /\ SwapGoto(p, "idle")
  /\ req' = [req EXCEPT ![p] = NoRequest]
  /\ res' = [res EXCEPT ![p] = "threw"]
  /\ UNCHANGED file

Return(p) ==
  /\ stage[p] = "returned"
  /\ Leave(p)
  /\ UNCHANGED lock

-----------------------------------------------------------------------------
(* The environment.                                                        *)

\* A process dies inside replace(); the lock file it created stays behind.
WriterDies(p) ==
  /\ stage[p] # "idle"
  /\ Leave(p)
  /\ lock' = IF lock = p THEN Stray ELSE lock

\* The recovery heldError() prints: once no sthayi process is running, the
\* operator removes the stray lock by hand.
ClearByHand ==
  /\ lock = Stray
  /\ \A p \in Writers : stage[p] = "idle"
  /\ lock' = Free
  /\ UNCHANGED <<file, stage, req, res>>

\* Something else changes the path (a restore, a deletion, a hostile file).
\* The class note concedes a same-user swap between the read under the lock
\* and the rename, so that window is excluded here.
Outside ==
  /\ \A p \in Writers : stage[p] # "writing"
  /\ file' \in PathState
  /\ UNCHANGED <<lock, stage, req, res>>

SwapStep(p) ==
  \/ AcquireLock(p) \/ GiveUp(p)
  \/ ReadThrows(p) \/ AlreadyThere(p) \/ Conflict(p) \/ Validate(p)
  \/ Rename(p) \/ WriteFails(p) \/ ReleaseLock(p) \/ Return(p)

SwapNext ==
  \/ \E p \in Writers : Replace(p) \/ Refuse(p) \/ SwapStep(p) \/ WriterDies(p)
  \/ ClearByHand
  \/ Outside

SwapSpec == SwapInit /\ [][SwapNext]_swapVars

\* replace() is synchronous code: a process inside it keeps running, and the
\* wait for the lock is bounded by lockWaitMs.  Nothing obliges a caller to
\* call, a process to die, the operator to act or the outside to interfere.
SwapFairness == \A p \in Writers : WF_swapVars(SwapStep(p))

-----------------------------------------------------------------------------
(* Properties.                                                             *)

\* The lock path names a process exactly while that process is between
\* acquireLock() and releaseLock(): no peer, no crash and no clean-up ever
\* takes a live holder's lock away.
LockNamesHolder == \A p \in Writers : stage[p] \in Holding <=> lock = p

\* Hence no two processes are between the read under the lock and the rename
\* at once, whatever crashed before.
OneWriter ==
  \A p, q \in Writers : stage[p] \in Holding /\ stage[q] \in Holding => p = q

\* The bytes compared under the lock are still there when the rename lands:
\* the check-then-write of replace() is one atomic step to its peers.
WriteIsFresh ==
  \A p \in Writers :
    stage[p] = "writing" =>
      file \notin {Untrusted, req[p].next} /\ Expected(p)

\* What makes replace() exclusive, whatever crashed: the lock names its holder
\* exactly, there is one at a time, and what it compared is what it replaces.
LockedSwap == LockNamesHolder /\ OneWriter /\ WriteIsFresh

\* What the register sees of a process: a call has its answer from the step
\* that decided it, before the lock is released.
Phase(p) == IF stage[p] = "idle" THEN "idle"
            ELSE IF stage[p] \in {"release", "returned"} THEN "done" ELSE "pending"

\* replace() implements the atomic compare-and-swap its callers rely on.
Register == INSTANCE CheckpointRegister
              WITH Procs <- Writers, Absent <- NoContent, Unreadable <- Untrusted,
                   phase <- [p \in Writers |-> Phase(p)]
Linearizable == Register!Spec

\* A call never hangs: with a stray lock in the way it throws, so the gate
\* that called it can refuse instead of blocking every later command.
CallsReturn == \A p \in Writers : stage[p] # "idle" ~> stage[p] = "idle"

=============================================================================
