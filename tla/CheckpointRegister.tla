------------------------- MODULE CheckpointRegister -------------------------
(***************************************************************************)
(* What FileCheckpoint.replace() promises its callers, without its lock:   *)
(* ONE register holding the bytes at ~/.sthayi/journal.checkpoint, and a   *)
(* compare-and-swap on it that takes effect at a single instant between    *)
(* the call and its return.                                                *)
(*   - it answers "true" only at an instant at which the register holds    *)
(*     `next`, and it got there from `expected` (or by force);             *)
(*   - it answers "false" only at an instant at which the register holds   *)
(*     something else, and then it changed nothing;                        *)
(*   - a call that throws changed nothing;                                 *)
(*   - a caller that dies has either taken effect or not, never half.      *)
(* CheckpointFile implements this specification with a lock file, a read   *)
(* under the lock and a rename.                                            *)
(***************************************************************************)

CONSTANTS
  Procs,       \* the processes sharing one STHAYI_HOME
  Contents,    \* the bytes a checkpoint file can hold
  Absent,      \* no file at the path: read() answers undefined
  Unreadable   \* a symlink, a foreign or unreadable file: read() throws

\* The states of the path, and the arguments of one replace() call.
PathState == Contents \cup {Absent, Unreadable}
Requests  == [expected : Contents \cup {Absent}, next : Contents, force : BOOLEAN]
NoRequest == [expected |-> Absent, next |-> Absent, force |-> FALSE]
Results   == {"true", "false", "threw"}

VARIABLES
  file,   \* what the path holds
  phase,  \* phase[p]: no call, a call in progress, a call that has its answer
  req,    \* req[p]: the arguments of p's call
  res     \* res[p]: the answer of p's call

vars == <<file, phase, req, res>>

Init ==
  /\ file \in PathState
  /\ phase = [p \in Procs |-> "idle"]
  /\ req = [p \in Procs |-> NoRequest]
  /\ res = [p \in Procs |-> "threw"]

Invoke(p) ==
  /\ phase[p] = "idle"
  /\ phase' = [phase EXCEPT ![p] = "pending"]
  /\ \E r \in Requests : req' = [req EXCEPT ![p] = r]
  /\ UNCHANGED <<file, res>>

Answer(p, result) ==
  /\ phase[p] = "pending"
  /\ phase' = [phase EXCEPT ![p] = "done"]
  /\ res' = [res EXCEPT ![p] = result]
  /\ UNCHANGED req

\* The destination already holds `next`.
AlreadyThere(p) ==
  /\ file = req[p].next
  /\ Answer(p, "true")
  /\ UNCHANGED file

\* The swap itself, from the expected bytes or by force.
Swap(p) ==
  /\ file # Unreadable
  /\ file = req[p].expected \/ req[p].force
  /\ file' = req[p].next
  /\ Answer(p, "true")

\* The destination changed under the caller: it is left as it is.
Conflict(p) ==
  /\ file \notin {req[p].next, req[p].expected}
  /\ ~req[p].force
  /\ Answer(p, "false")
  /\ UNCHANGED file

Fail(p) ==
  /\ Answer(p, "threw")
  /\ UNCHANGED file

\* The caller takes its answer, or dies with its call open.
Finish(p) ==
  /\ phase[p] # "idle"
  /\ phase' = [phase EXCEPT ![p] = "idle"]
  /\ req' = [req EXCEPT ![p] = NoRequest]
  /\ res' = [res EXCEPT ![p] = "threw"]
  /\ UNCHANGED file

\* Something that is not a Sthayi writer changes the path.
Outside ==
  /\ file' \in PathState
  /\ UNCHANGED <<phase, req, res>>

Next ==
  \/ \E p \in Procs :
       \/ Invoke(p) \/ AlreadyThere(p) \/ Swap(p)
       \/ Conflict(p) \/ Fail(p) \/ Finish(p)
  \/ Outside

Spec == Init /\ [][Next]_vars

=============================================================================
