------------------------ MODULE CheckpointFile_proofs ------------------------
(***************************************************************************)
(* For every set of processes and of checkpoint contents: one writer at a  *)
(* time, the check under the lock is still good when the rename lands, and *)
(* replace() is an atomic compare-and-swap.                                *)
(***************************************************************************)
EXTENDS CheckpointFile, TLAPS

\* The inductive invariant: OneWriter and WriteIsFresh are not inductive on
\* their own, since nothing in them says who may be past acquireLock().
Inv == SwapTypeOK /\ LockNamesHolder /\ WriteIsFresh

LEMMA InitInv == SwapInit => Inv
<1> SUFFICES ASSUME SwapInit PROVE Inv
  OBVIOUS
<1>1. SwapTypeOK
  BY DEF SwapInit, SwapTypeOK, Stages, Results
<1>2. LockNamesHolder
  BY LockAssumption DEF SwapInit, LockNamesHolder, Holding
<1>3. WriteIsFresh
  BY DEF SwapInit, WriteIsFresh
<1>4. QED
  BY <1>1, <1>2, <1>3 DEF Inv

\* Type correctness is preserved by every step.
LEMMA TypeStep == SwapTypeOK /\ [SwapNext]_swapVars => SwapTypeOK'
<1> SUFFICES ASSUME SwapTypeOK, [SwapNext]_swapVars PROVE SwapTypeOK'
  OBVIOUS
<1> USE DEF SwapTypeOK, Stages, Holding, Results, SwapGoto
<1>1. ASSUME NEW p \in Writers, Replace(p) PROVE SwapTypeOK'
  BY <1>1 DEF Replace
<1>2. ASSUME NEW p \in Writers, Refuse(p) PROVE SwapTypeOK'
  BY <1>2 DEF Refuse, Decide
<1>3. ASSUME NEW p \in Writers, AcquireLock(p) PROVE SwapTypeOK'
  BY <1>3 DEF AcquireLock
<1>4. ASSUME NEW p \in Writers, ReadThrows(p) PROVE SwapTypeOK'
  BY <1>4 DEF ReadThrows, Decide
<1>5. ASSUME NEW p \in Writers, AlreadyThere(p) PROVE SwapTypeOK'
  BY <1>5 DEF AlreadyThere, Decide
<1>6. ASSUME NEW p \in Writers, Conflict(p) PROVE SwapTypeOK'
  BY <1>6 DEF Conflict, Decide
<1>7. ASSUME NEW p \in Writers, Validate(p) PROVE SwapTypeOK'
  BY <1>7 DEF Validate
<1>8. ASSUME NEW p \in Writers, Rename(p) PROVE SwapTypeOK'
  BY <1>8 DEF Rename, Requests, NoRequest, PathState
<1>9. ASSUME NEW p \in Writers, WriteFails(p) PROVE SwapTypeOK'
  BY <1>9 DEF WriteFails, Decide
<1>10. ASSUME NEW p \in Writers, ReleaseLock(p) PROVE SwapTypeOK'
  BY <1>10 DEF ReleaseLock
<1>11. ASSUME NEW p \in Writers, Return(p) PROVE SwapTypeOK'
  BY <1>11 DEF Return, Leave
<1>12. ASSUME NEW p \in Writers, WriterDies(p) PROVE SwapTypeOK'
  BY <1>12 DEF WriterDies, Leave
<1>13. CASE ClearByHand
  BY <1>13 DEF ClearByHand
<1>14. CASE Outside
  BY <1>14 DEF Outside
<1>15. CASE UNCHANGED swapVars
  BY <1>15 DEF swapVars
<1>16. QED
  BY <1>1, <1>2, <1>3, <1>4, <1>5, <1>6, <1>7, <1>8, <1>9, <1>10, <1>11,
     <1>12, <1>13, <1>14, <1>15
  DEF SwapNext, SwapStep, GiveUp

\* The lock path follows the one process between acquire and release.
LEMMA LockStep == Inv /\ [SwapNext]_swapVars => LockNamesHolder'
<1> SUFFICES ASSUME Inv, [SwapNext]_swapVars PROVE LockNamesHolder'
  OBVIOUS
<1> USE LockAssumption DEF Inv, SwapTypeOK, LockNamesHolder, Holding, SwapGoto
<1>1. ASSUME NEW p \in Writers, Replace(p) PROVE LockNamesHolder'
  BY <1>1 DEF Replace
<1>2. ASSUME NEW p \in Writers, Refuse(p) PROVE LockNamesHolder'
  BY <1>2 DEF Refuse, Decide
<1>3. ASSUME NEW p \in Writers, AcquireLock(p) PROVE LockNamesHolder'
  BY <1>3 DEF AcquireLock
<1>4. ASSUME NEW p \in Writers, ReadThrows(p) PROVE LockNamesHolder'
  BY <1>4 DEF ReadThrows, Decide
<1>5. ASSUME NEW p \in Writers, AlreadyThere(p) PROVE LockNamesHolder'
  BY <1>5 DEF AlreadyThere, Decide
<1>6. ASSUME NEW p \in Writers, Conflict(p) PROVE LockNamesHolder'
  BY <1>6 DEF Conflict, Decide
<1>7. ASSUME NEW p \in Writers, Validate(p) PROVE LockNamesHolder'
  BY <1>7 DEF Validate
<1>8. ASSUME NEW p \in Writers, Rename(p) PROVE LockNamesHolder'
  BY <1>8 DEF Rename
<1>9. ASSUME NEW p \in Writers, WriteFails(p) PROVE LockNamesHolder'
  BY <1>9 DEF WriteFails, Decide
<1>10. ASSUME NEW p \in Writers, ReleaseLock(p) PROVE LockNamesHolder'
  BY <1>10 DEF ReleaseLock
<1>11. ASSUME NEW p \in Writers, Return(p) PROVE LockNamesHolder'
  BY <1>11 DEF Return, Leave
<1>12. ASSUME NEW p \in Writers, WriterDies(p) PROVE LockNamesHolder'
  BY <1>12 DEF WriterDies, Leave
<1>13. CASE ClearByHand
  BY <1>13 DEF ClearByHand
<1>14. CASE Outside
  BY <1>14 DEF Outside
<1>15. CASE UNCHANGED swapVars
  BY <1>15 DEF swapVars
<1>16. QED
  BY <1>1, <1>2, <1>3, <1>4, <1>5, <1>6, <1>7, <1>8, <1>9, <1>10, <1>11,
     <1>12, <1>13, <1>14, <1>15
  DEF SwapNext, SwapStep, GiveUp

\* Only a rename and the outside change the file.  A rename by p cannot meet
\* another process at "writing", because both would hold the lock; the
\* outside is kept out of that window by its own guard.
LEMMA FreshStep == Inv /\ [SwapNext]_swapVars => WriteIsFresh'
<1> SUFFICES ASSUME Inv, [SwapNext]_swapVars PROVE WriteIsFresh'
  OBVIOUS
<1> USE DEF Inv, SwapTypeOK, WriteIsFresh, Expected, SwapGoto
<1>1. ASSUME NEW p \in Writers, Replace(p) PROVE WriteIsFresh'
  BY <1>1 DEF Replace
<1>2. ASSUME NEW p \in Writers, Refuse(p) PROVE WriteIsFresh'
  BY <1>2 DEF Refuse, Decide
<1>3. ASSUME NEW p \in Writers, AcquireLock(p) PROVE WriteIsFresh'
  BY <1>3 DEF AcquireLock
<1>4. ASSUME NEW p \in Writers, ReadThrows(p) PROVE WriteIsFresh'
  BY <1>4 DEF ReadThrows, Decide
<1>5. ASSUME NEW p \in Writers, AlreadyThere(p) PROVE WriteIsFresh'
  BY <1>5 DEF AlreadyThere, Decide
<1>6. ASSUME NEW p \in Writers, Conflict(p) PROVE WriteIsFresh'
  BY <1>6 DEF Conflict, Decide
<1>7. ASSUME NEW p \in Writers, Validate(p) PROVE WriteIsFresh'
  BY <1>7 DEF Validate
<1>8. ASSUME NEW p \in Writers, Rename(p) PROVE WriteIsFresh'
  <2>1. \A q \in Writers \ {p} : stage[q] # "writing"
    BY <1>8 DEF Rename, LockNamesHolder, Holding
  <2>2. \A q \in Writers : stage'[q] # "writing"
    BY <1>8, <2>1 DEF Rename
  <2>3. QED
    BY <2>2
<1>9. ASSUME NEW p \in Writers, WriteFails(p) PROVE WriteIsFresh'
  BY <1>9 DEF WriteFails, Decide
<1>10. ASSUME NEW p \in Writers, ReleaseLock(p) PROVE WriteIsFresh'
  BY <1>10 DEF ReleaseLock
<1>11. ASSUME NEW p \in Writers, Return(p) PROVE WriteIsFresh'
  BY <1>11 DEF Return, Leave
<1>12. ASSUME NEW p \in Writers, WriterDies(p) PROVE WriteIsFresh'
  BY <1>12 DEF WriterDies, Leave
<1>13. CASE ClearByHand
  BY <1>13 DEF ClearByHand
<1>14. CASE Outside
  BY <1>14 DEF Outside
<1>15. CASE UNCHANGED swapVars
  BY <1>15 DEF swapVars
<1>16. QED
  BY <1>1, <1>2, <1>3, <1>4, <1>5, <1>6, <1>7, <1>8, <1>9, <1>10, <1>11,
     <1>12, <1>13, <1>14, <1>15
  DEF SwapNext, SwapStep, GiveUp

\* The inductive invariant holds in every reachable state of replace().
THEOREM InvHolds == SwapSpec => []Inv
<1>1. Inv /\ [SwapNext]_swapVars => Inv'
  BY TypeStep, LockStep, FreshStep DEF Inv
<1>2. QED
  BY InitInv, <1>1, PTL DEF SwapSpec

\* Every variable of replace() stays in its type.
THEOREM TypeCorrect == SwapSpec => []SwapTypeOK
<1>1. Inv => SwapTypeOK
  BY DEF Inv
<1>2. QED
  BY InvHolds, <1>1, PTL

\* The lock file excludes: whatever processes crash and whenever the operator
\* clears a stray lock, the lock names its holder, two writers are never inside
\* replace() together, and the comparison still holds when the rename lands.
THEOREM MutualExclusion == SwapSpec => []LockedSwap
<1>1. Inv => OneWriter
  BY DEF Inv, LockNamesHolder, OneWriter
<1>2. Inv => LockedSwap
  BY <1>1 DEF Inv, LockedSwap
<1>3. QED
  BY InvHolds, <1>2, PTL

\* replace() implements the atomic compare-and-swap register: every step maps
\* to one step of the register or changes nothing in it.
THEOREM Implements == SwapSpec => Linearizable
<1>1. SwapInit => Register!Init
  BY DEF SwapInit, Register!Init, PathState, Register!PathState,
         NoRequest, Register!NoRequest, Phase
<1>2. Inv /\ [SwapNext]_swapVars => [Register!Next]_(Register!vars)
  <2> SUFFICES ASSUME Inv, [SwapNext]_swapVars
               PROVE  Register!Next \/ UNCHANGED Register!vars
    OBVIOUS
  <2> USE DEF Inv, SwapTypeOK, Stages, Holding, SwapGoto, Phase
  <2>1. ASSUME NEW p \in Writers, Replace(p) PROVE Register!Next
    <3>1. Register!Invoke(p)
      BY <2>1 DEF Replace, Register!Invoke, Requests, Register!Requests
    <3>2. QED
      BY <3>1 DEF Register!Next
  <2>2. ASSUME NEW p \in Writers, Refuse(p) PROVE Register!Next
    <3>1. Register!Fail(p)
      BY <2>2 DEF Refuse, Register!Fail, Decide, Register!Answer
    <3>2. QED
      BY <3>1 DEF Register!Next
  <2>3. ASSUME NEW p \in Writers, AcquireLock(p) PROVE UNCHANGED Register!vars
    BY <2>3 DEF AcquireLock, Register!vars
  <2>4. ASSUME NEW p \in Writers, ReadThrows(p) PROVE Register!Next
    <3>1. Register!Fail(p)
      BY <2>4 DEF ReadThrows, Register!Fail, Decide, Register!Answer
    <3>2. QED
      BY <3>1 DEF Register!Next
  <2>5. ASSUME NEW p \in Writers, AlreadyThere(p) PROVE Register!Next
    <3>1. Register!AlreadyThere(p)
      BY <2>5 DEF AlreadyThere, Register!AlreadyThere, Decide, Register!Answer
    <3>2. QED
      BY <3>1 DEF Register!Next
  <2>6. ASSUME NEW p \in Writers, Conflict(p) PROVE Register!Next
    <3>1. Register!Conflict(p)
      BY <2>6 DEF Conflict, Register!Conflict, Decide, Register!Answer, Expected
    <3>2. QED
      BY <3>1 DEF Register!Next
  <2>7. ASSUME NEW p \in Writers, Validate(p) PROVE UNCHANGED Register!vars
    BY <2>7 DEF Validate, Register!vars
  <2>8. ASSUME NEW p \in Writers, Rename(p) PROVE Register!Next
    <3>1. Register!Swap(p)
      BY <2>8 DEF Rename, Register!Swap, WriteIsFresh, Expected, Register!Answer
    <3>2. QED
      BY <3>1 DEF Register!Next
  <2>9. ASSUME NEW p \in Writers, WriteFails(p) PROVE Register!Next
    <3>1. Register!Fail(p)
      BY <2>9 DEF WriteFails, Register!Fail, Decide, Register!Answer
    <3>2. QED
      BY <3>1 DEF Register!Next
  <2>10. ASSUME NEW p \in Writers, ReleaseLock(p) PROVE UNCHANGED Register!vars
    BY <2>10 DEF ReleaseLock, Register!vars
  <2>11. ASSUME NEW p \in Writers, Return(p) PROVE Register!Next
    <3>1. Register!Finish(p)
      BY <2>11 DEF Return, Register!Finish, Leave, NoRequest, Register!NoRequest
    <3>2. QED
      BY <3>1 DEF Register!Next
  <2>12. ASSUME NEW p \in Writers, WriterDies(p) PROVE Register!Next
    <3>1. Register!Finish(p)
      BY <2>12 DEF WriterDies, Register!Finish, Leave, NoRequest, Register!NoRequest
    <3>2. QED
      BY <3>1 DEF Register!Next
  <2>13. CASE ClearByHand
    BY <2>13 DEF ClearByHand, Register!vars
  <2>14. CASE Outside
    <3>1. Register!Outside
      BY <2>14 DEF Outside, Register!Outside, PathState, Register!PathState
    <3>2. QED
      BY <3>1 DEF Register!Next
  <2>15. CASE UNCHANGED swapVars
    BY <2>15 DEF swapVars, Register!vars
  <2>16. QED
    BY <2>1, <2>2, <2>3, <2>4, <2>5, <2>6, <2>7, <2>8, <2>9, <2>10, <2>11,
       <2>12, <2>13, <2>14, <2>15
    DEF SwapNext, SwapStep, GiveUp
<1>3. QED
  BY <1>1, <1>2, InvHolds, PTL DEF SwapSpec, Linearizable, Register!Spec

=============================================================================
