------------------------------ MODULE KeyChoice ------------------------------
(***************************************************************************)
(* What the rest of the system takes from the vault key file: the first    *)
(* opening chooses one key, for good, and every other opening learns that  *)
(* one or none (src/packages/cli/src/drivers/crypto.ts, NodeCrypto.open).  *)
(***************************************************************************)
CONSTANTS Minters, NoKey

\* Each process would mint a key of its own: the key is named by the process.
Keys == Minters

VARIABLES chosen, learned
choiceVars == <<chosen, learned>>

ChoiceInit == chosen = NoKey /\ learned = [p \in Minters |-> NoKey]

Choose(p) ==
  /\ chosen = NoKey
  /\ chosen' = p
  /\ learned' = [learned EXCEPT ![p] = p]

Learn(p) ==
  /\ chosen \in Keys
  /\ learned' = [learned EXCEPT ![p] = chosen]
  /\ UNCHANGED chosen

\* A process ends; its successor has to learn the key again.
Forget(p) ==
  /\ learned' = [learned EXCEPT ![p] = NoKey]
  /\ UNCHANGED chosen

ChoiceNext == \E p \in Minters : Choose(p) \/ Learn(p) \/ Forget(p)
ChoiceSpec == ChoiceInit /\ [][ChoiceNext]_choiceVars

=============================================================================
