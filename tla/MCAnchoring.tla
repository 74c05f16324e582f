------------------------------ MODULE MCAnchoring ------------------------------
(***************************************************************************)
(* What the liveness of a command rests on: the replacement of the         *)
(* checkpoint file, the first opening of a store and the anchoring of its  *)
(* journal share no state in the models.  TLC explores each by itself;     *)
(* `part` says which one, and the others rest in one initial state.        *)
(***************************************************************************)
EXTENDS JournalAnchor, CheckpointFile, FirstRun

VARIABLE part
anchoringVars == <<part, vars, swapVars, firstRunVars>>

AnchoringInit ==
  /\ part \in {"anchor", "file", "first run"}
  /\ Init
  /\ SwapInit
  /\ part # "file" => file = NoContent
  /\ FirstRunInit

AnchoringNext ==
  /\ UNCHANGED part
  /\ \/ part = "anchor" /\ Next /\ UNCHANGED <<swapVars, firstRunVars>>
     \/ part = "file" /\ SwapNext /\ UNCHANGED <<vars, firstRunVars>>
     \/ part = "first run" /\ FirstRunNext /\ UNCHANGED <<vars, swapVars>>

AnchoringSpec ==
  /\ AnchoringInit
  /\ [][AnchoringNext]_anchoringVars
  /\ \A p \in Procs   : WF_vars(part = "anchor" /\ Step(p))
  /\ \A p \in Writers : WF_swapVars(part = "file" /\ SwapStep(p))
  /\ \A p \in Openers : WF_firstRunVars(part = "first run" /\ OpenStep(p))

=============================================================================
