------------------------------- MODULE MCStore -------------------------------
(***************************************************************************)
(* Five parts of the store that share no state in the models: the commit   *)
(* callbacks, the association graph, the masked memories, the remask       *)
(* migration and the opening of the database file.  TLC explores each by   *)
(* itself; `part` says which one, and the others rest in one initial       *)
(* state.                                                                  *)
(***************************************************************************)
EXTENDS JournalTransaction, AssocFold, MaskedMemory, PiiRemask, SchemaOpen

VARIABLE part
storeVars == <<part, vars, assocVars, maskedVars, remaskVars, schemaVars>>

StoreInit ==
  /\ part \in {"transaction", "assoc", "masked", "remask", "schema"}
  /\ Init /\ AssocInit /\ MaskedInit /\ RemaskInit /\ SchemaInit
  /\ part # "remask" => marker = "absent" /\ bytes = <<FALSE, FALSE, "none", FALSE, "empty">> /\ ~broken

\* Bound: the longest journals end in a merge, which one process folds.
LongestIsAMerge ==
  Len(work.journal) = MaxEntries =>
    /\ \A p \in Searchers : at[p] \in {"rest", "folding"}
    /\ \A p, q \in Searchers : at[p] = "folding" /\ at[q] = "folding" => p = q
    /\ Last(work.journal).op = "consolidate"

StoreNext ==
  /\ UNCHANGED part
  /\ \/ /\ part = "transaction" /\ Next
        /\ UNCHANGED <<assocVars, maskedVars, remaskVars, schemaVars>>
     \/ /\ part = "assoc" /\ AssocNext /\ LongestIsAMerge'
        /\ UNCHANGED <<vars, maskedVars, remaskVars, schemaVars>>
     \/ /\ part = "masked" /\ MaskedNext
        /\ UNCHANGED <<vars, assocVars, remaskVars, schemaVars>>
     \/ /\ part = "remask" /\ RemaskNext
        /\ UNCHANGED <<vars, assocVars, maskedVars, schemaVars>>
     \/ /\ part = "schema" /\ SchemaNext
        /\ UNCHANGED <<vars, assocVars, maskedVars, remaskVars>>

StoreSpec == StoreInit /\ [][StoreNext]_storeVars

\* What rests is as it was in the initial state.
StoreTypeOK ==
  CASE part = "transaction" -> TypeOK
    [] part = "assoc"       -> AssocTypeOK
    [] part = "masked"      -> MaskedTypeOK
    [] part = "remask"      -> RemaskTypeOK
    [] part = "schema"      -> SchemaTypeOK

\* Memories, and processes, differ in nothing but their names.
Symmetry == Permutations(Mems) \cup Permutations(Searchers)

=============================================================================
