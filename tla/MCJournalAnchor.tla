--------------------------- MODULE MCJournalAnchor ---------------------------
EXTENDS JournalAnchor, TLC

\* Processes differ in nothing but their names.
Symmetry == Permutations(Procs)

=============================================================================
