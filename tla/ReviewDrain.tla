----------------------------- MODULE ReviewDrain -----------------------------
(***************************************************************************)
(* `review --confirm-all` (cli index.ts) over MemoryService.transition():  *)
(* the queue of proposals is confirmed page by page, each page a           *)
(* transaction of its own, while other commands and clients confirm,       *)
(* reject and propose in between and may leave the journal blocked.        *)
(***************************************************************************)
EXTENDS Integers, FiniteSets

CONSTANTS Rows,        \* memory ids 1..n, in the order a page lists them
          PageSize, Slack,
          MaxPeers     \* bound: transactions of others

ASSUME DrainAssumption ==
  /\ PageSize \in Nat \ {0} /\ Slack \in Nat /\ MaxPeers \in Nat
  /\ Rows \subseteq Nat /\ IsFiniteSet(Rows)

VARIABLES
  status,     \* status[r] of the memory, "absent" before it is proposed
  blocked,    \* the last append committed without moving the anchor
  peers,
  at,         \* open, confirm, list, then how the command ended
  page,       \* ids of the page listed last
  done,       \* ids the last confirm() returned
  iters, maxIters,
  tally,      \* `confirmed`, the count it reports
  mine,       \* rows this command confirmed (ghost)
  queue       \* proposals when the command opened the store (ghost)

drainVars == <<status, blocked, peers, at, page, done, iters, maxIters, tally, mine, queue>>

\* An exception ends the command without a report: a refused append, or another.
Ends == {"notRun", "ok", "refilled", "unanchored", "refused", "threw"}
DrainTypeOK ==
  /\ status \in [Rows -> {"absent", "proposed", "confirmed", "archived"}]
  /\ blocked \in BOOLEAN /\ peers \in 0..MaxPeers
  /\ at \in {"open", "confirm", "list"} \cup Ends
  /\ page \subseteq Rows /\ done \subseteq Rows /\ mine \subseteq Rows /\ queue \subseteq Rows
  /\ iters \in Nat /\ maxIters \in Nat /\ tally \in Nat

Proposed == {r \in Rows : status[r] = "proposed"}

(* The rows ahead of the others, at most a page of them.                   *)
FirstPage == {r \in Proposed : Cardinality({q \in Proposed : q < r}) < PageSize}
PagesFor(n) == (n + PageSize - 1) \div PageSize

DrainInit ==
  /\ status \in [Rows -> {"absent", "proposed"}]
  /\ blocked \in BOOLEAN /\ peers = 0
  /\ at = "open" /\ page = {} /\ done = {} /\ iters = 0 /\ maxIters = 0 /\ tally = 0
  /\ mine = {} /\ queue = {}

-----------------------------------------------------------------------------
End(how) == at' = how /\ UNCHANGED <<status, blocked, done, tally, mine>>

(* openCliStore() and the first listing; startup work that committed       *)
(* unanchored stops the command.                                           *)
OpenDrain ==
  /\ at = "open"
  /\ \/ at' = "notRun" /\ blocked' = TRUE /\ UNCHANGED <<page, maxIters, queue>>
     \/ at' = "threw" /\ UNCHANGED <<blocked, page, maxIters, queue>>
     \/ /\ at' = "confirm" /\ page' = FirstPage /\ queue' = Proposed
        /\ maxIters' = PagesFor(Cardinality(Proposed)) + Slack
        /\ UNCHANGED blocked
  /\ UNCHANGED <<status, peers, done, iters, tally, mine>>

(* The head of the loop: nothing listed, or too many rounds.               *)
EndOfQueue ==
  /\ at = "confirm"
  /\ \/ page = {} /\ End("ok")
     \/ page # {} /\ iters >= maxIters /\ End("refilled")
  /\ UNCHANGED <<peers, page, iters, maxIters, queue>>

AfterCommit(anchored) == IF anchored THEN "list" ELSE "unanchored"

(* confirm(page): one transaction; a row no longer proposed is passed      *)
(* over, no row means no journal entry, a blocked journal refuses the      *)
(* append and rolls the page back.  confirm() may throw with the page      *)
(* rolled back and, when what runs after the COMMIT throws, with the page  *)
(* durable: the loop catches neither.                                      *)
ConfirmPage ==
  /\ at = "confirm" /\ page # {} /\ iters < maxIters
  /\ iters' = iters + 1
  /\ LET settled == page \cap Proposed
     IN  \/ /\ settled = {}
            /\ done' = {} /\ at' = "list" /\ UNCHANGED <<status, blocked, tally, mine>>
         \/ settled # {} /\ blocked /\ End("refused")
         \/ End("threw")
         \/ /\ settled # {} /\ ~blocked
            /\ status' = [r \in Rows |-> IF r \in settled THEN "confirmed" ELSE status[r]]
            /\ mine' = mine \cup settled
            /\ \E anchored \in BOOLEAN :
                 /\ blocked' = ~anchored
                 /\ \/ /\ at' = AfterCommit(anchored)
                       /\ done' = settled /\ tally' = tally + Cardinality(settled)
                    \/ at' = "threw" /\ UNCHANGED <<done, tally>>
  /\ UNCHANGED <<peers, page, maxIters, queue>>

(* Mutant: one refused entry ends the drain.                               *)
EndsEarlyWhen == done # page
EndsWhen == done = {}

(* Nothing of the page was still proposed: the loop ends; else it lists    *)
(* the first page again, which may throw.                                  *)
ListNext ==
  /\ at = "list"
  /\ \/ EndsWhen /\ End("ok") /\ UNCHANGED page
     \/ ~EndsWhen /\ End("confirm") /\ page' = FirstPage
     \/ ~EndsWhen /\ End("threw") /\ UNCHANGED page
  /\ UNCHANGED <<peers, iters, maxIters, queue>>

(* Others' transactions; the anchor may stay behind one, and a later       *)
(* command repairs it.                                                     *)
Peer ==
  /\ at \notin Ends /\ peers < MaxPeers /\ peers' = peers + 1
  /\ \/ /\ ~blocked /\ blocked' \in BOOLEAN
        /\ \E r \in Rows :
             \/ /\ status[r] = "proposed"
                /\ \E s \in {"confirmed", "archived"} : status' = [status EXCEPT ![r] = s]
             \/ status[r] = "absent" /\ status' = [status EXCEPT ![r] = "proposed"]
     \/ blocked /\ blocked' = FALSE /\ UNCHANGED status
  /\ UNCHANGED <<at, page, done, iters, maxIters, tally, mine, queue>>

DrainNext == OpenDrain \/ EndOfQueue \/ ConfirmPage \/ ListNext \/ Peer
DrainSpec == DrainInit /\ [][DrainNext]_drainVars

-----------------------------------------------------------------------------
(* The number a drain counts up and reports at its end is the number of    *)
(* rows it made durable, each once; after an exception, which reports      *)
(* nothing, at most the page that threw is durable and not counted.  A     *)
(* refused append is never the consequence of its own unanchored page, for *)
(* it stops there.  And a drain that ends well has left a proposal it      *)
(* found undecided only if others had decided every row of its last page   *)
(* between the listing and the confirm() (index.ts, review --confirm-all). *)
DrainReportsWhatItDid ==
  /\ at # "threw" => tally = Cardinality(mine)
  /\ Cardinality(mine) \in tally..(tally + Cardinality(page))
  /\ at = "refused" => done = {} \/ peers > 0
  /\ at = "ok" /\ queue \cap Proposed # {} => page # {} /\ page \cap (Proposed \cup mine) = {}

=============================================================================
