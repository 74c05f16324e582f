------------------------------ MODULE FirstRun ------------------------------
(***************************************************************************)
(* The first-run protocol of openStore() (src/packages/cli/src/store.ts),  *)
(* as several processes opening one brand-new home run it.                 *)
(*                                                                         *)
(* The first process to open a store seals its empty journal.  A key file  *)
(* or checkpoint file next to an empty journal is otherwise evidence of an *)
(* installation whose history was erased, which must never be sealed       *)
(* implicitly.  A bootstrapping process creates both itself, so it first   *)
(* records a claim in the database; the claim is retired once the          *)
(* off-database anchor stands, or once nobody is going to publish it.      *)
(*                                                                         *)
(* ABSTRACTIONS.  The seal is the only journal entry, named by the process *)
(* that made it.  Minting the key is one step.  Publishing the checkpoint  *)
(* file and confirming it are one step, which fails while `unwritable`;    *)
(* the clients ledger, the third marker, is never written by an open.      *)
(***************************************************************************)
EXTENDS Integers

CONSTANTS
  Openers,     \* processes opening the store
  NoSeal,      \* no checkpoint
  Damaged,     \* a checkpoint file that cannot be read
  Mishaps,     \* the mishaps that happen: a subset of AllMishaps
  MaxMishaps   \* bound: mishaps that happen

AllMishaps == {"crash", "jam", "wipe", "damage"}

ASSUME FirstRunAssumption ==
  /\ Mishaps \subseteq AllMishaps
  /\ MaxMishaps \in Nat
  /\ {NoSeal, Damaged} \cap Openers = {} /\ NoSeal # Damaged

VARIABLES
  claim,            \* the install_bootstrap cell
  key,              \* the key file
  sealed,           \* the checkpoint in the database: who sealed, or NoSeal
  published,        \* the checkpoint file
  unwritable,       \* the checkpoint file cannot be written
  opening,          \* where each process is in openStore()
  markers,          \* priorInstallEvidence() as each process read it
  firstRun,         \* firstRunState() as each process read it
  unsealed,         \* whether each process found no checkpoint
  firstRunOutcome,  \* the FirstRunOutcome of each process
  sealings,         \* journal_seal entries the present database ever received
  erased,           \* the database of an initialized installation was wiped
  late,             \* some wait for a peer ran into its deadline
  mishaps           \* mishaps so far

openings == <<opening, markers, firstRun, unsealed, firstRunOutcome>>
disk  == <<claim, key, sealed, published, unwritable, sealings, erased>>
happened == <<late, mishaps>>
firstRunVars == <<openings, disk, happened>>

Claims == {"none", "unsettled", "settled", "abandoned"}
Keys   == {"none", "whole", "malformed"}
States == {"none", "in-flight", "settled"}
FirstRunOutcomes == {"anchored", "unanchored", "peer"}
OpeningPCs == {"closed", "key marker", "file marker", "state", "checkpoint", "claim",
               "crypto", "seal", "mirror", "settle", "retire", "wait", "open"}

FirstRunTypeOK ==
  /\ claim \in Claims /\ key \in Keys
  /\ sealed \in Openers \cup {NoSeal} /\ published \in Openers \cup {NoSeal, Damaged}
  /\ unwritable \in BOOLEAN
  /\ opening \in [Openers -> OpeningPCs]
  /\ markers \in [Openers -> BOOLEAN]
  /\ firstRun \in [Openers -> States]
  /\ unsealed \in [Openers -> BOOLEAN]
  /\ firstRunOutcome \in [Openers -> FirstRunOutcomes]
  /\ sealings \in Nat /\ erased \in BOOLEAN /\ late \in BOOLEAN /\ mishaps \in 0..MaxMishaps

FirstRunInit ==
  /\ claim = "none" /\ key = "none" /\ sealed = NoSeal /\ published = NoSeal
  /\ unwritable = FALSE
  /\ opening = [p \in Openers |-> "closed"]
  /\ markers = [p \in Openers |-> FALSE]
  /\ firstRun = [p \in Openers |-> "none"]
  /\ unsealed = [p \in Openers |-> FALSE]
  /\ firstRunOutcome = [p \in Openers |-> "peer"]
  /\ sealings = 0 /\ erased = FALSE /\ late = FALSE /\ mishaps = 0

FirstRunState == IF claim = "unsettled" THEN "in-flight"
                 ELSE IF claim = "settled" THEN "settled" ELSE "none"

FirstRunAnchored == sealed # NoSeal /\ published = sealed

\* Mutant: the claim excuses nothing.
PriorInstallMarkers(p) == markers[p]

PriorInstallFor(p) == markers[p] /\ firstRun[p] # "in-flight"

-----------------------------------------------------------------------------
(* openStore(), read by read and write by write.                           *)

At(p, here, next) == opening[p] = here /\ opening' = [opening EXCEPT ![p] = next]

Open(p) ==
  /\ At(p, "closed", "key marker")
  /\ UNCHANGED <<markers, firstRun, unsealed, firstRunOutcome, disk, happened>>

\* priorInstallEvidence(): the key file, then the checkpoint file.
ProbeKey(p) ==
  /\ At(p, "key marker", "file marker")
  /\ markers' = [markers EXCEPT ![p] = key # "none"]
  /\ UNCHANGED <<firstRun, unsealed, firstRunOutcome, disk, happened>>

ProbeFile(p) ==
  /\ At(p, "file marker", "state")
  /\ markers' = [markers EXCEPT ![p] = @ \/ published # NoSeal]
  /\ UNCHANGED <<firstRun, unsealed, firstRunOutcome, disk, happened>>

ReadState(p) ==
  /\ At(p, "state", "checkpoint")
  /\ firstRun' = [firstRun EXCEPT ![p] = FirstRunState]
  /\ UNCHANGED <<markers, unsealed, firstRunOutcome, disk, happened>>

\* A genuine first run is claimed before the key is minted.
ReadCheckpoint(p) ==
  /\ At(p, "checkpoint",
        IF sealed = NoSeal /\ firstRun[p] = "none" /\ ~PriorInstallFor(p)
        THEN "claim" ELSE "crypto")
  /\ unsealed' = [unsealed EXCEPT ![p] = sealed = NoSeal]
  /\ UNCHANGED <<markers, firstRun, firstRunOutcome, disk, happened>>

Claim(p) ==
  /\ At(p, "claim", "crypto")
  /\ claim' = "unsettled"
  /\ UNCHANGED <<markers, firstRun, unsealed, firstRunOutcome, key, sealed, published, unwritable,
                 sealings, erased, happened>>

\* NodeCrypto.open(): mint the key, or adopt the one that is there.
OpenCrypto(p) ==
  /\ key # "malformed"
  /\ At(p, "crypto", IF unsealed[p] THEN "seal" ELSE "settle")
  /\ key' = "whole"
  /\ firstRunOutcome' = [firstRunOutcome EXCEPT ![p] = "peer"]
  /\ UNCHANGED <<markers, firstRun, unsealed, claim, sealed, published, unwritable, sealings,
                 erased, happened>>

\* seal(onlyIfMissing), which asks everything again inside its transaction.
SealFoundOne(p) ==
  /\ sealed # NoSeal
  /\ At(p, "seal", "settle")
  /\ UNCHANGED <<markers, firstRun, unsealed, firstRunOutcome, disk, happened>>

\* An installation that was there before, or a checkpoint file that is, whether
\* it can be read or not.
SealRefuses(p) ==
  /\ sealed = NoSeal
  /\ PriorInstallFor(p) \/ published # NoSeal
  /\ At(p, "seal", "settle")
  /\ firstRunOutcome' = [firstRunOutcome EXCEPT ![p] = "unanchored"]
  /\ UNCHANGED <<markers, firstRun, unsealed, disk, happened>>

\* Mutant: the missing checkpoint is not asked for again under the lock.
SealCommitsTwice(p) ==
  /\ ~PriorInstallFor(p)
  /\ At(p, "seal", "mirror")
  /\ sealed' = p
  /\ sealings' = sealings + 1
  /\ UNCHANGED <<markers, firstRun, unsealed, firstRunOutcome, claim, key, published, unwritable,
                 erased, happened>>

SealCommits(p) ==
  /\ sealed = NoSeal
  /\ ~PriorInstallFor(p) /\ published = NoSeal
  /\ At(p, "seal", "mirror")
  /\ sealed' = p
  /\ sealings' = sealings + 1
  /\ UNCHANGED <<markers, firstRun, unsealed, firstRunOutcome, claim, key, published, unwritable,
                 erased, happened>>

\* replace() throws on a lock it cannot take and on a file it cannot read.
MirrorFails == unwritable \/ published = Damaged

\* The forced mirror and its confirmation by read-back.
Mirror(p) ==
  /\ At(p, "mirror", "settle")
  /\ published' = IF MirrorFails THEN published ELSE sealed
  /\ firstRunOutcome' = [firstRunOutcome EXCEPT ![p] =
                            IF MirrorFails THEN "unanchored" ELSE "anchored"]
  /\ UNCHANGED <<markers, firstRun, unsealed, claim, key, sealed, unwritable, sealings,
                 erased, happened>>

\* Mutant: who found the journal sealed does not wait for the anchor.
SettleAtOnce(p) ==
  /\ At(p, "settle",
        IF FirstRunState # "in-flight" \/ firstRunOutcome[p] = "peer" THEN "open" ELSE "retire")
  /\ UNCHANGED <<markers, firstRun, unsealed, firstRunOutcome, disk, happened>>

\* settleFirstRun(): nothing to do unless a claim is outstanding.
Settle(p) ==
  /\ At(p, "settle",
        IF FirstRunState # "in-flight" THEN "open"
        ELSE IF firstRunOutcome[p] = "peer" THEN "wait" ELSE "retire")
  /\ UNCHANGED <<markers, firstRun, unsealed, firstRunOutcome, disk, happened>>

Mark(p, value) ==
  /\ claim' = value
  /\ UNCHANGED <<markers, firstRun, unsealed, firstRunOutcome, key, sealed, published, unwritable,
                 sealings, erased, happened>>

Retire(p) ==
  /\ At(p, "retire", "open")
  /\ Mark(p, IF firstRunOutcome[p] = "anchored" THEN "settled" ELSE "abandoned")

\* One poll of the wait for a peer's anchor.
WaitAnchored(p) ==
  /\ FirstRunAnchored
  /\ At(p, "wait", "retire")
  /\ firstRunOutcome' = [firstRunOutcome EXCEPT ![p] = "anchored"]
  /\ UNCHANGED <<markers, firstRun, unsealed, disk, happened>>

WaitRetired(p) ==
  /\ ~FirstRunAnchored /\ FirstRunState # "in-flight"
  /\ At(p, "wait", "open")
  /\ UNCHANGED <<markers, firstRun, unsealed, firstRunOutcome, disk, happened>>

\* Mutant: the wait for a peer has no deadline.
WaitExpiresNever(p) ==
  /\ FALSE
  /\ At(p, "wait", "retire")
  /\ UNCHANGED <<markers, firstRun, unsealed, firstRunOutcome, disk, happened>>

WaitExpires(p) ==
  /\ ~FirstRunAnchored /\ FirstRunState = "in-flight"
  /\ At(p, "wait", "retire")
  /\ firstRunOutcome' = [firstRunOutcome EXCEPT ![p] = "unanchored"]
  /\ late' = TRUE
  /\ UNCHANGED <<markers, firstRun, unsealed, disk, mishaps>>

Reset(p) ==
  /\ opening' = [opening EXCEPT ![p] = "closed"]
  /\ markers' = [markers EXCEPT ![p] = FALSE]
  /\ firstRun' = [firstRun EXCEPT ![p] = "none"]
  /\ unsealed' = [unsealed EXCEPT ![p] = FALSE]
  /\ firstRunOutcome' = [firstRunOutcome EXCEPT ![p] = "peer"]
  /\ UNCHANGED disk

Close(p) == opening[p] = "open" /\ Reset(p) /\ UNCHANGED happened

\* A key file that is no key makes NodeCrypto.open() throw; a claim just made
\* stays outstanding.
CryptoThrows(p) ==
  /\ opening[p] = "crypto" /\ key = "malformed"
  /\ Reset(p)
  /\ UNCHANGED happened

-----------------------------------------------------------------------------
(* The environment.                                                        *)

Mishap(kind) ==
  /\ kind \in Mishaps
  /\ mishaps < MaxMishaps
  /\ mishaps' = mishaps + 1
  /\ UNCHANGED late

OpenerDies(p) ==
  /\ Mishap("crash")
  /\ opening[p] \notin {"closed", "open"}
  /\ Reset(p)

Obstruct ==
  /\ Mishap("jam")
  /\ unwritable' = ~unwritable
  /\ UNCHANGED <<openings, claim, key, sealed, published, sealings, erased>>

\* Offline, the database is deleted; the home keeps its other files.
Wipe ==
  /\ Mishap("wipe")
  /\ \A p \in Openers : opening[p] = "closed"
  /\ claim' = "none" /\ sealed' = NoSeal /\ sealings' = 0
  /\ erased' = (erased \/ key # "none")
  /\ UNCHANGED <<openings, key, published, unwritable>>

\* A file of the home is truncated, or its owner or mode changes.
Spoil ==
  /\ Mishap("damage")
  /\ \/ key # "none" /\ key' = "malformed" /\ UNCHANGED published
     \/ published # NoSeal /\ published' = Damaged /\ UNCHANGED key
  /\ UNCHANGED <<openings, claim, sealed, unwritable, sealings, erased>>

OpenStep(p) ==
  \/ ProbeKey(p) \/ ProbeFile(p) \/ ReadState(p) \/ ReadCheckpoint(p) \/ Claim(p)
  \/ OpenCrypto(p) \/ CryptoThrows(p) \/ SealFoundOne(p) \/ SealRefuses(p) \/ SealCommits(p)
  \/ Mirror(p) \/ Settle(p) \/ Retire(p)
  \/ WaitAnchored(p) \/ WaitRetired(p) \/ WaitExpires(p)

FirstRunNext ==
  \/ \E p \in Openers : Open(p) \/ OpenStep(p) \/ Close(p) \/ OpenerDies(p)
  \/ Obstruct \/ Wipe \/ Spoil

FirstRunSpec == FirstRunInit /\ [][FirstRunNext]_firstRunVars

\* openStore() is synchronous and its wait is bounded: a process inside it goes
\* on.  Nothing obliges anyone to open the store.
FirstRunFairness == \A p \in Openers : WF_firstRunVars(OpenStep(p))

-----------------------------------------------------------------------------
(* Properties.                                                             *)

\* Racing first runs seal the journal exactly once, whoever crashes where.
SealedOnce == sealings <= 1

\* A wiped database in an initialized home is never sealed implicitly: its
\* claim went with it, so the surviving key is evidence again.
ErasedNeverSealed == erased => sealed = NoSeal

\* Only a new home is sealed, and only once, however openings race or crash.
BootstrapInv == FirstRunTypeOK /\ SealedOnce /\ ErasedNeverSealed

\* While one process is bootstrapping, no other takes the key it has just
\* minted for the residue of an erased installation and refuses the store,
\* whoever crashed or gave up waiting before.
NobodyMistakesABootstrap ==
  \A p \in Openers : opening[p] = "seal" /\ PriorInstallFor(p) => sealed # NoSeal \/ erased

\* A store that opened can be written: while nothing broke and no wait ran out,
\* nobody gets past openStore() before the anchor its first append requires is
\* in place; and whatever broke, the claim says settled only of a store whose
\* two checkpoints agreed, and agree unless the file was damaged since.
OpenMeansAnchored ==
  /\ mishaps = 0 /\ ~late => \A p \in Openers : opening[p] = "open" => FirstRunAnchored
  /\ claim = "settled" => sealed # NoSeal /\ published \in {sealed, Damaged}

\* openStore() returns, even when the peer it waits for died before publishing;
\* and a claim never outlives an opening that gets as far as settling it: peers
\* of a bootstrap that died do not pay its wait for ever.
OpenReturns ==
  \A p \in Openers :
    /\ opening[p] = "key marker" ~> opening[p] \in {"open", "closed"}
    /\ claim = "unsettled" /\ opening[p] = "settle" ~> claim # "unsettled" \/ opening[p] = "closed"

=============================================================================
