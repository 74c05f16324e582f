--------------------------- MODULE FirstRun_proofs ---------------------------
(***************************************************************************)
(* For every set of processes and of mishaps: a new home is sealed at most *)
(* once, an erased installation never, and no opening takes a bootstrap in *)
(* progress for an erased installation.                                    *)
(***************************************************************************)
EXTENDS FirstRun, TLAPS

(* The properties say what holds when a process is about to seal, or is    *)
(* done; what makes them true is where it has been.  In a home that was    *)
(* never erased, a key without a journal is somebody's claimed bootstrap,  *)
(* so that whoever saw the key sees the claim, or the journal, afterwards; *)
(* and whoever publishes the anchor, nobody else takes it away.            *)
Past(p) == opening[p] \notin {"closed", "key marker"}
AfterState(p) == opening[p] \in {"checkpoint", "claim", "crypto", "seal"}
AfterSeal(p) == opening[p] \in {"mirror", "settle", "retire", "wait", "open"}

\* What stays of an anchor: the file may be damaged, and nothing else.
StillAnchored == sealed # NoSeal /\ published \in {sealed, Damaged}

Counted == (sealed = NoSeal => sealings = 0) /\ sealings \in {0, 1}

Claimed ==
  /\ published # NoSeal => sealed # NoSeal
  /\ claim = "abandoned" => sealed # NoSeal
  /\ claim = "settled" => StillAnchored
  /\ sealed # NoSeal => key # "none"
  /\ key # "none" => claim # "none" /\ (sealed # NoSeal \/ claim = "unsettled")

Opening(p) ==
  /\ opening[p] = "closed" => ~markers[p] /\ firstRun[p] = "none" /\ firstRunOutcome[p] = "peer"
  /\ markers[p] => key # "none"
  /\ firstRun[p] = "in-flight" => sealed # NoSeal \/ claim = "unsettled"
  /\ firstRun[p] = "settled" => sealed # NoSeal
  /\ AfterState(p) /\ PriorInstallFor(p) => sealed # NoSeal
  /\ opening[p] = "crypto" => sealed # NoSeal \/ claim = "unsettled"
  /\ opening[p] \in {"claim", "crypto"} /\ ~unsealed[p] => sealed # NoSeal
  /\ opening[p] = "seal" => key # "none"
  /\ AfterSeal(p) => sealed # NoSeal
  /\ opening[p] = "retire" => firstRunOutcome[p] # "peer"
  /\ firstRunOutcome[p] = "anchored" => StillAnchored

Bootstrapping == Claimed /\ \A p \in Openers : Opening(p)

(* While nothing breaks, no wait is given up and no anchor fails.          *)
Done(p) == firstRunOutcome[p] # "unanchored" /\ (opening[p] = "open" => FirstRunAnchored)

Unbroken ==
  /\ ~erased /\ ~unwritable /\ claim # "abandoned"
  /\ key # "malformed" /\ published # Damaged
  /\ \A p \in Openers : Done(p)

(* An erased home: the key is there for everybody to see, and no claim.    *)
Refusing(p) == /\ firstRun[p] = "none"
               /\ Past(p) => markers[p]
               /\ opening[p] \notin {"claim", "mirror", "retire", "wait"}

Erased == key # "none" /\ sealed = NoSeal /\ claim = "none" /\ \A p \in Openers : Refusing(p)

Inv ==
  /\ FirstRunTypeOK /\ Counted
  /\ ~erased => Bootstrapping
  /\ erased => Erased
  /\ mishaps = 0 /\ ~late => Unbroken

LEMMA InitInv == FirstRunInit => Inv
<1> SUFFICES ASSUME FirstRunInit PROVE Inv
  OBVIOUS
<1> USE FirstRunAssumption DEF FirstRunAssumption, FirstRunInit
<1>1. FirstRunTypeOK
  <2>1. [p \in Openers |-> FALSE] \in [Openers -> BOOLEAN]
    OBVIOUS
  <2>2. mishaps \in 0..MaxMishaps /\ sealings \in Nat
    OBVIOUS
  <2>3. QED
    BY <2>1, <2>2 DEF FirstRunTypeOK, Claims, Keys, OpeningPCs, States, FirstRunOutcomes
<1>2. Counted /\ ~erased
  BY DEF Counted
<1>3. Bootstrapping
  BY DEF Bootstrapping, Claimed, Opening, AfterState, AfterSeal, StillAnchored, PriorInstallFor
<1>4. Unbroken
  BY DEF Unbroken, Done
<1>5. QED
  BY <1>1, <1>2, <1>3, <1>4 DEF Inv

LEMMA OneMore == ASSUME NEW n \in Nat PROVE n + 1 \in Nat
OBVIOUS

LEMMA OneMoreFault == ASSUME NEW m \in Nat, NEW f \in 0..m, f < m PROVE f + 1 \in 0..m
OBVIOUS

LEMMA FaultType == ASSUME FirstRunTypeOK, NEW kind, Mishap(kind) PROVE mishaps' \in 0..MaxMishaps
BY FirstRunAssumption, OneMoreFault DEF FirstRunAssumption, FirstRunTypeOK, Mishap

LEMMA TypeStep == FirstRunTypeOK /\ [FirstRunNext]_firstRunVars => FirstRunTypeOK'
<1> SUFFICES ASSUME FirstRunTypeOK, [FirstRunNext]_firstRunVars PROVE FirstRunTypeOK'
  OBVIOUS
<1> USE FirstRunAssumption
    DEF FirstRunAssumption, FirstRunTypeOK, Claims, Keys, OpeningPCs, States, FirstRunOutcomes,
        openings, disk, happened, At
<1>1. ASSUME NEW p \in Openers, Open(p) PROVE FirstRunTypeOK'
  BY <1>1 DEF Open
<1>2. ASSUME NEW p \in Openers, ProbeKey(p) PROVE FirstRunTypeOK'
  BY <1>2 DEF ProbeKey
<1>3. ASSUME NEW p \in Openers, ProbeFile(p) PROVE FirstRunTypeOK'
  <2>1. (markers[p] \/ (published # NoSeal)) \in BOOLEAN
    OBVIOUS
  <2>2. QED
    BY <1>3, <2>1 DEF ProbeFile
<1>4. ASSUME NEW p \in Openers, ReadState(p) PROVE FirstRunTypeOK'
  BY <1>4 DEF ReadState, FirstRunState
<1>5. ASSUME NEW p \in Openers, ReadCheckpoint(p) PROVE FirstRunTypeOK'
  BY <1>5 DEF ReadCheckpoint
<1>6. ASSUME NEW p \in Openers, Claim(p) PROVE FirstRunTypeOK'
  BY <1>6 DEF Claim
<1>7. ASSUME NEW p \in Openers, OpenCrypto(p) PROVE FirstRunTypeOK'
  BY <1>7 DEF OpenCrypto
<1>8. ASSUME NEW p \in Openers, SealFoundOne(p) PROVE FirstRunTypeOK'
  BY <1>8 DEF SealFoundOne
<1>9. ASSUME NEW p \in Openers, SealRefuses(p) PROVE FirstRunTypeOK'
  BY <1>9 DEF SealRefuses
<1>10. ASSUME NEW p \in Openers, SealCommits(p) PROVE FirstRunTypeOK'
  <2>1. sealings' \in Nat
    BY <1>10, OneMore DEF SealCommits
  <2>2. QED
    BY <1>10, <2>1 DEF SealCommits
<1>11. ASSUME NEW p \in Openers, Mirror(p) PROVE FirstRunTypeOK'
  BY <1>11 DEF Mirror, MirrorFails
<1>12. ASSUME NEW p \in Openers, Settle(p) PROVE FirstRunTypeOK'
  BY <1>12 DEF Settle
<1>13. ASSUME NEW p \in Openers, Retire(p) PROVE FirstRunTypeOK'
  BY <1>13 DEF Retire, Mark
<1>14. ASSUME NEW p \in Openers, WaitAnchored(p) PROVE FirstRunTypeOK'
  BY <1>14 DEF WaitAnchored
<1>15. ASSUME NEW p \in Openers, WaitRetired(p) PROVE FirstRunTypeOK'
  BY <1>15 DEF WaitRetired
<1>16. ASSUME NEW p \in Openers, WaitExpires(p) PROVE FirstRunTypeOK'
  BY <1>16 DEF WaitExpires
<1>17. ASSUME NEW p \in Openers, Close(p) PROVE FirstRunTypeOK'
  BY <1>17 DEF Close, Reset
<1>18. ASSUME NEW p \in Openers, OpenerDies(p) PROVE FirstRunTypeOK'
  <2>1. mishaps' \in 0..MaxMishaps
    BY <1>18, FaultType DEF OpenerDies
  <2>2. QED
    BY <1>18, <2>1 DEF OpenerDies, Reset, Mishap
<1>19. CASE Obstruct
  <2>1. mishaps' \in 0..MaxMishaps
    BY <1>19, FaultType DEF Obstruct
  <2>2. unwritable' \in BOOLEAN
    BY <1>19 DEF Obstruct
  <2>3. QED
    BY <1>19, <2>1, <2>2 DEF Obstruct, Mishap
<1>20. CASE Wipe
  <2>1. mishaps' \in 0..MaxMishaps
    BY <1>20, FaultType DEF Wipe
  <2>2. erased' \in BOOLEAN
    BY <1>20 DEF Wipe
  <2>3. QED
    BY <1>20, <2>1, <2>2 DEF Wipe, Mishap
<1>21. CASE UNCHANGED firstRunVars
  BY <1>21 DEF firstRunVars
<1>22. ASSUME NEW p \in Openers, CryptoThrows(p) PROVE FirstRunTypeOK'
  BY <1>22 DEF CryptoThrows, Reset
<1>23. CASE Spoil
  <2>1. mishaps' \in 0..MaxMishaps
    BY <1>23, FaultType DEF Spoil
  <2>2. QED
    BY <1>23, <2>1 DEF Spoil, Mishap
<1>24. QED
  BY <1>1, <1>2, <1>3, <1>4, <1>5, <1>6, <1>7, <1>8, <1>9, <1>10, <1>11, <1>12, <1>13,
     <1>14, <1>15, <1>16, <1>17, <1>18, <1>19, <1>20, <1>21, <1>22, <1>23 DEF FirstRunNext, OpenStep

(* A seal is an entry of a journal that has no checkpoint yet.             *)
LEMMA CountedStep == FirstRunTypeOK /\ Counted /\ [FirstRunNext]_firstRunVars => Counted'
<1> SUFFICES ASSUME FirstRunTypeOK, Counted, [FirstRunNext]_firstRunVars PROVE Counted'
  OBVIOUS
<1> USE FirstRunAssumption DEF FirstRunAssumption, Counted, FirstRunTypeOK
<1>1. ASSUME NEW p \in Openers, SealCommits(p) PROVE Counted'
  BY <1>1 DEF SealCommits
<1>2. CASE Wipe
  BY <1>2 DEF Wipe
<1>3. ASSUME UNCHANGED <<sealed, sealings>> PROVE Counted'
  BY <1>3
<1>4. QED
  BY <1>1, <1>2, <1>3
  DEF FirstRunNext, OpenStep, Open, ProbeKey, ProbeFile, ReadState, ReadCheckpoint, Claim,
      OpenCrypto, CryptoThrows, SealFoundOne, SealRefuses, Mirror, Settle, Retire, Mark,
      WaitAnchored, WaitRetired, WaitExpires, Close, OpenerDies, Reset, Obstruct, Spoil,
      firstRunVars, openings, disk, happened

(* In a home that stays unerased, a bootstrap in progress is recognisable. *)
LEMMA BootstrapStep ==
  FirstRunTypeOK /\ ~erased /\ Bootstrapping /\ [FirstRunNext]_firstRunVars /\ ~erased'
    => Bootstrapping'
<1> SUFFICES ASSUME FirstRunTypeOK, ~erased, Bootstrapping, [FirstRunNext]_firstRunVars, ~erased'
             PROVE  Bootstrapping'
  OBVIOUS
<1> USE FirstRunAssumption
    DEF FirstRunAssumption, FirstRunTypeOK, Bootstrapping, Claimed, Opening, AfterState, AfterSeal,
        StillAnchored, PriorInstallFor, FirstRunAnchored, Claims, Keys, States, FirstRunOutcomes,
        At, disk, happened
<1>1. ASSUME NEW p \in Openers, Open(p) PROVE Bootstrapping'
  <2>1. Claimed'
    BY <1>1 DEF Open
  <2>2. ASSUME NEW q \in Openers PROVE Opening(q)'
    BY <1>1, <2>2 DEF Open
  <2>3. QED
    BY <2>1, <2>2
<1>2. ASSUME NEW p \in Openers, ProbeKey(p) PROVE Bootstrapping'
  <2>1. Claimed'
    BY <1>2 DEF ProbeKey
  <2>2. ASSUME NEW q \in Openers PROVE Opening(q)'
    BY <1>2, <2>2 DEF ProbeKey
  <2>3. QED
    BY <2>1, <2>2
<1>3. ASSUME NEW p \in Openers, ProbeFile(p) PROVE Bootstrapping'
  <2>1. Claimed'
    BY <1>3 DEF ProbeFile
  <2>2. ASSUME NEW q \in Openers PROVE Opening(q)'
    BY <1>3, <2>2 DEF ProbeFile
  <2>3. QED
    BY <2>1, <2>2
<1>4. ASSUME NEW p \in Openers, ReadState(p) PROVE Bootstrapping'
  <2>1. Claimed'
    BY <1>4 DEF ReadState, FirstRunState
  <2>2. ASSUME NEW q \in Openers PROVE Opening(q)'
    BY <1>4, <2>2 DEF ReadState, FirstRunState
  <2>3. QED
    BY <2>1, <2>2
<1>5. ASSUME NEW p \in Openers, ReadCheckpoint(p) PROVE Bootstrapping'
  <2>1. Claimed'
    BY <1>5 DEF ReadCheckpoint, PriorInstallFor
  <2>2. ASSUME NEW q \in Openers PROVE Opening(q)'
    BY <1>5, <2>2 DEF ReadCheckpoint, PriorInstallFor
  <2>3. QED
    BY <2>1, <2>2
<1>6. ASSUME NEW p \in Openers, Claim(p) PROVE Bootstrapping'
  <2>1. Claimed'
    BY <1>6 DEF Claim
  <2>2. ASSUME NEW q \in Openers PROVE Opening(q)'
    BY <1>6, <2>2 DEF Claim
  <2>3. QED
    BY <2>1, <2>2
<1>7. ASSUME NEW p \in Openers, OpenCrypto(p) PROVE Bootstrapping'
  <2>1. Claimed'
    BY <1>7 DEF OpenCrypto
  <2>2. ASSUME NEW q \in Openers PROVE Opening(q)'
    BY <1>7, <2>2 DEF OpenCrypto
  <2>3. QED
    BY <2>1, <2>2
<1>8. ASSUME NEW p \in Openers, SealFoundOne(p) PROVE Bootstrapping'
  <2>1. Claimed'
    BY <1>8 DEF SealFoundOne
  <2>2. ASSUME NEW q \in Openers PROVE Opening(q)'
    BY <1>8, <2>2 DEF SealFoundOne
  <2>3. QED
    BY <2>1, <2>2
<1>9. ASSUME NEW p \in Openers, SealRefuses(p) PROVE Bootstrapping'
  <2>1. Claimed'
    BY <1>9 DEF SealRefuses, PriorInstallFor
  <2>2. ASSUME NEW q \in Openers PROVE Opening(q)'
    BY <1>9, <2>2 DEF SealRefuses, PriorInstallFor
  <2>3. QED
    BY <2>1, <2>2
<1>10. ASSUME NEW p \in Openers, SealCommits(p) PROVE Bootstrapping'
  <2>1. Claimed'
    BY <1>10 DEF SealCommits, PriorInstallFor
  <2>2. ASSUME NEW q \in Openers PROVE Opening(q)'
    BY <1>10, <2>2 DEF SealCommits, PriorInstallFor
  <2>3. QED
    BY <2>1, <2>2
<1>11. ASSUME NEW p \in Openers, Mirror(p) PROVE Bootstrapping'
  <2>1. Claimed'
    BY <1>11 DEF Mirror, MirrorFails
  <2>2. ASSUME NEW q \in Openers PROVE Opening(q)'
    BY <1>11, <2>2 DEF Mirror, MirrorFails
  <2>3. QED
    BY <2>1, <2>2
<1>12. ASSUME NEW p \in Openers, Settle(p) PROVE Bootstrapping'
  <2>1. Claimed'
    BY <1>12 DEF Settle, FirstRunState
  <2>2. ASSUME NEW q \in Openers PROVE Opening(q)'
    BY <1>12, <2>2 DEF Settle, FirstRunState
  <2>3. QED
    BY <2>1, <2>2
<1>13. ASSUME NEW p \in Openers, Retire(p) PROVE Bootstrapping'
  <2>1. Claimed'
    BY <1>13 DEF Retire, Mark
  <2>2. ASSUME NEW q \in Openers PROVE Opening(q)'
    BY <1>13, <2>2 DEF Retire, Mark
  <2>3. QED
    BY <2>1, <2>2
<1>14. ASSUME NEW p \in Openers, WaitAnchored(p) PROVE Bootstrapping'
  <2>1. Claimed'
    BY <1>14 DEF WaitAnchored
  <2>2. ASSUME NEW q \in Openers PROVE Opening(q)'
    BY <1>14, <2>2 DEF WaitAnchored
  <2>3. QED
    BY <2>1, <2>2
<1>15. ASSUME NEW p \in Openers, WaitRetired(p) PROVE Bootstrapping'
  <2>1. Claimed'
    BY <1>15 DEF WaitRetired, FirstRunState
  <2>2. ASSUME NEW q \in Openers PROVE Opening(q)'
    BY <1>15, <2>2 DEF WaitRetired, FirstRunState
  <2>3. QED
    BY <2>1, <2>2
<1>16. ASSUME NEW p \in Openers, WaitExpires(p) PROVE Bootstrapping'
  <2>1. Claimed'
    BY <1>16 DEF WaitExpires
  <2>2. ASSUME NEW q \in Openers PROVE Opening(q)'
    BY <1>16, <2>2 DEF WaitExpires
  <2>3. QED
    BY <2>1, <2>2
<1>17. ASSUME NEW p \in Openers, Close(p) PROVE Bootstrapping'
  <2>1. Claimed'
    BY <1>17 DEF Close, Reset
  <2>2. ASSUME NEW q \in Openers PROVE Opening(q)'
    BY <1>17, <2>2 DEF Close, Reset
  <2>3. QED
    BY <2>1, <2>2
<1>18. ASSUME NEW p \in Openers, OpenerDies(p) PROVE Bootstrapping'
  <2>1. Claimed'
    BY <1>18 DEF OpenerDies, Reset, Mishap
  <2>2. ASSUME NEW q \in Openers PROVE Opening(q)'
    BY <1>18, <2>2 DEF OpenerDies, Reset, Mishap
  <2>3. QED
    BY <2>1, <2>2
<1>19. CASE Obstruct
  BY <1>19 DEF Obstruct, Mishap, openings
<1>20. CASE Wipe
  BY <1>20 DEF Wipe, Mishap, openings
<1>21. CASE UNCHANGED firstRunVars
  BY <1>21 DEF firstRunVars, openings
<1>22. ASSUME NEW p \in Openers, CryptoThrows(p) PROVE Bootstrapping'
  <2>1. Claimed'
    BY <1>22 DEF CryptoThrows, Reset
  <2>2. ASSUME NEW q \in Openers PROVE Opening(q)'
    BY <1>22, <2>2 DEF CryptoThrows, Reset
  <2>3. QED
    BY <2>1, <2>2
<1>23. CASE Spoil
  <2>1. Claimed'
    BY <1>23 DEF Spoil, Mishap, openings
  <2>2. ASSUME NEW q \in Openers PROVE Opening(q)'
    BY <1>23, <2>2 DEF Spoil, Mishap, openings
  <2>3. QED
    BY <2>1, <2>2
<1>24. QED
  BY <1>1, <1>2, <1>3, <1>4, <1>5, <1>6, <1>7, <1>8, <1>9, <1>10, <1>11, <1>12, <1>13,
     <1>14, <1>15, <1>16, <1>17, <1>18, <1>19, <1>20, <1>21, <1>22, <1>23
  DEF FirstRunNext, OpenStep

(* An erased home stays unsealed, whatever opens it.                       *)
LEMMA ErasedStep ==
  FirstRunTypeOK /\ erased /\ Erased /\ [FirstRunNext]_firstRunVars => Erased'
<1> SUFFICES ASSUME FirstRunTypeOK, erased, Erased, [FirstRunNext]_firstRunVars
             PROVE  Erased'
  OBVIOUS
<1> USE FirstRunAssumption
    DEF FirstRunAssumption, FirstRunTypeOK, Keys, Erased, Refusing, Past,
        PriorInstallFor, FirstRunState, FirstRunAnchored, At, disk, happened
<1>1. ASSUME NEW p \in Openers, Open(p) PROVE Erased'
  BY <1>1 DEF Open
<1>2. ASSUME NEW p \in Openers, ProbeKey(p) PROVE Erased'
  BY <1>2 DEF ProbeKey
<1>3. ASSUME NEW p \in Openers, ProbeFile(p) PROVE Erased'
  BY <1>3 DEF ProbeFile
<1>4. ASSUME NEW p \in Openers, ReadState(p) PROVE Erased'
  BY <1>4 DEF ReadState, FirstRunState
<1>5. ASSUME NEW p \in Openers, ReadCheckpoint(p) PROVE Erased'
  BY <1>5 DEF ReadCheckpoint, PriorInstallFor
<1>6. ASSUME NEW p \in Openers, Claim(p) PROVE Erased'
  BY <1>6 DEF Claim
<1>7. ASSUME NEW p \in Openers, OpenCrypto(p) PROVE Erased'
  BY <1>7 DEF OpenCrypto
<1>8. ASSUME NEW p \in Openers, SealFoundOne(p) PROVE Erased'
  BY <1>8 DEF SealFoundOne
<1>9. ASSUME NEW p \in Openers, SealRefuses(p) PROVE Erased'
  BY <1>9 DEF SealRefuses, PriorInstallFor
<1>10. ASSUME NEW p \in Openers, SealCommits(p) PROVE Erased'
  BY <1>10 DEF SealCommits, PriorInstallFor
<1>11. ASSUME NEW p \in Openers, Mirror(p) PROVE Erased'
  BY <1>11 DEF Mirror, MirrorFails
<1>12. ASSUME NEW p \in Openers, Settle(p) PROVE Erased'
  BY <1>12 DEF Settle, FirstRunState
<1>13. ASSUME NEW p \in Openers, Retire(p) PROVE Erased'
  BY <1>13 DEF Retire, Mark
<1>14. ASSUME NEW p \in Openers, WaitAnchored(p) PROVE Erased'
  BY <1>14 DEF WaitAnchored
<1>15. ASSUME NEW p \in Openers, WaitRetired(p) PROVE Erased'
  BY <1>15 DEF WaitRetired, FirstRunState
<1>16. ASSUME NEW p \in Openers, WaitExpires(p) PROVE Erased'
  BY <1>16 DEF WaitExpires
<1>17. ASSUME NEW p \in Openers, Close(p) PROVE Erased'
  BY <1>17 DEF Close, Reset
<1>18. ASSUME NEW p \in Openers, OpenerDies(p) PROVE Erased'
  BY <1>18 DEF OpenerDies, Reset, Mishap
<1>19. CASE Obstruct
  BY <1>19 DEF Obstruct, Mishap, openings
<1>20. CASE Wipe
  BY <1>20 DEF Wipe, Mishap, openings
<1>21. CASE UNCHANGED firstRunVars
  BY <1>21 DEF firstRunVars, openings
<1>22. ASSUME NEW p \in Openers, CryptoThrows(p) PROVE Erased'
  BY <1>22 DEF CryptoThrows, Reset
<1>23. CASE Spoil
  BY <1>23 DEF Spoil, Mishap, openings
<1>24. QED
  BY <1>1, <1>2, <1>3, <1>4, <1>5, <1>6, <1>7, <1>8, <1>9, <1>10, <1>11, <1>12, <1>13,
     <1>14, <1>15, <1>16, <1>17, <1>18, <1>19, <1>20, <1>21, <1>22, <1>23
  DEF FirstRunNext, OpenStep

(* The wipe of a home with a key makes it one.                             *)
LEMMA ErasingStep ==
  FirstRunTypeOK /\ ~erased /\ Bootstrapping /\ [FirstRunNext]_firstRunVars /\ erased'
    => Erased'
<1> SUFFICES ASSUME FirstRunTypeOK, ~erased, Bootstrapping, [FirstRunNext]_firstRunVars, erased'
             PROVE  Erased'
  OBVIOUS
<1>1. Wipe
  BY DEF FirstRunTypeOK, FirstRunNext, OpenStep, Open, ProbeKey, ProbeFile, ReadState,
         ReadCheckpoint, Claim, OpenCrypto, CryptoThrows, SealFoundOne, SealRefuses, SealCommits,
         Mirror, Settle, Retire, Mark, WaitAnchored, WaitRetired, WaitExpires, Close, OpenerDies,
         Reset, Obstruct, Spoil, firstRunVars, openings, disk
<1>2. QED
  BY <1>1 DEF FirstRunTypeOK, Wipe, Bootstrapping, Opening, Erased, Refusing, Past, openings

(* A fault is counted.                                                     *)
LEMMA FaultCounts == ASSUME FirstRunTypeOK, NEW kind, Mishap(kind) PROVE mishaps' # 0
<1>1. \A f \in Nat : f + 1 # 0
  OBVIOUS
<1>2. mishaps \in Nat
  BY FirstRunAssumption DEF FirstRunAssumption, FirstRunTypeOK
<1>3. QED
  BY <1>1, <1>2 DEF Mishap

(* Without a fault or a wait given up, every step keeps the anchor on its  *)
(* way; a fault or such a wait is remembered.                              *)
LEMMA UnbrokenStep ==
  Inv /\ [FirstRunNext]_firstRunVars => (mishaps' = 0 /\ ~late' => Unbroken')
<1> SUFFICES ASSUME Inv, [FirstRunNext]_firstRunVars, mishaps' = 0, ~late' PROVE Unbroken'
  OBVIOUS
<1>1. FirstRunTypeOK
  BY DEF Inv
<1>2. ASSUME NEW kind PROVE ~Mishap(kind)
  BY <1>1, FaultCounts
<1>3. mishaps = 0 /\ ~late
  BY <1>1, <1>2
  DEF FirstRunTypeOK, FirstRunNext, OpenStep, Open, ProbeKey, ProbeFile, ReadState, ReadCheckpoint,
      Claim, OpenCrypto, CryptoThrows, SealFoundOne, SealRefuses, SealCommits, Mirror, Settle,
      Retire, Mark, WaitAnchored, WaitRetired, WaitExpires, Close, OpenerDies, Obstruct, Wipe,
      Spoil, firstRunVars, happened
<1>4. ~erased /\ Bootstrapping /\ Unbroken
  BY <1>3 DEF Inv, Unbroken
<1> USE <1>1, <1>4
    DEF FirstRunTypeOK, Bootstrapping, Claimed, Opening, AfterState, AfterSeal, PriorInstallFor,
        StillAnchored, Unbroken, Done, FirstRunAnchored, Claims, Keys, FirstRunOutcomes, At,
        disk, happened
<1>5. ASSUME NEW p \in Openers, Open(p) PROVE Unbroken'
  BY <1>5 DEF Open
<1>6. ASSUME NEW p \in Openers, ProbeKey(p) PROVE Unbroken'
  BY <1>6 DEF ProbeKey
<1>7. ASSUME NEW p \in Openers, ProbeFile(p) PROVE Unbroken'
  BY <1>7 DEF ProbeFile
<1>8. ASSUME NEW p \in Openers, ReadState(p) PROVE Unbroken'
  BY <1>8 DEF ReadState, FirstRunState
<1>9. ASSUME NEW p \in Openers, ReadCheckpoint(p) PROVE Unbroken'
  BY <1>9 DEF ReadCheckpoint
<1>10. ASSUME NEW p \in Openers, Claim(p) PROVE Unbroken'
  BY <1>10 DEF Claim
<1>11. ASSUME NEW p \in Openers, OpenCrypto(p) PROVE Unbroken'
  BY <1>11 DEF OpenCrypto
<1>12. ASSUME NEW p \in Openers, SealFoundOne(p) PROVE Unbroken'
  BY <1>12 DEF SealFoundOne
<1>13. ASSUME NEW p \in Openers, SealRefuses(p) PROVE Unbroken'
  BY <1>13 DEF SealRefuses
<1>14. ASSUME NEW p \in Openers, SealCommits(p) PROVE Unbroken'
  BY <1>14 DEF SealCommits
<1>15. ASSUME NEW p \in Openers, Mirror(p) PROVE Unbroken'
  <2>1. published' # Damaged
    BY <1>15, FirstRunAssumption DEF FirstRunAssumption, Mirror, MirrorFails
  <2>2. QED
    BY <1>15, <2>1 DEF Mirror, MirrorFails
<1>16. ASSUME NEW p \in Openers, Settle(p) PROVE Unbroken'
  BY <1>16 DEF Settle, FirstRunState
<1>17. ASSUME NEW p \in Openers, Retire(p) PROVE Unbroken'
  BY <1>17 DEF Retire, Mark
<1>18. ASSUME NEW p \in Openers, WaitAnchored(p) PROVE Unbroken'
  BY <1>18 DEF WaitAnchored
<1>19. ASSUME NEW p \in Openers, WaitRetired(p) PROVE Unbroken'
  BY <1>19 DEF WaitRetired, FirstRunState
<1>20. ASSUME NEW p \in Openers, Close(p) PROVE Unbroken'
  BY <1>20 DEF Close, Reset
<1>21. ASSUME NEW p \in Openers PROVE ~WaitExpires(p)
  BY DEF WaitExpires
<1>22. CASE UNCHANGED firstRunVars
  BY <1>22 DEF firstRunVars, openings
<1>23. ASSUME NEW p \in Openers PROVE ~CryptoThrows(p)
  BY DEF CryptoThrows
<1>24. QED
  BY <1>2, <1>5, <1>6, <1>7, <1>8, <1>9, <1>10, <1>11, <1>12, <1>13, <1>14, <1>15, <1>16, <1>17,
     <1>18, <1>19, <1>20, <1>21, <1>22, <1>23
  DEF FirstRunNext, OpenStep, OpenerDies, Obstruct, Wipe, Spoil

LEMMA InvStep == Inv /\ [FirstRunNext]_firstRunVars => Inv'
<1> SUFFICES ASSUME Inv, [FirstRunNext]_firstRunVars PROVE Inv'
  OBVIOUS
<1>1. FirstRunTypeOK' /\ Counted'
  BY TypeStep, CountedStep DEF Inv
<1>2. ~erased' => Bootstrapping'
  <2>1. erased => erased'
    BY DEF Inv, FirstRunTypeOK, FirstRunNext, OpenStep, Open, ProbeKey, ProbeFile, ReadState,
           ReadCheckpoint, Claim, OpenCrypto, CryptoThrows, SealFoundOne, SealRefuses, SealCommits,
           Mirror, Settle, Retire, Mark, WaitAnchored, WaitRetired, WaitExpires, Close, OpenerDies,
           Reset, Obstruct, Wipe, Spoil, firstRunVars, openings, disk
  <2>2. QED
    BY <2>1, BootstrapStep DEF Inv
<1>3. erased' => Erased'
  BY ErasedStep, ErasingStep DEF Inv
<1>4. mishaps' = 0 /\ ~late' => Unbroken'
  BY UnbrokenStep
<1>5. QED
  BY <1>1, <1>2, <1>3, <1>4 DEF Inv

THEOREM AlwaysInv == FirstRunSpec => []Inv
<1>1. QED
  BY InitInv, InvStep, PTL DEF FirstRunSpec

(* A new home is sealed at most once and an erased one never, however the  *)
(* openings race, crash and repeat (BootstrapInv).                         *)
THEOREM SealedAtMostOnce == FirstRunSpec => []BootstrapInv
<1>1. Inv => BootstrapInv
  BY DEF Inv, Counted, Erased, BootstrapInv, SealedOnce, ErasedNeverSealed
<1>2. QED
  BY <1>1, AlwaysInv, PTL

(* No process about to seal takes a peer's key for evidence of an erased   *)
(* installation (NobodyMistakesABootstrap).                                *)
THEOREM BootstrapsAreRecognised == FirstRunSpec => []NobodyMistakesABootstrap
<1>1. Inv => NobodyMistakesABootstrap
  BY DEF Inv, Bootstrapping, Opening, AfterState, NobodyMistakesABootstrap
<1>2. QED
  BY <1>1, AlwaysInv, PTL

(* While nothing broke, a store that is open is anchored; and whatever     *)
(* broke, a settled claim is that of a store whose two checkpoints agree,  *)
(* or whose file was damaged since (OpenMeansAnchored).                    *)
THEOREM OpenStoresAreAnchored == FirstRunSpec => []OpenMeansAnchored
<1>1. Inv => OpenMeansAnchored
  BY DEF Inv, Bootstrapping, Claimed, StillAnchored, Erased, Unbroken, Done, OpenMeansAnchored
<1>2. QED
  BY <1>1, AlwaysInv, PTL

=============================================================================
