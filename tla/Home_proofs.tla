----------------------------- MODULE Home_proofs -----------------------------
(***************************************************************************)
(* Proofs about the parts of the program around the store: one home for a  *)
(* command, one vault key for good, the launchers' publication, the cap of *)
(* the HTTP sessions, the report of a review drain and the budget of an    *)
(* import; last, the types of the parts side by side.                      *)
(***************************************************************************)
EXTENDS MCHome, ClientWiring_proofs, FiniteSetTheorems, SequenceTheorems, WellFoundedInduction,
        TLAPS

-----------------------------------------------------------------------------
(* HomeBoundary.                                                           *)
(*                                                                         *)
(* OneHome holds for any directories and any inode numbers, few or many.   *)
(* The argument is about inode numbers: the filesystem may hand one out    *)
(* again, but never while the directory that bears it is still reachable   *)
(* or open.  The pinned directory is open, so whatever compares equal to   *)
(* it is it.                                                               *)

\* A directory that is at the name, moved aside or open has a number, and no
\* other such directory has the same.
NumbersDiffer ==
  /\ \A d \in Dirs : Alive(d) => inode[d] \in Inodes
  /\ \A d, e \in Dirs : Alive(d) /\ Alive(e) /\ inode[d] = inode[e] => d = e

\* The pinned directory is the one validated first; without a pin, the only
\* command that has validated one is a command that could not pin it.
PinIsFirst ==
  /\ pin # NoDir => pin = first
  /\ first # NoDir => pin = first \/ poisoned
  /\ accepted # NoDir => accepted \in {first, shown}

\* A name that could not be pinned ends the calls; one to be registered is open.
CallsAreSound ==
  /\ poisoned => doing = Idle
  /\ doing \in Calls \X {"register"} => held # NoDir

BoundaryInv == BoundaryTypeOK /\ NumbersDiffer /\ PinIsFirst /\ CallsAreSound

-----------------------------------------------------------------------------
LEMMA BoundaryTypeStep == BoundaryTypeOK /\ [BoundaryNext]_boundaryVars => BoundaryTypeOK'
<1> SUFFICES ASSUME BoundaryTypeOK, [BoundaryNext]_boundaryVars PROVE BoundaryTypeOK'
  OBVIOUS
<1> USE BoundaryAssumption DEF BoundaryTypeOK, Calls, Idle
<1>1. ASSUME NEW call \in Calls, BeginCall(call) PROVE BoundaryTypeOK'
  BY <1>1 DEF BeginCall, Refuse, SameAsPinned, dirVars
<1>2. ASSUME StatHome PROVE BoundaryTypeOK'
  BY <1>2 DEF StatHome, Refuse, dirVars
<1>3. ASSUME CreateHome PROVE BoundaryTypeOK'
  BY <1>3 DEF CreateHome, Refuse, dirVars, FreeInodes
<1>4. ASSUME HoldHome PROVE BoundaryTypeOK'
  <2>1. PICK call \in Calls : doing \in {<<call, "hold">>, <<call, "again">>} /\ doing[1] = call
    BY <1>4 DEF HoldHome
  <2>2. doing' \in {Idle} \cup (Calls \X {"stat", "hold", "tighten", "again", "register"})
    BY <1>4, <2>1 DEF HoldHome, Refuse
  <2>3. poisoned' \in BOOLEAN /\ gate' = gate /\ inode' = inode /\ aside' = aside /\ home' = home
    BY <1>4 DEF HoldHome, Refuse, dirVars
  <2>4. locked' = locked /\ unsafe' = unsafe /\ pin' = pin
    BY <1>4 DEF HoldHome, Refuse, dirVars
  <2>5. {held', accepted', shown', first'} \subseteq Dirs \cup {NoDir}
    BY <1>4 DEF HoldHome, Refuse
  <2>6. QED
    BY <2>2, <2>3, <2>4, <2>5
<1>5. ASSUME TightenHome PROVE BoundaryTypeOK'
  BY <1>5 DEF TightenHome, Refuse, dirVars
<1>6. ASSUME Register PROVE BoundaryTypeOK'
  BY <1>6 DEF Register, Refuse, AcceptWith, KeepPin, dirVars
<1>7. ASSUME UseHome PROVE BoundaryTypeOK'
  BY <1>7 DEF UseHome, Refuse, AcceptWith, SameAsPinned, dirVars
<1>8. ASSUME MoveAside PROVE BoundaryTypeOK'
  BY <1>8 DEF MoveAside, Elsewhere, dirVars
<1>9. ASSUME DeleteHome PROVE BoundaryTypeOK'
  BY <1>9 DEF DeleteHome, Elsewhere, dirVars
<1>10. ASSUME NEW d \in Dirs, PutBack(d) PROVE BoundaryTypeOK'
  BY <1>10 DEF PutBack, Elsewhere, dirVars
<1>11. ASSUME NEW d \in Dirs, NEW i \in Inodes, NEW u \in BOOLEAN, Recreate(d, i, u) PROVE BoundaryTypeOK'
  BY <1>11 DEF Recreate, Elsewhere, dirVars
<1>12. CASE UNCHANGED boundaryVars
  BY <1>12 DEF boundaryVars, dirVars
<1>13. QED
  BY <1>1, <1>2, <1>3, <1>4, <1>5, <1>6, <1>7, <1>8, <1>9, <1>10, <1>11, <1>12 DEF BoundaryNext

LEMMA NumbersStep == BoundaryInv /\ [BoundaryNext]_boundaryVars => NumbersDiffer'
<1> SUFFICES ASSUME BoundaryInv, [BoundaryNext]_boundaryVars PROVE NumbersDiffer'
  OBVIOUS
<1> USE BoundaryAssumption DEF BoundaryInv, BoundaryTypeOK, NumbersDiffer, Alive
<1>1. ASSUME NEW call \in Calls, BeginCall(call) PROVE NumbersDiffer'
  BY <1>1 DEF BeginCall, Refuse, SameAsPinned, dirVars
<1>2. ASSUME StatHome PROVE NumbersDiffer'
  BY <1>2 DEF StatHome, Refuse, dirVars
<1>3. ASSUME CreateHome PROVE NumbersDiffer'
  BY <1>3 DEF CreateHome, Refuse, dirVars, FreeInodes, Created
<1>4. ASSUME HoldHome PROVE NumbersDiffer'
  BY <1>4 DEF HoldHome, Refuse, dirVars
<1>5. ASSUME TightenHome PROVE NumbersDiffer'
  BY <1>5 DEF TightenHome, Refuse, dirVars
<1>6. ASSUME Register PROVE NumbersDiffer'
  BY <1>6 DEF Register, Refuse, AcceptWith, KeepPin, dirVars
<1>7. ASSUME UseHome PROVE NumbersDiffer'
  BY <1>7 DEF UseHome, Refuse, AcceptWith, SameAsPinned, dirVars
<1>8. ASSUME MoveAside PROVE NumbersDiffer'
  BY <1>8 DEF MoveAside, Elsewhere, dirVars
<1>9. ASSUME DeleteHome PROVE NumbersDiffer'
  BY <1>9 DEF DeleteHome, Elsewhere, dirVars
<1>10. ASSUME NEW d \in Dirs, PutBack(d) PROVE NumbersDiffer'
  BY <1>10 DEF PutBack, Elsewhere, dirVars
<1>11. ASSUME NEW d \in Dirs, NEW i \in Inodes, NEW u \in BOOLEAN, Recreate(d, i, u) PROVE NumbersDiffer'
  BY <1>11 DEF Recreate, Elsewhere, dirVars, FreeInodes, Created
<1>12. CASE UNCHANGED boundaryVars
  BY <1>12 DEF boundaryVars, dirVars
<1>13. QED
  BY <1>1, <1>2, <1>3, <1>4, <1>5, <1>6, <1>7, <1>8, <1>9, <1>10, <1>11, <1>12 DEF BoundaryNext

LEMMA PinStep == BoundaryInv /\ [BoundaryNext]_boundaryVars => PinIsFirst'
<1> SUFFICES ASSUME BoundaryInv, [BoundaryNext]_boundaryVars PROVE PinIsFirst'
  OBVIOUS
<1> USE BoundaryAssumption DEF BoundaryInv, BoundaryTypeOK, NumbersDiffer, PinIsFirst, CallsAreSound, Alive, Idle, Calls
<1>1. ASSUME NEW call \in Calls, BeginCall(call) PROVE PinIsFirst'
  BY <1>1 DEF BeginCall, Refuse, SameAsPinned, dirVars
<1>2. ASSUME StatHome PROVE PinIsFirst'
  BY <1>2 DEF StatHome, Refuse, dirVars
<1>3. ASSUME CreateHome PROVE PinIsFirst'
  BY <1>3 DEF CreateHome, Refuse, dirVars, FreeInodes, Created
<1>4. ASSUME HoldHome PROVE PinIsFirst'
  BY <1>4 DEF HoldHome, Refuse, dirVars
<1>5. ASSUME TightenHome PROVE PinIsFirst'
  BY <1>5 DEF TightenHome, Refuse, dirVars
<1>6. ASSUME Register PROVE PinIsFirst'
  BY <1>6 DEF Register, Refuse, AcceptWith, KeepPin, dirVars
<1>7. ASSUME UseHome PROVE PinIsFirst'
  BY <1>7 DEF UseHome, Refuse, AcceptWith, SameAsPinned, dirVars
<1>8. ASSUME MoveAside PROVE PinIsFirst'
  BY <1>8 DEF MoveAside, Elsewhere, dirVars
<1>9. ASSUME DeleteHome PROVE PinIsFirst'
  BY <1>9 DEF DeleteHome, Elsewhere, dirVars
<1>10. ASSUME NEW d \in Dirs, PutBack(d) PROVE PinIsFirst'
  BY <1>10 DEF PutBack, Elsewhere, dirVars
<1>11. ASSUME NEW d \in Dirs, NEW i \in Inodes, NEW u \in BOOLEAN, Recreate(d, i, u) PROVE PinIsFirst'
  BY <1>11 DEF Recreate, Elsewhere, dirVars, FreeInodes, Created
<1>12. CASE UNCHANGED boundaryVars
  BY <1>12 DEF boundaryVars, dirVars
<1>13. QED
  BY <1>1, <1>2, <1>3, <1>4, <1>5, <1>6, <1>7, <1>8, <1>9, <1>10, <1>11, <1>12 DEF BoundaryNext

LEMMA CallsStep == BoundaryInv /\ [BoundaryNext]_boundaryVars => CallsAreSound'
<1> SUFFICES ASSUME BoundaryInv, [BoundaryNext]_boundaryVars PROVE CallsAreSound'
  OBVIOUS
<1> USE BoundaryAssumption DEF BoundaryInv, BoundaryTypeOK, CallsAreSound, Idle, Calls
<1>1. ASSUME NEW call \in Calls, BeginCall(call) PROVE CallsAreSound'
  BY <1>1 DEF BeginCall, Refuse, SameAsPinned, dirVars
<1>2. ASSUME StatHome PROVE CallsAreSound'
  BY <1>2 DEF StatHome, Refuse, dirVars
<1>3. ASSUME CreateHome PROVE CallsAreSound'
  BY <1>3 DEF CreateHome, Refuse, dirVars, FreeInodes, Created
<1>4. ASSUME HoldHome PROVE CallsAreSound'
  BY <1>4 DEF HoldHome, Refuse, dirVars
<1>5. ASSUME TightenHome PROVE CallsAreSound'
  BY <1>5 DEF TightenHome, Refuse, dirVars
<1>6. ASSUME Register PROVE CallsAreSound'
  BY <1>6 DEF Register, Refuse, AcceptWith, KeepPin, dirVars
<1>7. ASSUME UseHome PROVE CallsAreSound'
  BY <1>7 DEF UseHome, Refuse, AcceptWith, SameAsPinned, dirVars
<1>8. ASSUME MoveAside PROVE CallsAreSound'
  BY <1>8 DEF MoveAside, Elsewhere, dirVars
<1>9. ASSUME DeleteHome PROVE CallsAreSound'
  BY <1>9 DEF DeleteHome, Elsewhere, dirVars
<1>10. ASSUME NEW d \in Dirs, PutBack(d) PROVE CallsAreSound'
  BY <1>10 DEF PutBack, Elsewhere, dirVars
<1>11. ASSUME NEW d \in Dirs, NEW i \in Inodes, NEW u \in BOOLEAN, Recreate(d, i, u) PROVE CallsAreSound'
  BY <1>11 DEF Recreate, Elsewhere, dirVars, FreeInodes, Created
<1>12. CASE UNCHANGED boundaryVars
  BY <1>12 DEF boundaryVars, dirVars
<1>13. QED
  BY <1>1, <1>2, <1>3, <1>4, <1>5, <1>6, <1>7, <1>8, <1>9, <1>10, <1>11, <1>12 DEF BoundaryNext

LEMMA BoundaryInitInv == BoundaryInit => BoundaryInv
<1> SUFFICES ASSUME BoundaryInit PROVE BoundaryInv
  OBVIOUS
<1> USE BoundaryAssumption DEF BoundaryInit
<1>1. BoundaryTypeOK
  BY DEF BoundaryTypeOK
<1>2. NumbersDiffer
  BY DEF NumbersDiffer, Alive
<1>3. PinIsFirst /\ CallsAreSound
  BY DEF PinIsFirst, CallsAreSound, Idle, Calls
<1>4. QED
  BY <1>1, <1>2, <1>3 DEF BoundaryInv

\* The inductive invariant, from the lemmas above.
THEOREM AlwaysBoundaryInv == BoundarySpec => []BoundaryInv
<1>1. BoundaryInv /\ [BoundaryNext]_boundaryVars => BoundaryInv'
  BY BoundaryTypeStep, NumbersStep, PinStep, CallsStep DEF BoundaryInv
<1>2. QED
  BY BoundaryInitInv, <1>1, PTL DEF BoundarySpec

\* One command never goes on with two directories (fs-safe.ts, TrustedBoundary):
\* every call that is not refused uses the directory validated first, or returns
\* the name of one it could not open, however often the name is moved, deleted and
\* recreated and however few inode numbers the filesystem has to hand out.
THEOREM OneHomePerCommand == BoundarySpec => []OneHome
<1>1. BoundaryInv => OneHome
  BY DEF BoundaryInv, PinIsFirst, OneHome
<1>2. QED
  BY AlwaysBoundaryInv, <1>1, PTL

-----------------------------------------------------------------------------
(* KeyFile.                                                                *)
(*                                                                         *)
(* For every set of processes: the protocol of the vault key file chooses  *)
(* one key once and for all, as KeyChoice states it.                       *)

(* A process works with a key only once it is open, and then the key is    *)
(* the complete one at the path; and the file a process is still writing   *)
(* is its own and short, so that nobody has read it and its completion     *)
(* replaces nothing.                                                       *)
HoldsTheFile(p) ==
  heldKey[p] # NoKey => opening[p] = "open" /\ keyFile = [by |-> heldKey[p], full |-> TRUE]

FillsItsOwn(p) == opening[p] = "filling" => keyFile = [by |-> p, full |-> FALSE]

KeyInv == KeyTypeOK /\ \A p \in Minters : HoldsTheFile(p) /\ FillsItsOwn(p)

LEMMA KeyInitInv == KeyInit => KeyInv
BY KeyAssumption
DEF KeyInit, KeyInv, KeyTypeOK, KeyPath, NoKeyFile, Openings, HoldsTheFile, FillsItsOwn

LEMMA KeyStep == KeyInv /\ [KeyNext]_keyVars => KeyInv'
<1> SUFFICES ASSUME KeyInv, [KeyNext]_keyVars PROVE KeyInv'
  OBVIOUS
<1> USE KeyAssumption
    DEF KeyInv, KeyTypeOK, KeyPath, NoKeyFile, Openings, HoldsTheFile, FillsItsOwn, Reach, Have
<1>1. ASSUME NEW p \in Minters, OpenKey(p) PROVE KeyInv'
  BY <1>1 DEF OpenKey
<1>2. ASSUME NEW p \in Minters, ReadAbsent(p) PROVE KeyInv'
  BY <1>2 DEF ReadAbsent
<1>3. ASSUME NEW p \in Minters, ReadWhole(p) PROVE KeyInv'
  BY <1>3 DEF ReadWhole
<1>4. ASSUME NEW p \in Minters, ReadExhausted(p) PROVE KeyInv'
  BY <1>4 DEF ReadExhausted
<1>5. ASSUME NEW p \in Minters, Vanished(p) PROVE KeyInv'
  BY <1>5 DEF Vanished
<1>6. ASSUME NEW p \in Minters, OpenThrows(p) PROVE KeyInv'
  BY <1>6 DEF OpenThrows
<1>7. ASSUME NEW p \in Minters, Link(p) PROVE KeyInv'
  BY <1>7 DEF Link
<1>8. ASSUME NEW p \in Minters, Exists(p) PROVE KeyInv'
  BY <1>8 DEF Exists
<1>9. ASSUME NEW p \in Minters, NoLinks(p) PROVE KeyInv'
  BY <1>9 DEF NoLinks
<1>10. ASSUME NEW p \in Minters, Create(p) PROVE KeyInv'
  BY <1>10 DEF Create
<1>11. ASSUME NEW p \in Minters, Fill(p) PROVE KeyInv'
  <2>1. keyFile = [by |-> p, full |-> FALSE]
    BY <1>11 DEF Fill
  <2> HIDE DEF KeyInv
  <2>1a. keyFile' = [keyFile EXCEPT !.full = TRUE]
    BY <1>11, <2>1 DEF Fill
  <2>1b. keyFile' = [by |-> p, full |-> TRUE]
    BY <2>1, <2>1a
  <2> USE DEF KeyInv
  <2>2. \A q \in Minters : heldKey[q] = NoKey /\ (opening[q] = "filling" => q = p)
    BY <2>1
  <2>3. QED
    BY <1>11, <2>1, <2>1b, <2>2 DEF Fill
<1>12. ASSUME NEW p \in Minters, FillFails(p) PROVE KeyInv'
  BY <1>12 DEF FillFails
<1>13. ASSUME NEW p \in Minters, LoadExisting(p) PROVE KeyInv'
  BY <1>13 DEF LoadExisting
<1>14. ASSUME NEW p \in Minters, KeyProcessEnds(p) PROVE KeyInv'
  BY <1>14 DEF KeyProcessEnds
<1>15. CASE RemoveMalformed
  BY <1>15 DEF RemoveMalformed
<1>16. CASE UNCHANGED keyVars
  BY <1>16 DEF keyVars
<1>17. QED
  BY <1>1, <1>2, <1>3, <1>4, <1>5, <1>6, <1>7, <1>8, <1>9, <1>10, <1>11, <1>12, <1>13,
     <1>14, <1>15, <1>16 DEF KeyNext

\* The inductive invariant, from the lemmas above.
THEOREM AlwaysKeyInv == KeySpec => []KeyInv
<1>1. QED
  BY KeyInitInv, KeyStep, PTL DEF KeySpec

-----------------------------------------------------------------------------
(* What each step does to the choice: publishing a complete file chooses,  *)
(* by the link or with the last byte; reading it learns; nothing else is   *)
(* seen.                                                                   *)
LEMMA ChoiceInits == KeyInit => Choice!ChoiceInit
BY DEF KeyInit, NoKeyFile, Choice!ChoiceInit

LEMMA ChoiceSteps == KeyInv /\ [KeyNext]_keyVars => [Choice!ChoiceNext]_(Choice!choiceVars)
<1> SUFFICES ASSUME KeyInv, [KeyNext]_keyVars
             PROVE  [Choice!ChoiceNext]_(Choice!choiceVars)
  OBVIOUS
<1> USE KeyAssumption
    DEF KeyInv, KeyTypeOK, KeyPath, NoKeyFile, HoldsTheFile, FillsItsOwn, Have,
        Choice!ChoiceNext, Choice!choiceVars, Choice!Keys
<1>1. ASSUME NEW p \in Minters, Link(p) PROVE Choice!Choose(p)
  BY <1>1 DEF Link, Choice!Choose
<1>2. ASSUME NEW p \in Minters, Fill(p) PROVE Choice!Choose(p)
  BY <1>2 DEF Fill, Choice!Choose
<1>3. ASSUME NEW p \in Minters, ReadWhole(p) \/ LoadExisting(p) PROVE Choice!Learn(p)
  BY <1>3 DEF ReadWhole, LoadExisting, Choice!Learn
<1>4. ASSUME NEW p \in Minters, KeyProcessEnds(p) PROVE Choice!Forget(p)
  BY <1>4 DEF KeyProcessEnds, Choice!Forget
<1>5. ASSUME NEW p \in Minters, Create(p) PROVE UNCHANGED Choice!choiceVars
  BY <1>5 DEF Create
<1>6. CASE RemoveMalformed
  BY <1>6 DEF RemoveMalformed
<1>7. ASSUME UNCHANGED <<keyFile, heldKey>> PROVE UNCHANGED Choice!choiceVars
  BY <1>7
<1>8. QED
  BY <1>1, <1>2, <1>3, <1>4, <1>5, <1>6, <1>7
  DEF KeyNext, OpenKey, ReadAbsent, ReadExhausted, Vanished, OpenThrows, Exists, NoLinks,
      FillFails, keyVars

(* However many processes race, with links or without, and whichever die:  *)
(* one key is chosen, nobody works with another, and it is never replaced  *)
(* (ChosenOnce).                                                           *)
THEOREM OneKeyForGood == KeySpec => ChosenOnce
<1>1. QED
  BY AlwaysKeyInv, ChoiceInits, ChoiceSteps, PTL DEF KeySpec, ChosenOnce, Choice!ChoiceSpec

-----------------------------------------------------------------------------
(* LauncherWrite.                                                          *)
(*                                                                         *)
(* The run changes something only where it stands, and it only stands in   *)
(* the home bound and in directories read as bin/ inside it.  What it      *)
(* renames is a temporary file nothing of which is missing any more, and   *)
(* whose inode number nobody can be given while the descriptor is open, so *)
(* a name that compares equal to it afterwards is it.                      *)

BindSteps == {"establish", "lstat", "again"}
WriteSteps == {"write", "check", "rename", "verify", "cleanup", "unlink"}

StandsInProved ==
  /\ pass = "bind" <=> step \in BindSteps
  /\ step \in BindSteps => changed = {}
  /\ step \notin {"establish", "lstat"} => bound \in Homes
  /\ step \notin BindSteps \cup {"enter"} => inHome = bound
  /\ step \in {"contain", "enterBin"} /\ seen \in Bins => seen \in proved
  /\ step = "enterBin" => seen \in Bins
  /\ step \in {"judge", "create"} \cup WriteSteps => inBin \in Bins \cap proved
  /\ step \in {"reread", "create"} \cup WriteSteps => pass \in Launchers
  /\ ActsInOneHome

\* The temporary file is the only one there is, it is whole when it is checked,
\* and it cannot be mistaken.
TempIsOwn ==
  outcome = "running" =>
    /\ step \in WriteSteps => pinned
    /\ \A b \in Bins : \/ files[b]["tmp"] = "none"
                       \/ b = inBin /\ step \in WriteSteps \ {"verify"}
    /\ step \in WriteSteps => \A b \in Bins : files[b]["tmp"] # "recycled"
    /\ step \in {"check", "rename"} => \A b \in Bins : files[b]["tmp"] # "torn"

\* This run's file stands only at names it has renamed onto.
OursAreRenamed ==
  outcome = "running" =>
    /\ renamed \subseteq (IF pass = "cli" THEN {"mcp"} ELSE {})
                           \cup (IF step = "verify" THEN {pass} ELSE {})
    /\ \A b \in Bins, n \in Launchers \ renamed : files[b][n] \notin {"ours", "short", "recycled"}
    /\ step = "verify" => \A b \in Bins : files[b][pass] # "recycled"

LauncherInv ==
  LauncherTypeOK /\ StandsInProved /\ TempIsOwn /\ OursAreRenamed /\ PublishedIsOurs

LEMMA LauncherTypeStep == LauncherInv /\ [LauncherNext]_launcherVars => LauncherTypeOK'
<1> SUFFICES ASSUME LauncherInv, [LauncherNext]_launcherVars PROVE LauncherTypeOK'
  OBVIOUS
<1>0. LauncherTypeOK /\ StandsInProved
  BY DEF LauncherInv
<1> USE LauncherAssumption, <1>0 DEF LauncherTypeOK, AtStep, NoEffect, RefuseWrite, Goto,
        NextPass, placeVars, worldVars, ghostVars, Launchers
<1>a. ASSUME inHome = bound, bound \in Homes, ReadBin PROVE LauncherTypeOK'
  BY <1>a DEF ReadBin
<1>b. ASSUME NEW b \in Bins, NEW n \in Names, NEW e \in Entries
      PROVE  [files EXCEPT ![b][n] = e] \in [Bins -> [Names -> Entries]]
  OBVIOUS
<1>1. CASE BindHome
  BY <1>1 DEF BindHome
<1>2. CASE EnterHome
  BY <1>2 DEF EnterHome
<1>3. CASE ProbeBin
  <2>0. step = "probe" /\ inHome = bound /\ bound \in Homes
    BY <1>3 DEF ProbeBin, StandsInProved, BindSteps
  <2>1. CASE binIn[inHome] # NoBin /\ ReadBin
    BY <2>0, <2>1, <1>a
  <2>2. CASE NextPass("mcp") /\ NoEffect /\ UNCHANGED <<pinned, already, outcome>>
    BY <2>2
  <2>3. CASE binIn[inHome] = NoBin /\ pass # "preflight"
    <3>1. PICK b \in Bins : /\ binIn' = [binIn EXCEPT ![inHome] = b]
                            /\ files' = [files EXCEPT ![b] = EmptyBin]
      BY <1>3, <2>3 DEF ProbeBin, ReadBin
    <3>2. EmptyBin \in [Names -> Entries]
      BY DEF EmptyBin, Entries, OwnFiles
    <3>3. files' \in [Bins -> [Names -> Entries]]
      BY <3>1, <3>2
    <3>4. binIn' \in [Homes -> Bins \cup {NoBin, LinkBin}]
      BY <3>1
    <3>5. /\ madeBin' = TRUE /\ step' = "reread" /\ changed' = changed \cup {inHome}
          /\ UNCHANGED <<homeNow, meddled, proved, renamed, certified, pass, established, bound,
                         inHome, seen, inBin, pinned, already, outcome>>
      BY <1>3, <2>3 DEF ProbeBin
    <3>6. changed' \subseteq Homes \cup Bins
      BY <2>0, <3>5
    <3>7. QED
      BY <3>3, <3>4, <3>5, <3>6
  <2>4. QED
    BY <1>3, <2>1, <2>2, <2>3 DEF ProbeBin
<1>4. CASE RereadBin
  <2>0. step = "reread" /\ inHome = bound /\ bound \in Homes
    BY <1>4 DEF RereadBin, StandsInProved, BindSteps
  <2>1. QED
    BY <1>4, <2>0, <1>a DEF RereadBin
<1>5. CASE ContainBin
  BY <1>5 DEF ContainBin
<1>6. CASE EnterBin
  BY <1>6 DEF EnterBin, StandsInProved
<1>7. CASE Judge
  BY <1>7 DEF Judge
<1>8. CASE CreateTemp
  <2>0. inBin \in Bins /\ "torn" \in Entries /\ "tmp" \in Names
    BY <1>8 DEF CreateTemp, StandsInProved, Entries, OwnFiles, Names
  <2>1. files' = [files EXCEPT ![inBin]["tmp"] = "torn"]
    BY <1>8 DEF CreateTemp, Put, ActIn
  <2>2. files' \in [Bins -> [Names -> Entries]]
    BY <2>0, <2>1, <1>b
  <2>3. QED
    BY <1>8, <2>0, <2>2 DEF CreateTemp, Put, ActIn
<1>9. CASE WriteTemp
  <2>1. CASE Goto("cleanup") /\ NoEffect
    BY <2>1
  <2>2. CASE ~ (Goto("cleanup") /\ NoEffect)
    <3>1. PICK filled \in {"ours", "short"} :
            files' = [b \in Bins |-> [n \in Names |->
                        IF files[b][n] = "torn" THEN filled ELSE files[b][n]]]
      BY <1>9, <2>2 DEF WriteTemp
    <3>2. filled \in Entries
      BY DEF Entries, OwnFiles
    <3>3. \A b \in Bins, n \in Names :
            (IF files[b][n] = "torn" THEN filled ELSE files[b][n]) \in Entries
      BY <3>2
    <3>4. files' \in [Bins -> [Names -> Entries]]
      BY <3>1, <3>3
    <3>5. QED
      BY <1>9, <2>2, <3>4 DEF WriteTemp, KeepOpen
  <2>3. QED
    BY <2>1, <2>2
<1>10. CASE CheckTemp
  BY <1>10 DEF CheckTemp
<1>11. CASE RenameTemp
  <2>1. CASE Goto("cleanup") /\ NoEffect
    BY <2>1
  <2>2. CASE ~ (Goto("cleanup") /\ NoEffect)
    <3> DEFINE e == files[inBin]["tmp"]
               f == [files EXCEPT ![inBin]["tmp"] = "none"]
    <3>0. inBin \in Bins /\ pass \in Names /\ "tmp" \in Names /\ "none" \in Entries
      BY <1>11 DEF RenameTemp, StandsInProved, Entries, OwnFiles, Names, WriteSteps
    <3>1. files' = [f EXCEPT ![inBin][pass] = e]
      BY <1>11, <2>2 DEF RenameTemp, ActIn
    <3>2. e \in Entries /\ f \in [Bins -> [Names -> Entries]]
      BY <3>0, <1>b
    <3> HIDE DEF e, f
    <3>3. files' \in [Bins -> [Names -> Entries]]
      BY <3>0, <3>1, <3>2
    <3>4. /\ changed' = changed \cup {inBin} /\ renamed' = renamed \cup {pass}
          /\ step' = "verify"
          /\ UNCHANGED <<homeNow, binIn, meddled, proved, certified, pass, established, bound,
                         inHome, seen, inBin, madeBin, pinned, already, outcome>>
      BY <1>11, <2>2 DEF RenameTemp, ActIn
    <3>5. changed' \subseteq Homes \cup Bins /\ renamed' \subseteq Launchers
      BY <1>11, <3>0, <3>4 DEF RenameTemp, StandsInProved, WriteSteps
    <3>6. QED
      BY <3>3, <3>4, <3>5
  <2>3. QED
    BY <2>1, <2>2
<1>12. CASE VerifyPublished
  <2>0. inBin \in Bins /\ pass \in Launchers /\ pass \in Names
    BY <1>12 DEF VerifyPublished, StandsInProved, WriteSteps, Names
  <2>1. files[inBin][pass] \in Entries
    BY <2>0
  <2>2. certified' \in [Launchers -> Entries]
    BY <1>12, <2>0, <2>1 DEF VerifyPublished, ActIn
  <2>3. QED
    BY <1>12, <2>0, <2>2 DEF VerifyPublished
<1>13. CASE Cleanup
  BY <1>13 DEF Cleanup
<1>14. CASE UnlinkTemp
  <2>0. inBin \in Bins /\ "none" \in Entries /\ "tmp" \in Names
    BY <1>14 DEF UnlinkTemp, StandsInProved, Entries, OwnFiles, Names, WriteSteps
  <2>1. files' = [files EXCEPT ![inBin]["tmp"] = "none"]
    BY <1>14 DEF UnlinkTemp, Put, ActIn
  <2>2. files' \in [Bins -> [Names -> Entries]]
    BY <2>0, <2>1, <1>b
  <2>3. QED
    BY <1>14, <2>0, <2>2 DEF UnlinkTemp, Put, ActIn
<1>15. CASE Crash
  BY <1>15 DEF Crash
<1>16. CASE SwapHome
  BY <1>16 DEF SwapHome, Meddle
<1>17. CASE SwapBin
  BY <1>17 DEF SwapBin, Meddle
<1>18. CASE SwapFile
  <2>1. PICK b \in Bins, n \in Names, e \in {"none", "hostile", "foreign", "recycled"} :
          files' = [files EXCEPT ![b][n] = e]
    BY <1>18 DEF SwapFile
  <2>2. e \in Entries
    BY DEF Entries, OwnFiles
  <2>3. files' \in [Bins -> [Names -> Entries]]
    BY <2>1, <2>2, <1>b
  <2>4. QED
    BY <1>18, <2>3 DEF SwapFile, Meddle
<1>19. CASE UNCHANGED launcherVars
  BY <1>19 DEF launcherVars
<1>20. QED
  BY <1>1, <1>2, <1>3, <1>4, <1>5, <1>6, <1>7, <1>8, <1>9, <1>10, <1>11, <1>12, <1>13, <1>14,
     <1>15, <1>16, <1>17, <1>18, <1>19 DEF LauncherNext

LEMMA StandsStep == LauncherInv /\ [LauncherNext]_launcherVars => StandsInProved'
<1> SUFFICES ASSUME LauncherInv, [LauncherNext]_launcherVars PROVE StandsInProved'
  OBVIOUS
<1>0. LauncherTypeOK /\ StandsInProved
  BY DEF LauncherInv
<1> USE LauncherAssumption, <1>0 DEF LauncherTypeOK, AtStep, NoEffect, RefuseWrite, Goto,
        NextPass, placeVars, worldVars, ghostVars, Launchers, StandsInProved, BindSteps,
        WriteSteps, ActsInOneHome
<1>1. CASE BindHome
  BY <1>1 DEF BindHome
<1>2. CASE EnterHome
  BY <1>2 DEF EnterHome
<1>3. CASE ProbeBin
  <2>1. CASE binIn[inHome] # NoBin /\ ReadBin
    BY <1>3, <2>1 DEF ProbeBin, ReadBin
  <2>2. CASE NextPass("mcp") /\ NoEffect /\ UNCHANGED <<pinned, already, outcome>>
    BY <1>3, <2>2 DEF ProbeBin
  <2>3. CASE binIn[inHome] = NoBin /\ pass # "preflight"
    BY <1>3, <2>3 DEF ProbeBin
  <2>4. QED
    BY <1>3, <2>1, <2>2, <2>3 DEF ProbeBin
<1>4. CASE RereadBin
  BY <1>4 DEF RereadBin, ReadBin
<1>5. CASE ContainBin
  BY <1>5 DEF ContainBin
<1>6. CASE EnterBin
  BY <1>6 DEF EnterBin
<1>7. CASE Judge
  BY <1>7 DEF Judge, Judged
<1>8. CASE CreateTemp
  BY <1>8 DEF CreateTemp, Put, ActIn
<1>9. CASE WriteTemp
  BY <1>9 DEF WriteTemp
<1>10. CASE CheckTemp
  BY <1>10 DEF CheckTemp
<1>11. CASE RenameTemp
  BY <1>11 DEF RenameTemp, ActIn
<1>12. CASE VerifyPublished
  BY <1>12 DEF VerifyPublished
<1>13. CASE Cleanup
  BY <1>13 DEF Cleanup
<1>14. CASE UnlinkTemp
  BY <1>14 DEF UnlinkTemp, Put, ActIn
<1>15. CASE Crash
  BY <1>15 DEF Crash
<1>16. CASE SwapHome \/ SwapBin \/ SwapFile
  BY <1>16 DEF SwapHome, SwapBin, SwapFile, Meddle
<1>17. CASE UNCHANGED launcherVars
  BY <1>17 DEF launcherVars
<1>18. QED
  BY <1>1, <1>2, <1>3, <1>4, <1>5, <1>6, <1>7, <1>8, <1>9, <1>10, <1>11, <1>12, <1>13, <1>14,
     <1>15, <1>16, <1>17 DEF LauncherNext

LEMMA FileSwapped ==
  ASSUME SwapFile
  PROVE  \E b \in Bins, n \in Names, e \in {"none", "hostile", "foreign", "recycled"} :
           /\ e = "recycled" => files[b][n] \in OwnFiles /\ ~pinned
           /\ n = "tmp" => files[b][n] # "none"
           /\ files' = [files EXCEPT ![b][n] = e]
<1>1. CASE pinned
  BY <1>1 DEF SwapFile
<1>2. CASE ~pinned
  BY <1>2 DEF SwapFile
<1>3. QED
  BY <1>1, <1>2

LEMMA TempStep ==
  LauncherInv /\ [LauncherNext]_launcherVars => TempIsOwn' /\ OursAreRenamed' /\ PublishedIsOurs'
<1> SUFFICES ASSUME LauncherInv, [LauncherNext]_launcherVars
             PROVE  TempIsOwn' /\ OursAreRenamed' /\ PublishedIsOurs'
  OBVIOUS
<1>0. /\ LauncherTypeOK /\ StandsInProved /\ TempIsOwn /\ OursAreRenamed /\ PublishedIsOurs
      /\ pass \in {"bind", "preflight", "mcp", "cli"}
      /\ files \in [Bins -> [Names -> Entries]] /\ already \subseteq Launchers
      /\ renamed \subseteq Launchers /\ certified \in [Launchers -> Entries]
      /\ Launchers \subseteq Names /\ "tmp" \in Names /\ "tmp" \notin Launchers
  BY DEF LauncherInv, LauncherTypeOK, Launchers, Names
<1> USE <1>0 DEF AtStep, TempIsOwn, OursAreRenamed, PublishedIsOurs
<1> DEFINE Own == TempIsOwn' /\ OursAreRenamed' /\ PublishedIsOurs'
<1>a. ASSUME UNCHANGED <<files, already, renamed, certified>>, outcome = "running",
             step \notin WriteSteps, step' \notin WriteSteps,
             pass' = pass \/ pass \in {"bind", "preflight"}
      PROVE  Own
  BY <1>a DEF WriteSteps
<1>b. ASSUME UNCHANGED <<files, already, renamed, certified>>, outcome' # "running"
      PROVE  Own
  BY <1>b
<1>c. ASSUME UNCHANGED <<files, already, renamed, certified, pass, step, inBin, pinned, outcome>>
      PROVE  Own
  BY <1>c
<1>d. ASSUME UNCHANGED <<files, already, renamed, certified, pass, inBin, pinned, outcome>>,
             step \in WriteSteps \ {"verify"}, step' \in {"cleanup", "unlink"}
      PROVE  Own
  BY <1>d DEF WriteSteps
<1> USE DEF NoEffect, RefuseWrite, Goto, NextPass, placeVars, worldVars, ghostVars
<1>1. CASE BindHome
  <2>1. CASE outcome' = "running"
    <3>1. /\ UNCHANGED <<files, already, renamed, certified>> /\ outcome = "running"
          /\ step \in BindSteps
      BY <1>1 DEF BindHome, BindSteps
    <3>2. pass = "bind" /\ step' \in {"lstat", "again", "enter"}
      BY <1>1, <2>1, <3>1 DEF BindHome, StandsInProved
    <3>3. QED
      BY <3>1, <3>2, <1>a DEF WriteSteps, BindSteps
  <2>2. CASE outcome' # "running"
    BY <1>1, <2>2, <1>b DEF BindHome
  <2>3. QED
    BY <2>1, <2>2
<1>2. CASE EnterHome
  BY <1>2, <1>a, <1>b DEF EnterHome, WriteSteps
<1>3. CASE ProbeBin
  <2>1. CASE binIn[inHome] # NoBin /\ ReadBin
    BY <1>3, <2>1, <1>a DEF ProbeBin, ReadBin, WriteSteps
  <2>2. CASE binIn[inHome] = NoBin /\ pass = "preflight"
    BY <1>3, <2>2, <1>a DEF ProbeBin, ReadBin, WriteSteps
  <2>3. CASE binIn[inHome] = NoBin /\ pass # "preflight"
    <3>1. PICK b \in Bins : files' = [files EXCEPT ![b] = EmptyBin]
      BY <1>3, <2>3 DEF ProbeBin, ReadBin
    <3>2. /\ UNCHANGED <<already, renamed, certified, pass, outcome>> /\ outcome = "running"
          /\ step = "probe" /\ step' = "reread"
      BY <1>3, <2>3 DEF ProbeBin, ReadBin
    <3>3. \A c \in Bins, n \in Names : files'[c][n] = files[c][n] \/ files'[c][n] = "none"
      BY <3>1 DEF EmptyBin
    <3>4. PublishedIsOurs'
      BY <3>2, <3>3
    <3>5. TempIsOwn'
      BY <3>2, <3>3 DEF WriteSteps
    <3>6. OursAreRenamed'
      BY <3>2, <3>3 DEF WriteSteps
    <3>7. QED
      BY <3>4, <3>5, <3>6
  <2>4. QED
    BY <1>3, <2>1, <2>2, <2>3 DEF ProbeBin
<1>4. CASE RereadBin
  BY <1>4, <1>a, <1>b DEF RereadBin, ReadBin, WriteSteps
<1>5. CASE ContainBin
  BY <1>5, <1>a, <1>b DEF ContainBin, WriteSteps
<1>6. CASE EnterBin
  BY <1>6, <1>a, <1>b DEF EnterBin, WriteSteps
<1>7. CASE Judge
  BY <1>7, <1>a, <1>b DEF Judge, WriteSteps
<1>8. CASE CreateTemp
  <2>1. /\ files' = [files EXCEPT ![inBin]["tmp"] = "torn"] /\ inBin \in Bins
        /\ UNCHANGED <<already, renamed, certified, pass, inBin, outcome>> /\ outcome = "running"
        /\ step = "create" /\ step' = "write" /\ pinned'
    BY <1>8 DEF CreateTemp, Put, ActIn, StandsInProved
  <2>2. \A c \in Bins, n \in Launchers : files'[c][n] = files[c][n]
    BY <2>1
  <2>3. /\ \A c \in Bins : c # inBin => files'[c]["tmp"] = files[c]["tmp"]
        /\ files'[inBin]["tmp"] = "torn"
    BY <2>1
  <2>4. PublishedIsOurs' /\ OursAreRenamed'
    BY <2>1, <2>2
  <2>5. TempIsOwn'
    BY <2>1, <2>3 DEF WriteSteps
  <2>6. QED
    BY <2>4, <2>5
<1>9. CASE WriteTemp
  <2>1. CASE Goto("cleanup") /\ NoEffect
    BY <1>9, <2>1, <1>d DEF WriteTemp, WriteSteps
  <2>2. CASE ~ (Goto("cleanup") /\ NoEffect)
    <3>0. PICK filled \in {"ours", "short"} :
            files' = [b \in Bins |-> [n \in Names |->
                        IF files[b][n] = "torn" THEN filled ELSE files[b][n]]]
      BY <1>9, <2>2 DEF WriteTemp
    <3>1. /\ UNCHANGED <<already, renamed, certified, pass, inBin, outcome>>
          /\ outcome = "running" /\ step = "write" /\ step' = "check" /\ pinned'
      BY <1>9, <2>2 DEF WriteTemp, KeepOpen
    <3>2. \A c \in Bins, n \in Launchers : files'[c][n] = files[c][n]
      BY <3>0
    <3>3. \A c \in Bins : /\ files'[c]["tmp"] # "torn"
                          /\ files[c]["tmp"] = "none" => files'[c]["tmp"] = "none"
                          /\ files'[c]["tmp"] = "recycled" => files[c]["tmp"] = "recycled"
      BY <3>0
    <3>4. PublishedIsOurs' /\ OursAreRenamed'
      BY <3>1, <3>2
    <3>5. TempIsOwn'
      BY <3>1, <3>3 DEF WriteSteps
    <3>6. QED
      BY <3>4, <3>5
  <2>3. QED
    BY <2>1, <2>2
<1>10. CASE CheckTemp
  <2>1. CASE Goto("cleanup")
    BY <1>10, <2>1, <1>d DEF CheckTemp, WriteSteps
  <2>2. CASE Goto("rename")
    BY <1>10, <2>2 DEF CheckTemp, WriteSteps
  <2>3. QED
    BY <1>10, <2>1, <2>2 DEF CheckTemp
<1>11. CASE RenameTemp
  <2>1. CASE Goto("cleanup") /\ NoEffect
    BY <1>11, <2>1, <1>d DEF RenameTemp, WriteSteps
  <2>2. CASE ~ (Goto("cleanup") /\ NoEffect)
    <3> DEFINE e == files[inBin]["tmp"]
    <3>1. /\ files' = [files EXCEPT ![inBin]["tmp"] = "none", ![inBin][pass] = e]
          /\ inBin \in Bins /\ pass \in Launchers /\ renamed' = renamed \cup {pass}
          /\ UNCHANGED <<already, certified, pass, inBin, pinned, outcome>>
          /\ outcome = "running" /\ step = "rename" /\ step' = "verify"
      BY <1>11, <2>2 DEF RenameTemp, ActIn, StandsInProved, WriteSteps
    <3>2. e \notin {"torn", "recycled"} /\ pinned
      BY <3>1 DEF WriteSteps
    <3>3. \A c \in Bins, n \in Launchers :
            files'[c][n] = IF c = inBin /\ n = pass THEN e ELSE files[c][n]
      BY <3>1
    <3>4. \A c \in Bins : files'[c]["tmp"] = "none"
      BY <3>1
    <3> HIDE DEF e
    <3>5. PublishedIsOurs'
      BY <3>1, <3>2, <3>3
    <3>6. TempIsOwn'
      BY <3>1, <3>2, <3>4 DEF WriteSteps
    <3>7. pass \notin renamed
      BY <3>1
    <3>8. OursAreRenamed'
      BY <3>1, <3>2, <3>3, <3>7
    <3>9. QED
      BY <3>5, <3>6, <3>8
  <2>3. QED
    BY <2>1, <2>2
<1>12. CASE VerifyPublished
  <2>1. /\ UNCHANGED <<files, renamed>> /\ inBin \in Bins /\ pass \in Launchers
        /\ outcome = "running" /\ step = "verify"
    BY <1>12 DEF VerifyPublished, StandsInProved, WriteSteps
  <2>2. CASE ~StillOurs(pass)
    BY <1>12, <2>1, <2>2, <1>b DEF VerifyPublished
  <2>3. CASE StillOurs(pass)
    <3>1. /\ certified' = [certified EXCEPT ![pass] = files[inBin][pass]]
          /\ already' = already \cup {pass}
          /\ \/ pass = "mcp" /\ pass' = "cli" /\ step' = "enter"
             \/ outcome' = "written"
      BY <1>12, <2>3 DEF VerifyPublished, ActIn
    <3>2. files[inBin][pass] \in {"ours", "short"}
      BY <2>1, <2>3 DEF StillOurs, ActIn, OwnFiles
    <3>3. PublishedIsOurs'
      BY <2>1, <3>1, <3>2
    <3>4. TempIsOwn' /\ OursAreRenamed'
      BY <2>1, <3>1 DEF WriteSteps
    <3>5. QED
      BY <3>3, <3>4
  <2>4. QED
    BY <2>2, <2>3
<1>13. CASE Cleanup
  <2>1. CASE Goto("unlink")
    BY <1>13, <2>1, <1>d DEF Cleanup, WriteSteps
  <2>2. CASE RefuseWrite
    BY <1>13, <2>2, <1>b DEF Cleanup
  <2>3. QED
    BY <1>13, <2>1, <2>2 DEF Cleanup
<1>14. CASE UnlinkTemp
  <2>1. /\ files' = [files EXCEPT ![inBin]["tmp"] = "none"] /\ outcome' = "refused"
        /\ UNCHANGED <<already, certified>>
    BY <1>14 DEF UnlinkTemp, Put, ActIn
  <2>2. \A c \in Bins, n \in Launchers : files'[c][n] = files[c][n]
    BY <2>1
  <2>3. QED
    BY <2>1, <2>2
<1>15. CASE Crash
  BY <1>15, <1>b DEF Crash
<1>16. CASE SwapHome \/ SwapBin
  BY <1>16, <1>c DEF SwapHome, SwapBin, Meddle
<1>17. CASE SwapFile
  <2>1. PICK b \in Bins, n \in Names, e \in {"none", "hostile", "foreign", "recycled"} :
          /\ e = "recycled" => files[b][n] \in OwnFiles /\ ~pinned
          /\ n = "tmp" => files[b][n] # "none"
          /\ files' = [files EXCEPT ![b][n] = e]
    BY <1>17, FileSwapped
  <2>2. UNCHANGED <<already, renamed, certified, pass, step, inBin, pinned, outcome>>
    BY <1>17 DEF SwapFile, Meddle
  <2>3. \A c \in Bins, m \in Names : files'[c][m] = IF c = b /\ m = n THEN e ELSE files[c][m]
    BY <2>1
  <2>4. e \notin {"torn", "ours", "short"} /\ (pinned => e # "recycled")
    BY <2>1
  <2>5. PublishedIsOurs'
    BY <2>2, <2>3, <2>4
  <2>6. TempIsOwn'
    BY <2>1, <2>2, <2>3, <2>4 DEF WriteSteps
  <2>7. OursAreRenamed'
    <3>1. ASSUME outcome = "running", NEW c \in Bins, NEW m \in Launchers \ renamed
          PROVE  files'[c][m] \notin {"ours", "short", "recycled"}
      <4>1. CASE c = b /\ m = n
        <5>1. files[c][m] \notin OwnFiles
          BY <3>1 DEF OwnFiles
        <5>2. e # "recycled"
          BY <2>1, <4>1, <5>1
        <5>3. QED
          BY <2>3, <2>4, <3>1, <4>1, <5>2
      <4>2. CASE ~ (c = b /\ m = n)
        BY <2>3, <3>1, <4>2
      <4>3. QED
        BY <4>1, <4>2
    <3>2. ASSUME outcome = "running", step = "verify", NEW c \in Bins
          PROVE  files'[c][pass] # "recycled"
      BY <2>1, <2>3, <2>4, <3>2 DEF WriteSteps
    <3>3. QED
      BY <2>2, <3>1, <3>2
  <2>8. QED
    BY <2>5, <2>6, <2>7
<1>18. CASE UNCHANGED launcherVars
  BY <1>18, <1>c DEF launcherVars
<1>19. QED
  BY <1>1, <1>2, <1>3, <1>4, <1>5, <1>6, <1>7, <1>8, <1>9, <1>10, <1>11, <1>12, <1>13, <1>14,
     <1>15, <1>16, <1>17, <1>18 DEF LauncherNext

LEMMA LauncherStart == LauncherInit => LauncherInv
<1> SUFFICES ASSUME LauncherInit PROVE LauncherInv
  OBVIOUS
<1>1. PICK b \in Bins :
        \/ binIn = [h \in Homes |-> NoBin] /\ files = [c \in Bins |-> EmptyBin]
        \/ /\ binIn = [h \in Homes |-> IF h = homeNow THEN b ELSE NoBin]
           /\ files = [c \in Bins |-> IF c = b THEN [n \in Names |->
                                        IF n = "tmp" THEN "none" ELSE "old"]
                                      ELSE EmptyBin]
  BY DEF LauncherInit
<1>2. files \in [Bins -> [Names -> {"none", "old"}]] /\ \A c \in Bins : files[c]["tmp"] = "none"
  BY <1>1 DEF EmptyBin, Names
<1>3. binIn \in [Homes -> Bins \cup {NoBin, LinkBin}]
  BY <1>1
<1>4. files \in [Bins -> [Names -> Entries]]
  <2>1. {"none", "old"} \subseteq Entries
    BY DEF Entries, OwnFiles
  <2>2. QED
    BY <1>2, <2>1
<1>5. certified \in [Launchers -> Entries]
  BY DEF LauncherInit, Entries, OwnFiles
<1>6. LauncherTypeOK
  <2>1. meddled \in 0..MaxMeddling
    BY LauncherAssumption DEF LauncherInit
  <2>2. /\ homeNow \in Homes /\ pass = "bind" /\ step = "establish"
        /\ established = NoHome /\ bound = NoHome /\ inHome = NoHome
        /\ seen = NoBin /\ inBin = NoBin /\ madeBin = FALSE /\ pinned = FALSE
        /\ already = {} /\ outcome = "running" /\ changed = {} /\ proved = {} /\ renamed = {}
    BY DEF LauncherInit
  <2>3. QED
    BY <1>3, <1>4, <1>5, <2>1, <2>2 DEF LauncherTypeOK
<1>7. StandsInProved
  BY DEF LauncherInit, StandsInProved, BindSteps, WriteSteps, ActsInOneHome
<1>8. TempIsOwn /\ OursAreRenamed /\ PublishedIsOurs
  BY <1>2 DEF LauncherInit, TempIsOwn, OursAreRenamed, PublishedIsOurs, WriteSteps, Names,
     Launchers
<1>9. QED
  BY <1>6, <1>7, <1>8 DEF LauncherInv

LEMMA AlwaysLauncherInv == LauncherSpec => []LauncherInv
<1>1. LauncherInv /\ [LauncherNext]_launcherVars => LauncherInv'
  BY LauncherTypeStep, StandsStep, TempStep DEF LauncherInv
<1>2. QED
  BY <1>1, LauncherStart, PTL DEF LauncherSpec

\* Whatever stands at the names meanwhile, a run changes only the home it bound
\* and directories it read as bin/ in that home.
THEOREM StaysInOneHome == LauncherSpec => []ActsInOneHome
<1>1. LauncherInv => ActsInOneHome
  BY DEF LauncherInv, StandsInProved
<1>2. QED
  BY <1>1, AlwaysLauncherInv, PTL

\* For any homes and bin directories, however they and the files in them are
\* replaced between two steps of a run: where the run reports a launcher as
\* written, the file it saw at the name, after the rename, was the one it created
\* and filled, and no launcher name holds a file still to be filled.  It does not
\* say that the rename moves no other file there, which a swap after the last check
\* of the temporary name makes it do; such a run ends refused.
THEOREM PublishesItsOwn == LauncherSpec => []PublishedIsOurs
<1>1. LauncherInv => PublishedIsOurs
  BY DEF LauncherInv
<1>2. QED
  BY <1>1, AlwaysLauncherInv, PTL

-----------------------------------------------------------------------------
(* HttpSessions.                                                           *)

\* Sets of numbers have a least element: the well-founded order says it for sets,
\* and no theorem that takes an operator is needed.
LEMMA Least ==
  ASSUME NEW T \in SUBSET Nat, T # {}
  PROVE  \E n \in T : \A m \in T : n <= m
<1> DEFINE R == OpToRel(<, Nat)
<1>1. IsWellFoundedOn(R, Nat)
  BY NatLessThanWellFounded
<1> HIDE DEF R
<1>2. PICK n \in T : \A m \in T : ~ (<<m, n>> \in R)
  BY <1>1, WFMin
<1>3. \A m \in T : <<m, n>> \in R <=> m < n
  BY DEF R, OpToRel
<1>4. \A m \in T : n <= m
  <2>1. SUFFICES ASSUME NEW m \in T PROVE n <= m
    OBVIOUS
  <2>2. m \in Nat /\ n \in Nat /\ ~ (m < n)
    BY <1>2, <1>3
  <2>3. QED
    BY <2>2
<1>5. QED
  BY <1>4

LEMMA SuffixIs ==
  ASSUME NEW S, NEW s \in Seq(S), NEW k \in Nat, k <= Len(s)
  PROVE  /\ SubSeq(s, k + 1, Len(s)) \in Seq(S)
         /\ Len(SubSeq(s, k + 1, Len(s))) = Len(s) - k
<1>1. Len(s) \in Nat /\ k + 1 \in Int /\ Len(s) \in Int
  OBVIOUS
<1>2. \A i \in (k + 1)..Len(s) : s[i] \in S
  BY <1>1
<1>3. /\ SubSeq(s, k + 1, Len(s)) \in Seq(S)
      /\ Len(SubSeq(s, k + 1, Len(s))) = IF k + 1 <= Len(s) THEN Len(s) - (k + 1) + 1 ELSE 0
  BY <1>1, <1>2, SubSeqProperties
<1>4. QED
  BY <1>1, <1>3

LEMMA RemovedWhere ==
  ASSUME NEW S, NEW s \in Seq(S), NEW e, e \in ToSet(s)
  PROVE  \E k \in 1..Len(s) :
           /\ s[k] = e
           /\ RemoveFirst(s, e) = SubSeq(s, 1, k - 1) \o SubSeq(s, k + 1, Len(s))
<1> DEFINE I == {i \in 1..Len(s) : s[i] = e}
           k == SelectInSeq(s, LAMBDA v : v = e)
<1>1. Len(s) \in Nat /\ DOMAIN s = 1..Len(s)
  OBVIOUS
<1>2. I # {} /\ I \subseteq Nat
  BY <1>1 DEF ToSet
<1>3. k = Min(I)
  BY <1>2 DEF SelectInSeq
<1>4. Min(I) \in I
  <2>1. \E n \in I : \A m \in I : n <= m
    <3> HIDE DEF I
    <3>1. QED
      BY <1>2, Least
  <2>2. QED
    BY <2>1 DEF Min
<1>5. RemoveFirst(s, e) = SubSeq(s, 1, k - 1) \o SubSeq(s, k + 1, Len(s))
  BY <1>2 DEF RemoveFirst, RemoveAt
<1> HIDE DEF k
<1>6. k \in 1..Len(s) /\ s[k] = e
  BY <1>3, <1>4
<1>7. QED
  BY <1>5, <1>6

LEMMA RemovedIs ==
  ASSUME NEW S, NEW s \in Seq(S), NEW e
  PROVE  /\ RemoveFirst(s, e) \in Seq(S)
         /\ Len(RemoveFirst(s, e)) <= Len(s)
         /\ e \in ToSet(s) => Len(RemoveFirst(s, e)) = Len(s) - 1
<1>1. Len(s) \in Nat /\ DOMAIN s = 1..Len(s)
  OBVIOUS
<1>2. CASE e \notin ToSet(s)
  <2>1. RemoveFirst(s, e) = s
    BY <1>1, <1>2 DEF RemoveFirst, ToSet
  <2>2. Len(s) <= Len(s) /\ s \in Seq(S) /\ ~ (e \in ToSet(s))
    BY <1>1, <1>2
  <2>3. QED
    BY <2>1, <2>2, Zenon
<1>3. CASE e \in ToSet(s)
  <2>1. PICK k \in 1..Len(s) :
          RemoveFirst(s, e) = SubSeq(s, 1, k - 1) \o SubSeq(s, k + 1, Len(s))
    BY <1>3, RemovedWhere
  <2> DEFINE a == SubSeq(s, 1, k - 1)
             b == SubSeq(s, k + 1, Len(s))
  <2>2. a \in Seq(S) /\ Len(a) = k - 1
    BY <1>1
  <2>3. b \in Seq(S) /\ Len(b) = Len(s) - k
    <3>1. k \in Nat /\ k <= Len(s)
      BY <1>1
    <3>2. QED
      BY <3>1, SuffixIs
  <2>4. RemoveFirst(s, e) = a \o b
    BY <2>1
  <2> HIDE DEF a, b
  <2>5. a \o b \in Seq(S) /\ Len(a \o b) = Len(a) + Len(b)
    BY <2>2, <2>3, ConcatProperties
  <2>6. QED
    BY <1>1, <2>2, <2>3, <2>4, <2>5
<1>4. QED
  BY <1>2, <1>3

HttpSteps == {"none", "useBody", "initBody", "use", "delete", "connect", "initialize"}

HttpInv ==
  /\ sessions \in Seq(Nat) /\ issued \in Nat /\ crowd \in Nat
  /\ request \in [Handlers -> HttpSteps]
  /\ SessionsAreBounded

LEMMA RoomIs == IsFiniteSet(MakingRoom) /\ Cardinality(MakingRoom) \in Nat
<1>1. IsFiniteSet(Handlers) /\ MakingRoom \in SUBSET Handlers
  BY SessionsAssumption DEF MakingRoom
<1> HIDE DEF MakingRoom
<1>2. QED
  BY <1>1, FS_Subset, FS_CardinalityType

\* No handler more makes room, and the map does not grow.
LEMMA FewerSessions ==
  ASSUME HttpInv, NEW now \in Seq(Nat), Len(now) <= Len(sessions), NEW R \in SUBSET MakingRoom
  PROVE  Len(now) + Cardinality(R) <= MaxSessions - 1 + crowd
<1>1. /\ Cardinality(R) \in Nat /\ Cardinality(R) <= Cardinality(MakingRoom)
      /\ Cardinality(MakingRoom) \in Nat
  BY RoomIs, FS_Subset, FS_CardinalityType
<1>2. Len(sessions) + Cardinality(MakingRoom) <= MaxSessions - 1 + crowd
  BY DEF HttpInv, SessionsAreBounded
<1>3. Len(now) \in Nat /\ Len(sessions) \in Nat /\ MaxSessions \in Nat /\ crowd \in Nat
  BY SessionsAssumption DEF HttpInv
<1>4. QED
  BY <1>1, <1>2, <1>3

LEMMA HttpShrinks ==
  ASSUME HttpInv, sessions' \in Seq(Nat), Len(sessions') <= Len(sessions),
         issued' \in Nat, crowd' = crowd, request' \in [Handlers -> HttpSteps],
         \A c \in Handlers : request'[c] \in {"connect", "initialize"} =>
                          request[c] \in {"connect", "initialize"}
  PROVE  HttpInv'
<1>1. MakingRoom' \in SUBSET MakingRoom
  BY DEF MakingRoom
<1>2. Len(sessions') + Cardinality(MakingRoom') <= MaxSessions - 1 + crowd'
  BY <1>1, FewerSessions
<1>3. QED
  BY <1>2 DEF HttpInv, SessionsAreBounded

LEMMA DroppedIs ==
  ASSUME sessions \in Seq(Nat), NEW n \in Nat, n <= Len(sessions), DropIdlest(n)
  PROVE  sessions' \in Seq(Nat) /\ Len(sessions') = Len(sessions) - n
<1>1. Len(sessions) \in Nat /\ sessions' = SubSeq(sessions, n + 1, Len(sessions))
  BY DEF DropIdlest
<1>2. QED
  BY <1>1, SuffixIs

LEMMA HttpStep == HttpInv /\ [HttpNext]_httpVars => HttpInv'
<1> SUFFICES ASSUME HttpInv, [HttpNext]_httpVars PROVE HttpInv'
  OBVIOUS
<1>1. /\ sessions \in Seq(Nat) /\ Len(sessions) \in Nat /\ issued \in Nat
      /\ request \in [Handlers -> HttpSteps] /\ MaxSessions \in Nat /\ MaxSessions >= 1
      /\ crowd \in Nat
  BY RoomIs, SessionsAssumption DEF HttpInv
<1>2. ASSUME NEW c \in Handlers, NEW kind \in {"useBody", "initBody"}, NEW s \in 0..issued,
             Arrive(c, kind, s)
      PROVE  HttpInv'
  <2>1. PICK n \in 0..Len(sessions) : DropIdlest(n)
    BY <1>2 DEF Arrive
  <2>2. sessions' \in Seq(Nat) /\ Len(sessions') <= Len(sessions)
    BY <1>1, <2>1, DroppedIs
  <2>3. request' = [request EXCEPT ![c] = kind] /\ issued' = issued /\ crowd' = crowd
    BY <1>2 DEF Arrive, MovesTo
  <2>4. QED
    BY <1>1, <2>2, <2>3, HttpShrinks DEF HttpSteps
<1>3. ASSUME NEW c \in Handlers, RefuseBody(c) PROVE HttpInv'
  BY <1>1, <1>3, HttpShrinks DEF RefuseBody, Answered, MovesTo, HttpSteps
<1>4. ASSUME NEW c \in Handlers, UseSession(c) PROVE HttpInv'
  <2>1. sessions' \in Seq(Nat) /\ Len(sessions') <= Len(sessions)
    <3>1. CASE ~InMap(target[c])
      BY <1>1, <1>4, <3>1 DEF UseSession
    <3>2. CASE InMap(target[c])
      <4> DEFINE rest == RemoveFirst(sessions, target[c])
      <4>1. rest \in Seq(Nat) /\ Len(rest) = Len(sessions) - 1
        BY <1>1, <3>2, RemovedIs DEF InMap
      <4>2. sessions' = Append(rest, target[c])
        BY <1>4, <3>2 DEF UseSession
      <4>3. target[c] \in Nat
        <5>1. PICK i \in DOMAIN sessions : target[c] = sessions[i]
          BY <3>2 DEF InMap, ToSet
        <5>2. QED
          BY <1>1, <5>1
      <4> HIDE DEF rest
      <4>4. QED
        BY <1>1, <4>1, <4>2, <4>3
    <3>3. QED
      BY <3>1, <3>2
  <2>2. /\ issued' = issued /\ crowd' = crowd
        /\ \E step1 \in {"none", "use", "delete"} : request' = [request EXCEPT ![c] = step1]
    BY <1>4 DEF UseSession, Answered, MovesTo
  <2>3. QED
    BY <1>1, <2>1, <2>2, HttpShrinks DEF HttpSteps
<1>5. ASSUME NEW c \in Handlers, Handled(c) PROVE HttpInv'
  <2>1. sessions' \in Seq(Nat) /\ Len(sessions') <= Len(sessions)
    BY <1>1, <1>5, RemovedIs DEF Handled
  <2>2. issued' = issued /\ crowd' = crowd /\ request' = [request EXCEPT ![c] = "none"]
    BY <1>5 DEF Handled, Answered, MovesTo
  <2>3. QED
    BY <1>1, <2>1, <2>2, HttpShrinks DEF HttpSteps
<1>6. ASSUME NEW c \in Handlers, MakeRoom(c) PROVE HttpInv'
  <2>1. EvictTo \in Nat /\ EvictTo <= Len(sessions) /\ Len(sessions) - EvictTo <= MaxSessions - 1
    BY <1>1 DEF EvictTo
  <2>2. sessions' \in Seq(Nat) /\ Len(sessions') = Len(sessions) - EvictTo
    BY <1>1, <1>6, <2>1, DroppedIs DEF MakeRoom
  <2>3. issued' = issued /\ request' \in [Handlers -> HttpSteps]
    BY <1>1, <1>6 DEF MakeRoom, MovesTo, HttpSteps
  <2>4. MakingRoom' \in SUBSET Handlers
    BY DEF MakingRoom
  <2>5. crowd' = Cardinality(MakingRoom') /\ crowd' \in Nat
    <3>1. Cardinality(MakingRoom') \in Nat
      BY <2>4, SessionsAssumption, FS_Subset, FS_CardinalityType
    <3>2. QED
      BY <1>6, <3>1 DEF MakeRoom
  <2>6. Len(sessions') + Cardinality(MakingRoom') <= MaxSessions - 1 + crowd'
    BY <1>1, <2>1, <2>2, <2>5
  <2>7. QED
    BY <2>2, <2>3, <2>5, <2>6 DEF HttpInv, SessionsAreBounded
<1>7. ASSUME NEW c \in Handlers, Connect(c) PROVE HttpInv'
  <2>1. /\ UNCHANGED <<sessions, issued, crowd>> /\ request[c] = "connect"
        /\ \E step1 \in {"none", "initialize"} : request' = [request EXCEPT ![c] = step1]
    BY <1>7 DEF Connect, Answered, MovesTo
  <2>2. QED
    BY <1>1, <2>1, HttpShrinks DEF HttpSteps
<1>8. ASSUME NEW c \in Handlers, Initialize(c) PROVE HttpInv'
  <2>1. /\ request[c] = "initialize" /\ request' = [request EXCEPT ![c] = "none"]
        /\ crowd' = crowd
        /\ \/ issued' = issued + 1 /\ sessions' = Append(sessions, issued + 1)
           \/ UNCHANGED <<sessions, issued>>
    BY <1>8 DEF Initialize, Answered, MovesTo
  <2>2. sessions' \in Seq(Nat) /\ Len(sessions') <= Len(sessions) + 1 /\ issued' \in Nat
    <3>1. CASE issued' = issued + 1 /\ sessions' = Append(sessions, issued + 1)
      <4>1. issued + 1 \in Nat
        BY <1>1
      <4>2. sessions' \in Seq(Nat) /\ Len(sessions') = Len(sessions) + 1
        BY <1>1, <3>1, <4>1, AppendProperties
      <4>3. QED
        BY <1>1, <3>1, <4>1, <4>2
    <3>2. CASE UNCHANGED <<sessions, issued>>
      BY <1>1, <3>2
    <3>3. QED
      BY <2>1, <3>1, <3>2
  <2>3. MakingRoom' = MakingRoom \ {c} /\ c \in MakingRoom
    BY <1>1, <2>1 DEF MakingRoom
  <2>4. Cardinality(MakingRoom') = Cardinality(MakingRoom) - 1 /\ Cardinality(MakingRoom) \in Nat
    BY <2>3, RoomIs, FS_RemoveElement
  <2>5. Len(sessions) + Cardinality(MakingRoom) <= MaxSessions - 1 + crowd
    BY DEF HttpInv, SessionsAreBounded
  <2>6. Len(sessions') \in Nat
    BY <2>2
  <2>7. Len(sessions') + Cardinality(MakingRoom') <= MaxSessions - 1 + crowd'
    BY <1>1, <2>1, <2>2, <2>4, <2>5, <2>6
  <2>8. request' \in [Handlers -> HttpSteps]
    BY <1>1, <2>1 DEF HttpSteps
  <2>9. QED
    BY <1>1, <2>1, <2>2, <2>7, <2>8 DEF HttpInv, SessionsAreBounded
<1>9. CASE StartClose
  BY <1>1, <1>9, HttpShrinks DEF StartClose
<1>10. CASE CloseSession
  <2>1. PICK oldest : sessions' = RemoveFirst(sessions, oldest)
    BY <1>10 DEF CloseSession
  <2>2. sessions' \in Seq(Nat) /\ Len(sessions') <= Len(sessions)
    BY <1>1, <2>1, RemovedIs
  <2>3. UNCHANGED <<issued, request, crowd>>
    BY <1>10 DEF CloseSession
  <2>4. QED
    BY <1>1, <2>2, <2>3, HttpShrinks
<1>11. CASE StopListening
  BY <1>1, <1>11, HttpShrinks DEF StopListening
<1>12. CASE UNCHANGED httpVars
  BY <1>1, <1>12, HttpShrinks DEF httpVars
<1>13. QED
  BY <1>2, <1>3, <1>4, <1>5, <1>6, <1>7, <1>8, <1>9, <1>10, <1>11, <1>12 DEF HttpNext

\* However many requests run at a time, on whatever connections, and however they
\* interleave at their awaits and with close(), the map of sessions outgrows the
\* cap at most by the requests that were on their way to a session of their own
\* besides the one that evicted last.  No more holds: the cap itself is exceeded
\* when two overlap.
THEOREM MapIsBounded == HttpSpec => []SessionsAreBounded
<1>1. HttpInit => HttpInv
  <2> SUFFICES ASSUME HttpInit PROVE HttpInv
    OBVIOUS
  <2>1. sessions \in Seq(Nat) /\ Len(sessions) = 0 /\ issued \in Nat
        /\ request \in [Handlers -> HttpSteps] /\ MakingRoom = {}
    BY DEF HttpInit, HttpSteps, MakingRoom
  <2>2. Cardinality(MakingRoom) = 0
    BY <2>1, FS_EmptySet
  <2>3. crowd = 0 /\ MaxSessions \in Nat /\ MaxSessions >= 1
    BY SessionsAssumption DEF HttpInit
  <2>4. QED
    BY <2>1, <2>2, <2>3 DEF HttpInv, SessionsAreBounded
<1>2. HttpInv => SessionsAreBounded
  BY DEF HttpInv
<1>3. QED
  BY <1>1, <1>2, HttpStep, PTL DEF HttpSpec

\* The sessions of s are among the first n, each there once.
OnceEach(s, n) == s \in Seq(1..n) /\ IsInjective(s)

LEMMA SuffixOnce ==
  ASSUME NEW n \in Nat, NEW s, OnceEach(s, n), NEW k \in Nat, k <= Len(s)
  PROVE  OnceEach(SubSeq(s, k + 1, Len(s)), n)
<1> DEFINE S == 1..n
           t == SubSeq(s, k + 1, Len(s))
<1>1. s \in Seq(S) /\ Len(s) \in Nat /\ DOMAIN s = 1..Len(s)
      /\ \A i, j \in 1..Len(s) : s[i] = s[j] => i = j
  BY DEF OnceEach, IsInjective
<1> HIDE DEF S
<1>2. \A i \in (k + 1)..Len(s) : s[i] \in S
  BY <1>1
<1>3. /\ t \in Seq(S) /\ Len(t) = Len(s) - k
      /\ \A i \in 1..(Len(s) - (k + 1) + 1) : t[i] = s[k + 1 + i - 1]
  <2>1. t \in Seq(S) /\ Len(t) = Len(s) - k
    BY <1>1, SuffixIs
  <2>2. k + 1 \in Int /\ Len(s) \in Int
    BY <1>1
  <2>3. \A i \in 1..(Len(s) - (k + 1) + 1) : t[i] = s[k + 1 + i - 1]
    BY <1>2, <2>2, SubSeqProperties
  <2>4. QED
    BY <2>1, <2>3
<1>4. \A i \in 1..(Len(s) - k) : t[i] = s[k + i] /\ k + i \in 1..Len(s)
  <2>1. Len(s) - (k + 1) + 1 = Len(s) - k
    BY <1>1
  <2>2. ASSUME NEW i \in 1..(Len(s) - k) PROVE k + 1 + i - 1 = k + i /\ k + i \in 1..Len(s)
    BY <1>1
  <2>3. QED
    BY <1>3, <2>1, <2>2
<1> HIDE DEF t
<1>5. DOMAIN t = 1..(Len(s) - k)
  BY <1>3
<1>6. ASSUME NEW i \in 1..(Len(s) - k), NEW j \in 1..(Len(s) - k), t[i] = t[j] PROVE i = j
  <2>1. k + i = k + j
    BY <1>1, <1>4, <1>6
  <2>2. QED
    BY <2>1
<1>7. IsInjective(t)
  BY <1>5, <1>6 DEF IsInjective
<1>8. QED
  BY <1>3, <1>7 DEF OnceEach, S, t

LEMMA RemovedOnce ==
  ASSUME NEW n \in Nat, NEW s, OnceEach(s, n), NEW e
  PROVE  OnceEach(RemoveFirst(s, e), n) /\ e \notin ToSet(RemoveFirst(s, e))
<1> DEFINE S == 1..n
           r == RemoveFirst(s, e)
<1>1. s \in Seq(S) /\ Len(s) \in Nat /\ DOMAIN s = 1..Len(s)
      /\ \A i, j \in 1..Len(s) : s[i] = s[j] => i = j
  BY DEF OnceEach, IsInjective
<1> HIDE DEF S
<1>2. CASE e \notin ToSet(s)
  <2>1. r = s
    BY <1>1, <1>2 DEF RemoveFirst, ToSet
  <2>2. QED
    BY <1>2, <2>1
<1>3. CASE e \in ToSet(s)
  <2>1. PICK k \in 1..Len(s) :
          s[k] = e /\ r = SubSeq(s, 1, k - 1) \o SubSeq(s, k + 1, Len(s))
    BY <1>1, <1>3, RemovedWhere
  <2> DEFINE a == SubSeq(s, 1, k - 1)
             b == SubSeq(s, k + 1, Len(s))
  <2>2. /\ a \in Seq(S) /\ Len(a) = k - 1
        /\ \A i \in 1..(k - 1) : a[i] = s[i]
    <3>1. /\ a \in Seq(S) /\ Len(a) = (IF 1 <= k - 1 THEN k - 1 - 1 + 1 ELSE 0)
          /\ \A i \in 1..(k - 1 - 1 + 1) : a[i] = s[1 + i - 1]
      <4>1. 1 \in Int /\ k - 1 \in Int /\ \A i \in 1..(k - 1) : s[i] \in S
        BY <1>1
      <4>2. QED
        BY <4>1, SubSeqProperties
    <3> HIDE DEF a
    <3>2. k - 1 - 1 + 1 = k - 1 /\ \A i \in 1..(k - 1) : 1 + i - 1 = i
      OBVIOUS
    <3>3. QED
      BY <3>1, <3>2
  <2>3. /\ b \in Seq(S) /\ Len(b) = Len(s) - k
        /\ \A i \in 1..(Len(s) - k) : b[i] = s[k + i]
    <3>1. /\ b \in Seq(S) /\ Len(b) = Len(s) - k
          /\ \A i \in 1..(Len(s) - (k + 1) + 1) : b[i] = s[k + 1 + i - 1]
      <4>1. k + 1 \in Int /\ Len(s) \in Int /\ \A i \in (k + 1)..Len(s) : s[i] \in S
        BY <1>1
      <4>2. k \in Nat /\ k <= Len(s)
        BY <1>1
      <4>3. b \in Seq(S) /\ Len(b) = Len(s) - k
        BY <1>1, <4>2, SuffixIs
      <4>4. \A i \in 1..(Len(s) - (k + 1) + 1) : b[i] = s[k + 1 + i - 1]
        BY <4>1, SubSeqProperties
      <4>5. QED
        BY <4>3, <4>4
    <3> HIDE DEF b
    <3>2. Len(s) - (k + 1) + 1 = Len(s) - k
          /\ \A i \in 1..(Len(s) - k) : k + 1 + i - 1 = k + i
      BY <1>1
    <3>3. QED
      BY <3>1, <3>2
  <2>4. r = a \o b
    BY <2>1
  <2> HIDE DEF a, b, r
  <2>5. /\ r \in Seq(S) /\ Len(r) = Len(s) - 1
        /\ \A i \in 1..(Len(s) - 1) : r[i] = IF i <= k - 1 THEN a[i] ELSE b[i - (k - 1)]
    <3>1. /\ a \o b \in Seq(S) /\ Len(a \o b) = Len(a) + Len(b)
          /\ \A i \in 1..(Len(a) + Len(b)) :
               (a \o b)[i] = IF i <= Len(a) THEN a[i] ELSE b[i - Len(a)]
      BY <2>2, <2>3, ConcatProperties
    <3>2. Len(a) + Len(b) = Len(s) - 1
      BY <1>1, <2>2, <2>3
    <3>3. QED
      BY <2>2, <2>4, <3>1, <3>2
  <2>6. ASSUME NEW i \in 1..(Len(s) - 1)
        PROVE  \E j \in 1..Len(s) :
                 r[i] = s[j] /\ j # k /\ ((j = i /\ i < k) \/ (j = i + 1 /\ i >= k))
    <3>1. CASE i <= k - 1
      <4>1. i \in 1..(k - 1) /\ i \in 1..Len(s) /\ i # k /\ i < k
        BY <1>1, <3>1
      <4>2. r[i] = s[i]
        BY <2>2, <2>5, <3>1, <4>1
      <4>3. QED
        BY <4>1, <4>2
    <3>2. CASE ~ (i <= k - 1)
      <4>1. i - (k - 1) \in 1..(Len(s) - k) /\ k + (i - (k - 1)) = i + 1
        BY <1>1, <3>2
      <4>2. r[i] = s[i + 1]
        BY <2>3, <2>5, <3>2, <4>1
      <4>3. QED
        BY <1>1, <3>2, <4>2
    <3>3. QED
      BY <3>1, <3>2
  <2>7. DOMAIN r = 1..(Len(s) - 1)
    BY <2>5
  <2>8. ASSUME NEW i \in DOMAIN r, NEW j \in DOMAIN r, r[i] = r[j] PROVE i = j
    <3>1. PICK x \in 1..Len(s) : r[i] = s[x] /\ ((x = i /\ i < k) \/ (x = i + 1 /\ i >= k))
      BY <2>6, <2>7
    <3>2. PICK y \in 1..Len(s) : r[j] = s[y] /\ ((y = j /\ j < k) \/ (y = j + 1 /\ j >= k))
      BY <2>6, <2>7
    <3>3. x = y
      BY <1>1, <2>8, <3>1, <3>2
    <3>4. QED
      BY <2>7, <3>1, <3>2, <3>3
  <2>9. e \notin ToSet(r)
    <3>1. ASSUME NEW i \in DOMAIN r, r[i] = e PROVE FALSE
      <4>1. PICK j \in 1..Len(s) : r[i] = s[j] /\ j # k
        BY <2>6, <2>7
      <4>2. QED
        BY <1>1, <2>1, <3>1, <4>1
    <3>2. QED
      BY <3>1 DEF ToSet
  <2>10. QED
    BY <2>5, <2>8, <2>9 DEF OnceEach, IsInjective, S, r
<1>4. QED
  BY <1>2, <1>3

LEMMA AppendedOnce ==
  ASSUME NEW n \in Nat, NEW s, OnceEach(s, n), NEW e \in 1..n, e \notin ToSet(s)
  PROVE  OnceEach(Append(s, e), n)
<1> DEFINE S == 1..n
           t == Append(s, e)
<1>1. /\ s \in Seq(S) /\ e \in S /\ Len(s) \in Nat /\ DOMAIN s = 1..Len(s)
      /\ \A i, j \in 1..Len(s) : s[i] = s[j] => i = j
  BY DEF OnceEach, IsInjective
<1> HIDE DEF S
<1>2. /\ t \in Seq(S) /\ Len(t) = Len(s) + 1
      /\ \A i \in 1..Len(s) : t[i] = s[i]
      /\ t[Len(s) + 1] = e
  BY <1>1, AppendProperties
<1> HIDE DEF t
<1>3. \A i \in 1..Len(s) : s[i] # e
  BY <1>1 DEF ToSet
<1>4. DOMAIN t = 1..(Len(s) + 1) /\ \A i \in DOMAIN t : i \in 1..Len(s) \/ i = Len(s) + 1
  BY <1>1, <1>2
<1>5. \A i, j \in DOMAIN t : t[i] = t[j] => i = j
  BY <1>1, <1>2, <1>3, <1>4
<1>6. QED
  BY <1>2, <1>5 DEF OnceEach, IsInjective, S, t

LEMMA IssuedOnce ==
  ASSUME NEW n \in Nat, NEW s, OnceEach(s, n)
  PROVE  OnceEach(Append(s, n + 1), n + 1)
<1>1. s \in Seq(1..n) /\ DOMAIN s = 1..Len(s) /\ Len(s) \in Nat
  BY DEF OnceEach
<1>2. \A i \in DOMAIN s : s[i] \in 1..n
  BY <1>1
<1>3. \A i \in DOMAIN s : s[i] \in 1..(n + 1) /\ s[i] # n + 1
  BY <1>2
<1>4. s \in Seq(1..(n + 1))
  BY <1>1, <1>3
<1>5. n + 1 \notin ToSet(s)
  BY <1>3 DEF ToSet
<1>6. OnceEach(s, n + 1) /\ n + 1 \in 1..(n + 1) /\ n + 1 \in Nat
  BY <1>4 DEF OnceEach
<1>7. QED
  BY <1>5, <1>6, AppendedOnce

HttpTypeAlone(steps) ==
  /\ issued \in 0..MaxIds /\ OnceEach(sessions, issued)
  /\ request \in [Handlers -> steps]
  /\ target \in [Handlers -> 0..issued]
  /\ serving \in {"yes", "closing", "closed"} /\ crowd \in Nat

LEMMA HttpTypeIs == HttpTypeOK <=> HttpTypeAlone(HttpSteps)
BY DEF HttpTypeOK, HttpTypeAlone, OnceEach, HttpSteps

\* A step that issues nothing.
LEMMA HttpTypeIf ==
  ASSUME HttpTypeAlone(HttpSteps), issued' = issued, OnceEach(sessions', issued),
         request' = request \/ \E c \in Handlers, to \in HttpSteps : request' = [request EXCEPT ![c] = to],
         target' = target \/ \E c \in Handlers, s \in 0..issued : target' = [target EXCEPT ![c] = s],
         serving' \in {"yes", "closing", "closed"}, crowd' = crowd \/ crowd' \in Nat
  PROVE  HttpTypeAlone(HttpSteps)'
<1> HIDE DEF HttpSteps
<1>1. request' \in [Handlers -> HttpSteps]
  BY DEF HttpTypeAlone
<1>2. target' \in [Handlers -> 0..issued']
  BY DEF HttpTypeAlone
<1>3. HttpSteps' = HttpSteps
  BY DEF HttpSteps
<1>4. QED
  BY <1>1, <1>2, <1>3 DEF HttpTypeAlone

LEMMA HttpTypeStep == HttpTypeOK /\ [HttpNext]_httpVars => HttpTypeOK'
<1> SUFFICES ASSUME HttpTypeAlone(HttpSteps), [HttpNext]_httpVars
             PROVE  HttpTypeAlone(HttpSteps)'
  BY HttpTypeIs, PTL
<1>1. /\ issued \in Nat /\ issued \in 0..MaxIds /\ MaxIds \in Nat /\ OnceEach(sessions, issued)
      /\ request \in [Handlers -> HttpSteps] /\ target \in [Handlers -> 0..issued]
      /\ serving \in {"yes", "closing", "closed"} /\ 0 \in 0..issued /\ crowd \in Nat
  BY SessionsAssumption DEF HttpTypeAlone
<1>2. /\ sessions \in Seq(1..issued) /\ Len(sessions) \in Nat
  BY <1>1 DEF OnceEach
<1>3. ASSUME NEW n \in Nat, n <= Len(sessions), DropIdlest(n) PROVE OnceEach(sessions', issued)
  BY <1>1, <1>3, SuffixOnce DEF DropIdlest
<1>4. ASSUME NEW c \in Handlers, NEW kind \in {"useBody", "initBody"}, NEW s \in 0..issued,
             Arrive(c, kind, s)
      PROVE  HttpTypeAlone(HttpSteps)'
  <2>1. PICK n \in 0..Len(sessions) : DropIdlest(n)
    BY <1>4 DEF Arrive
  <2>2. OnceEach(sessions', issued)
    BY <1>2, <1>3, <2>1
  <2>3. kind \in HttpSteps
    BY DEF HttpSteps
  <2>4. QED
    BY <1>1, <1>4, <2>2, <2>3, HttpTypeIf DEF Arrive, MovesTo
<1>5. ASSUME NEW c \in Handlers, RefuseBody(c) PROVE HttpTypeAlone(HttpSteps)'
  <2>1. "none" \in HttpSteps
    BY DEF HttpSteps
  <2>2. QED
    BY <1>1, <1>5, <2>1, HttpTypeIf DEF RefuseBody, Answered, MovesTo
<1>6. ASSUME NEW c \in Handlers, UseSession(c) PROVE HttpTypeAlone(HttpSteps)'
  <2>1. {"none", "use", "delete"} \subseteq HttpSteps
    BY DEF HttpSteps
  <2>2. CASE Answered(c) /\ UNCHANGED sessions
    BY <1>1, <1>6, <2>1, <2>2, HttpTypeIf DEF UseSession, Answered, MovesTo
  <2>3. CASE /\ InMap(target[c])
             /\ sessions' = Append(RemoveFirst(sessions, target[c]), target[c])
             /\ \E step1 \in {"use", "delete"} : MovesTo(c, step1)
             /\ UNCHANGED target
    <3>1. target[c] \in 1..issued
      <4>1. PICK i \in DOMAIN sessions : target[c] = sessions[i]
        BY <2>3 DEF InMap, ToSet
      <4> DEFINE S == 1..issued
      <4>2. sessions \in Seq(S)
        BY <1>2
      <4> HIDE DEF S
      <4>3. target[c] \in S
        BY <4>1, <4>2
      <4>4. QED
        BY <4>3 DEF S
    <3>2. OnceEach(sessions', issued)
      BY <1>1, <2>3, <3>1, RemovedOnce, AppendedOnce
    <3>3. QED
      BY <1>1, <1>6, <2>1, <2>3, <3>2, HttpTypeIf DEF UseSession, MovesTo
  <2>4. QED
    BY <1>6, <2>2, <2>3 DEF UseSession
<1>7. ASSUME NEW c \in Handlers, Handled(c) PROVE HttpTypeAlone(HttpSteps)'
  <2>1. OnceEach(sessions', issued)
    BY <1>1, <1>7, RemovedOnce DEF Handled
  <2>2. "none" \in HttpSteps
    BY DEF HttpSteps
  <2>3. QED
    BY <1>1, <1>7, <2>1, <2>2, HttpTypeIf DEF Handled, Answered, MovesTo
<1>8. ASSUME NEW c \in Handlers, MakeRoom(c) PROVE HttpTypeAlone(HttpSteps)'
  <2>1. EvictTo \in Nat /\ EvictTo <= Len(sessions)
    BY <1>2, SessionsAssumption DEF EvictTo
  <2>2. OnceEach(sessions', issued)
    BY <1>3, <1>8, <2>1 DEF MakeRoom
  <2>3. "connect" \in HttpSteps
    BY DEF HttpSteps
  <2>4. crowd' \in Nat
    <3>1. IsFiniteSet(MakingRoom')
      BY SessionsAssumption, FS_Subset DEF MakingRoom
    <3>2. QED
      BY <1>8, <3>1, FS_CardinalityType DEF MakeRoom
  <2>5. QED
    BY <1>1, <1>8, <2>2, <2>3, <2>4, HttpTypeIf DEF MakeRoom, MovesTo
<1>9. ASSUME NEW c \in Handlers, Connect(c) PROVE HttpTypeAlone(HttpSteps)'
  <2>1. {"none", "initialize"} \subseteq HttpSteps
    BY DEF HttpSteps
  <2>2. QED
    BY <1>1, <1>9, <2>1, HttpTypeIf DEF Connect, Answered, MovesTo
<1>10. ASSUME NEW c \in Handlers, Initialize(c) PROVE HttpTypeAlone(HttpSteps)'
  <2>1. "none" \in HttpSteps
    BY DEF HttpSteps
  <2>2. CASE UNCHANGED <<sessions, issued>>
    BY <1>1, <1>10, <2>1, <2>2, HttpTypeIf DEF Initialize, Answered, MovesTo
  <2>3. CASE issued < MaxIds /\ issued' = issued + 1 /\ sessions' = Append(sessions, issued + 1)
    <3>1. issued' \in 0..MaxIds
      BY <1>1, <2>3
    <3>2. OnceEach(sessions', issued')
      BY <1>1, <2>3, IssuedOnce
    <3>3. request' \in [Handlers -> HttpSteps]
      BY <1>1, <1>10, <2>1 DEF Initialize, Answered, MovesTo
    <3>4. target' \in [Handlers -> 0..issued']
      <4>1. target' = [target EXCEPT ![c] = 0]
        BY <1>10 DEF Initialize, Answered
      <4>2. 0..issued \subseteq 0..(issued + 1) /\ 0 \in 0..(issued + 1)
        BY <1>1
      <4>3. QED
        BY <1>1, <2>3, <4>1, <4>2
    <3>5. HttpSteps' = HttpSteps /\ serving' = serving /\ crowd' = crowd
      BY <1>10 DEF HttpSteps, Initialize
    <3>6. QED
      BY <1>1, <3>1, <3>2, <3>3, <3>4, <3>5 DEF HttpTypeAlone
  <2>4. QED
    BY <1>10, <2>2, <2>3 DEF Initialize
<1>11. CASE StartClose \/ StopListening \/ UNCHANGED httpVars
  BY <1>1, <1>11, HttpTypeIf DEF StartClose, StopListening, httpVars
<1>12. CASE CloseSession
  <2>1. PICK oldest : sessions' = RemoveFirst(sessions, oldest)
    BY <1>12 DEF CloseSession
  <2>2. OnceEach(sessions', issued)
    BY <1>1, <2>1, RemovedOnce
  <2>3. QED
    BY <1>1, <1>12, <2>2, HttpTypeIf DEF CloseSession
<1>13. QED
  BY <1>4, <1>5, <1>6, <1>7, <1>8, <1>9, <1>10, <1>11, <1>12 DEF HttpNext

-----------------------------------------------------------------------------
(* ReviewDrain.                                                            *)
(*                                                                         *)
(* The count is of rows, each once: what the command confirmed is never a  *)
(* proposal again.  The queue only shrinks, because a memory is never      *)
(* forgotten, so an empty oldest page means that nothing is left of it.     *)

MineAreCounted ==
  /\ at # "threw" => tally = Cardinality(mine)
  /\ Cardinality(mine) \in tally..(tally + Cardinality(page))
  /\ \A r \in mine : status[r] = "confirmed"

QueueStands ==
  /\ \A r \in queue : status[r] # "absent"
  /\ at = "open" => queue = {} /\ done = {}
  /\ at = "confirm" /\ page = {} => queue \cap Proposed = {}
  /\ at = "list" => page # {}

\* The page listed last was of proposals: what is one no longer was decided since,
\* and by others until confirm() has returned.
PageStands ==
  /\ \A r \in page : status[r] # "absent"
  /\ at = "confirm" => page \cap mine = {}
  /\ at = "list" /\ done = {} => page \cap (Proposed \cup mine) = {}

\* Only another's commit can have blocked the journal after one's own page.
OwnPageUnblocks == at \in {"confirm", "list"} /\ done # {} /\ peers = 0 => ~blocked

DrainInv ==
  /\ DrainTypeOK /\ MineAreCounted /\ QueueStands /\ PageStands /\ OwnPageUnblocks
  /\ DrainReportsWhatItDid

LEMMA ProposedIs == Proposed \in SUBSET Rows /\ IsFiniteSet(Proposed)
                    /\ Cardinality(Proposed) \in Nat
<1>1. Proposed \in SUBSET Rows /\ IsFiniteSet(Rows)
  BY DrainAssumption DEF Proposed
<1> HIDE DEF Proposed
<1>2. QED
  BY <1>1, FS_Subset, FS_CardinalityType

LEMMA EmptyPage == FirstPage = {} => Proposed = {}
<1> SUFFICES ASSUME Proposed # {} PROVE FirstPage # {}
  OBVIOUS
<1>1. Proposed \in SUBSET Nat
  BY ProposedIs, DrainAssumption
<1> DEFINE P == Proposed
<1> HIDE DEF P
<1>2. PICK r \in P : \A q \in P : r <= q
  BY <1>1, Least DEF P
<1>3. {q \in P : q < r} = {}
  <2>1. \A q \in P : ~ (q < r)
    <3>1. SUFFICES ASSUME NEW q \in P PROVE ~ (q < r)
      OBVIOUS
    <3>2. q \in Nat /\ r \in Nat /\ r <= q
      BY <1>1, <1>2 DEF P
    <3>3. QED
      BY <3>2
  <2>2. QED
    BY <2>1
<1>4. Cardinality({q \in P : q < r}) = 0 /\ 0 < PageSize
  BY <1>3, FS_EmptySet, DrainAssumption
<1>5. r \in FirstPage
  BY <1>4 DEF FirstPage, P
<1>6. QED
  BY <1>5

LEMMA PageIs == FirstPage \in SUBSET Rows
  BY DEF FirstPage, Proposed

LEMMA PagesAreCounted == ASSUME NEW n \in Nat PROVE PagesFor(n) + Slack \in Nat
<1>1. PageSize \in Nat /\ PageSize >= 1 /\ Slack \in Nat
  BY DrainAssumption
<1>2. (n + PageSize - 1) \div PageSize \in Nat
  BY <1>1
<1>3. QED
  BY <1>1, <1>2 DEF PagesFor

DrainStatuses == {"absent", "proposed", "confirmed", "archived"}

LEMMA PageIsFinite ==
  ASSUME NEW P \in SUBSET Rows PROVE IsFiniteSet(P) /\ Cardinality(P) \in Nat
BY DrainAssumption, FS_Subset, FS_CardinalityType

\* A step that confirms nothing, whatever it lists.
LEMMA CountStands ==
  ASSUME DrainInv, at # "threw", UNCHANGED <<status, tally, mine>>, page' \in SUBSET Rows
  PROVE  MineAreCounted' /\ tally' = Cardinality(mine') /\ Proposed' = Proposed
<1>1. Cardinality(page') \in Nat /\ tally \in Nat /\ tally = Cardinality(mine)
  BY PageIsFinite DEF DrainInv, DrainTypeOK, MineAreCounted
<1>2. Cardinality(mine') \in tally'..(tally' + Cardinality(page')) /\ tally' = Cardinality(mine')
  BY <1>1
<1>3. QED
  BY <1>2 DEF DrainInv, MineAreCounted, Proposed

\* The page listed is of proposals, so none of it was confirmed by the command.
LEMMA PageIsNew ==
  ASSUME DrainInv PROVE FirstPage \cap mine = {} /\ \A r \in FirstPage : status[r] # "absent"
BY DEF DrainInv, MineAreCounted, FirstPage, Proposed

LEMMA DrainStep == DrainInv /\ [DrainNext]_drainVars => DrainInv'
<1> SUFFICES ASSUME DrainInv, [DrainNext]_drainVars PROVE DrainInv'
  OBVIOUS
<1>0. /\ DrainTypeOK /\ MineAreCounted /\ QueueStands /\ PageStands /\ OwnPageUnblocks
      /\ DrainReportsWhatItDid /\ IsFiniteSet(mine) /\ Cardinality(mine) \in Nat
      /\ page \in SUBSET Rows /\ Cardinality(page) \in Nat
  <2>1. mine \in SUBSET Rows /\ page \in SUBSET Rows
    BY DEF DrainInv, DrainTypeOK
  <2>2. QED
    BY <2>1, PageIsFinite DEF DrainInv
<1>1. CASE OpenDrain
  <2>1. /\ at = "open" /\ UNCHANGED <<status, peers, done, iters, tally, mine>>
        /\ queue = {} /\ done = {}
    BY <1>0, <1>1 DEF OpenDrain, QueueStands
  <2>2. CASE at' = "notRun" \/ at' = "threw"
    <3>1. UNCHANGED <<page, maxIters, queue>> /\ blocked' \in BOOLEAN
      BY <1>0, <1>1, <2>2 DEF OpenDrain, DrainTypeOK
    <3>2. MineAreCounted' /\ tally' = Cardinality(mine') /\ Proposed' = Proposed
      BY <1>0, <2>1, <3>1, CountStands
    <3>3. QED
      BY <1>0, <2>1, <2>2, <3>1, <3>2
      DEF DrainInv, DrainTypeOK, MineAreCounted, QueueStands, PageStands, OwnPageUnblocks,
          DrainReportsWhatItDid, Ends
  <2>3. CASE at' = "confirm"
    <3>1. /\ page' = FirstPage /\ queue' = Proposed
          /\ maxIters' = PagesFor(Cardinality(Proposed)) + Slack /\ UNCHANGED blocked
      BY <1>1, <2>3 DEF OpenDrain
    <3>2. maxIters' \in Nat /\ page' \in SUBSET Rows /\ queue' \in SUBSET Rows
      BY <3>1, PagesAreCounted, ProposedIs, PageIs
    <3>3. MineAreCounted' /\ tally' = Cardinality(mine') /\ Proposed' = Proposed
      BY <2>1, <3>2, CountStands
    <3>4. DrainTypeOK'
      BY <1>0, <2>1, <2>3, <3>1, <3>2 DEF DrainTypeOK
    <3>5. OwnPageUnblocks' /\ DrainReportsWhatItDid'
      BY <2>1, <2>3, <3>3 DEF OwnPageUnblocks, DrainReportsWhatItDid, MineAreCounted
    <3>6. QueueStands'
      BY <2>3, <2>1, <3>1, <3>3, EmptyPage DEF QueueStands, Proposed
    <3>7. PageStands'
      BY <2>3, <2>1, <3>1, PageIsNew DEF PageStands
    <3>8. QED
      BY <3>3, <3>4, <3>5, <3>6, <3>7 DEF DrainInv
  <2>4. QED
    BY <1>1, <2>2, <2>3 DEF OpenDrain
<1>2. CASE EndOfQueue
  <2>1. /\ at = "confirm" /\ at' \in {"ok", "refilled"} /\ (at' = "ok" => page = {})
        /\ UNCHANGED <<status, blocked, done, tally, mine, peers, page, iters, maxIters, queue>>
    BY <1>2 DEF EndOfQueue, End
  <2>2. MineAreCounted' /\ tally' = Cardinality(mine') /\ Proposed' = Proposed
    BY <1>0, <2>1, CountStands
  <2>3. QED
    BY <1>0, <2>1, <2>2
    DEF DrainInv, DrainTypeOK, MineAreCounted, QueueStands, PageStands, OwnPageUnblocks,
        DrainReportsWhatItDid, Ends
<1>3. CASE ConfirmPage
  <2> DEFINE settled == page \cap Proposed
  <2>1. /\ at = "confirm" /\ page # {} /\ iters' = iters + 1
        /\ UNCHANGED <<peers, page, maxIters, queue>>
    BY <1>3 DEF ConfirmPage
  <2>2. CASE UNCHANGED <<status, blocked, tally, mine>> /\ done' = {} /\ at' = "list"
             /\ settled = {}
    <3>1. MineAreCounted' /\ tally' = Cardinality(mine') /\ Proposed' = Proposed
      BY <1>0, <2>1, <2>2, CountStands
    <3>2. page' \cap (Proposed' \cup mine') = {}
      BY <1>0, <2>1, <2>2, <3>1 DEF PageStands
    <3>3. QED
      BY <1>0, <2>1, <2>2, <3>1, <3>2
      DEF DrainInv, DrainTypeOK, MineAreCounted, QueueStands, PageStands, OwnPageUnblocks,
          DrainReportsWhatItDid, Ends
  <2>3. CASE (settled # {} /\ blocked /\ End("refused")) \/ End("threw")
    <3>1. /\ at' \in {"refused", "threw"} /\ (at' = "refused" => blocked)
          /\ UNCHANGED <<status, blocked, done, tally, mine>>
      BY <2>3 DEF End
    <3>2. MineAreCounted' /\ tally' = Cardinality(mine') /\ Proposed' = Proposed
      BY <1>0, <2>1, <3>1, CountStands
    <3>3. QED
      BY <1>0, <2>1, <3>1, <3>2
      DEF DrainInv, DrainTypeOK, MineAreCounted, QueueStands, PageStands, OwnPageUnblocks,
          DrainReportsWhatItDid, Ends
  <2>4. CASE /\ settled # {} /\ ~blocked
             /\ status' = [r \in Rows |-> IF r \in settled THEN "confirmed" ELSE status[r]]
             /\ mine' = mine \cup settled
             /\ \E anchored \in BOOLEAN :
                  /\ blocked' = ~anchored
                  /\ \/ /\ at' = AfterCommit(anchored)
                        /\ done' = settled /\ tally' = tally + Cardinality(settled)
                     \/ at' = "threw" /\ UNCHANGED <<done, tally>>
    <3>1. /\ blocked' \in BOOLEAN
          /\ \/ /\ at' \in {"list", "unanchored"} /\ (at' = "list" => ~blocked')
                /\ done' = settled /\ tally' = tally + Cardinality(settled)
             \/ at' = "threw" /\ UNCHANGED <<done, tally>>
      BY <2>4 DEF AfterCommit
    <3>2. settled \in SUBSET Rows /\ mine \cap settled = {} /\ settled \in SUBSET page
      BY <1>0 DEF Proposed, MineAreCounted
    <3>3. Cardinality(settled) \in Nat /\ IsFiniteSet(settled)
          /\ Cardinality(settled) <= Cardinality(page)
      <4>1. IsFiniteSet(page)
        BY <1>0, PageIsFinite
      <4> HIDE DEF settled
      <4>2. QED
        BY <3>2, <4>1, FS_Subset, FS_CardinalityType
    <3>4. Cardinality(mine') = Cardinality(mine) + Cardinality(settled)
      <4> HIDE DEF settled
      <4>1. Cardinality(mine \cup settled) = Cardinality(mine) + Cardinality(settled)
                                             - Cardinality(mine \cap settled)
        BY <1>0, <3>3, FS_Union
      <4>2. Cardinality(mine \cap settled) = 0
        BY <3>2, FS_EmptySet
      <4>3. mine' = mine \cup settled
        BY <2>4 DEF settled
      <4>4. QED
        BY <1>0, <3>3, <4>1, <4>2, <4>3
    <3>5. DrainTypeOK'
      <4>1. \A r \in Rows : status'[r] \in DrainStatuses
        BY <1>0, <2>4 DEF DrainTypeOK, DrainStatuses
      <4>2. status' \in [Rows -> DrainStatuses]
        BY <2>4, <4>1
      <4>3. tally' \in Nat /\ iters' \in Nat
        BY <1>0, <2>1, <3>1, <3>3 DEF DrainTypeOK
      <4>4. done' \in SUBSET Rows /\ mine' \in SUBSET Rows
        BY <1>0, <2>4, <3>1, <3>2 DEF DrainTypeOK
      <4>5. QED
        BY <1>0, <2>1, <3>1, <4>2, <4>3, <4>4 DEF DrainTypeOK, DrainStatuses, Ends
    <3>6. MineAreCounted'
      <4>1. /\ at' # "threw" => tally' = Cardinality(mine')
            /\ Cardinality(mine') \in tally'..(tally' + Cardinality(page'))
        <5>1. tally = Cardinality(mine) /\ tally \in Nat /\ page' = page
          BY <1>0, <2>1 DEF MineAreCounted, DrainTypeOK
        <5> HIDE DEF settled
        <5>2. QED
          BY <1>0, <3>1, <3>3, <3>4, <5>1
      <4>2. \A r \in mine' : status'[r] = "confirmed"
        BY <1>0, <2>4, <3>2 DEF MineAreCounted, DrainTypeOK
      <4>3. QED
        BY <4>1, <4>2 DEF MineAreCounted
    <3>7. QueueStands'
      <4>1. \A r \in queue' : status'[r] # "absent"
        BY <1>0, <2>1, <2>4 DEF QueueStands, DrainTypeOK
      <4>2. QED
        BY <2>1, <3>1, <4>1 DEF QueueStands
    <3>8. PageStands'
      <4>1. \A r \in page' : status'[r] # "absent"
        BY <1>0, <2>1, <2>4 DEF PageStands, DrainTypeOK
      <4>2. at' = "list" => done' # {}
        BY <2>4, <3>1
      <4>3. QED
        BY <3>1, <4>1, <4>2 DEF PageStands
    <3>9. OwnPageUnblocks'
      BY <3>1 DEF OwnPageUnblocks
    <3>10. DrainReportsWhatItDid'
      BY <3>1, <3>6 DEF DrainReportsWhatItDid, MineAreCounted
    <3>11. QED
      BY <3>5, <3>6, <3>7, <3>8, <3>9, <3>10 DEF DrainInv
  <2>5. QED
    BY <1>3, <2>2, <2>3, <2>4 DEF ConfirmPage
<1>4. CASE ListNext
  <2>1. /\ at = "list" /\ UNCHANGED <<peers, iters, maxIters, queue>>
        /\ UNCHANGED <<status, blocked, done, tally, mine>>
        /\ \/ done = {} /\ at' = "ok" /\ page' = page
           \/ at' = "confirm" /\ page' = FirstPage
           \/ at' = "threw" /\ page' = page
    BY <1>4 DEF ListNext, End, EndsWhen
  <2>2. page' \in SUBSET Rows
    BY <1>0, <2>1, PageIs
  <2>3. MineAreCounted' /\ tally' = Cardinality(mine') /\ Proposed' = Proposed
    BY <2>1, <2>2, CountStands
  <2>4. CASE done = {} /\ at' = "ok" /\ page' = page
    BY <1>0, <2>1, <2>3, <2>4
    DEF DrainInv, DrainTypeOK, MineAreCounted, QueueStands, PageStands, OwnPageUnblocks,
        DrainReportsWhatItDid, Ends
  <2>5. CASE at' = "confirm" /\ page' = FirstPage
    <3>1. page' = {} => queue' \cap Proposed' = {}
      BY <2>3, <2>5, EmptyPage
    <3>2. PageStands'
      BY <2>1, <2>5, PageIsNew DEF PageStands
    <3>3. QED
      BY <1>0, <2>1, <2>2, <2>3, <2>5, <3>1, <3>2
      DEF DrainInv, DrainTypeOK, MineAreCounted, QueueStands, OwnPageUnblocks,
          DrainReportsWhatItDid, Ends
  <2>6. CASE at' = "threw" /\ page' = page
    BY <1>0, <2>1, <2>3, <2>6
    DEF DrainInv, DrainTypeOK, MineAreCounted, QueueStands, PageStands, OwnPageUnblocks,
        DrainReportsWhatItDid, Ends
  <2>7. QED
    BY <2>1, <2>4, <2>5, <2>6
<1>5. CASE Peer
  <2>1. /\ at \notin Ends /\ peers < MaxPeers /\ peers' = peers + 1
        /\ UNCHANGED <<at, page, done, iters, maxIters, tally, mine, queue>>
    BY <1>5 DEF Peer
  <2>2. peers \in Nat /\ peers' \in 0..MaxPeers /\ peers' # 0
    BY <1>0, <2>1, DrainAssumption DEF DrainTypeOK
  <2>3. /\ blocked' \in BOOLEAN /\ status' \in [Rows -> DrainStatuses]
        /\ \A r \in Rows : /\ status[r] = "confirmed" => status'[r] = "confirmed"
                           /\ status[r] # "absent" => status'[r] # "absent"
                           /\ status'[r] = "proposed" => status[r] \in {"proposed", "absent"}
    <3>1. CASE UNCHANGED status
      BY <1>0, <1>5, <3>1 DEF Peer, DrainTypeOK, DrainStatuses
    <3>2. CASE \E r \in Rows : \E s \in {"confirmed", "archived"} :
                 status[r] = "proposed" /\ status' = [status EXCEPT ![r] = s]
      BY <1>0, <1>5, <3>2 DEF Peer, DrainTypeOK, DrainStatuses
    <3>3. CASE \E r \in Rows : status[r] = "absent"
                               /\ status' = [status EXCEPT ![r] = "proposed"]
      BY <1>0, <1>5, <3>3 DEF Peer, DrainTypeOK, DrainStatuses
    <3>4. QED
      BY <1>5, <3>1, <3>2, <3>3 DEF Peer
  <2>4. DrainTypeOK'
    BY <1>0, <2>1, <2>2, <2>3 DEF DrainTypeOK, DrainStatuses
  <2>5. MineAreCounted' /\ OwnPageUnblocks'
    BY <1>0, <2>1, <2>2, <2>3 DEF DrainTypeOK, MineAreCounted, OwnPageUnblocks
  <2>6. queue' \cap Proposed' \subseteq queue \cap Proposed
    BY <1>0, <2>1, <2>3 DEF Proposed, QueueStands
  <2>7. page' \cap Proposed' \subseteq page \cap Proposed
    BY <1>0, <2>1, <2>3 DEF Proposed, PageStands
  <2>8. QueueStands'
    BY <1>0, <2>1, <2>3, <2>6 DEF QueueStands, DrainTypeOK
  <2>9. PageStands'
    BY <1>0, <2>1, <2>3, <2>7 DEF PageStands
  <2>10. DrainReportsWhatItDid'
    BY <1>0, <2>1, <2>5 DEF DrainReportsWhatItDid, MineAreCounted, Ends
  <2>11. QED
    BY <2>4, <2>5, <2>8, <2>9, <2>10 DEF DrainInv
<1>6. CASE UNCHANGED drainVars
  BY <1>0, <1>6
  DEF drainVars, DrainInv, DrainTypeOK, MineAreCounted, QueueStands, PageStands,
      OwnPageUnblocks, DrainReportsWhatItDid, Proposed
<1>7. QED
  BY <1>1, <1>2, <1>3, <1>4, <1>5, <1>6 DEF DrainNext

LEMMA DrainInitInv == DrainInit => DrainInv
BY FS_EmptySet, DrainAssumption
DEF DrainInit, DrainInv, DrainTypeOK, MineAreCounted, QueueStands, PageStands, OwnPageUnblocks,
    DrainReportsWhatItDid

\* However others decide proposals under the drain and whatever of it throws: the
\* number it reports is that of the rows it made durable, each once, an exception
\* keeps at most one page from the count, no refusal is the drain's own doing,
\* and a drain that ends well over an undecided proposal had all of its last page
\* decided by others.
THEOREM DrainIsHonest == DrainSpec => []DrainReportsWhatItDid
<1>1. DrainInv => DrainReportsWhatItDid
  BY DEF DrainInv
<1>2. QED
  BY <1>1, DrainInitInv, DrainStep, PTL DEF DrainSpec

-----------------------------------------------------------------------------
(* ArchiveLoad.                                                            *)
(*                                                                         *)
(* First the sum of a function over a finite set, which the library takes  *)
(* in an order nobody knows: the order does not matter, so the sum grows   *)
(* by the summand of each element added.                                   *)

First(s) == CHOOSE x \in s : TRUE

\* g adds up f over each part of S, as the fold does.
Adds(g, f, S) ==
  \A s \in SUBSET S : g[s] = IF s = {} THEN 0 ELSE f[First(s)] + g[s \ {First(s)}]

\* A smallest set among some finite ones.
LEMMA Smallest ==
  ASSUME NEW B, B # {}, \A s \in B : IsFiniteSet(s)
  PROVE  \E s \in B : \A t \in B : Cardinality(s) <= Cardinality(t)
<1> DEFINE T == {Cardinality(s) : s \in B}
<1>1. T \in SUBSET Nat /\ T # {}
  BY FS_CardinalityType
<1>2. PICK n \in T : \A m \in T : n <= m
  <2> HIDE DEF T
  <2>1. QED
    BY <1>1, Least
<1>3. PICK s \in B : n = Cardinality(s)
  OBVIOUS
<1>4. \A t \in B : Cardinality(s) <= Cardinality(t)
  BY <1>2, <1>3
<1>5. QED
  BY <1>4

\* What holds of a set whenever it holds of the set without any of its elements.
LEMMA SetInduct ==
  ASSUME NEW S, IsFiniteSet(S), NEW P \in SUBSET (SUBSET S),
         \A s \in SUBSET S : (\A x \in s : s \ {x} \in P) => s \in P
  PROVE  \A s \in SUBSET S : s \in P
<1> DEFINE B == (SUBSET S) \ P
<1> SUFFICES ASSUME B # {} PROVE FALSE
  OBVIOUS
<1>1. \A s \in B : IsFiniteSet(s)
  BY FS_Subset
<1>2. PICK s \in B : \A t \in B : Cardinality(s) <= Cardinality(t)
  <2> HIDE DEF B
  <2>1. QED
    BY <1>1, Smallest
<1>3. ASSUME NEW x \in s PROVE s \ {x} \in P
  <2>1. IsFiniteSet(s) /\ Cardinality(s) \in Nat
    BY <1>1, FS_CardinalityType
  <2>2. IsFiniteSet(s \ {x}) /\ Cardinality(s \ {x}) = Cardinality(s) - 1
    BY <2>1, <1>3, FS_RemoveElement
  <2>3. ~ (Cardinality(s) <= Cardinality(s \ {x}))
    BY <2>1, <2>2
  <2>4. s \ {x} \notin B
    BY <1>2, <2>3
  <2>5. QED
    BY <2>4
<1>4. QED
  BY <1>3

LEMMA FirstIs == ASSUME NEW s, s # {} PROVE First(s) \in s
  BY DEF First

\* Whatever else they add up, two such functions agree where what they add does.
LEMMA AddsAgree ==
  ASSUME NEW C, IsFiniteSet(C), NEW S1, NEW S2, C \in SUBSET S1, C \in SUBSET S2,
         NEW f1, NEW f2, \A x \in C : f1[x] = f2[x],
         NEW g1, NEW g2, Adds(g1, f1, S1), Adds(g2, f2, S2)
  PROVE  g1[C] = g2[C]
<1> DEFINE P == {s \in SUBSET C : g1[s] = g2[s]}
<1>1. ASSUME NEW s \in SUBSET C, \A x \in s : s \ {x} \in P PROVE s \in P
  <2>1. s \in SUBSET S1 /\ s \in SUBSET S2
    OBVIOUS
  <2>2. CASE s = {}
    BY <2>1, <2>2 DEF Adds
  <2>3. CASE s # {}
    <3>1. First(s) \in s /\ First(s) \in C
      BY <2>3, FirstIs
    <3>2. g1[s \ {First(s)}] = g2[s \ {First(s)}]
      BY <1>1, <3>1
    <3>3. QED
      BY <2>1, <2>3, <3>1, <3>2 DEF Adds
  <2>4. QED
    BY <2>2, <2>3
<1>2. P \in SUBSET (SUBSET C)
  OBVIOUS
<1> HIDE DEF P
<1>3. C \in P
  BY <1>1, <1>2, SetInduct
<1>4. QED
  BY <1>3 DEF P

LEMMA AddsExist ==
  ASSUME NEW S, IsFiniteSet(S), NEW f, \A x \in S : f[x] \in Nat
  PROVE  \E g \in [SUBSET S -> Nat] : Adds(g, f, S)
<1> DEFINE P == {A \in SUBSET S : \E g \in [SUBSET A -> Nat] : Adds(g, f, A)}
<1>1. ASSUME NEW A \in SUBSET S, \A x \in A : A \ {x} \in P PROVE A \in P
  <2> DEFINE Of(x) == CHOOSE h \in [SUBSET (A \ {x}) -> Nat] : Adds(h, f, A \ {x})
  <2>1. ASSUME NEW x \in A
        PROVE  Of(x) \in [SUBSET (A \ {x}) -> Nat] /\ Adds(Of(x), f, A \ {x})
    <3>1. \E h \in [SUBSET (A \ {x}) -> Nat] : Adds(h, f, A \ {x})
      BY <1>1
    <3>2. QED
      BY <3>1
  <2> DEFINE g == [s \in SUBSET A |->
                     IF s = {} THEN 0 ELSE f[First(s)] + Of(First(s))[s \ {First(s)}]]
  <2> HIDE DEF Of
  <2>2. ASSUME NEW s \in SUBSET A, s # {}
        PROVE  /\ g[s] \in Nat
               /\ g[s] = f[First(s)] + g[s \ {First(s)}]
    <3> DEFINE t == s \ {First(s)}
               h == Of(First(s))
    <3>1. First(s) \in s /\ First(s) \in A /\ f[First(s)] \in Nat
      BY <2>2, FirstIs
    <3>2. t \in SUBSET A /\ t \in SUBSET (A \ {First(s)}) /\ IsFiniteSet(t)
      BY FS_Subset
    <3>3. h \in [SUBSET (A \ {First(s)}) -> Nat] /\ Adds(h, f, A \ {First(s)})
      BY <2>1, <3>1
    <3>4. g[s] = f[First(s)] + h[t] /\ h[t] \in Nat
      BY <2>2, <3>2, <3>3
    <3> HIDE DEF h
    <3>5. h[t] = g[t]
      <4>1. CASE t = {}
        BY <3>2, <3>3, <4>1 DEF Adds
      <4>2. CASE t # {}
        <5> DEFINE u == t \ {First(t)}
        <5>1. First(t) \in t /\ First(t) \in A
          BY <3>2, <4>2, FirstIs
        <5>2. h[t] = f[First(t)] + h[u]
          BY <3>2, <3>3, <4>2 DEF Adds
        <5>3. Adds(Of(First(t)), f, A \ {First(t)})
          BY <2>1, <5>1
        <5>4. u \in SUBSET (A \ {First(s)}) /\ u \in SUBSET (A \ {First(t)}) /\ IsFiniteSet(u)
          BY <3>2, FS_Subset
        <5>5. g[t] = f[First(t)] + Of(First(t))[u]
          BY <3>2, <4>2
        <5> HIDE DEF u, t
        <5>6. h[u] = Of(First(t))[u]
          BY <3>3, <5>3, <5>4, AddsAgree
        <5>7. QED
          BY <5>2, <5>5, <5>6
      <4>3. QED
        BY <4>1, <4>2
    <3> HIDE DEF g
    <3>6. QED
      BY <3>1, <3>4, <3>5
  <2>3. g[{}] = 0
    OBVIOUS
  <2>4. g \in [SUBSET A -> Nat]
    <3>1. \A s \in SUBSET A : g[s] \in Nat
      BY <2>2, <2>3
    <3>2. QED
      BY <3>1
  <2>5. Adds(g, f, A)
    <3> HIDE DEF g
    <3>1. QED
      BY <2>2, <2>3 DEF Adds
  <2> HIDE DEF g
  <2>6. QED
    BY <2>4, <2>5
<1>2. P \in SUBSET (SUBSET S)
  OBVIOUS
<1> HIDE DEF P
<1>3. S \in P
  BY <1>1, <1>2, SetInduct
<1>4. QED
  BY <1>3 DEF P

\* Any element may be taken for the first.
OrderFree(g, f, S) == \A s \in SUBSET S : \A x \in s : g[s] = f[x] + g[s \ {x}]

LEMMA AnyOrder ==
  ASSUME NEW S, NEW f, NEW g, IsFiniteSet(S), \A x \in S : f[x] \in Nat,
         g \in [SUBSET S -> Nat], Adds(g, f, S)
  PROVE  OrderFree(g, f, S)
<1> DEFINE P == {s \in SUBSET S : \A x \in s : g[s] = f[x] + g[s \ {x}]}
<1>1. ASSUME NEW s \in SUBSET S, \A x \in s : s \ {x} \in P PROVE s \in P
  <2> SUFFICES ASSUME NEW x \in s PROVE g[s] = f[x] + g[s \ {x}]
    OBVIOUS
  <2> DEFINE c == First(s)
  <2>1. c \in s /\ c \in S /\ f[c] \in Nat /\ f[x] \in Nat
    BY FirstIs
  <2>2. g[s] = f[c] + g[s \ {c}]
    BY DEF Adds
  <2>3. CASE x = c
    BY <2>2, <2>3
  <2>4. CASE x # c
    <3> DEFINE t == s \ {c, x}
    <3> HIDE DEF c
    <3>1. (s \ {c}) \ {x} = t /\ (s \ {x}) \ {c} = t /\ x \in s \ {c} /\ c \in s \ {x}
      BY <2>1, <2>4
    <3>2. s \ {c} \in P /\ s \ {x} \in P
      BY <1>1, <2>1
    <3>3. g[s \ {c}] = f[x] + g[t] /\ g[s \ {x}] = f[c] + g[t]
      BY <3>1, <3>2
    <3>4. g[t] \in Nat
      OBVIOUS
    <3> HIDE DEF t
    <3>5. QED
      BY <2>1, <2>2, <3>3, <3>4
  <2>5. QED
    BY <2>3, <2>4
<1>2. P \in SUBSET (SUBSET S)
  OBVIOUS
<1>3. \A s \in SUBSET S : s \in P
  <2> HIDE DEF P
  <2>1. QED
    BY <1>1, <1>2, SetInduct
<1>4. QED
  BY <1>3 DEF OrderFree

LEMMA SumIs ==
  ASSUME NEW S, IsFiniteSet(S), NEW f, \A x \in S : f[x] \in Nat
  PROVE  \E g \in [SUBSET S -> Nat] : Adds(g, f, S) /\ SumFunctionOnSet(f, S) = g[S]
<1> DEFINE Is(g) == g = [s \in SUBSET S |->
                           IF s = {} THEN 0 ELSE f[First(s)] + g[s \ {First(s)}]]
           it == CHOOSE g : Is(g)
<1>1. PICK g \in [SUBSET S -> Nat] : Adds(g, f, S)
  BY AddsExist
<1>2. Is(g)
  BY <1>1 DEF Adds
<1>3. Is(it)
  <2> HIDE DEF Is
  <2>1. QED
    BY <1>2
<1>4. SumFunctionOnSet(f, S) = it[S]
  BY DEF SumFunctionOnSet, FoldFunctionOnSet, MapThenFoldSet, First
<1> HIDE DEF it
<1>5. Adds(it, f, S)
  BY <1>3 DEF Adds
<1>6. it[S] = g[S]
  BY <1>1, <1>5, AddsAgree
<1>7. QED
  BY <1>1, <1>4, <1>6

LEMMA SumOfNone == ASSUME NEW f PROVE SumFunctionOnSet(f, {}) = 0
<1>1. IsFiniteSet({}) /\ \A x \in {} : f[x] \in Nat
  BY FS_EmptySet
<1>2. PICK g \in [SUBSET {} -> Nat] : Adds(g, f, {}) /\ SumFunctionOnSet(f, {}) = g[{}]
  BY <1>1, SumIs
<1>3. QED
  BY <1>2 DEF Adds

LEMMA SumIsNat ==
  ASSUME NEW S, IsFiniteSet(S), NEW f, \A x \in S : f[x] \in Nat
  PROVE  SumFunctionOnSet(f, S) \in Nat
<1>1. PICK g \in [SUBSET S -> Nat] : Adds(g, f, S) /\ SumFunctionOnSet(f, S) = g[S]
  BY SumIs
<1>2. QED
  BY <1>1

\* The sum grows by what is put in for an element that was not counted.
LEMMA SumGrows ==
  ASSUME NEW S, IsFiniteSet(S), NEW m, m \notin S, NEW f, NEW h,
         \A x \in S : f[x] \in Nat /\ h[x] = f[x], h[m] \in Nat
  PROVE  SumFunctionOnSet(h, S \cup {m}) = h[m] + SumFunctionOnSet(f, S)
<1> DEFINE T == S \cup {m}
<1>1. IsFiniteSet(T) /\ \A x \in T : h[x] \in Nat
  BY FS_AddElement
<1>2. m \in T /\ S = T \ {m}
  OBVIOUS
<1> HIDE DEF T
<1>3. PICK g \in [SUBSET T -> Nat] : Adds(g, h, T) /\ SumFunctionOnSet(h, T) = g[T]
  BY <1>1, SumIs
<1>4. g[T] = h[m] + g[T \ {m}]
  <2>1. OrderFree(g, h, T)
    BY <1>1, <1>3, AnyOrder
  <2>2. QED
    BY <1>2, <2>1 DEF OrderFree
<1>5. PICK k \in [SUBSET S -> Nat] : Adds(k, f, S) /\ SumFunctionOnSet(f, S) = k[S]
  BY SumIs
<1>6. g[S] = k[S]
  BY <1>2, <1>3, <1>5, AddsAgree
<1>7. QED
  BY <1>2, <1>3, <1>4, <1>5, <1>6 DEF T

-----------------------------------------------------------------------------
\* Of a zip, what is kept and what is promised to the entry being read have
\* been charged; of a folder, what is kept has been, and the rest fits.
Charged ==
  LET stored == SumFunctionOnSet(loaded, Loaded)
  IN  /\ sort = "zip" => stored + stamped <= bytes /\ buffered <= stamped
      /\ sort = "folder" => stored = bytes /\ bytes + buffered <= TotalBytes

\* Entries are met in order, and each is read once.
InOrder ==
  /\ examined \in Nat /\ \E k \in 0..MaxEntries : DOMAIN what = 1..k /\ examined <= k
  /\ reading # NoEntry => reading = examined /\ reading \in DOMAIN what
  /\ reading = NoEntry => stamped = 0 /\ buffered = 0
  /\ \A m \in Loaded : m <= examined /\ m # reading
  /\ verdict # "running" => reading = NoEntry

WholeSoFar ==
  /\ sort = "zip" /\ verdict # "refused" =>
       \A m \in SelectedIn : m <= examined /\ m # reading => loaded[m] = actual[m]
  /\ verdict = "resolved" => DOMAIN what = 1..examined

LoadInv == ArchiveTypeOK /\ Charged /\ InOrder /\ WholeSoFar

LEMMA LoadedIs ==
  ASSUME ArchiveTypeOK
  PROVE  /\ Loaded \in SUBSET EntryNumbers /\ IsFiniteSet(Loaded)
         /\ \A m \in Loaded : loaded[m] \in Nat
         /\ SumFunctionOnSet(loaded, Loaded) \in Nat
<1>1. MaxEntries \in Nat /\ MaxSize \in Nat
  BY ArchiveAssumption
<1>2. IsFiniteSet(EntryNumbers)
  BY <1>1, FS_Interval DEF EntryNumbers
<1>3. Loaded \in SUBSET EntryNumbers /\ \A m \in Loaded : loaded[m] \in Nat
  BY <1>1 DEF Loaded, ArchiveTypeOK, Sizes
<1> DEFINE L == Loaded
<1> HIDE DEF L
<1>4. IsFiniteSet(L)
  BY <1>2, <1>3, FS_Subset DEF L
<1>5. SumFunctionOnSet(loaded, L) \in Nat
  BY <1>3, <1>4, SumIsNat DEF L
<1>6. QED
  BY <1>3, <1>4, <1>5 DEF L

\* What is kept grows by what was buffered.
LEMMA PutInIs ==
  ASSUME LoadInv, PutIn, reading # NoEntry
  PROVE  /\ loaded' \in [EntryNumbers -> Sizes \cup {Absent}]
         /\ Loaded' = Loaded \cup {reading} /\ loaded'[reading] = buffered
         /\ \A m \in Loaded : loaded'[m] = loaded[m]
         /\ SumFunctionOnSet(loaded', Loaded') = buffered + SumFunctionOnSet(loaded, Loaded)
<1>1. /\ loaded' = [loaded EXCEPT ![reading] = buffered] /\ reading \in EntryNumbers
      /\ loaded \in [EntryNumbers -> Sizes \cup {Absent}] /\ buffered \in Sizes
      /\ buffered \in Nat /\ reading \notin Loaded
  BY ArchiveAssumption DEF PutIn, LoadInv, ArchiveTypeOK, InOrder, Sizes
<1>2. buffered # Absent
  BY <1>1, ArchiveAssumption DEF Absent, Sizes
<1>3. Loaded' = Loaded \cup {reading}
  BY <1>1, <1>2 DEF Loaded
<1>4. loaded'[reading] = buffered /\ \A m \in Loaded : loaded'[m] = loaded[m]
  BY <1>1 DEF Loaded
<1> DEFINE S == Loaded
           h == loaded'
<1>5. IsFiniteSet(S) /\ \A x \in S : loaded[x] \in Nat
  BY LoadedIs DEF LoadInv
<1>6. reading \notin S /\ h[reading] \in Nat /\ \A x \in S : h[x] = loaded[x]
  BY <1>1, <1>4
<1>7. SumFunctionOnSet(h, S \cup {reading}) = h[reading] + SumFunctionOnSet(loaded, S)
  <2> HIDE DEF S, h
  <2>1. QED
    BY <1>5, <1>6, SumGrows
<1>8. QED
  BY <1>1, <1>3, <1>4, <1>7

\* A step that keeps nothing leaves the sum.
LEMMA SameSum ==
  ASSUME UNCHANGED loaded
  PROVE  Loaded' = Loaded
         /\ SumFunctionOnSet(loaded, Loaded)' = SumFunctionOnSet(loaded, Loaded)
<1>1. Loaded' = Loaded
  BY DEF Loaded
<1>2. QED
  BY <1>1

\* The import is refused: nothing is buffered any more.
LEMMA RefusedIs ==
  ASSUME LoadInv, RefuseImport, UNCHANGED bytes, examined' = examined \/ examined' = examined + 1,
         examined' # examined => examined' \in DOMAIN what
  PROVE  LoadInv'
<1> DEFINE stored == SumFunctionOnSet(loaded, Loaded)
<1>1. stored \in Nat /\ Loaded' = Loaded /\ stored' = stored
  BY LoadedIs, SameSum DEF LoadInv, RefuseImport
<1>2. /\ UNCHANGED <<sort, what, declared, actual, loaded, bytes>>
      /\ verdict' = "refused" /\ reading' = 0 /\ stamped' = 0 /\ buffered' = 0
  BY DEF RefuseImport, sources, NoEntry
<1>3. /\ bytes \in Nat /\ bytes <= TotalBytes /\ TotalBytes \in Nat /\ MaxSize \in Nat
      /\ stamped \in Nat /\ buffered \in Nat /\ examined \in Nat /\ MaxEntries \in Nat
  BY ArchiveAssumption DEF LoadInv, ArchiveTypeOK, Sizes
<1>4. PICK k \in 0..MaxEntries : DOMAIN what = 1..k /\ examined <= k
  BY DEF LoadInv, InOrder
<1>5. examined' \in Nat /\ examined' <= k /\ examined <= examined'
  BY <1>3, <1>4
<1>6. ArchiveTypeOK'
  BY <1>2, <1>3, <1>4, <1>5 DEF LoadInv, ArchiveTypeOK, Sizes, NoEntry, EntryNumbers
<1> HIDE DEF stored
<1>7. Charged'
  <2>1. sort = "zip" => stored + stamped <= bytes
    BY DEF LoadInv, Charged, stored
  <2>2. sort = "folder" => stored = bytes
    BY DEF LoadInv, Charged, stored
  <2>3. sort = "zip" => stored <= bytes
    BY <1>1, <1>3, <2>1
  <2>4. sort = "zip" => stored' + stamped' <= bytes' /\ buffered' <= stamped'
    BY <1>1, <1>2, <1>3, <2>3
  <2>5. sort = "folder" => stored' = bytes' /\ bytes' + buffered' <= TotalBytes
    BY <1>1, <1>2, <1>3, <2>2
  <2>6. QED
    BY <1>2, <2>4, <2>5 DEF Charged, stored
<1>8. InOrder'
  <2>1. \A m \in Loaded : m <= examined' /\ m # 0
    <3>1. SUFFICES ASSUME NEW m \in Loaded PROVE m <= examined' /\ m # 0
      OBVIOUS
    <3>2. m \in Nat /\ m # 0 /\ m <= examined
      BY <1>3 DEF LoadInv, InOrder, Loaded, EntryNumbers
    <3>3. QED
      BY <1>3, <1>5, <3>2
  <2>2. QED
    BY <1>1, <1>2, <1>4, <1>5, <2>1 DEF InOrder, NoEntry
<1>9. WholeSoFar'
  BY <1>2 DEF WholeSoFar
<1>10. QED
  BY <1>6, <1>7, <1>8, <1>9 DEF LoadInv

\* The next entry is met, and nothing is read of it.
LEMMA PassedOverIs ==
  ASSUME LoadInv, verdict = "running", reading = NoEntry, PassOver,
         examined' = examined + 1, examined' \in DOMAIN what,
         sort = "zip" => what[examined'] # "selected"
  PROVE  LoadInv'
<1>1. UNCHANGED <<sort, what, declared, actual, bytes, reading, stamped, buffered, loaded, verdict>>
  BY DEF PassOver, sources
<1>2. Loaded' = Loaded
      /\ SumFunctionOnSet(loaded, Loaded)' = SumFunctionOnSet(loaded, Loaded)
  BY <1>1, SameSum
<1>3. PICK k \in 0..MaxEntries : DOMAIN what = 1..k /\ examined <= k
  BY DEF LoadInv, InOrder
<1>4. examined \in Nat /\ examined' \in 0..MaxEntries /\ examined' <= k /\ MaxEntries \in Nat
  BY <1>3, ArchiveAssumption DEF LoadInv, InOrder
<1>5. ArchiveTypeOK'
  BY <1>1, <1>4 DEF LoadInv, ArchiveTypeOK
<1>6. Charged'
  BY <1>1, <1>2 DEF LoadInv, Charged
<1>7. InOrder'
  <2>1. \A m \in Loaded : m <= examined'
    <3>1. SUFFICES ASSUME NEW m \in Loaded PROVE m <= examined'
      OBVIOUS
    <3>2. m \in Nat /\ m <= examined
      BY <1>4 DEF LoadInv, InOrder, Loaded, EntryNumbers
    <3>3. QED
      BY <1>4, <3>2
  <2>2. \A m \in Loaded : m # reading
    BY DEF LoadInv, InOrder
  <2>3. reading = NoEntry => stamped = 0 /\ buffered = 0
    BY DEF LoadInv, InOrder
  <2>4. QED
    BY <1>1, <1>2, <1>3, <1>4, <2>1, <2>2, <2>3 DEF InOrder
<1>8. WholeSoFar'
  <2>1. SelectedIn' = SelectedIn
    BY <1>1 DEF SelectedIn
  <2>2. ASSUME sort = "zip", NEW m \in SelectedIn, m <= examined' PROVE loaded[m] = actual[m]
    <3>1. m \in Nat /\ m # 0 /\ m # examined'
      BY <1>3, <2>2 DEF SelectedIn
    <3>2. m <= examined /\ m # reading
      BY <1>4, <2>2, <3>1 DEF NoEntry
    <3>3. QED
      BY <2>2, <3>2 DEF LoadInv, WholeSoFar
  <2>3. QED
    BY <1>1, <2>1, <2>2 DEF WholeSoFar
<1>9. QED
  BY <1>5, <1>6, <1>7, <1>8 DEF LoadInv

\* The next entry is met and is going to be read.
LEMMA StartedIs ==
  ASSUME LoadInv, verdict = "running", reading = NoEntry,
         examined' = examined + 1, examined' \in DOMAIN what, NEW size \in Sizes,
         StartReading(examined', size), bytes' \in 0..TotalBytes,
         sort = "zip" => bytes' = bytes + size, sort = "folder" => bytes' = bytes
  PROVE  LoadInv'
<1> DEFINE stored == SumFunctionOnSet(loaded, Loaded)
<1>1. /\ UNCHANGED <<sort, what, declared, actual, loaded, verdict>>
      /\ reading' = examined' /\ stamped' = size /\ buffered' = 0
  BY DEF StartReading, sources
<1>2. Loaded' = Loaded /\ stored' = stored /\ stored \in Nat
  BY <1>1, SameSum, LoadedIs DEF LoadInv
<1>3. PICK k \in 0..MaxEntries : DOMAIN what = 1..k /\ examined <= k
  BY DEF LoadInv, InOrder
<1>4. /\ examined \in Nat /\ examined' \in 0..MaxEntries /\ examined' \in Nat /\ examined' # 0
      /\ examined' <= k /\ MaxEntries \in Nat /\ TotalBytes \in Nat /\ size \in Nat
      /\ bytes \in Nat /\ bytes' \in Nat /\ bytes' <= TotalBytes /\ MaxSize \in Nat
      /\ bytes <= TotalBytes
  BY <1>3, ArchiveAssumption DEF LoadInv, InOrder, Sizes, ArchiveTypeOK
<1>5. ArchiveTypeOK'
  <2>1. examined' \in EntryNumbers /\ 0 \in Sizes
    BY <1>4 DEF EntryNumbers, Sizes
  <2>2. QED
    BY <1>1, <1>4, <2>1 DEF LoadInv, ArchiveTypeOK
<1> HIDE DEF stored
<1>6. Charged'
  <2>1. stamped = 0 /\ buffered = 0
    BY DEF LoadInv, InOrder
  <2>2. ASSUME sort = "zip" PROVE stored' + stamped' <= bytes' /\ buffered' <= stamped'
    <3>1. stored + stamped <= bytes
      BY <2>2 DEF LoadInv, Charged, stored
    <3>2. QED
      BY <1>1, <1>2, <1>4, <2>1, <2>2, <3>1
  <2>3. ASSUME sort = "folder" PROVE stored' = bytes' /\ bytes' + buffered' <= TotalBytes
    <3>1. stored = bytes
      BY <2>3 DEF LoadInv, Charged, stored
    <3>2. QED
      BY <1>1, <1>2, <1>4, <2>3, <3>1
  <2>4. QED
    BY <1>1, <2>2, <2>3 DEF Charged, stored
<1>7. InOrder'
  <2>1. \A m \in Loaded : m <= examined' /\ m # examined'
    <3>1. SUFFICES ASSUME NEW m \in Loaded PROVE m <= examined' /\ m # examined'
      OBVIOUS
    <3>2. m \in Nat /\ m <= examined
      BY <1>4 DEF LoadInv, InOrder, Loaded, EntryNumbers
    <3>3. QED
      BY <1>4, <3>2
  <2>2. QED
    BY <1>1, <1>2, <1>3, <1>4, <2>1 DEF InOrder, NoEntry
<1>8. WholeSoFar'
  <2>1. SelectedIn' = SelectedIn
    BY <1>1 DEF SelectedIn
  <2>2. ASSUME sort = "zip", NEW m \in SelectedIn, m <= examined', m # examined'
        PROVE  loaded[m] = actual[m]
    <3>1. m \in Nat /\ m # 0
      BY <1>3, <2>2 DEF SelectedIn
    <3>2. m <= examined /\ m # reading
      BY <1>4, <2>2, <3>1 DEF NoEntry
    <3>3. QED
      BY <2>2, <3>2 DEF LoadInv, WholeSoFar
  <2>3. QED
    BY <1>1, <2>1, <2>2 DEF WholeSoFar
<1>9. QED
  BY <1>5, <1>6, <1>7, <1>8 DEF LoadInv

LEMMA ExamineStep == ASSUME LoadInv, NEW m \in EntryNumbers, Examine(m) PROVE LoadInv'
<1>1. /\ verdict = "running" /\ reading = NoEntry /\ examined' = examined + 1
      /\ examined' = m /\ m \in DOMAIN what
  BY DEF Examine, Importing
<1>2. /\ declared[m] \in Sizes /\ actual[m] \in Sizes /\ bytes \in Nat /\ bytes <= TotalBytes
      /\ TotalBytes \in Nat /\ MaxSize \in Nat /\ sort \in {"zip", "folder"}
  BY ArchiveAssumption DEF LoadInv, ArchiveTypeOK
<1>3. CASE RefuseImport /\ UNCHANGED bytes
  BY <1>1, <1>3, RefusedIs
<1>4. CASE PassOver /\ (sort = "zip" => what[m] # "selected")
  BY <1>1, <1>4, PassedOverIs
<1>5. CASE what[m] = "selected" /\ sort = "zip" /\ SelectZipEntry(m)
  <2>1. CASE Fits(declared[m])
    <3>1. StartReading(m, declared[m]) /\ bytes' = bytes + declared[m]
      BY <1>5, <2>1 DEF SelectZipEntry
    <3>2. bytes' \in 0..TotalBytes
      BY <1>2, <2>1, <3>1 DEF Fits, Sizes
    <3>3. QED
      BY <1>1, <1>2, <1>5, <3>1, <3>2, StartedIs
  <2>2. CASE ~Fits(declared[m])
    BY <1>3, <1>5, <2>2 DEF SelectZipEntry
  <2>3. QED
    BY <2>1, <2>2
<1>6. CASE what[m] = "selected" /\ sort # "zip" /\ SelectFile(m)
  <2>1. CASE UNCHANGED bytes /\ StartReading(m, actual[m])
    <3>1. bytes' \in 0..TotalBytes
      BY <1>2, <2>1
    <3>2. QED
      BY <1>1, <1>2, <1>6, <2>1, <3>1, StartedIs
  <2>2. CASE PassOver
    BY <1>4, <1>6, <2>2
  <2>3. CASE RefuseImport /\ UNCHANGED bytes
    BY <1>3, <2>3
  <2>4. QED
    BY <1>6, <2>1, <2>2, <2>3 DEF SelectFile
<1>7. QED
  BY <1>3, <1>4, <1>5, <1>6 DEF Examine

\* More of the entry is buffered, within what remains.
LEMMA BufferedIs ==
  ASSUME LoadInv, verdict = "running", reading # NoEntry, buffered < actual[reading],
         NEW n \in Nat, n <= actual[reading] - buffered, Buffer(n),
         sort = "zip" => ~MoreThanStamped(n), sort = "folder" => ~MoreThanRemains(n)
  PROVE  LoadInv'
<1> DEFINE stored == SumFunctionOnSet(loaded, Loaded)
<1>1. /\ UNCHANGED <<sort, what, declared, actual, examined, bytes, reading, stamped, loaded,
                     verdict>>
      /\ buffered' = buffered + n
  BY DEF Buffer, sources
<1>2. Loaded' = Loaded /\ stored' = stored /\ stored \in Nat
  BY <1>1, SameSum, LoadedIs DEF LoadInv
<1>3. /\ bytes \in Nat /\ stamped \in Nat /\ buffered \in Nat /\ TotalBytes \in Nat
      /\ reading \in EntryNumbers /\ actual[reading] \in Nat /\ actual[reading] <= MaxSize
      /\ MaxSize \in Nat
  BY ArchiveAssumption DEF LoadInv, ArchiveTypeOK, Sizes
<1>4. buffered' \in Sizes
  BY <1>1, <1>3 DEF Sizes
<1>5. ArchiveTypeOK'
  BY <1>1, <1>4 DEF LoadInv, ArchiveTypeOK
<1> HIDE DEF stored
<1>6. Charged'
  <2>1. sort = "zip" => stored + stamped <= bytes
    BY DEF LoadInv, Charged, stored
  <2>2. sort = "folder" => stored = bytes
    BY DEF LoadInv, Charged, stored
  <2>3. sort = "zip" => buffered + n <= stamped
    BY <1>3 DEF MoreThanStamped
  <2>4. sort = "folder" => bytes + (buffered + n) <= TotalBytes
    BY <1>3 DEF MoreThanRemains
  <2>5. QED
    BY <1>1, <1>2, <2>1, <2>2, <2>3, <2>4 DEF Charged, stored
<1>7. InOrder' /\ WholeSoFar'
  <2>1. SelectedIn' = SelectedIn
    BY <1>1 DEF SelectedIn
  <2>2. QED
    BY <1>1, <1>2, <2>1 DEF LoadInv, InOrder, WholeSoFar
<1>8. QED
  BY <1>5, <1>6, <1>7 DEF LoadInv

\* The entry is put in the result.
LEMMA PutInStep ==
  ASSUME LoadInv, verdict = "running", reading # NoEntry, PutIn,
         sort = "zip" => buffered = actual[reading] /\ bytes' = bytes,
         sort = "folder" => bytes' = bytes + buffered
  PROVE  LoadInv'
<1> DEFINE stored == SumFunctionOnSet(loaded, Loaded)
<1>1. /\ UNCHANGED <<sort, what, declared, actual, examined, verdict>>
      /\ reading' = 0 /\ stamped' = 0 /\ buffered' = 0
  BY DEF PutIn, sources, NoEntry
<1>2. stored \in Nat /\ stored' = buffered + stored
  BY LoadedIs, PutInIs DEF LoadInv
<1>3. /\ bytes \in Nat /\ stamped \in Nat /\ buffered \in Nat /\ TotalBytes \in Nat
      /\ MaxSize \in Nat /\ bytes <= TotalBytes /\ reading \in EntryNumbers /\ examined \in Nat
      /\ reading = examined
  BY ArchiveAssumption DEF LoadInv, ArchiveTypeOK, Sizes, InOrder
<1> HIDE DEF stored
<1>4. bytes' \in 0..TotalBytes /\ Charged'
  <2>1. ASSUME sort = "zip"
        PROVE  bytes' \in 0..TotalBytes /\ stored' + stamped' <= bytes' /\ buffered' <= stamped'
    <3>1. stored + stamped <= bytes /\ buffered <= stamped
      BY <2>1 DEF LoadInv, Charged, stored
    <3>2. QED
      BY <1>1, <1>2, <1>3, <2>1, <3>1
  <2>2. ASSUME sort = "folder"
        PROVE  bytes' \in 0..TotalBytes /\ stored' = bytes' /\ bytes' + buffered' <= TotalBytes
    <3>1. stored = bytes /\ bytes + buffered <= TotalBytes
      BY <2>2 DEF LoadInv, Charged, stored
    <3>2. QED
      BY <1>1, <1>2, <1>3, <2>2, <3>1
  <2>3. sort \in {"zip", "folder"}
    BY DEF LoadInv, ArchiveTypeOK
  <2>4. QED
    BY <1>1, <2>1, <2>2, <2>3 DEF Charged, stored
<1>5. ArchiveTypeOK'
  <2>1. loaded' \in [EntryNumbers -> Sizes \cup {Absent}]
    BY PutInIs
  <2>2. 0 \in Sizes
    BY <1>3 DEF Sizes
  <2>3. QED
    BY <1>1, <1>4, <2>1, <2>2 DEF LoadInv, ArchiveTypeOK, NoEntry
<1>6. InOrder'
  <2>1. \A m \in Loaded' : m <= examined /\ m # 0
    <3>1. SUFFICES ASSUME NEW m \in Loaded' PROVE m <= examined /\ m # 0
      OBVIOUS
    <3>2. m \in Loaded \/ m = reading
      BY PutInIs
    <3>3. m \in EntryNumbers /\ m <= examined
      BY <1>3, <3>2 DEF LoadInv, InOrder, Loaded
    <3>4. QED
      BY <3>3, ArchiveAssumption DEF EntryNumbers
  <2>2. QED
    BY <1>1, <1>3, <2>1 DEF LoadInv, InOrder, NoEntry
<1>7. WholeSoFar'
  <2>1. SelectedIn' = SelectedIn
    BY <1>1 DEF SelectedIn
  <2>2. ASSUME sort = "zip", NEW m \in SelectedIn, m <= examined PROVE loaded'[m] = actual[m]
    <3>1. CASE m = reading
      BY <2>2, <3>1, PutInIs
    <3>2. CASE m # reading
      <4>1. loaded[m] = actual[m]
        BY <2>2, <3>2 DEF LoadInv, WholeSoFar
      <4>2. loaded' = [loaded EXCEPT ![reading] = buffered]
        BY DEF PutIn
      <4>3. m \in EntryNumbers /\ loaded \in [EntryNumbers -> Sizes \cup {Absent}]
        BY DEF LoadInv, ArchiveTypeOK, SelectedIn
      <4>4. QED
        BY <3>2, <4>1, <4>2, <4>3
    <3>3. QED
      BY <3>1, <3>2
  <2>3. QED
    BY <1>1, <2>1, <2>2 DEF WholeSoFar
<1>8. QED
  BY <1>4, <1>5, <1>6, <1>7 DEF LoadInv

LEMMA LoadStep == LoadInv /\ [ArchiveNext]_archiveVars => LoadInv'
<1> SUFFICES ASSUME LoadInv, [ArchiveNext]_archiveVars PROVE LoadInv'
  OBVIOUS
<1>0. /\ buffered \in Nat /\ MaxSize \in Nat /\ ReadChunk \in Nat /\ TotalBytes \in Nat
      /\ bytes \in Nat /\ sort \in {"zip", "folder"}
      /\ \A m \in EntryNumbers : actual[m] \in Nat
      /\ reading # NoEntry => reading \in EntryNumbers
  BY ArchiveAssumption DEF LoadInv, ArchiveTypeOK, Sizes
<1>1. ASSUME NEW m \in EntryNumbers, Examine(m) PROVE LoadInv'
  BY <1>1, ExamineStep
<1>2. CASE Resize
  <2>1. PICK n \in Sizes : actual' = [actual EXCEPT ![reading] = n]
    BY <1>2 DEF Resize
  <2>2. /\ UNCHANGED <<sort, what, declared, examined, bytes, reading, stamped, buffered, loaded,
                       verdict>>
        /\ sort = "folder" /\ verdict = "running"
    BY <1>2 DEF Resize, sources, Importing
  <2>3. actual' \in [EntryNumbers -> Sizes]
    BY <2>1 DEF LoadInv, ArchiveTypeOK
  <2>4. ArchiveTypeOK' /\ WholeSoFar'
    BY <2>2, <2>3 DEF LoadInv, ArchiveTypeOK, WholeSoFar
  <2>5. Loaded' = Loaded
        /\ SumFunctionOnSet(loaded, Loaded)' = SumFunctionOnSet(loaded, Loaded)
    BY <2>2, SameSum
  <2>6. Charged' /\ InOrder'
    BY <2>2, <2>5 DEF LoadInv, Charged, InOrder
  <2>7. QED
    BY <2>4, <2>6 DEF LoadInv
<1>3. CASE ReadFolder
  <2>1. /\ verdict = "running" /\ sort = "folder" /\ reading # NoEntry
        /\ buffered < actual[reading]
    BY <1>3 DEF ReadFolder, Importing
  <2>2. PICK n \in 1..AtMost(actual[reading] - buffered,
                             AtMost(ReadChunk, TotalBytes + 1 - bytes - buffered)) :
          IF MoreThanRemains(n)
            THEN RefuseImport /\ UNCHANGED <<examined, bytes>>
            ELSE Buffer(n)
    BY <1>3 DEF ReadFolder
  <2>3. n \in Nat /\ n <= actual[reading] - buffered
    <3>1. actual[reading] \in Nat
      BY <1>0, <2>1
    <3>2. QED
      BY <1>0, <3>1 DEF AtMost
  <2>4. CASE MoreThanRemains(n)
    BY <2>2, <2>4, RefusedIs
  <2>5. CASE ~MoreThanRemains(n)
    BY <2>1, <2>2, <2>3, <2>5, BufferedIs
  <2>6. QED
    BY <2>4, <2>5
<1>4. CASE FolderFileEnds
  BY <1>4, PutInStep DEF FolderFileEnds, Importing
<1>5. CASE StreamData
  <2>1. /\ verdict = "running" /\ sort = "zip" /\ reading # NoEntry
        /\ buffered < actual[reading]
    BY <1>5 DEF StreamData, Importing
  <2>2. PICK n \in 1..AtMost(ReadChunk, actual[reading] - buffered) :
          IF MoreThanStamped(n)
            THEN RefuseImport /\ UNCHANGED <<examined, bytes>>
            ELSE Buffer(n)
    BY <1>5 DEF StreamData
  <2>3. n \in Nat /\ n <= actual[reading] - buffered
    <3>1. actual[reading] \in Nat
      BY <1>0, <2>1
    <3>2. QED
      BY <1>0, <3>1 DEF AtMost
  <2>4. CASE MoreThanStamped(n)
    BY <2>2, <2>4, RefusedIs
  <2>5. CASE ~MoreThanStamped(n)
    BY <2>1, <2>2, <2>3, <2>5, BufferedIs
  <2>6. QED
    BY <2>4, <2>5
<1>6. CASE StreamEnd
  BY <1>6, PutInStep DEF StreamEnd, Importing
<1>7. CASE ZipError
  BY <1>7, RefusedIs DEF ZipError
<1>8. CASE LoadEnds
  <2>1. /\ UNCHANGED <<sort, what, declared, actual, examined, bytes, reading, stamped, buffered,
                       loaded>>
        /\ verdict = "running" /\ verdict' = "resolved" /\ reading = NoEntry
        /\ DOMAIN what = 1..examined
    BY <1>8 DEF LoadEnds, sources, Importing
  <2>2. Loaded' = Loaded /\ SelectedIn' = SelectedIn
        /\ SumFunctionOnSet(loaded, Loaded)' = SumFunctionOnSet(loaded, Loaded)
    BY <2>1, SameSum DEF SelectedIn
  <2>3. ArchiveTypeOK' /\ Charged'
    BY <2>1, <2>2 DEF LoadInv, ArchiveTypeOK, Charged
  <2>4. InOrder' /\ WholeSoFar'
    BY <2>1, <2>2 DEF LoadInv, InOrder, WholeSoFar
  <2>5. QED
    BY <2>3, <2>4 DEF LoadInv
<1>9. CASE UNCHANGED archiveVars
  <2>1. /\ UNCHANGED <<sort, what, declared, actual, examined, bytes, reading, stamped, buffered,
                       loaded, verdict>>
    BY <1>9 DEF archiveVars
  <2>2. Loaded' = Loaded /\ SelectedIn' = SelectedIn
        /\ SumFunctionOnSet(loaded, Loaded)' = SumFunctionOnSet(loaded, Loaded)
    BY <2>1, SameSum DEF SelectedIn
  <2>3. QED
    BY <2>1, <2>2 DEF LoadInv, ArchiveTypeOK, Charged, InOrder, WholeSoFar
<1>10. QED
  BY <1>1, <1>2, <1>3, <1>4, <1>5, <1>6, <1>7, <1>8, <1>9 DEF ArchiveNext

LEMMA LoadInitInv == ArchiveInit => LoadInv
<1> SUFFICES ASSUME ArchiveInit PROVE LoadInv
  OBVIOUS
<1>1. PICK k \in 0..MaxEntries :
        /\ what \in [1..k -> IF sort = "zip" THEN Classes ELSE Classes \ {"bomb"}]
        /\ actual \in [EntryNumbers -> Sizes] /\ declared \in [EntryNumbers -> Sizes]
  BY DEF ArchiveInit
<1>2. /\ sort \in {"zip", "folder"} /\ examined = 0 /\ bytes = 0 /\ reading = 0 /\ stamped = 0
      /\ buffered = 0 /\ loaded = [m \in EntryNumbers |-> Absent] /\ verdict = "running"
  BY DEF ArchiveInit, NoEntry
<1>3. Loaded = {} /\ SumFunctionOnSet(loaded, Loaded) = 0
  <2>1. Loaded = {}
    BY <1>2 DEF Loaded
  <2>2. QED
    BY <2>1, SumOfNone
<1>4. MaxEntries \in Nat /\ TotalBytes \in Nat /\ MaxSize \in Nat
  BY ArchiveAssumption
<1>5. DOMAIN what = 1..k /\ 1..k \subseteq 1..MaxEntries /\ 0 <= k
  BY <1>1, <1>4
<1>6. \A m \in DOMAIN what : what[m] \in Classes
  BY <1>1
<1>7. ArchiveTypeOK
  BY <1>1, <1>2, <1>4, <1>5, <1>6 DEF ArchiveTypeOK, EntryNumbers, NoEntry, Sizes
<1>8. Charged
  BY <1>2, <1>3, <1>4 DEF Charged
<1>9. InOrder
  BY <1>2, <1>3, <1>5 DEF InOrder, NoEntry
<1>10. WholeSoFar
  <2>1. \A m \in SelectedIn : ~ (m <= examined)
    BY <1>2, <1>5 DEF SelectedIn
  <2>2. QED
    BY <1>2, <2>1 DEF WholeSoFar
<1>11. QED
  BY <1>7, <1>8, <1>9, <1>10 DEF LoadInv

\* Never more than the budget is kept in memory, whatever grows or lies, and an
\* import that is not refused has every selected entry of a zip in full.
THEOREM ImportFitsTheBudget == ArchiveSpec => []LoadIsBoundedAndWhole
<1>1. LoadInv => LoadIsBoundedAndWhole
  <2> SUFFICES ASSUME LoadInv PROVE LoadIsBoundedAndWhole
    OBVIOUS
  <2> DEFINE stored == SumFunctionOnSet(loaded, Loaded)
  <2>1. /\ stored \in Nat /\ bytes \in Nat /\ bytes <= TotalBytes /\ stamped \in Nat
        /\ buffered \in Nat /\ TotalBytes \in Nat /\ sort \in {"zip", "folder"}
    BY LoadedIs, ArchiveAssumption DEF LoadInv, ArchiveTypeOK, Sizes
  <2>2. sort = "zip" => stored + stamped <= bytes /\ buffered <= stamped
    BY DEF LoadInv, Charged
  <2>3. sort = "folder" => stored = bytes /\ bytes + buffered <= TotalBytes
    BY DEF LoadInv, Charged
  <2> HIDE DEF stored
  <2>4. buffered + stored <= TotalBytes
    BY <2>1, <2>2, <2>3
  <2>5. ASSUME verdict = "resolved", sort = "zip", NEW m \in SelectedIn
        PROVE  loaded[m] = actual[m]
    <3>1. m \in 1..examined /\ examined \in Nat /\ reading = NoEntry
      BY <2>5 DEF LoadInv, InOrder, WholeSoFar, SelectedIn
    <3>2. m <= examined /\ m # reading
      BY <3>1 DEF NoEntry
    <3>3. QED
      BY <2>5, <3>2 DEF LoadInv, WholeSoFar
  <2>6. QED
    BY <2>4, <2>5 DEF LoadIsBoundedAndWhole, stored
<1>2. QED
  BY <1>1, LoadInitInv, LoadStep, PTL DEF ArchiveSpec

-----------------------------------------------------------------------------
(* The parts together.                                                     *)
(*                                                                         *)
(* Each part has the inductive invariant proved above, or, for the HTTP    *)
(* sessions, its type, which is inductive by itself.                       *)

LEMMA HttpTypeInit == HttpInit => HttpTypeOK
<1> SUFFICES ASSUME HttpInit PROVE HttpTypeAlone(HttpSteps)
  BY HttpTypeIs
<1>1. OnceEach(sessions, issued)
  BY DEF HttpInit, OnceEach, IsInjective
<1>2. QED
  BY <1>1, SessionsAssumption DEF HttpInit, HttpTypeAlone, HttpSteps

HomeInv ==
  /\ part \in {"boundary", "launcher", "wiring", "http", "drain", "key", "archive"}
  /\ part = "boundary" => BoundaryInv
  /\ part = "launcher" => LauncherInv
  /\ part = "wiring" => WiringInv
  /\ part = "http" => HttpTypeOK
  /\ part = "drain" => DrainInv
  /\ part = "key" => KeyInv
  /\ part = "archive" => LoadInv

LEMMA HomeStep == HomeInv /\ [HomeNext]_homeVars => HomeInv'
<1> SUFFICES ASSUME HomeInv, [HomeNext]_homeVars PROVE HomeInv'
  OBVIOUS
<1>1. part' = part /\ part \in {"boundary", "launcher", "wiring", "http", "drain", "key", "archive"}
  BY DEF HomeInv, HomeNext, homeVars
<1>2. ASSUME part = "boundary" PROVE BoundaryInv'
  <2>1. [BoundaryNext]_boundaryVars /\ BoundaryInv
    BY <1>2 DEF HomeInv, HomeNext, homeVars
  <2>2. QED
    BY <2>1, BoundaryTypeStep, NumbersStep, PinStep, CallsStep DEF BoundaryInv
<1>3. ASSUME part = "launcher" PROVE LauncherInv'
  <2>1. [LauncherNext]_launcherVars /\ LauncherInv
    BY <1>3 DEF HomeInv, HomeNext, homeVars
  <2>2. QED
    BY <2>1, LauncherTypeStep, StandsStep, TempStep DEF LauncherInv
<1>4. ASSUME part = "wiring" PROVE WiringInv'
  <2>1. [WiringNext]_wiringVars /\ WiringInv
    BY <1>4 DEF HomeInv, HomeNext, homeVars
  <2>2. QED
    BY <2>1, WiringStep
<1>5. ASSUME part = "http" PROVE HttpTypeOK'
  <2>1. [HttpNext]_httpVars /\ HttpTypeOK
    BY <1>5 DEF HomeInv, HomeNext, homeVars
  <2>2. QED
    BY <2>1, HttpTypeStep
<1>6. ASSUME part = "drain" PROVE DrainInv'
  <2>1. [DrainNext]_drainVars /\ DrainInv
    BY <1>6 DEF HomeInv, HomeNext, homeVars
  <2>2. QED
    BY <2>1, DrainStep
<1>7. ASSUME part = "key" PROVE KeyInv'
  <2>1. [KeyNext]_keyVars /\ KeyInv
    BY <1>7 DEF HomeInv, HomeNext, homeVars
  <2>2. QED
    BY <2>1, KeyStep
<1>8. ASSUME part = "archive" PROVE LoadInv'
  <2>1. [ArchiveNext]_archiveVars /\ LoadInv
    BY <1>8 DEF HomeInv, HomeNext, homeVars
  <2>2. QED
    BY <2>1, LoadStep
<1>9. QED
  BY <1>1, <1>2, <1>3, <1>4, <1>5, <1>6, <1>7, <1>8 DEF HomeInv

\* Whichever part runs, its state keeps its type, and for the HTTP sessions
\* that means that the map never holds a session twice, or one never issued.
THEOREM HomeTypes == HomeSpec => []HomeTypeOK
<1>1. HomeInit => HomeInv
  BY BoundaryInitInv, LauncherStart, WiringInitInv, HttpTypeInit, DrainInitInv, KeyInitInv,
     LoadInitInv
  DEF HomeInit, HomeInv
<1>2. HomeInv => HomeTypeOK
  <2>1. /\ BoundaryInv => BoundaryTypeOK
        /\ LauncherInv => LauncherTypeOK
        /\ WiringInv => WiringTypeOK
        /\ DrainInv => DrainTypeOK
        /\ KeyInv => KeyTypeOK
        /\ LoadInv => ArchiveTypeOK
    BY WiringInvTypes DEF BoundaryInv, LauncherInv, DrainInv, KeyInv, LoadInv
  <2>2. QED
    BY <2>1 DEF HomeInv, HomeTypeOK
<1>3. QED
  BY <1>1, <1>2, HomeStep, PTL DEF HomeSpec
=============================================================================
