------------------------------- MODULE KeyFile -------------------------------
(***************************************************************************)
(* The vault key file, opened by several processes at once                 *)
(* (src/packages/cli/src/drivers/crypto.ts).                               *)
(*                                                                         *)
(* Absence, and nothing else, leads to minting.  A key is published by a   *)
(* hard link of a complete temporary file; where links are refused, by an  *)
(* exclusive create that is visible before its bytes are.  Whoever loses   *)
(* adopts what was published, waiting a bounded time for its bytes.        *)
(*                                                                         *)
(* Path and descriptor checks are the outcome `threw` of any read.         *)
(***************************************************************************)
CONSTANTS
  Minters,    \* processes; each names the key it would mint
  NoKey       \* no key

ASSUME KeyAssumption == NoKey \notin Minters

\* The path: nothing, or the inode some process created, with its bytes or
\* not yet.
NoKeyFile  == [by |-> NoKey, full |-> FALSE]
KeyPath == {NoKeyFile} \cup [by : Minters, full : BOOLEAN]

VARIABLES
  keyFile,   \* what the key path holds
  opening,   \* where each process is inside open()
  heldKey       \* the key a process works with

keyVars == <<keyFile, opening, heldKey>>

Openings == {"none", "reading", "linking", "creating", "filling", "adopting",
             "threw", "malformed", "open"}

KeyTypeOK ==
  /\ keyFile \in KeyPath
  /\ opening \in [Minters -> Openings]
  /\ heldKey \in [Minters -> Minters \cup {NoKey}]

KeyInit ==
  /\ keyFile = NoKeyFile
  /\ opening = [p \in Minters |-> "none"]
  /\ heldKey = [p \in Minters |-> NoKey]

Reach(p, place) == opening' = [opening EXCEPT ![p] = place]
Have(p, key)    == heldKey' = [heldKey EXCEPT ![p] = key]

OpenKey(p) ==
  /\ opening[p] = "none"
  /\ Reach(p, "reading")
  /\ UNCHANGED <<keyFile, heldKey>>

\* readKeyOnce(): nothing there, so a key is minted, in a temporary file.
ReadAbsent(p) ==
  /\ opening[p] = "reading" /\ keyFile = NoKeyFile
  /\ Reach(p, "linking")
  /\ UNCHANGED <<keyFile, heldKey>>

\* The whole key, found or adopted.
ReadWhole(p) ==
  /\ opening[p] \in {"reading", "adopting"} /\ keyFile.full
  /\ Have(p, keyFile.by)
  /\ Reach(p, "open")
  /\ UNCHANGED keyFile

\* readKeyRetrying() finds it short every time, assertKeyLength() throws.
ReadExhausted(p) ==
  /\ opening[p] \in {"reading", "adopting"}
  /\ keyFile # NoKeyFile /\ ~keyFile.full
  /\ Reach(p, "malformed")
  /\ UNCHANGED <<keyFile, heldKey>>

\* adoptPublishedKey(): published and gone again; no second key is minted.
Vanished(p) ==
  /\ opening[p] = "adopting" /\ keyFile = NoKeyFile
  /\ Reach(p, "threw")
  /\ UNCHANGED <<keyFile, heldKey>>

\* An untrusted path or descriptor, or any other error of a call.
OpenThrows(p) ==
  /\ opening[p] \in {"reading", "linking", "creating", "adopting"}
  /\ Reach(p, "threw")
  /\ UNCHANGED <<keyFile, heldKey>>

\* linkSync() of the complete temporary file.
Link(p) ==
  /\ opening[p] = "linking" /\ keyFile = NoKeyFile
  /\ keyFile' = [by |-> p, full |-> TRUE]
  /\ Have(p, p)
  /\ Reach(p, "open")

\* EEXIST, from the link or from the exclusive create.
Exists(p) ==
  /\ opening[p] \in {"linking", "creating"} /\ keyFile # NoKeyFile
  /\ Reach(p, "adopting")
  /\ UNCHANGED <<keyFile, heldKey>>

\* EPERM, EACCES, ENOSYS, EOPNOTSUPP: no hard links here.
NoLinks(p) ==
  /\ opening[p] = "linking"
  /\ Reach(p, "creating")
  /\ UNCHANGED <<keyFile, heldKey>>

\* Mutant: the fallback create is not exclusive.
CreateOver(p) ==
  /\ opening[p] = "creating"
  /\ keyFile' = [by |-> p, full |-> FALSE]
  /\ Reach(p, "filling")
  /\ UNCHANGED heldKey

\* writeFileSync('wx'): the name first ...
Create(p) ==
  /\ opening[p] = "creating" /\ keyFile = NoKeyFile
  /\ keyFile' = [by |-> p, full |-> FALSE]
  /\ Reach(p, "filling")
  /\ UNCHANGED heldKey

\* ... then the bytes,
Fill(p) ==
  /\ opening[p] = "filling"
  /\ keyFile' = IF keyFile.by = p THEN [keyFile EXCEPT !.full = TRUE] ELSE keyFile
  /\ Have(p, p)
  /\ Reach(p, "open")

\* ... unless the disk is full: the short file stays.
FillFails(p) ==
  /\ opening[p] = "filling"
  /\ Reach(p, "threw")
  /\ UNCHANGED <<keyFile, heldKey>>

\* loadExisting(): one read that never mints; absent or short, it throws.
LoadExisting(p) ==
  /\ opening[p] = "none" /\ keyFile.full
  /\ Have(p, keyFile.by)
  /\ Reach(p, "open")
  /\ UNCHANGED keyFile

\* The process ends, anywhere.
KeyProcessEnds(p) ==
  /\ opening[p] # "none"
  /\ Reach(p, "none")
  /\ Have(p, NoKey)
  /\ UNCHANGED keyFile

\* "Remove it to regenerate": the operator, told of a malformed key that no
\* process is still writing.
RemoveMalformed ==
  /\ \E p \in Minters : opening[p] = "malformed"
  /\ keyFile # NoKeyFile /\ ~keyFile.full
  /\ \A p \in Minters : opening[p] # "filling"
  /\ keyFile' = NoKeyFile
  /\ UNCHANGED <<opening, heldKey>>

KeyNext ==
  \/ \E p \in Minters :
       \/ OpenKey(p) \/ ReadAbsent(p) \/ ReadWhole(p) \/ ReadExhausted(p)
       \/ Vanished(p) \/ OpenThrows(p) \/ Link(p) \/ Exists(p) \/ NoLinks(p)
       \/ Create(p) \/ Fill(p) \/ FillFails(p) \/ LoadExisting(p) \/ KeyProcessEnds(p)
  \/ RemoveMalformed

KeySpec == KeyInit /\ [][KeyNext]_keyVars

-----------------------------------------------------------------------------
(* Properties.                                                             *)

\* However many processes race on a new home, with links or without, and
\* whichever of them die: one key is chosen, nobody ever works with another,
\* and it is never replaced.
Choice == INSTANCE KeyChoice WITH
            chosen  <- IF keyFile.full THEN keyFile.by ELSE NoKey,
            learned <- heldKey
ChosenOnce == Choice!ChoiceSpec

=============================================================================
