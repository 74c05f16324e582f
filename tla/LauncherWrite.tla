---------------------------- MODULE LauncherWrite ----------------------------
(***************************************************************************)
(* writeLauncher() (clients/launcher.ts): one run of `wire` or `init`      *)
(* publishes two executable launchers in <home>/bin while another program  *)
(* of the same owner may move the home or bin/ aside, put others in their  *)
(* place and replace the files in them, and while the run may die.         *)
(*                                                                         *)
(* Node has no *at system calls, so the run enters a directory (chdir),    *)
(* compares the identity of '.' with the one it read, and then uses single *)
(* names.  What a name leads to and what the run holds are therefore kept  *)
(* apart.  POSIX, as in HomeBoundary.                                      *)
(***************************************************************************)
EXTENDS FiniteSets, Naturals

CONSTANTS Homes,          \* directories that ever stand at the home's name
          Bins,           \* directories that ever stand at a bin/ name
          NoBin, LinkBin, \* bin/ is absent, or is a symbolic link
          NoHome,
          MaxMeddling     \* bound: steps of the other program

ASSUME LauncherAssumption ==
  {NoBin, LinkBin} \cap Bins = {} /\ NoHome \notin Homes /\ MaxMeddling \in Nat

Launchers == {"mcp", "cli"}
Names == Launchers \cup {"tmp"}

(* Files: an earlier run's launcher; the file of this run, whole, left     *)
(* short by the one write that was to fill it, or not written yet; one     *)
(* whose kind, owner, links or mode may not be replaced; another program's *)
(* ordinary file; such a file that was given the inode number of this      *)
(* run's deleted one.                                                      *)
OwnFiles == {"ours", "short", "torn"}
Entries == OwnFiles \cup {"none", "old", "hostile", "foreign", "recycled"}

VARIABLES
  homeNow,     \* the directory at the home's name
  binIn,       \* binIn[h]: what h/bin is
  files,       \* files[b][n]
  pass,        \* bind, preflight, then one pass per launcher
  step,
  established, \* the home establishTrustedDir() registered
  bound,       \* the home bindEstablishedHome() returned
  inHome,      \* the home entered
  seen,        \* the bin/ read inside it
  inBin,       \* the bin/ entered
  madeBin,     \* this pass's mkdir succeeded
  pinned,      \* the descriptor of the temporary file is open
  already,     \* launchers reported as written
  outcome,     \* running, written, refused, crashed
  meddled,
  changed,     \* directories this run changed something in (ghost)
  proved,      \* bin directories read as bin/ of the home entered (ghost)
  renamed,     \* launcher names this run renamed onto (ghost)
  certified    \* certified[n]: what the verification of n looked at (ghost)

worldVars == <<homeNow, binIn, files, meddled>>
ghostVars == <<changed, proved, renamed, certified>>
placeVars == <<established, bound, inHome, seen, inBin>>
launcherVars == <<worldVars, pass, step, placeVars, madeBin, pinned, already, outcome, ghostVars>>

LauncherTypeOK ==
  /\ homeNow \in Homes /\ binIn \in [Homes -> Bins \cup {NoBin, LinkBin}]
  /\ files \in [Bins -> [Names -> Entries]]
  /\ pass \in {"bind", "preflight"} \cup Launchers
  /\ step \in {"establish", "lstat", "again", "enter", "probe", "reread", "contain",
               "enterBin", "judge", "create", "write", "check", "rename", "verify",
               "cleanup", "unlink"}
  /\ {established, bound, inHome} \subseteq Homes \cup {NoHome}
  /\ {seen, inBin} \subseteq Bins \cup {NoBin, LinkBin}
  /\ madeBin \in BOOLEAN /\ pinned \in BOOLEAN
  /\ already \subseteq Launchers /\ outcome \in {"running", "written", "refused", "crashed"}
  /\ meddled \in 0..MaxMeddling
  /\ changed \subseteq Homes \cup Bins /\ proved \subseteq Bins /\ renamed \subseteq Launchers
  /\ certified \in [Launchers -> Entries]

Placed == {binIn[h] : h \in Homes} \cap Bins
EmptyBin == [n \in Names |-> "none"]

(* A fresh machine, or one an earlier run installed.                       *)
LauncherInit ==
  /\ homeNow \in Homes
  /\ \E b \in Bins :
       \/ binIn = [h \in Homes |-> NoBin] /\ files = [c \in Bins |-> EmptyBin]
       \/ /\ binIn = [h \in Homes |-> IF h = homeNow THEN b ELSE NoBin]
          /\ files = [c \in Bins |-> IF c = b THEN [n \in Names |->
                                       IF n = "tmp" THEN "none" ELSE "old"]
                                     ELSE EmptyBin]
  /\ pass = "bind" /\ step = "establish" /\ established = NoHome /\ bound = NoHome
  /\ inHome = NoHome /\ seen = NoBin /\ inBin = NoBin
  /\ madeBin = FALSE /\ pinned = FALSE /\ already = {} /\ outcome = "running"
  /\ meddled = 0 /\ changed = {} /\ proved = {} /\ renamed = {}
  /\ certified = [n \in Launchers |-> "none"]

-----------------------------------------------------------------------------
AtStep(s) == outcome = "running" /\ step = s

RefuseWrite ==
  /\ outcome' = "refused" /\ pinned' = FALSE
  /\ UNCHANGED <<pass, step, placeVars, madeBin, already>>

(* Nothing but the run's own control state.                                *)
NoEffect == UNCHANGED <<worldVars, ghostVars>>
Goto(s) == step' = s /\ UNCHANGED <<pass, placeVars, madeBin, pinned, already, outcome>>

(* bindEstablishedHome(): establish, read the identity, establish again.   *)
BindHome ==
  /\ NoEffect
  /\ \/ /\ AtStep("establish") /\ established' = homeNow /\ step' = "lstat"
        /\ UNCHANGED <<pass, bound, inHome, seen, inBin, madeBin, pinned, already, outcome>>
     \/ /\ AtStep("lstat") /\ bound' = homeNow /\ step' = "again"
        /\ UNCHANGED <<pass, established, inHome, seen, inBin, madeBin, pinned, already, outcome>>
     \/ /\ AtStep("again")
        /\ IF homeNow # established
             THEN RefuseWrite
             ELSE /\ pass' = "preflight" /\ step' = "enter"
                  /\ UNCHANGED <<placeVars, madeBin, pinned, already, outcome>>

(* The next pass starts from outside any directory.                        *)
NextPass(p) ==
  /\ pass' = p /\ step' = "enter" /\ inHome' = NoHome /\ inBin' = NoBin
  /\ seen' = NoBin /\ madeBin' = FALSE
  /\ UNCHANGED <<established, bound>>

(* actInsideProvedDir(home): chdir, then '.' must be the home bound.       *)
EnterHome ==
  /\ AtStep("enter") /\ NoEffect
  /\ IF homeNow # bound
       THEN RefuseWrite
       ELSE /\ inHome' = homeNow /\ step' = "probe"
            /\ UNCHANGED <<pass, established, bound, seen, inBin, madeBin, pinned, already,
                           outcome>>

ReadBin ==
  /\ seen' = binIn[inHome] /\ step' = "contain"
  /\ proved' = proved \cup ({binIn[inHome]} \cap Bins)
  /\ UNCHANGED <<worldVars, changed, renamed, certified, pass, established, bound, inHome, inBin,
                 madeBin, pinned, already, outcome>>

(* actInsideBinDir(): bin/ is looked for before it is made; preflight      *)
(* makes nothing.                                                          *)
ProbeBin ==
  /\ AtStep("probe")
  /\ \/ binIn[inHome] # NoBin /\ ReadBin
     \/ /\ binIn[inHome] = NoBin /\ pass = "preflight"
        /\ NextPass("mcp") /\ NoEffect /\ UNCHANGED <<pinned, already, outcome>>
     \/ /\ binIn[inHome] = NoBin /\ pass # "preflight"
        /\ \E b \in Bins \ Placed :
             /\ binIn' = [binIn EXCEPT ![inHome] = b]
             /\ files' = [files EXCEPT ![b] = EmptyBin]
        /\ madeBin' = TRUE /\ step' = "reread" /\ changed' = changed \cup {inHome}
        /\ UNCHANGED <<homeNow, meddled, proved, renamed, certified, pass, placeVars, pinned,
                       already, outcome>>

RereadBin ==
  /\ AtStep("reread")
  /\ IF binIn[inHome] = NoBin THEN RefuseWrite /\ NoEffect ELSE ReadBin

(* realpath() of the spelled-out path sees the shape of what stands there  *)
(* now; the entry read inside the home must itself be a directory.         *)
ContainBin ==
  /\ AtStep("contain") /\ NoEffect
  /\ IF binIn[homeNow] \notin Bins \/ seen \notin Bins THEN RefuseWrite ELSE Goto("enterBin")

(* chdir('bin') from the home held: '.' must be the directory read.        *)
EnterBin ==
  /\ AtStep("enterBin") /\ NoEffect
  /\ IF binIn[inHome] # seen
       THEN RefuseWrite
       ELSE /\ inBin' = binIn[inHome] /\ step' = "judge"
            /\ UNCHANGED <<pass, established, bound, inHome, seen, madeBin, pinned, already,
                           outcome>>

Judged == IF pass = "preflight" THEN Launchers ELSE {pass}

(* untrustedTargetReason(), for both names first and for each again.       *)
Judge ==
  /\ AtStep("judge") /\ NoEffect
  /\ IF \E n \in Judged : files[inBin][n] = "hostile"
       THEN RefuseWrite
       ELSE IF pass = "preflight"
              THEN NextPass("mcp") /\ UNCHANGED <<pinned, already, outcome>>
              ELSE Goto("create")

(* The directory a single name is resolved in: the one entered.            *)
(* Mutant: the pathname is resolved again at each step.                    *)
ActInPathname == IF binIn[homeNow] \in Bins THEN binIn[homeNow] ELSE inBin
ActIn == inBin

Put(n, e) ==
  /\ files' = [files EXCEPT ![ActIn][n] = e]
  /\ changed' = changed \cup {ActIn}
  /\ UNCHANGED <<homeNow, binIn, meddled, proved>>

(* The temporary name is random and created exclusively.                   *)
CreateTemp ==
  /\ AtStep("create")
  /\ Put("tmp", "torn") /\ pinned' = TRUE /\ step' = "write"
  /\ UNCHANGED <<renamed, certified, pass, placeVars, madeBin, already, outcome>>

(* Mutant: the descriptor is closed before the rename.                     *)
KeepOpenNot == FALSE
KeepOpen == TRUE

(* The bytes go to the descriptor, whatever the name denotes by now; the   *)
(* count writeSync() returns is not looked at, and a failed write or       *)
(* fchmod leaves the file torn.                                            *)
WriteTemp ==
  /\ AtStep("write")
  /\ \/ /\ \E filled \in {"ours", "short"} :
            files' = [b \in Bins |-> [n \in Names |->
                        IF files[b][n] = "torn" THEN filled ELSE files[b][n]]]
        /\ pinned' = KeepOpen /\ step' = "check"
        /\ UNCHANGED <<homeNow, binIn, meddled, ghostVars, pass, placeVars, madeBin, already,
                       outcome>>
     \/ Goto("cleanup") /\ NoEffect

(* stillOurs(): the name's identity against the one the descriptor gave.   *)
StillOurs(n) == files[ActIn][n] \in OwnFiles \cup {"recycled"}

CheckTemp ==
  /\ AtStep("check") /\ NoEffect
  /\ Goto(IF StillOurs("tmp") THEN "rename" ELSE "cleanup")

RenameTemp ==
  /\ AtStep("rename")
  /\ LET e == files[ActIn]["tmp"]
     IN  IF e = "none"
           THEN Goto("cleanup") /\ NoEffect
           ELSE /\ files' = [files EXCEPT ![ActIn]["tmp"] = "none", ![ActIn][pass] = e]
                /\ changed' = changed \cup {ActIn} /\ renamed' = renamed \cup {pass}
                /\ step' = "verify"
                /\ UNCHANGED <<homeNow, binIn, meddled, proved, certified, pass, placeVars, madeBin,
                               pinned, already, outcome>>

(* The name must now denote this run's file; what is there otherwise is    *)
(* left standing.                                                          *)
VerifyPublished ==
  /\ AtStep("verify")
  /\ UNCHANGED <<worldVars, changed, proved, renamed>>
  /\ IF ~StillOurs(pass)
       THEN RefuseWrite /\ UNCHANGED certified
       ELSE /\ certified' = [certified EXCEPT ![pass] = files[ActIn][pass]]
            /\ already' = already \cup {pass} /\ pinned' = FALSE
            /\ \/ pass = "mcp" /\ NextPass("cli") /\ UNCHANGED outcome
               \/ /\ pass = "cli" /\ outcome' = "written"
                  /\ UNCHANGED <<pass, step, placeVars, madeBin>>

Cleanup ==
  /\ AtStep("cleanup") /\ NoEffect
  /\ IF StillOurs("tmp") THEN Goto("unlink") ELSE RefuseWrite

UnlinkTemp ==
  /\ AtStep("unlink") /\ RefuseWrite
  /\ Put("tmp", "none") /\ UNCHANGED <<renamed, certified>>

Crash ==
  /\ outcome = "running"
  /\ outcome' = "crashed" /\ pinned' = FALSE
  /\ NoEffect /\ UNCHANGED <<pass, step, placeVars, madeBin, already>>

-----------------------------------------------------------------------------
(* The other program                                                       *)

Meddle ==
  /\ meddled < MaxMeddling /\ meddled' = meddled + 1
  /\ UNCHANGED <<pass, step, placeVars, madeBin, pinned, already, outcome, ghostVars>>

SwapHome ==
  /\ Meddle
  /\ homeNow' \in Homes \ {homeNow} /\ UNCHANGED <<binIn, files>>

SwapBin ==
  /\ Meddle
  /\ \E h \in Homes, b \in (Bins \ Placed) \cup {NoBin, LinkBin} :
       b # binIn[h] /\ binIn' = [binIn EXCEPT ![h] = b]
  /\ UNCHANGED <<homeNow, files>>

(* An inode number is handed out again only once no descriptor holds it.   *)
SwapFile ==
  /\ Meddle
  /\ \E b \in Bins, n \in Names,
        e \in {"none", "hostile", "foreign"} \cup (IF pinned THEN {} ELSE {"recycled"}) :
       /\ e = "recycled" => files[b][n] \in OwnFiles
       /\ n = "tmp" => files[b][n] # "none"
       /\ files[b][n] # e /\ files' = [files EXCEPT ![b][n] = e]
  /\ UNCHANGED <<homeNow, binIn>>

LauncherNext ==
  \/ BindHome \/ EnterHome \/ ProbeBin \/ RereadBin \/ ContainBin \/ EnterBin \/ Judge
  \/ CreateTemp \/ WriteTemp \/ CheckTemp \/ RenameTemp \/ VerifyPublished
  \/ Cleanup \/ UnlinkTemp \/ Crash
  \/ SwapHome \/ SwapBin \/ SwapFile

LauncherSpec == LauncherInit /\ [][LauncherNext]_launcherVars

-----------------------------------------------------------------------------
(* Whatever is moved, replaced or linked meanwhile, a run only makes,      *)
(* renames and removes entries in the one home it bound and in directories *)
(* it read as bin/ inside that home (launcher.ts, actInsideProvedDir).     *)
ActsInOneHome == changed \subseteq {bound} \cup proved

(* A launcher reported as written was, when the run looked at the name it  *)
(* had renamed onto, the file this run created and filled, not another     *)
(* program's, not even one that inherited its inode number; and no         *)
(* launcher name ever holds the file of a run that has not returned from   *)
(* writing it, whenever it dies (launcher.ts, writeLauncherFile).          *)
PublishedIsOurs ==
  /\ \A n \in already : certified[n] \in {"ours", "short"}
  /\ \A b \in Bins, n \in Launchers : files[b][n] # "torn"

(* A launcher reported as written is whole.  The code does not promise it: *)
(* one write fills the file and its count is not looked at.                *)
PublishedIsWhole == \A n \in already : certified[n] = "ours"

(* "a run that has written one launcher may never claim it wrote nothing"  *)
(* (launcher.ts, persistLauncher): a refusal that says "nothing was        *)
(* modified" follows no rename onto a launcher name.                       *)
SaysNothingWasModified == outcome = "refused" /\ ~madeBin /\ already = {}
RefusalTellsTheTruth == SaysNothingWasModified => renamed = {}

(* "the stat taken between the two calls therefore describes that same     *)
(* inode" (launcher.ts, bindEstablishedHome).                              *)
BoundIsEstablished == pass # "bind" => bound = established
=============================================================================
