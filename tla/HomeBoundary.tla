---------------------------- MODULE HomeBoundary ----------------------------
(***************************************************************************)
(* One command and the directory it calls its home (fs-safe.ts, paths.ts). *)
(* A command establishes or observes the home many times and reads and     *)
(* writes through it; each time it must be the directory validated first,  *)
(* although the directory may meanwhile be moved aside, deleted, recreated *)
(* or put back under the same name by another program of its owner.        *)
(*                                                                         *)
(* A directory is an element of Dirs.  What the code compares is its inode *)
(* number, which the filesystem hands out again once a directory is        *)
(* deleted and no descriptor is open on it.  POSIX only: on Windows the    *)
(* code compares no identity.                                              *)
(***************************************************************************)
EXTENDS FiniteSets

CONSTANTS Dirs,      \* every directory that ever stands at the home's name
          Inodes,    \* inode numbers the filesystem hands out
          NoDir, NoInode

ASSUME BoundaryAssumption == NoDir \notin Dirs /\ NoInode \notin Inodes

VARIABLES
  home,        \* the directory the name leads to, or NoDir
  aside,       \* directories moved elsewhere
  inode,       \* inode[d], of the directories created so far
  locked,      \* directories whose mode denies their owner to open them
  unsafe,      \* directories of another owner, or writable by others
  pin,         \* the directory the registered boundary holds open, or NoDir
  poisoned,    \* the name is in unpinnedBoundaries
  doing,       \* the step of the command's current call
  gate,        \* the inode number read by the validating lstat
  held,        \* the directory the call has opened, or NoDir
  accepted,    \* the directory the last call went on with, or NoDir
  shown,       \* it, if that call returned it to be shown and pinned nothing (ghost)
  first        \* the directory this command validated first (ghost)

dirVars == <<home, aside, inode, locked, unsafe>>
boundaryVars == <<dirVars, pin, poisoned, doing, gate, held, accepted, shown, first>>

Calls == {"establish", "observe"}
Idle == <<"none", "idle">>
BoundaryTypeOK ==
  /\ {home, pin, held, accepted, shown, first} \subseteq Dirs \cup {NoDir}
  /\ aside \subseteq Dirs /\ locked \subseteq Dirs /\ unsafe \subseteq Dirs
  /\ inode \in [Dirs -> Inodes \cup {NoInode}] /\ gate \in Inodes \cup {NoInode}
  /\ poisoned \in BOOLEAN
  /\ doing \in {Idle} \cup (Calls \X {"stat", "hold", "tighten", "again", "register"})

Created == {d \in Dirs : inode[d] # NoInode}
Alive(d) == d \in {home, pin, held} \cup aside
FreeInodes == Inodes \ {inode[d] : d \in {c \in Created : Alive(c)}}

BoundaryInit ==
  /\ home \in {NoDir} \cup Dirs
  /\ inode \in {f \in [Dirs -> Inodes \cup {NoInode}] :
                  \A d \in Dirs : f[d] # NoInode <=> d = home}
  /\ aside = {} /\ locked \in {{}, {home} \ {NoDir}} /\ unsafe = {}
  /\ pin = NoDir /\ poisoned = FALSE /\ doing = Idle /\ gate = NoInode
  /\ held = NoDir /\ accepted = NoDir /\ shown = NoDir /\ first = NoDir

-----------------------------------------------------------------------------
(* The command's calls                                                     *)

Refuse ==
  /\ doing' = Idle /\ held' = NoDir /\ accepted' = NoDir /\ shown' = NoDir
  /\ UNCHANGED <<dirVars, pin, poisoned, gate, first>>

AcceptWith(d) ==
  /\ accepted' = d /\ shown' = NoDir
  /\ first' = IF first = NoDir THEN d ELSE first

(* pinnedBoundaryStat() against the lstat of the name: the pinned          *)
(* directory is alive, so its number is nobody else's.                     *)
SameAsPinned == home # NoDir /\ inode[home] = inode[pin]

(* assertEstablishedBoundaryIdentity(), the first thing either call does.  *)
BeginCall(call) ==
  /\ doing = Idle
  /\ IF poisoned \/ (pin # NoDir /\ ~SameAsPinned)
       THEN Refuse
       ELSE /\ doing' = <<call, "stat">> /\ accepted' = NoDir /\ shown' = NoDir
            /\ UNCHANGED <<dirVars, pin, poisoned, gate, held, first>>

(* The lstat that decides the directory is to be trusted.                  *)
StatHome ==
  /\ doing \in Calls \X {"stat"}
  /\ home # NoDir
  /\ IF home \in unsafe
       THEN Refuse
       ELSE /\ doing' = <<doing[1], "hold">> /\ gate' = inode[home]
            /\ UNCHANGED <<dirVars, pin, poisoned, held, accepted, shown, first>>

(* The name is free: observing reports that there is none, establishing    *)
(* creates the directory or fails to.  mkdir hands back no descriptor, so  *)
(* what the name leads to next is what is validated.                       *)
CreateHome ==
  /\ doing \in Calls \X {"stat"}
  /\ home = NoDir
  /\ \/ Refuse
     \/ /\ doing[1] = "establish"
        /\ \E d \in Dirs \ Created, i \in FreeInodes :
             home' = d /\ inode' = [inode EXCEPT ![d] = i]
        /\ UNCHANGED <<aside, locked, unsafe, pin, poisoned, doing, gate, held,
                       accepted, shown, first>>

(* holdValidatedDir(): open, fstat, and compare with the validating lstat. *)
(* What cannot be opened keeps the identity of the lstat alone: observing  *)
(* returns its name for diagnosis, registers nothing and remembers that it *)
(* could not be pinned; establishing tightens the mode and tries once more.*)
HoldHome ==
  /\ doing \in Calls \X {"hold", "again"}
  /\ IF home = NoDir \/ home \in unsafe \/ inode[home] # gate
       THEN Refuse
       ELSE \/ /\ home \notin locked
               /\ held' = home /\ doing' = <<doing[1], "register">>
               /\ UNCHANGED <<dirVars, pin, poisoned, gate, accepted, shown, first>>
            \/ /\ home \in locked /\ doing = <<"establish", "again">>
               /\ Refuse
            \/ /\ home \in locked /\ doing = <<"establish", "hold">>
               /\ doing' = <<"establish", "tighten">>
               /\ UNCHANGED <<dirVars, pin, poisoned, gate, held, accepted, shown, first>>
            \/ /\ home \in locked /\ doing[1] = "observe"
               /\ poisoned' = TRUE
               /\ first' = IF first = NoDir THEN home ELSE first
               /\ doing' = Idle /\ accepted' = home /\ shown' = home
               /\ UNCHANGED <<dirVars, pin, gate, held>>

(* tightenHeldDir() without a descriptor: chmod of whatever the name leads *)
(* to.                                                                     *)
TightenHome ==
  /\ doing = <<"establish", "tighten">>
  /\ IF home = NoDir
       THEN Refuse
       ELSE /\ locked' = locked \ {home} /\ doing' = <<"establish", "again">>
            /\ UNCHANGED <<home, aside, inode, unsafe, pin, poisoned, gate, held, accepted,
                           shown, first>>

(* Mutant: the boundary is validated and not remembered.                   *)
KeepNothing(d) == pin
KeepPin(d) == IF pin = NoDir THEN d ELSE pin

(* registerTrustedBoundary(): the first descriptor stays open for the life *)
(* of the process, later ones are compared with it and closed.             *)
Register ==
  /\ doing \in Calls \X {"register"}
  /\ IF pin # NoDir /\ inode[held] # inode[pin]
       THEN Refuse
       ELSE /\ pin' = KeepPin(held)
            /\ AcceptWith(held)
            /\ doing' = Idle /\ held' = NoDir
            /\ UNCHANGED <<dirVars, poisoned, gate>>

(* trustedBoundaryFor(), asked before every read and write in the home.    *)
UseHome ==
  /\ doing = Idle /\ (pin # NoDir \/ poisoned)
  /\ IF poisoned \/ ~SameAsPinned
       THEN Refuse
       ELSE /\ AcceptWith(home)
            /\ UNCHANGED <<dirVars, pin, poisoned, doing, gate, held>>

-----------------------------------------------------------------------------
(* What else happens to the directory                                      *)

Elsewhere == UNCHANGED <<pin, poisoned, doing, gate, held, accepted, shown, first>>

MoveAside ==
  /\ home # NoDir
  /\ aside' = aside \cup {home} /\ home' = NoDir
  /\ UNCHANGED <<inode, locked, unsafe>> /\ Elsewhere

DeleteHome ==
  /\ home # NoDir
  /\ home' = NoDir
  /\ UNCHANGED <<aside, inode, locked, unsafe>> /\ Elsewhere

PutBack(d) ==
  /\ home = NoDir /\ d \in aside
  /\ home' = d /\ aside' = aside \ {d}
  /\ UNCHANGED <<inode, locked, unsafe>> /\ Elsewhere

Recreate(d, i, u) ==
  /\ home = NoDir /\ d \notin Created /\ i \in FreeInodes
  /\ home' = d /\ inode' = [inode EXCEPT ![d] = i]
  /\ unsafe' = IF u THEN unsafe \cup {d} ELSE unsafe
  /\ UNCHANGED <<aside, locked>> /\ Elsewhere

BoundaryNext ==
  \/ \E call \in Calls : BeginCall(call)
  \/ StatHome \/ CreateHome \/ HoldHome \/ TightenHome \/ Register \/ UseHome
  \/ MoveAside \/ DeleteHome
  \/ \E d \in Dirs : PutBack(d) \/ \E i \in Inodes, u \in BOOLEAN : Recreate(d, i, u)

BoundarySpec == BoundaryInit /\ [][BoundaryNext]_boundaryVars

-----------------------------------------------------------------------------
(* Every call of one command that is not refused goes on with the          *)
(* directory the command validated first: a directory recreated under the  *)
(* same name is never taken for it, even where the filesystem gives it the *)
(* number of the deleted one.  The one other directory a call may return   *)
(* is one it could look at and not open, to be shown, and no later call    *)
(* goes on with that (fs-safe.ts, TrustedBoundary, unpinnedBoundaries).    *)
OneHome == accepted # NoDir => accepted \in {first, shown}
=============================================================================
