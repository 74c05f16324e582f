-------------------------------- MODULE MCHome --------------------------------
(***************************************************************************)
(* The parts of the program around the store that share no state in the    *)
(* models: the home and what is published in it, the clients' configs, the *)
(* HTTP sessions, a review drain, the key file and the loading of an       *)
(* archive.  TLC explores each by itself; `part` says which one, and the   *)
(* others rest in one initial state.                                       *)
(***************************************************************************)
EXTENDS HomeBoundary, LauncherWrite, ClientWiring, HttpSessions, ReviewDrain, KeyFile,
        ArchiveLoad

VARIABLE part
homeVars == <<part, boundaryVars, launcherVars, wiringVars, httpVars, drainVars, keyVars,
              archiveVars>>

HomeInit ==
  /\ part \in {"boundary", "launcher", "wiring", "http", "drain", "key", "archive"}
  /\ BoundaryInit
  /\ part # "boundary" => home = NoDir
  /\ LauncherInit
  /\ part # "launcher" => homeNow = CHOOSE h \in Homes : TRUE
  /\ part # "launcher" => \A h \in Homes : binIn[h] = NoBin
  /\ WiringInit
  /\ part # "wiring" => \A c \in Clients : config[c] = NoFile
  /\ HttpInit
  /\ DrainInit
  /\ part # "drain" => ~blocked /\ \A r \in Rows : status[r] = "absent"
  /\ KeyInit
  /\ \/ part = "archive"
     \/ part # "archive" /\ sort = "zip" /\ what = <<>>
  /\ ArchiveInit

HomeNext ==
  /\ UNCHANGED part
  /\ \/ /\ part = "boundary" /\ BoundaryNext
        /\ UNCHANGED <<launcherVars, wiringVars, httpVars, drainVars,
                       keyVars, archiveVars>>
     \/ /\ part = "launcher" /\ LauncherNext
        /\ UNCHANGED <<boundaryVars, wiringVars, httpVars, drainVars,
                       keyVars, archiveVars>>
     \/ /\ part = "wiring" /\ WiringNext
        /\ UNCHANGED <<boundaryVars, launcherVars, httpVars, drainVars,
                       keyVars, archiveVars>>
     \/ /\ part = "http" /\ HttpNext
        /\ UNCHANGED <<boundaryVars, launcherVars, wiringVars, drainVars,
                       keyVars, archiveVars>>
     \/ /\ part = "drain" /\ DrainNext
        /\ UNCHANGED <<boundaryVars, launcherVars, wiringVars, httpVars,
                       keyVars, archiveVars>>
     \/ /\ part = "key" /\ KeyNext
        /\ UNCHANGED <<boundaryVars, launcherVars, wiringVars, httpVars,
                       drainVars, archiveVars>>
     \/ /\ part = "archive" /\ ArchiveNext
        /\ UNCHANGED <<boundaryVars, launcherVars, wiringVars, httpVars,
                       drainVars, keyVars>>

HomeSpec == HomeInit /\ [][HomeNext]_homeVars

\* What rests is as it was in the initial state.
HomeTypeOK ==
  CASE part = "boundary" -> BoundaryTypeOK
    [] part = "launcher" -> LauncherTypeOK
    [] part = "wiring"   -> WiringTypeOK
    [] part = "http"     -> HttpTypeOK
    [] part = "drain"    -> DrainTypeOK
    [] part = "key"      -> KeyTypeOK
    [] part = "archive"  -> ArchiveTypeOK

=============================================================================
