----------------------------- MODULE HttpSessions -----------------------------
(***************************************************************************)
(* The session map of `serve --http` (mcp/serve-http.ts).  Every request   *)
(* is a handler that yields while its body arrives, while a new server     *)
(* connects to its transport and while the transport handles the request;  *)
(* other handlers, and close(), run in between.  A connection may have     *)
(* several requests in flight (Node dispatches pipelined ones as they      *)
(* come), so nothing but their number bounds the handlers.                 *)
(*                                                                         *)
(* The map is kept as the sequence of its sessions, idlest first: the code *)
(* compares lastSeen only to find the idlest and to drop those idle for    *)
(* longer than idleMs, which time makes any number of the idlest.          *)
(***************************************************************************)
EXTENDS Naturals, SequencesExt

CONSTANTS Handlers,    \* requests in flight at a time, over any connections
          MaxIds,      \* bound: sessions ever created, numbered in turn
          MaxSessions

ASSUME SessionsAssumption ==
  MaxSessions \in Nat \ {0} /\ IsFiniteSet(Handlers) /\ MaxIds \in Nat

VARIABLES
  sessions,   \* the map's sessions, idlest first
  issued,     \* how many sessions were created
  request,    \* request[c]: the step of the handler
  target,     \* target[c]: the session it names, or 0
  serving,    \* close() has not run: yes, closing, closed
  crowd       \* handlers on their way to a new session when one of them last
              \* made room, itself included (ghost)

httpVars == <<sessions, issued, request, target, serving, crowd>>

HttpTypeOK ==
  /\ issued \in 0..MaxIds /\ sessions \in Seq(1..issued) /\ IsInjective(sessions)
  /\ request \in [Handlers -> {"none", "useBody", "initBody", "use", "delete", "connect",
                            "initialize"}]
  /\ target \in [Handlers -> 0..issued]
  /\ serving \in {"yes", "closing", "closed"} /\ crowd \in Nat

HttpInit ==
  /\ sessions = <<>> /\ issued = 0
  /\ request = [c \in Handlers |-> "none"] /\ target = [c \in Handlers |-> 0]
  /\ serving = "yes" /\ crowd = 0

-----------------------------------------------------------------------------
\* Handlers that made room and have not added their session yet.
MakingRoom == {c \in Handlers : request[c] \in {"connect", "initialize"}}

InMap(s) == s \in ToSet(sessions)
MovesTo(c, step) == request' = [request EXCEPT ![c] = step]
Answered(c) == MovesTo(c, "none") /\ target' = [target EXCEPT ![c] = 0]

(* dropSession() for each of the n idlest.                                 *)
DropIdlest(n) == sessions' = SubSeq(sessions, n + 1, Len(sessions))

(* A request past the host, token and path checks sweeps what is idle.     *)
(* Requests come in while close() awaits the sessions' transports, and on  *)
(* a connection with a request in flight even after it.                    *)
Arrive(c, kind, s) ==
  /\ request[c] = "none"
  /\ serving = "closed" => \E other \in Handlers : request[other] # "none"
  /\ IF kind = "initBody" THEN s = 0 ELSE s \in 1..issued
  /\ \E n \in 0..Len(sessions) : DropIdlest(n)
  /\ MovesTo(c, kind) /\ target' = [target EXCEPT ![c] = s]
  /\ UNCHANGED <<issued, serving, crowd>>

(* The body is over the cap, unparsable or no initialize, or its           *)
(* connection died.                                                        *)
RefuseBody(c) ==
  /\ request[c] \in {"useBody", "initBody"}
  /\ Answered(c) /\ UNCHANGED <<sessions, issued, serving, crowd>>

(* A session that is gone is 404; otherwise it has just been seen.         *)
UseSession(c) ==
  /\ request[c] = "useBody"
  /\ IF ~InMap(target[c])
       THEN Answered(c) /\ UNCHANGED sessions
       ELSE /\ sessions' = Append(RemoveFirst(sessions, target[c]), target[c])
            /\ \E step \in {"use", "delete"} : MovesTo(c, step)
            /\ UNCHANGED target
  /\ UNCHANGED <<issued, serving, crowd>>

(* transport.handleRequest() of an existing session; a DELETE closes it.   *)
Handled(c) ==
  /\ request[c] \in {"use", "delete"}
  /\ sessions' = IF request[c] = "delete" THEN RemoveFirst(sessions, target[c]) ELSE sessions
  /\ Answered(c) /\ UNCHANGED <<issued, serving, crowd>>

(* Mutant: evicts down to the cap, and leaves no room for the new session. *)
EvictAbove == IF Len(sessions) > MaxSessions THEN Len(sessions) - MaxSessions ELSE 0
EvictTo == IF Len(sessions) >= MaxSessions THEN Len(sessions) - MaxSessions + 1 ELSE 0

(* The idlest make room for the session to be, which is added two awaits   *)
(* later.                                                                  *)
MakeRoom(c) ==
  /\ request[c] = "initBody"
  /\ DropIdlest(EvictTo)
  /\ MovesTo(c, "connect") /\ crowd' = Cardinality(MakingRoom')
  /\ UNCHANGED <<target, issued, serving>>

Connect(c) ==
  /\ request[c] = "connect"
  /\ \/ MovesTo(c, "initialize") /\ UNCHANGED target
     \/ Answered(c)
  /\ UNCHANGED <<sessions, issued, serving, crowd>>

(* onsessioninitialized() during handleRequest(), or a refused initialize. *)
Initialize(c) ==
  /\ request[c] = "initialize" /\ UNCHANGED <<serving, crowd>>
  /\ \/ /\ issued < MaxIds
        /\ issued' = issued + 1 /\ sessions' = Append(sessions, issued + 1)
     \/ UNCHANGED <<sessions, issued>>
  /\ Answered(c)

(* close() closes the sessions one await at a time, in the order they were *)
(* created and those added meanwhile too, then clears the map and stops    *)
(* listening.                                                              *)
StartClose ==
  /\ serving = "yes" /\ serving' = "closing"
  /\ UNCHANGED <<sessions, issued, request, target, crowd>>

CloseSession ==
  /\ serving = "closing"
  /\ \E first \in ToSet(sessions) :
       /\ \A s \in ToSet(sessions) : first <= s
       /\ sessions' = RemoveFirst(sessions, first)
  /\ UNCHANGED <<issued, request, target, serving, crowd>>

StopListening ==
  /\ serving = "closing" /\ sessions = <<>>
  /\ serving' = "closed" /\ UNCHANGED <<sessions, issued, request, target, crowd>>

HttpNext ==
  \/ \E c \in Handlers :
       \/ \E kind \in {"useBody", "initBody"}, s \in 0..issued : Arrive(c, kind, s)
       \/ RefuseBody(c) \/ UseSession(c) \/ Handled(c)
       \/ MakeRoom(c) \/ Connect(c) \/ Initialize(c)
  \/ StartClose \/ CloseSession \/ StopListening

HttpSpec == HttpInit /\ [][HttpNext]_httpVars

-----------------------------------------------------------------------------
(* However initializes interleave at their awaits, and whether or not the  *)
(* server is closing, the map outgrows the cap only by requests that       *)
(* overlapped: since a request last evicted down to its own place, at most *)
(* the sessions of the others then on their way were added on top          *)
(* (serve-http.ts, session cap).                                           *)
SessionsAreBounded == Len(sessions) + Cardinality(MakingRoom) <= MaxSessions - 1 + crowd

(* "hard cap", "session map bounded by `maxSessions`"                      *)
(* (serve-http.ts:32, :182).                                               *)
SessionsAreCapped == Len(sessions) <= MaxSessions
=============================================================================
