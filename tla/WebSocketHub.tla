---------------------------- MODULE WebSocketHub ----------------------------
(***************************************************************************)
(* The websocket clients of the API server: the map clients, the handler   *)
(* of every connection, the goroutine that reads from it, and broadcastToWS, *)
(* which the listener of the chain's events calls.                         *)
(*                                                                         *)
(* Insertions and the reader's removal hold mutex; the handler's look-up   *)
(* and the broadcast's iteration and removal do not.  An access to the map *)
(* has a beginning and an end; when a write overlaps another access, the   *)
(* runtime may notice and stop the process, or not.                        *)
(***************************************************************************)
EXTENDS Naturals, FiniteSets

CONSTANTS
  Conn,          \* websocket connections
  MaxBroadcasts, \* bound on broadcasts
  Nobody

VARIABLES
  connected,     \* connections that the client has not closed
  open,          \* connections that the server has not closed
  clients,       \* the map
  mutex,         \* goroutine that holds the mutex, or Nobody
  handler,       \* connection -> place of its handler
  reader,        \* connection -> place of its reading goroutine
  caster,        \* place of broadcastToWS, its message, what is left, whom it serves
  access,        \* goroutine -> its access to the map: an update holds the mutex
  fatal,         \* the process was stopped
  due,           \* history: clients that must get the present message
  got            \* history: clients that have got the present message

vars == <<connected, open, clients, mutex, handler, reader, caster, access, fatal, due, got>>

Handler(c) == <<"handler", c>>
Reader(c) == <<"reader", c>>
Caster == <<"caster", Nobody>>
Goroutine == {Handler(c) : c \in Conn} \cup {Reader(c) : c \in Conn} \cup {Caster}

ASSUME NobodyAssumption == Nobody \notin Conn \cup Goroutine

ASSUME MaxBroadcastsAssumption == MaxBroadcasts \in Nat

Init ==
  /\ connected = {} /\ open = {} /\ clients = {} /\ mutex = Nobody
  /\ handler = [c \in Conn |-> "none"]
  /\ reader = [c \in Conn |-> "none"]
  /\ caster = [at |-> "idle", msg |-> 0, left |-> {}, to |-> Nobody]
  /\ access = [g \in Goroutine |-> "none"]
  /\ fatal = FALSE /\ due = {} /\ got = {}

----------------------------------------------------------------------------
(* Accesses to the map *)

Conflicts(g, kind) ==
  {h \in Goroutine \ {g} : access[h] # "none" /\ {kind, access[h]} # {"read"}}

\* Go's map: an access that conflicts may be noticed.
Begin(g, kind) ==
  /\ ~ fatal
  /\ access' = [access EXCEPT ![g] = kind]
  /\ fatal' \in (IF Conflicts(g, kind) = {} THEN {FALSE} ELSE BOOLEAN)

End(g) ==
  /\ ~ fatal
  /\ access' = [access EXCEPT ![g] = "none"]
  /\ UNCHANGED fatal

NoAccess == ~ fatal /\ UNCHANGED <<access, fatal>>

----------------------------------------------------------------------------
(* handleWsConnections *)

\* The client connects, the connection is upgraded.
Upgrade(c) ==
  /\ handler[c] = "none"
  /\ connected' = connected \cup {c} /\ open' = open \cup {c}
  /\ handler' = [handler EXCEPT ![c] = "lock"]
  /\ NoAccess
  /\ UNCHANGED <<clients, mutex, reader, caster, due, got>>

\* Mutant of LockInsert: the client is entered without the mutex.
LockInsertFree(c) ==
  /\ handler[c] = "lock"
  /\ UNCHANGED mutex
  /\ handler' = [handler EXCEPT ![c] = "insert"]
  /\ Begin(Handler(c), "update")
  /\ UNCHANGED <<connected, open, clients, reader, caster, due, got>>

LockInsert(c) ==
  /\ handler[c] = "lock" /\ mutex = Nobody
  /\ mutex' = Handler(c)
  /\ handler' = [handler EXCEPT ![c] = "insert"]
  /\ Begin(Handler(c), "update")
  /\ UNCHANGED <<connected, open, clients, reader, caster, due, got>>

\* The client is entered, the mutex released and the reader started.
Insert(c) ==
  /\ handler[c] = "insert"
  /\ clients' = clients \cup {c}
  /\ mutex' = Nobody
  /\ handler' = [handler EXCEPT ![c] = "poll"]
  /\ reader' = [reader EXCEPT ![c] = "read"]
  /\ End(Handler(c))
  /\ UNCHANGED <<connected, open, caster, due, got>>

\* The handler looks its connection up every second, without the mutex.
Poll(c) ==
  /\ handler[c] = "poll"
  /\ handler' = [handler EXCEPT ![c] = "look"]
  /\ Begin(Handler(c), "read")
  /\ UNCHANGED <<connected, open, clients, mutex, reader, caster, due, got>>

Look(c) ==
  /\ handler[c] = "look"
  /\ handler' = [handler EXCEPT ![c] = IF c \in clients THEN "poll" ELSE "return"]
  /\ End(Handler(c))
  /\ UNCHANGED <<connected, open, clients, mutex, reader, caster, due, got>>

\* The deferred Close.
Return(c) ==
  /\ handler[c] = "return"
  /\ open' = open \ {c}
  /\ handler' = [handler EXCEPT ![c] = "ended"]
  /\ NoAccess
  /\ UNCHANGED <<connected, clients, mutex, reader, caster, due, got>>

\* ReadJSON fails: the connection is closed on one side, or the client has sent
\* something other than a string.
ReadFails(c) ==
  /\ reader[c] = "read"
  /\ reader' = [reader EXCEPT ![c] = "lock"]
  /\ NoAccess
  /\ UNCHANGED <<connected, open, clients, mutex, handler, caster, due, got>>

Closed(c) == c \notin connected \cap open

\* Mutant of LockDelete: the reader ends without removing the client.
LockDeleteNever(c) ==
  /\ reader[c] = "lock"
  /\ reader' = [reader EXCEPT ![c] = "ended"]
  /\ NoAccess
  /\ UNCHANGED <<connected, open, clients, mutex, handler, caster, due, got>>

LockDelete(c) ==
  /\ reader[c] = "lock" /\ mutex = Nobody
  /\ mutex' = Reader(c)
  /\ reader' = [reader EXCEPT ![c] = "delete"]
  /\ Begin(Reader(c), "update")
  /\ UNCHANGED <<connected, open, clients, handler, caster, due, got>>

Delete(c) ==
  /\ reader[c] = "delete"
  /\ clients' = clients \ {c}
  /\ mutex' = Nobody
  /\ reader' = [reader EXCEPT ![c] = "ended"]
  /\ End(Reader(c))
  /\ UNCHANGED <<connected, open, handler, caster, due, got>>

----------------------------------------------------------------------------
(* broadcastToWS *)

\* The iteration begins; clients that are entered during it may be left out.
Broadcast ==
  /\ caster.at = "idle" /\ caster.msg < MaxBroadcasts
  /\ caster' = [at |-> "next", msg |-> caster.msg + 1, left |-> clients, to |-> Nobody]
  /\ due' = clients \cap connected \cap open /\ got' = {}
  /\ Begin(Caster, "read")
  /\ UNCHANGED <<connected, open, clients, mutex, handler, reader>>

\* range takes the next client that is still in the map, or ends.
NextClient ==
  /\ caster.at = "next"
  /\ LET left == caster.left \cap clients IN
     IF left = {} THEN caster' = [caster EXCEPT !.at = "idle", !.left = {}]
     ELSE \E c \in left : caster' = [caster EXCEPT !.at = "write", !.to = c, !.left = left \ {c}]
  /\ IF caster'.at = "idle" THEN End(Caster) ELSE NoAccess
  /\ UNCHANGED <<connected, open, clients, mutex, handler, reader, due, got>>

\* WriteMessage: it fails on a connection that the server has closed, and may
\* fail on one that the client has.
WriteMessage ==
  LET c == caster.to IN
  /\ caster.at = "write"
  /\ \/ /\ c \in open
        /\ got' = got \cup ({c} \cap connected)
        /\ caster' = [caster EXCEPT !.at = "next"]
     \/ /\ Closed(c)
        /\ caster' = [caster EXCEPT !.at = "failed"]
        /\ UNCHANGED got
  /\ NoAccess
  /\ UNCHANGED <<connected, open, clients, mutex, handler, reader, due>>

\* The error path: Close, and a removal without the mutex.
CloseClient ==
  /\ caster.at = "failed"
  /\ open' = open \ {caster.to}
  /\ caster' = [caster EXCEPT !.at = "delete"]
  /\ Begin(Caster, "write")
  /\ UNCHANGED <<connected, clients, mutex, handler, reader, due, got>>

\* Mutant of DeleteClient: the first error ends the broadcast.
DeleteClientAndStop ==
  /\ caster.at = "delete"
  /\ clients' = clients \ {caster.to}
  /\ caster' = [caster EXCEPT !.at = "next", !.left = {}]
  /\ access' = [access EXCEPT ![Caster] = "read"]
  /\ ~ fatal /\ UNCHANGED fatal
  /\ UNCHANGED <<connected, open, mutex, handler, reader, due, got>>

DeleteClient ==
  /\ caster.at = "delete"
  /\ clients' = clients \ {caster.to}
  /\ caster' = [caster EXCEPT !.at = "next"]
  /\ access' = [access EXCEPT ![Caster] = "read"]
  /\ ~ fatal /\ UNCHANGED fatal
  /\ UNCHANGED <<connected, open, mutex, handler, reader, due, got>>

----------------------------------------------------------------------------

\* The client closes its connection.
Disconnect(c) ==
  /\ c \in connected
  /\ connected' = connected \ {c}
  /\ NoAccess
  /\ UNCHANGED <<open, clients, mutex, handler, reader, caster, due, got>>

HandlerStep(c) == LockInsert(c) \/ Insert(c) \/ Poll(c) \/ Look(c) \/ Return(c)

ReaderStep(c) == LockDelete(c) \/ Delete(c)

BroadcastStep == NextClient \/ WriteMessage \/ CloseClient \/ DeleteClient

Next ==
  \/ \E c \in Conn : Upgrade(c) \/ HandlerStep(c) \/ ReadFails(c) \/ ReaderStep(c) \/ Disconnect(c)
  \/ Broadcast
  \/ BroadcastStep

Spec == Init /\ [][Next]_vars

\* Goroutines that can run do; a read from a closed connection fails.  The mutex
\* is starvation-free, the connections are finitely many.
Fairness ==
  /\ \A c \in Conn : /\ WF_vars(HandlerStep(c))
                     /\ WF_vars(Closed(c) /\ ReadFails(c))
                     /\ WF_vars(ReaderStep(c))
  /\ WF_vars(BroadcastStep)

FairSpec == Spec /\ Fairness

----------------------------------------------------------------------------
(* Properties *)

\* A handler ends once its client is gone, whoever notices first, the reader or
\* a broadcast, and leaves neither an open connection nor an entry in clients.
HandlerEnds ==
  \A c \in Conn :
    handler[c] # "none" /\ c \notin connected
      ~> fatal \/ (handler[c] = "ended" /\ c \notin clients /\ c \notin open)

\* When a broadcast is over, it has reached every client that was there at its
\* beginning and is still being served: those who leave during it, and those
\* whose connections fail, take nothing away from the others.
BroadcastReachesAll ==
  caster.at = "idle" /\ caster.msg > 0 =>
    due \cap connected \cap open \cap clients \subseteq got

\* The mutex keeps the insertions of handlers and the removals of readers apart,
\* so that without a broadcast or a look-up the map is safe.
UpdatesExclude ==
  \A g, h \in Goroutine : access[g] = "update" /\ access[h] = "update" => g = h

----------------------------------------------------------------------------
(* What the documents say and the code does not do: TLC refutes these. *)

\* A handler keeps its connection until one side has closed it: a comment of
\* handleWsConnections says "Wait for the connection to close."
HandlerWaitsForClose ==
  \A c \in Conn : handler[c] \in {"return", "ended"} => c \notin connected
=============================================================================
