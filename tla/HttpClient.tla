------------------------------ MODULE HttpClient ------------------------------
(***************************************************************************)
(* The HTTP client transport plugin: one session per address of a peer.    *)
(* The peer's messages come as responses to a GET request that is sent     *)
(* again after each response; every message to the peer is a PUT request   *)
(* of its own.  Handlers run to their end one after another: those of the  *)
(* transport service, of the scheduler and of the XMLHttpRequests.         *)
(*                                                                         *)
(* Outside this plugin, and assumed: the transport service passes only     *)
(* sessions that have not ended, and does not end a session from within    *)
(* receive; addresses that http_common_socket_from_address accepts can be  *)
(* printed.  No XMLHttpRequest has a timeout set, so ontimeout is never    *)
(* called.                                                                 *)
(***************************************************************************)
EXTENDS Integers, FiniteSets

CONSTANTS
  Address,         \* addresses of peers
  Peer,            \* the set of addresses of each peer
  Session,         \* bound: sessions that are ever allocated
  Message,         \* bound: messages that are ever sent
  MaxConnections,  \* MAX_CONNECTIONS
  Timeout,         \* HTTP_CLIENT_SESSION_TIMEOUT, in ticks
  MaxDelay,        \* bound: throttling, in ticks
  None             \* NULL

ASSUME NoneAssumption == None \notin Address \cup Session \cup (0 .. Timeout)
ASSUME SessionAssumption == IsFiniteSet(Session)
ASSUME PeerAssumption == Peer \subseteq SUBSET Address
ASSUME BoundAssumption ==
  MaxConnections \in Nat /\ Timeout \in Nat \ {0} /\ MaxDelay \in Nat

VARIABLES
  status,       \* of each session: new, open (in the map sessions) or ended (freed)
  address,
  get,          \* the session's GET request is outstanding
  timeout,      \* ticks until s->timeout
  task,         \* ticks until the timeout task is due, or None
  delay,        \* ticks until s->next_receive
  connections,  \* cur_connections
  monitor,      \* sic is set
  seen,         \* the sessions it was told are up
  via,          \* the session a message was sent with, or None
  cont,         \* its continuation: none, pending, or called
  stopped,      \* the plugin was unloaded
  silent        \* history: ticks since the session was opened or last active

sessionVars == <<status, address, get, timeout, task, delay, silent>>
sendVars == <<via, cont>>
pluginVars == <<connections, monitor, seen, stopped>>
vars == <<sessionVars, sendVars, pluginVars>>

Init ==
  /\ status = [s \in Session |-> "new"]
  /\ address = [s \in Session |-> None]
  /\ get = [s \in Session |-> FALSE]
  /\ timeout = [s \in Session |-> 0]
  /\ task = [s \in Session |-> None]
  /\ delay = [s \in Session |-> 0]
  /\ silent = [s \in Session |-> 0]
  /\ connections = 0
  /\ monitor = FALSE
  /\ seen = {}
  /\ via = [m \in Message |-> None]
  /\ cont = [m \in Message |-> "none"]
  /\ stopped = FALSE

-----------------------------------------------------------------------------

Open == {s \in Session : status[s] = "open"}

\* The transport service holds the session.
Usable(s) == ~stopped /\ s \in Open

LookupNothing(a) == {}

\* client_lookup_session: the sessions of the address.
Lookup(a) == {s \in Open : address[s] = a}

HasRoom == connections < MaxConnections

\* notify_session_monitor: INIT and UP, or DONE.
NotifyUp(s) == seen' = IF monitor THEN seen \cup {s} ELSE seen
NotifyNoneDone(S) == seen' = seen
NotifyDone(S) == seen' = seen \ S

\* A new session is made for an address that has none; otherwise get_session
\* returns the one there is, or NULL when there are too many connections.
GetSession(a, s) ==
  /\ ~stopped /\ status[s] = "new"
  /\ Lookup(a) = {}
  /\ HasRoom
  /\ status' = [status EXCEPT ![s] = "open"]
  /\ address' = [address EXCEPT ![s] = a]
  /\ timeout' = [timeout EXCEPT ![s] = Timeout]
  /\ task' = [task EXCEPT ![s] = Timeout]
  /\ get' = [get EXCEPT ![s] = TRUE]
  /\ connections' = connections + 1
  /\ NotifyUp(s)
  /\ UNCHANGED <<delay, silent, sendVars, monitor, stopped>>

\* session_end and client_delete_session for each of S: the timeout task is
\* cancelled, the GET aborted and the monitor told.  PUT requests go on.
Disconnect(S) ==
  /\ status' = [s \in Session |-> IF s \in S THEN "ended" ELSE status[s]]
  /\ get' = [s \in Session |-> s \notin S /\ get[s]]
  /\ timeout' = [s \in Session |-> IF s \in S THEN 0 ELSE timeout[s]]
  /\ task' = [s \in Session |-> IF s \in S THEN None ELSE task[s]]
  /\ delay' = [s \in Session |-> IF s \in S THEN 0 ELSE delay[s]]
  /\ silent' = [s \in Session |-> IF s \in S THEN 0 ELSE silent[s]]
  /\ connections' = connections - Cardinality({s \in S : get[s]})
  /\ NotifyDone(S)
  /\ UNCHANGED <<address, sendVars, monitor>>

DisconnectSession(s) ==
  /\ Usable(s)
  /\ Disconnect({s})
  /\ UNCHANGED stopped

\* All sessions of a peer.
DisconnectPeer(P) ==
  /\ ~stopped
  /\ \E s \in Open : address[s] \in P
  /\ Disconnect({s \in Open : address[s] \in P})
  /\ UNCHANGED stopped

\* The plugin is unloaded.
Done ==
  /\ ~stopped
  /\ Disconnect(Open)
  /\ stopped' = TRUE

-----------------------------------------------------------------------------

\* client_reschedule_session_timeout; the task stays as it is.
Reschedule(s) ==
  /\ timeout' = [timeout EXCEPT ![s] = Timeout]
  /\ silent' = [silent EXCEPT ![s] = 0]

UpdateSessionTimeout(s) ==
  /\ Usable(s)
  /\ Reschedule(s)
  /\ UNCHANGED <<status, address, get, task, delay, sendVars, pluginVars>>

UpdateInboundDelay(s, d) ==
  /\ Usable(s)
  /\ delay' = [delay EXCEPT ![s] = d]
  /\ UNCHANGED <<status, address, get, timeout, task, silent, sendVars, pluginVars>>

\* client_session_timeout, when there is time left.
NotAddedAgain(s) == task' = [task EXCEPT ![s] = None]
AddedAgain(s) == task' = [task EXCEPT ![s] = timeout[s]]

NeverLeft(s) == 0

\* GNUNET_TIME_absolute_get_remaining
Remaining(s) == timeout[s]

SessionTimeout(s) ==
  /\ task[s] = 0
  /\ IF Remaining(s) # 0
     THEN /\ AddedAgain(s)
          /\ UNCHANGED <<status, address, get, timeout, delay, silent, sendVars, pluginVars>>
     ELSE Disconnect({s}) /\ UNCHANGED stopped

\* setup_monitor: a new monitor is told of every session, NULL ends it.
SetupMonitor ==
  /\ ~stopped
  /\ monitor' = TRUE
  /\ seen' = Open
  /\ UNCHANGED <<sessionVars, sendVars, connections, stopped>>

EndMonitor ==
  /\ ~stopped /\ monitor
  /\ monitor' = FALSE
  /\ seen' = {}
  /\ UNCHANGED <<sessionVars, sendVars, connections, stopped>>

-----------------------------------------------------------------------------
(* XMLHttpRequests.                                                        *)

\* The request is placed anew.
NotResent(s) == get' = [get EXCEPT ![s] = FALSE]
Resend(s) == get' = [get EXCEPT ![s] = TRUE]

\* The GET was answered, in a time when nothing may be received or with no
\* whole message: the response is dropped, or kept in the tokenizer.
GetLoadsNothing(s) ==
  /\ get[s]
  /\ Resend(s)
  /\ UNCHANGED <<status, address, timeout, task, delay, silent, sendVars, pluginVars>>

\* The response has messages; receive tells how long to wait for more.
GetLoads(s, d) ==
  /\ get[s]
  /\ delay[s] = 0
  /\ delay' = [delay EXCEPT ![s] = d]
  /\ Reschedule(s)
  /\ Resend(s)
  /\ UNCHANGED <<status, address, task, sendVars, pluginVars>>

GetFails(s) ==
  /\ get[s]
  /\ Disconnect({s})
  /\ UNCHANGED stopped

\* A PUT request is sent.
Send(s, m) ==
  /\ Usable(s)
  /\ via[m] = None
  /\ via' = [via EXCEPT ![m] = s]
  /\ cont' = [cont EXCEPT ![m] = "pending"]
  /\ UNCHANGED <<sessionVars, pluginVars>>

\* The PUT request loads or fails: the continuation is called.
PutEnds(m) ==
  /\ cont[m] = "pending"
  /\ cont' = [cont EXCEPT ![m] = "called"]
  /\ UNCHANGED <<via, sessionVars, pluginVars>>

\* Time passes; the scheduler may be late with a task that is due.
Less(n) == IF n > 0 THEN n - 1 ELSE 0

Tick ==
  /\ timeout' = [s \in Session |-> Less(timeout[s])]
  /\ task' = [s \in Session |-> IF task[s] = None THEN None ELSE Less(task[s])]
  /\ delay' = [s \in Session |-> Less(delay[s])]
  /\ silent' = [s \in Session |->
                  IF s \in Open /\ silent[s] < Timeout THEN silent[s] + 1 ELSE silent[s]]
  /\ UNCHANGED <<status, address, get, sendVars, pluginVars>>

-----------------------------------------------------------------------------

Next ==
  \/ \E s \in Session :
       \/ \E a \in Address : GetSession(a, s)
       \/ DisconnectSession(s)
       \/ UpdateSessionTimeout(s)
       \/ \E d \in 0 .. MaxDelay : UpdateInboundDelay(s, d) \/ GetLoads(s, d)
       \/ SessionTimeout(s)
       \/ GetLoadsNothing(s)
       \/ GetFails(s)
       \/ \E m \in Message : Send(s, m)
  \/ \E P \in Peer : DisconnectPeer(P)
  \/ Done
  \/ SetupMonitor
  \/ EndMonitor
  \/ \E m \in Message : PutEnds(m)
  \/ Tick

\* Time goes on and the scheduler runs the tasks that are due.
Fairness == WF_vars(Tick) /\ \A s \in Session : WF_vars(SessionTimeout(s))

Spec == Init /\ [][Next]_vars
FairSpec == Spec /\ Fairness

-----------------------------------------------------------------------------
(* Properties.                                                             *)

TypeOK ==
  /\ status \in [Session -> {"new", "open", "ended"}]
  /\ address \in [Session -> Address \cup {None}]
  /\ get \in [Session -> BOOLEAN]
  /\ timeout \in [Session -> 0 .. Timeout]
  /\ task \in [Session -> (0 .. Timeout) \cup {None}]
  /\ delay \in [Session -> 0 .. MaxDelay]
  /\ silent \in [Session -> 0 .. Timeout]
  /\ connections \in 0 .. MaxConnections
  /\ monitor \in BOOLEAN /\ seen \subseteq Session
  /\ via \in [Message -> Session \cup {None}]
  /\ cont \in [Message -> {"none", "pending", "called"}]
  /\ stopped \in BOOLEAN

\* An address has one session at most, and every session is one of the
\* connections that are counted (client_lookup_session, cur_connections).
SessionsCounted ==
  /\ \A s, t \in Open : address[s] = address[t] => s = t
  /\ connections = Cardinality(Open)

\* A session is open if and only if it listens and will time out: no GET of a
\* freed session comes back to client_receive, and reschedule finds its task.
OpenAlive ==
  \A s \in Session : /\ s \in Open <=> get[s]
                     /\ s \in Open <=> task[s] # None

\* What the monitor was told is what there is: whoever attaches late knows of
\* the sessions opened before, and nobody of those that have ended.
MonitorAgrees == seen = IF monitor THEN Open ELSE {}

\* The timeout task ends only sessions that were idle for the whole time.
EndsOnlyIdle ==
  [][\A s \in Session : SessionTimeout(s) /\ status'[s] = "ended" =>
       silent[s] = Timeout]_vars

\* A session that stays idle ends: no silence lasts for ever.
IdleEnds ==
  \A s \in Session :
    (s \in Open /\ silent[s] > 0) ~> (status[s] = "ended" \/ silent[s] = 0)

\* "In the case of a peer disconnecting, the continuation MUST be called prior
\* to the disconnect notification itself."
ContinuedBeforeEnd ==
  \A m \in Message : via[m] # None /\ status[via[m]] = "ended" => cont[m] = "called"
=============================================================================
