------------------------------ MODULE HttpProofs ------------------------------
(***************************************************************************)
(* Theorems about HttpClient, for any sets of addresses, sessions and      *)
(* messages and any limits.                                                *)
(***************************************************************************)
EXTENDS HttpClient, FiniteSetTheorems, TLAPS

\* s->timeout and the history of the session tell the same time.
ClocksAgree ==
  \A s \in Session : IF s \in Open THEN timeout[s] = Timeout - silent[s] ELSE silent[s] = 0

\* The inductive invariant.
IInv == TypeOK /\ SessionsCounted /\ OpenAlive /\ MonitorAgrees /\ ClocksAgree

-----------------------------------------------------------------------------

LEMMA InitIInv == Init => IInv
<1> SUFFICES ASSUME Init PROVE IInv
  OBVIOUS
<1>1. Open = {}
  BY DEF Init, Open
<1>2. Cardinality(Open) = 0
  BY <1>1, FS_EmptySet
<1>3. TypeOK
  <2>1. 0 \in 0 .. Timeout /\ 0 \in 0 .. MaxDelay /\ 0 \in 0 .. MaxConnections
    BY BoundAssumption
  <2> QED
    BY <2>1 DEF Init, TypeOK
<1> QED
  BY <1>1, <1>2, <1>3 DEF Init, IInv, SessionsCounted, OpenAlive, MonitorAgrees, ClocksAgree

LEMMA OpenFinite == IsFiniteSet(Open) /\ Cardinality(Open) \in Nat
<1>1. IsFiniteSet(Open)
  BY SessionAssumption, FS_Subset DEF Open
<1> QED
  BY <1>1, FS_CardinalityType

\* A step that leaves status alone leaves the set of open sessions alone.
LEMMA SameOpen == UNCHANGED status => Open' = Open
BY DEF Open

-----------------------------------------------------------------------------
(* Ends of sessions.                                                       *)

\* Whatever ends open sessions keeps the counter, the requests, the tasks and
\* the monitor in step.
LEMMA DisconnectIInv ==
  ASSUME IInv, NEW S \in SUBSET Open, Disconnect(S), stopped' \in BOOLEAN
  PROVE  IInv'
<1> USE DEF IInv
<1>1. S \subseteq Session /\ status \in [Session -> {"new", "open", "ended"}]
  BY DEF Open, TypeOK
<1>2. Open' = Open \ S
  BY <1>1 DEF Disconnect, Open
<1>3. {s \in S : get[s]} = S
  BY <1>1 DEF OpenAlive
<1>4. Cardinality(Open \ S) = Cardinality(Open) - Cardinality(S)
  <2>1. Open \cap S = S
    OBVIOUS
  <2>2. Cardinality(Open \ S) = Cardinality(Open) - Cardinality(Open \cap S)
    BY OpenFinite, FS_Difference
  <2> QED
    BY <2>1, <2>2
<1>5. Cardinality(S) \in Nat /\ Cardinality(Open \ S) \in Nat
  <2>1. IsFiniteSet(S) /\ IsFiniteSet(Open \ S)
    BY OpenFinite, FS_Subset
  <2> QED
    BY <2>1, FS_CardinalityType
<1>6. connections' = Cardinality(Open')
  BY <1>2, <1>3, <1>4, <1>5, OpenFinite DEF Disconnect, SessionsCounted
<1>7. TypeOK'
  <2>1. connections' \in 0 .. MaxConnections
    BY <1>2, <1>4, <1>5, <1>6, OpenFinite, BoundAssumption DEF TypeOK, SessionsCounted
  <2>2. /\ status' \in [Session -> {"new", "open", "ended"}]
        /\ get' \in [Session -> BOOLEAN]
    BY DEF TypeOK, Disconnect
  <2>3. /\ timeout' \in [Session -> 0 .. Timeout]
        /\ task' \in [Session -> (0 .. Timeout) \cup {None}]
        /\ delay' \in [Session -> 0 .. MaxDelay]
        /\ silent' \in [Session -> 0 .. Timeout]
    BY BoundAssumption DEF TypeOK, Disconnect
  <2>4. seen' \subseteq Session
    BY DEF TypeOK, Disconnect, NotifyDone
  <2> QED
    BY <2>1, <2>2, <2>3, <2>4 DEF TypeOK, Disconnect, sendVars
<1>8. SessionsCounted'
  BY <1>2, <1>6 DEF SessionsCounted, Disconnect
<1>9. OpenAlive'
  BY <1>1, <1>2 DEF OpenAlive, Disconnect
<1>10. MonitorAgrees'
  BY <1>2 DEF MonitorAgrees, Disconnect, NotifyDone
<1>11. ClocksAgree'
  BY <1>2 DEF Disconnect, ClocksAgree
<1> QED
  BY <1>7, <1>8, <1>9, <1>10, <1>11

-----------------------------------------------------------------------------

LEMMA GetSessionIInv ==
  ASSUME IInv, NEW a \in Address, NEW s \in Session, GetSession(a, s)
  PROVE  IInv'
<1> USE DEF IInv
<1>1. Open' = Open \cup {s} /\ s \notin Open
  BY DEF GetSession, Open, TypeOK
<1>2. Cardinality(Open') = Cardinality(Open) + 1
  BY <1>1, OpenFinite, FS_AddElement
<1>3. TypeOK'
  <2>1. connections' \in 0 .. MaxConnections
    BY BoundAssumption DEF TypeOK, GetSession, HasRoom
  <2>2. seen' \subseteq Session
    BY DEF TypeOK, GetSession, NotifyUp
  <2> QED
    BY <2>1, <2>2, BoundAssumption DEF TypeOK, GetSession, sendVars
<1>4. SessionsCounted'
  <2>1. connections' = Cardinality(Open')
    BY <1>2 DEF SessionsCounted, GetSession
  <2>2. \A t \in Open : address[t] # a
    BY DEF GetSession, Lookup
  <2>3. \A t \in Open : address'[t] = address[t] /\ address'[s] = a
    BY <1>1 DEF GetSession, TypeOK, Open
  <2> QED
    BY <1>1, <2>1, <2>2, <2>3 DEF SessionsCounted
<1>5. OpenAlive'
  BY <1>1, NoneAssumption, BoundAssumption DEF OpenAlive, GetSession, TypeOK
<1>6. MonitorAgrees'
  BY <1>1 DEF MonitorAgrees, GetSession, NotifyUp
<1>7. ClocksAgree'
  <2>1. silent[s] = 0 /\ silent' = silent /\ timeout'[s] = Timeout /\ Timeout = Timeout - 0
    BY <1>1, BoundAssumption DEF ClocksAgree, GetSession, TypeOK
  <2>2. \A t \in Session : t # s => timeout'[t] = timeout[t] /\ (t \in Open' <=> t \in Open)
    BY <1>1 DEF GetSession, TypeOK
  <2> SUFFICES ASSUME NEW t \in Session
               PROVE  IF t \in Open' THEN timeout'[t] = Timeout - silent'[t] ELSE silent'[t] = 0
    BY DEF ClocksAgree
  <2>3. CASE t = s
    BY <1>1, <2>1, <2>3
  <2>4. CASE t # s
    BY <2>1, <2>2, <2>4 DEF ClocksAgree
  <2> QED
    BY <2>3, <2>4
<1> QED
  BY <1>3, <1>4, <1>5, <1>6, <1>7
-----------------------------------------------------------------------------
(* The other steps leave the open sessions and the counter alone.          *)

LEMMA QuietIInv ==
  ASSUME IInv, TypeOK', ClocksAgree',
         UNCHANGED <<status, address, connections, stopped>>,
         get' = get \/ \E s \in Open : get' = [get EXCEPT ![s] = TRUE],
         \A s \in Session : task'[s] = None <=> task[s] = None,
         MonitorAgrees'
  PROVE  IInv'
<1>1. Open' = Open
  BY SameOpen
<1>2. SessionsCounted'
  BY <1>1 DEF SessionsCounted, IInv
<1>3. get' = get
  <2> SUFFICES ASSUME NEW s \in Open, get' = [get EXCEPT ![s] = TRUE] PROVE get' = get
    OBVIOUS
  <2>1. get \in [Session -> BOOLEAN] /\ get[s] = TRUE
    BY DEF IInv, TypeOK, OpenAlive, Open
  <2> QED
    BY <2>1
<1>4. OpenAlive'
  BY <1>1, <1>3 DEF OpenAlive, IInv
<1> QED
  BY <1>2, <1>4 DEF IInv

LEMMA SeenKept == IInv /\ UNCHANGED <<status, monitor, seen>> => MonitorAgrees'
BY SameOpen DEF IInv, MonitorAgrees

LEMMA SessionTimeoutIInv ==
  ASSUME IInv, NEW s \in Session, SessionTimeout(s)
  PROVE  IInv'
<1>1. s \in Open
  BY NoneAssumption, BoundAssumption DEF IInv, OpenAlive, SessionTimeout
<1>2. CASE Remaining(s) # 0
  <2>1. UNCHANGED <<status, address, get, timeout, delay, silent, sendVars, pluginVars>>
        /\ task' = [task EXCEPT ![s] = timeout[s]]
    BY <1>2 DEF SessionTimeout, AddedAgain
  <2>2. TypeOK'
    BY <2>1 DEF IInv, TypeOK, sendVars, pluginVars
  <2>3. ClocksAgree'
    BY <2>1, SameOpen DEF IInv, ClocksAgree
  <2>4. \A t \in Session : task'[t] = None <=> task[t] = None
    BY <2>1, <1>1, NoneAssumption DEF IInv, TypeOK, OpenAlive
  <2> QED
    BY <2>1, <2>2, <2>3, <2>4, QuietIInv, SeenKept DEF pluginVars
<1>3. CASE Remaining(s) = 0
  <2>1. Disconnect({s}) /\ stopped' \in BOOLEAN
    BY <1>3 DEF SessionTimeout, IInv, TypeOK
  <2> QED
    BY <1>1, <2>1, DisconnectIInv
<1> QED
  BY <1>2, <1>3

LEMMA TickIInv ==
  ASSUME IInv, Tick
  PROVE  IInv'
<1>1. UNCHANGED <<status, address, get, sendVars, pluginVars>>
  BY DEF Tick
<1>2. \A n \in Nat : Less(n) \in 0 .. n
  BY DEF Less
<1>3. TypeOK'
  <2>1. /\ timeout' \in [Session -> 0 .. Timeout]
        /\ task' \in [Session -> (0 .. Timeout) \cup {None}]
    BY <1>2, NoneAssumption, BoundAssumption DEF IInv, TypeOK, Tick
  <2>2. /\ delay' \in [Session -> 0 .. MaxDelay]
        /\ silent' \in [Session -> 0 .. Timeout]
    BY <1>2, BoundAssumption DEF IInv, TypeOK, Tick
  <2> QED
    BY <1>1, <2>1, <2>2 DEF IInv, TypeOK, sendVars, pluginVars
<1>4. \A s \in Session : task'[s] = None <=> task[s] = None
  BY <1>2, NoneAssumption, BoundAssumption DEF IInv, TypeOK, Tick
<1>5. ClocksAgree'
  <2> SUFFICES ASSUME NEW s \in Session
               PROVE  IF s \in Open THEN timeout'[s] = Timeout - silent'[s] ELSE silent'[s] = 0
    BY <1>1, SameOpen DEF ClocksAgree
  <2>1. /\ timeout'[s] = Less(timeout[s])
        /\ silent'[s] = IF s \in Open /\ silent[s] < Timeout THEN silent[s] + 1 ELSE silent[s]
    BY DEF Tick
  <2>2. timeout[s] \in 0 .. Timeout /\ silent[s] \in 0 .. Timeout
    BY DEF IInv, TypeOK
  <2>3. IF s \in Open THEN timeout[s] = Timeout - silent[s] ELSE silent[s] = 0
    BY DEF IInv, ClocksAgree
  <2> QED
    BY <2>1, <2>2, <2>3, BoundAssumption DEF Less
<1> QED
  BY <1>1, <1>3, <1>4, <1>5, QuietIInv, SeenKept DEF pluginVars

\* A GET that comes back and a session whose timeout or delay is moved.
LEMMA ActivityIInv ==
  ASSUME IInv, NEW s \in Open, NEW d \in 0 .. MaxDelay,
         UNCHANGED <<status, address, task, sendVars, pluginVars>>,
         get' = get \/ get' = [get EXCEPT ![s] = TRUE],
         delay' = delay \/ delay' = [delay EXCEPT ![s] = d],
         UNCHANGED <<timeout, silent>> \/ Reschedule(s)
  PROVE  IInv'
<1>1. s \in Session
  BY DEF Open
<1>2. TypeOK'
  <2>1. /\ timeout' \in [Session -> 0 .. Timeout]
        /\ silent' \in [Session -> 0 .. Timeout]
    BY BoundAssumption DEF IInv, TypeOK, Reschedule
  <2>2. get' \in [Session -> BOOLEAN] /\ delay' \in [Session -> 0 .. MaxDelay]
    <3>1. get \in [Session -> BOOLEAN] /\ delay \in [Session -> 0 .. MaxDelay]
      BY DEF IInv, TypeOK
    <3>2. get' \in [Session -> BOOLEAN]
      BY <3>1
    <3>3. delay' \in [Session -> 0 .. MaxDelay]
      BY <3>1
    <3> QED
      BY <3>2, <3>3
  <2> QED
    BY <2>1, <2>2 DEF IInv, TypeOK, sendVars, pluginVars
<1>3. ClocksAgree'
  <2>1. CASE UNCHANGED <<timeout, silent>>
    BY <2>1, SameOpen DEF IInv, ClocksAgree
  <2>2. CASE Reschedule(s)
    BY <2>2, <1>1, SameOpen, BoundAssumption DEF IInv, TypeOK, ClocksAgree, Reschedule
  <2> QED
    BY <2>1, <2>2
<1> QED
  BY <1>2, <1>3, QuietIInv, SeenKept DEF pluginVars

LEMMA MonitorIInv ==
  ASSUME IInv, SetupMonitor \/ EndMonitor
  PROVE  IInv'
<1>1. UNCHANGED <<sessionVars, sendVars, connections, stopped>>
  BY DEF SetupMonitor, EndMonitor
<1>2. Open' = Open
  BY <1>1, SameOpen DEF sessionVars
<1>3. MonitorAgrees'
  BY <1>2 DEF MonitorAgrees, SetupMonitor, EndMonitor
<1>4. TypeOK'
  BY <1>1 DEF IInv, TypeOK, SetupMonitor, EndMonitor, sessionVars, sendVars, Open
<1>5. ClocksAgree'
  BY <1>1, <1>2 DEF IInv, ClocksAgree, sessionVars
<1> QED
  BY <1>1, <1>3, <1>4, <1>5, QuietIInv DEF sessionVars

LEMMA MessageIInv ==
  ASSUME IInv, NEW m \in Message, (\E s \in Session : Send(s, m)) \/ PutEnds(m)
  PROVE  IInv'
<1>1. UNCHANGED <<sessionVars, pluginVars>>
  BY DEF Send, PutEnds
<1>2. TypeOK'
  <2>1. via' \in [Message -> Session \cup {None}]
        /\ cont' \in [Message -> {"none", "pending", "called"}]
    BY DEF IInv, TypeOK, Send, PutEnds
  <2> QED
    BY <1>1, <2>1 DEF IInv, TypeOK, sessionVars, pluginVars
<1>3. ClocksAgree'
  BY <1>1, SameOpen DEF IInv, ClocksAgree, sessionVars
<1> QED
  BY <1>1, <1>2, <1>3, QuietIInv, SeenKept DEF sessionVars, pluginVars

-----------------------------------------------------------------------------

LEMMA StepIInv == IInv /\ [Next]_vars => IInv'
<1> SUFFICES ASSUME IInv, [Next]_vars PROVE IInv'
  OBVIOUS
<1>0. stopped \in BOOLEAN
  BY DEF IInv, TypeOK
<1>1. ASSUME NEW s \in Session, NEW a \in Address, GetSession(a, s) PROVE IInv'
  BY <1>1, GetSessionIInv
<1>2. ASSUME NEW s \in Session, DisconnectSession(s) PROVE IInv'
  <2>1. s \in Open
    BY <1>2 DEF DisconnectSession, Usable
  <2> QED
    BY <1>0, <1>2, <2>1, DisconnectIInv DEF DisconnectSession
<1>3. ASSUME NEW P \in Peer, DisconnectPeer(P) PROVE IInv'
  BY <1>0, <1>3, DisconnectIInv DEF DisconnectPeer
<1>4. ASSUME Done PROVE IInv'
  BY <1>4, DisconnectIInv DEF Done
<1>5. ASSUME NEW s \in Session, UpdateSessionTimeout(s) PROVE IInv'
  <2>1. s \in Open /\ 0 \in 0 .. MaxDelay
    BY <1>5, BoundAssumption DEF UpdateSessionTimeout, Usable
  <2> QED
    BY <1>5, <2>1, ActivityIInv DEF UpdateSessionTimeout
<1>6. ASSUME NEW s \in Session, NEW d \in 0 .. MaxDelay, UpdateInboundDelay(s, d) PROVE IInv'
  <2>1. s \in Open
    BY <1>6 DEF UpdateInboundDelay, Usable
  <2> QED
    BY <1>6, <2>1, ActivityIInv DEF UpdateInboundDelay
<1>7. ASSUME NEW s \in Session, SessionTimeout(s) PROVE IInv'
  BY <1>7, SessionTimeoutIInv
<1>8. ASSUME NEW s \in Session, GetLoadsNothing(s) PROVE IInv'
  <2>1. s \in Open /\ 0 \in 0 .. MaxDelay
    BY <1>8, BoundAssumption DEF GetLoadsNothing, IInv, OpenAlive
  <2> QED
    BY <1>8, <2>1, ActivityIInv DEF GetLoadsNothing, Resend
<1>9. ASSUME NEW s \in Session, NEW d \in 0 .. MaxDelay, GetLoads(s, d) PROVE IInv'
  <2>1. s \in Open
    BY <1>9 DEF GetLoads, IInv, OpenAlive
  <2> QED
    BY <1>9, <2>1, ActivityIInv DEF GetLoads, Resend
<1>10. ASSUME NEW s \in Session, GetFails(s) PROVE IInv'
  <2>1. s \in Open
    BY <1>10 DEF GetFails, IInv, OpenAlive
  <2> QED
    BY <1>0, <1>10, <2>1, DisconnectIInv DEF GetFails
<1>11. ASSUME NEW m \in Message, (\E s \in Session : Send(s, m)) \/ PutEnds(m) PROVE IInv'
  BY <1>11, MessageIInv
<1>12. ASSUME SetupMonitor \/ EndMonitor PROVE IInv'
  BY <1>12, MonitorIInv
<1>13. ASSUME Tick PROVE IInv'
  BY <1>13, TickIInv
<1>14. ASSUME UNCHANGED vars PROVE IInv'
  <2>1. TypeOK' /\ ClocksAgree'
    BY <1>14 DEF IInv, TypeOK, ClocksAgree, Open, vars, sessionVars, sendVars, pluginVars
  <2> QED
    BY <1>14, <2>1, QuietIInv, SeenKept DEF vars, sessionVars, pluginVars
<1> QED
  BY <1>1, <1>2, <1>3, <1>4, <1>5, <1>6, <1>7, <1>8, <1>9, <1>10, <1>11, <1>12,
     <1>13, <1>14 DEF Next

LEMMA Invariant == Spec => []IInv
<1>1. Init => IInv
  BY InitIInv
<1>2. IInv /\ [Next]_vars => IInv'
  BY StepIInv
<1> QED
  BY <1>1, <1>2, PTL DEF Spec

\* Every variable of the plugin keeps its type; in particular there are never
\* more connections than MAX_CONNECTIONS.
THEOREM TypeCorrect == Spec => []TypeOK
<1>1. IInv => TypeOK
  BY DEF IInv
<1> QED
  BY <1>1, Invariant, PTL

\* An address has one session at most, and cur_connections counts the sessions.
THEOREM SessionsAreCounted == Spec => []SessionsCounted
<1>1. IInv => SessionsCounted
  BY DEF IInv
<1> QED
  BY <1>1, Invariant, PTL

\* A session listens and has its timeout task exactly while it is open, so that
\* neither a GET nor a timer comes back to one that was freed.
THEOREM OpenSessionsAlive == Spec => []OpenAlive
<1>1. IInv => OpenAlive
  BY DEF IInv
<1> QED
  BY <1>1, Invariant, PTL

\* The monitor of the transport service knows the sessions there are.
THEOREM MonitorKnowsSessions == Spec => []MonitorAgrees
<1>1. IInv => MonitorAgrees
  BY DEF IInv
<1> QED
  BY <1>1, Invariant, PTL

\* client_session_timeout ends a session only when it was idle all the time.
THEOREM TimeoutEndsOnlyIdle == Spec => EndsOnlyIdle
<1> DEFINE OnlyIdle == \A s \in Session : SessionTimeout(s) /\ status'[s] = "ended" => silent[s] = Timeout
<1>1. IInv => OnlyIdle
  <2> SUFFICES ASSUME IInv, NEW s \in Session, SessionTimeout(s), status'[s] = "ended"
               PROVE  silent[s] = Timeout
    OBVIOUS
  <2>1. s \in Open
    BY NoneAssumption, BoundAssumption DEF IInv, OpenAlive, SessionTimeout
  <2>2. Remaining(s) = 0
    BY <2>1 DEF SessionTimeout, Open
  <2>3. timeout[s] = Timeout - silent[s] /\ silent[s] \in 0 .. Timeout
    BY <2>1 DEF IInv, ClocksAgree, TypeOK
  <2> QED
    BY <2>2, <2>3, BoundAssumption DEF Remaining
<1>2. Spec => [][OnlyIdle]_vars
  BY <1>1, Invariant, PTL
<1> QED
  BY <1>2 DEF EndsOnlyIdle
=============================================================================
