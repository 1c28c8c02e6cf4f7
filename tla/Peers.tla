------------------------------- MODULE Peers --------------------------------
(***************************************************************************)
(* The page's table of peers (index.cljs.hl), fed by the monitor of the    *)
(* transport service and the monitor of the core service.  Each monitor is *)
(* a stream of its own, so nothing orders an event of one with an event of *)
(* the other.  The services are external: what the page relies on is that  *)
(* core hears of a connection from transport, that each reports every      *)
(* change, and that a monitor that attaches gets the present states first. *)
(* The callbacks handle one peer at a time and peers do not interact, so   *)
(* that a stream is kept as one queue for each peer.                       *)
(***************************************************************************)
EXTENDS Naturals, Sequences

CONSTANTS
  Peer,          \* identities of peers
  None,          \* no core state was recorded
  MaxChange,     \* bound: changes of a peer's transport state
  MaxInFlight    \* bound: events of a stream on their way for one peer

VARIABLES
  transport,        \* the transport service's state of each peer
  core,             \* the core service's state of each peer
  notices,          \* what transport tells core: the peer is connected or not
  attached,         \* the monitors whose request reached its service
  transportEvents,  \* events for the transport monitor on their way
  coreEvents,       \* events for the core monitor on their way
  peers,            \* the cell of the page
  changes,          \* how often the transport state of each peer changed
  overtook          \* history: peers whose last core event came to the page
                    \* before a transport event that was sent earlier

services == <<transport, core, notices, changes>>
vars == <<transport, core, notices, attached, transportEvents, coreEvents, peers,
          changes, overtook>>

Monitor == {"transport", "core"}

\* State numbers of transport.cljs.
Connecting == 2
StateConnected == 5
Reconnecting == 7
StateDisconnected == 10
TransportState == {Connecting, StateConnected, Reconnecting, StateDisconnected}

\* State numbers of core.cljs.
KeySent == 1
CoreStateConnected == 3
Rekeying == 4
CoreStateDisconnected == 5
IterationFinished == 6
CoreState == {KeySent, CoreStateConnected, Rekeying, CoreStateDisconnected}

Info == [transport : TransportState \ {StateDisconnected}, core : CoreState \cup {None}]

TypeOK ==
  /\ transport \in [Peer -> TransportState]
  /\ core \in [Peer -> CoreState]
  /\ notices \in [Peer -> Seq(BOOLEAN)]
  /\ attached \in SUBSET Monitor
  /\ transportEvents \in [Peer -> Seq(TransportState)]
  /\ coreEvents \in [Peer -> Seq(CoreState \cup {IterationFinished})]
  /\ DOMAIN peers \in SUBSET Peer
  /\ peers \in [DOMAIN peers -> Info]
  /\ changes \in [Peer -> Nat]
  /\ overtook \in SUBSET Peer

Init ==
  /\ transport = [p \in Peer |-> StateDisconnected]
  /\ core = [p \in Peer |-> CoreStateDisconnected]
  /\ notices = [p \in Peer |-> <<>>]
  /\ attached = {}
  /\ transportEvents = [p \in Peer |-> <<>>]
  /\ coreEvents = [p \in Peer |-> <<>>]
  /\ peers = <<>>
  /\ changes = [p \in Peer |-> 0]
  /\ overtook = {}

---------------------------------------------------------------------------
(* The services. *)

IsConnected(s) == s \in {StateConnected, Reconnecting}

\* The states transport leads a peer through.
Follows(s) ==
  CASE s = StateDisconnected -> {Connecting}
    [] s = Connecting -> {StateConnected, StateDisconnected}
    [] s = StateConnected -> {Reconnecting, StateDisconnected}
    [] s = Reconnecting -> {StateConnected, StateDisconnected}

TransportChanges(p) ==
  /\ changes[p] < MaxChange
  /\ Len(transportEvents[p]) < MaxInFlight
  /\ \E s \in Follows(transport[p]) :
       /\ transport' = [transport EXCEPT ![p] = s]
       /\ notices' = IF IsConnected(s) = IsConnected(transport[p])
                     THEN notices
                     ELSE [notices EXCEPT ![p] = Append(@, IsConnected(s))]
       /\ transportEvents' = IF "transport" \in attached
                             THEN [transportEvents EXCEPT ![p] = Append(@, s)]
                             ELSE transportEvents
  /\ changes' = [changes EXCEPT ![p] = @ + 1]
  /\ UNCHANGED <<core, attached, coreEvents, peers, overtook>>

\* Core's state of p becomes s and its monitor is told.
CoreChanges(p, s) ==
  /\ Len(coreEvents[p]) < MaxInFlight
  /\ core' = [core EXCEPT ![p] = s]
  /\ coreEvents' = IF "core" \in attached
                   THEN [coreEvents EXCEPT ![p] = Append(@, s)]
                   ELSE coreEvents
  /\ UNCHANGED <<transport, attached, transportEvents, peers, changes, overtook>>

CoreNotified(p) ==
  /\ notices[p] # <<>>
  /\ CoreChanges(p, IF Head(notices[p]) THEN KeySent ELSE CoreStateDisconnected)
  /\ notices' = [notices EXCEPT ![p] = Tail(@)]

KeyExchanged(p) ==
  /\ core[p] \in {KeySent, Rekeying}
  /\ CoreChanges(p, CoreStateConnected)
  /\ UNCHANGED notices

Rekey(p) ==
  /\ core[p] = CoreStateConnected
  /\ CoreChanges(p, Rekeying)
  /\ UNCHANGED notices

---------------------------------------------------------------------------
(* The page. *)

\* monitor-peers of transport.cljs: the request reaches the service, which sends
\* the peers it knows.
MonitorTransport ==
  /\ "transport" \notin attached
  /\ attached' = attached \cup {"transport"}
  /\ transportEvents' = [p \in Peer |-> IF transport[p] = StateDisconnected
                                        THEN <<>> ELSE <<transport[p]>>]
  /\ UNCHANGED <<services, coreEvents, peers, overtook>>

\* monitor-peers of core.cljs: likewise, and the end of the iteration is marked.
MonitorCore ==
  /\ "core" \notin attached
  /\ attached' = attached \cup {"core"}
  /\ coreEvents' = [p \in Peer |-> IF core[p] = CoreStateDisconnected
                                   THEN <<IterationFinished>>
                                   ELSE <<core[p], IterationFinished>>]
  /\ UNCHANGED <<services, transportEvents, peers, overtook>>

\* (dissoc peers p)
Without(p) == [q \in DOMAIN peers \ {p} |-> peers[q]]

ForgottenCoreState(p) == None

\* (get-in peers [p :core-state])
CoreStateOf(p) == IF p \in DOMAIN peers THEN peers[p].core ELSE None

\* (assoc-in peers [p :transport-state] s)
WithTransport(p, s) ==
  [q \in DOMAIN peers \cup {p} |->
     IF q = p THEN [transport |-> s, core |-> CoreStateOf(p)] ELSE peers[q]]

FirstCoreOnly(p, s) == [peers EXCEPT ![p].core = IF @ = None THEN s ELSE @]

\* (assoc-in peers [p :core-state] s) for a peer in the table
WithCore(p, s) == [peers EXCEPT ![p].core = s]

\* The table after the callback given to transport/monitor-peers.
AfterTransport(p, s) == IF s = StateDisconnected THEN Without(p) ELSE WithTransport(p, s)

AddedByCore(p, s) ==
  IF p \in DOMAIN peers THEN WithCore(p, s)
  ELSE [q \in DOMAIN peers \cup {p} |->
          IF q = p THEN [transport |-> None, core |-> s] ELSE peers[q]]

\* The table after the callback given to core/monitor-peers: a peer transport has
\* not shown yet is left out.
AfterCore(p, s) == IF p \in DOMAIN peers THEN WithCore(p, s) ELSE peers

TransportEvent(p) ==
  /\ transportEvents[p] # <<>>
  /\ peers' = AfterTransport(p, Head(transportEvents[p]))
  /\ transportEvents' = [transportEvents EXCEPT ![p] = Tail(@)]
  /\ UNCHANGED <<services, attached, coreEvents, overtook>>

\* The transport service has sent of p what the page has not seen.
Behind(p) ==
  \/ transportEvents[p] # <<>>
  \/ "transport" \notin attached /\ transport[p] # StateDisconnected

CoreEvent(p) ==
  /\ coreEvents[p] # <<>>
  /\ LET s == Head(coreEvents[p]) IN
       IF s = IterationFinished
       THEN UNCHANGED <<peers, overtook>>
       ELSE /\ peers' = AfterCore(p, s)
            /\ overtook' = IF Behind(p) THEN overtook \cup {p} ELSE overtook \ {p}
  /\ coreEvents' = [coreEvents EXCEPT ![p] = Tail(@)]
  /\ UNCHANGED <<services, attached, transportEvents>>

\* connection-count counts these.
Counted ==
  {p \in DOMAIN peers : /\ peers[p].transport = StateConnected
                        /\ peers[p].core = CoreStateConnected}

Next ==
  \/ MonitorTransport \/ MonitorCore
  \/ \E p \in Peer :
       \/ TransportChanges(p) \/ CoreNotified(p) \/ KeyExchanged(p) \/ Rekey(p)
       \/ TransportEvent(p) \/ CoreEvent(p)

Spec == Init /\ [][Next]_vars

(* The page's event loop runs every callback that is due, both monitors are *)
(* started when the page loads, and core handles what it is told.           *)
Fairness ==
  /\ WF_vars(MonitorTransport) /\ WF_vars(MonitorCore)
  /\ \A p \in Peer :
       /\ WF_vars(TransportEvent(p)) /\ WF_vars(CoreEvent(p))
       /\ WF_vars(CoreNotified(p))

FairSpec == Spec /\ Fairness

---------------------------------------------------------------------------
(* Properties. *)

Drained(p) ==
  attached = Monitor /\ transportEvents[p] = <<>> /\ coreEvents[p] = <<>>

BothConnected(p) == transport[p] = StateConnected /\ core[p] = CoreStateConnected

\* Once the transport stream has been read, the table holds exactly the peers
\* transport knows, in the state transport has them, whatever core's stream has
\* brought in the meantime: a late core event never revives a peer that is gone.
TableFollowsTransport ==
  "transport" \in attached =>
    \A p \in Peer :
      transportEvents[p] = <<>> =>
        IF p \in DOMAIN peers THEN peers[p].transport = transport[p]
                              ELSE transport[p] = StateDisconnected

\* Once both streams have been read, a core state in the table is core's state,
\* so that connection-count counts no peer that is not connected: a core state
\* of an earlier connection does not survive in the entry of a later one.
CountedIsConnected ==
  \A p \in Peer :
    Drained(p) => /\ CoreStateOf(p) \in {None, core[p]}
                  /\ p \in Counted => BothConnected(p)

\* A connected peer that is not counted when both streams have been read, and core
\* has heard all that transport told it, is one whose last core event overtook a
\* transport event: it was dropped, because the peer was not in the table yet, or
\* wiped with the entry of the connection before.
UncountedWasOvertaken ==
  \A p \in Peer :
    Drained(p) /\ notices[p] = <<>> /\ BothConnected(p) /\ p \notin Counted
      => p \in overtook

\* A peer that stays connected is counted in the end if core goes on renewing its
\* keys: the events of a renewal repair what overtaking has lost.
RekeyRepairs ==
  \A p \in Peer :
    <>[](transport[p] = StateConnected) /\ []<><<Rekey(p)>>_vars
      => []<>(p \in Counted)

---------------------------------------------------------------------------
(* What makes the invariants above inductive.                              *)

\* None is told from the core states.
NoneAssumption == None \notin CoreState

\* What transport has told core last, or what core has made of it, is what
\* transport has.
NoticesLead(p) ==
  IF notices[p] = <<>>
  THEN IsConnected(transport[p]) <=> core[p] # CoreStateDisconnected
  ELSE notices[p][Len(notices[p])] = IsConnected(transport[p])

\* The transport stream ends with transport's state, or the table has it.
TransportStream(p) ==
  IF "transport" \in attached
  THEN IF transportEvents[p] = <<>>
       THEN IF p \in DOMAIN peers THEN peers[p].transport = transport[p]
                                  ELSE transport[p] = StateDisconnected
       ELSE transportEvents[p][Len(transportEvents[p])] = transport[p]
  ELSE transportEvents[p] = <<>> /\ p \notin DOMAIN peers

\* The stream of core has a state to come.
StateToCome(p) == \E i \in 1 .. Len(coreEvents[p]) : coreEvents[p][i] # IterationFinished

\* The last state in the core stream is core's, or the table has no other.
CoreStream(p) ==
  /\ "core" \notin attached => coreEvents[p] = <<>> /\ CoreStateOf(p) = None
  /\ ~StateToCome(p) => CoreStateOf(p) \in {None, core[p]}
  /\ \A i \in 1 .. Len(coreEvents[p]) :
       /\ coreEvents[p][i] # IterationFinished
       /\ \A j \in i + 1 .. Len(coreEvents[p]) : coreEvents[p][j] = IterationFinished
       => coreEvents[p][i] = core[p]

\* Core's last event came in time: the entry of the peer has it, and nothing that
\* is on its way removes the entry.
InTime(p) ==
  /\ "core" \in attached /\ ~StateToCome(p) /\ notices[p] = <<>>
  /\ core[p] # CoreStateDisconnected /\ p \notin overtook
  => /\ "transport" \in attached
     /\ p \in DOMAIN peers /\ peers[p].core = core[p]
     /\ \A i \in 1 .. Len(transportEvents[p]) : transportEvents[p][i] # StateDisconnected

Streams ==
  \A p \in Peer : NoticesLead(p) /\ TransportStream(p) /\ CoreStream(p) /\ InTime(p)
=============================================================================
