------------------------------- MODULE WebRtc -------------------------------
(***************************************************************************)
(* The WebRTC transport plugin of several peers: the sessions kept in C    *)
(* (plugin_transport_webrtc.c), the table of connections kept in           *)
(* JavaScript (plugin_transport_webrtc_int.js) and the RTCPeerConnections  *)
(* that live in a tab (webrtc.cljs), which is the first tab of the worker, *)
(* since do_to_window takes no other.  Offers and answers travel between   *)
(* the peers over CADET channels, which are external: a channel may lose   *)
(* what it carries.  Workers live on when the first tab is closed, since   *)
(* others keep them.                                                       *)
(***************************************************************************)
EXTENDS Naturals, Sequences, FiniteSets

CONSTANTS
  Peer,     \* the peers
  None,     \* NULL, or no description
  MaxLoss   \* bound: messages the channels lose and promises that are rejected

\* Sessions are never removed, so that a peer makes one channel to another.
Channel == {c \in Peer \X Peer : c[1] # c[2]}
Initiator(c) == c[1]
Target(c) == c[2]

\* A session is made for a channel at either end.
Session == [channel : Channel, role : {"out", "in"}]
Out(c) == [channel |-> c, role |-> "out"]
In(c) == [channel |-> c, role |-> "in"]

VARIABLES
  sessions,     \* [Peer -> [Peer -> Seq(Session)]], plugin->sessions: the values of
                \* each key, the newest first
  rtc,          \* rtc_peer_connection of each session, 0 when it is not set
  cadet,        \* the channels: opening or connected, the session that is the
                \* context at the target, messages on their way
  connections,  \* [Peer -> Seq], CONNECTIONS with the ports' other ends in the tab
  firstTab,     \* peers whose first tab is open
  stopped,      \* peers whose worker was aborted
  monitor,      \* peers whose transport service monitors the plugin
  seen,         \* the sessions each monitor was told of
  losses        \* messages lost and promises rejected

vars == <<sessions, rtc, cadet, connections, firstTab, stopped, monitor, seen, losses>>
monitorVars == <<monitor, seen>>

Offers == [type : {"offer"}, peer : Peer, number : Nat, to : {None}]
Answers == [type : {"answer"}, peer : Peer, number : Nat, to : Offers]
Offer(p, n) == [type |-> "offer", peer |-> p, number |-> n, to |-> None]
Answer(p, n, offer) == [type |-> "answer", peer |-> p, number |-> n, to |-> offer]

\* requested: the tab has not read peer_connect; creating: its promise is pending;
\* failed: its promise was rejected; gone: the tab was closed.
Signaling == {"requested", "creating", "failed", "have-local-offer", "stable", "gone"}

Connection == [cls : Session \cup {None}, signaling : Signaling,
               remote : Offers \cup Answers \cup {None},
               toWorker : Seq(Offers \cup Answers), toWindow : Seq(Answers)]

ChannelState == [status : {"none", "opening", "connected"}, context : Session \cup {None},
                 offers : Seq(Offers), answers : Seq(Answers)]

ASSUME NoneAssumption == None \notin Session \cup Offers \cup Answers
ASSUME LossAssumption == MaxLoss \in Nat

TypeOK ==
  /\ sessions \in [Peer -> [Peer -> Seq(Session)]]
  /\ rtc \in [Session -> Nat]
  /\ cadet \in [Channel -> ChannelState]
  /\ connections \in [Peer -> Seq(Connection)]
  /\ firstTab \in SUBSET Peer /\ stopped \in SUBSET Peer /\ monitor \in SUBSET Peer
  /\ seen \in [Peer -> SUBSET Session]
  /\ losses \in 0 .. MaxLoss

Init ==
  /\ sessions = [p \in Peer |-> [q \in Peer |-> <<>>]]
  /\ rtc = [s \in Session |-> 0]
  /\ cadet = [c \in Channel |-> [status |-> "none", context |-> None,
                                 offers |-> <<>>, answers |-> <<>>]]
  /\ connections = [p \in Peer |-> <<>>]
  /\ firstTab = Peer
  /\ stopped = {}
  /\ monitor = {}
  /\ seen = [p \in Peer |-> {}]
  /\ losses = 0

---------------------------------------------------------------------------
(* The worker. *)

\* GNUNET_CONTAINER_multipeermap_get: the value put last.
Found(p, q) == sessions[p][q] # <<>>

\* GNUNET_CONTAINER_multipeermap_put with UNIQUE_FAST, which looks for no other.
Put(p, q, s) == sessions' = [sessions EXCEPT ![p][q] = <<s>> \o @]

\* NEXT_CONNECTION
NextNumber(p) == Len(connections[p]) + 1

\* peer_connect: the first window is asked for a connection, or nobody when it is
\* closed; the port is kept under the next number.
PeerConnect(p, cls, offer) ==
  connections' = [connections EXCEPT ![p] =
    Append(@, [cls |-> cls, signaling |-> IF p \in firstTab THEN "requested" ELSE "gone",
               remote |-> offer, toWorker |-> <<>>, toWindow |-> <<>>])]

NotifyMonitor(p, s) ==
  seen' = IF p \in monitor THEN [seen EXCEPT ![p] = @ \cup {s}] ELSE seen

\* webrtc_plugin_get_session; for a peer that has a session nothing changes.
GetSession(p, q) ==
  /\ p \notin stopped
  /\ ~Found(p, q)
  /\ LET c == <<p, q>> IN
       /\ Put(p, q, Out(c))
       /\ cadet' = [cadet EXCEPT ![c].status = "opening"]
       /\ PeerConnect(p, Out(c), None)
       /\ rtc' = [rtc EXCEPT ![Out(c)] = NextNumber(p)]
       /\ NotifyMonitor(p, Out(c))
  /\ UNCHANGED <<firstTab, stopped, monitor, losses>>

\* connect_cb: a peer without a session is left without a context.
Connected(c) ==
  /\ Target(c) \notin stopped
  /\ cadet[c].status = "opening"
  /\ IF Found(Target(c), Initiator(c))
     THEN /\ Put(Target(c), Initiator(c), In(c))
          /\ cadet' = [cadet EXCEPT ![c].status = "connected", ![c].context = In(c)]
     ELSE /\ cadet' = [cadet EXCEPT ![c].status = "connected"]
          /\ UNCHANGED sessions
  /\ UNCHANGED <<rtc, connections, firstTab, stopped, monitorVars, losses>>

\* handle_offer.  Without a context rtc_peer_connection is written through NULL.
HandleOffer(c) ==
  /\ Target(c) \notin stopped
  /\ cadet[c].status = "connected" /\ cadet[c].offers # <<>>
  /\ PeerConnect(Target(c), cadet[c].context, Head(cadet[c].offers))
  /\ rtc' = IF cadet[c].context = None THEN rtc
            ELSE [rtc EXCEPT ![cadet[c].context] = NextNumber(Target(c))]
  /\ cadet' = [cadet EXCEPT ![c].offers = Tail(@)]
  /\ UNCHANGED <<sessions, firstTab, stopped, monitorVars, losses>>

NewestSession(c) == sessions[Initiator(c)][Target(c)][1]

\* The context of the channel at the initiator, which get_session gave it.
AnswerContext(c) == Out(c)

\* handle_answer and set_remote_answer.
HandleAnswer(c) ==
  LET p == Initiator(c)
      n == rtc[AnswerContext(c)]
  IN
    /\ p \notin stopped
    /\ cadet[c].answers # <<>>
    /\ connections' = [connections EXCEPT ![p][n].toWindow =
         IF connections[p][n].signaling = "gone" THEN @
         ELSE Append(@, Head(cadet[c].answers))]
    /\ cadet' = [cadet EXCEPT ![c].answers = Tail(@)]
    /\ UNCHANGED <<sessions, rtc, firstTab, stopped, monitorVars, losses>>

NotReceived(p, n) == UNCHANGED connections

Received(p, n) == connections' = [connections EXCEPT ![p][n].toWorker = Tail(@)]

\* The port's onmessage with an offer: offer_cb sends it to the target.
OfferCb(p, n) ==
  LET k == connections[p][n] IN
    /\ p \notin stopped
    /\ k.toWorker # <<>> /\ Head(k.toWorker).type = "offer"
    /\ Received(p, n)
    /\ cadet' = [cadet EXCEPT ![k.cls.channel].offers = Append(@, Head(k.toWorker))]
    /\ UNCHANGED <<sessions, rtc, firstTab, stopped, monitorVars, losses>>

\* The port's onmessage with an answer: answer_cb sends it to the initiator.  Of a
\* NULL session it reads a channel from the lowest addresses: nothing is sent, or the
\* worker is aborted.
AnswerCb(p, n) ==
  LET k == connections[p][n] IN
    /\ p \notin stopped
    /\ k.toWorker # <<>> /\ Head(k.toWorker).type = "answer"
    /\ Received(p, n)
    /\ IF k.cls = None
       THEN stopped' \in {stopped, stopped \cup {p}} /\ UNCHANGED cadet
       ELSE /\ cadet' = [cadet EXCEPT ![k.cls.channel].answers =
                           Append(@, Head(k.toWorker))]
            /\ UNCHANGED stopped
    /\ UNCHANGED <<sessions, rtc, firstTab, monitorVars, losses>>

\* webrtc_plugin_setup_monitor: sessions that exist are not told (#if 0).
SetupMonitor(p) ==
  /\ p \notin stopped \cup monitor
  /\ monitor' = monitor \cup {p}
  /\ UNCHANGED <<sessions, rtc, cadet, connections, firstTab, stopped, seen, losses>>

---------------------------------------------------------------------------
(* The tab. *)

\* peer-connect: createOffer, or setRemoteDescription of the offer and createAnswer.
WindowConnects(p, n) ==
  /\ connections[p][n].signaling = "requested"
  /\ connections' = [connections EXCEPT ![p][n].signaling = "creating"]
  /\ UNCHANGED <<sessions, rtc, cadet, firstTab, stopped, monitorVars, losses>>

\* The promise: the description becomes the local one and is posted to the worker.
WindowDescribes(p, n) ==
  LET k == connections[p][n] IN
    /\ k.signaling = "creating"
    /\ connections' = [connections EXCEPT ![p][n] =
         IF k.remote = None
         THEN [k EXCEPT !.signaling = "have-local-offer",
                        !.toWorker = Append(@, Offer(p, n))]
         ELSE [k EXCEPT !.signaling = "stable",
                        !.toWorker = Append(@, Answer(p, n, k.remote))]]
    /\ UNCHANGED <<sessions, rtc, cadet, firstTab, stopped, monitorVars, losses>>

\* The message port's onmessage: setRemoteDescription, which fails unless an offer
\* waits for its answer.
WindowAnswered(p, n) ==
  LET k == connections[p][n] IN
    /\ k.signaling \in {"have-local-offer", "stable"}
    /\ k.toWindow # <<>>
    /\ connections' = [connections EXCEPT ![p][n] =
         IF k.signaling = "have-local-offer"
         THEN [k EXCEPT !.signaling = "stable", !.remote = Head(k.toWindow),
                        !.toWindow = Tail(@)]
         ELSE [k EXCEPT !.toWindow = Tail(@)]]
    /\ UNCHANGED <<sessions, rtc, cadet, firstTab, stopped, monitorVars, losses>>

\* A promise is rejected, for which the tab has no handler: nothing is posted, or the
\* answer is not applied.
WindowRejects(p, n) ==
  LET k == connections[p][n] IN
    /\ losses < MaxLoss
    /\ losses' = losses + 1
    /\ \/ /\ k.signaling = "creating"
          /\ connections' = [connections EXCEPT ![p][n].signaling = "failed"]
       \/ /\ k.signaling = "have-local-offer" /\ k.toWindow # <<>>
          /\ connections' = [connections EXCEPT ![p][n].toWindow = Tail(@)]
    /\ UNCHANGED <<sessions, rtc, cadet, firstTab, stopped, monitorVars>>

\* The first tab is closed with its connections; what it has posted still arrives.
CloseFirstTab(p) ==
  /\ p \in firstTab
  /\ firstTab' = firstTab \ {p}
  /\ connections' = [connections EXCEPT ![p] =
       [n \in DOMAIN @ |-> [@[n] EXCEPT !.signaling = "gone", !.toWindow = <<>>]]]
  /\ UNCHANGED <<sessions, rtc, cadet, stopped, monitorVars, losses>>

\* External: a channel loses a message.
LoseMessage(c) ==
  /\ losses < MaxLoss
  /\ losses' = losses + 1
  /\ \/ /\ cadet[c].offers # <<>>
        /\ cadet' = [cadet EXCEPT ![c].offers = Tail(@)]
     \/ /\ cadet[c].answers # <<>>
        /\ cadet' = [cadet EXCEPT ![c].answers = Tail(@)]
  /\ UNCHANGED <<sessions, rtc, connections, firstTab, stopped, monitorVars>>

Next ==
  \/ \E c \in Channel :
       \/ GetSession(Initiator(c), Target(c))
       \/ Connected(c) \/ HandleOffer(c) \/ HandleAnswer(c) \/ LoseMessage(c)
  \/ \E p \in Peer :
       \/ SetupMonitor(p) \/ CloseFirstTab(p)
       \/ \E n \in DOMAIN connections[p] :
            \/ OfferCb(p, n) \/ AnswerCb(p, n)
            \/ WindowConnects(p, n) \/ WindowDescribes(p, n) \/ WindowAnswered(p, n)
            \/ WindowRejects(p, n)

Spec == Init /\ [][Next]_vars

(* Event loops run what is due, promises are settled, channels connect and  *)
(* bring what they do not lose.                                             *)
Fairness ==
  /\ \A c \in Channel :
       WF_vars(Connected(c)) /\ WF_vars(HandleOffer(c)) /\ WF_vars(HandleAnswer(c))
  /\ \A p \in Peer, n \in 1 .. 2 * Cardinality(Peer) :
       /\ WF_vars(n \in DOMAIN connections[p] /\ OfferCb(p, n))
       /\ WF_vars(n \in DOMAIN connections[p] /\ AnswerCb(p, n))
       /\ WF_vars(n \in DOMAIN connections[p] /\ WindowConnects(p, n))
       /\ WF_vars(n \in DOMAIN connections[p] /\ WindowDescribes(p, n))
       /\ WF_vars(n \in DOMAIN connections[p] /\ WindowAnswered(p, n))

FairSpec == Spec /\ Fairness

---------------------------------------------------------------------------
(* Properties. *)

\* The two tables that name a connection agree: a session's number leads to the
\* connection that was made for it.
NumbersLeadBack ==
  \A p \in Peer : \A n \in DOMAIN connections[p] :
    LET k == connections[p][n] IN k.cls # None => rtc[k.cls] = n

\* Every answer that reaches a connection's port or is applied to it was made for the
\* offer of that very connection, whatever handshakes two peers have under way in
\* both directions, and by a connection of the other peer that was given this offer.
AnswerMatchesOffer ==
  \A p \in Peer : \A n \in DOMAIN connections[p] :
    LET k == connections[p][n] IN
      \A a \in ({k.remote} \cap Answers) \cup {k.toWindow[i] : i \in DOMAIN k.toWindow} :
        /\ a.to = Offer(p, n)
        /\ a.peer # p
        /\ a.number \in DOMAIN connections[a.peer]
        /\ connections[a.peer][a.number].remote = a.to

\* setRemoteDescription is never called with an answer on a connection that has no
\* offer waiting for one.
AnswersAwaited ==
  \A p \in Peer : \A n \in DOMAIN connections[p] :
    LET k == connections[p][n] IN
      k.toWindow # <<>> => k.signaling = "have-local-offer" /\ Len(k.toWindow) = 1

\* Nothing was lost or rejected and both first tabs stay open.
Undisturbed == losses = 0 /\ firstTab = Peer /\ stopped = {}

\* The handshake of c has been completed at both ends.
Established(c) ==
  \E m \in DOMAIN connections[Initiator(c)], n \in DOMAIN connections[Target(c)] :
    /\ connections[Initiator(c)][m].signaling = "stable"
    /\ connections[Initiator(c)][m].remote = Answer(Target(c), n, Offer(Initiator(c), m))
    /\ connections[Target(c)][n].signaling = "stable"

\* A handshake whose target had a session when the channel came is completed, unless
\* a message is lost, a promise is rejected, a first tab is closed or a worker aborted.
HandshakeEnds ==
  \A c \in Channel :
    [](cadet[c].context # None => <>(Established(c) \/ ~Undisturbed))

---------------------------------------------------------------------------
(* What makes the invariants above inductive.                              *)

\* The tab has not described the connection yet, or never will.
Undescribed(k) == k.signaling \in {"requested", "creating", "failed"}

\* a was made for the offer of connection n of p, by a connection of another peer.
GoodAnswer(a, p, n) ==
  /\ a \in Answers /\ a.to = Offer(p, n) /\ a.peer # p
  /\ a.number \in DOMAIN connections[a.peer]
  /\ connections[a.peer][a.number].remote = a.to

\* Connection n of p, made by get_session for channel c.
Offering(p, n, c) ==
  LET k == connections[p][n] IN
    /\ k.cls = Out(c) /\ p = Initiator(c) /\ rtc[Out(c)] = n
    /\ sessions[p][Target(c)] # <<>>
    /\ k.remote = None \/ GoodAnswer(k.remote, p, n)
    /\ Undescribed(k) \/ k.signaling = "have-local-offer" => k.remote = None
    /\ Undescribed(k) => k.toWorker = <<>>
    /\ k.toWorker \in {<<>>, <<Offer(p, n)>>}
    /\ \/ k.toWindow = <<>>
       \/ /\ k.signaling = "have-local-offer"
          /\ Len(k.toWindow) = 1 /\ GoodAnswer(Head(k.toWindow), p, n)

\* The offer of channel c.
OfferOf(c) == Offer(Initiator(c), rtc[Out(c)])

\* Connection n of p, made for an offer that has come.
Answering(p, n) ==
  LET k == connections[p][n] IN
    /\ \/ k.cls = None
       \/ \E c \in Channel : /\ k.cls = In(c) /\ p = Target(c) /\ rtc[In(c)] = n
                             /\ k.remote = OfferOf(c)
    /\ k.remote \in Offers
    /\ k.signaling # "have-local-offer"
    /\ Undescribed(k) => k.toWorker = <<>>
    /\ k.toWorker \in {<<>>, <<Answer(p, n, k.remote)>>}
    /\ k.toWindow = <<>>

ConnectionOK(p, n) == Answering(p, n) \/ \E c \in Channel : Offering(p, n, c)

\* The offer of c has not been given to the channel.
Unsent(c) ==
  LET out == connections[Initiator(c)] IN
    \A n \in DOMAIN out :
      out[n].cls = Out(c) => Undescribed(out[n]) \/ out[n].toWorker # <<>>

\* The target has made no connection for c.
Unheard(c) ==
  LET in == connections[Target(c)] IN \A n \in DOMAIN in : in[n].cls # In(c)

\* The answer to c has not been given to the channel.
Unanswered(c) ==
  LET in == connections[Target(c)] IN
    \A n \in DOMAIN in :
      in[n].cls = In(c) => Undescribed(in[n]) \/ in[n].toWorker # <<>>

\* No answer has come back to the tab of the initiator.
NothingBack(c) ==
  LET out == connections[Initiator(c)] IN
    \A n \in DOMAIN out :
      out[n].cls = Out(c) => out[n].toWindow = <<>> /\ out[n].signaling # "stable"

\* A handshake makes one offer and one answer, and each is in one place.
ChannelOK(c) ==
  /\ cadet[c].context \in {None, In(c)}
  /\ \/ cadet[c].offers = <<>>
     \/ cadet[c].offers = <<OfferOf(c)>> /\ Unheard(c) /\ ~Unsent(c)
  /\ Unsent(c) => Unheard(c)
  /\ \/ cadet[c].answers = <<>>
     \/ /\ Len(cadet[c].answers) = 1
        /\ GoodAnswer(Head(cadet[c].answers), Initiator(c), rtc[Out(c)])
        /\ ~Unanswered(c) /\ NothingBack(c)
  /\ Unanswered(c) => NothingBack(c)

Handshakes ==
  /\ \A p \in Peer : \A n \in DOMAIN connections[p] : ConnectionOK(p, n)
  /\ \A c \in Channel : ChannelOK(c)
=============================================================================
