-------------------------------- MODULE Page --------------------------------
(***************************************************************************)
(* The page (index.cljs.hl): a user who searches and downloads             *)
(* (FileSharing) or publishes (Publication), and the table of peers that   *)
(* two monitors feed (Peers).  The three share nothing but the tab, whose  *)
(* callbacks never interrupt one another, so that a step of one is never   *)
(* seen by another; bound: a behaviour is of one of them.                  *)
(***************************************************************************)
EXTENDS FileSharing

CONSTANTS
  Publish,                      \* bound: publications that are ever started
  Peer, MaxChange, MaxInFlight  \* as in Peers

VARIABLES phase, inNext, asked, position, reading, broken, encrypted, registered,
          channel, form
VARIABLES transport, core, notices, attached, transportEvents, coreEvents, peers,
          changes, overtook

P == INSTANCE Publication
M == INSTANCE Peers

\* What the proofs about the parts assume.
ASSUME PageAssumption ==
  /\ M!NoneAssumption
  /\ Blocks \in Nat \ {0} /\ None \notin Publish

publicationVars ==
  <<phase, inNext, asked, position, reading, broken, encrypted, registered, channel, form>>
peersVars ==
  <<transport, core, notices, attached, transportEvents, coreEvents, peers, changes,
    overtook>>
pageWide == <<vars, publicationVars, peersVars>>

PageInit == Init /\ P!Init /\ M!Init

NoFiles == latest = 0 /\ ~opened
NoPublication == \A p \in Publish : phase[p] = "none"
NoPeers == attached = {} /\ \A p \in Peer : changes[p] = 0

Monitored(Step) ==
  NoFiles /\ NoPublication /\ Step /\ UNCHANGED <<vars, publicationVars>>

PageNext ==
  \/ NoPublication /\ NoPeers /\ Next /\ UNCHANGED <<publicationVars, peersVars>>
  \/ NoFiles /\ NoPeers /\ P!Next /\ UNCHANGED <<vars, peersVars>>
  \/ Monitored(M!Next)

\* See FileSharing and Peers.
PageFairness ==
  /\ Fairness
  /\ WF_pageWide(Monitored(M!MonitorTransport))
  /\ WF_pageWide(Monitored(M!MonitorCore))
  /\ \A p \in Peer :
       /\ WF_pageWide(Monitored(M!TransportEvent(p)))
       /\ WF_pageWide(Monitored(M!CoreEvent(p)))
       /\ WF_pageWide(Monitored(M!CoreNotified(p)))

PageSpec == PageInit /\ [][PageNext]_pageWide /\ PageFairness

\* See Publication.
EncodesInOrder == P!EncodesInOrder

\* See Publication.
WaitsForReadOnly == P!WaitsForReadOnly

\* See Peers.
TableFollowsTransport == M!TableFollowsTransport

\* See Peers.
CountedIsConnected == M!CountedIsConnected

\* See Peers.
UncountedWasOvertaken == M!UncountedWasOvertaken

\* See Peers.
RekeyRepairs == M!RekeyRepairs
=============================================================================
