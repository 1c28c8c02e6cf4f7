---------------------------- MODULE WebRtcProofs ----------------------------
(***************************************************************************)
(* Theorems about WebRtc, for any number of peers and of lost messages.    *)
(***************************************************************************)
EXTENDS WebRtc, SequenceTheorems, TLAPS

\* The inductive invariant.
IInv == TypeOK /\ Handshakes

-----------------------------------------------------------------------------
(* Names.                                                                  *)

\* Sessions are told apart by their channel and role, and none is None.
LEMMA Names ==
  /\ \A c \in Channel :
       /\ Out(c) \in Session /\ In(c) \in Session /\ Out(c) # None /\ In(c) # None
       /\ Initiator(c) \in Peer /\ Target(c) \in Peer /\ Initiator(c) # Target(c)
       /\ <<Initiator(c), Target(c)>> = c
       /\ Out(c).channel = c /\ In(c).channel = c
  /\ \A c, d \in Channel :
       Out(c) # In(d) /\ (Out(c) = Out(d) => c = d) /\ (In(c) = In(d) => c = d)
<1>1. ASSUME NEW c \in Channel
      PROVE  Out(c) \in Session /\ In(c) \in Session /\ Out(c).channel = c /\ In(c).channel = c
  BY DEF Out, In, Session
<1>2. ASSUME NEW c \in Channel
      PROVE  /\ Initiator(c) \in Peer /\ Target(c) \in Peer /\ Initiator(c) # Target(c)
             /\ <<Initiator(c), Target(c)>> = c
  BY DEF Channel, Initiator, Target
<1>3. ASSUME NEW c \in Channel, NEW d \in Channel PROVE Out(c) # In(d)
  <2>1. Out(c).role = "out" /\ In(d).role = "in"
    BY DEF Out, In
  <2> QED
    BY <2>1
<1> QED
  BY <1>1, <1>2, <1>3, NoneAssumption

\* So are offers and answers.
LEMMA Messages ==
  /\ \A p \in Peer, n \in Nat :
       Offer(p, n) \in Offers /\ \A o \in Offers : Answer(p, n, o) \in Answers
  /\ \A o \in Offers : o.type = "offer" /\ o # None
  /\ \A a \in Answers : a.type = "answer" /\ a # None /\ a \notin Offers
                        /\ a.peer \in Peer /\ a.number \in Nat
  /\ \A p, n, o : /\ Answer(p, n, o).to = o /\ Answer(p, n, o).peer = p
                  /\ Answer(p, n, o).number = n
<1>1. /\ \A p \in Peer, n \in Nat :
           Offer(p, n) \in Offers /\ \A o \in Offers : Answer(p, n, o) \in Answers
      /\ \A p, n, o : /\ Answer(p, n, o).to = o /\ Answer(p, n, o).peer = p
                      /\ Answer(p, n, o).number = n
  BY DEF Offer, Answer, Offers, Answers
<1>2. \A o \in Offers : o.type = "offer"
  BY DEF Offers
<1>3. \A a \in Answers : a.type = "answer" /\ a.peer \in Peer /\ a.number \in Nat
  BY DEF Answers
<1> QED
  BY <1>1, <1>2, <1>3, NoneAssumption

\* A queue of one message.
LEMMA Singletons ==
  ASSUME NEW S
  PROVE  /\ \A x \in S : /\ <<x>> # <<>> /\ Head(<<x>>) = x /\ Tail(<<x>>) = <<>>
                         /\ Append(<<>>, x) = <<x>> /\ Len(<<x>>) = 1 /\ <<x>> \in Seq(S)
         /\ \A q \in Seq(S) : Len(q) = 1 =>
              q # <<>> /\ Head(q) \in S /\ Tail(q) = <<>>
         /\ \A q \in Seq(S) : q # <<>> => Head(q) \in S /\ Tail(q) \in Seq(S)
         /\ \A q \in Seq(S), x \in S : Append(q, x) \in Seq(S)
<1>1. \A x \in S : /\ <<x>> # <<>> /\ Head(<<x>>) = x
                   /\ Append(<<>>, x) = <<x>> /\ Len(<<x>>) = 1 /\ <<x>> \in Seq(S)
  OBVIOUS
<1>2. \A q \in Seq(S) : q # <<>> => Head(q) \in S /\ Tail(q) \in Seq(S)
  OBVIOUS
<1>3. ASSUME NEW q \in Seq(S), Len(q) = 1 PROVE q # <<>> /\ Head(q) \in S /\ Tail(q) = <<>>
  <2>1. q # <<>>
    BY <1>3, EmptySeq
  <2>2. Tail(q) \in Seq(S) /\ Len(Tail(q)) = 0
    BY <1>3, <2>1, HeadTailProperties
  <2> QED
    BY <1>2, <2>1, <2>2, EmptySeq
<1>4. \A x \in S : Tail(<<x>>) = <<>>
  BY <1>1, <1>3
<1>5. \A q \in Seq(S), x \in S : Append(q, x) \in Seq(S)
  OBVIOUS
<1> QED
  BY <1>1, <1>2, <1>3, <1>4, <1>5

-----------------------------------------------------------------------------
(* Frames: what a step that changes one connection does not disturb.       *)

\* Offers that were given to a connection stay with it.
OffersStay ==
  \A p \in Peer : \A n \in DOMAIN connections[p] :
    /\ n \in DOMAIN connections'[p]
    /\ connections[p][n].remote \in Offers =>
         connections'[p][n].remote = connections[p][n].remote

LEMMA GoodStays ==
  ASSUME OffersStay, NEW p \in Peer, NEW n \in Nat, NEW a, GoodAnswer(a, p, n)
  PROVE  GoodAnswer(a, p, n)'
<1>1. a.to \in Offers /\ a.peer \in Peer
  BY Messages DEF GoodAnswer
<1> QED
  BY <1>1 DEF GoodAnswer, OffersStay

\* A connection that is not changed, nor named otherwise, is as good as before.
LEMMA ConnectionStays ==
  ASSUME TypeOK, OffersStay, NEW p \in Peer, NEW n \in DOMAIN connections[p],
         ConnectionOK(p, n),
         connections'[p][n] = connections[p][n],
         connections[p][n].cls # None => rtc'[connections[p][n].cls] = rtc[connections[p][n].cls],
         \A c \in Channel : connections[p][n].cls = In(c) => rtc'[Out(c)] = rtc[Out(c)],
         \A q \in Peer : sessions[p][q] # <<>> => sessions'[p][q] # <<>>
  PROVE  ConnectionOK(p, n)'
<1>0. n \in Nat
  BY DEF TypeOK
<1>1. CASE Answering(p, n)
  <2>1. Answering(p, n)'
    BY <1>1, Names DEF Answering, OfferOf, Undescribed
  <2> QED
    BY <2>1 DEF ConnectionOK
<1>2. ASSUME NEW c \in Channel, Offering(p, n, c) PROVE ConnectionOK(p, n)'
  <2> DEFINE k == connections[p][n]
  <2>1. k.cls = Out(c) /\ p = Initiator(c) /\ rtc[Out(c)] = n /\ sessions[p][Target(c)] # <<>>
    BY <1>2 DEF Offering
  <2>2. rtc'[Out(c)] = n /\ sessions'[p][Target(c)] # <<>>
    BY <2>1, Names
  <2>3. k.remote = None \/ GoodAnswer(k.remote, p, n)'
    BY <1>0, <1>2, GoodStays DEF Offering
  <2>4. \/ k.toWindow = <<>>
        \/ /\ k.signaling = "have-local-offer"
           /\ Len(k.toWindow) = 1 /\ GoodAnswer(Head(k.toWindow), p, n)'
    BY <1>0, <1>2, GoodStays DEF Offering
  <2>5. Offering(p, n, c)'
    BY <1>2, <2>1, <2>2, <2>3, <2>4 DEF Offering, Undescribed
  <2> QED
    BY <2>5 DEF ConnectionOK
<1> QED
  BY <1>1, <1>2 DEF ConnectionOK

\* The stage of a handshake depends on the channel and on its two connections.
LEMMA ChannelStays ==
  ASSUME TypeOK, OffersStay, NEW c \in Channel, ChannelOK(c),
         cadet'[c] = cadet[c], rtc'[Out(c)] = rtc[Out(c)],
         Unsent(c)' <=> Unsent(c), Unheard(c)' <=> Unheard(c),
         Unanswered(c)' <=> Unanswered(c), NothingBack(c)' <=> NothingBack(c)
  PROVE  ChannelOK(c)'
<1>1. Initiator(c) \in Peer /\ Out(c) \in Session /\ rtc[Out(c)] \in Nat
  BY Names DEF TypeOK
<1>3. OfferOf(c)' = OfferOf(c)
  BY DEF OfferOf
<1>4. GoodAnswer(Head(cadet[c].answers), Initiator(c), rtc[Out(c)])
      => GoodAnswer(Head(cadet[c].answers), Initiator(c), rtc[Out(c)])'
  <2> DEFINE a == Head(cadet[c].answers)
             m == rtc[Out(c)]
  <2>1. ASSUME GoodAnswer(a, Initiator(c), m) PROVE GoodAnswer(a, Initiator(c), m)'
    <3>1. /\ a \in Answers /\ a.to = Offer(Initiator(c), m) /\ a.peer # Initiator(c)
          /\ a.number \in DOMAIN connections[a.peer]
          /\ connections[a.peer][a.number].remote = a.to
      BY <2>1 DEF GoodAnswer
    <3>2. a.peer \in Peer /\ a.to \in Offers
      BY <1>1, <3>1, Messages
    <3>3. /\ a.number \in DOMAIN connections'[a.peer]
          /\ connections'[a.peer][a.number].remote = a.to
      BY <3>1, <3>2 DEF OffersStay
    <3>4. a' = a /\ m' = m
      OBVIOUS
    <3> QED
      BY <3>1, <3>3, <3>4 DEF GoodAnswer
  <2> QED
    BY <2>1
<1> QED
  BY <1>3, <1>4 DEF ChannelOK

\* Connection n of p becomes k, which is of the same session and keeps its offer.
Touches(p, n, k) ==
  /\ n \in DOMAIN connections[p] /\ k \in Connection
  /\ connections' = [connections EXCEPT ![p] = [connections[p] EXCEPT ![n] = k]]
  /\ k.cls = connections[p][n].cls
  /\ connections[p][n].remote \in Offers => k.remote = connections[p][n].remote
  /\ UNCHANGED <<sessions, rtc>>

LEMMA TouchFacts ==
  ASSUME TypeOK, NEW p \in Peer, NEW n, NEW k, Touches(p, n, k)
  PROVE  /\ connections' \in [Peer -> Seq(Connection)] /\ connections'[p][n] = k
         /\ \A q \in Peer : DOMAIN connections'[q] = DOMAIN connections[q]
         /\ \A q \in Peer, m \in Nat : q # p \/ m # n => connections'[q][m] = connections[q][m]
         /\ n \in Nat /\ OffersStay
<1> USE DEF Touches, TypeOK
<1>1. connections[p] \in Seq(Connection) /\ n \in 1 .. Len(connections[p])
  OBVIOUS
<1>2. [connections[p] EXCEPT ![n] = k] \in Seq(Connection)
  BY <1>1
<1>3. connections'[p] = [connections[p] EXCEPT ![n] = k]
      /\ \A q \in Peer : q # p => connections'[q] = connections[q]
  OBVIOUS
<1>4. connections' \in [Peer -> Seq(Connection)]
  BY <1>2
<1>5. connections'[p][n] = k /\ \A m : m # n => connections'[p][m] = connections[p][m]
      /\ DOMAIN connections'[p] = DOMAIN connections[p]
  BY <1>1, <1>3
<1>6. \A q \in Peer : DOMAIN connections'[q] = DOMAIN connections[q]
  BY <1>3, <1>5
<1>7. \A q \in Peer, m \in Nat : q # p \/ m # n => connections'[q][m] = connections[q][m]
  BY <1>3, <1>5
<1>8. OffersStay
  <2> SUFFICES ASSUME NEW q \in Peer, NEW m \in DOMAIN connections[q],
                      connections[q][m].remote \in Offers
               PROVE  connections'[q][m].remote = connections[q][m].remote
    BY <1>6 DEF OffersStay
  <2>1. CASE q = p /\ m = n
    BY <1>5, <2>1
  <2>2. CASE q # p \/ m # n
    BY <1>7, <2>2
  <2> QED
    BY <2>1, <2>2
<1> QED
  BY <1>1, <1>4, <1>5, <1>6, <1>7, <1>8

\* The other connections, and the channels of other sessions, are not disturbed.
LEMMA TouchOthers ==
  ASSUME IInv, NEW p \in Peer, NEW n, NEW k, Touches(p, n, k)
  PROVE  /\ \A q \in Peer : \A m \in DOMAIN connections'[q] :
              q # p \/ m # n => ConnectionOK(q, m)'
         /\ \A c \in Channel :
              cadet'[c] = cadet[c] /\ Out(c) # k.cls /\ In(c) # k.cls => ChannelOK(c)'
<1>0. TypeOK /\ OffersStay /\ rtc' = rtc /\ sessions' = sessions /\ n \in Nat
      /\ k.cls = connections[p][n].cls
  BY TouchFacts DEF IInv, Touches
<1>1. /\ \A q \in Peer : DOMAIN connections'[q] = DOMAIN connections[q]
      /\ \A q \in Peer, m \in Nat : q # p \/ m # n => connections'[q][m] = connections[q][m]
      /\ \A q \in Peer : DOMAIN connections[q] \subseteq Nat
      /\ connections'[p][n] = k
  BY <1>0, TouchFacts DEF TypeOK
<1>2. ASSUME NEW q \in Peer, NEW m \in DOMAIN connections'[q], q # p \/ m # n
      PROVE  ConnectionOK(q, m)'
  <2>1. m \in DOMAIN connections[q] /\ connections'[q][m] = connections[q][m]
    BY <1>1, <1>2
  <2>2. ConnectionOK(q, m)
    BY <2>1 DEF IInv, Handshakes
  <2> QED
    BY <1>0, <2>1, <2>2, ConnectionStays
<1>3. ASSUME NEW c \in Channel, cadet'[c] = cadet[c], Out(c) # k.cls, In(c) # k.cls
      PROVE  ChannelOK(c)'
  <2>1. Initiator(c) \in Peer /\ Target(c) \in Peer
    BY Names
  <2>2. ASSUME NEW q \in Peer, NEW m \in DOMAIN connections[q]
        PROVE  /\ connections'[q][m].cls = connections[q][m].cls
               /\ connections[q][m].cls \in {Out(c), In(c)} =>
                    connections'[q][m] = connections[q][m]
    BY <1>0, <1>1, <1>3
  <2>3. Unsent(c)' <=> Unsent(c)
    BY <1>1, <2>1, <2>2 DEF Unsent, Undescribed
  <2>4. Unheard(c)' <=> Unheard(c)
    BY <1>1, <2>1, <2>2 DEF Unheard
  <2>5. Unanswered(c)' <=> Unanswered(c)
    BY <1>1, <2>1, <2>2 DEF Unanswered, Undescribed
  <2>6. NothingBack(c)' <=> NothingBack(c)
    BY <1>1, <2>1, <2>2 DEF NothingBack
  <2>7. ChannelOK(c)
    BY DEF IInv, Handshakes
  <2> QED
    BY <1>0, <1>3, <2>3, <2>4, <2>5, <2>6, <2>7, ChannelStays
<1> QED
  BY <1>2, <1>3

-----------------------------------------------------------------------------
(* Stages: what the connections of a channel say of it.                    *)

AllConnections == \A p \in Peer : \A n \in DOMAIN connections[p] : ConnectionOK(p, n)

\* A session has one connection, at the number it knows, so that the stage of the
\* channel is the state of that connection.
Stages(p, n, c) ==
  LET k == connections[p][n] IN
    /\ k.cls = Out(c) =>
         /\ Offering(p, n, c)
         /\ Unsent(c) <=> Undescribed(k) \/ k.toWorker # <<>>
         /\ NothingBack(c) <=> k.toWindow = <<>> /\ k.signaling # "stable"
    /\ k.cls = In(c) =>
         /\ Answering(p, n) /\ p = Target(c) /\ k.remote = OfferOf(c) /\ ~Unheard(c)
         /\ Unanswered(c) <=> Undescribed(k) \/ k.toWorker # <<>>

LEMMA StagesHold ==
  ASSUME TypeOK, AllConnections, NEW p \in Peer, NEW n \in DOMAIN connections[p],
         NEW c \in Channel
  PROVE  Stages(p, n, c)
<1> DEFINE k == connections[p][n]
<1>0. Initiator(c) \in Peer /\ Target(c) \in Peer /\ Out(c) # None /\ In(c) # None
      /\ Out(c) # In(c)
  BY Names
<1>1. ASSUME NEW q \in Peer, NEW m \in DOMAIN connections[q], connections[q][m].cls = Out(c)
      PROVE  Offering(q, m, c) /\ q = Initiator(c) /\ m = rtc[Out(c)]
  <2>1. ConnectionOK(q, m)
    BY DEF AllConnections
  <2>2. ~Answering(q, m)
    BY <1>0, <1>1, Names DEF Answering
  <2>3. PICK d \in Channel : Offering(q, m, d)
    BY <2>1, <2>2 DEF ConnectionOK
  <2>4. Out(d) = Out(c)
    BY <1>1, <2>3 DEF Offering
  <2>5. d = c
    BY <2>4, Names
  <2> QED
    BY <2>3, <2>5 DEF Offering
<1>2. ASSUME NEW q \in Peer, NEW m \in DOMAIN connections[q], connections[q][m].cls = In(c)
      PROVE  /\ Answering(q, m) /\ q = Target(c) /\ m = rtc[In(c)]
             /\ connections[q][m].remote = OfferOf(c)
  <2>1. ConnectionOK(q, m)
    BY DEF AllConnections
  <2>2. \A d \in Channel : ~Offering(q, m, d)
    BY <1>2, Names DEF Offering
  <2>3. Answering(q, m)
    BY <2>1, <2>2 DEF ConnectionOK
  <2>4. PICK d \in Channel : /\ In(c) = In(d) /\ q = Target(d) /\ rtc[In(d)] = m
                             /\ connections[q][m].remote = OfferOf(d)
    BY <1>0, <1>2, <2>3 DEF Answering
  <2>5. d = c
    BY <2>4, Names
  <2> QED
    BY <2>3, <2>4, <2>5
<1>3. ASSUME k.cls = Out(c)
      PROVE  /\ Offering(p, n, c)
             /\ Unsent(c) <=> Undescribed(k) \/ k.toWorker # <<>>
             /\ NothingBack(c) <=> k.toWindow = <<>> /\ k.signaling # "stable"
  <2>1. Offering(p, n, c) /\ p = Initiator(c) /\ n = rtc[Out(c)]
    BY <1>1, <1>3
  <2>2. \A m \in DOMAIN connections[p] : connections[p][m].cls = Out(c) => m = n
    BY <1>1, <2>1
  <2> HIDE DEF k
  <2>3. Unsent(c) <=> Undescribed(k) \/ k.toWorker # <<>>
    BY <1>3, <2>1, <2>2 DEF Unsent, k
  <2>4. NothingBack(c) <=> k.toWindow = <<>> /\ k.signaling # "stable"
    BY <1>3, <2>1, <2>2 DEF NothingBack, k
  <2> QED
    BY <2>1, <2>3, <2>4
<1>4. ASSUME k.cls = In(c)
      PROVE  /\ Answering(p, n) /\ p = Target(c) /\ k.remote = OfferOf(c) /\ ~Unheard(c)
             /\ Unanswered(c) <=> Undescribed(k) \/ k.toWorker # <<>>
  <2>1. Answering(p, n) /\ p = Target(c) /\ n = rtc[In(c)] /\ k.remote = OfferOf(c)
    BY <1>2, <1>4
  <2>2. \A m \in DOMAIN connections[p] : connections[p][m].cls = In(c) => m = n
    BY <1>2, <2>1
  <2>3. ~Unheard(c)
    BY <1>4, <2>1 DEF Unheard
  <2> HIDE DEF k
  <2>4. Unanswered(c) <=> Undescribed(k) \/ k.toWorker # <<>>
    BY <1>4, <2>1, <2>2 DEF Unanswered, k
  <2> QED
    BY <2>1, <2>3, <2>4
<1> QED
  BY <1>3, <1>4 DEF Stages

\* The same of the state after a step.
LEMMA StagesPrimed ==
  ASSUME NEW p \in Peer, NEW n, NEW c \in Channel
  PROVE  TypeOK' /\ AllConnections' /\ n \in DOMAIN connections'[p] => Stages(p, n, c)'
<1> DEFINE Known == n \in DOMAIN connections[p]
           Holds == Stages(p, n, c)
<1>1. TypeOK /\ AllConnections /\ Known => Holds
  BY StagesHold
<1> HIDE DEF Known, Holds
<1>2. TypeOK' /\ AllConnections' /\ Known' => Holds'
  BY <1>1, PTL
<1> QED
  BY <1>2 DEF Known, Holds

\* A connection that is touched leaves the invariant as it is, if the connection and
\* the channel of its session are as they should be.
LEMMA TouchDone ==
  ASSUME IInv, NEW p \in Peer, NEW n, NEW k, Touches(p, n, k), TypeOK', ConnectionOK(p, n)',
         \A c \in Channel :
           IF k.cls \in {Out(c), In(c)} THEN ChannelOK(c)' ELSE cadet'[c] = cadet[c]
  PROVE  IInv'
<1>1. AllConnections'
  BY TouchOthers DEF AllConnections
<1>2. \A c \in Channel : ChannelOK(c)'
  BY TouchOthers
<1> QED
  BY <1>1, <1>2 DEF IInv, Handshakes, AllConnections

\* How the stage of its channel follows from a connection that is touched.
LEMMA TouchStages ==
  ASSUME IInv, NEW p \in Peer, NEW n, NEW k, Touches(p, n, k), TypeOK', ConnectionOK(p, n)',
         NEW c \in Channel
  PROVE  /\ Stages(p, n, c) /\ k.cls = connections[p][n].cls
         /\ k.cls = Out(c) =>
              /\ Unheard(c)' <=> Unheard(c)
              /\ Unanswered(c)' <=> Unanswered(c)
              /\ Unsent(c)' <=> Undescribed(k) \/ k.toWorker # <<>>
              /\ NothingBack(c)' <=> k.toWindow = <<>> /\ k.signaling # "stable"
         /\ k.cls = In(c) =>
              /\ Unsent(c)' <=> Unsent(c)
              /\ NothingBack(c)' <=> NothingBack(c)
              /\ ~Unheard(c)'
              /\ Unanswered(c)' <=> Undescribed(k) \/ k.toWorker # <<>>
<1>1. /\ connections'[p][n] = k /\ n \in DOMAIN connections[p] /\ n \in DOMAIN connections'[p]
      /\ k.cls = connections[p][n].cls
      /\ \A q \in Peer : q # p => connections'[q] = connections[q]
  BY TouchFacts DEF IInv, Touches, TypeOK
<1>2. AllConnections'
  BY TouchOthers DEF AllConnections
<1>3. Stages(p, n, c)'
  BY <1>1, <1>2, StagesPrimed
<1>4. Stages(p, n, c)
  BY <1>1, StagesHold DEF IInv, Handshakes, AllConnections
<1>5. Initiator(c) \in Peer /\ Target(c) \in Peer /\ Initiator(c) # Target(c)
  BY Names
<1>6. ASSUME k.cls = Out(c)
      PROVE  /\ Unheard(c)' <=> Unheard(c)
             /\ Unanswered(c)' <=> Unanswered(c)
             /\ Unsent(c)' <=> Undescribed(k) \/ k.toWorker # <<>>
             /\ NothingBack(c)' <=> k.toWindow = <<>> /\ k.signaling # "stable"
  <2>1. p = Initiator(c)
    BY <1>1, <1>4, <1>6 DEF Stages, Offering
  <2>2. connections'[Target(c)] = connections[Target(c)]
    BY <1>1, <1>5, <2>1
  <2>3. (Unheard(c)' <=> Unheard(c)) /\ (Unanswered(c)' <=> Unanswered(c))
    BY <2>2 DEF Unheard, Unanswered, Undescribed
  <2>4. /\ Unsent(c)' <=> Undescribed(k) \/ k.toWorker # <<>>
        /\ NothingBack(c)' <=> k.toWindow = <<>> /\ k.signaling # "stable"
    BY <1>1, <1>3, <1>6 DEF Stages, Undescribed
  <2> QED
    BY <2>3, <2>4
<1>7. ASSUME k.cls = In(c)
      PROVE  /\ Unsent(c)' <=> Unsent(c)
             /\ NothingBack(c)' <=> NothingBack(c)
             /\ ~Unheard(c)'
             /\ Unanswered(c)' <=> Undescribed(k) \/ k.toWorker # <<>>
  <2>1. p = Target(c)
    BY <1>1, <1>4, <1>7 DEF Stages
  <2>2. connections'[Initiator(c)] = connections[Initiator(c)]
    BY <1>1, <1>5, <2>1
  <2>3. (Unsent(c)' <=> Unsent(c)) /\ (NothingBack(c)' <=> NothingBack(c))
    BY <2>2 DEF Unsent, NothingBack, Undescribed
  <2>4. ~Unheard(c)' /\ (Unanswered(c)' <=> Undescribed(k) \/ k.toWorker # <<>>)
    BY <1>1, <1>3, <1>7 DEF Stages, Undescribed
  <2> QED
    BY <2>3, <2>4
<1> QED
  BY <1>1, <1>4, <1>6, <1>7

\* A step within a stage leaves the channels as they are.
LEMMA TouchQuiet ==
  ASSUME IInv, NEW p \in Peer, NEW n, NEW k, Touches(p, n, k), TypeOK', ConnectionOK(p, n)',
         cadet' = cadet,
         Undescribed(k) \/ k.toWorker # <<>>
           <=> Undescribed(connections[p][n]) \/ connections[p][n].toWorker # <<>>,
         (\E c \in Channel : k.cls = Out(c)) =>
           (k.toWindow = <<>> /\ k.signaling # "stable"
              <=> connections[p][n].toWindow = <<>> /\ connections[p][n].signaling # "stable")
  PROVE  IInv'
<1>1. ASSUME NEW c \in Channel, k.cls \in {Out(c), In(c)} PROVE ChannelOK(c)'
  <2>1. ChannelOK(c) /\ TypeOK /\ OffersStay /\ rtc' = rtc
    BY TouchFacts DEF IInv, Handshakes, Touches
  <2>2. CASE k.cls = Out(c)
    <3>1. (Unsent(c)' <=> Unsent(c)) /\ (NothingBack(c)' <=> NothingBack(c))
      BY <2>2, TouchStages DEF Stages
    <3>2. (Unheard(c)' <=> Unheard(c)) /\ (Unanswered(c)' <=> Unanswered(c))
      BY <2>2, TouchStages
    <3> QED
      BY <2>1, <3>1, <3>2, ChannelStays
  <2>3. CASE k.cls = In(c)
    <3>1. (Unsent(c)' <=> Unsent(c)) /\ (NothingBack(c)' <=> NothingBack(c))
      BY <2>3, TouchStages
    <3>2. (Unheard(c)' <=> Unheard(c)) /\ (Unanswered(c)' <=> Unanswered(c))
      BY <2>3, TouchStages DEF Stages
    <3> QED
      BY <2>1, <3>1, <3>2, ChannelStays
  <2> QED
    BY <1>1, <2>2, <2>3
<1> QED
  BY <1>1, TouchDone

\* Only connections change.
LEMMA TouchTypes ==
  ASSUME TypeOK, NEW p \in Peer, NEW n, NEW k, Touches(p, n, k),
         cadet' \in [Channel -> ChannelState],
         stopped' \in SUBSET Peer,
         UNCHANGED <<firstTab, monitor, seen, losses>>
  PROVE  TypeOK'
<1>1. connections' \in [Peer -> Seq(Connection)] /\ UNCHANGED <<sessions, rtc>>
  BY TouchFacts DEF Touches
<1> QED
  BY <1>1 DEF TypeOK

LEMMA TouchTypesQuiet ==
  ASSUME TypeOK, NEW p \in Peer, NEW n, NEW k, Touches(p, n, k),
         UNCHANGED <<cadet, stopped, firstTab, monitor, seen, losses>>
  PROVE  /\ TypeOK' /\ OffersStay /\ connections'[p][n] = k /\ n \in Nat
         /\ rtc' = rtc /\ sessions' = sessions
<1>1. cadet' \in [Channel -> ChannelState] /\ stopped' \in SUBSET Peer
  BY DEF TypeOK
<1> QED
  BY <1>1, TouchFacts, TouchTypes DEF Touches

-----------------------------------------------------------------------------
(* The steps of the tab.                                                   *)

LEMMA WindowConnectsOK ==
  ASSUME IInv, NEW p \in Peer, NEW n \in DOMAIN connections[p], WindowConnects(p, n)
  PROVE  IInv'
<1> DEFINE k0 == connections[p][n]
           k == [k0 EXCEPT !.signaling = "creating"]
<1>1. k0 \in Connection /\ TypeOK /\ ConnectionOK(p, n)
  BY DEF IInv, Handshakes, TypeOK
<1>2. /\ k \in Connection /\ k.cls = k0.cls /\ k.remote = k0.remote
      /\ k.toWorker = k0.toWorker /\ k.toWindow = k0.toWindow /\ k.signaling = "creating"
  BY <1>1 DEF Connection, Signaling
<1>3. k0.signaling = "requested"
  BY DEF WindowConnects
<1>4. Touches(p, n, k) /\ UNCHANGED <<cadet, stopped, firstTab, monitor, seen, losses>>
  BY <1>2 DEF WindowConnects, Touches, monitorVars
<1> HIDE DEF k
<1>5. /\ TypeOK' /\ OffersStay /\ connections'[p][n] = k /\ n \in Nat
      /\ rtc' = rtc /\ sessions' = sessions
  BY <1>1, <1>4, TouchTypesQuiet
<1>6. ConnectionOK(p, n)'
  <2>1. CASE Answering(p, n)
    BY <1>2, <1>3, <1>5, <2>1 DEF Answering, ConnectionOK, Undescribed, OfferOf
  <2>2. ASSUME NEW c \in Channel, Offering(p, n, c) PROVE ConnectionOK(p, n)'
    <3>1. Offering(p, n, c)'
      BY <1>2, <1>3, <1>5, <2>2 DEF Offering, Undescribed
    <3> QED
      BY <3>1 DEF ConnectionOK
  <2> QED
    BY <1>1, <2>1, <2>2 DEF ConnectionOK
<1> QED
  BY <1>2, <1>3, <1>4, <1>5, <1>6, TouchQuiet DEF Undescribed

LEMMA WindowDescribesOK ==
  ASSUME IInv, NEW p \in Peer, NEW n \in DOMAIN connections[p], WindowDescribes(p, n)
  PROVE  IInv'
<1> DEFINE k0 == connections[p][n]
<1>1. k0 \in Connection /\ TypeOK /\ ConnectionOK(p, n) /\ n \in Nat
  BY DEF IInv, Handshakes, TypeOK
<1>2. k0.signaling = "creating" /\ UNCHANGED <<cadet, stopped, firstTab, monitor, seen, losses>>
  BY DEF WindowDescribes, monitorVars
<1>3. k0.toWorker = <<>>
  BY <1>1, <1>2 DEF ConnectionOK, Answering, Offering, Undescribed
<1>4. CASE k0.remote = None
  <2> DEFINE k == [k0 EXCEPT !.signaling = "have-local-offer", !.toWorker = <<Offer(p, n)>>]
  <2>1. Offer(p, n) \in Offers \cup Answers /\ <<Offer(p, n)>> # <<>>
        /\ Append(<<>>, Offer(p, n)) = <<Offer(p, n)>>
        /\ <<Offer(p, n)>> \in Seq(Offers \cup Answers)
    BY <1>1, Messages, Singletons
  <2>2. /\ k \in Connection /\ k.cls = k0.cls /\ k.remote = k0.remote
        /\ k.toWorker = <<Offer(p, n)>> /\ k.toWindow = k0.toWindow
        /\ k.signaling = "have-local-offer"
    BY <1>1, <2>1 DEF Connection, Signaling
  <2>3. k = [k0 EXCEPT !.signaling = "have-local-offer", !.toWorker = Append(@, Offer(p, n))]
    BY <1>1, <1>3, <2>1 DEF Connection
  <2>4. Touches(p, n, k)
    <3>1. connections' = [connections EXCEPT ![p] = [connections[p] EXCEPT ![n] = k]]
      BY <1>4, <2>3 DEF WindowDescribes
    <3> QED
      BY <2>2, <3>1 DEF WindowDescribes, Touches
  <2> HIDE DEF k
  <2>5. /\ TypeOK' /\ OffersStay /\ connections'[p][n] = k /\ rtc' = rtc /\ sessions' = sessions
    BY <1>1, <1>2, <2>4, TouchTypesQuiet
  <2>6. PICK c \in Channel : Offering(p, n, c)
    BY <1>1, <1>4, Messages DEF ConnectionOK, Answering
  <2>7. Offering(p, n, c)'
    BY <1>2, <1>3, <1>4, <2>2, <2>5, <2>6 DEF Offering, Undescribed
  <2>8. ConnectionOK(p, n)'
    BY <2>7 DEF ConnectionOK
  <2> QED
    BY <1>2, <1>3, <2>1, <2>2, <2>4, <2>5, <2>8, TouchQuiet DEF Undescribed
<1>5. CASE k0.remote # None
  <2> DEFINE a == Answer(p, n, k0.remote)
             k == [k0 EXCEPT !.signaling = "stable", !.toWorker = <<a>>]
  <2>1. Answering(p, n)
    BY <1>1, <1>2, <1>5 DEF ConnectionOK, Offering, Undescribed
  <2>2. a \in Offers \cup Answers
    BY <1>1, <2>1, Messages DEF Answering
  <2>3. <<a>> # <<>> /\ Append(<<>>, a) = <<a>> /\ <<a>> \in Seq(Offers \cup Answers)
    BY <2>2, Singletons
  <2> HIDE DEF a
  <2>4. /\ k \in Connection /\ k.cls = k0.cls /\ k.remote = k0.remote
        /\ k.toWorker = <<a>> /\ k.toWindow = k0.toWindow /\ k.signaling = "stable"
    BY <1>1, <2>3 DEF Connection, Signaling
  <2>5. k = [k0 EXCEPT !.signaling = "stable", !.toWorker = Append(@, a)]
    BY <1>1, <1>3, <2>3 DEF Connection
  <2>6. Touches(p, n, k)
    <3>1. connections' = [connections EXCEPT ![p] = [connections[p] EXCEPT ![n] = k]]
      BY <1>5, <2>5 DEF WindowDescribes, a
    <3> QED
      BY <2>4, <3>1 DEF WindowDescribes, Touches
  <2> HIDE DEF k
  <2>7. /\ TypeOK' /\ OffersStay /\ connections'[p][n] = k /\ rtc' = rtc /\ sessions' = sessions
    BY <1>1, <1>2, <2>6, TouchTypesQuiet
  <2>8. Answering(p, n)'
    BY <2>1, <2>4, <2>7 DEF Answering, OfferOf, Undescribed, a
  <2>9. ConnectionOK(p, n)' /\ ~\E c \in Channel : k.cls = Out(c)
    BY <2>1, <2>4, <2>8, Names DEF ConnectionOK, Answering
  <2> QED
    BY <1>2, <1>3, <2>3, <2>4, <2>6, <2>7, <2>9, TouchQuiet DEF Undescribed
<1> QED
  BY <1>4, <1>5

LEMMA WindowAnsweredOK ==
  ASSUME IInv, NEW p \in Peer, NEW n \in DOMAIN connections[p], WindowAnswered(p, n)
  PROVE  IInv'
<1> DEFINE k0 == connections[p][n]
           a == Head(k0.toWindow)
           k == [k0 EXCEPT !.signaling = "stable", !.remote = a, !.toWindow = <<>>]
<1>1. k0 \in Connection /\ TypeOK /\ ConnectionOK(p, n) /\ n \in Nat
  BY DEF IInv, Handshakes, TypeOK
<1>2. k0.toWindow # <<>> /\ UNCHANGED <<cadet, stopped, firstTab, monitor, seen, losses>>
  BY DEF WindowAnswered, monitorVars
<1>3. PICK c \in Channel : Offering(p, n, c)
  BY <1>1, <1>2 DEF ConnectionOK, Answering
<1>4. /\ k0.signaling = "have-local-offer" /\ k0.remote = None
      /\ Len(k0.toWindow) = 1 /\ GoodAnswer(a, p, n)
  BY <1>2, <1>3 DEF Offering, Undescribed
<1>5. a \in Answers /\ Tail(k0.toWindow) = <<>> /\ <<>> \in Seq(Answers)
  <2>1. a \in Answers
    BY <1>4 DEF GoodAnswer
  <2>2. k0.toWindow \in Seq(Answers)
    BY <1>1 DEF Connection
  <2> QED
    BY <1>4, <2>1, <2>2, Singletons
<1> HIDE DEF a
<1>6. /\ k \in Connection /\ k.cls = k0.cls /\ k.remote = a
      /\ k.toWorker = k0.toWorker /\ k.toWindow = <<>> /\ k.signaling = "stable"
  BY <1>1, <1>5 DEF Connection, Signaling
<1>7. Touches(p, n, k)
  <2>1. k = [k0 EXCEPT !.signaling = "stable", !.remote = Head(k0.toWindow), !.toWindow = Tail(@)]
    BY <1>1, <1>5 DEF Connection, a
  <2>2. connections' = [connections EXCEPT ![p] = [connections[p] EXCEPT ![n] = k]]
    BY <1>4, <2>1 DEF WindowAnswered
  <2>3. k0.remote \notin Offers
    BY <1>4, Messages
  <2> QED
    BY <1>6, <2>2, <2>3 DEF WindowAnswered, Touches
<1> HIDE DEF k
<1>8. /\ TypeOK' /\ OffersStay /\ connections'[p][n] = k /\ rtc' = rtc /\ sessions' = sessions
  BY <1>1, <1>2, <1>7, TouchTypesQuiet
<1>9. ConnectionOK(p, n)'
  <2>1. ASSUME NEW x, x = a PROVE GoodAnswer(x, p, n)'
    BY <1>1, <1>4, <1>8, <2>1, GoodStays
  <2>2. GoodAnswer(connections[p][n].remote, p, n)'
    <3>1. connections'[p][n].remote = a
      BY <1>6, <1>8
    <3> QED
      BY <2>1, <3>1 DEF GoodAnswer
  <2>3. Offering(p, n, c)'
    BY <1>3, <1>6, <1>8, <2>2 DEF Offering, Undescribed
  <2> QED
    BY <2>3 DEF ConnectionOK
<1> QED
  BY <1>2, <1>4, <1>6, <1>7, <1>8, <1>9, TouchQuiet DEF Undescribed

LEMMA WindowRejectsOK ==
  ASSUME IInv, NEW p \in Peer, NEW n \in DOMAIN connections[p], WindowRejects(p, n)
  PROVE  IInv'
<1> DEFINE k0 == connections[p][n]
<1>1. k0 \in Connection /\ TypeOK /\ ConnectionOK(p, n) /\ n \in Nat
  BY DEF IInv, Handshakes, TypeOK
<1>2. UNCHANGED <<sessions, rtc, cadet, stopped, firstTab, monitor, seen>>
  BY DEF WindowRejects, monitorVars
<1>3. ASSUME NEW k, Touches(p, n, k)
      PROVE  /\ TypeOK' /\ OffersStay /\ connections'[p][n] = k
             /\ rtc' = rtc /\ sessions' = sessions /\ cadet' = cadet
  <2>1. /\ connections' \in [Peer -> Seq(Connection)] /\ OffersStay
        /\ connections'[p][n] = k
    BY <1>1, <1>3, TouchFacts
  <2>2. losses' \in 0 .. MaxLoss
    BY <1>1, LossAssumption DEF WindowRejects, TypeOK
  <2> QED
    BY <1>1, <1>2, <2>1, <2>2 DEF TypeOK
<1>4. CASE k0.signaling = "creating" /\ connections' = [connections EXCEPT ![p][n].signaling = "failed"]
  <2> DEFINE k == [k0 EXCEPT !.signaling = "failed"]
  <2>1. /\ k \in Connection /\ k.cls = k0.cls /\ k.remote = k0.remote
        /\ k.toWorker = k0.toWorker /\ k.toWindow = k0.toWindow /\ k.signaling = "failed"
    BY <1>1 DEF Connection, Signaling
  <2>2. Touches(p, n, k)
    BY <1>2, <1>4, <2>1 DEF Touches
  <2> HIDE DEF k
  <2>3. /\ TypeOK' /\ OffersStay /\ connections'[p][n] = k /\ rtc' = rtc
        /\ sessions' = sessions /\ cadet' = cadet
    BY <1>3, <2>2
  <2>4. ConnectionOK(p, n)'
    <3>1. CASE Answering(p, n)
      BY <1>4, <2>1, <2>3, <3>1 DEF Answering, ConnectionOK, Undescribed, OfferOf
    <3>2. ASSUME NEW c \in Channel, Offering(p, n, c) PROVE ConnectionOK(p, n)'
      <4>1. Offering(p, n, c)'
        BY <1>4, <2>1, <2>3, <3>2 DEF Offering, Undescribed
      <4> QED
        BY <4>1 DEF ConnectionOK
    <3> QED
      BY <1>1, <3>1, <3>2 DEF ConnectionOK
  <2> QED
    BY <1>4, <2>1, <2>2, <2>3, <2>4, TouchQuiet DEF Undescribed
<1>5. CASE /\ k0.signaling = "have-local-offer" /\ k0.toWindow # <<>>
           /\ connections' = [connections EXCEPT ![p][n].toWindow = Tail(@)]
  <2> DEFINE k == [k0 EXCEPT !.toWindow = <<>>]
  <2>1. PICK c \in Channel : Offering(p, n, c)
    BY <1>1, <1>5 DEF ConnectionOK, Answering
  <2>2. k0.remote = None /\ Len(k0.toWindow) = 1
    BY <1>5, <2>1 DEF Offering
  <2>3. Tail(k0.toWindow) = <<>> /\ <<>> \in Seq(Answers)
    <3>1. k0.toWindow \in Seq(Answers)
      BY <1>1 DEF Connection
    <3> QED
      BY <2>2, <3>1, Singletons
  <2>4. /\ k \in Connection /\ k.cls = k0.cls /\ k.remote = None
        /\ k.toWorker = k0.toWorker /\ k.toWindow = <<>> /\ k.signaling = "have-local-offer"
    BY <1>1, <1>5, <2>2, <2>3 DEF Connection
  <2>5. Touches(p, n, k)
    <3>1. k = [k0 EXCEPT !.toWindow = Tail(@)]
      BY <1>1, <2>3 DEF Connection
    <3>2. connections' = [connections EXCEPT ![p] = [connections[p] EXCEPT ![n] = k]]
      BY <1>5, <3>1
    <3> QED
      BY <1>2, <2>2, <2>4, <3>2 DEF Touches
  <2> HIDE DEF k
  <2>6. /\ TypeOK' /\ OffersStay /\ connections'[p][n] = k /\ rtc' = rtc
        /\ sessions' = sessions /\ cadet' = cadet
    BY <1>3, <2>5
  <2>7. ConnectionOK(p, n)'
    <3>1. Offering(p, n, c)'
      BY <1>5, <2>1, <2>4, <2>6 DEF Offering, Undescribed
    <3> QED
      BY <3>1 DEF ConnectionOK
  <2>8. ASSUME NEW d \in Channel, k.cls \in {Out(d), In(d)} PROVE ChannelOK(d)'
    <3>1. k.cls = Out(d)
      BY <2>1, <2>4, <2>8, Names DEF Offering
    <3>2. ChannelOK(d)
      BY DEF IInv, Handshakes
    <3>3. /\ Unheard(d)' <=> Unheard(d)
          /\ Unsent(d)' <=> Undescribed(k) \/ k.toWorker # <<>>
          /\ Unanswered(d)' <=> Unanswered(d)
          /\ NothingBack(d)'
      BY <2>4, <2>5, <2>6, <2>7, <3>1, TouchStages
    <3>4. /\ Unsent(d) <=> Undescribed(k0) \/ k0.toWorker # <<>>
          /\ ~NothingBack(d)
      BY <1>5, <2>4, <2>5, <2>6, <2>7, <3>1, TouchStages DEF Stages
    <3>5. (Unsent(d)' <=> Unsent(d)) /\ cadet[d].answers = <<>>
      BY <1>5, <2>4, <3>2, <3>3, <3>4 DEF Undescribed, ChannelOK
    <3> QED
      BY <2>6, <3>2, <3>3, <3>5 DEF ChannelOK, OfferOf
  <2> QED
    BY <2>5, <2>6, <2>7, <2>8, TouchDone
<1> QED
  BY <1>4, <1>5 DEF WindowRejects

-----------------------------------------------------------------------------
(* The steps of the worker that move an offer or an answer.                *)

\* The state of one channel is replaced.
LEMMA CadetTypes ==
  ASSUME TypeOK, NEW c \in Channel, NEW r \in ChannelState, cadet' = [cadet EXCEPT ![c] = r]
  PROVE  /\ cadet' \in [Channel -> ChannelState] /\ cadet'[c] = r
         /\ \A d \in Channel : d # c => cadet'[d] = cadet[d]
BY DEF TypeOK

\* An answer on its way to the initiator finds the connection that has offered.
LEMMA AnswerFinds ==
  ASSUME IInv, NEW c \in Channel, cadet[c].answers # <<>>
  PROVE  /\ rtc[Out(c)] \in DOMAIN connections[Initiator(c)]
         /\ Offering(Initiator(c), rtc[Out(c)], c) /\ Stages(Initiator(c), rtc[Out(c)], c)
         /\ ~Unsent(c) /\ ~Unanswered(c) /\ NothingBack(c)
         /\ Len(cadet[c].answers) = 1
         /\ GoodAnswer(Head(cadet[c].answers), Initiator(c), rtc[Out(c)])
<1>1. /\ Len(cadet[c].answers) = 1 /\ ~Unanswered(c) /\ NothingBack(c)
      /\ GoodAnswer(Head(cadet[c].answers), Initiator(c), rtc[Out(c)])
      /\ Unsent(c) => Unheard(c)
  BY DEF IInv, Handshakes, ChannelOK
<1>2. ~Unheard(c)
  BY <1>1 DEF Unheard, Unanswered
<1>3. ~Unsent(c)
  BY <1>1, <1>2
<1>4. PICK m \in DOMAIN connections[Initiator(c)] : connections[Initiator(c)][m].cls = Out(c)
  BY <1>3 DEF Unsent
<1>5. Stages(Initiator(c), m, c)
  BY Names, StagesHold DEF IInv, Handshakes, AllConnections
<1>6. Offering(Initiator(c), m, c) /\ m = rtc[Out(c)]
  BY <1>4, <1>5 DEF Stages, Offering
<1> QED
  BY <1>1, <1>3, <1>5, <1>6

LEMMA HandleAnswerOK ==
  ASSUME IInv, NEW c \in Channel, HandleAnswer(c)
  PROVE  IInv'
<1> DEFINE p == Initiator(c)
<1>0. PICK n, a : n = rtc[Out(c)] /\ a = Head(cadet[c].answers)
  OBVIOUS
<1> DEFINE k0 == connections[p][n]
           r == [cadet[c] EXCEPT !.answers = <<>>]
           k == IF k0.signaling = "gone" THEN k0 ELSE [k0 EXCEPT !.toWindow = <<a>>]
<1>1. /\ cadet[c].answers # <<>> /\ TypeOK /\ p \in Peer
      /\ UNCHANGED <<sessions, rtc, firstTab, stopped, monitor, seen, losses>>
      /\ cadet' = [cadet EXCEPT ![c].answers = Tail(@)]
      /\ connections' = [connections EXCEPT ![p][n].toWindow =
           IF k0.signaling = "gone" THEN @ ELSE Append(@, a)]
  <2>1. /\ cadet[c].answers # <<>>
        /\ UNCHANGED <<sessions, rtc, firstTab, stopped, monitor, seen, losses>>
        /\ cadet' = [cadet EXCEPT ![c].answers = Tail(@)]
    BY DEF HandleAnswer, monitorVars
  <2>2. connections' = [connections EXCEPT ![p][n].toWindow =
           IF k0.signaling = "gone" THEN @ ELSE Append(@, a)]
    <3>1. connections' = [connections EXCEPT ![p][rtc[Out(c)]].toWindow =
             IF connections[p][rtc[Out(c)]].signaling = "gone" THEN @
             ELSE Append(@, Head(cadet[c].answers))]
      BY DEF HandleAnswer, AnswerContext
    <3> QED
      BY <1>0, <3>1
  <2> QED
    BY <2>1, <2>2, Names DEF IInv
<1>2. /\ n \in DOMAIN connections[p] /\ Offering(p, n, c) /\ Stages(p, n, c)
      /\ ~Unsent(c) /\ ~Unanswered(c) /\ NothingBack(c)
      /\ Len(cadet[c].answers) = 1 /\ GoodAnswer(a, p, n)
  BY <1>0, <1>1, AnswerFinds
<1>3. /\ k0 \in Connection /\ cadet[c] \in ChannelState /\ n \in Nat
      /\ cadet[c].answers \in Seq(Answers)
  BY <1>1, <1>2 DEF TypeOK, ChannelState
<1>4. /\ Tail(cadet[c].answers) = <<>> /\ a \in Answers /\ <<a>> \in Seq(Answers)
      /\ Append(<<>>, a) = <<a>> /\ Head(<<a>>) = a /\ Len(<<a>>) = 1
  <2>1. a \in Answers
    BY <1>2 DEF GoodAnswer
  <2> QED
    BY <1>2, <1>3, <2>1, Singletons
<1>5. /\ k0.toWindow = <<>> /\ k0.signaling # "stable" /\ ~Undescribed(k0) /\ k0.toWorker = <<>>
      /\ k0.cls = Out(c)
  BY <1>2 DEF Stages, Offering
<1>6. k0.signaling \in {"have-local-offer", "gone"}
  BY <1>3, <1>5 DEF Connection, Signaling, Undescribed
<1>7. /\ r \in ChannelState /\ r.context = cadet[c].context /\ r.offers = cadet[c].offers
      /\ r.answers = <<>>
  <2>1. <<>> \in Seq(Answers)
    OBVIOUS
  <2> QED
    BY <1>3, <2>1 DEF ChannelState
<1>8. /\ cadet' \in [Channel -> ChannelState] /\ cadet'[c] = r
      /\ \A d \in Channel : d # c => cadet'[d] = cadet[d]
  <2>1. cadet' = [cadet EXCEPT ![c] = r]
    BY <1>1, <1>4
  <2> QED
    BY <1>1, <1>7, <2>1, CadetTypes
<1>9. /\ k \in Connection /\ k.cls = k0.cls /\ k.remote = k0.remote /\ k.toWorker = <<>>
      /\ k.signaling = k0.signaling
      /\ k.toWindow = IF k0.signaling = "gone" THEN <<>> ELSE <<a>>
  <2>1. CASE k0.signaling = "gone"
    BY <1>3, <1>5, <2>1
  <2>2. CASE k0.signaling # "gone"
    <3>1. k = [k0 EXCEPT !.toWindow = <<a>>]
      BY <2>2
    <3> HIDE DEF k
    <3> QED
      BY <1>3, <1>4, <1>5, <2>2, <3>1 DEF Connection
  <2> QED
    BY <2>1, <2>2
<1>10. Touches(p, n, k)
  <2>1. k = [k0 EXCEPT !.toWindow = IF k0.signaling = "gone" THEN @ ELSE Append(@, a)]
    BY <1>3, <1>4, <1>5 DEF Connection
  <2>2. connections' = [connections EXCEPT ![p] = [connections[p] EXCEPT ![n] = k]]
    BY <1>1, <2>1
  <2> QED
    BY <1>1, <1>2, <1>9, <2>2 DEF Touches
<1> HIDE DEF k, r
<1>11. TypeOK' /\ OffersStay /\ connections'[p][n] = k
  <2>1. stopped' \in SUBSET Peer
    BY <1>1 DEF TypeOK
  <2>2. TypeOK'
    BY <1>1, <1>8, <1>10, <2>1, TouchTypes
  <2> QED
    BY <1>1, <1>10, <2>2, TouchFacts
<1>12. ConnectionOK(p, n)'
  <2>1. GoodAnswer(a, p, n)'
    BY <1>1, <1>2, <1>3, <1>11, GoodStays
  <2>2. Offering(p, n, c)'
    <3>1. CASE k0.signaling = "gone"
      <4>1. k.toWindow = <<>> /\ k.signaling = "gone"
        BY <1>9, <3>1
      <4>2. ASSUME NEW x, x = k0.remote, GoodAnswer(x, p, n) PROVE GoodAnswer(x, p, n)'
        BY <1>1, <1>3, <1>11, <4>2, GoodStays
      <4>3. k0.remote = None \/ GoodAnswer(k0.remote, p, n)
        BY <1>2 DEF Offering
      <4>4. connections[p][n].remote' = None \/ GoodAnswer(connections[p][n].remote, p, n)'
        BY <1>9, <1>11, <4>2, <4>3 DEF GoodAnswer
      <4> QED
        BY <1>0, <1>1, <1>2, <1>5, <1>9, <1>11, <4>1, <4>4 DEF Offering, Undescribed
    <3>2. CASE k0.signaling # "gone"
      <4>1. k.toWindow = <<a>> /\ k.signaling = "have-local-offer" /\ k.remote = None
        BY <1>2, <1>6, <1>9, <3>2 DEF Offering
      <4>2. Head(connections[p][n].toWindow)' = a
        BY <1>4, <1>11, <4>1
      <4>3. GoodAnswer(Head(connections[p][n].toWindow), p, n)'
        BY <2>1, <4>2 DEF GoodAnswer
      <4> QED
        BY <1>0, <1>1, <1>2, <1>4, <1>5, <1>9, <1>11, <4>1, <4>3 DEF Offering, Undescribed
    <3> QED
      BY <3>1, <3>2
  <2> QED
    BY <2>2 DEF ConnectionOK
<1>13. ChannelOK(c)'
  <2>1. /\ Unheard(c)' <=> Unheard(c)
        /\ Unanswered(c)' <=> Unanswered(c)
        /\ Unsent(c)' <=> Unsent(c)
    BY <1>1, <1>2, <1>5, <1>9, <1>10, <1>11, <1>12, TouchStages DEF Stages, Undescribed
  <2>2. ChannelOK(c) /\ OfferOf(c)' = OfferOf(c)
    BY <1>1 DEF IInv, Handshakes, OfferOf
  <2> QED
    BY <1>2, <1>7, <1>8, <2>1, <2>2 DEF ChannelOK
<1> QED
  <2>1. ASSUME NEW d \in Channel
        PROVE  IF k.cls \in {Out(d), In(d)} THEN ChannelOK(d)' ELSE cadet'[d] = cadet[d]
    BY <1>5, <1>8, <1>9, <1>13, Names
  <2> QED
    BY <1>1, <1>10, <1>11, <1>12, <2>1, TouchDone

\* The port's other end has read what was posted; nothing else of the connection changes.
LEMMA ReceivedFacts ==
  ASSUME TypeOK, NEW p \in Peer, NEW n \in DOMAIN connections[p],
         Len(connections[p][n].toWorker) = 1, Received(p, n), UNCHANGED <<sessions, rtc>>
  PROVE  \E k \in Connection :
           /\ Touches(p, n, k)
           /\ k.cls = connections[p][n].cls /\ k.remote = connections[p][n].remote
           /\ k.signaling = connections[p][n].signaling /\ k.toWorker = <<>>
           /\ k.toWindow = connections[p][n].toWindow
<1> DEFINE k0 == connections[p][n]
           k == [k0 EXCEPT !.toWorker = <<>>]
<1>1. k0 \in Connection /\ k0.toWorker \in Seq(Offers \cup Answers)
      /\ <<>> \in Seq(Offers \cup Answers)
  <2>1. k0 \in Connection
    BY DEF TypeOK
  <2> QED
    BY <2>1 DEF Connection
<1>2. Tail(k0.toWorker) = <<>>
  BY <1>1, Singletons
<1>3. /\ k \in Connection /\ k.cls = k0.cls /\ k.remote = k0.remote
      /\ k.signaling = k0.signaling /\ k.toWorker = <<>> /\ k.toWindow = k0.toWindow
  BY <1>1 DEF Connection
<1>4. connections' = [connections EXCEPT ![p] = [connections[p] EXCEPT ![n] = k]]
  <2>1. k = [k0 EXCEPT !.toWorker = Tail(@)]
    BY <1>1, <1>2 DEF Connection
  <2> QED
    BY <2>1 DEF Received
<1>5. Touches(p, n, k)
  BY <1>3, <1>4 DEF Touches
<1> QED
  BY <1>3, <1>5

\* A connection that has posted is as good when its message was read.
LEMMA ReadOK ==
  ASSUME TypeOK, OffersStay, NEW p \in Peer, NEW n \in DOMAIN connections[p],
         ConnectionOK(p, n), NEW k \in Connection, connections'[p][n] = k,
         UNCHANGED <<sessions, rtc>>,
         k.cls = connections[p][n].cls, k.remote = connections[p][n].remote,
         k.signaling = connections[p][n].signaling, k.toWorker = <<>>,
         k.toWindow = connections[p][n].toWindow
  PROVE  ConnectionOK(p, n)'
<1>0. n \in Nat
  BY DEF TypeOK
<1>1. CASE Answering(p, n)
  <2>1. Answering(p, n)'
    BY <1>1 DEF Answering, OfferOf, Undescribed
  <2> QED
    BY <2>1 DEF ConnectionOK
<1>2. ASSUME NEW c \in Channel, Offering(p, n, c) PROVE ConnectionOK(p, n)'
  <2>1. \A x : GoodAnswer(x, p, n) => GoodAnswer(x, p, n)'
    BY <1>0, GoodStays
  <2>2. k.remote = None \/ GoodAnswer(k.remote, p, n)
    BY <1>2 DEF Offering
  <2>3. connections'[p][n].remote = None \/ GoodAnswer(connections[p][n].remote, p, n)'
    <3>1. ASSUME NEW x, x = k.remote, GoodAnswer(x, p, n) PROVE GoodAnswer(x, p, n)'
      BY <2>1, <3>1
    <3> QED
      BY <2>2, <3>1 DEF GoodAnswer
  <2>4. \/ connections'[p][n].toWindow = <<>>
        \/ /\ connections'[p][n].signaling = "have-local-offer"
           /\ Len(connections'[p][n].toWindow) = 1
           /\ GoodAnswer(Head(connections[p][n].toWindow), p, n)'
    <3>1. ASSUME NEW x, x = Head(k.toWindow), GoodAnswer(x, p, n) PROVE GoodAnswer(x, p, n)'
      BY <2>1, <3>1
    <3>2. CASE k.toWindow = <<>>
      BY <3>2
    <3>3. CASE k.toWindow # <<>>
      <4>1. /\ k.signaling = "have-local-offer" /\ Len(k.toWindow) = 1
            /\ GoodAnswer(Head(k.toWindow), p, n)
        BY <1>2, <3>3 DEF Offering
      <4>2. PICK x : x = Head(k.toWindow)
        OBVIOUS
      <4>3. GoodAnswer(x, p, n)'
        BY <3>1, <4>1, <4>2
      <4>4. GoodAnswer(Head(connections[p][n].toWindow), p, n)'
        BY <4>2, <4>3 DEF GoodAnswer
      <4> QED
        BY <4>1, <4>4
    <3> QED
      BY <3>2, <3>3
  <2>5. Offering(p, n, c)'
    BY <1>2, <2>3, <2>4 DEF Offering, Undescribed
  <2> QED
    BY <2>5 DEF ConnectionOK
<1> QED
  BY <1>1, <1>2 DEF ConnectionOK

LEMMA OfferCbOK ==
  ASSUME IInv, NEW p \in Peer, NEW n \in DOMAIN connections[p], OfferCb(p, n)
  PROVE  IInv'
<1> DEFINE k0 == connections[p][n]
<1>1. /\ TypeOK /\ k0 \in Connection /\ ConnectionOK(p, n) /\ n \in Nat
      /\ k0.toWorker # <<>> /\ Head(k0.toWorker).type = "offer" /\ Received(p, n)
      /\ cadet' = [cadet EXCEPT ![k0.cls.channel].offers = Append(@, Head(k0.toWorker))]
      /\ UNCHANGED <<sessions, rtc, firstTab, stopped, monitor, seen, losses>>
  BY DEF OfferCb, IInv, Handshakes, TypeOK, monitorVars
<1>2. ~Answering(p, n)
  <2> SUFFICES ASSUME Answering(p, n) PROVE FALSE
    OBVIOUS
  <2>1. Answer(p, n, k0.remote) \in Answers /\ k0.toWorker = <<Answer(p, n, k0.remote)>>
    BY <1>1, Messages DEF Answering
  <2>2. Head(k0.toWorker) \in Answers
    BY <2>1, Singletons
  <2>3. Head(k0.toWorker).type = "answer"
    BY <2>2, Messages
  <2> QED
    BY <1>1, <2>3
<1>3. PICK c \in Channel : Offering(p, n, c)
  BY <1>1, <1>2 DEF ConnectionOK
<1>4. /\ k0.cls = Out(c) /\ k0.toWorker = <<Offer(p, n)>> /\ ~Undescribed(k0)
      /\ p = Initiator(c) /\ rtc[Out(c)] = n /\ Stages(p, n, c)
  BY <1>1, <1>3, StagesHold DEF Offering, IInv, Handshakes, AllConnections
<1>5. Offer(p, n) \in Offers /\ <<Offer(p, n)>> \in Seq(Offers) /\ Len(k0.toWorker) = 1
      /\ Head(k0.toWorker) = Offer(p, n) /\ Append(<<>>, Offer(p, n)) = <<Offer(p, n)>>
  BY <1>1, <1>4, Messages, Singletons
<1>6. ChannelOK(c) /\ Unsent(c) /\ Unheard(c)
  BY <1>1, <1>4 DEF Stages, ChannelOK, IInv, Handshakes
<1>7. Unanswered(c) /\ cadet[c].offers = <<>> /\ cadet[c].answers = <<>> /\ NothingBack(c)
  <2>1. Unanswered(c)
    BY <1>6 DEF Unheard, Unanswered
  <2> QED
    BY <1>6, <2>1 DEF ChannelOK
<1> DEFINE r == [cadet[c] EXCEPT !.offers = <<Offer(p, n)>>]
<1>8. /\ r \in ChannelState /\ r.context = cadet[c].context /\ r.answers = <<>>
      /\ r.offers = <<Offer(p, n)>>
  <2>1. cadet[c] \in ChannelState
    BY <1>1 DEF TypeOK
  <2> QED
    BY <1>5, <1>7, <2>1 DEF ChannelState
<1>9. /\ cadet' \in [Channel -> ChannelState] /\ cadet'[c] = r
      /\ \A d \in Channel : d # c => cadet'[d] = cadet[d]
  <2>1. k0.cls.channel = c
    BY <1>4, Names
  <2>2. cadet' = [cadet EXCEPT ![c] = r]
    BY <1>1, <1>5, <1>7, <2>1
  <2> QED
    BY <1>1, <1>8, <2>2, CadetTypes
<1> HIDE DEF r
<1>10. PICK k \in Connection :
         /\ Touches(p, n, k) /\ k.cls = k0.cls /\ k.remote = k0.remote
         /\ k.signaling = k0.signaling /\ k.toWorker = <<>> /\ k.toWindow = k0.toWindow
  BY <1>1, <1>5, ReceivedFacts
<1>11. TypeOK' /\ OffersStay /\ connections'[p][n] = k
  <2>1. stopped' \in SUBSET Peer
    BY <1>1 DEF TypeOK
  <2>2. TypeOK'
    BY <1>1, <1>9, <1>10, <2>1, TouchTypes
  <2>3. Touches(p, n, k)
    BY <1>10
  <2>4. OffersStay /\ connections'[p][n] = k
    BY <1>1, <2>3, TouchFacts
  <2> QED
    BY <2>2, <2>4
<1>12. ConnectionOK(p, n)'
  BY <1>1, <1>10, <1>11, ReadOK
<1>13. ChannelOK(c)'
  <2>1. /\ Unheard(c)' <=> Unheard(c)
        /\ Unanswered(c)' <=> Unanswered(c)
        /\ NothingBack(c)' <=> NothingBack(c)
    BY <1>4, <1>10, <1>11, <1>12, TouchStages DEF Stages
  <2>2. ~Unsent(c)'
    BY <1>4, <1>10, <1>11, <1>12, TouchStages DEF Undescribed
  <2>3. OfferOf(c)' = Offer(p, n)
    BY <1>1, <1>4 DEF OfferOf
  <2> QED
    BY <1>6, <1>7, <1>8, <1>9, <2>1, <2>2, <2>3 DEF ChannelOK
<1> QED
  <2>1. ASSUME NEW d \in Channel
        PROVE  IF k.cls \in {Out(d), In(d)} THEN ChannelOK(d)' ELSE cadet'[d] = cadet[d]
    BY <1>4, <1>9, <1>10, <1>13, Names
  <2> QED
    BY <1>10, <1>11, <1>12, <2>1, TouchDone

LEMMA AnswerCbOK ==
  ASSUME IInv, NEW p \in Peer, NEW n \in DOMAIN connections[p], AnswerCb(p, n)
  PROVE  IInv'
<1> DEFINE k0 == connections[p][n]
<1>1. /\ TypeOK /\ k0 \in Connection /\ ConnectionOK(p, n) /\ n \in Nat
      /\ k0.toWorker # <<>> /\ Head(k0.toWorker).type = "answer" /\ Received(p, n)
      /\ UNCHANGED <<sessions, rtc, firstTab, monitor, seen, losses>>
  BY DEF AnswerCb, IInv, Handshakes, TypeOK, monitorVars
<1>2. ASSUME NEW c \in Channel PROVE ~Offering(p, n, c)
  <2> SUFFICES ASSUME Offering(p, n, c) PROVE FALSE
    OBVIOUS
  <2>1. Offer(p, n) \in Offers /\ k0.toWorker = <<Offer(p, n)>>
    BY <1>1, Messages DEF Offering
  <2>2. Head(k0.toWorker) \in Offers
    BY <2>1, Singletons
  <2> QED
    BY <1>1, <2>2, Messages
<1>3. Answering(p, n)
  BY <1>1, <1>2 DEF ConnectionOK
<1>4. k0.toWorker = <<Answer(p, n, k0.remote)>> /\ ~Undescribed(k0) /\ k0.remote \in Offers
  BY <1>1, <1>3 DEF Answering
<1>5. PICK a : a = Answer(p, n, k0.remote)
  OBVIOUS
<1>6. /\ a \in Answers /\ a.to = k0.remote /\ a.peer = p /\ a.number = n
      /\ Len(k0.toWorker) = 1 /\ Head(k0.toWorker) = a
      /\ <<a>> \in Seq(Answers) /\ Append(<<>>, a) = <<a>> /\ Len(<<a>>) = 1 /\ Head(<<a>>) = a
  <2>1. a \in Answers /\ a.to = k0.remote /\ a.peer = p /\ a.number = n
    BY <1>1, <1>4, <1>5, Messages
  <2> QED
    BY <1>4, <1>5, <2>1, Singletons
<1>7. PICK k \in Connection :
         /\ Touches(p, n, k) /\ k.cls = k0.cls /\ k.remote = k0.remote
         /\ k.signaling = k0.signaling /\ k.toWorker = <<>> /\ k.toWindow = k0.toWindow
  BY <1>1, <1>6, ReceivedFacts
<1>8. ASSUME cadet' \in [Channel -> ChannelState], stopped' \in SUBSET Peer
      PROVE  TypeOK' /\ OffersStay /\ connections'[p][n] = k /\ ConnectionOK(p, n)'
  <2>1. TypeOK' /\ OffersStay /\ connections'[p][n] = k
    BY <1>1, <1>7, <1>8, TouchTypes, TouchFacts
  <2> QED
    BY <1>1, <1>7, <2>1, ReadOK
<1>9. CASE k0.cls = None
  <2>1. cadet' = cadet /\ stopped' \in {stopped, stopped \cup {p}}
    BY <1>9 DEF AnswerCb
  <2>2. cadet' \in [Channel -> ChannelState] /\ stopped' \in SUBSET Peer
    BY <1>1, <2>1 DEF TypeOK
  <2>3. \A d \in Channel : k.cls \notin {Out(d), In(d)}
    BY <1>7, <1>9, Names
  <2> QED
    BY <1>7, <1>8, <2>1, <2>2, <2>3, TouchDone
<1>10. ASSUME NEW c \in Channel, k0.cls = In(c) PROVE IInv'
  <2>1. /\ cadet' = [cadet EXCEPT ![c].answers = Append(@, a)] /\ stopped' = stopped
    <3>1. k0.cls # None /\ k0.cls.channel = c
      BY <1>10, Names
    <3> QED
      BY <1>6, <3>1 DEF AnswerCb
  <2>2. Stages(p, n, c) /\ ChannelOK(c)
    BY <1>1, StagesHold DEF IInv, Handshakes, AllConnections
  <2>3. /\ p = Target(c) /\ k0.remote = OfferOf(c) /\ ~Unheard(c) /\ Unanswered(c)
    BY <1>1, <1>10, <2>2 DEF Stages
  <2>4. /\ ~Unsent(c) /\ cadet[c].offers = <<>> /\ cadet[c].answers = <<>> /\ NothingBack(c)
        /\ cadet[c].context \in {None, In(c)}
    BY <2>2, <2>3 DEF ChannelOK
  <2> DEFINE r == [cadet[c] EXCEPT !.answers = <<a>>]
  <2>5. /\ r \in ChannelState /\ r.context = cadet[c].context /\ r.answers = <<a>>
        /\ r.offers = <<>>
    <3>1. cadet[c] \in ChannelState
      BY <1>1 DEF TypeOK
    <3> QED
      BY <1>6, <2>4, <3>1 DEF ChannelState
  <2>6. /\ cadet' \in [Channel -> ChannelState] /\ cadet'[c] = r
        /\ \A d \in Channel : d # c => cadet'[d] = cadet[d]
    <3>1. cadet' = [cadet EXCEPT ![c] = r]
      BY <1>6, <2>1, <2>4
    <3> QED
      BY <1>1, <2>5, <3>1, CadetTypes
  <2> HIDE DEF r
  <2>7. TypeOK' /\ OffersStay /\ connections'[p][n] = k /\ ConnectionOK(p, n)'
    <3>1. stopped' \in SUBSET Peer
      BY <1>1, <2>1 DEF TypeOK
    <3> QED
      BY <1>8, <2>6, <3>1
  <2>8. /\ ~Unsent(c)' /\ NothingBack(c)' /\ ~Unanswered(c)'
    BY <1>4, <1>7, <1>10, <2>4, <2>7, TouchStages DEF Undescribed
  <2>9. ASSUME NEW x, x = a, NEW m, m = rtc[Out(c)] PROVE GoodAnswer(x, Initiator(c), m)'
    <3>1. a.to = Offer(Initiator(c), m) /\ a.peer # Initiator(c)
      BY <1>6, <2>3, <2>9, Names DEF OfferOf
    <3>2. n \in DOMAIN connections'[p] /\ connections'[p][n].remote = a.to
      BY <1>6, <1>7, <2>7 DEF OffersStay
    <3> QED
      BY <1>6, <2>9, <3>1, <3>2 DEF GoodAnswer
  <2>10. ChannelOK(c)'
    <3>1. GoodAnswer(Head(cadet[c].answers), Initiator(c), rtc[Out(c)])'
      <4>1. Head(cadet[c].answers)' = a /\ rtc[Out(c)]' = rtc[Out(c)]
        BY <1>1, <1>6, <2>5, <2>6
      <4>2. PICK m : m = rtc[Out(c)]
        OBVIOUS
      <4>3. GoodAnswer(a, Initiator(c), m)'
        BY <2>9, <4>2
      <4> QED
        BY <4>1, <4>2, <4>3 DEF GoodAnswer
    <3> QED
      BY <1>6, <2>4, <2>5, <2>6, <2>8, <3>1 DEF ChannelOK
  <2>11. ASSUME NEW d \in Channel
         PROVE  IF k.cls \in {Out(d), In(d)} THEN ChannelOK(d)' ELSE cadet'[d] = cadet[d]
    BY <1>7, <1>10, <2>6, <2>10, Names
  <2> QED
    BY <1>7, <2>7, <2>11, TouchDone
<1> QED
  BY <1>3, <1>9, <1>10 DEF Answering

-----------------------------------------------------------------------------
(* The steps that make a connection.                                       *)

\* Peer p makes connection k, of a session that has none.
Adds(p, k) ==
  /\ k \in Connection /\ k.toWorker = <<>> /\ k.toWindow = <<>>
  /\ connections' = [connections EXCEPT ![p] = Append(@, k)]
  /\ \A q, r \in Peer : sessions[q][r] # <<>> => sessions'[q][r] # <<>>
  /\ \A s \in Session : s # k.cls => rtc'[s] = rtc[s]
  /\ k.cls # None =>
       /\ \A q \in Peer : \A m \in DOMAIN connections[q] : connections[q][m].cls # k.cls
       /\ rtc'[k.cls] = NextNumber(p)
  /\ \A c \in Channel :
       k.cls = Out(c) => \A q \in Peer : \A m \in DOMAIN connections[q] :
                           connections[q][m].cls # In(c)

LEMMA AddFacts ==
  ASSUME TypeOK, NEW p \in Peer, NEW k, Adds(p, k)
  PROVE  /\ connections' \in [Peer -> Seq(Connection)]
         /\ NextNumber(p) \in Nat /\ NextNumber(p) \in DOMAIN connections'[p]
         /\ connections'[p][NextNumber(p)] = k
         /\ \A q \in Peer : q # p => connections'[q] = connections[q]
         /\ \A q \in Peer : \A m \in DOMAIN connections[q] :
              m \in DOMAIN connections'[q] /\ connections'[q][m] = connections[q][m]
         /\ \A q \in Peer : \A m \in DOMAIN connections'[q] :
              m \in DOMAIN connections[q] \/ (q = p /\ m = NextNumber(p))
         /\ OffersStay
<1>1. connections[p] \in Seq(Connection) /\ k \in Connection
      /\ connections' = [connections EXCEPT ![p] = Append(connections[p], k)]
  BY DEF TypeOK, Adds
<1>2. /\ connections'[p] = Append(connections[p], k) /\ connections'[p] \in Seq(Connection)
      /\ \A q \in Peer : q # p => connections'[q] = connections[q]
  BY <1>1 DEF TypeOK
<1>3. connections' \in [Peer -> Seq(Connection)]
  BY <1>1, <1>2 DEF TypeOK
<1>4. /\ NextNumber(p) \in Nat /\ NextNumber(p) \in DOMAIN connections'[p]
      /\ connections'[p][NextNumber(p)] = k
      /\ \A m \in DOMAIN connections[p] :
           m \in DOMAIN connections'[p] /\ connections'[p][m] = connections[p][m]
      /\ \A m \in DOMAIN connections'[p] : m \in DOMAIN connections[p] \/ m = NextNumber(p)
  BY <1>1, <1>2 DEF NextNumber
<1>5. \A q \in Peer : \A m \in DOMAIN connections[q] :
        m \in DOMAIN connections'[q] /\ connections'[q][m] = connections[q][m]
  BY <1>2, <1>4
<1>6. \A q \in Peer : \A m \in DOMAIN connections'[q] :
        m \in DOMAIN connections[q] \/ (q = p /\ m = NextNumber(p))
  BY <1>2, <1>4
<1> QED
  BY <1>2, <1>3, <1>4, <1>5, <1>6 DEF OffersStay

\* What is true of the connections of a session is so after another was made.
LEMMA AddOthers ==
  ASSUME IInv, NEW p \in Peer, NEW k, Adds(p, k)
  PROVE  /\ \A q \in Peer : \A m \in DOMAIN connections[q] : ConnectionOK(q, m)'
         /\ \A c \in Channel : In(c) # k.cls =>
              (Unheard(c)' <=> Unheard(c)) /\ (Unanswered(c)' <=> Unanswered(c))
         /\ \A c \in Channel : Out(c) # k.cls =>
              (Unsent(c)' <=> Unsent(c)) /\ (NothingBack(c)' <=> NothingBack(c))
         /\ \A c \in Channel :
              cadet'[c] = cadet[c] /\ Out(c) # k.cls /\ In(c) # k.cls => ChannelOK(c)'
<1>0. TypeOK /\ OffersStay
  BY AddFacts DEF IInv
<1>1. ASSUME NEW q \in Peer, NEW m \in DOMAIN connections[q] PROVE ConnectionOK(q, m)'
  <2> DEFINE k0 == connections[q][m]
  <2>1. ConnectionOK(q, m) /\ connections'[q][m] = k0 /\ k0.cls \in Session \cup {None}
    <3>1. k0 \in Connection
      BY <1>0 DEF TypeOK
    <3> QED
      BY <1>0, <3>1, AddFacts DEF IInv, Handshakes, Connection
  <2>2. k0.cls # None => rtc'[k0.cls] = rtc[k0.cls]
    BY <2>1 DEF Adds
  <2>3. \A c \in Channel : k0.cls = In(c) => rtc'[Out(c)] = rtc[Out(c)]
    BY Names DEF Adds
  <2>4. \A r \in Peer : sessions[q][r] # <<>> => sessions'[q][r] # <<>>
    BY DEF Adds
  <2> QED
    BY <1>0, <2>1, <2>2, <2>3, <2>4, ConnectionStays
<1>2. ASSUME NEW c \in Channel, In(c) # k.cls
      PROVE  (Unheard(c)' <=> Unheard(c)) /\ (Unanswered(c)' <=> Unanswered(c))
  <2>1. Target(c) \in Peer
    BY Names
  <2>2. \A m \in DOMAIN connections'[Target(c)] :
          \/ /\ m \in DOMAIN connections[Target(c)]
             /\ connections'[Target(c)][m] = connections[Target(c)][m]
          \/ connections'[Target(c)][m].cls # In(c)
    BY <1>0, <1>2, <2>1, AddFacts
  <2>3. \A m \in DOMAIN connections[Target(c)] :
          /\ m \in DOMAIN connections'[Target(c)]
          /\ connections'[Target(c)][m] = connections[Target(c)][m]
    BY <1>0, <2>1, AddFacts
  <2>4. Unheard(c)' <=> Unheard(c)
    BY <2>2, <2>3 DEF Unheard
  <2>5. Unanswered(c)' <=> Unanswered(c)
    BY <2>2, <2>3 DEF Unanswered, Undescribed
  <2> QED
    BY <2>4, <2>5
<1>3. ASSUME NEW c \in Channel, Out(c) # k.cls
      PROVE  (Unsent(c)' <=> Unsent(c)) /\ (NothingBack(c)' <=> NothingBack(c))
  <2>1. Initiator(c) \in Peer
    BY Names
  <2>2. \A m \in DOMAIN connections'[Initiator(c)] :
          \/ /\ m \in DOMAIN connections[Initiator(c)]
             /\ connections'[Initiator(c)][m] = connections[Initiator(c)][m]
          \/ connections'[Initiator(c)][m].cls # Out(c)
    BY <1>0, <1>3, <2>1, AddFacts
  <2>3. \A m \in DOMAIN connections[Initiator(c)] :
          /\ m \in DOMAIN connections'[Initiator(c)]
          /\ connections'[Initiator(c)][m] = connections[Initiator(c)][m]
    BY <1>0, <2>1, AddFacts
  <2>4. Unsent(c)' <=> Unsent(c)
    BY <2>2, <2>3 DEF Unsent, Undescribed
  <2>5. NothingBack(c)' <=> NothingBack(c)
    BY <2>2, <2>3 DEF NothingBack
  <2> QED
    BY <2>4, <2>5
<1>4. ASSUME NEW c \in Channel, cadet'[c] = cadet[c], Out(c) # k.cls, In(c) # k.cls
      PROVE  ChannelOK(c)'
  <2>1. ChannelOK(c) /\ rtc'[Out(c)] = rtc[Out(c)]
    BY <1>4, Names DEF IInv, Handshakes, Adds
  <2> QED
    BY <1>0, <1>2, <1>3, <1>4, <2>1, ChannelStays
<1> QED
  BY <1>1, <1>2, <1>3, <1>4

LEMMA AddDone ==
  ASSUME IInv, NEW p \in Peer, NEW k, Adds(p, k), TypeOK',
         NEW n, n = NextNumber(p), ConnectionOK(p, n)',
         \A c \in Channel : ChannelOK(c)' \/ (cadet'[c] = cadet[c] /\ k.cls \notin {Out(c), In(c)})
  PROVE  IInv'
<1>1. ASSUME NEW q \in Peer, NEW m \in DOMAIN connections'[q] PROVE ConnectionOK(q, m)'
  <2>1. CASE m \in DOMAIN connections[q]
    BY <2>1, AddOthers
  <2>2. CASE q = p /\ m = n
    BY <2>2
  <2> QED
    BY <2>1, <2>2, AddFacts DEF IInv
<1>2. \A c \in Channel : ChannelOK(c)'
  BY AddOthers
<1> QED
  BY <1>1, <1>2 DEF IInv, Handshakes

\* What peer_connect makes.
Fresh(k, cls, offer) ==
  /\ k \in Connection /\ k.cls = cls /\ k.remote = offer
  /\ k.signaling \in {"requested", "gone"} /\ k.toWorker = <<>> /\ k.toWindow = <<>>

LEMMA PeerConnectMakes ==
  ASSUME NEW p, NEW cls \in Session \cup {None}, NEW offer \in Offers \cup {None},
         PeerConnect(p, cls, offer)
  PROVE  \E k : /\ Fresh(k, cls, offer)
                /\ connections' = [connections EXCEPT ![p] = Append(@, k)]
<1> DEFINE k == [cls |-> cls, signaling |-> IF p \in firstTab THEN "requested" ELSE "gone",
                 remote |-> offer, toWorker |-> <<>>, toWindow |-> <<>>]
<1>1. Fresh(k, cls, offer)
  <2>1. <<>> \in Seq(Offers \cup Answers) /\ <<>> \in Seq(Answers)
    OBVIOUS
  <2> QED
    BY <2>1 DEF Fresh, Connection, Signaling
<1>2. connections' = [connections EXCEPT ![p] = Append(@, k)]
  BY DEF PeerConnect
<1> QED
  BY <1>1, <1>2

LEMMA GetSessionOK ==
  ASSUME IInv, NEW c \in Channel, GetSession(Initiator(c), Target(c))
  PROVE  IInv'
<1>0. PICK p, q, n : p = Initiator(c) /\ q = Target(c) /\ n = NextNumber(p)
  OBVIOUS
<1>1. /\ TypeOK /\ p \in Peer /\ q \in Peer /\ p # q /\ <<p, q>> = c
      /\ Out(c) \in Session /\ Out(c) # None
  BY <1>0, Names DEF IInv
<1>2. /\ sessions[p][q] = <<>>
      /\ sessions' = [sessions EXCEPT ![p][q] = <<Out(c)>> \o @]
      /\ cadet' = [cadet EXCEPT ![c].status = "opening"]
      /\ rtc' = [rtc EXCEPT ![Out(c)] = n]
      /\ PeerConnect(p, Out(c), None) /\ NotifyMonitor(p, Out(c))
      /\ UNCHANGED <<firstTab, stopped, monitor, losses>>
  BY <1>0, <1>1 DEF GetSession, Found, Put
<1>3. PICK k : Fresh(k, Out(c), None)
               /\ connections' = [connections EXCEPT ![p] = Append(@, k)]
  BY <1>1, <1>2, PeerConnectMakes
<1>4. \A r \in Peer : \A m \in DOMAIN connections[r] : connections[r][m].cls # Out(c)
  <2> SUFFICES ASSUME NEW r \in Peer, NEW m \in DOMAIN connections[r],
                      connections[r][m].cls = Out(c)
               PROVE  FALSE
    OBVIOUS
  <2>1. Stages(r, m, c)
    BY <1>1, StagesHold DEF IInv, Handshakes, AllConnections
  <2>2. r = p /\ sessions[r][q] # <<>>
    BY <1>0, <2>1 DEF Stages, Offering
  <2> QED
    BY <1>2, <2>2
<1>5. Unsent(c)
  BY <1>0, <1>1, <1>4 DEF Unsent
<1>6. Unheard(c) /\ cadet[c].offers = <<>> /\ cadet[c].context \in {None, In(c)}
  BY <1>5 DEF IInv, Handshakes, ChannelOK
<1>7. Unanswered(c) /\ cadet[c].answers = <<>>
  <2>1. Unanswered(c)
    BY <1>6 DEF Unheard, Unanswered
  <2> QED
    BY <2>1 DEF IInv, Handshakes, ChannelOK
<1>8. \A r \in Peer : \A m \in DOMAIN connections[r] : connections[r][m].cls # In(c)
  <2> SUFFICES ASSUME NEW r \in Peer, NEW m \in DOMAIN connections[r],
                      connections[r][m].cls = In(c)
               PROVE  FALSE
    OBVIOUS
  <2>1. Stages(r, m, c)
    BY <1>1, StagesHold DEF IInv, Handshakes, AllConnections
  <2> QED
    BY <1>6, <2>1 DEF Stages
<1>9. /\ sessions' \in [Peer -> [Peer -> Seq(Session)]] /\ sessions'[p][q] # <<>>
      /\ \A r, t \in Peer : sessions[r][t] # <<>> => sessions'[r][t] # <<>>
  <2>1. <<Out(c)>> \in Seq(Session) /\ <<Out(c)>> \o <<>> = <<Out(c)>> /\ <<Out(c)>> # <<>>
    BY <1>1
  <2>2. sessions' = [sessions EXCEPT ![p][q] = <<Out(c)>>]
    BY <1>1, <1>2, <2>1 DEF TypeOK
  <2> QED
    BY <1>1, <2>1, <2>2 DEF TypeOK
<1>10. rtc'[Out(c)] = n /\ \A s \in Session : s # Out(c) => rtc'[s] = rtc[s]
  BY <1>1, <1>2 DEF TypeOK
<1>11. Adds(p, k)
  <2>1. \A d \in Channel : k.cls = Out(d) => d = c
    BY <1>3, Names DEF Fresh
  <2> QED
    BY <1>0, <1>3, <1>4, <1>8, <1>9, <1>10, <2>1 DEF Adds, Fresh
<1>12. /\ n \in Nat /\ n \in DOMAIN connections'[p] /\ connections'[p][n] = k /\ OffersStay
       /\ connections' \in [Peer -> Seq(Connection)]
  BY <1>0, <1>1, <1>11, AddFacts
<1> DEFINE s == [cadet[c] EXCEPT !.status = "opening"]
<1>13. /\ s \in ChannelState /\ s.context = cadet[c].context
       /\ s.offers = <<>> /\ s.answers = <<>>
  <2>1. cadet[c] \in ChannelState
    BY <1>1 DEF TypeOK
  <2> QED
    BY <1>6, <1>7, <2>1 DEF ChannelState
<1>14. /\ cadet' \in [Channel -> ChannelState] /\ cadet'[c] = s
       /\ \A d \in Channel : d # c => cadet'[d] = cadet[d]
  <2>1. cadet' = [cadet EXCEPT ![c] = s]
    BY <1>2
  <2> QED
    BY <1>1, <1>13, <2>1, CadetTypes
<1> HIDE DEF s
<1>15. TypeOK'
  <2>1. rtc' \in [Session -> Nat]
    BY <1>1, <1>2, <1>12 DEF TypeOK
  <2>2. seen' \in [Peer -> SUBSET Session]
    BY <1>1, <1>2 DEF NotifyMonitor, TypeOK
  <2> QED
    BY <1>1, <1>2, <1>9, <1>12, <1>14, <2>1, <2>2 DEF TypeOK
<1>16. ConnectionOK(p, n)'
  <2>1. Offering(p, n, c)'
    BY <1>0, <1>3, <1>9, <1>10, <1>12, Messages DEF Offering, Undescribed, Fresh
  <2> QED
    BY <2>1 DEF ConnectionOK
<1>17. ChannelOK(c)'
  <2>1. Unheard(c)' /\ Unanswered(c)'
    <3>1. k.cls # In(c)
      BY <1>3, Names DEF Fresh
    <3> QED
      BY <1>1, <1>6, <1>7, <1>11, <3>1, AddOthers
  <2>2. NothingBack(c)'
    <3>1. ASSUME NEW m \in DOMAIN connections'[p], connections'[p][m].cls = Out(c)
          PROVE  connections'[p][m] = k
      BY <1>0, <1>1, <1>4, <1>11, <1>12, <3>1, AddFacts
    <3>2. k.toWindow = <<>> /\ k.signaling # "stable"
      BY <1>3 DEF Fresh
    <3> QED
      BY <1>0, <3>1, <3>2 DEF NothingBack
  <2> QED
    BY <1>6, <1>13, <1>14, <2>1, <2>2 DEF ChannelOK
<1>18. \A d \in Channel : ChannelOK(d)' \/ (cadet'[d] = cadet[d] /\ k.cls \notin {Out(d), In(d)})
  <2> SUFFICES ASSUME NEW d \in Channel, d # c
               PROVE  cadet'[d] = cadet[d] /\ k.cls \notin {Out(d), In(d)}
    BY <1>17
  <2> QED
    BY <1>3, <1>14, Names DEF Fresh
<1> QED
  BY <1>0, <1>1, <1>11, <1>15, <1>16, <1>18, AddDone

LEMMA HandleOfferOK ==
  ASSUME IInv, NEW c \in Channel, HandleOffer(c)
  PROVE  IInv'
<1>0. PICK p, n, cls, o : /\ p = Target(c) /\ n = NextNumber(p)
                          /\ cls = cadet[c].context /\ o = Head(cadet[c].offers)
  OBVIOUS
<1>1. /\ TypeOK /\ p \in Peer /\ In(c) \in Session /\ In(c) # None /\ ChannelOK(c)
      /\ Initiator(c) \in Peer /\ Out(c) \in Session
  BY <1>0, Names DEF IInv, Handshakes
<1>2. /\ cadet[c].offers # <<>>
      /\ cadet' = [cadet EXCEPT ![c].offers = Tail(@)]
      /\ rtc' = IF cls = None THEN rtc ELSE [rtc EXCEPT ![cls] = n]
      /\ PeerConnect(p, cls, o)
      /\ UNCHANGED <<sessions, firstTab, stopped, monitor, seen, losses>>
  BY <1>0 DEF HandleOffer, monitorVars
<1>3. /\ cls \in {None, In(c)} /\ cadet[c].offers = <<OfferOf(c)>> /\ Unheard(c) /\ ~Unsent(c)
  BY <1>0, <1>1, <1>2 DEF ChannelOK
<1>4. o = OfferOf(c) /\ o \in Offers /\ Tail(cadet[c].offers) = <<>>
  <2>1. OfferOf(c) \in Offers
    BY <1>1, Messages DEF OfferOf, TypeOK
  <2> QED
    BY <1>0, <1>3, <2>1, Singletons
<1>5. Unanswered(c) /\ cadet[c].answers = <<>> /\ NothingBack(c)
  <2>1. Unanswered(c)
    BY <1>3 DEF Unheard, Unanswered
  <2> QED
    BY <1>1, <2>1 DEF ChannelOK
<1>6. PICK k : Fresh(k, cls, o) /\ connections' = [connections EXCEPT ![p] = Append(@, k)]
  BY <1>1, <1>2, <1>3, <1>4, PeerConnectMakes
<1>7. \A r \in Peer : \A m \in DOMAIN connections[r] : connections[r][m].cls # In(c)
  <2> SUFFICES ASSUME NEW r \in Peer, NEW m \in DOMAIN connections[r],
                      connections[r][m].cls = In(c)
               PROVE  FALSE
    OBVIOUS
  <2>1. Stages(r, m, c)
    BY <1>1, StagesHold DEF IInv, Handshakes, AllConnections
  <2> QED
    BY <1>3, <2>1 DEF Stages
<1>8. /\ \A s \in Session : s # cls => rtc'[s] = rtc[s]
      /\ cls # None => rtc'[cls] = n
  BY <1>1, <1>2, <1>3 DEF TypeOK
<1>9. Adds(p, k)
  <2>1. \A d \in Channel : k.cls # Out(d)
    BY <1>3, <1>6, Names DEF Fresh
  <2> QED
    BY <1>0, <1>2, <1>3, <1>6, <1>7, <1>8, <2>1 DEF Adds, Fresh
<1>10. /\ n \in Nat /\ n \in DOMAIN connections'[p] /\ connections'[p][n] = k /\ OffersStay
       /\ connections' \in [Peer -> Seq(Connection)]
  BY <1>0, <1>1, <1>9, AddFacts
<1> DEFINE s == [cadet[c] EXCEPT !.offers = <<>>]
<1>11. /\ s \in ChannelState /\ s.context = cls
       /\ s.offers = <<>> /\ s.answers = <<>>
  <2>1. cadet[c] \in ChannelState /\ <<>> \in Seq(Offers)
    BY <1>1 DEF TypeOK
  <2> QED
    BY <1>0, <1>5, <2>1 DEF ChannelState
<1>12. /\ cadet' \in [Channel -> ChannelState] /\ cadet'[c] = s
       /\ \A d \in Channel : d # c => cadet'[d] = cadet[d]
  <2>1. cadet' = [cadet EXCEPT ![c] = s]
    BY <1>2, <1>4
  <2> QED
    BY <1>1, <1>11, <2>1, CadetTypes
<1> HIDE DEF s
<1>13. TypeOK'
  <2>1. rtc' \in [Session -> Nat]
    BY <1>1, <1>2, <1>3, <1>10 DEF TypeOK
  <2> QED
    BY <1>1, <1>2, <1>10, <1>12, <2>1 DEF TypeOK
<1>14. ConnectionOK(p, n)'
  <2>1. OfferOf(c)' = o
    BY <1>1, <1>3, <1>4, <1>8, Names DEF OfferOf
  <2>2. connections'[p][n].cls = In(c) => rtc'[In(c)] = n
    BY <1>1, <1>6, <1>8, <1>10 DEF Fresh
  <2>3. Answering(p, n)'
    BY <1>0, <1>3, <1>4, <1>6, <1>10, <2>1, <2>2 DEF Answering, Undescribed, Fresh
  <2> QED
    BY <2>3 DEF ConnectionOK
<1>15. ChannelOK(c)'
  <2>1. k.cls # Out(c)
    BY <1>3, <1>6, Names DEF Fresh
  <2>2. ~Unsent(c)' /\ NothingBack(c)'
    BY <1>1, <1>3, <1>5, <1>9, <2>1, AddOthers
  <2> QED
    BY <1>3, <1>11, <1>12, <2>2 DEF ChannelOK
<1>16. \A d \in Channel : ChannelOK(d)' \/ (cadet'[d] = cadet[d] /\ k.cls \notin {Out(d), In(d)})
  <2> SUFFICES ASSUME NEW d \in Channel, d # c
               PROVE  cadet'[d] = cadet[d] /\ k.cls \notin {Out(d), In(d)}
    BY <1>15
  <2> QED
    BY <1>3, <1>6, <1>12, Names DEF Fresh
<1> QED
  BY <1>0, <1>1, <1>9, <1>13, <1>14, <1>16, AddDone

-----------------------------------------------------------------------------
(* The other steps.                                                        *)

\* A step that changes no connection; a channel is as before, or has lost a message.
LEMMA QuietOK ==
  ASSUME IInv, TypeOK', UNCHANGED <<connections, rtc>>,
         \A p, q \in Peer : sessions[p][q] # <<>> => sessions'[p][q] # <<>>,
         \A c \in Channel :
           /\ cadet'[c].context \in {None, In(c)}
           /\ cadet'[c].offers \in {cadet[c].offers, <<>>}
           /\ cadet'[c].answers \in {cadet[c].answers, <<>>}
  PROVE  IInv'
<1>1. TypeOK /\ OffersStay
  BY DEF IInv, OffersStay
<1>2. ASSUME NEW p \in Peer, NEW n \in DOMAIN connections'[p] PROVE ConnectionOK(p, n)'
  <2>1. n \in DOMAIN connections[p] /\ ConnectionOK(p, n)
    BY DEF IInv, Handshakes
  <2> QED
    BY <1>1, <2>1, ConnectionStays
<1>3. ASSUME NEW c \in Channel PROVE ChannelOK(c)'
  <2>1. /\ Unsent(c)' <=> Unsent(c)
        /\ Unheard(c)' <=> Unheard(c)
        /\ Unanswered(c)' <=> Unanswered(c)
        /\ NothingBack(c)' <=> NothingBack(c)
    BY DEF Unsent, Unheard, Unanswered, NothingBack, Undescribed
  <2>2. ChannelOK(c) /\ OfferOf(c)' = OfferOf(c)
    BY DEF IInv, Handshakes, OfferOf
  <2>3. ASSUME NEW x, x = Head(cadet[c].answers), NEW m, m = rtc[Out(c)],
               GoodAnswer(x, Initiator(c), m)
        PROVE  GoodAnswer(x, Initiator(c), m)'
    BY <2>3 DEF GoodAnswer
  <2>4. \/ cadet'[c].answers = <<>>
        \/ /\ Len(cadet'[c].answers) = 1
           /\ GoodAnswer(Head(cadet[c].answers), Initiator(c), rtc[Out(c)])'
           /\ ~Unanswered(c)' /\ NothingBack(c)'
    <3> SUFFICES ASSUME cadet'[c].answers # <<>>
                 PROVE  /\ Len(cadet'[c].answers) = 1
                        /\ GoodAnswer(Head(cadet[c].answers), Initiator(c), rtc[Out(c)])'
                        /\ ~Unanswered(c)' /\ NothingBack(c)'
      OBVIOUS
    <3>1. cadet'[c].answers = cadet[c].answers
      OBVIOUS
    <3>2. /\ Len(cadet[c].answers) = 1 /\ ~Unanswered(c) /\ NothingBack(c)
          /\ GoodAnswer(Head(cadet[c].answers), Initiator(c), rtc[Out(c)])
      BY <2>2, <3>1 DEF ChannelOK
    <3>3. PICK x, m : x = Head(cadet[c].answers) /\ m = rtc[Out(c)]
      OBVIOUS
    <3>4. GoodAnswer(x, Initiator(c), m)'
      BY <2>3, <3>2, <3>3
    <3>5. GoodAnswer(Head(cadet[c].answers), Initiator(c), rtc[Out(c)])'
      BY <3>1, <3>3, <3>4 DEF GoodAnswer
    <3> QED
      BY <2>1, <3>1, <3>2, <3>5
  <2> QED
    BY <2>1, <2>2, <2>4 DEF ChannelOK
<1> QED
  BY <1>2, <1>3 DEF IInv, Handshakes

LEMMA ConnectedOK ==
  ASSUME IInv, NEW c \in Channel, Connected(c)
  PROVE  IInv'
<1>0. PICK p, q : p = Target(c) /\ q = Initiator(c)
  OBVIOUS
<1>1. /\ TypeOK /\ p \in Peer /\ q \in Peer /\ In(c) \in Session
      /\ UNCHANGED <<rtc, connections, firstTab, stopped, monitor, seen, losses>>
  BY <1>0, Names DEF Connected, IInv, monitorVars
<1>2. \/ /\ sessions' = [sessions EXCEPT ![p][q] = <<In(c)>> \o @]
         /\ cadet' = [cadet EXCEPT ![c].status = "connected", ![c].context = In(c)]
      \/ /\ sessions' = sessions
         /\ cadet' = [cadet EXCEPT ![c].status = "connected"]
  BY <1>0 DEF Connected, Put
<1>3. /\ sessions' \in [Peer -> [Peer -> Seq(Session)]]
      /\ \A r, t \in Peer : sessions[r][t] # <<>> => sessions'[r][t] # <<>>
  <2>1. CASE sessions' = sessions
    BY <1>1, <2>1 DEF TypeOK
  <2>2. CASE sessions' = [sessions EXCEPT ![p][q] = <<In(c)>> \o @]
    <3>1. PICK old : old = sessions[p][q] /\ old \in Seq(Session)
      BY <1>1 DEF TypeOK
    <3>2. <<In(c)>> \o old \in Seq(Session) /\ <<In(c)>> \o old # <<>>
      <4>1. <<In(c)>> \in Seq(Session) /\ Len(<<In(c)>>) = 1
        BY <1>1
      <4>2. /\ <<In(c)>> \o old \in Seq(Session)
            /\ Len(<<In(c)>> \o old) = 1 + Len(old) /\ Len(old) \in Nat
        BY <3>1, <4>1, ConcatProperties
      <4> QED
        BY <4>2, EmptySeq
    <3> QED
      BY <1>1, <2>2, <3>1, <3>2 DEF TypeOK
  <2> QED
    BY <1>2, <2>1, <2>2
<1>4. PICK ctx : /\ ctx \in {cadet[c].context, In(c)}
                 /\ cadet' = [cadet EXCEPT ![c] = [cadet[c] EXCEPT !.status = "connected",
                                                                   !.context = ctx]]
  <2>1. CASE cadet' = [cadet EXCEPT ![c].status = "connected", ![c].context = In(c)]
    BY <1>1, <2>1 DEF TypeOK
  <2>2. CASE cadet' = [cadet EXCEPT ![c].status = "connected"]
    <3>1. cadet[c] \in ChannelState
      BY <1>1 DEF TypeOK
    <3>2. [cadet[c] EXCEPT !.status = "connected", !.context = cadet[c].context]
            = [cadet[c] EXCEPT !.status = "connected"]
      BY <3>1 DEF ChannelState
    <3> QED
      BY <2>2, <3>2
  <2> QED
    BY <1>2, <2>1, <2>2
<1> DEFINE s == [cadet[c] EXCEPT !.status = "connected", !.context = ctx]
<1>5. /\ s \in ChannelState /\ s.context = ctx
      /\ s.offers = cadet[c].offers /\ s.answers = cadet[c].answers
  <2>1. cadet[c] \in ChannelState
    BY <1>1 DEF TypeOK
  <2> QED
    BY <1>1, <1>4, <2>1 DEF ChannelState
<1>6. /\ cadet' \in [Channel -> ChannelState] /\ cadet'[c] = s
      /\ \A d \in Channel : d # c => cadet'[d] = cadet[d]
  BY <1>1, <1>4, <1>5, CadetTypes
<1> HIDE DEF s
<1>7. \A d \in Channel :
        /\ cadet'[d].context \in {None, In(d)}
        /\ cadet'[d].offers = cadet[d].offers /\ cadet'[d].answers = cadet[d].answers
  <2>1. \A d \in Channel : cadet[d].context \in {None, In(d)}
    BY DEF IInv, Handshakes, ChannelOK
  <2> QED
    BY <1>4, <1>5, <1>6, <2>1
<1>8. TypeOK'
  BY <1>1, <1>3, <1>6 DEF TypeOK
<1> QED
  BY <1>1, <1>3, <1>7, <1>8, QuietOK

LEMMA SetupMonitorOK ==
  ASSUME IInv, NEW p \in Peer, SetupMonitor(p)
  PROVE  IInv'
<1>1. /\ UNCHANGED <<connections, rtc, sessions, cadet, firstTab, stopped, seen, losses>>
      /\ monitor' \in SUBSET Peer
  BY DEF SetupMonitor, IInv, TypeOK
<1>2. TypeOK'
  BY <1>1 DEF IInv, TypeOK
<1>3. \A c \in Channel : cadet[c].context \in {None, In(c)}
  BY DEF IInv, Handshakes, ChannelOK
<1> QED
  BY <1>1, <1>2, <1>3, QuietOK

LEMMA LoseMessageOK ==
  ASSUME IInv, NEW c \in Channel, LoseMessage(c)
  PROVE  IInv'
<1>1. /\ TypeOK /\ UNCHANGED <<sessions, rtc, connections, firstTab, stopped, monitor, seen>>
      /\ losses < MaxLoss /\ losses' = losses + 1
      /\ \/ cadet[c].offers # <<>> /\ cadet' = [cadet EXCEPT ![c].offers = Tail(@)]
         \/ cadet[c].answers # <<>> /\ cadet' = [cadet EXCEPT ![c].answers = Tail(@)]
  BY DEF LoseMessage, IInv, monitorVars
<1>2. cadet[c] \in ChannelState /\ \A d \in Channel : ChannelOK(d)
  BY <1>1 DEF TypeOK, IInv, Handshakes
<1>3. PICK s \in ChannelState :
        /\ cadet' = [cadet EXCEPT ![c] = s] /\ s.context = cadet[c].context
        /\ s.offers \in {cadet[c].offers, <<>>} /\ s.answers \in {cadet[c].answers, <<>>}
  <2>1. CASE cadet[c].offers # <<>> /\ cadet' = [cadet EXCEPT ![c].offers = Tail(@)]
    <3>1. cadet[c].offers \in Seq(Offers) /\ Len(cadet[c].offers) = 1
      <4>1. OfferOf(c) \in Offers
        BY <1>1, Names, Messages DEF OfferOf, TypeOK
      <4>2. cadet[c].offers = <<OfferOf(c)>>
        BY <1>2, <2>1 DEF ChannelOK
      <4> QED
        BY <4>1, <4>2, Singletons
    <3>2. Tail(cadet[c].offers) = <<>> /\ <<>> \in Seq(Offers)
      BY <3>1, Singletons
    <3> DEFINE s == [cadet[c] EXCEPT !.offers = <<>>]
    <3>3. /\ s \in ChannelState /\ s.context = cadet[c].context
          /\ s.offers = <<>> /\ s.answers = cadet[c].answers
      BY <1>2, <3>2 DEF ChannelState
    <3>4. cadet' = [cadet EXCEPT ![c] = s]
      BY <2>1, <3>2
    <3> QED
      BY <3>3, <3>4
  <2>2. CASE cadet[c].answers # <<>> /\ cadet' = [cadet EXCEPT ![c].answers = Tail(@)]
    <3>1. cadet[c].answers \in Seq(Answers) /\ Len(cadet[c].answers) = 1
      BY <1>2, <2>2 DEF ChannelOK, ChannelState
    <3>2. Tail(cadet[c].answers) = <<>> /\ <<>> \in Seq(Answers)
      BY <3>1, Singletons
    <3> DEFINE s == [cadet[c] EXCEPT !.answers = <<>>]
    <3>3. /\ s \in ChannelState /\ s.context = cadet[c].context
          /\ s.offers = cadet[c].offers /\ s.answers = <<>>
      BY <1>2, <3>2 DEF ChannelState
    <3>4. cadet' = [cadet EXCEPT ![c] = s]
      BY <2>2, <3>2
    <3> QED
      BY <3>3, <3>4
  <2> QED
    BY <1>1, <2>1, <2>2
<1>4. /\ cadet' \in [Channel -> ChannelState] /\ cadet'[c] = s
      /\ \A d \in Channel : d # c => cadet'[d] = cadet[d]
  BY <1>1, <1>3, CadetTypes
<1>5. TypeOK'
  BY <1>1, <1>4, LossAssumption DEF TypeOK
<1>6. \A d \in Channel : cadet[d].context \in {None, In(d)}
  BY <1>2 DEF ChannelOK
<1> QED
  BY <1>1, <1>3, <1>4, <1>5, <1>6, QuietOK

LEMMA CloseFirstTabOK ==
  ASSUME IInv, NEW p \in Peer, CloseFirstTab(p)
  PROVE  IInv'
<1>0. TypeOK
  BY DEF IInv
<1>1. /\ TypeOK /\ UNCHANGED <<sessions, rtc, cadet, stopped, monitor, seen, losses>>
      /\ firstTab' = firstTab \ {p}
      /\ connections' = [connections EXCEPT ![p] =
           [n \in DOMAIN connections[p] |->
              [connections[p][n] EXCEPT !.signaling = "gone", !.toWindow = <<>>]]]
  BY DEF CloseFirstTab, IInv, monitorVars
<1>2. /\ \A q \in Peer : q # p => connections'[q] = connections[q]
      /\ \A q \in Peer : DOMAIN connections'[q] = DOMAIN connections[q]
      /\ \A n \in DOMAIN connections[p] :
           connections'[p][n] = [connections[p][n] EXCEPT !.signaling = "gone", !.toWindow = <<>>]
  BY <1>1 DEF TypeOK
<1>3. ASSUME NEW n \in DOMAIN connections[p]
      PROVE  LET k0 == connections[p][n]
                 k == connections'[p][n]
             IN  /\ k \in Connection /\ k.cls = k0.cls /\ k.remote = k0.remote
                 /\ k.toWorker = k0.toWorker /\ k.toWindow = <<>> /\ k.signaling = "gone"
  <2>1. connections[p][n] \in Connection
    BY <1>0 DEF TypeOK
  <2>2. <<>> \in Seq(Answers)
    OBVIOUS
  <2> QED
    BY <1>2, <2>1, <2>2 DEF Connection, Signaling
<1>4. TypeOK'
  <2>1. connections'[p] \in Seq(Connection)
    <3>1. connections[p] \in Seq(Connection)
      BY <1>1 DEF TypeOK
    <3>2. PICK l \in Nat : DOMAIN connections[p] = 1 .. l
      BY <3>1
    <3>3. connections'[p] = [n \in 1 .. l |->
            [connections[p][n] EXCEPT !.signaling = "gone", !.toWindow = <<>>]]
      BY <1>1, <3>2 DEF TypeOK
    <3>4. \A n \in 1 .. l : connections'[p][n] \in Connection
      BY <1>3, <3>2
    <3>5. connections'[p] \in [1 .. l -> Connection]
      BY <3>3, <3>4
    <3> QED
      BY <3>5
  <2>2. connections' \in [Peer -> Seq(Connection)]
    BY <1>1, <1>2, <2>1 DEF TypeOK
  <2> QED
    BY <1>1, <2>2 DEF TypeOK
<1>5. OffersStay
  BY <1>2, <1>3 DEF OffersStay
<1>6. ASSUME NEW q \in Peer, NEW n \in DOMAIN connections'[q] PROVE ConnectionOK(q, n)'
  <2>1. n \in DOMAIN connections[q] /\ ConnectionOK(q, n) /\ n \in Nat
    <3>1. n \in DOMAIN connections[q]
      BY <1>2
    <3>2. n \in Nat
      BY <1>0, <3>1 DEF TypeOK
    <3> QED
      BY <3>1, <3>2 DEF IInv, Handshakes
  <2>2. CASE q # p
    BY <1>1, <1>2, <1>5, <2>1, <2>2, ConnectionStays
  <2>3. CASE q = p /\ Answering(q, n)
    <3>1. Answering(q, n)'
      BY <1>1, <1>3, <2>1, <2>3 DEF Answering, OfferOf, Undescribed
    <3> QED
      BY <3>1 DEF ConnectionOK
  <2>4. ASSUME q = p, NEW c \in Channel, Offering(q, n, c) PROVE ConnectionOK(q, n)'
    <3>1. ASSUME NEW x, x = connections[q][n].remote, GoodAnswer(x, q, n)
          PROVE  GoodAnswer(x, q, n)'
      BY <1>5, <2>1, <3>1, GoodStays
    <3>2. connections[q][n].remote = None \/ GoodAnswer(connections[q][n].remote, q, n)
      BY <2>4 DEF Offering
    <3>3. connections'[q][n].remote = None \/ GoodAnswer(connections[q][n].remote, q, n)'
      <4>1. connections'[q][n].remote = connections[q][n].remote
        BY <1>3, <2>1, <2>4
      <4> QED
        BY <3>1, <3>2, <4>1
    <3>4. Offering(q, n, c)'
      BY <1>1, <1>3, <2>1, <2>4, <3>3 DEF Offering, Undescribed
    <3> QED
      BY <3>4 DEF ConnectionOK
  <2> QED
    BY <2>1, <2>2, <2>3, <2>4 DEF ConnectionOK
<1>7. ASSUME NEW c \in Channel PROVE ChannelOK(c)'
  <2>1. Initiator(c) \in Peer /\ Target(c) \in Peer /\ rtc[Out(c)] \in Nat
    BY <1>1, Names DEF TypeOK
  <2>2. ASSUME NEW q \in Peer, NEW n \in DOMAIN connections[q]
        PROVE  LET k0 == connections[q][n]
                   k == connections'[q][n]
               IN  /\ k.cls = k0.cls /\ k.toWorker = k0.toWorker
                   /\ k0.toWindow = <<>> => k.toWindow = <<>>
                   /\ k.signaling \in {k0.signaling, "gone"}
    BY <1>2, <1>3
  <2>d. /\ DOMAIN connections'[Initiator(c)] = DOMAIN connections[Initiator(c)]
        /\ DOMAIN connections'[Target(c)] = DOMAIN connections[Target(c)]
    BY <1>2, <2>1
  <2>3. Unsent(c)' => Unsent(c)
    BY <2>d, <2>1, <2>2 DEF Unsent, Undescribed
  <2>4. Unheard(c)' <=> Unheard(c)
    BY <2>d, <2>1, <2>2 DEF Unheard
  <2>5. Unanswered(c)' => Unanswered(c)
    BY <2>d, <2>1, <2>2 DEF Unanswered, Undescribed
  <2>6. NothingBack(c) => NothingBack(c)'
    BY <2>d, <2>1, <2>2 DEF NothingBack
  <2>7. ChannelOK(c) /\ OfferOf(c)' = OfferOf(c)
    BY <1>1 DEF IInv, Handshakes, OfferOf
  <2>8. ASSUME NEW x, x = Head(cadet[c].answers), NEW m, m = rtc[Out(c)],
               GoodAnswer(x, Initiator(c), m)
        PROVE  GoodAnswer(x, Initiator(c), m)'
    BY <1>5, <2>1, <2>8, GoodStays
  <2>9. \/ cadet[c].answers = <<>>
        \/ /\ Len(cadet[c].answers) = 1
           /\ GoodAnswer(Head(cadet[c].answers), Initiator(c), rtc[Out(c)])'
           /\ ~Unanswered(c) /\ NothingBack(c)
    BY <1>1, <2>7, <2>8 DEF ChannelOK, GoodAnswer
  <2> QED
    BY <1>1, <2>3, <2>4, <2>5, <2>6, <2>7, <2>9 DEF ChannelOK
<1> QED
  BY <1>4, <1>6, <1>7 DEF IInv, Handshakes

LEMMA Stuttering ==
  ASSUME IInv, UNCHANGED vars
  PROVE  IInv'
<1>1. UNCHANGED <<sessions, rtc, cadet, connections, firstTab, stopped, monitor, seen, losses>>
  BY DEF vars
<1>2. TypeOK'
  BY <1>1 DEF IInv, TypeOK
<1>3. \A c \in Channel : cadet[c].context \in {None, In(c)}
  BY DEF IInv, Handshakes, ChannelOK
<1> QED
  BY <1>1, <1>2, <1>3, QuietOK

-----------------------------------------------------------------------------
(* The invariant is one.                                                   *)

LEMMA InitOK == Init => IInv
<1> SUFFICES ASSUME Init PROVE IInv
  OBVIOUS
<1>1. \A p \in Peer : connections[p] = <<>> /\ DOMAIN connections[p] = {}
  BY DEF Init
<1>2. TypeOK
  <2>1. [status |-> "none", context |-> None, offers |-> <<>>, answers |-> <<>>] \in ChannelState
    BY DEF ChannelState
  <2>2. cadet \in [Channel -> ChannelState]
    BY <2>1 DEF Init
  <2> QED
    BY <2>2, LossAssumption DEF Init, TypeOK
<1>3. ASSUME NEW c \in Channel PROVE ChannelOK(c)
  <2>1. cadet[c].context = None /\ cadet[c].offers = <<>> /\ cadet[c].answers = <<>>
    BY DEF Init
  <2>2. Unheard(c) /\ NothingBack(c)
    BY <1>1, Names DEF Unheard, NothingBack
  <2> QED
    BY <2>1, <2>2 DEF ChannelOK
<1> QED
  BY <1>1, <1>2, <1>3 DEF IInv, Handshakes

LEMMA NextOK == IInv /\ [Next]_vars => IInv'
<1> SUFFICES ASSUME IInv, [Next]_vars PROVE IInv'
  OBVIOUS
<1>1. ASSUME NEW c \in Channel,
             \/ GetSession(Initiator(c), Target(c))
             \/ Connected(c) \/ HandleOffer(c) \/ HandleAnswer(c) \/ LoseMessage(c)
      PROVE  IInv'
  BY <1>1, GetSessionOK, ConnectedOK, HandleOfferOK, HandleAnswerOK, LoseMessageOK
<1>2. ASSUME NEW p \in Peer, SetupMonitor(p) \/ CloseFirstTab(p) PROVE IInv'
  BY <1>2, SetupMonitorOK, CloseFirstTabOK
<1>3. ASSUME NEW p \in Peer, NEW n \in DOMAIN connections[p],
             \/ OfferCb(p, n) \/ AnswerCb(p, n)
             \/ WindowConnects(p, n) \/ WindowDescribes(p, n) \/ WindowAnswered(p, n)
             \/ WindowRejects(p, n)
      PROVE  IInv'
  BY <1>3, OfferCbOK, AnswerCbOK, WindowConnectsOK, WindowDescribesOK, WindowAnsweredOK,
     WindowRejectsOK
<1> QED
  BY <1>1, <1>2, <1>3, Stuttering DEF Next

LEMMA Inductive == Spec => []IInv
BY InitOK, NextOK, PTL DEF Spec

-----------------------------------------------------------------------------
(* The theorems.                                                           *)

\* Every variable keeps its type whatever the peers, the tabs and the channels do.
THEOREM TypeCorrect == Spec => []TypeOK
<1>1. IInv => TypeOK
  BY DEF IInv
<1> QED
  BY <1>1, Inductive, PTL

\* For any number of peers: the number a session keeps leads to the connection that
\* was made for it, in both directions (rtc_peer_connection and CONNECTIONS).
THEOREM NumbersName == Spec => []NumbersLeadBack
<1>1. IInv => NumbersLeadBack
  <2> SUFFICES ASSUME IInv, NEW p \in Peer, NEW n \in DOMAIN connections[p],
                      connections[p][n].cls # None
               PROVE  rtc[connections[p][n].cls] = n
    BY DEF NumbersLeadBack
  <2>1. ConnectionOK(p, n)
    BY DEF IInv, Handshakes
  <2> QED
    BY <2>1 DEF ConnectionOK, Answering, Offering
<1> QED
  BY <1>1, Inductive, PTL

\* For any number of peers, of handshakes in both directions and of messages lost: an
\* answer that comes to a connection or is applied to it was made for the offer of that
\* connection, by a connection of another peer that was given this offer.
THEOREM AnswersFindTheirOffer == Spec => []AnswerMatchesOffer
<1>1. IInv => AnswerMatchesOffer
  <2> SUFFICES ASSUME IInv, NEW p \in Peer, NEW n \in DOMAIN connections[p],
                      NEW a \in ({connections[p][n].remote} \cap Answers)
                         \cup {connections[p][n].toWindow[i] : i \in DOMAIN connections[p][n].toWindow}
               PROVE  /\ a.to = Offer(p, n)
                      /\ a.peer # p
                      /\ a.number \in DOMAIN connections[a.peer]
                      /\ connections[a.peer][a.number].remote = a.to
    BY DEF AnswerMatchesOffer
  <2> DEFINE k == connections[p][n]
  <2>1. ConnectionOK(p, n) /\ k \in Connection
    BY DEF IInv, Handshakes, TypeOK
  <2>2. ~Answering(p, n)
    BY Messages DEF Answering
  <2>3. PICK c \in Channel : Offering(p, n, c)
    BY <2>1, <2>2 DEF ConnectionOK
  <2>4. CASE a \in {k.remote} \cap Answers
    BY <2>3, <2>4, Messages, NoneAssumption DEF Offering, GoodAnswer
  <2>5. ASSUME NEW i \in DOMAIN k.toWindow, a = k.toWindow[i] PROVE GoodAnswer(a, p, n)
    <3>1. k.toWindow \in Seq(Answers) /\ k.toWindow # <<>>
      BY <2>1, <2>5 DEF Connection
    <3>2. Len(k.toWindow) = 1 /\ GoodAnswer(Head(k.toWindow), p, n)
      BY <2>3, <3>1 DEF Offering
    <3>3. i = 1 /\ Head(k.toWindow) = k.toWindow[1]
      BY <2>5, <3>1, <3>2
    <3> QED
      BY <2>5, <3>2, <3>3
  <2> QED
    BY <2>4, <2>5 DEF GoodAnswer
<1> QED
  BY <1>1, Inductive, PTL

\* For any number of peers: setRemoteDescription is called with an answer only on a
\* connection whose offer waits for one, and with one answer only.
THEOREM AnswersWaitedFor == Spec => []AnswersAwaited
<1>1. IInv => AnswersAwaited
  <2> SUFFICES ASSUME IInv, NEW p \in Peer, NEW n \in DOMAIN connections[p],
                      connections[p][n].toWindow # <<>>
               PROVE  /\ connections[p][n].signaling = "have-local-offer"
                      /\ Len(connections[p][n].toWindow) = 1
    BY DEF AnswersAwaited
  <2>1. ConnectionOK(p, n)
    BY DEF IInv, Handshakes
  <2> QED
    BY <2>1 DEF ConnectionOK, Answering, Offering
<1> QED
  BY <1>1, Inductive, PTL
=============================================================================
