----------------------------- MODULE PageProofs -----------------------------
(***************************************************************************)
(* Theorems about the page: about its publications, for any number of them *)
(* and files of any length; about its table of peers, for any set of peers *)
(* and streams of any length; about its files, that an object that is      *)
(* offered is whole; and about its searches, that no result is lost.  What *)
(* is proved of a part alone holds in the composition too, since the parts *)
(* share no state.                                                         *)
(***************************************************************************)
EXTENDS Page, FiniteSetTheorems, SequenceTheorems, TLAPS

-----------------------------------------------------------------------------
(* Publications.                                                           *)

\* What the theorems assume of the constants.
PublicationParameters == Blocks \in Nat \ {0} /\ None \notin Publish

LEMMA PageParameters == PublicationParameters
BY PageAssumption DEF PublicationParameters

\* Where publication p is, by its phase.
Encoder(p) ==
  /\ encrypted[p] = [i \in 1 .. position[p] - 1 |-> i]
  /\ asked[p] => ~inNext[p] /\ reading[p] = 0 /\ phase[p] = "encoding"
  /\ reading[p] # 0 => reading[p] = position[p] /\ phase[p] = "encoding"
  /\ phase[p] = "encoding" => p \in registered /\ (asked[p] \/ reading[p] # 0 \/ p \in broken)
  /\ phase[p] = "none" => position[p] = 1 /\ ~inNext[p]
  /\ phase[p] = "done" => position[p] = P!Depth /\ p \notin registered

\* The page is told of a completion when there was one.
Told(p) ==
  /\ \A i \in 1 .. Len(channel[p]) : channel[p][i] = "completed" => phase[p] = "done"
  /\ form.uri = p => phase[p] = "done"

\* The inductive invariant.
PublicationInv == P!TypeOK /\ \A p \in Publish : Encoder(p) /\ Told(p)

LEMMA AppendFacts ==
  ASSUME NEW S, NEW q \in Seq(S), NEW e \in S
  PROVE  /\ Append(q, e) \in Seq(S)
         /\ \A i \in 1 .. Len(Append(q, e)) :
              \/ (i \in 1 .. Len(q) /\ Append(q, e)[i] = q[i])
              \/ Append(q, e)[i] = e
OBVIOUS

LEMMA TailFacts ==
  ASSUME NEW S, NEW q \in Seq(S), q # <<>>
  PROVE  /\ Tail(q) \in Seq(S) /\ 1 \in 1 .. Len(q) /\ Head(q) = q[1]
         /\ \A i \in 1 .. Len(Tail(q)) : i + 1 \in 1 .. Len(q) /\ Tail(q)[i] = q[i + 1]
<1>1. 1 \in 1 .. Len(q) /\ Head(q) = q[1]
  OBVIOUS
<1>2. /\ Len(Tail(q)) = Len(q) - 1 /\ Tail(q) \in Seq(S)
      /\ \A i \in 1 .. Len(q) - 1 : Tail(q)[i] = q[i + 1]
  BY HeadTailProperties
<1> QED
  BY <1>1, <1>2

\* The blocks up to n with the next one are the blocks up to n + 1.
LEMMA Counting ==
  ASSUME NEW n \in Nat
  PROVE  Append([i \in 1 .. n |-> i], n + 1) = [i \in 1 .. n + 1 |-> i]
OBVIOUS

LEMMA PublicationAtFirst == ASSUME PublicationParameters, P!Init PROVE PublicationInv
<1>1. P!TypeOK
  BY DEF P!Init, P!TypeOK, PublicationParameters, P!Depth, P!Inode
<1>2. ASSUME NEW p \in Publish PROVE Encoder(p) /\ Told(p)
  <2>1. encrypted[p] = [i \in 1 .. position[p] - 1 |-> i]
    BY DEF P!Init
  <2> QED
    BY <2>1 DEF P!Init, Encoder, Told, PublicationParameters
<1> QED
  BY <1>1, <1>2 DEF PublicationInv

\* What is said of a publication depends on its own state and on the form.
LEMMA OtherPublicationsKept ==
  ASSUME PublicationInv, NEW p \in Publish,
         phase'[p] = phase[p], inNext'[p] = inNext[p], asked'[p] = asked[p],
         position'[p] = position[p], reading'[p] = reading[p],
         encrypted'[p] = encrypted[p], channel'[p] = channel[p],
         p \in broken' <=> p \in broken, p \in registered' <=> p \in registered,
         form'.uri = p => form.uri = p
  PROVE  Encoder(p)' /\ Told(p)'
<1>1. Encoder(p)'
  BY DEF PublicationInv, Encoder, P!Depth, P!Inode
<1>2. Told(p)'
  BY DEF PublicationInv, Told
<1> QED
  BY <1>1, <1>2

LEMMA EncryptKeeps ==
  ASSUME PublicationParameters, PublicationInv, NEW p \in Publish,
         P!Encrypt(p, position[p]), position[p] <= P!Inode,
         phase[p] = "encoding", reading'[p] = 0, reading' \in [Publish -> 0 .. Blocks],
         \A q \in Publish \ {p} : reading'[q] = reading[q],
         UNCHANGED <<phase, broken, registered, channel, form>>
  PROVE  PublicationInv'
<1>1. /\ encrypted' = [encrypted EXCEPT ![p] = Append(@, position[p])]
      /\ position' = [position EXCEPT ![p] = @ + 1]
      /\ inNext' = [inNext EXCEPT ![p] = FALSE]
      /\ asked' = [asked EXCEPT ![p] = TRUE]
  BY DEF P!Encrypt, P!PositionAfter
<1>2. position[p] \in 1 .. P!Inode
  BY DEF PublicationInv, P!TypeOK, PublicationParameters, P!Inode, P!Depth
<1>3. P!TypeOK'
  <2>1. position[p] + 1 \in 1 .. P!Depth
    BY <1>2 DEF PublicationParameters, P!Inode, P!Depth
  <2>2. position' \in [Publish -> 1 .. P!Depth] /\ P!Depth' = P!Depth /\ P!Inode' = P!Inode
    BY <1>1, <2>1 DEF PublicationInv, P!TypeOK, P!Depth, P!Inode
  <2>3. encrypted' \in [Publish -> Seq(1 .. P!Inode)]
    BY <1>1, <1>2 DEF PublicationInv, P!TypeOK
  <2> QED
    BY <1>1, <2>2, <2>3 DEF PublicationInv, P!TypeOK
<1>4. Encoder(p)'
  <2>1. position[p] - 1 \in Nat /\ (position[p] - 1) + 1 = position[p]
        /\ position'[p] - 1 = position[p]
    <3>1. position[p] \in Nat \ {0}
      BY <1>2 DEF PublicationParameters, P!Inode
    <3>2. position'[p] = position[p] + 1
      BY <1>1 DEF PublicationInv, P!TypeOK
    <3> QED
      BY <3>1, <3>2
  <2>2. encrypted'[p] = Append([i \in 1 .. position[p] - 1 |-> i], position[p])
    BY <1>1 DEF PublicationInv, P!TypeOK, Encoder
  <2>3. encrypted'[p] = [i \in 1 .. position'[p] - 1 |-> i]
    BY <2>1, <2>2, Counting
  <2>4. asked'[p] /\ ~inNext'[p]
    BY <1>1 DEF PublicationInv, P!TypeOK
  <2> QED
    BY <2>3, <2>4 DEF PublicationInv, Encoder
<1>5. Told(p)'
  BY DEF PublicationInv, Told
<1>6. ASSUME NEW q \in Publish \ {p} PROVE Encoder(q)' /\ Told(q)'
  BY <1>1, OtherPublicationsKept DEF PublicationInv, P!TypeOK
<1> QED
  BY <1>3, <1>4, <1>5, <1>6 DEF PublicationInv

\* An event that is added to the channel of p.
LEMMA EventAdded ==
  ASSUME PublicationInv, NEW p \in Publish, NEW e \in {"start", "completed"}, P!Happens(p, e),
         UNCHANGED form, e = "completed" => phase'[p] = "done",
         phase[p] = "done" => phase'[p] = "done"
  PROVE  /\ channel' \in [Publish -> Seq({"start", "completed"})] /\ Told(p)'
         /\ \A q \in Publish \ {p} : channel'[q] = channel[q]
<1>1. /\ channel[p] \in Seq({"start", "completed"})
      /\ channel' = [channel EXCEPT ![p] = Append(@, e)]
  BY DEF PublicationInv, P!TypeOK, P!Happens
<1>2. channel' \in [Publish -> Seq({"start", "completed"})]
  BY <1>1 DEF PublicationInv, P!TypeOK
<1>3. channel'[p] = Append(channel[p], e) /\ \A q \in Publish \ {p} : channel'[q] = channel[q]
  BY <1>1 DEF PublicationInv, P!TypeOK
<1>4. \A i \in 1 .. Len(channel'[p]) : channel'[p][i] = "completed" => phase'[p] = "done"
  <2>1. ASSUME NEW i \in 1 .. Len(channel'[p]), channel'[p][i] = "completed", phase'[p] # "done"
        PROVE  FALSE
    <3>1. (i \in 1 .. Len(channel[p]) /\ channel'[p][i] = channel[p][i]) \/ channel'[p][i] = e
      BY <1>1, <1>3, AppendFacts
    <3> QED
      BY <2>1, <3>1 DEF PublicationInv, Told
  <2> QED
    BY <2>1
<1> QED
  BY <1>2, <1>3, <1>4 DEF PublicationInv, Told

LEMMA PublicationKept ==
  ASSUME PublicationParameters, PublicationInv, [P!Next]_(P!vars) PROVE PublicationInv'
<1>0. P!TypeOK /\ \A p \in Publish : Encoder(p) /\ Told(p)
  BY DEF PublicationInv
<1>1. ASSUME NEW p \in Publish, P!StartPublish(p) PROVE PublicationInv'
  <2>1. /\ phase[p] = "none" /\ phase' = [phase EXCEPT ![p] = "encoding"]
        /\ asked' = [asked EXCEPT ![p] = TRUE]
        /\ registered' = registered \cup {p} /\ P!Happens(p, "start")
        /\ UNCHANGED <<inNext, position, reading, broken, encrypted, form>>
    BY <1>1 DEF P!StartPublish
  <2>2. /\ channel' \in [Publish -> Seq({"start", "completed"})] /\ Told(p)'
        /\ \A q \in Publish \ {p} : channel'[q] = channel[q]
    BY <2>1, EventAdded
  <2>3. P!TypeOK'
    BY <1>0, <2>1, <2>2 DEF P!TypeOK, P!Depth, P!Inode
  <2>4. phase'[p] = "encoding" /\ asked'[p]
    BY <1>0, <2>1 DEF P!TypeOK
  <2>5. Encoder(p)'
    BY <1>0, <2>1, <2>4 DEF Encoder
  <2>6. ASSUME NEW q \in Publish \ {p} PROVE Encoder(q)' /\ Told(q)'
    BY <1>0, <2>1, <2>2, OtherPublicationsKept DEF P!TypeOK
  <2> QED
    BY <2>2, <2>3, <2>5, <2>6 DEF PublicationInv
<1>2. ASSUME NEW p \in Publish, P!NextBlock(p) PROVE PublicationInv'
  <2>1. /\ asked[p] /\ position[p] <= Blocks
        /\ asked' = [asked EXCEPT ![p] = FALSE]
        /\ inNext' = [inNext EXCEPT ![p] = TRUE]
        /\ reading' = [reading EXCEPT ![p] = position[p]]
        /\ UNCHANGED <<phase, position, broken, encrypted, registered, channel, form>>
    BY <1>2 DEF P!NextBlock, P!NotAsked
  <2>2. position[p] \in 1 .. Blocks
    BY <1>0, <2>1 DEF P!TypeOK, PublicationParameters, P!Depth, P!Inode
  <2>3. position[p] # 0 /\ position[p] \in 0 .. Blocks
    BY <2>2 DEF PublicationParameters
  <2>4. P!TypeOK'
    BY <1>0, <2>1, <2>3 DEF P!TypeOK, P!Depth, P!Inode
  <2>5. ~asked'[p] /\ reading'[p] = position[p]
    BY <1>0, <2>1 DEF P!TypeOK
  <2>6. Encoder(p)'
    BY <1>0, <2>1, <2>3, <2>5 DEF Encoder
  <2>7. Told(p)'
    BY <1>0, <2>1 DEF Told
  <2>8. ASSUME NEW q \in Publish \ {p} PROVE Encoder(q)' /\ Told(q)'
    BY <1>0, <2>1, OtherPublicationsKept DEF P!TypeOK
  <2> QED
    BY <2>4, <2>6, <2>7, <2>8 DEF PublicationInv
<1>3. ASSUME NEW p \in Publish, P!NextInode(p) PROVE PublicationInv'
  <2>1. /\ asked[p] /\ position[p] = P!Inode /\ P!Encrypt(p, position[p])
        /\ UNCHANGED <<phase, reading, broken, registered, channel, form>>
    BY <1>3 DEF P!NextInode
  <2>2. position[p] <= P!Inode /\ phase[p] = "encoding" /\ reading'[p] = 0
    <3>1. phase[p] = "encoding" /\ reading'[p] = 0
      BY <1>0, <2>1 DEF Encoder
    <3>2. position[p] <= P!Inode
      BY <2>1 DEF P!Inode, PublicationParameters
    <3> QED
      BY <3>1, <3>2
  <2>3. reading' \in [Publish -> 0 .. Blocks]
    BY <1>0, <2>1 DEF P!TypeOK
  <2> QED
    BY <2>1, <2>2, <2>3, EncryptKeeps
<1>4. ASSUME NEW p \in Publish, P!NextDone(p) PROVE PublicationInv'
  <2>1. /\ asked[p] /\ position[p] = P!Depth
        /\ asked' = [asked EXCEPT ![p] = FALSE]
        /\ phase' = [phase EXCEPT ![p] = "done"]
        /\ registered' = registered \ {p} /\ P!Happens(p, "completed")
        /\ UNCHANGED <<inNext, position, reading, broken, encrypted, form>>
    BY <1>4 DEF P!NextDone, P!NotAsked
  <2>2. phase'[p] = "done" /\ ~asked'[p]
    BY <1>0, <2>1 DEF P!TypeOK
  <2>3. /\ channel' \in [Publish -> Seq({"start", "completed"})] /\ Told(p)'
        /\ \A q \in Publish \ {p} : channel'[q] = channel[q]
    <3>1. P!Happens(p, "completed") /\ form' = form /\ phase'[p] = "done"
      BY <2>1, <2>2
    <3>2. "completed" \in {"start", "completed"}
      OBVIOUS
    <3> QED
      BY <3>1, <3>2, EventAdded, Zenon
  <2>4. P!TypeOK'
    BY <1>0, <2>1, <2>3 DEF P!TypeOK, P!Depth, P!Inode
  <2>5. Encoder(p)'
    BY <1>0, <2>1, <2>2 DEF Encoder, P!Depth, P!Inode
  <2>6. ASSUME NEW q \in Publish \ {p} PROVE Encoder(q)' /\ Told(q)'
    BY <1>0, <2>1, <2>3, OtherPublicationsKept DEF P!TypeOK
  <2> QED
    BY <2>3, <2>4, <2>5, <2>6 DEF PublicationInv
<1>5. ASSUME NEW p \in Publish, P!Onload(p) PROVE PublicationInv'
  <2>1. /\ reading[p] # 0 /\ reading' = [reading EXCEPT ![p] = 0]
        /\ P!Encrypt(p, reading[p])
        /\ UNCHANGED <<phase, broken, registered, channel, form>>
    BY <1>5 DEF P!Onload
  <2>2. reading[p] = position[p] /\ phase[p] = "encoding" /\ reading[p] \in 0 .. Blocks
    BY <1>0, <2>1 DEF Encoder, P!TypeOK
  <2>3. position[p] <= P!Inode /\ P!Encrypt(p, position[p])
    BY <2>1, <2>2 DEF P!Inode, PublicationParameters
  <2>4. /\ reading'[p] = 0 /\ reading' \in [Publish -> 0 .. Blocks]
        /\ \A q \in Publish \ {p} : reading'[q] = reading[q]
    BY <1>0, <2>1 DEF P!TypeOK, PublicationParameters
  <2> QED
    BY <2>1, <2>2, <2>3, <2>4, EncryptKeeps
<1>6. ASSUME NEW p \in Publish, P!ReadFails(p) PROVE PublicationInv'
  <2>1. /\ reading[p] # 0 /\ reading' = [reading EXCEPT ![p] = 0]
        /\ broken' = broken \cup {p}
        /\ UNCHANGED <<phase, inNext, asked, position, encrypted, registered, channel, form>>
    BY <1>6 DEF P!ReadFails
  <2>2. P!TypeOK'
    BY <1>0, <2>1 DEF P!TypeOK, P!Depth, P!Inode, PublicationParameters
  <2>3. reading'[p] = 0
    BY <1>0, <2>1 DEF P!TypeOK
  <2>4. Encoder(p)'
    BY <1>0, <2>1, <2>3 DEF Encoder
  <2>5. Told(p)'
    BY <1>0, <2>1 DEF Told
  <2>6. ASSUME NEW q \in Publish \ {p} PROVE Encoder(q)' /\ Told(q)'
    BY <1>0, <2>1, OtherPublicationsKept DEF P!TypeOK
  <2> QED
    BY <2>2, <2>4, <2>5, <2>6 DEF PublicationInv
<1>7. ASSUME NEW p \in Publish, P!TakeEvent(p) PROVE PublicationInv'
  <2> DEFINE c == channel[p]
  <2>1. /\ c # <<>> /\ c \in Seq({"start", "completed"})
        /\ channel' = [channel EXCEPT ![p] = Tail(c)]
        /\ form' = IF Head(c) = "start" THEN [form EXCEPT !.state = "active"]
                   ELSE [state |-> "complete", uri |-> p]
        /\ UNCHANGED <<phase, P!encoderVars, registered>>
    BY <1>0, <1>7 DEF P!TakeEvent, P!TypeOK
  <2>2. /\ Tail(c) \in Seq({"start", "completed"}) /\ Head(c) \in {"start", "completed"}
        /\ 1 \in 1 .. Len(c) /\ Head(c) = c[1]
        /\ \A i \in 1 .. Len(Tail(c)) : i + 1 \in 1 .. Len(c) /\ Tail(c)[i] = c[i + 1]
    BY <2>1, TailFacts
  <2>3. channel'[p] = Tail(c) /\ channel' \in [Publish -> Seq({"start", "completed"})]
        /\ \A q \in Publish \ {p} : channel'[q] = channel[q]
    BY <1>0, <2>1, <2>2 DEF P!TypeOK
  <2>4. /\ form' \in [state : {"inactive", "active", "complete"}, uri : Publish \cup {None}]
        /\ form'.uri # form.uri => Head(c) = "completed" /\ form'.uri = p
    <3>1. form \in [state : {"inactive", "active", "complete"}, uri : Publish \cup {None}]
      BY <1>0 DEF P!TypeOK
    <3>2. CASE Head(c) = "start"
      <4>1. form' = [form EXCEPT !.state = "active"]
        BY <2>1, <3>2
      <4> QED
        BY <3>1, <4>1
    <3>3. CASE Head(c) = "completed"
      BY <2>1, <3>3
    <3> QED
      BY <2>2, <3>2, <3>3
  <2>5. P!TypeOK'
    BY <1>0, <2>1, <2>3, <2>4 DEF P!TypeOK, P!encoderVars, P!Depth, P!Inode
  <2>6. Encoder(p)'
    BY <1>0, <2>1 DEF Encoder, P!encoderVars, P!Depth, P!Inode
  <2>7. Told(p)'
    <3>1. Head(c) = "completed" => phase[p] = "done"
      BY <1>0, <2>2 DEF Told
    <3>2. \A i \in 1 .. Len(Tail(c)) : Tail(c)[i] = "completed" => phase[p] = "done"
      BY <1>0, <2>2 DEF Told
    <3> QED
      BY <1>0, <2>1, <2>3, <2>4, <3>1, <3>2 DEF Told
  <2>8. ASSUME NEW q \in Publish \ {p} PROVE Encoder(q)' /\ Told(q)'
    BY <2>1, <2>3, <2>4, OtherPublicationsKept DEF P!encoderVars
  <2> QED
    BY <2>5, <2>6, <2>7, <2>8 DEF PublicationInv
<1>8. CASE UNCHANGED P!vars
  <2>1. P!TypeOK'
    BY <1>0, <1>8 DEF P!vars, P!encoderVars, P!TypeOK, P!Depth, P!Inode
  <2>2. ASSUME NEW q \in Publish PROVE Encoder(q)' /\ Told(q)'
    BY <1>8, OtherPublicationsKept DEF P!vars, P!encoderVars
  <2> QED
    BY <2>1, <2>2 DEF PublicationInv
<1> QED
  BY <1>1, <1>2, <1>3, <1>4, <1>5, <1>6, <1>7, <1>8 DEF P!Next

LEMMA PublicationAlways == P!Spec => []PublicationInv
<1>1. P!Init => PublicationInv
  BY PublicationAtFirst, PageParameters
<1>2. PublicationInv /\ [P!Next]_(P!vars) => PublicationInv'
  BY PublicationKept, PageParameters
<1> QED
  BY <1>1, <1>2, PTL DEF P!Spec

-----------------------------------------------------------------------------

\* Every variable of the encoders and of the form keeps its type.
THEOREM PublicationTyped == P!Spec => []P!TypeOK
<1>1. PublicationInv => P!TypeOK
  BY DEF PublicationInv
<1> QED
  BY <1>1, PublicationAlways, PTL

\* Files are encrypted from the first block to the last, each block once, and no
\* encoder is asked for a block while it waits for another.
THEOREM BlocksInOrder == P!Spec => []P!EncodesInOrder
<1>1. PublicationInv => P!EncodesInOrder
  BY DEF PublicationInv, Encoder, P!EncodesInOrder
<1> QED
  BY <1>1, PublicationAlways, PTL

\* A publication that stands still waits for a read, or for one that has failed.
THEOREM OnlyReadsAreAwaited == P!Spec => []P!WaitsForReadOnly
<1>1. PublicationInv => P!WaitsForReadOnly
  BY DEF PublicationInv, Encoder, P!WaitsForReadOnly
<1> QED
  BY <1>1, PublicationAlways, PTL

\* The URI that the form shows is that of a file that was encoded as a whole.
THEOREM OfferedUriIsWhole == P!Spec => []P!UriOfWhole
<1>1. PublicationInv => P!UriOfWhole
  <2> SUFFICES ASSUME PublicationInv, form.uri # None
               PROVE  /\ encrypted[form.uri] = [i \in 1 .. P!Inode |-> i]
                      /\ form.uri \notin registered
    BY DEF P!UriOfWhole
  <2>1. form.uri \in Publish
    BY DEF PublicationInv, P!TypeOK
  <2>2. phase[form.uri] = "done"
    BY <2>1 DEF PublicationInv, Told
  <2>3. position[form.uri] - 1 = P!Inode
    <3>1. position[form.uri] = P!Depth
      BY <2>1, <2>2 DEF PublicationInv, Encoder
    <3> QED
      BY <3>1, PageParameters DEF P!Depth, P!Inode, PublicationParameters
  <2> QED
    BY <2>1, <2>2, <2>3 DEF PublicationInv, Encoder
<1> QED
  BY <1>1, PublicationAlways, PTL

-----------------------------------------------------------------------------
(* The page runs the steps of Publication.                                 *)

LEMMA PublicationSteps == [PageNext]_pageWide => [P!Next]_(P!vars)
<1>1. ASSUME UNCHANGED publicationVars PROVE UNCHANGED P!vars
  BY <1>1 DEF publicationVars, P!vars, P!encoderVars
<1>2. PageNext => P!Next \/ UNCHANGED publicationVars
  BY Zenon DEF PageNext, Monitored
<1>3. UNCHANGED pageWide => UNCHANGED publicationVars
  BY DEF pageWide
<1> QED
  BY <1>1, <1>2, <1>3

LEMMA PublicationSpec == PageSpec => P!Spec
<1>1. PageInit => P!Init
  BY DEF PageInit
<1> QED
  BY <1>1, PublicationSteps, PTL DEF PageSpec, P!Spec

\* In the page, publications encode their blocks in order.
THEOREM PageEncodesInOrder == PageSpec => []EncodesInOrder
<1>1. P!Spec => []P!EncodesInOrder
  BY BlocksInOrder
<1>2. P!EncodesInOrder => EncodesInOrder
  BY DEF EncodesInOrder
<1> QED
  BY <1>1, <1>2, PublicationSpec, PTL

\* In the page, only a read that is under way is waited for.
THEOREM PageWaitsForReadOnly == PageSpec => []WaitsForReadOnly
<1>1. P!Spec => []P!WaitsForReadOnly
  BY OnlyReadsAreAwaited
<1>2. P!WaitsForReadOnly => WaitsForReadOnly
  BY DEF WaitsForReadOnly
<1> QED
  BY <1>1, <1>2, PublicationSpec, PTL

-----------------------------------------------------------------------------
(* Peers, for any set of them and any length of their streams.             *)

\* Streams of one peer.
PeerOK(p) == M!NoticesLead(p) /\ M!TransportStream(p) /\ M!CoreStream(p) /\ M!InTime(p)

\* The inductive invariant.
PeersInv == M!TypeOK /\ \A p \in Peer : PeerOK(p)

\* What the numbers of the states are does not matter beyond this.
LEMMA StatesDiffer ==
  /\ M!StateDisconnected \in M!TransportState /\ M!StateConnected \in M!TransportState
  /\ ~M!IsConnected(M!StateDisconnected)
  /\ M!KeySent \in M!CoreState /\ M!CoreStateDisconnected \in M!CoreState
  /\ M!CoreStateConnected \in M!CoreState /\ M!Rekeying \in M!CoreState
  /\ M!CoreStateDisconnected \notin {M!KeySent, M!CoreStateConnected, M!Rekeying}
  /\ M!IterationFinished \notin M!CoreState
  /\ \A s \in M!TransportState : M!Follows(s) \subseteq M!TransportState
BY DEF M!StateDisconnected, M!StateConnected, M!TransportState, M!IsConnected, M!KeySent,
   M!CoreState, M!CoreStateDisconnected, M!CoreStateConnected, M!Rekeying,
   M!IterationFinished, M!Connecting, M!Reconnecting, M!Follows

-----------------------------------------------------------------------------
(* Peers: types.                                                           *)

LEMMA PeersTypedAtFirst == M!Init => M!TypeOK
<1> SUFFICES ASSUME M!Init PROVE M!TypeOK
  OBVIOUS
<1>1. DOMAIN peers = {} /\ peers \in [DOMAIN peers -> M!Info]
  BY DEF M!Init
<1> QED
  BY <1>1, StatesDiffer DEF M!Init, M!TypeOK, M!Monitor

\* The table keeps its type when the entry of p is removed, set or added.
LEMMA TableTypes ==
  ASSUME NEW p \in Peer, DOMAIN peers \in SUBSET Peer, peers \in [DOMAIN peers -> M!Info]
  PROVE  /\ M!CoreStateOf(p) \in M!CoreState \cup {None}
         /\ DOMAIN M!Without(p) \in SUBSET Peer
         /\ M!Without(p) \in [DOMAIN M!Without(p) -> M!Info]
         /\ \A s \in M!TransportState \ {M!StateDisconnected} :
              /\ DOMAIN M!WithTransport(p, s) \in SUBSET Peer
              /\ M!WithTransport(p, s) \in [DOMAIN M!WithTransport(p, s) -> M!Info]
         /\ \A s \in M!CoreState :
              /\ DOMAIN M!AfterCore(p, s) \in SUBSET Peer
              /\ M!AfterCore(p, s) \in [DOMAIN M!AfterCore(p, s) -> M!Info]
<1>1. M!CoreStateOf(p) \in M!CoreState \cup {None}
  BY DEF M!CoreStateOf, M!Info
<1>2. DOMAIN M!Without(p) \in SUBSET Peer /\ M!Without(p) \in [DOMAIN M!Without(p) -> M!Info]
  BY DEF M!Without
<1>3. ASSUME NEW s \in M!TransportState \ {M!StateDisconnected}
      PROVE  /\ DOMAIN M!WithTransport(p, s) \in SUBSET Peer
             /\ M!WithTransport(p, s) \in [DOMAIN M!WithTransport(p, s) -> M!Info]
  <2>1. [transport |-> s, core |-> M!CoreStateOf(p)] \in M!Info
    BY <1>1 DEF M!Info
  <2> QED
    BY <2>1 DEF M!WithTransport
<1>4. ASSUME NEW s \in M!CoreState
      PROVE  /\ DOMAIN M!AfterCore(p, s) \in SUBSET Peer
             /\ M!AfterCore(p, s) \in [DOMAIN M!AfterCore(p, s) -> M!Info]
  <2>1. CASE p \notin DOMAIN peers
    BY <2>1 DEF M!AfterCore
  <2>2. CASE p \in DOMAIN peers
    <3>1. [peers[p] EXCEPT !.core = s] \in M!Info
      BY <2>2 DEF M!Info
    <3>2. M!AfterCore(p, s) = [peers EXCEPT ![p] = [peers[p] EXCEPT !.core = s]]
      BY <2>2 DEF M!AfterCore, M!WithCore
    <3> QED
      BY <3>1, <3>2
  <2> QED
    BY <2>1, <2>2
<1> QED
  BY <1>1, <1>2, <1>3, <1>4

LEMMA TailTyped == ASSUME NEW S, NEW q \in Seq(S), q # <<>> PROVE Tail(q) \in Seq(S)
OBVIOUS

LEMMA PeersTypesKept == ASSUME M!TypeOK, [M!Next]_(M!vars) PROVE M!TypeOK'
<1> USE StatesDiffer DEF M!TypeOK
<1>1. CASE M!MonitorTransport
  <2>1. transportEvents' \in [Peer -> Seq(M!TransportState)]
    BY <1>1 DEF M!MonitorTransport
  <2> QED
    BY <1>1, <2>1 DEF M!MonitorTransport, M!Monitor, M!services
<1>2. CASE M!MonitorCore
  <2> DEFINE S == M!CoreState \cup {M!IterationFinished}
  <2>0. \A p \in Peer : <<M!IterationFinished>> \in Seq(S) /\ <<core[p], M!IterationFinished>> \in Seq(S)
    OBVIOUS
  <2>1. coreEvents' \in [Peer -> Seq(S)]
    BY <1>2, <2>0 DEF M!MonitorCore
  <2> QED
    BY <1>2, <2>1 DEF M!MonitorCore, M!Monitor, M!services
<1>3. ASSUME NEW p \in Peer, M!TransportChanges(p) PROVE M!TypeOK'
  <2>1. PICK s \in M!Follows(transport[p]) :
          /\ transport' = [transport EXCEPT ![p] = s]
          /\ notices' = IF M!IsConnected(s) = M!IsConnected(transport[p])
                        THEN notices
                        ELSE [notices EXCEPT ![p] = Append(@, M!IsConnected(s))]
          /\ transportEvents' = IF "transport" \in attached
                                THEN [transportEvents EXCEPT ![p] = Append(@, s)]
                                ELSE transportEvents
    BY <1>3 DEF M!TransportChanges
  <2>2. s \in M!TransportState /\ M!IsConnected(s) \in BOOLEAN
    BY <2>1 DEF M!IsConnected
  <2>3. transportEvents' \in [Peer -> Seq(M!TransportState)]
    BY <2>1, <2>2
  <2>4. notices' \in [Peer -> Seq(BOOLEAN)]
    BY <2>1, <2>2
  <2> QED
    BY <1>3, <2>1, <2>2, <2>3, <2>4 DEF M!TransportChanges
<1>4. ASSUME NEW p \in Peer, NEW s \in M!CoreState, M!CoreChanges(p, s),
             notices' \in [Peer -> Seq(BOOLEAN)]
      PROVE  M!TypeOK'
  <2>1. coreEvents' \in [Peer -> Seq(M!CoreState \cup {M!IterationFinished})]
    BY <1>4 DEF M!CoreChanges
  <2> QED
    BY <1>4, <2>1 DEF M!CoreChanges
<1>5. ASSUME NEW p \in Peer, M!CoreNotified(p) PROVE M!TypeOK'
  <2>0. notices[p] \in Seq(BOOLEAN) /\ notices[p] # <<>>
    BY <1>5 DEF M!CoreNotified
  <2>1. Tail(notices[p]) \in Seq(BOOLEAN)
    BY <2>0, TailTyped
  <2>2. notices' \in [Peer -> Seq(BOOLEAN)]
    BY <1>5, <2>1, Zenon DEF M!CoreNotified
  <2> QED
    BY <1>4, <1>5, <2>2 DEF M!CoreNotified
<1>6. ASSUME NEW p \in Peer, M!KeyExchanged(p) \/ M!Rekey(p) PROVE M!TypeOK'
  BY <1>4, <1>6 DEF M!KeyExchanged, M!Rekey
<1>7. ASSUME NEW p \in Peer, M!TransportEvent(p) PROVE M!TypeOK'
  <2>1. Head(transportEvents[p]) \in M!TransportState
    BY <1>7 DEF M!TransportEvent
  <2>2. DOMAIN peers' \in SUBSET Peer /\ peers' \in [DOMAIN peers' -> M!Info]
    BY <1>7, <2>1, TableTypes DEF M!TransportEvent, M!AfterTransport
  <2>3. transportEvents' \in [Peer -> Seq(M!TransportState)]
    BY <1>7 DEF M!TransportEvent
  <2> QED
    BY <1>7, <2>2, <2>3 DEF M!TransportEvent, M!services
<1>8. ASSUME NEW p \in Peer, M!CoreEvent(p) PROVE M!TypeOK'
  <2>1. Head(coreEvents[p]) \in M!CoreState \cup {M!IterationFinished}
    BY <1>8 DEF M!CoreEvent
  <2>2. DOMAIN peers' \in SUBSET Peer /\ peers' \in [DOMAIN peers' -> M!Info]
    <3>1. CASE Head(coreEvents[p]) = M!IterationFinished
      BY <1>8, <3>1 DEF M!CoreEvent
    <3>2. CASE Head(coreEvents[p]) # M!IterationFinished
      <4>1. Head(coreEvents[p]) \in M!CoreState /\ peers' = M!AfterCore(p, Head(coreEvents[p]))
        BY <1>8, <2>1, <3>2 DEF M!CoreEvent
      <4> HIDE DEF M!TypeOK
      <4> QED
        BY <4>1, TableTypes DEF M!TypeOK
    <3> QED
      BY <3>1, <3>2
  <2>3. coreEvents' \in [Peer -> Seq(M!CoreState \cup {M!IterationFinished})]
    BY <1>8 DEF M!CoreEvent
  <2>4. overtook' \in SUBSET Peer
    BY <1>8 DEF M!CoreEvent
  <2> QED
    BY <1>8, <2>2, <2>3, <2>4 DEF M!CoreEvent, M!services
<1>9. CASE UNCHANGED M!vars
  BY <1>9 DEF M!vars
<1> QED
  BY <1>1, <1>2, <1>3, <1>5, <1>6, <1>7, <1>8, <1>9 DEF M!Next

\* Every variable of the monitors and of the services keeps its type.
THEOREM PeersTyped == M!Spec => []M!TypeOK
<1>1. M!Init => M!TypeOK
  BY PeersTypedAtFirst
<1>2. M!TypeOK /\ [M!Next]_(M!vars) => M!TypeOK'
  BY PeersTypesKept
<1> QED
  BY <1>1, <1>2, PTL DEF M!Spec

-----------------------------------------------------------------------------
(* Peers: what the streams lead to.                                        *)

LEMMA StreamsAtFirst == M!Init => \A p \in Peer : PeerOK(p)
<1> SUFFICES ASSUME M!Init, NEW p \in Peer PROVE PeerOK(p)
  OBVIOUS
<1>1. DOMAIN peers = {}
  BY DEF M!Init
<1>2. M!NoticesLead(p) /\ M!TransportStream(p)
  BY <1>1, StatesDiffer DEF M!Init, M!NoticesLead, M!TransportStream
<1>3. M!CoreStream(p) /\ M!InTime(p)
  BY <1>1 DEF M!Init, M!CoreStream, M!InTime, M!CoreStateOf
<1> QED
  BY <1>2, <1>3 DEF PeerOK

\* Nothing that is said of q has changed.
Untouched(q) ==
  /\ transport'[q] = transport[q] /\ core'[q] = core[q] /\ notices'[q] = notices[q]
  /\ attached' = attached
  /\ transportEvents'[q] = transportEvents[q] /\ coreEvents'[q] = coreEvents[q]
  /\ q \in DOMAIN peers' <=> q \in DOMAIN peers
  /\ q \in DOMAIN peers => peers'[q] = peers[q]
  /\ q \in overtook' <=> q \in overtook

LEMMA UntouchedOK == ASSUME NEW q \in Peer, Untouched(q), PeerOK(q) PROVE PeerOK(q)'
<1>1. M!CoreStateOf(q)' = M!CoreStateOf(q) /\ M!StateToCome(q)' = M!StateToCome(q)
  BY DEF Untouched, M!CoreStateOf, M!StateToCome
<1>2. M!NoticesLead(q)' /\ M!TransportStream(q)'
  BY DEF Untouched, PeerOK, M!NoticesLead, M!TransportStream
<1>3. M!CoreStream(q)'
  BY <1>1 DEF Untouched, PeerOK, M!CoreStream
<1>4. M!InTime(q)'
  BY <1>1 DEF Untouched, PeerOK, M!InTime
<1> QED
  BY <1>2, <1>3, <1>4 DEF PeerOK

LEMMA AppendedFacts ==
  ASSUME NEW S, NEW q \in Seq(S), NEW e \in S
  PROVE  /\ Append(q, e) # <<>> /\ Len(Append(q, e)) = Len(q) + 1 /\ Len(q) \in Nat
         /\ Append(q, e)[Len(q) + 1] = e
         /\ \A i \in 1 .. Len(q) : Append(q, e)[i] = q[i]
         /\ \A i \in 1 .. Len(Append(q, e)) : i \in 1 .. Len(q) \/ i = Len(q) + 1
<1>1. /\ Append(q, e) \in Seq(S) /\ Append(q, e) # <<>> /\ Len(Append(q, e)) = Len(q) + 1
      /\ \A i \in 1 .. Len(q) : Append(q, e)[i] = q[i]
      /\ Append(q, e)[Len(q) + 1] = e
  BY AppendProperties
<1>2. Len(q) \in Nat
  OBVIOUS
<1> QED
  BY <1>1, <1>2

\* A queue that is added to ends with what was added.
LEMMA AppendLast ==
  ASSUME NEW S, NEW q \in Seq(S), NEW e \in S
  PROVE  Append(q, e) # <<>> /\ Append(q, e)[Len(Append(q, e))] = e
<1>1. Len(Append(q, e)) = Len(q) + 1 /\ Append(q, e)[Len(q) + 1] = e
  BY AppendedFacts
<1>2. Append(q, e) # <<>>
  BY AppendedFacts
<1> QED
  BY <1>1, <1>2

\* What holds of every element of a queue and of one more holds when it is added.
LEMMA AppendAvoids ==
  ASSUME NEW S, NEW q \in Seq(S), NEW e \in S, NEW x, e # x,
         \A i \in 1 .. Len(q) : q[i] # x
  PROVE  \A i \in 1 .. Len(Append(q, e)) : Append(q, e)[i] # x
<1> SUFFICES ASSUME NEW i \in 1 .. Len(Append(q, e)) PROVE Append(q, e)[i] # x
  OBVIOUS
<1>1. CASE i \in 1 .. Len(q)
  <2>1. Append(q, e)[i] = q[i]
    BY <1>1, AppendedFacts
  <2> QED
    BY <1>1, <2>1
<1>2. CASE i = Len(q) + 1
  <2>1. Append(q, e)[Len(q) + 1] = e
    BY AppendedFacts
  <2> QED
    BY <1>2, <2>1
<1>3. i \in 1 .. Len(q) \/ i = Len(q) + 1
  BY AppendedFacts
<1> QED
  BY <1>1, <1>2, <1>3

LEMMA TakenFromFacts ==
  ASSUME NEW S, NEW q \in Seq(S), q # <<>>
  PROVE  /\ Len(q) \in Nat \ {0} /\ Len(Tail(q)) = Len(q) - 1
         /\ q[1] = Head(q) /\ Head(q) \in S
         /\ \A i \in 1 .. Len(q) - 1 : Tail(q)[i] = q[i + 1]
         /\ Tail(q) = <<>> <=> Len(q) = 1
<1>1. Len(q) \in Nat \ {0} /\ q[1] = Head(q) /\ Head(q) \in S
  OBVIOUS
<1>2. /\ Len(Tail(q)) = Len(q) - 1 /\ Tail(q) \in Seq(S)
      /\ \A i \in 1 .. Len(q) - 1 : Tail(q)[i] = q[i + 1]
  BY HeadTailProperties
<1>3. Tail(q) = <<>> <=> Len(Tail(q)) = 0
  BY <1>2, EmptySeq
<1> QED
  BY <1>1, <1>2, <1>3

LEMMA TransportChangesOK ==
  ASSUME M!TypeOK, NEW p \in Peer, M!TransportChanges(p), NEW q \in Peer, PeerOK(q)
  PROVE  PeerOK(q)'
<1>1. PICK s \in M!Follows(transport[p]) :
        /\ transport' = [transport EXCEPT ![p] = s]
        /\ notices' = IF M!IsConnected(s) = M!IsConnected(transport[p])
                      THEN notices
                      ELSE [notices EXCEPT ![p] = Append(@, M!IsConnected(s))]
        /\ transportEvents' = IF "transport" \in attached
                              THEN [transportEvents EXCEPT ![p] = Append(@, s)]
                              ELSE transportEvents
  BY DEF M!TransportChanges
<1>2. UNCHANGED <<core, attached, coreEvents, peers, overtook>>
  BY DEF M!TransportChanges
<1> USE DEF M!TypeOK
<1>3. CASE q # p
  <2>1. Untouched(q)
    BY <1>1, <1>2, <1>3 DEF Untouched
  <2> QED
    BY <2>1, UntouchedOK
<1>4. CASE q = p
  <2>1. /\ s \in M!TransportState /\ transport[p] \in M!TransportState
        /\ notices[p] \in Seq(BOOLEAN) /\ transportEvents[p] \in Seq(M!TransportState)
    BY <1>1, StatesDiffer
  <2>2. M!IsConnected(s) \in BOOLEAN /\ M!IsConnected(transport[p]) \in BOOLEAN
    BY DEF M!IsConnected
  <2>3. transport'[p] = s
    BY <1>1
  <2>4. IF "transport" \in attached
        THEN transportEvents'[p] = Append(transportEvents[p], s)
        ELSE transportEvents'[p] = transportEvents[p]
    BY <1>1
  <2>5. M!TransportStream(p)'
    <3>1. Append(transportEvents[p], s) # <<>>
          /\ Append(transportEvents[p], s)[Len(Append(transportEvents[p], s))] = s
      BY <2>1, AppendLast, Zenon
    <3> QED
      BY <1>2, <1>4, <2>3, <2>4, <3>1 DEF PeerOK, M!TransportStream
  <2>6. M!CoreStream(p)'
    BY <1>2, <1>4 DEF PeerOK, M!CoreStream, M!CoreStateOf, M!StateToCome
  <2>7. CASE M!IsConnected(s) = M!IsConnected(transport[p])
    <3>1. notices' = notices
      BY <1>1, <2>7
    <3>2. M!NoticesLead(p)'
      BY <1>2, <1>4, <2>3, <2>7, <3>1, Zenon DEF PeerOK, M!NoticesLead
    <3>3. M!InTime(p)'
      <4> SUFFICES ASSUME "core" \in attached, ~M!StateToCome(p), notices[p] = <<>>,
                          core[p] # M!CoreStateDisconnected, p \notin overtook
                   PROVE  \A i \in 1 .. Len(transportEvents'[p]) :
                            transportEvents'[p][i] # M!StateDisconnected
        BY <1>2, <1>4, <3>1 DEF PeerOK, M!InTime, M!StateToCome
      <4>1. "transport" \in attached
            /\ \A i \in 1 .. Len(transportEvents[p]) : transportEvents[p][i] # M!StateDisconnected
        BY <1>4 DEF PeerOK, M!InTime
      <4>2. s # M!StateDisconnected
        BY <1>4, <2>7, StatesDiffer DEF PeerOK, M!NoticesLead
      <4>3. \A i \in 1 .. Len(Append(transportEvents[p], s)) :
              Append(transportEvents[p], s)[i] # M!StateDisconnected
        BY <2>1, <4>1, <4>2, AppendAvoids
      <4> QED
        BY <2>4, <4>1, <4>3
    <3> QED
      BY <1>4, <2>5, <2>6, <3>2, <3>3 DEF PeerOK
  <2>8. CASE M!IsConnected(s) # M!IsConnected(transport[p])
    <3>1. notices'[p] = Append(notices[p], M!IsConnected(s))
      BY <1>1, <2>8
    <3>2. /\ Append(notices[p], M!IsConnected(s)) # <<>>
          /\ Append(notices[p], M!IsConnected(s))[Len(Append(notices[p], M!IsConnected(s)))]
               = M!IsConnected(s)
      <4> HIDE DEF M!TypeOK
      <4>1. ASSUME NEW b \in BOOLEAN
            PROVE  Append(notices[p], b) # <<>> /\ Append(notices[p], b)[Len(Append(notices[p], b))] = b
        BY <2>1, AppendLast
      <4> QED
        BY <2>2, <4>1, Zenon
    <3>3. M!NoticesLead(p)'
      BY <2>3, <3>1, <3>2, Zenon DEF M!NoticesLead
    <3>4. M!InTime(p)'
      BY <3>1, <3>2 DEF M!InTime
    <3> QED
      BY <1>4, <2>5, <2>6, <3>3, <3>4 DEF PeerOK
  <2> QED
    BY <2>7, <2>8
<1> QED
  BY <1>3, <1>4

\* A change of core's state that is noticed is the last state of the stream.
LEMMA CoreChangesOK ==
  ASSUME M!TypeOK, NEW p \in Peer, NEW s \in M!CoreState, M!CoreChanges(p, s),
         \A r \in Peer \ {p} : notices'[r] = notices[r],
         NEW q \in Peer, PeerOK(q), M!NoticesLead(p)'
  PROVE  PeerOK(q)'
<1>1. /\ core' = [core EXCEPT ![p] = s]
      /\ coreEvents' = IF "core" \in attached
                       THEN [coreEvents EXCEPT ![p] = Append(@, s)]
                       ELSE coreEvents
      /\ UNCHANGED <<transport, attached, transportEvents, peers, changes, overtook>>
  BY DEF M!CoreChanges
<1>2. CASE q # p
  <2>1. Untouched(q)
    BY <1>1, <1>2 DEF Untouched, M!TypeOK
  <2> QED
    BY <2>1, UntouchedOK
<1>3. CASE q = p
  <2>1. M!TransportStream(p)'
    BY <1>1, <1>3 DEF PeerOK, M!TransportStream
  <2>2. core'[p] = s
    BY <1>1 DEF M!TypeOK
  <2>3. CASE "core" \notin attached
    <3>1. coreEvents'[p] = <<>> /\ M!CoreStateOf(p)' = None
      BY <1>1, <1>3, <2>3 DEF PeerOK, M!CoreStream, M!CoreStateOf
    <3>2. M!CoreStream(p)'
      BY <3>1 DEF M!CoreStream
    <3>3. M!InTime(p)'
      BY <1>1, <2>3 DEF M!InTime
    <3> QED
      BY <1>3, <2>1, <3>2, <3>3 DEF PeerOK
  <2>4. CASE "core" \in attached
    <3> DEFINE e == coreEvents[p]
               n == Len(e) + 1
    <3>1. e \in Seq(M!CoreState \cup {M!IterationFinished}) /\ coreEvents'[p] = Append(e, s)
      BY <1>1, <2>4 DEF M!TypeOK
    <3>2. s # M!IterationFinished
      BY StatesDiffer
    <3>3. /\ n \in Nat \ {0} /\ Len(coreEvents'[p]) = n /\ coreEvents'[p][n] = s
      BY <3>1, AppendedFacts
    <3> HIDE DEF n
    <3>4. M!StateToCome(p)'
      BY <3>2, <3>3 DEF M!StateToCome
    <3>5. M!CoreStream(p)'
      <4> SUFFICES ASSUME NEW i \in 1 .. n, i # n,
                          \A j \in i + 1 .. n : coreEvents'[p][j] = M!IterationFinished
                   PROVE  FALSE
        BY <1>1, <2>2, <2>4, <3>3, <3>4 DEF M!CoreStream
      <4>1. n \in i + 1 .. n
        BY <3>3
      <4> QED
        BY <3>2, <3>3, <4>1
    <3>6. M!InTime(p)'
      BY <3>4 DEF M!InTime
    <3> QED
      BY <1>3, <2>1, <3>5, <3>6 DEF PeerOK
  <2> QED
    BY <2>3, <2>4
<1> QED
  BY <1>2, <1>3

LEMMA CoreStepsOK ==
  ASSUME M!TypeOK, NEW p \in Peer, M!CoreNotified(p) \/ M!KeyExchanged(p) \/ M!Rekey(p),
         \A q \in Peer : PeerOK(q)
  PROVE  \A q \in Peer : PeerOK(q)'
<1>1. CASE M!CoreNotified(p)
  <2> DEFINE b == Head(notices[p])
             s == IF b THEN M!KeySent ELSE M!CoreStateDisconnected
  <2>1. /\ notices[p] \in Seq(BOOLEAN) /\ notices[p] # <<>>
        /\ notices'[p] = Tail(notices[p]) /\ core'[p] = s /\ transport' = transport
        /\ \A r \in Peer \ {p} : notices'[r] = notices[r]
    BY <1>1 DEF M!CoreNotified, M!CoreChanges, M!TypeOK
  <2>2. s \in M!CoreState /\ M!CoreChanges(p, s)
    BY <1>1, StatesDiffer DEF M!CoreNotified
  <2>3. notices[p][Len(notices[p])] = M!IsConnected(transport[p])
    BY <2>1 DEF PeerOK, M!NoticesLead
  <2>4. M!NoticesLead(p)'
    <3>1. CASE Tail(notices[p]) = <<>>
      <4>1. Len(notices[p]) = 1 /\ notices[p][1] = b
        BY <2>1, <3>1, TakenFromFacts
      <4>2. b = M!IsConnected(transport[p])
        BY <2>3, <4>1
      <4>3. b <=> s # M!CoreStateDisconnected
        BY StatesDiffer
      <4> QED
        BY <2>1, <3>1, <4>2, <4>3, Zenon DEF M!NoticesLead
    <3>2. CASE Tail(notices[p]) # <<>>
      <4>1. /\ Len(notices[p]) \in Nat \ {0} /\ Len(notices[p]) # 1
            /\ Len(Tail(notices[p])) = Len(notices[p]) - 1
            /\ \A i \in 1 .. Len(notices[p]) - 1 : Tail(notices[p])[i] = notices[p][i + 1]
        BY <2>1, <3>2, TakenFromFacts
      <4>2. /\ Len(notices[p]) - 1 \in 1 .. Len(notices[p]) - 1
            /\ (Len(notices[p]) - 1) + 1 = Len(notices[p])
        <5>1. \A n \in Nat \ {0} : n # 1 => n - 1 \in 1 .. n - 1 /\ (n - 1) + 1 = n
          OBVIOUS
        <5> QED
          BY <4>1, <5>1, Zenon
      <4>3. Tail(notices[p])[Len(notices[p]) - 1] = notices[p][(Len(notices[p]) - 1) + 1]
        BY <4>1, <4>2, Zenon
      <4>4. Tail(notices[p])[Len(Tail(notices[p]))] = notices[p][Len(notices[p])]
        BY <4>1, <4>2, <4>3, Zenon
      <4> QED
        BY <2>1, <2>3, <3>2, <4>4, Zenon DEF M!NoticesLead
    <3> QED
      BY <3>1, <3>2
  <2> HIDE DEF s
  <2> QED
    BY <2>1, <2>2, <2>4, CoreChangesOK
<1>2. CASE M!KeyExchanged(p)
  <2>1. /\ notices' = notices /\ transport' = transport /\ core'[p] = M!CoreStateConnected
        /\ core[p] \in {M!KeySent, M!Rekeying}
    BY <1>2 DEF M!KeyExchanged, M!CoreChanges, M!TypeOK
  <2>2. M!NoticesLead(p)'
    BY <2>1, StatesDiffer DEF PeerOK, M!NoticesLead
  <2> QED
    BY <1>2, <2>1, <2>2, StatesDiffer, CoreChangesOK DEF M!KeyExchanged
<1>3. CASE M!Rekey(p)
  <2>1. /\ notices' = notices /\ transport' = transport /\ core'[p] = M!Rekeying
        /\ core[p] = M!CoreStateConnected
    BY <1>3 DEF M!Rekey, M!CoreChanges, M!TypeOK
  <2>2. M!NoticesLead(p)'
    BY <2>1, StatesDiffer DEF PeerOK, M!NoticesLead
  <2> QED
    BY <1>3, <2>1, <2>2, StatesDiffer, CoreChangesOK DEF M!Rekey
<1> QED
  BY <1>1, <1>2, <1>3

\* The transport monitor starts with what there is.
LEMMA MonitorTransportOK ==
  ASSUME M!TypeOK, M!MonitorTransport, NEW p \in Peer, PeerOK(p)
  PROVE  PeerOK(p)'
<1>1. /\ "transport" \notin attached /\ attached' = attached \cup {"transport"}
      /\ transportEvents'[p] = IF transport[p] = M!StateDisconnected
                               THEN <<>> ELSE <<transport[p]>>
      /\ UNCHANGED <<transport, core, notices, coreEvents, peers, overtook>>
  BY DEF M!MonitorTransport, M!services
<1>2. M!NoticesLead(p)' /\ M!CoreStream(p)'
  BY <1>1 DEF PeerOK, M!NoticesLead, M!CoreStream, M!CoreStateOf, M!StateToCome
<1>3. M!TransportStream(p)'
  BY <1>1 DEF PeerOK, M!TransportStream
<1>4. M!InTime(p)'
  BY <1>1 DEF PeerOK, M!InTime, M!StateToCome
<1> QED
  BY <1>2, <1>3, <1>4 DEF PeerOK

\* So does the core monitor, and it marks the end of what there is.
LEMMA MonitorCoreOK ==
  ASSUME M!TypeOK, M!MonitorCore, NEW p \in Peer, PeerOK(p)
  PROVE  PeerOK(p)'
<1>1. /\ "core" \notin attached /\ attached' = attached \cup {"core"}
      /\ coreEvents'[p] = IF core[p] = M!CoreStateDisconnected
                          THEN <<M!IterationFinished>>
                          ELSE <<core[p], M!IterationFinished>>
      /\ UNCHANGED <<transport, core, notices, transportEvents, peers, overtook>>
  BY DEF M!MonitorCore, M!services
<1>2. M!NoticesLead(p)' /\ M!TransportStream(p)'
  BY <1>1 DEF PeerOK, M!NoticesLead, M!TransportStream
<1>3. M!CoreStateOf(p)' = None
  BY <1>1 DEF PeerOK, M!CoreStream, M!CoreStateOf
<1>4. core[p] # M!IterationFinished
  BY StatesDiffer DEF M!TypeOK
<1>5. CASE core[p] = M!CoreStateDisconnected
  <2>1. Len(coreEvents'[p]) = 1 /\ coreEvents'[p][1] = M!IterationFinished
    BY <1>1, <1>5
  <2>2. M!CoreStream(p)' /\ M!InTime(p)'
    BY <1>1, <1>3, <1>5, <2>1 DEF M!CoreStream, M!InTime
  <2> QED
    BY <1>2, <2>2 DEF PeerOK
<1>6. CASE core[p] # M!CoreStateDisconnected
  <2>1. /\ Len(coreEvents'[p]) = 2 /\ coreEvents'[p][1] = core[p]
        /\ coreEvents'[p][2] = M!IterationFinished
    BY <1>1, <1>6
  <2>2. M!StateToCome(p)'
    BY <1>4, <2>1 DEF M!StateToCome
  <2>3. M!CoreStream(p)' /\ M!InTime(p)'
    BY <1>1, <1>3, <2>1, <2>2 DEF M!CoreStream, M!InTime
  <2> QED
    BY <1>2, <2>3 DEF PeerOK
<1> QED
  BY <1>5, <1>6

\* What the table says of p when the callback of the transport monitor has returned.
LEMMA AfterTransportFacts ==
  ASSUME NEW p \in Peer, NEW s, peers' = M!AfterTransport(p, s)
  PROVE  /\ p \in DOMAIN peers' <=> s # M!StateDisconnected
         /\ p \in DOMAIN peers' => /\ peers'[p].transport = s
                                  /\ peers'[p].core = M!CoreStateOf(p)
         /\ M!CoreStateOf(p)' \in {None, M!CoreStateOf(p)}
         /\ \A q \in Peer \ {p} : /\ q \in DOMAIN peers' <=> q \in DOMAIN peers
                                  /\ q \in DOMAIN peers => peers'[q] = peers[q]
<1>1. CASE s = M!StateDisconnected
  <2>1. peers' = [q \in DOMAIN peers \ {p} |-> peers[q]]
    BY <1>1 DEF M!AfterTransport, M!Without
  <2> QED
    BY <1>1, <2>1 DEF M!CoreStateOf
<1>2. CASE s # M!StateDisconnected
  <2>1. peers' = [q \in DOMAIN peers \cup {p} |->
                    IF q = p THEN [transport |-> s, core |-> M!CoreStateOf(p)] ELSE peers[q]]
    BY <1>2 DEF M!AfterTransport, M!WithTransport
  <2>2. p \in DOMAIN peers' /\ peers'[p] = [transport |-> s, core |-> M!CoreStateOf(p)]
    BY <2>1
  <2>3. M!CoreStateOf(p)' = M!CoreStateOf(p)
    BY <2>2 DEF M!CoreStateOf
  <2> QED
    BY <1>2, <2>1, <2>2, <2>3
<1> QED
  BY <1>1, <1>2

LEMMA TransportEventOK ==
  ASSUME M!TypeOK, NEW p \in Peer, M!TransportEvent(p), NEW q \in Peer, PeerOK(q)
  PROVE  PeerOK(q)'
<1> DEFINE e == transportEvents[p]
<1>1. /\ e \in Seq(M!TransportState) /\ e # <<>> /\ transportEvents'[p] = Tail(e)
      /\ peers' = M!AfterTransport(p, Head(e))
      /\ UNCHANGED <<transport, core, notices, attached, coreEvents, overtook>>
      /\ \A r \in Peer \ {p} : transportEvents'[r] = transportEvents[r]
  BY DEF M!TransportEvent, M!TypeOK, M!services
<1> DEFINE n == Len(e)
<1>2. /\ n \in Nat \ {0} /\ Len(Tail(e)) = n - 1 /\ e[1] = Head(e)
      /\ \A i \in 1 .. n - 1 : Tail(e)[i] = e[i + 1]
      /\ Tail(e) = <<>> <=> n = 1
  BY <1>1, TakenFromFacts
<1>3. CASE q # p
  <2>1. Untouched(q)
    BY <1>1, <1>3, AfterTransportFacts DEF Untouched
  <2> QED
    BY <2>1, UntouchedOK
<1>4. CASE q = p
  <2> HIDE DEF n
  <2>0. "transport" \in attached /\ e[n] = transport[p]
    BY <1>1, <1>4 DEF PeerOK, M!TransportStream, n
  <2>1. M!NoticesLead(p)'
    BY <1>1, <1>4 DEF PeerOK, M!NoticesLead
  <2>2. M!TransportStream(p)'
    <3>1. CASE n = 1
      <4>1. Head(e) = transport[p] /\ transportEvents'[p] = <<>>
        BY <1>1, <1>2, <2>0, <3>1
      <4> QED
        BY <1>1, <2>0, <4>1, AfterTransportFacts DEF M!TransportStream
    <3>2. CASE n # 1
      <4>1. n - 1 \in 1 .. n - 1 /\ (n - 1) + 1 = n
        BY <1>2, <3>2
      <4>2. Tail(e)[n - 1] = e[(n - 1) + 1]
        BY <1>2, <4>1, Zenon
      <4>3. Tail(e)[Len(Tail(e))] = transport[p]
        BY <1>2, <2>0, <4>1, <4>2, Zenon
      <4> QED
        BY <1>1, <1>2, <2>0, <3>2, <4>3 DEF M!TransportStream
    <3> QED
      BY <3>1, <3>2
  <2>3. M!StateToCome(p)' = M!StateToCome(p)
    BY <1>1 DEF M!StateToCome
  <2>4. M!CoreStream(p)'
    BY <1>1, <1>4, <2>3, AfterTransportFacts DEF PeerOK, M!CoreStream
  <2>5. M!InTime(p)'
    <3> SUFFICES ASSUME "core" \in attached, ~M!StateToCome(p), notices[p] = <<>>,
                        core[p] # M!CoreStateDisconnected, p \notin overtook
                 PROVE  /\ p \in DOMAIN peers' /\ peers'[p].core = core[p]
                        /\ \A i \in 1 .. Len(Tail(e)) : Tail(e)[i] # M!StateDisconnected
      BY <1>1, <2>0, <2>3 DEF M!InTime
    <3>1. /\ p \in DOMAIN peers /\ peers[p].core = core[p]
          /\ \A i \in 1 .. n : e[i] # M!StateDisconnected
      BY <1>4 DEF PeerOK, M!InTime, n
    <3>2. Head(e) # M!StateDisconnected
      BY <1>2, <3>1
    <3>3. \A i \in 1 .. n - 1 : i + 1 \in 1 .. n
      BY <1>2
    <3>4. \A i \in 1 .. n - 1 : Tail(e)[i] # M!StateDisconnected
      BY <1>2, <3>1, <3>3, Zenon
    <3> QED
      BY <1>1, <1>2, <3>1, <3>2, <3>4, AfterTransportFacts DEF M!CoreStateOf
  <2> QED
    BY <1>4, <2>1, <2>2, <2>4, <2>5 DEF PeerOK
<1> QED
  BY <1>3, <1>4

\* What the table says of p when the callback of the core monitor has returned.
LEMMA AfterCoreFacts ==
  ASSUME M!TypeOK, NEW p \in Peer, NEW s, peers' = M!AfterCore(p, s)
  PROVE  /\ p \in DOMAIN peers' <=> p \in DOMAIN peers
         /\ p \in DOMAIN peers => /\ peers'[p].transport = peers[p].transport
                                 /\ peers'[p].core = s
         /\ M!CoreStateOf(p)' \in {None, s}
         /\ \A q \in Peer \ {p} : /\ q \in DOMAIN peers' <=> q \in DOMAIN peers
                                  /\ q \in DOMAIN peers => peers'[q] = peers[q]
<1>1. CASE p \notin DOMAIN peers
  <2>1. peers' = peers
    BY <1>1 DEF M!AfterCore
  <2> QED
    BY <1>1, <2>1 DEF M!CoreStateOf
<1>2. CASE p \in DOMAIN peers
  <2>1. /\ peers' = [peers EXCEPT ![p] = [peers[p] EXCEPT !.core = s]]
        /\ peers \in [DOMAIN peers -> M!Info] /\ peers[p] \in M!Info
    BY <1>2 DEF M!AfterCore, M!WithCore, M!TypeOK
  <2>2. /\ [peers[p] EXCEPT !.core = s].transport = peers[p].transport
        /\ [peers[p] EXCEPT !.core = s].core = s
    BY <2>1 DEF M!Info
  <2>3. /\ DOMAIN peers' = DOMAIN peers /\ peers'[p] = [peers[p] EXCEPT !.core = s]
        /\ \A q \in DOMAIN peers \ {p} : peers'[q] = peers[q]
    BY <1>2, <2>1
  <2> QED
    BY <1>2, <2>2, <2>3 DEF M!CoreStateOf
<1> QED
  BY <1>1, <1>2

LEMMA CoreEventOK ==
  ASSUME M!TypeOK, NEW p \in Peer, M!CoreEvent(p), NEW q \in Peer, PeerOK(q)
  PROVE  PeerOK(q)'
<1> DEFINE e == coreEvents[p]
           s == Head(e)
           n == Len(e)
<1>1. /\ e \in Seq(M!CoreState \cup {M!IterationFinished}) /\ e # <<>>
      /\ coreEvents'[p] = Tail(e)
      /\ IF s = M!IterationFinished
         THEN UNCHANGED <<peers, overtook>>
         ELSE /\ peers' = M!AfterCore(p, s)
              /\ overtook' = IF M!Behind(p) THEN overtook \cup {p} ELSE overtook \ {p}
      /\ UNCHANGED <<transport, core, notices, attached, transportEvents>>
      /\ \A r \in Peer \ {p} : coreEvents'[r] = coreEvents[r]
  BY DEF M!CoreEvent, M!TypeOK, M!services
<1>2. CASE q # p
  <2>1. CASE s = M!IterationFinished
    <3>1. Untouched(q)
      BY <1>1, <1>2, <2>1 DEF Untouched
    <3> QED
      BY <3>1, UntouchedOK
  <2>2. CASE s # M!IterationFinished
    <3>1. Untouched(q)
      BY <1>1, <1>2, <2>2, AfterCoreFacts DEF Untouched
    <3> QED
      BY <3>1, UntouchedOK
  <2> QED
    BY <2>1, <2>2
<1>3. CASE q = p
  <2>1. /\ n \in Nat \ {0} /\ Len(Tail(e)) = n - 1 /\ e[1] = s
        /\ \A i \in 1 .. n - 1 : Tail(e)[i] = e[i + 1]
    BY <1>1, TakenFromFacts
  <2> HIDE DEF n
  <2>2. /\ \A i \in 1 .. n - 1 : i + 1 \in 1 .. n
        /\ \A i \in 1 .. n : i = 1 \/ i - 1 \in 1 .. n - 1
    BY <2>1
  <2>3. "core" \in attached
    BY <1>1, <1>3 DEF PeerOK, M!CoreStream
  <2>4. M!NoticesLead(p)'
    BY <1>1, <1>3 DEF PeerOK, M!NoticesLead
  <2>5. ASSUME NEW i \in 1 .. n, e[i] # M!IterationFinished,
               \A j \in i + 1 .. n : e[j] = M!IterationFinished
        PROVE  e[i] = core[p]
    BY <1>3, <2>5 DEF PeerOK, M!CoreStream, n
  <2>6. ASSUME NEW i \in 1 .. n - 1, Tail(e)[i] # M!IterationFinished,
               \A j \in i + 1 .. n - 1 : Tail(e)[j] = M!IterationFinished
        PROVE  Tail(e)[i] = core[p]
    <3>1. i + 1 \in 1 .. n /\ Tail(e)[i] = e[i + 1]
      BY <2>1, <2>2
    <3>2. ASSUME NEW j \in (i + 1) + 1 .. n PROVE e[j] = M!IterationFinished
      <4>1. j - 1 \in i + 1 .. n - 1 /\ j - 1 \in 1 .. n - 1 /\ (j - 1) + 1 = j
        BY <2>1
      <4> QED
        BY <2>1, <2>6, <4>1
    <3> QED
      BY <2>5, <2>6, <3>1, <3>2
  <2>7. CASE s = M!IterationFinished
    <3>1. UNCHANGED <<peers, overtook>>
      BY <1>1, <2>7
    <3>2. M!StateToCome(p)' <=> M!StateToCome(p)
      <4>1. ASSUME NEW i \in 1 .. n, e[i] # M!IterationFinished
            PROVE  \E j \in 1 .. n - 1 : Tail(e)[j] # M!IterationFinished
        <5>1. i # 1 /\ i - 1 \in 1 .. n - 1 /\ (i - 1) + 1 = i
          BY <2>1, <2>7, <4>1
        <5> QED
          BY <2>1, <4>1, <5>1
      <4>2. ASSUME NEW i \in 1 .. n - 1, Tail(e)[i] # M!IterationFinished
            PROVE  \E j \in 1 .. n : e[j] # M!IterationFinished
        BY <2>1, <2>2, <4>2
      <4> QED
        BY <1>1, <2>1, <4>1, <4>2 DEF M!StateToCome, n
    <3>3. M!TransportStream(p)'
      BY <1>1, <1>3, <3>1 DEF PeerOK, M!TransportStream
    <3>4. M!CoreStateOf(p)' = M!CoreStateOf(p)
      BY <3>1 DEF M!CoreStateOf
    <3>5. M!CoreStream(p)'
      BY <1>1, <1>3, <2>1, <2>3, <2>6, <3>2, <3>4 DEF PeerOK, M!CoreStream
    <3>6. M!InTime(p)'
      BY <1>1, <1>3, <3>1, <3>2 DEF PeerOK, M!InTime
    <3> QED
      BY <1>3, <2>4, <3>3, <3>5, <3>6 DEF PeerOK
  <2>8. CASE s # M!IterationFinished
    <3>1. /\ peers' = M!AfterCore(p, s)
          /\ overtook' = IF M!Behind(p) THEN overtook \cup {p} ELSE overtook \ {p}
      BY <1>1, <2>8
    <3> HIDE DEF s, e
    <3>2. M!TransportStream(p)'
      BY <1>1, <1>3, <3>1, AfterCoreFacts DEF PeerOK, M!TransportStream
    <3>3. ~M!StateToCome(p)' => s = core[p]
      <4> SUFFICES ASSUME ~M!StateToCome(p)' PROVE s = core[p]
        OBVIOUS
      <4>1. \A i \in 1 .. n - 1 : Tail(e)[i] = M!IterationFinished
        BY <1>1, <2>1 DEF M!StateToCome
      <4>2. ASSUME NEW j \in 2 .. n PROVE e[j] = M!IterationFinished
        <5>1. j - 1 \in 1 .. n - 1 /\ (j - 1) + 1 = j
          BY <2>1
        <5> QED
          BY <2>1, <4>1, <5>1
      <4>3. 1 \in 1 .. n /\ 1 + 1 = 2
        BY <2>1
      <4> QED
        BY <2>1, <2>5, <2>8, <4>2, <4>3
    <3>4. M!CoreStream(p)'
      <4>1. ~M!StateToCome(p)' => M!CoreStateOf(p)' \in {None, core[p]}
        BY <3>1, <3>3, AfterCoreFacts
      <4> QED
        BY <1>1, <2>1, <2>3, <2>6, <4>1 DEF M!CoreStream
    <3>5. M!InTime(p)'
      <4> SUFFICES ASSUME ~M!StateToCome(p)', notices[p] = <<>>,
                          core[p] # M!CoreStateDisconnected, p \notin overtook'
                   PROVE  /\ "transport" \in attached
                          /\ p \in DOMAIN peers' /\ peers'[p].core = core[p]
                          /\ transportEvents[p] = <<>>
        BY <1>1 DEF M!InTime
      <4>1. ~M!Behind(p)
        BY <3>1
      <4>2. M!IsConnected(transport[p])
        BY <1>3 DEF PeerOK, M!NoticesLead
      <4>3. "transport" \in attached /\ transportEvents[p] = <<>>
        BY <4>1, <4>2, StatesDiffer DEF M!Behind
      <4>4. p \in DOMAIN peers
        BY <1>3, <4>2, <4>3, StatesDiffer DEF PeerOK, M!TransportStream
      <4> QED
        BY <3>1, <3>3, <4>3, <4>4, AfterCoreFacts
    <3> QED
      BY <1>3, <2>4, <3>2, <3>4, <3>5 DEF PeerOK
  <2> QED
    BY <2>7, <2>8
<1> QED
  BY <1>2, <1>3

LEMMA StreamsKept ==
  ASSUME PeersInv, [M!Next]_(M!vars) PROVE PeersInv'
<1> USE DEF PeersInv
<1>1. M!TypeOK'
  BY PeersTypesKept
<1>2. CASE M!MonitorTransport
  BY <1>1, <1>2, MonitorTransportOK
<1>3. CASE M!MonitorCore
  BY <1>1, <1>3, MonitorCoreOK
<1>4. ASSUME NEW p \in Peer, M!TransportChanges(p) PROVE PeersInv'
  BY <1>1, <1>4, TransportChangesOK
<1>5. ASSUME NEW p \in Peer, M!CoreNotified(p) \/ M!KeyExchanged(p) \/ M!Rekey(p) PROVE PeersInv'
  BY <1>1, <1>5, CoreStepsOK
<1>6. ASSUME NEW p \in Peer, M!TransportEvent(p) PROVE PeersInv'
  BY <1>1, <1>6, TransportEventOK
<1>7. ASSUME NEW p \in Peer, M!CoreEvent(p) PROVE PeersInv'
  BY <1>1, <1>7, CoreEventOK
<1>8. CASE UNCHANGED M!vars
  <2>1. ASSUME NEW q \in Peer PROVE Untouched(q)
    BY <1>8 DEF M!vars, Untouched
  <2> QED
    BY <1>1, <2>1, UntouchedOK
<1> QED
  BY <1>2, <1>3, <1>4, <1>5, <1>6, <1>7, <1>8 DEF M!Next

LEMMA PeersAlways == M!Spec => []PeersInv
<1>1. M!Init => PeersInv
  BY PeersTypedAtFirst, StreamsAtFirst DEF PeersInv
<1>2. PeersInv /\ [M!Next]_(M!vars) => PeersInv'
  BY StreamsKept
<1> QED
  BY <1>1, <1>2, PTL DEF M!Spec

-----------------------------------------------------------------------------
(* Peers: what the page shows.                                             *)

\* The table holds what transport says once its stream has been read.
THEOREM TableIsTransports == M!Spec => []M!TableFollowsTransport
<1>1. PeersInv => M!TableFollowsTransport
  BY DEF PeersInv, PeerOK, M!TransportStream, M!TableFollowsTransport
<1> QED
  BY <1>1, PeersAlways, PTL

\* No core state of an earlier connection is counted.
THEOREM NoneCountedWrongly ==
  ASSUME M!NoneAssumption PROVE M!Spec => []M!CountedIsConnected
<1>1. PeersInv => M!CountedIsConnected
  <2> SUFFICES ASSUME PeersInv, NEW p \in Peer, M!Drained(p)
               PROVE  /\ M!CoreStateOf(p) \in {None, core[p]}
                      /\ p \in M!Counted => M!BothConnected(p)
    BY DEF M!CountedIsConnected
  <2>1. ~M!StateToCome(p)
    BY DEF M!Drained, M!StateToCome
  <2>2. M!CoreStateOf(p) \in {None, core[p]}
    BY <2>1 DEF PeersInv, PeerOK, M!CoreStream
  <2>3. ASSUME p \in M!Counted PROVE M!BothConnected(p)
    <3>1. /\ p \in DOMAIN peers /\ peers[p].transport = M!StateConnected
          /\ peers[p].core = M!CoreStateConnected /\ M!CoreStateOf(p) = peers[p].core
      BY <2>3 DEF M!Counted, M!CoreStateOf
    <3>2. core[p] = M!CoreStateConnected
      BY <2>2, <3>1, StatesDiffer DEF M!NoneAssumption
    <3>3. transport[p] = M!StateConnected
      BY <3>1 DEF PeersInv, PeerOK, M!TransportStream, M!Drained, M!Monitor
    <3> QED
      BY <3>2, <3>3 DEF M!BothConnected
  <2> QED
    BY <2>2, <2>3
<1> QED
  BY <1>1, PeersAlways, PTL

\* Nothing but overtaking keeps a connected peer from being counted.
THEOREM UncountedOvertaken == M!Spec => []M!UncountedWasOvertaken
<1>1. PeersInv => M!UncountedWasOvertaken
  <2> SUFFICES ASSUME PeersInv, NEW p \in Peer, M!Drained(p), notices[p] = <<>>,
                      M!BothConnected(p), p \notin overtook
               PROVE  p \in M!Counted
    BY DEF M!UncountedWasOvertaken
  <2>1. ~M!StateToCome(p)
    BY DEF M!Drained, M!StateToCome
  <2>2. core[p] = M!CoreStateConnected /\ core[p] # M!CoreStateDisconnected
    BY StatesDiffer DEF M!BothConnected
  <2>3. p \in DOMAIN peers /\ peers[p].core = core[p]
    BY <2>1, <2>2 DEF PeersInv, PeerOK, M!InTime, M!Drained, M!Monitor
  <2>4. peers[p].transport = M!StateConnected
    BY <2>3 DEF PeersInv, PeerOK, M!TransportStream, M!Drained, M!Monitor, M!BothConnected
  <2> QED
    BY <2>2, <2>3, <2>4 DEF M!Counted
<1> QED
  BY <1>1, PeersAlways, PTL

LEMMA PeersSteps == [PageNext]_pageWide => [M!Next]_(M!vars)
<1>1. ASSUME UNCHANGED peersVars PROVE UNCHANGED M!vars
  BY <1>1 DEF peersVars, M!vars
<1>2. PageNext => M!Next \/ UNCHANGED peersVars
  BY Zenon DEF PageNext, Monitored
<1>3. UNCHANGED pageWide => UNCHANGED peersVars
  BY DEF pageWide
<1> QED
  BY <1>1, <1>2, <1>3

LEMMA PeersSpec == PageSpec => M!Spec
<1>1. PageInit => M!Init
  BY DEF PageInit
<1> QED
  BY <1>1, PeersSteps, PTL DEF PageSpec, M!Spec

\* In the page, a drained transport stream leaves the peers transport has.
THEOREM PageTableFollowsTransport == PageSpec => []TableFollowsTransport
<1>1. M!Spec => []M!TableFollowsTransport
  BY TableIsTransports
<1>2. M!TableFollowsTransport => TableFollowsTransport
  BY DEF TableFollowsTransport
<1> QED
  BY <1>1, <1>2, PeersSpec, PTL

\* In the page, no core state of an earlier connection is counted.
THEOREM PageCountedIsConnected == PageSpec => []CountedIsConnected
<1>1. M!Spec => []M!CountedIsConnected
  BY PageAssumption, NoneCountedWrongly
<1>2. M!CountedIsConnected => CountedIsConnected
  BY DEF CountedIsConnected
<1> QED
  BY <1>1, <1>2, PeersSpec, PTL

\* In the page, nothing but overtaking keeps a connected peer from being counted.
THEOREM PageUncountedWasOvertaken == PageSpec => []UncountedWasOvertaken
<1>1. M!Spec => []M!UncountedWasOvertaken
  BY UncountedOvertaken
<1>2. M!UncountedWasOvertaken => UncountedWasOvertaken
  BY DEF UncountedWasOvertaken
<1> QED
  BY <1>1, <1>2, PeersSpec, PTL

-----------------------------------------------------------------------------
(* Downloads: where their blocks are.                                      *)

Cell == [state : {"inactive", "downloading", "complete"}, object : Object \cup {None}]

Types ==
  /\ cells \in [Row -> Cell]
  /\ loop \in [Download -> {"none", "create", "event", "url", "dead"}]
  /\ sent \in [Download -> SUBSET (Start .. Completed)]
  /\ events \in [Download -> Seq(Start .. Completed)]
  /\ store \in [Download -> Blob \cup {None}]
  /\ requests \in Seq(Requests)
  /\ failed \subseteq Requests

\* Block b of download d is in its file; its write has ended, well or not; its event
\* waits; its write is among the first n requests.
Stored(d, b) == store[d] # None /\ b \in 1 .. Len(store[d]) /\ store[d][b] = b
Ended(d, b) == Stored(d, b) \/ HasFailed("write", d, b)
Waits(d, b) == \E i \in 1 .. Len(events[d]) : events[d][i] = b
WriteAsked(d, b, n) ==
  \E i \in 1 .. n : requests[i].kind = "write" /\ requests[i].download = d /\ requests[i].block = b

NotCreated(d) == HasFailed("create", d, 0)

\* The requests of download d, by what its loop waits for.
RequestsFit(d) ==
  /\ loop[d] \in {"none", "dead"} => \A i \in 1 .. Len(requests) : requests[i].download # d
  /\ loop[d] \in {"none", "create"} => store[d] = None /\ ~NotCreated(d)
  /\ loop[d] = "url" => store[d] # None
  /\ NotCreated(d) => store[d] = None
  /\ loop[d] = "create" =>
       \A i, j \in 1 .. Len(requests) :
         requests[i].download = d => /\ requests[i].kind = "create"
                                     /\ requests[j].download = d => i = j
  /\ \A i \in 1 .. Len(requests) :
       requests[i].download = d /\ requests[i].kind = "create" => loop[d] = "create"

\* The completion comes after all blocks.
EventsFit(d) ==
  /\ loop[d] = "none" => sent[d] = {}
  /\ Completed \in sent[d] => Start .. Completed \subseteq sent[d]
  /\ \A i \in 1 .. Len(events[d]) :
       events[d][i] = Completed => i = Len(events[d]) /\ Completed \in sent[d]

\* A block that has come is in one of three places, or could not be written; when the
\* object is asked for, its write was asked for before.
BlocksKept(d) ==
  /\ \A b \in sent[d] \cap (1 .. Blocks) :
       loop[d] # "dead" => Ended(d, b) \/ Waits(d, b) \/ WriteAsked(d, b, Len(requests))
  /\ \A j \in 1 .. Len(requests) :
       requests[j].download = d /\ requests[j].kind = "url" =>
         \A b \in 1 .. Blocks : Ended(d, b) \/ WriteAsked(d, b, j - 1)

\* Nothing is written to a file that does not exist, or before its start.
Served(q) == q.kind # "create" => store[q.download] # None /\ (q.kind = "write" => q.block # 0)
AllServed == \A i \in 1 .. Len(requests) : Served(requests[i])

DownloadOK(d) == RequestsFit(d) /\ EventsFit(d) /\ BlocksKept(d)

Whole(object) ==
  object # None =>
    /\ object.of \in Download /\ store[object.of] # None /\ Len(object.blob) <= Blocks
    /\ \A b \in 1 .. Blocks :
         \/ HasFailed("write", object.of, b)
         \/ b \in 1 .. Len(object.blob) /\ object.blob[b] = b

\* The inductive invariant for ObjectWhole.
Files ==
  /\ Types /\ AllServed
  /\ \A d \in Download : DownloadOK(d)
  /\ \A r \in Row : Whole(cells[r].object)

\* A block is written to its place, and no other block is lost by it.
LEMMA WrittenFacts ==
  ASSUME NEW s \in Blob, NEW b \in 1 .. Blocks
  PROVE  /\ Written(s, b) \in Blob
         /\ b \in 1 .. Len(Written(s, b)) /\ Written(s, b)[b] = b
         /\ \A j \in 1 .. Len(s) : j \in 1 .. Len(Written(s, b))
                                   /\ (j # b => Written(s, b)[j] = s[j])
<1>0. PICK S : S = 0 .. Blocks
  OBVIOUS
<1>1. s \in Seq(S) /\ 0 \in S /\ b \in S /\ Len(s) \in Nat /\ Len(s) <= Blocks /\ Blocks \in Nat /\ b \in Nat /\ 1 <= b
  BY <1>0, BoundAssumption DEF Blob
<1>2. PICK m : m = (IF b - 1 < Len(s) THEN b - 1 ELSE Len(s)) /\ m \in Nat /\ m <= b - 1
               /\ m <= Len(s)
  BY <1>1
<1>3. PICK h : /\ h = Header(s, b) /\ h \in Seq(S) /\ Len(h) = m
               /\ \A i \in 1 .. m : h[i] = s[i]
  <2>1. \A i \in 1 .. m : s[i] \in S
    BY <1>1, <1>2
  <2>2. Header(s, b) = SubSeq(s, 1, m)
    BY <1>2 DEF Header
  <2>3. /\ SubSeq(s, 1, m) \in Seq(S)
        /\ Len(SubSeq(s, 1, m)) = IF 1 <= m THEN m - 1 + 1 ELSE 0
        /\ \A i \in 1 .. m - 1 + 1 : SubSeq(s, 1, m)[i] = s[1 + i - 1]
    BY <1>2, <2>1, SubSeqProperties
  <2>4. /\ \A i \in 1 .. m : 1 + i - 1 = i /\ i \in 1 .. m - 1 + 1
        /\ (IF 1 <= m THEN m - 1 + 1 ELSE 0) = m
    BY <1>2
  <2>5. \A i \in 1 .. m : SubSeq(s, 1, m)[i] = s[i]
    BY <2>3, <2>4
  <2> QED
    BY <2>2, <2>3, <2>4, <2>5
<1>4. PICK f : /\ f = Fill(s, b) /\ f \in Seq(S) /\ Len(f) = b - 1 - m
  <2>1. Fill(s, b) = [i \in 1 .. (b - 1 - m) |-> 0]
    BY <1>3 DEF Fill
  <2>2. b - 1 - m \in Nat
    BY <1>1, <1>2
  <2>4. PICK l \in Nat : l = b - 1 - m
    BY <2>2
  <2>3. [i \in 1 .. l |-> 0] \in Seq(S) /\ Len([i \in 1 .. l |-> 0]) = l
    BY <1>1
  <2> QED
    BY <2>1, <2>4, <2>3
<1>5. PICK t : /\ t = Trailer(s, b) /\ t \in Seq(S)
               /\ Len(t) = IF b < Len(s) THEN Len(s) - b ELSE 0
               /\ \A i \in 1 .. Len(t) : t[i] = s[b + i]
  <2>1. \A i \in b + 1 .. Len(s) : s[i] \in S
    BY <1>1
  <2>2. /\ SubSeq(s, b + 1, Len(s)) \in Seq(S)
        /\ Len(SubSeq(s, b + 1, Len(s))) = IF b + 1 <= Len(s) THEN Len(s) - (b + 1) + 1 ELSE 0
        /\ \A i \in 1 .. Len(s) - (b + 1) + 1 :
             SubSeq(s, b + 1, Len(s))[i] = s[(b + 1) + i - 1]
    BY <1>1, <2>1, SubSeqProperties
  <2>3. \A i \in Nat : (b + 1) + i - 1 = b + i
    BY <1>1
  <2>4. (IF b + 1 <= Len(s) THEN Len(s) - (b + 1) + 1 ELSE 0)
          = (IF b < Len(s) THEN Len(s) - b ELSE 0)
    BY <1>1
  <2>5. \A i \in 1 .. Len(SubSeq(s, b + 1, Len(s))) :
          i \in Nat /\ i \in 1 .. Len(s) - (b + 1) + 1
    BY <1>1, <2>2
  <2>6. \A i \in 1 .. Len(SubSeq(s, b + 1, Len(s))) : SubSeq(s, b + 1, Len(s))[i] = s[b + i]
    BY <2>2, <2>3, <2>5
  <2> QED
    BY <2>2, <2>4, <2>6 DEF Trailer
<1>6. PICK u : /\ u = h \o f /\ u \in Seq(S) /\ Len(u) = b - 1
               /\ \A i \in 1 .. m : u[i] = s[i]
  <2>1. /\ h \o f \in Seq(S) /\ Len(h \o f) = Len(h) + Len(f)
        /\ \A i \in 1 .. Len(h) + Len(f) :
             (h \o f)[i] = IF i <= Len(h) THEN h[i] ELSE f[i - Len(h)]
    <3>1. h \in Seq(S) /\ f \in Seq(S)
      BY <1>3, <1>4
    <3> QED
      BY <3>1, ConcatProperties
  <2>2. Len(h) + Len(f) = b - 1 /\ \A i \in 1 .. m : i \in 1 .. b - 1 /\ i <= Len(h)
    BY <1>1, <1>2, <1>3, <1>4
  <2>3. \A i \in 1 .. m : (h \o f)[i] = s[i]
    BY <1>3, <2>1, <2>2
  <2> QED
    BY <2>1, <2>2, <2>3
<1>7. PICK v : /\ v = u \o <<b>> /\ v \in Seq(S) /\ Len(v) = b /\ v[b] = b
               /\ \A i \in 1 .. m : v[i] = s[i]
  <2>1. <<b>> \in Seq(S) /\ Len(<<b>>) = 1 /\ <<b>>[1] = b
    BY <1>1
  <2>2. /\ u \o <<b>> \in Seq(S) /\ Len(u \o <<b>>) = b - 1 + 1
        /\ \A i \in 1 .. b - 1 + 1 :
             (u \o <<b>>)[i] = IF i <= b - 1 THEN u[i] ELSE <<b>>[i - (b - 1)]
    BY <1>6, <2>1, ConcatProperties
  <2>3. b - 1 + 1 = b /\ b - (b - 1) = 1 /\ ~(b <= b - 1) /\ b \in 1 .. b
    BY <1>1
  <2>4. \A i \in 1 .. m : i \in 1 .. b /\ i <= b - 1
    BY <1>1, <1>2
  <2>5. \A i \in 1 .. m : (u \o <<b>>)[i] = s[i]
    BY <1>6, <2>2, <2>3, <2>4
  <2>6. (u \o <<b>>)[b] = b
    BY <2>1, <2>2, <2>3
  <2> QED
    BY <2>2, <2>3, <2>5, <2>6
<1>8. PICK w : /\ w = v \o t /\ w \in Seq(S) /\ Len(w) = b + Len(t)
               /\ \A i \in 1 .. b + Len(t) : w[i] = IF i <= b THEN v[i] ELSE t[i - b]
  <2>1. v \in Seq(S) /\ t \in Seq(S) /\ Len(v) = b
    BY <1>5, <1>7
  <2>2. /\ v \o t \in Seq(S) /\ Len(v \o t) = Len(v) + Len(t)
        /\ \A i \in 1 .. Len(v) + Len(t) :
             (v \o t)[i] = IF i <= Len(v) THEN v[i] ELSE t[i - Len(v)]
    BY <2>1, ConcatProperties
  <2> QED
    BY <2>1, <2>2
<1>9. Written(s, b) = w
  BY <1>3, <1>4, <1>5, <1>6, <1>7, <1>8 DEF Written
<1>10. w \in Blob /\ b \in 1 .. Len(w) /\ w[b] = b
  <2>1. Len(t) \in Nat /\ b + Len(t) <= Blocks /\ b \in 1 .. b + Len(t) /\ b <= b
    BY <1>1, <1>5
  <2> QED
    BY <1>0, <1>7, <1>8, <2>1 DEF Blob
<1>11. ASSUME NEW j \in 1 .. Len(s), j # b PROVE j \in 1 .. Len(w) /\ w[j] = s[j]
  <2>1. CASE j < b
    <3>1. j \in 1 .. m /\ j \in 1 .. b + Len(t) /\ j <= b
      BY <1>1, <1>2, <1>5, <2>1
    <3> QED
      BY <1>7, <1>8, <3>1
  <2>2. CASE j > b
    <3>1. j - b \in 1 .. Len(t) /\ b + (j - b) = j /\ j \in 1 .. b + Len(t) /\ ~(j <= b)
      BY <1>1, <1>5, <2>2
    <3> QED
      BY <1>5, <1>8, <3>1
  <2> QED
    BY <1>1, <1>11, <2>1, <2>2
<1> QED
  BY <1>9, <1>10, <1>11

\* Nothing of download d changes.
Kept(d) ==
  /\ loop'[d] = loop[d] /\ store'[d] = store[d] /\ sent'[d] = sent[d] /\ events'[d] = events[d]
  /\ failed \subseteq failed' /\ (NotCreated(d)' <=> NotCreated(d))

\* The queue of transactions as a step leaves it.
LEMMA Queued ==
  ASSUME Types, NEW q \in Requests, requests' = Append(requests, q)
  PROVE  /\ requests' \in Seq(Requests) /\ Len(requests) \in Nat
         /\ Len(requests') = Len(requests) + 1 /\ requests'[Len(requests) + 1] = q
         /\ \A i \in 1 .. Len(requests) : requests'[i] = requests[i]
         /\ \A i \in 1 .. Len(requests') : i \in 1 .. Len(requests) \/ i = Len(requests) + 1
         /\ \A d, b : \A n \in 0 .. Len(requests) : WriteAsked(d, b, n)' <=> WriteAsked(d, b, n)
<1>1. /\ requests' \in Seq(Requests) /\ Len(requests') = Len(requests) + 1
      /\ requests'[Len(requests) + 1] = q /\ Len(requests) \in Nat
      /\ \A i \in 1 .. Len(requests) : requests'[i] = requests[i]
  BY AppendProperties DEF Types
<1>2. \A i \in 1 .. Len(requests') : i \in 1 .. Len(requests) \/ i = Len(requests) + 1
  BY <1>1
<1>3. \A d, b : \A n \in 0 .. Len(requests) : WriteAsked(d, b, n)' <=> WriteAsked(d, b, n)
  <2> SUFFICES ASSUME NEW d, NEW b, NEW n \in 0 .. Len(requests)
               PROVE  WriteAsked(d, b, n)' <=> WriteAsked(d, b, n)
    OBVIOUS
  <2>1. \A i \in 1 .. n : requests'[i] = requests[i]
    BY <1>1
  <2> QED
    BY <2>1 DEF WriteAsked
<1> QED
  BY <1>1, <1>2, <1>3

LEMMA Dequeued ==
  ASSUME Types, requests # <<>>, requests' = Tail(requests)
  PROVE  /\ requests' \in Seq(Requests) /\ Len(requests') \in Nat /\ Len(requests) = Len(requests') + 1
         /\ Head(requests) \in Requests /\ Head(requests) = requests[1] /\ 1 \in 1 .. Len(requests)
         /\ \A i \in 1 .. Len(requests') :
              i + 1 \in 1 .. Len(requests) /\ i + 1 # 1 /\ requests'[i] = requests[i + 1]
         /\ \A d, b : \A n \in 0 .. Len(requests') :
              WriteAsked(d, b, n + 1) =>
                \/ WriteAsked(d, b, n)'
                \/ /\ Head(requests).kind = "write" /\ Head(requests).download = d
                   /\ Head(requests).block = b
<1>1. /\ requests' \in Seq(Requests) /\ Len(requests') = Len(requests) - 1
      /\ Len(requests) \in Nat /\ Len(requests') \in Nat
      /\ Head(requests) \in Requests /\ Head(requests) = requests[1]
      /\ \A i \in 1 .. Len(requests') : requests'[i] = requests[i + 1]
  BY HeadTailProperties DEF Types
<1>2. /\ Len(requests) = Len(requests') + 1 /\ 1 \in 1 .. Len(requests)
      /\ \A i \in 1 .. Len(requests') : i + 1 \in 1 .. Len(requests) /\ i + 1 # 1
  BY <1>1
<1>3. ASSUME NEW d, NEW b, NEW n \in 0 .. Len(requests'), WriteAsked(d, b, n + 1),
             ~(Head(requests).kind = "write" /\ Head(requests).download = d
               /\ Head(requests).block = b)
      PROVE  WriteAsked(d, b, n)'
  <2>1. PICK i \in 1 .. n + 1 :
          requests[i].kind = "write" /\ requests[i].download = d /\ requests[i].block = b
    BY <1>3 DEF WriteAsked
  <2>2. i # 1
    BY <1>1, <1>3, <2>1
  <2>3. i - 1 \in 1 .. n /\ i - 1 \in 1 .. Len(requests') /\ (i - 1) + 1 = i
    BY <1>1, <2>1, <2>2
  <2>4. requests'[i - 1] = requests[i]
    BY <1>1, <2>3
  <2> QED
    BY <2>1, <2>3, <2>4 DEF WriteAsked
<1> QED
  BY <1>1, <1>2, <1>3

\* Downloads that a step does not touch.
LEMMA KeptWhenQueued ==
  ASSUME Types, NEW q \in Requests, requests' = Append(requests, q),
         NEW d, q.download # d, Kept(d), DownloadOK(d)
  PROVE  DownloadOK(d)'
<1> SUFFICES ASSUME RequestsFit(d), EventsFit(d), BlocksKept(d)
             PROVE  RequestsFit(d)' /\ EventsFit(d)' /\ BlocksKept(d)'
  BY DEF DownloadOK, Kept
<1>1. \A i \in 1 .. Len(requests') :
        requests'[i].download = d => i \in 1 .. Len(requests) /\ requests'[i] = requests[i]
  BY Queued
<1>2. RequestsFit(d)'
  BY <1>1 DEF RequestsFit, Kept
<1>3. EventsFit(d)'
  BY DEF EventsFit, Kept
<1>4. BlocksKept(d)'
  <2>1. \A b : (Ended(d, b) => Ended(d, b)') /\ (Waits(d, b)' <=> Waits(d, b))
    BY DEF Ended, HasFailed, RequestOf, Stored, Waits, Kept
  <2>2. \A b : WriteAsked(d, b, Len(requests)) => WriteAsked(d, b, Len(requests))'
    <3>1. \A b : WriteAsked(d, b, Len(requests)) =>
            \E i \in 1 .. Len(requests) : /\ requests[i].kind = "write"
                                          /\ requests[i].download = d /\ requests[i].block = b
      BY DEF WriteAsked
    <3>2. \A i \in 1 .. Len(requests) : i \in 1 .. Len(requests') /\ requests'[i] = requests[i]
      BY Queued
    <3> QED
      BY <3>1, <3>2 DEF WriteAsked
  <2>3. \A j \in 1 .. Len(requests) : j - 1 \in 0 .. Len(requests)
    BY Queued
  <2>4. \A j \in 1 .. Len(requests) : \A b :
          WriteAsked(d, b, j - 1) => WriteAsked(d, b, j - 1)'
    BY <2>3, Queued
  <2>5. \A b \in sent'[d] \cap (1 .. Blocks) :
          loop'[d] # "dead" =>
            Ended(d, b)' \/ Waits(d, b)' \/ WriteAsked(d, b, Len(requests))'
    BY <2>1, <2>2 DEF BlocksKept, Kept
  <2>6. \A j \in 1 .. Len(requests') :
          requests'[j].download = d /\ requests'[j].kind = "url" =>
            \A b \in 1 .. Blocks : Ended(d, b)' \/ WriteAsked(d, b, j - 1)'
    BY <1>1, <2>1, <2>4 DEF BlocksKept
  <2> QED
    BY <2>5, <2>6 DEF BlocksKept
<1> QED
  BY <1>2, <1>3, <1>4

\* The blocks of download d when the first request has ended.
LEMMA BlocksWhenDequeued ==
  ASSUME Types, requests # <<>>, requests' = Tail(requests),
         NEW d, BlocksKept(d), loop'[d] = loop[d] \/ loop[d] # "dead", sent'[d] = sent[d],
         \A b : (Ended(d, b) => Ended(d, b)') /\ (Waits(d, b) => Waits(d, b)'),
         NEW n, n = Head(requests).block,
         Head(requests).kind = "write" /\ Head(requests).download = d => Ended(d, n)'
  PROVE  BlocksKept(d)'
<1>1. /\ Len(requests) = Len(requests') + 1 /\ Len(requests') \in Nat
      /\ \A i \in 1 .. Len(requests') :
           i + 1 \in 1 .. Len(requests) /\ i + 1 # 1 /\ requests'[i] = requests[i + 1]
  BY Dequeued
<1>3. \A b : \A k \in 0 .. Len(requests') :
        WriteAsked(d, b, k + 1) => WriteAsked(d, b, k)' \/ Ended(d, b)'
  BY Dequeued
<1>4. \A b : WriteAsked(d, b, Len(requests)) => WriteAsked(d, b, Len(requests))' \/ Ended(d, b)'
  <2>1. PICK k \in 0 .. Len(requests') : k = Len(requests') /\ k + 1 = Len(requests)
    <3>1. Len(requests') \in 0 .. Len(requests') /\ Len(requests') + 1 = Len(requests)
      BY <1>1
    <3> QED
      BY <3>1
  <2>2. \A b : WriteAsked(d, b, k)' => WriteAsked(d, b, Len(requests))'
    BY <2>1 DEF WriteAsked
  <2> QED
    BY <1>3, <2>1, <2>2
<1>5. \A b \in sent'[d] \cap (1 .. Blocks) :
        loop'[d] # "dead" =>
          Ended(d, b)' \/ Waits(d, b)' \/ WriteAsked(d, b, Len(requests))'
  BY <1>4 DEF BlocksKept
<1>6. \A j \in 1 .. Len(requests') :
        requests'[j].download = d /\ requests'[j].kind = "url" =>
          \A b \in 1 .. Blocks : Ended(d, b)' \/ WriteAsked(d, b, j - 1)'
  <2> SUFFICES ASSUME NEW j \in 1 .. Len(requests'), requests'[j].download = d,
                      requests'[j].kind = "url", NEW b \in 1 .. Blocks
               PROVE  Ended(d, b)' \/ WriteAsked(d, b, j - 1)'
    OBVIOUS
  <2>1. Ended(d, b) \/ WriteAsked(d, b, (j + 1) - 1)
    BY <1>1 DEF BlocksKept
  <2>2. PICK k \in 0 .. Len(requests') : k = j - 1 /\ k + 1 = (j + 1) - 1
    <3>1. j - 1 \in 0 .. Len(requests') /\ (j - 1) + 1 = (j + 1) - 1
      BY <1>1
    <3> QED
      BY <3>1
  <2> QED
    BY <1>3, <2>1, <2>2
<1> QED
  BY <1>5, <1>6 DEF BlocksKept

LEMMA KeptWhenDequeued ==
  ASSUME Types, requests # <<>>, requests' = Tail(requests),
         NEW d, Head(requests).download # d, Kept(d), DownloadOK(d)
  PROVE  DownloadOK(d)'
<1> SUFFICES ASSUME RequestsFit(d), EventsFit(d), BlocksKept(d)
             PROVE  RequestsFit(d)' /\ EventsFit(d)' /\ BlocksKept(d)'
  BY DEF DownloadOK, Kept
<1>1. \A i \in 1 .. Len(requests') : i + 1 \in 1 .. Len(requests) /\ requests'[i] = requests[i + 1]
  BY Dequeued
<1>2. RequestsFit(d)'
  <2>1. \A i, j \in 1 .. Len(requests') : i + 1 = j + 1 => i = j
    BY Dequeued
  <2> QED
    BY <1>1, <2>1 DEF RequestsFit, Kept
<1>3. EventsFit(d)'
  BY DEF EventsFit, Kept
<1>4. BlocksKept(d)'
  <2>1. \A b : (Ended(d, b) => Ended(d, b)') /\ (Waits(d, b) => Waits(d, b)')
    BY DEF Ended, HasFailed, RequestOf, Stored, Waits, Kept
  <2> QED
    BY <2>1, BlocksWhenDequeued DEF Kept
<1> QED
  BY <1>2, <1>3, <1>4

LEMMA KeptWhenIdle ==
  ASSUME requests' = requests, NEW d, Kept(d), DownloadOK(d)
  PROVE  DownloadOK(d)'
<1>1. /\ \A b : (Ended(d, b) => Ended(d, b)') /\ (Waits(d, b)' <=> Waits(d, b))
      /\ \A b, n : WriteAsked(d, b, n)' <=> WriteAsked(d, b, n)
  BY DEF Ended, HasFailed, RequestOf, Stored, Waits, WriteAsked, Kept
<1>2. RequestsFit(d)' /\ EventsFit(d)'
  BY DEF DownloadOK, RequestsFit, EventsFit, Kept
<1>3. BlocksKept(d)'
  BY <1>1 DEF DownloadOK, BlocksKept, Kept
<1> QED
  BY <1>2, <1>3 DEF DownloadOK

\* What the page offers stays whole.
LEMMA WholeKept ==
  ASSUME Files, \A r \in Row : cells'[r].object \in {None, cells[r].object},
         \A d \in Download : store[d] # None => store'[d] # None,
         failed \subseteq failed'
  PROVE  \A r \in Row : Whole(cells[r].object)'
BY DEF Files, Whole, HasFailed, RequestOf

LEMMA ServedWhenQueued ==
  ASSUME Types, AllServed, NEW q \in Requests, requests' = Append(requests, q),
         store' = store, Served(q)
  PROVE  AllServed'
<1>1. \A i \in 1 .. Len(requests') :
        \/ i \in 1 .. Len(requests) /\ requests'[i] = requests[i]
        \/ requests'[i] = q
  BY Queued
<1> QED
  BY <1>1 DEF AllServed, Served

LEMMA ServedWhenDequeued ==
  ASSUME Types, AllServed, requests # <<>>, requests' = Tail(requests),
         \A d \in Download : store[d] # None => store'[d] # None
  PROVE  AllServed' /\ Served(Head(requests))
<1>1. \A i \in 1 .. Len(requests') :
        i + 1 \in 1 .. Len(requests) /\ requests'[i] = requests[i + 1]
  BY Dequeued
<1>2. Head(requests) = requests[1] /\ 1 \in 1 .. Len(requests)
  BY Dequeued
<1>3. \A i \in 1 .. Len(requests) : requests[i].download \in Download
  <2>1. \A i \in 1 .. Len(requests) : requests[i] \in Requests
    BY DEF Types
  <2> QED
    BY <2>1 DEF Requests
<1> QED
  BY <1>1, <1>2, <1>3 DEF AllServed, Served

LEMMA ServedWhenIdle ==
  ASSUME AllServed, requests' = requests, store' = store PROVE AllServed'
BY DEF AllServed, Served

-----------------------------------------------------------------------------
(* Downloads: the steps.                                                   *)

\* Steps that leave the downloads and the object store as they are.
LEMMA QuietStep ==
  ASSUME Files, UNCHANGED <<downloadVars, store, requests, failed>>,
         cells' \in [Row -> Cell], \A r \in Row : cells'[r].object \in {None, cells[r].object}
  PROVE  Files'
<1>1. Types'
  BY DEF Files, Types, downloadVars
<1>2. \A d \in Download : Kept(d)
  BY DEF Kept, downloadVars, NotCreated, HasFailed, RequestOf
<1>3. \A d \in Download : DownloadOK(d)'
  BY <1>2, KeptWhenIdle DEF Files
<1>4. \A r \in Row : Whole(cells[r].object)'
  BY WholeKept
<1>5. AllServed'
  BY ServedWhenIdle DEF Files
<1> QED
  BY <1>1, <1>3, <1>4, <1>5 DEF Files

LEMMA StartSearchKeepsFiles == ASSUME Files, StartSearch PROVE Files'
<1>1. cells \in [Row -> Cell] /\ Idle \in Cell
  BY DEF Files, Types, Cell, Idle
<1>2. cells' = [r \in Row |-> IF r <= Len(results) THEN Idle ELSE cells[r]]
  BY DEF StartSearch
<1>3. cells' \in [Row -> Cell] /\ \A r \in Row : cells'[r].object \in {None, cells[r].object}
  BY <1>1, <1>2 DEF Idle
<1>4. UNCHANGED <<downloadVars, store, requests, failed>>
  BY DEF StartSearch, storeVars
<1> QED
  BY <1>3, <1>4, QuietStep

LEMMA SearchKeepsFiles ==
  ASSUME Files, UNCHANGED cells, UNCHANGED <<downloadVars, store, requests, failed>>
  PROVE  Files'
<1>1. cells' \in [Row -> Cell] /\ \A r \in Row : cells'[r].object \in {None, cells[r].object}
  BY DEF Files, Types
<1> QED
  BY <1>1, QuietStep

LEMMA StartDownloadKeepsFiles ==
  ASSUME Files, NEW e \in Download, NEW r, StartDownload(e, r) PROVE Files'
<1>0. Types /\ AllServed /\ \A d \in Download : DownloadOK(d)
  BY DEF Files
<1>1. /\ loop[e] = "none" /\ UNCHANGED <<cells, sent, events, store, failed>>
      /\ \/ loop' = [loop EXCEPT ![e] = "create"] /\ Request("create", e, 0)
         \/ loop' = [loop EXCEPT ![e] = "dead"] /\ UNCHANGED requests
  BY DEF StartDownload, pageVars
<1>2. \A d \in Download \ {e} : Kept(d)
  BY <1>0, <1>1 DEF Kept, Types, NotCreated, HasFailed, RequestOf
<1>3. \A s \in Row : Whole(cells[s].object)'
  BY <1>1, WholeKept
<1>4. RequestsFit(e) /\ EventsFit(e)
  BY <1>0 DEF DownloadOK
<1>5. /\ sent[e] = {} /\ store[e] = None /\ ~NotCreated(e) /\ ~NotCreated(e)'
      /\ \A i \in 1 .. Len(requests) : requests[i].download # e
  BY <1>1, <1>4 DEF RequestsFit, EventsFit, NotCreated, HasFailed, RequestOf
<1>6. CASE loop' = [loop EXCEPT ![e] = "create"] /\ Request("create", e, 0)
  <2> DEFINE q == [kind |-> "create", download |-> e, block |-> 0]
  <2>1. q \in Requests /\ requests' = Append(requests, q)
    BY <1>6, BoundAssumption DEF Requests, Request, RequestOf
  <2>2. loop'[e] = "create" /\ loop' \in [Download -> {"none", "create", "event", "url", "dead"}]
    BY <1>0, <1>6 DEF Types
  <2>3. Types'
    BY <1>0, <1>1, <2>1, <2>2, Queued DEF Types
  <2>4. \A d \in Download \ {e} : DownloadOK(d)'
    BY <1>0, <1>2, <2>1, KeptWhenQueued
  <2>5. RequestsFit(e)' /\ EventsFit(e)' /\ BlocksKept(e)'
    <3>1. \A i \in 1 .. Len(requests') :
            requests'[i].download = e => i = Len(requests) + 1 /\ requests'[i] = q
      BY <1>0, <1>5, <2>1, Queued
    <3>2. RequestsFit(e)'
      <4>1. \A i \in 1 .. Len(requests') : requests'[i].download = e => requests'[i].kind = "create"
        BY <3>1
      <4>2. \A i, j \in 1 .. Len(requests') :
              requests'[i].download = e /\ requests'[j].download = e => i = j
        BY <3>1
      <4>3. store'[e] = None /\ ~NotCreated(e)'
        BY <1>1, <1>5
      <4> QED
        BY <2>2, <4>1, <4>2, <4>3 DEF RequestsFit
    <3>3. EventsFit(e)'
      BY <1>1, <1>4, <1>5, <2>2 DEF EventsFit
    <3>4. BlocksKept(e)'
      <4>1. \A i \in 1 .. Len(requests') : requests'[i].download = e => requests'[i].kind # "url"
        BY <3>1
      <4>2. sent'[e] = {}
        BY <1>1, <1>5
      <4> QED
        BY <4>1, <4>2 DEF BlocksKept
    <3> QED
      BY <3>2, <3>3, <3>4
  <2>6. AllServed'
    <3>1. Served(q) /\ store' = store
      BY <1>1 DEF Served
    <3> QED
      BY <1>0, <2>1, <3>1, ServedWhenQueued
  <2> QED
    BY <1>1, <1>3, <2>3, <2>4, <2>5, <2>6 DEF Files, DownloadOK
<1>7. CASE loop' = [loop EXCEPT ![e] = "dead"] /\ UNCHANGED requests
  <2>1. loop'[e] = "dead" /\ loop' \in [Download -> {"none", "create", "event", "url", "dead"}]
    BY <1>0, <1>7 DEF Types
  <2>2. Types'
    BY <1>0, <1>1, <1>7, <2>1 DEF Types
  <2>3. \A d \in Download \ {e} : DownloadOK(d)'
    BY <1>0, <1>2, <1>7, KeptWhenIdle
  <2>4. RequestsFit(e)' /\ EventsFit(e)' /\ BlocksKept(e)'
    <3>1. RequestsFit(e)'
      BY <1>1, <1>5, <1>7, <2>1 DEF RequestsFit
    <3>2. EventsFit(e)'
      BY <1>1, <1>4, <1>5, <2>1 DEF EventsFit
    <3>3. BlocksKept(e)'
      BY <1>1, <1>5, <1>7 DEF BlocksKept
    <3> QED
      BY <3>1, <3>2, <3>3
  <2>5. AllServed'
    BY <1>0, <1>1, <1>7, ServedWhenIdle
  <2> QED
    BY <1>1, <1>3, <2>2, <2>3, <2>4, <2>5 DEF Files, DownloadOK
<1> QED
  BY <1>1, <1>6, <1>7

LEMMA DownloadEventKeepsFiles ==
  ASSUME Files, NEW d \in Download, NEW e \in Start .. Completed, DownloadEvent(d, e)
  PROVE  Files'
<1>0. Types /\ AllServed /\ \A c \in Download : DownloadOK(c)
  BY DEF Files
<1>1. /\ UNCHANGED <<cells, loop, store, requests, failed>>
      /\ loop[d] # "none" /\ e \notin sent[d]
      /\ e # Start => Start \in sent[d]
      /\ e = Completed => 1 .. Blocks \subseteq sent[d]
      /\ sent' = [sent EXCEPT ![d] = @ \cup {e}]
      /\ events' = [events EXCEPT ![d] = Append(@, e)]
  BY DEF DownloadEvent, pageVars, storeVars
<1>2. sent'[d] = sent[d] \cup {e} /\ sent' \in [Download -> SUBSET (Start .. Completed)]
  BY <1>0, <1>1 DEF Types
<1>3. PICK S : S = Start .. Completed
  OBVIOUS
<1>4. /\ events[d] \in Seq(S) /\ e \in S /\ events'[d] = Append(events[d], e)
      /\ events' \in [Download -> Seq(Start .. Completed)]
  BY <1>0, <1>1, <1>3 DEF Types
<1>5. /\ Len(events[d]) \in Nat /\ Len(events'[d]) = Len(events[d]) + 1
      /\ events'[d][Len(events[d]) + 1] = e
      /\ \A i \in 1 .. Len(events[d]) : events'[d][i] = events[d][i]
  BY <1>4, AppendProperties
<1>6. /\ \A i \in 1 .. Len(events'[d]) : i \in 1 .. Len(events[d]) \/ i = Len(events'[d])
      /\ \A i \in 1 .. Len(events[d]) : i \in 1 .. Len(events'[d])
      /\ Len(events'[d]) \in 1 .. Len(events'[d])
  BY <1>5
<1>7. Types'
  BY <1>0, <1>1, <1>2, <1>4 DEF Types
<1>8. \A c \in Download \ {d} : Kept(c)
  BY <1>0, <1>1 DEF Kept, Types, NotCreated, HasFailed, RequestOf
<1>9. \A c \in Download \ {d} : DownloadOK(c)'
  BY <1>0, <1>1, <1>8, KeptWhenIdle
<1>10. \A r \in Row : Whole(cells[r].object)'
  BY <1>1, WholeKept
<1>11. RequestsFit(d)' /\ EventsFit(d)' /\ BlocksKept(d)'
  <2>1. RequestsFit(d) /\ EventsFit(d) /\ BlocksKept(d)
    BY <1>0 DEF DownloadOK
  <2>2. RequestsFit(d)'
    BY <1>1, <2>1 DEF RequestsFit, NotCreated, HasFailed, RequestOf
  <2>3. EventsFit(d)'
    <3>1. Completed \notin sent[d]
      BY <1>1, <2>1 DEF EventsFit
    <3>2. Completed \in sent'[d] => Start .. Completed \subseteq sent'[d]
      <4>1. Start .. Completed = {Start} \cup 1 .. Blocks \cup {Completed}
        BY BoundAssumption DEF Start, Completed
      <4>2. Completed # Start
        BY BoundAssumption DEF Start, Completed
      <4> QED
        BY <1>1, <1>2, <3>1, <4>1, <4>2
    <3>3. \A i \in 1 .. Len(events[d]) : events[d][i] # Completed
      BY <2>1, <3>1 DEF EventsFit
    <3>4. \A i \in 1 .. Len(events'[d]) :
            events'[d][i] = Completed => i = Len(events'[d]) /\ Completed \in sent'[d]
      BY <1>2, <1>5, <1>6, <3>3
    <3> QED
      BY <1>1, <3>2, <3>4 DEF EventsFit
  <2>4. BlocksKept(d)'
    <3>1. \A b : Waits(d, b) \/ b = e => Waits(d, b)'
      BY <1>5, <1>6 DEF Waits
    <3>2. \A b, n : /\ Ended(d, b)' <=> Ended(d, b)
                    /\ WriteAsked(d, b, n)' <=> WriteAsked(d, b, n)
      BY <1>1 DEF Ended, HasFailed, RequestOf, Stored, WriteAsked
    <3> QED
      BY <1>1, <1>2, <2>1, <3>1, <3>2 DEF BlocksKept
  <2> QED
    BY <2>2, <2>3, <2>4
<1>12. AllServed'
  BY <1>0, <1>1, ServedWhenIdle
<1> QED
  BY <1>1, <1>7, <1>9, <1>10, <1>11, <1>12 DEF Files, DownloadOK

\* The loop of download d takes an event out of its channel.
Taken(d) ==
  /\ UNCHANGED <<sent, store, failed>>
  /\ events[d] # <<>> /\ events' = [events EXCEPT ![d] = Tail(@)]

LEMMA TakenFacts ==
  ASSUME Types, NEW d \in Download, Taken(d)
  PROVE  /\ events' \in [Download -> Seq(Start .. Completed)]
         /\ \A b : Waits(d, b) => Waits(d, b)' \/ b = Head(events[d])
         /\ Head(events[d]) = events[d][1] /\ 1 \in 1 .. Len(events[d])
         /\ \A b : Ended(d, b)' <=> Ended(d, b)
         /\ EventsFit(d) /\ loop[d] # "none" /\ loop'[d] # "none" => EventsFit(d)'
<1>1. PICK S : S = Start .. Completed
  OBVIOUS
<1>2. /\ events[d] \in Seq(S) /\ events'[d] = Tail(events[d]) /\ events[d] # <<>>
  BY <1>1 DEF Types, Taken
<1>3. /\ Tail(events[d]) \in Seq(S) /\ Len(events'[d]) = Len(events[d]) - 1
      /\ Head(events[d]) = events[d][1]
      /\ \A i \in 1 .. Len(events'[d]) : events'[d][i] = events[d][i + 1]
      /\ Len(events'[d]) \in Nat /\ Len(events[d]) \in Nat
  BY <1>2, HeadTailProperties
<1>4. /\ 1 \in 1 .. Len(events[d])
      /\ \A i \in 1 .. Len(events'[d]) : i + 1 \in 1 .. Len(events[d])
                                         /\ (i + 1 = Len(events[d]) => i = Len(events'[d]))
      /\ \A i \in 1 .. Len(events[d]) :
           i # 1 => i - 1 \in 1 .. Len(events'[d]) /\ (i - 1) + 1 = i
  BY <1>3
<1>5. events' \in [Download -> Seq(Start .. Completed)]
  BY <1>1, <1>3 DEF Types, Taken
<1>6. \A b : Waits(d, b) => Waits(d, b)' \/ b = Head(events[d])
  <2>1. \A i \in 1 .. Len(events[d]) : i # 1 => events'[d][i - 1] = events[d][i]
    BY <1>3, <1>4
  <2> QED
    BY <1>3, <1>4, <2>1 DEF Waits
<1>7. \A b : Ended(d, b)' <=> Ended(d, b)
  BY DEF Ended, HasFailed, RequestOf, Stored, Taken
<1>8. EventsFit(d) /\ loop[d] # "none" /\ loop'[d] # "none" => EventsFit(d)'
  BY <1>3, <1>4 DEF EventsFit, Taken
<1> QED
  BY <1>3, <1>4, <1>5, <1>6, <1>7, <1>8

\* A turn of the loop that makes no request.
LEMMA TakenIdly ==
  ASSUME Files, NEW d \in Download, Taken(d), requests' = requests,
         loop' \in [Download -> {"none", "create", "event", "url", "dead"}],
         cells' \in [Row -> Cell], \A r \in Row : cells'[r].object = cells[r].object,
         \A c \in Download \ {d} : loop'[c] = loop[c],
         loop[d] = "event",
         \/ loop'[d] = "event" /\ Head(events[d]) \notin 1 .. Blocks
         \/ loop'[d] = "dead" /\ store[d] = None
  PROVE  Files'
<1>0. Types /\ AllServed /\ \A c \in Download : DownloadOK(c)
  BY DEF Files
<1>1. Types'
  BY <1>0, TakenFacts DEF Types, Taken
<1>2. \A c \in Download \ {d} : Kept(c)
  BY <1>0 DEF Kept, Types, Taken, NotCreated, HasFailed, RequestOf
<1>3. \A c \in Download \ {d} : DownloadOK(c)'
  BY <1>0, <1>2, KeptWhenIdle
<1>4. \A r \in Row : Whole(cells[r].object)'
  BY WholeKept DEF Taken
<1>5. RequestsFit(d)' /\ EventsFit(d)' /\ BlocksKept(d)'
  <2>1. RequestsFit(d) /\ EventsFit(d) /\ BlocksKept(d)
    BY <1>0 DEF DownloadOK
  <2>2. RequestsFit(d)'
    <3>1. store[d] = None => \A i \in 1 .. Len(requests) : requests[i].download # d
      BY <1>0, <2>1 DEF RequestsFit, AllServed, Served
    <3>2. NotCreated(d)' <=> NotCreated(d)
      BY DEF NotCreated, HasFailed, RequestOf, Taken
    <3> QED
      BY <2>1, <3>1, <3>2 DEF RequestsFit, Taken
  <2>3. EventsFit(d)'
    BY <1>0, <2>1, TakenFacts
  <2>4. \A b, n : WriteAsked(d, b, n)' <=> WriteAsked(d, b, n)
    BY DEF WriteAsked
  <2>5. /\ \A b : Waits(d, b) => Waits(d, b)' \/ b = Head(events[d])
        /\ \A b : Ended(d, b)' <=> Ended(d, b)
    BY <1>0, TakenFacts
  <2>6. BlocksKept(d)'
    BY <2>1, <2>4, <2>5 DEF BlocksKept, Taken
  <2> QED
    BY <2>2, <2>3, <2>6
<1>6. AllServed'
  BY <1>0, ServedWhenIdle DEF Taken
<1> QED
  BY <1>1, <1>3, <1>4, <1>5, <1>6 DEF Files, DownloadOK, Taken

\* A turn of the loop that makes request q.
LEMMA TakenWithRequest ==
  ASSUME Files, NEW d \in Download, Taken(d), cells' = cells,
         loop' \in [Download -> {"none", "create", "event", "url", "dead"}],
         \A c \in Download \ {d} : loop'[c] = loop[c],
         NEW q \in Requests, requests' = Append(requests, q), q.download = d,
         loop[d] = "event", loop'[d] \in {"event", "url"},
         \/ q.kind = "write" /\ q.block = Head(events[d])
         \/ q.kind = "url" /\ Head(events[d]) = Completed,
         Served(q)
  PROVE  Files'
<1>0. Types /\ AllServed /\ \A c \in Download : DownloadOK(c)
  BY DEF Files
<1>1. Types'
  BY <1>0, TakenFacts, Queued DEF Types, Taken
<1>2. \A c \in Download \ {d} : Kept(c)
  BY <1>0 DEF Kept, Types, Taken, NotCreated, HasFailed, RequestOf
<1>3. \A c \in Download \ {d} : DownloadOK(c)'
  BY <1>0, <1>2, KeptWhenQueued
<1>4. \A r \in Row : Whole(cells[r].object)'
  BY WholeKept DEF Taken
<1>5. RequestsFit(d)' /\ EventsFit(d)' /\ BlocksKept(d)'
  <2>1. RequestsFit(d) /\ EventsFit(d) /\ BlocksKept(d)
    BY <1>0 DEF DownloadOK
  <2>2. /\ Len(requests) \in Nat /\ Len(requests') = Len(requests) + 1
        /\ requests'[Len(requests) + 1] = q
        /\ \A i \in 1 .. Len(requests) : requests'[i] = requests[i]
        /\ \A i \in 1 .. Len(requests') : i \in 1 .. Len(requests) \/ i = Len(requests) + 1
    BY <1>0, Queued
  <2>3. RequestsFit(d)'
    <3>1. (NotCreated(d)' <=> NotCreated(d)) /\ store' = store
      BY DEF NotCreated, HasFailed, RequestOf, Taken
    <3>2. q.kind # "create" /\ store[d] # None
      BY DEF Served
    <3>3. \A i \in 1 .. Len(requests') : requests'[i].download = d => requests'[i].kind # "create"
      BY <2>1, <2>2, <3>2 DEF RequestsFit
    <3> QED
      BY <2>1, <3>1, <3>2, <3>3 DEF RequestsFit
  <2>4. EventsFit(d)'
    BY <1>0, <2>1, TakenFacts
  <2>5. /\ \A b : Waits(d, b) => Waits(d, b)' \/ b = Head(events[d])
        /\ \A b : Ended(d, b)' <=> Ended(d, b)
    BY <1>0, TakenFacts
  <2>6. \A b : WriteAsked(d, b, Len(requests)) => WriteAsked(d, b, Len(requests))'
    <3>1. \A i \in 1 .. Len(requests) : i \in 1 .. Len(requests')
      BY <2>2
    <3> QED
      BY <2>2, <3>1 DEF WriteAsked
  <2>7. \A j \in 1 .. Len(requests) : \A b : WriteAsked(d, b, j - 1) => WriteAsked(d, b, j - 1)'
    <3>1. \A j \in 1 .. Len(requests) : j - 1 \in 0 .. Len(requests)
      BY <2>2
    <3> QED
      BY <1>0, <3>1, Queued
  <2>8. CASE q.kind = "write" /\ q.block = Head(events[d])
    <3>1. Len(requests) + 1 \in 1 .. Len(requests')
      BY <2>2
    <3>2. \A b : b = Head(events[d]) => WriteAsked(d, b, Len(requests))'
      BY <2>2, <2>8, <3>1 DEF WriteAsked
    <3>3. \A b \in sent'[d] \cap (1 .. Blocks) :
            Ended(d, b)' \/ Waits(d, b)' \/ WriteAsked(d, b, Len(requests))'
      BY <2>1, <2>5, <2>6, <3>2 DEF BlocksKept, Taken
    <3>4. \A j \in 1 .. Len(requests') :
            requests'[j].kind = "url" => j \in 1 .. Len(requests) /\ requests'[j] = requests[j]
      BY <2>2, <2>8
    <3>5. \A j \in 1 .. Len(requests') :
            requests'[j].download = d /\ requests'[j].kind = "url" =>
              \A b \in 1 .. Blocks : Ended(d, b)' \/ WriteAsked(d, b, j - 1)'
      BY <2>1, <2>5, <2>7, <3>4 DEF BlocksKept
    <3> QED
      BY <3>3, <3>5, <2>3, <2>4 DEF BlocksKept
  <2>9. CASE q.kind = "url" /\ Head(events[d]) = Completed
    <3>1. \A b \in 1 .. Blocks : b # Completed /\ b \in Start .. Completed
      BY BoundAssumption DEF Completed, Start
    <3>2. Len(events[d]) = 1 /\ Completed \in sent[d]
      BY <1>0, <2>1, <2>9, TakenFacts DEF EventsFit
    <3>3. \A b \in 1 .. Blocks : b \in sent[d] /\ ~Waits(d, b)
      <4>1. events[d][1] = Completed
        BY <1>0, <2>9, TakenFacts
      <4>2. \A i \in 1 .. Len(events[d]) : i = 1
        BY <3>2
      <4> QED
        BY <2>1, <3>1, <3>2, <4>1, <4>2 DEF EventsFit, Waits
    <3>4. \A b \in 1 .. Blocks : Ended(d, b)' \/ WriteAsked(d, b, Len(requests))
      BY <2>1, <2>5, <3>3 DEF BlocksKept
    <3>5. \A b \in 1 .. Blocks : Ended(d, b)' \/ WriteAsked(d, b, Len(requests))'
      BY <2>6, <3>4
    <3>6. \A b : WriteAsked(d, b, Len(requests)) => \A j : j = Len(requests) + 1 => WriteAsked(d, b, j - 1)'
      <4>1. Len(requests) \in 0 .. Len(requests) /\ (Len(requests) + 1) - 1 = Len(requests)
        BY <2>2
      <4> QED
        BY <1>0, <4>1, Queued
    <3>7. \A j \in 1 .. Len(requests') :
            requests'[j].download = d /\ requests'[j].kind = "url" =>
              \A b \in 1 .. Blocks : Ended(d, b)' \/ WriteAsked(d, b, j - 1)'
      <4> SUFFICES ASSUME NEW j \in 1 .. Len(requests'), requests'[j].download = d,
                          requests'[j].kind = "url", NEW b \in 1 .. Blocks
                   PROVE  Ended(d, b)' \/ WriteAsked(d, b, j - 1)'
        OBVIOUS
      <4>1. CASE j \in 1 .. Len(requests)
        <5>1. Ended(d, b) \/ WriteAsked(d, b, j - 1)
          BY <2>1, <2>2, <4>1 DEF BlocksKept
        <5> QED
          BY <2>5, <2>7, <4>1, <5>1
      <4>2. CASE j = Len(requests) + 1
        BY <3>4, <3>6, <4>2
      <4> QED
        BY <2>2, <4>1, <4>2
    <3> QED
      BY <2>3, <2>4, <3>5, <3>7 DEF BlocksKept, Taken
  <2> QED
    BY <2>8, <2>9
<1>6. AllServed'
  BY <1>0, ServedWhenQueued DEF Taken
<1> QED
  BY <1>1, <1>3, <1>4, <1>5, <1>6 DEF Files, DownloadOK, Taken

LEMMA TakeEventKeepsFiles ==
  ASSUME Files, NEW d \in Download, TakeEvent(d) PROVE Files'
<1> DEFINE e == Head(events[d])
<1>0. Types /\ DownloadOK(d)
  BY DEF Files
<1>1. Taken(d) /\ loop[d] = "event"
  BY DEF TakeEvent, Taken
<1>3. CASE /\ e = Start
           /\ cells' = [cells EXCEPT ![target[d]].state = "downloading"]
           /\ UNCHANGED <<loop, requests>>
  <2>1. \A r \in Row : cells'[r] = IF r = target[d] THEN [cells[r] EXCEPT !.state = "downloading"]
                                   ELSE cells[r]
    BY <1>0, <1>3 DEF Types
  <2>2. cells' = [r \in Row |-> cells'[r]]
    BY <1>0, <1>3 DEF Types
  <2>3. \A r \in Row : cells[r] \in Cell
    BY <1>0 DEF Types
  <2>4. \A r \in Row : cells'[r] \in Cell /\ cells'[r].object = cells[r].object
    BY <2>1, <2>3 DEF Cell
  <2>5. cells' \in [Row -> Cell]
    BY <2>2, <2>4
  <2>6. e \notin 1 .. Blocks
    BY <1>3 DEF Start
  <2> QED
    BY <1>0, <1>1, <1>3, <2>4, <2>5, <2>6, TakenIdly DEF Types
<1>4. CASE e \in 1 .. Blocks /\ store[d] # None /\ Request("write", d, e)
           /\ UNCHANGED <<loop, cells>>
  <2> DEFINE q == [kind |-> "write", download |-> d, block |-> e]
  <2>1. q \in Requests /\ requests' = Append(requests, q)
    BY <1>4 DEF Requests, Request, RequestOf
  <2>2. q.download = d /\ q.kind = "write" /\ q.block = Head(events[d])
    OBVIOUS
  <2>3. Served(q)
    BY <1>4 DEF Served
  <2> QED
    BY <1>0, <1>1, <1>4, <2>1, <2>2, <2>3, TakenWithRequest DEF Types
<1>5. CASE /\ e = Completed /\ store[d] # None /\ Request("url", d, 0) /\ UNCHANGED cells
           /\ loop' = [loop EXCEPT ![d] = "url"]
  <2> DEFINE q == [kind |-> "url", download |-> d, block |-> 0]
  <2>1. q \in Requests /\ requests' = Append(requests, q)
    BY <1>5, BoundAssumption DEF Requests, Request, RequestOf
  <2>2. q.download = d /\ q.kind = "url"
    OBVIOUS
  <2>3. /\ loop' \in [Download -> {"none", "create", "event", "url", "dead"}]
        /\ loop'[d] = "url" /\ \A c \in Download \ {d} : loop'[c] = loop[c]
    BY <1>0, <1>5 DEF Types
  <2>4. Served(q)
    BY <1>5 DEF Served
  <2> QED
    BY <1>0, <1>1, <1>5, <2>1, <2>2, <2>3, <2>4, TakenWithRequest
<1>6. CASE store[d] = None /\ loop' = [loop EXCEPT ![d] = "dead"] /\ UNCHANGED <<cells, requests>>
  <2>1. /\ loop' \in [Download -> {"none", "create", "event", "url", "dead"}]
        /\ \A c \in Download \ {d} : loop'[c] = loop[c]
    BY <1>0, <1>6 DEF Types
  <2>2. loop'[d] = "dead"
    BY <1>0, <1>6 DEF Types
  <2> QED
    BY <1>0, <1>1, <1>6, <2>1, <2>2, TakenIdly DEF Types
<1> QED
  BY <1>3, <1>4, <1>5, <1>6 DEF TakeEvent

LEMMA FailKeepsFiles == ASSUME Files, Fail PROVE Files'
<1>0. Types /\ AllServed /\ \A c \in Download : DownloadOK(c)
  BY DEF Files
<1>1. requests # <<>> /\ requests' = Tail(requests)
  BY DEF Fail
<1>2. PICK d \in Download : d = Head(requests).download
  BY <1>0, <1>1, Dequeued DEF Requests
<1>3. /\ failed' = failed \cup {Head(requests)}
      /\ loop' = [loop EXCEPT ![d] = IF Head(requests).kind = "create" THEN "event" ELSE @]
      /\ UNCHANGED <<cells, sent, events, store>>
  BY <1>2 DEF Fail, AfterCreate, pageVars
<1>4. /\ loop' \in [Download -> {"none", "create", "event", "url", "dead"}]
      /\ \A c \in Download \ {d} : loop'[c] = loop[c]
      /\ loop'[d] = IF Head(requests).kind = "create" THEN "event" ELSE loop[d]
  BY <1>0, <1>3 DEF Types
<1>5. /\ requests' \in Seq(Requests) /\ Len(requests') \in Nat
      /\ Head(requests) \in Requests /\ Head(requests) = requests[1] /\ 1 \in 1 .. Len(requests)
      /\ \A i \in 1 .. Len(requests') :
           i + 1 \in 1 .. Len(requests) /\ i + 1 # 1 /\ requests'[i] = requests[i + 1]
      /\ \A i, j \in 1 .. Len(requests') : i + 1 = j + 1 => i = j
  BY <1>0, <1>1, Dequeued
<1>6. Types'
  BY <1>0, <1>3, <1>4, <1>5 DEF Types
<1>7. \A c \in Download : NotCreated(c)' <=> NotCreated(c) \/ RequestOf("create", c, 0) = Head(requests)
  BY <1>3 DEF NotCreated, HasFailed, RequestOf
<1>8. \A c \in Download \ {d} : DownloadOK(c)'
  <2>1. \A c \in Download \ {d} : RequestOf("create", c, 0) # Head(requests)
    BY <1>2 DEF RequestOf
  <2>2. \A c \in Download \ {d} : Kept(c)
    BY <1>3, <1>4, <1>7, <2>1 DEF Kept
  <2> QED
    BY <1>0, <1>1, <1>2, <2>2, KeptWhenDequeued
<1>9. DownloadOK(d)'
  <2>1. RequestsFit(d) /\ EventsFit(d) /\ BlocksKept(d)
    BY <1>0 DEF DownloadOK
  <2>2. loop[d] \in {"create", "event", "url"}
    <3>1. loop[d] \notin {"none", "dead"}
      BY <1>2, <1>5, <2>1 DEF RequestsFit
    <3> QED
      BY <1>0, <3>1 DEF Types
  <2>3. EventsFit(d)'
    BY <1>3, <1>4, <2>1, <2>2 DEF EventsFit
  <2>4. BlocksKept(d)'
    <3>1. \A b : (Ended(d, b) => Ended(d, b)') /\ (Waits(d, b) => Waits(d, b)')
      BY <1>3 DEF Ended, HasFailed, RequestOf, Stored, Waits
    <3>2. PICK n : n = Head(requests).block
      OBVIOUS
    <3>3. Head(requests).kind = "write" => Ended(d, n)'
      <4>1. Head(requests).kind = "write" => Head(requests) = RequestOf("write", d, n)
        BY <1>2, <1>5, <3>2 DEF RequestOf, Requests
      <4>2. Head(requests).kind = "write" => RequestOf("write", d, n) \in failed'
        BY <1>3, <4>1
      <4> QED
        BY <4>2 DEF Ended, HasFailed, RequestOf
    <3> QED
      BY <1>0, <1>1, <1>3, <1>4, <2>1, <2>2, <3>1, <3>2, <3>3, BlocksWhenDequeued
  <2>5. CASE Head(requests).kind = "create"
    <3>1. loop[d] = "create" /\ store[d] = None /\ loop'[d] = "event"
      BY <1>2, <1>4, <1>5, <2>1, <2>5 DEF RequestsFit
    <3>2. \A i \in 1 .. Len(requests') : requests'[i].download # d
      BY <1>2, <1>5, <2>1, <3>1 DEF RequestsFit
    <3>3. RequestsFit(d)'
      BY <1>3, <3>1, <3>2 DEF RequestsFit
    <3> QED
      BY <2>3, <2>4, <3>3 DEF DownloadOK
  <2>6. CASE Head(requests).kind # "create"
    <3>1. NotCreated(d)' <=> NotCreated(d)
      <4>1. RequestOf("create", d, 0).kind = "create"
        BY DEF RequestOf
      <4> QED
        BY <1>7, <2>6, <4>1
    <3>2. RequestsFit(d)'
      <4>1. loop[d] # "create"
        BY <1>2, <1>5, <2>1, <2>6 DEF RequestsFit
      <4>2. loop'[d] = loop[d] /\ store' = store
        BY <1>3, <1>4, <2>6
      <4>3. \A i \in 1 .. Len(requests') :
              requests'[i].download = d => requests'[i].kind # "create"
        BY <1>5, <2>1, <4>1 DEF RequestsFit
      <4> QED
        BY <2>1, <2>2, <3>1, <4>1, <4>2, <4>3 DEF RequestsFit
    <3> QED
      BY <2>3, <2>4, <3>2 DEF DownloadOK
  <2> QED
    BY <2>5, <2>6
<1>10. \A r \in Row : Whole(cells[r].object)'
  BY <1>3, WholeKept DEF Files, Types
<1>11. AllServed'
  BY <1>0, <1>1, <1>3, ServedWhenDequeued
<1> QED
  BY <1>6, <1>8, <1>9, <1>10, <1>11 DEF Files

LEMMA CreateKeepsFiles ==
  ASSUME Files, NEW d \in Download, requests # <<>>, requests' = Tail(requests),
         Head(requests).kind = "create", Head(requests).download = d,
         store' = [store EXCEPT ![d] = <<>>], loop' = [loop EXCEPT ![d] = "event"],
         UNCHANGED <<cells, sent, events, failed>>
  PROVE  Files'
<1>0. Types /\ AllServed /\ \A c \in Download : DownloadOK(c)
  BY DEF Files
<1>1. <<>> \in Blob /\ <<>> # None
  <2>1. <<>> \in Seq(0 .. Blocks) /\ Len(<<>>) = 0 /\ 0 <= Blocks
    BY BoundAssumption
  <2>2. None \notin Seq(0 .. Blocks)
    BY NoneAssumption
  <2> QED
    BY <2>1, <2>2 DEF Blob
<1>2. Types'
  <2>1. requests' \in Seq(Requests)
    BY <1>0, Dequeued
  <2> QED
    BY <1>0, <1>1, <2>1 DEF Types
<1>3. /\ loop'[d] = "event" /\ store'[d] # None
      /\ \A c \in Download \ {d} : loop'[c] = loop[c] /\ store'[c] = store[c]
  BY <1>0, <1>1 DEF Types
<1>4. \A c \in Download \ {d} : Kept(c)
  BY <1>3 DEF Kept, NotCreated, HasFailed, RequestOf
<1>5. \A c \in Download \ {d} : DownloadOK(c)'
  BY <1>0, <1>4, KeptWhenDequeued
<1>6. AllServed'
  BY <1>0, <1>3, ServedWhenDequeued
<1>7. \A r \in Row : Whole(cells[r].object)'
  BY <1>0, <1>3, WholeKept DEF Types
<1>8. RequestsFit(d)' /\ EventsFit(d)' /\ BlocksKept(d)'
  <2>1. RequestsFit(d) /\ EventsFit(d) /\ BlocksKept(d)
    BY <1>0 DEF DownloadOK
  <2>2. /\ Head(requests) = requests[1] /\ 1 \in 1 .. Len(requests)
        /\ \A i \in 1 .. Len(requests') :
             i + 1 \in 1 .. Len(requests) /\ i + 1 # 1 /\ requests'[i] = requests[i + 1]
    BY <1>0, Dequeued
  <2>3. loop[d] = "create" /\ store[d] = None /\ ~NotCreated(d) /\ ~NotCreated(d)'
    BY <2>1, <2>2 DEF RequestsFit, NotCreated, HasFailed, RequestOf
  <2>4. \A i \in 1 .. Len(requests') : requests'[i].download # d
    BY <2>1, <2>2, <2>3 DEF RequestsFit
  <2>5. RequestsFit(d)'
    BY <1>3, <2>3, <2>4 DEF RequestsFit
  <2>6. EventsFit(d)'
    BY <1>3, <2>1, <2>3 DEF EventsFit
  <2>7. \A i \in 1 .. Len(requests) : requests[i].download = d => requests[i].kind # "write"
    BY <2>1, <2>3 DEF RequestsFit
  <2>8. BlocksKept(d)'
    <3>1. ASSUME NEW b \in sent[d] \cap (1 .. Blocks) PROVE Ended(d, b)' \/ Waits(d, b)'
      <4>1. ~WriteAsked(d, b, Len(requests))
        BY <2>7 DEF WriteAsked
      <4>2. Ended(d, b) \/ Waits(d, b)
        BY <2>1, <2>3, <4>1 DEF BlocksKept
      <4>3. Ended(d, b) => Ended(d, b)'
        BY <2>3 DEF Ended, HasFailed, RequestOf, Stored
      <4>4. Waits(d, b) => Waits(d, b)'
        BY DEF Waits
      <4> QED
        BY <4>2, <4>3, <4>4
    <3> QED
      BY <2>4, <3>1 DEF BlocksKept
  <2> QED
    BY <2>5, <2>6, <2>8
<1> QED
  BY <1>2, <1>5, <1>6, <1>7, <1>8 DEF Files, DownloadOK

LEMMA WriteKeepsFiles ==
  ASSUME Files, NEW d \in Download, requests # <<>>, requests' = Tail(requests),
         Head(requests).kind = "write", Head(requests).download = d,
         store' = [store EXCEPT ![d] = Written(@, Head(requests).block)],
         UNCHANGED <<loop, cells, sent, events, failed>>
  PROVE  Files'
<1>0. Types /\ AllServed /\ \A c \in Download : DownloadOK(c)
  BY DEF Files
<1>1. PICK n : n = Head(requests).block
  OBVIOUS
<1>2. Head(requests) \in Requests /\ Head(requests) = requests[1] /\ 1 \in 1 .. Len(requests)
  BY <1>0, Dequeued
<1>3. n \in 1 .. Blocks /\ store[d] # None
  <2>1. Served(Head(requests))
    BY <1>0, <1>2 DEF AllServed
  <2>2. n \in 0 .. Blocks
    BY <1>1, <1>2 DEF Requests
  <2>3. n # 0 /\ store[d] # None
    BY <1>1, <2>1 DEF Served
  <2> QED
    BY <2>2, <2>3, BoundAssumption
<1>4. store[d] \in Blob
  BY <1>0, <1>3 DEF Types
<1>5. PICK w : w = Written(store[d], n)
  OBVIOUS
<1>6. /\ w \in Blob /\ w # None
      /\ n \in 1 .. Len(w) /\ w[n] = n
      /\ \A j \in 1 .. Len(store[d]) : j \in 1 .. Len(w) /\ (j # n => w[j] = store[d][j])
  <2>1. \A s \in Blob : s # None
    BY NoneAssumption DEF Blob
  <2> QED
    BY <1>3, <1>4, <1>5, <2>1, WrittenFacts
<1>7. /\ store' \in [Download -> Blob \cup {None}] /\ store'[d] = w
      /\ \A c \in Download \ {d} : store'[c] = store[c]
  BY <1>0, <1>1, <1>5, <1>6 DEF Types
<1>8. Types'
  <2>1. requests' \in Seq(Requests)
    BY <1>0, Dequeued
  <2> QED
    BY <1>0, <1>7, <2>1 DEF Types
<1>9. \A c \in Download \ {d} : Kept(c)
  BY <1>7 DEF Kept, NotCreated, HasFailed, RequestOf
<1>10. \A c \in Download \ {d} : DownloadOK(c)'
  BY <1>0, <1>9, KeptWhenDequeued
<1>11. AllServed'
  BY <1>0, <1>6, <1>7, ServedWhenDequeued
<1>12. \A r \in Row : Whole(cells[r].object)'
  BY <1>0, <1>6, <1>7, WholeKept DEF Types
<1>13. RequestsFit(d)' /\ EventsFit(d)' /\ BlocksKept(d)'
  <2>1. RequestsFit(d) /\ EventsFit(d) /\ BlocksKept(d)
    BY <1>0 DEF DownloadOK
  <2>2. /\ Len(requests) = Len(requests') + 1 /\ Len(requests') \in Nat
        /\ \A i \in 1 .. Len(requests') :
             i + 1 \in 1 .. Len(requests) /\ i + 1 # 1 /\ requests'[i] = requests[i + 1]
    BY <1>0, Dequeued
  <2>3. loop[d] \in {"event", "url"}
    <3>1. loop[d] \notin {"none", "dead", "create"}
      BY <1>2, <2>1 DEF RequestsFit
    <3> QED
      BY <1>0, <3>1 DEF Types
  <2>4. RequestsFit(d)'
    <3>1. (NotCreated(d)' <=> NotCreated(d)) /\ ~NotCreated(d)
      BY <1>3, <2>1 DEF NotCreated, HasFailed, RequestOf, RequestsFit
    <3> QED
      BY <1>6, <1>7, <2>1, <2>2, <2>3, <3>1 DEF RequestsFit
  <2>5. EventsFit(d)'
    BY <2>1 DEF EventsFit
  <2>6. \A b : (Ended(d, b) \/ b = n => Ended(d, b)') /\ (Waits(d, b) => Waits(d, b)')
    BY <1>6, <1>7 DEF Ended, HasFailed, RequestOf, Stored, Waits
  <2>7. BlocksKept(d)'
    BY <1>0, <1>1, <2>1, <2>6, BlocksWhenDequeued
  <2> QED
    BY <2>4, <2>5, <2>7
<1> QED
  BY <1>8, <1>10, <1>11, <1>12, <1>13 DEF Files, DownloadOK

LEMMA UrlKeepsFiles ==
  ASSUME Files, NEW d \in Download, requests # <<>>, requests' = Tail(requests),
         Head(requests).kind = "url", Head(requests).download = d,
         NEW row, cells' = [cells EXCEPT ![row] =
                              [state |-> "complete", object |-> [of |-> d, blob |-> store[d]]]],
         loop' = [loop EXCEPT ![d] = "event"],
         UNCHANGED <<store, sent, events, failed>>
  PROVE  Files'
<1>0. Types /\ AllServed /\ \A c \in Download : DownloadOK(c)
  BY DEF Files
<1>1. /\ Head(requests) = requests[1] /\ 1 \in 1 .. Len(requests)
      /\ \A i \in 1 .. Len(requests') :
           i + 1 \in 1 .. Len(requests) /\ requests'[i] = requests[i + 1]
  BY <1>0, Dequeued
<1>2. store[d] \in Blob
  <2>1. store[d] # None
    BY <1>0, <1>1 DEF AllServed, Served
  <2> QED
    BY <1>0, <2>1 DEF Types
<1>3. PICK object \in Object : object = [of |-> d, blob |-> store[d]]
  BY <1>2 DEF Object
<1>4. PICK cell \in Cell : cell = [state |-> "complete", object |-> object]
  BY DEF Cell
<1>5. /\ cells' \in [Row -> Cell]
      /\ \A r \in Row : cells'[r] = cells[r] \/ cells'[r] = cell
  BY <1>0, <1>3, <1>4 DEF Types
<1>6. /\ loop' \in [Download -> {"none", "create", "event", "url", "dead"}]
      /\ loop'[d] = "event" /\ \A c \in Download \ {d} : loop'[c] = loop[c]
  BY <1>0 DEF Types
<1>7. Types'
  <2>1. requests' \in Seq(Requests)
    BY <1>0, Dequeued
  <2> QED
    BY <1>0, <1>5, <1>6, <2>1 DEF Types
<1>8. \A c \in Download \ {d} : Kept(c)
  BY <1>6 DEF Kept, NotCreated, HasFailed, RequestOf
<1>9. \A c \in Download \ {d} : DownloadOK(c)'
  BY <1>0, <1>8, KeptWhenDequeued
<1>10. AllServed'
  BY <1>0, ServedWhenDequeued
<1>11. \A b \in 1 .. Blocks : Ended(d, b)
  <2>1. \A b \in 1 .. Blocks : Ended(d, b) \/ WriteAsked(d, b, 1 - 1)
    BY <1>0, <1>1 DEF DownloadOK, BlocksKept
  <2>2. \A b : ~WriteAsked(d, b, 1 - 1)
    BY DEF WriteAsked
  <2> QED
    BY <2>1, <2>2
<1>12. Whole(object)'
  BY <1>2, <1>3, <1>11, NoneAssumption DEF Whole, Ended, Stored, HasFailed, RequestOf, Blob
<1>13. \A r \in Row : Whole(cells[r].object)'
  <2>1. \A r \in Row : cells'[r].object \in {cells[r].object, object}
    BY <1>4, <1>5
  <2> QED
    BY <1>12, <2>1 DEF Files, Whole, HasFailed, RequestOf
<1>14. RequestsFit(d)' /\ EventsFit(d)' /\ BlocksKept(d)'
  <2>1. RequestsFit(d) /\ EventsFit(d) /\ BlocksKept(d)
    BY <1>0 DEF DownloadOK
  <2>2. loop[d] \notin {"none", "create", "dead"} /\ store[d] # None
    BY <1>1, <2>1, <1>0 DEF RequestsFit, AllServed, Served
  <2>3. RequestsFit(d)'
    BY <1>1, <1>6, <2>1, <2>2 DEF RequestsFit, NotCreated, HasFailed, RequestOf
  <2>4. EventsFit(d)'
    BY <1>6, <2>1 DEF EventsFit
  <2>5. BlocksKept(d)'
    BY <1>11 DEF BlocksKept, Ended, HasFailed, RequestOf, Stored
  <2> QED
    BY <2>3, <2>4, <2>5
<1> QED
  BY <1>7, <1>9, <1>10, <1>13, <1>14 DEF Files, DownloadOK

LEMMA SucceedKeepsFiles == ASSUME Files, Succeed PROVE Files'
<1>1. requests # <<>> /\ requests' = Tail(requests) /\ UNCHANGED <<sent, events, failed>>
  BY DEF Succeed
<1>2. PICK d \in Download : d = Head(requests).download
  BY <1>1, Dequeued DEF Files, Requests
<1>3. \/ /\ Head(requests).kind = "create"
         /\ store' = [store EXCEPT ![d] = <<>>] /\ loop' = [loop EXCEPT ![d] = "event"]
         /\ UNCHANGED cells
      \/ /\ Head(requests).kind = "write"
         /\ store' = [store EXCEPT ![d] = Written(@, Head(requests).block)]
         /\ UNCHANGED <<loop, cells>>
      \/ /\ Head(requests).kind = "url"
         /\ cells' = [cells EXCEPT ![target[d]] =
                        [state |-> "complete", object |-> [of |-> d, blob |-> store[d]]]]
         /\ loop' = [loop EXCEPT ![d] = "event"]
         /\ UNCHANGED store
  BY <1>2 DEF Succeed, AfterCreate
<1> QED
  BY <1>1, <1>2, <1>3, CreateKeepsFiles, WriteKeepsFiles, UrlKeepsFiles

LEMMA FilesKept == Files /\ [Next]_vars => Files'
<1> SUFFICES ASSUME Files, [Next]_vars PROVE Files'
  OBVIOUS
<1>1. CASE StartSearch
  BY <1>1, StartSearchKeepsFiles
<1>2. CASE StopSearch \/ OpenDatabase
           \/ (\E f \in File : Report(f)) \/ (\E s \in SearchId : Put(s) \/ TakeResult(s))
  <2>1. UNCHANGED cells /\ UNCHANGED <<downloadVars, store, requests, failed>>
    BY <1>2 DEF StopSearch, OpenDatabase, Report, Put, TakeResult, pageVars, storeVars
  <2> QED
    BY <2>1, SearchKeepsFiles
<1>3. ASSUME NEW d \in Download, NEW r, StartDownload(d, r) PROVE Files'
  BY <1>3, StartDownloadKeepsFiles
<1>4. ASSUME NEW d \in Download, NEW e \in Start .. Completed, DownloadEvent(d, e) PROVE Files'
  BY <1>4, DownloadEventKeepsFiles
<1>5. ASSUME NEW d \in Download, TakeEvent(d) PROVE Files'
  BY <1>5, TakeEventKeepsFiles
<1>6. CASE Succeed
  BY <1>6, SucceedKeepsFiles
<1>7. CASE Fail
  BY <1>7, FailKeepsFiles
<1>8. CASE UNCHANGED vars
  <2>1. UNCHANGED cells /\ UNCHANGED <<downloadVars, store, requests, failed>>
    BY <1>8 DEF vars, pageVars, storeVars
  <2> QED
    BY <2>1, SearchKeepsFiles
<1> QED
  BY <1>1, <1>2, <1>3, <1>4, <1>5, <1>6, <1>7, <1>8 DEF Next

LEMMA FilesAtFirst == Init => Files
<1> SUFFICES ASSUME Init PROVE Files
  OBVIOUS
<1>1. Idle \in Cell
  BY DEF Cell, Idle
<1>2. Types
  BY <1>1 DEF Init, Types
<1>3. requests = <<>> /\ Len(requests) = 0
  BY DEF Init
<1>4. AllServed
  BY <1>3 DEF AllServed
<1>5. ASSUME NEW d \in Download PROVE DownloadOK(d)
  <2>1. /\ loop[d] = "none" /\ store[d] = None /\ sent[d] = {} /\ events[d] = <<>>
        /\ failed = {}
    BY DEF Init
  <2> QED
    BY <1>3, <2>1 DEF DownloadOK, RequestsFit, EventsFit, BlocksKept, NotCreated, HasFailed, RequestOf
<1>6. \A r \in Row : Whole(cells[r].object)
  BY DEF Init, Idle, Whole
<1> QED
  BY <1>2, <1>4, <1>5, <1>6 DEF Files

LEMMA PageFiles == PageSpec => []Files
<1>1. PageInit => Files
  BY FilesAtFirst DEF PageInit
<1>2. [PageNext]_pageWide => [Next]_vars
  BY Zenon DEF PageNext, Monitored, pageWide
<1>3. Files /\ [PageNext]_pageWide => Files'
  BY <1>2, FilesKept
<1> QED
  BY <1>1, <1>3, PTL DEF PageSpec

\* In the page, an object that is offered is of a file that was created, and has
\* every block in its place whose write has not failed, in whatever order they came.
THEOREM PageObjectWhole == PageSpec => []ObjectWhole
<1>1. Files => ObjectWhole
  BY DEF Files, DownloadOK, RequestsFit, NotCreated, Whole, ObjectWhole
<1> QED
  BY <1>1, PageFiles, PTL

-----------------------------------------------------------------------------
(* Searches: types.                                                        *)

Searches ==
  /\ latest \in 0 .. MaxSearches /\ active \in {0, latest}
  /\ reported \in [SearchId -> Seq(File)] /\ posted \in [SearchId -> Seq(File)]
  /\ queue \in [SearchId -> Seq(File)] /\ stranded \in [SearchId -> Seq(File)]
  /\ results \in Seq([search : SearchId, file : File])
  /\ opened \in BOOLEAN
  /\ target \in [Download -> Row \cup {None}]

LEMMA ClosedTypes ==
  ASSUME Searches, Close PROVE stranded' \in [SearchId -> Seq(File)]
BY DEF Searches, Close

LEMMA PutTypes ==
  ASSUME Searches, NEW s \in SearchId, Put(s) PROVE Searches'
<1>1. posted[s] \in Seq(File) /\ queue[s] \in Seq(File) /\ posted[s] # <<>>
  BY DEF Searches, Put
<1>2. Tail(posted[s]) \in Seq(File) /\ Append(queue[s], Head(posted[s])) \in Seq(File)
  BY <1>1, HeadTailProperties, AppendProperties
<1>3. posted' \in [SearchId -> Seq(File)] /\ queue' \in [SearchId -> Seq(File)]
  BY <1>1, <1>2 DEF Searches, Put
<1> QED
  BY <1>3 DEF Searches, Put, pageVars, downloadVars, storeVars

LEMMA TakeResultTypes ==
  ASSUME Searches, NEW s \in SearchId, TakeResult(s) PROVE Searches'
<1>1. queue[s] \in Seq(File) /\ queue[s] # <<>>
  BY DEF Searches, TakeResult
<1>2. Tail(queue[s]) \in Seq(File) /\ Head(queue[s]) \in File
  BY <1>1, HeadTailProperties
<1>3. queue' \in [SearchId -> Seq(File)]
  BY <1>2 DEF Searches, TakeResult
<1>4. PICK R : R = [search : SearchId, file : File]
  OBVIOUS
<1>5. PICK x \in R : x = [search |-> s, file |-> Head(queue[s])]
  BY <1>2, <1>4
<1>6. results' = Append(results, x) /\ results \in Seq(R)
  BY <1>4, <1>5 DEF Searches, TakeResult
<1>7. results' \in Seq(R)
  BY <1>6, AppendProperties
<1> QED
  BY <1>3, <1>4, <1>7 DEF Searches, TakeResult, downloadVars, storeVars

LEMMA SearchesKept == Searches /\ [Next]_vars => Searches'
<1> SUFFICES ASSUME Searches, [Next]_vars PROVE Searches'
  OBVIOUS
<1>1. CASE StartSearch
  <2>1. latest + 1 \in 0 .. MaxSearches
    BY <1>1, BoundAssumption DEF Searches, StartSearch
  <2>2. stranded' \in [SearchId -> Seq(File)]
    BY <1>1, ClosedTypes DEF StartSearch
  <2>3. results' \in Seq([search : SearchId, file : File])
    <3>1. \A R : <<>> \in Seq(R)
      OBVIOUS
    <3> QED
      BY <1>1, <3>1 DEF StartSearch
  <2> QED
    BY <1>1, <2>1, <2>2, <2>3 DEF Searches, StartSearch, downloadVars, storeVars
<1>2. CASE StopSearch
  <2>1. stranded' \in [SearchId -> Seq(File)]
    BY <1>2, ClosedTypes DEF StopSearch
  <2> QED
    BY <1>2, <2>1 DEF Searches, StopSearch, pageVars, downloadVars, storeVars
<1>3. ASSUME NEW f \in File, Report(f) PROVE Searches'
  <2>1. active \in SearchId
    BY <1>3, BoundAssumption DEF Searches, Report, SearchId
  <2>2. Append(reported[active], f) \in Seq(File) /\ Append(posted[active], f) \in Seq(File)
    BY <2>1, AppendProperties DEF Searches
  <2>3. reported' \in [SearchId -> Seq(File)] /\ posted' \in [SearchId -> Seq(File)]
    BY <1>3, <2>2 DEF Searches, Report
  <2> QED
    BY <1>3, <2>3 DEF Searches, Report, pageVars, downloadVars, storeVars
<1>4. ASSUME NEW s \in SearchId, Put(s) PROVE Searches'
  BY <1>4, PutTypes
<1>5. ASSUME NEW s \in SearchId, TakeResult(s) PROVE Searches'
  BY <1>5, TakeResultTypes
<1>6. ASSUME NEW d \in Download, NEW r \in Row, StartDownload(d, r) PROVE Searches'
  <2>1. target' \in [Download -> Row \cup {None}]
    BY <1>6 DEF Searches, StartDownload
  <2> QED
    BY <1>6, <2>1 DEF Searches, StartDownload, searchVars, pageVars
<1>7. ASSUME NEW d, NEW e, DownloadEvent(d, e) PROVE Searches'
  BY <1>7 DEF Searches, DownloadEvent, searchVars, pageVars, storeVars
<1>8. ASSUME NEW d, TakeEvent(d) PROVE Searches'
  BY <1>8 DEF Searches, TakeEvent, searchVars
<1>9. CASE OpenDatabase
  BY <1>9 DEF Searches, OpenDatabase, searchVars, pageVars, downloadVars
<1>10. CASE Succeed
  <2>1. UNCHANGED <<searchVars, results, target, opened>>
    BY <1>10 DEF Succeed
  <2> QED
    BY <2>1 DEF Searches, searchVars
<1>11. CASE Fail
  BY <1>11 DEF Searches, Fail, searchVars, pageVars
<1>12. CASE UNCHANGED vars
  BY <1>12 DEF Searches, vars, searchVars, pageVars, downloadVars, storeVars
<1> QED
  BY <1>1, <1>2, <1>3, <1>4, <1>5, <1>6, <1>7, <1>8, <1>9, <1>10, <1>11, <1>12 DEF Next

LEMMA SearchesAtFirst == Init => Searches
<1>1. \A R : <<>> \in Seq(R)
  OBVIOUS
<1>2. 0 \in 0 .. MaxSearches
  BY BoundAssumption
<1>3. /\ <<>> \in Seq(File) /\ <<>> \in Seq([search : SearchId, file : File])
  BY <1>1
<1> QED
  BY <1>2, <1>3 DEF Init, Searches

\* In the page, every variable of its files has its type; no file is longer than
\* its blocks.
THEOREM PageFilesTyped == PageSpec => []TypeOK
<1>1. PageInit => Searches
  BY SearchesAtFirst DEF PageInit
<1>2. [PageNext]_pageWide => [Next]_vars
  BY Zenon DEF PageNext, Monitored, pageWide
<1>3. Searches /\ [PageNext]_pageWide => Searches'
  BY <1>2, SearchesKept
<1>4. Files /\ Searches => TypeOK
  <2> SUFFICES ASSUME Types, Searches PROVE TypeOK
    BY DEF Files
  <2>1. \A r \in Row : cells[r] \in Cell
    BY DEF Types
  <2>2. \A r \in Row : /\ cells[r].state \in {"inactive", "downloading", "complete"}
                       /\ cells[r].object = None \/ cells[r].object \in Object
    BY <2>1 DEF Cell
  <2> QED
    BY <2>2 DEF Types, Searches, TypeOK
<1> QED
  BY <1>1, <1>3, <1>4, PageFiles, PTL DEF PageSpec

-----------------------------------------------------------------------------
(* Searches: what is shown.                                                *)

\* The members of I before i.
Before(I, i) == {j \in I : j < i}

LEMMA BeforeFacts ==
  ASSUME NEW I \in SUBSET Nat, IsFiniteSet(I)
  PROVE  /\ \A i \in I : Cardinality(Before(I, i)) \in 0 .. Cardinality(I) - 1
         /\ \A i, j \in I : i < j => Cardinality(Before(I, i)) < Cardinality(Before(I, j))
<1>1. \A i \in I : IsFiniteSet(Before(I, i)) /\ IsFiniteSet(I \ {i})
  BY FS_Subset DEF Before
<1>2. ASSUME NEW i \in I PROVE Cardinality(Before(I, i)) \in 0 .. Cardinality(I) - 1
  <2>1. Before(I, i) \subseteq I \ {i}
    BY DEF Before
  <2>2. Cardinality(Before(I, i)) <= Cardinality(I \ {i})
    BY <1>1, <2>1, FS_Subset
  <2>3. Cardinality(I \ {i}) = Cardinality(I) - 1
    BY FS_RemoveElement
  <2>4. Cardinality(I) \in Nat /\ Cardinality(Before(I, i)) \in Nat
    BY <1>1, FS_CardinalityType
  <2> QED
    BY <2>2, <2>3, <2>4
<1>3. ASSUME NEW i \in I, NEW j \in I, i < j
      PROVE  Cardinality(Before(I, i)) < Cardinality(Before(I, j))
  <2>0. \A h \in I : h < i => h < j
    BY <1>3
  <2>1. Before(I, i) \subseteq Before(I, j) /\ i \in Before(I, j) /\ i \notin Before(I, i)
    <3>1. Before(I, i) \subseteq Before(I, j)
      BY <2>0 DEF Before
    <3>2. i \in Before(I, j)
      BY <1>3 DEF Before
    <3>3. ~(i < i)
      OBVIOUS
    <3> QED
      BY <3>1, <3>2, <3>3 DEF Before
  <2>2. Before(I, i) # Before(I, j)
    BY <2>1
  <2>3. /\ Cardinality(Before(I, i)) <= Cardinality(Before(I, j))
        /\ Cardinality(Before(I, i)) # Cardinality(Before(I, j))
    BY <1>1, <2>1, <2>2, FS_Subset
  <2>4. Cardinality(Before(I, i)) \in Nat /\ Cardinality(Before(I, j)) \in Nat
    BY <1>1, FS_CardinalityType
  <2> QED
    BY <2>3, <2>4
<1> QED
  BY <1>2, <1>3

\* There is one k-th member, which is Nth.
LEMMA NthFacts ==
  ASSUME NEW I \in SUBSET Nat, IsFiniteSet(I), NEW k \in 1 .. Cardinality(I)
  PROVE  /\ Nth(I, k) \in I
         /\ \A i \in I : Cardinality(Before(I, i)) = k - 1 <=> i = Nth(I, k)
<1> DEFINE f == [i \in I |-> Cardinality(Before(I, i))]
           T == 0 .. Cardinality(I) - 1
<1>1. Cardinality(I) \in Nat
  BY FS_CardinalityType
<1>2. f \in [I -> T] /\ \A i, j \in I : f[i] = f[j] => i = j
  <2>1. f \in [I -> T]
    BY BeforeFacts
  <2>2. \A i, j \in I : i < j => f[i] < f[j]
    BY BeforeFacts
  <2>3. \A i, j \in I : i < j \/ j < i \/ i = j
    OBVIOUS
  <2>4. \A i \in I : f[i] \in Nat
    BY <1>1, <2>1
  <2> HIDE DEF f
  <2> QED
    BY <2>1, <2>2, <2>3, <2>4
<1>3. f \in Injection(I, T)
  <2> HIDE DEF f, T
  <2> QED
    BY <1>2 DEF Injection, IsInjective
<1>4. IsFiniteSet(T) /\ Cardinality(T) = Cardinality(I)
  <2>1. IsFiniteSet(T) /\ Cardinality(T) = IF 0 > Cardinality(I) - 1 THEN 0 ELSE (Cardinality(I) - 1) - 0 + 1
    BY <1>1, FS_Interval, 0 \in Int, Cardinality(I) - 1 \in Int
  <2> QED
    BY <1>1, <2>1
<1>5. f \in Surjection(I, T)
  <2> HIDE DEF f, T
  <2> QED
    BY <1>3, <1>4, FS_Injection
<1>6. k - 1 \in T
  BY <1>1
<1>7. PICK i \in I : f[i] = k - 1
  <2> HIDE DEF f, T
  <2> QED
    BY <1>5, <1>6 DEF Surjection
<1>8. \A j \in I : Cardinality(Before(I, j)) = k - 1 <=> j = i
  BY <1>2, <1>7
<1>9. Nth(I, k) = i
  BY <1>8 DEF Nth, Before
<1> QED
  BY <1>8, <1>9

\* A greater number is the last one.
LEMMA NthMore ==
  ASSUME NEW I \in SUBSET Nat, IsFiniteSet(I), NEW x \in Nat, \A i \in I : i < x
  PROVE  /\ Cardinality(I) \in Nat /\ Cardinality(I \cup {x}) = Cardinality(I) + 1
         /\ \A k \in 1 .. Cardinality(I) : Nth(I, k) \in I /\ Nth(I \cup {x}, k) = Nth(I, k)
         /\ Nth(I \cup {x}, Cardinality(I) + 1) = x
<1> DEFINE J == I \cup {x}
<1>1. x \notin I /\ J \in SUBSET Nat /\ I \subseteq J /\ x \in J
  OBVIOUS
<1>2. /\ Cardinality(I) \in Nat /\ IsFiniteSet(J)
      /\ Cardinality(J) = Cardinality(I) + 1
  BY <1>1, FS_AddElement, FS_CardinalityType
<1>3. Before(J, x) = I /\ \A i \in I : Before(J, i) = Before(I, i)
  <2>1. /\ \A i \in I : ~(x < i) /\ i < x
        /\ ~(x < x)
    OBVIOUS
  <2>2. Before(J, x) = I
    BY <2>1 DEF Before
  <2>3. \A i \in I : Before(J, i) = Before(I, i)
    BY <2>1 DEF Before
  <2> QED
    BY <2>2, <2>3
<1> HIDE DEF J
<1>4. ASSUME NEW k \in 1 .. Cardinality(I)
      PROVE  Nth(I, k) \in I /\ Nth(J, k) = Nth(I, k)
  <2>1. Nth(I, k) \in I /\ Cardinality(Before(I, Nth(I, k))) = k - 1
    BY NthFacts
  <2>2. k \in 1 .. Cardinality(J)
    BY <1>2
  <2>3. Nth(I, k) \in J /\ Cardinality(Before(J, Nth(I, k))) = k - 1
    BY <1>1, <1>3, <2>1
  <2> QED
    BY <1>1, <1>2, <2>1, <2>2, <2>3, NthFacts
<1>5. Nth(J, Cardinality(I) + 1) = x
  <2>1. Cardinality(I) + 1 \in 1 .. Cardinality(J) /\ (Cardinality(I) + 1) - 1 = Cardinality(I)
    BY <1>2
  <2> QED
    BY <1>1, <1>2, <1>3, <2>1, NthFacts
<1> QED
  BY <1>2, <1>4, <1>5 DEF J

\* A new result is shown last, as a result of its search.
LEMMA ShownMore ==
  ASSUME Searches, NEW r \in [search : SearchId, file : File], results' = Append(results, r),
         NEW s
  PROVE  /\ Shown(s) \in Seq(File)
         /\ Shown(s)' = IF r.search = s THEN Append(Shown(s), r.file) ELSE Shown(s)
<1> DEFINE I == PlacesOf(s)
           n == Len(results)
<1>1. /\ n \in Nat /\ Len(results') = n + 1 /\ results'[n + 1] = r
      /\ \A i \in 1 .. n : results'[i] = results[i] /\ results[i].file \in File
  <2> DEFINE R == [search : SearchId, file : File]
  <2>1. \A x \in R : x.file \in File
    OBVIOUS
  <2>2. results \in Seq(R) /\ r \in R
    BY DEF Searches
  <2>3. results' = Append(results, r)
    OBVIOUS
  <2> HIDE DEF R
  <2>4. \A i \in 1 .. n : results[i] \in R
    BY <2>2
  <2> QED
    BY <2>1, <2>2, <2>3, <2>4
<1>2. I \in SUBSET Nat /\ IsFiniteSet(I) /\ \A i \in I : i \in 1 .. n
  <2>1. IsFiniteSet(1 .. n)
    BY <1>1, FS_Interval, 1 \in Int, n \in Int
  <2>2. I \in SUBSET (1 .. n)
    BY DEF PlacesOf
  <2>3. n \in Nat
    BY <1>1
  <2> HIDE DEF I, n
  <2>4. IsFiniteSet(I)
    BY <2>1, <2>2, FS_Subset
  <2>5. \A i \in I : i \in 1 .. n /\ i \in Nat
    BY <2>2, <2>3
  <2> QED
    BY <2>4, <2>5
<1>3. PlacesOf(s)' = IF r.search = s THEN I \cup {n + 1} ELSE I
  <2>1. \A i \in 1 .. n + 1 : i \in 1 .. n \/ i = n + 1
    BY <1>1
  <2> QED
    BY <1>1, <2>1 DEF PlacesOf
<1>4. /\ Cardinality(I) \in Nat /\ Cardinality(I \cup {n + 1}) = Cardinality(I) + 1
      /\ \A k \in 1 .. Cardinality(I) : Nth(I, k) \in I /\ Nth(I \cup {n + 1}, k) = Nth(I, k)
      /\ Nth(I \cup {n + 1}, Cardinality(I) + 1) = n + 1
  <2>1. n + 1 \in Nat /\ \A i \in I : i < n + 1
    BY <1>1, <1>2
  <2> HIDE DEF I, n
  <2> QED
    BY <1>2, <2>1, NthMore
<1> HIDE DEF I, n
<1>5. Shown(s) = [k \in 1 .. Cardinality(I) |-> results[Nth(I, k)].file]
  BY DEF Shown, I
<1>6. Shown(s) \in Seq(File)
  <2>1. \A k \in 1 .. Cardinality(I) : results[Nth(I, k)].file \in File
    BY <1>1, <1>2, <1>4
  <2> QED
    BY <1>4, <1>5, <2>1
<1>7. ASSUME r.search = s PROVE Shown(s)' = Append(Shown(s), r.file)
  <2>1. Shown(s)' = [k \in 1 .. Cardinality(I) + 1 |-> results'[Nth(I \cup {n + 1}, k)].file]
    BY <1>3, <1>4, <1>7 DEF Shown
  <2>2. Append(Shown(s), r.file) =
          [k \in 1 .. Cardinality(I) + 1 |-> IF k <= Cardinality(I) THEN results[Nth(I, k)].file ELSE r.file]
    BY <1>4, <1>5, <1>6
  <2>3. ASSUME NEW k \in 1 .. Cardinality(I) + 1
        PROVE  results'[Nth(I \cup {n + 1}, k)].file =
                 IF k <= Cardinality(I) THEN results[Nth(I, k)].file ELSE r.file
    <3>1. k \in 1 .. Cardinality(I) \/ k = Cardinality(I) + 1
      BY <1>4
    <3>2. CASE k \in 1 .. Cardinality(I)
      <4>1. Nth(I, k) \in I /\ Nth(I \cup {n + 1}, k) = Nth(I, k)
        BY <1>4, <3>2
      <4>2. Nth(I, k) \in 1 .. n
        BY <1>2, <4>1
      <4>3. results'[Nth(I, k)] = results[Nth(I, k)]
        BY <1>1, <4>2
      <4>4. k <= Cardinality(I)
        BY <1>4, <3>2
      <4> QED
        BY <4>1, <4>3, <4>4
    <3>3. CASE k = Cardinality(I) + 1
      BY <1>1, <1>4, <3>3
    <3> QED
      BY <3>1, <3>2, <3>3
  <2> QED
    BY <2>1, <2>2, <2>3
<1>8. ASSUME r.search # s PROVE Shown(s)' = Shown(s)
  <2>1. Shown(s)' = [k \in 1 .. Cardinality(I) |-> results'[Nth(I, k)].file]
    BY <1>3, <1>8 DEF Shown
  <2>2. \A k \in 1 .. Cardinality(I) : results'[Nth(I, k)] = results[Nth(I, k)]
    BY <1>1, <1>2, <1>4
  <2> QED
    BY <1>5, <2>1, <2>2
<1> QED
  BY <1>6, <1>7, <1>8

LEMMA ShownTyped == ASSUME Searches, NEW s PROVE Shown(s) \in Seq(File)
<1> DEFINE I == PlacesOf(s)
           n == Len(results)
<1>1. n \in Nat /\ \A i \in 1 .. n : results[i].file \in File
  <2> DEFINE R == [search : SearchId, file : File]
  <2>1. (\A x \in R : x.file \in File) /\ results \in Seq(R)
    BY DEF Searches
  <2> HIDE DEF R
  <2> QED
    BY <2>1
<1>2. I \in SUBSET (1 .. n) /\ I \in SUBSET Nat
  BY <1>1 DEF PlacesOf
<1>3. IsFiniteSet(I)
  <2>1. IsFiniteSet(1 .. n)
    BY <1>1, FS_Interval, 1 \in Int, n \in Int
  <2> HIDE DEF I, n
  <2> QED
    BY <1>2, <2>1, FS_Subset
<1> HIDE DEF I, n
<1>4. Cardinality(I) \in Nat /\ \A k \in 1 .. Cardinality(I) : Nth(I, k) \in 1 .. n
  BY <1>2, <1>3, NthFacts, FS_CardinalityType
<1>5. \A k \in 1 .. Cardinality(I) : results[Nth(I, k)].file \in File
  BY <1>1, <1>4
<1> QED
  BY <1>4, <1>5 DEF Shown, I

LEMMA MovedHead ==
  ASSUME NEW S, NEW a \in Seq(S), NEW b \in Seq(S), b # <<>>
  PROVE  Append(a, Head(b)) \o Tail(b) = a \o b
<1>1. Head(b) \in S /\ Tail(b) \in Seq(S) /\ b = Append(<<>>, Head(b)) \o Tail(b)
  BY HeadTailProperties
<1>2. Append(a, Head(b)) = a \o <<Head(b)>> /\ Append(<<>>, Head(b)) = <<Head(b)>>
  BY <1>1, AppendIsConcat
<1>3. <<Head(b)>> \in Seq(S)
  BY <1>1
<1>4. (a \o <<Head(b)>>) \o Tail(b) = a \o (<<Head(b)>> \o Tail(b))
  BY <1>1, <1>3, ConcatAssociative
<1> QED
  BY <1>1, <1>2, <1>4

LEMMA AppendedLast ==
  ASSUME NEW S, NEW a \in Seq(S), NEW b \in Seq(S), NEW x \in S
  PROVE  a \o Append(b, x) = Append(a \o b, x)
<1>1. <<x>> \in Seq(S) /\ a \o b \in Seq(S)
  BY ConcatProperties
<1>2. Append(b, x) = b \o <<x>> /\ Append(a \o b, x) = (a \o b) \o <<x>>
  BY <1>1, AppendIsConcat
<1> QED
  BY <1>1, <1>2, ConcatAssociative

\* What an old search has in its channel is the rest of what it had when it
\* was stopped.
Rest(s) ==
  \E n \in 0 .. Len(stranded[s]) : queue[s] = SubSeq(stranded[s], n + 1, Len(stranded[s]))

\* The files reported of s are, in order, in the page, the channel and the go
\* blocks.
ResultsOf(s) == Shown(s) \o queue[s] \o posted[s] = reported[s]

\* As OldResultsStranded, of one search.
Stranded(s) ==
  \E n \in 0 .. Len(stranded[s]) :
    Shown(s) \o queue[s] = SubSeq(stranded[s], n + 1, Len(stranded[s]))

\* The inductive invariant.
SearchInv ==
  /\ Searches
  /\ \A s \in SearchId :
       s > latest => reported[s] = <<>> /\ posted[s] = <<>> /\ queue[s] = <<>>
  /\ \A s \in SearchId \ {active} : Rest(s)
  /\ \A s \in SearchId : s = active => ResultsOf(s)
  /\ \A s \in 1 .. latest - 1 : Stranded(s)

LEMMA SearchIds ==
  ASSUME Searches
  PROVE  /\ \A s \in SearchId : s \in 1 .. MaxSearches
         /\ \A s \in 1 .. latest - 1 : s \in SearchId /\ s # active
         /\ active # 0 => active = latest /\ active \in SearchId
         /\ latest \in Nat
BY BoundAssumption DEF Searches, SearchId

LEMMA ShownNone ==
  ASSUME results' = <<>>, NEW s PROVE Shown(s)' = <<>>
<1>1. PlacesOf(s)' = {}
  BY DEF PlacesOf
<1>2. Cardinality(PlacesOf(s)') = 0
  BY <1>1, FS_EmptySet
<1> QED
  BY <1>2 DEF Shown

\* Rest speaks of the channel only.
LEMMA RestWhenClosed ==
  ASSUME Searches, Close, UNCHANGED queue, NEW s \in SearchId, s # active => Rest(s)
  PROVE  Rest(s)'
<1>1. queue[s] \in Seq(File) /\ stranded[s] \in Seq(File)
  BY DEF Searches
<1>2. CASE s = active
  <2>1. stranded'[s] = queue[s] /\ queue'[s] = queue[s]
    BY <1>2 DEF Close
  <2>2. queue[s] = SubSeq(queue[s], 0 + 1, Len(queue[s])) /\ 0 \in 0 .. Len(queue[s])
    BY <1>1, SubSeqFull
  <2> QED
    BY <2>1, <2>2 DEF Rest
<1>3. CASE s # active
  <2>1. stranded'[s] = stranded[s] /\ queue'[s] = queue[s]
    BY <1>3 DEF Close
  <2> QED
    BY <1>3, <2>1 DEF Rest
<1> QED
  BY <1>2, <1>3

LEMMA StartSearchKeepsResults ==
  ASSUME SearchInv, Searches', StartSearch PROVE SearchInv'
<1>1. /\ active' = latest' /\ latest' = latest + 1 /\ latest' \in SearchId /\ latest \in Nat
      /\ UNCHANGED <<reported, posted, queue>> /\ results' = <<>> /\ Close
  BY BoundAssumption DEF SearchInv, Searches, StartSearch, SearchId
<1>2. \A s \in SearchId : s # active => Rest(s)
  BY DEF SearchInv
<1>3. \A s \in SearchId : Rest(s)'
  BY <1>1, <1>2, RestWhenClosed DEF SearchInv
<1>4. \A s \in SearchId : s > latest => reported[s] = <<>> /\ posted[s] = <<>> /\ queue[s] = <<>>
  BY DEF SearchInv
<1>5. \A s \in SearchId :
        s > latest' => reported'[s] = <<>> /\ posted'[s] = <<>> /\ queue'[s] = <<>>
  <2>1. \A s \in SearchId : s > latest + 1 => s > latest
    BY <1>1 DEF SearchId
  <2> QED
    BY <1>1, <1>4, <2>1
<1>6. ASSUME NEW s \in SearchId, s = active' PROVE ResultsOf(s)'
  <2>1. reported'[s] = <<>> /\ posted'[s] = <<>> /\ queue'[s] = <<>>
    BY <1>1, <1>4, <1>6
  <2>2. Shown(s)' = <<>>
    BY <1>1, ShownNone
  <2>3. <<>> \o <<>> \o <<>> = <<>>
    OBVIOUS
  <2> QED
    BY <2>1, <2>2, <2>3 DEF ResultsOf
<1>7. ASSUME NEW s \in SearchId PROVE Stranded(s)'
  <2>1. Shown(s)' = <<>>
    BY <1>1, ShownNone
  <2>2. queue'[s] \in Seq(File)
    BY <1>1 DEF SearchInv, Searches
  <2>3. Shown(s)' \o queue'[s] = queue'[s]
    BY <2>1, <2>2, ConcatEmptySeq
  <2> QED
    BY <1>3, <2>3 DEF Rest, Stranded
<1>8. \A s \in 1 .. latest' - 1 : s \in SearchId
  BY <1>1, BoundAssumption DEF SearchId
<1> QED
  BY <1>3, <1>5, <1>6, <1>7, <1>8 DEF SearchInv

\* A step that changes no list that is shown and no channel of an old search.
LEMMA OldOnesKept ==
  ASSUME SearchInv, NEW s \in SearchId, s # active,
         UNCHANGED results, stranded'[s] = stranded[s], queue'[s] = queue[s]
  PROVE  /\ Rest(s)'
         /\ Stranded(s) => Stranded(s)'
         /\ Shown(s)' = Shown(s)
<1>1. Shown(s)' = Shown(s)
  BY DEF Shown, PlacesOf
<1>2. Rest(s)
  BY DEF SearchInv
<1> QED
  BY <1>1, <1>2 DEF Rest, Stranded

LEMMA StopSearchKeepsResults ==
  ASSUME SearchInv, Searches', StopSearch PROVE SearchInv'
<1>1. /\ active' = 0 /\ active # 0 /\ Close
      /\ UNCHANGED <<latest, reported, posted, queue, results>>
  BY DEF StopSearch, pageVars
<1>2. \A s \in SearchId : Rest(s)'
  <2>1. \A s \in SearchId : s # active => Rest(s)
    BY DEF SearchInv
  <2> QED
    BY <1>1, <2>1, RestWhenClosed DEF SearchInv
<1>3. ASSUME NEW s \in 1 .. latest - 1 PROVE Stranded(s)'
  <2>1. s \in SearchId /\ s # active
    BY SearchIds DEF SearchInv
  <2>2. stranded'[s] = stranded[s] /\ queue'[s] = queue[s]
    BY <1>1, <2>1 DEF Close
  <2>3. Stranded(s)
    BY DEF SearchInv
  <2> QED
    BY <1>1, <2>1, <2>2, <2>3, OldOnesKept
<1>4. \A s \in SearchId : s # active' /\ (s > latest' => s > latest)
  BY <1>1 DEF SearchId
<1> QED
  BY <1>1, <1>2, <1>3, <1>4 DEF SearchInv

LEMMA ReportKeepsResults ==
  ASSUME SearchInv, Searches', NEW f \in File, Report(f) PROVE SearchInv'
<1>1. /\ active # 0 /\ active \in SearchId /\ active = latest /\ latest \in Nat
      /\ UNCHANGED <<latest, active, queue, stranded, results>>
      /\ reported' = [reported EXCEPT ![active] = Append(@, f)]
      /\ posted' = [posted EXCEPT ![active] = Append(@, f)]
  BY SearchIds DEF SearchInv, Report, pageVars
<1>2. \A s : Shown(s)' = Shown(s)
  BY <1>1 DEF Shown, PlacesOf
<1>3. \A s \in SearchId : Rest(s) <=> Rest(s)'
  BY <1>1 DEF Rest
<1>4. \A s \in SearchId : Stranded(s) <=> Stranded(s)'
  BY <1>1, <1>2 DEF Stranded
<1>5. /\ reported'[active] = Append(reported[active], f)
      /\ posted'[active] = Append(posted[active], f)
      /\ \A s \in SearchId \ {active} : reported'[s] = reported[s] /\ posted'[s] = posted[s]
  BY <1>1 DEF SearchInv, Searches
<1>6. ASSUME NEW a \in SearchId, a = active PROVE ResultsOf(a)'
  <2>1. Shown(a) \in Seq(File) /\ queue[a] \in Seq(File) /\ posted[a] \in Seq(File)
    BY ShownTyped DEF SearchInv, Searches
  <2>2. Shown(a) \o queue[a] \in Seq(File)
    BY <2>1, ConcatProperties
  <2>3. ResultsOf(a)
    BY <1>6 DEF SearchInv
  <2>4. Shown(a) \o queue[a] \o Append(posted[a], f) = Append(Shown(a) \o queue[a] \o posted[a], f)
    <3> DEFINE x == Shown(a) \o queue[a]
    <3>1. x \in Seq(File)
      BY <2>2
    <3> HIDE DEF x
    <3>2. x \o Append(posted[a], f) = Append(x \o posted[a], f)
      BY <2>1, <3>1, AppendedLast
    <3> QED
      BY <3>2 DEF x
  <2>5. reported'[a] = Append(reported[a], f) /\ posted'[a] = Append(posted[a], f) /\ queue'[a] = queue[a]
    BY <1>1, <1>5, <1>6
  <2> QED
    BY <1>2, <2>3, <2>4, <2>5 DEF ResultsOf
<1>7. \A s \in SearchId : s > latest => s # active
  BY <1>1, SearchIds DEF SearchInv
<1>8. \A s \in 1 .. latest - 1 : s \in SearchId
  BY SearchIds DEF SearchInv
<1> QED
  BY <1>1, <1>3, <1>4, <1>5, <1>6, <1>7, <1>8 DEF SearchInv

LEMMA PutKeepsResults ==
  ASSUME SearchInv, Searches', NEW s \in SearchId, Put(s) PROVE SearchInv'
<1>1. /\ posted[s] # <<>> /\ posted[s] \in Seq(File) /\ queue[s] \in Seq(File)
      /\ UNCHANGED <<latest, active, reported, stranded, results>>
      /\ posted'[s] = Tail(posted[s])
      /\ queue'[s] = IF s = active THEN Append(queue[s], Head(posted[s])) ELSE queue[s]
      /\ \A t \in SearchId \ {s} : posted'[t] = posted[t] /\ queue'[t] = queue[t]
  BY DEF SearchInv, Searches, Put, Accepts, pageVars
<1>2. \A t : Shown(t)' = Shown(t)
  BY <1>1 DEF Shown, PlacesOf
<1>3. \A t \in SearchId \ {active} : queue'[t] = queue[t]
  BY <1>1
<1>4. \A t \in SearchId \ {active} : Rest(t) <=> Rest(t)'
  BY <1>1, <1>3 DEF Rest
<1>5. \A t \in SearchId \ {active} : Stranded(t) <=> Stranded(t)'
  BY <1>1, <1>2, <1>3 DEF Stranded
<1>6. ASSUME NEW a \in SearchId, a = active PROVE ResultsOf(a)'
  <2>1. ResultsOf(a)
    BY <1>6 DEF SearchInv
  <2>2. Shown(a) \in Seq(File)
    BY ShownTyped DEF SearchInv
  <2>3. CASE s = a
    <3>1. Head(posted[s]) \in File /\ Tail(posted[s]) \in Seq(File)
      BY <1>1, HeadTailProperties
    <3>2. Shown(s) \o queue[s] \in Seq(File)
      BY <1>1, <2>2, <2>3, ConcatProperties
    <3>3. Shown(s) \o Append(queue[s], Head(posted[s]))
            = Append(Shown(s) \o queue[s], Head(posted[s]))
      BY <1>1, <2>2, <2>3, <3>1, AppendedLast
    <3>4. Append(Shown(s) \o queue[s], Head(posted[s])) \o Tail(posted[s])
            = (Shown(s) \o queue[s]) \o posted[s]
      BY <1>1, <3>2, MovedHead
    <3> QED
      BY <1>1, <1>2, <1>6, <2>1, <2>3, <3>3, <3>4 DEF ResultsOf
  <2>4. CASE s # a
    BY <1>1, <1>2, <2>1, <2>4 DEF ResultsOf
  <2> QED
    BY <2>3, <2>4
<1>7. \A t \in SearchId : t > latest => reported'[t] = <<>> /\ posted'[t] = <<>> /\ queue'[t] = <<>>
  <2>1. \A t \in SearchId :
          t > latest => reported[t] = <<>> /\ posted[t] = <<>> /\ queue[t] = <<>> /\ t # s
    BY <1>1 DEF SearchInv
  <2> QED
    BY <1>1, <2>1
<1>8. \A t \in 1 .. latest - 1 : t \in SearchId \ {active}
  BY SearchIds DEF SearchInv
<1> QED
  BY <1>1, <1>4, <1>5, <1>6, <1>7, <1>8 DEF SearchInv

LEMMA TakeResultKeepsResults ==
  ASSUME SearchInv, Searches', NEW s \in SearchId, TakeResult(s) PROVE SearchInv'
<1>1. /\ queue[s] # <<>> /\ queue[s] \in Seq(File) /\ posted[s] \in Seq(File)
      /\ UNCHANGED <<latest, active, reported, posted, stranded>>
      /\ results' = Append(results, [search |-> s, file |-> Head(queue[s])])
      /\ queue'[s] = Tail(queue[s])
      /\ \A t \in SearchId \ {s} : queue'[t] = queue[t]
  BY DEF SearchInv, Searches, TakeResult
<1>2. Head(queue[s]) \in File /\ Tail(queue[s]) \in Seq(File)
  BY <1>1, HeadTailProperties
<1>3. ASSUME NEW t
      PROVE  /\ Shown(t) \in Seq(File)
             /\ Shown(t)' = IF s = t THEN Append(Shown(t), Head(queue[s])) ELSE Shown(t)
  <2>1. [search |-> s, file |-> Head(queue[s])] \in [search : SearchId, file : File]
    BY <1>2
  <2> QED
    BY <1>1, <2>1, ShownMore DEF SearchInv
<1>4. \A t \in SearchId : Shown(t)' \o queue'[t] = Shown(t) \o queue[t]
  <2>1. Append(Shown(s), Head(queue[s])) \o Tail(queue[s]) = Shown(s) \o queue[s]
    BY <1>1, <1>3, MovedHead
  <2> QED
    BY <1>1, <1>3, <2>1
<1>5. \A t \in SearchId : Stranded(t) <=> Stranded(t)'
  BY <1>1, <1>4 DEF Stranded
<1>6. ASSUME NEW a \in SearchId, a = active PROVE ResultsOf(a)'
  <2>1. ResultsOf(a)
    BY <1>6 DEF SearchInv
  <2> QED
    BY <1>1, <1>4, <2>1 DEF ResultsOf
<1>7. ASSUME NEW t \in SearchId \ {active} PROVE Rest(t)'
  <2>1. Rest(t)
    BY DEF SearchInv
  <2>2. CASE t # s
    BY <1>1, <2>1, <2>2 DEF Rest
  <2>3. CASE t = s
    <3> DEFINE o == stranded[s]
    <3>1. PICK n \in 0 .. Len(o) : queue[s] = SubSeq(o, n + 1, Len(o))
      BY <2>1, <2>3 DEF Rest
    <3>2. o \in Seq(File)
      BY DEF SearchInv, Searches
    <3>3. n + 1 \in 0 .. Len(o) /\ Tail(queue[s]) = SubSeq(o, (n + 1) + 1, Len(o))
      <4> HIDE DEF o
      <4>1. n + 1 <= Len(o)
        BY <1>1, <3>1, <3>2, SubSeqEmpty
      <4>2. Tail(SubSeq(o, n + 1, Len(o))) = SubSeq(o, (n + 1) + 1, Len(o))
        BY <3>2, <4>1, n + 1 \in 1 .. Len(o), Len(o) \in n + 1 .. Len(o), HeadTailOfSubSeq
      <4> QED
        BY <3>1, <3>2, <4>1, <4>2
    <3> QED
      BY <1>1, <2>3, <3>3 DEF Rest
  <2> QED
    BY <2>2, <2>3
<1>8. \A t \in SearchId : t > latest => reported'[t] = <<>> /\ posted'[t] = <<>> /\ queue'[t] = <<>>
  <2>1. \A t \in SearchId :
          t > latest => reported[t] = <<>> /\ posted[t] = <<>> /\ queue[t] = <<>> /\ t # s
    BY <1>1 DEF SearchInv
  <2> QED
    BY <1>1, <2>1
<1>9. \A t \in 1 .. latest - 1 : t \in SearchId
  BY SearchIds DEF SearchInv
<1> QED
  BY <1>1, <1>5, <1>6, <1>7, <1>8, <1>9 DEF SearchInv

LEMMA QuietForSearches ==
  ASSUME SearchInv, UNCHANGED <<searchVars, results>>, Searches' PROVE SearchInv'
<1>1. \A s : Shown(s)' = Shown(s)
  BY DEF Shown, PlacesOf
<1>2. \A s : (Rest(s) <=> Rest(s)') /\ (ResultsOf(s) <=> ResultsOf(s)') /\ (Stranded(s) <=> Stranded(s)')
  BY <1>1 DEF Rest, ResultsOf, Stranded, searchVars
<1> QED
  BY <1>2 DEF SearchInv, searchVars

LEMMA ResultsKept == SearchInv /\ [Next]_vars => SearchInv'
<1> SUFFICES ASSUME SearchInv, [Next]_vars PROVE SearchInv'
  OBVIOUS
<1>1. Searches'
  BY SearchesKept DEF SearchInv
<1>2. CASE UNCHANGED <<searchVars, results>>
  BY <1>1, <1>2, QuietForSearches
<1>3. ASSUME NEW d, NEW r, StartDownload(d, r) PROVE UNCHANGED <<searchVars, results>>
  BY <1>3 DEF StartDownload, pageVars
<1>4. ASSUME NEW d, NEW e, DownloadEvent(d, e) PROVE UNCHANGED <<searchVars, results>>
  BY <1>4 DEF DownloadEvent, pageVars
<1>5. ASSUME NEW d, TakeEvent(d) PROVE UNCHANGED <<searchVars, results>>
  BY <1>5 DEF TakeEvent
<1>6. ASSUME OpenDatabase \/ Succeed \/ Fail \/ UNCHANGED vars
      PROVE  UNCHANGED <<searchVars, results>>
  BY <1>6 DEF OpenDatabase, Succeed, Fail, vars, pageVars
<1> QED
  BY <1>1, <1>2, <1>3, <1>4, <1>5, <1>6, StartSearchKeepsResults, StopSearchKeepsResults,
     ReportKeepsResults, PutKeepsResults, TakeResultKeepsResults DEF Next

LEMMA NoResultsAtFirst == Init /\ Searches => SearchInv
<1> SUFFICES ASSUME Init, Searches PROVE SearchInv
  OBVIOUS
<1>1. \A s \in SearchId : /\ reported[s] = <<>> /\ posted[s] = <<>> /\ queue[s] = <<>>
                          /\ stranded[s] = <<>>
  BY DEF Init
<1>2. \A s \in SearchId : Rest(s)
  <2>1. SubSeq(<<>>, 0 + 1, Len(<<>>)) = <<>> /\ 0 \in 0 .. Len(<<>>)
    BY SubSeqEmpty
  <2> QED
    BY <1>1, <2>1 DEF Rest
<1>3. 1 .. latest - 1 = {} /\ \A s \in SearchId : s # active
  BY DEF Init, SearchId
<1> QED
  BY <1>1, <1>2, <1>3 DEF SearchInv

LEMMA PageResults == PageSpec => []SearchInv
<1>1. PageInit => SearchInv
  BY SearchesAtFirst, NoResultsAtFirst DEF PageInit
<1>2. [PageNext]_pageWide => [Next]_vars
  BY Zenon DEF PageNext, Monitored, pageWide
<1>3. SearchInv /\ [PageNext]_pageWide => SearchInv'
  BY <1>2, ResultsKept
<1> QED
  BY <1>1, <1>3, PTL DEF PageSpec

\* The page shows, or will show, all that was reported of the active search, in
\* order, although the list is emptied when a search starts and the channel of
\* the one before is still being read.
THEOREM PageActiveResultsKept == PageSpec => []ActiveResultsKept
<1>1. SearchInv => ActiveResultsKept
  BY SearchIds DEF SearchInv, ResultsOf, ActiveResultsKept
<1> QED
  BY <1>1, PageResults, PTL

\* Of a search that a newer one has replaced, the page shows at most what was in
\* its channel when it was stopped.
THEOREM PageOldResultsStranded == PageSpec => []OldResultsStranded
<1>1. SearchInv => OldResultsStranded
  BY DEF SearchInv, Stranded, OldResultsStranded
<1> QED
  BY <1>1, PageResults, PTL
=============================================================================
