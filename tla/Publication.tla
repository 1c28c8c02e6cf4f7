----------------------------- MODULE Publication -----------------------------
(***************************************************************************)
(* Publications of the page: the tree encoder of the file sharing library, *)
(* which this repository's patch makes wait for the bytes of a block, the  *)
(* reader that gets them from a FileReader (filesharing.cljs), and the     *)
(* form that shows the progress (index.cljs.hl), which is one for all.     *)
(*                                                                         *)
(* From outside: the library sends every encrypted block to the service    *)
(* and asks the encoder for the next when it was stored.  A file has at    *)
(* least one block; its blocks are followed by the inodes of the tree, of  *)
(* which one stands for all.                                               *)
(***************************************************************************)
EXTENDS Naturals, Sequences

CONSTANTS
  Publish,   \* bound: publications that are ever started
  Blocks,    \* the number of blocks of a file
  None

VARIABLES
  phase,      \* per publication: "none", "encoding", "done"
  inNext,     \* te->in_next
  asked,      \* the library is to ask the encoder for the next block
  position,   \* te->publish_offset: the block that is next
  reading,    \* the block a FileReader reads, or 0
  broken,     \* history: publications one of whose reads has failed
  encrypted,  \* history: the blocks that were encrypted
  registered, \* file-key is registered
  channel,    \* events in the channel
  form        \* publish-state and publish-uri

encoderVars == <<inNext, asked, position, reading, broken, encrypted>>
vars == <<phase, encoderVars, registered, channel, form>>

Inode == Blocks + 1

\* The tree is complete: chk_tree_depth = current_depth.
Depth == Blocks + 2

TypeOK ==
  /\ phase \in [Publish -> {"none", "encoding", "done"}]
  /\ inNext \in [Publish -> BOOLEAN] /\ asked \in [Publish -> BOOLEAN]
  /\ position \in [Publish -> 1 .. Depth]
  /\ reading \in [Publish -> 0 .. Blocks]
  /\ broken \subseteq Publish /\ registered \subseteq Publish
  /\ encrypted \in [Publish -> Seq(1 .. Inode)]
  /\ channel \in [Publish -> Seq({"start", "completed"})]
  /\ form \in [state : {"inactive", "active", "complete"}, uri : Publish \cup {None}]

Init ==
  /\ phase = [p \in Publish |-> "none"]
  /\ inNext = [p \in Publish |-> FALSE]
  /\ asked = [p \in Publish |-> FALSE]
  /\ position = [p \in Publish |-> 1]
  /\ reading = [p \in Publish |-> 0]
  /\ broken = {}
  /\ encrypted = [p \in Publish |-> <<>>]
  /\ registered = {}
  /\ channel = [p \in Publish |-> <<>>]
  /\ form = [state |-> "inactive", uri |-> None]

Happens(p, e) == channel' = [channel EXCEPT ![p] = Append(@, e)]

\* start-publish, and the library's first event.
StartPublish(p) ==
  /\ phase[p] = "none"
  /\ phase' = [phase EXCEPT ![p] = "encoding"]
  /\ asked' = [asked EXCEPT ![p] = TRUE]
  /\ registered' = registered \cup {p}
  /\ Happens(p, "start")
  /\ UNCHANGED <<inNext, position, reading, broken, encrypted, form>>

AskedAtOnce(p) == asked' = [asked EXCEPT ![p] = TRUE]

\* The library asks for a block; it asks again when this one was stored.
NotAsked(p) == asked' = [asked EXCEPT ![p] = FALSE]

PositionAfter(p) == [position EXCEPT ![p] = @ + 1]

ContNotCalled(p, b) == UNCHANGED <<encrypted, position, inNext, asked>>

\* encrypt_block of block b, whose proc sends it away.
Encrypt(p, b) ==
  /\ encrypted' = [encrypted EXCEPT ![p] = Append(@, b)]
  /\ position' = PositionAfter(p)
  /\ inNext' = [inNext EXCEPT ![p] = FALSE]
  /\ asked' = [asked EXCEPT ![p] = TRUE]

\* GNUNET_FS_tree_encoder_next at a block of the file: publish-reader-callback
\* starts a FileReader and returns.
NextBlock(p) ==
  /\ asked[p] /\ position[p] <= Blocks
  /\ NotAsked(p)
  /\ inNext' = [inNext EXCEPT ![p] = TRUE]
  /\ reading' = [reading EXCEPT ![p] = position[p]]
  /\ UNCHANGED <<phase, position, broken, encrypted, registered, channel, form>>

\* At an inode the block is at hand.
NextInode(p) ==
  /\ asked[p] /\ position[p] = Inode
  /\ Encrypt(p, Inode)
  /\ UNCHANGED <<phase, reading, broken, registered, channel, form>>

\* At the end the library calls the reader with size 0, which gives up the file,
\* and reports the completion.
NextDone(p) ==
  /\ asked[p] /\ position[p] = Depth
  /\ NotAsked(p)
  /\ phase' = [phase EXCEPT ![p] = "done"]
  /\ registered' = registered \ {p}
  /\ Happens(p, "completed")
  /\ UNCHANGED <<inNext, position, reading, broken, encrypted, form>>

\* onload: cont, which is encrypt_block, is called with the bytes.
Onload(p) ==
  /\ reading[p] # 0
  /\ reading' = [reading EXCEPT ![p] = 0]
  /\ Encrypt(p, reading[p])
  /\ UNCHANGED <<phase, broken, registered, channel, form>>

\* There is no onerror: nobody hears of a read that fails.
ReadFails(p) ==
  /\ reading[p] # 0
  /\ reading' = [reading EXCEPT ![p] = 0]
  /\ broken' = broken \cup {p}
  /\ UNCHANGED <<phase, inNext, asked, position, encrypted, registered, channel, form>>

\* The loop of start-publish.
TakeEvent(p) ==
  /\ channel[p] # <<>>
  /\ channel' = [channel EXCEPT ![p] = Tail(@)]
  /\ form' = IF Head(channel[p]) = "start"
             THEN [form EXCEPT !.state = "active"]
             ELSE [state |-> "complete", uri |-> p]
  /\ UNCHANGED <<phase, encoderVars, registered>>

Next ==
  \E p \in Publish :
    \/ StartPublish(p) \/ NextBlock(p) \/ NextInode(p) \/ NextDone(p)
    \/ Onload(p) \/ ReadFails(p) \/ TakeEvent(p)

Spec == Init /\ [][Next]_vars

---------------------------------------------------------------------------
(* Properties. *)

\* The encoder is never asked for a block while it waits for the bytes of another
\* (GNUNET_assert (GNUNET_NO == te->in_next)), and what it has encrypted is the file
\* from its first block on and then the inodes, each once and in order, although
\* reads of several publications end in any order.
EncodesInOrder ==
  \A p \in Publish :
    /\ asked[p] => ~inNext[p] /\ reading[p] = 0
    /\ encrypted[p] = [i \in 1 .. position[p] - 1 |-> i]

\* A publication waits for nothing but a FileReader that has its file, so that it goes
\* on unless the read fails; of a read that has failed nobody hears.
WaitsForReadOnly ==
  \A p \in Publish :
    phase[p] = "encoding" =>
      \/ asked[p]
      \/ reading[p] # 0 /\ p \in registered
      \/ p \in broken

\* The form offers the URI of a publication that was encoded as a whole, and the file
\* of such a publication is no longer held.
UriOfWhole ==
  form.uri # None =>
    /\ encrypted[form.uri] = [i \in 1 .. Inode |-> i]
    /\ form.uri \notin registered
=============================================================================
