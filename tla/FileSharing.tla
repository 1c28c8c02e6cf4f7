----------------------------- MODULE FileSharing -----------------------------
(***************************************************************************)
(* Searches and downloads of the page (filesharing.cljs, index.cljs.hl)    *)
(* and the files downloads are kept in (filestorage.cljs).                 *)
(*                                                                         *)
(* The file sharing library calls back with events; a go block puts each   *)
(* of them into the channel of its search or download, from which a loop   *)
(* takes them.  Each result has a row in the page, with cells for the      *)
(* state and the object of a download; rows are used again.                *)
(*                                                                         *)
(* From outside: the library reports a file once per search, and for a     *)
(* download the start, then each block once and in any order, then the     *)
(* completion.  IndexedDB runs the read-write transactions on one store    *)
(* one after another, in the order they were made.  Events that change     *)
(* nothing but a progress bar are left out, and a channel never has the    *)
(* 1024 pending puts at which it refuses more.                             *)
(***************************************************************************)
EXTENDS Naturals, Sequences, FiniteSets

CONSTANTS
  File,          \* files that searches find
  Download,      \* bound: downloads that are ever started
  MaxSearches,   \* bound: searches that are ever started
  Blocks,        \* the number of blocks of a file
  None           \* nil

ASSUME NoneAssumption == None \notin Download \cup File \cup Seq(0 .. Blocks)
ASSUME FileAssumption == IsFiniteSet(File)
ASSUME BoundAssumption == MaxSearches \in Nat /\ Blocks \in Nat

VARIABLES
  latest,     \* the number of searches that were started
  active,     \* active-search, or 0
  reported,   \* history: per search, the files the library has reported
  posted,     \* per search: events whose go block has not run
  queue,      \* per search: events in the channel, or about to be handled
  stranded,   \* history: per search, the queue when it was stopped
  results,    \* search-results
  cells,      \* per row: download-state and download-object
  opened,     \* filestorage's db is set
  loop,       \* per download: what its loop waits for
  target,     \* per download: its row
  sent,       \* per download: events of the library so far
  events,     \* per download: events in its channel
  store,      \* the object store: per download, the blob of its handle
  requests,   \* transactions in the order they were made
  failed      \* history: the requests that failed

searchVars == <<latest, active, reported, posted, queue, stranded>>
pageVars == <<results, cells>>
downloadVars == <<loop, target, sent, events>>
storeVars == <<opened, store, requests, failed>>
vars == <<searchVars, pageVars, downloadVars, storeVars>>

SearchId == 1 .. MaxSearches
Row == 1 .. MaxSearches * Cardinality(File)

\* The events of a download: 0 is :download-start, a block :download-progress,
\* the last :download-completed.
Start == 0
Completed == Blocks + 1

Idle == [state |-> "inactive", object |-> None]

Init ==
  /\ latest = 0
  /\ active = 0
  /\ reported = [s \in SearchId |-> <<>>]
  /\ posted = [s \in SearchId |-> <<>>]
  /\ queue = [s \in SearchId |-> <<>>]
  /\ stranded = [s \in SearchId |-> <<>>]
  /\ results = <<>>
  /\ cells = [r \in Row |-> Idle]
  /\ opened = FALSE
  /\ loop = [d \in Download |-> "none"]
  /\ target = [d \in Download |-> None]
  /\ sent = [d \in Download |-> {}]
  /\ events = [d \in Download |-> <<>>]
  /\ store = [d \in Download |-> None]
  /\ requests = <<>>
  /\ failed = {}

-----------------------------------------------------------------------------
(* Searches.                                                               *)

\* stop-search: the channel of the active search, if there is one, is closed.
Close == stranded' = [s \in SearchId |-> IF s = active THEN queue[s] ELSE stranded[s]]

\* The new search is started before the old one is stopped; the rows that had
\* a result have none now, and their cells are reset.
StartSearch ==
  /\ latest < MaxSearches
  /\ latest' = latest + 1
  /\ active' = latest + 1
  /\ Close
  /\ results' = <<>>
  /\ cells' = [r \in Row |-> IF r <= Len(results) THEN Idle ELSE cells[r]]
  /\ UNCHANGED <<reported, posted, queue, downloadVars, storeVars>>

StopSearch ==
  /\ active # 0
  /\ active' = 0
  /\ Close
  /\ UNCHANGED <<latest, reported, posted, queue, pageVars, downloadVars, storeVars>>

\* The library knows the active search only.
Report(f) ==
  /\ active # 0
  /\ \A i \in 1 .. Len(reported[active]) : reported[active][i] # f
  /\ reported' = [reported EXCEPT ![active] = Append(@, f)]
  /\ posted' = [posted EXCEPT ![active] = Append(@, f)]
  /\ UNCHANGED <<latest, active, queue, stranded, pageVars, downloadVars, storeVars>>

AcceptsOne(s) == s = active /\ queue[s] = <<>>
AcceptsAlways(s) == TRUE

\* A put into a closed channel is dropped, a put that has to wait is not.
Accepts(s) == s = active

Put(s) ==
  /\ posted[s] # <<>>
  /\ posted' = [posted EXCEPT ![s] = Tail(@)]
  /\ queue' = [queue EXCEPT ![s] = IF Accepts(s) THEN Append(@, Head(posted[s])) ELSE @]
  /\ UNCHANGED <<latest, active, reported, stranded, pageVars, downloadVars, storeVars>>

\* The loop goes on until the channel is closed and empty.
TakeResult(s) ==
  /\ queue[s] # <<>>
  /\ queue' = [queue EXCEPT ![s] = Tail(@)]
  /\ results' = Append(results, [search |-> s, file |-> Head(queue[s])])
  /\ UNCHANGED <<latest, active, reported, posted, stranded, cells, downloadVars, storeVars>>

-----------------------------------------------------------------------------
(* Downloads.                                                              *)

RequestOf(kind, d, b) == [kind |-> kind, download |-> d, block |-> b]
Request(kind, d, b) == requests' = Append(requests, RequestOf(kind, d, b))

\* The user starts a download from row r.  The library has started it when
\* file/create throws because there is no database.
StartDownload(d, r) ==
  /\ loop[d] = "none"
  /\ r \in 1 .. Len(results)
  /\ target' = [target EXCEPT ![d] = r]
  /\ IF opened
     THEN /\ loop' = [loop EXCEPT ![d] = "create"]
          /\ Request("create", d, 0)
     ELSE /\ loop' = [loop EXCEPT ![d] = "dead"]
          /\ UNCHANGED requests
  /\ UNCHANGED <<searchVars, pageVars, sent, events, opened, store, failed>>

\* The library calls back; nothing but the loop waits for the go block's put.
DownloadEvent(d, e) ==
  /\ loop[d] # "none"
  /\ e \notin sent[d]
  /\ e # Start => Start \in sent[d]
  /\ e = Completed => 1 .. Blocks \subseteq sent[d]
  /\ sent' = [sent EXCEPT ![d] = @ \cup {e}]
  /\ events' = [events EXCEPT ![d] = Append(@, e)]
  /\ UNCHANGED <<searchVars, pageVars, loop, target, storeVars>>

\* One turn of the loop.  Without a handle (create has failed) the calls of
\* filestorage throw and the loop is gone.
TakeEvent(d) ==
  /\ loop[d] = "event"
  /\ events[d] # <<>>
  /\ events' = [events EXCEPT ![d] = Tail(@)]
  /\ LET e == Head(events[d])
     IN  \/ /\ e = Start
            /\ cells' = [cells EXCEPT ![target[d]].state = "downloading"]
            /\ UNCHANGED <<loop, requests>>
         \/ /\ e \in 1 .. Blocks
            /\ store[d] # None
            /\ Request("write", d, e)
            /\ UNCHANGED <<loop, cells>>
         \/ /\ e = Completed
            /\ store[d] # None
            /\ Request("url", d, 0)
            /\ loop' = [loop EXCEPT ![d] = "url"]
            /\ UNCHANGED cells
         \/ /\ e # Start
            /\ store[d] = None
            /\ loop' = [loop EXCEPT ![d] = "dead"]
            /\ UNCHANGED <<cells, requests>>
  /\ UNCHANGED <<searchVars, results, target, sent, opened, store, failed>>

-----------------------------------------------------------------------------
(* File storage.                                                           *)

OpenDatabase ==
  /\ ~opened
  /\ opened' = TRUE
  /\ UNCHANGED <<searchVars, pageVars, downloadVars, store, requests, failed>>

Header(blob, b) == SubSeq(blob, 1, IF b - 1 < Len(blob) THEN b - 1 ELSE Len(blob))

NoFill(blob, b) == <<>>

\* Zeros from the end of the header to the offset.
Fill(blob, b) == [i \in 1 .. (b - 1) - Len(Header(blob, b)) |-> 0]

Trailer(blob, b) == SubSeq(blob, b + 1, Len(blob))

\* The blob after block b was written to its place.
Written(blob, b) == Header(blob, b) \o Fill(blob, b) \o <<b>> \o Trailer(blob, b)

StaysInCreate == "create"

\* The loop has got the handle from the channel of file/create.
AfterCreate == "event"

\* The first transaction succeeds, and what waits for it goes on.
Succeed ==
  LET q == Head(requests)
      d == q.download
  IN  /\ requests # <<>>
      /\ requests' = Tail(requests)
      /\ \/ /\ q.kind = "create"
            /\ store' = [store EXCEPT ![d] = <<>>]
            /\ loop' = [loop EXCEPT ![d] = AfterCreate]
            /\ UNCHANGED cells
         \/ /\ q.kind = "write"
            /\ store' = [store EXCEPT ![d] = Written(@, q.block)]
            /\ UNCHANGED <<loop, cells>>
         \/ /\ q.kind = "url"
            /\ cells' = [cells EXCEPT ![target[d]] =
                           [state |-> "complete", object |-> [of |-> d, blob |-> store[d]]]]
            /\ loop' = [loop EXCEPT ![d] = "event"]
            /\ UNCHANGED store
      /\ UNCHANGED <<searchVars, results, target, sent, events, opened, failed>>

\* The first transaction fails: file/create closes its channel, the other two
\* only write to the console.
Fail ==
  LET q == Head(requests)
      d == q.download
  IN  /\ requests # <<>>
      /\ requests' = Tail(requests)
      /\ failed' = failed \cup {q}
      /\ loop' = [loop EXCEPT ![d] = IF q.kind = "create" THEN AfterCreate ELSE @]
      /\ UNCHANGED <<searchVars, pageVars, target, sent, events, opened, store>>

-----------------------------------------------------------------------------

Next ==
  \/ StartSearch \/ StopSearch
  \/ \E f \in File : Report(f)
  \/ \E s \in SearchId : Put(s) \/ TakeResult(s)
  \/ \E d \in Download :
       \/ \E r \in Row : StartDownload(d, r)
       \/ \E e \in Start .. Completed : DownloadEvent(d, e)
       \/ TakeEvent(d)
  \/ OpenDatabase \/ Succeed \/ Fail

\* The loops of downloads are run and transactions come to an end.
Fairness ==
  /\ \A d \in Download : WF_vars(TakeEvent(d))
  /\ WF_vars(Succeed \/ Fail)

Spec == Init /\ [][Next]_vars
FairSpec == Spec /\ Fairness

-----------------------------------------------------------------------------
(* Properties.                                                             *)

Blob == {b \in Seq(0 .. Blocks) : Len(b) <= Blocks}
Object == [of : Download, blob : Blob]
Requests == [kind : {"create", "write", "url"}, download : Download, block : 0 .. Blocks]

\* Every variable has its type; a file never grows longer than its blocks.
TypeOK ==
  /\ latest \in 0 .. MaxSearches /\ active \in {0, latest}
  /\ reported \in [SearchId -> Seq(File)] /\ posted \in [SearchId -> Seq(File)]
  /\ queue \in [SearchId -> Seq(File)] /\ stranded \in [SearchId -> Seq(File)]
  /\ results \in Seq([search : SearchId, file : File])
  /\ DOMAIN cells = Row
  /\ \A r \in Row : /\ cells[r].state \in {"inactive", "downloading", "complete"}
                    /\ cells[r].object = None \/ cells[r].object \in Object
  /\ opened \in BOOLEAN
  /\ loop \in [Download -> {"none", "create", "event", "url", "dead"}]
  /\ target \in [Download -> Row \cup {None}]
  /\ sent \in [Download -> SUBSET (Start .. Completed)]
  /\ events \in [Download -> Seq(Start .. Completed)]
  /\ DOMAIN store = Download
  /\ \A d \in Download : store[d] = None \/ store[d] \in Blob
  /\ requests \in Seq(Requests) /\ failed \subseteq Requests

\* The k-th smallest of the numbers in I.
Nth(I, k) == CHOOSE i \in I : Cardinality({j \in I : j < i}) = k - 1

\* The places of the results of search s in search-results.
PlacesOf(s) == {i \in 1 .. Len(results) : results[i].search = s}

\* The files that the page shows as results of search s.
Shown(s) ==
  [k \in 1 .. Cardinality(PlacesOf(s)) |-> results[Nth(PlacesOf(s), k)].file]

\* The page shows, or will show, all that was reported of the active search, in
\* the order it was reported: clearing the list for a new search loses nothing.
ActiveResultsKept ==
  active # 0 => Shown(active) \o queue[active] \o posted[active] = reported[active]

\* Of a search that a newer one has replaced, the page shows at most what was
\* in the channel when it was stopped.
OldResultsStranded ==
  \A s \in 1 .. latest - 1 :
    \E n \in 0 .. Len(stranded[s]) :
      Shown(s) \o queue[s] = SubSeq(stranded[s], n + 1, Len(stranded[s]))

HasFailed(kind, d, b) == RequestOf(kind, d, b) \in failed

\* An object that is offered is of a file that was created, and has every block
\* in its place whose write has not failed, whatever the order they came in: it
\* is the whole file unless a write failed.
ObjectWhole ==
  \A r \in Row :
    cells[r].object # None =>
      LET d == cells[r].object.of
          blob == cells[r].object.blob
      IN  /\ ~HasFailed("create", d, 0)
          /\ Len(blob) <= Blocks
          /\ \A b \in 1 .. Blocks :
               HasFailed("write", d, b) \/ (b \in 1 .. Len(blob) /\ blob[b] = b)

\* The library has completed the download, and the page has yet to offer it.
Completing(d) == loop[d] = "url" \/ \E i \in 1 .. Len(events[d]) : events[d][i] = Completed

\* A download that the library has completed is offered in its row, whatever
\* writes have failed, unless it has no file (there was no database or it could
\* not be created) or the request for the object fails.
DownloadEnds ==
  \A d \in Download :
    Completing(d) ~>
      \/ loop[d] = "dead" /\ store[d] = None
      \/ HasFailed("url", d, 0)
      \/ /\ target[d] # None
         /\ cells[target[d]].state = "complete"
         /\ cells[target[d]].object.of = d
=============================================================================
