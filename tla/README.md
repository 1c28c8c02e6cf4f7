# A verification project for gnunet-web

gnunet-web compiles the GNUnet daemons with emscripten and runs each of them in
a SharedWorker of the browser; a ClojureScript page is the user interface and
the switchboard between the workers.  This directory holds TLA+ models of the
parts of it that decide, concurrently, what happens next, the TLC
configurations that check them, and TLAPS proofs.  `PROJECT.json` lists the
components, the runs, the mutants each property is tried on, the lines every
definition stands for, the findings, the hazards and the theorems.

Paths: `F/` is `src/gnunet-build/packages/gnunet/gnunet/files/`, `C/` is
`src/src/cljs/`, `H/` is `src/src/hl/`.

## 1. Inventory

| component | state | operations | talks to | what is hard | what makes it correct |
|---|---|---|---|---|---|
| Event loop of a worker: `F/network.js`, `F/scheduler.js`, the 'connect' half of `F/pre.js` | `SOCKETS` (queue, port, task), `SOCKETS.incoming`, `SOCKETS.listening`, `SCHEDULER_TASKS`, the browser's timers | socket create, connect, bind, listen, accept, recv, send, close; add delayed, read and write task, cancel; the timer and port callbacks | other workers over MessagePorts, the C code above | two ways into a read handler; two tables that name each other; messages cut by reads | a task runs once, no wake-up is lost, a connection is a byte stream |
| Switchboard: `F/pre.js`, `C/gnunet_web/service.cljs` | per tab `services`, `private-key`; per worker `windows`, run dependencies, `/private_key`, random bytes; localStorage | start a worker, route a connection, 'init', 'connect', 'client_connect'; tabs open and close | every worker and tab | any number of tabs and workers, started and ended in any order | one identity, key before use, each connection arrives once |
| Datastore plugin: `F/plugin_datastore_emscripten.c`, `..._int.js`, `F/datastore-pre.js` | IndexedDB store with four indexes | put, get_key, get_zero_anonymity, get_replication, get_expiration, get_keys, remove_key | the datastore service, IndexedDB | open transactions, failing requests, a full disk, death of the worker | whole operations, one true answer per call |
| Peerstore plugin: `F/plugin_peerstore_emscripten.c`, `..._int.js`, `F/peerstore-pre.js` | IndexedDB store with five indexes | store, iterate, expire | the peerstore service, IndexedDB | the same | the same |
| HTTP client transport: `F/plugin_transport_http_client_emscripten.c`, `..._int.js` | sessions, XMLHttpRequests, `cur_connections`, timeouts, receive delay, the monitor | get_session, send, disconnect, receive, timeouts, monitor, unload | the transport service, an HTTP server | six ways to end a session, requests that come back later | sessions, requests, tasks, counter and monitor agree |
| File sharing in the page: `C/gnunet_web/filesharing.cljs`, `H/index.cljs.hl`, `F/client-lib.c`, the tree encoder in `F/gnunet-git-e8533c-all.patch` | active search, results, rows, channels; the form's state and URI, FileReaders, the encoder's `in_next` and offset | start and stop a search, download, publish | the file sharing library, the user | callbacks, channels and loops in between; a reader that answers later | results of the right search, whole files, blocks in order |
| Files of the page: `C/amatus/filestorage.cljs` | IndexedDB store of blobs | create, write, create-object-url | downloads | writes in any order | the blob is the file |
| Peer monitors of the page: `H/index.cljs.hl`, `C/gnunet_web/{core,transport}.cljs` | table of peers | two streams of events | transport and core service | the streams overtake one another | the table shows the peers there are, the count those that are connected |
| WebRTC transport: `F/plugin_transport_webrtc.c`, `..._int.js`, `C/gnunet_web/webrtc.cljs` | sessions by peer, `CONNECTIONS`, RTCPeerConnections of the first tab, CADET channels | get_session, connect, offer, answer, monitor | transport service, CADET, a tab | two handshakes that cross, numbers that name a connection, a tab that closes, lost messages | an answer meets the offer it was made for, once |
| Plugin loader, configuration, call bridge | tables | load, look up | all | - | - |
| Message codecs: `C/gnunet_web/{parser,encoder,message,hello,...}.cljs` | none | parse, encode, merge HELLOs | the page | formats | round trips, merging |

A worker, a tab and a plugin each run one callback at a time to its end; all
concurrency is between callbacks, and between workers.

## 2. Modules

| module | what it is | run by |
|---|---|---|
| `Stream` | what a socket promises: a byte stream per connection | refined by `Network` |
| `Network` | sockets and tasks of one worker | `MCNetwork`: NetworkCore |
| `NetworkProofs` | theorems about `Network`, and that it implements `Stream` | |
| `Broker` | tabs, workers and what they post to one another | `MCBroker`: BrokerTabs, BrokerTwoTabs, BrokerFirstTabCloses |
| `BrokerProofs` | theorems about `Broker` | |
| `Worker` | `Broker` and `Network` composed: one service from the page's request to its bytes | Worker |
| `WorkerProofs` | theorems about `Worker`, and that it implements `Broker` and `Stream` | |
| `Store` | what the datastore plugin promises | refined by `Datastore` |
| `Datastore` | its calls as IndexedDB transactions | `MCDatastore`: DatastoreCalls |
| `DatastoreProofs` | theorems about `Datastore`, and that it implements `Store` | |
| `Records` | what the peerstore plugin promises | refined by `Peerstore` |
| `Peerstore` | its calls as IndexedDB transactions | `MCPeerstore`: PeerstoreCalls, PeerstoreBySubsystem |
| `PeerstoreProofs` | theorems about `Peerstore`, and that it implements `Records` | |
| `HttpClient` | sessions of the HTTP client transport | `MCHttpClient`: HttpSessions, HttpContinuation |
| `HttpProofs` | theorems about `HttpClient` | |
| `WebRtc` | handshakes of the WebRTC transport between several peers | WebRtc |
| `WebRtcProofs` | theorems about `WebRtc` | |
| `FileSharing` | searches, downloads and the files they are kept in | SearchAndDownload, in `Page` |
| `Publication` | publications: the form, the encoder, the FileReaders | SearchAndDownload, in `Page` |
| `Peers` | the table of peers and the two monitors that feed it | SearchAndDownload, in `Page` |
| `Page` | the three of them in one tab | SearchAndDownload |
| `PageProofs` | theorems about `Page` and its three parts | |

In each module a definition that begins a bug and is used by no action
(`RegisteredAlways`, `NoFill`, `NewestSession`, ...) is the mutated form of the
definition after it; PROJECT.json pairs them with the property that tells them
apart.  A module's type invariant is a theorem where a proof module exists;
elsewhere `TypeOK` states the types of the variables for the reader.

### Network
One worker.  `running` is TRUE while a callback executes; the calls of the C
code (Socket..., Add..., Cancel) are enabled only then, the browser's events
(Deliver, DeliverConnect, Fire...) only when it is FALSE, so an event is never
seen in the middle of a callback, but any sequence of calls may be made in one.
`status`, `port`, `queue` and `task` are the fields of `SOCKETS[d]`;
`SCHEDULER_TASKS` keeps its name; `timers` are the setTimeouts to come and
`closure` what they captured.  The other end of a port is the environment
(Remote...): it calls the same `socket_send` and `socket_close` in its own worker.
Bytes are numbered, so that a message is an interval and loss, duplication and
order show.  `Disciplined` is the caller's side of the contract: cancel a
socket's read task before closing it, and one read task at a time.
RunsAtMostOnce and the streams are proved without it; TablesAgree and
NoLostWakeup need it.  Calls that fail and change nothing are stuttering steps.
Every port carries the stream of `Stream` (ImplementsStream).

### Broker
`services[t]` is the atom of service.cljs, `windows[s]` the ports of a worker in
the order of their index, `toWorker` and `toWindow` what is posted and not yet
delivered, `runDependencies` emscripten's counter.  ClientConnect models
client-connect with the start-worker it may call: 'init' before the port.  A
worker that no open tab has started dies (CloseTab) and everything it had is
gone; what a closed tab posted is still delivered, what is posted to it is lost.
`raced` is a history: the tabs that found no stored key while another one that had
found none was still making its own, which service.cljs admits ("This has no
synchronization!").  OneIdentity says how far that goes: two workers have different
keys only if both are keys of tabs that have raced.

### Worker
`Worker` instantiates `Broker` with one service and no daemon, extends `Network` with
the callers' discipline, and joins the two where the code does: a 'connect' that
the switchboard delivers (`GetConnect`) is the event loop's `DeliverConnect` in one step
(get_message of pre.js); no message of the switchboard is handled while a callback
of the event loop runs; the last run dependency calls main(), which is where the C code
starts; and the death of the worker (CloseTab) empties the event loop.  `todo`
is what the running callback of the C code is still to call: the
service loop of GNUnet's utility library, external here, of which the model keeps
that it listens, accepts all or one of the waiting connections, reads,
and closes at the end of file.  The ends of the ports that `Network` leaves to its
environment are the page's clients.  A worker that has died and been
started again shows its own connections only (AcceptsInOrder).

### Datastore and Peerstore
`db` is what is committed, `draft` what the running transaction sees.  Two
transactions whose scopes overlap run in the order they were made (`Runs`), a
failing request or a full disk aborts the transaction (`Fail`,
`CannotCommit`, in both), and `Crash` ends the worker: `draft` is lost, `db` stays.
Both plugins call back when their requests have succeeded and do not wait for the
commit, so that on a full disk they have told of a success that is taken back
(`ToldInVain`).  StatusIsTrue of Datastore and AnsweredOnce of Peerstore say
that this happens no more often than the disk was full at a commit (`full`), and that
a failure is told only of a transaction that was aborted; CountIsTrue, that the count
of an expire is that of the records its commit takes away, or else none goes.  A call (`Start`)
makes its transaction and the first request; each later request is an action of
its own (`stage`), which is where failures and other calls come in between.
`reply` is what was called back.  `Careful` (Datastore) is the caller's promise
to pass `absent` only for a key that is not just being put.  `Abstract` is
`Store`/`Records` with `db`: every commit is one whole operation.

### HttpClient
One action per entry of the plugin and per event of an XMLHttpRequest.
`status`, `get`, `task` and `timeout` are the session's, `connections` is
`cur_connections`, `seen` what the monitor was told, `via`/`cont` a message sent
and its continuation.  Disconnect models `client_delete_session` for one or
many sessions.  Time is counted in ticks by the action Tick, which a session's
due timeout does not hold up; `silent` is the history that the timeout is
compared with.

### WebRtc
Several peers, each a worker with its plugin and, while it is open, the first
tab that holds its RTCPeerConnections.  A session is named by the CADET
channel it was made for and its role; `sessions[p][q]` are the values under one
key of the multipeermap, the newest first, since UNIQUE_FAST looks for no other.
`connections[p]` is CONNECTIONS, whose index is the number that peer_connect
returns; each entry has the closure's session (`cls`), the state of the RTCPeerConnection
and the two directions of its MessagePort.  `rtc` is rtc_peer_connection.  The
tab works in three steps, between which anything may come: it reads the
request (WindowConnects), the promises settle (WindowDescribes), the answer
arrives (WindowAnswered).  A promise may be rejected instead, for which the tab has
no handler (WindowRejects): nothing is posted, or the answer is not applied.  connect_cb's odd test is modelled as it stands: a peer
without a session gives the channel no context.  handle_offer then writes through
NULL, which changes nothing the plugin reads again; answer_cb then reads a
channel from the lowest addresses, which either sends nothing or aborts the
worker (`stopped`).

### FileSharing
An event of the library passes three places: a go block that has not run
(`posted`), the channel with its buffer and pending puts (`queue`, `events`),
the loop.  Closing a channel drops what is in the first and keeps what is in
the second.  `requests` are the IndexedDB transactions of filestorage in their
order; `Succeed` and `Fail` end the first one, and `failed` has those that failed.  A blob is a sequence of blocks,
0 for zeros; `Written` slices, fills and concatenates as `file/write` does.
`cells` are the cells of a row of the page, which are reset when the row's
result goes and are used again by the next search.  Whether the loop gets a
value in the same step as the transaction ends makes no difference to any other
actor, so these two are one step.

### Publication
The library asks the tree encoder for the next block (`asked`); at a block of
the file the encoder calls the reader, which starts a FileReader and returns
(NextBlock); the bytes come in Onload, which encrypts the block and so lets the
library ask again.  That continuation is this repository's change to GNUnet,
modelled from the patch.  `encrypted` is the history the properties are about.  All
publications share the one form.

### Peers
The services are external: transport leads a peer through its states and tells core
of connects and disconnects (`notices`), core exchanges and renews keys.  Each
monitor is a stream of its own, and one peer's events of one stream never wait for
those of the other.  `AfterTransport` and `AfterCore` are the two callbacks on the
cell `peers`; a core event for a peer that is not in the table is dropped.
`overtook` is a history: the last core event reached the page before a transport
event that was sent earlier.

### Page
`Page` extends `FileSharing` and instantiates the other two.  They share the tab
and nothing else, so that a behaviour is one of a user who searches and
downloads, one of publications, or one of the peers: no step of one can be told
by another, and interleaving them would only multiply the states.

## 3. Runs and bounds

| run | checks | bounds and why they suffice |
|---|---|---|
| NetworkCore | RunsAtMostOnce, NoLostWakeup, HandlerHasWork, ImplementsStream | two descriptors, two task ids, two ports, two bytes each: a listening socket with an accepted one, two tasks racing, messages of one and of two bytes cut by reads of one; for all sizes see the proofs |
| BrokerTabs | ConnectionOnce, KeyBeforeUse, OneIdentity, RandomBytesOnce, Connected | two tabs, a daemon and a service, two connections, one dependency: a second tab joins, the first leaves, a worker dies and comes again |
| BrokerTwoTabs | MainAfterDependencies, violated | as BrokerTabs |
| BrokerFirstTabCloses | DoToAnyWindow, violated | as BrokerTabs |
| Worker | AcceptsInOrder, RequestServed | two tabs, one service, one dependency, two connections of which one sends a byte and closes, three descriptors and six timers for each life of the worker: connections before main(), before listen, between accept and read, over a death and a new life |
| DatastoreCalls | NoDuplicates, AnsweredOnce, StatusIsTrue, NothingMissed, Answered, ImplementsStore | two overlapping calls of any kind, up to two items before, one failing request, one full disk, one crash |
| PeerstoreCalls | AnsweredOnce, IterateComplete, CountIsTrue, ImplementsRecords, CallsEnd | two overlapping calls, up to two records before, one failing request, one full disk, one crash |
| PeerstoreBySubsystem | IterateComplete, violated | iterate without peer and key |
| HttpSessions | SessionsCounted, OpenAlive, MonitorAgrees, EndsOnlyIdle, IdleEnds | three addresses of two peers, three sessions, room for two, a timeout of two ticks, one message |
| HttpContinuation | ContinuedBeforeEnd, violated | as HttpSessions |
| WebRtc | AnswerMatchesOffer, AnswersAwaited, HandshakeEnds | two peers that both call get_session, so that the two handshakes cross; one message lost or one promise rejected; either first tab may close at any time |
| SearchAndDownload | of FileSharing: ActiveResultsKept, OldResultsStranded, ObjectWhole, DownloadEnds; of Publication: EncodesInOrder, WaitsForReadOnly; of Peers: TableFollowsTransport, CountedIsConnected, UncountedWasOvertaken, RekeyRepairs | two searches that find two files, one download of two blocks; two publications of two blocks; one peer (peers do not interact) with six changes of its transport state and four events of a stream on their way: it connects, leaves and connects again before core's events of the first time have arrived |

Deadlock is not checked: in every model the system may stop (no caller calls
any more, ids and other bounded resources are used up).

Two calls at once are enough for the plugins because a transaction of IndexedDB
sees only what was committed before it; a third call adds no other pair of
neighbours.  Two tabs are enough to race for the key (OneIdentity); that the damage stays with the
tabs that raced when there are more is proved (SameIdentity).  Two peers are enough for WebRtc because a handshake touches the
state of its two peers only, and AnswerMatchesOffer is proved for any number.
Bounds that stand for nothing in the code are marked "bound:" where the constant
is declared.

Fairness is weak everywhere, and only on what the browser owes: that a callback
of C code returns, that timers fire, messages and events are delivered, requests
of IndexedDB end, the loops of downloads run, promises settle, time passes.  `Worker` asks for
less still: the worker does something while it can, in whatever order (WF of
Step), which suffices because each of its events takes work away.  In WebRtc a
CADET channel connects and delivers what it does not lose; in Peers core handles
the notices of transport.  No caller, user, peer or remote server is obliged to do
anything; RekeyRepairs states what follows if core does go on renewing keys.

## 4. What the code does otherwise than it says

Four runs end in a violation; each is a finding with its counterexample.

* **BrokerTwoTabs**: every 'init' removes one run dependency, though
  'window-init' was added once; the second tab's 'init' takes the place of
  'syncfs', and main() starts before the file system is loaded.
* **BrokerFirstTabCloses**: do_to_window always takes the oldest port; after
  that tab was closed every connection a worker asks for is lost.
* **PeerstoreBySubsystem**: iterate with neither peer nor key finds nothing.
* **HttpContinuation**: a session ends before the continuations of its messages
  are called.

Seen while modelling, in the models as the code has it, without a run of its own:

* put of the datastore sets no onerror on its cursor: if that request fails the
  call is never answered (Answered excepts it).
* put and remove of the datastore, and store and expire of the peerstore, report
  success or a count when their requests succeed; on a full disk the commit fails
  afterwards and nothing of it is kept (StatusIsTrue and AnsweredOnce bound how
  often).
* get_key without a key ignores next_uid and its order is that of the store;
  in get_zero_anonymity a type of 0 selects the items of type 0, where in get_key
  it selects any.
* iterate with a peer and no key asks for the index `by_peer`, which is called
  `by_pid`: it throws (stage "thrown", for CallsEnd one of the ends of a call).  It also reports the wrong sub system
  and expiry.
* get_keys of the datastore passes the pair [key, uid] that the index holds, not the key.
* A response that arrives while receiving is throttled is dropped.
* In the page, a download whose file cannot be created ends its loop at its first
  block, and its row stays as it is; ObjectWhole says that nothing is offered of it,
  DownloadEnds excepts it.  A write that fails is told to nobody, and the file is
  offered without the block; ObjectWhole says that only such blocks are missing.
* A download that was started from a row goes on writing to the
  row's cells after a new search has reused the row: the new result then offers
  the old file.  Results of a stopped search that were in its channel appear in
  the list of the new one (OldResultsStranded says how many at most).
* A publication expires after 2 * 356.24 days.
* A read that fails leaves its publication waiting for ever: the reader has no
  onerror, although the interface says of the return value "GNUNET_SYSERR if cont
  will not be called, GNUNET_OK otherwise" (`F/gnunet-git-e8533c-all.patch:771`).
* The handshake of a WebRTC session whose first tab is closed or whose promise is
  rejected stays half done: there is no timeout and no retry (HandshakeEnds excepts
  both).
* A connected peer is not counted when core's event overtook transport's, until its
  keys are renewed (UncountedWasOvertaken, RekeyRepairs).
* connect_cb of the WebRTC plugin refuses peers without a session and makes a
  second one, under the same key, for peers that have one.  The documentation of
  setup_monitor says it tells the monitor of the active sessions; the loop that would is
  under `#if 0`.  get_session is documented to return a session if the address is
  valid; its first call for a peer returns NULL.

## 5. Proofs

All theorems hold for every value of the constants that satisfies the named
ASSUMEs; TLC evaluates these in the runs.

* **NetworkProofs**: TypeCorrect, TaskRunsAtMostOnce, TimersStayArmed,
  SocketAndTaskTablesAgree, WakeupNotLost, HandlersHaveWork.  The invariant is
  `TypeOK /\ TaskInv /\ WakeupInv`.  RunsAtMostOnce is not inductive alone: that
  a timer does not run a task a second time needs that a delayed task is registered
  as long as it has a timer, and that `socket.task` was registered for that very socket
  (`TaskLinks`).  Then ConnectionNotSharedNorLost, StreamStaysIntact, EofComesLast,
  and NetworkImplementsStream, the refinement of `Stream`.  `StreamLinks` says
  what the queues may hold; lemmas state what taking, cutting and appending do
  to a sequence of contiguous messages.
* **BrokerProofs**: TypeCorrect, KeyIsThere, BytesGivenOnce, SameIdentity,
  ConnectionIsOnce.
  KeyBeforeUse needs to know why the counter cannot reach zero without an
  'init': as long as a worker has no key its counter is one more than the
  dependencies that are pending (`WorkersOK`), and each open tab that has
  started it still has an 'init' to deliver, at the head of its queue (`QueuesOK`).
  BytesGivenOnce adds that a tab posts one 'init' to a worker in its life
  (`RandomOK`), SameIdentity that the keys that are in use, or made but not stored
  yet, are one or all of tabs that have raced, and that none is in use before one is
  stored (`InUse`, `IdentityOK`).  ConnectionIsOnce is about positions: a connection
  is at one place of one queue, or has arrived once (`OnePlace`), a place outside the
  queues to windows is of the service asked for, and one taken from the head of a
  queue moves the places behind it by one (`PlaceKept`).
* **WorkerProofs**: WorkerImplementsBroker, by which KeyIsThere and ConnectionIsOnce hold
  of the composition; ServiceAcceptsInOrder, ServiceCallsSucceed and ServiceRunsWithKey;
  and, over any number of deaths of the worker, WorkerConnectionsUnique,
  WorkerStreamsIntact, WorkerHandlersHaveWork and WorkerImplementsStream.  A step of the
  composition is one of the event loop, or main() is called, or the worker dies
  (`LoopStep`): the invariant of `Network` is kept by the first because the C code
  makes only calls that can be made, and by a death because the ends of all ports that
  were in use are closed with it.  `Calls` says what a callback has still to call:
  each of these calls stays possible while pages post and tabs come and go,
  which CallsSucceed, about the next call only, does not.  AcceptsInOrder
  speaks of descriptors in the order of their numbers; `Numbered` adds that those in use
  are the first n and that all but the first were accepted, so that the next one
  comes last.  `MainFirst` is why main() finds no descriptor in use.
* **DatastoreProofs**: TypeCorrect, DatastoreImplementsStore, ItemsUnique,
  CalledBackOnce, StatusTrue, NullIsTrue, for any calls, any stores that are found
  and any number of failures, full disks and deaths of the worker.
  `StoreInv` says that a call that has read or
  written something has the first transaction (`Underway`), so that it runs alone, and
  that the draft is the committed store, that store with the one operation of this
  call (`Inserted`, `Changed`), or, between the two requests of a put, with its empty
  object (`Drafted`); without such a call nothing is drafted.  TypeCorrect and the
  refinement follow: what a commit makes of the store is one operation of `Store`.
  `UniqueInv` adds for ItemsUnique that what is about to be added is not stored
  (`Adds`), and that no put before a put with `absent` has its key (`KeyAwaited`),
  which needs that the transactions that stay keep their order (`OrderKept`).
  `AllGiven` says for each stage of a call what it has been called back with;
  StatusTrue adds that every success in vain has had a full disk of its own
  (`InVain`): a request that fails is told (`FailuresTold`), and a commit that fails adds
  one.  That
  the cursor stops at a first record at all (`FirstMatch`), and that for get_replication
  it is the one with most left to do, comes from the well-foundedness of the naturals.
* **PeerstoreProofs**: TypeCorrect, PeerstoreImplementsRecords, CalledBackOnce,
  CountTrue and IteratesComplete, for any calls, any records that are found and any
  number of failures, full disks and deaths.  Here a call takes many steps, one for every stop of
  its cursor, so that the invariant `StoreInv` is about all of them: a call that is
  underway runs, it has stopped at records its cursor has to stop at, at all of them
  once the cursor is at its end, and the draft is the committed records without those
  (`Done`).  That another call never disturbs this comes from the order of the
  transactions (`RunsStill`, `RunsAlone`).  `Answers` adds what each call has called
  back with; that a count is a status at all needs that there are no more records
  than ids (`FewRecords`), and CalledBackOnce that the successes in vain are as many as
  the full disks (`InVain`).  IteratesComplete assumes that no iterate is by sub_system
  alone: for those the run PeerstoreBySubsystem refutes it.
* **HttpProofs**: TypeCorrect, SessionsAreCounted, OpenSessionsAlive,
  MonitorKnowsSessions, TimeoutEndsOnlyIdle.  The type of `connections`, a
  bounded counter, is kept by the
  limit of get_session going up and, going down, because every open session is
  counted (SessionsCounted).
  `ClocksAgree` relates a session's timeout to its silence.
* **WebRtcProofs**: AnswersFindTheirOffer, AnswersWaitedFor, NumbersName and
  TypeCorrect, for any number of peers, of lost messages and of rejected promises.  `Handshakes` says of a
  handshake that its one offer and its one answer are each in one place: in the tab,
  posted to the worker, in the channel or at the other end.  Whether an answer may be
  in the channel depends on how far both connections of the channel are (`Unsent`,
  `Unheard`, `Unanswered`, `NothingBack`), so that the proof has, beside a step per
  action, frame lemmas: what a step that changes one connection (`Touches`) or makes
  one (`Adds`) leaves as it is.
* **PageProofs**: PublicationTyped, BlocksInOrder, OnlyReadsAreAwaited and
  OfferedUriIsWhole are about the publications alone, any number of them with any
  number of blocks.  `Encoder` says
  where a publication is: the block that is read is the next one, a
  publication that is asked reads nothing, one that is done is at the last
  position.  `Told` ties the page's form to it.  PeersTyped, TableIsTransports,
  NoneCountedWrongly and UncountedOvertaken are about the table of peers alone, any set
  of them with streams of any length.  A stream is
  empty or its last state is the service's own (`TransportStream`, `CoreStream`);
  what transport has said last to core is what transport has (`NoticesLead`); and if
  core's last event did not overtake, the entry has it and nothing on its way
  removes the entry (`InTime`).  PageEncodesInOrder, PageWaitsForReadOnly, PageTableFollowsTransport,
  PageCountedIsConnected and PageUncountedWasOvertaken carry the theorems of the
  parts over to the page: it runs their steps, and they share no state.
  PageObjectWhole, for files of any number of blocks that come in any order, and
  PageFilesTyped are about its downloads.  The invariant is `Files`: a block that
  has come is in the file, or its write has failed, or it is in the channel of its
  download or in a write that is among the transactions before any request for the
  object (`BlocksKept`); the completion is the last event (`EventsFit`), there is one request while the loop
  waits for file/create (`RequestsFit`), and none is made of a file that does not
  exist (`AllServed`).  `WrittenFacts` says what one write does to a blob: the block
  is at its place, and the others stay where they are.
  PageActiveResultsKept and PageOldResultsStranded are about its searches.  The
  invariant is `SearchInv`: the files reported of the active search are those in the
  list, in the channel and in the go blocks (`ResultsOf`); a search that is not active
  has in its channel the end of what was there when it was stopped (`Rest`), so that
  when the list is emptied for a new search what the old ones can still show is an
  end of it (`Stranded`); and nothing is known of a search that has not started.  The
  list of all results holds those of several searches: `NthFacts` says that the k-th
  place of one search is well defined, and `ShownMore` what a further result changes.

Checked by TLC only: liveness (the provers do not handle fairness and ENABLED):
Connected, Answered, CallsEnd, IdleEnds, DownloadEnds, RekeyRepairs, HandshakeEnds and
RequestServed.

## 6. Not modelled

* The GNUnet services, the file sharing library and the emscripten runtime: only
  gitlinks or downloads of the repository; how the code here uses them is the
  environment of the models.
* What the WebRTC plugin leaves empty: send, disconnect and the data channel.
* Progress bars, metadata, files of size 0.
* Codecs: parsing and encoding without state.
* Plugin loader, configuration, call bridge: sequential tables.
* The periodic syncfs (its overlap with the first is emscripten's matter), the
  upgrade of the datastore's database, durations of timers.

By lines, almost all of the repository's JavaScript is one vendored file: of the 23029
lines of its .js files 21430 are `src/src/js/semantic.js`, a library of widgets, and
224 the table of configuration values.  Of the rest, and of the C and ClojureScript
sources, the models cover what keeps state.

## 7. Plan

What is left, most important first:

1. HELLO merging as operators with a reference definition.
2. Two workers whose clients are each other, in place of the page's clients of
   `Worker`.
