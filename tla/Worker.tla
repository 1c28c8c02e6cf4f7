------------------------------- MODULE Worker -------------------------------
(***************************************************************************)
(* One GNUnet service from the page's request to the bytes it reads: the   *)
(* event loop of the service's worker (Network) and the switchboard        *)
(* (Broker), composed.  A 'connect' that the switchboard delivers is what  *)
(* extends the event loop's SOCKETS.incoming; every message and timer of   *)
(* the worker waits for the callback that runs; main() starts the C code;  *)
(* and the worker dies with its last tab, with all that the event loop     *)
(* holds.                                                                  *)
(*                                                                         *)
(* The C code is the GNUnet utility library's service loop, which is       *)
(* external: it listens, accepts what has come, reads what its clients     *)
(* send and closes a connection at its end.  The clients are pages.        *)
(***************************************************************************)
EXTENDS Network

CONSTANTS
  Tab, Dependency,  \* as in Broker
  Talker,           \* bound: the ports whose clients send and close
  Srv               \* the service

Service == {Srv}

\* NEXT_SOCKET and the ids of setTimeout count from one; bound: those of one life of
\* the worker.
ASSUME NumbersAssumption ==
  /\ IsFiniteSet(Desc) /\ Desc = 1 .. Cardinality(Desc)
  /\ IsFiniteSet(Timer) /\ Timer = 1 .. Cardinality(Timer)

\* See Handler and CCall.
ASSUME ServiceLoopAssumption == Disciplined

\* As in Broker.
ASSUME SwitchboardAssumption ==
  None \notin Tab \cup Service /\ "init" \notin Port /\ IsFiniteSet(Dependency)

VARIABLES
  \* of the switchboard
  tab, stored, privateKey, services, connecting, windows, toWorker, toWindow, pending,
  runDependencies, main, key, pool, to, arrivals, given, raced,
  arrived,   \* what it has put into SOCKETS.incoming
  \* of the C code
  todo,      \* the calls the running callback is still to make
  orphaned   \* history: ports whose worker has died

B == INSTANCE Broker WITH Conn <- Port, Daemon <- {}, Reader <- {}, PoolSize <- 0,
                          incoming <- arrived

brokerVars == <<tab, stored, privateKey, services, connecting, windows, toWorker,
                toWindow, pending, runDependencies, main, key, pool, to, arrivals, given,
                raced, arrived>>
loopVars == <<socketVars, listenVars, taskVars, portVars, readVars, runVars>>
workerVars == <<brokerVars, vars, todo, orphaned>>

CallOf(name, d) == [name |-> name, socket |-> d]

WorkerTypeOK ==
  /\ B!TypeOK
  /\ TypeOK
  /\ todo \in Seq([name : {"create", "bind", "listen", "accept", "recv", "read", "close"},
                   socket : Nat \cup {None}])
  /\ orphaned \in SUBSET Port

\* What the event loop has when a worker starts: main() is yet to be called.
Fresh ==
  /\ status = [d \in Desc |-> "unused"] /\ port = [d \in Desc |-> None]
  /\ queue = [d \in Desc |-> <<>>] /\ task = [d \in Desc |-> None]
  /\ listening = None /\ incoming = <<>>
  /\ SCHEDULER_TASKS = {} /\ closure = [id \in Timer |-> NoClosure] /\ timers = {}
  /\ running = FALSE
  /\ ran = [id \in Timer |-> 0] /\ cancelled = {}
  /\ todo = <<>>

WorkerInit ==
  /\ B!Init /\ Fresh
  /\ link = [p \in Port |-> "unused"] /\ wire = [p \in Port |-> <<>>]
  /\ sent = [p \in Port |-> 0] /\ hungup = [p \in Port |-> FALSE]
  /\ got = [p \in Port |-> 0] /\ eof = [p \in Port |-> FALSE]
  /\ orphaned = {}

---------------------------------------------------------------------------
(* The C code. *)

\* NEXT_SOCKET and the id setTimeout returns count up.
IsNextDesc(d) == status[d] = "unused" /\ \A e \in 1 .. d - 1 : status[e] # "unused"
IsNextTimer(id) ==
  closure[id] = NoClosure /\ \A j \in 1 .. id - 1 : closure[j] # NoClosure

\* main() of the service: socket, bind, listen, wait for connections.
Startup == <<CallOf("create", None), CallOf("bind", 1), CallOf("listen", 1), CallOf("read", 1)>>

\* The handler of a read task on socket d.
Handler(d) == IF d = listening THEN <<CallOf("accept", d)>> ELSE <<CallOf("recv", d)>>

Made == todo' = Tail(todo)

\* One call of the running callback.
CCall ==
  /\ todo # <<>>
  /\ LET d == Head(todo).socket IN
       \/ /\ Head(todo).name = "create"
          /\ \E e \in Desc : IsNextDesc(e) /\ SocketCreate(e)
          /\ Made
       \/ Head(todo).name = "bind" /\ SocketBind(d) /\ Made
       \/ Head(todo).name = "listen" /\ SocketListen(d) /\ Made
       \/ /\ Head(todo).name = "read"
          /\ \E id \in Timer : IsNextTimer(id) /\ AddReadNet(d, id)
          /\ Made
       \* Accept, wait for the client, and accept another or wait for the next.
       \/ /\ Head(todo).name = "accept"
          /\ \E e \in Desc :
               /\ IsNextDesc(e) /\ SocketAccept(d, e)
               /\ \/ incoming' # <<>> /\ todo' = <<CallOf("read", e), CallOf("accept", d)>>
                  \/ todo' = <<CallOf("read", e), CallOf("read", d)>>
       \* Read and wait for more; at the end of file the connection is closed.
       \/ /\ Head(todo).name = "recv"
          /\ \E n \in 1 .. MaxByte : SocketRecv(d, n)
          /\ todo' = <<CallOf(IF Head(queue[d]).close THEN "close" ELSE "read", d)>>
       \/ Head(todo).name = "close" /\ SocketClose(d) /\ Made
  /\ UNCHANGED <<brokerVars, orphaned>>

CReturn == todo = <<>> /\ Return /\ UNCHANGED <<brokerVars, todo, orphaned>>

\* A callback of the event loop was entered on socket d, or ends at once.
Entered(d) == todo' = IF running' THEN Handler(d) ELSE <<>>

---------------------------------------------------------------------------
(* The worker's events.  None comes while a callback runs. *)

\* onconnect, an 'init' and the end of a dependency; main() is called within the
\* last of them.
Loading ==
  /\ ~running
  /\ \/ \E t \in Tab : B!OnConnect(Srv, t) \/ B!GetInit(Srv, t)
     \/ \E d \in Dependency : B!Loaded(Srv, d)
  /\ running' = (main'[Srv] /\ ~main[Srv])
  /\ todo' = IF running' THEN Startup ELSE <<>>
  /\ UNCHANGED <<loopVars, orphaned>>

\* A 'connect': get_message of pre.js, as the switchboard and the event loop see it.
Connect(t) ==
  /\ B!GetConnect(Srv, t)
  /\ DeliverConnect(Head(toWorker[t][Srv]))
  /\ Entered(listening)
  /\ UNCHANGED orphaned

Receive(d) == Deliver(d) /\ Entered(d) /\ UNCHANGED <<brokerVars, orphaned>>

Fire(id) ==
  /\ FireRead(id)
  /\ Entered(closure[id].socket)
  /\ UNCHANGED <<brokerVars, orphaned>>

---------------------------------------------------------------------------
(* Tabs, and the page that is the client. *)

PageConnect(t, p) ==
  /\ B!PageConnect(t, Srv, p)
  /\ RemoteConnect(p)
  /\ UNCHANGED <<todo, orphaned>>

ClientSend(p) ==
  /\ p \in Talker
  /\ \E n \in 1 .. MaxByte : RemoteSend(p, n)
  /\ UNCHANGED <<brokerVars, todo, orphaned>>

ClientClose(p) ==
  /\ p \in Talker
  /\ RemoteClose(p)
  /\ UNCHANGED <<brokerVars, todo, orphaned>>

\* Bound: tabs load one after the other; their races are the matter of Broker.
Load(t) ==
  /\ \A u \in Tab \ {t} : tab[u] # "loading"
  /\ B!OpenTab(t) \/ B!FinishLoad(t)
  /\ UNCHANGED <<vars, todo, orphaned>>

\* The worker's memory is gone, and so are the ends of the ports it was given.
Died ==
  LET lost == {p \in Port : link[p] # "unused"} IN
    /\ status' = [d \in Desc |-> "unused"] /\ port' = [d \in Desc |-> None]
    /\ queue' = [d \in Desc |-> <<>>] /\ task' = [d \in Desc |-> None]
    /\ listening' = None /\ incoming' = <<>>
    /\ SCHEDULER_TASKS' = {} /\ closure' = [id \in Timer |-> NoClosure] /\ timers' = {}
    /\ running' = FALSE
    /\ ran' = [id \in Timer |-> 0] /\ cancelled' = {}
    /\ todo' = <<>>
    /\ link' = [p \in Port |-> IF p \in lost THEN "closed" ELSE link[p]]
    /\ wire' = [p \in Port |-> IF p \in lost THEN <<>> ELSE wire[p]]
    /\ orphaned' = orphaned \cup lost
    /\ UNCHANGED <<sent, hungup, got, eof>>

CloseTab(t) ==
  /\ B!CloseTab(t)
  /\ IF B!Alive(Srv) /\ ~B!AliveWith(Srv, B!OpenTabs \ {t})
     THEN Died
     ELSE UNCHANGED <<vars, todo, orphaned>>

\* What the worker does: the C code of a callback, or the next event.
Step ==
  \/ CCall \/ CReturn \/ Loading
  \/ \E t \in Tab : Connect(t)
  \/ \E d \in Desc : Receive(d)
  \/ \E id \in Timer : Fire(id)

WorkerNext ==
  \/ Step
  \/ \E t \in Tab : Load(t) \/ CloseTab(t) \/ \E p \in Port : PageConnect(t, p)
  \/ \E p \in Port : ClientSend(p) \/ ClientClose(p)

WorkerSpec == WorkerInit /\ [][WorkerNext]_workerVars

(* The worker goes on while it has anything to do, in whatever order.  No   *)
(* tab, page or client has to act.                                          *)
WorkerFairness == WF_workerVars(Step)

WorkerFairSpec == WorkerSpec /\ WorkerFairness

---------------------------------------------------------------------------
(* Properties. *)

\* The k-th smallest of the descriptors in D.
NthDesc(D, k) == CHOOSE d \in D : Cardinality({e \in D : e < d}) = k - 1

\* The ports of the descriptors that were accepted, in the order of the descriptors.
Accepted ==
  LET D == {d \in Desc : port[d] # None}
  IN  [k \in 1 .. Cardinality(D) |-> port[NthDesc(D, k)]]

\* What the service has accepted and what waits to be accepted is what was delivered
\* in this life of the worker, each connection once and in the order of arrival, those
\* included that came before main() or before the service listened; nothing is left
\* over from a life before.
AcceptsInOrder == Accepted \o incoming = arrived[Srv]

\* A byte that a page has sent on a port it asked the switchboard to connect is read
\* by the service in the end, and the end of a connection is seen and its descriptor
\* closed, through whatever order of loading, connecting and reading, unless the
\* worker dies first.
RequestServed ==
  \A p \in Talker :
    sent[p] = MaxByte \/ hungup[p]
      ~> \/ p \in orphaned
         \/ got[p] = sent[p] /\ (hungup[p] => link[p] = "closed")
=============================================================================
