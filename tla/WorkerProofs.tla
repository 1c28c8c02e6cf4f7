---------------------------- MODULE WorkerProofs ----------------------------
(***************************************************************************)
(* Proofs about one service from the page's request to the bytes it reads  *)
(* (Worker).  The switchboard of the composition is the Broker, so what    *)
(* BrokerProofs proves holds here; the event loop is the Network, whose    *)
(* invariants also survive a death of the worker.  What the two have only  *)
(* together is proved last: the calls of the service loop never fail, and  *)
(* what was delivered is accepted, each connection once and in order.      *)
(***************************************************************************)
EXTENDS Worker, NetworkProofs, FiniteSetTheorems, SequenceTheorems, TLAPS

BP == INSTANCE BrokerProofs WITH Conn <- Port, Daemon <- {}, Reader <- {}, PoolSize <- 0,
                                 incoming <- arrived

-----------------------------------------------------------------------------
(* The switchboard.                                                        *)

LEMMA BrokerAssumptions ==
  /\ BP!NoneAssumption /\ BP!DaemonAssumption /\ BP!InitAssumption
  /\ BP!DependencyAssumption /\ BP!PoolSizeAssumption
BY SwitchboardAssumption
DEF IsFiniteSet, BP!IsFiniteSet, BP!NoneAssumption, BP!DaemonAssumption, BP!InitAssumption,
    BP!DependencyAssumption, BP!PoolSizeAssumption

\* BP and B are two names of one instance of Broker.
LEMMA OneSwitchboard ==
  /\ B!TypeOK <=> BP!TypeOK
  /\ B!Init => BP!Init
  /\ \A t \in Tab :
       /\ B!OpenTab(t) => BP!OpenTab(t)
       /\ B!FinishLoad(t) => BP!FinishLoad(t)
       /\ B!CloseTab(t) => BP!CloseTab(t)
       /\ \A p \in Port : B!PageConnect(t, Srv, p) => BP!PageConnect(t, Srv, p)
       /\ B!OnConnect(Srv, t) => BP!OnConnect(Srv, t)
       /\ B!GetInit(Srv, t) => BP!GetInit(Srv, t)
       /\ B!GetConnect(Srv, t) => BP!GetConnect(Srv, t)
  /\ \A d \in Dependency : B!Loaded(Srv, d) => BP!Loaded(Srv, d)
<1> USE DEF B!tabVars, B!portVars, B!loadVars, B!initVars,
            BP!tabVars, BP!portVars, BP!loadVars, BP!initVars
<1> USE DEF B!Alive, B!AliveWith, B!OpenTabs, B!Attached, B!HasPort, B!Posted,
            BP!Alive, BP!AliveWith, BP!OpenTabs, BP!Attached, BP!HasPort, BP!Posted
<1>1. B!TypeOK <=> BP!TypeOK
  BY DEF B!TypeOK, BP!TypeOK
<1>2. B!FreshCount = BP!FreshCount /\ B!NoPool = BP!NoPool
  BY DEF B!FreshCount, BP!FreshCount, B!Cardinality, BP!Cardinality, B!NoPool, BP!NoPool,
         B!IsFiniteSet, BP!IsFiniteSet
<1>3. B!Init => BP!Init
  BY <1>2 DEF B!Init, BP!Init
<1>4. ASSUME NEW t \in Tab
      PROVE  /\ B!OpenTab(t) => BP!OpenTab(t)
             /\ B!FinishLoad(t) => BP!FinishLoad(t)
             /\ B!CloseTab(t) => BP!CloseTab(t)
             /\ \A p \in Port : B!PageConnect(t, Srv, p) => BP!PageConnect(t, Srv, p)
             /\ B!OnConnect(Srv, t) => BP!OnConnect(Srv, t)
             /\ B!GetInit(Srv, t) => BP!GetInit(Srv, t)
             /\ B!GetConnect(Srv, t) => BP!GetConnect(Srv, t)
  <2>1. B!OpenTab(t) => BP!OpenTab(t)
    BY DEF B!OpenTab, BP!OpenTab, B!Generators, BP!Generators, B!Generating, BP!Generating
  <2>2. B!FinishLoad(t) => BP!FinishLoad(t)
    BY DEF B!FinishLoad, BP!FinishLoad, B!StoredAfterLoad, BP!StoredAfterLoad
  <2>3. B!CloseTab(t) => BP!CloseTab(t)
    BY <1>2 DEF B!CloseTab, BP!CloseTab
  <2>4. \A p \in Port : B!PageConnect(t, Srv, p) => BP!PageConnect(t, Srv, p)
    BY DEF B!PageConnect, BP!PageConnect, B!ClientConnect, BP!ClientConnect
  <2>5. B!OnConnect(Srv, t) => BP!OnConnect(Srv, t)
    BY DEF B!OnConnect, BP!OnConnect
  <2>6. B!GetInit(Srv, t) => BP!GetInit(Srv, t)
    BY DEF B!GetInit, BP!GetInit, B!RemoveRunDependency, BP!RemoveRunDependency,
           B!LastDependency, BP!LastDependency
  <2>7. B!GetConnect(Srv, t) => BP!GetConnect(Srv, t)
    BY DEF B!GetConnect, BP!GetConnect
  <2> QED
    BY <2>1, <2>2, <2>3, <2>4, <2>5, <2>6, <2>7
<1>5. ASSUME NEW d \in Dependency PROVE B!Loaded(Srv, d) => BP!Loaded(Srv, d)
  BY DEF B!Loaded, BP!Loaded, B!RemoveRunDependency, BP!RemoveRunDependency,
         B!LastDependency, BP!LastDependency
<1> QED
  BY <1>1, <1>3, <1>4, <1>5

\* Every step of the composition is a step of the switchboard or none.
LEMMA SwitchboardStep == [WorkerNext]_workerVars => [BP!Next]_(BP!vars)
<1> SUFFICES ASSUME [WorkerNext]_workerVars PROVE BP!Next \/ UNCHANGED BP!vars
  OBVIOUS
<1> USE DEF Service
<1>0. UNCHANGED brokerVars => UNCHANGED BP!vars
  BY DEF brokerVars, BP!vars, BP!tabVars, BP!portVars, BP!loadVars, BP!initVars
<1>1. ASSUME NEW t \in Tab,
             \/ B!OpenTab(t) \/ B!FinishLoad(t) \/ B!CloseTab(t)
             \/ \E p \in Port : B!PageConnect(t, Srv, p)
             \/ B!OnConnect(Srv, t) \/ B!GetInit(Srv, t) \/ B!GetConnect(Srv, t)
      PROVE  BP!Next
  BY <1>1, OneSwitchboard DEF BP!Next
<1>2. ASSUME NEW d \in Dependency, B!Loaded(Srv, d) PROVE BP!Next
  BY <1>2, OneSwitchboard DEF BP!Next
<1>3. CASE UNCHANGED workerVars
  BY <1>0, <1>3 DEF workerVars
<1>4. CASE Step
  <2>1. CASE CCall \/ CReturn
    BY <1>0, <2>1 DEF CCall, CReturn
  <2>2. CASE Loading
    BY <1>1, <1>2, <2>2 DEF Loading
  <2>3. CASE \E t \in Tab : Connect(t)
    BY <1>1, <2>3 DEF Connect
  <2>4. CASE \E d \in Desc : Receive(d)
    BY <1>0, <2>4 DEF Receive
  <2>5. CASE \E id \in Timer : Fire(id)
    BY <1>0, <2>5 DEF Fire
  <2> QED
    BY <1>4, <2>1, <2>2, <2>3, <2>4, <2>5 DEF Step
<1>5. ASSUME NEW t \in Tab, Load(t) \/ CloseTab(t) \/ \E p \in Port : PageConnect(t, p)
      PROVE  BP!Next
  BY <1>1, <1>5 DEF Load, CloseTab, PageConnect
<1>6. CASE \E p \in Port : ClientSend(p) \/ ClientClose(p)
  BY <1>0, <1>6 DEF ClientSend, ClientClose
<1> QED
  BY <1>3, <1>4, <1>5, <1>6 DEF WorkerNext

\* The composition has the behaviours of the switchboard, whatever the event loop
\* does: what BrokerProofs proves of Broker holds of it.
THEOREM WorkerImplementsBroker == WorkerSpec => BP!Spec
<1>1. WorkerInit => BP!Init
  BY OneSwitchboard DEF WorkerInit
<1> QED
  BY <1>1, SwitchboardStep, PTL DEF WorkerSpec, BP!Spec

LEMMA SwitchboardTyped == WorkerSpec => []B!TypeOK
<1>1. BP!TypeOK => B!TypeOK
  BY OneSwitchboard
<1> QED
  BY <1>1, BrokerAssumptions, WorkerImplementsBroker, BP!TypeCorrect, PTL

-----------------------------------------------------------------------------
(* The inductive invariant.                                                *)

\* What a call of the C code needs in order not to fail; the last four also keep the
\* discipline of one read task at a time.
Possible(c) ==
  LET d == c.socket IN
    \/ c.name = "create"
    \/ c.name = "bind" /\ d \in Desc /\ status[d] = "created"
    \/ c.name = "listen" /\ d \in Desc /\ InSockets(d) /\ port[d] = None /\ listening = None
    \/ /\ d \in Desc /\ InSockets(d) /\ task[d] = None
       /\ \/ c.name = "read" /\ (port[d] # None \/ listening = d)
          \/ c.name = "accept" /\ listening = d /\ incoming # <<>>
          \/ c.name = "recv" /\ port[d] # None /\ queue[d] # <<>>
          \/ c.name = "close"

\* No call of the service loop fails: it binds and listens once, accepts only when a
\* connection waits, reads only when there is something to read, and closes and waits
\* on descriptors that are in SOCKETS (network.js, scheduler.js: their early returns).
CallsSucceed == todo # <<>> => running /\ Possible(Head(todo))

\* The calls a callback still has to make: what is left of main()'s, or those of one
\* handler, on different sockets.
Calls ==
  /\ todo # <<>> => running
  /\ \/ todo = <<>>
     \/ todo = Startup /\ \A d \in Desc : status[d] = "unused"
     \/ /\ todo = <<CallOf("bind", 1), CallOf("listen", 1), CallOf("read", 1)>>
        /\ 1 \in Desc /\ status[1] = "created" /\ listening = None
     \/ /\ todo = <<CallOf("listen", 1), CallOf("read", 1)>>
        /\ Possible(CallOf("listen", 1)) /\ task[1] = None
     \/ \E name \in {"read", "accept", "recv", "close"}, d \in Desc :
          todo = <<CallOf(name, d)>> /\ Possible(CallOf(name, d))
     \/ \E name \in {"read", "accept"}, d, e \in Desc :
          /\ d # e /\ todo = <<CallOf("read", e), CallOf(name, d)>>
          /\ Possible(CallOf("read", e)) /\ Possible(CallOf(name, d))

\* The descriptors in use are the first n, and all but the first were accepted.
UsedUpTo(n) ==
  \A d \in Desc :
    /\ status[d] # "unused" <=> d <= n
    /\ port[d] # None <=> d <= n /\ d # 1

Numbered == \E n \in 0 .. Cardinality(Desc) : UsedUpTo(n)

\* C code has run only after main() was called.
MainFirst == running \/ (\E d \in Desc : status[d] # "unused") => main[Srv]

WorkerInv == StreamsInv /\ Calls /\ Numbered /\ MainFirst /\ AcceptsInOrder

LEMMA CallsNeverFail == Calls => CallsSucceed
<1> SUFFICES ASSUME Calls, todo # <<>> PROVE running /\ Possible(Head(todo))
  BY DEF CallsSucceed
<1>1. CASE todo = Startup
  BY <1>1 DEF Calls, Startup, CallOf, Possible
<1>2. CASE todo # Startup
  BY <1>2 DEF Calls, Startup, CallOf, Possible
<1> QED
  BY <1>1, <1>2

-----------------------------------------------------------------------------
(* The event loop, over the deaths of the worker.                          *)

\* main() is called, or nothing happens to the event loop.
Started == ~running /\ running' \in BOOLEAN /\ UNCHANGED loopVars

\* A step of the composition is one of the event loop, or the worker starts or dies.
LEMMA LoopStep ==
  ASSUME B!TypeOK, Calls, [WorkerNext]_workerVars
  PROVE  [Next]_vars \/ Started \/ Died
<1> USE DEF Service
<1>1. CASE UNCHANGED workerVars
  BY <1>1 DEF workerVars
<1>2. CASE CCall
  <2>1. Possible(Head(todo))
    BY <1>2, CallsNeverFail DEF CCall, CallsSucceed
  <2>2. Call
    BY <1>2, <2>1 DEF CCall, Call, Possible
  <2> QED
    BY <2>2 DEF Next
<1>3. CASE CReturn
  BY <1>3 DEF CReturn, Next
<1>4. CASE Loading
  BY <1>4 DEF Loading, Started
<1>5. ASSUME NEW t \in Tab, Connect(t) PROVE Next
  <2>1. Head(toWorker[t][Srv]) \in Port
    BY <1>5 DEF Connect, B!GetConnect, B!TypeOK
  <2> QED
    BY <1>5, <2>1 DEF Connect, Next, Event
<1>6. ASSUME NEW d \in Desc, Receive(d) PROVE Next
  BY <1>6 DEF Receive, Next, Event
<1>7. ASSUME NEW id \in Timer, Fire(id) PROVE Next
  BY <1>7 DEF Fire, Next, Event
<1>8. ASSUME NEW t \in Tab, NEW p \in Port, PageConnect(t, p) PROVE Next
  BY <1>8 DEF PageConnect, Next, Remote
<1>9. ASSUME NEW p \in Port, ClientSend(p) \/ ClientClose(p) PROVE Next
  BY <1>9 DEF ClientSend, ClientClose, Next, Remote
<1>10. ASSUME NEW t \in Tab, Load(t) \/ CloseTab(t) PROVE UNCHANGED vars \/ Died
  BY <1>10 DEF Load, CloseTab
<1> QED
  BY <1>1, <1>2, <1>3, <1>4, <1>5, <1>6, <1>7, <1>8, <1>9, <1>10 DEF WorkerNext, Step

LEMMA StartStep == StreamsInv /\ Started => StreamsInv'
<1> SUFFICES ASSUME StreamsInv, Started PROVE StreamsInv'
  OBVIOUS
<1> USE DEF Started, loopVars, socketVars, listenVars, taskVars, portVars, readVars, runVars
<1>1. TypeOK'
  BY DEF StreamsInv, TypeOK
<1>2. TaskInv'
  BY DEF StreamsInv, TaskInv, RunsAtMostOnce, TimersArmed, TaskLinks, SocketLinks, IsRead, InSockets
<1>3. WakeupInv'
  BY DEF StreamsInv, WakeupInv, TablesAgree, NoLostWakeup, IsRead, InSockets, Ready
<1>4. ConnectionInv'
  BY DEF StreamsInv, ConnectionInv, ConnectionsUnique, PortLinks, InSockets
<1>5. StreamInv'
  BY DEF StreamsInv, StreamInv, StreamIntact, EofLast, StreamLinks, InSockets, Delivered
<1> QED
  BY <1>1, <1>2, <1>3, <1>4, <1>5 DEF StreamsInv

LEMMA DeathStep == StreamsInv /\ Died => StreamsInv'
<1> SUFFICES ASSUME StreamsInv, Died PROVE StreamsInv'
  OBVIOUS
<1> USE NoneAssumption
<1>1. TypeOK'
  <2>1. TypeOK
    BY DEF StreamsInv
  <2>2. /\ link' \in [Port -> {"unused", "connecting", "live", "closed"}]
        /\ wire' \in [Port -> Seq(Message)]
    BY <2>1 DEF TypeOK, Died
  <2>3. UNCHANGED <<sent, hungup, got, eof>>
    BY DEF Died
  <2>4. <<>> \in Seq(Message) /\ <<>> \in Seq(Port) /\ NoClosure \in Closure
    BY DEF NoClosure, Closure
  <2>5. queue' \in [Desc -> Seq(Message)] /\ incoming' \in Seq(Port)
    BY <2>4 DEF Died
  <2>6. closure' \in [Timer -> Closure] /\ task' \in [Desc -> Timer \cup {None}]
    BY <2>4 DEF Died
  <2>7. /\ status' \in [Desc -> {"unused", "created", "open", "closed"}]
        /\ port' \in [Desc -> Port \cup {None}]
        /\ ran' \in [Timer -> Nat]
    BY DEF Died
  <2> QED
    BY <2>1, <2>2, <2>3, <2>5, <2>6, <2>7 DEF TypeOK, Died
<1>2. TaskInv'
  BY DEF Died, TaskInv, RunsAtMostOnce, TimersArmed, TaskLinks, SocketLinks, IsRead, NoClosure
<1>3. WakeupInv'
  BY DEF Died, WakeupInv, TablesAgree, NoLostWakeup
<1>4. ConnectionInv'
  <2>1. incoming' = <<>> /\ 1 .. Len(incoming') = {}
    BY DEF Died
  <2>2. \A p \in Port : link'[p] # "live"
    BY DEF Died
  <2> QED
    BY <2>1, <2>2 DEF Died, ConnectionInv, ConnectionsUnique, PortLinks, InSockets
<1>5. StreamInv'
  <2>1. \A d \in Desc : QueueOK(d)'
    BY DEF Died, QueueOK, InSockets
  <2>2. ASSUME NEW p \in Port PROVE WireOK(p)' /\ FreshOK(p)' /\ EndOK(p)'
    <3>1. WireOK(p) /\ FreshOK(p) /\ EndOK(p)
      BY StreamParts DEF StreamsInv
    <3>2. EndOK(p)'
      BY <3>1 DEF EndOK, Died
    <3>3. CASE link[p] = "unused"
      <4>1. \A d \in Desc : port[d] # p
        BY <3>3 DEF StreamsInv, ConnectionInv, PortLinks
      <4>2. Delivered(p)' = Delivered(p) /\ UNCHANGED <<link[p], wire[p], sent[p], hungup[p], got[p]>>
        BY <3>3 DEF Died, Delivered
      <4> QED
        BY <3>1, <3>2, <3>3, <4>1, <4>2 DEF WireOK, FreshOK
    <3>4. CASE link[p] # "unused"
      BY <3>2, <3>4 DEF Died, WireOK, FreshOK
    <3> QED
      BY <3>3, <3>4
  <2> QED
    BY <2>1, <2>2 DEF StreamInv, StreamIntact, EofLast, StreamLinks, QueueOK, WireOK, FreshOK, EndOK
<1> QED
  BY <1>1, <1>2, <1>3, <1>4, <1>5 DEF StreamsInv

\* The invariants of the event loop hold through every life of the worker.
LEMMA LoopInvariants ==
  ASSUME B!TypeOK, StreamsInv, Calls, [WorkerNext]_workerVars
  PROVE  StreamsInv'
<1>1. CASE [Next]_vars
  BY <1>1, TypeStep, TaskStep, WakeupStep, ConnectionStep, StreamStep DEF StreamsInv, TaskInv
<1> QED
  BY <1>1, LoopStep, StartStep, DeathStep

-----------------------------------------------------------------------------
(* The calls of the service loop.                                          *)

\* The tables the calls look into, and the rest of the callback.
callVars == <<todo, running, status, port, queue, task, listening, incoming>>

LEMMA CallsFrame == Calls /\ UNCHANGED callVars => Calls'
<1> SUFFICES ASSUME Calls, UNCHANGED callVars PROVE Calls'
  OBVIOUS
<1>1. ASSUME NEW c PROVE Possible(c)' <=> Possible(c)
  BY DEF callVars, Possible, InSockets
<1> QED
  BY <1>1 DEF callVars, Calls

\* A handler is entered on a socket that has what the handler's first call takes.
LEMMA EnteredCalls ==
  ASSUME NEW d, Entered(d), listening' = listening,
         running' => /\ d \in Desc /\ InSockets(d)' /\ task'[d] = None
                     /\ IF listening' = d THEN incoming' # <<>>
                        ELSE port'[d] # None /\ queue'[d] # <<>>
  PROVE  Calls'
<1>1. CASE ~running'
  BY <1>1 DEF Entered, Calls
<1>2. CASE running' /\ d = listening
  <2>1. todo' = <<CallOf("accept", d)>>
    BY <1>2 DEF Entered, Handler
  <2> QED
    BY <1>2, <2>1 DEF Calls, Possible, CallOf
<1>3. CASE running' /\ d # listening
  <2>1. todo' = <<CallOf("recv", d)>>
    BY <1>3 DEF Entered, Handler
  <2> QED
    BY <1>3, <2>1 DEF Calls, Possible, CallOf
<1> QED
  BY <1>1, <1>2, <1>3

\* main() makes its calls one after the other.
LEMMA StartupCalls ==
  ASSUME TypeOK, SocketLinks, Calls, CCall,
         \/ todo = Startup /\ \A d \in Desc : status[d] = "unused"
         \/ /\ todo = <<CallOf("bind", 1), CallOf("listen", 1), CallOf("read", 1)>>
            /\ 1 \in Desc /\ status[1] = "created" /\ listening = None
         \/ /\ todo = <<CallOf("listen", 1), CallOf("read", 1)>>
            /\ Possible(CallOf("listen", 1)) /\ task[1] = None
  PROVE  Calls'
<1> USE DEF CallOf
<1>0. running
  BY DEF Calls, CCall
<1>1. CASE todo = Startup /\ \A d \in Desc : status[d] = "unused"
  <2>1. \A d \in Desc : status[d] = "unused"
    BY <1>1
  <2>2. PICK e \in Desc : IsNextDesc(e) /\ SocketCreate(e)
    BY <1>1 DEF CCall, Startup
  <2>3. Made
    BY <1>1 DEF CCall, Startup
  <2>4. 1 \in Desc /\ e = 1
    <3>1. e \in Nat /\ e >= 1 /\ 1 \in Desc
      BY <2>2, FS_CardinalityType, NumbersAssumption
    <3>2. ASSUME e # 1 PROVE FALSE
      BY <2>1, <2>2, <3>1, <3>2 DEF IsNextDesc
    <3> QED
      BY <3>1, <3>2
  <2>5. status'[1] = "created" /\ listening' = listening /\ running'
    BY <1>0, <2>2, <2>4 DEF SocketCreate, listenVars, TypeOK
  <2>6. listening = None
    BY <2>1, NoneAssumption DEF SocketLinks, TypeOK
  <2>7. todo' = <<CallOf("bind", 1), CallOf("listen", 1), CallOf("read", 1)>>
    BY <1>1, <2>3 DEF Made, Startup
  <2> QED
    BY <2>4, <2>5, <2>6, <2>7 DEF Calls
<1>2. CASE /\ todo = <<CallOf("bind", 1), CallOf("listen", 1), CallOf("read", 1)>>
           /\ 1 \in Desc /\ status[1] = "created" /\ listening = None
  <2>1. 1 \in Desc /\ status[1] = "created" /\ listening = None
    BY <1>2
  <2>2. SocketBind(1) /\ Made
    BY <1>2 DEF CCall
  <2>3. port[1] = None /\ task[1] = None
    BY <2>1 DEF SocketLinks
  <2>4. InSockets(1)' /\ UNCHANGED <<port, task, listening, running>>
    BY <2>1, <2>2 DEF SocketBind, InSockets, listenVars, TypeOK
  <2>5. todo' = <<CallOf("listen", 1), CallOf("read", 1)>>
    BY <1>2, <2>2 DEF Made
  <2> QED
    BY <1>0, <2>1, <2>3, <2>4, <2>5 DEF Calls, Possible
<1>3. CASE /\ todo = <<CallOf("listen", 1), CallOf("read", 1)>>
           /\ Possible(CallOf("listen", 1)) /\ task[1] = None
  <2>1. 1 \in Desc /\ InSockets(1) /\ task[1] = None
    BY <1>3 DEF Possible
  <2>2. SocketListen(1) /\ Made
    BY <1>3 DEF CCall
  <2>3. listening' = 1 /\ UNCHANGED <<status, task, running>>
    BY <2>2 DEF SocketListen, socketVars
  <2>4. todo' = <<CallOf("read", 1)>>
    BY <1>3, <2>2 DEF Made
  <2> QED
    BY <1>0, <2>1, <2>3, <2>4 DEF Calls, Possible, InSockets
<1> QED
  BY <1>1, <1>2, <1>3

\* The calls of a handler.
LEMMA HandlerCalls ==
  ASSUME TypeOK, SocketLinks, Calls, CCall,
         NEW name \in {"read", "accept", "recv", "close"}, NEW d \in Desc,
         todo = <<CallOf(name, d)>>, Possible(CallOf(name, d))
  PROVE  Calls'
<1> USE DEF CallOf
<1>0. running /\ InSockets(d) /\ task[d] = None
  BY DEF Calls, Possible
<1>1. CASE name \in {"read", "close"}
  <2>1. Made
    BY <1>1 DEF CCall
  <2>2. todo' = <<>>
    BY <2>1 DEF Made
  <2> QED
    BY <2>2 DEF Calls
<1>2. CASE name = "accept"
  <2>1. PICK e \in Desc :
          /\ SocketAccept(d, e)
          /\ \/ incoming' # <<>> /\ todo' = <<CallOf("read", e), CallOf("accept", d)>>
             \/ todo' = <<CallOf("read", e), CallOf("read", d)>>
    BY <1>2 DEF CCall
  <2>2. status[e] = "unused" /\ task[e] = None /\ d # e
    BY <1>0, <2>1 DEF SocketAccept, SocketLinks, InSockets
  <2>3. /\ InSockets(d)' /\ InSockets(e)' /\ port'[e] # None
        /\ UNCHANGED <<task, listening, running>> /\ listening = d
    BY <1>0, <2>1, NoneAssumption DEF SocketAccept, InSockets, TypeOK
  <2>4. Possible(CallOf("read", e))' /\ Possible(CallOf("read", d))'
    BY <1>0, <2>2, <2>3 DEF Possible
  <2>5. incoming' # <<>> => Possible(CallOf("accept", d))'
    BY <1>0, <2>2, <2>3 DEF Possible
  <2> QED
    BY <1>0, <2>1, <2>2, <2>3, <2>4, <2>5 DEF Calls
<1>3. CASE name = "recv"
  <2>1. /\ \E n \in 1 .. MaxByte : SocketRecv(d, n)
        /\ todo' = <<CallOf(IF Head(queue[d]).close THEN "close" ELSE "read", d)>>
    BY <1>3 DEF CCall
  <2>2. port[d] # None /\ UNCHANGED <<status, port, task, running>>
    BY <2>1 DEF SocketRecv
  <2>3. Possible(CallOf("read", d))' /\ Possible(CallOf("close", d))'
    BY <1>0, <2>2 DEF Possible, InSockets
  <2> QED
    BY <1>0, <2>1, <2>2, <2>3 DEF Calls
<1> QED
  BY <1>1, <1>2, <1>3

\* After an accept the new connection waits first.
LEMMA AcceptedCalls ==
  ASSUME TypeOK, Calls, CCall,
         NEW name \in {"read", "accept"}, NEW d \in Desc, NEW e \in Desc, d # e,
         todo = <<CallOf("read", e), CallOf(name, d)>>, Possible(CallOf(name, d))
  PROVE  Calls'
<1> USE DEF CallOf
<1>1. PICK id \in Timer : AddReadNet(e, id)
  BY DEF CCall
<1>2. Made
  BY DEF CCall
<1>3. todo' = <<CallOf(name, d)>>
  BY <1>2 DEF Made
<1>4. task'[d] = task[d] /\ UNCHANGED <<status, port, queue, listening, incoming, running>>
  BY <1>1 DEF AddReadNet, listenVars, TypeOK
<1>5. Possible(CallOf(name, d))'
  BY <1>4 DEF Possible, InSockets
<1>6. running
  BY DEF Calls
<1> QED
  BY <1>3, <1>4, <1>5, <1>6 DEF Calls

\* The calls that are left stay possible: no step of a page, a tab or the browser
\* comes between that could make one fail.
LEMMA CallsStep ==
  ASSUME B!TypeOK, StreamsInv, Calls, MainFirst, [WorkerNext]_workerVars
  PROVE  Calls'
<1>t. TypeOK /\ TaskLinks /\ SocketLinks /\ TablesAgree
  BY DEF StreamsInv, TaskInv, WakeupInv
<1> USE NoneAssumption
<1>1. CASE UNCHANGED workerVars \/ CReturn
  <2>1. CASE UNCHANGED workerVars
    BY <2>1, CallsFrame
    DEF workerVars, vars, socketVars, listenVars, callVars
  <2>2. CASE CReturn
    BY <2>2 DEF CReturn, Calls
  <2> QED
    BY <1>1, <2>1, <2>2
<1>2. CASE CCall
  <2>1. todo # <<>>
    BY <1>2 DEF CCall
  <2> QED
    BY <1>t, <1>2, <2>1, StartupCalls, HandlerCalls, AcceptedCalls DEF Calls
<1>3. CASE Loading
  <2>1. ~running /\ UNCHANGED <<status, port, queue, task, listening, incoming>>
    BY <1>3 DEF Loading, loopVars, socketVars, listenVars
  <2>2. CASE running'
    <3>1. todo' = Startup /\ ~main[Srv]
      BY <1>3, <2>2 DEF Loading
    <3>2. \A d \in Desc : status'[d] = "unused"
      BY <2>1, <3>1 DEF MainFirst
    <3> QED
      BY <2>2, <3>1, <3>2 DEF Calls
  <2>3. CASE ~running'
    BY <1>3, <2>3 DEF Loading, Calls
  <2> QED
    BY <2>2, <2>3
<1>4. ASSUME NEW t \in Tab, Connect(t) PROVE Calls'
  <2>1. DeliverConnect(Head(toWorker[t][Srv])) /\ Entered(listening)
    BY <1>4 DEF Connect
  <2>2. ~running /\ listening' = listening
    BY <2>1 DEF DeliverConnect
  <2>3. ASSUME running'
        PROVE  /\ listening \in Desc /\ InSockets(listening)' /\ task'[listening] = None
               /\ incoming' # <<>>
    <3>1. listening # None /\ InSockets(listening)
      BY <2>1, <2>2, <2>3 DEF DeliverConnect
    <3>2. listening \in Desc /\ task'[listening] = None /\ InSockets(listening)'
      BY <1>t, <2>1, <2>2, <2>3, <3>1 DEF DeliverConnect, InSockets, TypeOK
    <3>3. Head(toWorker[t][Srv]) \in Port
      BY <1>4 DEF Connect, B!GetConnect, B!TypeOK, Service
    <3>4. incoming' # <<>>
      <4>1. incoming \in Seq(Port) /\ incoming' = Append(incoming, Head(toWorker[t][Srv]))
        BY <1>t, <2>1 DEF DeliverConnect, TypeOK
      <4> QED
        BY <3>3, <4>1, AppendProperties
    <3> QED
      BY <3>2, <3>4
  <2> QED
    BY <2>1, <2>2, <2>3, EnteredCalls
<1>5. ASSUME NEW d \in Desc, Receive(d) PROVE Calls'
  <2>1. Deliver(d) /\ Entered(d)
    BY <1>5 DEF Receive
  <2>2. ~running /\ listening' = listening /\ port[d] # None /\ UNCHANGED <<status, port>>
    BY <2>1 DEF Deliver, listenVars
  <2>3. d # listening
    BY <1>t, <2>2 DEF SocketLinks
  <2>4. queue'[d] # <<>> /\ InSockets(d)
    <3>1. /\ queue[d] \in Seq(Message) /\ Head(wire[port[d]]) \in Message
          /\ queue'[d] = Append(queue[d], Head(wire[port[d]]))
      BY <1>t, <2>1 DEF Deliver, TypeOK, Pushed
    <3> QED
      BY <2>1, <3>1, QueueOperations DEF Deliver
  <2>5. running' => task'[d] = None
    BY <1>t, <2>1, <2>2 DEF Deliver, TypeOK
  <2> QED
    BY <2>1, <2>2, <2>3, <2>4, <2>5, EnteredCalls DEF InSockets
<1>6. ASSUME NEW id \in Timer, Fire(id) PROVE Calls'
  <2> DEFINE d == closure[id].socket
  <2>1. FireRead(id) /\ Entered(d)
    BY <1>6 DEF Fire
  <2>2. ~running /\ UNCHANGED <<status, port, queue, listening, incoming>> /\ d \in Desc
    BY <1>t, <2>1 DEF FireRead, listenVars, TaskLinks
  <2>3. ASSUME running' PROVE Ready(d) /\ id \in SCHEDULER_TASKS /\ task'[d] = None
    BY <1>t, <2>1, <2>2, <2>3 DEF FireRead, Registered, TypeOK
  <2>4. ASSUME running' PROVE InSockets(d) /\ (port[d] # None \/ listening = d)
    <3>1. IsRead(id) /\ id \in SCHEDULER_TASKS
      BY <2>1, <2>3, <2>4 DEF FireRead
    <3>2. task[d] = id /\ id # None
      BY <1>t, <3>1, ServiceLoopAssumption DEF TablesAgree
    <3> QED
      BY <1>t, <2>2, <3>2, ServiceLoopAssumption DEF TablesAgree, TaskLinks
  <2> HIDE DEF d
  <2> QED
    BY <2>1, <2>2, <2>3, <2>4, EnteredCalls DEF Ready, InSockets
<1>7. ASSUME NEW t \in Tab, NEW p \in Port, PageConnect(t, p) PROVE Calls'
  BY <1>7, CallsFrame DEF PageConnect, RemoteConnect, socketVars, listenVars, callVars
<1>8. ASSUME NEW p \in Port, ClientSend(p) \/ ClientClose(p) PROVE Calls'
  BY <1>8, CallsFrame
  DEF ClientSend, ClientClose, RemoteSend, RemoteClose, socketVars, listenVars, callVars
<1>9. ASSUME NEW t \in Tab, Load(t) \/ CloseTab(t) PROVE Calls'
  <2>1. CASE UNCHANGED <<vars, todo>>
    BY <2>1, CallsFrame DEF vars, socketVars, listenVars, callVars
  <2>2. CASE Died
    BY <2>2 DEF Died, Calls
  <2> QED
    BY <1>9, <2>1, <2>2 DEF Load, CloseTab
<1> QED
  BY <1>1, <1>2, <1>3, <1>4, <1>5, <1>6, <1>7, <1>8, <1>9 DEF WorkerNext, Step

-----------------------------------------------------------------------------
(* The order of the descriptors is the order of arrival.                   *)

\* Appending at the end of a concatenation, and moving its middle.
LEMMA ConcatAppend ==
  ASSUME NEW S, NEW s \in Seq(S), NEW t \in Seq(S), NEW x \in S
  PROVE  s \o Append(t, x) = Append(s \o t, x)
<1>1. <<x>> \in Seq(S) /\ s \o t \in Seq(S)
  BY ConcatProperties
<1>2. s \o (t \o <<x>>) = (s \o t) \o <<x>>
  BY <1>1, ConcatAssociative
<1>3. Append(t, x) = t \o <<x>> /\ Append(s \o t, x) = (s \o t) \o <<x>>
  BY <1>1, AppendIsConcat
<1> QED
  BY <1>2, <1>3

LEMMA HeadMoves ==
  ASSUME NEW S, NEW s \in Seq(S), NEW t \in Seq(S), t # <<>>
  PROVE  Append(s, Head(t)) \o Tail(t) = s \o t
<1>1. Head(t) \in S /\ Tail(t) \in Seq(S) /\ <<Head(t)>> \in Seq(S)
  BY HeadTailProperties
<1>2. t = <<Head(t)>> \o Tail(t)
  OBVIOUS
<1>3. Append(s, Head(t)) = s \o <<Head(t)>>
  BY <1>1, AppendIsConcat
<1>4. (s \o <<Head(t)>>) \o Tail(t) = s \o (<<Head(t)>> \o Tail(t))
  BY <1>1, ConcatAssociative
<1> QED
  BY <1>2, <1>3, <1>4

LEMMA Numbers ==
  /\ Cardinality(Desc) \in Nat /\ Desc = 1 .. Cardinality(Desc)
  /\ \A d \in Desc : d \in Nat /\ d >= 1 /\ d <= Cardinality(Desc)
BY FS_CardinalityType, NumbersAssumption

\* The k-th of the descriptors 2 to n is k + 1.
LEMMA NthOfInterval ==
  ASSUME NEW n \in Nat, NEW k \in 1 .. n - 1
  PROVE  NthDesc(2 .. n, k) = k + 1
<1>1. ASSUME NEW d \in 2 .. n
      PROVE  Cardinality({e \in 2 .. n : e < d}) = d - 2
  <2>1. {e \in 2 .. n : e < d} = 2 .. d - 1
    OBVIOUS
  <2>2. Cardinality(2 .. d - 1) = d - 2
    BY FS_Interval
  <2> QED
    BY <2>1, <2>2
<1>2. k + 1 \in 2 .. n
  OBVIOUS
<1>3. \A d \in 2 .. n : Cardinality({e \in 2 .. n : e < d}) = k - 1 <=> d = k + 1
  BY <1>1
<1> QED
  BY <1>2, <1>3 DEF NthDesc

\* The ports of the accepted descriptors, when they are 2 to n.
PortsUpTo(f, n) == [k \in 1 .. n - 1 |-> f[k + 1]]

AcceptedOf(f) ==
  LET D == {d \in Desc : f[d] # None}
  IN  [k \in 1 .. Cardinality(D) |-> f[NthDesc(D, k)]]

LEMMA AcceptedPorts ==
  ASSUME NEW f, NEW n \in 0 .. Cardinality(Desc),
         \A d \in Desc : f[d] # None <=> d <= n /\ d # 1
  PROVE  AcceptedOf(f) = PortsUpTo(f, n)
<1> DEFINE D == {d \in Desc : f[d] # None}
<1>1. n \in Nat /\ D = 2 .. n
  BY Numbers
<1> HIDE DEF D
<1>2. Cardinality(D) = IF 2 > n THEN 0 ELSE n - 1
  BY <1>1, FS_Interval
<1>3. 1 .. Cardinality(D) = 1 .. n - 1
  BY <1>1, <1>2
<1>4. \A k \in 1 .. n - 1 : f[NthDesc(D, k)] = f[k + 1]
  BY <1>1, NthOfInterval
<1> QED
  BY <1>3, <1>4 DEF AcceptedOf, PortsUpTo, D

LEMMA PortsType ==
  ASSUME NEW f \in [Desc -> Port \cup {None}], NEW n \in 0 .. Cardinality(Desc),
         \A d \in Desc : f[d] # None <=> d <= n /\ d # 1
  PROVE  PortsUpTo(f, n) \in Seq(Port)
<1>1. \A k \in 1 .. n - 1 : k + 1 \in Desc /\ f[k + 1] \in Port
  BY Numbers
<1>2. CASE n = 0
  <2>1. PortsUpTo(f, n) = <<>>
    BY <1>2 DEF PortsUpTo
  <2> QED
    BY <2>1
<1>3. CASE n # 0
  <2>1. n - 1 \in Nat
    BY <1>3, Numbers
  <2> QED
    BY <1>1, <2>1 DEF PortsUpTo
<1> QED
  BY <1>2, <1>3

LEMMA PortsAppend ==
  ASSUME NEW f \in [Desc -> Port \cup {None}], NEW n \in 1 .. Cardinality(Desc),
         \A d \in Desc : f[d] # None <=> d <= n /\ d # 1,
         n + 1 \in Desc, NEW p \in Port
  PROVE  PortsUpTo([f EXCEPT ![n + 1] = p], n + 1) = Append(PortsUpTo(f, n), p)
<1> DEFINE s == PortsUpTo(f, n)
           t == PortsUpTo([f EXCEPT ![n + 1] = p], n + 1)
<1>0. n \in Nat /\ n >= 1
  BY Numbers
<1>1. s \in Seq(Port) /\ Len(s) = n - 1
  BY <1>0, PortsType, Numbers DEF PortsUpTo
<1>2. t = [k \in 1 .. n |-> IF k = n THEN p ELSE f[k + 1]]
  BY <1>0, Numbers DEF PortsUpTo
<1>3. \A k \in 1 .. n - 1 : s[k] = f[k + 1]
  BY DEF PortsUpTo
<1> HIDE DEF s, t
<1>4. /\ Append(s, p) \in Seq(Port) /\ Len(Append(s, p)) = n
      /\ \A k \in 1 .. n - 1 : Append(s, p)[k] = s[k]
      /\ Append(s, p)[n] = p
  BY <1>0, <1>1, AppendProperties
<1>5. Append(s, p) = [k \in 1 .. n |-> Append(s, p)[k]]
  <2>1. Append(s, p) \in [1 .. n -> Port]
    BY <1>4, LenProperties
  <2> HIDE DEF s
  <2> QED
    BY <2>1
<1> QED
  BY <1>0, <1>2, <1>3, <1>4, <1>5 DEF s, t

LEMMA AcceptedIs ==
  ASSUME TypeOK, NEW n \in 0 .. Cardinality(Desc), UsedUpTo(n)
  PROVE  Accepted = PortsUpTo(port, n) /\ PortsUpTo(port, n) \in Seq(Port)
<1>1. Accepted = AcceptedOf(port)
  BY DEF Accepted, AcceptedOf
<1>2. \A d \in Desc : port[d] # None <=> d <= n /\ d # 1
  BY DEF UsedUpTo
<1>3. port \in [Desc -> Port \cup {None}]
  BY DEF TypeOK
<1> QED
  BY <1>1, <1>2, <1>3, AcceptedPorts, PortsType

\* A step that neither takes a descriptor nor receives a connection.
LEMMA OrderFrame ==
  ASSUME Numbered, AcceptsInOrder,
         \A d \in Desc : status'[d] = "unused" <=> status[d] = "unused",
         UNCHANGED <<port, incoming, arrived[Srv]>>
  PROVE  Numbered' /\ AcceptsInOrder'
<1>1. Numbered'
  BY DEF Numbered, UsedUpTo
<1>2. AcceptsInOrder'
  BY DEF AcceptsInOrder, Accepted
<1> QED
  BY <1>1, <1>2

\* The next descriptor is the first that is not in use.
LEMMA NextIs ==
  ASSUME NEW n \in 0 .. Cardinality(Desc), UsedUpTo(n), NEW e \in Desc, IsNextDesc(e)
  PROVE  e = n + 1 /\ n \in Nat
<1>1. e \in Nat /\ e >= 1 /\ e <= Cardinality(Desc) /\ n \in Nat
  BY Numbers
<1>2. ~(e <= n)
  BY DEF IsNextDesc, UsedUpTo
<1>3. \A d \in 1 .. e - 1 : d <= n
  BY <1>1, Numbers DEF IsNextDesc, UsedUpTo
<1>4. ASSUME e # n + 1 PROVE FALSE
  <2>1. n + 1 \in 1 .. e - 1
    BY <1>1, <1>2, <1>4
  <2> QED
    BY <1>1, <1>3, <2>1
<1> QED
  BY <1>1, <1>4

\* The first connection that waits gets the next descriptor.
LEMMA AcceptOrder ==
  ASSUME TypeOK, Numbered, AcceptsInOrder,
         NEW d \in Desc, NEW e \in Desc, IsNextDesc(e), SocketAccept(d, e),
         arrived'[Srv] = arrived[Srv]
  PROVE  Numbered' /\ AcceptsInOrder'
<1>1. PICK n \in 0 .. Cardinality(Desc) : UsedUpTo(n)
  BY DEF Numbered
<1>2. e = n + 1 /\ n \in Nat
  BY <1>1, NextIs
<1>3. incoming \in Seq(Port) /\ incoming # <<>> /\ Head(incoming) \in Port
  BY HeadTailProperties DEF SocketAccept, TypeOK
<1>4. /\ status' = [status EXCEPT ![e] = "open"] /\ status \in [Desc -> {"unused", "created", "open", "closed"}]
      /\ port' = [port EXCEPT ![e] = Head(incoming)] /\ port \in [Desc -> Port \cup {None}]
      /\ incoming' = Tail(incoming)
  BY DEF SocketAccept, IncomingAfterAccept, TypeOK
<1>5. n \in 1 .. Cardinality(Desc) /\ n + 1 \in 0 .. Cardinality(Desc)
  <2>1. d <= n
    BY <1>1 DEF SocketAccept, InSockets, UsedUpTo
  <2> QED
    BY <1>2, <2>1, Numbers
<1>6. UsedUpTo(n + 1)'
  BY <1>1, <1>2, <1>3, <1>4, <1>5, Numbers, NoneAssumption DEF UsedUpTo
<1>7. Numbered'
  BY <1>5, <1>6 DEF Numbered
<1>8. Accepted = PortsUpTo(port, n) /\ PortsUpTo(port, n) \in Seq(Port)
  BY <1>1, AcceptedIs
<1>9. Accepted' = PortsUpTo(port', n + 1)
  <2>1. Accepted' = AcceptedOf(port')
    BY DEF Accepted, AcceptedOf
  <2>2. \A c \in Desc : port'[c] # None <=> c <= n + 1 /\ c # 1
    BY <1>6 DEF UsedUpTo
  <2> QED
    BY <1>5, <2>1, <2>2, AcceptedPorts
<1>10. PortsUpTo(port', n + 1) = Append(PortsUpTo(port, n), Head(incoming))
  <2>1. \A c \in Desc : port[c] # None <=> c <= n /\ c # 1
    BY <1>1 DEF UsedUpTo
  <2> QED
    BY <1>2, <1>3, <1>4, <1>5, <2>1, PortsAppend
<1>11. AcceptsInOrder'
  BY <1>3, <1>4, <1>8, <1>9, <1>10, HeadMoves DEF AcceptsInOrder
<1> QED
  BY <1>7, <1>11

\* A 'connect' is the last to be accepted.
LEMMA ConnectOrder ==
  ASSUME B!TypeOK, TypeOK, Numbered, AcceptsInOrder, NEW t \in Tab, Connect(t)
  PROVE  Numbered' /\ AcceptsInOrder'
<1> DEFINE p == Head(toWorker[t][Srv])
<1>1. p \in Port /\ arrived'[Srv] = Append(arrived[Srv], p)
  BY DEF Connect, B!GetConnect, B!TypeOK, Service
<1>2. incoming \in Seq(Port) /\ incoming' = Append(incoming, p) /\ UNCHANGED <<status, port>>
  BY DEF Connect, DeliverConnect, TypeOK
<1> HIDE DEF p
<1>3. Numbered'
  BY <1>2 DEF Numbered, UsedUpTo
<1>4. Accepted' = Accepted
  BY <1>2 DEF Accepted
<1>5. Accepted \in Seq(Port)
  BY AcceptedIs DEF Numbered
<1>6. Accepted \o Append(incoming, p) = Append(Accepted \o incoming, p)
  BY <1>1, <1>2, <1>5, ConcatAppend
<1>7. AcceptsInOrder'
  BY <1>1, <1>2, <1>4, <1>6 DEF AcceptsInOrder
<1> QED
  BY <1>3, <1>7

\* A new life of the worker begins with no descriptor and no connection.
NoneUsed ==
  /\ \A d \in Desc : status[d] = "unused" /\ port[d] = None
  /\ incoming = <<>> /\ arrived[Srv] = <<>>

LEMMA FreshOrder == NoneUsed => Numbered /\ AcceptsInOrder
<1> SUFFICES ASSUME NoneUsed PROVE Numbered /\ AcceptsInOrder
  OBVIOUS
<1>1. UsedUpTo(0) /\ 0 \in 0 .. Cardinality(Desc)
  BY Numbers DEF UsedUpTo, NoneUsed
<1>2. Accepted = PortsUpTo(port, 0)
  <2>1. \A d \in Desc : port[d] # None <=> d <= 0 /\ d # 1
    BY <1>1 DEF UsedUpTo
  <2> QED
    BY <1>1, <2>1, AcceptedPorts DEF Accepted, AcceptedOf
<1>3. PortsUpTo(port, 0) = <<>>
  BY DEF PortsUpTo
<1> QED
  BY <1>1, <1>2, <1>3 DEF Numbered, AcceptsInOrder, NoneUsed

\* Only main() creates a socket.
LEMMA CreateFirst ==
  ASSUME Calls, todo # <<>>, Head(todo).name = "create"
  PROVE  \A d \in Desc : status[d] = "unused"
<1> USE DEF CallOf
<1>1. CASE todo = <<CallOf("bind", 1), CallOf("listen", 1), CallOf("read", 1)>>
  BY <1>1
<1>2. CASE todo = <<CallOf("listen", 1), CallOf("read", 1)>>
  BY <1>2
<1>3. ASSUME NEW name \in {"read", "accept", "recv", "close"}, NEW d \in Desc,
             todo = <<CallOf(name, d)>>
      PROVE  FALSE
  BY <1>3
<1>4. ASSUME NEW name, NEW d \in Desc, NEW e \in Desc,
             todo = <<CallOf("read", e), CallOf(name, d)>>
      PROVE  FALSE
  BY <1>4
<1> QED
  BY <1>1, <1>2, <1>3, <1>4 DEF Calls

\* Numbered and AcceptsInOrder are kept by every step.
LEMMA OrderStep ==
  ASSUME B!TypeOK, StreamsInv, Calls, Numbered, AcceptsInOrder, [WorkerNext]_workerVars
  PROVE  Numbered' /\ AcceptsInOrder'
<1>t. TypeOK
  BY DEF StreamsInv
<1> USE DEF Service, socketVars, listenVars, brokerVars
<1>1. CASE UNCHANGED workerVars
  BY <1>1, OrderFrame DEF workerVars, vars
<1>2. CASE CCall
  <2> DEFINE d == Head(todo).socket
  <2>0. todo # <<>> /\ UNCHANGED arrived
    BY <1>2 DEF CCall
  <2>1. running /\ Possible(Head(todo))
    BY <2>0, CallsNeverFail DEF CallsSucceed
  <2>2. ASSUME NEW e \in Desc, IsNextDesc(e), SocketCreate(e), Head(todo).name = "create"
        PROVE  Numbered' /\ AcceptsInOrder'
    <3>1. \A c \in Desc : status[c] = "unused"
      BY <2>0, <2>2, CreateFirst
    <3>2. PICK n \in 0 .. Cardinality(Desc) : UsedUpTo(n)
      BY DEF Numbered
    <3>3. e = n + 1 /\ n \in Nat
      BY <2>2, <3>2, NextIs
    <3>4. n = 0
      BY <2>2, <3>1, <3>2, <3>3, Numbers DEF UsedUpTo
    <3>5. UsedUpTo(1)' /\ 1 \in 0 .. Cardinality(Desc)
      BY <1>t, <2>2, <3>2, <3>3, <3>4, Numbers DEF UsedUpTo, SocketCreate, TypeOK
    <3>6. UNCHANGED <<port, incoming>>
      BY <2>2 DEF SocketCreate
    <3> QED
      BY <2>0, <3>5, <3>6 DEF Numbered, AcceptsInOrder, Accepted
  <2>3. ASSUME d \in Desc, SocketBind(d) \/ SocketClose(d)
        PROVE  Numbered' /\ AcceptsInOrder'
    BY <1>t, <2>0, <2>3, OrderFrame DEF SocketBind, SocketClose, InSockets, TypeOK
  <2>4. ASSUME SocketListen(d) \/ \E id \in Timer : AddReadNet(d, id)
        PROVE  Numbered' /\ AcceptsInOrder'
    BY <2>0, <2>4, OrderFrame DEF SocketListen, AddReadNet
  <2>5. ASSUME NEW n, SocketRecv(d, n) PROVE Numbered' /\ AcceptsInOrder'
    BY <2>0, <2>5, OrderFrame DEF SocketRecv
  <2>6. ASSUME d \in Desc, NEW e \in Desc, IsNextDesc(e), SocketAccept(d, e)
        PROVE  Numbered' /\ AcceptsInOrder'
    BY <1>t, <2>0, <2>6, AcceptOrder
  <2>7. Head(todo).name \in {"bind", "accept", "close"} => d \in Desc
    BY <2>1 DEF Possible
  <2> QED
    BY <1>2, <2>2, <2>3, <2>4, <2>5, <2>6, <2>7 DEF CCall
<1>3. CASE CReturn
  BY <1>3, OrderFrame DEF CReturn, Return
<1>4. CASE Loading
  <2>1. UNCHANGED arrived
    BY <1>4 DEF Loading, B!OnConnect, B!GetInit, B!Loaded
  <2> QED
    BY <1>4, <2>1, OrderFrame DEF Loading, loopVars
<1>5. ASSUME NEW t \in Tab, Connect(t) PROVE Numbered' /\ AcceptsInOrder'
  BY <1>t, <1>5, ConnectOrder
<1>6. ASSUME NEW d \in Desc, Receive(d) PROVE Numbered' /\ AcceptsInOrder'
  BY <1>6, OrderFrame DEF Receive, Deliver
<1>7. ASSUME NEW id \in Timer, Fire(id) PROVE Numbered' /\ AcceptsInOrder'
  BY <1>7, OrderFrame DEF Fire, FireRead
<1>8. ASSUME NEW t \in Tab, NEW p \in Port, PageConnect(t, p)
      PROVE  Numbered' /\ AcceptsInOrder'
  BY <1>8, OrderFrame DEF PageConnect, B!PageConnect, RemoteConnect
<1>9. ASSUME NEW p \in Port, ClientSend(p) \/ ClientClose(p)
      PROVE  Numbered' /\ AcceptsInOrder'
  BY <1>9, OrderFrame DEF ClientSend, ClientClose, RemoteSend, RemoteClose
<1>10. ASSUME NEW t \in Tab, Load(t) PROVE Numbered' /\ AcceptsInOrder'
  BY <1>10, OrderFrame DEF Load, B!OpenTab, B!FinishLoad, vars
<1>11. ASSUME NEW t \in Tab, CloseTab(t) PROVE Numbered' /\ AcceptsInOrder'
  <2>1. CASE B!Alive(Srv) /\ ~B!AliveWith(Srv, B!OpenTabs \ {t})
    <3>1. arrived'[Srv] = <<>> /\ Died
      BY <1>11, <2>1 DEF CloseTab, B!CloseTab
    <3>2. NoneUsed'
      BY <3>1 DEF Died, NoneUsed
    <3> QED
      BY <3>2, FreshOrder, PTL
  <2>2. CASE ~(B!Alive(Srv) /\ ~B!AliveWith(Srv, B!OpenTabs \ {t}))
    <3>1. arrived'[Srv] = arrived[Srv] /\ UNCHANGED vars
      BY <1>11, <2>2 DEF CloseTab, B!CloseTab
    <3> QED
      BY <3>1, OrderFrame DEF vars
  <2> QED
    BY <2>1, <2>2
<1> QED
  BY <1>1, <1>2, <1>3, <1>4, <1>5, <1>6, <1>7, <1>8, <1>9, <1>10, <1>11 DEF WorkerNext, Step

\* Before main() there is no descriptor and no callback.
LEMMA MainStep ==
  ASSUME B!TypeOK, StreamsInv, Calls, MainFirst, [WorkerNext]_workerVars
  PROVE  MainFirst'
<1>t. TypeOK /\ TaskInv /\ WakeupInv /\ SocketLinks
  BY DEF StreamsInv, TaskInv
<1> DEFINE Used == \E d \in Desc : status[d] # "unused"
<1> USE DEF Service, socketVars, listenVars, brokerVars
<1>1. CASE UNCHANGED workerVars
  BY <1>1 DEF workerVars, vars, MainFirst
<1>2. CASE CCall
  <2>1. running /\ main' = main
    BY <1>2 DEF CCall, Calls
  <2> QED
    BY <2>1 DEF MainFirst
<1>3. CASE CReturn
  BY <1>3 DEF CReturn, Return, MainFirst
<1>4. CASE Loading
  <2>1. main[Srv] => main'[Srv]
    BY <1>4 DEF Loading, B!OnConnect, B!GetInit, B!Loaded, B!RemoveRunDependency, B!TypeOK,
                B!loadVars
  <2> QED
    BY <1>4, <2>1 DEF Loading, loopVars, MainFirst
<1>5. ASSUME NEW t \in Tab, Connect(t) PROVE MainFirst'
  <2>1. main' = main /\ status' = status
    BY <1>5 DEF Connect, B!GetConnect, B!loadVars, DeliverConnect
  <2>2. running' => Used
    BY <1>t, <1>5 DEF Connect, DeliverConnect, InSockets, TypeOK
  <2> QED
    BY <2>1, <2>2 DEF MainFirst
<1>6. ASSUME NEW d \in Desc, Receive(d) PROVE MainFirst'
  BY <1>6 DEF Receive, Deliver, InSockets, MainFirst
<1>7. ASSUME NEW id \in Timer, Fire(id) PROVE MainFirst'
  <2>1. main' = main /\ status' = status /\ FireRead(id)
    BY <1>7 DEF Fire, FireRead
  <2>2. CASE Registered(id)
    <3>1. task[closure[id].socket] = id /\ closure[id].socket \in Desc
      BY <1>t, <2>1, <2>2, ServiceLoopAssumption
      DEF FireRead, Registered, WakeupInv, TablesAgree, TaskInv, TaskLinks
    <3>2. Used
      BY <1>t, <3>1, NoneAssumption DEF SocketLinks, TypeOK
    <3> QED
      BY <2>1, <3>2 DEF MainFirst
  <2>3. CASE ~Registered(id)
    BY <2>1, <2>3 DEF FireRead, MainFirst
  <2> QED
    BY <2>2, <2>3
<1>8. ASSUME NEW t \in Tab, NEW p \in Port, PageConnect(t, p) PROVE MainFirst'
  BY <1>8 DEF PageConnect, B!PageConnect, B!loadVars, RemoteConnect, MainFirst
<1>9. ASSUME NEW p \in Port, ClientSend(p) \/ ClientClose(p) PROVE MainFirst'
  BY <1>9 DEF ClientSend, ClientClose, RemoteSend, RemoteClose, MainFirst
<1>10. ASSUME NEW t \in Tab, Load(t) PROVE MainFirst'
  BY <1>10 DEF Load, B!OpenTab, B!FinishLoad, B!loadVars, vars, MainFirst
<1>11. ASSUME NEW t \in Tab, CloseTab(t) PROVE MainFirst'
  <2>1. CASE B!Alive(Srv) /\ ~B!AliveWith(Srv, B!OpenTabs \ {t})
    BY <1>11, <2>1 DEF CloseTab, Died, MainFirst
  <2>2. CASE ~(B!Alive(Srv) /\ ~B!AliveWith(Srv, B!OpenTabs \ {t}))
    <3>1. main'[Srv] = main[Srv] /\ UNCHANGED vars
      BY <1>11, <2>2 DEF CloseTab, B!CloseTab
    <3> QED
      BY <3>1 DEF vars, MainFirst
  <2> QED
    BY <2>1, <2>2
<1> QED
  BY <1>1, <1>2, <1>3, <1>4, <1>5, <1>6, <1>7, <1>8, <1>9, <1>10, <1>11 DEF WorkerNext, Step

-----------------------------------------------------------------------------
(* The theorems.                                                           *)

LEMMA WorkerStart == WorkerInit => WorkerInv
<1> SUFFICES ASSUME WorkerInit PROVE WorkerInv
  OBVIOUS
<1> USE DEF WorkerInit, Fresh
<1>1. TypeOK
  <2>1. <<>> \in Seq(Message) /\ <<>> \in Seq(Port) /\ NoClosure \in Closure
    BY DEF NoClosure, Closure
  <2> QED
    BY <2>1 DEF TypeOK
<1>2. TaskInv
  BY NoneAssumption DEF TaskInv, RunsAtMostOnce, TimersArmed, TaskLinks, SocketLinks, IsRead, NoClosure
<1>3. WakeupInv
  BY DEF WakeupInv, TablesAgree, NoLostWakeup
<1>4. ConnectionInv
  <2>1. incoming = <<>> /\ 1 .. Len(incoming) = {}
    OBVIOUS
  <2> QED
    BY <2>1, NoneAssumption DEF ConnectionInv, ConnectionsUnique, PortLinks, InSockets
<1>5. StreamInv
  <2>1. \A d \in Desc : QueueOK(d)
    BY DEF QueueOK, InSockets
  <2>2. ASSUME NEW p \in Port PROVE WireOK(p) /\ FreshOK(p) /\ EndOK(p)
    <3>1. wire[p] = <<>> /\ sent[p] = 0 /\ Delivered(p) = 0
      BY DEF Delivered
    <3>2. Contiguous(<<>>, 0, 0) /\ Bounded(<<>>, 0, 0, hungup[p])
      BY DEF Contiguous, Bounded
    <3>3. FreshOK(p) /\ EndOK(p)
      BY <3>1 DEF FreshOK, EndOK
    <3> HIDE DEF WorkerInit, Fresh
    <3>4. WireOK(p)
      BY <3>1, <3>2 DEF WireOK
    <3> QED
      BY <3>3, <3>4
  <2> QED
    BY <2>1, <2>2, StreamParts
<1>6. Calls /\ MainFirst
  BY DEF Calls, MainFirst
<1>7. Numbered /\ AcceptsInOrder
  BY FreshOrder DEF NoneUsed, B!Init, Service
<1> QED
  BY <1>1, <1>2, <1>3, <1>4, <1>5, <1>6, <1>7 DEF WorkerInv, StreamsInv

\* The invariant of the composition, relative to the types of the switchboard.
LEMMA WorkerInvariant == WorkerSpec => []WorkerInv
<1>1. B!TypeOK /\ WorkerInv /\ [WorkerNext]_workerVars => WorkerInv'
  BY LoopInvariants, CallsStep, OrderStep, MainStep DEF WorkerInv
<1> QED
  BY WorkerStart, <1>1, SwitchboardTyped, PTL DEF WorkerSpec

\* What a service accepts is what was delivered to it in this life of its worker, each
\* connection once and in the order of arrival.
THEOREM ServiceAcceptsInOrder == WorkerSpec => []AcceptsInOrder
<1>1. WorkerInv => AcceptsInOrder
  BY DEF WorkerInv
<1> QED
  BY WorkerInvariant, <1>1, PTL

\* No call of the service loop fails.
THEOREM ServiceCallsSucceed == WorkerSpec => []CallsSucceed
<1>1. WorkerInv => CallsSucceed
  BY CallsNeverFail DEF WorkerInv
<1> QED
  BY WorkerInvariant, <1>1, PTL

\* No C code runs in a worker that has no private key: the switchboard calls main()
\* after an 'init' only, and the event loop enters nothing before main().
RunsWithKey == running => main[Srv] /\ key[Srv] # None

\* The key theorem of Broker and the order of main() and callbacks, together.
THEOREM ServiceRunsWithKey == WorkerSpec => []RunsWithKey
<1>1. BP!KeyBeforeUse /\ WorkerInv => RunsWithKey
  BY DEF BP!KeyBeforeUse, WorkerInv, MainFirst, RunsWithKey, Service
<1> QED
  BY <1>1, BrokerAssumptions, WorkerImplementsBroker, BP!KeyIsThere, WorkerInvariant, PTL

\* A connection the switchboard carries is in one place, with the event loop at the
\* end of its way.
THEOREM WorkerConnectionOnce == WorkerSpec => []BP!ConnectionOnce
BY BrokerAssumptions, WorkerImplementsBroker, BP!ConnectionIsOnce, PTL

\* A death of the worker leaves no connection with two owners in the next life, and
\* none without.
THEOREM WorkerConnectionsUnique == WorkerSpec => []ConnectionsUnique
<1>1. WorkerInv => ConnectionsUnique
  BY DEF WorkerInv, StreamsInv, ConnectionInv
<1> QED
  BY WorkerInvariant, <1>1, PTL

\* No read task of any life waits for a timer that has fired while there is something
\* to read.
THEOREM WorkerWakeupNotLost == WorkerSpec => []NoLostWakeup
<1>1. WorkerInv => NoLostWakeup
  BY DEF WorkerInv, StreamsInv, WakeupInv
<1> QED
  BY WorkerInvariant, <1>1, PTL

\* The bytes of every port stay in order through the lives of the worker, and its end
\* of file comes last.
THEOREM WorkerStreamsIntact == WorkerSpec => [](StreamIntact /\ EofLast)
<1>1. WorkerInv => StreamIntact /\ EofLast
  BY DEF WorkerInv, StreamsInv, StreamInv
<1> QED
  BY WorkerInvariant, <1>1, PTL

\* A start or a death runs no task.
LEMMA WorkerHandlerStep ==
  ASSUME B!TypeOK, WorkerInv, [WorkerNext]_workerVars
  PROVE  \A id \in Timer :
           IsRead(id) /\ ran'[id] > ran[id] =>
             LET d == closure[id].socket
             IN  /\ IF d = listening THEN incoming' # <<>> ELSE queue'[d] # <<>>
                 /\ Disciplined => InSockets(d)
<1>1. CASE [Next]_vars
  BY <1>1, HandlerStep DEF WorkerInv, StreamsInv
<1>2. CASE Started
  <2>1. ran' = ran /\ ran \in [Timer -> Nat]
    BY <1>2 DEF Started, loopVars, runVars, WorkerInv, StreamsInv, TypeOK
  <2> QED
    BY <2>1
<1>3. CASE Died
  <2>1. ran' = [id \in Timer |-> 0] /\ ran \in [Timer -> Nat]
    BY <1>3 DEF Died, WorkerInv, StreamsInv, TypeOK
  <2> QED
    BY <2>1
<1> QED
  BY <1>1, <1>2, <1>3, LoopStep DEF WorkerInv

\* In a composition with the switchboard, too, a read handler is entered only on a
\* socket that has something to read.
THEOREM WorkerHandlersHaveWork == WorkerSpec => HandlerHasWork
<1>1. B!TypeOK /\ WorkerInv /\ [WorkerNext]_workerVars =>
        \A id \in Timer :
          IsRead(id) /\ ran'[id] > ran[id] =>
            LET d == closure[id].socket
            IN  /\ IF d = listening THEN incoming' # <<>> ELSE queue'[d] # <<>>
                /\ Disciplined => InSockets(d)
  BY WorkerHandlerStep
<1> QED
  BY <1>1, WorkerInvariant, SwitchboardTyped, PTL DEF HandlerHasWork, WorkerSpec

\* Loading, tabs and deaths are invisible to the stream: every port of the composition
\* carries the byte stream of module Stream.
THEOREM WorkerImplementsStream == WorkerSpec => ImplementsStream
<1>1. WorkerInit => Abstract!Init
  BY DEF WorkerInit, Abstract!Init
<1>2. B!TypeOK /\ WorkerInv /\ [WorkerNext]_workerVars => [Abstract!Next]_(Abstract!vars)
  <2> SUFFICES ASSUME B!TypeOK, WorkerInv, [WorkerNext]_workerVars
               PROVE  [Abstract!Next]_(Abstract!vars)
    OBVIOUS
  <2>1. CASE [Next]_vars
    BY <2>1, AbstractStep DEF WorkerInv
  <2>2. CASE Started \/ Died
    BY <2>2 DEF Started, Died, loopVars, portVars, readVars, Abstract!vars
  <2> QED
    BY <2>1, <2>2, LoopStep DEF WorkerInv
<1> QED
  BY <1>1, <1>2, WorkerInvariant, SwitchboardTyped, PTL
  DEF WorkerSpec, ImplementsStream, Abstract!Spec

=============================================================================
