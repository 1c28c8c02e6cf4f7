---------------------------- MODULE NetworkProofs ----------------------------
(***************************************************************************)
(* Theorems about Network, for any set of descriptors, timers and ports    *)
(* and any number of bytes: first its tasks, then connections and byte     *)
(* streams, which implement Stream.                                        *)
(***************************************************************************)
EXTENDS Network, SequenceTheorems, TLAPS

-----------------------------------------------------------------------------
(* Messages.                                                               *)

LEMMA ChunkType ==
  ASSUME NEW s \in Nat, NEW n \in Nat
  PROVE  Chunk(s, n) \in Message /\ CloseMessage(s) \in Message
BY DEF Chunk, CloseMessage, Message

\* Reading keeps a queue a queue of messages.
LEMMA AfterReadType ==
  ASSUME NEW q \in Seq(Message), q # <<>>, NEW n \in Nat
  PROVE  /\ AfterRead(q, n) \in Seq(Message)
         /\ Tail(q) \in Seq(Message)
<1>1. Tail(q) \in Seq(Message)
  OBVIOUS
<1>2. [q EXCEPT ![1].first = @ + n] \in Seq(Message)
  <2>1. 1 \in 1 .. Len(q) /\ q[1] \in Message
    OBVIOUS
  <2>2. [q[1] EXCEPT !.first = @ + n] \in Message
    BY <2>1 DEF Message
  <2> QED
    BY <2>1, <2>2
<1> QED
  BY <1>1, <1>2 DEF AfterRead

-----------------------------------------------------------------------------
(* Type correctness.                                                       *)

LEMMA TypeInit == Init => TypeOK
BY NoneAssumption DEF Init, TypeOK, NoClosure, Closure

LEMMA RunType ==
  ASSUME TypeOK, NEW id \in Timer, Run(id)
  PROVE  running' \in BOOLEAN /\ ran' \in [Timer -> Nat] /\ cancelled' \subseteq Timer
BY DEF TypeOK, Run

LEMMA TypeStep == TypeOK /\ [Next]_vars => TypeOK'
<1> SUFFICES ASSUME TypeOK, [Next]_vars PROVE TypeOK'
  OBVIOUS
<1> USE DEF vars, socketVars, listenVars, taskVars, portVars, readVars, runVars
<1>1. ASSUME NEW d \in Desc, SocketCreate(d) PROVE TypeOK'
  BY <1>1 DEF TypeOK, SocketCreate
<1>2. ASSUME NEW d \in Desc, NEW p \in Port, SocketConnect(d, p) PROVE TypeOK'
  BY <1>2 DEF TypeOK, SocketConnect
<1>3. ASSUME NEW d \in Desc, SocketBind(d) PROVE TypeOK'
  BY <1>3 DEF TypeOK, SocketBind
<1>4. ASSUME NEW d \in Desc, SocketListen(d) PROVE TypeOK'
  BY <1>4 DEF TypeOK, SocketListen
<1>5. ASSUME NEW d \in Desc, NEW sd \in Desc, SocketAccept(d, sd) PROVE TypeOK'
  <2>1. incoming \in Seq(Port) /\ incoming # <<>>
    BY <1>5 DEF TypeOK, SocketAccept
  <2>2. incoming' = Tail(incoming) /\ Tail(incoming) \in Seq(Port) /\ Head(incoming) \in Port
    BY <1>5, <2>1 DEF SocketAccept, IncomingAfterAccept
  <2>3. /\ status' \in [Desc -> {"unused", "created", "open", "closed"}]
        /\ port' \in [Desc -> Port \cup {None}]
    BY <1>5, <2>2 DEF TypeOK, SocketAccept
  <2> QED
    BY <1>5, <2>2, <2>3 DEF TypeOK, SocketAccept
<1>6. ASSUME NEW d \in Desc, NEW n \in 1 .. MaxByte, SocketRecv(d, n) PROVE TypeOK'
  <2>1. CASE Head(queue[d]).close
    BY <1>6, <2>1 DEF TypeOK, SocketRecv
  <2>2. CASE ~Head(queue[d]).close
    <3>1. queue[d] \in Seq(Message) /\ queue[d] # <<>> /\ n \in Nat \ {0}
      BY <1>6, MaxByteAssumption DEF TypeOK, SocketRecv
    <3>2. AfterRead(queue[d], n) \in Seq(Message)
      BY <3>1, AfterReadType
    <3>3. Head(queue[d]) \in Message
      BY <3>1
    <3>4. Head(queue[d]).first + Taken(Head(queue[d]), n) - 1 \in Nat
      BY <3>1, <3>3 DEF Message, Taken, Size
    <3> QED
      BY <1>6, <2>2, <3>2, <3>4 DEF TypeOK, SocketRecv
  <2> QED
    BY <2>1, <2>2
<1>7. ASSUME NEW d \in Desc, SocketClose(d) PROVE TypeOK'
  BY <1>7 DEF TypeOK, SocketClose
<1>8. ASSUME NEW id \in Timer, AddDelayed(id) PROVE TypeOK'
  BY <1>8 DEF TypeOK, AddDelayed, AddTask, Closure
<1>9. ASSUME NEW d \in Desc, NEW id \in Timer, AddReadNet(d, id) PROVE TypeOK'
  BY <1>9 DEF TypeOK, AddReadNet, AddTask, Closure
<1>10. ASSUME NEW d \in Desc, NEW id \in Timer, AddWriteNet(d, id) PROVE TypeOK'
  BY <1>10 DEF TypeOK, AddWriteNet, AddTask, Closure
<1>11. ASSUME NEW id \in Timer, Cancel(id) PROVE TypeOK'
  BY <1>11 DEF TypeOK, Cancel, Removed, TaskAfterCancel
<1>12. ASSUME Return PROVE TypeOK'
  BY <1>12 DEF TypeOK, Return
<1>13. ASSUME NEW d \in Desc, Deliver(d) PROVE TypeOK'
  <2>1. /\ queue' \in [Desc -> Seq(Message)]
        /\ wire' \in [Port -> Seq(Message)]
    BY <1>13 DEF TypeOK, Deliver, Pushed
  <2>2. CASE Waiting(d)
    <3>1. task[d] \in Timer
      BY <2>2 DEF TypeOK, Waiting
    <3>2. Run(task[d]) /\ SCHEDULER_TASKS' = Removed(task[d]) /\ task' = [task EXCEPT ![d] = None]
      BY <1>13, <2>2 DEF Deliver
    <3> QED
      BY <1>13, <2>1, <3>1, <3>2, RunType DEF TypeOK, Deliver, Removed
  <2>3. CASE ~Waiting(d)
    BY <1>13, <2>1, <2>3 DEF TypeOK, Deliver
  <2> QED
    BY <2>2, <2>3
<1>14. ASSUME NEW p \in Port, DeliverConnect(p) PROVE TypeOK'
  <2> DEFINE waits == listening # None /\ InSockets(listening) /\ Waiting(listening)
  <2>1. CASE waits
    <3>1. listening \in Desc /\ task[listening] \in Timer
      BY <2>1 DEF TypeOK, Waiting
    <3>2. /\ Run(task[listening])
          /\ SCHEDULER_TASKS' = Removed(task[listening])
          /\ task' = [task EXCEPT ![listening] = None]
      BY <1>14, <2>1 DEF DeliverConnect
    <3>3. running' \in BOOLEAN /\ ran' \in [Timer -> Nat] /\ cancelled' \subseteq Timer
      BY <3>1, <3>2, RunType
    <3>4. SCHEDULER_TASKS' \subseteq Timer /\ task' \in [Desc -> Timer \cup {None}]
      BY <3>2 DEF TypeOK, Removed
    <3>5. /\ incoming' \in Seq(Port)
          /\ link' \in [Port -> {"unused", "connecting", "live", "closed"}]
      BY <1>14 DEF TypeOK, DeliverConnect
    <3> QED
      BY <1>14, <3>3, <3>4, <3>5 DEF TypeOK, DeliverConnect
  <2>2. CASE ~waits
    BY <1>14, <2>2 DEF TypeOK, DeliverConnect
  <2> QED
    BY <2>1, <2>2
<1>15. ASSUME NEW id \in Timer, FireRead(id) PROVE TypeOK'
  <2>1. CASE Ready(closure[id].socket) /\ Registered(id)
    <3>1. /\ Run(id)
          /\ SCHEDULER_TASKS' = Removed(id)
          /\ task' = [task EXCEPT ![closure[id].socket] = None]
      BY <1>15, <2>1 DEF FireRead
    <3> QED
      BY <1>15, <3>1, RunType DEF TypeOK, FireRead, Removed
  <2>2. CASE ~(Ready(closure[id].socket) /\ Registered(id))
    BY <1>15, <2>2 DEF TypeOK, FireRead
  <2> QED
    BY <2>1, <2>2
<1>16. ASSUME NEW id \in Timer, FireWrite(id) PROVE TypeOK'
  <2>1. CASE Registered(id)
    <3>1. Run(id) /\ SCHEDULER_TASKS' = Removed(id)
      BY <1>16, <2>1 DEF FireWrite
    <3> QED
      BY <1>16, <3>1, RunType DEF TypeOK, FireWrite, Removed
  <2>2. CASE ~Registered(id)
    BY <1>16, <2>2 DEF TypeOK, FireWrite
  <2> QED
    BY <2>1, <2>2
<1>17. ASSUME NEW id \in Timer, FireDelayed(id) PROVE TypeOK'
  <2>1. Run(id) /\ SCHEDULER_TASKS' = Removed(id) /\ timers' = timers \ {id}
    BY <1>17 DEF FireDelayed
  <2> QED
    BY <1>17, <2>1, RunType DEF TypeOK, FireDelayed, Removed
<1>18. ASSUME NEW p \in Port, RemoteConnect(p) PROVE TypeOK'
  BY <1>18 DEF TypeOK, RemoteConnect
<1>19. ASSUME NEW p \in Port, NEW n \in 1 .. MaxByte, RemoteSend(p, n) PROVE TypeOK'
  BY <1>19, ChunkType DEF TypeOK, RemoteSend
<1>20. ASSUME NEW p \in Port, RemoteClose(p) PROVE TypeOK'
  BY <1>20, ChunkType DEF TypeOK, RemoteClose
<1>21. CASE UNCHANGED vars
  BY <1>21 DEF TypeOK
<1> QED
  BY <1>1, <1>2, <1>3, <1>4, <1>5, <1>6, <1>7, <1>8, <1>9, <1>10, <1>11, <1>12,
     <1>13, <1>14, <1>15, <1>16, <1>17, <1>18, <1>19, <1>20, <1>21
  DEF Next, Call, Event, Remote

LEMMA TaskStep == TypeOK /\ TaskInv /\ [Next]_vars => TaskInv'
<1> SUFFICES ASSUME TypeOK, TaskInv, [Next]_vars PROVE TaskInv'
  OBVIOUS
<1> USE DEF TaskInv, RunsAtMostOnce, TimersArmed, TaskLinks, SocketLinks,
            TypeOK, Closure, IsRead, InSockets
<1> USE DEF vars, socketVars, listenVars, taskVars, portVars, readVars, runVars
<1> USE NoneAssumption
<1>1. ASSUME NEW d \in Desc, SocketCreate(d) PROVE TaskInv'
  BY <1>1 DEF SocketCreate
<1>2. ASSUME NEW d \in Desc, NEW p \in Port, SocketConnect(d, p) PROVE TaskInv'
  BY <1>2 DEF SocketConnect
<1>3. ASSUME NEW d \in Desc, SocketBind(d) PROVE TaskInv'
  BY <1>3 DEF SocketBind
<1>4. ASSUME NEW d \in Desc, SocketListen(d) PROVE TaskInv'
  BY <1>4 DEF SocketListen
<1>5. ASSUME NEW d \in Desc, NEW sd \in Desc, SocketAccept(d, sd) PROVE TaskInv'
  <2>1. Head(incoming) \in Port
    BY <1>5 DEF SocketAccept
  <2>2. /\ status' = [status EXCEPT ![sd] = "open"]
        /\ port' = [port EXCEPT ![sd] = Head(incoming)]
        /\ UNCHANGED <<queue, task, listening, SCHEDULER_TASKS, closure, timers, ran, cancelled>>
        /\ status[sd] = "unused" /\ status[d] = "open" /\ listening = d
    BY <1>5 DEF SocketAccept
  <2>3. RunsAtMostOnce' /\ TimersArmed'
    BY <2>2
  <2>4. TaskLinks'
    <3>1. ASSUME NEW c \in Desc, task'[c] # None
          PROVE  /\ closure'[task'[c]] = [kind |-> "read", socket |-> c]
                 /\ InSockets(c)' => task'[c] \in SCHEDULER_TASKS'
                 /\ port'[c] # None \/ listening' = c
      <4>1. c # sd /\ task[c] # None
        BY <2>2, <3>1
      <4>2. status'[c] = status[c] /\ port'[c] = port[c]
        BY <2>2, <4>1
      <4> QED
        BY <2>2, <4>1, <4>2
    <3> QED
      BY <2>2, <3>1
  <2>5. SocketLinks'
    BY <2>1, <2>2
  <2> QED
    BY <2>3, <2>4, <2>5
<1>6. ASSUME NEW d \in Desc, NEW n \in 1 .. MaxByte, SocketRecv(d, n) PROVE TaskInv'
  BY <1>6 DEF SocketRecv
<1>7. ASSUME NEW d \in Desc, SocketClose(d) PROVE TaskInv'
  BY <1>7 DEF SocketClose
<1>8. ASSUME NEW id \in Timer, AddDelayed(id) PROVE TaskInv'
  BY <1>8 DEF AddDelayed, AddTask, NoClosure
<1>9. ASSUME NEW d \in Desc, NEW id \in Timer, AddReadNet(d, id) PROVE TaskInv'
  BY <1>9 DEF AddReadNet, AddTask, NoClosure
<1>10. ASSUME NEW d \in Desc, NEW id \in Timer, AddWriteNet(d, id) PROVE TaskInv'
  BY <1>10 DEF AddWriteNet, AddTask, NoClosure
<1>11. ASSUME NEW id \in Timer, Cancel(id) PROVE TaskInv'
  BY <1>11 DEF Cancel, Removed, TaskAfterCancel, Registered, NoClosure
<1>12. ASSUME Return PROVE TaskInv'
  BY <1>12 DEF Return
<1>13. ASSUME NEW d \in Desc, Deliver(d) PROVE TaskInv'
  <2>1. CASE Waiting(d)
    <3>1. /\ Run(task[d])
          /\ SCHEDULER_TASKS' = Removed(task[d])
          /\ task' = [task EXCEPT ![d] = None]
      BY <1>13, <2>1 DEF Deliver
    <3>2. task[d] \in Timer /\ task[d] \in SCHEDULER_TASKS
      BY <1>13, <2>1 DEF Waiting, Deliver
    <3>3. RunsAtMostOnce'
      BY <1>13, <3>1, <3>2 DEF Deliver, Removed, Run
    <3>4. TimersArmed'
      BY <1>13, <3>1, <3>2 DEF Deliver, Removed
    <3>5. TaskLinks'
      <4>1. ASSUME NEW e \in Desc, task'[e] # None
            PROVE  /\ closure'[task'[e]] = [kind |-> "read", socket |-> e]
                   /\ InSockets(e)' => task'[e] \in SCHEDULER_TASKS'
                   /\ port'[e] # None \/ listening' = e
        <5>1. e # d /\ task[e] = task'[e]
          BY <3>1, <3>2, <4>1
        <5>2. /\ closure[task[e]] = [kind |-> "read", socket |-> e]
              /\ closure[task[d]] = [kind |-> "read", socket |-> d]
          <6> HIDE DEF TypeOK, RunsAtMostOnce, TimersArmed, SocketLinks
          <6> QED
            BY <3>2, <4>1, <5>1
        <5>3. task[e] # task[d]
          BY <5>1, <5>2
        <5> QED
          BY <1>13, <3>1, <4>1, <5>1, <5>3 DEF Deliver, Removed
      <4>2. \A id \in Timer :
              /\ closure'[id].kind = "unused" =>
                   id \notin SCHEDULER_TASKS' \cup timers' \cup cancelled' /\ ran'[id] = 0
              /\ IsRead(id)' => closure'[id].socket \in Desc
              /\ id \in cancelled' => id \notin timers'
              /\ id \in timers' /\ closure'[id].kind = "delayed" => id \in SCHEDULER_TASKS'
        <5> HIDE DEF SocketLinks
        <5>1. closure' = closure /\ timers' = timers /\ cancelled' = cancelled
          BY <1>13, <3>1 DEF Deliver, Run
        <5>2. SCHEDULER_TASKS' = SCHEDULER_TASKS \ {task[d]}
          BY <3>1 DEF Removed
        <5>3. closure[task[d]].kind = "read"
          <6> HIDE DEF TypeOK, RunsAtMostOnce, TimersArmed
          <6>1. closure[task[d]] = [kind |-> "read", socket |-> d]
            BY <3>2
          <6> QED
            BY <6>1
        <5>4. ran' = [ran EXCEPT ![task[d]] = @ + 1]
          BY <3>1 DEF Run
        <5> QED
          BY <3>2, <5>1, <5>2, <5>3, <5>4
      <4> QED
        BY <4>1, <4>2
    <3>6. SocketLinks'
      BY <1>13, <3>1, <3>2 DEF Deliver
    <3> QED
      BY <3>3, <3>4, <3>5, <3>6
  <2>2. CASE ~Waiting(d)
    BY <1>13, <2>2 DEF Deliver
  <2> QED
    BY <2>1, <2>2
<1>14. ASSUME NEW p \in Port, DeliverConnect(p) PROVE TaskInv'
  <2> DEFINE waits == listening # None /\ InSockets(listening) /\ Waiting(listening)
  <2>1. CASE waits
    <3>1. /\ Run(task[listening])
          /\ SCHEDULER_TASKS' = Removed(task[listening])
          /\ task' = [task EXCEPT ![listening] = None]
      BY <1>14, <2>1 DEF DeliverConnect
    <3>2. listening \in Desc /\ task[listening] \in Timer /\ task[listening] \in SCHEDULER_TASKS
      BY <2>1 DEF Waiting
    <3>3. RunsAtMostOnce'
      BY <1>14, <3>1, <3>2 DEF DeliverConnect, Removed, Run
    <3>4. TimersArmed'
      BY <1>14, <3>1, <3>2 DEF DeliverConnect, Removed
    <3>5. TaskLinks'
      <4>1. ASSUME NEW e \in Desc, task'[e] # None
            PROVE  /\ closure'[task'[e]] = [kind |-> "read", socket |-> e]
                   /\ InSockets(e)' => task'[e] \in SCHEDULER_TASKS'
                   /\ port'[e] # None \/ listening' = e
        <5>1. e # listening /\ task[e] = task'[e]
          BY <3>1, <3>2, <4>1
        <5>2. /\ closure[task[e]] = [kind |-> "read", socket |-> e]
              /\ closure[task[listening]] = [kind |-> "read", socket |-> listening]
          <6> HIDE DEF TypeOK, RunsAtMostOnce, TimersArmed, SocketLinks
          <6> QED
            BY <3>2, <4>1, <5>1
        <5>3. task[e] # task[listening]
          BY <5>1, <5>2
        <5> QED
          BY <1>14, <3>1, <4>1, <5>1, <5>3 DEF DeliverConnect, Removed
      <4>2. \A id \in Timer :
              /\ closure'[id].kind = "unused" =>
                   id \notin SCHEDULER_TASKS' \cup timers' \cup cancelled' /\ ran'[id] = 0
              /\ IsRead(id)' => closure'[id].socket \in Desc
              /\ id \in cancelled' => id \notin timers'
              /\ id \in timers' /\ closure'[id].kind = "delayed" => id \in SCHEDULER_TASKS'
        <5> HIDE DEF SocketLinks
        <5>1. closure' = closure /\ timers' = timers /\ cancelled' = cancelled
          BY <1>14, <3>1 DEF DeliverConnect, Run
        <5>2. SCHEDULER_TASKS' = SCHEDULER_TASKS \ {task[listening]}
          BY <3>1 DEF Removed
        <5>3. closure[task[listening]].kind = "read"
          <6> HIDE DEF TypeOK, RunsAtMostOnce, TimersArmed
          <6>1. closure[task[listening]] = [kind |-> "read", socket |-> listening]
            BY <3>2
          <6> QED
            BY <6>1
        <5>4. ran' = [ran EXCEPT ![task[listening]] = @ + 1]
          BY <3>1 DEF Run
        <5> QED
          BY <3>2, <5>1, <5>2, <5>3, <5>4
      <4> QED
        BY <4>1, <4>2
    <3>6. SocketLinks'
      BY <1>14, <3>1, <3>2 DEF DeliverConnect
    <3> QED
      BY <3>3, <3>4, <3>5, <3>6
  <2>2. CASE ~waits
    BY <1>14, <2>2 DEF DeliverConnect
  <2> QED
    BY <2>1, <2>2
<1>15. ASSUME NEW id \in Timer, FireRead(id) PROVE TaskInv'
  <2>1. CASE Ready(closure[id].socket) /\ Registered(id)
    <3>1. /\ Run(id)
          /\ SCHEDULER_TASKS' = Removed(id)
          /\ task' = [task EXCEPT ![closure[id].socket] = None]
      BY <1>15, <2>1 DEF FireRead
    <3> QED
      BY <1>15, <2>1, <3>1 DEF FireRead, Removed, Run, Registered
  <2>2. CASE ~(Ready(closure[id].socket) /\ Registered(id))
    BY <1>15, <2>2 DEF FireRead
  <2> QED
    BY <2>1, <2>2
<1>16. ASSUME NEW id \in Timer, FireWrite(id) PROVE TaskInv'
  <2>1. CASE Registered(id)
    <3>1. Run(id) /\ SCHEDULER_TASKS' = Removed(id)
      BY <1>16, <2>1 DEF FireWrite
    <3> QED
      BY <1>16, <2>1, <3>1 DEF FireWrite, Removed, Run, Registered
  <2>2. CASE ~Registered(id)
    BY <1>16, <2>2 DEF FireWrite, Registered
  <2> QED
    BY <2>1, <2>2
<1>17. ASSUME NEW id \in Timer, FireDelayed(id) PROVE TaskInv'
  BY <1>17 DEF FireDelayed, Removed, Run
<1>18. ASSUME NEW p \in Port, RemoteConnect(p) PROVE TaskInv'
  BY <1>18 DEF RemoteConnect
<1>19. ASSUME NEW p \in Port, NEW n \in 1 .. MaxByte, RemoteSend(p, n) PROVE TaskInv'
  BY <1>19 DEF RemoteSend
<1>20. ASSUME NEW p \in Port, RemoteClose(p) PROVE TaskInv'
  BY <1>20 DEF RemoteClose
<1>21. CASE UNCHANGED vars
  BY <1>21
<1> QED
  BY <1>1, <1>2, <1>3, <1>4, <1>5, <1>6, <1>7, <1>8, <1>9, <1>10, <1>11, <1>12, <1>13, <1>14, <1>15, <1>16, <1>17, <1>18, <1>19, <1>20, <1>21
  DEF Next, Call, Event, Remote

LEMMA WakeupStep ==
  TypeOK /\ TaskInv /\ WakeupInv /\ [Next]_vars => WakeupInv'
<1> SUFFICES ASSUME TypeOK, TaskInv, WakeupInv, [Next]_vars, Disciplined PROVE WakeupInv'
  BY DEF WakeupInv, TablesAgree, NoLostWakeup
<1> USE NoneAssumption
<1> USE DEF WakeupInv, TablesAgree, NoLostWakeup, TaskInv, TaskLinks, SocketLinks,
            TypeOK, Closure, IsRead, InSockets, Ready
<1> USE DEF vars, socketVars, listenVars, taskVars, portVars, readVars, runVars
<1>1. ASSUME NEW d \in Desc, SocketCreate(d) PROVE WakeupInv'
  BY <1>1 DEF SocketCreate
<1>2. ASSUME NEW d \in Desc, NEW p \in Port, SocketConnect(d, p) PROVE WakeupInv'
  BY <1>2 DEF SocketConnect
<1>3. ASSUME NEW d \in Desc, SocketBind(d) PROVE WakeupInv'
  BY <1>3 DEF SocketBind
<1>4. ASSUME NEW d \in Desc, SocketListen(d) PROVE WakeupInv'
  BY <1>4 DEF SocketListen
<1>5. ASSUME NEW d \in Desc, NEW sd \in Desc, SocketAccept(d, sd) PROVE WakeupInv'
  <2>1. TablesAgree'
    BY <1>5 DEF SocketAccept
  <2>2. NoLostWakeup'
    BY <1>5 DEF SocketAccept
  <2> QED
    BY <2>1, <2>2
<1>6. ASSUME NEW d \in Desc, NEW n \in 1 .. MaxByte, SocketRecv(d, n) PROVE WakeupInv'
  <2>1. TablesAgree'
    BY <1>6 DEF SocketRecv
  <2>2. \A e \in Desc : queue'[e] # <<>> => queue[e] # <<>>
    BY <1>6 DEF SocketRecv
  <2>3. NoLostWakeup'
    BY <1>6, <2>2 DEF SocketRecv
  <2> QED
    BY <2>1, <2>3
<1>7. ASSUME NEW d \in Desc, SocketClose(d) PROVE WakeupInv'
  BY <1>7 DEF SocketClose
<1>8. ASSUME NEW id \in Timer, AddDelayed(id) PROVE WakeupInv'
  BY <1>8 DEF AddDelayed, AddTask, NoClosure
<1>9. ASSUME NEW d \in Desc, NEW id \in Timer, AddReadNet(d, id) PROVE WakeupInv'
  BY <1>9 DEF AddReadNet, AddTask, NoClosure
<1>10. ASSUME NEW d \in Desc, NEW id \in Timer, AddWriteNet(d, id) PROVE WakeupInv'
  BY <1>10 DEF AddWriteNet, AddTask, NoClosure
<1>11. ASSUME NEW id \in Timer, Cancel(id) PROVE WakeupInv'
  BY <1>11 DEF Cancel, Removed, TaskAfterCancel, Registered, NoClosure
<1>12. ASSUME Return PROVE WakeupInv'
  BY <1>12 DEF Return
<1>13. ASSUME NEW d \in Desc, Deliver(d) PROVE WakeupInv'
  <2>1. CASE Waiting(d)
    <3>1. SCHEDULER_TASKS' = Removed(task[d]) /\ task' = [task EXCEPT ![d] = None]
      BY <1>13, <2>1 DEF Deliver
    <3>2. d \in Desc /\ task[d] \in Timer /\ closure[task[d]] = [kind |-> "read", socket |-> d]
      BY <1>13, <2>1 DEF Waiting, Deliver
    <3>3. TablesAgree'
      BY <1>13, <3>1, <3>2 DEF Deliver, Removed
    <3>4. \A e \in Desc : e # d /\ Ready(e)' => Ready(e)
      BY <1>13, <3>2 DEF Deliver
    <3>5. NoLostWakeup'
      BY <1>13, <3>1, <3>2, <3>4 DEF Deliver, Removed
    <3> QED
      BY <3>3, <3>5
  <2>2. CASE ~Waiting(d)
    <3>1. TablesAgree'
      BY <1>13, <2>2 DEF Deliver
    <3>2. NoLostWakeup'
      BY <1>13, <2>2 DEF Deliver, Waiting
    <3> QED
      BY <3>1, <3>2
  <2> QED
    BY <2>1, <2>2
<1>14. ASSUME NEW p \in Port, DeliverConnect(p) PROVE WakeupInv'
  <2> DEFINE waits == listening # None /\ InSockets(listening) /\ Waiting(listening)
  <2>1. CASE waits
    <3>1. SCHEDULER_TASKS' = Removed(task[listening]) /\ task' = [task EXCEPT ![listening] = None]
      BY <1>14, <2>1 DEF DeliverConnect
    <3>2. listening \in Desc /\ task[listening] \in Timer /\ closure[task[listening]] = [kind |-> "read", socket |-> listening]
      BY <1>14, <2>1 DEF Waiting, DeliverConnect
    <3>3. TablesAgree'
      BY <1>14, <3>1, <3>2 DEF DeliverConnect, Removed
    <3>4. \A e \in Desc : e # listening /\ Ready(e)' => Ready(e)
      BY <1>14, <3>2 DEF DeliverConnect
    <3>5. NoLostWakeup'
      BY <1>14, <3>1, <3>2, <3>4 DEF DeliverConnect, Removed
    <3> QED
      BY <3>3, <3>5
  <2>2. CASE ~waits
    <3>1. TablesAgree'
      BY <1>14, <2>2 DEF DeliverConnect
    <3>2. NoLostWakeup'
      BY <1>14, <2>2 DEF DeliverConnect, Waiting
    <3> QED
      BY <3>1, <3>2
  <2> QED
    BY <2>1, <2>2
<1>15. ASSUME NEW id \in Timer, FireRead(id) PROVE WakeupInv'
  BY <1>15 DEF FireRead, Removed, Run, Registered
<1>16. ASSUME NEW id \in Timer, FireWrite(id) PROVE WakeupInv'
  BY <1>16 DEF FireWrite, Removed, Registered
<1>17. ASSUME NEW id \in Timer, FireDelayed(id) PROVE WakeupInv'
  BY <1>17 DEF FireDelayed, Removed
<1>18. ASSUME NEW p \in Port, RemoteConnect(p) PROVE WakeupInv'
  BY <1>18 DEF RemoteConnect
<1>19. ASSUME NEW p \in Port, NEW n \in 1 .. MaxByte, RemoteSend(p, n) PROVE WakeupInv'
  BY <1>19 DEF RemoteSend
<1>20. ASSUME NEW p \in Port, RemoteClose(p) PROVE WakeupInv'
  BY <1>20 DEF RemoteClose
<1>21. CASE UNCHANGED vars
  BY <1>21
<1> QED
  BY <1>1, <1>2, <1>3, <1>4, <1>5, <1>6, <1>7, <1>8, <1>9, <1>10, <1>11, <1>12, <1>13, <1>14, <1>15, <1>16, <1>17, <1>18, <1>19, <1>20, <1>21
  DEF Next, Call, Event, Remote

-----------------------------------------------------------------------------
(* The theorems.                                                           *)

LEMMA InvInit == Init => TypeOK /\ TaskInv /\ WakeupInv
<1> SUFFICES ASSUME Init PROVE TaskInv /\ WakeupInv
  BY TypeInit
<1>1. TaskInv
  BY NoneAssumption
  DEF Init, TaskInv, RunsAtMostOnce, TimersArmed, TaskLinks, SocketLinks, IsRead, NoClosure
<1>2. WakeupInv
  BY DEF Init, WakeupInv, TablesAgree, NoLostWakeup
<1> QED
  BY <1>1, <1>2

\* Every variable keeps the type its declaration gives it.
THEOREM TypeCorrect == Spec => []TypeOK
BY TypeInit, TypeStep, PTL DEF Spec

\* The conjunction of the three invariants is inductive.
THEOREM TaskInvariant == Spec => [](TypeOK /\ TaskInv /\ WakeupInv)
<1>1. TypeOK /\ TaskInv /\ WakeupInv /\ [Next]_vars => (TypeOK /\ TaskInv /\ WakeupInv)'
  BY TypeStep, TaskStep, WakeupStep
<1> QED
  BY InvInit, <1>1, PTL DEF Spec

\* However the C code uses the layer, neither the timer nor a message runs a
\* task a second time or after GNUNET_SCHEDULER_cancel.
THEOREM TaskRunsAtMostOnce == Spec => []RunsAtMostOnce
<1>1. TaskInv => RunsAtMostOnce
  BY DEF TaskInv
<1> QED
  BY TaskInvariant, <1>1, PTL

\* A delayed or a write task in SCHEDULER_TASKS always has its timer to come.
THEOREM TimersStayArmed == Spec => []TimersArmed
<1>1. TaskInv => TimersArmed
  BY DEF TaskInv
<1> QED
  BY TaskInvariant, <1>1, PTL

\* With a disciplined caller SOCKETS and SCHEDULER_TASKS agree on which socket
\* has which read task.
THEOREM SocketAndTaskTablesAgree == Spec => []TablesAgree
<1>1. WakeupInv => TablesAgree
  BY DEF WakeupInv
<1> QED
  BY TaskInvariant, <1>1, PTL

\* With a disciplined caller no read task is left waiting for a timer that has
\* fired while there is something to read.
THEOREM WakeupNotLost == Spec => []NoLostWakeup
<1>1. WakeupInv => NoLostWakeup
  BY DEF WakeupInv
<1> QED
  BY TaskInvariant, <1>1, PTL

\* A read handler is entered only on a socket in SOCKETS that has something to
\* read: the only steps that run a read task are the three that looked.
LEMMA HandlerStep ==
  TypeOK /\ TaskInv /\ WakeupInv /\ [Next]_vars =>
    \A id \in Timer :
       IsRead(id) /\ ran'[id] > ran[id] =>
         LET d == closure[id].socket
         IN  /\ IF d = listening THEN incoming' # <<>> ELSE queue'[d] # <<>>
             /\ Disciplined => InSockets(d)
<1> SUFFICES ASSUME TypeOK, TaskInv, WakeupInv, [Next]_vars,
                    NEW id \in Timer, IsRead(id), ran'[id] > ran[id]
             PROVE  LET d == closure[id].socket
                    IN  /\ IF d = listening THEN incoming' # <<>> ELSE queue'[d] # <<>>
                        /\ Disciplined => InSockets(d)
  OBVIOUS
<1> USE NoneAssumption
<1> USE DEF vars, socketVars, listenVars, taskVars, portVars, readVars, runVars
<1> DEFINE sock == closure[id].socket
<1>1. ran[id] \in Nat
  BY DEF TypeOK
<1>2. Disciplined /\ id \in SCHEDULER_TASKS => task[sock] = id /\ InSockets(sock)
  BY DEF WakeupInv, TablesAgree, TaskInv, TaskLinks, IsRead
<1>3. ASSUME NEW d \in Desc, Deliver(d)
      PROVE  /\ IF sock = listening THEN incoming' # <<>> ELSE queue'[sock] # <<>>
             /\ InSockets(sock)
  <2>1. Waiting(d) /\ id = task[d]
    <3>1. Waiting(d)
      BY <1>1, <1>3 DEF Deliver
    <3>2. Run(task[d])
      BY <1>3, <3>1 DEF Deliver
    <3> QED
      BY <1>1, <3>1, <3>2 DEF Run, TypeOK
  <2>2. sock = d /\ listening # d
    <3>1. closure[task[d]] = [kind |-> "read", socket |-> d]
      BY <2>1 DEF TaskInv, TaskLinks, Waiting
    <3>2. port[d] # None /\ (listening # None => port[listening] = None)
      BY <1>3 DEF TaskInv, SocketLinks, Deliver
    <3> QED
      BY <2>1, <3>1, <3>2
  <2>3. queue'[d] # <<>>
    BY <1>3 DEF Deliver, Pushed, TypeOK
  <2> QED
    BY <1>3, <2>2, <2>3 DEF Deliver
<1>4. ASSUME NEW p \in Port, DeliverConnect(p)
      PROVE  /\ IF sock = listening THEN incoming' # <<>> ELSE queue'[sock] # <<>>
             /\ InSockets(sock)
  <2> DEFINE waits == listening # None /\ InSockets(listening) /\ Waiting(listening)
  <2>1. waits /\ id = task[listening]
    <3>1. waits
      BY <1>1, <1>4 DEF DeliverConnect
    <3>2. Run(task[listening])
      BY <1>4, <3>1 DEF DeliverConnect
    <3> QED
      BY <1>1, <3>1, <3>2 DEF Run, TypeOK
  <2>2. sock = listening
    <3>1. listening \in Desc
      BY <2>1 DEF TypeOK
    <3>2. closure[task[listening]] = [kind |-> "read", socket |-> listening]
      BY <2>1, <3>1 DEF TaskInv, TaskLinks, Waiting
    <3> QED
      BY <2>1, <3>2
  <2>3. incoming' # <<>>
    <3>1. incoming \in Seq(Port) /\ incoming' = Append(incoming, p)
      BY <1>4 DEF DeliverConnect, TypeOK
    <3> QED
      BY <3>1
  <2> QED
    BY <2>1, <2>2, <2>3
<1>5. ASSUME NEW x \in Timer, FireRead(x)
      PROVE  /\ IF sock = listening THEN incoming' # <<>> ELSE queue'[sock] # <<>>
             /\ Disciplined => InSockets(sock)
  <2>1. Ready(closure[x].socket) /\ Registered(x)
    BY <1>1, <1>5 DEF FireRead
  <2>2. x = id
    <3>1. Run(x)
      BY <1>5, <2>1 DEF FireRead
    <3> QED
      BY <1>1, <3>1 DEF Run, TypeOK
  <2>3. queue' = queue /\ incoming' = incoming
    BY <1>5 DEF FireRead
  <2> QED
    BY <1>2, <2>1, <2>2, <2>3 DEF Ready, Registered
<1>6. ASSUME NEW x \in Timer, FireWrite(x) \/ FireDelayed(x) PROVE FALSE
  <2>1. ran'[id] = ran[id] \/ x = id
    BY <1>6 DEF FireWrite, FireDelayed, Run, TypeOK
  <2> QED
    BY <1>1, <1>6, <2>1 DEF FireWrite, FireDelayed, IsRead
<1>7. CASE Call \/ Return \/ Remote \/ UNCHANGED vars
  <2>1. ran' = ran
    BY <1>7 DEF Call, Return, Remote, SocketCreate, SocketConnect, SocketBind, SocketListen,
      SocketAccept, SocketRecv, SocketClose, AddDelayed, AddReadNet, AddWriteNet, Cancel,
      RemoteConnect, RemoteSend, RemoteClose
  <2> QED
    BY <1>1, <2>1
<1> QED
  BY <1>3, <1>4, <1>5, <1>6, <1>7 DEF Next, Event

\* The action property the runs check, for every value of the constants.
THEOREM HandlersHaveWork == Spec => HandlerHasWork
BY TaskInvariant, HandlerStep, PTL DEF HandlerHasWork, Spec

-----------------------------------------------------------------------------
(* Sequences of messages that follow each other.                           *)

\* The queue operations the layer uses.
LEMMA QueueOperations ==
  ASSUME NEW q \in Seq(Message), NEW m \in Message
  PROVE  /\ Append(q, m) # <<>>
         /\ q # <<>> => Head(Append(q, m)) = Head(q)
         /\ Len(q) = 1 => Tail(q) = <<>>
<1>1. Len(Append(q, m)) = Len(q) + 1 /\ Len(q) \in Nat
  OBVIOUS
<1>2. ASSUME q # <<>> PROVE Head(Append(q, m)) = Head(q)
  <2>1. 1 \in 1 .. Len(q)
    BY <1>2
  <2>2. Append(q, m)[1] = q[1]
    BY <2>1
  <2> QED
    BY <1>1, <1>2, <2>2
<1>3. ASSUME Len(q) = 1 PROVE Tail(q) = <<>>
  <2>1. q # <<>>
    BY <1>3, EmptySeq
  <2>2. Tail(q) \in Seq(Message) /\ Len(Tail(q)) = 0
    BY <1>3, <2>1
  <2> QED
    BY <2>2, EmptySeq
<1>4. Append(q, m) # <<>>
  BY <1>1, EmptySeq
<1> QED
  BY <1>2, <1>3, <1>4

\* Pushing the message that comes next extends the interval.
LEMMA ContiguousAppend ==
  ASSUME NEW q \in Seq(Message), NEW a \in Nat, NEW b \in Nat, NEW m \in Message,
         Contiguous(q, a, b), m.first = b + 1
  PROVE  Contiguous(Append(q, m), a, m.last)
<1> DEFINE r == Append(q, m)
<1>1. /\ r # <<>> /\ Len(r) = Len(q) + 1 /\ r[Len(r)] = m
      /\ \A i \in 1 .. Len(q) : r[i] = q[i]
  OBVIOUS
<1>2. CASE q = <<>>
  BY <1>1, <1>2 DEF Contiguous
<1>3. CASE q # <<>>
  <2>1. Len(q) \in Nat \ {0}
    BY <1>3
  <2>2. r[1] = q[1] /\ r[Len(q) + 1] = m
    BY <1>1, <2>1
  <2>3. ASSUME NEW i \in 1 .. Len(r) - 1 PROVE r[i + 1].first = r[i].last + 1
    <3>1. CASE i = Len(q)
      BY <1>1, <1>3, <2>1, <2>2, <3>1 DEF Contiguous
    <3>2. CASE i # Len(q)
      <4>1. i \in 1 .. Len(q) - 1 /\ i \in 1 .. Len(q) /\ i + 1 \in 1 .. Len(q)
        BY <1>1, <2>1, <3>2
      <4> QED
        BY <1>1, <4>1 DEF Contiguous
    <3> QED
      BY <3>1, <3>2
  <2> HIDE DEF r
  <2> QED
    BY <1>1, <1>3, <2>2, <2>3 DEF Contiguous
<1> QED
  BY <1>2, <1>3

\* Taking the head off moves the start behind it.
LEMMA ContiguousTail ==
  ASSUME NEW q \in Seq(Message), NEW a \in Nat, NEW b \in Nat,
         Contiguous(q, a, b), q # <<>>
  PROVE  /\ Contiguous(Tail(q), Head(q).last, b)
         /\ Head(q).first = a + 1
         /\ Tail(q) # <<>> => Head(Tail(q)).first = Head(q).last + 1
         /\ Tail(q) = <<>> => Head(q).last = b
<1> DEFINE t == Tail(q)
<1>1. /\ Len(q) \in Nat \ {0} /\ Head(q) = q[1]
      /\ t \in Seq(Message) /\ Len(t) = Len(q) - 1
      /\ \A i \in 1 .. Len(t) : t[i] = q[i + 1]
  OBVIOUS
<1>2. CASE t = <<>>
  <2>1. Len(q) = 1
    BY <1>1, <1>2
  <2> QED
    <3>1. Head(q).last = b /\ Head(q).first = a + 1
      BY <1>1, <2>1 DEF Contiguous
    <3>2. 1 .. Len(t) - 1 = {}
      BY <1>1, <1>2, <2>1
    <3> HIDE DEF t
    <3>3. Contiguous(t, Head(q).last, b)
      BY <1>2, <3>1, <3>2 DEF Contiguous
    <3> QED
      BY <1>2, <3>1, <3>3 DEF t
<1>3. CASE t # <<>>
  <2>1. Len(t) \in Nat \ {0}
    BY <1>1, <1>3
  <2>2. t[1] = q[2] /\ t[Len(t)] = q[Len(q)] /\ Head(t) = t[1]
    BY <1>1, <1>3, <2>1
  <2>3. \A i \in 1 .. Len(t) - 1 : t[i + 1].first = t[i].last + 1
    <3> SUFFICES ASSUME NEW i \in 1 .. Len(t) - 1 PROVE t[i + 1].first = t[i].last + 1
      OBVIOUS
    <3>1. i \in 1 .. Len(t) /\ i + 1 \in 1 .. Len(t) /\ i + 1 \in 1 .. Len(q) - 1
      BY <1>1, <2>1
    <3> QED
      BY <1>1, <3>1 DEF Contiguous
  <2>4. q[2].first = q[1].last + 1 /\ q[1].first = a + 1
    BY <1>1, <2>1 DEF Contiguous
  <2> HIDE DEF t
  <2>5. Contiguous(t, Head(q).last, b)
    BY <1>1, <1>3, <2>2, <2>3, <2>4 DEF Contiguous
  <2> QED
    BY <1>1, <1>3, <2>2, <2>4, <2>5 DEF t
<1> QED
  BY <1>2, <1>3

\* Reading a part of the head moves the start by as much.
LEMMA ContiguousCut ==
  ASSUME NEW q \in Seq(Message), NEW a \in Nat, NEW b \in Nat, NEW n \in Nat,
         Contiguous(q, a, b), q # <<>>
  PROVE  Contiguous([q EXCEPT ![1].first = @ + n], a + n, b)
<1> DEFINE r == [q EXCEPT ![1].first = @ + n]
<1>1. Len(q) \in Nat \ {0} /\ 1 \in 1 .. Len(q) /\ q[1] \in Message
  OBVIOUS
<1>2. /\ r # <<>> /\ Len(r) = Len(q)
      /\ r[1].first = q[1].first + n /\ r[1].last = q[1].last
      /\ \A i \in 1 .. Len(q) : i # 1 => r[i] = q[i]
  BY <1>1 DEF Message
<1>3. \A i \in 1 .. Len(q) : r[i].last = q[i].last
  BY <1>2
<1>4. \A i \in 1 .. Len(r) - 1 : r[i + 1].first = r[i].last + 1
  <2> SUFFICES ASSUME NEW i \in 1 .. Len(r) - 1 PROVE r[i + 1].first = r[i].last + 1
    OBVIOUS
  <2>1. i \in 1 .. Len(q) - 1 /\ i \in 1 .. Len(q) /\ i + 1 \in 1 .. Len(q) /\ i + 1 # 1
    BY <1>1, <1>2
  <2> QED
    BY <1>2, <1>3, <2>1 DEF Contiguous
<1> HIDE DEF r
<1>5. r[1].first = a + n + 1 /\ r[Len(r)].last = b
  <2>1. Len(q) \in 1 .. Len(q) /\ q[1].first = a + 1 /\ q[Len(q)].last = b
    BY <1>1 DEF Contiguous
  <2>2. r[Len(r)].last = b
    BY <1>2, <1>3, <2>1
  <2> QED
    BY <1>2, <2>1, <2>2
<1>6. Contiguous(r, a + n, b)
  BY <1>2, <1>4, <1>5 DEF Contiguous
<1> QED
  BY <1>6 DEF r

LEMMA BoundedAppend ==
  ASSUME NEW q \in Seq(Message), NEW a \in Nat, NEW b \in Nat, NEW c \in BOOLEAN,
         NEW m \in Message, NEW d \in BOOLEAN,
         Bounded(q, a, b, c), ~c, m.first = b + 1,
         WellFormed(m), m.close => d
  PROVE  Bounded(Append(q, m), a, m.last, d)
<1> DEFINE r == Append(q, m)
<1>1. Len(q) \in Nat /\ Len(r) = Len(q) + 1
  OBVIOUS
<1>2. a <= b /\ b <= m.last /\ m.first \in Nat /\ m.last \in Nat
  BY DEF WellFormed, Message, Bounded
<1> SUFFICES ASSUME NEW i \in 1 .. Len(r)
             PROVE  /\ WellFormed(r[i])
                    /\ a < r[i].first /\ r[i].last <= m.last
                    /\ r[i].close => i = Len(r) /\ d
                    /\ \A j \in i + 1 .. Len(r) : r[i].last < r[j].first
  BY <1>2 DEF Bounded
<1>3. CASE i = Len(r)
  <2>1. r[i] = m
    BY <1>1, <1>3
  <2>2. \A j \in i + 1 .. Len(r) : FALSE
    BY <1>1, <1>3
  <2> HIDE DEF r
  <2> QED
    BY <1>2, <1>3, <2>1, <2>2
<1>4. CASE i # Len(r)
  <2>1. i \in 1 .. Len(q) /\ r[i] = q[i] /\ q[i] \in Message
    BY <1>1, <1>4
  <2>2. WellFormed(q[i]) /\ a < q[i].first /\ q[i].last <= b /\ ~q[i].close
    BY <2>1 DEF Bounded
  <2>3. ASSUME NEW j \in i + 1 .. Len(r) PROVE r[i].last < r[j].first
    <3>1. CASE j = Len(r)
      <4>1. r[j] = m
        BY <1>1, <3>1
      <4> QED
        BY <1>2, <2>1, <2>2, <4>1 DEF Message
    <3>2. CASE j # Len(r)
      <4>1. j \in i + 1 .. Len(q) /\ r[j] = q[j]
        BY <1>1, <2>1, <3>2
      <4> QED
        BY <2>1, <4>1 DEF Bounded
    <3> QED
      BY <3>1, <3>2
  <2> HIDE DEF r
  <2> QED
    BY <1>2, <2>1, <2>2, <2>3 DEF Message
<1> QED
  BY <1>3, <1>4

LEMMA BoundedTail ==
  ASSUME NEW q \in Seq(Message), NEW a \in Nat, NEW b \in Nat, NEW c \in BOOLEAN,
         Bounded(q, a, b, c), q # <<>>
  PROVE  Bounded(Tail(q), Head(q).last, b, c)
<1> DEFINE t == Tail(q)
<1>1. Len(q) \in Nat \ {0} /\ Len(t) = Len(q) - 1 /\ Head(q) = q[1]
  OBVIOUS
<1>0. Head(q).last <= b
  <2>1. 1 \in 1 .. Len(q)
    BY <1>1
  <2> QED
    BY <1>1, <2>1 DEF Bounded
<1> SUFFICES ASSUME NEW i \in 1 .. Len(t)
             PROVE  /\ WellFormed(t[i])
                    /\ Head(q).last < t[i].first /\ t[i].last <= b
                    /\ t[i].close => i = Len(t) /\ c
                    /\ \A j \in i + 1 .. Len(t) : t[i].last < t[j].first
  BY <1>0 DEF Bounded
<1>2. i + 1 \in 2 .. Len(q) /\ i + 1 \in 1 .. Len(q) /\ t[i] = q[i + 1] /\ 1 \in 1 .. Len(q)
  BY <1>1
<1>3. \A j \in i + 1 .. Len(t) : j + 1 \in (i + 1) + 1 .. Len(q) /\ t[j] = q[j + 1]
  BY <1>1, <1>2
<1> HIDE DEF t
<1>4. Head(q).last < t[i].first
  BY <1>1, <1>2 DEF Bounded
<1>5. \A j \in i + 1 .. Len(t) : t[i].last < t[j].first
  BY <1>2, <1>3 DEF Bounded
<1>6. WellFormed(t[i]) /\ t[i].last <= b /\ (t[i].close => i = Len(t) /\ c)
  BY <1>1, <1>2 DEF Bounded
<1> QED
  BY <1>4, <1>5, <1>6

LEMMA BoundedCut ==
  ASSUME NEW q \in Seq(Message), NEW a \in Nat, NEW b \in Nat, NEW c \in BOOLEAN,
         NEW n \in Nat,
         Contiguous(q, a, b), Bounded(q, a, b, c), q # <<>>,
         ~Head(q).close, n < Size(Head(q))
  PROVE  Bounded([q EXCEPT ![1].first = @ + n], a + n, b, c)
<1> DEFINE r == [q EXCEPT ![1].first = @ + n]
<1>1. Len(q) \in Nat \ {0} /\ 1 \in 1 .. Len(q) /\ q[1] \in Message /\ Head(q) = q[1]
  OBVIOUS
<1>2. /\ Len(r) = Len(q)
      /\ r[1].first = q[1].first + n /\ r[1].last = q[1].last /\ r[1].close = q[1].close
      /\ \A i \in 1 .. Len(q) : i # 1 => r[i] = q[i]
  BY <1>1 DEF Message
<1> HIDE DEF r
<1>3. q[1].first = a + 1 /\ a + n < q[1].last /\ q[1].first \in Nat /\ q[1].last \in Nat
  BY <1>1 DEF Contiguous, Size, Message
<1>0. a + n <= b
  BY <1>1, <1>3 DEF Bounded
<1> SUFFICES ASSUME NEW i \in 1 .. Len(q)
             PROVE  /\ WellFormed(r[i])
                    /\ a + n < r[i].first /\ r[i].last <= b
                    /\ r[i].close => i = Len(q) /\ c
                    /\ \A j \in i + 1 .. Len(q) : r[i].last < r[j].first
  BY <1>0, <1>2 DEF Bounded, r
<1>4. \A j \in i + 1 .. Len(q) : j \in 1 .. Len(q) /\ r[j] = q[j]
  BY <1>1, <1>2
<1>5. \A j \in i + 1 .. Len(q) : q[i].last < q[j].first
  BY DEF Bounded
<1>6. CASE i = 1
  <2>1. WellFormed(r[1])
    <3>1. ~r[1].close /\ r[1].first <= r[1].last
      BY <1>1, <1>2, <1>3
    <3> QED
      BY <3>1 DEF WellFormed
  <2>2. r[1].last <= b
    BY <1>1, <1>2 DEF Bounded
  <2> QED
    BY <1>1, <1>2, <1>3, <1>4, <1>5, <1>6, <2>1, <2>2
<1>7. CASE i # 1
  <2>1. r[i] = q[i] /\ i \in 1 + 1 .. Len(q) /\ q[i] \in Message
    BY <1>1, <1>2, <1>7
  <2>2. q[1].last < q[i].first
    BY <1>1, <2>1 DEF Bounded
  <2>3. a + n < q[i].first
    <3>1. q[i].first \in Nat
      BY <2>1 DEF Message
    <3> QED
      BY <1>3, <2>2, <3>1
  <2>4. WellFormed(q[i]) /\ q[i].last <= b /\ (q[i].close => i = Len(q) /\ c)
    BY DEF Bounded
  <2> QED
    BY <1>4, <1>5, <2>1, <2>3, <2>4
<1> QED
  BY <1>6, <1>7

-----------------------------------------------------------------------------
(* Connections.                                                            *)

LEMMA ConnectionStep ==
  TypeOK /\ SocketLinks /\ ConnectionInv /\ [Next]_vars => ConnectionInv'
<1> SUFFICES ASSUME TypeOK, SocketLinks, ConnectionInv, [Next]_vars PROVE ConnectionInv'
  OBVIOUS
<1> USE NoneAssumption
<1> USE DEF ConnectionInv, ConnectionsUnique, PortLinks, SocketLinks, InSockets
<1>0. /\ status \in [Desc -> {"unused", "created", "open", "closed"}]
      /\ port \in [Desc -> Port \cup {None}]
      /\ link \in [Port -> {"unused", "connecting", "live", "closed"}]
      /\ incoming \in Seq(Port)
  BY DEF TypeOK
<1> USE DEF vars, socketVars, listenVars, taskVars, portVars, readVars, runVars
<1>1. ASSUME NEW d \in Desc, SocketCreate(d) PROVE ConnectionInv'
  BY <1>0, <1>1 DEF SocketCreate
<1>2. ASSUME NEW d \in Desc, NEW p \in Port, SocketConnect(d, p) PROVE ConnectionInv'
  BY <1>0, <1>2 DEF SocketConnect
<1>3. ASSUME NEW d \in Desc, SocketBind(d) PROVE ConnectionInv'
  BY <1>0, <1>3 DEF SocketBind
<1>4. ASSUME NEW d \in Desc, NEW sd \in Desc, SocketAccept(d, sd) PROVE ConnectionInv'
  <2> DEFINE p == incoming[1]
  <2>1. /\ Len(incoming) \in Nat \ {0} /\ 1 \in 1 .. Len(incoming) /\ p \in Port
        /\ incoming' \in Seq(Port) /\ Len(incoming') = Len(incoming) - 1
        /\ \A i \in 1 .. Len(incoming') : i + 1 \in 1 .. Len(incoming) /\ incoming'[i] = incoming[i + 1]
        /\ \A i \in 1 .. Len(incoming) : i # 1 => i - 1 \in 1 .. Len(incoming') /\ incoming'[i - 1] = incoming[i]
    BY <1>0, <1>4 DEF SocketAccept, IncomingAfterAccept
  <2>2. /\ status' = [status EXCEPT ![sd] = "open"]
        /\ port' = [port EXCEPT ![sd] = p]
        /\ status[sd] = "unused" /\ listening' = listening /\ link' = link
    BY <1>0, <1>4, <2>1 DEF SocketAccept
  <2>3. /\ \A i, j \in 1 .. Len(incoming') : incoming'[i] = incoming'[j] => i = j
        /\ \A i \in 1 .. Len(incoming') : incoming'[i] # p /\ link[incoming'[i]] = "live"
    <3>1. ASSUME NEW i \in 1 .. Len(incoming'), NEW j \in 1 .. Len(incoming'), incoming'[i] = incoming'[j]
          PROVE  i = j
      <4>1. i + 1 = j + 1
        BY <2>1, <3>1
      <4> QED
        BY <4>1
    <3>2. ASSUME NEW i \in 1 .. Len(incoming') PROVE incoming'[i] # p /\ link[incoming'[i]] = "live"
      <4>1. i + 1 # 1 /\ i + 1 \in 1 .. Len(incoming) /\ incoming'[i] = incoming[i + 1]
        BY <2>1
      <4> QED
        BY <2>1, <4>1
    <3> QED
      BY <3>1, <3>2
  <2>4. \A d1 \in Desc : port[d1] # p
    BY <2>1
  <2>5. \A d1 \in Desc : \A i \in 1 .. Len(incoming') : port'[d1] # incoming'[i]
    BY <1>0, <2>1, <2>2, <2>3
  <2>6. \A d1, e \in Desc : port'[d1] # None /\ port'[d1] = port'[e] => d1 = e
    BY <1>0, <2>1, <2>2, <2>4
  <2>7. ASSUME NEW r \in Port, link[r] = "live"
        PROVE  \/ \E i \in 1 .. Len(incoming') : incoming'[i] = r
               \/ \E d1 \in Desc : status'[d1] = "open" /\ port'[d1] = r
    <3>1. CASE r = p
      BY <1>0, <2>1, <2>2, <3>1
    <3>2. CASE r # p /\ \E i \in 1 .. Len(incoming) : incoming[i] = r
      BY <2>1, <3>2
    <3>3. CASE \E d1 \in Desc : InSockets(d1) /\ port[d1] = r
      BY <1>0, <2>2, <3>3
    <3> QED
      BY <2>7, <3>1, <3>2, <3>3
  <2>8. ConnectionsUnique'
    BY <2>2, <2>3, <2>5, <2>6, <2>7
  <2>9. PortLinks'
    BY <1>0, <2>1, <2>2, <2>3
  <2> QED
    BY <2>8, <2>9
<1>5. ASSUME NEW d \in Desc, SocketClose(d) PROVE ConnectionInv'
  BY <1>0, <1>5 DEF SocketClose
<1>6. ASSUME NEW p \in Port, DeliverConnect(p) PROVE ConnectionInv'
  BY <1>0, <1>6 DEF DeliverConnect
<1>7. ASSUME NEW p \in Port, RemoteConnect(p) PROVE ConnectionInv'
  BY <1>7 DEF RemoteConnect
<1>8. CASE UNCHANGED <<status, port, incoming, link>>
  BY <1>8
<1>9. CASE
         \/ (\E d \in Desc : SocketListen(d))
         \/ (\E d \in Desc : (\E n \in 1 .. MaxByte : SocketRecv(d, n)))
         \/ (\E id \in Timer : AddDelayed(id))
         \/ (\E d \in Desc : (\E id \in Timer : AddReadNet(d, id)))
         \/ (\E d \in Desc : (\E id \in Timer : AddWriteNet(d, id)))
         \/ (\E id \in Timer : Cancel(id))
         \/ Return
         \/ (\E d \in Desc : Deliver(d))
         \/ (\E id \in Timer : FireRead(id))
         \/ (\E id \in Timer : FireWrite(id))
         \/ (\E id \in Timer : FireDelayed(id))
         \/ (\E p \in Port : (\E n \in 1 .. MaxByte : RemoteSend(p, n)))
         \/ (\E p \in Port : RemoteClose(p))
         \/ UNCHANGED vars
  <2>1. UNCHANGED <<status, port, incoming, link>>
    BY <1>9 DEF SocketListen, SocketRecv, AddDelayed, AddReadNet, AddWriteNet, Cancel, Return, Deliver, FireRead, FireWrite, FireDelayed, RemoteSend, RemoteClose
  <2> QED
    BY <1>8, <2>1
<1> QED
  BY <1>1, <1>2, <1>3, <1>4, <1>5, <1>6, <1>7, <1>8, <1>9
  DEF Next, Call, Event, Remote

-----------------------------------------------------------------------------
(* Streams.                                                                *)

QueueOK(d) ==
  InSockets(d) /\ port[d] # None =>
    /\ Contiguous(queue[d], got[port[d]], Delivered(port[d]))
    /\ Bounded(queue[d], got[port[d]], Delivered(port[d]),
               hungup[port[d]] /\ wire[port[d]] = <<>>)

WireOK(p) ==
  link[p] # "closed" =>
    /\ Delivered(p) \in Nat
    /\ Contiguous(wire[p], Delivered(p), sent[p])
    /\ Bounded(wire[p], Delivered(p), sent[p], hungup[p])

FreshOK(p) ==
  /\ link[p] = "unused" => wire[p] = <<>> /\ sent[p] = 0 /\ ~hungup[p]
  /\ link[p] # "closed" /\ (\A d \in Desc : port[d] # p) =>
       Delivered(p) = 0 /\ got[p] = 0

EndOK(p) == eof[p] => hungup[p] /\ got[p] = sent[p]

\* The invariant, per socket and per port.
LEMMA StreamParts ==
  StreamInv <=> /\ \A d \in Desc : QueueOK(d)
                /\ \A p \in Port : WireOK(p) /\ FreshOK(p) /\ EndOK(p)
BY DEF StreamInv, StreamIntact, EofLast, StreamLinks, QueueOK, WireOK, FreshOK, EndOK

\* Two open sockets have different ports.
LEMMA PortOwner ==
  ASSUME ConnectionInv, NEW d \in Desc, NEW e \in Desc, port[d] # None, d # e
  PROVE  port[d] # port[e]
BY DEF ConnectionInv, ConnectionsUnique


\* A step that is not about a socket's port leaves its queue as intact as it
\* was.
LEMMA QueueFrame ==
  ASSUME NEW d \in Desc, QueueOK(d),
         InSockets(d)' /\ port'[d] # None => InSockets(d),
         UNCHANGED <<port[d], queue[d]>>,
         port[d] # None =>
           UNCHANGED <<got[port[d]], wire[port[d]], sent[port[d]], hungup[port[d]]>>
  PROVE  QueueOK(d)'
<1> SUFFICES ASSUME InSockets(d)', port[d] # None
             PROVE  /\ Contiguous(queue'[d], got'[port[d]], Delivered(port[d])')
                    /\ Bounded(queue'[d], got'[port[d]], Delivered(port[d])',
                               hungup'[port[d]] /\ wire'[port[d]] = <<>>)
  BY DEF QueueOK, Delivered
<1>1. Delivered(port[d])' = Delivered(port[d])
  BY DEF Delivered
<1> QED
  BY <1>1 DEF QueueOK

\* A step that is not about a port leaves its wire as intact as it was.
LEMMA PortFrame ==
  ASSUME NEW p \in Port, WireOK(p), FreshOK(p), EndOK(p),
         UNCHANGED <<wire[p], sent[p], hungup[p], got[p], eof[p]>>,
         link'[p] = "closed" <=> link[p] = "closed",
         link'[p] = "unused" => link[p] = "unused",
         \A d \in Desc : port[d] = p => port'[d] = p
  PROVE  WireOK(p)' /\ FreshOK(p)' /\ EndOK(p)'
<1>1. Delivered(p)' = Delivered(p)
  BY DEF Delivered
<1>2. WireOK(p)'
  BY <1>1 DEF WireOK
<1>3. FreshOK(p)'
  BY <1>1 DEF FreshOK
<1>4. EndOK(p)'
  BY DEF EndOK
<1> QED
  BY <1>2, <1>3, <1>4

\* A descriptor given a port that had nobody starts a fresh stream.
LEMMA FreshSocket ==
  ASSUME SocketLinks, NEW d \in Desc, NEW p \in Port,
         status[d] \in {"unused", "created"},
         FreshOK(p), link[p] # "closed", \A e \in Desc : port[e] # p,
         port'[d] = p,
         UNCHANGED <<queue, got, wire, sent, hungup>>
  PROVE  QueueOK(d)'
<1>1. queue'[d] = <<>> /\ got'[p] = 0 /\ Delivered(p)' = 0
  BY DEF SocketLinks, FreshOK, Delivered
<1>2. Contiguous(<<>>, 0, 0)
  BY DEF Contiguous
<1>3. Bounded(<<>>, 0, 0, hungup'[p] /\ wire'[p] = <<>>)
  BY DEF Bounded
<1> QED
  BY <1>1, <1>2, <1>3 DEF QueueOK

\* A message the remote end posts continues the wire, and changes nothing for
\* what was delivered before.
LEMMA PostStep ==
  ASSUME NEW p \in Port, NEW m \in Message,
         wire \in [Port -> Seq(Message)], sent \in [Port -> Nat],
         hungup \in [Port -> BOOLEAN],
         link[p] \notin {"unused", "closed"}, ~hungup[p], hungup'[p] \in BOOLEAN,
         WellFormed(m), m.first = sent[p] + 1, m.close => hungup'[p],
         sent'[p] = m.last, wire'[p] = Append(wire[p], m),
         \A r \in Port \ {p} : UNCHANGED <<wire[r], sent[r], hungup[r]>>,
         UNCHANGED <<status, port, queue, link, got, eof>>,
         port \in [Desc -> Port \cup {None}],
         \A d \in Desc : QueueOK(d),
         \A r \in Port : WireOK(r) /\ FreshOK(r) /\ EndOK(r)
  PROVE  /\ \A d \in Desc : QueueOK(d)'
         /\ \A r \in Port : WireOK(r)' /\ FreshOK(r)' /\ EndOK(r)'
<1> DEFINE D == Delivered(p)
<1>1. /\ wire[p] \in Seq(Message) /\ sent[p] \in Nat /\ m.last \in Nat
      /\ D \in Nat /\ Contiguous(wire[p], D, sent[p])
      /\ hungup[p] \in BOOLEAN /\ Bounded(wire[p], D, sent[p], hungup[p])
  BY DEF WireOK, Message
<1>2. wire'[p] # <<>> /\ Delivered(p)' = D
  <2>1. CASE wire[p] = <<>>
    <3>1. wire'[p] = <<m>> /\ Head(wire'[p]) = m /\ D = sent[p]
      BY <2>1 DEF Delivered
    <3> QED
      BY <1>1, <3>1 DEF Delivered, Message
  <2>2. CASE wire[p] # <<>>
    <3>1. wire'[p] # <<>> /\ Head(wire'[p]) = Head(wire[p])
      BY <1>1, <2>2, QueueOperations
    <3> QED
      BY <2>2, <3>1 DEF Delivered
  <2> QED
    BY <2>1, <2>2
<1> HIDE DEF D
<1>3. Contiguous(wire'[p], D, sent'[p])
  BY <1>1, ContiguousAppend
<1>4. Bounded(wire'[p], D, sent'[p], hungup'[p])
  <2>1. Bounded(Append(wire[p], m), D, m.last, hungup'[p])
    BY <1>1, BoundedAppend, SMTT(30)
  <2> QED
    BY <2>1
<1>5. WireOK(p)'
  BY <1>1, <1>2, <1>3, <1>4 DEF WireOK
<1>6. FreshOK(p)' /\ EndOK(p)'
  <2>2. EndOK(p)'
    BY DEF EndOK
  <2>3. FreshOK(p)'
    BY <1>2 DEF FreshOK, D
  <2> QED
    BY <2>2, <2>3
<1>7. ASSUME NEW r \in Port, r # p PROVE WireOK(r)' /\ FreshOK(r)' /\ EndOK(r)'
  BY <1>7, PortFrame
<1>8. ASSUME NEW d \in Desc PROVE QueueOK(d)'
  <2>1. CASE port[d] = p
    <3> SUFFICES ASSUME InSockets(d), p # None
                 PROVE  /\ Contiguous(queue[d], got[p], D)
                        /\ Bounded(queue[d], got[p], D, hungup'[p] /\ wire'[p] = <<>>)
      BY <1>2, <2>1 DEF QueueOK, InSockets
    <3>1. Contiguous(queue[d], got[p], D) /\ Bounded(queue[d], got[p], D, FALSE)
      BY <2>1 DEF QueueOK, D
    <3> QED
      BY <1>2, <3>1
  <2>2. CASE port[d] # p
    BY <2>2, QueueFrame DEF InSockets
  <2> QED
    BY <2>1, <2>2
<1> QED
  BY <1>5, <1>6, <1>7, <1>8

\* What socket_recv finds: the head of the queue is the next message of the
\* stream, and a "close" is the last one there is.
LEMMA RecvHead ==
  ASSUME TypeOK, ConnectionInv, StreamInv,
         NEW d \in Desc, NEW n \in 1 .. MaxByte, SocketRecv(d, n)
  PROVE  LET p == port[d]
             q == queue[d]
             h == Head(queue[d])
         IN  /\ p \in Port /\ q \in Seq(Message) /\ q # <<>> /\ h = q[1] /\ h \in Message /\ Len(q) \in Nat \ {0}
             /\ InSockets(d) /\ p # None /\ link[p] = "live"
             /\ Contiguous(q, got[p], Delivered(p))
             /\ Bounded(q, got[p], Delivered(p), hungup[p] /\ wire[p] = <<>>)
             /\ Delivered(p) \in Nat /\ got[p] \in Nat /\ sent[p] \in Nat
             /\ Delivered(p) <= sent[p]
             /\ WellFormed(h) /\ h.first = got[p] + 1 /\ h.last <= Delivered(p)
             /\ h.close => Len(q) = 1 /\ hungup[p] /\ wire[p] = <<>>
             /\ h.close => got[p] = sent[p]
             /\ ~h.close => ~eof[p]
<1> USE NoneAssumption
<1>a. /\ \A e \in Desc : QueueOK(e)
      /\ \A p \in Port : WireOK(p) /\ FreshOK(p) /\ EndOK(p)
  BY StreamParts
<1>t. /\ port \in [Desc -> Port \cup {None}]
      /\ queue \in [Desc -> Seq(Message)]
      /\ got \in [Port -> Nat] /\ sent \in [Port -> Nat]
  BY DEF TypeOK
<1> DEFINE p == port[d]
           q == queue[d]
           h == Head(queue[d])
<1>1. p \in Port /\ q \in Seq(Message) /\ q # <<>> /\ h = q[1] /\ h \in Message /\ Len(q) \in Nat \ {0}
  BY <1>t DEF SocketRecv
<1>2. InSockets(d) /\ p # None /\ link[p] = "live"
  BY DEF SocketRecv, ConnectionInv, PortLinks
<1>3. /\ Contiguous(q, got[p], Delivered(p))
      /\ Bounded(q, got[p], Delivered(p), hungup[p] /\ wire[p] = <<>>)
  BY <1>a, <1>2 DEF QueueOK
<1>4. /\ Delivered(p) \in Nat /\ got[p] \in Nat /\ sent[p] \in Nat
      /\ Delivered(p) <= sent[p]
  BY <1>a, <1>t, <1>1, <1>2 DEF WireOK, Bounded
<1>5. /\ WellFormed(h) /\ h.first = got[p] + 1 /\ h.last <= Delivered(p)
      /\ h.close => Len(q) = 1 /\ hungup[p] /\ wire[p] = <<>>
  <2>1. 1 \in 1 .. Len(q)
    BY <1>1
  <2> QED
    BY <1>1, <1>3, <2>1 DEF Contiguous, Bounded
<1> HIDE DEF p, q, h
<1>6. ASSUME h.close PROVE got[p] = sent[p]
  <2>1. h.last = Delivered(p)
    BY <1>1, <1>3, <1>5, <1>6 DEF Contiguous
  <2>2. Delivered(p) = sent[p]
    BY <1>5, <1>6 DEF Delivered
  <2> QED
    BY <1>1, <1>4, <1>5, <1>6, <2>1, <2>2 DEF WellFormed, Message
<1>7. ASSUME ~h.close PROVE ~eof[p]
  BY <1>a, <1>1, <1>4, <1>5, <1>7 DEF EndOK, WellFormed, Message
<1> QED
  BY <1>1, <1>2, <1>3, <1>4, <1>5, <1>6, <1>7 DEF p, q, h

LEMMA StreamStep ==
  TypeOK /\ SocketLinks /\ ConnectionInv /\ StreamInv /\ [Next]_vars => StreamInv'
<1> SUFFICES ASSUME TypeOK, SocketLinks, ConnectionInv, StreamInv, [Next]_vars
             PROVE  StreamInv'
  OBVIOUS
<1> USE NoneAssumption, MaxByteAssumption
<1> USE DEF vars, socketVars, listenVars, taskVars, portVars, readVars, runVars
<1> DEFINE Goal == /\ \A d \in Desc : QueueOK(d)'
                   /\ \A p \in Port : WireOK(p)' /\ FreshOK(p)' /\ EndOK(p)'
<1>a. /\ \A d \in Desc : QueueOK(d)
      /\ \A p \in Port : WireOK(p) /\ FreshOK(p) /\ EndOK(p)
  BY StreamParts
<1>t. /\ status \in [Desc -> {"unused", "created", "open", "closed"}]
      /\ port \in [Desc -> Port \cup {None}]
      /\ queue \in [Desc -> Seq(Message)]
      /\ incoming \in Seq(Port)
      /\ link \in [Port -> {"unused", "connecting", "live", "closed"}]
      /\ wire \in [Port -> Seq(Message)]
      /\ sent \in [Port -> Nat]
      /\ hungup \in [Port -> BOOLEAN]
      /\ got \in [Port -> Nat]
      /\ eof \in [Port -> BOOLEAN]
  BY DEF TypeOK
<1>1. ASSUME NEW d \in Desc, NEW p \in Port, SocketConnect(d, p) PROVE Goal
  <2>1. link[p] # "closed" /\ \A e \in Desc : port[e] # p
    BY <1>1 DEF SocketConnect, ConnectionInv, PortLinks
  <2>2. QueueOK(d)'
    BY <1>1, <1>a, <1>t, <2>1, FreshSocket DEF SocketConnect
  <2>3. ASSUME NEW e \in Desc, e # d PROVE QueueOK(e)'
    BY <1>1, <1>a, <1>t, <2>3, QueueFrame DEF SocketConnect, InSockets
  <2>4. port[d] = None
    BY <1>1 DEF SocketConnect, SocketLinks
  <2>5. ASSUME NEW r \in Port PROVE WireOK(r)' /\ FreshOK(r)' /\ EndOK(r)'
    BY <1>1, <1>a, <1>t, <2>4, PortFrame DEF SocketConnect
  <2> QED
    BY <2>2, <2>3, <2>5
<1>2. ASSUME NEW d \in Desc, NEW sd \in Desc, SocketAccept(d, sd) PROVE Goal
  <2> DEFINE p == Head(incoming)
  <2>1. p = incoming[1] /\ p \in Port /\ 1 \in 1 .. Len(incoming)
    BY <1>2, <1>t DEF SocketAccept
  <2>2. link[p] # "closed" /\ \A e \in Desc : port[e] # p
    BY <2>1 DEF ConnectionInv, ConnectionsUnique, PortLinks
  <2>3. status[sd] = "unused" /\ port' = [port EXCEPT ![sd] = p]
    BY <1>2 DEF SocketAccept
  <2> HIDE DEF p
  <2>4. QueueOK(sd)'
    <3>1. port'[sd] = p /\ UNCHANGED <<queue, got, wire, sent, hungup>>
      BY <1>2, <1>t, <2>3 DEF SocketAccept
    <3> QED
      BY <1>a, <2>1, <2>2, <2>3, <3>1, FreshSocket
  <2>5. ASSUME NEW e \in Desc, e # sd PROVE QueueOK(e)'
    BY <1>2, <1>a, <1>t, <2>3, <2>5, QueueFrame DEF SocketAccept, InSockets
  <2>6. port[sd] = None
    BY <2>3 DEF SocketLinks
  <2>7. ASSUME NEW r \in Port PROVE WireOK(r)' /\ FreshOK(r)' /\ EndOK(r)'
    BY <1>2, <1>a, <1>t, <2>3, <2>6, PortFrame DEF SocketAccept
  <2> QED
    BY <2>4, <2>5, <2>7
<1>3. ASSUME NEW d \in Desc, NEW n \in 1 .. MaxByte, SocketRecv(d, n) PROVE Goal
  <2> DEFINE p == port[d]
             q == queue[d]
             h == Head(queue[d])
  <2>1. p \in Port /\ q \in Seq(Message) /\ q # <<>> /\ h = q[1] /\ h \in Message /\ Len(q) \in Nat \ {0}
    BY <1>3, RecvHead
  <2>2. InSockets(d) /\ p # None /\ link[p] = "live"
    BY <1>3, RecvHead
  <2>3. /\ Contiguous(q, got[p], Delivered(p))
        /\ Bounded(q, got[p], Delivered(p), hungup[p] /\ wire[p] = <<>>)
    BY <1>3, RecvHead
  <2>4. Delivered(p) \in Nat /\ got[p] \in Nat /\ sent[p] \in Nat
    BY <1>3, RecvHead
  <2>5. /\ WellFormed(h) /\ h.first = got[p] + 1 /\ h.last <= Delivered(p)
        /\ h.close => hungup[p] /\ got[p] = sent[p]
        /\ ~h.close => ~eof[p]
    BY <1>3, RecvHead
  <2>6. UNCHANGED <<status, port, link, wire, sent, hungup>>
    BY <1>3 DEF SocketRecv
  <2>p. p' = p
    BY <2>6
  <2>7. \A e \in Desc : e # d /\ port[e] # None => port[e] # p
    BY PortOwner
  <2> HIDE DEF p, q, h
  <2>8. CASE h.close
    <3>1. queue' = queue /\ got' = got /\ eof' = [eof EXCEPT ![p] = TRUE]
      BY <1>3, <2>8 DEF SocketRecv, p, h
    <3>2. got[p] = sent[p]
      BY <2>5, <2>8
    <3>3. ASSUME NEW e \in Desc PROVE QueueOK(e)'
      BY <1>a, <2>6, <3>1, QueueFrame DEF InSockets
    <3>4. ASSUME NEW r \in Port PROVE WireOK(r)' /\ FreshOK(r)' /\ EndOK(r)'
      <4>1. CASE r = p
        BY <1>a, <2>5, <2>6, <2>8, <3>1, <3>2, <4>1, <1>t DEF WireOK, FreshOK, EndOK, Delivered
      <4>2. CASE r # p
        BY <1>a, <1>t, <2>6, <3>1, <4>2, PortFrame
      <4> QED
        BY <4>1, <4>2
    <3> QED
      BY <3>3, <3>4
  <2>9. CASE ~h.close
    <3> DEFINE k == Taken(h, n)
    <3>1. /\ queue' = [queue EXCEPT ![d] = AfterRead(q, n)]
          /\ got' = [got EXCEPT ![p] = h.first + k - 1]
          /\ eof' = eof
      BY <1>3, <1>t, <2>9 DEF SocketRecv, p, q, h
    <3>2. k \in Nat \ {0} /\ k <= Size(h) /\ Size(h) = h.last - got[p] /\ (k < Size(h) => k = n)
      <4>1. h.first \in Nat /\ h.last \in Nat /\ h.first <= h.last /\ n \in Nat \ {0}
        BY <2>1, <2>5, <2>9 DEF WellFormed, Message
      <4>2. Size(h) = h.last - got[p] /\ Size(h) \in Nat \ {0}
        BY <2>4, <2>5, <4>1 DEF Size
      <4> QED
        BY <4>1, <4>2 DEF Taken
    <3> HIDE DEF k
    <3>3. got'[p] = got[p] + k
      BY <1>t, <2>1, <2>4, <2>5, <3>1, <3>2
    <3>4. /\ Contiguous(AfterRead(q, n), got'[p], Delivered(p))
          /\ Bounded(AfterRead(q, n), got'[p], Delivered(p), hungup[p] /\ wire[p] = <<>>)
      <4>1. CASE k = Size(h)
        <5>1. AfterRead(q, n) = Tail(q) /\ got'[p] = h.last
          BY <2>1, <2>4, <3>2, <3>3, <4>1 DEF AfterRead, k, h, q, Message
        <5> QED
          <6> DEFINE c == hungup[p] /\ wire[p] = <<>>
          <6>1. c \in BOOLEAN /\ Bounded(q, got[p], Delivered(p), c)
            BY <2>3, <2>1, <1>t
          <6> HIDE DEF c
          <6>2. Bounded(Tail(q), Head(q).last, Delivered(p), c)
            BY <2>1, <2>4, <6>1, BoundedTail, Zenon
          <6>3. Contiguous(Tail(q), Head(q).last, Delivered(p))
            BY <2>1, <2>3, <2>4, ContiguousTail
          <6> QED
            BY <5>1, <6>2, <6>3 DEF c, h, q
      <4>2. CASE k # Size(h)
        <5>1. k = n /\ k < Size(h)
          BY <2>1, <2>4, <3>2, <4>2 DEF Message
        <5>2. AfterRead(q, n) = [q EXCEPT ![1].first = @ + n]
          BY <4>2 DEF AfterRead, k, h, q
        <5>3. n \in Nat
          OBVIOUS
        <5>4. Contiguous([q EXCEPT ![1].first = @ + n], got[p] + n, Delivered(p))
          BY <2>1, <2>3, <2>4, <5>3, ContiguousCut
        <5>5. Bounded([q EXCEPT ![1].first = @ + n], got[p] + n, Delivered(p), hungup[p] /\ wire[p] = <<>>)
          BY <2>1, <2>3, <2>4, <2>9, <5>1, <5>3, <1>t, BoundedCut DEF h, q
        <5> QED
          BY <3>3, <5>1, <5>2, <5>4, <5>5
      <4> QED
        BY <4>1, <4>2
    <3>5. Delivered(p)' = Delivered(p)
      BY <2>6, <2>p DEF Delivered
    <3>6. QueueOK(d)'
      BY <1>t, <2>1, <2>6, <3>1, <3>4, <3>5 DEF QueueOK, p
    <3>7. ASSUME NEW e \in Desc, e # d PROVE QueueOK(e)'
      BY <1>a, <1>t, <2>6, <2>7, <3>1, <3>7, QueueFrame DEF InSockets
    <3>8. ~eof[p]
      BY <2>5, <2>9
    <3>9. ASSUME NEW r \in Port PROVE WireOK(r)' /\ FreshOK(r)' /\ EndOK(r)'
      <4>1. CASE r = p
        <5>1. port'[d] = r
          BY <2>6, <4>1 DEF p
        <5> QED
          BY <1>a, <2>2, <2>6, <2>p, <3>1, <3>5, <3>8, <4>1, <5>1 DEF WireOK, FreshOK, EndOK, Delivered
      <4>2. CASE r # p
        BY <1>a, <1>t, <2>6, <3>1, <4>2, PortFrame
      <4> QED
        BY <4>1, <4>2
    <3> QED
      BY <3>6, <3>7, <3>9
  <2> QED
    BY <2>8, <2>9
<1>4. ASSUME NEW d \in Desc, SocketClose(d) PROVE Goal
  <2>1. ~InSockets(d)'
    BY <1>4, <1>t DEF SocketClose, InSockets
  <2>2. ASSUME NEW e \in Desc, e # d, port[e] # None PROVE port[e] # port[d]
    BY <2>2, PortOwner
  <2>3. ASSUME NEW e \in Desc PROVE QueueOK(e)'
    <3>1. CASE e = d
      BY <2>1, <3>1 DEF QueueOK
    <3>2. CASE e # d
      BY <1>4, <1>a, <1>t, <2>2, <3>2, QueueFrame DEF SocketClose, InSockets
    <3> QED
      BY <3>1, <3>2
  <2>4. ASSUME NEW r \in Port PROVE WireOK(r)' /\ FreshOK(r)' /\ EndOK(r)'
    <3>1. CASE r # port[d]
      BY <1>4, <1>a, <1>t, <3>1, PortFrame DEF SocketClose
    <3>2. CASE r = port[d]
      BY <1>4, <1>a, <1>t, <3>2 DEF SocketClose, WireOK, FreshOK, EndOK
    <3> QED
      BY <3>1, <3>2
  <2> QED
    BY <2>3, <2>4
<1>5. ASSUME NEW d \in Desc, Deliver(d) PROVE Goal
  <2> DEFINE p == port[d]
             q == queue[d]
             w == wire[port[d]]
             m == Head(wire[port[d]])
  <2>1. /\ p \in Port /\ q \in Seq(Message) /\ w \in Seq(Message) /\ w # <<>>
        /\ m = w[1] /\ m \in Message /\ Len(w) \in Nat \ {0}
    BY <1>5, <1>t DEF Deliver
  <2>2. InSockets(d) /\ p # None /\ link[p] = "live"
    BY <1>5 DEF Deliver, ConnectionInv, PortLinks
  <2>3. /\ Contiguous(q, got[p], Delivered(p))
        /\ Bounded(q, got[p], Delivered(p), FALSE)
    BY <1>a, <2>1, <2>2 DEF QueueOK
  <2>4. /\ Delivered(p) \in Nat /\ got[p] \in Nat /\ sent[p] \in Nat /\ hungup[p] \in BOOLEAN
        /\ Contiguous(w, Delivered(p), sent[p])
        /\ Bounded(w, Delivered(p), sent[p], hungup[p])
    BY <1>a, <1>t, <2>1, <2>2 DEF WireOK
  <2>5. /\ queue' = [queue EXCEPT ![d] = Append(q, m)]
        /\ wire' = [wire EXCEPT ![p] = Tail(w)]
        /\ UNCHANGED <<status, port, link, sent, hungup, got, eof>>
    BY <1>5 DEF Deliver, Pushed
  <2>6. \A e \in Desc : e # d /\ port[e] # None => port[e] # p
    BY PortOwner
  <2>7. /\ WellFormed(m)
        /\ m.close => Tail(w) = <<>> /\ hungup[p]
    <3>1. 1 \in 1 .. Len(w)
      BY <2>1
    <3>2. WellFormed(m) /\ (m.close => Len(w) = 1 /\ hungup[p])
      BY <2>1, <2>4, <3>1 DEF Bounded
    <3> QED
      BY <2>1, <3>2, QueueOperations
  <2>p. p' = p
    BY <2>5
  <2> HIDE DEF p, q, w, m
  <2>8. /\ Contiguous(Tail(w), m.last, sent[p])
        /\ m.first = Delivered(p) + 1
        /\ Tail(w) # <<>> => Head(Tail(w)).first = m.last + 1
        /\ Tail(w) = <<>> => m.last = sent[p]
    BY <2>1, <2>4, ContiguousTail DEF w, p, m
  <2>9. Delivered(p)' = m.last /\ wire'[p] = Tail(w)
    <3>1. wire'[p] = Tail(w) /\ sent'[p] = sent[p] /\ m.last \in Nat
      BY <1>t, <2>1, <2>5 DEF Message
    <3> QED
      BY <2>8, <2>p, <3>1 DEF Delivered
  <2>10. Bounded(Tail(w), m.last, sent[p], hungup[p])
    BY <2>1, <2>4, BoundedTail DEF w, p, m
  <2>11. Contiguous(Append(q, m), got[p], m.last)
    BY <2>1, <2>3, <2>4, <2>8, ContiguousAppend
  <2>12. Bounded(Append(q, m), got[p], m.last, hungup[p] /\ Tail(w) = <<>>)
    BY <2>1, <2>3, <2>4, <2>7, <2>8, BoundedAppend
  <2>13. QueueOK(d)'
    BY <1>t, <2>1, <2>5, <2>9, <2>11, <2>12 DEF QueueOK, p
  <2>14. ASSUME NEW e \in Desc, e # d PROVE QueueOK(e)'
    BY <1>a, <1>t, <2>5, <2>6, <2>14, QueueFrame DEF InSockets
  <2>15. ASSUME NEW r \in Port PROVE WireOK(r)' /\ FreshOK(r)' /\ EndOK(r)'
    <3>1. CASE r = p
      <4>1. port'[d] = r
        BY <2>5, <3>1 DEF p
      <4>2. WireOK(r)'
        BY <2>1, <2>5, <2>8, <2>9, <2>10, <2>p, <3>1 DEF WireOK, Message
      <4> QED
        BY <1>a, <2>2, <2>5, <3>1, <4>1, <4>2 DEF FreshOK, EndOK
    <3>2. CASE r # p
      BY <1>a, <1>t, <2>5, <3>2, PortFrame
    <3> QED
      BY <3>1, <3>2
  <2> QED
    BY <2>13, <2>14, <2>15
<1>6. ASSUME NEW p \in Port, DeliverConnect(p) PROVE Goal
  <2>1. ASSUME NEW e \in Desc PROVE QueueOK(e)'
    BY <1>6, <1>a, <1>t, QueueFrame DEF DeliverConnect, InSockets
  <2>2. ASSUME NEW r \in Port PROVE WireOK(r)' /\ FreshOK(r)' /\ EndOK(r)'
    BY <1>6, <1>a, <1>t, PortFrame DEF DeliverConnect
  <2> QED
    BY <2>1, <2>2
<1>7. ASSUME NEW p \in Port, RemoteConnect(p) PROVE Goal
  <2>1. ASSUME NEW e \in Desc PROVE QueueOK(e)'
    BY <1>7, <1>a, <1>t, QueueFrame DEF RemoteConnect, InSockets
  <2>2. ASSUME NEW r \in Port PROVE WireOK(r)' /\ FreshOK(r)' /\ EndOK(r)'
    BY <1>7, <1>a, <1>t, PortFrame DEF RemoteConnect
  <2> QED
    BY <2>1, <2>2
<1>8. ASSUME NEW p \in Port, NEW n \in 1 .. MaxByte, RemoteSend(p, n) PROVE Goal
  <2> DEFINE m == Chunk(sent[p], n)
  <2>1. /\ m \in Message /\ WellFormed(m) /\ ~m.close
        /\ m.first = sent[p] + 1 /\ m.last = sent[p] + n
    BY <1>t DEF Chunk, Message, WellFormed
  <2> HIDE DEF m
  <2>2. /\ link[p] \notin {"unused", "closed"} /\ ~hungup[p] /\ hungup'[p] \in BOOLEAN
        /\ sent'[p] = m.last /\ wire'[p] = Append(wire[p], m)
        /\ \A r \in Port \ {p} : UNCHANGED <<wire[r], sent[r], hungup[r]>>
        /\ UNCHANGED <<status, port, queue, link, got, eof>>
    BY <1>8, <1>t, <2>1 DEF RemoteSend, m
  <2> QED
    BY <1>a, <1>t, <2>1, <2>2, PostStep
<1>9. ASSUME NEW p \in Port, RemoteClose(p) PROVE Goal
  <2> DEFINE m == CloseMessage(sent[p])
  <2>1. /\ m \in Message /\ WellFormed(m)
        /\ m.first = sent[p] + 1 /\ m.last = sent[p]
    BY <1>t DEF CloseMessage, Message, WellFormed
  <2> HIDE DEF m
  <2>2. /\ link[p] \notin {"unused", "closed"} /\ ~hungup[p] /\ hungup'[p]
        /\ sent'[p] = m.last /\ wire'[p] = Append(wire[p], m)
        /\ \A r \in Port \ {p} : UNCHANGED <<wire[r], sent[r], hungup[r]>>
        /\ UNCHANGED <<status, port, queue, link, got, eof>>
    BY <1>9, <1>t, <2>1 DEF RemoteClose, m
  <2> QED
    BY <1>a, <1>t, <2>1, <2>2, PostStep
<1>10. ASSUME
         \/ (\E d \in Desc : SocketCreate(d))
         \/ (\E d \in Desc : SocketBind(d))
         \/ (\E d \in Desc : SocketListen(d))
         \/ (\E id \in Timer : AddDelayed(id))
         \/ (\E d \in Desc : (\E id \in Timer : AddReadNet(d, id)))
         \/ (\E d \in Desc : (\E id \in Timer : AddWriteNet(d, id)))
         \/ (\E id \in Timer : Cancel(id))
         \/ Return
         \/ (\E id \in Timer : FireRead(id))
         \/ (\E id \in Timer : FireWrite(id))
         \/ (\E id \in Timer : FireDelayed(id))
         \/ UNCHANGED vars
       PROVE Goal
  <2>1. /\ UNCHANGED <<port, queue, link, wire, sent, hungup, got, eof>>
        /\ \A e \in Desc : port[e] # None /\ status'[e] = "open" => status[e] = "open"
    BY <1>10, <1>t DEF SocketLinks, SocketCreate, SocketBind, SocketListen, AddDelayed, AddReadNet, AddWriteNet, Cancel, Return, FireRead, FireWrite, FireDelayed
  <2>2. ASSUME NEW e \in Desc PROVE QueueOK(e)'
    BY <1>a, <2>1, QueueFrame DEF InSockets
  <2>3. ASSUME NEW r \in Port PROVE WireOK(r)' /\ FreshOK(r)' /\ EndOK(r)'
    BY <1>a, <2>1, PortFrame
  <2> QED
    BY <2>2, <2>3
<1>11. Goal
  <2> HIDE DEF Goal
  <2> QED
    BY <1>1, <1>2, <1>3, <1>4, <1>5, <1>6, <1>7, <1>8, <1>9, <1>10 DEF Next, Call, Event, Remote
<1> QED
  BY <1>11 DEF StreamInv, StreamIntact, EofLast, StreamLinks, QueueOK, WireOK, FreshOK, EndOK

-----------------------------------------------------------------------------
(* The theorems.                                                           *)

StreamsInv == TypeOK /\ TaskInv /\ WakeupInv /\ ConnectionInv /\ StreamInv

LEMMA StreamsInit == Init => ConnectionInv /\ StreamInv
<1> SUFFICES ASSUME Init PROVE ConnectionInv /\ StreamInv
  OBVIOUS
<1>1. ConnectionInv
  <2>1. incoming = <<>> /\ 1 .. Len(incoming) = {}
    BY DEF Init
  <2> QED
    BY <2>1, NoneAssumption DEF Init, ConnectionInv, ConnectionsUnique, PortLinks, InSockets
<1>2. \A d \in Desc : QueueOK(d)
  BY DEF Init, QueueOK, InSockets
<1>3. ASSUME NEW p \in Port PROVE WireOK(p) /\ FreshOK(p) /\ EndOK(p)
  <2>1. wire[p] = <<>> /\ sent[p] = 0 /\ Delivered(p) = 0
    BY DEF Init, Delivered
  <2>2. Contiguous(<<>>, 0, 0) /\ Bounded(<<>>, 0, 0, hungup[p])
    BY DEF Contiguous, Bounded
  <2>3. WireOK(p)
    BY <2>1, <2>2 DEF WireOK
  <2>4. FreshOK(p)
    BY <2>1 DEF Init, FreshOK
  <2> QED
    BY <2>3, <2>4 DEF Init, EndOK
<1> QED
  BY <1>1, <1>2, <1>3, StreamParts

\* The invariant of the whole layer is inductive.
THEOREM StreamInvariant == Spec => []StreamsInv
<1>1. Init => StreamsInv
  BY InvInit, StreamsInit DEF StreamsInv
<1>2. StreamsInv /\ [Next]_vars => StreamsInv'
  BY TypeStep, TaskStep, WakeupStep, ConnectionStep, StreamStep DEF StreamsInv, TaskInv
<1> QED
  BY <1>1, <1>2, PTL DEF Spec

\* A connection that arrived is in SOCKETS.incoming or belongs to one socket.
THEOREM ConnectionNotSharedNorLost == Spec => []ConnectionsUnique
<1>1. StreamsInv => ConnectionsUnique
  BY DEF StreamsInv, ConnectionInv
<1> QED
  BY StreamInvariant, <1>1, PTL

\* Bytes read, queued and on the wire are the bytes sent, in order.
THEOREM StreamStaysIntact == Spec => []StreamIntact
<1>1. StreamsInv => StreamIntact
  BY DEF StreamsInv, StreamInv
<1> QED
  BY StreamInvariant, <1>1, PTL

\* End of file comes last.
THEOREM EofComesLast == Spec => []EofLast
<1>1. StreamsInv => EofLast
  BY DEF StreamsInv, StreamInv
<1> QED
  BY StreamInvariant, <1>1, PTL

LEMMA AbstractInit == Init => Abstract!Init
BY DEF Init, Abstract!Init

\* A socket_recv that returns data is the abstract Read, one that returns 0 is
\* the abstract End; socket_send and socket_close of the remote end are Write
\* and Hangup; every other step is invisible.
LEMMA AbstractStep == StreamsInv /\ [Next]_vars => [Abstract!Next]_(Abstract!vars)
<1> SUFFICES ASSUME StreamsInv, [Next]_vars PROVE [Abstract!Next]_(Abstract!vars)
  OBVIOUS
<1> USE MaxByteAssumption, NoneAssumption
<1> USE DEF vars, socketVars, listenVars, taskVars, portVars, readVars, runVars, Abstract!vars
<1>1. ASSUME NEW d \in Desc, NEW n \in 1 .. MaxByte, SocketRecv(d, n) PROVE Abstract!Next
  <2> DEFINE p == port[d]
             h == Head(queue[d])
             k == Taken(Head(queue[d]), n)
  <2>1. /\ p \in Port /\ h \in Message /\ WellFormed(h)
        /\ got[p] \in Nat /\ sent[p] \in Nat /\ Delivered(p) \in Nat
        /\ h.first = got[p] + 1 /\ h.last <= Delivered(p) /\ Delivered(p) <= sent[p]
        /\ h.close => hungup[p] /\ got[p] = sent[p]
        /\ ~h.close => ~eof[p]
    BY <1>1, RecvHead DEF StreamsInv
  <2>2. UNCHANGED <<sent, hungup>>
    BY <1>1 DEF SocketRecv
  <2>3. CASE h.close
    <3>1. got' = got /\ eof' = [eof EXCEPT ![p] = TRUE]
      BY <1>1, <2>3 DEF SocketRecv
    <3> QED
      BY <2>1, <2>2, <2>3, <3>1 DEF Abstract!Next, Abstract!End
  <2>4. CASE ~h.close
    <3>1. got' = [got EXCEPT ![p] = h.first + k - 1] /\ eof' = eof
      BY <1>1, <2>4 DEF SocketRecv
    <3> HIDE DEF p, h
    <3>2. k \in 1 .. n /\ k <= h.last - got[p]
      <4>1. h.first \in Nat /\ h.last \in Nat /\ h.first <= h.last
        BY <2>1, <2>4 DEF WellFormed, Message
      <4> QED
        BY <2>1, <4>1 DEF Taken, Size, h
    <3> HIDE DEF k
    <3>3. k \in 1 .. MaxByte /\ h.last \in Nat
      BY <2>1, <3>2 DEF Message
    <3>4. h.first + k - 1 = got[p] + k /\ got[p] + k <= sent[p]
      BY <2>1, <3>2, <3>3
    <3>5. Abstract!Read(p, k)
      BY <2>1, <2>2, <2>4, <3>1, <3>4 DEF Abstract!Read
    <3> QED
      BY <2>1, <3>3, <3>5 DEF Abstract!Next
  <2> QED
    BY <2>3, <2>4
<1>2. ASSUME NEW p \in Port, NEW n \in 1 .. MaxByte, RemoteSend(p, n) PROVE Abstract!Next
  BY <1>2 DEF RemoteSend, Abstract!Next, Abstract!Write
<1>3. ASSUME NEW p \in Port, RemoteClose(p) PROVE Abstract!Next
  BY <1>3 DEF RemoteClose, Abstract!Next, Abstract!Hangup
<1>4. ASSUME
         \/ (\E d \in Desc : SocketCreate(d))
         \/ (\E d \in Desc : (\E p \in Port : SocketConnect(d, p)))
         \/ (\E d \in Desc : SocketBind(d))
         \/ (\E d \in Desc : SocketListen(d))
         \/ (\E d \in Desc : (\E sd \in Desc : SocketAccept(d, sd)))
         \/ (\E d \in Desc : SocketClose(d))
         \/ (\E id \in Timer : AddDelayed(id))
         \/ (\E d \in Desc : (\E id \in Timer : AddReadNet(d, id)))
         \/ (\E d \in Desc : (\E id \in Timer : AddWriteNet(d, id)))
         \/ (\E id \in Timer : Cancel(id))
         \/ Return
         \/ (\E d \in Desc : Deliver(d))
         \/ (\E p \in Port : DeliverConnect(p))
         \/ (\E id \in Timer : FireRead(id))
         \/ (\E id \in Timer : FireWrite(id))
         \/ (\E id \in Timer : FireDelayed(id))
         \/ (\E p \in Port : RemoteConnect(p))
         \/ UNCHANGED vars
      PROVE  UNCHANGED Abstract!vars
  BY <1>4 DEF SocketCreate, SocketConnect, SocketBind, SocketListen, SocketAccept, SocketClose,
    AddDelayed, AddReadNet, AddWriteNet, Cancel, Return, Deliver,
    DeliverConnect, FireRead, FireWrite, FireDelayed, RemoteConnect, AddTask
<1> QED
  BY <1>1, <1>2, <1>3, <1>4 DEF Next, Call, Event, Remote

\* Network implements the byte streams of Stream.
THEOREM NetworkImplementsStream == Spec => ImplementsStream
BY StreamInvariant, AbstractInit, AbstractStep, PTL DEF Spec, ImplementsStream, Abstract!Spec

=============================================================================
