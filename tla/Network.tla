------------------------------- MODULE Network -------------------------------
(***************************************************************************)
(* The event loop of one GNUnet process running inside a SharedWorker:     *)
(* its socket table (network.js), its task table (scheduler.js) and the    *)
(* part of its message handler that receives connections (pre.js).         *)
(*                                                                         *)
(* A worker executes one callback at a time, to completion.  A callback    *)
(* is entered from the browser (a timer, a message on a socket's port, a   *)
(* 'connect' message) and runs C code, which makes any sequence of calls   *)
(* to this layer before it returns.  `running' is TRUE during a callback;  *)
(* the calls are enabled only then, the browser's events only when it is   *)
(* FALSE.  The other end of every port lives in another worker and is      *)
(* never synchronised with this one: the Remote actions are its calls to   *)
(* the same socket_send and socket_close.                                  *)
(*                                                                         *)
(* Bytes are numbered per port and direction, so a message is an interval  *)
(* of byte numbers and order, loss and duplication are visible.            *)
(***************************************************************************)
EXTENDS Naturals, Sequences, FiniteSets

CONSTANTS
  Desc,         \* the values NEXT_SOCKET++ can return
  Timer,        \* the ids setTimeout can return
  Port,         \* the MessagePorts whose messages this worker receives
  MaxByte,      \* bound: bytes the remote end sends on one port
  None,         \* "not in the table"
  Disciplined   \* TRUE: the C code cancels a socket's read task before it
                \* closes the socket, and registers one read task at a time

ASSUME NoneAssumption == None \notin Desc \cup Timer \cup Port
ASSUME MaxByteAssumption == MaxByte \in Nat
ASSUME DisciplinedAssumption == Disciplined \in BOOLEAN

VARIABLES
  status,          \* descriptor -> "unused", "created", "open" (in SOCKETS), "closed"
  port,            \* socket.port; None for a bound socket
  queue,           \* socket.queue, messages received and not read
  task,            \* socket.task, the id of the registered read task
  listening,       \* SOCKETS.listening
  incoming,        \* SOCKETS.incoming, ports of connections not accepted
  SCHEDULER_TASKS, \* ids of the tasks that are registered
  closure,         \* timer id -> what its setTimeout callback was created for
  timers,          \* ids whose setTimeout callback is still to come
  running,         \* a callback is executing
  link,            \* port -> "unused", "connecting", "live", "closed"
  wire,            \* messages posted to the port, not delivered
  sent,            \* bytes the remote end has sent
  hungup,          \* the remote end has closed
  got,             \* history: bytes returned by socket_recv
  eof,             \* history: socket_recv has returned 0
  ran,             \* history: times the task was run
  cancelled        \* history: tasks cancelled while registered

socketVars == <<status, port, queue, task>>
listenVars == <<listening, incoming>>
taskVars   == <<SCHEDULER_TASKS, closure, timers>>
portVars   == <<link, wire, sent, hungup>>
readVars   == <<got, eof>>
runVars    == <<ran, cancelled>>
vars == <<socketVars, listenVars, taskVars, running, portVars, readVars, runVars>>

Message == [close : BOOLEAN, first : Nat, last : Nat]
Closure == [kind : {"unused", "delayed", "read", "write"}, socket : Desc \cup {None}]

NoClosure == [kind |-> "unused", socket |-> None]

TypeOK ==
  /\ status \in [Desc -> {"unused", "created", "open", "closed"}]
  /\ port \in [Desc -> Port \cup {None}]
  /\ queue \in [Desc -> Seq(Message)]
  /\ task \in [Desc -> Timer \cup {None}]
  /\ listening \in Desc \cup {None}
  /\ incoming \in Seq(Port)
  /\ SCHEDULER_TASKS \subseteq Timer
  /\ closure \in [Timer -> Closure]
  /\ timers \subseteq Timer
  /\ running \in BOOLEAN
  /\ link \in [Port -> {"unused", "connecting", "live", "closed"}]
  /\ wire \in [Port -> Seq(Message)]
  /\ sent \in [Port -> Nat]
  /\ hungup \in [Port -> BOOLEAN]
  /\ got \in [Port -> Nat]
  /\ eof \in [Port -> BOOLEAN]
  /\ ran \in [Timer -> Nat]
  /\ cancelled \subseteq Timer

\* GNUNET_SCHEDULER_run has called the process's first task.
Init ==
  /\ status = [d \in Desc |-> "unused"]
  /\ port = [d \in Desc |-> None]
  /\ queue = [d \in Desc |-> <<>>]
  /\ task = [d \in Desc |-> None]
  /\ listening = None
  /\ incoming = <<>>
  /\ SCHEDULER_TASKS = {}
  /\ closure = [id \in Timer |-> NoClosure]
  /\ timers = {}
  /\ running = TRUE
  /\ link = [p \in Port |-> "unused"]
  /\ wire = [p \in Port |-> <<>>]
  /\ sent = [p \in Port |-> 0]
  /\ hungup = [p \in Port |-> FALSE]
  /\ got = [p \in Port |-> 0]
  /\ eof = [p \in Port |-> FALSE]
  /\ ran = [id \in Timer |-> 0]
  /\ cancelled = {}

-----------------------------------------------------------------------------
(* Tests and updates shared by several operations.                         *)

InSockets(d) == status[d] = "open"

IsRead(id) == closure[id].kind = "read"

ReadyIfListening(d) == listening = d \/ queue[d] # <<>>

\* What a read task waits for: a connection on the listening socket, a
\* message on any other.
Ready(d) ==
  IF listening = d THEN incoming # <<>> ELSE queue[d] # <<>>

\* The message socket_send posts: n bytes after the first s.
Chunk(s, n) == [close |-> FALSE, first |-> s + 1, last |-> s + n]

\* The "close" message socket_close posts after s bytes.
CloseMessage(s) == [close |-> TRUE, first |-> s + 1, last |-> s]

Size(m) == m.last + 1 - m.first

\* How many of the wanted n bytes the message m yields: data.subarray(0, n).
Taken(m, n) == IF n < Size(m) THEN n ELSE Size(m)

\* The queue after n bytes of its head were read: the head is dropped when it
\* is used up and is replaced by its unread part otherwise.
AfterRead(q, n) ==
  IF Taken(Head(q), n) = Size(Head(q))
  THEN Tail(q)
  ELSE [q EXCEPT ![1].first = @ + n]

PushedCloseFirst(q, m) == IF m.close THEN <<m>> ELSE Append(q, m)

\* socket.queue.push(ev.data)
Pushed(q, m) == Append(q, m)

WaitingUnlessEmpty(d) == task[d] # None /\ queue[d] # <<>>
WaitingNever(d) == FALSE

\* "task" in socket: a read task waits for the next message.
Waiting(d) == task[d] # None

RegisteredAlways(id) == TRUE

\* id in SCHEDULER_TASKS
Registered(id) == id \in SCHEDULER_TASKS

IncomingPeeked == incoming

\* SOCKETS.incoming.shift()
IncomingAfterAccept == Tail(incoming)

\* delete SCHEDULER_TASKS[id]
Removed(id) == SCHEDULER_TASKS \ {id}

\* GNUNET_SCHEDULER_cancel's update of the socket of the cancelled task.
TaskAfterCancel(id) ==
  [d \in Desc |->
    IF IsRead(id) /\ closure[id].socket = d /\ InSockets(d) THEN None ELSE task[d]]

\* Enter the handler of task id.
Run(id) ==
  /\ running' = TRUE
  /\ ran' = [ran EXCEPT ![id] = @ + 1]
  /\ UNCHANGED cancelled

-----------------------------------------------------------------------------
(* Calls made by the C code while a callback is running.                   *)

SocketCreate(d) ==
  /\ running
  /\ status[d] = "unused"
  /\ status' = [status EXCEPT ![d] = "created"]
  /\ UNCHANGED <<port, queue, task, listenVars, taskVars, running, portVars, readVars, runVars>>

\* p is port1 of the new MessageChannel, port2 goes to the service.
SocketConnect(d, p) ==
  /\ running
  /\ status[d] = "created"
  /\ link[p] = "unused"
  /\ status' = [status EXCEPT ![d] = "open"]
  /\ port' = [port EXCEPT ![d] = p]
  /\ link' = [link EXCEPT ![p] = "live"]
  /\ UNCHANGED <<queue, task, listenVars, taskVars, running, wire, sent, hungup, readVars, runVars>>

SocketBind(d) ==
  /\ running
  /\ status[d] = "created"
  /\ status' = [status EXCEPT ![d] = "open"]
  /\ UNCHANGED <<port, queue, task, listenVars, taskVars, running, portVars, readVars, runVars>>

\* Only one socket ever listens; a second call fails.
SocketListen(d) ==
  /\ running
  /\ InSockets(d) /\ port[d] = None
  /\ listening = None
  /\ listening' = d
  /\ UNCHANGED <<socketVars, incoming, taskVars, running, portVars, readVars, runVars>>

\* The oldest incoming connection becomes the new descriptor sd.  Messages
\* that arrived on its port before have waited in the port.
SocketAccept(d, sd) ==
  /\ running
  /\ InSockets(d) /\ listening = d
  /\ incoming # <<>>
  /\ status[sd] = "unused"
  /\ status' = [status EXCEPT ![sd] = "open"]
  /\ port' = [port EXCEPT ![sd] = Head(incoming)]
  /\ incoming' = IncomingAfterAccept
  /\ UNCHANGED <<queue, task, listening, taskVars, running, portVars, readVars, runVars>>

\* Reading from an empty queue fails with EWOULDBLOCK and changes nothing.
\* A "close" at the head is left there, so that every later call returns 0.
SocketRecv(d, n) ==
  /\ running
  /\ InSockets(d) /\ port[d] # None
  /\ queue[d] # <<>>
  /\ \/ /\ Head(queue[d]).close
        /\ eof' = [eof EXCEPT ![port[d]] = TRUE]
        /\ UNCHANGED <<queue, got>>
     \/ /\ ~Head(queue[d]).close
        /\ queue' = [queue EXCEPT ![d] = AfterRead(@, n)]
        /\ got' = [got EXCEPT ![port[d]] = Head(queue[d]).first + Taken(Head(queue[d]), n) - 1]
        /\ UNCHANGED eof
  /\ UNCHANGED <<status, port, task, listenVars, taskVars, running, portVars, runVars>>

\* Closing the port discards what it has not delivered.  Neither the task
\* table nor SOCKETS.listening is touched.
SocketClose(d) ==
  /\ running
  /\ InSockets(d)
  /\ Disciplined => task[d] = None
  /\ status' = [status EXCEPT ![d] = "closed"]
  /\ link' = [p \in Port |-> IF p = port[d] THEN "closed" ELSE link[p]]
  /\ wire' = [p \in Port |-> IF p = port[d] THEN <<>> ELSE wire[p]]
  /\ UNCHANGED <<port, queue, task, listenVars, taskVars, running, sent, hungup, readVars, runVars>>

\* setTimeout and the entry in SCHEDULER_TASKS, common to every kind of task.
AddTask(id, kind, d) ==
  /\ closure[id] = NoClosure
  /\ closure' = [closure EXCEPT ![id] = [kind |-> kind, socket |-> d]]
  /\ timers' = timers \cup {id}
  /\ SCHEDULER_TASKS' = SCHEDULER_TASKS \cup {id}

AddDelayed(id) ==
  /\ running
  /\ AddTask(id, "delayed", None)
  /\ UNCHANGED <<socketVars, listenVars, running, portVars, readVars, runVars>>

AddReadNet(d, id) ==
  /\ running
  /\ InSockets(d)
  /\ port[d] # None \/ listening = d
  /\ Disciplined => task[d] = None
  /\ AddTask(id, "read", d)
  /\ task' = [task EXCEPT ![d] = id]
  /\ UNCHANGED <<status, port, queue, listenVars, running, portVars, readVars, runVars>>

AddWriteNet(d, id) ==
  /\ running
  /\ InSockets(d)
  /\ AddTask(id, "write", None)
  /\ UNCHANGED <<socketVars, listenVars, running, portVars, readVars, runVars>>

Cancel(id) ==
  /\ running
  /\ closure[id] # NoClosure
  /\ timers' = timers \ {id}
  /\ SCHEDULER_TASKS' = Removed(id)
  /\ IF Registered(id)
     THEN /\ task' = TaskAfterCancel(id)
          /\ cancelled' = cancelled \cup {id}
     ELSE UNCHANGED <<task, cancelled>>
  /\ UNCHANGED <<status, port, queue, listenVars, closure, running, portVars, readVars, ran>>

\* The callback returns to the browser.
Return ==
  /\ running
  /\ running' = FALSE
  /\ UNCHANGED <<socketVars, listenVars, taskVars, portVars, readVars, runVars>>

-----------------------------------------------------------------------------
(* Callbacks the browser enters when none is running.                      *)

\* port.onmessage, the same closure in socket_connect and socket_accept.
Deliver(d) ==
  /\ ~running
  /\ InSockets(d) /\ port[d] # None
  /\ wire[port[d]] # <<>>
  /\ queue' = [queue EXCEPT ![d] = Pushed(@, Head(wire[port[d]]))]
  /\ wire' = [wire EXCEPT ![port[d]] = Tail(@)]
  /\ IF Waiting(d)
     THEN /\ SCHEDULER_TASKS' = Removed(task[d])
          /\ task' = [task EXCEPT ![d] = None]
          /\ Run(task[d])
     ELSE UNCHANGED <<SCHEDULER_TASKS, task, running, runVars>>
  /\ UNCHANGED <<status, port, listenVars, closure, timers, link, sent, hungup, readVars>>

\* get_message on a 'connect'.  If the listening socket was closed the look-up
\* of its task throws, which is caught after incoming was extended.
DeliverConnect(p) ==
  /\ ~running
  /\ link[p] = "connecting"
  /\ link' = [link EXCEPT ![p] = "live"]
  /\ incoming' = Append(incoming, p)
  /\ IF listening # None /\ InSockets(listening) /\ Waiting(listening)
     THEN /\ SCHEDULER_TASKS' = Removed(task[listening])
          /\ task' = [task EXCEPT ![listening] = None]
          /\ Run(task[listening])
     ELSE UNCHANGED <<SCHEDULER_TASKS, task, running, runVars>>
  /\ UNCHANGED <<status, port, queue, listening, closure, timers, wire, sent, hungup, readVars>>

\* The timer of a read task.  Nothing to read leaves the task registered, for
\* the next message to run it.
FireRead(id) ==
  /\ ~running
  /\ id \in timers /\ IsRead(id)
  /\ timers' = timers \ {id}
  /\ IF Ready(closure[id].socket) /\ Registered(id)
     THEN /\ SCHEDULER_TASKS' = Removed(id)
          /\ task' = [task EXCEPT ![closure[id].socket] = None]
          /\ Run(id)
     ELSE UNCHANGED <<SCHEDULER_TASKS, task, running, runVars>>
  /\ UNCHANGED <<status, port, queue, listenVars, closure, portVars, readVars>>

\* The timer of a write task: a socket is always writable.
FireWrite(id) ==
  /\ ~running
  /\ id \in timers /\ closure[id].kind = "write"
  /\ timers' = timers \ {id}
  /\ IF Registered(id)
     THEN SCHEDULER_TASKS' = Removed(id) /\ Run(id)
     ELSE UNCHANGED <<SCHEDULER_TASKS, running, runVars>>
  /\ UNCHANGED <<socketVars, listenVars, closure, portVars, readVars>>

\* The timer of a delayed task, which does not look itself up.
FireDelayed(id) ==
  /\ ~running
  /\ id \in timers /\ closure[id].kind = "delayed"
  /\ timers' = timers \ {id}
  /\ SCHEDULER_TASKS' = Removed(id)
  /\ Run(id)
  /\ UNCHANGED <<socketVars, listenVars, closure, portVars, readVars>>

-----------------------------------------------------------------------------
(* The other end of a port, in a worker of its own.                        *)

\* A window posts 'connect' with the port of a new client.
RemoteConnect(p) ==
  /\ link[p] = "unused"
  /\ link' = [link EXCEPT ![p] = "connecting"]
  /\ UNCHANGED <<socketVars, listenVars, taskVars, running, wire, sent, hungup, readVars, runVars>>

RemoteSend(p, n) ==
  /\ link[p] \in {"connecting", "live"}
  /\ ~hungup[p]
  /\ sent[p] + n <= MaxByte
  /\ wire' = [wire EXCEPT ![p] = Append(@, Chunk(sent[p], n))]
  /\ sent' = [sent EXCEPT ![p] = @ + n]
  /\ UNCHANGED <<socketVars, listenVars, taskVars, running, link, hungup, readVars, runVars>>

RemoteClose(p) ==
  /\ link[p] \in {"connecting", "live"}
  /\ ~hungup[p]
  /\ wire' = [wire EXCEPT ![p] = Append(@, CloseMessage(sent[p]))]
  /\ hungup' = [hungup EXCEPT ![p] = TRUE]
  /\ UNCHANGED <<socketVars, listenVars, taskVars, running, link, sent, readVars, runVars>>

-----------------------------------------------------------------------------

Call ==
  \/ \E d \in Desc :
       \/ SocketCreate(d)
       \/ \E p \in Port : SocketConnect(d, p)
       \/ SocketBind(d)
       \/ SocketListen(d)
       \/ \E sd \in Desc : SocketAccept(d, sd)
       \/ \E n \in 1 .. MaxByte : SocketRecv(d, n)
       \/ SocketClose(d)
       \/ \E id \in Timer : AddReadNet(d, id) \/ AddWriteNet(d, id)
  \/ \E id \in Timer : AddDelayed(id) \/ Cancel(id)

Event ==
  \/ \E d \in Desc : Deliver(d)
  \/ \E p \in Port : DeliverConnect(p)
  \/ \E id \in Timer : FireRead(id) \/ FireWrite(id) \/ FireDelayed(id)

Remote ==
  \E p \in Port :
    \/ RemoteConnect(p)
    \/ \E n \in 1 .. MaxByte : RemoteSend(p, n)
    \/ RemoteClose(p)

Next == Call \/ Return \/ Event \/ Remote

Spec == Init /\ [][Next]_vars

-----------------------------------------------------------------------------
(* Properties.                                                             *)

\* A task runs at most once, never after it was cancelled, and only a task
\* that is no longer registered has run: the two ways into a read handler
\* (the timer and the port's onmessage) never both take it.
RunsAtMostOnce ==
  \A id \in Timer :
    /\ ran[id] <= 1
    /\ ran[id] = 1 => id \notin SCHEDULER_TASKS \cup cancelled
    /\ id \in cancelled => id \notin SCHEDULER_TASKS

\* The two tables name each other: a read task is registered exactly when it
\* is the task of a socket that is in SOCKETS.
TablesAgree ==
  Disciplined =>
    /\ \A d \in Desc :
         task[d] # None =>
           /\ InSockets(d)
           /\ task[d] \in SCHEDULER_TASKS
           /\ closure[task[d]] = [kind |-> "read", socket |-> d]
    /\ \A id \in SCHEDULER_TASKS :
         IsRead(id) => task[closure[id].socket] = id

\* No lost wake-up: when there is something to read for a registered task, its
\* timer is still to fire.  (A task whose timer has fired is run by the next
\* message, so nothing may be waiting already.)
NoLostWakeup ==
  Disciplined =>
    \A id \in SCHEDULER_TASKS :
      IsRead(id) /\ Ready(closure[id].socket) => id \in timers

\* A task that waits for a delay or for writability keeps its timer until it
\* runs or is cancelled.
TimersArmed ==
  \A id \in SCHEDULER_TASKS : ~IsRead(id) => id \in timers

\* q carries exactly the bytes after the first a up to the b-th, in order.
Contiguous(q, a, b) ==
  /\ q = <<>> => a = b
  /\ q # <<>> => q[1].first = a + 1 /\ q[Len(q)].last = b
  /\ \A i \in 1 .. Len(q) - 1 : q[i + 1].first = q[i].last + 1

\* The number of the last byte that left the port's wire.
Delivered(p) == IF wire[p] = <<>> THEN sent[p] ELSE Head(wire[p]).first - 1

\* The bytes the remote end sent are those read, those in socket.queue and
\* those on the wire, in this order, each once, however the reads cut them.
StreamIntact ==
  /\ \A d \in Desc :
       InSockets(d) /\ port[d] # None =>
         Contiguous(queue[d], got[port[d]], Delivered(port[d]))
  /\ \A p \in Port : link[p] # "closed" => Contiguous(wire[p], Delivered(p), sent[p])

\* End of file is reported only when the remote end has closed and every byte
\* it sent was read.
EofLast == \A p \in Port : eof[p] => hungup[p] /\ got[p] = sent[p]

\* A connection that arrived is waiting in SOCKETS.incoming or was given to
\* one descriptor, never both and never two.
ConnectionsUnique ==
  /\ \A i, j \in 1 .. Len(incoming) : incoming[i] = incoming[j] => i = j
  /\ \A d \in Desc : \A i \in 1 .. Len(incoming) : port[d] # incoming[i]
  /\ \A d, e \in Desc : port[d] # None /\ port[d] = port[e] => d = e
  /\ \A p \in Port :
       link[p] = "live" =>
         \/ \E i \in 1 .. Len(incoming) : incoming[i] = p
         \/ \E d \in Desc : InSockets(d) /\ port[d] = p

\* A read handler is entered only on a socket that is in SOCKETS and has
\* something to read: its socket_recv or socket_accept does not fail.
HandlerHasWork ==
  [][\A id \in Timer :
       IsRead(id) /\ ran'[id] > ran[id] =>
         LET d == closure[id].socket
         IN  /\ IF d = listening THEN incoming' # <<>> ELSE queue'[d] # <<>>
             /\ Disciplined => InSockets(d)]_vars

\* Every port carries the byte stream of module Stream.
Abstract == INSTANCE Stream
ImplementsStream == Abstract!Spec

-----------------------------------------------------------------------------
(* What makes the invariants above inductive.                              *)

\* A timer id is new until its setTimeout; a cancelled task has no timer; a
\* delayed task is registered while it has one, since its timer runs it without
\* looking; and socket.task is a task that was registered for the socket.
TaskLinks ==
  /\ \A id \in Timer :
       /\ closure[id].kind = "unused" =>
            id \notin SCHEDULER_TASKS \cup timers \cup cancelled /\ ran[id] = 0
       /\ IsRead(id) => closure[id].socket \in Desc
       /\ id \in cancelled => id \notin timers
       /\ id \in timers /\ closure[id].kind = "delayed" => id \in SCHEDULER_TASKS
  /\ \A d \in Desc :
       task[d] # None =>
         /\ closure[task[d]] = [kind |-> "read", socket |-> d]
         /\ InSockets(d) => task[d] \in SCHEDULER_TASKS
         /\ port[d] # None \/ listening = d

\* A descriptor that is not in SOCKETS yet has no port, queue or task, and the
\* listening socket has no port.
SocketLinks ==
  /\ \A d \in Desc :
       status[d] \in {"unused", "created"} =>
         port[d] = None /\ queue[d] = <<>> /\ task[d] = None /\ listening # d
  /\ listening # None => port[listening] = None

TaskInv == RunsAtMostOnce /\ TimersArmed /\ TaskLinks /\ SocketLinks

WakeupInv == TablesAgree /\ NoLostWakeup

\* A port is held by nobody before its 'connect' arrived, and is in use while
\* it waits in SOCKETS.incoming or belongs to an open socket.
PortLinks ==
  /\ \A p \in Port :
       link[p] \in {"unused", "connecting"} =>
         /\ \A i \in 1 .. Len(incoming) : incoming[i] # p
         /\ \A d \in Desc : port[d] # p
  /\ \A i \in 1 .. Len(incoming) : link[incoming[i]] = "live"
  /\ \A d \in Desc : InSockets(d) /\ port[d] # None => link[port[d]] = "live"

ConnectionInv == ConnectionsUnique /\ PortLinks

WellFormed(m) == IF m.close THEN m.first = m.last + 1 ELSE m.first <= m.last

\* The messages of q are well-formed, carry bytes after the a-th up to the b-th
\* only, and a "close" is the last of them and was sent by a remote end that
\* has closed.
Bounded(q, a, b, closed) ==
  /\ a <= b
  /\ \A i \in 1 .. Len(q) :
       /\ WellFormed(q[i])
       /\ a < q[i].first /\ q[i].last <= b
       /\ q[i].close => i = Len(q) /\ closed
       /\ \A j \in i + 1 .. Len(q) : q[i].last < q[j].first

StreamLinks ==
  /\ \A p \in Port :
       /\ link[p] = "unused" => wire[p] = <<>> /\ sent[p] = 0 /\ ~hungup[p]
       /\ link[p] # "closed" =>
            Delivered(p) \in Nat /\ Bounded(wire[p], Delivered(p), sent[p], hungup[p])
       /\ link[p] # "closed" /\ (\A d \in Desc : port[d] # p) =>
            Delivered(p) = 0 /\ got[p] = 0
  /\ \A d \in Desc :
       InSockets(d) /\ port[d] # None =>
         Bounded(queue[d], got[port[d]], Delivered(port[d]),
                 hungup[port[d]] /\ wire[port[d]] = <<>>)

StreamInv == StreamIntact /\ EofLast /\ StreamLinks
=============================================================================
