------------------------------- MODULE Broker -------------------------------
(***************************************************************************)
(* The switchboard of gnunet-web: browser tabs (service.cljs) start one    *)
(* SharedWorker per GNUnet service (pre.js), give each its private key and *)
(* random bytes, and pass on the connections that workers and pages ask    *)
(* for.  A worker serves every open tab that has started it and dies with  *)
(* the last of them; it reaches other workers only through a tab.          *)
(*                                                                         *)
(* A message on a port is delivered in order.  What a tab has posted when  *)
(* it closes is still delivered; what is posted to a closed tab is lost,   *)
(* and the sender is not told.                                             *)
(***************************************************************************)
EXTENDS Integers, Sequences, FiniteSets

CONSTANTS
  Tab,        \* windows of the page; a reload is a new one
  Service,    \* service names, hence workers
  Daemon,     \* the workers every tab starts, which have no clients (topology)
  Conn,       \* the ports clients ask to have connected to a service
  Dependency, \* what else a worker waits for: syncfs, IndexedDB, plugin files
  Reader,     \* bound: the services whose use of random bytes is followed
  PoolSize,   \* random bytes in an 'init' (4080 in the code)
  None

ASSUME NoneAssumption == None \notin Tab \cup Service
ASSUME DaemonAssumption == Daemon \subseteq Service
ASSUME InitAssumption == "init" \notin Conn
ASSUME DependencyAssumption == IsFiniteSet(Dependency)
ASSUME PoolSizeAssumption == PoolSize \in Nat

VARIABLES
  tab,             \* "unopened", "loading", "open", "closed"
  stored,          \* localStorage: the tab that generated the stored key
  privateKey,      \* per tab: private-key, as the tab that generated it
  services,        \* per tab: the services its atom has a port for
  connecting,      \* per worker: tabs whose 'connect' event is to come
  windows,         \* per worker: its map of ports, in order of index
  toWorker,        \* messages posted by a tab to a worker
  toWindow,        \* 'client_connect' messages posted by a worker to a tab
  pending,         \* dependencies that are not loaded
  runDependencies, \* emscripten's counter
  main,            \* the service's main() was called
  key,             \* per worker: /private_key
  pool,            \* per worker: whose random_bytes, and random_offset
  incoming,        \* per worker: SOCKETS.incoming
  to,              \* history: the service a connection was asked for
  arrivals,        \* history: where the connection arrived
  given,           \* history: bytes of a tab's pool that were handed out
  raced            \* history: tabs that found no stored key while another had found none

tabVars    == <<tab, stored, privateKey, raced>>
portVars   == <<connecting, windows>>
loadVars   == <<pending, runDependencies, main>>
initVars   == <<key, pool>>
vars == <<tabVars, services, portVars, toWorker, toWindow, loadVars, initVars,
          incoming, to, arrivals, given>>

NoPool == [from |-> None, offset |-> 0]

TypeOK ==
  /\ tab \in [Tab -> {"unopened", "loading", "open", "closed"}]
  /\ stored \in Tab \cup {None}
  /\ privateKey \in [Tab -> Tab \cup {None}]
  /\ services \in [Tab -> SUBSET Service]
  /\ connecting \in [Service -> SUBSET Tab]
  /\ windows \in [Service -> Seq(Tab)]
  /\ toWorker \in [Tab -> [Service -> Seq(Conn \cup {"init"})]]
  /\ toWindow \in [Service -> [Tab -> Seq(Conn)]]
  /\ pending \in [Service -> SUBSET Dependency]
  /\ runDependencies \in [Service -> Int]
  /\ main \in [Service -> BOOLEAN]
  /\ key \in [Service -> Tab \cup {None}]
  /\ pool \in [Service -> [from : Tab \cup {None}, offset : 0 .. PoolSize]]
  /\ incoming \in [Service -> Seq(Conn)]
  /\ to \in [Conn -> Service \cup {None}]
  /\ arrivals \in [Conn -> Seq(Service)]
  /\ given \in [Tab -> [Service -> Seq(1 .. PoolSize)]]
  /\ raced \subseteq Tab

\* addRunDependency was called for every dependency and for 'window-init'.
FreshCount == Cardinality(Dependency) + 1

Init ==
  /\ tab = [t \in Tab |-> "unopened"]
  /\ stored = None
  /\ privateKey = [t \in Tab |-> None]
  /\ services = [t \in Tab |-> {}]
  /\ connecting = [s \in Service |-> {}]
  /\ windows = [s \in Service |-> <<>>]
  /\ toWorker = [t \in Tab |-> [s \in Service |-> <<>>]]
  /\ toWindow = [s \in Service |-> [t \in Tab |-> <<>>]]
  /\ pending = [s \in Service |-> Dependency]
  /\ runDependencies = [s \in Service |-> FreshCount]
  /\ main = [s \in Service |-> FALSE]
  /\ key = [s \in Service |-> None]
  /\ pool = [s \in Service |-> NoPool]
  /\ incoming = [s \in Service |-> <<>>]
  /\ to = [c \in Conn |-> None]
  /\ arrivals = [c \in Conn |-> <<>>]
  /\ given = [t \in Tab |-> [s \in Service |-> <<>>]]
  /\ raced = {}

-----------------------------------------------------------------------------

\* Tabs keep a worker alive.
AliveWith(s, open) == \E t \in open : s \in services[t]
OpenTabs == {t \in Tab : tab[t] = "open"}
Alive(s) == AliveWith(s, OpenTabs)

Attached(s, t) == \E i \in 1 .. Len(windows[s]) : windows[s][i] = t

Forgotten(t) == stored

\* localStorage after tab t has loaded: it stores the key it generated.
StoredAfterLoad(t) == IF privateKey[t] = None THEN t ELSE stored

\* A tab that has found no stored key and not stored its own yet.
Generating(t) == tab[t] = "loading" /\ privateKey[t] = None
Generators == {t \in Tab : Generating(t)}

HasPortAlways(t, s) == TRUE

\* (get @services service-name)
HasPort(t, s) == s \in services[t]

PostedInitLast(t, s, c) == IF HasPort(t, s) THEN <<c>> ELSE <<c, "init">>
PostedTwice(t, s, c) == IF HasPort(t, s) THEN <<c>> ELSE <<"init", c, c>>

\* What client-connect posts to the worker: start-worker has sent 'init'
\* before the new port is used.
Posted(t, s, c) == IF HasPort(t, s) THEN <<c>> ELSE <<"init", c>>

\* client-connect in tab t: the worker is started if the tab has no port to it.
ClientConnect(t, s, c) ==
  /\ services' = [services EXCEPT ![t] = @ \cup {s}]
  /\ connecting' = [connecting EXCEPT ![s] = IF HasPort(t, s) THEN @ ELSE @ \cup {t}]
  /\ toWorker' = [toWorker EXCEPT ![t][s] = @ \o Posted(t, s, c)]

\* The counter reaches zero and main() is called.
LastDependency(s) == runDependencies[s] = 1

\* removeRunDependency counts calls, whatever their argument.
RemoveRunDependency(s) ==
  /\ runDependencies' = [runDependencies EXCEPT ![s] = @ - 1]
  /\ main' = [main EXCEPT ![s] = @ \/ LastDependency(s)]

OffsetKept(s, n) == pool[s].offset

\* random_offset after n bytes were asked for.
OffsetAfter(s, n) ==
  IF pool[s].offset + n < PoolSize THEN pool[s].offset + n ELSE PoolSize

\* The bytes the reader gets: as many as are left.
Bytes(s, n) ==
  [i \in 1 .. IF n < PoolSize - pool[s].offset THEN n ELSE PoolSize - pool[s].offset
     |-> pool[s].offset + i]

\* do_to_window: the first port there ever was.
AnyWindow(s) == windows[s][1]

-----------------------------------------------------------------------------
(* The tab.                                                                *)

\* The page is loaded: private-key looks into localStorage.
OpenTab(t) ==
  /\ tab[t] = "unopened"
  /\ tab' = [tab EXCEPT ![t] = "loading"]
  /\ privateKey' = [privateKey EXCEPT ![t] = stored]
  /\ raced' = IF stored = None /\ Generators # {} THEN raced \cup Generators \cup {t} ELSE raced
  /\ UNCHANGED <<stored, services, portVars, toWorker, toWindow, loadVars,
                 initVars, incoming, to, arrivals, given>>

\* A key that was not found is generated and stored, and the page starts its
\* daemon (index.cljs.hl), which nobody connects to.
FinishLoad(t) ==
  /\ tab[t] = "loading"
  /\ tab' = [tab EXCEPT ![t] = "open"]
  /\ privateKey' = [privateKey EXCEPT ![t] = IF @ = None THEN t ELSE @]
  /\ stored' = StoredAfterLoad(t)
  /\ services' = [services EXCEPT ![t] = Daemon]
  /\ connecting' = [s \in Service |-> IF s \in Daemon THEN connecting[s] \cup {t} ELSE connecting[s]]
  /\ toWorker' = [toWorker EXCEPT ![t] =
                    [s \in Service |-> IF s \in Daemon THEN <<"init">> ELSE <<>>]]
  /\ UNCHANGED <<raced, windows, toWindow, loadVars, initVars, incoming, to, arrivals, given>>

\* The client library in the page calls client-connect itself.
PageConnect(t, s, c) ==
  /\ tab[t] = "open"
  /\ s \notin Daemon
  /\ to[c] = None
  /\ to' = [to EXCEPT ![c] = s]
  /\ ClientConnect(t, s, c)
  /\ UNCHANGED <<tabVars, windows, toWindow, loadVars, initVars, incoming, arrivals, given>>

\* 'client_connect' from worker s.
WindowMessage(t, s) ==
  /\ tab[t] = "open"
  /\ toWindow[s][t] # <<>>
  /\ toWindow' = [toWindow EXCEPT ![s][t] = Tail(@)]
  /\ ClientConnect(t, to[Head(toWindow[s][t])], Head(toWindow[s][t]))
  /\ UNCHANGED <<tabVars, windows, loadVars, initVars, incoming, to, arrivals, given>>

\* The user closes the tab; a worker that has no tab left dies.
CloseTab(t) ==
  LET dies(s) == Alive(s) /\ ~AliveWith(s, OpenTabs \ {t})
      Fresh(f, v) == [s \in Service |-> IF dies(s) THEN v ELSE f[s]]
  IN  /\ tab[t] = "open"
      /\ tab' = [tab EXCEPT ![t] = "closed"]
      /\ toWindow' = [s \in Service |-> [toWindow[s] EXCEPT ![t] = <<>>]]
      /\ toWorker' = [u \in Tab |-> Fresh(toWorker[u], <<>>)]
      /\ connecting' = Fresh(connecting, {})
      /\ windows' = Fresh(windows, <<>>)
      /\ pending' = Fresh(pending, Dependency)
      /\ runDependencies' = Fresh(runDependencies, FreshCount)
      /\ main' = Fresh(main, FALSE)
      /\ key' = Fresh(key, None)
      /\ pool' = Fresh(pool, NoPool)
      /\ incoming' = Fresh(incoming, <<>>)
      /\ UNCHANGED <<stored, privateKey, raced, services, to, arrivals, given>>

-----------------------------------------------------------------------------
(* The worker.                                                             *)

OnConnect(s, t) ==
  /\ t \in connecting[s]
  /\ connecting' = [connecting EXCEPT ![s] = @ \ {t}]
  /\ windows' = [windows EXCEPT ![s] = Append(@, t)]
  /\ UNCHANGED <<tabVars, services, toWorker, toWindow, loadVars, initVars,
                 incoming, to, arrivals, given>>

GetInit(s, t) ==
  /\ Attached(s, t)
  /\ toWorker[t][s] # <<>>
  /\ Head(toWorker[t][s]) = "init"
  /\ toWorker' = [toWorker EXCEPT ![t][s] = Tail(@)]
  /\ key' = [key EXCEPT ![s] = privateKey[t]]
  /\ pool' = [pool EXCEPT ![s] = [from |-> t, offset |-> 0]]
  /\ RemoveRunDependency(s)
  /\ UNCHANGED <<tabVars, services, portVars, toWindow, pending, incoming, to,
                 arrivals, given>>

\* What becomes of SOCKETS.incoming is the matter of module Network.
GetConnect(s, t) ==
  /\ Attached(s, t)
  /\ toWorker[t][s] # <<>>
  /\ Head(toWorker[t][s]) # "init"
  /\ toWorker' = [toWorker EXCEPT ![t][s] = Tail(@)]
  /\ incoming' = [incoming EXCEPT ![s] = Append(@, Head(toWorker[t][s]))]
  /\ arrivals' = [arrivals EXCEPT ![Head(toWorker[t][s])] = Append(@, s)]
  /\ UNCHANGED <<tabVars, services, portVars, toWindow, loadVars, initVars, to, given>>

\* A dependency other than 'window-init' is there.
Loaded(s, d) ==
  /\ Alive(s)
  /\ d \in pending[s]
  /\ pending' = [pending EXCEPT ![s] = @ \ {d}]
  /\ RemoveRunDependency(s)
  /\ UNCHANGED <<tabVars, services, portVars, toWorker, toWindow, initVars,
                 incoming, to, arrivals, given>>

\* client_connect in worker s, which wants to connect to service r.
AskWindow(s, r, c) ==
  /\ main[s]
  /\ r \notin Daemon
  /\ to[c] = None
  /\ to' = [to EXCEPT ![c] = r]
  /\ IF windows[s] # <<>> /\ tab[AnyWindow(s)] = "open"
     THEN toWindow' = [toWindow EXCEPT ![s][AnyWindow(s)] = Append(@, c)]
     ELSE UNCHANGED toWindow
  /\ UNCHANGED <<tabVars, services, portVars, toWorker, loadVars, initVars,
                 incoming, arrivals, given>>

\* The service reads n bytes of /dev/urandom.
ReadRandom(s, n) ==
  /\ main[s] /\ s \in Reader
  /\ pool[s].from # None
  /\ pool' = [pool EXCEPT ![s].offset = OffsetAfter(s, n)]
  /\ given' = [given EXCEPT ![pool[s].from][s] = @ \o Bytes(s, n)]
  /\ UNCHANGED <<tabVars, services, portVars, toWorker, toWindow, loadVars, key,
                 incoming, to, arrivals>>

-----------------------------------------------------------------------------

Next ==
  \/ \E t \in Tab :
       \/ OpenTab(t) \/ FinishLoad(t) \/ CloseTab(t)
       \/ \E s \in Service :
            \/ \E c \in Conn : PageConnect(t, s, c)
            \/ WindowMessage(t, s)
            \/ OnConnect(s, t) \/ GetInit(s, t) \/ GetConnect(s, t)
  \/ \E s \in Service :
       \/ \E d \in Dependency : Loaded(s, d)
       \/ \E r \in Service, c \in Conn : AskWindow(s, r, c)
       \/ \E n \in 1 .. PoolSize : ReadRandom(s, n)

\* The browser delivers events and messages and loads what a worker waits for.
Fairness ==
  \A s \in Service :
    /\ \A t \in Tab :
         /\ WF_vars(WindowMessage(t, s))
         /\ WF_vars(OnConnect(s, t))
         /\ WF_vars(GetInit(s, t) \/ GetConnect(s, t))
    /\ \A d \in Dependency : WF_vars(Loaded(s, d))

Spec == Init /\ [][Next]_vars
FairSpec == Spec /\ Fairness

-----------------------------------------------------------------------------
(* Properties.                                                             *)

\* Where connection c is: on its way to a tab or to a worker, or arrived.
QueuedAt(kind, q, s, t, c) == {<<kind, s, t, i>> : i \in {j \in 1 .. Len(q) : q[j] = c}}
Places(c) ==
  (UNION {QueuedAt("window", toWindow[s][t], s, t, c)
          \cup QueuedAt("worker", toWorker[t][s], s, t, c) : s \in Service, t \in Tab})
  \cup {<<"arrived", arrivals[c][i], None, i>> : i \in 1 .. Len(arrivals[c])}

\* A port is posted on, never copied: a connection is in at most one place, and
\* on the way to or at the worker of the service it was asked for only.
ConnectionOnce ==
  \A c \in Conn :
    \A p \in Places(c) :
      /\ Places(c) = {p}
      /\ p[1] \in {"worker", "arrived"} => p[2] = to[c]

\* A service that runs or has clients waiting has its private key.
KeyBeforeUse ==
  \A s \in Service : main[s] \/ incoming[s] # <<>> => key[s] # None

\* main() is called when everything it waits for is loaded.  (The counter does
\* not know what it counts: this needs one 'init' per worker.)
MainAfterDependencies == \A s \in Service : main[s] => pending[s] = {}

\* A random byte is handed out once: a second 'init' brings a new array and
\* starts it from the beginning.
RandomBytesOnce ==
  \A t \in Tab, s \in Service :
    \A i, j \in 1 .. Len(given[t][s]) : given[t][s][i] = given[t][s][j] => i = j

\* Two services act for different peers only if their keys come from two tabs
\* that both looked for a stored key before either had stored its own
\* (service.cljs: "This has no synchronization!"); a tab that comes later adds
\* no third.
OneIdentity ==
  \A s, r \in Service :
    key[s] # None /\ key[r] # None => key[s] = key[r] \/ {key[s], key[r]} \subseteq raced

\* "do to any window" (pre.js): a worker that one open tab is connected to
\* finds it.
DoToAnyWindow ==
  [][\A s, r \in Service, c \in Conn :
       AskWindow(s, r, c) /\ (\E t \in OpenTabs : Attached(s, t)) =>
         \E t \in OpenTabs : toWindow'[s][t] # toWindow[s][t]]_vars

\* A connection that a page or a worker has asked for arrives at a worker that
\* gets to call main(), unless a tab was closed on the way.
Connected ==
  \A c \in Conn :
    to[c] # None ~>
      \/ arrivals[c] # <<>> /\ main[to[c]]
      \/ \E t \in Tab : tab[t] = "closed"
=============================================================================
