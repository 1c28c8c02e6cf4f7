----------------------------- MODULE BrokerProofs -----------------------------
(***************************************************************************)
(* Theorems about Broker, for any tabs, services and connections.          *)
(***************************************************************************)
EXTENDS Broker, FiniteSetTheorems, TLAPS

\* The states of a tab whose page was loaded.
Ready == {"open", "closed"}

\* A tab whose page was loaded has a private key; only such a tab has ports.
TabsOK ==
  \A t \in Tab :
    /\ tab[t] \in Ready => privateKey[t] # None
    /\ tab[t] \notin Ready => services[t] = {}

\* What a tab has posted to a worker that has no key yet begins with 'init',
\* and no 'init' follows another message.
Queue(q, k) ==
  /\ k = None /\ q # <<>> => q[1] = "init"
  /\ \A i \in 2 .. Len(q) : q[i] # "init"

\* A worker without a key has an 'init' coming from each open tab that has
\* started it.
QueuesOK ==
  \A t \in Tab, s \in Service :
    /\ Queue(toWorker[t][s], key[s])
    /\ s \notin services[t] => toWorker[t][s] = <<>>
    /\ tab[t] = "open" /\ s \in services[t] /\ key[s] = None => toWorker[t][s] # <<>>

\* Until the first 'init' the counter counts right, and nothing has happened.
WorkersOK ==
  \A s \in Service :
    key[s] = None =>
      /\ ~main[s] /\ incoming[s] = <<>>
      /\ runDependencies[s] = Cardinality(pending[s]) + 1

\* A connection that is on its way to a tab has a destination.
WindowsOK ==
  \A s \in Service, t \in Tab :
    \A i \in 1 .. Len(toWindow[s][t]) : to[toWindow[s][t][i]] \in Service

InitToCome(t, s) ==
  s \notin services[t] \/ (toWorker[t][s] # <<>> /\ toWorker[t][s][1] = "init")

\* The bytes that were given of a tab's pool are those before the offset, while
\* the worker uses that pool; the pool comes with the tab's only 'init'.
RandomOK ==
  \A t \in Tab, s \in Service :
    /\ InitToCome(t, s) => given[t][s] = <<>> /\ pool[s].from # t
    /\ pool[s].from = t =>
         \A i \in 1 .. Len(given[t][s]) : given[t][s][i] <= pool[s].offset
    /\ \A i, j \in 1 .. Len(given[t][s]) : given[t][s][i] = given[t][s][j] => i = j

\* The key that tab k generates is in use.
InUse(k) ==
  \/ stored = k
  \/ \E t \in Tab : privateKey[t] = k
  \/ \E s \in Service : key[s] = k

\* The keys that are in use, or generated but not stored yet, are one or come
\* from tabs that have raced; before one is stored none is in use.
IdentityOK ==
  /\ \A k, l \in Tab :
       (InUse(k) \/ Generating(k)) /\ (InUse(l) \/ Generating(l)) =>
         k = l \/ {k, l} \subseteq raced
  /\ stored = None => \A k \in Tab : ~InUse(k)

\* The inductive invariant.
IInv == TypeOK /\ TabsOK /\ QueuesOK /\ WorkersOK /\ WindowsOK /\ RandomOK /\ IdentityOK

-----------------------------------------------------------------------------
(* Queues.                                                                 *)

LEMMA QueueAppend ==
  ASSUME NEW M, NEW q \in Seq(M), NEW c, NEW k,
         Queue(q, k), c # "init", q # <<>> \/ k # None
  PROVE  /\ Queue(q \o <<c>>, k) /\ q \o <<c>> # <<>>
         /\ q # <<>> => (q \o <<c>>)[1] = q[1]
         /\ q = <<>> => (q \o <<c>>)[1] = c
<1> DEFINE r == q \o <<c>>
<1>1. /\ Len(q) \in Nat /\ Len(r) = Len(q) + 1 /\ r[Len(q) + 1] = c /\ r # <<>>
      /\ \A i \in 1 .. Len(q) : r[i] = q[i]
      /\ q = <<>> <=> Len(q) = 0
  OBVIOUS
<1> HIDE DEF r
<1>2. \A i \in 2 .. Len(r) : r[i] # "init"
  BY <1>1 DEF Queue
<1>3. k = None => r[1] = "init"
  BY <1>1 DEF Queue
<1> QED
  BY <1>1, <1>2, <1>3 DEF Queue, r

\* There is at most one 'init' in a queue, at its head.
LEMMA QueueTail ==
  ASSUME NEW M, NEW q \in Seq(M), NEW k, Queue(q, k), q # <<>>
  PROVE  /\ Tail(q) \in Seq(M)
         /\ \A i \in 1 .. Len(Tail(q)) : Tail(q)[i] # "init"
         /\ \A l : l # None => Queue(Tail(q), l)
<1>1. /\ Tail(q) \in Seq(M) /\ Len(Tail(q)) = Len(q) - 1 /\ Len(q) \in Nat
      /\ \A i \in 1 .. Len(Tail(q)) : Tail(q)[i] = q[i + 1]
  OBVIOUS
<1> DEFINE r == Tail(q)
<1> HIDE DEF r
<1>2. \A i \in 1 .. Len(r) : r[i] # "init"
  BY <1>1 DEF Queue, r
<1>3. \A i \in 2 .. Len(r) : r[i] # "init"
  BY <1>1, <1>2 DEF r
<1> QED
  BY <1>1, <1>2, <1>3 DEF Queue, r

LEMMA ShortQueues ==
  ASSUME NEW k, NEW c \in Conn
  PROVE  Queue(<<>>, k) /\ Queue(<<"init">>, k) /\ Queue(<<"init", c>>, k)
BY InitAssumption DEF Queue

-----------------------------------------------------------------------------

LEMMA InitIInv == Init => IInv
<1> SUFFICES ASSUME Init PROVE IInv
  OBVIOUS
<1>1. Cardinality(Dependency) \in Nat
  BY DependencyAssumption, FS_CardinalityType
<1>2. TypeOK
  <2>1. FreshCount \in Int
    BY <1>1 DEF FreshCount
  <2>2. NoPool \in [from : Tab \cup {None}, offset : 0 .. PoolSize]
    BY PoolSizeAssumption DEF NoPool
  <2>3. /\ toWorker \in [Tab -> [Service -> Seq(Conn \cup {"init"})]]
        /\ toWindow \in [Service -> [Tab -> Seq(Conn)]]
        /\ windows \in [Service -> Seq(Tab)] /\ incoming \in [Service -> Seq(Conn)]
    BY DEF Init
  <2>4. /\ arrivals \in [Conn -> Seq(Service)]
        /\ given \in [Tab -> [Service -> Seq(1 .. PoolSize)]]
    BY DEF Init
  <2> QED
    BY <2>1, <2>2, <2>3, <2>4 DEF Init, TypeOK
<1>3. TabsOK /\ WorkersOK /\ WindowsOK /\ IdentityOK
  <2>1. \A k \in Tab : ~InUse(k) /\ ~Generating(k)
    BY NoneAssumption DEF Init, InUse, Generating
  <2> QED
    BY <2>1 DEF Init, TabsOK, WorkersOK, WindowsOK, IdentityOK, Ready, FreshCount
<1>4. QueuesOK
  BY DEF Init, QueuesOK, Queue
<1>5. RandomOK
  BY NoneAssumption DEF Init, RandomOK, NoPool
<1> QED
  BY <1>2, <1>3, <1>4, <1>5 DEF IInv

-----------------------------------------------------------------------------
(* The tab.                                                                *)

LEMMA OpenTabIInv ==
  ASSUME IInv, NEW t \in Tab, OpenTab(t)
  PROVE  IInv'
<1> USE DEF IInv
<1>1. /\ tab \in [Tab -> {"unopened", "loading", "open", "closed"}]
      /\ privateKey \in [Tab -> Tab \cup {None}] /\ stored \in Tab \cup {None}
      /\ raced \subseteq Tab
  BY DEF TypeOK
<1>2. TypeOK'
  <2>1. /\ tab' \in [Tab -> {"unopened", "loading", "open", "closed"}]
        /\ privateKey' \in [Tab -> Tab \cup {None}]
        /\ raced' \subseteq Tab
    BY <1>1 DEF OpenTab, Generators
  <2> QED
    BY <2>1 DEF TypeOK, OpenTab, portVars, loadVars, initVars
<1>3. TabsOK'
  BY <1>1 DEF TabsOK, OpenTab, Ready
<1>4. QueuesOK'
  BY <1>1 DEF QueuesOK, OpenTab, initVars
<1>5. WorkersOK' /\ WindowsOK' /\ RandomOK'
  BY DEF WorkersOK, WindowsOK, RandomOK, InitToCome, OpenTab, initVars, loadVars
<1>6. IdentityOK'
  <2>1. /\ stored' = stored /\ key' = key /\ raced \subseteq raced'
        /\ privateKey' = [privateKey EXCEPT ![t] = stored]
        /\ tab' = [tab EXCEPT ![t] = "loading"]
    BY DEF OpenTab, initVars
  <2>2. \A k \in Tab : InUse(k)' => InUse(k)
    BY <1>1, <2>1 DEF InUse
  <2>3. ASSUME NEW k \in Tab, Generating(k)' PROVE Generating(k) \/ (k = t /\ stored = None)
    <3>1. CASE k = t
      BY <1>1, <2>1, <2>3, <3>1 DEF Generating
    <3>2. CASE k # t
      BY <1>1, <2>1, <2>3, <3>2 DEF Generating
    <3> QED
      BY <3>1, <3>2
  <2>4. CASE stored = None
    <3>1. \A k \in Tab : ~InUse(k)'
      BY <2>2, <2>4 DEF IdentityOK
    <3>2. \A k \in Tab : Generating(k) => {k, t} \subseteq raced'
      BY <2>4 DEF OpenTab, Generators
    <3> QED
      BY <2>1, <2>3, <3>1, <3>2 DEF IdentityOK
  <2>5. CASE stored # None
    BY <2>1, <2>2, <2>3, <2>5 DEF IdentityOK
  <2> QED
    BY <2>4, <2>5
<1> QED
  BY <1>2, <1>3, <1>4, <1>5, <1>6

LEMMA FinishLoadIInv ==
  ASSUME IInv, NEW t \in Tab, FinishLoad(t)
  PROVE  IInv'
<1> USE DEF IInv
<1>1. /\ tab \in [Tab -> {"unopened", "loading", "open", "closed"}]
      /\ privateKey \in [Tab -> Tab \cup {None}] /\ stored \in Tab \cup {None}
      /\ services \in [Tab -> SUBSET Service]
      /\ toWorker \in [Tab -> [Service -> Seq(Conn \cup {"init"})]]
  BY DEF TypeOK
<1>2. tab[t] = "loading" /\ services[t] = {}
  BY DEF FinishLoad, TabsOK, Ready
<1>3. TypeOK'
  <2>1. /\ tab' \in [Tab -> {"unopened", "loading", "open", "closed"}]
        /\ privateKey' \in [Tab -> Tab \cup {None}]
        /\ stored' \in Tab \cup {None}
        /\ services' \in [Tab -> SUBSET Service]
    BY <1>1, DaemonAssumption DEF FinishLoad, StoredAfterLoad
  <2>2. connecting' \in [Service -> SUBSET Tab]
    BY DEF TypeOK, FinishLoad
  <2>3. toWorker' \in [Tab -> [Service -> Seq(Conn \cup {"init"})]]
    <3>1. <<"init">> \in Seq(Conn \cup {"init"}) /\ <<>> \in Seq(Conn \cup {"init"})
      OBVIOUS
    <3> QED
      BY <1>1, <3>1 DEF FinishLoad
  <2> QED
    BY <2>1, <2>2, <2>3 DEF TypeOK, FinishLoad, loadVars, initVars
<1>4. TabsOK'
  BY <1>1, NoneAssumption DEF TabsOK, FinishLoad, Ready
<1>5. QueuesOK'
  <2> SUFFICES ASSUME NEW u \in Tab, NEW s \in Service
               PROVE  /\ Queue(toWorker'[u][s], key'[s])
                      /\ s \notin services'[u] => toWorker'[u][s] = <<>>
                      /\ tab'[u] = "open" /\ s \in services'[u] /\ key'[s] = None
                           => toWorker'[u][s] # <<>>
    BY DEF QueuesOK
  <2>1. key' = key
    BY DEF FinishLoad, initVars
  <2>2. CASE u = t
    <3>1. /\ toWorker'[u][s] = IF s \in Daemon THEN <<"init">> ELSE <<>>
          /\ services'[u] = Daemon
      BY <1>1, <2>2 DEF FinishLoad
    <3> QED
      BY <3>1 DEF Queue
  <2>3. CASE u # t
    <3>1. tab'[u] = tab[u] /\ toWorker'[u] = toWorker[u] /\ services'[u] = services[u]
      BY <1>1, <2>3 DEF FinishLoad
    <3> QED
      BY <2>1, <3>1 DEF QueuesOK
  <2> QED
    BY <2>2, <2>3
<1>6. WorkersOK' /\ WindowsOK'
  BY DEF WorkersOK, WindowsOK, FinishLoad, initVars, loadVars
<1>7. RandomOK'
  <2>1. given' = given /\ pool' = pool
    BY DEF FinishLoad, initVars
  <2>2. \A u \in Tab, s \in Service : u # t =>
          toWorker'[u][s] = toWorker[u][s] /\ services'[u] = services[u]
    BY <1>1 DEF FinishLoad
  <2>3. \A s \in Service : given[t][s] = <<>> /\ pool[s].from # t
    BY <1>2 DEF RandomOK, InitToCome
  <2> QED
    BY <2>1, <2>2, <2>3 DEF RandomOK, InitToCome
<1>8. IdentityOK'
  <2>1. key' = key /\ raced' = raced /\ tab' = [tab EXCEPT ![t] = "open"]
    BY DEF FinishLoad, initVars
  <2>2. \A k \in Tab : Generating(k)' => Generating(k)
    BY <1>1, <2>1 DEF Generating, FinishLoad
  <2>3. \A k \in Tab : InUse(k)' => InUse(k) \/ Generating(k)
    <3>1. CASE privateKey[t] = None
      <4>1. stored' = t /\ privateKey' = [privateKey EXCEPT ![t] = t] /\ Generating(t)
        BY <1>1, <1>2, <3>1 DEF FinishLoad, StoredAfterLoad, Generating
      <4> QED
        BY <1>1, <2>1, <4>1 DEF InUse
    <3>2. CASE privateKey[t] # None
      <4>1. stored' = stored /\ privateKey' = privateKey
        BY <1>1, <3>2 DEF FinishLoad, StoredAfterLoad
      <4> QED
        BY <2>1, <4>1 DEF InUse
    <3> QED
      BY <3>1, <3>2
  <2>4. stored' # None
    <3>1. privateKey[t] # None => InUse(privateKey[t])
      BY <1>1 DEF InUse
    <3> QED
      BY <1>1, <3>1, NoneAssumption DEF FinishLoad, StoredAfterLoad, IdentityOK
  <2> QED
    BY <2>1, <2>2, <2>3, <2>4 DEF IdentityOK
<1> QED
  BY <1>3, <1>4, <1>5, <1>6, <1>7, <1>8

\* Asking for a connection keeps the queues in order: 'init' goes before it to
\* a worker that the tab has not started.
LEMMA ClientConnectIInv ==
  ASSUME IInv, NEW t \in Tab, NEW s \in Service, NEW c \in Conn, tab[t] = "open",
         ClientConnect(t, s, c), UNCHANGED <<tab, privateKey, key, pool, given>>
  PROVE  /\ services' \in [Tab -> SUBSET Service]
         /\ connecting' \in [Service -> SUBSET Tab]
         /\ toWorker' \in [Tab -> [Service -> Seq(Conn \cup {"init"})]]
         /\ TabsOK' /\ QueuesOK' /\ RandomOK'
<1> USE DEF IInv
<1> DEFINE q == toWorker[t][s]
           r == q \o Posted(t, s, c)
<1>1. /\ toWorker \in [Tab -> [Service -> Seq(Conn \cup {"init"})]]
      /\ services \in [Tab -> SUBSET Service] /\ connecting \in [Service -> SUBSET Tab]
      /\ q \in Seq(Conn \cup {"init"})
  <2>1. /\ toWorker \in [Tab -> [Service -> Seq(Conn \cup {"init"})]]
        /\ services \in [Tab -> SUBSET Service] /\ connecting \in [Service -> SUBSET Tab]
    BY DEF TypeOK
  <2> QED
    BY <2>1
<1>2. /\ Queue(q, key[s])
      /\ s \notin services[t] => q = <<>>
      /\ s \in services[t] /\ key[s] = None => q # <<>>
  BY DEF QueuesOK
<1>3. /\ r \in Seq(Conn \cup {"init"}) /\ Queue(r, key[s]) /\ r # <<>>
      /\ s \in services[t] /\ r[1] = "init" => q # <<>> /\ q[1] = "init"
  <2>1. CASE s \in services[t]
    <3>1. r = q \o <<c>> /\ c # "init"
      BY <2>1, InitAssumption DEF Posted, HasPort
    <3>2. q \o <<c>> \in Seq(Conn \cup {"init"})
      BY <1>1
    <3>3. q # <<>> \/ key[s] # None
      BY <1>2, <2>1
    <3> HIDE DEF r, q
    <3> QED
      BY <1>1, <1>2, <3>1, <3>2, <3>3, QueueAppend
  <2>2. CASE s \notin services[t]
    <3>1. q = <<>> /\ r = q \o <<"init", c>>
      BY <1>2, <2>2 DEF Posted, HasPort
    <3>2. r = <<"init", c>>
      BY <3>1
    <3> HIDE DEF r, q
    <3> QED
      BY <2>2, <3>2, ShortQueues
  <2> QED
    BY <2>1, <2>2
<1>4. /\ toWorker' = [toWorker EXCEPT ![t][s] = r]
      /\ services' = [services EXCEPT ![t] = services[t] \cup {s}]
  BY DEF ClientConnect
<1> HIDE DEF q, r
<1>5. /\ toWorker' \in [Tab -> [Service -> Seq(Conn \cup {"init"})]]
      /\ services' \in [Tab -> SUBSET Service]
  BY <1>1, <1>3, <1>4
<1>6. connecting' \in [Service -> SUBSET Tab]
  <2>1. CASE HasPort(t, s)
    BY <1>1, <2>1 DEF ClientConnect
  <2>2. CASE ~HasPort(t, s)
    BY <1>1, <2>2 DEF ClientConnect
  <2> QED
    BY <2>1, <2>2
<1>7. /\ toWorker'[t][s] = r /\ services'[t] = services[t] \cup {s}
      /\ \A u \in Tab, p \in Service : u # t \/ p # s =>
           toWorker'[u][p] = toWorker[u][p] /\ (p \in services'[u] <=> p \in services[u])
  BY <1>1, <1>4
<1>8. TabsOK'
  BY <1>1, <1>4 DEF TabsOK, Ready
<1>9. QueuesOK'
  BY <1>3, <1>7 DEF QueuesOK
<1>10. RandomOK'
  <2> SUFFICES ASSUME NEW u \in Tab, NEW p \in Service, InitToCome(u, p)'
               PROVE  given[u][p] = <<>> /\ pool[p].from # u
    BY DEF RandomOK
  <2>1. InitToCome(u, p)
    <3>1. CASE u = t /\ p = s
      BY <1>3, <1>7, <3>1 DEF InitToCome, q
    <3>2. CASE u # t \/ p # s
      BY <1>7, <3>2 DEF InitToCome
    <3> QED
      BY <3>1, <3>2
  <2> QED
    BY <2>1 DEF RandomOK
<1> QED
  BY <1>5, <1>6, <1>8, <1>9, <1>10

LEMMA PageConnectIInv ==
  ASSUME IInv, NEW t \in Tab, NEW s \in Service, NEW c \in Conn, PageConnect(t, s, c)
  PROVE  IInv'
<1> USE DEF IInv
<1>1. /\ services' \in [Tab -> SUBSET Service]
      /\ connecting' \in [Service -> SUBSET Tab]
      /\ toWorker' \in [Tab -> [Service -> Seq(Conn \cup {"init"})]]
      /\ TabsOK' /\ QueuesOK' /\ RandomOK'
  BY ClientConnectIInv DEF PageConnect, tabVars, initVars
<1>2. to' \in [Conn -> Service \cup {None}]
  BY DEF TypeOK, PageConnect
<1>3. TypeOK'
  BY <1>1, <1>2 DEF TypeOK, PageConnect, tabVars, loadVars, initVars
<1>4. WorkersOK' /\ IdentityOK'
  BY DEF WorkersOK, IdentityOK, InUse, Generating, PageConnect, tabVars, loadVars, initVars
<1>5. WindowsOK'
  <2>1. /\ to \in [Conn -> Service \cup {None}] /\ toWindow' = toWindow
        /\ to' = [to EXCEPT ![c] = s]
        /\ toWindow \in [Service -> [Tab -> Seq(Conn)]]
    BY DEF TypeOK, PageConnect
  <2>2. \A d \in Conn : to[d] \in Service => to'[d] \in Service
    BY <2>1
  <2> SUFFICES ASSUME NEW p \in Service, NEW u \in Tab, NEW i \in 1 .. Len(toWindow[p][u])
               PROVE  to'[toWindow[p][u][i]] \in Service
    BY <2>1 DEF WindowsOK
  <2>3. toWindow[p][u] \in Seq(Conn)
    BY <2>1
  <2>4. toWindow[p][u][i] \in Conn
    BY <2>3
  <2> QED
    BY <2>2, <2>4 DEF WindowsOK
<1> QED
  BY <1>1, <1>3, <1>4, <1>5

LEMMA WindowMessageIInv ==
  ASSUME IInv, NEW t \in Tab, NEW s \in Service, WindowMessage(t, s)
  PROVE  IInv'
<1> USE DEF IInv
<1> DEFINE q == toWindow[s][t]
<1>1. toWindow \in [Service -> [Tab -> Seq(Conn)]] /\ q \in Seq(Conn) /\ q # <<>>
  BY DEF TypeOK, WindowMessage
<1>2. /\ Head(q) \in Conn /\ Head(q) = q[1] /\ 1 \in 1 .. Len(q)
      /\ Tail(q) \in Seq(Conn)
      /\ \A i \in 1 .. Len(Tail(q)) : Tail(q)[i] = q[i + 1] /\ i + 1 \in 1 .. Len(q)
  BY <1>1
<1>3. toWindow' = [toWindow EXCEPT ![s][t] = Tail(q)]
  BY DEF WindowMessage
<1>4. to[Head(q)] \in Service
  BY <1>2 DEF WindowsOK
<1>5. /\ services' \in [Tab -> SUBSET Service]
      /\ connecting' \in [Service -> SUBSET Tab]
      /\ toWorker' \in [Tab -> [Service -> Seq(Conn \cup {"init"})]]
      /\ TabsOK' /\ QueuesOK' /\ RandomOK'
  BY <1>2, <1>4, ClientConnectIInv DEF WindowMessage, tabVars, initVars
<1> HIDE DEF q
<1>6. toWindow' \in [Service -> [Tab -> Seq(Conn)]]
  BY <1>1, <1>2, <1>3
<1>7. TypeOK'
  BY <1>5, <1>6 DEF TypeOK, WindowMessage, tabVars, loadVars, initVars
<1>8. WorkersOK' /\ IdentityOK'
  BY DEF WorkersOK, IdentityOK, InUse, Generating, WindowMessage, tabVars, loadVars, initVars
<1>9. WindowsOK'
  <2>1. to' = to
    BY DEF WindowMessage
  <2>2. /\ toWindow'[s][t] = Tail(q)
        /\ \A p \in Service, u \in Tab : p # s \/ u # t => toWindow'[p][u] = toWindow[p][u]
    BY <1>1, <1>3
  <2>3. \A i \in 1 .. Len(Tail(q)) : to[Tail(q)[i]] \in Service
    BY <1>2 DEF WindowsOK, q
  <2> SUFFICES ASSUME NEW p \in Service, NEW u \in Tab
               PROVE  \A i \in 1 .. Len(toWindow'[p][u]) : to[toWindow'[p][u][i]] \in Service
    BY <2>1 DEF WindowsOK
  <2>4. CASE p = s /\ u = t
    BY <2>2, <2>3, <2>4
  <2>5. CASE p # s \/ u # t
    BY <2>2, <2>5 DEF WindowsOK
  <2> QED
    BY <2>4, <2>5
<1> QED
  BY <1>5, <1>7, <1>8, <1>9

\* A worker that dies loses its key with all it had; no open tab has started it.
LEMMA CloseTabIInv ==
  ASSUME IInv, NEW t \in Tab, CloseTab(t)
  PROVE  IInv'
<1> USE DEF IInv
<1> DEFINE dead == {s \in Service : Alive(s) /\ ~AliveWith(s, OpenTabs \ {t})}
<1>1. /\ tab \in [Tab -> {"unopened", "loading", "open", "closed"}] /\ tab[t] = "open"
      /\ tab' = [tab EXCEPT ![t] = "closed"]
  BY DEF TypeOK, CloseTab
<1>2. \A s \in Service, u \in Tab :
        /\ toWorker'[u][s] = IF s \in dead THEN <<>> ELSE toWorker[u][s]
        /\ key'[s] = IF s \in dead THEN None ELSE key[s]
        /\ main'[s] = IF s \in dead THEN FALSE ELSE main[s]
        /\ incoming'[s] = IF s \in dead THEN <<>> ELSE incoming[s]
        /\ pending'[s] = IF s \in dead THEN Dependency ELSE pending[s]
        /\ runDependencies'[s] = IF s \in dead THEN FreshCount ELSE runDependencies[s]
        /\ pool'[s] = IF s \in dead THEN NoPool ELSE pool[s]
        /\ toWindow'[s] = [toWindow[s] EXCEPT ![t] = <<>>]
  BY DEF CloseTab
<1>3. \A s \in dead, u \in Tab : tab'[u] = "open" => s \notin services[u]
  BY <1>1 DEF AliveWith, OpenTabs
<1>4. UNCHANGED <<stored, privateKey, raced, services, to, arrivals, given>>
  BY DEF CloseTab
<1>5. TypeOK'
  <2>1. tab' \in [Tab -> {"unopened", "loading", "open", "closed"}]
    BY <1>1
  <2>2. /\ toWorker' \in [Tab -> [Service -> Seq(Conn \cup {"init"})]]
        /\ toWindow' \in [Service -> [Tab -> Seq(Conn)]]
    <3>1. /\ toWorker \in [Tab -> [Service -> Seq(Conn \cup {"init"})]]
          /\ toWindow \in [Service -> [Tab -> Seq(Conn)]]
          /\ <<>> \in Seq(Conn \cup {"init"}) /\ <<>> \in Seq(Conn)
      BY DEF TypeOK
    <3> QED
      BY <3>1 DEF CloseTab
  <2>3. /\ connecting' \in [Service -> SUBSET Tab]
        /\ pending' \in [Service -> SUBSET Dependency]
        /\ main' \in [Service -> BOOLEAN]
        /\ key' \in [Service -> Tab \cup {None}]
    BY DEF TypeOK, CloseTab
  <2>4. windows' \in [Service -> Seq(Tab)] /\ incoming' \in [Service -> Seq(Conn)]
    <3>1. /\ windows \in [Service -> Seq(Tab)] /\ incoming \in [Service -> Seq(Conn)]
          /\ <<>> \in Seq(Tab) /\ <<>> \in Seq(Conn)
      BY DEF TypeOK
    <3> QED
      BY <3>1 DEF CloseTab
  <2>5. runDependencies' \in [Service -> Int]
    <3>1. FreshCount \in Int
      BY DependencyAssumption, FS_CardinalityType DEF FreshCount
    <3> QED
      BY <3>1 DEF TypeOK, CloseTab
  <2>6. pool' \in [Service -> [from : Tab \cup {None}, offset : 0 .. PoolSize]]
    <3>1. NoPool \in [from : Tab \cup {None}, offset : 0 .. PoolSize]
      BY PoolSizeAssumption DEF NoPool
    <3> QED
      BY <3>1 DEF TypeOK, CloseTab
  <2> QED
    BY <1>4, <2>1, <2>2, <2>3, <2>4, <2>5, <2>6 DEF TypeOK
<1> HIDE DEF dead
<1>6. TabsOK'
  BY <1>1, <1>4 DEF TabsOK, Ready
<1>7. QueuesOK'
  <2> SUFFICES ASSUME NEW u \in Tab, NEW s \in Service
               PROVE  /\ Queue(toWorker'[u][s], key'[s])
                      /\ s \notin services'[u] => toWorker'[u][s] = <<>>
                      /\ tab'[u] = "open" /\ s \in services'[u] /\ key'[s] = None
                           => toWorker'[u][s] # <<>>
    BY DEF QueuesOK
  <2>1. CASE s \in dead
    <3>1. toWorker'[u][s] = <<>> /\ services'[u] = services[u]
      BY <1>2, <1>4, <2>1
    <3>2. tab'[u] = "open" => s \notin services[u]
      BY <1>3, <2>1
    <3> QED
      BY <3>1, <3>2 DEF Queue
  <2>2. CASE s \notin dead
    <3>1. tab'[u] = "open" => tab[u] = "open"
      BY <1>1
    <3>2. toWorker'[u][s] = toWorker[u][s] /\ key'[s] = key[s] /\ services'[u] = services[u]
      BY <1>2, <1>4, <2>2
    <3> QED
      BY <3>1, <3>2 DEF QueuesOK
  <2> QED
    BY <2>1, <2>2
<1>8. WorkersOK'
  BY <1>2 DEF WorkersOK, FreshCount
<1>9. WindowsOK'
  <2> SUFFICES ASSUME NEW s \in Service, NEW u \in Tab
               PROVE  \A i \in 1 .. Len(toWindow'[s][u]) : to[toWindow'[s][u][i]] \in Service
    BY <1>4 DEF WindowsOK
  <2>1. toWindow \in [Service -> [Tab -> Seq(Conn)]]
    BY DEF TypeOK
  <2>2. toWindow'[s][u] = IF u = t THEN <<>> ELSE toWindow[s][u]
    BY <1>2, <2>1
  <2> QED
    BY <2>2 DEF WindowsOK
<1>10. RandomOK'
  <2> SUFFICES ASSUME NEW u \in Tab, NEW s \in Service
               PROVE  /\ InitToCome(u, s)' => given[u][s] = <<>> /\ pool'[s].from # u
                      /\ pool'[s].from = u =>
                           \A i \in 1 .. Len(given[u][s]) : given[u][s][i] <= pool'[s].offset
    BY <1>4 DEF RandomOK
  <2>1. InitToCome(u, s)' => InitToCome(u, s)
    BY <1>2, <1>4 DEF InitToCome
  <2>2. pool'[s] = pool[s] \/ pool'[s].from # u
    <3>1. NoPool.from # u
      BY NoneAssumption DEF NoPool
    <3>2. pool'[s] = NoPool \/ pool'[s] = pool[s]
      BY <1>2
    <3> QED
      BY <3>1, <3>2
  <2> QED
    BY <2>1, <2>2 DEF RandomOK
<1>11. IdentityOK'
  <2>1. \A k \in Tab : (InUse(k)' => InUse(k)) /\ (Generating(k)' => Generating(k))
    BY <1>1, <1>2, <1>4, NoneAssumption DEF InUse, Generating
  <2> QED
    BY <1>4, <2>1 DEF IdentityOK
<1> QED
  BY <1>5, <1>6, <1>7, <1>8, <1>9, <1>10, <1>11

-----------------------------------------------------------------------------
(* The worker.                                                             *)

LEMMA OnConnectIInv ==
  ASSUME IInv, NEW s \in Service, NEW t \in Tab, OnConnect(s, t)
  PROVE  IInv'
<1> USE DEF IInv
<1>1. TypeOK'
  <2>1. connecting' \in [Service -> SUBSET Tab]
    BY DEF TypeOK, OnConnect
  <2>2. windows' \in [Service -> Seq(Tab)]
    <3>1. windows \in [Service -> Seq(Tab)] /\ windows' = [windows EXCEPT ![s] = Append(@, t)]
      BY DEF TypeOK, OnConnect
    <3>2. Append(windows[s], t) \in Seq(Tab)
      BY <3>1
    <3> QED
      BY <3>1, <3>2
  <2> QED
    BY <2>1, <2>2 DEF TypeOK, OnConnect, tabVars, loadVars, initVars
<1>2. TabsOK' /\ QueuesOK' /\ WorkersOK' /\ WindowsOK' /\ RandomOK' /\ IdentityOK'
  BY DEF TabsOK, QueuesOK, WorkersOK, WindowsOK, RandomOK, IdentityOK, InUse, Generating,
         InitToCome, OnConnect, tabVars, loadVars, initVars
<1> QED
  BY <1>1, <1>2

\* What taking a message from a queue leaves.
LEMMA TakeMessage ==
  ASSUME IInv, NEW s \in Service, NEW t \in Tab, toWorker[t][s] # <<>>,
         toWorker' = [toWorker EXCEPT ![t][s] = Tail(@)]
  PROVE  /\ toWorker' \in [Tab -> [Service -> Seq(Conn \cup {"init"})]]
         /\ \A u \in Tab, p \in Service : u # t \/ p # s => toWorker'[u][p] = toWorker[u][p]
         /\ \A k : k # None => Queue(toWorker'[t][s], k)
         /\ \A i \in 1 .. Len(toWorker'[t][s]) : toWorker'[t][s][i] # "init"
         /\ Head(toWorker[t][s]) = toWorker[t][s][1]
         /\ Head(toWorker[t][s]) \in Conn \cup {"init"}
         /\ toWorker'[t][s] # <<>> => 1 \in 1 .. Len(toWorker'[t][s])
         /\ s \in services[t] /\ tab[t] \in Ready
<1> USE DEF IInv
<1> DEFINE q == toWorker[t][s]
           M == Conn \cup {"init"}
<1>1. toWorker \in [Tab -> [Service -> Seq(M)]]
  BY DEF TypeOK
<1>2. q \in Seq(M) /\ q # <<>>
  BY <1>1
<1>3. Queue(q, key[s])
  BY DEF QueuesOK
<1>4. toWorker' = [toWorker EXCEPT ![t][s] = Tail(q)]
  OBVIOUS
<1>5. s \in services[t] /\ tab[t] \in Ready
  BY DEF QueuesOK, TabsOK
<1>6. Head(q) = q[1] /\ Head(q) \in M
  BY <1>2
<1> HIDE DEF q, M
<1>7. /\ Tail(q) \in Seq(M)
      /\ \A i \in 1 .. Len(Tail(q)) : Tail(q)[i] # "init"
      /\ \A k : k # None => Queue(Tail(q), k)
  BY <1>2, <1>3, QueueTail
<1>8. Tail(q) # <<>> => 1 \in 1 .. Len(Tail(q))
  BY <1>7
<1>9. /\ toWorker'[t][s] = Tail(q) /\ toWorker' \in [Tab -> [Service -> Seq(M)]]
      /\ \A u \in Tab, p \in Service : u # t \/ p # s => toWorker'[u][p] = toWorker[u][p]
  BY <1>1, <1>4, <1>7
<1> QED
  BY <1>5, <1>6, <1>7, <1>8, <1>9 DEF q, M

LEMMA GetInitIInv ==
  ASSUME IInv, NEW s \in Service, NEW t \in Tab, GetInit(s, t)
  PROVE  IInv'
<1> USE DEF IInv
<1>1. /\ toWorker[t][s] # <<>> /\ toWorker' = [toWorker EXCEPT ![t][s] = Tail(@)]
      /\ Head(toWorker[t][s]) = "init"
      /\ key' = [key EXCEPT ![s] = privateKey[t]]
      /\ pool' = [pool EXCEPT ![s] = [from |-> t, offset |-> 0]]
      /\ RemoveRunDependency(s)
      /\ UNCHANGED <<tabVars, services, portVars, toWindow, pending, incoming, to,
                     arrivals, given>>
  BY DEF GetInit
<1>2. /\ toWorker' \in [Tab -> [Service -> Seq(Conn \cup {"init"})]]
      /\ \A u \in Tab, p \in Service : u # t \/ p # s => toWorker'[u][p] = toWorker[u][p]
      /\ \A k : k # None => Queue(toWorker'[t][s], k)
      /\ toWorker'[t][s] # <<>> => toWorker'[t][s][1] # "init"
      /\ toWorker[t][s][1] = "init"
      /\ s \in services[t] /\ tab[t] \in Ready
  <2>1. /\ toWorker' \in [Tab -> [Service -> Seq(Conn \cup {"init"})]]
        /\ \A u \in Tab, p \in Service : u # t \/ p # s => toWorker'[u][p] = toWorker[u][p]
        /\ \A k : k # None => Queue(toWorker'[t][s], k)
        /\ \A i \in 1 .. Len(toWorker'[t][s]) : toWorker'[t][s][i] # "init"
        /\ Head(toWorker[t][s]) = toWorker[t][s][1]
        /\ toWorker'[t][s] # <<>> => 1 \in 1 .. Len(toWorker'[t][s])
        /\ s \in services[t] /\ tab[t] \in Ready
    BY <1>1, TakeMessage
  <2>2. toWorker'[t][s] # <<>> => toWorker'[t][s][1] # "init"
    BY <2>1
  <2>3. toWorker[t][s][1] = "init"
    BY <1>1, <2>1
  <2> QED
    BY <2>1, <2>2, <2>3
<1>3. privateKey[t] \in Tab /\ privateKey[t] # None
  BY <1>2 DEF TypeOK, TabsOK
<1>4. /\ key \in [Service -> Tab \cup {None}]
      /\ pool \in [Service -> [from : Tab \cup {None}, offset : 0 .. PoolSize]]
      /\ runDependencies \in [Service -> Int] /\ main \in [Service -> BOOLEAN]
  BY DEF TypeOK
<1>5. TypeOK'
  <2>1. key' \in [Service -> Tab \cup {None}]
    BY <1>1, <1>3, <1>4
  <2>2. pool' \in [Service -> [from : Tab \cup {None}, offset : 0 .. PoolSize]]
    BY <1>1, <1>4, PoolSizeAssumption
  <2>3. runDependencies' \in [Service -> Int] /\ main' \in [Service -> BOOLEAN]
    BY <1>1, <1>4 DEF RemoveRunDependency, LastDependency
  <2> QED
    BY <1>1, <1>2, <2>1, <2>2, <2>3 DEF TypeOK, tabVars, portVars
<1>6. TabsOK' /\ WindowsOK'
  BY <1>1 DEF TabsOK, WindowsOK, tabVars
<1>7. key'[s] = privateKey[t] /\ \A p \in Service : p # s => key'[p] = key[p]
  BY <1>1, <1>4
<1>8. QueuesOK'
  <2> SUFFICES ASSUME NEW u \in Tab, NEW p \in Service
               PROVE  /\ Queue(toWorker'[u][p], key'[p])
                      /\ p \notin services[u] => toWorker'[u][p] = <<>>
                      /\ tab[u] = "open" /\ p \in services[u] /\ key'[p] = None
                           => toWorker'[u][p] # <<>>
    BY <1>1 DEF QueuesOK, tabVars
  <2>1. CASE p # s
    <3>1. toWorker'[u][p] = toWorker[u][p] /\ key'[p] = key[p]
      BY <1>2, <1>7, <2>1
    <3> QED
      BY <3>1 DEF QueuesOK
  <2>2. CASE p = s /\ u = t
    BY <1>2, <1>3, <1>7, <2>2 DEF QueuesOK
  <2>3. CASE p = s /\ u # t
    <3>1. Queue(toWorker[u][p], key[p]) /\ (p \notin services[u] => toWorker[u][p] = <<>>)
      BY DEF QueuesOK
    <3> QED
      BY <1>2, <1>3, <1>7, <2>3, <3>1 DEF Queue
  <2> QED
    BY <2>1, <2>2, <2>3
<1>9. WorkersOK'
  <2> SUFFICES ASSUME NEW p \in Service, key'[p] = None
               PROVE  ~main'[p] /\ incoming'[p] = <<>>
                      /\ runDependencies'[p] = Cardinality(pending'[p]) + 1
    BY DEF WorkersOK
  <2>1. p # s
    BY <1>3, <1>7
  <2>2. key[p] = None /\ main'[p] = main[p] /\ runDependencies'[p] = runDependencies[p]
    BY <1>1, <1>4, <1>7, <2>1 DEF RemoveRunDependency
  <2> QED
    BY <1>1, <2>2 DEF WorkersOK
<1>10. RandomOK'
  <2> SUFFICES ASSUME NEW u \in Tab, NEW p \in Service
               PROVE  /\ InitToCome(u, p)' => given[u][p] = <<>> /\ pool'[p].from # u
                      /\ pool'[p].from = u =>
                           \A i \in 1 .. Len(given[u][p]) : given[u][p][i] <= pool'[p].offset
    BY <1>1 DEF RandomOK
  <2>1. CASE p # s
    BY <1>1, <1>2, <1>4, <2>1 DEF RandomOK, InitToCome
  <2>2. CASE p = s /\ u = t
    <3>1. ~InitToCome(u, p)'
      BY <1>1, <1>2, <2>2 DEF InitToCome
    <3>2. given[u][p] = <<>>
      BY <1>1, <1>2, <2>2 DEF RandomOK, InitToCome
    <3> QED
      BY <3>1, <3>2
  <2>3. CASE p = s /\ u # t
    <3>1. pool'[p].from = t
      BY <1>1, <1>4, <2>3
    <3> QED
      BY <1>1, <1>2, <2>3, <3>1 DEF RandomOK, InitToCome
  <2> QED
    BY <2>1, <2>2, <2>3
<1>11. IdentityOK'
  <2>1. UNCHANGED <<tab, stored, privateKey, raced>>
    BY <1>1 DEF tabVars
  <2>2. \A k \in Tab : (InUse(k)' => InUse(k)) /\ (Generating(k)' => Generating(k))
    BY <1>7, <2>1 DEF InUse, Generating
  <2> QED
    BY <2>1, <2>2 DEF IdentityOK
<1> QED
  BY <1>5, <1>6, <1>8, <1>9, <1>10, <1>11

LEMMA GetConnectIInv ==
  ASSUME IInv, NEW s \in Service, NEW t \in Tab, GetConnect(s, t)
  PROVE  IInv'
<1> USE DEF IInv
<1> DEFINE c == Head(toWorker[t][s])
<1>1. /\ toWorker[t][s] # <<>> /\ toWorker' = [toWorker EXCEPT ![t][s] = Tail(@)]
      /\ c # "init"
      /\ incoming' = [incoming EXCEPT ![s] = Append(@, c)]
      /\ arrivals' = [arrivals EXCEPT ![c] = Append(@, s)]
      /\ UNCHANGED <<tabVars, services, portVars, toWindow, loadVars, initVars, to, given>>
  BY DEF GetConnect
<1>2. /\ toWorker' \in [Tab -> [Service -> Seq(Conn \cup {"init"})]]
      /\ \A u \in Tab, p \in Service : u # t \/ p # s => toWorker'[u][p] = toWorker[u][p]
      /\ \A k : k # None => Queue(toWorker'[t][s], k)
      /\ \A i \in 1 .. Len(toWorker'[t][s]) : toWorker'[t][s][i] # "init"
      /\ Head(toWorker[t][s]) = toWorker[t][s][1]
      /\ Head(toWorker[t][s]) \in Conn \cup {"init"}
      /\ toWorker'[t][s] # <<>> => 1 \in 1 .. Len(toWorker'[t][s])
      /\ s \in services[t] /\ tab[t] \in Ready
  BY <1>1, TakeMessage
<1>3. c \in Conn
  BY <1>1, <1>2
<1>4. key[s] # None
  <2>1. Queue(toWorker[t][s], key[s])
    BY DEF QueuesOK
  <2> QED
    BY <1>1, <1>2, <2>1 DEF Queue
<1>5. key' = key /\ pool' = pool /\ UNCHANGED <<tab, stored, privateKey, raced>>
  BY <1>1 DEF initVars, tabVars
<1>6. TypeOK'
  <2>1. incoming \in [Service -> Seq(Conn)] /\ arrivals \in [Conn -> Seq(Service)]
    BY DEF TypeOK
  <2> HIDE DEF c
  <2>2. incoming' \in [Service -> Seq(Conn)]
    <3>1. Append(incoming[s], c) \in Seq(Conn)
      BY <1>3, <2>1
    <3> QED
      BY <1>1, <2>1, <3>1
  <2>3. arrivals' \in [Conn -> Seq(Service)]
    <3>1. Append(arrivals[c], s) \in Seq(Service)
      BY <1>3, <2>1
    <3> QED
      BY <1>1, <2>1, <3>1
  <2> QED
    BY <1>1, <1>2, <2>2, <2>3 DEF TypeOK, tabVars, portVars, loadVars, initVars
<1>7. TabsOK' /\ WindowsOK' /\ IdentityOK'
  BY <1>1, <1>5 DEF TabsOK, WindowsOK, IdentityOK, InUse, Generating
<1>8. QueuesOK'
  <2> SUFFICES ASSUME NEW u \in Tab, NEW p \in Service
               PROVE  /\ Queue(toWorker'[u][p], key[p])
                      /\ p \notin services[u] => toWorker'[u][p] = <<>>
                      /\ tab[u] = "open" /\ p \in services[u] /\ key[p] = None
                           => toWorker'[u][p] # <<>>
    BY <1>1, <1>5 DEF QueuesOK
  <2>1. CASE u = t /\ p = s
    BY <1>2, <1>4, <2>1
  <2>2. CASE u # t \/ p # s
    <3>1. toWorker'[u][p] = toWorker[u][p]
      BY <1>2, <2>2
    <3> QED
      BY <3>1 DEF QueuesOK
  <2> QED
    BY <2>1, <2>2
<1>9. WorkersOK'
  <2> SUFFICES ASSUME NEW p \in Service, key[p] = None
               PROVE  ~main[p] /\ incoming'[p] = <<>>
                      /\ runDependencies[p] = Cardinality(pending[p]) + 1
    BY <1>1, <1>5 DEF WorkersOK, loadVars
  <2>1. incoming'[p] = incoming[p]
    BY <1>1, <1>4 DEF TypeOK
  <2> QED
    BY <2>1 DEF WorkersOK
<1>10. RandomOK'
  <2> SUFFICES ASSUME NEW u \in Tab, NEW p \in Service
               PROVE  InitToCome(u, p)' => InitToCome(u, p)
    BY <1>1, <1>5 DEF RandomOK
  <2>1. CASE u = t /\ p = s
    BY <1>1, <1>2, <2>1 DEF InitToCome
  <2>2. CASE u # t \/ p # s
    <3>1. toWorker'[u][p] = toWorker[u][p] /\ services' = services
      BY <1>1, <1>2, <2>2
    <3> QED
      BY <3>1 DEF InitToCome
  <2> QED
    BY <2>1, <2>2
<1> QED
  BY <1>6, <1>7, <1>8, <1>9, <1>10

\* Until the 'init' has come the counter does not reach zero.
LEMMA LoadedIInv ==
  ASSUME IInv, NEW s \in Service, NEW d \in Dependency, Loaded(s, d)
  PROVE  IInv'
<1> USE DEF IInv
<1>1. /\ pending \in [Service -> SUBSET Dependency] /\ main \in [Service -> BOOLEAN]
      /\ runDependencies \in [Service -> Int]
  BY DEF TypeOK
<1>2. /\ d \in pending[s] /\ pending' = [pending EXCEPT ![s] = @ \ {d}]
      /\ runDependencies' = [runDependencies EXCEPT ![s] = @ - 1]
      /\ main' = [main EXCEPT ![s] = @ \/ LastDependency(s)]
      /\ key' = key /\ incoming' = incoming
  BY DEF Loaded, RemoveRunDependency, initVars
<1>3. /\ Cardinality(pending[s]) \in Nat \ {0}
      /\ Cardinality(pending[s] \ {d}) = Cardinality(pending[s]) - 1
  <2>1. IsFiniteSet(pending[s])
    BY <1>1, DependencyAssumption, FS_Subset
  <2>2. Cardinality(pending[s]) \in Nat /\ Cardinality(pending[s] \ {d}) \in Nat
    BY <2>1, FS_CardinalityType, FS_RemoveElement
  <2>3. Cardinality(pending[s] \ {d}) = Cardinality(pending[s]) - 1
    BY <1>2, <2>1, FS_RemoveElement
  <2> QED
    BY <2>2, <2>3
<1>4. TypeOK'
  <2>1. /\ pending' \in [Service -> SUBSET Dependency] /\ runDependencies' \in [Service -> Int]
        /\ main' \in [Service -> BOOLEAN]
    BY <1>1, <1>2 DEF LastDependency
  <2> QED
    BY <2>1 DEF TypeOK, Loaded, tabVars, portVars, initVars
<1>5. WorkersOK'
  <2> SUFFICES ASSUME NEW p \in Service, key[p] = None
               PROVE  ~main'[p] /\ incoming[p] = <<>>
                      /\ runDependencies'[p] = Cardinality(pending'[p]) + 1
    BY <1>2 DEF WorkersOK
  <2>1. /\ ~main[p] /\ incoming[p] = <<>>
        /\ runDependencies[p] = Cardinality(pending[p]) + 1
    BY DEF WorkersOK
  <2>2. CASE p = s
    <3>1. ~LastDependency(s) /\ pending'[s] = pending[s] \ {d}
          /\ runDependencies'[s] = runDependencies[s] - 1
      BY <1>1, <1>2, <1>3, <2>1, <2>2 DEF LastDependency
    <3>2. ~main'[s]
      BY <1>1, <1>2, <2>1, <2>2, <3>1
    <3> QED
      BY <1>3, <2>1, <2>2, <3>1, <3>2
  <2>3. CASE p # s
    BY <1>1, <1>2, <2>1, <2>3
  <2> QED
    BY <2>2, <2>3
<1>6. TabsOK' /\ QueuesOK' /\ WindowsOK' /\ RandomOK' /\ IdentityOK'
  BY DEF TabsOK, QueuesOK, WindowsOK, RandomOK, IdentityOK, InUse, Generating, InitToCome,
         Loaded, tabVars, initVars
<1> QED
  BY <1>4, <1>5, <1>6

LEMMA AskWindowIInv ==
  ASSUME IInv, NEW s \in Service, NEW r \in Service, NEW c \in Conn, AskWindow(s, r, c)
  PROVE  IInv'
<1> USE DEF IInv
<1>1. to' = [to EXCEPT ![c] = r] /\ to \in [Conn -> Service \cup {None}]
  BY DEF AskWindow, TypeOK
<1>2. toWindow \in [Service -> [Tab -> Seq(Conn)]]
  BY DEF TypeOK
<1>3. \/ toWindow' = toWindow
      \/ \E t \in Tab : toWindow' = [toWindow EXCEPT ![s][t] = Append(@, c)]
  <2>1. CASE windows[s] # <<>> /\ tab[AnyWindow(s)] = "open"
    <3>1. windows[s] \in Seq(Tab)
      BY DEF TypeOK
    <3>2. AnyWindow(s) \in Tab
      BY <2>1, <3>1 DEF AnyWindow
    <3> QED
      BY <2>1, <3>2 DEF AskWindow
  <2>2. CASE ~(windows[s] # <<>> /\ tab[AnyWindow(s)] = "open")
    BY <2>2 DEF AskWindow
  <2> QED
    BY <2>1, <2>2
<1>4. \A p \in Service, u \in Tab :
        toWindow'[p][u] \in {toWindow[p][u], Append(toWindow[p][u], c)}
  BY <1>2, <1>3
<1>5. TypeOK'
  <2>1. to' \in [Conn -> Service \cup {None}]
    BY <1>1
  <2>2. toWindow' \in [Service -> [Tab -> Seq(Conn)]]
    <3>1. CASE toWindow' = toWindow
      BY <1>2, <3>1
    <3>2. ASSUME NEW t \in Tab, toWindow' = [toWindow EXCEPT ![s][t] = Append(@, c)]
          PROVE  toWindow' \in [Service -> [Tab -> Seq(Conn)]]
      <4>1. Append(toWindow[s][t], c) \in Seq(Conn)
        BY <1>2
      <4> QED
        BY <1>2, <3>2, <4>1
    <3> QED
      BY <1>3, <3>1, <3>2
  <2> QED
    BY <2>1, <2>2 DEF TypeOK, AskWindow, tabVars, portVars, loadVars, initVars
<1>6. WindowsOK'
  <2>1. \A d \in Conn : to[d] \in Service \/ d = c => to'[d] \in Service
    BY <1>1
  <2> SUFFICES ASSUME NEW p \in Service, NEW u \in Tab, NEW i \in 1 .. Len(toWindow'[p][u])
               PROVE  to'[toWindow'[p][u][i]] \in Service
    BY DEF WindowsOK
  <2> DEFINE q == toWindow[p][u]
  <2>2. /\ q \in Seq(Conn) /\ toWindow'[p][u] \in {q, Append(q, c)}
        /\ \A j \in 1 .. Len(q) : to[q[j]] \in Service
    BY <1>2, <1>4 DEF WindowsOK
  <2> HIDE DEF q
  <2>3. CASE i \in 1 .. Len(q)
    <3>1. toWindow'[p][u][i] = q[i] /\ q[i] \in Conn
      BY <2>2, <2>3
    <3> QED
      BY <2>1, <2>2, <2>3, <3>1
  <2>4. CASE i \notin 1 .. Len(q)
    <3>1. toWindow'[p][u][i] = c
      BY <2>2, <2>4
    <3> QED
      BY <2>1, <3>1
  <2> QED
    BY <2>3, <2>4
<1>7. TabsOK' /\ QueuesOK' /\ WorkersOK' /\ RandomOK' /\ IdentityOK'
  BY DEF TabsOK, QueuesOK, WorkersOK, RandomOK, IdentityOK, InUse, Generating, InitToCome, AskWindow,
         tabVars, loadVars, initVars
<1> QED
  BY <1>5, <1>6, <1>7

\* The bytes of a read are those behind the offset, each once.
LEMMA BytesAfterOffset ==
  ASSUME TypeOK, NEW s \in Service, NEW n \in 1 .. PoolSize
  PROVE  /\ Bytes(s, n) \in Seq(1 .. PoolSize)
         /\ OffsetAfter(s, n) = pool[s].offset + Len(Bytes(s, n))
         /\ OffsetAfter(s, n) \in 0 .. PoolSize
         /\ \A i \in 1 .. Len(Bytes(s, n)) : Bytes(s, n)[i] = pool[s].offset + i
<1> DEFINE o == pool[s].offset
           m == IF n < PoolSize - o THEN n ELSE PoolSize - o
<1>1. o \in 0 .. PoolSize
  BY DEF TypeOK
<1>2. Bytes(s, n) = [i \in 1 .. m |-> o + i]
  BY DEF Bytes
<1>3. OffsetAfter(s, n) = IF o + n < PoolSize THEN o + n ELSE PoolSize
  BY DEF OffsetAfter
<1> HIDE DEF o
<1>4. m \in Nat /\ OffsetAfter(s, n) = o + m /\ o + m \in 0 .. PoolSize
  BY <1>1, <1>3, PoolSizeAssumption
<1> HIDE DEF m
<1>5. \A i \in 1 .. m : o + i \in 1 .. PoolSize
  BY <1>1, <1>4, PoolSizeAssumption
<1>6. Bytes(s, n) \in Seq(1 .. PoolSize) /\ Len(Bytes(s, n)) = m
  BY <1>2, <1>4, <1>5
<1> QED
  BY <1>2, <1>4, <1>6 DEF o

LEMMA ReadRandomIInv ==
  ASSUME IInv, NEW s \in Service, NEW n \in 1 .. PoolSize, ReadRandom(s, n)
  PROVE  IInv'
<1> USE DEF IInv
<1> DEFINE t == pool[s].from
           o == pool[s].offset
           b == Bytes(s, n)
           g == given[t][s]
<1>1. /\ pool \in [Service -> [from : Tab \cup {None}, offset : 0 .. PoolSize]]
      /\ given \in [Tab -> [Service -> Seq(1 .. PoolSize)]]
  BY DEF TypeOK
<1>2. /\ t \in Tab /\ o \in 0 .. PoolSize /\ g \in Seq(1 .. PoolSize)
      /\ pool' = [pool EXCEPT ![s].offset = OffsetAfter(s, n)]
      /\ given' = [given EXCEPT ![t][s] = g \o b]
  BY <1>1 DEF ReadRandom
<1>3. /\ b \in Seq(1 .. PoolSize)
      /\ OffsetAfter(s, n) = o + Len(b)
      /\ OffsetAfter(s, n) \in 0 .. PoolSize
      /\ \A i \in 1 .. Len(b) : b[i] = o + i
  BY BytesAfterOffset
<1>4. /\ ~InitToCome(t, s)
      /\ \A i \in 1 .. Len(g) : g[i] <= o
      /\ \A i, j \in 1 .. Len(g) : g[i] = g[j] => i = j
  BY <1>2 DEF RandomOK
<1> HIDE DEF b, g, t, o
<1>5. TypeOK'
  <2>1. pool' \in [Service -> [from : Tab \cup {None}, offset : 0 .. PoolSize]]
    BY <1>1, <1>2, <1>3
  <2>2. given' \in [Tab -> [Service -> Seq(1 .. PoolSize)]]
    <3>1. g \o b \in Seq(1 .. PoolSize)
      BY <1>2, <1>3
    <3> QED
      BY <1>1, <1>2, <3>1
  <2> QED
    BY <2>1, <2>2 DEF TypeOK, ReadRandom, tabVars, portVars, loadVars
<1>6. TabsOK' /\ QueuesOK' /\ WorkersOK' /\ WindowsOK' /\ IdentityOK'
  BY DEF TabsOK, QueuesOK, WorkersOK, WindowsOK, IdentityOK, InUse, Generating, ReadRandom,
         tabVars, loadVars
<1>7. RandomOK'
  <2>1. \A u \in Tab, p \in Service : InitToCome(u, p)' <=> InitToCome(u, p)
    BY DEF InitToCome, ReadRandom
  <2>2. /\ given'[t][s] = g \o b
        /\ \A u \in Tab, p \in Service : u # t \/ p # s => given'[u][p] = given[u][p]
    BY <1>1, <1>2
  <2>3. /\ pool'[s].from = t /\ pool'[s].offset = o + Len(b)
        /\ \A p \in Service : p # s => pool'[p] = pool[p]
    BY <1>1, <1>2, <1>3 DEF t
  <2> DEFINE r == g \o b
  <2>4. \A i \in 1 .. Len(r) :
          \/ i \in 1 .. Len(g) /\ r[i] = g[i]
          \/ i - Len(g) \in 1 .. Len(b) /\ r[i] = b[i - Len(g)]
    BY <1>2, <1>3
  <2>5. Len(g) \in Nat /\ Len(b) \in Nat /\ Len(r) = Len(g) + Len(b) /\ r = given'[t][s]
    BY <1>2, <1>3, <2>2
  <2> HIDE DEF r
  <2>6. \A i \in 1 .. Len(g) : g[i] \in Int
    <3> SUFFICES ASSUME NEW i \in 1 .. Len(g) PROVE g[i] \in Int
      OBVIOUS
    <3> DEFINE R == 1 .. PoolSize
    <3>1. g \in Seq(R)
      BY <1>2
    <3> HIDE DEF R
    <3>2. g[i] \in R
      BY <3>1
    <3> QED
      BY <3>2, PoolSizeAssumption DEF R
  <2>7. \A i \in 1 .. Len(r) : r[i] <= o + Len(b)
    <3> SUFFICES ASSUME NEW i \in 1 .. Len(r) PROVE r[i] <= o + Len(b)
      OBVIOUS
    <3>1. CASE i \in 1 .. Len(g) /\ r[i] = g[i]
      BY <1>2, <1>4, <2>5, <2>6, <3>1
    <3>2. CASE i - Len(g) \in 1 .. Len(b) /\ r[i] = b[i - Len(g)]
      <4>1. r[i] = o + (i - Len(g))
        BY <1>3, <3>2
      <4> QED
        BY <1>2, <2>5, <3>2, <4>1
    <3> QED
      BY <2>4, <3>1, <3>2
  <2>8. \A i, j \in 1 .. Len(r) : r[i] = r[j] => i = j
    <3> SUFFICES ASSUME NEW i \in 1 .. Len(r), NEW j \in 1 .. Len(r), r[i] = r[j] PROVE i = j
      OBVIOUS
    <3>1. CASE i \in 1 .. Len(g) /\ r[i] = g[i]
      <4>1. r[j] <= o
        BY <1>4, <3>1
      <4>2. ~(j - Len(g) \in 1 .. Len(b) /\ r[j] = b[j - Len(g)])
        BY <1>2, <1>3, <2>5, <4>1
      <4>3. j \in 1 .. Len(g) /\ r[j] = g[j]
        BY <2>4, <4>2
      <4> QED
        BY <1>4, <3>1, <4>3
    <3>2. CASE i - Len(g) \in 1 .. Len(b) /\ r[i] = b[i - Len(g)]
      <4>1. r[i] = o + (i - Len(g)) /\ r[i] > o
        <5>1. r[i] = o + (i - Len(g))
          BY <1>3, <3>2
        <5> QED
          <6>1. o \in Int /\ i - Len(g) \in Int /\ i - Len(g) > 0
            BY <1>2, <2>5, <3>2, PoolSizeAssumption
          <6> QED
            BY <5>1, <6>1
      <4>2. ~(j \in 1 .. Len(g) /\ r[j] = g[j])
        BY <1>2, <1>4, <2>6, <4>1
      <4>3. j - Len(g) \in 1 .. Len(b) /\ r[j] = b[j - Len(g)]
        BY <2>4, <4>2
      <4>4. r[j] = o + (j - Len(g))
        BY <1>3, <4>3
      <4> QED
        BY <1>2, <2>5, <4>1, <4>4
    <3> QED
      BY <2>4, <3>1, <3>2
  <2> SUFFICES ASSUME NEW u \in Tab, NEW p \in Service
               PROVE  /\ InitToCome(u, p) => given'[u][p] = <<>> /\ pool'[p].from # u
                      /\ pool'[p].from = u =>
                           \A i \in 1 .. Len(given'[u][p]) : given'[u][p][i] <= pool'[p].offset
                      /\ \A i, j \in 1 .. Len(given'[u][p]) :
                           given'[u][p][i] = given'[u][p][j] => i = j
    BY <2>1 DEF RandomOK
  <2>9. CASE u = t /\ p = s
    BY <1>4, <2>3, <2>5, <2>7, <2>8, <2>9
  <2>10. CASE p # s
    BY <2>2, <2>3, <2>10 DEF RandomOK
  <2>11. CASE p = s /\ u # t
    BY <2>2, <2>3, <2>11 DEF RandomOK
  <2> QED
    BY <2>9, <2>10, <2>11
<1> QED
  BY <1>5, <1>6, <1>7

-----------------------------------------------------------------------------

LEMMA StepIInv == IInv /\ [Next]_vars => IInv'
<1> SUFFICES ASSUME IInv, [Next]_vars PROVE IInv'
  OBVIOUS
<1>1. ASSUME NEW t \in Tab, OpenTab(t) \/ FinishLoad(t) \/ CloseTab(t) PROVE IInv'
  BY <1>1, OpenTabIInv, FinishLoadIInv, CloseTabIInv
<1>2. ASSUME NEW t \in Tab, NEW s \in Service, NEW c \in Conn, PageConnect(t, s, c) PROVE IInv'
  BY <1>2, PageConnectIInv
<1>3. ASSUME NEW t \in Tab, NEW s \in Service,
             WindowMessage(t, s) \/ OnConnect(s, t) \/ GetInit(s, t) \/ GetConnect(s, t)
      PROVE  IInv'
  BY <1>3, WindowMessageIInv, OnConnectIInv, GetInitIInv, GetConnectIInv
<1>4. ASSUME NEW s \in Service, NEW d \in Dependency, Loaded(s, d) PROVE IInv'
  BY <1>4, LoadedIInv
<1>5. ASSUME NEW s \in Service, NEW r \in Service, NEW c \in Conn, AskWindow(s, r, c)
      PROVE  IInv'
  BY <1>5, AskWindowIInv
<1>6. ASSUME NEW s \in Service, NEW n \in 1 .. PoolSize, ReadRandom(s, n) PROVE IInv'
  BY <1>6, ReadRandomIInv
<1>7. CASE UNCHANGED vars
  BY <1>7 DEF IInv, TypeOK, TabsOK, QueuesOK, WorkersOK, WindowsOK, RandomOK, IdentityOK,
              InUse, Generating, InitToCome, vars, tabVars, portVars, loadVars, initVars
<1> QED
  BY <1>1, <1>2, <1>3, <1>4, <1>5, <1>6, <1>7 DEF Next

LEMMA Invariant == Spec => []IInv
BY InitIInv, StepIInv, PTL DEF Spec

-----------------------------------------------------------------------------
(* Theorems.                                                               *)

\* Every variable of the switchboard keeps its type; in particular the offset
\* into the random bytes stays within them (pre.js).
THEOREM TypeCorrect == Spec => []TypeOK
<1>1. IInv => TypeOK
  BY DEF IInv
<1> QED
  BY <1>1, Invariant, PTL

\* A worker neither calls main() nor takes a connection before an 'init' has
\* brought its private key (pre.js, get_message).
THEOREM KeyIsThere == Spec => []KeyBeforeUse
<1>1. IInv => KeyBeforeUse
  BY DEF IInv, WorkersOK, KeyBeforeUse
<1> QED
  BY <1>1, Invariant, PTL

\* No random byte of a tab's array is given to the readers of a worker twice
\* (pre.js, /dev/urandom).
THEOREM BytesGivenOnce == Spec => []RandomBytesOnce
<1>1. IInv => RandomBytesOnce
  BY DEF IInv, RandomOK, RandomBytesOnce
<1> QED
  BY <1>1, Invariant, PTL

\* Workers have the same private key, or keys of two tabs that both found none
\* stored (service.cljs, private-key).
THEOREM SameIdentity == Spec => []OneIdentity
<1>1. IInv => OneIdentity
  <2>1. TypeOK => \A s \in Service : key[s] # None => key[s] \in Tab /\ InUse(key[s])
    BY DEF TypeOK, InUse
  <2> QED
    BY <2>1 DEF IInv, IdentityOK, OneIdentity
<1> QED
  BY <1>1, Invariant, PTL

-----------------------------------------------------------------------------
(* A connection is in one place.                                           *)

\* c is at p: in a queue to a tab, in a queue to a worker, or it has arrived.
Asked(tw, c, p) ==
  \E s \in Service, t \in Tab : \E i \in 1 .. Len(tw[s][t]) :
    tw[s][t][i] = c /\ p = <<"window", s, t, i>>
Sent(tk, c, p) ==
  \E s \in Service, t \in Tab : \E i \in 1 .. Len(tk[t][s]) :
    tk[t][s][i] = c /\ p = <<"worker", s, t, i>>
Came(ar, c, p) == \E i \in 1 .. Len(ar[c]) : p = <<"arrived", ar[c][i], None, i>>

IsAt(c, p) == Asked(toWindow, c, p) \/ Sent(toWorker, c, p) \/ Came(arrivals, c, p)

PlaceOK(c) ==
  /\ \A p, q : IsAt(c, p) /\ IsAt(c, q) => p = q
  /\ \A p : IsAt(c, p) => to[c] # None /\ (p[1] # "window" => p[2] = to[c])

OnePlace == \A c \in Conn : PlaceOK(c)

\* The place of a message behind the one that is taken from the queue of s and t.
Behind(p, kind, s, t) ==
  IF p[1] = kind /\ p[2] = s /\ p[3] = t THEN <<kind, s, t, p[4] + 1>> ELSE p

\* Nothing happens to c, but that a message before it is taken.
LEMMA PlaceKept ==
  ASSUME OnePlace, NEW c \in Conn, to'[c] = to[c], NEW kind, NEW s, NEW t,
         \A p : IsAt(c, p)' => \/ /\ IsAt(c, p)
                                  /\ ~(p[1] = kind /\ p[2] = s /\ p[3] = t)
                               \/ /\ p[1] = kind /\ p[2] = s /\ p[3] = t
                                  /\ IsAt(c, <<kind, s, t, p[4] + 1>>)
  PROVE  PlaceOK(c)'
<1>1. PlaceOK(c)
  BY DEF OnePlace
<1>2. ASSUME NEW p, IsAt(c, p)' PROVE p = <<p[1], p[2], p[3], p[4]>> /\ p[4] \in Int
  BY <1>2 DEF IsAt, Asked, Sent, Came
<1>3. ASSUME NEW p, NEW q, IsAt(c, p)', IsAt(c, q)' PROVE p = q
  <2>1. /\ p = <<p[1], p[2], p[3], p[4]>> /\ p[4] \in Int
        /\ q = <<q[1], q[2], q[3], q[4]>> /\ q[4] \in Int
    BY <1>2, <1>3
  <2>2. Behind(p, kind, s, t) = Behind(q, kind, s, t)
    BY <1>1, <1>3 DEF PlaceOK, Behind
  <2>3. CASE p[1] = kind /\ p[2] = s /\ p[3] = t
    <3>1. Behind(q, kind, s, t) = <<kind, s, t, p[4] + 1>>
      BY <2>2, <2>3 DEF Behind
    <3>2. q[1] = kind /\ q[2] = s /\ q[3] = t
      BY <3>1 DEF Behind
    <3>3. q[4] + 1 = p[4] + 1
      BY <3>1, <3>2 DEF Behind
    <3> QED
      BY <2>1, <2>3, <3>2, <3>3
  <2>4. CASE ~(p[1] = kind /\ p[2] = s /\ p[3] = t)
    <3>1. Behind(q, kind, s, t) = p
      BY <2>2, <2>4 DEF Behind
    <3>2. ~(q[1] = kind /\ q[2] = s /\ q[3] = t)
      BY <2>4, <3>1 DEF Behind
    <3> QED
      BY <3>1, <3>2 DEF Behind
  <2> QED
    BY <2>3, <2>4
<1>4. ASSUME NEW p, IsAt(c, p)' PROVE to'[c] # None /\ (p[1] # "window" => p[2] = to'[c])
  <2>1. CASE IsAt(c, p)
    BY <1>1, <2>1 DEF PlaceOK
  <2>2. CASE p[1] = kind /\ p[2] = s /\ p[3] = t /\ IsAt(c, <<kind, s, t, p[4] + 1>>)
    BY <1>1, <2>2 DEF PlaceOK
  <2> QED
    BY <1>4, <2>1, <2>2
<1> QED
  BY <1>3, <1>4 DEF PlaceOK

\* c is where it was, or gone.
LEMMA PlaceSame ==
  ASSUME OnePlace, NEW c \in Conn, to'[c] = to[c], \A p : IsAt(c, p)' => IsAt(c, p)
  PROVE  PlaceOK(c)'
BY DEF OnePlace, PlaceOK

\* c was put in a new place.
LEMMA PlaceNew ==
  ASSUME NEW c \in Conn, NEW n, \A p : IsAt(c, p)' => p = n,
         to'[c] # None, n[1] # "window" => n[2] = to'[c]
  PROVE  PlaceOK(c)'
BY DEF PlaceOK

LEMMA NothingMoves ==
  ASSUME OnePlace, UNCHANGED <<toWindow, toWorker, arrivals, to>> PROVE OnePlace'
<1>1. ASSUME NEW c \in Conn, NEW p PROVE IsAt(c, p)' => IsAt(c, p)
  BY DEF IsAt, Asked, Sent, Came
<1> QED
  BY <1>1, PlaceSame DEF OnePlace

LEMMA LostPlaces ==
  ASSUME TypeOK, OnePlace, UNCHANGED <<arrivals, to>>,
         \A s \in Service, t \in Tab :
           /\ toWindow'[s][t] = toWindow[s][t] \/ toWindow'[s][t] = <<>>
           /\ \/ toWorker'[t][s] = toWorker[t][s]
              \/ toWorker'[t][s] = <<>> \/ toWorker'[t][s] = <<"init">>
  PROVE  OnePlace'
<1>1. ASSUME NEW c \in Conn, NEW p, IsAt(c, p)' PROVE IsAt(c, p)
  <2>1. Asked(toWindow', c, p) => Asked(toWindow, c, p)
    BY DEF Asked
  <2>2. Sent(toWorker', c, p) => Sent(toWorker, c, p)
    <3> SUFFICES ASSUME NEW s \in Service, NEW t \in Tab, NEW i \in 1 .. Len(toWorker'[t][s]),
                        toWorker'[t][s][i] = c
                 PROVE  toWorker'[t][s] = toWorker[t][s]
      BY DEF Sent
    <3>1. toWorker'[t][s] # <<>>
      OBVIOUS
    <3>2. toWorker'[t][s] # <<"init">>
      BY InitAssumption
    <3> QED
      BY <3>1, <3>2
  <2>3. Came(arrivals', c, p) => Came(arrivals, c, p)
    BY DEF Came
  <2> QED
    BY <1>1, <2>1, <2>2, <2>3 DEF IsAt
<1> QED
  BY <1>1, PlaceSame DEF OnePlace

\* A message is taken from the queue of t to s.
LEMMA TakenPlaces ==
  ASSUME TypeOK, NEW s \in Service, NEW t \in Tab, toWorker[t][s] # <<>>,
         toWorker' = [toWorker EXCEPT ![t][s] = Tail(@)], NEW c, NEW p, Sent(toWorker', c, p)
  PROVE  \/ Sent(toWorker, c, p) /\ ~(p[1] = "worker" /\ p[2] = s /\ p[3] = t)
         \/ /\ p[1] = "worker" /\ p[2] = s /\ p[3] = t
            /\ p[4] \in Nat \ {0} /\ Sent(toWorker, c, <<"worker", s, t, p[4] + 1>>)
<1>1. toWorker \in [Tab -> [Service -> Seq(Conn \cup {"init"})]]
  BY DEF TypeOK
<1>2. PICK q \in Seq(Conn \cup {"init"}) : q = toWorker[t][s] /\ q # <<>>
  BY <1>1
<1>3. /\ toWorker'[t][s] = Tail(q)
      /\ \A u \in Tab, r \in Service : u # t \/ r # s => toWorker'[u][r] = toWorker[u][r]
  BY <1>1, <1>2
<1>4. \A i \in 1 .. Len(Tail(q)) : /\ Tail(q)[i] = q[i + 1] /\ i + 1 \in 1 .. Len(q)
                                   /\ i \in Nat \ {0}
  BY <1>2
<1>5. PICK r \in Service, u \in Tab : \E i \in 1 .. Len(toWorker'[u][r]) :
        toWorker'[u][r][i] = c /\ p = <<"worker", r, u, i>>
  BY DEF Sent
<1>6. PICK i \in 1 .. Len(toWorker'[u][r]) : toWorker'[u][r][i] = c /\ p = <<"worker", r, u, i>>
  BY <1>5
<1>7. CASE r = s /\ u = t
  <2>1. i \in Nat \ {0} /\ i + 1 \in 1 .. Len(q) /\ q[i + 1] = c
    BY <1>3, <1>4, <1>6, <1>7
  <2>2. Sent(toWorker, c, <<"worker", s, t, i + 1>>)
    BY <1>2, <2>1 DEF Sent
  <2> QED
    BY <1>6, <1>7, <2>1, <2>2
<1>8. CASE r # s \/ u # t
  <2>1. Sent(toWorker, c, p)
    BY <1>3, <1>6, <1>8 DEF Sent
  <2> QED
    BY <1>6, <1>8, <2>1
<1> QED
  BY <1>7, <1>8

\* client-connect puts c0 in the last place of a queue.
LEMMA SentPlaces ==
  ASSUME TypeOK, NEW t \in Tab, NEW s \in Service, NEW c0 \in Conn,
         NEW x, x = <<c0>> \/ x = <<"init", c0>>,
         toWorker' = [toWorker EXCEPT ![t][s] = toWorker[t][s] \o x],
         NEW c \in Conn, NEW p, Sent(toWorker', c, p)
  PROVE  Sent(toWorker, c, p) \/ (c = c0 /\ p = <<"worker", s, t, Len(toWorker'[t][s])>>)
<1>1. toWorker \in [Tab -> [Service -> Seq(Conn \cup {"init"})]]
  BY DEF TypeOK
<1>2. PICK q \in Seq(Conn \cup {"init"}) : q = toWorker[t][s]
  BY <1>1
<1>3. PICK r : r = q \o x
  OBVIOUS
<1>4. /\ toWorker'[t][s] = r
      /\ \A u \in Tab, v \in Service : u # t \/ v # s => toWorker'[u][v] = toWorker[u][v]
  BY <1>1, <1>2, <1>3
<1>5. \A i \in 1 .. Len(r) : \/ i \in 1 .. Len(q) /\ r[i] = q[i]
                             \/ r[i] = "init"
                             \/ i = Len(r) /\ r[i] = c0
  <2>1. CASE x = <<c0>>
    <3>1. r = q \o <<c0>>
      BY <1>3, <2>1
    <3>2. Len(r) = Len(q) + 1 /\ r[Len(q) + 1] = c0 /\ \A i \in 1 .. Len(q) : r[i] = q[i]
      BY <3>1
    <3>3. \A i \in 1 .. Len(r) : i \in 1 .. Len(q) \/ i = Len(q) + 1
      BY <3>2
    <3> QED
      BY <3>2, <3>3
  <2>2. CASE x = <<"init", c0>>
    <3>1. r = q \o <<"init", c0>>
      BY <1>3, <2>2
    <3>2. /\ Len(r) = Len(q) + 2 /\ r[Len(q) + 1] = "init" /\ r[Len(q) + 2] = c0
          /\ \A i \in 1 .. Len(q) : r[i] = q[i]
      BY <3>1
    <3>3. \A i \in 1 .. Len(r) : i \in 1 .. Len(q) \/ i = Len(q) + 1 \/ i = Len(q) + 2
      BY <3>2
    <3> QED
      BY <3>2, <3>3
  <2> QED
    BY <2>1, <2>2
<1>6. PICK v \in Service, u \in Tab : \E i \in 1 .. Len(toWorker'[u][v]) :
        toWorker'[u][v][i] = c /\ p = <<"worker", v, u, i>>
  BY DEF Sent
<1>7. PICK i \in 1 .. Len(toWorker'[u][v]) : toWorker'[u][v][i] = c /\ p = <<"worker", v, u, i>>
  BY <1>6
<1>8. CASE v = s /\ u = t
  <2>1. c # "init"
    BY InitAssumption
  <2>2. (i \in 1 .. Len(q) /\ q[i] = c) \/ (i = Len(r) /\ c = c0)
    BY <1>4, <1>5, <1>7, <1>8, <2>1
  <2> QED
    BY <1>2, <1>4, <1>7, <1>8, <2>2 DEF Sent
<1>9. CASE v # s \/ u # t
  BY <1>4, <1>7, <1>9 DEF Sent
<1> QED
  BY <1>8, <1>9

LEMMA PageConnectPlaces ==
  ASSUME TypeOK, OnePlace, NEW t \in Tab, NEW s \in Service, NEW c0 \in Conn, PageConnect(t, s, c0)
  PROVE  OnePlace'
<1>1. /\ to[c0] = None /\ to' = [to EXCEPT ![c0] = s] /\ toWindow' = toWindow
      /\ arrivals' = arrivals /\ ClientConnect(t, s, c0) /\ to \in [Conn -> Service \cup {None}]
  BY DEF PageConnect, TypeOK
<1>2. PICK n : \A c \in Conn : \A p :
        Sent(toWorker', c, p) => Sent(toWorker, c, p) \/ (c = c0 /\ p = <<"worker", s, t, n>>)
  <2>1. PICK x : /\ x = <<c0>> \/ x = <<"init", c0>>
                /\ toWorker' = [toWorker EXCEPT ![t][s] = toWorker[t][s] \o x]
    BY <1>1 DEF ClientConnect, Posted
  <2>2. ASSUME NEW c \in Conn, NEW p, Sent(toWorker', c, p)
        PROVE  \/ Sent(toWorker, c, p)
               \/ c = c0 /\ p = <<"worker", s, t, Len(toWorker'[t][s])>>
    BY <2>1, <2>2, SentPlaces
  <2> QED
    BY <2>2
<1>3. ASSUME NEW c \in Conn, NEW p, IsAt(c, p)'
      PROVE  IsAt(c, p) \/ (c = c0 /\ p = <<"worker", s, t, n>>)
  BY <1>1, <1>2, <1>3 DEF IsAt, Asked, Came
<1>4. \A p : ~IsAt(c0, p)
  BY <1>1 DEF OnePlace, PlaceOK
<1>5. ASSUME NEW c \in Conn, c # c0 PROVE PlaceOK(c)'
  BY <1>1, <1>3, <1>5, PlaceSame
<1>6. PlaceOK(c0)'
  <2>1. to'[c0] = s /\ s # None
    BY <1>1, NoneAssumption
  <2>2. \A p : IsAt(c0, p)' => p = <<"worker", s, t, n>>
    BY <1>3, <1>4
  <2> QED
    BY <2>1, <2>2, PlaceNew
<1> QED
  BY <1>5, <1>6 DEF OnePlace

LEMMA WindowMessagePlaces ==
  ASSUME TypeOK, WindowsOK, OnePlace, NEW t \in Tab, NEW s \in Service, WindowMessage(t, s)
  PROVE  OnePlace'
<1>1. toWindow \in [Service -> [Tab -> Seq(Conn)]]
  BY DEF TypeOK
<1>2. PICK q \in Seq(Conn) : q = toWindow[s][t] /\ q # <<>>
  BY <1>1 DEF WindowMessage
<1>3. PICK h \in Conn : h = Head(q) /\ h = q[1] /\ 1 \in 1 .. Len(q)
  BY <1>2
<1>4. PICK r \in Service : r = to[h]
  BY <1>2, <1>3 DEF WindowsOK
<1>5. /\ toWindow' = [toWindow EXCEPT ![s][t] = Tail(q)] /\ to' = to /\ arrivals' = arrivals
      /\ ClientConnect(t, r, h)
  BY <1>2, <1>3, <1>4 DEF WindowMessage
<1>6. PICK n : \A c \in Conn : \A p :
        Sent(toWorker', c, p) => Sent(toWorker, c, p) \/ (c = h /\ p = <<"worker", r, t, n>>)
  <2>1. PICK x : /\ x = <<h>> \/ x = <<"init", h>>
                /\ toWorker' = [toWorker EXCEPT ![t][r] = toWorker[t][r] \o x]
    BY <1>5 DEF ClientConnect, Posted
  <2>2. ASSUME NEW c \in Conn, NEW p, Sent(toWorker', c, p)
        PROVE  \/ Sent(toWorker, c, p)
               \/ c = h /\ p = <<"worker", r, t, Len(toWorker'[t][r])>>
    BY <2>1, <2>2, SentPlaces
  <2> QED
    BY <2>2
<1>7. /\ toWindow'[s][t] = Tail(q)
      /\ \A v \in Service, u \in Tab : v # s \/ u # t => toWindow'[v][u] = toWindow[v][u]
      /\ \A i \in 1 .. Len(Tail(q)) : /\ Tail(q)[i] = q[i + 1] /\ i + 1 \in 1 .. Len(q)
                                      /\ i \in Nat \ {0}
  BY <1>1, <1>2, <1>5
<1>8. ASSUME NEW c, NEW p, Asked(toWindow', c, p)
      PROVE  \/ Asked(toWindow, c, p) /\ ~(p[1] = "window" /\ p[2] = s /\ p[3] = t)
             \/ /\ p[1] = "window" /\ p[2] = s /\ p[3] = t
                /\ p[4] \in Nat \ {0} /\ Asked(toWindow, c, <<"window", s, t, p[4] + 1>>)
  <2>1. PICK v \in Service, u \in Tab : \E i \in 1 .. Len(toWindow'[v][u]) :
          toWindow'[v][u][i] = c /\ p = <<"window", v, u, i>>
    BY <1>8 DEF Asked
  <2>2. PICK i \in 1 .. Len(toWindow'[v][u]) : toWindow'[v][u][i] = c /\ p = <<"window", v, u, i>>
    BY <2>1
  <2>3. CASE v = s /\ u = t
    <3>1. i \in Nat \ {0} /\ i + 1 \in 1 .. Len(q) /\ q[i + 1] = c
      BY <1>7, <2>2, <2>3
    <3>2. Asked(toWindow, c, <<"window", s, t, i + 1>>)
      BY <1>2, <3>1 DEF Asked
    <3> QED
      BY <2>2, <2>3, <3>1, <3>2
  <2>4. CASE v # s \/ u # t
    <3>1. Asked(toWindow, c, p)
      BY <1>7, <2>2, <2>4 DEF Asked
    <3> QED
      BY <2>2, <2>4, <3>1
  <2> QED
    BY <2>3, <2>4
<1>9. ASSUME NEW c \in Conn, c # h PROVE PlaceOK(c)'
  <2>1. ASSUME NEW p, IsAt(c, p)'
        PROVE  \/ IsAt(c, p) /\ ~(p[1] = "window" /\ p[2] = s /\ p[3] = t)
               \/ /\ p[1] = "window" /\ p[2] = s /\ p[3] = t
                  /\ IsAt(c, <<"window", s, t, p[4] + 1>>)
    <3>1. CASE Asked(toWindow', c, p)
      BY <1>8, <3>1 DEF IsAt
    <3>2. CASE Sent(toWorker', c, p)
      <4>1. Sent(toWorker, c, p)
        BY <1>6, <1>9, <3>2
      <4>2. p[1] # "window"
        BY <4>1 DEF Sent
      <4> QED
        BY <4>1, <4>2 DEF IsAt
    <3>3. CASE Came(arrivals', c, p)
      BY <1>5, <3>3 DEF IsAt, Came
    <3> QED
      BY <2>1, <3>1, <3>2, <3>3 DEF IsAt
  <2> QED
    BY <1>5, <2>1, PlaceKept
<1>10. PlaceOK(h)'
  <2>1. IsAt(h, <<"window", s, t, 1>>)
    BY <1>2, <1>3 DEF IsAt, Asked
  <2>2. \A p : IsAt(h, p) => p = <<"window", s, t, 1>>
    BY <2>1 DEF OnePlace, PlaceOK
  <2>3. ASSUME NEW p, IsAt(h, p)' PROVE p = <<"worker", r, t, n>>
    <3>1. ~Asked(toWindow', h, p)
      <4>1. ASSUME Asked(toWindow, h, p), ~(p[1] = "window" /\ p[2] = s /\ p[3] = t) PROVE FALSE
        BY <2>2, <4>1 DEF IsAt
      <4>2. ASSUME p[4] \in Nat \ {0}, Asked(toWindow, h, <<"window", s, t, p[4] + 1>>) PROVE FALSE
        <5>1. <<"window", s, t, p[4] + 1>> = <<"window", s, t, 1>>
          BY <2>2, <4>2 DEF IsAt
        <5>2. p[4] + 1 = 1
          BY <5>1
        <5> QED
          BY <4>2, <5>2
      <4> QED
        BY <1>8, <4>1, <4>2
    <3>2. ~Sent(toWorker, h, p)
      <4>1. Sent(toWorker, h, p) => p[1] = "worker" /\ p = <<"window", s, t, 1>>
        BY <2>2 DEF IsAt, Sent
      <4> QED
        BY <4>1
    <3>3. ~Came(arrivals', h, p)
      <4>1. Came(arrivals', h, p) => p[1] = "arrived" /\ p = <<"window", s, t, 1>>
        BY <1>5, <2>2 DEF IsAt, Came
      <4> QED
        BY <4>1
    <3> QED
      BY <1>6, <2>3, <3>1, <3>2, <3>3 DEF IsAt
  <2>4. to'[h] = r /\ r # None
    BY <1>4, <1>5, NoneAssumption
  <2> QED
    BY <2>3, <2>4, PlaceNew
<1> QED
  BY <1>9, <1>10 DEF OnePlace

LEMMA GetInitPlaces ==
  ASSUME TypeOK, OnePlace, NEW s \in Service, NEW t \in Tab, GetInit(s, t) PROVE OnePlace'
<1>1. /\ toWorker[t][s] # <<>> /\ toWorker' = [toWorker EXCEPT ![t][s] = Tail(@)]
      /\ UNCHANGED <<toWindow, arrivals, to>>
  BY DEF GetInit
<1>2. ASSUME NEW c \in Conn, NEW p, IsAt(c, p)'
      PROVE  \/ IsAt(c, p) /\ ~(p[1] = "worker" /\ p[2] = s /\ p[3] = t)
             \/ p[1] = "worker" /\ p[2] = s /\ p[3] = t /\ IsAt(c, <<"worker", s, t, p[4] + 1>>)
  <2>1. CASE Sent(toWorker', c, p)
    <3>1. \/ Sent(toWorker, c, p) /\ ~(p[1] = "worker" /\ p[2] = s /\ p[3] = t)
          \/ /\ p[1] = "worker" /\ p[2] = s /\ p[3] = t
             /\ p[4] \in Nat \ {0} /\ Sent(toWorker, c, <<"worker", s, t, p[4] + 1>>)
      BY <1>1, <2>1, TakenPlaces
    <3> QED
      BY <3>1 DEF IsAt
  <2>2. CASE Asked(toWindow', c, p) \/ Came(arrivals', c, p)
    BY <1>1, <2>2 DEF IsAt, Asked, Came
  <2> QED
    BY <1>2, <2>1, <2>2 DEF IsAt
<1> QED
  BY <1>1, <1>2, PlaceKept DEF OnePlace

LEMMA GetConnectPlaces ==
  ASSUME TypeOK, OnePlace, NEW s \in Service, NEW t \in Tab, GetConnect(s, t) PROVE OnePlace'
<1>1. /\ toWorker \in [Tab -> [Service -> Seq(Conn \cup {"init"})]]
      /\ arrivals \in [Conn -> Seq(Service)]
  BY DEF TypeOK
<1>2. PICK q \in Seq(Conn \cup {"init"}) : q = toWorker[t][s] /\ q # <<>>
  BY <1>1 DEF GetConnect
<1>3. PICK h \in Conn : h = Head(q) /\ h = q[1] /\ 1 \in 1 .. Len(q)
  BY <1>2 DEF GetConnect
<1>4. /\ toWorker[t][s] # <<>> /\ toWorker' = [toWorker EXCEPT ![t][s] = Tail(@)]
      /\ arrivals' = [arrivals EXCEPT ![h] = Append(@, s)] /\ UNCHANGED <<toWindow, to>>
  BY <1>2, <1>3 DEF GetConnect
<1>5. ASSUME NEW c \in Conn, c # h PROVE PlaceOK(c)'
  <2>1. arrivals'[c] = arrivals[c]
    BY <1>1, <1>4, <1>5
  <2>2. ASSUME NEW p, IsAt(c, p)'
        PROVE  \/ IsAt(c, p) /\ ~(p[1] = "worker" /\ p[2] = s /\ p[3] = t)
               \/ p[1] = "worker" /\ p[2] = s /\ p[3] = t /\ IsAt(c, <<"worker", s, t, p[4] + 1>>)
    <3>1. CASE Sent(toWorker', c, p)
      <4>1. \/ Sent(toWorker, c, p) /\ ~(p[1] = "worker" /\ p[2] = s /\ p[3] = t)
            \/ /\ p[1] = "worker" /\ p[2] = s /\ p[3] = t
               /\ p[4] \in Nat \ {0} /\ Sent(toWorker, c, <<"worker", s, t, p[4] + 1>>)
        BY <1>4, <3>1, TakenPlaces
      <4> QED
        BY <4>1 DEF IsAt
    <3>2. CASE Asked(toWindow', c, p)
      <4>1. Asked(toWindow, c, p) /\ p[1] = "window"
        BY <1>4, <3>2 DEF Asked
      <4> QED
        BY <4>1 DEF IsAt
    <3>3. CASE Came(arrivals', c, p)
      <4>1. Came(arrivals, c, p) /\ p[1] = "arrived"
        BY <2>1, <3>3 DEF Came
      <4> QED
        BY <4>1 DEF IsAt
    <3> QED
      BY <2>2, <3>1, <3>2, <3>3 DEF IsAt
  <2>3. to'[c] = to[c]
    BY <1>4
  <2> QED
    BY <2>2, <2>3, PlaceKept
<1>6. PlaceOK(h)'
  <2>1. IsAt(h, <<"worker", s, t, 1>>)
    BY <1>2, <1>3 DEF IsAt, Sent
  <2>2. \A p : IsAt(h, p) => p = <<"worker", s, t, 1>>
    BY <2>1 DEF OnePlace, PlaceOK
  <2>3. to[h] = s /\ s # None
    <3>1. <<"worker", s, t, 1>>[1] # "window" => <<"worker", s, t, 1>>[2] = to[h]
      BY <2>1 DEF OnePlace, PlaceOK
    <3> QED
      BY <3>1, NoneAssumption
  <2>4. arrivals[h] = <<>>
    <3>1. arrivals[h] \in Seq(Service)
      BY <1>1
    <3>2. ASSUME NEW i \in 1 .. Len(arrivals[h]) PROVE FALSE
      <4>1. IsAt(h, <<"arrived", arrivals[h][i], None, i>>)
        BY DEF IsAt, Came
      <4>2. <<"arrived", arrivals[h][i], None, i>> = <<"worker", s, t, 1>>
        BY <2>2, <4>1
      <4> QED
        BY <4>2
    <3> QED
      BY <3>1, <3>2
  <2>5. arrivals'[h] = <<s>>
    BY <1>1, <1>4, <2>4
  <2>6. ASSUME NEW p, IsAt(h, p)' PROVE p = <<"arrived", s, None, 1>>
    <3>1. ~Asked(toWindow', h, p)
      <4>1. Asked(toWindow', h, p) => p[1] = "window" /\ p = <<"worker", s, t, 1>>
        BY <1>4, <2>2 DEF IsAt, Asked
      <4> QED
        BY <4>1
    <3>2. ~Sent(toWorker', h, p)
      <4>1. ASSUME Sent(toWorker, h, p), ~(p[1] = "worker" /\ p[2] = s /\ p[3] = t) PROVE FALSE
        BY <2>2, <4>1 DEF IsAt
      <4>2. ASSUME p[4] \in Nat \ {0}, Sent(toWorker, h, <<"worker", s, t, p[4] + 1>>) PROVE FALSE
        <5>1. <<"worker", s, t, p[4] + 1>> = <<"worker", s, t, 1>>
          BY <2>2, <4>2 DEF IsAt
        <5>2. p[4] + 1 = 1
          BY <5>1
        <5> QED
          BY <4>2, <5>2
      <4> QED
        BY <1>4, <4>1, <4>2, TakenPlaces
    <3>3. Came(arrivals', h, p)
      BY <2>6, <3>1, <3>2 DEF IsAt
    <3> QED
      BY <2>5, <3>3 DEF Came
  <2> QED
    BY <1>4, <2>3, <2>6, PlaceNew
<1> QED
  BY <1>5, <1>6 DEF OnePlace

LEMMA AskWindowPlaces ==
  ASSUME TypeOK, OnePlace, NEW s \in Service, NEW r \in Service, NEW c0 \in Conn,
         AskWindow(s, r, c0)
  PROVE  OnePlace'
<1>1. /\ to[c0] = None /\ to' = [to EXCEPT ![c0] = r] /\ UNCHANGED <<toWorker, arrivals>>
      /\ to \in [Conn -> Service \cup {None}] /\ toWindow \in [Service -> [Tab -> Seq(Conn)]]
      /\ windows \in [Service -> Seq(Tab)]
  BY DEF AskWindow, TypeOK
<1>2. PICK u, n : \A c \in Conn : \A p :
        Asked(toWindow', c, p) => Asked(toWindow, c, p) \/ (c = c0 /\ p = <<"window", s, u, n>>)
  <2>1. CASE toWindow' = toWindow
    BY <2>1
  <2>2. CASE windows[s] # <<>> /\ toWindow' = [toWindow EXCEPT ![s][AnyWindow(s)] = Append(@, c0)]
    <3>1. PICK t \in Tab : t = AnyWindow(s)
      BY <1>1, <2>2 DEF AnyWindow
    <3>2. PICK q \in Seq(Conn) : q = toWindow[s][t]
      BY <1>1
    <3>3. /\ toWindow'[s][t] = Append(q, c0)
          /\ \A v \in Service, w \in Tab : v # s \/ w # t => toWindow'[v][w] = toWindow[v][w]
      BY <1>1, <2>2, <3>1, <3>2
    <3>4. PICK m : \A i \in 1 .. Len(Append(q, c0)) :
            (i \in 1 .. Len(q) /\ Append(q, c0)[i] = q[i]) \/ (i = m /\ Append(q, c0)[i] = c0)
      <4>1. PICK x : x = Append(q, c0)
        OBVIOUS
      <4>2. Len(x) = Len(q) + 1 /\ x[Len(q) + 1] = c0 /\ \A i \in 1 .. Len(q) : x[i] = q[i]
        BY <3>2, <4>1
      <4>3. \A i \in 1 .. Len(x) : i \in 1 .. Len(q) \/ i = Len(q) + 1
        BY <3>2, <4>2
      <4> QED
        BY <4>1, <4>2, <4>3
    <3>5. ASSUME NEW c \in Conn, NEW p, Asked(toWindow', c, p)
          PROVE  Asked(toWindow, c, p) \/ (c = c0 /\ p = <<"window", s, t, m>>)
      <4>1. PICK v \in Service, w \in Tab : \E i \in 1 .. Len(toWindow'[v][w]) :
              toWindow'[v][w][i] = c /\ p = <<"window", v, w, i>>
        BY <3>5 DEF Asked
      <4>2. PICK i \in 1 .. Len(toWindow'[v][w]) : toWindow'[v][w][i] = c /\ p = <<"window", v, w, i>>
        BY <4>1
      <4>3. CASE v = s /\ w = t
        <5>1. (i \in 1 .. Len(q) /\ q[i] = c) \/ (i = m /\ c = c0)
          BY <3>3, <3>4, <4>2, <4>3
        <5> QED
          BY <3>2, <4>2, <4>3, <5>1 DEF Asked
      <4>4. CASE v # s \/ w # t
        BY <3>3, <4>2, <4>4 DEF Asked
      <4> QED
        BY <4>3, <4>4
    <3> QED
      BY <3>5
  <2> QED
    BY <2>1, <2>2 DEF AskWindow
<1>3. ASSUME NEW c \in Conn, NEW p, IsAt(c, p)'
      PROVE  IsAt(c, p) \/ (c = c0 /\ p = <<"window", s, u, n>>)
  BY <1>1, <1>2, <1>3 DEF IsAt, Sent, Came
<1>4. \A p : ~IsAt(c0, p)
  BY <1>1 DEF OnePlace, PlaceOK
<1>5. ASSUME NEW c \in Conn, c # c0 PROVE PlaceOK(c)'
  BY <1>1, <1>3, <1>5, PlaceSame
<1>6. PlaceOK(c0)'
  <2>1. to'[c0] = r /\ r # None
    BY <1>1, NoneAssumption
  <2>2. \A p : IsAt(c0, p)' => p = <<"window", s, u, n>>
    BY <1>3, <1>4
  <2> QED
    BY <2>1, <2>2, PlaceNew
<1> QED
  BY <1>5, <1>6 DEF OnePlace

LEMMA TabPlaces ==
  ASSUME TypeOK, OnePlace, NEW t \in Tab, FinishLoad(t) \/ CloseTab(t) PROVE OnePlace'
<1>1. /\ toWindow \in [Service -> [Tab -> Seq(Conn)]]
      /\ toWorker \in [Tab -> [Service -> Seq(Conn \cup {"init"})]]
  BY DEF TypeOK
<1>2. ASSUME FinishLoad(t), NEW s \in Service, NEW u \in Tab
      PROVE  /\ toWindow'[s][u] = toWindow[s][u]
             /\ \/ toWorker'[u][s] = toWorker[u][s]
                \/ toWorker'[u][s] = <<>> \/ toWorker'[u][s] = <<"init">>
  <2>1. /\ toWindow' = toWindow
        /\ toWorker' = [toWorker EXCEPT ![t] =
                          [r \in Service |-> IF r \in Daemon THEN <<"init">> ELSE <<>>]]
    BY <1>2 DEF FinishLoad
  <2> QED
    BY <1>1, <2>1
<1>3. ASSUME CloseTab(t), NEW s \in Service, NEW u \in Tab
      PROVE  /\ toWindow'[s][u] = toWindow[s][u] \/ toWindow'[s][u] = <<>>
             /\ toWorker'[u][s] = toWorker[u][s] \/ toWorker'[u][s] = <<>>
  <2>1. toWindow' = [r \in Service |-> [toWindow[r] EXCEPT ![t] = <<>>]]
    BY <1>3 DEF CloseTab
  <2>2. toWorker'[u][s] = toWorker[u][s] \/ toWorker'[u][s] = <<>>
    BY <1>3 DEF CloseTab
  <2> QED
    BY <1>1, <2>1, <2>2
<1>4. UNCHANGED <<arrivals, to>>
  BY DEF FinishLoad, CloseTab
<1> QED
  BY <1>2, <1>3, <1>4, LostPlaces

LEMMA StepPlaces == IInv /\ OnePlace /\ [Next]_vars => OnePlace'
<1> SUFFICES ASSUME IInv, OnePlace, [Next]_vars PROVE OnePlace'
  OBVIOUS
<1>1. TypeOK /\ WindowsOK
  BY DEF IInv
<1>2. ASSUME NEW t \in Tab, FinishLoad(t) \/ CloseTab(t) PROVE OnePlace'
  BY <1>1, <1>2, TabPlaces
<1>3. ASSUME NEW t \in Tab, NEW s \in Service, NEW c \in Conn, PageConnect(t, s, c)
      PROVE  OnePlace'
  BY <1>1, <1>3, PageConnectPlaces
<1>4. ASSUME NEW t \in Tab, NEW s \in Service, WindowMessage(t, s) PROVE OnePlace'
  BY <1>1, <1>4, WindowMessagePlaces
<1>5. ASSUME NEW t \in Tab, NEW s \in Service, GetInit(s, t) \/ GetConnect(s, t) PROVE OnePlace'
  BY <1>1, <1>5, GetInitPlaces, GetConnectPlaces
<1>6. ASSUME NEW s \in Service, NEW r \in Service, NEW c \in Conn, AskWindow(s, r, c)
      PROVE  OnePlace'
  BY <1>1, <1>6, AskWindowPlaces
<1>7. ASSUME \/ \E t \in Tab : OpenTab(t)
             \/ \E s \in Service, t \in Tab : OnConnect(s, t)
             \/ \E s \in Service, d \in Dependency : Loaded(s, d)
             \/ \E s \in Service, n \in 1 .. PoolSize : ReadRandom(s, n)
             \/ UNCHANGED vars
      PROVE  OnePlace'
  <2>1. UNCHANGED <<toWindow, toWorker, arrivals, to>>
    BY <1>7 DEF OpenTab, OnConnect, Loaded, ReadRandom, vars
  <2> QED
    BY <2>1, NothingMoves
<1> QED
  BY <1>2, <1>3, <1>4, <1>5, <1>6, <1>7 DEF Next

LEMMA InitPlaces == Init => OnePlace
<1> SUFFICES ASSUME Init, NEW c \in Conn, NEW p PROVE ~IsAt(c, p)
  BY DEF OnePlace, PlaceOK
<1>1. /\ \A s \in Service, t \in Tab : toWindow[s][t] = <<>> /\ toWorker[t][s] = <<>>
      /\ arrivals[c] = <<>>
  BY DEF Init
<1> QED
  BY <1>1 DEF IsAt, Asked, Sent, Came

LEMMA PlacesFacts == ASSUME NEW c, NEW p PROVE p \in Places(c) <=> IsAt(c, p)
<1> DEFINE Here(s, t) == QueuedAt("window", toWindow[s][t], s, t, c)
                           \cup QueuedAt("worker", toWorker[t][s], s, t, c)
           Gone == {<<"arrived", arrivals[c][i], None, i>> : i \in 1 .. Len(arrivals[c])}
<1>1. Places(c) = (UNION {Here(s, t) : s \in Service, t \in Tab}) \cup Gone
  BY DEF Places
<1>2. p \in Gone <=> Came(arrivals, c, p)
  BY DEF Came
<1>3. ASSUME NEW s, NEW t
      PROVE  p \in Here(s, t) <=>
               \/ \E i \in 1 .. Len(toWindow[s][t]) :
                    toWindow[s][t][i] = c /\ p = <<"window", s, t, i>>
               \/ \E i \in 1 .. Len(toWorker[t][s]) :
                    toWorker[t][s][i] = c /\ p = <<"worker", s, t, i>>
  BY DEF QueuedAt
<1>4. (\E s \in Service, t \in Tab : p \in Here(s, t)) <=>
        Asked(toWindow, c, p) \/ Sent(toWorker, c, p)
  <2> HIDE DEF Here
  <2> QED
    BY <1>3 DEF Asked, Sent
<1>5. p \in UNION {Here(s, t) : s \in Service, t \in Tab} <=>
        \E s \in Service, t \in Tab : p \in Here(s, t)
  <2> HIDE DEF Here
  <2> QED
    OBVIOUS
<1> HIDE DEF Here, Gone
<1> QED
  BY <1>1, <1>2, <1>4, <1>5 DEF IsAt

\* However tabs close and workers die and come again, a connection that was
\* asked for is in one place: on its way to a tab or to the worker it was asked
\* for, or in that worker (pre.js client_connect and get_message, service.cljs).
THEOREM ConnectionIsOnce == Spec => []ConnectionOnce
<1>1. Init => OnePlace
  BY InitPlaces
<1>2. IInv /\ OnePlace /\ [Next]_vars => OnePlace'
  BY StepPlaces
<1>3. OnePlace => ConnectionOnce
  <2> SUFFICES ASSUME OnePlace, NEW c \in Conn, NEW p \in Places(c)
               PROVE  Places(c) = {p} /\ (p[1] \in {"worker", "arrived"} => p[2] = to[c])
    BY DEF ConnectionOnce
  <2>1. IsAt(c, p) /\ PlaceOK(c)
    BY PlacesFacts DEF OnePlace
  <2>2. \A q \in Places(c) : q = p
    BY <2>1, PlacesFacts DEF PlaceOK
  <2> QED
    BY <2>1, <2>2 DEF PlaceOK
<1> QED
  BY <1>1, <1>2, <1>3, Invariant, PTL DEF Spec

=============================================================================
