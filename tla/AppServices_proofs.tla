------------------------- MODULE AppServices_proofs -------------------------
(* The slots of the HTTP client, the addresses of the stream proxy and the *)
(* log on the card, each for every number of requests, slots, redirects,   *)
(* callers and servers and whatever fails; and that each keeps what it     *)
(* promises when all of them are in use at once.                           *)
EXTENDS AppServices, Settings_proofs, SequenceTheorems, FiniteSetTheorems, TLAPS

-----------------------------------------------------------------------------
(***************************************************************************)
(* The HTTP client.                                                        *)
(***************************************************************************)

RunningPhases == {"resolve", "connect", "secure", "read"}
Running == {r \in Requests : phase[r] \notin {"none", "queued"}}
Queued  == {r \in Requests : phase[r] = "queued"}

PhaseType == phase \in [Requests -> {"none", "queued"} \cup RunningPhases]

\* The queue holds those that wait for a slot, each once.
QueueInv ==
  /\ queue \in Seq(Requests)
  /\ Queued = {queue[i] : i \in DOMAIN queue}
  /\ \A i, j \in DOMAIN queue : queue[i] = queue[j] => i = j

\* A slot is taken for each request that runs, and nobody waits while one is free.
SlotInv ==
  /\ IsFiniteSet(Running) /\ active \in Nat
  /\ active = Cardinality(Running) /\ active <= MaxConcurrent
  /\ queue # <<>> => active = MaxConcurrent

\* Only a request that is connected has a socket, so that its end can close it.
SocketInv == tcp \subseteq {r \in Requests : phase[r] \in {"secure", "read"}}

HttpInv == PhaseType /\ QueueInv /\ SlotInv /\ SocketInv

-----------------------------------------------------------------------------
(* No request has been made at the start.                                  *)
LEMMA HttpInitInv == HttpReset => HttpInv
<1> SUFFICES ASSUME HttpReset PROVE HttpInv
  OBVIOUS
<1>1. PhaseType /\ SocketInv
  BY DEF HttpReset, PhaseType, SocketInv
<1>2. Running = {} /\ Queued = {}
  BY DEF HttpReset, Running, Queued
<1>3. QueueInv
  <2>1. queue = <<>> /\ queue \in Seq(Requests) /\ DOMAIN queue = {}
    BY EmptySeq DEF HttpReset
  <2> QED BY <1>2, <2>1 DEF QueueInv
<1>4. SlotInv
  BY <1>2, FS_EmptySet, HorizonHttpAssumption DEF HttpReset, SlotInv
<1> QED BY <1>1, <1>3, <1>4 DEF HttpInv

(* A request that goes on to its next await changes neither the slots nor  *)
(* the queue.                                                              *)
LEMMA GoesOn ==
  ASSUME PhaseType, QueueInv, SlotInv, NEW r \in Running, NEW step \in RunningPhases,
         Awaits(r, step), UNCHANGED <<active, queue>>
  PROVE  PhaseType' /\ QueueInv' /\ SlotInv'
<1>1. r \in Requests /\ phase' = [phase EXCEPT ![r] = step]
  BY DEF Running, Awaits
<1>2. PhaseType'
  BY <1>1 DEF PhaseType
<1>3. Running' = Running /\ Queued' = Queued
  BY <1>1 DEF PhaseType, Running, Queued, RunningPhases
<1> QED BY <1>2, <1>3 DEF QueueInv, SlotInv

(* A request that asks takes a slot or joins the end of the queue.         *)
LEMMA AcquireStep ==
  ASSUME PhaseType, QueueInv, SlotInv, NEW r \in Requests, Acquire(r)
  PROVE  PhaseType' /\ QueueInv' /\ SlotInv'
<1>1. phase[r] = "none" /\ r \notin Running /\ r \notin Queued
  BY DEF Acquire, Running, Queued
<1>2. CASE active < MaxConcurrent
  <2>1. /\ phase' = [phase EXCEPT ![r] = "resolve"]
        /\ active' = active + 1 /\ queue' = queue
    BY <1>2 DEF Acquire, Awaits
  <2>2. PhaseType' /\ Running' = Running \cup {r} /\ Queued' = Queued
    BY <1>1, <2>1 DEF PhaseType, Running, Queued, RunningPhases
  <2>3. IsFiniteSet(Running') /\ Cardinality(Running') = Cardinality(Running) + 1
    BY <1>1, <2>2, FS_AddElement DEF SlotInv
  <2>4. queue = <<>>
    BY <1>2, HorizonHttpAssumption DEF SlotInv
  <2> QED BY <1>2, <2>1, <2>2, <2>3, <2>4, HorizonHttpAssumption DEF QueueInv, SlotInv
<1>3. CASE ~(active < MaxConcurrent)
  <2>1. /\ phase' = [phase EXCEPT ![r] = "queued"]
        /\ active' = active /\ queue' = Append(queue, r)
    BY <1>3 DEF Acquire, Awaits
  <2>2. PhaseType' /\ Running' = Running /\ Queued' = Queued \cup {r}
    BY <1>1, <2>1 DEF PhaseType, Running, Queued, RunningPhases
  <2>3. SlotInv'
    BY <1>3, <2>1, <2>2, HorizonHttpAssumption DEF SlotInv
  <2>4. /\ queue' \in Seq(Requests) /\ Len(queue') = Len(queue) + 1
        /\ \A i \in 1 .. Len(queue) : queue'[i] = queue[i]
        /\ queue'[Len(queue) + 1] = r
    BY <2>1, AppendProperties DEF QueueInv
  <2>5. /\ DOMAIN queue = 1 .. Len(queue) /\ DOMAIN queue' = 1 .. Len(queue) + 1
        /\ Len(queue) \in Nat
    BY <2>4, LenProperties DEF QueueInv
  <2>6. \A i \in DOMAIN queue : queue[i] # r
    BY <1>1 DEF QueueInv
  <2>7. QueueInv'
    <3>1. Queued' = {queue'[i] : i \in DOMAIN queue'}
      BY <2>2, <2>4, <2>5 DEF QueueInv
    <3>2. \A i, j \in DOMAIN queue' : queue'[i] = queue'[j] => i = j
      BY <2>4, <2>5, <2>6 DEF QueueInv
    <3> QED BY <2>4, <3>1, <3>2 DEF QueueInv
  <2> QED BY <2>2, <2>3, <2>7
<1> QED BY <1>2, <1>3

(* A request that ends hands its slot to the first that waits, or gives it *)
(* back; nobody else's await changes but that one's.                       *)
LEMMA ReleaseStep ==
  ASSUME PhaseType, QueueInv, SlotInv, NEW r \in Running, Release(r)
  PROVE  /\ PhaseType' /\ QueueInv' /\ SlotInv'
         /\ \A q \in Running \ {r} : phase'[q] = phase[q]
<1>1. r \in Requests /\ phase[r] \in RunningPhases /\ r \notin Queued
  BY DEF Running, Queued, PhaseType
<1>2. CASE queue # <<>>
  <2> DEFINE h == Head(queue)
  <2>1. /\ h \in Requests /\ Tail(queue) \in Seq(Requests)
        /\ Len(Tail(queue)) = Len(queue) - 1
        /\ \A i \in 1 .. Len(queue) - 1 : Tail(queue)[i] = queue[i + 1]
        /\ h = queue[1]
    BY <1>2, HeadTailProperties DEF QueueInv
  <2>2. /\ DOMAIN queue = 1 .. Len(queue) /\ Len(queue) \in Nat /\ Len(queue) >= 1
        /\ DOMAIN Tail(queue) = 1 .. Len(queue) - 1
    BY <1>2, <2>1, LenProperties, EmptySeq DEF QueueInv
  <2>3. h \in Queued /\ h # r /\ phase[h] = "queued"
    BY <1>1, <2>1, <2>2 DEF QueueInv, Queued
  <2>4. /\ phase' = [phase EXCEPT ![r] = "none", ![h] = "resolve"]
        /\ queue' = Tail(queue) /\ active' = active
    BY <1>2 DEF Release
  <2> HIDE DEF h
  <2>5. /\ PhaseType' /\ Queued' = Queued \ {h}
        /\ Running' = (Running \ {r}) \cup {h} /\ h \notin Running
        /\ \A q \in Running \ {r} : phase'[q] = phase[q]
    BY <1>1, <2>1, <2>3, <2>4 DEF PhaseType, Queued, Running, RunningPhases
  <2>6. IsFiniteSet(Running') /\ Cardinality(Running') = Cardinality(Running)
    <3>1. /\ IsFiniteSet(Running \ {r})
          /\ Cardinality(Running \ {r}) = Cardinality(Running) - 1
      BY FS_RemoveElement DEF SlotInv
    <3>2. /\ IsFiniteSet((Running \ {r}) \cup {h})
          /\ Cardinality((Running \ {r}) \cup {h}) = Cardinality(Running \ {r}) + 1
      BY <2>5, <3>1, FS_AddElement
    <3> QED BY <2>5, <3>1, <3>2 DEF SlotInv
  <2>7. SlotInv'
    BY <1>2, <2>4, <2>6 DEF SlotInv
  <2>8. QueueInv'
    <3>1. Queued' = {queue'[i] : i \in DOMAIN queue'}
      <4>1. \A i \in 1 .. Len(queue) - 1 : queue[i + 1] \in Queued \ {h}
        BY <2>1, <2>2 DEF QueueInv
      <4>2. \A q \in Queued \ {h} : \E i \in 1 .. Len(queue) - 1 : queue[i + 1] = q
        <5> TAKE q \in Queued \ {h}
        <5>1. PICK k \in 1 .. Len(queue) : queue[k] = q
          BY <2>2 DEF QueueInv
        <5>2. k # 1
          BY <2>1, <5>1
        <5>3. k - 1 \in 1 .. Len(queue) - 1 /\ (k - 1) + 1 = k
          BY <2>2, <5>2
        <5> QED BY <5>1, <5>3
      <4>3. /\ DOMAIN queue' = 1 .. Len(queue) - 1
            /\ \A i \in 1 .. Len(queue) - 1 : queue'[i] = queue[i + 1]
        BY <2>1, <2>2, <2>4
      <4>4. \A i \in DOMAIN queue' : queue'[i] \in Queued'
        BY <2>5, <4>1, <4>3
      <4>5. \A q \in Queued' : \E i \in DOMAIN queue' : queue'[i] = q
        BY <2>5, <4>2, <4>3
      <4> QED BY <4>4, <4>5
    <3>2. \A i, j \in DOMAIN queue' : queue'[i] = queue'[j] => i = j
      BY <2>1, <2>2, <2>4 DEF QueueInv
    <3> QED BY <2>1, <2>4, <3>1, <3>2 DEF QueueInv
  <2> QED BY <2>5, <2>7, <2>8
<1>3. CASE queue = <<>>
  <2>1. /\ phase' = [phase EXCEPT ![r] = "none"]
        /\ active' = active - 1 /\ queue' = queue
    BY <1>3 DEF Release, Awaits
  <2>2. /\ PhaseType' /\ Queued' = Queued /\ Running' = Running \ {r}
        /\ \A q \in Running \ {r} : phase'[q] = phase[q]
    BY <1>1, <2>1 DEF PhaseType, Queued, Running, RunningPhases
  <2>3. IsFiniteSet(Running') /\ Cardinality(Running') = Cardinality(Running) - 1
    BY <2>2, FS_RemoveElement DEF SlotInv
  <2>4. active' \in Nat
    BY <2>1, <2>2, <2>3, FS_CardinalityType DEF SlotInv
  <2>5. SlotInv'
    BY <1>3, <2>1, <2>3, <2>4, HorizonHttpAssumption DEF SlotInv
  <2> QED BY <2>1, <2>2, <2>5 DEF QueueInv
<1> QED BY <1>2, <1>3

(* Whoever has a socket when another request ends keeps it and its await.  *)
LEMMA OthersConnected ==
  ASSUME SocketInv, NEW r \in Running, tcp' \subseteq tcp \ {r},
         \A q \in Running \ {r} : phase'[q] = phase[q]
  PROVE  SocketInv'
BY DEF SocketInv, Running

(* A request that goes on, waits, is handed a slot or fails at one of its  *)
(* awaits keeps the slots exact.                                           *)
LEMMA HttpStepInv == HttpInv /\ [HttpNext]_httpVars => HttpInv'
<1> SUFFICES ASSUME HttpInv, [HttpNext]_httpVars PROVE HttpInv'
  OBVIOUS
<1> USE DEF HttpInv
<1>1. ASSUME NEW r \in Requests, Acquire(r) PROVE HttpInv'
  <2>1. SocketInv'
    BY <1>1 DEF Acquire, Awaits, SocketInv, PhaseType
  <2> QED BY <1>1, <2>1, AcquireStep
<1>2. ASSUME NEW r \in Requests, Resolve(r) PROVE HttpInv'
  <2>1. SocketInv' /\ r \in Running
    BY <1>2 DEF Resolve, Awaits, SocketInv, PhaseType, Running
  <2> QED BY <1>2, <2>1, GoesOn DEF Resolve, RunningPhases
<1>3. ASSUME NEW r \in Requests, Connect(r) PROVE HttpInv'
  <2>1. r \in Running /\ r \notin tcp
    BY <1>3 DEF Connect, SocketInv, Running
  <2>2. CASE Awaits(r, "secure") /\ tcp' = tcp \cup {r} /\ UNCHANGED <<active, queue, hops>>
    <3>1. SocketInv'
      BY <2>2 DEF Awaits, SocketInv, PhaseType
    <3> QED BY <2>1, <2>2, <3>1, GoesOn DEF RunningPhases
  <2>3. CASE Over(r) /\ UNCHANGED tcp
    BY <2>1, <2>3, ReleaseStep, OthersConnected DEF Over
  <2> QED BY <1>3, <2>2, <2>3 DEF Connect
<1>4. ASSUME NEW r \in Requests, Secure(r) PROVE HttpInv'
  <2>1. SocketInv' /\ r \in Running
    BY <1>4 DEF Secure, Awaits, SocketInv, PhaseType, Running
  <2> QED BY <1>4, <2>1, GoesOn DEF Secure, RunningPhases
<1>5. ASSUME NEW r \in Requests, Throws(r) PROVE HttpInv'
  <2>1. r \in Running
    BY <1>5 DEF Throws, Running
  <2> QED BY <1>5, <2>1, ReleaseStep, OthersConnected DEF Throws, Over
<1>6. ASSUME NEW r \in Requests, ReadAnswer(r) PROVE HttpInv'
  <2>1. r \in Running /\ tcp' = tcp \ {r}
    BY <1>6 DEF ReadAnswer, Running
  <2>2. CASE Over(r)
    BY <2>1, <2>2, ReleaseStep, OthersConnected DEF Over
  <2>3. CASE Awaits(r, "resolve") /\ UNCHANGED <<active, queue>>
    <3>1. SocketInv'
      BY <2>1, <2>3 DEF Awaits, SocketInv, PhaseType
    <3> QED BY <2>1, <2>3, <3>1, GoesOn DEF RunningPhases
  <2> QED BY <1>6, <2>2, <2>3 DEF ReadAnswer
<1>7. CASE Collect \/ UNCHANGED httpVars
  <2>1. UNCHANGED <<active, queue, phase, tcp>>
    BY <1>7 DEF Collect, httpVars
  <2>2. Running' = Running /\ Queued' = Queued
    BY <2>1 DEF Running, Queued
  <2> QED BY <2>1, <2>2 DEF PhaseType, QueueInv, SlotInv, SocketInv
<1> QED BY <1>1, <1>2, <1>3, <1>4, <1>5, <1>6, <1>7 DEF HttpNext

(* The invariant says what SlotsExact says.                                *)
LEMMA InvIsExact == HttpInv => SlotsExact
BY DEF HttpInv, PhaseType, QueueInv, SlotInv, SocketInv, SlotsExact, Running, Queued

(* However requests end, throw or are redirected: one slot for each that   *)
(* runs, never more than there are, and none free while somebody waits.    *)
THEOREM SlotsAreExact == HttpSpec => []SlotsExact
<1>1. HttpReset => HttpInv
  BY HttpInitInv
<1>2. HttpInv /\ [HttpNext]_httpVars => HttpInv'
  BY HttpStepInv
<1>3. HttpInv => SlotsExact
  BY InvIsExact
<1> QED BY <1>1, <1>2, <1>3, PTL DEF HttpSpec

-----------------------------------------------------------------------------
(***************************************************************************)
(* The stream proxy.                                                       *)
(***************************************************************************)
Route == [url : Urls, headers : Headers]

ProxyType ==
  /\ listening \subseteq Nat /\ routes \in Seq(Route)
  /\ DOMAIN local \subseteq Urls
  /\ wraps \in [Callers -> {NoWrap} \cup
       [at : {"bind", "register"}, url : Urls, headers : Headers]]

\* The newest server listens, and whoever goes on to register has found one.
ServerInv ==
  /\ server # NotStarted => server \in listening
  /\ \A c \in Callers : wraps[c].at = "register" => server # NotStarted

\* An address leads to a server and to the route of its url.
RouteInv ==
  \A url \in DOMAIN local :
    /\ local[url].port \in listening
    /\ local[url].token \in DOMAIN routes
    /\ routes[local[url].token].url = url

HandedInv ==
  \A one \in handed : one.url \in DOMAIN local /\ one.address = local[one.url]

ProxyInv == ProxyType /\ ServerInv /\ RouteInv /\ HandedInv

(* No caller, no server and no address at the start.                       *)
LEMMA ProxyInitInv == ProxyReset => ProxyInv
<1> SUFFICES ASSUME ProxyReset PROVE ProxyInv
  OBVIOUS
<1>1. ProxyType
  BY EmptySeq DEF ProxyReset, ProxyType
<1>2. ServerInv
  BY DEF ProxyReset, ServerInv, NoWrap
<1>3. RouteInv /\ HandedInv
  BY DEF ProxyReset, RouteInv, HandedInv
<1> QED BY <1>1, <1>2, <1>3 DEF ProxyInv

(* Two callers that have both found no server may each start one; the      *)
(* addresses of the first are not touched by the second.                   *)
LEMMA WrapStep ==
  ASSUME ProxyInv, NEW c \in Callers, NEW url \in Urls, NEW headers \in Headers,
         Wrap(c, url, headers)
  PROVE  ProxyInv'
<1>1. PICK w \in [at : {"bind", "register"}, url : Urls, headers : Headers] :
        /\ wraps' = [wraps EXCEPT ![c] = w]
        /\ w.at = "register" => server # NotStarted
  <2>1. [at |-> IF server = NotStarted THEN "bind" ELSE "register",
         url |-> url, headers |-> headers]
          \in [at : {"bind", "register"}, url : Urls, headers : Headers]
    OBVIOUS
  <2> QED BY <2>1 DEF Wrap
<1>2. UNCHANGED <<server, listening, routes, local, handed>>
  BY DEF Wrap
<1>3. ProxyType'
  BY <1>1, <1>2 DEF ProxyInv, ProxyType
<1>4. ServerInv'
  BY <1>1, <1>2 DEF ProxyInv, ProxyType, ServerInv
<1>5. RouteInv' /\ HandedInv'
  BY <1>2 DEF ProxyInv, RouteInv, HandedInv
<1> QED BY <1>3, <1>4, <1>5 DEF ProxyInv

(* A caller whose server is up, or could not be, while others start        *)
(* theirs.                                                                 *)
LEMMA BindStep ==
  ASSUME ProxyInv, NEW c \in Callers, Bind(c) \/ BindFails(c)
  PROVE  ProxyInv'
<1>1. /\ wraps[c] \in [at : {"bind", "register"}, url : Urls, headers : Headers]
      /\ UNCHANGED <<routes, local, handed>>
  BY DEF Bind, BindFails, ProxyInv, ProxyType, NoWrap
<1>2. CASE Bind(c)
  <2>1. PICK port \in 1 .. MaxServers :
          server' = port /\ listening' = listening \cup {port}
    BY <1>2 DEF Bind
  <2>2. PICK w \in [at : {"bind", "register"}, url : Urls, headers : Headers] :
          wraps' = [wraps EXCEPT ![c] = w]
    BY <1>1, <1>2 DEF Bind
  <2>3. ProxyType'
    BY <1>1, <2>1, <2>2 DEF ProxyInv, ProxyType
  <2>4. ServerInv'
    BY <2>1 DEF ServerInv, NotStarted
  <2>5. RouteInv' /\ HandedInv'
    BY <1>1, <2>1 DEF ProxyInv, RouteInv, HandedInv
  <2> QED BY <2>3, <2>4, <2>5 DEF ProxyInv
<1>3. CASE BindFails(c)
  <2>1. wraps' = [wraps EXCEPT ![c] = NoWrap] /\ UNCHANGED <<server, listening>>
    BY <1>3 DEF BindFails
  <2>2. ProxyType' /\ ServerInv'
    BY <1>1, <2>1 DEF ProxyInv, ProxyType, ServerInv, NoWrap
  <2>3. RouteInv' /\ HandedInv'
    BY <1>1, <2>1 DEF ProxyInv, RouteInv, HandedInv
  <2> QED BY <2>2, <2>3 DEF ProxyInv
<1> QED BY <1>2, <1>3

(* An address is given for the first time, or the one that there is.       *)
LEMMA RegisterStep ==
  ASSUME ProxyInv, NEW c \in Callers, Register(c)
  PROVE  ProxyInv'
<1>1. PICK url \in Urls, headers \in Headers :
        wraps[c].at = "register" /\ url = wraps[c].url /\ headers = wraps[c].headers
  BY DEF Register, ProxyInv, ProxyType, NoWrap
<1>2. /\ wraps' = [wraps EXCEPT ![c] = NoWrap] /\ UNCHANGED <<server, listening>>
      /\ server \in listening
  BY <1>1 DEF Register, ProxyInv, ServerInv
<1>3. ServerInv' /\ wraps' \in [Callers -> {NoWrap} \cup
        [at : {"bind", "register"}, url : Urls, headers : Headers]]
  BY <1>2 DEF ProxyInv, ProxyType, ServerInv, NoWrap
<1>4. CASE Known(url)
  <2>1. /\ handed' = handed \cup {[url |-> url, address |-> local[url]]}
        /\ UNCHANGED <<routes, local>>
    BY <1>1, <1>4 DEF Register
  <2>2. ProxyType' /\ RouteInv'
    BY <1>2, <1>3, <2>1 DEF ProxyInv, ProxyType, RouteInv
  <2>3. HandedInv'
    BY <1>4, <2>1 DEF ProxyInv, HandedInv, Known
  <2> QED BY <1>3, <2>2, <2>3 DEF ProxyInv
<1>5. CASE ~Known(url)
  <2>1. PICK new : new = [port |-> server, token |-> Len(routes) + 1]
    OBVIOUS
  <2>2. PICK route \in Route : route = [url |-> url, headers |-> headers]
    BY DEF Route
  <2>3. /\ routes' = Append(routes, route)
        /\ local' = [u \in DOMAIN local \cup {url} |-> IF u = url THEN new ELSE local[u]]
        /\ handed' = handed \cup {[url |-> url, address |-> new]}
    BY <1>1, <1>5, <2>1, <2>2 DEF Register
  <2>4. /\ routes' \in Seq(Route) /\ Len(routes) + 1 \in DOMAIN routes'
        /\ routes'[Len(routes) + 1] = route /\ route.url = url
        /\ \A t \in DOMAIN routes : t \in DOMAIN routes' /\ routes'[t] = routes[t]
    <3>1. /\ routes' \in Seq(Route) /\ Len(routes') = Len(routes) + 1
          /\ \A i \in 1 .. Len(routes) : routes'[i] = routes[i]
          /\ routes'[Len(routes) + 1] = route
      BY <2>3, AppendProperties DEF ProxyInv, ProxyType
    <3>2. /\ DOMAIN routes = 1 .. Len(routes) /\ DOMAIN routes' = 1 .. Len(routes) + 1
          /\ Len(routes) \in Nat
      BY <3>1, LenProperties DEF ProxyInv, ProxyType
    <3> QED BY <2>2, <3>1, <3>2
  <2>5. /\ DOMAIN local' = DOMAIN local \cup {url} /\ local'[url] = new
        /\ url \notin DOMAIN local
        /\ \A u \in DOMAIN local : local'[u] = local[u]
    BY <1>5, <2>3 DEF Known
  <2>6. ProxyType'
    BY <1>2, <1>3, <2>4, <2>5 DEF ProxyInv, ProxyType
  <2>7. RouteInv'
    BY <1>2, <2>1, <2>4, <2>5 DEF ProxyInv, RouteInv
  <2>8. HandedInv'
    BY <2>3, <2>5 DEF ProxyInv, HandedInv
  <2> QED BY <1>3, <2>6, <2>7, <2>8 DEF ProxyInv
<1> QED BY <1>4, <1>5

(* Every await of wrap and of a served playlist leaves the addresses good. *)
LEMMA ProxyStepInv == ProxyInv /\ [ProxyNext]_proxyVars => ProxyInv'
<1> SUFFICES ASSUME ProxyInv, [ProxyNext]_proxyVars PROVE ProxyInv'
  OBVIOUS
<1>1. ASSUME NEW c \in Callers, HandlePlaylist(c) PROVE ProxyInv'
  <2>1. PICK token \in DOMAIN routes, url \in Urls : Wrap(c, url, routes[token].headers)
    BY <1>1 DEF HandlePlaylist
  <2>2. routes[token].headers \in Headers
    <3>1. routes[token] \in Route
      BY LenProperties, ElementOfSeq DEF ProxyInv, ProxyType
    <3> QED BY <3>1 DEF Route
  <2> QED BY <2>1, <2>2, WrapStep
<1>2. CASE UNCHANGED proxyVars
  BY <1>2 DEF proxyVars, ProxyInv, ProxyType, ServerInv, RouteInv, HandedInv
<1> QED BY <1>1, <1>2, WrapStep, BindStep, RegisterStep DEF ProxyNext

(* However many callers start however many servers at once: the address of *)
(* a url, once given to mpv, stays the url's only one, a server listens    *)
(* there, and fetches what it was given for.                               *)
THEOREM AddressesStayGood == ProxySpec => []AddressesGood
<1>1. ProxyReset => ProxyInv
  BY ProxyInitInv
<1>2. ProxyInv /\ [ProxyNext]_proxyVars => ProxyInv'
  BY ProxyStepInv
<1>3. ProxyInv => AddressesGood
  BY DEF ProxyInv, RouteInv, HandedInv, AddressesGood
<1> QED BY <1>1, <1>2, <1>3, PTL DEF ProxySpec

-----------------------------------------------------------------------------
(***************************************************************************)
(* The log on the card.                                                    *)
(***************************************************************************)
LogType ==
  /\ logPc \in {"sockets", "remove", "rename", "open", "on", "ended"}
  /\ flushed \in [now : BOOLEAN, previous : BOOLEAN] /\ refused \in BOOLEAN

\* The report of the run before is in the file until the rename, aside after it; or
\* the card has refused to put it aside, and it is in the file until that is opened.
EvidenceInv ==
  /\ logPc \in {"sockets", "remove", "rename"} /\ flushed.previous =>
       logFile = [by |-> "previous", lines |-> TRUE]
  /\ logPc = "rename" => altFile = NoLog \/ refused
  /\ logPc \in {"open", "on", "ended"} /\ flushed.previous =>
       \/ altFile = [by |-> "previous", lines |-> TRUE]
       \/ refused /\ (logPc = "open" => logFile = [by |-> "previous", lines |-> TRUE])
  /\ flushed.now =>
       logPc \in {"on", "ended"} /\ logFile = [by |-> "now", lines |-> TRUE]

LogInv == LogType /\ EvidenceInv

(* Every call of LogInit, every line, a crash and the start after it.      *)
LEMMA LogStepInv == LogInv /\ [LogNext \/ Restart]_logVars => LogInv'
<1> SUFFICES ASSUME LogInv, [LogNext \/ Restart]_logVars PROVE LogInv'
  OBVIOUS
<1> USE DEF LogInv, LogType, EvidenceInv
<1>1. CASE EnsureSocket
  BY <1>1 DEF EnsureSocket
<1>2. CASE RemoveAlt
  BY <1>2 DEF RemoveAlt
<1>3. CASE RenameLog
  BY <1>3 DEF RenameLog
<1>4. CASE OpenLog
  BY <1>4 DEF OpenLog
<1>5. CASE LogWrite
  <2>1. /\ logPc = "on" /\ logPc' = logPc /\ altFile' = altFile /\ refused' = refused
        /\ \/ /\ logFile' = [by |-> "now", lines |-> TRUE]
              /\ flushed' = [flushed EXCEPT !.now = TRUE]
           \/ logFile' = logFile /\ flushed' = flushed
    BY <1>5 DEF LogWrite
  <2> QED BY <2>1
<1>6. CASE LogShutdown
  BY <1>6 DEF LogShutdown
<1>7. CASE Restart
  <2>1. /\ logPc' = "sockets" /\ logFile' = Aged(logFile)
        /\ flushed' = [now |-> FALSE, previous |-> flushed.now] /\ refused' = FALSE
    BY <1>7 DEF Restart
  <2>2. Aged([by |-> "now", lines |-> TRUE]) = [by |-> "previous", lines |-> TRUE]
    <3>1. PICK report : report = [by |-> "now", lines |-> TRUE]
      OBVIOUS
    <3>2. Aged(report) = [report EXCEPT !.by = "previous"]
      BY <3>1 DEF Aged
    <3> QED BY <3>1, <3>2
  <2> QED BY <2>1, <2>2
<1>8. CASE UNCHANGED logVars
  BY <1>8 DEF logVars
<1> QED BY <1>1, <1>2, <1>3, <1>4, <1>5, <1>6, <1>7, <1>8 DEF LogNext

(* Wherever this run and the one before crashed, in the middle of LogInit  *)
(* too: what they have flushed can be read, unless the card has refused to *)
(* put the older report aside.                                             *)
THEOREM EvidenceIsKept == LogSpec => []EvidenceKept
<1>1. LogReset => LogInv
  <2> SUFFICES ASSUME LogReset PROVE LogInv
    OBVIOUS
  <2>1. /\ logPc = "sockets" /\ refused = FALSE
        /\ flushed = [now |-> FALSE, previous |-> FALSE]
    BY DEF LogReset
  <2> QED BY <2>1 DEF LogInv, LogType, EvidenceInv
<1>2. LogInv /\ [LogNext \/ Restart]_logVars => LogInv'
  BY LogStepInv
<1>3. LogInv => EvidenceKept
  BY DEF LogInv, LogType, EvidenceInv, EvidenceKept
<1> QED BY <1>1, <1>2, <1>3, PTL DEF LogSpec

-----------------------------------------------------------------------------
(* A start finds neither requests nor addresses, as the first one did.     *)
LEMMA RestartInv ==
  /\ HttpRestart => HttpInv'
  /\ ProxyRestart => ProxyInv'
<1>1. (HttpReset => HttpInv)' /\ (ProxyReset => ProxyInv)'
  BY HttpInitInv, ProxyInitInv, PTL
<1>2. (HttpRestart => HttpReset') /\ (ProxyRestart => ProxyReset')
  BY DEF HttpRestart, HttpReset, ProxyRestart, ProxyReset
<1> QED BY <1>1, <1>2

(* With the settings, the log, the client and the proxy in use at once,    *)
(* in any order, and a loss of power that meets all of them and is         *)
(* followed by any number of further runs: each keeps what it promises.    *)
THEOREM ServicesAreComposed ==
  AppSpec => /\ []EvidenceKept /\ []SlotsExact /\ []AddressesGood
             /\ "close" \notin Faults => [](NeverTorn /\ WorstCase /\ AnsweredIsStored)
<1>1. AppInit => Init /\ LogReset /\ HttpInv /\ ProxyInv
  BY HttpInitInv, ProxyInitInv DEF AppInit
<1>2. [AppNext]_appVars => [Next]_vars
  BY DEF AppNext, appVars, CardNext, Network, StartAgain, Next
<1>3. [AppNext]_appVars => [LogNext \/ Restart]_logVars
  BY DEF AppNext, appVars, CardNext, Network, StartAgain
<1>4. HttpInv /\ [AppNext]_appVars => HttpInv'
  <2>1. [AppNext]_appVars => [HttpNext]_httpVars \/ HttpRestart
    BY DEF AppNext, appVars, CardNext, Network, StartAgain
  <2> QED BY <2>1, HttpStepInv, RestartInv
<1>5. ProxyInv /\ [AppNext]_appVars => ProxyInv'
  <2>1. [AppNext]_appVars => [ProxyNext]_proxyVars \/ ProxyRestart
    BY DEF AppNext, appVars, CardNext, Network, StartAgain
  <2> QED BY <2>1, ProxyStepInv, RestartInv
<1>6. HttpInv => SlotsExact
  BY InvIsExact
<1>7. ProxyInv => AddressesGood
  BY DEF ProxyInv, RouteInv, HandedInv, AddressesGood
<1>8. AppSpec => []SlotsExact /\ []AddressesGood
  BY <1>1, <1>4, <1>5, <1>6, <1>7, PTL DEF AppSpec
<1>9. AppSpec => Spec /\ LogSpec
  BY <1>1, <1>2, <1>3, PTL DEF AppSpec, Spec, LogSpec
<1>10. CASE "close" \notin Faults
  <2>1. Spec => [](NeverTorn /\ WorstCase /\ AnsweredIsStored)
    BY <1>10, SettingsSafe
  <2> QED BY <1>8, <1>9, <2>1, EvidenceIsKept, PTL
<1>11. CASE ~("close" \notin Faults)
  BY <1>8, <1>9, <1>11, EvidenceIsKept, PTL
<1> QED BY <1>10, <1>11
=============================================================================
