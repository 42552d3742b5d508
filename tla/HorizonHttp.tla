---------------------------- MODULE HorizonHttp ----------------------------
(***************************************************************************)
(* The HTTP client of dart_helpers/horizon_http.dart: requests of one      *)
(* isolate, each of which opens a socket of its own, gives up the isolate  *)
(* at every await, follows redirects and may throw at every step.  As the  *)
(* console has few sockets, only so many run at once; the others wait in a *)
(* queue, and a slot is handed on without being counted down in between.   *)
(***************************************************************************)
EXTENDS Naturals, Sequences, FiniteSets

CONSTANTS
  Requests,
  MaxConcurrent,   (* _maxConcurrent *)
  MaxRedirects,
  MaxLost          (* bound: sockets lost at a time *)

ASSUME HorizonHttpAssumption ==
  MaxConcurrent \in Nat \ {0} /\ MaxRedirects \in Nat /\ MaxLost \in Nat

VARIABLES
  active,    (* _active *)
  queue,     (* _queue: the requests that wait for its Completers *)
  phase,     (* request |-> the await it is at *)
  hops,      (* request |-> redirects followed *)
  tcp,       (* requests whose socket is open *)
  lost       (* sockets left open that no request has any more *)

httpVars == <<active, queue, phase, hops, tcp, lost>>

HttpReset ==
  /\ active = 0 /\ queue = <<>>
  /\ phase = [r \in Requests |-> "none"] /\ hops = [r \in Requests |-> 0]
  /\ tcp = {} /\ lost = 0

\* The program has ended; what it had open, the system has closed.
HttpRestart ==
  /\ active' = 0 /\ queue' = <<>>
  /\ phase' = [r \in Requests |-> "none"] /\ hops' = [r \in Requests |-> 0]
  /\ tcp' = {} /\ lost' = 0

Awaits(r, step) == phase' = [phase EXCEPT ![r] = step]

\* _fetch up to _acquire's await
Acquire(r) ==
  /\ phase[r] = "none"
  /\ IF active < MaxConcurrent
     THEN active' = active + 1 /\ Awaits(r, "resolve") /\ UNCHANGED queue
     ELSE queue' = Append(queue, r) /\ Awaits(r, "queued") /\ UNCHANGED active
  /\ UNCHANGED <<hops, tcp, lost>>

\* Fault: the slot that is handed on is counted down as well.
ReleaseTwice(r) ==
  IF queue # <<>>
  THEN /\ phase' = [phase EXCEPT ![r] = "none", ![Head(queue)] = "resolve"]
       /\ queue' = Tail(queue) /\ active' = active - 1
  ELSE active' = active - 1 /\ Awaits(r, "none") /\ UNCHANGED queue

\* The finally of _fetch: the first of the queue takes the slot over.
Release(r) ==
  IF queue # <<>>
  THEN /\ phase' = [phase EXCEPT ![r] = "none", ![Head(queue)] = "resolve"]
       /\ queue' = Tail(queue)
       /\ UNCHANGED active
  ELSE active' = active - 1 /\ Awaits(r, "none") /\ UNCHANGED queue

\* The end of _fetchInner, by its result or by what it throws.
Over(r) == Release(r) /\ hops' = [hops EXCEPT ![r] = 0]

\* resolve: what it throws it catches itself.
Resolve(r) ==
  /\ phase[r] = "resolve"
  /\ Awaits(r, "connect")
  /\ UNCHANGED <<active, queue, hops, tcp, lost>>

\* Socket.connect, with its limit of 12 s
Connect(r) ==
  /\ phase[r] = "connect"
  /\ \/ Awaits(r, "secure") /\ tcp' = tcp \cup {r} /\ UNCHANGED <<active, queue, hops>>
     \/ Over(r) /\ UNCHANGED tcp
  /\ UNCHANGED lost

\* SecureSocket.secure and the request; there is no limit to either.
Secure(r) ==
  /\ phase[r] = "secure"
  /\ Awaits(r, "read")
  /\ UNCHANGED <<active, queue, hops, tcp, lost>>

\* An error of the handshake, of flush or of the stream, a status line that is none:
\* nothing destroys the socket, which is closed by its other end or stays open.
Throws(r) ==
  /\ phase[r] \in {"secure", "read"}
  /\ Over(r)
  /\ tcp' = tcp \ {r}
  /\ lost' \in {lost} \cup (IF lost < MaxLost THEN {lost + 1} ELSE {})

\* The answer is read, or 20 s went without data: the socket is destroyed, and the
\* request ends or goes on where it is redirected to.
ReadAnswer(r) ==
  /\ phase[r] = "read"
  /\ tcp' = tcp \ {r}
  /\ \/ Over(r)
     \/ /\ hops[r] < MaxRedirects
        /\ hops' = [hops EXCEPT ![r] = @ + 1]
        /\ Awaits(r, "resolve")
        /\ UNCHANGED <<active, queue>>
  /\ UNCHANGED lost

\* The finalizer of a socket that nothing refers to any more
Collect ==
  /\ lost > 0 /\ lost' = lost - 1
  /\ UNCHANGED <<active, queue, phase, hops, tcp>>

HttpNext ==
  \/ \E r \in Requests :
       Acquire(r) \/ Resolve(r) \/ Connect(r) \/ Secure(r) \/ Throws(r) \/ ReadAnswer(r)
  \/ Collect

HttpSpec == HttpReset /\ [][HttpNext]_httpVars

-----------------------------------------------------------------------------
(* However requests end, throw or are redirected, as many run as there are *)
(* slots taken and never more than there are, each with at most one        *)
(* socket; and nobody waits while a slot is free, so that no waiter is     *)
(* forgotten (horizon_http.dart:32-55).                                    *)
SlotsExact ==
  LET running == {r \in Requests : phase[r] \notin {"none", "queued"}}
  IN  /\ active = Cardinality(running) /\ active <= MaxConcurrent
      /\ tcp \subseteq running
      /\ queue # <<>> => active = MaxConcurrent
      /\ {r \in Requests : phase[r] = "queued"} = {queue[i] : i \in DOMAIN queue}
      /\ \A i, j \in DOMAIN queue : queue[i] = queue[j] => i = j
=============================================================================
