-------------------------- MODULE LocalStreamProxy --------------------------
(***************************************************************************)
(* The stream proxy of dart_helpers/local_stream_proxy.dart.  mpv has no   *)
(* TLS; it is given an address on this machine instead, where a server     *)
(* fetches the stream.  A playlist is rewritten on the way, so that each   *)
(* of its addresses is wrapped like the first.  Callers run in one isolate *)
(* and give it up while the server is started.                             *)
(***************************************************************************)
EXTENDS Naturals, Sequences

CONSTANTS
  Urls,        (* https addresses *)
  Headers,     (* the headers of a request, with its credentials *)
  Callers,     (* calls of wrap and of _handle *)
  MaxServers   (* bound: servers started *)

NotStarted == 0
NoWrap == [at |-> "none"]

VARIABLES
  server,      (* _server: the port of the newest *)
  listening,   (* ports of servers that were bound *)
  routes,      (* _routes, by token; its length is _nextToken *)
  local,       (* _urlToLocal: url |-> the address mpv is given for it *)
  wraps,       (* caller |-> its wrap *)
  handed       (* history: the addresses that wrap has returned *)

proxyVars == <<server, listening, routes, local, wraps, handed>>

ProxyReset ==
  /\ server = NotStarted /\ listening = {}
  /\ routes = <<>> /\ local = <<>> /\ handed = {}
  /\ wraps = [c \in Callers |-> NoWrap]

\* The program has ended; its servers are closed and its addresses forgotten.
ProxyRestart ==
  /\ server' = NotStarted /\ listening' = {}
  /\ routes' = <<>> /\ local' = <<>> /\ handed' = {}
  /\ wraps' = [c \in Callers |-> NoWrap]

\* wrap, up to the await of _ensureServer
Wrap(c, url, headers) ==
  /\ wraps[c] = NoWrap
  /\ wraps' = [wraps EXCEPT ![c] =
       [at |-> IF server = NotStarted THEN "bind" ELSE "register",
        url |-> url, headers |-> headers]]
  /\ UNCHANGED <<server, listening, routes, local, handed>>

\* _handle, with the playlist of a route it knows: each https address in it is wrapped.
HandlePlaylist(c) ==
  \E token \in DOMAIN routes, url \in Urls : Wrap(c, url, routes[token].headers)

\* HttpServer.bind.  Nobody has looked whether another caller has started one.
Bind(c) ==
  /\ wraps[c].at = "bind"
  /\ \E port \in (1 .. MaxServers) \ listening :
       /\ \A lower \in 1 .. port - 1 : lower \in listening
       /\ server' = port /\ listening' = listening \cup {port}
  /\ wraps' = [wraps EXCEPT ![c].at = "register"]
  /\ UNCHANGED <<routes, local, handed>>

BindFails(c) ==
  /\ wraps[c].at = "bind"
  /\ wraps' = [wraps EXCEPT ![c] = NoWrap]
  /\ UNCHANGED <<server, listening, routes, local, handed>>

\* Fault: only the addresses of the newest server are known.
KnownHere(url) == url \in DOMAIN local /\ local[url].port = server

Known(url) == url \in DOMAIN local

\* The rest of wrap, without an await: the address that there is, or a new one.
Register(c) ==
  /\ wraps[c].at = "register"
  /\ LET url == wraps[c].url
         new == [port |-> server, token |-> Len(routes) + 1]
     IN  IF Known(url)
         THEN /\ handed' = handed \cup {[url |-> url, address |-> local[url]]}
              /\ UNCHANGED <<routes, local>>
         ELSE /\ routes' = Append(routes, [url |-> url, headers |-> wraps[c].headers])
              /\ local' = [u \in DOMAIN local \cup {url} |-> IF u = url THEN new ELSE local[u]]
              /\ handed' = handed \cup {[url |-> url, address |-> new]}
  /\ wraps' = [wraps EXCEPT ![c] = NoWrap]
  /\ UNCHANGED <<server, listening>>

ProxyNext ==
  \E c \in Callers :
    \/ \E url \in Urls, headers \in Headers : Wrap(c, url, headers)
    \/ HandlePlaylist(c)
    \/ Bind(c) \/ BindFails(c) \/ Register(c)

ProxySpec == ProxyReset /\ [][ProxyNext]_proxyVars

-----------------------------------------------------------------------------
(* Whoever asks, and however many servers were started at once: an address *)
(* that mpv was once given stays good - a server listens there and fetches *)
(* what it was given for - and one url has one address                     *)
(* (local_stream_proxy.dart:58-61).                                        *)
AddressesGood ==
  /\ \A one \in handed :
       /\ one.address.port \in listening
       /\ routes[one.address.token].url = one.url
  /\ \A one, other \in handed : one.url = other.url => one.address = other.address
=============================================================================
