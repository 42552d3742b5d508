---------------------------- MODULE EventHandler ----------------------------
(***************************************************************************)
(* dart:io's event handler on Horizon: one thread that waits in poll()     *)
(* for sockets, timers and messages of the Dart threads                    *)
(* (patches/flutter-engine/files/dart/bin/eventhandler_horizon.cc, .h).    *)
(*                                                                         *)
(* The messages reach it over a TCP pair on 127.0.0.1 it polls like any    *)
(* socket, or, where no such pair can be made, over a queue under a mutex  *)
(* which it looks at after every poll, at the latest after 20 ms.  poll    *)
(* is level-triggered: only the tokens of a descriptor, taken by each      *)
(* event and returned by Dart, keep a ready socket from being reported     *)
(* for ever.                                                               *)
(*                                                                         *)
(* A native Socket stands for its Dart port too, and lives once; the       *)
(* number of a file descriptor is given out again after its close.  A      *)
(* DescriptorInfo is named after the socket whose message made it.         *)
(***************************************************************************)
EXTENDS Integers, Sequences, FiniteSets

CONSTANTS
  Sockets,     (* native Socket objects                                     *)
  Fds,         (* numbers the system gives to descriptors                   *)
  Timers,      (* ports that ask for timeouts                               *)
  None,
  Interests,   (* events a port may ask for, among "in" and "out"           *)
  Conditions,  (* what poll may report of a descriptor: those, "err",       *)
               (* "hup" and, of an invalid one, "nval"                      *)
  Tokens,      (* kTokenCount of the descriptor infos                       *)
  MaxQueue,    (* bound: messages not read yet                              *)
  MaxBatch,    (* messages one read takes (24 in the code)                  *)
  MaxInbox     (* bound: poll returns only while no port is further behind  *)

ASSUME EventHandlerAssumption ==
  /\ None \notin Sockets /\ None \notin Fds /\ None \notin Timers
  /\ Interests \subseteq {"in", "out"} /\ "in" \in Interests
  /\ Interests \subseteq Conditions
  /\ Conditions \subseteq {"in", "out", "err", "hup", "nval"}
  /\ Tokens \in Nat \ {0} /\ MaxBatch \in Nat \ {0}
  /\ MaxQueue \in Nat /\ MaxInbox \in Nat

VARIABLES
  loopback,    (* has_interrupt_fds()                                       *)
  kind,        (* socket |-> none yet, single, or listening                 *)
  sfd,         (* socket |-> Socket::fd_, None before it is opened and after*)
               (* CloseFd                                                   *)
  open,        (* descriptors open in the system                            *)
  ready,       (* descriptor |-> the conditions poll would report           *)
  info,        (* socket_map_: descriptor |-> its DescriptorInfo            *)
  ports,       (* descriptor |-> the ports its DescriptorInfo knows         *)
  mask,        (* socket |-> the events its port asks for                   *)
  tokens,      (* socket |-> its tokens                                     *)
  waiting,     (* TimeoutQueue: the timers that are not due                 *)
  due,         (* ... and those that are, in that order                     *)
  channel,     (* messages written and not read                             *)
  batch,       (* messages read and not processed                           *)
  shutdown,    (* shutdown_                                                 *)
  pc, infos, result, seen,
               (* where the loop stands; the polled descriptors that had an *)
               (* event; poll's result; interrupt_seen                      *)
  inbox,       (* socket |-> events posted and not yet handled by Dart      *)
  asked,       (* sockets whose close was sent by Dart                      *)
  finalized,   (* sockets whose finalizer sent a close too                  *)
  destroyed    (* socket |-> kDestroyedEvents posted                        *)

osVars == <<sfd, open, info>>
portVars == <<ports, mask, tokens, inbox>>
timerVars == <<waiting, due>>
loopVars == <<pc, infos, result, seen>>
dartVars == <<asked, finalized>>

vars == <<loopback, kind, osVars, ready, portVars, timerVars, channel, batch,
          shutdown, loopVars, dartVars, destroyed>>

Commands == {"mask", "token", "close", "shutdownRead", "shutdownWrite"}

Message(c, w, a) == [cmd |-> c, who |-> w, arg |-> a]

\* The constructor: the loopback pair is made or not.
Init ==
  /\ loopback \in BOOLEAN
  /\ kind = [s \in Sockets |-> "none"] /\ sfd = [s \in Sockets |-> None]
  /\ open = {} /\ ready = [f \in Fds |-> {}] /\ info = [f \in Fds |-> None]
  /\ ports = [f \in Fds |-> {}]
  /\ mask = [s \in Sockets |-> {}] /\ tokens = [s \in Sockets |-> Tokens]
  /\ waiting = {} /\ due = <<>>
  /\ channel = <<>> /\ batch = <<>> /\ shutdown = FALSE
  /\ pc = "poll" /\ infos = {} /\ result = "timeout" /\ seen = FALSE
  /\ inbox = [s \in Sockets |-> 0] /\ asked = {} /\ finalized = {}
  /\ destroyed = [s \in Sockets |-> 0]

-----------------------------------------------------------------------------
(***************************************************************************)
(* The Dart threads and the network (dart:io and the system, external).    *)
(***************************************************************************)
Running == pc \notin {"gone", "undefined"}

\* A socket is opened, at a number that is free.
OpenSocket(s, f) ==
  /\ Running /\ kind[s] = "none" /\ f \notin open
  /\ kind' \in {[kind EXCEPT ![s] = k] : k \in {"single", "listening"}}
  /\ sfd' = [sfd EXCEPT ![s] = f]
  /\ open' = open \cup {f}
  /\ UNCHANGED <<loopback, ready, info, portVars, timerVars, channel, batch,
                 shutdown, loopVars, dartVars, destroyed>>

\* ServerSocket.bind with shared: another Socket for the same descriptor.
ShareListener(s, t) ==
  /\ Running /\ kind[s] = "none" /\ kind[t] = "listening" /\ sfd[t] # None
  /\ kind' = [kind EXCEPT ![s] = "listening"]
  /\ sfd' = [sfd EXCEPT ![s] = sfd[t]]
  /\ UNCHANGED <<loopback, open, ready, info, portVars, timerVars, channel,
                 batch, shutdown, loopVars, dartVars, destroyed>>

\* SendData and WakeupHandler, over the pair or into the queue.
SendData(message) ==
  /\ Running /\ Len(channel) < MaxQueue
  /\ channel' = Append(channel, message)

Unasked(s) == kind[s] # "none" /\ s \notin asked

SendMask(s) ==
  /\ Unasked(s)
  /\ \E a \in SUBSET Interests : SendData(Message("mask", s, a))
  /\ UNCHANGED <<loopback, kind, osVars, ready, portVars, timerVars, batch,
                 shutdown, loopVars, dartVars, destroyed>>

SendShutdown(s) ==
  /\ Unasked(s) /\ kind[s] = "single"
  /\ \E c \in {"shutdownRead", "shutdownWrite"} : SendData(Message(c, s, {}))
  /\ UNCHANGED <<loopback, kind, osVars, ready, portVars, timerVars, batch,
                 shutdown, loopVars, dartVars, destroyed>>

\* Dart has handled an event and returns its token.
SendToken(s) ==
  /\ inbox[s] > 0
  /\ inbox' = [inbox EXCEPT ![s] = @ - 1]
  /\ SendData(Message("token", s, {}))
  /\ UNCHANGED <<loopback, kind, osVars, ready, ports, mask, tokens, timerVars,
                 batch, shutdown, loopVars, dartVars, destroyed>>

\* The close of a socket; and that of a finalizer that saw its descriptor
\* before the first close was processed.
SendClose(s) ==
  /\ Unasked(s)
  /\ asked' = asked \cup {s}
  /\ SendData(Message("close", s, {}))
  /\ UNCHANGED <<loopback, kind, osVars, ready, portVars, timerVars, batch,
                 shutdown, loopVars, finalized, destroyed>>

Finalize(s) ==
  /\ s \in asked \ finalized /\ sfd[s] # None
  /\ finalized' = finalized \cup {s}
  /\ SendData(Message("close", s, {}))
  /\ UNCHANGED <<loopback, kind, osVars, ready, portVars, timerVars, batch,
                 shutdown, loopVars, asked, destroyed>>

SendTimer(t) ==
  /\ \E on \in BOOLEAN : SendData(Message("timer", t, on))
  /\ UNCHANGED <<loopback, kind, osVars, ready, portVars, timerVars, batch,
                 shutdown, loopVars, dartVars, destroyed>>

Shutdown ==
  /\ SendData(Message("shutdown", None, None))
  /\ UNCHANGED <<loopback, kind, osVars, ready, portVars, timerVars, batch,
                 shutdown, loopVars, dartVars, destroyed>>

\* Data, buffer space, an error, a hang-up; Dart reads and writes.
Arrive(f, c) ==
  /\ f \in open /\ c \notin ready[f]
  /\ ready' = [ready EXCEPT ![f] = @ \cup {c}]
  /\ UNCHANGED <<loopback, kind, osVars, portVars, timerVars, channel, batch,
                 shutdown, loopVars, dartVars, destroyed>>

Consume(f, c) ==
  /\ f \in open /\ c \in ready[f] \cap Interests
  /\ ready' = [ready EXCEPT ![f] = @ \ {c}]
  /\ UNCHANGED <<loopback, kind, osVars, portVars, timerVars, channel, batch,
                 shutdown, loopVars, dartVars, destroyed>>

Elapse(t) ==
  /\ t \in waiting
  /\ waiting' = waiting \ {t} /\ due' = Append(due, t)
  /\ UNCHANGED <<loopback, kind, osVars, ready, portVars, channel, batch,
                 shutdown, loopVars, dartVars, destroyed>>

-----------------------------------------------------------------------------
(***************************************************************************)
(* The loop.                                                               *)
(***************************************************************************)
\* Fault: a port is served whether it has tokens or not.
MaskWithoutTokens(f) == UNION {mask[s] : s \in ports[f]}

\* What the ports of a descriptor ask for, while they have tokens.
Mask(f) == UNION {mask[s] : s \in {p \in ports[f] : tokens[p] > 0}}

\* DescriptorInfo::GetPollEvents and the second pass over socket_map_: the
\* descriptors poll watches, with what it finds there now.
Polled == {f \in Fds : info[f] # None /\ Mask(f) # {}}

Found == {r \in {[di |-> info[f], fd |-> f,
                  rev |-> ready[f] \cap (Mask(f) \cup {"err", "hup", "nval"})]
                 : f \in Polled} : r.rev # {}}

\* The next round, without the locals of this one.
Again == /\ pc' = IF shutdown THEN "end" ELSE "poll"
         /\ infos' = {} /\ seen' = FALSE /\ result' = "timeout"

\* Fault: poll waits for timers only, whatever wakes the loop.
TimesOutOnTimers == due # <<>>

\* A timer is due, or the upper limit without the pair has passed.
TimesOut == due # <<>> \/ ~loopback

\* The descriptor of the pair is readable.
Woken == loopback /\ channel # <<>>

\* Fault: the messages come first, with the pair too.
MessagesFirstAlways == TRUE

\* The queue is looked at right after poll, the pair after the sockets.
MessagesFirst == ~loopback

PollReturns ==
  /\ pc = "poll" /\ \A s \in Sockets : inbox[s] < MaxInbox
  /\ infos' = Found
  /\ seen' = (Woken /\ ~MessagesFirst)
  /\ \/ (Found # {} \/ Woken) /\ result' = "events"
     \/ Found = {} /\ ~Woken /\ result' = "timeout" /\ TimesOut
  /\ pc' = IF MessagesFirst THEN "take" ELSE "timer"
  /\ UNCHANGED <<loopback, kind, osVars, ready, portVars, timerVars, channel,
                 batch, shutdown, dartVars, destroyed>>

PollFails ==
  /\ pc = "poll"
  /\ \/ loopback /\ Again
     \/ /\ ~loopback /\ pc' = "take" /\ result' = "failed"
        /\ UNCHANGED <<infos, seen>>
  /\ UNCHANGED <<loopback, kind, osVars, ready, portVars, timerVars, channel,
                 batch, shutdown, dartVars, destroyed>>

\* HandleInterruptQueue takes all messages under the mutex.
TakeQueue ==
  /\ pc = "take"
  /\ batch' = channel /\ channel' = <<>>
  /\ pc' = "process"
  /\ UNCHANGED <<loopback, kind, osVars, ready, portVars, timerVars, shutdown,
                 infos, result, seen, dartVars, destroyed>>

\* HandleInterruptFd reads what is there and fits into its buffer, whole
\* messages; or the read fails, and bytes / kInterruptMessageSize is zero.
ReadChannel ==
  /\ pc = "read"
  /\ \E n \in 1 .. Len(channel) :
       /\ n <= MaxBatch
       /\ batch' = SubSeq(channel, 1, n)
       /\ channel' = SubSeq(channel, n + 1, Len(channel))
  /\ pc' = "process"
  /\ UNCHANGED <<loopback, kind, osVars, ready, portVars, timerVars, shutdown,
                 infos, result, seen, dartVars, destroyed>>

ReadFails ==
  /\ pc = "read" /\ pc' = "process"
  /\ UNCHANGED <<loopback, kind, osVars, ready, portVars, timerVars, channel,
                 batch, shutdown, infos, result, seen, dartVars, destroyed>>

BatchOver == batch = <<>>

\* The end of a batch: messages of the pair end the round, those of the
\* queue come before the timers and events of a poll that did not fail.
BatchDone ==
  /\ pc = "process" /\ BatchOver
  /\ \/ (seen \/ result = "failed") /\ Again
     \/ /\ ~seen /\ result # "failed"
        /\ pc' = "timer" /\ UNCHANGED <<infos, seen, result>>
  /\ UNCHANGED <<loopback, kind, osVars, ready, portVars, timerVars, channel,
                 batch, shutdown, dartVars, destroyed>>

\* Fault: timers are looked at only when poll found nothing else.
ServesTimerOnTimeout == result = "timeout" /\ due # <<>>

ServesTimer == due # <<>>

\* Fault: a round serves a timer or the sockets, not both.
RoundOverAfterTimer == result = "timeout" \/ due # <<>>

RoundOver == result = "timeout"

\* One due timer per round, the one that became due first.
ServeTimer ==
  /\ pc = "timer"
  /\ due' = IF ServesTimer THEN Tail(due) ELSE due
  /\ \/ RoundOver /\ Again
     \/ ~RoundOver /\ pc' = "dispatch" /\ UNCHANGED <<infos, seen, result>>
  /\ UNCHANGED <<loopback, kind, osVars, ready, portVars, waiting, channel,
                 batch, shutdown, dartVars, destroyed>>

\* EventHandlerImplementation::GetPollEvents
EventMask(rev) ==
  IF "nval" \in rev THEN {"close"}
  ELSE IF "err" \in rev THEN (IF "in" \in rev THEN {"error"} ELSE {})
  ELSE (rev \cap Interests) \cup (IF "hup" \in rev THEN {"close"} ELSE {})

\* NextNotifyDartPort: the port of a single socket, one of those that wait
\* for a listening one.
NotifiedPorts(r) == IF kind[r.di] = "single" THEN ports[r.fd]
            ELSE {s \in ports[r.fd] : mask[s] # {} /\ tokens[s] > 0}

PostTo(receivers) ==
  /\ inbox' = [s \in Sockets |->
                 IF s \in receivers THEN inbox[s] + 1 ELSE inbox[s]]
  /\ tokens' = [s \in Sockets |->
                  IF s \in receivers THEN tokens[s] - 1 ELSE tokens[s]]

\* An error goes to every port, another event to one of them.
Deliver(r) ==
  \/ EventMask(r.rev) = {"error"} /\ PostTo(ports[r.fd])
  \/ /\ EventMask(r.rev) \notin {{}, {"error"}}
     /\ \E s \in NotifiedPorts(r) : PostTo({s})
  \/ /\ \/ EventMask(r.rev) = {}
        \/ EventMask(r.rev) # {"error"} /\ NotifiedPorts(r) = {}
     /\ UNCHANGED <<inbox, tokens>>

\* The events of one descriptor; its DescriptorInfo must still be there.
Dispatch ==
  /\ pc = "dispatch"
  /\ \E r \in infos :
       /\ infos' = infos \ {r}
       /\ \/ info[r.fd] = r.di /\ Deliver(r) /\ UNCHANGED pc
          \/ /\ info[r.fd] # r.di /\ pc' = "undefined"
             /\ UNCHANGED <<inbox, tokens>>
  /\ UNCHANGED <<loopback, kind, osVars, ready, ports, mask, timerVars,
                 channel, batch, shutdown, result, seen, dartVars, destroyed>>

\* After the last descriptor the messages are read, if poll saw any.
DispatchDone ==
  /\ pc = "dispatch" /\ infos = {}
  /\ \/ ~seen /\ Again
     \/ seen /\ pc' = "read" /\ UNCHANGED <<infos, seen, result>>
  /\ UNCHANGED <<loopback, kind, osVars, ready, portVars, timerVars, channel,
                 batch, shutdown, dartVars, destroyed>>

-----------------------------------------------------------------------------
(***************************************************************************)
(* ProcessInterruptMessage                                                 *)
(***************************************************************************)
NextMessage(cmds) ==
  /\ pc = "process" /\ batch # <<>> /\ Head(batch).cmd \in cmds
  /\ batch' = Tail(batch)

\* UpdateTimeout: the port's timeout is replaced or taken away.
ProcessTimer ==
  /\ NextMessage({"timer"})
  /\ LET t == Head(batch).who
         Other(p) == p # t
     IN  /\ due' = SelectSeq(due, Other)
         /\ waiting' = IF Head(batch).arg THEN waiting \cup {t}
                       ELSE waiting \ {t}
  /\ UNCHANGED <<loopback, kind, osVars, ready, portVars, channel, shutdown,
                 loopVars, dartVars, destroyed>>

ProcessShutdown ==
  /\ NextMessage({"shutdown"})
  /\ shutdown' = TRUE
  /\ UNCHANGED <<loopback, kind, osVars, ready, portVars, timerVars, channel,
                 loopVars, dartVars, destroyed>>

\* socket->fd() == -1: the socket was closed in the meantime.
ProcessIgnored ==
  /\ NextMessage(Commands) /\ sfd[Head(batch).who] = None
  /\ UNCHANGED <<loopback, kind, osVars, ready, portVars, timerVars, channel,
                 shutdown, loopVars, dartVars, destroyed>>

\* GetDescriptorInfo makes the DescriptorInfo of a descriptor without one.
GetDescriptorInfo(s) ==
  IF info[sfd[s]] = None THEN [info EXCEPT ![sfd[s]] = s] ELSE info

ProcessCommand ==
  /\ NextMessage(Commands \ {"close"})
  /\ LET m == Head(batch)
         s == m.who
     IN  /\ sfd[s] # None
         /\ info' = GetDescriptorInfo(s)
         /\ \/ /\ m.cmd = "mask"
               /\ mask' = [mask EXCEPT ![s] = m.arg]
               /\ ports' = [ports EXCEPT ![sfd[s]] = @ \cup {s}]
            \/ m.cmd # "mask" /\ UNCHANGED <<mask, ports>>
         /\ tokens' = IF m.cmd = "token" THEN [tokens EXCEPT ![s] = @ + 1]
                                         ELSE tokens
         /\ ready' = IF m.cmd = "shutdownRead"
                     THEN [ready EXCEPT ![sfd[s]] = @ \cup {"in"}] ELSE ready
  /\ UNCHANGED <<loopback, kind, sfd, open, inbox, timerVars, channel,
                 shutdown, loopVars, dartVars, destroyed>>

\* Fault: a listening socket closes the descriptor it shares.
CloseSafeAlways(s) == TRUE

\* ListeningSocketRegistry::CloseSafe: no other socket uses the descriptor.
CloseSafe(s) == \A t \in Sockets \ {s} : sfd[t] # sfd[s]

\* Fault: a port stays with the descriptor others go on using.
RemovePortNever(s) == UNCHANGED ports

RemovePort(s) == ports' = [ports EXCEPT ![sfd[s]] = @ \ {s}]

\* The entry leaves socket_map_, the DescriptorInfo is closed and deleted.
RemoveInfo(f) ==
  /\ info' = [info EXCEPT ![f] = None]
  /\ ports' = [ports EXCEPT ![f] = {}]
  /\ open' = open \ {f}
  /\ ready' = [ready EXCEPT ![f] = {}]

ProcessClose ==
  /\ NextMessage({"close"})
  /\ LET s == Head(batch).who
     IN  /\ sfd[s] # None
         /\ IF kind[s] = "single" \/ CloseSafe(s)
            THEN RemoveInfo(sfd[s])
            ELSE /\ RemovePort(s) /\ info' = GetDescriptorInfo(s)
                 /\ UNCHANGED <<open, ready>>
         /\ mask' = [mask EXCEPT ![s] = {}]
         /\ sfd' = [sfd EXCEPT ![s] = None]
         /\ destroyed' = [destroyed EXCEPT ![s] = @ + 1]
  /\ UNCHANGED <<loopback, kind, tokens, inbox, timerVars, channel, shutdown,
                 loopVars, dartVars>>

\* The loop has ended: the destructor closes the descriptors in socket_map_.
Destroy ==
  /\ pc = "end"
  /\ pc' = "gone"
  /\ open' = open \ {f \in Fds : info[f] # None}
  /\ info' = [f \in Fds |-> None] /\ ports' = [f \in Fds |-> {}]
  /\ UNCHANGED <<loopback, kind, sfd, ready, mask, tokens, inbox, timerVars,
                 channel, batch,
                 shutdown, infos, result, seen, dartVars, destroyed>>

-----------------------------------------------------------------------------
Dart ==
  \/ \E s \in Sockets :
       \/ SendMask(s) \/ SendShutdown(s) \/ SendToken(s) \/ SendClose(s)
       \/ Finalize(s) \/ \E t \in Sockets : ShareListener(s, t)
       \/ \E f \in Fds : OpenSocket(s, f)
  \/ \E t \in Timers : SendTimer(t)
  \/ Shutdown

System ==
  \/ \E f \in Fds, c \in Conditions : Arrive(f, c) \/ Consume(f, c)
  \/ \E t \in Timers : Elapse(t)

Handler ==
  \/ PollReturns \/ TakeQueue \/ ReadChannel \/ BatchDone \/ ServeTimer
  \/ Dispatch \/ DispatchDone \/ ProcessTimer \/ ProcessShutdown
  \/ ProcessIgnored \/ ProcessCommand \/ ProcessClose

Next == Dart \/ System \/ Handler \/ PollFails \/ ReadFails \/ Destroy

\* The thread keeps running: poll returns when it has something to report or
\* runs into its limit, and neither it nor the read of the pair fails for
\* ever.  Nothing is assumed of Dart, of the network and of the time.
Safety == Init /\ [][Next]_vars
Spec == Safety /\ WF_vars(Handler) /\ SF_vars(PollReturns) /\ SF_vars(ReadChannel)

-----------------------------------------------------------------------------
(***************************************************************************)
(* Safety.                                                                 *)
(***************************************************************************)

\* The descriptors poll reported are worked on before a message can delete
\* their DescriptorInfo ("Erst die Socket-Ereignisse, dann die
\* Weckmeldungen", eventhandler_horizon.cc:433-435).
EventsBeforeMessages == pc # "undefined"

LoopbackOrder == loopback => EventsBeforeMessages

\* A Socket's descriptor is open, an open descriptor has a Socket to close
\* it, and an entry of socket_map_ belongs to the descriptor's present
\* users: no number that is given out again meets the DescriptorInfo, the
\* mask or the kind of its last owner.
DescriptorsOwned ==
  pc # "gone" =>
    /\ {sfd[s] : s \in Sockets} \ {None} = open
    /\ \A f \in Fds : info[f] # None =>
         /\ f \in open
         /\ \A s \in Sockets : sfd[s] = f =>
              /\ kind[s] = kind[info[f]]
              /\ kind[s] = "single" => info[f] = s

Count(message, q) == Cardinality({i \in DOMAIN q : q[i] = message})

InFlight(s) == Count(Message("token", s, {}), channel)
                 + Count(Message("token", s, {}), batch)

\* Every event has taken a token, and every token comes back: however often
\* the level-triggered poll finds a socket ready, its port never has more
\* than kTokenCount events to handle.
TokensConserved ==
  \A s \in Sockets : sfd[s] # None =>
    /\ tokens[s] + inbox[s] + InFlight(s) = Tokens
    /\ kind[s] = "single" => inbox[s] <= Tokens

\* kDestroyedEvent is the last event of a port, and is posted once.
DestroyedIsLast ==
  [][\A s \in Sockets : destroyed[s] > 0 =>
       inbox'[s] <= inbox[s] /\ destroyed'[s] = destroyed[s]]_vars

(***************************************************************************)
(* Liveness.                                                               *)
(***************************************************************************)
Ended == pc \in {"end", "gone", "undefined"}

\* A close is answered, whether the message waits in the pair or in the
\* queue, and however busy the sockets are.
CloseAnswered ==
  \A s \in Sockets : s \in asked ~> (destroyed[s] > 0 \/ Ended)

\* A due timer is served although the loop serves one per round only and
\* other timers, replaced and due again, and busy sockets want the rounds too
\* (eventhandler_horizon.cc:421-427).
TimerServed ==
  \A t \in Timers : (\E i \in DOMAIN due : due[i] = t)
                     ~> (Ended \/ ~\E i \in DOMAIN due : due[i] = t)

Waits(s) == /\ sfd[s] # None /\ s \in ports[sfd[s]]
            /\ mask[s] # {} /\ tokens[s] > 0

Readable(s) == /\ kind[s] = "single" /\ Waits(s)
               /\ "in" \in mask[s] /\ "in" \in ready[sfd[s]]

\* Readable data of a socket that listens for it is not left alone.
ReadReported ==
  \A s \in Sockets : Readable(s) ~> (Ended \/ ~Readable(s))
=============================================================================
