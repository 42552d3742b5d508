------------------------ MODULE EventHandler_proofs ------------------------
(* The event handler, for every number of sockets, descriptors, messages   *)
(* and tokens, and every order in which Dart, the network and the loop     *)
(* take their steps: who owns a descriptor, what becomes of the tokens,    *)
(* which event is the last, and that over the loopback pair no event meets *)
(* a DescriptorInfo that is gone.                                          *)
EXTENDS EventHandler, SequenceTheorems, FiniteSetTheorems, FunctionTheorems, TLAPS

Messages ==
  [cmd : {"mask"}, who : Sockets, arg : SUBSET Interests]
    \cup [cmd : {"token", "close", "shutdownRead", "shutdownWrite"}, who : Sockets, arg : {{}}]
    \cup [cmd : {"timer"}, who : Timers, arg : BOOLEAN]
    \cup [cmd : {"shutdown"}, who : {None}, arg : {None}]

HandlerType ==
  /\ loopback \in BOOLEAN
  /\ kind \in [Sockets -> {"none", "single", "listening"}]
  /\ sfd \in [Sockets -> Fds \cup {None}]
  /\ open \subseteq Fds
  /\ info \in [Fds -> Sockets \cup {None}]
  /\ ports \in [Fds -> SUBSET Sockets]
  /\ tokens \in [Sockets -> Int]
  /\ inbox \in [Sockets -> Nat]
  /\ destroyed \in [Sockets -> Nat]
  /\ channel \in Seq(Messages) /\ batch \in Seq(Messages)

\* Only listening sockets share a descriptor.
DescriptorInv ==
  /\ \A s \in Sockets : sfd[s] # None => kind[s] # "none"
  /\ \A s, t \in Sockets :
       s # t /\ sfd[s] # None /\ sfd[s] = sfd[t] => kind[s] = "listening"
  /\ DescriptorsOwned

\* A DescriptorInfo knows the ports of the present users only.
PortsInv == \A f \in Fds : \A s \in ports[f] : sfd[s] = f

\* What poll has found is one entry per descriptor, and a socket alone on it
\* keeps its token until its entry is dispatched.
FoundInv ==
  /\ \A r \in infos :
       /\ r.di \in Sockets /\ r.fd \in Fds /\ kind[r.di] # "none"
       /\ kind[r.di] = "single" /\ sfd[r.di] = r.fd => tokens[r.di] > 0
  /\ \A q, r \in infos : q.fd = r.fd => q = r

\* With the pair, messages are read when the events are dispatched.
RoundInv ==
  /\ pc # "process" => batch = <<>>
  /\ loopback =>
       /\ pc \notin {"take", "undefined"}
       /\ pc \in {"timer", "dispatch"} => \A r \in infos : info[r.fd] = r.di
       /\ pc \in {"read", "process"} => infos = {} /\ seen

\* Whom messages and events speak of has been opened, and after its
\* kDestroyedEvent a socket has no descriptor.
KnownInv ==
  /\ \A s \in Sockets : inbox[s] > 0 => kind[s] # "none"
  /\ \A s \in Sockets : destroyed[s] > 0 => kind[s] # "none" /\ sfd[s] = None
  /\ \A i \in DOMAIN channel :
       channel[i].cmd \in Commands => kind[channel[i].who] # "none"
  /\ \A i \in DOMAIN batch :
       batch[i].cmd \in Commands => kind[batch[i].who] # "none"

\* Every token is with the socket, with Dart, or on its way back.
Kept(s) == tokens[s] + inbox[s] + InFlight(s) = Tokens

TokensInv ==
  \A s \in Sockets :
    /\ kind[s] # "listening" => tokens[s] >= 0
    /\ kind[s] = "none" \/ sfd[s] # None => Kept(s)

HandlerInv ==
  /\ HandlerType /\ DescriptorInv /\ PortsInv /\ FoundInv /\ RoundInv
  /\ KnownInv /\ TokensInv

-----------------------------------------------------------------------------
(* How often a message occurs in a sequence.                               *)
LEMMA CountType ==
  ASSUME NEW S, NEW q \in Seq(S), NEW m
  PROVE  /\ Count(m, q) \in Nat
         /\ IsFiniteSet({i \in DOMAIN q : q[i] = m})
<1>1. IsFiniteSet(DOMAIN q)
  <2>1. DOMAIN q = 1 .. Len(q) /\ Len(q) \in Nat
    BY LenProperties
  <2> QED BY <2>1, FS_Interval
<1>2. {i \in DOMAIN q : q[i] = m} \in SUBSET (DOMAIN q)
  OBVIOUS
<1>3. IsFiniteSet({i \in DOMAIN q : q[i] = m})
  BY <1>1, <1>2, FS_Subset
<1> QED BY <1>3, FS_CardinalityType DEF Count

(* Nothing occurs in the empty sequence.                                   *)
LEMMA CountEmpty == ASSUME NEW m PROVE Count(m, <<>>) = 0
<1>1. {i \in DOMAIN <<>> : <<>>[i] = m} = {}
  OBVIOUS
<1> QED BY <1>1, FS_EmptySet DEF Count

(* An appended message is counted once.                                    *)
LEMMA CountAppend ==
  ASSUME NEW S, NEW q \in Seq(S), NEW x \in S, NEW m
  PROVE  Count(m, Append(q, x)) = IF x = m THEN Count(m, q) + 1 ELSE Count(m, q)
<1> DEFINE n == Len(q) + 1
           old == {i \in DOMAIN q : q[i] = m}
           new == {i \in DOMAIN Append(q, x) : Append(q, x)[i] = m}
<1>1. /\ DOMAIN q = 1 .. Len(q) /\ Len(q) \in Nat
      /\ DOMAIN Append(q, x) = 1 .. n
      /\ Append(q, x)[n] = x
      /\ \A i \in 1 .. Len(q) : Append(q, x)[i] = q[i]
  BY AppendProperties, LenProperties
<1>2. new = IF x = m THEN old \cup {n} ELSE old
  BY <1>1
<1>3. n \notin old
  BY <1>1
<1>4. IsFiniteSet(old)
  BY CountType
<1>5. CASE x = m
  BY <1>2, <1>3, <1>4, <1>5, FS_AddElement DEF Count
<1>6. CASE x # m
  BY <1>2, <1>6 DEF Count
<1> QED BY <1>5, <1>6

(* A sequence cut in two.                                                  *)
LEMMA CountSplit ==
  ASSUME NEW S, NEW q \in Seq(S), NEW n \in 0 .. Len(q), NEW m
  PROVE  Count(m, q) = Count(m, SubSeq(q, 1, n)) + Count(m, SubSeq(q, n + 1, Len(q)))
<1> DEFINE a == SubSeq(q, 1, n)
           b == SubSeq(q, n + 1, Len(q))
           all == {i \in DOMAIN q : q[i] = m}
           front == {i \in DOMAIN a : a[i] = m}
           back == {i \in DOMAIN b : b[i] = m}
           shifted == {i \in DOMAIN q : i > n /\ q[i] = m}
<1>1. /\ DOMAIN q = 1 .. Len(q) /\ Len(q) \in Nat /\ n \in Nat /\ n <= Len(q)
      /\ \A i \in 1 .. Len(q) : q[i] \in S
  BY LenProperties, ElementOfSeq
<1>2. /\ a \in Seq(S) /\ Len(a) = n /\ DOMAIN a = 1 .. n
      /\ \A i \in 1 .. n : a[i] = q[i]
  <2>1. /\ a \in Seq(S) /\ Len(a) = IF 1 <= n THEN n - 1 + 1 ELSE 0
        /\ \A i \in 1 .. n - 1 + 1 : a[i] = q[1 + i - 1]
    BY <1>1, SubSeqProperties
  <2> HIDE DEF a
  <2>2. Len(a) = n /\ n - 1 + 1 = n /\ \A i \in 1 .. n : 1 + i - 1 = i
    BY <1>1, <2>1
  <2>3. DOMAIN a = 1 .. Len(a)
    BY <2>1, LenProperties
  <2> QED BY <2>1, <2>2, <2>3
<1>3. /\ b \in Seq(S) /\ Len(b) = Len(q) - n /\ DOMAIN b = 1 .. Len(q) - n
      /\ \A i \in 1 .. Len(q) - n : b[i] = q[i + n]
  <2>1. /\ b \in Seq(S)
        /\ Len(b) = IF n + 1 <= Len(q) THEN Len(q) - (n + 1) + 1 ELSE 0
        /\ \A i \in 1 .. Len(q) - (n + 1) + 1 : b[i] = q[(n + 1) + i - 1]
    BY <1>1, SubSeqProperties
  <2> HIDE DEF b
  <2>a. Len(q) - (n + 1) + 1 = Len(q) - n
    BY <1>1
  <2>b. Len(b) = Len(q) - n
    <3>1. /\ Len(q) \in Nat /\ n \in Nat /\ n <= Len(q)
          /\ Len(b) = IF n + 1 <= Len(q) THEN Len(q) - (n + 1) + 1 ELSE 0
      BY <1>1, <2>1
    <3>2. CASE n = Len(q)
      BY <3>1, <3>2
    <3>3. CASE n + 1 <= Len(q)
      BY <2>a, <3>1, <3>3
    <3> QED BY <3>1, <3>2, <3>3
  <2>c. ASSUME NEW i \in 1 .. Len(q) - n PROVE b[i] = q[i + n]
    <3>1. i \in Int /\ (n + 1) + i - 1 = i + n
      BY <1>1
    <3> QED BY <2>1, <2>a, <3>1
  <2>2. Len(b) = Len(q) - n /\ \A i \in 1 .. Len(q) - n : b[i] = q[i + n]
    BY <2>b, <2>c
  <2>3. DOMAIN b = 1 .. Len(b)
    BY <2>1, LenProperties
  <2> QED BY <2>1, <2>2, <2>3
<1>4. IsFiniteSet(front) /\ IsFiniteSet(back) /\ IsFiniteSet(all)
  BY <1>2, <1>3, CountType
<1>5. IsFiniteSet(shifted)
  BY <1>4, FS_Subset
<1>6. front = {i \in DOMAIN q : i <= n /\ q[i] = m}
  BY <1>1, <1>2
<1>7. all = front \cup shifted /\ front \cap shifted = {}
  BY <1>1, <1>6
<1>8. Cardinality(all) = Cardinality(front) + Cardinality(shifted)
  <2>1. Cardinality(front \cup shifted)
          = Cardinality(front) + Cardinality(shifted) - Cardinality(front \cap shifted)
    BY <1>4, <1>5, FS_Union
  <2>2. Cardinality(front) \in Nat /\ Cardinality(shifted) \in Nat
    BY <1>4, <1>5, FS_CardinalityType
  <2> HIDE DEF all, front, shifted
  <2>3. Cardinality(front \cap shifted) = 0
    BY <1>7, FS_EmptySet
  <2> QED BY <1>7, <2>1, <2>2, <2>3
<1>9. Cardinality(shifted) = Cardinality(back)
  <2> DEFINE G == [i \in back |-> i + n]
  <2>1. \A i \in back : i + n \in shifted
    <3> SUFFICES ASSUME NEW i \in back PROVE i + n \in shifted
      OBVIOUS
    <3>1. i \in 1 .. Len(q) - n /\ q[i + n] = m
      BY <1>3
    <3>2. i + n \in 1 .. Len(q) /\ i + n > n
      BY <1>1, <3>1
    <3>3. i + n \in DOMAIN q
      BY <1>1, <3>2
    <3> QED BY <3>1, <3>2, <3>3
  <2>2. \A i, j \in back : G[i] = G[j] => i = j
    <3> SUFFICES ASSUME NEW i \in back, NEW j \in back, G[i] = G[j] PROVE i = j
      OBVIOUS
    <3>1. i \in Int /\ j \in Int
      BY <1>3
    <3>2. i + n = j + n
      OBVIOUS
    <3> QED BY <1>1, <3>1, <3>2
  <2>3. \A k \in shifted : \E i \in back : G[i] = k
    <3> SUFFICES ASSUME NEW k \in shifted PROVE \E i \in back : G[i] = k
      OBVIOUS
    <3>1. k \in 1 .. Len(q) /\ k > n /\ q[k] = m
      BY <1>1
    <3>2. k - n \in 1 .. Len(q) - n /\ (k - n) + n = k
      BY <1>1, <3>1
    <3>3. k - n \in back
      BY <1>3, <3>1, <3>2
    <3> QED BY <3>2, <3>3
  <2> HIDE DEF back, shifted
  <2>4. G \in [back -> shifted]
    BY <2>1
  <2> HIDE DEF G
  <2>7. G \in Bijection(back, shifted)
    BY <2>2, <2>3, <2>4, Fun_IsBij
  <2>5. ExistsBijection(back, shifted)
    BY <2>7, Fun_ExistsBij
  <2> QED BY <1>4, <2>5, FS_Bijection
<1> QED BY <1>8, <1>9 DEF Count

(* The first message taken off.                                            *)
LEMMA CountTail ==
  ASSUME NEW S, NEW q \in Seq(S), q # <<>>, NEW m
  PROVE  Count(m, q) = IF Head(q) = m THEN Count(m, Tail(q)) + 1 ELSE Count(m, Tail(q))
<1>1. /\ DOMAIN q = 1 .. Len(q) /\ Len(q) \in Nat /\ Len(q) >= 1 /\ Head(q) = q[1]
      /\ q[1] \in S
  BY LenProperties, EmptySeq, HeadTailProperties, ElementOfSeq
<1>2. Count(m, q) = Count(m, SubSeq(q, 1, 1)) + Count(m, SubSeq(q, 2, Len(q)))
  <2>1. 1 \in 0 .. Len(q) /\ 1 + 1 = 2
    BY <1>1
  <2> QED BY <2>1, CountSplit
<1>3. Tail(q) = SubSeq(q, 2, Len(q)) /\ Tail(q) \in Seq(S)
  BY TailIsSubSeq, HeadTailProperties
<1> DEFINE one == SubSeq(q, 1, 1)
<1>4. /\ one \in Seq(S) /\ DOMAIN one = 1 .. 1 /\ one[1] = q[1]
  <2>1. one \in Seq(S) /\ Len(one) = 1 /\ \A i \in 1 .. 1 : one[i] = q[1 + i - 1]
    BY <1>1, SubSeqProperties
  <2> QED BY <2>1, LenProperties
<1>5. {i \in DOMAIN one : one[i] = m} = IF Head(q) = m THEN {1} ELSE {}
  BY <1>1, <1>4
<1>6. Count(m, one) = IF Head(q) = m THEN 1 ELSE 0
  BY <1>5, FS_Singleton, FS_EmptySet DEF Count
<1>7. Count(m, Tail(q)) \in Nat
  BY <1>3, CountType
<1>8. Count(m, q) = Count(m, one) + Count(m, Tail(q))
  BY <1>2, <1>3
<1> HIDE DEF one
<1> QED BY <1>6, <1>7, <1>8

-----------------------------------------------------------------------------
\* All that the invariant speaks of.
shape == <<loopback, kind, sfd, open, info, ports, tokens, inbox, destroyed,
           pc, infos, seen>>

TokenOf(s) == Message("token", s, {})

(* Messages are records of their kinds.                                    *)
LEMMA MessageFacts ==
  /\ \A s \in Sockets : TokenOf(s) \in Messages
  /\ \A s \in Sockets, c \in {"close", "shutdownRead", "shutdownWrite"} : Message(c, s, {}) \in Messages
  /\ \A s \in Sockets, a \in SUBSET Interests : Message("mask", s, a) \in Messages
  /\ \A m \in Messages : m.cmd \in Commands => m.who \in Sockets
  /\ \A m \in Messages, s \in Sockets :
       m = TokenOf(s) <=> m.cmd = "token" /\ m.who = s
BY DEF Messages, Message, TokenOf, Commands

(* The elements of a sequence of messages are messages.                    *)
LEMMA MessageTyped ==
  ASSUME NEW q \in Seq(Messages)
  PROVE  \A i \in DOMAIN q : q[i] \in Messages
BY LenProperties, ElementOfSeq

(* A token in flight is in the channel or in the batch, before and after a *)
(* step.                                                                   *)
LEMMA InFlightParts ==
  ASSUME NEW s \in Sockets
  PROVE  /\ InFlight(s) = Count(TokenOf(s), channel) + Count(TokenOf(s), batch)
         /\ InFlight(s)' = Count(TokenOf(s), channel') + Count(TokenOf(s), batch')
BY DEF InFlight, TokenOf, Count

(* The tokens in flight are counted by a natural number.                   *)
LEMMA InFlightType ==
  ASSUME HandlerType, NEW s \in Sockets
  PROVE  InFlight(s) \in Nat
<1>1. Count(TokenOf(s), channel) \in Nat /\ Count(TokenOf(s), batch) \in Nat
  BY CountType DEF HandlerType
<1> QED BY <1>1 DEF InFlight, TokenOf

(* A message that goes off adds to what is in flight if it is a token.     *)
LEMMA Sent ==
  ASSUME HandlerInv, NEW m \in Messages, channel' = Append(channel, m),
         batch' = batch, m.cmd \in Commands => kind[m.who] # "none", kind' = kind
  PROVE  /\ channel' \in Seq(Messages)
         /\ \A i \in DOMAIN channel' :
              channel'[i].cmd \in Commands => kind'[channel'[i].who] # "none"
         /\ \A s \in Sockets :
              InFlight(s)' = IF m = TokenOf(s) THEN InFlight(s) + 1 ELSE InFlight(s)
<1>1. channel \in Seq(Messages) /\ batch \in Seq(Messages)
  BY DEF HandlerInv, HandlerType
<1>2. /\ channel' \in Seq(Messages) /\ DOMAIN channel = 1 .. Len(channel)
      /\ Len(channel) \in Nat
      /\ DOMAIN channel' = 1 .. Len(channel) + 1
      /\ channel'[Len(channel) + 1] = m
      /\ \A i \in 1 .. Len(channel) : channel'[i] = channel[i]
  BY <1>1, AppendProperties, LenProperties
<1>3. \A i \in DOMAIN channel' :
        channel'[i].cmd \in Commands => kind'[channel'[i].who] # "none"
  BY <1>2 DEF HandlerInv, KnownInv
<1>4. ASSUME NEW s \in Sockets
      PROVE  InFlight(s)' = IF m = TokenOf(s) THEN InFlight(s) + 1 ELSE InFlight(s)
  <2>1. /\ Count(TokenOf(s), channel) \in Nat /\ Count(TokenOf(s), batch) \in Nat
    BY <1>1, CountType
  <2>2. Count(TokenOf(s), channel')
          = IF m = TokenOf(s) THEN Count(TokenOf(s), channel) + 1
            ELSE Count(TokenOf(s), channel)
    BY <1>1, CountAppend
  <2>3. /\ InFlight(s) = Count(TokenOf(s), channel) + Count(TokenOf(s), batch)
        /\ InFlight(s)' = Count(TokenOf(s), channel') + Count(TokenOf(s), batch)
    BY DEF InFlight, TokenOf, Count
  <2> QED BY <2>1, <2>2, <2>3
<1> QED BY <1>2, <1>3, <1>4

(* The first message of a batch is processed.                              *)
LEMMA Processed ==
  ASSUME HandlerInv, batch # <<>>, batch' = Tail(batch), channel' = channel, kind' = kind
  PROVE  /\ Head(batch) \in Messages /\ channel' \in Seq(Messages)
         /\ batch' \in Seq(Messages)
         /\ Head(batch).cmd \in Commands =>
              Head(batch).who \in Sockets /\ kind[Head(batch).who] # "none"
         /\ \A i \in DOMAIN batch' :
              batch'[i].cmd \in Commands => kind'[batch'[i].who] # "none"
         /\ \A s \in Sockets :
              /\ InFlight(s) = IF Head(batch).cmd = "token" /\ Head(batch).who = s
                               THEN InFlight(s)' + 1 ELSE InFlight(s)'
              /\ InFlight(s)' \in Nat
<1>1. channel \in Seq(Messages) /\ batch \in Seq(Messages)
  BY DEF HandlerInv, HandlerType
<1>2. /\ Head(batch) \in Messages /\ batch' \in Seq(Messages)
      /\ DOMAIN batch = 1 .. Len(batch) /\ Len(batch) \in Nat \ {0}
      /\ Head(batch) = batch[1]
      /\ DOMAIN batch' = 1 .. Len(batch) - 1
      /\ \A i \in 1 .. Len(batch) - 1 : batch'[i] = batch[i + 1]
  BY <1>1, HeadTailProperties, LenProperties, EmptySeq
<1>3. /\ \A i \in DOMAIN batch' :
           batch'[i].cmd \in Commands => kind'[batch'[i].who] # "none"
      /\ Head(batch).cmd \in Commands =>
           Head(batch).who \in Sockets /\ kind[Head(batch).who] # "none"
  BY <1>2, MessageFacts DEF HandlerInv, KnownInv
<1>4. ASSUME NEW s \in Sockets
      PROVE  /\ InFlight(s) = IF Head(batch).cmd = "token" /\ Head(batch).who = s
                              THEN InFlight(s)' + 1 ELSE InFlight(s)'
             /\ InFlight(s)' \in Nat
  <2>1. Count(TokenOf(s), channel) \in Nat /\ Count(TokenOf(s), batch') \in Nat
    BY <1>1, <1>2, CountType
  <2>2. Count(TokenOf(s), batch)
          = IF Head(batch) = TokenOf(s) THEN Count(TokenOf(s), Tail(batch)) + 1
            ELSE Count(TokenOf(s), Tail(batch))
    BY <1>1, CountTail
  <2>3. /\ InFlight(s) = Count(TokenOf(s), channel) + Count(TokenOf(s), batch)
        /\ InFlight(s)' = Count(TokenOf(s), channel) + Count(TokenOf(s), batch')
    BY DEF InFlight, TokenOf, Count
  <2>4. Head(batch) = TokenOf(s) <=> Head(batch).cmd = "token" /\ Head(batch).who = s
    BY <1>2, MessageFacts
  <2> QED BY <2>1, <2>2, <2>3, <2>4
<1> QED BY <1>1, <1>2, <1>3, <1>4

(* Messages that are taken from the channel into the batch.                *)
LEMMA Taken ==
  ASSUME HandlerInv, batch = <<>>, NEW n \in 0 .. Len(channel), kind' = kind,
         batch' = SubSeq(channel, 1, n),
         channel' = SubSeq(channel, n + 1, Len(channel))
  PROVE  /\ channel' \in Seq(Messages) /\ batch' \in Seq(Messages)
         /\ \A i \in DOMAIN channel' :
              channel'[i].cmd \in Commands => kind'[channel'[i].who] # "none"
         /\ \A i \in DOMAIN batch' :
              batch'[i].cmd \in Commands => kind'[batch'[i].who] # "none"
         /\ \A s \in Sockets : InFlight(s)' = InFlight(s)
<1>1. /\ channel \in Seq(Messages) /\ DOMAIN channel = 1 .. Len(channel)
      /\ Len(channel) \in Nat /\ n \in Nat /\ n <= Len(channel)
      /\ \A i \in 1 .. Len(channel) : channel[i] \in Messages
  BY LenProperties, ElementOfSeq DEF HandlerInv, HandlerType
<1>2. /\ batch' \in Seq(Messages) /\ \A i \in 1 .. n - 1 + 1 : batch'[i] = channel[1 + i - 1]
      /\ Len(batch') = IF 1 <= n THEN n - 1 + 1 ELSE 0
  BY <1>1, SubSeqProperties
<1>3. \A i \in DOMAIN batch' : i \in DOMAIN channel /\ batch'[i] = channel[i]
  <2>1. DOMAIN batch' = 1 .. Len(batch') /\ Len(batch') = n
    BY <1>1, <1>2, LenProperties
  <2> QED BY <1>1, <1>2, <2>1
<1>4. /\ channel' \in Seq(Messages)
      /\ Len(channel') = IF n + 1 <= Len(channel) THEN Len(channel) - (n + 1) + 1 ELSE 0
      /\ \A i \in 1 .. Len(channel) - (n + 1) + 1 : channel'[i] = channel[(n + 1) + i - 1]
  BY <1>1, SubSeqProperties
<1>5. \A i \in DOMAIN channel' : i + n \in DOMAIN channel /\ channel'[i] = channel[i + n]
  <2>1. DOMAIN channel' = 1 .. Len(channel')
    BY <1>4, LenProperties
  <2>2. Len(channel') = Len(channel) - n
    <3>1. PICK l \in Nat : l = Len(channel)
      BY <1>1
    <3>2. n \in Nat /\ n <= l /\ Len(channel') = IF n + 1 <= l THEN l - (n + 1) + 1 ELSE 0
      BY <1>1, <1>4, <3>1
    <3>3. (IF n + 1 <= l THEN l - (n + 1) + 1 ELSE 0) = l - n
      BY <3>2
    <3> QED BY <3>1, <3>2, <3>3
  <2> QED BY <1>1, <1>4, <2>1, <2>2
<1>6. ASSUME NEW s \in Sockets PROVE InFlight(s)' = InFlight(s)
  <2>1. /\ InFlight(s) = Count(TokenOf(s), channel) + Count(TokenOf(s), batch)
        /\ InFlight(s)' = Count(TokenOf(s), channel') + Count(TokenOf(s), batch')
    BY InFlightParts
  <2>2. Count(TokenOf(s), batch) = 0
    BY CountEmpty
  <2>3. Count(TokenOf(s), channel)
          = Count(TokenOf(s), SubSeq(channel, 1, n))
              + Count(TokenOf(s), SubSeq(channel, n + 1, Len(channel)))
    BY <1>1, CountSplit
  <2>4. Count(TokenOf(s), channel') \in Nat /\ Count(TokenOf(s), batch') \in Nat
    BY <1>2, <1>4, CountType
  <2> QED BY <2>1, <2>2, <2>3, <2>4
<1>7. /\ \A i \in DOMAIN channel' :
           channel'[i].cmd \in Commands => kind'[channel'[i].who] # "none"
      /\ \A i \in DOMAIN batch' :
           batch'[i].cmd \in Commands => kind'[batch'[i].who] # "none"
  BY <1>3, <1>5 DEF HandlerInv, KnownInv
<1> QED BY <1>2, <1>4, <1>6, <1>7

-----------------------------------------------------------------------------
(* Steps of Dart that send a message other than a token.                   *)
LEMMA SendKeeps ==
  ASSUME HandlerInv, NEW m \in Messages, m.cmd # "token",
         m.cmd \in Commands => kind[m.who] # "none",
         channel' = Append(channel, m), UNCHANGED <<batch, shape>>
  PROVE  HandlerInv'
<1>1. UNCHANGED <<batch, loopback, kind, sfd, open, info, ports, tokens, inbox,
                  destroyed, pc, infos, seen>>
  BY DEF shape
<1>2. /\ channel' \in Seq(Messages)
      /\ \A i \in DOMAIN channel' :
           channel'[i].cmd \in Commands => kind'[channel'[i].who] # "none"
      /\ \A s \in Sockets : InFlight(s)' = InFlight(s)
  BY <1>1, Sent, MessageFacts
<1>3. HandlerType' /\ PortsInv' /\ FoundInv' /\ RoundInv' /\ DescriptorInv'
  BY <1>1, <1>2 DEF HandlerInv, HandlerType, PortsInv, FoundInv, RoundInv,
                    DescriptorInv, DescriptorsOwned
<1>4. KnownInv'
  BY <1>1, <1>2 DEF HandlerInv, KnownInv
<1>5. TokensInv'
  BY <1>1, <1>2 DEF HandlerInv, TokensInv, Kept
<1> QED BY <1>3, <1>4, <1>5 DEF HandlerInv

(* A token on its way back has left the inbox.                             *)
LEMMA SendTokenKeeps ==
  ASSUME HandlerInv, NEW s \in Sockets, SendToken(s)
  PROVE  HandlerInv'
<1>1. /\ inbox[s] > 0 /\ inbox' = [inbox EXCEPT ![s] = @ - 1]
      /\ channel' = Append(channel, TokenOf(s))
      /\ UNCHANGED <<batch, loopback, kind, sfd, open, info, ports, tokens,
                     destroyed, pc, infos, seen>>
  BY DEF SendToken, SendData, TokenOf, osVars, loopVars
<1>2. /\ inbox' \in [Sockets -> Nat] /\ inbox'[s] = inbox[s] - 1
      /\ \A t \in Sockets \ {s} : inbox'[t] = inbox[t]
      /\ kind[s] # "none" /\ inbox[s] \in Nat
  BY <1>1 DEF HandlerInv, HandlerType, KnownInv
<1>3. /\ channel' \in Seq(Messages)
      /\ \A i \in DOMAIN channel' :
           channel'[i].cmd \in Commands => kind'[channel'[i].who] # "none"
      /\ \A t \in Sockets :
           InFlight(t)' = IF TokenOf(s) = TokenOf(t) THEN InFlight(t) + 1 ELSE InFlight(t)
    BY <1>1, <1>2, Sent, MessageFacts DEF TokenOf, Message
<1>4. HandlerType' /\ PortsInv' /\ FoundInv' /\ RoundInv' /\ DescriptorInv'
  BY <1>1, <1>2, <1>3 DEF HandlerInv, HandlerType, PortsInv, FoundInv, RoundInv,
                          DescriptorInv, DescriptorsOwned
<1>5. KnownInv'
  BY <1>1, <1>2, <1>3 DEF HandlerInv, KnownInv
<1>6. TokensInv'
  <2> SUFFICES ASSUME NEW t \in Sockets,
                      kind[t] = "none" \/ sfd[t] # None, Kept(t)
               PROVE  Kept(t)'
    BY <1>1 DEF HandlerInv, TokensInv
  <2>1. /\ InFlight(t) \in Nat /\ tokens[t] \in Int /\ inbox[t] \in Nat
        /\ tokens'[t] = tokens[t]
        /\ TokenOf(s) = TokenOf(t) <=> s = t
    BY <1>1, InFlightType DEF HandlerInv, HandlerType, TokenOf, Message
  <2>2. tokens[t] + inbox[t] + InFlight(t) = Tokens
    BY DEF Kept
  <2>3. \/ inbox'[t] = inbox[t] - 1 /\ InFlight(t)' = InFlight(t) + 1
        \/ inbox'[t] = inbox[t] /\ InFlight(t)' = InFlight(t)
    <3>1. CASE t = s
      BY <1>2, <1>3, <2>1, <3>1
    <3>2. CASE t # s
      BY <1>2, <1>3, <2>1, <3>2
    <3> QED BY <3>1, <3>2
  <2>4. tokens'[t] + inbox'[t] + InFlight(t)' = Tokens
    BY <2>1, <2>2, <2>3
  <2> QED BY <2>4 DEF Kept
<1> QED BY <1>4, <1>5, <1>6 DEF HandlerInv

(* A socket at a number that is free meets nothing of its last owner.      *)
LEMMA OpenSocketKeeps ==
  ASSUME HandlerInv, NEW s \in Sockets, NEW f \in Fds, OpenSocket(s, f)
  PROVE  HandlerInv'
<1>1. PICK k \in {"single", "listening"} : kind' = [kind EXCEPT ![s] = k]
  BY DEF OpenSocket
<1>2. /\ Running /\ kind[s] = "none" /\ f \notin open
      /\ sfd' = [sfd EXCEPT ![s] = f] /\ open' = open \cup {f}
      /\ UNCHANGED <<loopback, info, ports, tokens, inbox, channel, batch, destroyed,
                     pc, infos, seen>>
  BY DEF OpenSocket, portVars, loopVars
<1>3. f # None /\ sfd[s] = None /\ pc # "gone"
  BY <1>2, EventHandlerAssumption DEF HandlerInv, DescriptorInv, Running
<1>4. /\ info[f] = None /\ \A t \in Sockets : sfd[t] # f
  BY <1>2, <1>3 DEF HandlerInv, DescriptorInv, DescriptorsOwned
<1>5. /\ kind'[s] = k /\ sfd'[s] = f
      /\ \A t \in Sockets \ {s} : kind'[t] = kind[t] /\ sfd'[t] = sfd[t]
      /\ kind' \in [Sockets -> {"none", "single", "listening"}]
      /\ sfd' \in [Sockets -> Fds \cup {None}]
      /\ \A t \in Sockets : kind[t] # "none" => t # s
  BY <1>1, <1>2 DEF HandlerInv, HandlerType
<1>6. HandlerType'
  BY <1>2, <1>5 DEF HandlerInv, HandlerType
<1>7. DescriptorInv'
  <2>1. \A t \in Sockets : sfd'[t] # None => kind'[t] # "none"
    BY <1>5 DEF HandlerInv, DescriptorInv
  <2>2. \A t, u \in Sockets :
          t # u /\ sfd'[t] # None /\ sfd'[t] = sfd'[u] => kind'[t] = "listening"
    BY <1>4, <1>5 DEF HandlerInv, DescriptorInv
  <2>3. {sfd'[t] : t \in Sockets} \ {None} = open'
    BY <1>2, <1>3, <1>5 DEF HandlerInv, DescriptorInv, DescriptorsOwned
  <2>4. \A g \in Fds : info[g] # None =>
          /\ g \in open /\ g # f /\ info[g] \in Sockets
          /\ kind[info[g]] # "none"
    <3> SUFFICES ASSUME NEW g \in Fds, info[g] # None
                 PROVE  /\ g \in open /\ g # f /\ info[g] \in Sockets
                        /\ kind[info[g]] # "none"
      OBVIOUS
    <3>1. g \in open /\ info[g] \in Sockets
      BY <1>3 DEF HandlerInv, HandlerType, DescriptorInv, DescriptorsOwned
    <3>2. PICK t \in Sockets : sfd[t] = g /\ sfd[t] # None
      BY <1>3, <3>1 DEF HandlerInv, DescriptorInv, DescriptorsOwned
    <3>3. kind[t] = kind[info[g]] /\ kind[t] # "none"
      BY <1>3, <3>2 DEF HandlerInv, DescriptorInv, DescriptorsOwned
    <3> QED BY <1>2, <3>1, <3>3
  <2>5. \A g \in Fds : info'[g] # None =>
          /\ g \in open'
          /\ \A t \in Sockets : sfd'[t] = g =>
               /\ kind'[t] = kind'[info'[g]]
               /\ kind'[t] = "single" => info'[g] = t
    BY <1>2, <1>3, <1>5, <2>4 DEF HandlerInv, DescriptorInv, DescriptorsOwned
  <2> QED BY <2>1, <2>2, <2>3, <2>5 DEF DescriptorInv, DescriptorsOwned
<1>8. PortsInv'
  BY <1>2, <1>3, <1>5, EventHandlerAssumption DEF HandlerInv, HandlerType, PortsInv
<1>9. FoundInv'
  BY <1>2, <1>5 DEF HandlerInv, FoundInv
<1>10. RoundInv'
  BY <1>2 DEF HandlerInv, RoundInv
<1>11. KnownInv'
  <2>1. \A t \in Sockets : kind[t] # "none" => kind'[t] # "none"
    BY <1>5
  <2>2. /\ \A i \in DOMAIN channel :
             channel[i].cmd \in Commands => channel[i].who \in Sockets
        /\ \A i \in DOMAIN batch :
             batch[i].cmd \in Commands => batch[i].who \in Sockets
    BY MessageFacts, MessageTyped DEF HandlerInv, HandlerType
  <2>3. \A t \in Sockets : destroyed[t] > 0 => t # s
    BY <1>2 DEF HandlerInv, KnownInv
  <2> QED BY <1>2, <1>5, <2>1, <2>2, <2>3 DEF HandlerInv, KnownInv
<1>12. TokensInv'
  <2>1. \A t \in Sockets : Kept(t)' <=> Kept(t)
    BY <1>2 DEF Kept, InFlight, Count
  <2> QED BY <1>2, <1>5, <2>1 DEF HandlerInv, TokensInv
<1> QED BY <1>6, <1>7, <1>8, <1>9, <1>10, <1>11, <1>12 DEF HandlerInv

(* An entry of socket_map_ is named after a socket that has been opened.   *)
LEMMA InfoKnown ==
  ASSUME HandlerInv, pc # "gone", NEW g \in Fds, info[g] # None
  PROVE  /\ g \in open /\ g # None /\ info[g] \in Sockets
         /\ kind[info[g]] # "none"
         /\ \A t \in Sockets : sfd[t] = g =>
              kind[t] = kind[info[g]] /\ (kind[t] = "single" => info[g] = t)
<1>1. /\ g \in open /\ info[g] \in Sockets /\ g # None
      /\ \A t \in Sockets : sfd[t] = g =>
           kind[t] = kind[info[g]] /\ (kind[t] = "single" => info[g] = t)
  BY EventHandlerAssumption
     DEF HandlerInv, HandlerType, DescriptorInv, DescriptorsOwned
<1>2. PICK t \in Sockets : sfd[t] = g /\ sfd[t] # None
  BY <1>1 DEF HandlerInv, DescriptorInv, DescriptorsOwned
<1>3. kind[t] = kind[info[g]] /\ kind[t] # "none"
  BY <1>1, <1>2 DEF HandlerInv, DescriptorInv
<1> QED BY <1>1, <1>3

(* Another socket joins those that listen on a descriptor.                 *)
LEMMA ShareListenerKeeps ==
  ASSUME HandlerInv, NEW s \in Sockets, NEW t \in Sockets, ShareListener(s, t)
  PROVE  HandlerInv'
<1>1. /\ Running /\ kind[s] = "none" /\ kind[t] = "listening" /\ sfd[t] # None
      /\ kind' = [kind EXCEPT ![s] = "listening"]
      /\ sfd' = [sfd EXCEPT ![s] = sfd[t]]
      /\ UNCHANGED <<loopback, open, info, ports, tokens, inbox, channel, batch,
                     destroyed, pc, infos, seen>>
  BY DEF ShareListener, portVars, loopVars
<1>2. sfd[s] = None /\ pc # "gone" /\ sfd[t] \in Fds
  BY <1>1 DEF HandlerInv, HandlerType, DescriptorInv, Running
<1>3. /\ kind'[s] = "listening" /\ sfd'[s] = sfd[t]
      /\ \A u \in Sockets \ {s} : kind'[u] = kind[u] /\ sfd'[u] = sfd[u]
      /\ kind' \in [Sockets -> {"none", "single", "listening"}]
      /\ sfd' \in [Sockets -> Fds \cup {None}]
      /\ s # t
  BY <1>1 DEF HandlerInv, HandlerType
<1>4. \A u \in Sockets : kind[u] # "none" => u # s /\ kind'[u] = kind[u]
  BY <1>1, <1>3
<1>5. HandlerType'
  BY <1>1, <1>3 DEF HandlerInv, HandlerType
<1>6. DescriptorInv'
  <2>1. \A u \in Sockets : sfd'[u] # None => kind'[u] # "none"
    BY <1>3 DEF HandlerInv, DescriptorInv
  <2>2. \A u, v \in Sockets :
          u # v /\ sfd'[u] # None /\ sfd'[u] = sfd'[v] => kind'[u] = "listening"
    BY <1>1, <1>3 DEF HandlerInv, DescriptorInv
  <2>3. {sfd'[u] : u \in Sockets} \ {None} = open'
    BY <1>1, <1>2, <1>3 DEF HandlerInv, DescriptorInv, DescriptorsOwned
  <2>4. ASSUME NEW g \in Fds, info'[g] # None
        PROVE  /\ g \in open'
               /\ \A u \in Sockets : sfd'[u] = g =>
                    /\ kind'[u] = kind'[info'[g]]
                    /\ kind'[u] = "single" => info'[g] = u
    <3>1. /\ g \in open /\ info[g] \in Sockets /\ kind[info[g]] # "none"
          /\ \A u \in Sockets : sfd[u] = g =>
               kind[u] = kind[info[g]] /\ (kind[u] = "single" => info[g] = u)
      BY <1>1, <1>2, <2>4, InfoKnown
    <3> QED BY <1>1, <1>3, <1>4, <3>1
  <2> QED BY <2>1, <2>2, <2>3, <2>4 DEF DescriptorInv, DescriptorsOwned
<1>7. PortsInv'
  BY <1>1, <1>2, <1>3, EventHandlerAssumption DEF HandlerInv, HandlerType, PortsInv
<1>8. FoundInv'
  BY <1>1, <1>3 DEF HandlerInv, FoundInv
<1>9. RoundInv'
  BY <1>1 DEF HandlerInv, RoundInv
<1>10. KnownInv'
  <2>1. /\ \A i \in DOMAIN channel :
             channel[i].cmd \in Commands => channel[i].who \in Sockets
        /\ \A i \in DOMAIN batch :
             batch[i].cmd \in Commands => batch[i].who \in Sockets
    BY MessageFacts, MessageTyped DEF HandlerInv, HandlerType
  <2>2. \A u \in Sockets : destroyed[u] > 0 => u # s
    BY <1>1 DEF HandlerInv, KnownInv
  <2> QED BY <1>1, <1>3, <1>4, <2>1, <2>2 DEF HandlerInv, KnownInv
<1>11. TokensInv'
  <2>1. \A u \in Sockets : Kept(u)' <=> Kept(u)
    BY <1>1 DEF Kept, InFlight, Count
  <2> QED BY <1>1, <1>3, <2>1 DEF HandlerInv, TokensInv
<1> QED BY <1>5, <1>6, <1>7, <1>8, <1>9, <1>10, <1>11 DEF HandlerInv

(* The network, the time and a stutter.                                    *)
LEMMA Untouched ==
  ASSUME HandlerInv, UNCHANGED <<shape, channel, batch>>
  PROVE  HandlerInv'
<1>1. UNCHANGED <<loopback, kind, sfd, open, info, ports, tokens, inbox, destroyed,
                  pc, infos, seen, channel, batch>>
  BY DEF shape
<1>2. \A s \in Sockets : Kept(s)' <=> Kept(s)
  BY <1>1 DEF Kept, InFlight, Count
<1> QED BY <1>1, <1>2 DEF HandlerInv, HandlerType, PortsInv, FoundInv, RoundInv,
           DescriptorInv, DescriptorsOwned, KnownInv, TokensInv

-----------------------------------------------------------------------------
\* What the steps that only move the loop on leave alone.
atRest == <<loopback, kind, sfd, open, info, ports, tokens, inbox, destroyed,
            channel, batch>>

(* A step of the loop that leaves the tables and the channels alone only   *)
(* has to answer for what poll has reported and for the place in the       *)
(* round.                                                                  *)
LEMMA LoopKeeps ==
  ASSUME HandlerInv, UNCHANGED atRest, pc # "gone", FoundInv', RoundInv'
  PROVE  HandlerInv'
<1>1. UNCHANGED <<loopback, kind, sfd, open, info, ports, tokens, inbox, destroyed,
                  channel, batch>>
  BY DEF atRest
<1>2. \A s \in Sockets : Kept(s)' <=> Kept(s)
  BY <1>1 DEF Kept, InFlight, Count
<1> QED BY <1>1, <1>2 DEF HandlerInv, HandlerType, PortsInv,
           DescriptorInv, DescriptorsOwned, KnownInv, TokensInv

(* A round that ends leaves nothing to the next.                           *)
LEMMA AgainKeeps ==
  ASSUME HandlerInv, UNCHANGED atRest, pc # "gone", batch = <<>>, Again
  PROVE  HandlerInv'
<1>1. /\ infos' = {} /\ batch' = batch /\ pc' \in {"end", "poll"}
  BY DEF Again, atRest
<1>2. FoundInv' /\ RoundInv'
  BY <1>1 DEF FoundInv, RoundInv
<1> QED BY <1>2, LoopKeeps

(* Poll reports a socket alone on its descriptor while it has a token.     *)
LEMMA PollReturnsKeeps ==
  ASSUME HandlerInv, PollReturns
  PROVE  HandlerInv'
<1>1. /\ pc = "poll" /\ infos' = Found /\ pc' \in {"take", "timer"}
      /\ loopback => pc' = "timer"
      /\ UNCHANGED <<loopback, kind, sfd, open, info, ports, tokens, inbox, destroyed,
                     channel, batch>>
  BY DEF PollReturns, MessagesFirst, osVars, portVars
<1>2. batch = <<>>
  BY <1>1 DEF HandlerInv, RoundInv
<1>3. ASSUME NEW r \in Found
      PROVE  /\ r.di \in Sockets /\ r.fd \in Fds /\ kind[r.di] # "none"
             /\ info[r.fd] = r.di
             /\ kind[r.di] = "single" /\ sfd[r.di] = r.fd => tokens[r.di] > 0
  <2>1. PICK f \in Polled : r.di = info[f] /\ r.fd = f
    BY <1>3 DEF Found
  <2>2. f \in Fds /\ info[f] # None /\ Mask(f) # {}
    BY DEF Polled
  <2>3. PICK p \in ports[f] : tokens[p] > 0
    BY <2>2 DEF Mask
  <2>4. p \in Sockets /\ sfd[p] = f
    BY <2>2, <2>3 DEF HandlerInv, HandlerType, PortsInv
  <2>5. /\ info[f] \in Sockets /\ kind[info[f]] # "none"
        /\ kind[p] = kind[info[f]] /\ (kind[p] = "single" => info[f] = p)
    BY <1>1, <2>2, <2>4, InfoKnown
  <2> QED BY <2>1, <2>2, <2>3, <2>5
<1>4. \A q, r \in Found : q.fd = r.fd => q = r
  BY DEF Found
<1>5. FoundInv'
  BY <1>1, <1>3, <1>4 DEF FoundInv
<1>6. RoundInv'
  BY <1>1, <1>2, <1>3 DEF RoundInv
<1> QED BY <1>1, <1>5, <1>6, LoopKeeps DEF atRest

(* The other steps of the loop that touch no message and no token.         *)
LEMMA PollFailsKeeps == ASSUME HandlerInv, PollFails PROVE HandlerInv'
<1>1. pc = "poll" /\ UNCHANGED atRest /\ batch = <<>>
  BY DEF PollFails, atRest, osVars, portVars, HandlerInv, RoundInv
<1>2. CASE Again
  BY <1>1, <1>2, AgainKeeps
<1>3. CASE ~loopback /\ pc' = "take" /\ UNCHANGED <<infos, seen>>
  <2>1. FoundInv'
    BY <1>1, <1>3 DEF HandlerInv, FoundInv, atRest
  <2>2. RoundInv'
    BY <1>1, <1>3 DEF RoundInv, atRest
  <2> QED BY <1>1, <2>1, <2>2, LoopKeeps
<1> QED BY <1>2, <1>3 DEF PollFails

(* A read that fails leaves the messages where they are.                   *)
LEMMA ReadFailsKeeps == ASSUME HandlerInv, ReadFails PROVE HandlerInv'
<1>1. /\ pc = "read" /\ pc' = "process" /\ UNCHANGED <<infos, seen>>
      /\ UNCHANGED atRest /\ batch = <<>>
  BY DEF ReadFails, atRest, osVars, portVars, HandlerInv, RoundInv
<1>2. FoundInv'
  BY <1>1 DEF HandlerInv, FoundInv, atRest
<1>3. RoundInv'
  BY <1>1 DEF HandlerInv, RoundInv, atRest
<1> QED BY <1>1, <1>2, <1>3, LoopKeeps

(* The messages that were taken have been processed.                       *)
LEMMA BatchDoneKeeps == ASSUME HandlerInv, BatchDone PROVE HandlerInv'
<1>1. pc = "process" /\ UNCHANGED atRest /\ batch = <<>>
  BY DEF BatchDone, BatchOver, atRest, osVars, portVars
<1>2. CASE Again
  BY <1>1, <1>2, AgainKeeps
<1>3. CASE ~seen /\ pc' = "timer" /\ UNCHANGED <<infos, seen>>
  <2>1. FoundInv'
    BY <1>1, <1>3 DEF HandlerInv, FoundInv, atRest
  <2>2. RoundInv'
    BY <1>1, <1>3 DEF HandlerInv, RoundInv, atRest
  <2> QED BY <1>1, <2>1, <2>2, LoopKeeps
<1> QED BY <1>2, <1>3 DEF BatchDone

(* A round serves one timer that is due.                                   *)
LEMMA ServeTimerKeeps == ASSUME HandlerInv, ServeTimer PROVE HandlerInv'
<1>1. pc = "timer" /\ UNCHANGED atRest /\ batch = <<>>
  BY DEF ServeTimer, atRest, osVars, portVars, HandlerInv, RoundInv
<1>2. CASE Again
  BY <1>1, <1>2, AgainKeeps
<1>3. CASE pc' = "dispatch" /\ UNCHANGED <<infos, seen>>
  <2>1. FoundInv'
    BY <1>1, <1>3 DEF HandlerInv, FoundInv, atRest
  <2>2. RoundInv'
    BY <1>1, <1>3 DEF HandlerInv, RoundInv, atRest
  <2> QED BY <1>1, <2>1, <2>2, LoopKeeps
<1> QED BY <1>2, <1>3 DEF ServeTimer

(* The loop has worked on all events poll has reported.                    *)
LEMMA DispatchDoneKeeps == ASSUME HandlerInv, DispatchDone PROVE HandlerInv'
<1>1. pc = "dispatch" /\ UNCHANGED atRest /\ batch = <<>> /\ infos = {}
  BY DEF DispatchDone, atRest, osVars, portVars, HandlerInv, RoundInv
<1>2. CASE Again
  BY <1>1, <1>2, AgainKeeps
<1>3. CASE seen /\ pc' = "read" /\ UNCHANGED <<infos, seen>>
  <2>1. FoundInv'
    BY <1>1, <1>3 DEF HandlerInv, FoundInv, atRest
  <2>2. RoundInv'
    BY <1>1, <1>3 DEF HandlerInv, RoundInv, atRest
  <2> QED BY <1>1, <2>1, <2>2, LoopKeeps
<1> QED BY <1>2, <1>3 DEF DispatchDone

-----------------------------------------------------------------------------
(* Messages that are taken from the channel keep what they stand for.      *)
LEMMA TakenKeeps ==
  ASSUME HandlerInv, batch = <<>>, NEW n \in 0 .. Len(channel),
         batch' = SubSeq(channel, 1, n),
         channel' = SubSeq(channel, n + 1, Len(channel)),
         UNCHANGED <<loopback, kind, sfd, open, info, ports, tokens, inbox,
                     destroyed, infos, seen>>,
         pc \in {"take", "read"}, pc' = "process", loopback => infos = {} /\ seen
  PROVE  HandlerInv'
<1>1. /\ channel' \in Seq(Messages) /\ batch' \in Seq(Messages)
      /\ \A i \in DOMAIN channel' :
           channel'[i].cmd \in Commands => kind'[channel'[i].who] # "none"
      /\ \A i \in DOMAIN batch' :
           batch'[i].cmd \in Commands => kind'[batch'[i].who] # "none"
      /\ \A s \in Sockets : InFlight(s)' = InFlight(s)
  BY Taken
<1>2. HandlerType' /\ PortsInv' /\ FoundInv' /\ DescriptorInv'
  BY <1>1 DEF HandlerInv, HandlerType, PortsInv, FoundInv, DescriptorInv,
              DescriptorsOwned
<1>3. RoundInv'
  BY DEF RoundInv
<1>4. KnownInv'
  BY <1>1 DEF HandlerInv, KnownInv
<1>5. \A s \in Sockets : Kept(s)' <=> Kept(s)
  BY <1>1 DEF Kept
<1>6. TokensInv'
  BY <1>5 DEF HandlerInv, TokensInv
<1> QED BY <1>2, <1>3, <1>4, <1>6 DEF HandlerInv

(* Without the pair, the interrupt queue is taken as a whole.              *)
LEMMA TakeQueueKeeps == ASSUME HandlerInv, TakeQueue PROVE HandlerInv'
<1>1. /\ pc = "take" /\ batch' = channel /\ channel' = <<>> /\ pc' = "process"
      /\ UNCHANGED <<loopback, kind, sfd, open, info, ports, tokens, inbox,
                     destroyed, infos, seen>>
  BY DEF TakeQueue, osVars, portVars
<1>2. batch = <<>> /\ ~loopback /\ channel \in Seq(Messages)
  BY <1>1 DEF HandlerInv, HandlerType, RoundInv
<1>3. Len(channel) \in Nat /\ Len(channel) \in 0 .. Len(channel)
  BY <1>2, LenProperties
<1>4. /\ SubSeq(channel, 1, Len(channel)) = channel
      /\ SubSeq(channel, Len(channel) + 1, Len(channel)) = <<>>
  BY <1>2, <1>3, SubSeqFull, SubSeqEmpty
<1> QED BY <1>1, <1>2, <1>3, <1>4, TakenKeeps

(* With the pair, the messages that fit into the buffer are read.          *)
LEMMA ReadChannelKeeps == ASSUME HandlerInv, ReadChannel PROVE HandlerInv'
<1>1. PICK n \in 1 .. Len(channel) :
        /\ batch' = SubSeq(channel, 1, n)
        /\ channel' = SubSeq(channel, n + 1, Len(channel))
  BY DEF ReadChannel
<1>2. /\ pc = "read" /\ pc' = "process"
      /\ UNCHANGED <<loopback, kind, sfd, open, info, ports, tokens, inbox,
                     destroyed, infos, seen>>
  BY DEF ReadChannel, osVars, portVars
<1>3. batch = <<>> /\ (loopback => infos = {} /\ seen) /\ channel \in Seq(Messages)
  BY <1>2 DEF HandlerInv, HandlerType, RoundInv
<1>4. n \in 0 .. Len(channel)
  BY <1>3, LenProperties
<1> QED BY <1>1, <1>2, <1>3, <1>4, TakenKeeps

-----------------------------------------------------------------------------
(* An event takes a token of each port it goes to, and a socket alone on   *)
(* its descriptor has one left.                                            *)
LEMMA PostKeeps ==
  ASSUME HandlerInv, NEW r \in infos, NEW R \in SUBSET ports[r.fd], PostTo(R),
         infos' = infos \ {r}, info[r.fd] = r.di, pc = "dispatch",
         UNCHANGED <<loopback, kind, sfd, open, info, ports, destroyed, pc, seen,
                     channel, batch>>
  PROVE  HandlerInv'
<1>1. /\ r.di \in Sockets /\ r.fd \in Fds /\ r.fd # None /\ info[r.fd] # None
      /\ kind[r.di] = "single" /\ sfd[r.di] = r.fd => tokens[r.di] > 0
  BY EventHandlerAssumption DEF HandlerInv, FoundInv
<1>2. /\ R \subseteq Sockets /\ \A s \in R : sfd[s] = r.fd
  BY <1>1 DEF HandlerInv, HandlerType, PortsInv
<1>3. ASSUME NEW s \in R
      PROVE  /\ kind[s] # "none"
             /\ kind[s] # "listening" => s = r.di /\ tokens[s] > 0
  <2>1. s \in Sockets /\ sfd[s] = r.fd /\ kind[s] # "none"
    BY <1>1, <1>2 DEF HandlerInv, DescriptorInv
  <2>2. kind[s] = "single" => info[r.fd] = s
    BY <1>1, <2>1, InfoKnown
  <2> QED BY <1>1, <2>1, <2>2 DEF HandlerInv, HandlerType
<1>4. /\ inbox' \in [Sockets -> Nat] /\ tokens' \in [Sockets -> Int]
      /\ \A s \in Sockets : inbox[s] \in Nat /\ tokens[s] \in Int
      /\ \A s \in R : inbox'[s] = inbox[s] + 1 /\ tokens'[s] = tokens[s] - 1
      /\ \A s \in Sockets \ R : inbox'[s] = inbox[s] /\ tokens'[s] = tokens[s]
  BY <1>2 DEF HandlerInv, HandlerType, PostTo
<1>5. HandlerType' /\ DescriptorInv' /\ PortsInv' /\ RoundInv'
  BY <1>4 DEF HandlerInv, HandlerType, DescriptorInv, DescriptorsOwned, PortsInv,
              RoundInv
<1>6. FoundInv'
  <2>1. ASSUME NEW q \in infos \ {r}, kind[q.di] = "single", sfd[q.di] = q.fd
        PROVE  tokens'[q.di] > 0
    <3>1. /\ q \in infos /\ q.fd # r.fd /\ q.di \in Sockets /\ tokens[q.di] > 0
      BY <2>1 DEF HandlerInv, FoundInv
    <3>2. q.di \notin R
      BY <1>2, <2>1, <3>1
    <3> QED BY <1>4, <3>1, <3>2
  <2> QED BY <2>1 DEF HandlerInv, FoundInv
<1>7. KnownInv'
  BY <1>3, <1>4 DEF HandlerInv, KnownInv
<1>8. TokensInv'
  <2> SUFFICES ASSUME NEW s \in Sockets
               PROVE  /\ kind[s] # "listening" => tokens'[s] >= 0
                      /\ kind[s] = "none" \/ sfd[s] # None => Kept(s)'
    BY DEF TokensInv
  <2>1. InFlight(s)' = InFlight(s) /\ InFlight(s) \in Nat
    BY InFlightType DEF InFlight, Count, HandlerInv
  <2>2. tokens'[s] + inbox'[s] = tokens[s] + inbox[s]
    BY <1>4
  <2>3. /\ tokens[s] \in Int /\ inbox[s] \in Nat
        /\ tokens'[s] \in Int /\ inbox'[s] \in Nat
    BY <1>4
  <2>4. tokens[s] + inbox[s] + InFlight(s) = tokens'[s] + inbox'[s] + InFlight(s)'
    BY <2>1, <2>2, <2>3
  <2>5. Kept(s)' <=> Kept(s)
    BY <2>4 DEF Kept
  <2>6. kind[s] # "listening" => tokens'[s] >= 0
    BY <1>3, <1>4 DEF HandlerInv, TokensInv
  <2> QED BY <2>5, <2>6 DEF HandlerInv, TokensInv
<1> QED BY <1>5, <1>6, <1>7, <1>8 DEF HandlerInv

(* The events of one descriptor go to its ports.                           *)
LEMMA DispatchKeeps == ASSUME HandlerInv, Dispatch PROVE HandlerInv'
<1>1. /\ pc = "dispatch"
      /\ UNCHANGED <<loopback, kind, sfd, open, info, ports, destroyed, seen,
                     channel, batch>>
  BY DEF Dispatch, osVars
<1>2. PICK r \in infos :
        /\ infos' = infos \ {r}
        /\ \/ info[r.fd] = r.di /\ Deliver(r) /\ UNCHANGED pc
           \/ /\ info[r.fd] # r.di /\ pc' = "undefined"
              /\ UNCHANGED <<inbox, tokens>>
  BY DEF Dispatch
<1>3. r.di \in Sockets /\ r.fd \in Fds /\ batch = <<>>
  BY <1>1 DEF HandlerInv, FoundInv, RoundInv
<1>4. ASSUME UNCHANGED <<inbox, tokens>>,
             pc' = pc \/ (info[r.fd] # r.di /\ pc' = "undefined")
      PROVE  HandlerInv'
  <2>1. FoundInv'
    BY <1>1, <1>2, <1>4 DEF HandlerInv, FoundInv
  <2>2. RoundInv'
    BY <1>1, <1>2, <1>4 DEF HandlerInv, RoundInv
  <2> QED BY <1>1, <1>4, <2>1, <2>2, LoopKeeps DEF atRest
<1>5. ASSUME info[r.fd] = r.di, Deliver(r), UNCHANGED pc
      PROVE  HandlerInv'
  <2>1. CASE UNCHANGED <<inbox, tokens>>
    BY <1>4, <1>5, <2>1
  <2>2. CASE PostTo(ports[r.fd])
    BY <1>1, <1>2, <1>5, <2>2, PostKeeps
  <2>3. CASE \E s \in NotifiedPorts(r) : PostTo({s})
    <3>1. PICK s \in NotifiedPorts(r) : PostTo({s})
      BY <2>3
    <3>2. {s} \in SUBSET ports[r.fd]
      BY DEF NotifiedPorts
    <3> QED BY <1>1, <1>2, <1>5, <3>1, <3>2, PostKeeps
  <2> QED BY <1>5, <2>1, <2>2, <2>3 DEF Deliver
<1> QED BY <1>2, <1>4, <1>5

-----------------------------------------------------------------------------
(* A message that moves no token of a socket with a descriptor.            *)
LEMMA PlainKeeps ==
  ASSUME HandlerInv, pc = "process", batch # <<>>, batch' = Tail(batch),
         channel' = channel, UNCHANGED shape,
         Head(batch).cmd = "token" =>
           sfd[Head(batch).who] = None /\ kind[Head(batch).who] # "none"
  PROVE  HandlerInv'
<1>1. UNCHANGED <<loopback, kind, sfd, open, info, ports, tokens, inbox, destroyed,
                  pc, infos, seen>>
  BY DEF shape
<1>2. /\ channel' \in Seq(Messages) /\ batch' \in Seq(Messages)
      /\ \A i \in DOMAIN batch' :
           batch'[i].cmd \in Commands => kind'[batch'[i].who] # "none"
      /\ \A s \in Sockets : kind[s] = "none" \/ sfd[s] # None =>
           InFlight(s)' = InFlight(s)
  BY <1>1, Processed
<1>3. HandlerType' /\ DescriptorInv' /\ PortsInv' /\ FoundInv'
  BY <1>1, <1>2 DEF HandlerInv, HandlerType, DescriptorInv, DescriptorsOwned,
                    PortsInv, FoundInv
<1>4. RoundInv'
  BY <1>1 DEF HandlerInv, RoundInv
<1>5. KnownInv'
  BY <1>1, <1>2 DEF HandlerInv, KnownInv
<1>6. \A s \in Sockets : kind[s] = "none" \/ sfd[s] # None => (Kept(s)' <=> Kept(s))
  BY <1>1, <1>2 DEF Kept
<1>7. TokensInv'
  BY <1>1, <1>6 DEF HandlerInv, TokensInv
<1> QED BY <1>3, <1>4, <1>5, <1>7 DEF HandlerInv

(* Messages that concern no descriptor.                                    *)
LEMMA ProcessPlainKeeps ==
  ASSUME HandlerInv, ProcessTimer \/ ProcessShutdown \/ ProcessIgnored
  PROVE  HandlerInv'
<1>1. /\ pc = "process" /\ batch # <<>> /\ batch' = Tail(batch)
      /\ channel' = channel /\ UNCHANGED shape
  BY DEF ProcessTimer, ProcessShutdown, ProcessIgnored, NextMessage, shape,
         osVars, portVars, loopVars
<1>2. Head(batch).cmd = "token" => sfd[Head(batch).who] = None
  BY DEF ProcessTimer, ProcessShutdown, ProcessIgnored, NextMessage
<1>3. Head(batch).cmd = "token" => kind[Head(batch).who] # "none"
  <2>1. kind' = kind
    BY <1>1 DEF shape
  <2> QED BY <1>1, <2>1, Processed DEF Commands
<1> QED BY <1>1, <1>2, <1>3, PlainKeeps

(* The entry GetDescriptorInfo makes is named after a present user.        *)
LEMMA InfoMade ==
  ASSUME HandlerInv, pc # "gone", NEW s \in Sockets, sfd[s] # None
  PROVE  /\ sfd[s] \in Fds /\ sfd[s] \in open /\ kind[s] # "none"
         /\ GetDescriptorInfo(s) \in [Fds -> Sockets \cup {None}]
         /\ \A g \in Fds : GetDescriptorInfo(s)[g] # None =>
              /\ g \in open
              /\ \A t \in Sockets : sfd[t] = g =>
                   /\ kind[t] = kind[GetDescriptorInfo(s)[g]]
                   /\ kind[t] = "single" => GetDescriptorInfo(s)[g] = t
<1>1. sfd[s] \in Fds /\ sfd[s] \in open /\ kind[s] # "none"
  BY DEF HandlerInv, HandlerType, DescriptorInv, DescriptorsOwned
<1>2. \A t \in Sockets : sfd[t] = sfd[s] =>
        kind[t] = kind[s] /\ (kind[t] = "single" => t = s)
  BY DEF HandlerInv, DescriptorInv
<1>3. ASSUME NEW g \in Fds, info[g] # None
      PROVE  /\ g \in open
             /\ \A t \in Sockets : sfd[t] = g =>
                  kind[t] = kind[info[g]] /\ (kind[t] = "single" => info[g] = t)
  BY <1>3, InfoKnown
<1>4. info \in [Fds -> Sockets \cup {None}]
  BY DEF HandlerInv, HandlerType
<1>5. CASE info[sfd[s]] # None
  BY <1>1, <1>3, <1>4, <1>5 DEF GetDescriptorInfo
<1>6. CASE info[sfd[s]] = None
  <2>1. /\ GetDescriptorInfo(s) \in [Fds -> Sockets \cup {None}]
        /\ GetDescriptorInfo(s)[sfd[s]] = s
        /\ \A g \in Fds \ {sfd[s]} : GetDescriptorInfo(s)[g] = info[g]
    BY <1>1, <1>4, <1>6 DEF GetDescriptorInfo
  <2> HIDE DEF GetDescriptorInfo
  <2> QED BY <1>1, <1>2, <1>3, <2>1
<1> QED BY <1>5, <1>6

(* Masks, tokens and shutdowns of a socket that has its descriptor.        *)
LEMMA ProcessCommandKeeps == ASSUME HandlerInv, ProcessCommand PROVE HandlerInv'
<1>1. PICK s : s = Head(batch).who
  OBVIOUS
<1>2. /\ pc = "process" /\ batch # <<>> /\ batch' = Tail(batch)
      /\ Head(batch).cmd \in Commands \ {"close"}
      /\ sfd[s] # None /\ info' = GetDescriptorInfo(s)
      /\ \/ ports' = [ports EXCEPT ![sfd[s]] = @ \cup {s}]
         \/ ports' = ports
      /\ tokens' = IF Head(batch).cmd = "token" THEN [tokens EXCEPT ![s] = @ + 1]
                   ELSE tokens
      /\ UNCHANGED <<loopback, kind, sfd, open, inbox, channel, destroyed, pc,
                     infos, seen>>
  BY <1>1 DEF ProcessCommand, NextMessage, loopVars
<1>3. /\ s \in Sockets
      /\ channel' \in Seq(Messages) /\ batch' \in Seq(Messages)
      /\ \A i \in DOMAIN batch' :
           batch'[i].cmd \in Commands => kind'[batch'[i].who] # "none"
      /\ \A t \in Sockets :
           /\ InFlight(t) = IF Head(batch).cmd = "token" /\ s = t
                            THEN InFlight(t)' + 1 ELSE InFlight(t)'
           /\ InFlight(t)' \in Nat
  BY <1>1, <1>2, Processed DEF Commands
<1>4. /\ sfd[s] \in Fds /\ sfd[s] \in open
      /\ info' \in [Fds -> Sockets \cup {None}]
      /\ \A g \in Fds : info'[g] # None =>
           /\ g \in open
           /\ \A t \in Sockets : sfd[t] = g =>
                /\ kind[t] = kind[info'[g]]
                /\ kind[t] = "single" => info'[g] = t
  BY <1>2, <1>3, InfoMade
<1>5. /\ ports' \in [Fds -> SUBSET Sockets]
      /\ \A g \in Fds : ports'[g] \subseteq
           IF g = sfd[s] THEN ports[g] \cup {s} ELSE ports[g]
  <2>1. ports \in [Fds -> SUBSET Sockets]
    BY DEF HandlerInv, HandlerType
  <2>2. PICK f \in Fds : f = sfd[s]
    BY <1>4
  <2>3. CASE ports' = ports
    BY <2>1, <2>3
  <2>4. CASE ports' = [ports EXCEPT ![f] = @ \cup {s}]
    <3>1. ports[f] \cup {s} \in SUBSET Sockets
      BY <1>3, <2>1
    <3>2. ports' \in [Fds -> SUBSET Sockets]
      BY <2>1, <2>4, <3>1
    <3>3. \A g \in Fds : ports'[g] = IF g = f THEN ports[g] \cup {s} ELSE ports[g]
      BY <2>1, <2>4
    <3> QED BY <2>2, <3>2, <3>3
  <2> QED BY <1>2, <2>2, <2>3, <2>4
<1>6. /\ tokens' \in [Sockets -> Int]
      /\ \A t \in Sockets : tokens[t] \in Int /\ tokens'[t] >= tokens[t]
      /\ \A t \in Sockets :
           tokens'[t] = IF Head(batch).cmd = "token" /\ s = t
                        THEN tokens[t] + 1 ELSE tokens[t]
  BY <1>2, <1>3 DEF HandlerInv, HandlerType
<1>7. HandlerType'
  BY <1>2, <1>3, <1>4, <1>5, <1>6 DEF HandlerInv, HandlerType
<1>8. DescriptorInv'
  BY <1>2, <1>4 DEF HandlerInv, DescriptorInv, DescriptorsOwned
<1>9. PortsInv'
  BY <1>2, <1>5 DEF HandlerInv, PortsInv
<1>10. FoundInv'
  <2>1. \A r \in infos :
          kind[r.di] = "single" /\ sfd[r.di] = r.fd => tokens'[r.di] > 0
    BY <1>6 DEF HandlerInv, FoundInv
  <2> QED BY <1>2, <2>1 DEF HandlerInv, FoundInv
<1>11. RoundInv'
  BY <1>2 DEF HandlerInv, RoundInv
<1>12. KnownInv'
  BY <1>2, <1>3 DEF HandlerInv, KnownInv
<1>13. TokensInv'
  <2> SUFFICES ASSUME NEW t \in Sockets
               PROVE  /\ kind[t] # "listening" => tokens'[t] >= 0
                      /\ kind[t] = "none" \/ sfd[t] # None => Kept(t)'
    BY <1>2 DEF TokensInv
  <2>1. /\ tokens[t] \in Int /\ inbox[t] \in Nat /\ InFlight(t)' \in Nat
        /\ inbox'[t] = inbox[t]
    BY <1>2, <1>3 DEF HandlerInv, HandlerType
  <2>2. \/ tokens'[t] = tokens[t] + 1 /\ InFlight(t) = InFlight(t)' + 1
        \/ tokens'[t] = tokens[t] /\ InFlight(t) = InFlight(t)'
    BY <1>3, <1>6
  <2>3. tokens'[t] + inbox'[t] + InFlight(t)' = tokens[t] + inbox[t] + InFlight(t)
    BY <2>1, <2>2
  <2>4. Kept(t)' <=> Kept(t)
    BY <2>3 DEF Kept
  <2>5. kind[t] # "listening" => tokens'[t] >= 0
    BY <1>6 DEF HandlerInv, TokensInv
  <2> QED BY <2>4, <2>5 DEF HandlerInv, TokensInv
<1> QED BY <1>7, <1>8, <1>9, <1>10, <1>11, <1>12, <1>13 DEF HandlerInv

(* The descriptor goes with its last user, and the entry with it.          *)
LEMMA ProcessCloseKeeps == ASSUME HandlerInv, ProcessClose PROVE HandlerInv'
<1>1. PICK s : s = Head(batch).who
  OBVIOUS
<1>2. /\ pc = "process" /\ batch # <<>> /\ batch' = Tail(batch)
      /\ Head(batch).cmd = "close" /\ sfd[s] # None
      /\ sfd' = [sfd EXCEPT ![s] = None]
      /\ destroyed' = [destroyed EXCEPT ![s] = @ + 1]
      /\ UNCHANGED <<loopback, kind, tokens, inbox, channel, pc, infos, seen>>
  BY <1>1 DEF ProcessClose, NextMessage, loopVars
<1>3. /\ s \in Sockets
      /\ channel' \in Seq(Messages) /\ batch' \in Seq(Messages)
      /\ \A i \in DOMAIN batch' :
           batch'[i].cmd \in Commands => kind'[batch'[i].who] # "none"
      /\ \A t \in Sockets : InFlight(t) = InFlight(t)'
  BY <1>1, <1>2, Processed DEF Commands
<1>4. PICK f \in Fds : f = sfd[s] /\ f # None /\ f \in open /\ kind[s] # "none"
  BY <1>2, <1>3, InfoMade
<1>5. /\ sfd' \in [Sockets -> Fds \cup {None}] /\ sfd'[s] = None
      /\ \A t \in Sockets \ {s} : sfd'[t] = sfd[t]
      /\ destroyed' \in [Sockets -> Nat]
      /\ \A t \in Sockets \ {s} : destroyed'[t] = destroyed[t]
  BY <1>2, <1>3 DEF HandlerInv, HandlerType
<1>6. ASSUME kind[s] = "single" \/ CloseSafe(s)
      PROVE  /\ open' = open \ {f}
             /\ info' = [info EXCEPT ![f] = None]
             /\ ports' = [ports EXCEPT ![f] = {}]
             /\ \A t \in Sockets \ {s} : sfd[t] # f
  <2>1. RemoveInfo(f)
    BY <1>1, <1>4, <1>6 DEF ProcessClose
  <2>2. \A t \in Sockets \ {s} : sfd[t] # f
    BY <1>3, <1>4, <1>6 DEF CloseSafe, HandlerInv, DescriptorInv
  <2> QED BY <2>1, <2>2 DEF RemoveInfo
<1>7. ASSUME ~(kind[s] = "single" \/ CloseSafe(s))
      PROVE  /\ open' = open /\ info' = GetDescriptorInfo(s)
             /\ ports' = [ports EXCEPT ![f] = @ \ {s}]
             /\ \E t \in Sockets \ {s} : sfd[t] = f
  BY <1>1, <1>4, <1>7 DEF ProcessClose, CloseSafe, RemovePort
<1>8. /\ open' \subseteq Fds /\ open' = {sfd'[t] : t \in Sockets} \ {None}
      /\ info' \in [Fds -> Sockets \cup {None}]
      /\ ports' \in [Fds -> SUBSET Sockets]
      /\ \A g \in Fds : ports'[g] \subseteq ports[g] \ {s}
      /\ \A g \in Fds : info'[g] # None =>
           /\ g \in open'
           /\ \A t \in Sockets \ {s} : sfd[t] = g =>
                /\ kind[t] = kind[info'[g]]
                /\ kind[t] = "single" => info'[g] = t
  <2>1. /\ open = {sfd[t] : t \in Sockets} \ {None} /\ open \subseteq Fds
        /\ info \in [Fds -> Sockets \cup {None}]
        /\ ports \in [Fds -> SUBSET Sockets]
        /\ \A g \in Fds \ {f} : s \notin ports[g]
    BY <1>2, <1>4 DEF HandlerInv, HandlerType, DescriptorInv, DescriptorsOwned, PortsInv
  <2>2. \A g \in Fds : info[g] # None =>
          /\ g \in open
          /\ \A t \in Sockets : sfd[t] = g =>
               kind[t] = kind[info[g]] /\ (kind[t] = "single" => info[g] = t)
    BY <1>2, InfoKnown
  <2>3. CASE kind[s] = "single" \/ CloseSafe(s)
    <3>1. open' = {sfd'[t] : t \in Sockets} \ {None}
      <4>1. \A g : g \in {sfd'[t] : t \in Sockets} \ {None}
                     <=> g # None /\ \E t \in Sockets \ {s} : sfd[t] = g
        BY <1>3, <1>5
      <4>2. \A g : g \in open \ {f}
                     <=> g # None /\ \E t \in Sockets \ {s} : sfd[t] = g
        BY <1>3, <1>4, <1>6, <2>1, <2>3
      <4> QED BY <1>6, <2>3, <4>1, <4>2
    <3>2. /\ info'[f] = None /\ ports'[f] = {}
          /\ \A g \in Fds \ {f} : info'[g] = info[g] /\ ports'[g] = ports[g]
          /\ info' \in [Fds -> Sockets \cup {None}]
          /\ ports' \in [Fds -> SUBSET Sockets]
      BY <1>4, <1>6, <2>1, <2>3
    <3>3. open' \subseteq Fds /\ \A g \in Fds \ {f} : g \in open => g \in open'
      BY <1>6, <2>1, <2>3
    <3>4. \A g \in Fds : ports'[g] \subseteq ports[g] \ {s}
      BY <2>1, <3>2
    <3>5. ASSUME NEW g \in Fds, info'[g] # None
          PROVE  /\ g \in open'
                 /\ \A t \in Sockets \ {s} : sfd[t] = g =>
                      /\ kind[t] = kind[info'[g]]
                      /\ kind[t] = "single" => info'[g] = t
      BY <2>2, <3>2, <3>3, <3>5
    <3> QED BY <3>1, <3>2, <3>3, <3>4, <3>5
  <2>4. CASE ~(kind[s] = "single" \/ CloseSafe(s))
    <3>1. open' = {sfd'[t] : t \in Sockets} \ {None}
      BY <1>3, <1>4, <1>5, <1>7, <2>1, <2>4
    <3>2. /\ info' \in [Fds -> Sockets \cup {None}]
          /\ \A g \in Fds : info'[g] # None =>
               /\ g \in open
               /\ \A t \in Sockets : sfd[t] = g =>
                    kind[t] = kind[info'[g]] /\ (kind[t] = "single" => info'[g] = t)
      BY <1>2, <1>3, <1>7, <2>4, InfoMade
    <3>3. /\ ports' \in [Fds -> SUBSET Sockets]
          /\ \A g \in Fds : ports'[g] \subseteq ports[g] \ {s}
      BY <1>4, <1>7, <2>1, <2>4
    <3> QED BY <1>7, <2>1, <2>4, <3>1, <3>2, <3>3
  <2> QED BY <2>3, <2>4
<1>9. HandlerType'
  BY <1>2, <1>3, <1>5, <1>8 DEF HandlerInv, HandlerType
<1>10. DescriptorInv'
  <2>1. \A t \in Sockets : sfd'[t] # None => t # s /\ sfd'[t] = sfd[t]
    BY <1>5
  <2>2. /\ \A t \in Sockets : sfd'[t] # None => kind'[t] # "none"
        /\ \A t, u \in Sockets :
             t # u /\ sfd'[t] # None /\ sfd'[t] = sfd'[u] => kind'[t] = "listening"
    BY <1>2, <2>1 DEF HandlerInv, DescriptorInv
  <2>3. DescriptorsOwned'
    <3>1. \A g \in Fds : g # None
      BY EventHandlerAssumption
    <3>2. ASSUME NEW g \in Fds, info'[g] # None, NEW t \in Sockets, sfd'[t] = g
          PROVE  kind[t] = kind[info'[g]] /\ (kind[t] = "single" => info'[g] = t)
      <4>1. t \in Sockets \ {s} /\ sfd[t] = g
        BY <2>1, <3>1, <3>2
      <4> QED BY <1>8, <3>2, <4>1
    <3> QED BY <1>2, <1>8, <3>2 DEF DescriptorsOwned
  <2> QED BY <2>2, <2>3 DEF DescriptorInv
<1>11. PortsInv'
  BY <1>5, <1>8 DEF HandlerInv, HandlerType, PortsInv
<1>12. FoundInv'
  <2>1. \A r \in infos : sfd'[r.di] = r.fd => sfd[r.di] = r.fd
    BY <1>5, EventHandlerAssumption DEF HandlerInv, FoundInv
  <2> QED BY <1>2, <2>1 DEF HandlerInv, FoundInv
<1>13. RoundInv'
  BY <1>2 DEF HandlerInv, RoundInv
<1>14. KnownInv'
  <2>1. \A t \in Sockets : destroyed'[t] > 0 => kind[t] # "none" /\ sfd'[t] = None
    BY <1>4, <1>5 DEF HandlerInv, KnownInv
  <2> QED BY <1>2, <1>3, <2>1 DEF HandlerInv, KnownInv
<1>15. TokensInv'
  <2>1. \A t \in Sockets : Kept(t)' <=> Kept(t)
    BY <1>2, <1>3 DEF Kept
  <2>2. \A t \in Sockets : sfd'[t] # None => sfd[t] # None
    BY <1>5
  <2> QED BY <1>2, <2>1, <2>2 DEF HandlerInv, TokensInv
<1> QED BY <1>9, <1>10, <1>11, <1>12, <1>13, <1>14, <1>15 DEF HandlerInv

(* The destructor of the handler closes every descriptor in socket_map_.   *)
LEMMA DestroyKeeps == ASSUME HandlerInv, Destroy PROVE HandlerInv'
<1>1. /\ pc = "end" /\ pc' = "gone" /\ open' \subseteq open
      /\ info' = [f \in Fds |-> None] /\ ports' = [f \in Fds |-> {}]
      /\ UNCHANGED <<loopback, kind, sfd, tokens, inbox, channel, batch, infos,
                     seen, destroyed>>
  BY DEF Destroy
<1>2. HandlerType' /\ PortsInv' /\ FoundInv' /\ DescriptorInv'
  BY <1>1 DEF HandlerInv, HandlerType, PortsInv, FoundInv, DescriptorInv,
              DescriptorsOwned
<1>3. RoundInv'
  BY <1>1 DEF HandlerInv, RoundInv
<1>4. KnownInv'
  BY <1>1 DEF HandlerInv, KnownInv
<1>5. \A s \in Sockets : Kept(s)' <=> Kept(s)
  BY <1>1 DEF Kept, InFlight, Count
<1>6. TokensInv'
  BY <1>1, <1>5 DEF HandlerInv, TokensInv
<1> QED BY <1>2, <1>3, <1>4, <1>6 DEF HandlerInv

-----------------------------------------------------------------------------
(* At the start there is no socket and no message.                         *)
LEMMA InitHolds == ASSUME Init PROVE HandlerInv
<1>1. HandlerType
  BY EmptySeq, EventHandlerAssumption DEF Init, HandlerType
<1>2. DescriptorInv /\ PortsInv /\ FoundInv /\ RoundInv
  BY DEF Init, DescriptorInv, DescriptorsOwned, PortsInv, FoundInv, RoundInv
<1>3. KnownInv
  BY DEF Init, KnownInv
<1>4. TokensInv
  <2>1. \A s \in Sockets : InFlight(s) = 0
    BY CountEmpty DEF Init, InFlight
  <2> QED BY <2>1, EventHandlerAssumption DEF Init, TokensInv, Kept
<1> QED BY <1>1, <1>2, <1>3, <1>4 DEF HandlerInv

(* What Dart does: sockets are opened and shared, messages go off.         *)
LEMMA DartKeeps == ASSUME HandlerInv, Dart PROVE HandlerInv'
<1>1. ASSUME NEW s \in Sockets, NEW t \in Sockets, ShareListener(s, t)
      PROVE  HandlerInv'
  BY <1>1, ShareListenerKeeps
<1>2. ASSUME NEW s \in Sockets, NEW f \in Fds, OpenSocket(s, f) PROVE HandlerInv'
  BY <1>2, OpenSocketKeeps
<1>3. ASSUME NEW s \in Sockets, SendToken(s) PROVE HandlerInv'
  BY <1>3, SendTokenKeeps
<1>4. ASSUME NEW s \in Sockets, SendMask(s) PROVE HandlerInv'
  <2>1. PICK a \in SUBSET Interests : channel' = Append(channel, Message("mask", s, a))
    BY <1>4 DEF SendMask, SendData
  <2>2. kind[s] # "none" /\ UNCHANGED <<batch, shape>>
    BY <1>4 DEF SendMask, Unasked, shape, osVars, portVars, loopVars
  <2>3. /\ Message("mask", s, a) \in Messages
        /\ Message("mask", s, a).cmd = "mask" /\ Message("mask", s, a).who = s
    BY MessageFacts DEF Message
  <2> QED BY <2>1, <2>2, <2>3, SendKeeps
<1>5. ASSUME NEW s \in Sockets, NEW c \in {"close", "shutdownRead", "shutdownWrite"},
             kind[s] # "none", SendData(Message(c, s, {})), UNCHANGED <<batch, shape>>
      PROVE  HandlerInv'
  <2>1. /\ Message(c, s, {}) \in Messages
        /\ Message(c, s, {}).cmd = c /\ Message(c, s, {}).who = s /\ c # "token"
    BY MessageFacts DEF Message
  <2> QED BY <1>5, <2>1, SendKeeps DEF SendData
<1>6. ASSUME NEW s \in Sockets, SendShutdown(s) \/ SendClose(s) \/ Finalize(s)
      PROVE  HandlerInv'
  <2>1. UNCHANGED <<batch, shape>>
    BY <1>6 DEF SendShutdown, SendClose, Finalize, shape, osVars, portVars, loopVars
  <2>2. kind[s] # "none"
    BY <1>6 DEF SendShutdown, SendClose, Finalize, Unasked, HandlerInv, DescriptorInv
  <2> QED BY <1>5, <1>6, <2>1, <2>2 DEF SendShutdown, SendClose, Finalize
<1>7. ASSUME NEW t \in Timers, SendTimer(t) PROVE HandlerInv'
  <2>1. PICK on \in BOOLEAN : channel' = Append(channel, Message("timer", t, on))
    BY <1>7 DEF SendTimer, SendData
  <2>2. UNCHANGED <<batch, shape>>
    BY <1>7 DEF SendTimer, shape, osVars, portVars, loopVars
  <2>3. Message("timer", t, on) \in Messages /\ Message("timer", t, on).cmd = "timer"
    BY DEF Message, Messages
  <2> QED BY <2>1, <2>2, <2>3, SendKeeps DEF Commands
<1>8. ASSUME Shutdown PROVE HandlerInv'
  <2>1. channel' = Append(channel, Message("shutdown", None, None))
    BY <1>8 DEF Shutdown, SendData
  <2>2. UNCHANGED <<batch, shape>>
    BY <1>8 DEF Shutdown, shape, osVars, portVars, loopVars
  <2>3. /\ Message("shutdown", None, None) \in Messages
        /\ Message("shutdown", None, None).cmd = "shutdown"
    BY DEF Message, Messages
  <2> QED BY <2>1, <2>2, <2>3, SendKeeps DEF Commands
<1> QED BY <1>1, <1>2, <1>3, <1>4, <1>6, <1>7, <1>8 DEF Dart

(* Dart, the network and the time keep the invariant at any point of a     *)
(* round.                                                                  *)
LEMMA SystemKeeps == ASSUME HandlerInv, System PROVE HandlerInv'
<1>1. UNCHANGED <<shape, channel, batch>>
  BY DEF System, Arrive, Consume, Elapse, shape, osVars, portVars, loopVars
<1> QED BY <1>1, Untouched

(* Every step of the handler keeps the invariant.                          *)
LEMMA HandlerKeeps == ASSUME HandlerInv, Handler PROVE HandlerInv'
BY PollReturnsKeeps, TakeQueueKeeps, ReadChannelKeeps, BatchDoneKeeps,
   ServeTimerKeeps, DispatchKeeps, DispatchDoneKeeps, ProcessPlainKeeps,
   ProcessCommandKeeps, ProcessCloseKeeps DEF Handler

(* The invariant is inductive.                                             *)
LEMMA NextKeeps == ASSUME HandlerInv, [Next]_vars PROVE HandlerInv'
<1>1. CASE UNCHANGED vars
  <2>1. UNCHANGED <<shape, channel, batch>>
    BY <1>1 DEF vars, shape, osVars, portVars, loopVars
  <2> QED BY <2>1, Untouched
<1>2. CASE Next
  BY <1>2, DartKeeps, SystemKeeps, HandlerKeeps, PollFailsKeeps, ReadFailsKeeps,
     DestroyKeeps DEF Next
<1> QED BY <1>1, <1>2

(* The invariant of the event handler: who has which descriptor and which  *)
(* DescriptorInfo, where every token is, and which message of whom is      *)
(* under way.                                                              *)
THEOREM HandlerInvariant == Safety => []HandlerInv
<1>1. Init => HandlerInv
  BY InitHolds
<1>2. HandlerInv /\ [Next]_vars => HandlerInv'
  BY NextKeeps
<1> QED BY <1>1, <1>2, PTL DEF Safety

(* Over the loopback pair every descriptor poll has reported still has its *)
(* DescriptorInfo when its events are worked on, because the messages that *)
(* could delete it are read after the events of the round.                 *)
THEOREM LoopbackKeepsOrder == Safety => []LoopbackOrder
<1>1. HandlerInv => LoopbackOrder
  BY DEF HandlerInv, RoundInv, LoopbackOrder, EventsBeforeMessages
<1> QED BY <1>1, HandlerInvariant, PTL

(* The descriptors of the sockets are the open ones, and an entry of       *)
(* socket_map_ belongs to the sockets that use its number now: the number  *)
(* that is given out again meets nothing of its last owner.                *)
THEOREM DescriptorsHaveOwners == Safety => []DescriptorsOwned
<1>1. HandlerInv => DescriptorsOwned
  BY DEF HandlerInv, DescriptorInv
<1> QED BY <1>1, HandlerInvariant, PTL

(* Tokens with the port, events with Dart and tokens on their way back add *)
(* up to kTokenCount, and the port of a single socket is never more than   *)
(* that many events behind.                                                *)
THEOREM TokensAreConserved == Safety => []TokensConserved
<1>1. HandlerInv => TokensConserved
  <2> SUFFICES ASSUME HandlerInv, NEW s \in Sockets, sfd[s] # None
               PROVE  /\ tokens[s] + inbox[s] + InFlight(s) = Tokens
                      /\ kind[s] = "single" => inbox[s] <= Tokens
    BY DEF TokensConserved
  <2>1. tokens[s] + inbox[s] + InFlight(s) = Tokens
    BY DEF HandlerInv, TokensInv, Kept
  <2>2. tokens[s] \in Int /\ inbox[s] \in Nat /\ InFlight(s) \in Nat /\ Tokens \in Nat
    BY InFlightType, EventHandlerAssumption DEF HandlerInv, HandlerType
  <2>3. kind[s] = "single" => tokens[s] >= 0
    BY DEF HandlerInv, TokensInv
  <2> QED BY <2>1, <2>2, <2>3
<1> QED BY <1>1, HandlerInvariant, PTL

(* What a step does to a port that has had its kDestroyedEvent: an event   *)
(* is posted only to ports of a DescriptorInfo, all with a descriptor.     *)
LEMMA DestroyedStays ==
  ASSUME HandlerInv, [Next]_vars, NEW s \in Sockets, destroyed[s] > 0
  PROVE  inbox'[s] <= inbox[s] /\ destroyed'[s] = destroyed[s]
<1>1. sfd[s] = None /\ inbox[s] \in Nat /\ inbox \in [Sockets -> Nat]
  BY DEF HandlerInv, HandlerType, KnownInv
<1>2. CASE inbox' = inbox /\ destroyed' = destroyed
  BY <1>1, <1>2
<1>3. ASSUME NEW t \in Sockets, SendToken(t)
      PROVE  inbox'[s] <= inbox[s] /\ destroyed'[s] = destroyed[s]
  BY <1>1, <1>3 DEF SendToken
<1>4. CASE Dispatch
  <2>1. destroyed' = destroyed
    BY <1>4 DEF Dispatch
  <2>2. ASSUME NEW f \in Fds, NEW R \in SUBSET ports[f], PostTo(R)
        PROVE  inbox'[s] <= inbox[s]
    <3>1. s \notin R
      BY <1>1, EventHandlerAssumption DEF HandlerInv, PortsInv
    <3> QED BY <1>1, <2>2, <3>1 DEF PostTo
  <2>3. PICK r \in infos : Deliver(r) \/ inbox' = inbox
    BY <1>4 DEF Dispatch
  <2>4. r.fd \in Fds
    BY DEF HandlerInv, FoundInv
  <2>5. CASE inbox' = inbox
    BY <1>1, <2>1, <2>5
  <2>6. CASE PostTo(ports[r.fd])
    BY <2>1, <2>2, <2>4, <2>6
  <2>7. CASE \E p \in NotifiedPorts(r) : PostTo({p})
    <3>1. PICK p \in NotifiedPorts(r) : PostTo({p})
      BY <2>7
    <3>2. {p} \in SUBSET ports[r.fd]
      BY DEF NotifiedPorts
    <3> QED BY <2>1, <2>2, <2>4, <3>1, <3>2
  <2> QED BY <2>3, <2>5, <2>6, <2>7 DEF Deliver
<1>5. CASE ProcessClose
  <2>1. PICK t : t = Head(batch).who
    OBVIOUS
  <2>2. inbox' = inbox /\ sfd[t] # None /\ destroyed' = [destroyed EXCEPT ![t] = @ + 1]
    BY <1>5, <2>1 DEF ProcessClose
  <2> QED BY <1>1, <2>2 DEF HandlerInv, HandlerType
<1>6. CASE UNCHANGED vars
  BY <1>2, <1>6 DEF vars, portVars
<1>7. CASE Next
  <2>1. CASE Dart
    BY <1>2, <1>3, <2>1
       DEF Dart, SendMask, SendShutdown, SendClose, Finalize, ShareListener,
           OpenSocket, SendTimer, Shutdown, portVars
  <2>2. CASE System
    BY <1>2, <2>2 DEF System, Arrive, Consume, Elapse, portVars
  <2>3. CASE Handler
    BY <1>2, <1>4, <1>5, <2>3
       DEF Handler, PollReturns, TakeQueue, ReadChannel, BatchDone, ServeTimer,
           DispatchDone, ProcessTimer, ProcessShutdown, ProcessIgnored,
           ProcessCommand, portVars
  <2>4. CASE PollFails \/ ReadFails \/ Destroy
    BY <1>2, <2>4 DEF PollFails, ReadFails, Destroy, portVars
  <2> QED BY <1>7, <2>1, <2>2, <2>3, <2>4 DEF Next
<1> QED BY <1>6, <1>7

(* kDestroyedEvent is the last event a port gets, and it gets it once,     *)
(* whatever messages of the closed socket are still processed.             *)
THEOREM DestroyedComesLast == Safety => DestroyedIsLast
<1>1. HandlerInv /\ [Next]_vars =>
        [\A s \in Sockets : destroyed[s] > 0 =>
           inbox'[s] <= inbox[s] /\ destroyed'[s] = destroyed[s]]_vars
  BY DestroyedStays
<1> QED BY <1>1, HandlerInvariant, PTL DEF Safety, DestroyedIsLast
=============================================================================
