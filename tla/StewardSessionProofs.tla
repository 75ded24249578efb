------------------------ MODULE StewardSessionProofs ------------------------
(***************************************************************************)
(* Proofs about StewardSession, for any set of connections, any epochs and *)
(* any limits either side may advertise.                                   *)
(*                                                                         *)
(* A connection shares nothing with the others, so the inductive invariant *)
(* is a predicate of one connection, and each action keeps it of the       *)
(* connection it moves and leaves the state of the others alone.           *)
(***************************************************************************)
EXTENDS StewardSession, TLAPS

\* The connections after accept has looked at a Hello.
Decided(c) == pc[c] \in {"refusing", "acking", "established"}

\* A body buffer exists only while the body is read, and only for a frame
\* that passed the size check.
BufferInv(c) ==
  /\ reserved[c] <= MAX_HELLO_SIZE
  /\ pc[c] # "body" => reserved[c] = 0
  /\ pc[c] = "body" => sent[c] # NoFrame

\* What accept decided follows from the Hello and the epoch it was given.
VerdictInv(c) ==
  /\ Decided(c) => sent[c] \in Hellos
  /\ pc[c] = "refusing" => current[c] > sent[c].epoch
  /\ pc[c] \in {"acking", "established"} => sent[c].epoch >= current[c]

\* The session of an established connection, which no other connection has.
SessionInv(c) ==
  IF pc[c] = "established"
  THEN /\ session[c].epoch = sent[c].epoch
       /\ session[c].limits = negotiate(LocalLimits, sent[c].limits)
  ELSE session[c] = NoSession

\* The frame on its way to the host is one that accept wrote.
ReplyInv(c) ==
  reply[c] # NoFrame =>
    \/ pc[c] = "established" /\ reply[c] = Ack(c)
    \/ /\ pc[c] = "closed" /\ reply[c] = Refusal(c)
       /\ current[c] > sent[c].epoch

\* What the host has learnt is what accept wrote, with the limits both keep.
HostInv(c) ==
  host[c] # NoFrame =>
    \/ /\ pc[c] = "established" /\ host[c].kind = "ack"
       /\ host[c].epoch = sent[c].epoch
       /\ host[c].limits = negotiate(sent[c].limits, LocalLimits)
    \/ /\ pc[c] = "closed" /\ host[c] = Refusal(c)
       /\ current[c] > sent[c].epoch

ConnectionInv(c) ==
  BufferInv(c) /\ VerdictInv(c) /\ SessionInv(c) /\ ReplyInv(c) /\ HostInv(c)

IInv == TypeOK /\ \A c \in Connections : ConnectionInv(c)

-----------------------------------------------------------------------------
(* The protocol library *)

\* The smaller of two numbers, whichever way round they are given.
LEMMA MinPair ==
  ASSUME NEW a \in Nat, NEW b \in Nat
  PROVE  Min({a, b}) = IF a <= b THEN a ELSE b
<1> DEFINE P(x) == x \in {a, b} /\ \A y \in {a, b} : x <= y
           m == CHOOSE x : P(x)
<1>1. \E x : P(x)
  <2>1. P(a) \/ P(b)
    OBVIOUS
  <2> QED
    BY <2>1
<1>2. P(m)
  BY <1>1, Zenon
<1>3. Min({a, b}) = m
  BY Zenon DEF Min
<1> QED
  BY <1>2, <1>3

\* Negotiation gives limits, and both sides compute the same ones.
LEMMA NegotiateSymmetric ==
  ASSUME NEW l \in AllLimits, NEW p \in AllLimits
  PROVE  negotiate(l, p) \in AllLimits /\ negotiate(l, p) = negotiate(p, l)
<1>1. /\ l.max_frame_size \in Nat /\ p.max_frame_size \in Nat
      /\ l.chunk_size \in Nat /\ p.chunk_size \in Nat
  BY DEF AllLimits
<1>2. /\ Min({l.max_frame_size, p.max_frame_size}) \in Nat
      /\ Min({l.max_frame_size, p.max_frame_size}) = Min({p.max_frame_size, l.max_frame_size})
  BY <1>1, MinPair
<1>3. /\ Min({l.chunk_size, p.chunk_size}) \in Nat
      /\ Min({l.chunk_size, p.chunk_size}) = Min({p.chunk_size, l.chunk_size})
  BY <1>1, MinPair
<1> QED
  BY <1>2, <1>3 DEF negotiate, AllLimits

\* The host's and the agent's limits are limits.
LEMMA LimitsTyped ==
  LocalLimits \in AllLimits /\ PeerLimits \subseteq AllLimits
BY LimitsAssumption DEF AllLimits

\* A Hello carries a version, a positive epoch and limits.
LEMMA HelloFields ==
  ASSUME NEW h \in Hellos
  PROVE  h # NoFrame /\ h.kind = "hello" /\ h.epoch \in Epochs /\ h.limits \in AllLimits
BY LimitsTyped DEF Hellos, NoFrame

-----------------------------------------------------------------------------
(* Every action of the host and of accept keeps IInv. *)

\* What a connection's variables do not change, its invariant does not see.
LEMMA Frame ==
  ASSUME NEW c \in Connections, ConnectionInv(c),
         UNCHANGED <<pc[c], current[c], sent[c], reserved[c], session[c], reply[c], host[c]>>
  PROVE  ConnectionInv(c)'
BY DEF ConnectionInv, Decided, BufferInv, VerdictInv, SessionInv, ReplyInv, HostInv, Ack, Refusal

\* A task starts with nothing read and nothing allocated.
LEMMA ConnectPreserves ==
  ASSUME IInv, NEW c \in Connections, NEW held \in Currents, Connect(c, held)
  PROVE  IInv'
<1>1. TypeOK'
  BY EpochsAssumption DEF IInv, TypeOK, Connect
<1>2. ASSUME NEW x \in Connections, x # c PROVE ConnectionInv(x)'
  BY <1>2, Frame DEF IInv, TypeOK, Connect
<1>3. ConnectionInv(c)'
  BY DEF IInv, TypeOK, Connect, ConnectionInv, Decided, BufferInv, VerdictInv, SessionInv,
         ReplyInv, HostInv, Ack, Refusal
<1> QED
  BY <1>1, <1>2, <1>3 DEF IInv

\* The first frame arrives before accept has looked at anything.
LEMMA SendPreserves ==
  ASSUME IInv, NEW c \in Connections, NEW frame \in Hellos \cup Others, Send(c, frame)
  PROVE  IInv'
<1>1. TypeOK'
  BY DEF IInv, TypeOK, Send
<1>2. ASSUME NEW x \in Connections, x # c PROVE ConnectionInv(x)'
  BY <1>2, Frame DEF IInv, TypeOK, Send
<1>3. ConnectionInv(c)'
  BY DEF IInv, TypeOK, Send, ConnectionInv, Decided, BufferInv, VerdictInv, SessionInv,
         ReplyInv, HostInv, Ack, Refusal
<1> QED
  BY <1>1, <1>2, <1>3 DEF IInv

\* A cut connection changes nothing accept has decided.
LEMMA SeverPreserves ==
  ASSUME IInv, NEW c \in Connections, Sever(c)
  PROVE  IInv'
<1>1. TypeOK'
  BY DEF IInv, TypeOK, Sever
<1>2. ASSUME NEW x \in Connections PROVE ConnectionInv(x)'
  BY Frame DEF IInv, TypeOK, Sever
<1> QED
  BY <1>1, <1>2 DEF IInv

\* The host computes from the acknowledgement the limits the agent keeps.
LEMMA HostReceivesPreserves ==
  ASSUME IInv, NEW c \in Connections, HostReceives(c)
  PROVE  IInv'
<1>1. ASSUME NEW x \in Connections, x # c PROVE ConnectionInv(x)'
  BY <1>1, Frame DEF IInv, TypeOK, HostReceives
<1>2. ConnectionInv(c) /\ reply[c] # NoFrame
  BY DEF IInv, HostReceives
<1>3. CASE pc[c] = "established"
  <2>1. sent[c] \in Hellos /\ reply[c] = Ack(c)
    BY <1>2, <1>3 DEF ConnectionInv, VerdictInv, ReplyInv, Decided
  <2> DEFINE heard == [kind |-> "ack", epoch |-> sent[c].epoch,
                       limits |-> negotiate(sent[c].limits, LocalLimits)]
  <2>2. host' = [host EXCEPT ![c] = heard]
    <3>1. reply[c].kind = "ack" /\ reply[c].limits = LocalLimits
      BY <2>1 DEF Ack
    <3>2. [Ack(c) EXCEPT !.limits = negotiate(sent[c].limits, LocalLimits)] = heard
      BY DEF Ack
    <3> QED
      BY <2>1, <3>1, <3>2 DEF HostReceives
  <2>3. heard \in Replies
    BY <2>1, HelloFields, LimitsTyped, NegotiateSymmetric DEF Replies
  <2>4. TypeOK'
    BY <2>2, <2>3 DEF IInv, TypeOK, HostReceives
  <2>5. ConnectionInv(c)'
    BY <1>2, <1>3, <2>2 DEF IInv, TypeOK, HostReceives, ConnectionInv, Decided, BufferInv,
                            VerdictInv, SessionInv, ReplyInv, HostInv, Ack, Refusal
  <2> QED
    BY <1>1, <2>4, <2>5 DEF IInv
<1>4. CASE pc[c] # "established"
  <2>1. reply[c] = Refusal(c) /\ pc[c] = "closed" /\ current[c] > sent[c].epoch
    BY <1>2, <1>4 DEF ConnectionInv, ReplyInv
  <2>2. host' = [host EXCEPT ![c] = Refusal(c)]
    BY <2>1 DEF HostReceives, Refusal
  <2>3. Refusal(c) \in Replies
    BY <1>2, <2>1 DEF IInv, TypeOK
  <2>4. TypeOK'
    BY <2>2, <2>3 DEF IInv, TypeOK, HostReceives
  <2>5. ConnectionInv(c)'
    BY <1>2, <2>1, <2>2 DEF IInv, TypeOK, HostReceives, ConnectionInv, Decided, BufferInv,
                            VerdictInv, SessionInv, ReplyInv, HostInv, Ack, Refusal
  <2> QED
    BY <1>1, <2>4, <2>5 DEF IInv
<1> QED
  BY <1>3, <1>4

\* Only a length within the ceiling is allocated.
LEMMA ReadPrefixPreserves ==
  ASSUME IInv, NEW c \in Connections, ReadPrefix(c)
  PROVE  IInv'
<1>1. sent[c] \in Hellos \cup Others /\ sent[c].len \in Nat
  BY SizeAssumption DEF IInv, TypeOK, ReadPrefix, Hellos, Others
<1>2. TypeOK'
  BY <1>1 DEF IInv, TypeOK, ReadPrefix
<1>3. ASSUME NEW x \in Connections, x # c PROVE ConnectionInv(x)'
  BY <1>3, Frame DEF IInv, TypeOK, ReadPrefix
<1>4. ConnectionInv(c)'
  BY <1>1, SizeAssumption
  DEF IInv, TypeOK, ReadPrefix, ConnectionInv, Decided, BufferInv, VerdictInv, SessionInv,
      ReplyInv, HostInv, Ack, Refusal
<1> QED
  BY <1>2, <1>3, <1>4 DEF IInv

\* A verdict other than RejectStale means the epoch is not below the one held.
LEMMA VerdictMeans ==
  ASSUME NEW c \in Connections, current[c] \in Nat, sent[c].epoch \in Nat
  PROVE  /\ Verdict(c) = "RejectStale" => current[c] > sent[c].epoch
         /\ Verdict(c) # "RejectStale" =>
              sent[c].epoch >= current[c] /\ Verdict(c) \in {"Join", "Supersede"}
BY DEF Verdict, evaluate, None

\* The buffer is released whatever the body turns out to be.
LEMMA ReadBodyPreserves ==
  ASSUME IInv, NEW c \in Connections, ReadBody(c)
  PROVE  IInv'
<1>1. TypeOK'
  BY DEF IInv, TypeOK, ReadBody
<1>2. ASSUME NEW x \in Connections, x # c PROVE ConnectionInv(x)'
  BY <1>2, Frame DEF IInv, TypeOK, ReadBody
<1>3. pc[c] = "body" /\ ConnectionInv(c) /\ sent[c] \in Hellos \cup Others
  BY DEF IInv, TypeOK, ReadBody, ConnectionInv, BufferInv
<1>4. CASE sent[c].kind # "hello" \/ sent[c].version # PROTOCOL_VERSION
  <2>1. pc' = [pc EXCEPT ![c] = "closed"]
    BY <1>4 DEF ReadBody
  <2>2. ConnectionInv(c)'
    BY <1>3, <2>1, SizeAssumption
    DEF IInv, TypeOK, ReadBody, ConnectionInv, Decided, BufferInv, VerdictInv, SessionInv,
        ReplyInv, HostInv, Ack, Refusal
  <2> QED
    BY <1>1, <1>2, <2>2 DEF IInv
<1>5. CASE sent[c].kind = "hello" /\ sent[c].version = PROTOCOL_VERSION
  <2>1. sent[c] \in Hellos
    BY <1>3, <1>5 DEF Others
  <2>2. current[c] \in Nat /\ sent[c].epoch \in Nat
    <3>1. current[c] \in Epochs \cup {None} /\ sent[c].epoch \in Epochs
      BY <2>1, HelloFields DEF IInv, TypeOK
    <3>2. Epochs \cup {None} \subseteq Nat
      BY EpochsAssumption DEF None
    <3> QED
      BY <3>1, <3>2
  <2>3. pc' = [pc EXCEPT ![c] = IF Verdict(c) = "RejectStale" THEN "refusing" ELSE "acking"]
    BY <1>5 DEF ReadBody
  <2>4. ConnectionInv(c)'
    BY <1>3, <2>1, <2>2, <2>3, VerdictMeans, SizeAssumption
    DEF IInv, TypeOK, ReadBody, ConnectionInv, Decided, BufferInv, VerdictInv, SessionInv,
        ReplyInv, HostInv
  <2> QED
    BY <1>1, <1>2, <2>4 DEF IInv
<1> QED
  BY <1>4, <1>5

\* A connection cut inside the frame gives its buffer back.
LEMMA EofPreserves ==
  ASSUME IInv, NEW c \in Connections, Eof(c)
  PROVE  IInv'
<1>1. TypeOK'
  BY DEF IInv, TypeOK, Eof
<1>2. ASSUME NEW x \in Connections, x # c PROVE ConnectionInv(x)'
  BY <1>2, Frame DEF IInv, TypeOK, Eof
<1>3. ConnectionInv(c)'
  BY SizeAssumption
  DEF IInv, TypeOK, Eof, ConnectionInv, Decided, BufferInv, VerdictInv, SessionInv,
      ReplyInv, HostInv, Ack, Refusal
<1> QED
  BY <1>1, <1>2, <1>3 DEF IInv

\* The host is told STALE_EPOCH only of an epoch above its own.
LEMMA WriteRefusalPreserves ==
  ASSUME IInv, NEW c \in Connections, WriteRefusal(c)
  PROVE  IInv'
<1>1. pc[c] = "refusing" /\ ConnectionInv(c) /\ sent[c] \in Hellos
  BY DEF IInv, WriteRefusal, ConnectionInv, VerdictInv, Decided
<1>2. Refusal(c) \in Replies
  <2>1. current[c] \in Epochs \cup {None} /\ sent[c].epoch \in Epochs
    BY <1>1, HelloFields DEF IInv, TypeOK
  <2>2. current[c] > sent[c].epoch
    BY <1>1 DEF ConnectionInv, VerdictInv
  <2>3. current[c] \in Epochs
    BY <2>1, <2>2, EpochsAssumption DEF None
  <2> QED
    BY <2>3 DEF Refusal, Replies
<1>3. TypeOK'
  BY <1>2 DEF IInv, TypeOK, WriteRefusal
<1>4. ASSUME NEW x \in Connections, x # c PROVE ConnectionInv(x)'
  BY <1>4, Frame DEF IInv, TypeOK, WriteRefusal
<1>5. ConnectionInv(c)'
  BY <1>1
  DEF IInv, TypeOK, WriteRefusal, ConnectionInv, Decided, BufferInv, VerdictInv, SessionInv,
      ReplyInv, HostInv, Ack, Refusal
<1> QED
  BY <1>3, <1>4, <1>5 DEF IInv

\* The session returned is the one the acknowledgement announces.
LEMMA WriteAckPreserves ==
  ASSUME IInv, NEW c \in Connections, WriteAck(c)
  PROVE  IInv'
<1>1. pc[c] = "acking" /\ ConnectionInv(c) /\ sent[c] \in Hellos
  BY DEF IInv, WriteAck, ConnectionInv, VerdictInv, Decided
<1>2. /\ sent[c].epoch \in Epochs /\ sent[c].limits \in AllLimits
      /\ current[c] \in Epochs \cup {None} /\ sent[c].epoch >= current[c]
  BY <1>1, HelloFields DEF IInv, TypeOK, ConnectionInv, VerdictInv
<1>3. Verdict(c) \in {"Join", "Supersede"}
  BY <1>2, EpochsAssumption DEF Verdict, evaluate, None
<1> DEFINE s == [epoch |-> sent[c].epoch, limits |-> negotiate(LocalLimits, sent[c].limits),
                 verdict |-> Verdict(c)]
<1>4. s \in Sessions /\ s.epoch = sent[c].epoch
      /\ s.limits = negotiate(LocalLimits, sent[c].limits)
  BY <1>2, <1>3, LimitsTyped, NegotiateSymmetric DEF Sessions
<1>5. Ack(c) \in Replies
  BY <1>2, LimitsTyped DEF Ack, Replies
<1>6. session' = [session EXCEPT ![c] = s]
  BY DEF WriteAck
<1> HIDE DEF s
<1>7. TypeOK'
  BY <1>4, <1>5, <1>6 DEF IInv, TypeOK, WriteAck
<1>8. ASSUME NEW x \in Connections, x # c PROVE ConnectionInv(x)'
  BY <1>6, <1>8, Frame DEF IInv, TypeOK, WriteAck
<1>9. ConnectionInv(c)'
  BY <1>1, <1>4, <1>6
  DEF IInv, TypeOK, WriteAck, ConnectionInv, Decided, BufferInv, VerdictInv, SessionInv,
      ReplyInv, HostInv, Ack, Refusal
<1> QED
  BY <1>7, <1>8, <1>9 DEF IInv

\* A failed acknowledgement leaves no session.
LEMMA WriteAckFailsPreserves ==
  ASSUME IInv, NEW c \in Connections, WriteAckFails(c)
  PROVE  IInv'
<1>1. TypeOK'
  BY DEF IInv, TypeOK, WriteAckFails
<1>2. ASSUME NEW x \in Connections, x # c PROVE ConnectionInv(x)'
  BY <1>2, Frame DEF IInv, TypeOK, WriteAckFails
<1>3. ConnectionInv(c)'
  BY DEF IInv, TypeOK, WriteAckFails, ConnectionInv, Decided, BufferInv, VerdictInv, SessionInv,
         ReplyInv, HostInv, Ack, Refusal
<1> QED
  BY <1>1, <1>2, <1>3 DEF IInv

-----------------------------------------------------------------------------
(* The theorems *)

\* The per-connection invariant holds of accept and any host, whatever
\* frames arrive and wherever the connections are cut.
THEOREM SessionInvariant == Spec => []IInv
<1>1. Init => IInv
  <2> SUFFICES ASSUME Init PROVE IInv
    OBVIOUS
  <2>1. TypeOK
    BY DEF Init, TypeOK
  <2>2. ASSUME NEW c \in Connections PROVE ConnectionInv(c)
    BY SizeAssumption
    DEF Init, ConnectionInv, Decided, BufferInv, VerdictInv, SessionInv, ReplyInv, HostInv
  <2> QED
    BY <2>1, <2>2 DEF IInv
<1>2. IInv /\ [Next]_vars => IInv'
  <2> SUFFICES ASSUME IInv, [Next]_vars PROVE IInv'
    OBVIOUS
  <2>1. CASE UNCHANGED vars
    <3>1. ASSUME NEW c \in Connections PROVE ConnectionInv(c)'
      BY <2>1, Frame DEF IInv, vars
    <3>2. TypeOK'
      BY <2>1 DEF IInv, vars, TypeOK
    <3> QED
      BY <3>1, <3>2 DEF IInv
  <2>2. CASE Next
    BY <2>2, ConnectPreserves, SendPreserves, SeverPreserves, HostReceivesPreserves,
       ReadPrefixPreserves, ReadBodyPreserves, EofPreserves, WriteRefusalPreserves,
       WriteAckPreserves, WriteAckFailsPreserves DEF Next, accept
  <2> QED
    BY <2>1, <2>2
<1> QED
  BY <1>1, <1>2, PTL DEF Spec

\* accept never holds more than the handshake's ceiling per connection, and
\* nothing once it closed it, whatever length a prefix claims.
THEOREM HandshakeMemory == Spec => []MemoryBounded
<1>1. IInv => MemoryBounded
  BY DEF IInv, ConnectionInv, BufferInv, MemoryBounded
<1> QED
  BY <1>1, SessionInvariant, PTL

\* What the host is told is so: the acknowledged session is the agent's, with
\* the limits both compute, and a refusal names a higher epoch.
THEOREM HandshakeAgreement == Spec => []BothSidesAgree
<1>1. IInv => BothSidesAgree
  <2> SUFFICES ASSUME IInv, NEW c \in Connections, host[c] # NoFrame
               PROVE  IF host[c].kind = "ack"
                      THEN /\ pc[c] = "established"
                           /\ host[c].epoch = sent[c].epoch /\ session[c].epoch = sent[c].epoch
                           /\ host[c].limits = session[c].limits
                      ELSE host[c].epoch > sent[c].epoch /\ host[c].epoch = current[c]
    BY DEF BothSidesAgree
  <2>1. ConnectionInv(c)
    BY DEF IInv
  <2>2. CASE pc[c] = "established"
    <3>1. sent[c] \in Hellos
      BY <2>1, <2>2 DEF ConnectionInv, VerdictInv, Decided
    <3>2. negotiate(LocalLimits, sent[c].limits) = negotiate(sent[c].limits, LocalLimits)
      BY <3>1, HelloFields, LimitsTyped, NegotiateSymmetric
    <3> QED
      BY <2>1, <2>2, <3>2 DEF ConnectionInv, SessionInv, HostInv
  <2>3. CASE pc[c] # "established"
    BY <2>1, <2>3 DEF ConnectionInv, HostInv, Refusal
  <2> QED
    BY <2>2, <2>3
<1> QED
  BY <1>1, SessionInvariant, PTL
=============================================================================
