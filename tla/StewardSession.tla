--------------------------- MODULE StewardSession ---------------------------
(***************************************************************************)
(* The agent's half of the vsock handshake.  Every accepted connection is  *)
(* a task of its own running accept: read one frame under the handshake's  *)
(* size ceiling, check it, answer it, return a session.  The host (not in  *)
(* this repository yet) connects, sends a first frame or part of one, and   *)
(* may be cut off at any point, since every pause severs its connections;  *)
(* it is external, and uses the same protocol library.                     *)
(***************************************************************************)
EXTENDS Naturals, FiniteSetsExt

CONSTANTS
  Connections,                  \* connections the host makes
  Epochs,                       \* epochs it may present, positive numbers
  Currents,                     \* what accept may be given as current_epoch
  MAX_HELLO_SIZE,               \* ceiling on a handshake frame
  LocalLimits,                  \* AgentIdentity.limits
  PeerLimits                    \* limits a host may advertise

\* The epoch of "no session held yet".
None == 0

ASSUME EpochsAssumption == Epochs \subseteq Nat \ {None} /\ Currents \subseteq Epochs \cup {None}
ASSUME SizeAssumption == MAX_HELLO_SIZE \in Nat \ {0}
ASSUME LimitsAssumption ==
  \A l \in PeerLimits \cup {LocalLimits} : l \in [max_frame_size : Nat, chunk_size : Nat]

VARIABLES
  pc,                           \* where the connection's task is suspended
  current,                      \* accept's current_epoch
  sent,                         \* the first frame the host sent
  severed,                      \* the connection is cut
  reserved,                     \* bytes the task has allocated for a body
  session,                      \* what accept returned
  reply,                        \* the frame on its way to the host
  host                          \* what the host has learnt

vars == <<pc, current, sent, severed, reserved, session, reply, host>>

PROTOCOL_VERSION == 1

(***************************************************************************)
(* A first frame, reduced to what accept looks at: the length its prefix   *)
(* claims, whether all of that arrives, and what it decodes to: a Hello on *)
(* the session stream, another frame, or nothing.                          *)
(***************************************************************************)
Hellos ==
  [kind : {"hello"}, len : {1}, whole : BOOLEAN, version : {1, 2},
   epoch : Epochs, limits : PeerLimits]
Others ==
  [kind : {"other", "garbage"}, len : {0, MAX_HELLO_SIZE, MAX_HELLO_SIZE + 1}, whole : BOOLEAN]
NoFrame == [kind |-> "none"]

AllLimits == [max_frame_size : Nat, chunk_size : Nat]
NoSession == [epoch |-> None]
Sessions ==
  [epoch : Epochs, limits : AllLimits, verdict : {"Join", "Supersede"}]
Replies == [kind : {"ack"}, epoch : Epochs, limits : AllLimits] \cup [kind : {"stale"}, epoch : Epochs]

TypeOK ==
  /\ pc \in [Connections -> {"unused", "prefix", "body", "refusing", "acking",
                             "established", "closed"}]
  /\ current \in [Connections -> Epochs \cup {None}]
  /\ sent \in [Connections -> Hellos \cup Others \cup {NoFrame}]
  /\ severed \in [Connections -> BOOLEAN]
  /\ reserved \in [Connections -> Nat]
  /\ session \in [Connections -> Sessions \cup {NoSession}]
  /\ reply \in [Connections -> Replies \cup {NoFrame}]
  /\ host \in [Connections -> Replies \cup {NoFrame}]

Init ==
  /\ pc = [c \in Connections |-> "unused"]
  /\ current = [c \in Connections |-> None]
  /\ sent = [c \in Connections |-> NoFrame]
  /\ severed = [c \in Connections |-> FALSE]
  /\ reserved = [c \in Connections |-> 0]
  /\ session = [c \in Connections |-> NoSession]
  /\ reply = [c \in Connections |-> NoFrame]
  /\ host = [c \in Connections |-> NoFrame]

-----------------------------------------------------------------------------
(* The protocol library *)

evaluate(held, presented) ==
  CASE presented < held -> "RejectStale"
    [] presented > held -> "Supersede"
    [] OTHER -> "Join"

\* Mutant of negotiate: the chunk size is this side's own.
negotiateFrameOnly(local, peer) ==
  [max_frame_size |-> Min({local.max_frame_size, peer.max_frame_size}),
   chunk_size |-> local.chunk_size]

negotiate(local, peer) ==
  [max_frame_size |-> Min({local.max_frame_size, peer.max_frame_size}),
   chunk_size |-> Min({local.chunk_size, peer.chunk_size})]

-----------------------------------------------------------------------------
(* The host *)

\* The listener accepts the connection and starts its task.
Connect(c, held) ==
  /\ pc[c] = "unused"
  /\ pc' = [pc EXCEPT ![c] = "prefix"]
  /\ current' = [current EXCEPT ![c] = held]
  /\ UNCHANGED <<sent, severed, reserved, session, reply, host>>

Send(c, frame) ==
  /\ pc[c] = "prefix" /\ sent[c] = NoFrame /\ ~severed[c]
  /\ sent' = [sent EXCEPT ![c] = frame]
  /\ UNCHANGED <<pc, current, severed, reserved, session, reply, host>>

Sever(c) ==
  /\ pc[c] # "unused" /\ ~severed[c]
  /\ severed' = [severed EXCEPT ![c] = TRUE]
  /\ UNCHANGED <<pc, current, sent, reserved, session, reply, host>>

HostReceives(c) ==
  /\ reply[c] # NoFrame
  /\ host' = [host EXCEPT ![c] =
       IF reply[c].kind = "ack"
       THEN [reply[c] EXCEPT !.limits = negotiate(sent[c].limits, reply[c].limits)]
       ELSE reply[c]]
  /\ reply' = [reply EXCEPT ![c] = NoFrame]
  /\ UNCHANGED <<pc, current, sent, severed, reserved, session>>

-----------------------------------------------------------------------------
(* accept *)

\* Mutant of ReadPrefix: the buffer is reserved before the length is checked.
ReservesFirst(c) ==
  /\ pc[c] = "prefix" /\ sent[c] # NoFrame
  /\ reserved' = [reserved EXCEPT ![c] = sent[c].len]
  /\ pc' = [pc EXCEPT ![c] =
       IF sent[c].len > MAX_HELLO_SIZE \/ sent[c].len = 0 THEN "closed" ELSE "body"]
  /\ UNCHANGED <<current, sent, severed, session, reply, host>>

\* read_frame, up to the allocation: FrameTooLarge and EmptyFrame close the
\* connection.
ReadPrefix(c) ==
  /\ pc[c] = "prefix" /\ sent[c] # NoFrame
  /\ IF sent[c].len > MAX_HELLO_SIZE \/ sent[c].len = 0
     THEN pc' = [pc EXCEPT ![c] = "closed"] /\ UNCHANGED reserved
     ELSE /\ pc' = [pc EXCEPT ![c] = "body"]
          /\ reserved' = [reserved EXCEPT ![c] = sent[c].len]
  /\ UNCHANGED <<current, sent, severed, session, reply, host>>

\* The very first session after boot adopts the epoch presented.
Verdict(c) ==
  IF current[c] = None THEN "Join" ELSE evaluate(current[c], sent[c].epoch)

\* The body is in and decoded; whatever accept finds wrong with it closes
\* the connection, a stale epoch after telling the host.
ReadBody(c) ==
  /\ pc[c] = "body" /\ sent[c].whole
  /\ reserved' = [reserved EXCEPT ![c] = 0]
  /\ pc' = [pc EXCEPT ![c] =
       IF sent[c].kind # "hello" THEN "closed"
       ELSE IF sent[c].version # PROTOCOL_VERSION THEN "closed"
       ELSE IF Verdict(c) = "RejectStale" THEN "refusing" ELSE "acking"]
  /\ UNCHANGED <<current, sent, severed, session, reply, host>>

\* Mutant of Eof: only a connection cut between frames is noticed.
EofAtPrefixOnly(c) ==
  /\ severed[c]
  /\ pc[c] = "prefix" /\ sent[c] = NoFrame
  /\ pc' = [pc EXCEPT ![c] = "closed"]
  /\ reserved' = [reserved EXCEPT ![c] = 0]
  /\ UNCHANGED <<current, sent, severed, session, reply, host>>

\* read_exact finds the connection cut before or inside the frame.
Eof(c) ==
  /\ severed[c]
  /\ \/ pc[c] = "prefix" /\ sent[c] = NoFrame
     \/ pc[c] = "body" /\ ~sent[c].whole
  /\ pc' = [pc EXCEPT ![c] = "closed"]
  /\ reserved' = [reserved EXCEPT ![c] = 0]
  /\ UNCHANGED <<current, sent, severed, session, reply, host>>

Refusal(c) == [kind |-> "stale", epoch |-> current[c]]

\* The error frame is best effort: its failure is ignored.
WriteRefusal(c) ==
  /\ pc[c] = "refusing"
  /\ \/ reply' = [reply EXCEPT ![c] = Refusal(c)]
     \/ severed[c] /\ UNCHANGED reply
  /\ pc' = [pc EXCEPT ![c] = "closed"]
  /\ UNCHANGED <<current, sent, severed, reserved, session, host>>

Ack(c) == [kind |-> "ack", epoch |-> sent[c].epoch, limits |-> LocalLimits]

\* The acknowledgement advertises this side's own limits; the session keeps
\* the effective ones.
WriteAck(c) ==
  /\ pc[c] = "acking"
  /\ reply' = [reply EXCEPT ![c] = Ack(c)]
  /\ session' = [session EXCEPT ![c] =
       [epoch |-> sent[c].epoch,
        limits |-> negotiate(LocalLimits, sent[c].limits),
        verdict |-> Verdict(c)]]
  /\ pc' = [pc EXCEPT ![c] = "established"]
  /\ UNCHANGED <<current, sent, severed, reserved, host>>

WriteAckFails(c) ==
  /\ pc[c] = "acking" /\ severed[c]
  /\ pc' = [pc EXCEPT ![c] = "closed"]
  /\ UNCHANGED <<current, sent, severed, reserved, session, reply, host>>

-----------------------------------------------------------------------------

accept(c) ==
  \/ ReadPrefix(c) \/ ReadBody(c) \/ Eof(c)
  \/ WriteRefusal(c) \/ WriteAck(c) \/ WriteAckFails(c)

Next ==
  \E c \in Connections :
    \/ \E held \in Currents : Connect(c, held)
    \/ \E frame \in Hellos \cup Others : Send(c, frame)
    \/ Sever(c) \/ HostReceives(c)
    \/ accept(c)

Spec == Init /\ [][Next]_vars

\* The runtime polls a task whose socket is ready.
FairSpec == Spec /\ \A c \in Connections : WF_vars(accept(c))

-----------------------------------------------------------------------------
(* Properties *)

\* However long a frame the prefix claims, no connection holds more memory
\* than the handshake's ceiling, and a closed one holds none.
MemoryBounded ==
  \A c \in Connections :
    reserved[c] <= MAX_HELLO_SIZE /\ (pc[c] = "closed" => reserved[c] = 0)

\* What a host is told is so.  One that was acknowledged and the agent have
\* the same session: the epoch it presented, and the same effective limits,
\* each computed from what the other side advertised.  One that was told
\* STALE_EPOCH learns the epoch the agent holds, which is higher.
BothSidesAgree ==
  \A c \in Connections :
    host[c] # NoFrame =>
      IF host[c].kind = "ack"
      THEN /\ pc[c] = "established"
           /\ host[c].epoch = sent[c].epoch /\ session[c].epoch = sent[c].epoch
           /\ host[c].limits = session[c].limits
      ELSE host[c].epoch > sent[c].epoch /\ host[c].epoch = current[c]

\* A connection that was cut does not keep its task: whatever accept was
\* waiting for, it comes to an end.
SeveredEnds ==
  \A c \in Connections : severed[c] ~> pc[c] \in {"established", "closed"}
=============================================================================
