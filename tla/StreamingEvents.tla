-------------------------- MODULE StreamingEvents --------------------------
(***************************************************************************)
(* One data-plane WebSocket stream of the TypeScript SDK: callbacks of the *)
(* socket push validated events in, the consumer pulls them out with       *)
(* next(), and frames for the server wait until the handshake is over.     *)
(* The handlers run to completion, in any order the socket, the handshake  *)
(* timer, the caller's signal, the consumer and its listeners produce.     *)
(*                                                                         *)
(* The socket is external: the caller may inject its own implementation.    *)
(* It delivers frames in order, and may still deliver those that were on   *)
(* their way when it was told to close.                                    *)
(***************************************************************************)
EXTENDS Naturals, Sequences, SequencesExt

CONSTANTS
  MaxFrames,                    \* bound: frames the server sends
  MaxNexts,                     \* bound: calls of next() on the iterator
  MaxSends,                     \* bound: frames the caller sends
  Listeners,                    \* what a listener may do: "return", "throw", "close"
  PreAborted                    \* whether the signal may have fired beforehand

ASSUME BoundsAssumption == MaxFrames \in Nat /\ MaxNexts \in Nat /\ MaxSends \in Nat
ASSUME ListenersAssumption == Listeners \subseteq {"return", "throw", "close"}
ASSUME PreAbortedAssumption == PreAborted \subseteq BOOLEAN

VARIABLES
  socket,                       \* ready state of the WebSocket
  inbox,                        \* frames sent by the server, not yet delivered
  emitted,                      \* number of frames the server has sent
  handshake,                    \* the handshake timer is running
  opened, ended, failure,       \* StreamingEvents' own flags
  queue,                        \* events nobody has asked for yet
  pending,                      \* calls of next() nobody has answered yet
  calls,                        \* what each call of next() was answered
  asked,                        \* number of frames given to send()
  outbound,                     \* frames waiting for the handshake
  sent,                         \* frames handed to the open socket
  aborted                       \* the caller's signal has fired

stream == <<handshake, opened, ended, failure>>
vars == <<socket, inbox, emitted, stream, queue, pending, calls, asked, outbound,
          sent, aborted>>

(***************************************************************************)
(* A frame is an event, of a type this SDK does not know, or malformed;    *)
(* parse returns the event, ignores the second and throws for the third.   *)
(***************************************************************************)
Kinds == {"event", "unknown", "malformed"}
Frames == [kind : Kinds, number : 1..MaxFrames]
Events == [kind : {"event"}, number : 1..MaxFrames]

NextCalls == 1..MaxNexts

\* An answer to next(): the number of an event, or how the iteration ended.
Answer(what, n) == [what |-> what, number |-> n]
Answers == [what : {"none", "waiting", "done", "error"}, number : {0}]
             \cup [what : {"event"}, number : 1..MaxFrames]

Failures == {"none", "protocol", "malformed", "listener", "socket", "timeout"}

TypeOK ==
  /\ socket \in {"connecting", "open", "closing", "closed"}
  /\ inbox \in Seq(Frames)
  /\ emitted \in 0..MaxFrames
  /\ handshake \in BOOLEAN /\ opened \in BOOLEAN /\ ended \in BOOLEAN
  /\ failure \in Failures
  /\ queue \in Seq(Events)
  /\ pending \in Seq(NextCalls)
  /\ calls \in [NextCalls -> Answers]
  /\ asked \in 0..MaxSends
  /\ outbound \in Seq(1..MaxSends) /\ sent \in Seq(1..MaxSends)
  /\ aborted \in BOOLEAN

\* The constructor.  It adds a listener to the signal and does not look whether
\* the signal has already fired.
Init ==
  /\ socket = "connecting" /\ inbox = <<>> /\ emitted = 0
  /\ handshake \in BOOLEAN
  /\ opened = FALSE /\ ended = FALSE /\ failure = "none"
  /\ queue = <<>> /\ pending = <<>>
  /\ calls = [n \in NextCalls |-> Answer("none", 0)]
  /\ asked = 0 /\ outbound = <<>> /\ sent = <<>>
  /\ aborted \in PreAborted

-----------------------------------------------------------------------------
(* How a stream ends *)

\* Answers everybody waiting.
Settle(what) ==
  /\ pending' = <<>>
  /\ calls' = [n \in NextCalls |->
                 IF calls[n].what = "waiting" THEN Answer(what, 0) ELSE calls[n]]

finish ==
  /\ handshake' = FALSE /\ ended' = TRUE /\ outbound' = <<>>
  /\ Settle("done")
  /\ UNCHANGED <<opened, failure>>

\* Mutant of fail: the consumers waiting are told that the stream is over.
failQuietly(f) ==
  /\ handshake' = FALSE /\ failure' = f /\ ended' = TRUE /\ outbound' = <<>>
  /\ Settle("done")
  /\ socket' = "closing"
  /\ UNCHANGED opened

fail(f) ==
  /\ handshake' = FALSE /\ failure' = f /\ ended' = TRUE /\ outbound' = <<>>
  /\ Settle("error")
  /\ socket' = "closing"
  /\ UNCHANGED opened

\* Whatever ends a stream does so once: finish, fail and close return when it
\* has already ended.
Close ==
  IF ended THEN UNCHANGED <<socket, stream, pending, calls, outbound>>
  ELSE finish /\ socket' = "closing"

-----------------------------------------------------------------------------
(* The server and the socket *)

Emit(k) ==
  /\ socket = "open" /\ emitted < MaxFrames
  /\ emitted' = emitted + 1
  /\ inbox' = Append(inbox, [kind |-> k, number |-> emitted + 1])
  /\ UNCHANGED <<socket, stream, queue, pending, calls, asked, outbound, sent, aborted>>

\* Mutant of onOpen: a server that selects another protocol is ignored.
onOpenIgnoresProtocol(selected) ==
  /\ socket = "connecting"
  /\ handshake' = FALSE
  /\ socket' = "open"
  /\ IF selected # "fissionplane.v1"
     THEN UNCHANGED <<opened, sent, outbound>>
     ELSE opened' = TRUE /\ sent' = sent \o outbound /\ outbound' = <<>>
  /\ UNCHANGED <<inbox, emitted, ended, failure, queue, pending, calls, asked, aborted>>

\* Mutant of onOpen: the frames that waited are sent and kept.
onOpenKeepsOutbound(selected) ==
  /\ socket = "connecting"
  /\ IF selected # "fissionplane.v1"
     THEN fail("protocol") /\ UNCHANGED sent
     ELSE /\ handshake' = FALSE /\ opened' = TRUE
          /\ sent' = sent \o outbound
          /\ socket' = "open"
          /\ UNCHANGED <<ended, failure, pending, calls, outbound>>
  /\ UNCHANGED <<inbox, emitted, queue, asked, aborted>>

\* The handshake is over: the frames that waited for it go out.
onOpen(selected) ==
  /\ socket = "connecting"
  /\ IF selected # "fissionplane.v1"
     THEN fail("protocol") /\ UNCHANGED sent
     ELSE /\ handshake' = FALSE /\ opened' = TRUE
          /\ sent' = sent \o outbound /\ outbound' = <<>>
          /\ socket' = "open"
          /\ UNCHANGED <<ended, failure, pending, calls>>
  /\ UNCHANGED <<inbox, emitted, queue, asked, aborted>>

onError ==
  /\ socket \in {"connecting", "open"}
  /\ fail("socket")
  /\ UNCHANGED <<inbox, emitted, queue, asked, sent, aborted>>

\* The server closes after its last frame, or the closing handshake ends.
onClose ==
  /\ socket \in {"open", "closing"}
  /\ socket = "open" => inbox = <<>>
  /\ socket' = "closed"
  /\ IF ended THEN UNCHANGED <<stream, pending, calls, outbound>> ELSE finish
  /\ UNCHANGED <<inbox, emitted, queue, asked, sent, aborted>>

HandshakeTimeout ==
  /\ handshake
  /\ fail("timeout")
  /\ UNCHANGED <<inbox, emitted, queue, asked, sent, aborted>>

-----------------------------------------------------------------------------
(* receive: one frame, whole *)

\* Mutant of Hand: an event that nobody waits for is lost.
HandDropsUnawaited(event) ==
  IF pending # <<>>
  THEN /\ calls' = [calls EXCEPT ![Head(pending)] = Answer("event", event.number)]
       /\ pending' = Tail(pending)
       /\ UNCHANGED queue
  ELSE UNCHANGED <<queue, pending, calls>>

\* The event goes to the consumer that has waited longest, or is kept.
Hand(event) ==
  IF pending # <<>>
  THEN /\ calls' = [calls EXCEPT ![Head(pending)] = Answer("event", event.number)]
       /\ pending' = Tail(pending)
       /\ UNCHANGED queue
  ELSE queue' = Append(queue, event) /\ UNCHANGED <<pending, calls>>

Ignored(frame) == frame.kind = "unknown"

\* Nobody is told of a frame that comes after the end, malformed or not.
Dropped(frame) == Ignored(frame) \/ ended

\* Every listener is called before the iterator sees the event.  One that
\* throws fails the stream; one that closes the stream ends the iteration
\* under receive, which then keeps the event for nobody.
onMessage(act) ==
  /\ socket \in {"open", "closing"} /\ inbox # <<>>
  /\ inbox' = Tail(inbox)
  /\ LET frame == Head(inbox) IN
       \/ /\ Dropped(frame) /\ act = "return"
          /\ UNCHANGED <<socket, stream, queue, pending, calls, outbound>>
       \/ /\ ~Dropped(frame) /\ frame.kind = "malformed" /\ act = "return"
          /\ fail("malformed")
          /\ UNCHANGED queue
       \/ /\ ~Dropped(frame) /\ frame.kind # "malformed" /\ act = "return"
          /\ Hand(frame)
          /\ UNCHANGED <<socket, stream, outbound>>
       \/ /\ ~Dropped(frame) /\ frame.kind # "malformed" /\ act = "throw"
          /\ fail("listener")
          /\ UNCHANGED queue
       \/ /\ ~Dropped(frame) /\ frame.kind # "malformed" /\ act = "close"
          /\ Close
          /\ queue' = Append(queue, frame)
  /\ UNCHANGED <<emitted, asked, sent, aborted>>

-----------------------------------------------------------------------------
(* The caller *)

\* iterator.next(), the n-th call of it.
next(n) ==
  /\ calls[n].what = "none"
  /\ \A m \in 1..(n - 1) : calls[m].what # "none"
  /\ IF queue # <<>>
     THEN /\ calls' = [calls EXCEPT ![n] = Answer("event", Head(queue).number)]
          /\ queue' = Tail(queue)
          /\ UNCHANGED pending
     ELSE /\ calls' = [calls EXCEPT ![n] =
               Answer(IF failure # "none" THEN "error" ELSE IF ended THEN "done" ELSE "waiting", 0)]
          /\ pending' = IF ended THEN pending ELSE Append(pending, n)
          /\ UNCHANGED queue
  /\ UNCHANGED <<socket, inbox, emitted, stream, asked, outbound, sent, aborted>>

\* close(), or return() of an iterator left early.
close ==
  /\ ~ended
  /\ Close
  /\ UNCHANGED <<inbox, emitted, queue, asked, sent, aborted>>

\* sendInput, closeStdin, resize, signal.
send ==
  /\ asked < MaxSends /\ ~ended
  /\ asked' = asked + 1
  /\ IF opened
     THEN sent' = Append(sent, asked + 1) /\ UNCHANGED outbound
     ELSE outbound' = Append(outbound, asked + 1) /\ UNCHANGED sent
  /\ UNCHANGED <<socket, inbox, emitted, stream, queue, pending, calls, aborted>>

\* The listener that the constructor added.  It is called when the signal fires:
\* for one that had fired before the constructor ran it is not.
abort ==
  /\ ~aborted
  /\ aborted' = TRUE
  /\ Close
  /\ UNCHANGED <<inbox, emitted, queue, asked, sent>>

-----------------------------------------------------------------------------

Next ==
  \/ \E k \in Kinds : Emit(k)
  \/ \E selected \in {"fissionplane.v1", "other"} : onOpen(selected)
  \/ onError \/ onClose \/ HandshakeTimeout
  \/ \E act \in Listeners : onMessage(act)
  \/ \E n \in NextCalls : next(n)
  \/ close \/ send \/ abort

Spec == Init /\ [][Next]_vars

\* Of the handlers only the SDK's own timer is certain to run.
FairSpec == Spec /\ WF_vars(HandshakeTimeout)

-----------------------------------------------------------------------------
(* Properties *)

\* When a stream has ended, by whatever handler, nobody is left waiting for
\* an event that will not come.
NobodyWaitsAfterEnd ==
  ended => pending = <<>> /\ \A n \in NextCalls : calls[n].what # "waiting"

\* Calls of next() get the events in the order the server sent them: none
\* twice, none out of turn between the queue and the waiting consumers.
AnsweredInOrder ==
  \A m, n \in NextCalls :
    m < n /\ calls[m].what = "event" /\ calls[n].what = "event"
      => calls[m].number < calls[n].number

\* A stream that failed never tells a consumer that it ended well, not even
\* when the socket closes after the failure.
FailureIsReported ==
  failure # "none" => \A n \in NextCalls : calls[n].what # "done"

\* Frames reach the socket once each and in the order of the calls, whether
\* they waited for the handshake or not.
SentInOrder ==
  /\ ~ended => sent \o outbound = [i \in 1..asked |-> i]
  /\ sent = [i \in 1..Len(sent) |-> i]

\* Once a stream has ended nothing is added to what the consumer has left to
\* read, and nobody is answered with an event that was not there by then,
\* whatever the socket still delivers.
NothingAfterEnd ==
  [][ended => queue' = queue \/ (queue # <<>> /\ queue' = Tail(queue))]_vars

\* The handlers, the queue and the waiting consumers together are one queue
\* from the server to the calls of next(): no event the SDK understands is
\* left out, repeated or given out of turn, and the end is told only when
\* what the stream has kept is read.  Once it has ended, what the socket has
\* not delivered is no longer part of it.
Queue == INSTANCE EventQueue WITH
  Calls <- NextCalls,
  items <- IF ended THEN queue ELSE queue \o inbox,
  given <- calls,
  over <- IF ~ended THEN "live" ELSE IF failure # "none" THEN "error" ELSE "done"
ImplementsEventQueue == Queue!QueueSpec

\* A handshake with a timeout comes to an end: no stream stays between open
\* and ended for ever, and neither does the consumer waiting for it.
HandshakeEnds == handshake ~> (opened \/ ended)
=============================================================================
