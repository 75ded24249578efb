----------------------------- MODULE EventQueue -----------------------------
(***************************************************************************)
(* What a stream of events promises the one who iterates over it, whatever *)
(* the socket, the handshake and the listeners do: the calls of next() are *)
(* served in turn, each with the event that is next in the order of the    *)
(* server and none left out; a stream that ends keeps the beginning of     *)
(* what was on its way, and says how it ended only after that is read.     *)
(***************************************************************************)
EXTENDS Naturals, Sequences, SequencesExt

CONSTANTS
  Calls,                        \* calls of next(), numbered in their order
  Frames                        \* what a server may send

VARIABLES
  items,                        \* sent by the server and not yet read
  given,                        \* what each call was answered
  over                          \* "live", or how the stream ended

queueVars == <<items, given, over>>

\* An answer: the number of an event, or how the iteration ended.
Reply(what, n) == [what |-> what, number |-> n]

QueueInit ==
  /\ items = <<>>
  /\ given = [n \in Calls |-> Reply("none", 0)]
  /\ over = "live"

Offer(frame) ==
  /\ over = "live"
  /\ items' = Append(items, frame)
  /\ UNCHANGED <<given, over>>

\* Only a frame of a kind the SDK does not know is passed over.
PassOver(i) ==
  /\ over = "live"
  /\ items[i].kind = "unknown"
  /\ items' = RemoveAt(items, i)
  /\ UNCHANGED <<given, over>>

\* The turn of n has come when every call before it has been answered.
Answered(n) == given[n].what \notin {"none", "waiting"}

Serve(n) ==
  /\ ~Answered(n) /\ \A m \in Calls : m < n => Answered(m)
  /\ items # <<>> /\ Head(items).kind = "event"
  /\ given' = [given EXCEPT ![n] = Reply("event", Head(items).number)]
  /\ items' = Tail(items)
  /\ UNCHANGED over

\* A call made while the stream lives may have to wait.
Wait(n) ==
  /\ over = "live" /\ given[n].what = "none"
  /\ \A m \in Calls : m < n => given[m].what # "none"
  /\ given' = [given EXCEPT ![n] = Reply("waiting", 0)]
  /\ UNCHANGED <<items, over>>

\* The stream ends, once: whoever waits is told how, and of what was on its
\* way the beginning is left to read.
End(how) ==
  /\ over = "live" /\ over' = how
  /\ given' = [n \in Calls |-> IF given[n].what = "waiting" THEN Reply(how, 0) ELSE given[n]]
  /\ \E i \in 0..Len(items) : items' = SubSeq(items, 1, i)

\* A call made when the stream is over and read to its end.
Tell(n) ==
  /\ over # "live" /\ items = <<>>
  /\ ~Answered(n) /\ \A m \in Calls : m < n => Answered(m)
  /\ given' = [given EXCEPT ![n] = Reply(over, 0)]
  /\ UNCHANGED <<items, over>>

QueueNext ==
  \/ \E frame \in Frames : Offer(frame)
  \/ \E i \in DOMAIN items : PassOver(i)
  \/ \E n \in Calls : Serve(n) \/ Wait(n) \/ Tell(n)
  \/ \E how \in {"done", "error"} : End(how)

QueueSpec == QueueInit /\ [][QueueNext]_queueVars
=============================================================================
