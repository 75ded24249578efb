----------------------- MODULE StreamingEventsProofs -----------------------
(***************************************************************************)
(* Proofs about StreamingEvents, for any number of frames, of calls of     *)
(* next() and of frames to send, and for listeners that do anything.       *)
(*                                                                         *)
(* The inductive invariant says how the three flags, the socket and the    *)
(* consumers fit together (EndInv), what has been done with the caller's   *)
(* frames (SendInv), and that events move from the socket's inbox through  *)
(* the queue to the answers without overtaking (FramesInv, WaitInv,        *)
(* AnswerInv).                                                             *)
(***************************************************************************)
EXTENDS StreamingEvents, TLAPS

\* The frames 1, ..., n in that order.
Counting(n) == [i \in 1..n |-> i]

Rising(frames) ==
  \A i, j \in 1..Len(frames) : i < j => frames[i].number < frames[j].number

\* A stream ends once, with its socket, its timer and its consumers.
EndInv ==
  /\ ended <=> socket \in {"closing", "closed"}
  /\ ended => outbound = <<>> /\ ~handshake /\ pending = <<>>
  /\ ended => \A n \in NextCalls : calls[n].what # "waiting"
  /\ ~ended => \A n \in NextCalls : calls[n].what \notin {"done", "error"}
  /\ failure # "none" => ended /\ \A n \in NextCalls : calls[n].what # "done"

\* Frames wait exactly while the handshake lasts.
SendInv ==
  /\ socket = "connecting" => ~opened
  /\ socket = "open" => opened
  /\ opened => outbound = <<>> /\ (~ended => sent = Counting(asked))
  /\ ~opened => sent = <<>> /\ (~ended => outbound = Counting(asked))
  /\ sent = Counting(Len(sent))

\* What is queued was sent before what is still to be delivered.
FramesInv ==
  /\ Rising(inbox) /\ Rising(queue)
  /\ \A i \in 1..Len(inbox) : inbox[i].number <= emitted
  /\ \A i \in 1..Len(queue) : queue[i].number <= emitted
  /\ \A i \in 1..Len(queue), j \in 1..Len(inbox) : queue[i].number < inbox[j].number

\* The consumers waiting are the last ones to have called, in that order,
\* and nobody waits while there is something to read.
WaitInv ==
  /\ \A i, j \in 1..Len(pending) : i < j => pending[i] < pending[j]
  /\ \A n \in NextCalls :
       calls[n].what = "waiting" <=> \E i \in 1..Len(pending) : pending[i] = n
  /\ queue # <<>> => pending = <<>>
  /\ \A m, n \in NextCalls :
       m < n /\ calls[n].what # "none" => calls[m].what # "none"
  /\ \A m, n \in NextCalls :
       calls[m].what = "event" /\ calls[n].what = "waiting" => m < n

\* What was answered was sent before what is still to be read.
AnswerInv ==
  /\ AnsweredInOrder
  /\ \A n \in NextCalls :
       calls[n].what = "event" =>
         /\ calls[n].number <= emitted
         /\ \A i \in 1..Len(queue) : calls[n].number < queue[i].number
         /\ \A i \in 1..Len(inbox) : calls[n].number < inbox[i].number

OrderInv == FramesInv /\ WaitInv /\ AnswerInv

IInv == TypeOK /\ EndInv /\ SendInv /\ OrderInv

-----------------------------------------------------------------------------
(* Sequences *)

\* Dropping the first element shifts the others down.
LEMMA TailIs ==
  ASSUME NEW S, NEW s \in Seq(S), s # <<>>
  PROVE  /\ Head(s) \in S /\ Head(s) = s[1] /\ Len(s) >= 1
         /\ Tail(s) \in Seq(S) /\ Len(Tail(s)) = Len(s) - 1
         /\ \A i \in 1..Len(Tail(s)) : i + 1 \in 1..Len(s) /\ Tail(s)[i] = s[i + 1]
OBVIOUS

\* Appending leaves what was there in place.
LEMMA AppendIs ==
  ASSUME NEW S, NEW s \in Seq(S), NEW e \in S
  PROVE  /\ Append(s, e) \in Seq(S) /\ Len(Append(s, e)) = Len(s) + 1
         /\ Append(s, e)[Len(s) + 1] = e
         /\ \A i \in 1..Len(s) : Append(s, e)[i] = s[i]
         /\ \A i \in 1..Len(Append(s, e)) : i = Len(s) + 1 \/ i \in 1..Len(s)
         /\ Append(s, e) # <<>>
OBVIOUS

\* Two sequences, one after the other.
LEMMA JoinIs ==
  ASSUME NEW S, NEW s \in Seq(S), NEW t \in Seq(S)
  PROVE  /\ s \o t \in Seq(S) /\ Len(s \o t) = Len(s) + Len(t)
         /\ \A i \in 1..Len(s) : (s \o t)[i] = s[i]
         /\ \A i \in 1..Len(t) : (s \o t)[Len(s) + i] = t[i]
         /\ s \o <<>> = s /\ <<>> \o t = t
OBVIOUS

\* A sequence is its elements.
LEMMA SameSeq ==
  ASSUME NEW S, NEW s \in Seq(S), NEW t \in Seq(S), Len(s) = Len(t),
         \A i \in 1..Len(s) : s[i] = t[i]
  PROVE  s = t
OBVIOUS

\* The elements of a slice.
LEMMA SliceIs ==
  ASSUME NEW S, NEW s \in Seq(S), NEW a \in Nat, NEW b \in Nat, 1 <= a, b <= Len(s), a <= b + 1
  PROVE  /\ SubSeq(s, a, b) \in Seq(S) /\ Len(SubSeq(s, a, b)) = b + 1 - a
         /\ \A i \in 1..(b + 1 - a) : SubSeq(s, a, b)[i] = s[a + i - 1]
OBVIOUS

\* The first of two sequences is a prefix of both together.
LEMMA JoinStart ==
  ASSUME NEW S, NEW s \in Seq(S), NEW t \in Seq(S)
  PROVE  SubSeq(s \o t, 1, Len(s)) = s
<1>1. s \o t \in Seq(S) /\ Len(s \o t) = Len(s) + Len(t) /\ \A i \in 1..Len(s) : (s \o t)[i] = s[i]
  BY JoinIs
<1>2. Len(s) \in Nat /\ Len(t) \in Nat
  OBVIOUS
<1> DEFINE u == s \o t
           v == SubSeq(u, 1, Len(s))
<1>3. u \in Seq(S) /\ Len(s) <= Len(u)
  BY <1>1, <1>2
<1> HIDE DEF u
<1>4. v \in Seq(S) /\ Len(v) = Len(s) + 1 - 1
      /\ \A i \in 1..(Len(s) + 1 - 1) : v[i] = u[1 + i - 1]
  BY <1>2, <1>3, SliceIs
<1>5. Len(v) = Len(s) /\ \A i \in 1..Len(s) : v[i] = s[i]
  BY <1>1, <1>2, <1>4 DEF u
<1> QED
  BY <1>4, <1>5, SameSeq DEF u

\* What is appended to the second goes to the end of both.
LEMMA JoinAppend ==
  ASSUME NEW S, NEW s \in Seq(S), NEW t \in Seq(S), NEW e \in S
  PROVE  Append(s \o t, e) = s \o Append(t, e)
OBVIOUS

\* What is taken from the front is taken from the first.
LEMMA JoinHead ==
  ASSUME NEW S, NEW s \in Seq(S), NEW t \in Seq(S), s # <<>>
  PROVE  s \o t # <<>> /\ Head(s \o t) = Head(s) /\ Tail(s \o t) = Tail(s) \o t
OBVIOUS

\* The first element of the second may as well be the last of the first.
LEMMA JoinMove ==
  ASSUME NEW S, NEW s \in Seq(S), NEW t \in Seq(S), t # <<>>
  PROVE  Append(s, Head(t)) \o Tail(t) = s \o t
OBVIOUS

\* It is the element after the first sequence.
LEMMA JoinNext ==
  ASSUME NEW S, NEW s \in Seq(S), NEW t \in Seq(S), t # <<>>
  PROVE  /\ Len(s) + 1 \in 1..Len(s \o t) /\ (s \o t)[Len(s) + 1] = Head(t)
         /\ SubSeq(s \o t, 1, Len(s) + 1) = Append(s, Head(t))
<1>1. /\ Append(s, Head(t)) \in Seq(S) /\ Tail(t) \in Seq(S)
      /\ Len(Append(s, Head(t))) = Len(s) + 1 /\ Head(t) = t[1] /\ Len(t) >= 1
  OBVIOUS
<1>2. SubSeq(Append(s, Head(t)) \o Tail(t), 1, Len(s) + 1) = Append(s, Head(t))
  BY <1>1, JoinStart
<1>3. Append(s, Head(t)) \o Tail(t) = s \o t
  BY JoinMove
<1>4. Len(s) + 1 \in 1..Len(s \o t) /\ (s \o t)[Len(s) + 1] = Head(t)
  BY <1>1, JoinIs
<1> QED
  BY <1>2, <1>3, <1>4

\* Without it, the rest of the second follows the first.
LEMMA JoinRemove ==
  ASSUME NEW S, NEW s \in Seq(S), NEW t \in Seq(S), t # <<>>
  PROVE  RemoveAt(s \o t, Len(s) + 1) = s \o Tail(t)
<1> DEFINE u == s \o t
           v == SubSeq(u, Len(s) + 2, Len(u))
<1>1. /\ u \in Seq(S) /\ Len(u) = Len(s) + Len(t) /\ Len(s) \in Nat /\ Len(t) \in Nat
      /\ \A i \in 1..Len(t) : u[Len(s) + i] = t[i]
  BY JoinIs
<1>2. /\ Tail(t) \in Seq(S) /\ Len(t) >= 1 /\ Len(Tail(t)) = Len(t) - 1
      /\ \A i \in 1..Len(Tail(t)) : i + 1 \in 1..Len(t) /\ Tail(t)[i] = t[i + 1]
  BY TailIs
<1>3. SubSeq(u, 1, (Len(s) + 1) - 1) = s
  <2>1. (Len(s) + 1) - 1 = Len(s)
    BY <1>1
  <2> QED
    BY <2>1, JoinStart
<1> HIDE DEF u
<1>4. /\ v \in Seq(S) /\ Len(v) = Len(u) + 1 - (Len(s) + 2)
      /\ \A i \in 1..(Len(u) + 1 - (Len(s) + 2)) : v[i] = u[(Len(s) + 2) + i - 1]
  <2>1. /\ Len(s) + 2 \in Nat /\ Len(u) \in Nat /\ 1 <= Len(s) + 2
        /\ Len(s) + 2 <= Len(u) + 1 /\ Len(u) <= Len(u)
    BY <1>1, <1>2
  <2> QED
    BY <1>1, <2>1, SliceIs
<1> HIDE DEF v
<1>5. Len(v) = Len(Tail(t))
  BY <1>1, <1>2, <1>4
<1>6. ASSUME NEW i \in 1..Len(v) PROVE v[i] = Tail(t)[i]
  <2>1. /\ i \in 1..(Len(u) + 1 - (Len(s) + 2)) /\ i + 1 \in 1..Len(t)
        /\ (Len(s) + 2) + i - 1 = Len(s) + (i + 1)
    BY <1>1, <1>2, <1>4, <1>5
  <2>2. v[i] = u[Len(s) + (i + 1)] /\ u[Len(s) + (i + 1)] = t[i + 1]
    BY <1>1, <1>4, <2>1
  <2> QED
    BY <1>2, <1>5, <2>2
<1>7. v = Tail(t)
  BY <1>2, <1>4, <1>5, <1>6, SameSeq
<1>8. RemoveAt(u, Len(s) + 1) = SubSeq(u, 1, (Len(s) + 1) - 1) \o SubSeq(u, (Len(s) + 1) + 1, Len(u))
  BY DEF RemoveAt
<1>9. (Len(s) + 1) + 1 = Len(s) + 2
  BY <1>1
<1>10. RemoveAt(u, Len(s) + 1) = s \o v
  BY <1>3, <1>8, <1>9, Zenon DEF v
<1> QED
  BY <1>7, <1>10 DEF u

\* The frames sent so far, and one more.
LEMMA CountingGrows ==
  ASSUME NEW n \in Nat
  PROVE  /\ Counting(n) \in Seq(Nat) /\ Len(Counting(n)) = n
         /\ Append(Counting(n), n + 1) = Counting(n + 1)
         /\ Counting(0) = <<>>
<1>1. Counting(n) \in Seq(Nat) /\ Len(Counting(n)) = n
  BY DEF Counting
<1>2. Append(Counting(n), n + 1) = Counting(n + 1)
  BY DEF Counting
<1>3. Counting(0) = <<>>
  BY DEF Counting
<1> QED
  BY <1>1, <1>2, <1>3

-----------------------------------------------------------------------------
(* How a stream ends *)

\* Answering everybody waiting keeps the calls typed and in order.
LEMMA SettleTyped ==
  ASSUME TypeOK, NEW w \in {"done", "error"}, Settle(w)
  PROVE  pending' \in Seq(NextCalls) /\ calls' \in [NextCalls -> Answers]
<1>1. pending' \in Seq(NextCalls)
  BY DEF Settle
<1>2. ASSUME NEW n \in NextCalls
      PROVE  (IF calls[n].what = "waiting" THEN Answer(w, 0) ELSE calls[n]) \in Answers
  BY DEF TypeOK, Answer, Answers
<1> QED
  BY <1>1, <1>2 DEF Settle

\* Who was waiting has the answer; the others keep theirs.
LEMMA SettleAnswers ==
  ASSUME TypeOK, NEW w \in {"done", "error"}, Settle(w), NEW n \in NextCalls
  PROVE  /\ calls[n].what = "waiting" => calls'[n].what = w
         /\ calls[n].what # "waiting" => calls'[n] = calls[n]
BY DEF Settle, Answer

\* Ending the iteration hands out no event.
LEMMA SettleKeepsOrder ==
  ASSUME TypeOK, WaitInv, AnswerInv, NEW w \in {"done", "error"}, Settle(w)
  PROVE  /\ WaitInv'
         /\ AnsweredInOrder'
         /\ \A n \in NextCalls : calls'[n].what = "event" => calls[n].what = "event" /\ calls'[n] = calls[n]
<1>1. /\ pending' = <<>>
      /\ \A n \in NextCalls : calls'[n].what = "waiting" => FALSE
      /\ \A n \in NextCalls : calls'[n].what = "none" <=> calls[n].what = "none"
      /\ \A n \in NextCalls : calls'[n].what = "event" => calls[n].what = "event" /\ calls'[n] = calls[n]
  BY SettleAnswers DEF Settle
<1>2. WaitInv'
  BY <1>1 DEF WaitInv
<1>3. AnsweredInOrder'
  BY <1>1 DEF AnswerInv, AnsweredInOrder
<1> QED
  BY <1>1, <1>2, <1>3

\* A stream that ends, well or not, does so with its socket, its timer and
\* its consumers.
LEMMA EndEnds ==
  ASSUME TypeOK, EndInv, SendInv, ~ended, UNCHANGED <<asked, sent, opened>>,
         NEW w \in {"done", "error"}, Settle(w),
         handshake' = FALSE, ended' = TRUE, outbound' = <<>>,
         socket' \in {"closing", "closed"},
         failure' \in Failures, failure' # "none" => w = "error"
  PROVE  EndInv' /\ SendInv'
<1>1. EndInv'
  BY SettleAnswers DEF EndInv, Settle
<1>2. SendInv'
  BY DEF SendInv
<1> QED
  BY <1>1, <1>2

-----------------------------------------------------------------------------
(* Events on their way *)

\* A frame that leaves the inbox and is kept by nobody overtakes nothing.
LEMMA Discard ==
  ASSUME TypeOK, FramesInv, inbox # <<>>, inbox' = Tail(inbox), UNCHANGED <<queue, emitted>>
  PROVE  /\ FramesInv'
         /\ AnswerInv /\ UNCHANGED calls => AnswerInv'
<1>1. /\ inbox \in Seq(Frames) /\ queue \in Seq(Events) /\ emitted \in Nat
      /\ Len(inbox) \in Nat /\ Len(queue) \in Nat
  BY DEF TypeOK
<1>2. /\ Len(inbox') = Len(inbox) - 1
      /\ \A i \in 1..Len(inbox') : i + 1 \in 1..Len(inbox) /\ inbox'[i] = inbox[i + 1]
  BY <1>1, TailIs, Zenon
<1>3. FramesInv'
  BY <1>1, <1>2 DEF FramesInv, Rising
<1>4. AnswerInv /\ UNCHANGED calls => AnswerInv'
  BY <1>1, <1>2 DEF AnswerInv, AnsweredInOrder
<1> QED
  BY <1>3, <1>4

\* The event that leaves the inbox is the first of those that are to come.
LEMMA Deliver ==
  ASSUME TypeOK, FramesInv, AnswerInv, inbox # <<>>, inbox' = Tail(inbox), UNCHANGED emitted
  PROVE  /\ Head(inbox).number \in Nat /\ Head(inbox).number <= emitted
         /\ \A i \in 1..Len(inbox') : Head(inbox).number < inbox'[i].number
         /\ \A i \in 1..Len(queue) : queue[i].number < Head(inbox).number
         /\ \A n \in NextCalls :
              calls[n].what = "event" => calls[n].number < Head(inbox).number
<1>1. inbox \in Seq(Frames) /\ Len(inbox) \in Nat /\ Len(inbox) >= 1
  BY DEF TypeOK
<1>2. /\ Head(inbox) = inbox[1] /\ Head(inbox) \in Frames
      /\ Len(inbox') = Len(inbox) - 1
      /\ \A i \in 1..Len(inbox') : i + 1 \in 1..Len(inbox) /\ inbox'[i] = inbox[i + 1]
  BY <1>1, TailIs, Zenon
<1>3. Head(inbox).number \in Nat
  BY <1>2 DEF Frames
<1>4. 1 \in 1..Len(inbox)
  BY <1>1
<1>5. \A i \in 1..Len(inbox') : Head(inbox).number < inbox'[i].number
  BY <1>1, <1>2, <1>4 DEF FramesInv, Rising
<1> QED
  BY <1>2, <1>3, <1>4, <1>5 DEF FramesInv, AnswerInv

\* Kept in the queue, it is the last of those to be read.
LEMMA Keep ==
  ASSUME TypeOK, FramesInv, AnswerInv, inbox # <<>>, inbox' = Tail(inbox), UNCHANGED emitted,
         Head(inbox) \in Events, queue' = Append(queue, Head(inbox))
  PROVE  /\ FramesInv'
         /\ UNCHANGED calls => AnswerInv'
<1>1. /\ inbox \in Seq(Frames) /\ queue \in Seq(Events) /\ emitted \in Nat
      /\ Len(inbox) \in Nat /\ Len(queue) \in Nat
  BY DEF TypeOK
<1>2. /\ Len(inbox') = Len(inbox) - 1
      /\ \A i \in 1..Len(inbox') : i + 1 \in 1..Len(inbox) /\ inbox'[i] = inbox[i + 1]
  BY <1>1, TailIs, Zenon
<1>3. /\ Len(queue') = Len(queue) + 1 /\ queue'[Len(queue) + 1] = Head(inbox)
      /\ \A i \in 1..Len(queue) : queue'[i] = queue[i]
      /\ \A i \in 1..Len(queue') : i = Len(queue) + 1 \/ i \in 1..Len(queue)
  BY <1>1, AppendIs
<1>4. Rising(inbox)' /\ \A i \in 1..Len(inbox') : inbox'[i].number <= emitted'
  BY <1>1, <1>2 DEF FramesInv, Rising
<1>5. Rising(queue)'
  BY <1>1, <1>3, Deliver DEF FramesInv, Rising
<1>6. \A i \in 1..Len(queue') : queue'[i].number <= emitted'
  BY <1>3, Deliver DEF FramesInv
<1>7. \A i \in 1..Len(queue'), j \in 1..Len(inbox') : queue'[i].number < inbox'[j].number
  BY <1>1, <1>2, <1>3, Deliver DEF FramesInv
<1>8. UNCHANGED calls => AnswerInv'
  BY <1>1, <1>2, <1>3, Deliver DEF AnswerInv, AnsweredInOrder
<1> QED
  BY <1>4, <1>5, <1>6, <1>7, <1>8 DEF FramesInv

\* Handed to the consumer that has waited longest, it is the latest answer,
\* and the others who wait called later.
LEMMA HandOver ==
  ASSUME IInv, inbox # <<>>, inbox' = Tail(inbox), UNCHANGED <<emitted, queue>>,
         pending # <<>>,
         calls' = [calls EXCEPT ![Head(pending)] = Answer("event", Head(inbox).number)],
         pending' = Tail(pending)
  PROVE  /\ calls' \in [NextCalls -> Answers] /\ pending' \in Seq(NextCalls)
         /\ OrderInv'
         /\ ~ended => \A n \in NextCalls : calls'[n].what \notin {"done", "error"}
<1> DEFINE h == Head(pending)
           e == Head(inbox).number
<1>1. TypeOK /\ FramesInv /\ WaitInv /\ AnswerInv /\ EndInv
  BY DEF IInv, OrderInv
<1>2. /\ pending \in Seq(NextCalls) /\ Len(pending) \in Nat /\ calls \in [NextCalls -> Answers]
      /\ inbox \in Seq(Frames)
  BY <1>1 DEF TypeOK
<1>3. /\ h \in NextCalls /\ h = pending[1] /\ Len(pending) >= 1
      /\ pending' \in Seq(NextCalls) /\ Len(pending') = Len(pending) - 1
      /\ \A i \in 1..Len(pending') : i + 1 \in 1..Len(pending) /\ pending'[i] = pending[i + 1]
  BY <1>2, TailIs, Zenon
<1>4. Head(inbox) \in Frames /\ e \in 1..MaxFrames
  <2>1. Head(inbox) \in Frames
    BY <1>2, TailIs, Zenon
  <2> QED
    BY <2>1 DEF Frames
<1>5. /\ calls'[h].what = "event" /\ calls'[h].number = e
      /\ \A n \in NextCalls : n # h => calls'[n] = calls[n]
      /\ calls' \in [NextCalls -> Answers]
  BY <1>2, <1>3, <1>4 DEF Answer, Answers
<1>6. calls[h].what = "waiting" /\ queue = <<>>
  BY <1>1, <1>3 DEF WaitInv
<1>7. NextCalls \subseteq Nat
  BY DEF NextCalls
<1> HIDE DEF h, e
<1>8. WaitInv'
  <2>1. \A i, j \in 1..Len(pending') : i < j => pending'[i] < pending'[j]
    BY <1>1, <1>2, <1>3 DEF WaitInv
  <2>2. ASSUME NEW n \in NextCalls
        PROVE  calls'[n].what = "waiting" <=> \E i \in 1..Len(pending') : pending'[i] = n
    <3>1. CASE n = h
      BY <1>1, <1>2, <1>3, <1>5, <1>7, <3>1 DEF WaitInv
    <3>2. CASE n # h
      <4>1. calls'[n].what = "waiting" <=> \E i \in 1..Len(pending) : pending[i] = n
        BY <1>1, <1>5, <3>2 DEF WaitInv
      <4>2. ASSUME NEW i \in 1..Len(pending), pending[i] = n
            PROVE  \E j \in 1..Len(pending') : pending'[j] = n
        <5>1. i - 1 \in 1..Len(pending') /\ (i - 1) + 1 = i
          BY <1>2, <1>3, <3>2, <4>2
        <5>2. pending'[i - 1] = n
          BY <1>3, <4>2, <5>1
        <5> QED
          BY <5>1, <5>2
      <4>3. ASSUME NEW j \in 1..Len(pending'), pending'[j] = n
            PROVE  \E i \in 1..Len(pending) : pending[i] = n
        BY <1>3, <4>3
      <4> QED
        BY <4>1, <4>2, <4>3
    <3> QED
      BY <3>1, <3>2
  <2>3. \A m, n \in NextCalls : m < n /\ calls'[n].what # "none" => calls'[m].what # "none"
    BY <1>1, <1>5, <1>6 DEF WaitInv
  <2>4. ASSUME NEW m \in NextCalls, NEW n \in NextCalls,
               calls'[m].what = "event", calls'[n].what = "waiting"
        PROVE  m < n
    <3>1. n # h /\ calls[n].what = "waiting"
      BY <1>5, <2>4
    <3>2. CASE m # h
      BY <1>1, <1>5, <2>4, <3>1, <3>2 DEF WaitInv
    <3>3. CASE m = h
      BY <1>1, <1>2, <1>3, <3>1, <3>3 DEF WaitInv
    <3> QED
      BY <3>2, <3>3
  <2> QED
    BY <1>6, <2>1, <2>2, <2>3, <2>4 DEF WaitInv
<1>9. /\ \A i \in 1..Len(inbox') : e < inbox'[i].number
      /\ \A n \in NextCalls : calls[n].what = "event" => calls[n].number < e
      /\ e <= emitted
  BY <1>1, Deliver DEF e
<1>10. AnsweredInOrder'
  <2> SUFFICES ASSUME NEW m \in NextCalls, NEW n \in NextCalls, m < n,
                      calls'[m].what = "event", calls'[n].what = "event"
               PROVE  calls'[m].number < calls'[n].number
    BY DEF AnsweredInOrder
  <2>1. CASE n = h
    BY <1>5, <1>7, <1>9, <2>1
  <2>2. CASE m = h
    <3>1. calls[n].what = "event"
      BY <1>5, <1>7, <2>2
    <3> QED
      BY <1>1, <1>6, <1>7, <2>2, <3>1 DEF WaitInv
  <2>3. CASE m # h /\ n # h
    BY <1>1, <1>5, <2>3 DEF AnswerInv, AnsweredInOrder
  <2> QED
    BY <2>1, <2>2, <2>3
<1>11. AnswerInv'
  <2>1. /\ Len(inbox) \in Nat /\ Len(inbox') = Len(inbox) - 1
        /\ \A i \in 1..Len(inbox') : i + 1 \in 1..Len(inbox) /\ inbox'[i] = inbox[i + 1]
    BY <1>2, TailIs
  <2>2. ASSUME NEW n \in NextCalls, calls'[n].what = "event"
        PROVE  /\ calls'[n].number <= emitted'
               /\ \A i \in 1..Len(queue') : calls'[n].number < queue'[i].number
               /\ \A i \in 1..Len(inbox') : calls'[n].number < inbox'[i].number
    <3>1. CASE n = h
      BY <1>5, <1>6, <1>9, <3>1
    <3>2. CASE n # h
      BY <1>1, <1>5, <2>1, <2>2, <3>2 DEF AnswerInv
    <3> QED
      BY <3>1, <3>2
  <2> QED
    BY <1>10, <2>2 DEF AnswerInv
<1> QED
  BY <1>1, <1>3, <1>5, <1>8, <1>11, Discard DEF OrderInv, EndInv

-----------------------------------------------------------------------------
(* Every handler keeps IInv. *)

\* The server numbers its frames upwards.
LEMMA EmitPreserves ==
  ASSUME IInv, NEW k \in Kinds, Emit(k)
  PROVE  IInv'
<1> DEFINE f == [kind |-> k, number |-> emitted + 1]
<1>1. /\ inbox \in Seq(Frames) /\ Len(inbox) \in Nat /\ emitted \in 0..MaxFrames
      /\ emitted + 1 \in 0..MaxFrames /\ emitted' = emitted + 1 /\ f \in Frames
      /\ queue \in Seq(Events) /\ Len(queue) \in Nat
  BY BoundsAssumption DEF IInv, TypeOK, Emit, Frames
<1>2. /\ inbox' \in Seq(Frames) /\ Len(inbox') = Len(inbox) + 1 /\ inbox'[Len(inbox) + 1] = f
      /\ \A i \in 1..Len(inbox) : inbox'[i] = inbox[i]
      /\ \A i \in 1..Len(inbox') : i = Len(inbox) + 1 \/ i \in 1..Len(inbox)
  BY <1>1, AppendIs DEF Emit
<1>3. TypeOK'
  BY <1>1, <1>2 DEF IInv, TypeOK, Emit, stream
<1>4. EndInv' /\ SendInv'
  BY DEF IInv, EndInv, SendInv, Emit, stream
<1>5. FramesInv'
  <2>1. ASSUME NEW i \in 1..Len(inbox) PROVE inbox[i].number \in Nat
    <3>1. inbox[i] \in Frames
      BY <1>1
    <3> QED
      BY <3>1 DEF Frames
  <2>2. ASSUME NEW i \in 1..Len(queue) PROVE queue[i].number \in Nat
    <3>1. queue[i] \in Events
      BY <1>1
    <3> QED
      BY <3>1 DEF Events
  <2>3. FramesInv /\ queue' = queue /\ f.number = emitted + 1 /\ emitted \in Nat
    BY <1>1 DEF IInv, OrderInv, Emit
  <2> HIDE DEF f
  <2>4. Rising(inbox)'
    <3> SUFFICES ASSUME NEW i \in 1..Len(inbox'), NEW j \in 1..Len(inbox'), i < j
                 PROVE  inbox'[i].number < inbox'[j].number
      BY DEF Rising
    <3>1. i \in 1..Len(inbox) /\ inbox'[i] = inbox[i]
      BY <1>1, <1>2
    <3>2. CASE j = Len(inbox) + 1
      <4>1. inbox[i].number <= emitted
        BY <2>3, <3>1 DEF FramesInv
      <4> QED
        BY <1>2, <2>1, <2>3, <3>1, <3>2, <4>1
    <3>3. CASE j \in 1..Len(inbox)
      BY <1>2, <2>3, <3>1, <3>3 DEF FramesInv, Rising
    <3> QED
      BY <1>2, <3>2, <3>3
  <2>5. \A i \in 1..Len(inbox') : inbox'[i].number <= emitted'
    BY <1>1, <1>2, <2>1, <2>3 DEF FramesInv
  <2>6. /\ \A i \in 1..Len(queue') : queue'[i].number <= emitted'
        /\ \A i \in 1..Len(queue'), j \in 1..Len(inbox') : queue'[i].number < inbox'[j].number
    <3>1. ASSUME NEW i \in 1..Len(queue)
          PROVE  queue[i].number \in Nat /\ queue[i].number <= emitted
      BY <2>2, <2>3 DEF FramesInv
    <3>2. ASSUME NEW i \in 1..Len(queue), NEW j \in 1..Len(inbox')
          PROVE  queue[i].number < inbox'[j].number
      <4>1. CASE j = Len(inbox) + 1
        <5>1. inbox'[j].number = emitted + 1
          BY <1>2, <2>3, <4>1
        <5> QED
          BY <2>3, <3>1, <5>1
      <4>2. CASE j \in 1..Len(inbox)
        BY <1>2, <2>3, <4>2 DEF FramesInv
      <4> QED
        BY <1>2, <4>1, <4>2
    <3> QED
      BY <1>1, <2>3, <3>1, <3>2
  <2> QED
    BY <2>3, <2>4, <2>5, <2>6 DEF FramesInv, Rising
<1>6. WaitInv'
  BY DEF IInv, OrderInv, WaitInv, Emit
<1>7. AnswerInv'
  <2>1. \A n \in NextCalls : calls[n].what = "event" => calls[n].number \in Nat
    BY DEF IInv, TypeOK, Answers
  <2>2. AnswerInv /\ queue' = queue /\ calls' = calls /\ f.number = emitted + 1
    BY DEF IInv, OrderInv, Emit
  <2> HIDE DEF f
  <2> QED
    BY <1>1, <1>2, <2>1, <2>2 DEF AnswerInv, AnsweredInOrder
<1> QED
  BY <1>3, <1>4, <1>5, <1>6, <1>7 DEF IInv, OrderInv

\* A handler that ends the stream and leaves the events where they are.
LEMMA EndPreserves ==
  ASSUME IInv, ~ended, UNCHANGED <<inbox, emitted, queue, asked, sent, opened>>,
         aborted' \in BOOLEAN, NEW w \in {"done", "error"}, Settle(w),
         handshake' = FALSE, ended' = TRUE, outbound' = <<>>,
         socket' \in {"closing", "closed"},
         failure' \in Failures, failure' # "none" => w = "error"
  PROVE  IInv'
<1>1. TypeOK /\ EndInv /\ SendInv /\ FramesInv /\ WaitInv /\ AnswerInv
  BY DEF IInv, OrderInv
<1>2. TypeOK'
  <2>1. pending' \in Seq(NextCalls) /\ calls' \in [NextCalls -> Answers]
    BY <1>1, SettleTyped
  <2>2. outbound' \in Seq(1..MaxSends)
    OBVIOUS
  <2>3. handshake' \in BOOLEAN /\ ended' \in BOOLEAN /\ opened' \in BOOLEAN
    BY <1>1, Zenon DEF TypeOK
  <2> QED
    BY <1>1, <2>1, <2>2, <2>3 DEF TypeOK
<1>3. EndInv' /\ SendInv'
  BY <1>1, EndEnds
<1>4. WaitInv'
  BY <1>1, SettleKeepsOrder
<1>5. AnswerInv' /\ FramesInv'
  BY <1>1, SettleKeepsOrder DEF AnswerInv, FramesInv
<1> QED
  BY <1>2, <1>3, <1>4, <1>5 DEF IInv, OrderInv

\* The frames that waited go out in the order they came, or the handshake
\* fails.
LEMMA onOpenPreserves ==
  ASSUME IInv, NEW s \in {"fissionplane.v1", "other"}, onOpen(s)
  PROVE  IInv'
<1>1. ~ended /\ ~opened /\ sent = <<>> /\ outbound = Counting(asked)
  BY DEF IInv, EndInv, SendInv, onOpen
<1>2. CASE s = "other"
  BY <1>1, <1>2, EndPreserves DEF onOpen, fail, Failures, IInv, TypeOK
<1>3. CASE s # "other"
  <2>1. /\ handshake' = FALSE /\ opened' = TRUE /\ sent' = sent \o outbound /\ outbound' = <<>>
        /\ socket' = "open"
        /\ UNCHANGED <<inbox, emitted, ended, failure, queue, pending, calls, asked, aborted>>
    BY <1>3 DEF onOpen
  <2>2. asked \in Nat /\ outbound \in Seq(1..MaxSends)
    BY BoundsAssumption DEF IInv, TypeOK
  <2>3. sent' = outbound /\ sent' = Counting(asked) /\ Len(sent') = asked
    BY <1>1, <2>1, <2>2, CountingGrows
  <2>4. TypeOK'
    <3>1. outbound' \in Seq(1..MaxSends) /\ sent' \in Seq(1..MaxSends)
      BY <2>1, <2>2, <2>3
    <3> QED
      BY <2>1, <3>1 DEF IInv, TypeOK
  <2>5. EndInv' /\ SendInv'
    BY <1>1, <2>1, <2>3 DEF IInv, EndInv, SendInv
  <2>6. OrderInv'
    BY <2>1 DEF IInv, OrderInv, FramesInv, Rising, WaitInv, AnswerInv, AnsweredInOrder
  <2> QED
    BY <2>4, <2>5, <2>6 DEF IInv
<1> QED
  BY <1>2, <1>3

\* The socket fails before the stream has ended.
LEMMA onErrorPreserves ==
  ASSUME IInv, onError
  PROVE  IInv'
<1>1. ~ended /\ aborted \in BOOLEAN
  BY DEF IInv, TypeOK, EndInv, onError
<1> QED
  BY <1>1, EndPreserves DEF onError, fail, Failures

\* The socket closes: the stream ends unless it has ended.
LEMMA onClosePreserves ==
  ASSUME IInv, onClose
  PROVE  IInv'
<1>1. aborted \in BOOLEAN /\ failure \in Failures /\ (~ended => failure = "none")
  BY DEF IInv, TypeOK, EndInv
<1>2. CASE ~ended
  BY <1>1, <1>2, EndPreserves DEF onClose, finish
<1>3. CASE ended
  <2>1. /\ socket' = "closed"
        /\ UNCHANGED <<inbox, emitted, handshake, opened, ended, failure, queue, pending, calls,
                       asked, outbound, sent, aborted>>
    BY <1>3 DEF onClose, stream
  <2>2. TypeOK' /\ EndInv' /\ SendInv'
    BY <1>3, <2>1 DEF IInv, TypeOK, EndInv, SendInv
  <2>3. OrderInv'
    BY <2>1 DEF IInv, OrderInv, FramesInv, Rising, WaitInv, AnswerInv, AnsweredInOrder
  <2> QED
    BY <2>2, <2>3 DEF IInv
<1> QED
  BY <1>2, <1>3

\* The handshake's timer runs only while the stream lasts.
LEMMA HandshakeTimeoutPreserves ==
  ASSUME IInv, HandshakeTimeout
  PROVE  IInv'
<1>1. ~ended /\ aborted \in BOOLEAN
  BY DEF IInv, TypeOK, EndInv, HandshakeTimeout
<1> QED
  BY <1>1, EndPreserves DEF HandshakeTimeout, fail, Failures

\* Ending the stream under receive drops the frame or keeps it for a later
\* call, behind everything answered so far.
LEMMA EndInReceivePreserves ==
  ASSUME IInv, ~ended, inbox # <<>>, inbox' = Tail(inbox),
         UNCHANGED <<emitted, asked, sent, opened, aborted>>,
         NEW w \in {"done", "error"}, Settle(w),
         handshake' = FALSE, ended' = TRUE, outbound' = <<>>, socket' = "closing",
         failure' \in Failures, failure' # "none" => w = "error",
         \/ queue' = queue
         \/ Head(inbox) \in Events /\ queue' = Append(queue, Head(inbox))
  PROVE  IInv'
<1>1. TypeOK /\ EndInv /\ SendInv /\ FramesInv /\ WaitInv /\ AnswerInv
  BY DEF IInv, OrderInv
<1>2. TypeOK'
  <2>1. pending' \in Seq(NextCalls) /\ calls' \in [NextCalls -> Answers]
    BY <1>1, SettleTyped
  <2>2. inbox' \in Seq(Frames)
    BY <1>1, TailIs DEF TypeOK
  <2>3. outbound' \in Seq(1..MaxSends) /\ sent' \in Seq(1..MaxSends)
    BY <1>1 DEF TypeOK
  <2>4. queue' \in Seq(Events)
    <3>1. queue \in Seq(Events)
      BY <1>1 DEF TypeOK
    <3>2. Head(inbox) \in Events => Append(queue, Head(inbox)) \in Seq(Events)
      BY <3>1, AppendIs
    <3> QED
      BY <3>1, <3>2
  <2>5. handshake' \in BOOLEAN /\ ended' \in BOOLEAN /\ opened' \in BOOLEAN /\ aborted' \in BOOLEAN
    BY <1>1, Zenon DEF TypeOK
  <2> QED
    BY <1>1, <2>1, <2>2, <2>3, <2>4, <2>5 DEF TypeOK
<1>3. EndInv' /\ SendInv'
  BY <1>1, EndEnds
<1>4. /\ pending' = <<>>
      /\ \A n \in NextCalls : calls'[n].what # "waiting"
      /\ \A n \in NextCalls : calls'[n].what = "none" <=> calls[n].what = "none"
      /\ \A n \in NextCalls :
           calls'[n].what = "event" => calls[n].what = "event" /\ calls'[n] = calls[n]
  BY <1>1, SettleAnswers DEF Settle
<1>5. WaitInv'
  BY <1>1, <1>4 DEF WaitInv
<1>6. FramesInv'
  BY <1>1, Discard, Keep
<1>7. AnswerInv'
  <2>1. AnsweredInOrder'
    BY <1>1, <1>4 DEF AnswerInv, AnsweredInOrder
  <2>2. ASSUME NEW n \in NextCalls, calls[n].what = "event"
        PROVE  /\ calls[n].number <= emitted'
               /\ \A i \in 1..Len(queue') : calls[n].number < queue'[i].number
               /\ \A i \in 1..Len(inbox') : calls[n].number < inbox'[i].number
    <3>1. /\ Len(inbox) \in Nat /\ Len(inbox') = Len(inbox) - 1
          /\ \A i \in 1..Len(inbox') : i + 1 \in 1..Len(inbox) /\ inbox'[i] = inbox[i + 1]
      BY <1>1, TailIs DEF TypeOK
    <3>2. \A i \in 1..Len(inbox') : calls[n].number < inbox'[i].number
      BY <1>1, <2>2, <3>1 DEF AnswerInv
    <3>3. CASE queue' = queue
      BY <1>1, <2>2, <3>2, <3>3 DEF AnswerInv
    <3>4. CASE Head(inbox) \in Events /\ queue' = Append(queue, Head(inbox))
      <4>1. queue \in Seq(Events)
        BY <1>1 DEF TypeOK
      <4>2. /\ queue'[Len(queue) + 1] = Head(inbox)
            /\ \A i \in 1..Len(queue) : queue'[i] = queue[i]
            /\ \A i \in 1..Len(queue') : i = Len(queue) + 1 \/ i \in 1..Len(queue)
        BY <3>4, <4>1, AppendIs
      <4>3. calls[n].number < Head(inbox).number
        BY <1>1, <2>2, Deliver
      <4> QED
        BY <1>1, <2>2, <3>2, <4>2, <4>3 DEF AnswerInv
    <3> QED
      BY <3>3, <3>4
  <2> QED
    BY <1>4, <2>1, <2>2 DEF AnswerInv
<1> QED
  BY <1>2, <1>3, <1>5, <1>6, <1>7 DEF IInv, OrderInv

\* A frame that is dropped or handed on leaves the stream as it is.
LEMMA ReceivePreserves ==
  ASSUME IInv, inbox # <<>>, inbox' = Tail(inbox),
         UNCHANGED <<socket, stream, outbound, emitted, asked, sent, aborted>>,
         \/ UNCHANGED <<queue, pending, calls>>
         \/ ~ended /\ Head(inbox) \in Events /\ Hand(Head(inbox))
  PROVE  IInv'
<1>1. TypeOK /\ EndInv /\ SendInv /\ FramesInv /\ WaitInv /\ AnswerInv
  BY DEF IInv, OrderInv
<1>2. inbox' \in Seq(Frames)
  BY <1>1, TailIs DEF TypeOK
<1>3. SendInv'
  BY <1>1 DEF SendInv, stream
<1>4. CASE UNCHANGED <<queue, pending, calls>>
  <2>1. TypeOK'
    BY <1>1, <1>2, <1>4 DEF TypeOK, stream
  <2>2. EndInv' /\ WaitInv'
    BY <1>1, <1>4 DEF EndInv, WaitInv, stream
  <2>3. FramesInv' /\ AnswerInv'
    BY <1>1, <1>4, Discard
  <2> QED
    BY <1>3, <2>1, <2>2, <2>3 DEF IInv, OrderInv
<1>5. CASE ~ended /\ Head(inbox) \in Events /\ Hand(Head(inbox)) /\ pending # <<>>
  <2>1. /\ calls' = [calls EXCEPT ![Head(pending)] = Answer("event", Head(inbox).number)]
        /\ pending' = Tail(pending) /\ queue' = queue /\ emitted' = emitted
    BY <1>5 DEF Hand
  <2>2. /\ calls' \in [NextCalls -> Answers] /\ pending' \in Seq(NextCalls)
        /\ OrderInv'
        /\ \A n \in NextCalls : calls'[n].what \notin {"done", "error"}
    BY <1>5, <2>1, HandOver
  <2>3. TypeOK'
    BY <1>1, <1>2, <2>1, <2>2 DEF TypeOK, stream
  <2>4. EndInv'
    BY <1>1, <1>5, <2>2 DEF EndInv, stream
  <2> QED
    BY <1>3, <2>2, <2>3, <2>4 DEF IInv
<1>6. CASE ~ended /\ Head(inbox) \in Events /\ Hand(Head(inbox)) /\ pending = <<>>
  <2>1. queue' = Append(queue, Head(inbox)) /\ UNCHANGED <<pending, calls>>
    BY <1>6 DEF Hand
  <2>2. queue' \in Seq(Events)
    BY <1>1, <1>6, <2>1, AppendIs DEF TypeOK
  <2>3. TypeOK'
    BY <1>1, <1>2, <2>1, <2>2 DEF TypeOK, stream
  <2>4. EndInv' /\ WaitInv'
    BY <1>1, <1>6, <2>1 DEF EndInv, WaitInv, stream
  <2>5. FramesInv' /\ AnswerInv'
    BY <1>1, <1>6, <2>1, Keep
  <2> QED
    BY <1>3, <2>3, <2>4, <2>5 DEF IInv, OrderInv
<1> QED
  BY <1>4, <1>5, <1>6

\* receive, whatever the listener does.
LEMMA onMessagePreserves ==
  ASSUME IInv, NEW act \in Listeners, onMessage(act)
  PROVE  IInv'
<1>1. /\ inbox # <<>> /\ inbox' = Tail(inbox) /\ UNCHANGED <<emitted, asked, sent, aborted>>
  BY DEF onMessage
<1>2. Head(inbox) \in Frames /\ failure \in Failures
  BY <1>1, TailIs DEF IInv, TypeOK
<1>3. CASE UNCHANGED <<socket, stream, queue, pending, calls, outbound>>
  BY <1>1, <1>3, ReceivePreserves
<1>4. CASE ~Dropped(Head(inbox)) /\ fail("malformed") /\ UNCHANGED queue
  BY <1>1, <1>4, EndInReceivePreserves DEF Dropped, fail, Failures
<1>5. CASE ~Dropped(Head(inbox)) /\ fail("listener") /\ UNCHANGED queue
  BY <1>1, <1>5, EndInReceivePreserves DEF Dropped, fail, Failures
<1>6. ~Dropped(Head(inbox)) /\ Head(inbox).kind # "malformed" => ~ended /\ Head(inbox) \in Events
  BY <1>2 DEF Dropped, Ignored, Frames, Events, Kinds
<1>7. CASE /\ ~Dropped(Head(inbox)) /\ Head(inbox).kind # "malformed"
           /\ Hand(Head(inbox)) /\ UNCHANGED <<socket, stream, outbound>>
  BY <1>1, <1>6, <1>7, ReceivePreserves
<1>8. CASE /\ ~Dropped(Head(inbox)) /\ Head(inbox).kind # "malformed"
           /\ Close /\ queue' = Append(queue, Head(inbox))
  <2>1. finish /\ socket' = "closing" /\ failure = "none"
    BY <1>6, <1>8 DEF Close, IInv, EndInv
  <2> QED
    BY <1>1, <1>2, <1>6, <1>8, <2>1, EndInReceivePreserves DEF finish
<1> QED
  BY <1>3, <1>4, <1>5, <1>7, <1>8 DEF onMessage

\* A call of next() with something to read gets the first of it.
LEMMA nextReads ==
  ASSUME IInv, NEW n \in NextCalls, next(n), queue # <<>>
  PROVE  IInv'
<1> DEFINE e == Head(queue).number
<1>1. TypeOK /\ EndInv /\ SendInv /\ FramesInv /\ WaitInv /\ AnswerInv
  BY DEF IInv, OrderInv
<1>2. /\ calls[n].what = "none" /\ \A m \in NextCalls : m < n => calls[m].what # "none"
      /\ calls' = [calls EXCEPT ![n] = Answer("event", e)]
      /\ queue' = Tail(queue) /\ pending' = pending
      /\ UNCHANGED <<socket, inbox, emitted, stream, asked, outbound, sent, aborted>>
  BY DEF next, NextCalls
<1>3. queue \in Seq(Events) /\ Len(queue) \in Nat /\ calls \in [NextCalls -> Answers]
  BY <1>1 DEF TypeOK
<1>4. /\ Head(queue) \in Events /\ Head(queue) = queue[1] /\ Len(queue) >= 1
      /\ queue' \in Seq(Events) /\ Len(queue') = Len(queue) - 1
      /\ \A i \in 1..Len(queue') : i + 1 \in 1..Len(queue) /\ queue'[i] = queue[i + 1]
  BY <1>2, <1>3, TailIs, Zenon
<1>5. e \in 1..MaxFrames
  BY <1>4 DEF Events
<1>6. /\ calls'[n].what = "event" /\ calls'[n].number = e
      /\ \A m \in NextCalls : m # n => calls'[m] = calls[m]
      /\ calls' \in [NextCalls -> Answers]
  BY <1>2, <1>3, <1>5 DEF Answer, Answers
<1>7. NextCalls \subseteq Nat /\ 1 \in 1..Len(queue)
  BY <1>3, <1>4 DEF NextCalls
<1>8. /\ \A i \in 1..Len(queue') : e < queue'[i].number
      /\ \A i \in 1..Len(inbox) : e < inbox[i].number
      /\ e <= emitted
      /\ \A m \in NextCalls : calls[m].what = "event" => calls[m].number < e
  <2>1. e = queue[1].number
    BY <1>4
  <2>2. \A i \in 1..Len(queue') : e < queue'[i].number
    <3> SUFFICES ASSUME NEW i \in 1..Len(queue') PROVE e < queue'[i].number
      OBVIOUS
    <3>1. i + 1 \in 1..Len(queue) /\ queue'[i] = queue[i + 1] /\ 1 < i + 1
      BY <1>3, <1>4
    <3> QED
      BY <1>1, <1>7, <2>1, <3>1 DEF FramesInv, Rising
  <2> HIDE DEF e
  <2> QED
    BY <1>1, <1>7, <2>1, <2>2 DEF FramesInv, AnswerInv
<1> HIDE DEF e
<1>9. TypeOK'
  BY <1>1, <1>2, <1>4, <1>6 DEF TypeOK, stream
<1>10. EndInv' /\ SendInv'
  BY <1>1, <1>2, <1>6 DEF EndInv, SendInv, stream
<1>11. FramesInv'
  BY <1>1, <1>2, <1>3, <1>4 DEF FramesInv, Rising
<1>12. WaitInv'
  <2>1. pending = <<>> /\ \A m \in NextCalls : calls[m].what # "waiting"
    BY <1>1 DEF WaitInv
  <2>2. \A m \in NextCalls : calls'[m].what # "waiting"
    BY <1>6, <2>1
  <2>3. \A m, k \in NextCalls : m < k /\ calls'[k].what # "none" => calls'[m].what # "none"
    BY <1>1, <1>2, <1>6 DEF WaitInv
  <2> QED
    BY <1>2, <2>1, <2>2, <2>3 DEF WaitInv
<1>13. AnsweredInOrder'
  <2> SUFFICES ASSUME NEW m \in NextCalls, NEW k \in NextCalls, m < k,
                      calls'[m].what = "event", calls'[k].what = "event"
               PROVE  calls'[m].number < calls'[k].number
    BY DEF AnsweredInOrder
  <2>1. CASE k = n
    BY <1>6, <1>7, <1>8, <2>1
  <2>2. CASE m = n
    <3>1. calls[k].what # "none"
      BY <1>6, <1>7, <2>2
    <3> QED
      BY <1>1, <1>2, <2>2, <3>1 DEF WaitInv
  <2>3. CASE m # n /\ k # n
    BY <1>1, <1>6, <2>3 DEF AnswerInv, AnsweredInOrder
  <2> QED
    BY <2>1, <2>2, <2>3
<1>14. AnswerInv'
  BY <1>1, <1>2, <1>3, <1>4, <1>6, <1>8, <1>13 DEF AnswerInv
<1> QED
  BY <1>9, <1>10, <1>11, <1>12, <1>14 DEF IInv, OrderInv

\* A call with nothing to read waits its turn, or learns how it ended.
LEMMA nextWaits ==
  ASSUME IInv, NEW n \in NextCalls, next(n), queue = <<>>
  PROVE  IInv'
<1> DEFINE w == IF failure # "none" THEN "error" ELSE IF ended THEN "done" ELSE "waiting"
<1>1. TypeOK /\ EndInv /\ SendInv /\ FramesInv /\ WaitInv /\ AnswerInv
  BY DEF IInv, OrderInv
<1>2. /\ calls[n].what = "none" /\ \A m \in NextCalls : m < n => calls[m].what # "none"
      /\ calls' = [calls EXCEPT ![n] = Answer(w, 0)]
      /\ pending' = IF ended THEN pending ELSE Append(pending, n)
      /\ UNCHANGED <<socket, inbox, emitted, stream, asked, outbound, sent, aborted, queue>>
  BY DEF next, NextCalls
<1>3. pending \in Seq(NextCalls) /\ Len(pending) \in Nat /\ calls \in [NextCalls -> Answers]
  BY <1>1 DEF TypeOK
<1>4. /\ w \in {"error", "done", "waiting"}
      /\ w = "waiting" <=> ~ended
      /\ w = "done" => failure = "none"
  BY <1>1 DEF EndInv
<1> HIDE DEF w
<1>5. /\ calls'[n].what = w
      /\ \A m \in NextCalls : m # n => calls'[m] = calls[m]
      /\ calls' \in [NextCalls -> Answers]
  BY <1>2, <1>3, <1>4 DEF Answer, Answers
<1>6. NextCalls \subseteq Nat
  BY DEF NextCalls
<1>7. pending' \in Seq(NextCalls)
  BY <1>2, <1>3, AppendIs
<1>8. TypeOK'
  BY <1>1, <1>2, <1>5, <1>7 DEF TypeOK, stream
<1>9. EndInv' /\ SendInv'
  BY <1>1, <1>2, <1>4, <1>5 DEF EndInv, SendInv, stream
<1>10. FramesInv'
  BY <1>1, <1>2 DEF FramesInv, Rising
<1>11. \A m, k \in NextCalls : m < k /\ calls'[k].what # "none" => calls'[m].what # "none"
  BY <1>1, <1>2, <1>4, <1>5 DEF WaitInv
<1>12. \A m \in NextCalls : calls[m].what # "none" => m < n
  BY <1>1, <1>2, <1>6 DEF WaitInv
<1>13. WaitInv'
  <2>1. CASE ended
    BY <1>1, <1>2, <1>4, <1>5, <1>11, <2>1 DEF WaitInv, EndInv
  <2>2. CASE ~ended
    <3>1. /\ Len(pending') = Len(pending) + 1 /\ pending'[Len(pending) + 1] = n
          /\ \A i \in 1..Len(pending) : pending'[i] = pending[i]
          /\ \A i \in 1..Len(pending') : i = Len(pending) + 1 \/ i \in 1..Len(pending)
      BY <1>2, <1>3, <2>2, AppendIs
    <3>2. \A i \in 1..Len(pending) : pending[i] \in NextCalls /\ pending[i] < n
      <4>1. ASSUME NEW i \in 1..Len(pending) PROVE pending[i] \in NextCalls
        BY <1>3
      <4> QED
        BY <1>1, <1>12, <4>1 DEF WaitInv
    <3>3. \A i, j \in 1..Len(pending') : i < j => pending'[i] < pending'[j]
      BY <1>1, <1>3, <3>1, <3>2 DEF WaitInv
    <3>4. ASSUME NEW m \in NextCalls
          PROVE  calls'[m].what = "waiting" <=> \E i \in 1..Len(pending') : pending'[i] = m
      <4>1. CASE m = n
        BY <1>3, <1>4, <1>5, <2>2, <3>1, <4>1
      <4>2. CASE m # n
        <5>1. calls'[m].what = "waiting" <=> \E i \in 1..Len(pending) : pending[i] = m
          BY <1>1, <1>5, <4>2 DEF WaitInv
        <5> QED
          BY <1>3, <3>1, <4>2, <5>1
      <4> QED
        BY <4>1, <4>2
    <3>5. \A m, k \in NextCalls :
            calls'[m].what = "event" /\ calls'[k].what = "waiting" => m < k
      BY <1>1, <1>4, <1>5, <1>12 DEF WaitInv
    <3> QED
      BY <1>2, <1>11, <3>3, <3>4, <3>5 DEF WaitInv
  <2> QED
    BY <2>1, <2>2
<1>14. AnswerInv'
  BY <1>1, <1>2, <1>4, <1>5 DEF AnswerInv, AnsweredInOrder
<1> QED
  BY <1>8, <1>9, <1>10, <1>13, <1>14 DEF IInv, OrderInv

\* close() ends the stream and leaves what is to be read.
LEMMA closePreserves ==
  ASSUME IInv, close
  PROVE  IInv'
<1>1. aborted \in BOOLEAN /\ failure = "none" /\ ~ended
  BY DEF IInv, TypeOK, EndInv, close
<1> QED
  BY <1>1, EndPreserves DEF close, Close, finish, Failures

\* A frame goes out, or waits behind those that already do.
LEMMA sendPreserves ==
  ASSUME IInv, send
  PROVE  IInv'
<1>1. TypeOK /\ EndInv /\ SendInv /\ OrderInv
  BY DEF IInv
<1>2. /\ asked \in Nat /\ asked + 1 \in 1..MaxSends /\ asked' = asked + 1 /\ ~ended
      /\ UNCHANGED <<socket, inbox, emitted, stream, queue, pending, calls, aborted>>
      /\ outbound \in Seq(1..MaxSends) /\ sent \in Seq(1..MaxSends)
  BY <1>1, BoundsAssumption DEF TypeOK, send
<1>3. OrderInv' /\ EndInv'
  BY <1>1, <1>2
  DEF OrderInv, FramesInv, Rising, WaitInv, AnswerInv, AnsweredInOrder, EndInv, stream
<1>4. CASE opened
  <2>1. sent' = Append(sent, asked + 1) /\ outbound' = outbound /\ sent = Counting(asked)
    BY <1>1, <1>2, <1>4 DEF send, SendInv
  <2>2. sent' = Counting(asked + 1) /\ Len(sent') = asked + 1 /\ sent' \in Seq(1..MaxSends)
    <3>1. sent' \in Seq(1..MaxSends)
      BY <1>2, <2>1, AppendIs
    <3>2. sent' = Counting(asked + 1)
      BY <1>2, <2>1, CountingGrows
    <3>3. asked + 1 \in Nat /\ Len(Counting(asked + 1)) = asked + 1
      BY <1>2, CountingGrows
    <3> QED
      BY <3>1, <3>2, <3>3
  <2>3. TypeOK'
    BY <1>1, <1>2, <2>1, <2>2 DEF TypeOK, stream
  <2>4. SendInv'
    BY <1>1, <1>2, <1>4, <2>1, <2>2 DEF SendInv, stream
  <2> QED
    BY <1>3, <2>3, <2>4 DEF IInv
<1>5. CASE ~opened
  <2>1. outbound' = Append(outbound, asked + 1) /\ sent' = sent /\ outbound = Counting(asked)
    BY <1>1, <1>2, <1>5 DEF send, SendInv
  <2>2. outbound' = Counting(asked + 1) /\ outbound' \in Seq(1..MaxSends)
    BY <1>2, <2>1, CountingGrows, AppendIs
  <2>3. TypeOK'
    BY <1>1, <1>2, <2>1, <2>2 DEF TypeOK, stream
  <2>4. SendInv'
    BY <1>1, <1>2, <1>5, <2>1, <2>2 DEF SendInv, stream
  <2> QED
    BY <1>3, <2>3, <2>4 DEF IInv
<1> QED
  BY <1>4, <1>5

\* The signal closes a stream that has not ended.
LEMMA abortPreserves ==
  ASSUME IInv, abort
  PROVE  IInv'
<1>1. failure \in Failures /\ (~ended => failure = "none")
  BY DEF IInv, TypeOK, EndInv
<1>2. CASE ~ended
  BY <1>1, <1>2, EndPreserves DEF abort, Close, finish
<1>3. CASE ended
  <2>1. /\ aborted' = TRUE
        /\ UNCHANGED <<socket, inbox, emitted, handshake, opened, ended, failure, queue, pending,
                       calls, asked, outbound, sent>>
    BY <1>3 DEF abort, Close, stream
  <2>2. TypeOK' /\ EndInv' /\ SendInv'
    BY <2>1 DEF IInv, TypeOK, EndInv, SendInv
  <2>3. OrderInv'
    BY <2>1 DEF IInv, OrderInv, FramesInv, Rising, WaitInv, AnswerInv, AnsweredInOrder
  <2> QED
    BY <2>2, <2>3 DEF IInv
<1> QED
  BY <1>2, <1>3

-----------------------------------------------------------------------------
(* A stream is a queue: every handler is a step of EventQueue, or none. *)

QueueStep == [Queue!QueueNext]_(Queue!queueVars)

\* What is kept and what is on its way are frames.
LEMMA ItemsTyped ==
  ASSUME TypeOK
  PROVE  /\ queue \in Seq(Frames) /\ inbox \in Seq(Frames)
         /\ calls \in [NextCalls -> Answers]
<1>1. Events \subseteq Frames
  BY DEF Events, Frames, Kinds
<1>2. queue \in Seq(Events) /\ inbox \in Seq(Frames) /\ calls \in [NextCalls -> Answers]
  BY DEF TypeOK
<1> QED
  BY <1>1, <1>2

\* Whatever ends the stream, with the first i items left to read, ends the
\* queue in the same way.
LEMMA EndsQueue ==
  ASSUME IInv, ~ended, ended' = TRUE,
         NEW w \in {"done", "error"}, Settle(w), failure' # "none" <=> w = "error",
         NEW i \in 0..Len(queue \o inbox), queue' = SubSeq(queue \o inbox, 1, i)
  PROVE  QueueStep
<1>1. /\ calls' = [n \in NextCalls |->
                     IF calls[n].what = "waiting" THEN Queue!Reply(w, 0) ELSE calls[n]]
  BY DEF Settle, Answer, Queue!Reply
<1>2. Queue!End(w)
  BY <1>1 DEF Queue!End
<1> QED
  BY <1>2 DEF QueueStep, Queue!QueueNext

\* An end that leaves the queue as it is.
LEMMA EndsQueueHere ==
  ASSUME IInv, ~ended, ended' = TRUE, UNCHANGED queue,
         NEW w \in {"done", "error"}, Settle(w), failure' # "none" <=> w = "error"
  PROVE  QueueStep
<1>1. queue \in Seq(Frames) /\ inbox \in Seq(Frames)
  BY ItemsTyped DEF IInv
<1>2. Len(queue) \in 0..Len(queue \o inbox)
  BY <1>1, JoinIs
<1>3. queue' = SubSeq(queue \o inbox, 1, Len(queue))
  BY <1>1, JoinStart
<1> QED
  BY <1>2, <1>3, EndsQueue

\* A failure is such an end,
LEMMA FailEndsQueue ==
  ASSUME IInv, ~ended, UNCHANGED queue, NEW f \in Failures \ {"none"}, fail(f)
  PROVE  QueueStep
<1>1. ended' = TRUE /\ Settle("error") /\ failure' # "none"
  BY DEF fail
<1> QED
  BY <1>1, EndsQueueHere

\* and so is an end without one.
LEMMA FinishEndsQueue ==
  ASSUME IInv, ~ended, UNCHANGED queue, finish
  PROVE  QueueStep
<1>1. ended' = TRUE /\ Settle("done") /\ failure' = "none"
  BY DEF finish, IInv, EndInv
<1> QED
  BY <1>1, EndsQueueHere

\* What the queue is made of does not change.
LEMMA NoQueueStep ==
  ASSUME UNCHANGED <<queue, calls, ended, failure>>, ended \/ inbox' = inbox
  PROVE  QueueStep
BY DEF QueueStep, Queue!queueVars

\* The server's next frame goes to the end of the queue.
LEMMA EmitOffers ==
  ASSUME IInv, NEW k \in Kinds, Emit(k)
  PROVE  QueueStep
<1> DEFINE f == [kind |-> k, number |-> emitted + 1]
<1>1. f \in Frames
  BY BoundsAssumption DEF IInv, TypeOK, Emit, Frames
<1>2. ~ended /\ inbox' = Append(inbox, f) /\ UNCHANGED <<queue, calls, ended, failure>>
  BY DEF Emit, stream, IInv, EndInv
<1>3. queue \in Seq(Frames) /\ inbox \in Seq(Frames)
  BY ItemsTyped DEF IInv
<1>4. queue \o inbox' = Append(queue \o inbox, f)
  BY <1>1, <1>2, <1>3, JoinAppend
<1>5. Queue!Offer(f)
  BY <1>2, <1>4 DEF Queue!Offer
<1> QED
  BY <1>1, <1>5 DEF QueueStep, Queue!QueueNext

\* The consumer that has waited longest is the first without an answer.
LEMMA LongestWaiting ==
  ASSUME IInv, pending # <<>>
  PROVE  /\ queue = <<>> /\ ~ended
         /\ Head(pending) \in NextCalls /\ calls[Head(pending)].what = "waiting"
         /\ \A m \in NextCalls :
              m < Head(pending) => calls[m].what \notin {"none", "waiting"}
<1>1. TypeOK /\ WaitInv /\ EndInv
  BY DEF IInv, OrderInv
<1>2. pending \in Seq(NextCalls) /\ Len(pending) \in Nat
  BY <1>1 DEF TypeOK
<1>3. Head(pending) \in NextCalls /\ Head(pending) = pending[1] /\ Len(pending) >= 1
  BY <1>2, TailIs, Zenon
<1>4. 1 \in 1..Len(pending)
  BY <1>2, <1>3
<1>5. queue = <<>> /\ ~ended /\ calls[Head(pending)].what = "waiting"
  BY <1>1, <1>3, <1>4 DEF WaitInv, EndInv
<1>6. ASSUME NEW m \in NextCalls, m < Head(pending), calls[m].what = "waiting" PROVE FALSE
  <2>1. PICK i \in 1..Len(pending) : pending[i] = m
    BY <1>1, <1>6 DEF WaitInv
  <2>2. i = 1 \/ 1 < i
    BY <1>2
  <2>3. m \in Nat /\ Head(pending) \in Nat
    BY <1>3 DEF NextCalls
  <2> QED
    BY <1>1, <1>3, <1>4, <1>6, <2>1, <2>2, <2>3 DEF WaitInv
<1>7. ASSUME NEW m \in NextCalls, m < Head(pending), calls[m].what = "none" PROVE FALSE
  BY <1>1, <1>3, <1>5, <1>7 DEF WaitInv
<1> QED
  BY <1>3, <1>5, <1>6, <1>7

\* An event goes to whoever waits, or stays where it is in the queue.
LEMMA HandServes ==
  ASSUME IInv, ~ended, inbox # <<>>, inbox' = Tail(inbox), Head(inbox).kind = "event",
         Hand(Head(inbox)), UNCHANGED stream
  PROVE  QueueStep
<1>1. queue \in Seq(Frames) /\ inbox \in Seq(Frames) /\ ~ended' /\ UNCHANGED <<ended, failure>>
  BY ItemsTyped DEF IInv, stream
<1>2. CASE pending # <<>>
  <2> DEFINE h == Head(pending)
  <2>1. queue = <<>> /\ queue' = <<>> /\ h \in NextCalls /\ calls[h].what = "waiting"
        /\ \A m \in NextCalls : m < h => calls[m].what \notin {"none", "waiting"}
    BY <1>2, LongestWaiting DEF Hand
  <2>2. calls' = [calls EXCEPT ![h] = Queue!Reply("event", Head(inbox).number)]
    BY <1>2 DEF Hand, Answer, Queue!Reply
  <2> HIDE DEF h
  <2>3. queue \o inbox = inbox /\ queue' \o inbox' = Tail(inbox)
    BY <1>1, <2>1, JoinIs
  <2>4. Queue!Serve(h)
    BY <1>1, <2>1, <2>2, <2>3 DEF Queue!Serve, Queue!Answered
  <2> QED
    BY <2>1, <2>4 DEF QueueStep, Queue!QueueNext
<1>3. CASE pending = <<>>
  <2>1. queue' = Append(queue, Head(inbox)) /\ UNCHANGED calls
    BY <1>3 DEF Hand
  <2>2. queue' \o inbox' = queue \o inbox
    BY <1>1, <2>1, JoinMove
  <2> QED
    BY <1>1, <2>1, <2>2 DEF QueueStep, Queue!queueVars
<1> QED
  BY <1>2, <1>3

\* receive passes over an unknown frame, hands out an event, or ends.
LEMMA onMessageQueues ==
  ASSUME IInv, NEW act \in Listeners, onMessage(act)
  PROVE  QueueStep
<1>1. queue \in Seq(Frames) /\ inbox \in Seq(Frames) /\ inbox # <<>> /\ inbox' = Tail(inbox)
  BY ItemsTyped DEF IInv, onMessage
<1>2. Head(inbox) \in Frames
  BY <1>1, TailIs, Zenon
<1>3. CASE Dropped(Head(inbox)) /\ UNCHANGED <<stream, queue, calls>>
  <2>1. CASE ended
    BY <1>3, <2>1, NoQueueStep DEF stream
  <2>2. CASE ~ended
    <3>1. Head(inbox).kind = "unknown" /\ UNCHANGED <<queue, calls, ended, failure>>
      BY <1>3, <2>2 DEF Dropped, Ignored, stream
    <3>2. /\ Len(queue) + 1 \in 1..Len(queue \o inbox)
          /\ (queue \o inbox)[Len(queue) + 1] = Head(inbox)
          /\ RemoveAt(queue \o inbox, Len(queue) + 1) = queue \o inbox'
      BY <1>1, JoinNext, JoinRemove
    <3>3. DOMAIN (queue \o inbox) = 1..Len(queue \o inbox)
      BY <1>1, JoinIs
    <3>4. Queue!RemoveAt(queue \o inbox, Len(queue) + 1) = RemoveAt(queue \o inbox, Len(queue) + 1)
      BY Zenon DEF RemoveAt, Queue!RemoveAt
    <3>5. Queue!PassOver(Len(queue) + 1)
      BY <2>2, <3>1, <3>2, <3>4 DEF Queue!PassOver
    <3> QED
      BY <2>2, <3>2, <3>3, <3>5 DEF QueueStep, Queue!QueueNext
  <2> QED
    BY <2>1, <2>2
<1>4. CASE ~Dropped(Head(inbox)) /\ fail("malformed") /\ UNCHANGED queue
  BY <1>4, FailEndsQueue DEF Dropped, Failures
<1>5. CASE ~Dropped(Head(inbox)) /\ fail("listener") /\ UNCHANGED queue
  BY <1>5, FailEndsQueue DEF Dropped, Failures
<1>6. CASE /\ ~Dropped(Head(inbox)) /\ Head(inbox).kind # "malformed"
           /\ Hand(Head(inbox)) /\ UNCHANGED <<socket, stream, outbound>>
  <2>1. Head(inbox).kind = "event" /\ ~ended
    BY <1>2, <1>6 DEF Dropped, Ignored, Frames, Kinds
  <2> QED
    BY <1>1, <1>6, <2>1, HandServes
<1>7. CASE ~Dropped(Head(inbox)) /\ Close /\ queue' = Append(queue, Head(inbox))
  <2>1. ~ended /\ ended' = TRUE /\ Settle("done") /\ failure' = "none"
    BY <1>7 DEF Dropped, Close, finish, IInv, EndInv
  <2>2. /\ Len(queue) + 1 \in 0..Len(queue \o inbox)
        /\ queue' = SubSeq(queue \o inbox, 1, Len(queue) + 1)
    <3>1. /\ Len(queue) + 1 \in 1..Len(queue \o inbox)
          /\ SubSeq(queue \o inbox, 1, Len(queue) + 1) = Append(queue, Head(inbox))
      BY <1>1, JoinNext
    <3> QED
      BY <1>1, <1>7, <3>1
  <2> QED
    BY <2>1, <2>2, EndsQueue
<1> QED
  BY <1>3, <1>4, <1>5, <1>6, <1>7 DEF onMessage

\* A call of next() is served, waits, or is told how the stream ended.
LEMMA nextQueues ==
  ASSUME IInv, NEW n \in NextCalls, next(n)
  PROVE  QueueStep
<1>1. /\ calls[n].what = "none"
      /\ \A m \in NextCalls : m < n => calls[m].what # "none"
      /\ UNCHANGED <<inbox, ended, failure>>
  BY DEF next, NextCalls, stream
<1>2. queue \in Seq(Frames) /\ inbox \in Seq(Frames) /\ queue \in Seq(Events)
  BY ItemsTyped DEF IInv, TypeOK
<1>3. CASE queue # <<>>
  <2>1. \A m \in NextCalls : calls[m].what # "waiting"
    BY <1>3 DEF IInv, OrderInv, WaitInv
  <2>2. /\ calls' = [calls EXCEPT ![n] = Queue!Reply("event", Head(queue).number)]
        /\ queue' = Tail(queue)
    BY <1>3 DEF next, Answer, Queue!Reply
  <2>3. Head(queue).kind = "event"
    <3>1. Head(queue) \in Events
      BY <1>2, <1>3, TailIs, Zenon
    <3> QED
      BY <3>1 DEF Events
  <2>4. /\ queue \o inbox # <<>> /\ Head(queue \o inbox) = Head(queue)
        /\ Tail(queue \o inbox) = queue' \o inbox'
    BY <1>1, <1>2, <1>3, <2>2, JoinHead
  <2>5. Queue!Serve(n)
    BY <1>1, <1>3, <2>1, <2>2, <2>3, <2>4 DEF Queue!Serve, Queue!Answered
  <2> QED
    BY <2>5 DEF QueueStep, Queue!QueueNext
<1>4. CASE queue = <<>> /\ ~ended
  <2>1. calls' = [calls EXCEPT ![n] = Queue!Reply("waiting", 0)] /\ UNCHANGED queue
    BY <1>4 DEF next, Answer, Queue!Reply, IInv, EndInv
  <2>2. Queue!Wait(n)
    BY <1>1, <1>4, <2>1 DEF Queue!Wait
  <2> QED
    BY <2>2 DEF QueueStep, Queue!QueueNext
<1>5. CASE queue = <<>> /\ ended
  <2>1. /\ calls' = [calls EXCEPT ![n] =
                       Queue!Reply(IF failure # "none" THEN "error" ELSE "done", 0)]
        /\ UNCHANGED queue
    BY <1>5 DEF next, Answer, Queue!Reply
  <2>2. \A m \in NextCalls : calls[m].what # "waiting"
    BY <1>5 DEF IInv, EndInv
  <2>3. Queue!Tell(n)
    BY <1>1, <1>5, <2>1, <2>2 DEF Queue!Tell, Queue!Answered
  <2> QED
    BY <2>3 DEF QueueStep, Queue!QueueNext
<1> QED
  BY <1>3, <1>4, <1>5

\* The other handlers end the stream, or do not touch what is to be read.
LEMMA OthersQueue ==
  ASSUME IInv,
         \/ \E selected \in {"fissionplane.v1", "other"} : onOpen(selected)
         \/ onError \/ onClose \/ HandshakeTimeout \/ close \/ send \/ abort
  PROVE  QueueStep
<1>1. /\ socket \in {"connecting", "open"} => ~ended
      /\ handshake => ~ended
  BY DEF IInv, EndInv
<1>2. ASSUME NEW selected \in {"fissionplane.v1", "other"}, onOpen(selected)
      PROVE  QueueStep
  <2>1. CASE fail("protocol")
    BY <1>1, <1>2, <2>1, FailEndsQueue DEF onOpen, Failures
  <2>2. CASE UNCHANGED <<ended, failure, calls>>
    BY <1>2, <2>2, NoQueueStep DEF onOpen
  <2> QED
    BY <1>2, <2>1, <2>2 DEF onOpen
<1>3. CASE onError
  BY <1>1, <1>3, FailEndsQueue DEF onError, Failures
<1>4. CASE HandshakeTimeout
  BY <1>1, <1>4, FailEndsQueue DEF HandshakeTimeout, Failures
<1>5. CASE onClose
  <2>1. CASE ended
    BY <1>5, <2>1, NoQueueStep DEF onClose, stream
  <2>2. CASE ~ended
    BY <1>5, <2>2, FinishEndsQueue DEF onClose
  <2> QED
    BY <2>1, <2>2
<1>6. CASE close
  BY <1>6, FinishEndsQueue DEF close, Close
<1>7. CASE send
  BY <1>7, NoQueueStep DEF send, stream
<1>8. CASE abort
  <2>1. CASE ended
    BY <1>8, <2>1, NoQueueStep DEF abort, Close, stream
  <2>2. CASE ~ended
    BY <1>8, <2>2, FinishEndsQueue DEF abort, Close
  <2> QED
    BY <2>1, <2>2
<1> QED
  BY <1>2, <1>3, <1>4, <1>5, <1>6, <1>7, <1>8

-----------------------------------------------------------------------------
(* The theorems *)

\* The flags, the consumers and the events stay in step whatever handler of
\* the stream runs next.
THEOREM StreamInvariant == Spec => []IInv
<1>1. Init => IInv
  <2> SUFFICES ASSUME Init PROVE IInv
    OBVIOUS
  <2>1. TypeOK
    <3>1. calls \in [NextCalls -> Answers]
      BY DEF Init, Answer, Answers
    <3>2. handshake \in BOOLEAN /\ opened \in BOOLEAN /\ ended \in BOOLEAN /\ aborted \in BOOLEAN
      BY PreAbortedAssumption, Zenon DEF Init
    <3> QED
      BY <3>1, <3>2, BoundsAssumption DEF Init, TypeOK, Failures
  <2>2. \A n \in NextCalls : calls[n].what = "none"
    BY DEF Init, Answer
  <2>3. EndInv
    BY <2>2 DEF Init, EndInv
  <2>4. SendInv
    BY CountingGrows DEF Init, SendInv
  <2>5. FramesInv
    BY DEF Init, FramesInv, Rising
  <2>6. WaitInv /\ AnswerInv
    BY <2>2 DEF Init, WaitInv, AnswerInv, AnsweredInOrder
  <2> QED
    BY <2>1, <2>3, <2>4, <2>5, <2>6 DEF IInv, OrderInv
<1>2. IInv /\ [Next]_vars => IInv'
  <2> SUFFICES ASSUME IInv, [Next]_vars PROVE IInv'
    OBVIOUS
  <2>1. CASE UNCHANGED vars
    BY <2>1 DEF IInv, TypeOK, EndInv, SendInv, OrderInv, FramesInv, Rising, WaitInv, AnswerInv,
                AnsweredInOrder, vars, stream
  <2>2. CASE Next
    BY <2>2, EmitPreserves, onOpenPreserves, onErrorPreserves, onClosePreserves,
       HandshakeTimeoutPreserves, onMessagePreserves, nextReads, nextWaits, closePreserves,
       sendPreserves, abortPreserves DEF Next
  <2> QED
    BY <2>1, <2>2
<1> QED
  BY <1>1, <1>2, PTL DEF Spec

\* No consumer is left waiting on a stream that has ended.
THEOREM EndReleasesConsumers == Spec => []NobodyWaitsAfterEnd
<1>1. IInv => NobodyWaitsAfterEnd
  BY DEF IInv, EndInv, NobodyWaitsAfterEnd
<1> QED
  BY <1>1, StreamInvariant, PTL

\* Events reach the consumer in the server's order, through the queue or not.
THEOREM EventsInOrder == Spec => []AnsweredInOrder
<1>1. IInv => AnsweredInOrder
  BY DEF IInv, OrderInv, AnswerInv
<1> QED
  BY <1>1, StreamInvariant, PTL

\* A failed stream tells no consumer that it ended well.
THEOREM FailuresSurface == Spec => []FailureIsReported
<1>1. IInv => FailureIsReported
  BY DEF IInv, EndInv, FailureIsReported
<1> QED
  BY <1>1, StreamInvariant, PTL

\* The caller's frames reach the socket once each and in order.
THEOREM FramesSentInOrder == Spec => []SentInOrder
<1>1. IInv => SentInOrder
  <2> SUFFICES ASSUME IInv PROVE SentInOrder
    OBVIOUS
  <2>1. /\ outbound \in Seq(1..MaxSends) /\ sent \in Seq(1..MaxSends) /\ SendInv
    BY DEF IInv, TypeOK
  <2>2. ~ended => sent \o outbound = Counting(asked)
    <3>1. sent \o <<>> = sent /\ <<>> \o outbound = outbound
      BY <2>1
    <3> QED
      BY <2>1, <3>1 DEF SendInv
  <2> QED
    BY <2>1, <2>2 DEF SendInv, SentInOrder, Counting
<1> QED
  BY <1>1, StreamInvariant, PTL

\* What a consumer has left to read only shrinks once the stream has ended.
THEOREM EndIsFinal == Spec => NothingAfterEnd
<1>1. [Next]_vars => [ended => queue' = queue \/ (queue # <<>> /\ queue' = Tail(queue))]_vars
  <2> SUFFICES ASSUME Next, ended
               PROVE  queue' = queue \/ (queue # <<>> /\ queue' = Tail(queue))
    BY DEF vars
  <2>1. ASSUME NEW act \in Listeners, onMessage(act) PROVE queue' = queue
    BY <2>1 DEF onMessage, Dropped
  <2>2. ASSUME NEW n \in NextCalls, next(n)
        PROVE  queue' = queue \/ (queue # <<>> /\ queue' = Tail(queue))
    BY <2>2 DEF next
  <2> QED
    BY <2>1, <2>2 DEF Next, Emit, onOpen, onError, onClose, HandshakeTimeout, close, send, abort
<1> QED
  BY <1>1, PTL DEF Spec, NothingAfterEnd

\* The handlers, the queue and the consumers implement one queue from the
\* server to the calls of next(), for any number of frames and of calls:
\* no event is left out, repeated or given out of turn.
THEOREM StreamIsQueue == Spec => ImplementsEventQueue
<1>1. Init => Queue!QueueInit
  <2> SUFFICES ASSUME Init PROVE Queue!QueueInit
    OBVIOUS
  <2>1. queue \o inbox = <<>> /\ ~ended
    BY DEF Init
  <2>2. calls = [n \in NextCalls |-> Queue!Reply("none", 0)]
    BY DEF Init, Answer, Queue!Reply
  <2> QED
    BY <2>1, <2>2 DEF Queue!QueueInit
<1>2. IInv /\ [Next]_vars => [Queue!QueueNext]_(Queue!queueVars)
  <2> SUFFICES ASSUME IInv, [Next]_vars PROVE QueueStep
    BY DEF QueueStep
  <2>1. CASE UNCHANGED vars
    BY <2>1, NoQueueStep DEF vars, stream
  <2>2. CASE Next
    BY <2>2, EmitOffers, onMessageQueues, nextQueues, OthersQueue DEF Next
  <2> QED
    BY <2>1, <2>2
<1> QED
  BY <1>1, <1>2, StreamInvariant, PTL DEF Spec, ImplementsEventQueue, Queue!QueueSpec
=============================================================================
