-------------------------- MODULE SendQueueProofs ---------------------------
(***************************************************************************)
(* Proofs about SendQueue, for every set of sends and every queue bound,   *)
(* and about ForeignWatch, which watches the session beside the queue, for *)
(* every length of the log.  The watcher's steps change nothing of the     *)
(* queue, so what is shown of the one holds beside the other.              *)
(***************************************************************************)
EXTENDS ForeignWatch, SequenceTheorems, TLAPS

(***************************************************************************)
(* The queue as a sequence.                                                *)
(***************************************************************************)

\* Taking one element out of a sequence closes the gap it leaves
\* (RetractSend's slices.Delete).
LEMMA RemoveAtFacts ==
  ASSUME NEW S, NEW q \in Seq(S), NEW i \in DOMAIN q
  PROVE  /\ RemoveAt(q, i) \in Seq(S)
         /\ Len(RemoveAt(q, i)) = Len(q) - 1
         /\ \A j \in 1 .. Len(q) - 1 :
              RemoveAt(q, i)[j] = q[IF j < i THEN j ELSE j + 1]
<1> DEFINE before == SubSeq(q, 1, i - 1)
           after == SubSeq(q, i + 1, Len(q))
<1>1. Len(q) \in Nat /\ DOMAIN q = 1 .. Len(q)
  BY LenProperties
<1>2. /\ before \in Seq(S) /\ Len(before) = i - 1
      /\ \A j \in 1 .. i - 1 : before[j] = q[j]
  BY <1>1
<1>3. /\ after \in Seq(S) /\ Len(after) = Len(q) - i
      /\ \A j \in 1 .. Len(q) - i : after[j] = q[i + j]
  BY <1>1
<1> HIDE DEF before, after
<1>4. /\ before \o after \in Seq(S)
      /\ Len(before \o after) = Len(before) + Len(after)
      /\ \A j \in 1 .. Len(before) + Len(after) :
           (before \o after)[j] =
             IF j <= Len(before) THEN before[j] ELSE after[j - Len(before)]
  BY <1>2, <1>3, ConcatProperties, Zenon
<1>5. i \in Int /\ 1 <= i /\ i <= Len(q) /\ Len(before) + Len(after) = Len(q) - 1
  BY <1>1, <1>2, <1>3
<1>6. \A j \in 1 .. Len(q) - 1 : (before \o after)[j] = q[IF j < i THEN j ELSE j + 1]
  <2> TAKE j \in 1 .. Len(q) - 1
  <2>1. CASE j < i
    BY <2>1, <1>1, <1>2, <1>4, <1>5
  <2>2. CASE ~(j < i)
    <3>1. j - (i - 1) \in 1 .. Len(q) - i /\ i + (j - (i - 1)) = j + 1
      BY <2>2, <1>1, <1>5
    <3>2. (before \o after)[j] = after[j - Len(before)]
      <4>1. j \in 1 .. Len(before) + Len(after) /\ ~(j <= Len(before))
        BY <2>2, <1>2, <1>5
      <4> QED
        BY <4>1, <1>4
    <3> QED
      BY <2>2, <3>1, <3>2, <1>2, <1>3
  <2> QED
    BY <2>1, <2>2
<1> QED
  BY <1>4, <1>5, <1>6 DEF RemoveAt, before, after

(***************************************************************************)
(* The strengthening.  An entry of the queue is there once, and a send is  *)
(* queued exactly when it is in the queue: Retract, Flush and Release each *)
(* change both, and the step that does must not disturb a turn under way.  *)
(* Fresh says which sends still owe their caller an answer, Listening where*)
(* the turns of the collectors still subscribed can be.                    *)
(***************************************************************************)
Distinct == \A i, j \in DOMAIN queue : queue[i] = queue[j] => i = j

InLine == \A s \in Sends : st[s] = "queued" <=> s \in Queued

Fresh ==
  /\ \A c \in Relayed :
       st[c] \in {"new", "checked", "queued", "promoted", "owned"} =>
         answer[c].how = "none" /\ c \notin collecting
  /\ \A c \in collecting : answer[c].how = "none"

Listening ==
  /\ \A s \in Relayed : st[s] \in {"failing", "failed"} => s \in orphans
  /\ \A c \in collecting \ orphans : st[c] \in {"sending", "stream"}

IInv == TypeOK /\ Distinct /\ InLine /\ SingleTurn /\ NoStranded

\* The initial state satisfies every conjunct.
LEMMA InitIInv == Init => IInv /\ Fresh /\ Listening /\ OwnReply
<1> SUFFICES ASSUME Init PROVE IInv /\ Fresh /\ Listening /\ OwnReply
  OBVIOUS
<1>1. TypeOK
  BY SendQueueAssumption DEF Init, TypeOK, QueueTypeOK, Stages, Answers, Unanswered
<1>2. Distinct /\ InLine /\ SingleTurn /\ NoStranded
  BY SendQueueAssumption
  DEF Init, Distinct, InLine, Queued, SingleTurn, NoStranded, Live, Closing
<1>3. Fresh /\ Listening /\ OwnReply
  BY SendQueueAssumption DEF Init, Fresh, Listening, OwnReply, Unanswered
<1> QED
  BY <1>1, <1>2, <1>3 DEF IInv

\* Only sends are in the queue.
LEMMA QueuedSends == QueueTypeOK => Queued \subseteq Sends
  BY DEF QueueTypeOK, Queued

\* Every step keeps the queue, its tokens and the stages in their ranges.
LEMMA QueueTypeStep ==
  ASSUME QueueTypeOK, [Next]_vars
  PROVE  QueueTypeOK'
<1> USE SendQueueAssumption DEF QueueTypeOK, Stages
<1>1. ASSUME NEW s \in Sends, Enqueue(s) PROVE QueueTypeOK'
  <2>1. queue' = queue \/ queue' = Append(queue, s)
    BY <1>1 DEF Enqueue
  <2>2. queue' \in Seq(Sends)
    BY <2>1
  <2>3. active' \in Sends \union {NoSend}
    BY <1>1 DEF Enqueue
  <2>4. st' \in [Sends -> Stages]
    BY <1>1 DEF Enqueue, Goto
  <2> QED
    BY <1>1, <2>2, <2>3, <2>4 DEF Enqueue
<1>2. ASSUME NEW s \in Sends, Retract(s) PROVE QueueTypeOK'
  <2>1. queue' \in Seq(Sends)
    BY <1>2, RemoveAtFacts DEF Retract
  <2> QED
    BY <1>2, <2>1 DEF Retract, Goto
<1>3. CASE CancelFlush \/ StopFlush
  <2>1. queue' = <<>> /\ st' \in [Sends -> Stages]
    BY <1>3 DEF CancelFlush, StopFlush, Flush
  <2> QED
    BY <1>3, <2>1 DEF CancelFlush, StopFlush
<1>4. CASE CancelRead \/ StopDone
  BY <1>4 DEF CancelRead, StopDone, queueVars
<1>5. ASSUME NEW s \in Sends,
             \/ Check(s) \/ Begin(s) \/ Vanished(s) \/ SendOK(s) \/ FailIdle(s)
             \/ FailError(s) \/ FailEnded(s) \/ Failure(s) \/ Exit(s)
             \/ MarkIdle(s) \/ Close(s)
      PROVE  QueueTypeOK'
  BY <1>5
  DEF Check, Begin, Vanished, SendOK, FailIdle, FailError, FailEnded, Failure,
      Exit, MarkIdle, Close, DropToken, Goto
<1>6. ASSUME NEW s \in Sends, Part(s) PROVE QueueTypeOK'
  BY <1>6 DEF Part, queueVars
<1>7. ASSUME NEW s \in Sends, Release(s) PROVE QueueTypeOK'
  <2>1. CASE active \in {s, NoSend} /\ queue # <<>>
    <3>1. Head(queue) \in Sends /\ Tail(queue) \in Seq(Sends)
      BY <2>1
    <3> QED
      BY <1>7, <2>1, <3>1 DEF Release
  <2>2. CASE active \notin {s, NoSend} \/ queue = <<>>
    BY <1>7, <2>2 DEF Release, DropToken, Goto
  <2> QED
    BY <2>1, <2>2
<1>8. CASE UNCHANGED vars
  BY <1>8 DEF vars, queueVars
<1> QED
  BY <1>1, <1>2, <1>3, <1>4, <1>5, <1>6, <1>7, <1>8
  DEF Next, Client, Stopping, Carry, Publishing

\* Every step keeps every variable in its range.
LEMMA TypeStep == TypeOK /\ [Next]_vars => TypeOK'
<1> SUFFICES ASSUME TypeOK, [Next]_vars PROVE TypeOK'
  OBVIOUS
<1> USE SendQueueAssumption
<1> USE DEF TypeOK, relayVars, stopVars
<1>0. QueueTypeOK'
  BY QueueTypeStep
<1>1. ASSUME NEW s \in Sends,
             \/ Check(s) \/ Enqueue(s) \/ SendOK(s) \/ MarkIdle(s) \/ Release(s)
      PROVE  TypeOK'
  BY <1>0, <1>1 DEF Check, Enqueue, SendOK, MarkIdle, Release
<1>2. ASSUME NEW s \in Sends, Begin(s) \/ FailIdle(s) \/ Close(s) PROVE TypeOK'
  BY <1>0, <1>2 DEF Begin, FailIdle, Close
<1>3. ASSUME NEW s \in Sends, Retract(s) \/ Vanished(s) PROVE TypeOK'
  BY <1>0, <1>3 DEF Retract, Vanished, Abort, Answers
<1>4. CASE CancelFlush \/ StopFlush
  <2>1. answer' \in [Relayed -> Answers]
    BY <1>4 DEF CancelFlush, StopFlush, Flush, Abort, Answers
  <2> QED
    BY <1>0, <1>4, <2>1 DEF CancelFlush, StopFlush
<1>5. CASE CancelRead \/ StopDone
  BY <1>0, <1>5 DEF CancelRead, StopDone
<1>6. ASSUME NEW s \in Sends, FailError(s) \/ FailEnded(s) \/ Failure(s) \/ Exit(s)
      PROVE  TypeOK'
  <2>1. PICK how \in {"unsent", "error", "ended"} : PublishEnd(how, s)
    BY <1>6 DEF FailError, FailEnded, Failure, Exit
  <2>2. collecting' \subseteq Relayed /\ answer' \in [Relayed -> Answers]
    BY <2>1 DEF PublishEnd, Answers
  <2> QED
    BY <1>0, <1>6, <2>2 DEF FailError, FailEnded, Failure, Exit
<1>7. ASSUME NEW s \in Sends, Part(s) PROVE TypeOK'
  BY <1>0, <1>7 DEF Part, PublishPart
<1>8. CASE UNCHANGED vars
  BY <1>0, <1>8 DEF vars
<1> QED
  BY <1>1, <1>2, <1>3, <1>4, <1>5, <1>6, <1>7, <1>8
  DEF Next, Client, Stopping, Carry, Publishing

\* An entry taken out of a queue without repeats is the only one that goes.
LEMMA RemoveOne ==
  ASSUME QueueTypeOK, Distinct, NEW i \in DOMAIN queue, queue' = RemoveAt(queue, i)
  PROVE  Distinct' /\ Queued' = Queued \ {queue[i]}
<1>1. /\ Len(queue) \in Nat /\ DOMAIN queue = 1 .. Len(queue)
      /\ queue' \in Seq(Sends) /\ DOMAIN queue' = 1 .. Len(queue) - 1
      /\ \A j \in 1 .. Len(queue) - 1 :
           queue'[j] = queue[IF j < i THEN j ELSE j + 1]
  <2>1. queue \in Seq(Sends)
    BY DEF QueueTypeOK
  <2>2. /\ queue' \in Seq(Sends) /\ Len(queue') = Len(queue) - 1
        /\ \A j \in 1 .. Len(queue) - 1 :
             queue'[j] = queue[IF j < i THEN j ELSE j + 1]
    BY <2>1, RemoveAtFacts
  <2>3. Len(queue) \in Nat /\ DOMAIN queue = 1 .. Len(queue)
    BY <2>1
  <2>4. DOMAIN queue' = 1 .. Len(queue')
    BY <2>2
  <2> QED
    BY <2>2, <2>3, <2>4
<1> DEFINE Src(k) == IF k < i THEN k ELSE k + 1
<1>s. ASSUME NEW k \in DOMAIN queue'
      PROVE  Src(k) \in DOMAIN queue /\ Src(k) # i /\ queue'[k] = queue[Src(k)]
  BY <1>1
<1>t. ASSUME NEW k \in DOMAIN queue', NEW m \in DOMAIN queue', Src(k) = Src(m)
      PROVE  k = m
  BY <1>1, <1>t
<1> HIDE DEF Src
<1>2. Distinct'
  BY <1>s, <1>t DEF Distinct
<1>3. ASSUME NEW j \in DOMAIN queue, j # i
      PROVE  \E k \in DOMAIN queue' : queue'[k] = queue[j]
  <2>1. CASE j < i
    <3>1. j \in DOMAIN queue' /\ queue'[j] = queue[j]
      BY <1>1, <2>1
    <3> QED
      BY <3>1
  <2>2. CASE i < j
    <3>1. j - 1 \in DOMAIN queue' /\ queue'[j - 1] = queue[j]
      BY <1>1, <2>2
    <3> QED
      BY <3>1
  <2> QED
    BY <1>1, <1>3, <2>1, <2>2
<1>4. ASSUME NEW k \in DOMAIN queue'
      PROVE  \E j \in DOMAIN queue : j # i /\ queue'[k] = queue[j]
  BY <1>s
<1>5. ASSUME NEW x PROVE x \in Queued' <=> x \in Queued /\ x # queue[i]
  <2>1. x \in Queued' <=> \E k \in DOMAIN queue' : queue'[k] = x
    BY DEF Queued
  <2>2. x \in Queued <=> \E j \in DOMAIN queue : queue[j] = x
    BY DEF Queued
  <2> QED
    BY <1>3, <1>4, <2>1, <2>2 DEF Distinct
<1> QED
  BY <1>2, <1>5

\* So is the head.
LEMMA RemoveHead ==
  ASSUME QueueTypeOK, Distinct, queue # <<>>, queue' = Tail(queue)
  PROVE  /\ Distinct' /\ Queued' = Queued \ {Head(queue)}
         /\ Head(queue) \in Queued
<1>1. /\ Len(queue) \in Nat /\ Len(queue) > 0 /\ DOMAIN queue = 1 .. Len(queue)
      /\ Head(queue) = queue[1]
      /\ DOMAIN queue' = 1 .. Len(queue) - 1
      /\ \A j \in 1 .. Len(queue) - 1 : queue'[j] = queue[j + 1]
  BY DEF QueueTypeOK
<1>2. Distinct'
  BY <1>1 DEF Distinct
<1>3. ASSUME NEW j \in DOMAIN queue, j # 1
      PROVE  \E k \in DOMAIN queue' : queue'[k] = queue[j]
  <2>1. j - 1 \in DOMAIN queue' /\ queue'[j - 1] = queue[j]
    BY <1>1, <1>3
  <2> QED
    BY <2>1
<1>4. ASSUME NEW k \in DOMAIN queue'
      PROVE  \E j \in DOMAIN queue : j # 1 /\ queue'[k] = queue[j]
  BY <1>1
<1>5. 1 \in DOMAIN queue /\ Head(queue) = queue[1]
  BY <1>1
<1>6. ASSUME NEW x PROVE x \in Queued' <=> x \in Queued /\ x # Head(queue)
  <2>1. x \in Queued' <=> \E k \in DOMAIN queue' : queue'[k] = x
    BY DEF Queued
  <2>2. x \in Queued <=> \E j \in DOMAIN queue : queue[j] = x
    BY DEF Queued
  <2> QED
    BY <1>3, <1>4, <1>5, <2>1, <2>2 DEF Distinct
<1>7. Head(queue) \in Queued
  BY <1>5 DEF Queued
<1> QED
  BY <1>2, <1>6, <1>7

\* One more at the end, if it was not there before.
LEMMA AppendOne ==
  ASSUME QueueTypeOK, Distinct, NEW s \in Sends, s \notin Queued,
         queue' = Append(queue, s)
  PROVE  Distinct' /\ Queued' = Queued \union {s} /\ queue' # <<>>
<1>1. /\ Len(queue) \in Nat /\ DOMAIN queue = 1 .. Len(queue)
      /\ DOMAIN queue' = 1 .. Len(queue) + 1
      /\ queue'[Len(queue) + 1] = s
      /\ \A j \in 1 .. Len(queue) : queue'[j] = queue[j]
  BY DEF QueueTypeOK
<1>2. \A j \in 1 .. Len(queue) : queue[j] # s
  BY <1>1 DEF Queued
<1>3. Distinct'
  BY <1>1, <1>2 DEF Distinct
<1>4. \A x : x \in Queued' <=> x \in Queued \union {s}
  BY <1>1 DEF Queued
<1>5. queue' # <<>>
  BY <1>1
<1> QED
  BY <1>3, <1>4, <1>5

\* A flush drops exactly the queued sends.
LEMMA FlushLine ==
  ASSUME QueueTypeOK, Distinct, InLine, Flush
  PROVE  /\ queue' = <<>> /\ Distinct' /\ InLine'
         /\ \A s \in Sends : st'[s] = st[s] \/ (st[s] = "queued" /\ st'[s] = "dropped")
<1>1. queue' = <<>> /\ Queued' = {}
  BY DEF Flush, Queued
<1>2. \A s \in Sends : st'[s] = IF s \in Queued THEN "dropped" ELSE st[s]
  BY DEF Flush
<1>3. Distinct'
  BY <1>1 DEF Distinct
<1>4. \A s \in Sends : st'[s] = st[s] \/ (st[s] = "queued" /\ st'[s] = "dropped")
  BY <1>2 DEF InLine
<1>5. InLine'
  <2>1. \A s \in Sends : st'[s] # "queued" /\ s \notin Queued'
    BY <1>1, <1>2 DEF InLine
  <2> QED
    BY <2>1 DEF InLine
<1> QED
  BY <1>1, <1>3, <1>4, <1>5

\* Steps that leave the queue alone and move one send between stages other than
\* "queued" keep the line as it is.
LEMMA SameLine ==
  ASSUME QueueTypeOK, Distinct, InLine, UNCHANGED queue,
         \A s \in Sends : st'[s] = "queued" <=> st[s] = "queued"
  PROVE  Distinct' /\ InLine'
BY DEF Distinct, InLine, Queued

\* Every step keeps the queue and the stages of its sends in agreement.
LEMMA LineStep ==
  ASSUME QueueTypeOK, Distinct, InLine, [Next]_vars
  PROVE  Distinct' /\ InLine'
<1> USE SendQueueAssumption
<1>1. ASSUME NEW s \in Sends, Enqueue(s) PROVE Distinct' /\ InLine'
  <2>1. CASE queue' = Append(queue, s) /\ Goto(s, "queued")
    <3>1. s \notin Queued
      BY <1>1 DEF Enqueue, InLine
    <3> QED
      BY <2>1, <3>1, AppendOne DEF InLine, Goto, QueueTypeOK
  <2>2. CASE UNCHANGED queue /\ (Goto(s, "owned") \/ Goto(s, "refused"))
    BY <1>1, <2>2, SameLine DEF Enqueue, Goto, QueueTypeOK
  <2> QED
    BY <1>1, <2>1, <2>2 DEF Enqueue
<1>2. ASSUME NEW s \in Sends, Retract(s) PROVE Distinct' /\ InLine'
  <2>1. PICK i \in DOMAIN queue : queue[i] = s /\ queue' = RemoveAt(queue, i)
    BY <1>2 DEF Retract
  <2> QED
    BY <1>2, <2>1, RemoveOne DEF Retract, Goto, InLine, QueueTypeOK
<1>3. CASE CancelFlush \/ StopFlush
  BY <1>3, FlushLine DEF CancelFlush, StopFlush
<1>4. ASSUME NEW s \in Sends, Release(s) PROVE Distinct' /\ InLine'
  <2>1. CASE active \in {s, NoSend} /\ queue # <<>>
    <3>1. /\ Distinct' /\ Queued' = Queued \ {Head(queue)}
          /\ Head(queue) \in Queued /\ Head(queue) \in Sends
      BY <1>4, <2>1, RemoveHead, QueuedSends DEF Release
    <3>2. \A t \in Sends : st'[t] = IF t = Head(queue) THEN "promoted"
                                   ELSE IF t = s THEN "done" ELSE st[t]
      BY <1>4, <2>1, <3>1 DEF Release, QueueTypeOK
    <3>3. st[s] = "release"
      BY <1>4 DEF Release
    <3> QED
      BY <3>1, <3>2, <3>3 DEF InLine
  <2>2. CASE active \notin {s, NoSend} \/ queue = <<>>
    BY <1>4, <2>2, SameLine DEF Release, Goto, QueueTypeOK
  <2> QED
    BY <2>1, <2>2
<1>5. ASSUME NEW s \in Sends,
             \/ Check(s) \/ Begin(s) \/ Vanished(s) \/ SendOK(s) \/ FailIdle(s)
             \/ FailError(s) \/ FailEnded(s) \/ Failure(s) \/ Exit(s)
             \/ MarkIdle(s) \/ Close(s)
      PROVE  Distinct' /\ InLine'
  BY <1>5, SameLine
  DEF Check, Begin, Vanished, SendOK, FailIdle, FailError, FailEnded, Failure,
      Exit, MarkIdle, Close, Goto, QueueTypeOK, Streaming
<1>6. ASSUME NEW s \in Sends, Part(s) PROVE Distinct' /\ InLine'
  BY <1>6, SameLine DEF Part, queueVars
<1>7. CASE CancelRead \/ StopDone \/ UNCHANGED vars
  BY <1>7, SameLine DEF CancelRead, StopDone, vars, queueVars
<1> QED
  BY <1>1, <1>2, <1>3, <1>4, <1>5, <1>6, <1>7
  DEF Next, Client, Stopping, Carry, Publishing

\* Every step keeps at most one turn on the session, and its token registered.
LEMMA SingleStep ==
  ASSUME QueueTypeOK, Distinct, InLine, SingleTurn, [Next]_vars
  PROVE  SingleTurn'
<1> USE SendQueueAssumption
<1> USE DEF Live, Streaming
<1>1. ASSUME NEW s \in Sends, Check(s) \/ Enqueue(s) PROVE SingleTurn'
  BY <1>1 DEF SingleTurn, Check, Enqueue, Goto, QueueTypeOK
<1>2. ASSUME NEW s \in Sends, Retract(s) PROVE SingleTurn'
  <2>1. st[s] = "queued"
    BY <1>2 DEF Retract, InLine, Queued
  <2> QED
    BY <1>2, <2>1 DEF SingleTurn, Retract, Goto, QueueTypeOK
<1>3. CASE CancelFlush \/ StopFlush
  <2>1. \A s \in Sends : st'[s] = st[s] \/ (st[s] = "queued" /\ st'[s] = "dropped")
    BY <1>3, FlushLine DEF CancelFlush, StopFlush
  <2>2. UNCHANGED active
    BY <1>3 DEF CancelFlush, StopFlush
  <2> QED
    BY <2>1, <2>2 DEF SingleTurn, QueueTypeOK
<1>4. ASSUME NEW s \in Sends,
             Begin(s) \/ Vanished(s) \/ SendOK(s) \/ Failure(s) \/ Exit(s) \/ Close(s)
      PROVE  SingleTurn'
  BY <1>4 DEF SingleTurn, Begin, Vanished, SendOK, Failure, Exit, Close, Goto, QueueTypeOK
<1>5. ASSUME NEW s \in Sends, FailIdle(s) \/ MarkIdle(s) PROVE SingleTurn'
  BY <1>5 DEF SingleTurn, FailIdle, MarkIdle, DropToken, Goto, QueueTypeOK
<1>6. ASSUME NEW s \in Sends, FailError(s) \/ FailEnded(s) PROVE SingleTurn'
  BY <1>6 DEF SingleTurn, FailError, FailEnded, Goto, QueueTypeOK
<1>7. ASSUME NEW s \in Sends, Release(s) PROVE SingleTurn'
  <2>1. CASE active \in {s, NoSend} /\ queue # <<>>
    <3>1. Head(queue) \in Sends
      BY <2>1 DEF QueueTypeOK
    <3> QED
      BY <1>7, <2>1, <3>1 DEF SingleTurn, Release, QueueTypeOK
  <2>2. CASE active \notin {s, NoSend} \/ queue = <<>>
    BY <1>7, <2>2 DEF SingleTurn, Release, DropToken, Goto, QueueTypeOK
  <2> QED
    BY <2>1, <2>2
<1>8. ASSUME NEW s \in Sends, Part(s) PROVE SingleTurn'
  BY <1>8 DEF SingleTurn, Part, queueVars
<1>9. CASE CancelRead \/ StopDone \/ UNCHANGED vars
  BY <1>9 DEF SingleTurn, CancelRead, StopDone, vars, queueVars
<1> QED
  BY <1>1, <1>2, <1>3, <1>4, <1>5, <1>6, <1>7, <1>8, <1>9
  DEF Next, Client, Stopping, Carry, Publishing

\* Every step leaves a waiting send somebody to promote it.
LEMMA StrandStep ==
  ASSUME QueueTypeOK, Distinct, InLine, SingleTurn, NoStranded, [Next]_vars
  PROVE  NoStranded'
<1> USE SendQueueAssumption
<1> USE DEF NoStranded, Closing
<1>1. ASSUME NEW s \in Sends, Enqueue(s) PROVE NoStranded'
  <2>1. CASE active = NoSend /\ queue = <<>>
    BY <1>1, <2>1 DEF Enqueue
  <2>2. CASE active # NoSend
    BY <1>1, <2>2 DEF Enqueue
  <2>3. CASE active = NoSend /\ queue # <<>>
    <3>1. PICK t \in Sends : st[t] \in Closing
      BY <2>3
    <3>2. st'[t] = st[t]
      BY <1>1, <2>3, <3>1 DEF Enqueue, Goto, QueueTypeOK
    <3> QED
      BY <3>1, <3>2
  <2> QED
    BY <2>1, <2>2, <2>3
<1>2. ASSUME NEW s \in Sends, Retract(s) PROVE NoStranded'
  <2>1. PICK i \in DOMAIN queue : queue[i] = s
    BY <1>2 DEF Retract
  <2>2. queue # <<>> /\ st[s] = "queued"
    BY <2>1 DEF InLine, Queued, QueueTypeOK
  <2>3. UNCHANGED active /\ \A t \in Sends : st[t] \in Closing => st'[t] = st[t]
    BY <1>2, <2>2 DEF Retract, Goto, QueueTypeOK
  <2> QED
    BY <2>2, <2>3
<1>3. CASE CancelFlush \/ StopFlush
  BY <1>3, FlushLine DEF CancelFlush, StopFlush
<1>4. ASSUME NEW s \in Sends,
             \/ Vanished(s) \/ FailIdle(s) \/ FailError(s) \/ FailEnded(s)
             \/ MarkIdle(s) \/ Close(s)
      PROVE  NoStranded'
  <2>1. st'[s] \in Closing
    BY <1>4 DEF Vanished, FailIdle, FailError, FailEnded, MarkIdle, Close, Goto, QueueTypeOK
  <2> QED
    BY <2>1
<1>5. ASSUME NEW s \in Sends, Check(s) \/ Begin(s) \/ SendOK(s) \/ Failure(s) \/ Exit(s)
      PROVE  NoStranded'
  <2>1. UNCHANGED <<active, queue>>
    BY <1>5 DEF Check, Begin, SendOK, Failure, Exit
  <2>2. \A t \in Sends : st[t] \in Closing => st'[t] = st[t]
    BY <1>5 DEF Check, Begin, SendOK, Failure, Exit, Goto, Streaming, QueueTypeOK
  <2> QED
    BY <2>1, <2>2
<1>6. ASSUME NEW s \in Sends, Release(s) PROVE NoStranded'
  <2>1. CASE active \in {s, NoSend} /\ queue # <<>>
    <3>1. Head(queue) \in Sends
      BY <2>1 DEF QueueTypeOK
    <3> QED
      BY <1>6, <2>1, <3>1 DEF Release
  <2>2. CASE active \notin {s, NoSend}
    BY <1>6, <2>2 DEF Release, DropToken
  <2>3. CASE queue = <<>>
    BY <1>6, <2>3 DEF Release
  <2> QED
    BY <2>1, <2>2, <2>3
<1>7. ASSUME NEW s \in Sends, Part(s) PROVE NoStranded'
  BY <1>7 DEF Part, queueVars
<1>8. CASE CancelRead \/ StopDone \/ UNCHANGED vars
  BY <1>8 DEF CancelRead, StopDone, vars, queueVars
<1> QED
  BY <1>1, <1>2, <1>3, <1>4, <1>5, <1>6, <1>7, <1>8
  DEF Next, Client, Stopping, Carry, Publishing

\* The strengthening is inductive.
LEMMA IInvStep == IInv /\ [Next]_vars => IInv'
BY TypeStep, LineStep, SingleStep, StrandStep DEF IInv, TypeOK

(***************************************************************************)
(* The invariants of the specification.                                    *)
(***************************************************************************)

\* Every reachable state satisfies the strengthening.
THEOREM SpecIInv == Spec => []IInv
<1>1. Init => IInv
  BY InitIInv
<1>2. IInv /\ [Next]_vars => IInv'
  BY IInvStep
<1> QED
  BY <1>1, <1>2, PTL DEF Spec

\* The queue, the stages and the tokens keep their types (Router's fields).
THEOREM TypeCorrect == Spec => []TypeOK
<1>1. IInv => TypeOK
  BY DEF IInv
<1> QED
  BY <1>1, SpecIInv, PTL

\* At most one usher turn runs on a session at a time (enqueueSend, releaseSend,
\* markSendIdle), however many sends, cancels and stops interleave.
THEOREM OneTurnAtATime == Spec => []SingleTurn
<1>1. IInv => SingleTurn
  BY DEF IInv
<1> QED
  BY <1>1, SpecIInv, PTL

\* A queued send is never left behind by the turn that should have promoted it
\* (releaseSend's test of the queue under the lock that enqueueSend holds).
THEOREM NobodyStranded == Spec => []NoStranded
<1>1. IInv => NoStranded
  BY DEF IInv
<1> QED
  BY <1>1, SpecIInv, PTL

(***************************************************************************)
(* The replies of relayed sends.                                           *)
(***************************************************************************)

\* What publishing a turn's end does to the answers.
LEMMA EndFacts ==
  ASSUME TypeOK, NEW how, NEW s, PublishEnd(how, s)
  PROVE  /\ collecting' = {}
         /\ \A c \in Relayed : answer'[c] = IF c \in collecting
                                 THEN [how |-> how, by |-> s] ELSE answer[c]
BY DEF PublishEnd

AnswersKept == \A c \in Relayed : answer[c].how # "none" => answer'[c] = answer[c]

\* No step answers a send a second time, or before its collector can listen.
LEMMA FreshStep ==
  ASSUME TypeOK, Distinct, InLine, Fresh, [Next]_vars
  PROVE  Fresh' /\ AnswersKept
<1> USE SendQueueAssumption
<1> USE DEF Fresh, AnswersKept
<1>1. ASSUME NEW s \in Sends,
             \/ Check(s) \/ Enqueue(s) \/ SendOK(s) \/ FailIdle(s) \/ MarkIdle(s)
             \/ Close(s)
      PROVE  Fresh' /\ AnswersKept
  <2>1. UNCHANGED <<collecting, answer>>
    BY <1>1 DEF Check, Enqueue, SendOK, FailIdle, MarkIdle, Close, relayVars
  <2>2. \A c \in Sends :
          st'[c] \in {"new", "checked", "queued", "promoted", "owned"} =>
            st[c] \in {"new", "checked", "queued", "promoted", "owned"}
    BY <1>1 DEF Check, Enqueue, SendOK, FailIdle, MarkIdle, Close, Goto, TypeOK, QueueTypeOK
  <2> QED
    BY <2>1, <2>2 DEF TypeOK, QueueTypeOK
<1>2. ASSUME NEW s \in Sends, Retract(s) \/ Vanished(s) PROVE Fresh' /\ AnswersKept
  <2>1. st[s] \in {"queued", "promoted"}
    BY <1>2 DEF Retract, Vanished, InLine, Queued
  <2>2. st'[s] \in {"dropped", "release"} /\ \A c \in Sends : c # s => st'[c] = st[c]
    BY <1>2 DEF Retract, Vanished, Goto, TypeOK, QueueTypeOK
  <2>3. /\ UNCHANGED collecting
        /\ \A c \in Relayed : answer'[c] =
             IF c = s THEN [how |-> "abort", by |-> c] ELSE answer[c]
    BY <1>2 DEF Retract, Vanished, Abort
  <2>4. AnswersKept
    BY <2>1, <2>3
  <2>5. \A c \in collecting' : c # s /\ answer'[c] = answer[c]
    BY <2>1, <2>3 DEF TypeOK, QueueTypeOK
  <2>6. Fresh'
    BY <2>2, <2>3, <2>5
  <2> QED
    BY <2>4, <2>6
<1>3. CASE CancelFlush \/ StopFlush
  <2>1. UNCHANGED collecting /\ Abort(Queued) /\ Flush
    BY <1>3 DEF CancelFlush, StopFlush, Flush
  <2>2. \A c \in Queued : c \in Sends /\ st[c] = "queued" /\ st'[c] = "dropped"
    BY <2>1, QueuedSends DEF InLine, Flush, TypeOK
  <2>3. \A c \in Sends : c \notin Queued => st'[c] = st[c]
    BY <2>1, FlushLine DEF InLine, TypeOK
  <2>4. \A c \in Relayed : answer'[c] =
          IF c \in Queued THEN [how |-> "abort", by |-> c] ELSE answer[c]
    BY <2>1 DEF Abort
  <2>5. AnswersKept
    BY <2>2, <2>4
  <2>6. \A c \in collecting' : c \notin Queued /\ answer'[c] = answer[c]
    BY <2>1, <2>2, <2>4 DEF TypeOK, QueueTypeOK
  <2>7. Fresh'
    BY <2>1, <2>2, <2>3, <2>4, <2>6
  <2> QED
    BY <2>5, <2>7
<1>4. ASSUME NEW s \in Sends, Begin(s) PROVE Fresh' /\ AnswersKept
  BY <1>4 DEF Begin, Goto, TypeOK, QueueTypeOK
<1>5. ASSUME NEW s \in Sends, FailError(s) \/ FailEnded(s) \/ Failure(s) \/ Exit(s)
      PROVE  Fresh' /\ AnswersKept
  <2>1. PICK how : PublishEnd(how, s)
    BY <1>5 DEF FailError, FailEnded, Failure, Exit
  <2>2. \A c \in Sends :
          st'[c] \in {"new", "checked", "queued", "promoted", "owned"} => st'[c] = st[c]
    BY <1>5 DEF FailError, FailEnded, Failure, Exit, Goto, TypeOK, QueueTypeOK
  <2> QED
    BY <2>1, <2>2, EndFacts DEF TypeOK, QueueTypeOK
<1>6. ASSUME NEW s \in Sends, Part(s) PROVE Fresh' /\ AnswersKept
  BY <1>6 DEF Part, queueVars
<1>7. ASSUME NEW s \in Sends, Release(s) PROVE Fresh' /\ AnswersKept
  <2>1. UNCHANGED <<collecting, answer>>
    BY <1>7 DEF Release, relayVars
  <2>2. \A c \in Sends :
          st'[c] \in {"new", "checked", "queued", "promoted", "owned"} =>
            st[c] \in {"new", "checked", "queued", "promoted", "owned"}
    <3>1. CASE active \in {s, NoSend} /\ queue # <<>>
      <4>1. Head(queue) \in Queued /\ Head(queue) \in Sends
        BY <3>1, <1>7, RemoveHead, QueuedSends DEF Release, TypeOK
      <4> QED
        BY <1>7, <3>1, <4>1 DEF Release, InLine, TypeOK, QueueTypeOK
    <3>2. CASE active \notin {s, NoSend} \/ queue = <<>>
      BY <1>7, <3>2 DEF Release, Goto, TypeOK, QueueTypeOK
    <3> QED
      BY <3>1, <3>2
  <2> QED
    BY <2>1, <2>2 DEF TypeOK, QueueTypeOK
<1>8. CASE CancelRead \/ StopDone \/ UNCHANGED vars
  BY <1>8
  DEF CancelRead, StopDone, vars, queueVars, relayVars
<1> QED
  BY <1>1, <1>2, <1>3, <1>4, <1>5, <1>6, <1>7, <1>8
  DEF Next, Client, Stopping, Carry, Publishing

\* A collector that is still listening, and is no orphan, belongs to a turn that
\* has not published its end.
LEMMA ListeningStep ==
  ASSUME TypeOK, Distinct, InLine, Fresh, Listening, [Next]_vars
  PROVE  Listening'
<1> USE SendQueueAssumption
<1> USE DEF Listening
<1>1. ASSUME NEW s \in Sends,
             Check(s) \/ Enqueue(s) \/ SendOK(s) \/ MarkIdle(s)
      PROVE  Listening'
  <2>1. UNCHANGED <<collecting, orphans>>
    BY <1>1 DEF Check, Enqueue, SendOK, MarkIdle, relayVars
  <2> QED
    BY <1>1, <2>1 DEF Check, Enqueue, SendOK, MarkIdle, Goto, TypeOK, QueueTypeOK
<1>2. ASSUME NEW s \in Sends, Retract(s) \/ Vanished(s) PROVE Listening'
  <2>1. st[s] \in {"queued", "promoted"}
    BY <1>2 DEF Retract, Vanished, InLine, Queued
  <2> QED
    BY <1>2, <2>1 DEF Retract, Vanished, Goto, TypeOK, QueueTypeOK
<1>3. CASE CancelFlush \/ StopFlush
  <2>1. UNCHANGED <<collecting, orphans>>
    BY <1>3 DEF CancelFlush, StopFlush
  <2> QED
    BY <1>3, <2>1, FlushLine DEF CancelFlush, StopFlush, TypeOK, QueueTypeOK
<1>4. ASSUME NEW s \in Sends, Begin(s) \/ FailIdle(s) \/ Close(s) PROVE Listening'
  BY <1>4 DEF Begin, FailIdle, Close, Goto, TypeOK, QueueTypeOK
<1>5. ASSUME NEW s \in Sends, FailError(s) \/ FailEnded(s) \/ Failure(s) \/ Exit(s)
      PROVE  Listening'
  BY <1>5 DEF FailError, FailEnded, Failure, Exit, PublishEnd, Goto, TypeOK, QueueTypeOK, Streaming
<1>6. ASSUME NEW s \in Sends, Part(s) PROVE Listening'
  BY <1>6 DEF Part, queueVars
<1>7. ASSUME NEW s \in Sends, Release(s) PROVE Listening'
  <2>1. \A c \in Sends : st'[c] # st[c] => st[c] \in {"release", "queued"}
                                        /\ st'[c] \in {"done", "promoted"}
    <3>1. CASE active \in {s, NoSend} /\ queue # <<>>
      <4>1. Head(queue) \in Queued /\ Head(queue) \in Sends
        BY <3>1, <1>7, RemoveHead, QueuedSends DEF Release, TypeOK
      <4> QED
        BY <1>7, <3>1, <4>1 DEF Release, InLine, TypeOK, QueueTypeOK
    <3>2. CASE active \notin {s, NoSend} \/ queue = <<>>
      BY <1>7, <3>2 DEF Release, Goto, TypeOK, QueueTypeOK
    <3> QED
      BY <3>1, <3>2
  <2>2. UNCHANGED <<collecting, orphans>>
    BY <1>7 DEF Release, relayVars
  <2> QED
    BY <2>1, <2>2 DEF TypeOK, QueueTypeOK
<1>8. CASE CancelRead \/ StopDone \/ UNCHANGED vars
  BY <1>8
  DEF CancelRead, StopDone, vars, queueVars, relayVars
<1> QED
  BY <1>1, <1>2, <1>3, <1>4, <1>5, <1>6, <1>7, <1>8
  DEF Next, Client, Stopping, Carry, Publishing

\* A turn whose events reach a listening collector is that collector's own.
LEMMA OwnPublisher ==
  ASSUME TypeOK, SingleTurn, Listening,
         NEW s \in Sends, st[s] \in Streaming, NEW c \in collecting \ orphans
  PROVE  c = s
BY SendQueueAssumption DEF SingleTurn, Listening, Streaming, Live, TypeOK, QueueTypeOK

\* No step makes a collector gather, or be answered by, another turn's events.
LEMMA OwnReplyStep ==
  ASSUME TypeOK, SingleTurn, Listening, OwnReply, [Next]_vars
  PROVE  OwnReply'
<1> USE SendQueueAssumption
<1> USE DEF OwnReply
<1>1. ASSUME UNCHANGED <<heard, answer>>, orphans \subseteq orphans' PROVE OwnReply'
  BY <1>1
<1>2. ASSUME NEW s \in Sends, Part(s) PROVE OwnReply'
  <2>1. UNCHANGED <<answer, orphans>>
    BY <1>2 DEF Part
  <2>2. \A c \in Relayed :
          heard'[c] = IF c \in collecting THEN heard[c] \union {s} ELSE heard[c]
    BY <1>2 DEF Part, PublishPart
  <2>3. \A c \in collecting \ orphans : c = s
    BY <1>2, OwnPublisher DEF Part
  <2>4. ASSUME NEW c \in Relayed \ orphans PROVE heard'[c] \subseteq {c}
    <3>1. CASE c \in collecting
      <4>1. c = s /\ heard[c] \subseteq {c}
        BY <3>1, <2>3
      <4>2. heard'[c] = heard[c] \union {c}
        BY <3>1, <4>1, <2>2
      <4> QED
        BY <4>1, <4>2
    <3>2. CASE c \notin collecting
      BY <3>2, <2>2
    <3> QED
      BY <3>1, <3>2
  <2> QED
    BY <2>1, <2>4
<1>3. ASSUME NEW s \in Sends, Failure(s) \/ Exit(s) PROVE OwnReply'
  <2>1. UNCHANGED <<heard, orphans>>
    BY <1>3 DEF Failure, Exit
  <2>2. \A c \in Relayed : c \in collecting => answer'[c].by = s
    BY <1>3 DEF Failure, Exit, PublishEnd
  <2>3. \A c \in Relayed : c \notin collecting => answer'[c] = answer[c]
    BY <1>3 DEF Failure, Exit, PublishEnd
  <2>4. \A c \in collecting \ orphans : c = s
    BY <1>3, OwnPublisher DEF Failure, Exit
  <2> QED
    BY <2>1, <2>2, <2>3, <2>4
<1>4. ASSUME NEW s \in Sends, FailError(s) \/ FailEnded(s) PROVE OwnReply'
  <2>1. UNCHANGED <<heard, orphans>>
    BY <1>4 DEF FailError, FailEnded
  <2>2. \A c \in Relayed : answer'[c].how = "unsent" \/ answer'[c] = answer[c]
    BY <1>4 DEF FailError, FailEnded, PublishEnd
  <2> QED
    BY <2>1, <2>2
<1>5. ASSUME NEW gone, Abort(gone), UNCHANGED <<heard, orphans>> PROVE OwnReply'
  <2>1. \A c \in Relayed : answer'[c].how = "abort" \/ answer'[c] = answer[c]
    BY <1>5 DEF Abort
  <2> QED
    BY <1>5, <2>1
<1>6. ASSUME NEW s \in Sends,
             \/ Check(s) \/ Enqueue(s) \/ Begin(s) \/ SendOK(s) \/ FailIdle(s)
             \/ MarkIdle(s) \/ Close(s) \/ Release(s)
      PROVE  OwnReply'
  BY <1>1, <1>6
  DEF Check, Enqueue, Begin, SendOK, FailIdle, MarkIdle, Close, Release, relayVars
<1>7. ASSUME NEW s \in Sends, Retract(s) \/ Vanished(s) PROVE OwnReply'
  BY <1>5, <1>7 DEF Retract, Vanished
<1>8. CASE CancelFlush \/ StopFlush
  BY <1>5, <1>8 DEF CancelFlush, StopFlush, Flush
<1>9. CASE CancelRead \/ StopDone \/ UNCHANGED vars
  BY <1>1, <1>9 DEF CancelRead, StopDone, vars, relayVars
<1> QED
  BY <1>2, <1>3, <1>4, <1>6, <1>7, <1>8, <1>9
  DEF Next, Client, Stopping, Carry, Publishing

\* A relayed send is answered at most once (SendToSessionRelayed's onDone).
THEOREM AnsweredOnce == Spec => OnDoneOnce
<1>1. Init => IInv /\ Fresh
  BY InitIInv
<1>2. IInv /\ Fresh /\ [Next]_vars => (IInv /\ Fresh)'
  BY IInvStep, FreshStep DEF IInv
<1>3. IInv /\ Fresh /\ [Next]_vars
        => [\A c \in Relayed : answer[c].how # "none" => answer'[c] = answer[c]]_vars
  BY FreshStep DEF IInv, AnswersKept
<1> QED
  BY <1>1, <1>2, <1>3, PTL DEF Spec, OnDoneOnce

\* A relayed send whose turn ends its collection gathers that turn's text and no
\* other's (runSend publishes the exit before markSendIdle drops the token; pre
\* subscribes after the token is held).
THEOREM RepliesAreOwn == Spec => []OwnReply
<1> DEFINE Inv == IInv /\ Fresh /\ Listening /\ OwnReply
<1>1. Init => Inv
  BY InitIInv
<1>2. Inv /\ [Next]_vars => Inv'
  BY IInvStep, FreshStep, ListeningStep, OwnReplyStep DEF IInv
<1>3. Inv => OwnReply
  OBVIOUS
<1> HIDE DEF Inv
<1> QED
  BY <1>1, <1>2, <1>3, PTL DEF Spec

(***************************************************************************)
(* The queue implements SerialTurns.                                       *)
(***************************************************************************)

Served == {s \in Sends : st[s] \in Live \union Closing \union {"done"}}

\* A step that leaves the queue, the token and the set served alone maps to a
\* stutter.
LEMMA SerialStutter ==
  ASSUME UNCHANGED <<active, queue>>, Served' = Served
  PROVE  UNCHANGED Serial!vars
BY DEF Serial!vars, Served

\* Dropping the token ends the running turn of the abstract specification.
LEMMA SerialFinish ==
  ASSUME NEW s, DropToken(s), UNCHANGED queue, Served' = Served
  PROVE  Serial!Finish \/ UNCHANGED Serial!vars
BY DEF DropToken, Serial!Finish, Serial!vars, Served

\* Every step of the queue is a step of SerialTurns, or none at all.
LEMMA SerialStep ==
  ASSUME IInv, [Next]_vars
  PROVE  [Serial!Next]_(Serial!vars)
<1> USE SendQueueAssumption
<1> USE DEF IInv
<1>1. ASSUME NEW s \in Sends, Enqueue(s) PROVE [Serial!Next]_(Serial!vars)
  <2>1. s \notin Queued /\ s \notin Served
    BY <1>1 DEF Enqueue, InLine, Served, Live, Closing
  <2>2. CASE active' = s /\ Goto(s, "owned")
    <3>1. Served' = Served \union {s} /\ active = NoSend /\ queue = <<>> /\ queue' = queue
      BY <1>1, <2>2 DEF Enqueue, Goto, Served, Live, Closing, TypeOK, QueueTypeOK
    <3>2. Serial!StartNow(s)
      BY <2>1, <2>2, <3>1 DEF Serial!StartNow, Served
    <3> QED
      BY <3>2 DEF Serial!Next
  <2>3. CASE queue' = Append(queue, s) /\ Goto(s, "queued") /\ UNCHANGED active
    <3>1. Served' = Served
      BY <1>1, <2>3 DEF Enqueue, Goto, Served, Live, Closing, TypeOK, QueueTypeOK
    <3>2. Serial!Accept(s)
      BY <2>1, <2>3, <3>1 DEF Serial!Accept, Serial!Waiting, Queued, Served
    <3> QED
      BY <3>2 DEF Serial!Next
  <2>4. CASE Goto(s, "refused") /\ UNCHANGED <<active, queue>>
    <3>1. Served' = Served
      BY <1>1, <2>4 DEF Enqueue, Goto, Served, Live, Closing, TypeOK, QueueTypeOK
    <3> QED
      BY <2>4, <3>1, SerialStutter
  <2> QED
    BY <1>1, <2>2, <2>3, <2>4 DEF Enqueue
<1>2. ASSUME NEW s \in Sends, Retract(s) PROVE [Serial!Next]_(Serial!vars)
  <2>1. PICK i \in DOMAIN queue : queue[i] = s /\ queue' = RemoveAt(queue, i)
    BY <1>2 DEF Retract
  <2>2. st[s] = "queued"
    BY <2>1 DEF InLine, Queued
  <2>3. Served' = Served /\ UNCHANGED active
    BY <1>2, <2>2 DEF Retract, Goto, Served, Live, Closing, TypeOK, QueueTypeOK
  <2>4. Serial!Drop(i)
    BY <2>1, <2>3 DEF Serial!Drop, Serial!RemoveAt, RemoveAt, Served
  <2> QED
    BY <2>4 DEF Serial!Next
<1>3. ASSUME CancelFlush \/ StopFlush PROVE [Serial!Next]_(Serial!vars)
  <2>1. queue' = <<>> /\ Served' = Served /\ UNCHANGED active
    BY <1>3, FlushLine DEF CancelFlush, StopFlush, Served, Live, Closing, TypeOK, QueueTypeOK
  <2>2. Serial!DropAll
    BY <2>1 DEF Serial!DropAll, Served
  <2> QED
    BY <2>2 DEF Serial!Next
<1>4. ASSUME NEW s \in Sends, FailIdle(s) \/ MarkIdle(s)
      PROVE  [Serial!Next]_(Serial!vars)
  <2>1. Served' = Served /\ DropToken(s) /\ UNCHANGED queue
    BY <1>4 DEF FailIdle, MarkIdle, Goto, Served, Live, Closing, TypeOK, QueueTypeOK
  <2> QED
    BY <2>1, SerialFinish DEF Serial!Next
<1>5. ASSUME NEW s \in Sends, Release(s) PROVE [Serial!Next]_(Serial!vars)
  <2>1. CASE active \in {s, NoSend} /\ queue # <<>>
    <3>1. Head(queue) \in Queued /\ Head(queue) \in Sends /\ queue' = Tail(queue)
      BY <1>5, <2>1, RemoveHead, QueuedSends DEF Release, TypeOK
    <3>2. st[Head(queue)] = "queued" /\ st[s] = "release"
      BY <1>5, <3>1 DEF InLine, Release
    <3>3. /\ active' = Head(queue) /\ Head(queue) \notin Served
          /\ Served' = Served \union {Head(queue)}
      BY <1>5, <2>1, <3>1, <3>2 DEF Release, Served, Live, Closing, TypeOK, QueueTypeOK
    <3>4. Serial!StartNext
      BY <2>1, <3>1, <3>3 DEF Serial!StartNext, Served
    <3> QED
      BY <3>4 DEF Serial!Next
  <2>2. CASE active \notin {s, NoSend} \/ queue = <<>>
    <3>1. Served' = Served /\ DropToken(s) /\ UNCHANGED queue
      BY <1>5, <2>2 DEF Release, Goto, Served, Live, Closing, TypeOK, QueueTypeOK
    <3> QED
      BY <3>1, SerialFinish DEF Serial!Next
  <2> QED
    BY <2>1, <2>2
<1>6. ASSUME NEW s \in Sends,
             \/ Check(s) \/ Begin(s) \/ Vanished(s) \/ SendOK(s) \/ FailError(s)
             \/ FailEnded(s) \/ Failure(s) \/ Exit(s) \/ Close(s)
      PROVE  [Serial!Next]_(Serial!vars)
  <2>1. UNCHANGED <<active, queue>>
    BY <1>6 DEF Check, Begin, Vanished, SendOK, FailError, FailEnded, Failure, Exit, Close
  <2>2. Served' = Served
    BY <1>6
    DEF Check, Begin, Vanished, SendOK, FailError, FailEnded, Failure, Exit, Close,
        Goto, Served, Live, Closing, Streaming, TypeOK, QueueTypeOK
  <2> QED
    BY <2>1, <2>2, SerialStutter
<1>7. ASSUME NEW s \in Sends, Part(s) PROVE [Serial!Next]_(Serial!vars)
  BY <1>7, SerialStutter DEF Part, queueVars, Served
<1>8. ASSUME CancelRead \/ StopDone \/ UNCHANGED vars
      PROVE  [Serial!Next]_(Serial!vars)
  BY <1>8, SerialStutter
  DEF CancelRead, StopDone, vars, queueVars, Served
<1> QED
  BY <1>1, <1>2, <1>3, <1>4, <1>5, <1>6, <1>7, <1>8
  DEF Next, Client, Stopping, Carry, Publishing

\* The router's queue implements SerialTurns: one turn at a time, in the order
\* accepted, each at most once (enqueueSend, releaseSend, flushSendQueue).
THEOREM Serializes == Spec => SerialSpec
<1>1. Init => Serial!Init
  BY DEF Init, Serial!Init, Live, Closing
<1>2. IInv /\ [Next]_vars => [Serial!Next]_(Serial!vars)
  BY SerialStep
<1> QED
  BY <1>1, <1>2, SpecIInv, PTL DEF Spec, SerialSpec, Serial!Spec

-----------------------------------------------------------------------------
(***************************************************************************)
(* The watcher's strengthening.  An usher turn whose lines the baseline    *)
(* does not cover still holds the session's token: Accounted.  A scan that *)
(* has compared the sizes looks at lines past the baseline it read, and    *)
(* past all that was reported: Scanned.                                    *)
(***************************************************************************)
QueueInv == QueueTypeOK /\ Distinct /\ InLine /\ SingleTurn

\* A session that discovery forgot was deleted, and stays so.
Forgotten == ~known => stop = "done"

Accounted ==
  known => \A i \in DOMAIN log :
    i > base /\ log[i].by \in Sends =>
      /\ log[i].by = active
      /\ st[log[i].by] \in {"sending", "stream", "erred", "exited", "release"}

Scanned ==
  /\ scan.pc \in {"read", "commit"} =>
       seen /\ scan.base < scan.size /\ scan.base <= base
  /\ scan.pc = "publish" =>
       /\ scan.size <= base
       /\ known => \A i \in scan.base + 1 .. scan.size : log[i].by = Foreign
  /\ ~seen => base = 0

Past ==
  /\ \A i \in reported : i <= base
  /\ scan.pc \in {"read", "commit", "publish"} => \A i \in reported : i <= scan.base

FInv ==
  /\ QueueInv /\ Forgotten
  /\ FTypeOK /\ Accounted /\ Scanned /\ Past /\ NoDoubleReport

(***************************************************************************)
(* The queue under the watcher.                                            *)
(***************************************************************************)

\* The watcher and the writers of the log leave the queue alone.
LEMMA QueueKept ==
  ASSUME [FNext]_fvars
  PROVE  Turn \/ UNCHANGED <<known, queueVars, stopVars>>
BY DEF FNext, Turn, Scan, ScanStat, ScanCompare, ScanRead, ScanCommit, ScanPublish,
       ScanExit, Write, fvars, vars

\* What SendQueueProofs shows of the queue holds beside the watcher.
LEMMA QueueInvStep ==
  ASSUME QueueInv, [FNext]_fvars
  PROVE  QueueInv'
<1>1. CASE Turn
  BY <1>1, QueueTypeStep, LineStep, SingleStep DEF Turn, QueueInv
<1>2. CASE UNCHANGED <<known, queueVars, stopVars>>
  BY <1>2 DEF QueueInv, QueueTypeOK, Distinct, InLine, Queued, SingleTurn, queueVars
<1> QED
  BY <1>1, <1>2, QueueKept

\* A deleted session does not come back.
LEMMA ForgottenStep ==
  ASSUME Forgotten, [FNext]_fvars
  PROVE  Forgotten' /\ (known' => known)
<1>1. CASE Turn
  <2>1. ASSUME NEW s \in Sends, Carry(s) \/ Publishing(s) \/ Check(s) \/ Retract(s)
        PROVE  UNCHANGED <<known, stop>>
    BY <2>1
    DEF Carry, Publishing, Check, Retract, Enqueue, Begin, Vanished, SendOK, FailIdle,
        FailError, FailEnded, Exit, MarkIdle, Close, Release, Part, Failure, stopVars
  <2>2. ASSUME CancelRead \/ CancelFlush PROVE UNCHANGED <<known, stop>>
    BY <2>2 DEF CancelRead, CancelFlush
  <2>3. ASSUME StopFlush \/ StopDone PROVE Forgotten' /\ (known' => known)
    BY <2>3 DEF StopFlush, StopDone, Forgotten
  <2> QED
    BY <1>1, <2>1, <2>2, <2>3 DEF Turn, Next, Client, Stopping, Forgotten
<1>2. CASE UNCHANGED <<known, queueVars, stopVars>>
  BY <1>2 DEF Forgotten, stopVars
<1> QED
  BY <1>1, <1>2, QueueKept

Holding == {"sending", "stream", "erred", "exited", "release"}

\* A turn that may have written keeps its token until the step that moves the
\* baseline (markSendIdle, releaseSend).
LEMMA HoldsUntilEnd ==
  ASSUME QueueInv, Next, NEW s \in Sends, active = s, st[s] \in Holding
  PROVE  TurnEnds \/ (active' = s /\ st'[s] \in Holding)
<1> USE SendQueueAssumption DEF QueueInv, QueueTypeOK, Holding
<1>1. ASSUME NEW t \in Sends, Check(t) \/ Enqueue(t)
      PROVE  active' = s /\ st'[s] \in Holding
  BY <1>1 DEF Check, Enqueue, Goto
<1>2. ASSUME NEW t \in Sends, Retract(t)
      PROVE  active' = s /\ st'[s] \in Holding
  <2>1. st[t] = "queued"
    BY <1>2 DEF Retract, InLine, Queued
  <2> QED
    BY <1>2, <2>1 DEF Retract, Goto
<1>3. CASE CancelFlush \/ StopFlush
  BY <1>3, FlushLine DEF CancelFlush, StopFlush
<1>4. CASE CancelRead \/ StopDone
  BY <1>4 DEF CancelRead, StopDone, queueVars
<1>5. ASSUME NEW t \in Sends,
             \/ Begin(t) \/ Vanished(t) \/ SendOK(t) \/ FailError(t) \/ FailEnded(t)
             \/ Failure(t) \/ Exit(t) \/ Close(t)
      PROVE  active' = s /\ st'[s] \in Holding
  BY <1>5
  DEF Begin, Vanished, SendOK, FailError, FailEnded, Failure, Exit, Close, Goto, Streaming
<1>6. ASSUME NEW t \in Sends, Part(t)
      PROVE  active' = s /\ st'[s] \in Holding
  BY <1>6 DEF Part, queueVars
<1>7. ASSUME NEW t \in Sends, FailIdle(t) \/ MarkIdle(t)
      PROVE  TurnEnds \/ (active' = s /\ st'[s] \in Holding)
  BY <1>7 DEF FailIdle, MarkIdle, DropToken, Goto, TurnEnds
<1>8. ASSUME NEW t \in Sends, Release(t)
      PROVE  TurnEnds
  <2>1. CASE active \in {t, NoSend} /\ queue # <<>>
    <3>1. Head(queue) \in Queued /\ Head(queue) \in Sends
      BY <1>8, <2>1, RemoveHead, QueuedSends DEF Release
    <3>2. Head(queue) # t
      BY <1>8, <3>1 DEF Release, InLine
    <3> QED
      BY <1>8, <2>1, <3>1, <3>2 DEF Release, TurnEnds
  <2>2. CASE active \notin {t, NoSend} \/ queue = <<>>
    BY <1>8, <2>2 DEF Release, Goto, TurnEnds
  <2> QED
    BY <2>1, <2>2
<1> QED
  BY <1>1, <1>2, <1>3, <1>4, <1>5, <1>6, <1>7, <1>8
  DEF Next, Client, Stopping, Carry, Publishing

\* A step of a turn moves the baseline to the log's end, or not at all.
LEMMA TurnBase ==
  ASSUME Turn
  PROVE  /\ UNCHANGED <<log, scan, reported>>
         /\ \/ UNCHANGED <<seen, base>> /\ (TurnEnds => ~known)
            \/ known /\ seen' = TRUE /\ base' = Len(log)
BY DEF Turn, Bump

(***************************************************************************)
(* The steps.                                                              *)
(***************************************************************************)
LogLine == [by : Sends \union {Foreign}, end : BOOLEAN]

\* The types, spelled out.
LEMMA TypeFacts ==
  ASSUME FTypeOK
  PROVE  /\ log \in Seq(LogLine) /\ Len(log) \in Nat /\ DOMAIN log = 1 .. Len(log)
         /\ \A i \in 1 .. Len(log) : log[i].by \in Sends \union {Foreign}
         /\ seen \in BOOLEAN /\ base \in Nat /\ base <= Len(log)
         /\ scan.size \in Nat /\ scan.size <= Len(log)
         /\ scan.base \in Nat /\ scan.base <= Len(log)
         /\ reported \subseteq 1 .. Len(log)
<1>1. log \in Seq(LogLine) /\ Len(log) \in Nat /\ DOMAIN log = 1 .. Len(log)
  BY DEF FTypeOK, LogLine
<1>2. \A i \in 1 .. Len(log) : log[i] \in LogLine
  BY <1>1
<1>3. \A i \in 1 .. Len(log) : log[i].by \in Sends \union {Foreign}
  BY <1>2 DEF LogLine
<1> QED
  BY <1>1, <1>3 DEF FTypeOK

\* A line goes to the log's end and leaves the others where they are.
LEMMA WriteFacts ==
  ASSUME FTypeOK, NEW by \in Sends \union {Foreign}, Write(by)
  PROVE  /\ log' \in Seq(LogLine) /\ Len(log') = Len(log) + 1
         /\ Len(log) \in Nat /\ Len(log) < MaxLog
         /\ DOMAIN log = 1 .. Len(log) /\ DOMAIN log' = 1 .. Len(log) + 1
         /\ \A i \in DOMAIN log : log'[i] = log[i]
         /\ log'[Len(log) + 1].by = by
<1>1. PICK end \in BOOLEAN : log' = Append(log, [by |-> by, end |-> end])
  BY DEF Write
<1> DEFINE line == [by |-> by, end |-> end]
<1>2. line \in LogLine /\ line.by = by
  BY DEF LogLine
<1>3. log \in Seq(LogLine) /\ Len(log) < MaxLog
  BY DEF FTypeOK, LogLine, Write
<1> HIDE DEF line
<1> QED
  BY <1>1, <1>2, <1>3 DEF line

\* The watcher's variables keep their types; a scan never looks past the log.
LEMMA FTypeStep ==
  ASSUME FTypeOK, Scanned, [FNext]_fvars
  PROVE  FTypeOK'
<1> DEFINE Sizes == 0 .. Len(log)
           Scans == [pc : {"off", "stat", "read", "commit", "publish", "exit"},
                     size : Sizes, base : Sizes]
<1>0. Len(log) \in Nat /\ DOMAIN log = 1 .. Len(log) /\ 0 \in Sizes /\ NoScan \in Scans
  BY TypeFacts DEF NoScan
<1>a. ASSUME log' = log, seen' \in BOOLEAN, base' \in Sizes, scan' \in Scans,
             reported' \subseteq DOMAIN log
      PROVE  FTypeOK'
  BY <1>a DEF FTypeOK
<1>b. seen \in BOOLEAN /\ base \in Sizes /\ scan \in Scans /\ reported \subseteq DOMAIN log
  BY DEF FTypeOK
<1>c. Len(log) \in Sizes /\ scan.size \in Sizes /\ scan.base \in Sizes
  BY <1>0, <1>b
<1>1. ASSUME NEW by \in Sends \union {Foreign}, Write(by) PROVE FTypeOK'
  <2>1. UNCHANGED watchVars
    BY <1>1 DEF Write
  <2>2. 0 .. Len(log) \subseteq 0 .. Len(log')
    BY <1>0, <1>1, WriteFacts
  <2>3. log' \in Seq(LogLine) /\ Len(log') <= MaxLog
    BY <1>1, WriteFacts, ForeignWatchAssumption
  <2>4. base \in 0 .. Len(log') /\ reported \subseteq DOMAIN log'
    BY <1>0, <1>1, <1>b, <2>2, WriteFacts
  <2>5. scan \in [pc : {"off", "stat", "read", "commit", "publish", "exit"},
                  size : 0 .. Len(log'), base : 0 .. Len(log')]
    BY <1>b, <2>2
  <2> QED
    BY <1>b, <2>1, <2>3, <2>4, <2>5 DEF FTypeOK, LogLine, watchVars
<1>2. CASE Turn
  BY <1>2, <1>a, <1>b, <1>c, TurnBase
<1>3. CASE ScanStat
  <2>1. scan' \in Scans
    BY <1>0, <1>3, <1>c DEF ScanStat
  <2> QED
    BY <1>3, <1>a, <1>b, <2>1 DEF ScanStat
<1>4. CASE ScanCompare
  <2>1. [scan EXCEPT !.pc = "read", !.base = base] \in Scans
    BY <1>b
  <2>2. scan' \in Scans /\ base' \in Sizes
    BY <1>0, <1>4, <1>b, <1>c, <2>1 DEF ScanCompare
  <2> QED
    BY <1>4, <1>a, <1>b, <2>2 DEF ScanCompare
<1>5. CASE ScanRead \/ ScanCommit \/ ScanExit
  <2>1. scan' \in Scans
    BY <1>0, <1>5, <1>b DEF ScanRead, ScanCommit, ScanExit
  <2> QED
    BY <1>5, <1>a, <1>b, <1>c, <2>1 DEF ScanRead, ScanCommit, ScanExit
<1>6. CASE ScanPublish
  <2>1. scan.base + 1 .. scan.size \subseteq DOMAIN log
    BY <1>0, TypeFacts
  <2>2. scan' \in Scans
    BY <1>6, <1>b DEF ScanPublish
  <2> QED
    BY <1>6, <1>a, <1>b, <2>1, <2>2 DEF ScanPublish
<1>7. CASE UNCHANGED fvars
  BY <1>7, <1>a, <1>b DEF fvars, watchVars
<1> QED
  BY <1>1, <1>2, <1>3, <1>4, <1>5, <1>6, <1>7 DEF FNext, Scan

\* The baseline never moves back, and never past the log.
LEMMA BaseGrows ==
  ASSUME FTypeOK, Scanned, [FNext]_fvars
  PROVE  base' \in Nat /\ base' >= base
<1>0. /\ Len(log) \in Nat /\ base \in Nat /\ base <= Len(log)
      /\ scan.size \in Nat /\ scan.base \in Nat /\ seen \in BOOLEAN
  BY TypeFacts
<1>1. CASE Turn
  <2>1. base' = base \/ base' = Len(log)
    BY <1>1, TurnBase
  <2> QED
    BY <1>0, <2>1
<1>2. CASE ScanCompare \/ ScanCommit
  BY <1>0, <1>2 DEF ScanCompare, ScanCommit, Scanned
<1>3. ASSUME UNCHANGED base PROVE base' \in Nat /\ base' >= base
  BY <1>0, <1>3
<1> QED
  BY <1>1, <1>2, <1>3
  DEF FNext, Scan, ScanStat, ScanRead, ScanPublish, ScanExit, Write, fvars, watchVars

\* Lines an usher turn wrote stay covered by the baseline or by its token.
LEMMA AccountedStep ==
  ASSUME QueueInv, Forgotten, FTypeOK, Scanned, Accounted, [FNext]_fvars
  PROVE  Accounted'
<1>0. Len(log) \in Nat /\ DOMAIN log = 1 .. Len(log) /\ base \in Nat /\ (known' => known)
  BY ForgottenStep, TypeFacts
<1>1. ASSUME NEW by \in Sends \union {Foreign}, Write(by) PROVE Accounted'
  <2>1. UNCHANGED <<known, active, st, base>>
    BY <1>1 DEF Write, vars, queueVars, watchVars
  <2>2. by \in Sends => by = active /\ st[by] \in {"sending", "stream", "erred"}
    BY <1>1 DEF Write, QueueInv, SingleTurn, Live, Streaming
  <2>3. ASSUME NEW i \in DOMAIN log', known', i > base', log'[i].by \in Sends
        PROVE  /\ log'[i].by = active'
               /\ st'[log'[i].by] \in {"sending", "stream", "erred", "exited", "release"}
    <3>1. CASE i \in DOMAIN log
      BY <1>1, <2>1, <2>3, <3>1, WriteFacts DEF Accounted
    <3>2. CASE i = Len(log) + 1
      BY <1>1, <2>1, <2>2, <2>3, <3>2, WriteFacts
    <3> QED
      BY <1>1, <2>3, <3>1, <3>2, WriteFacts
  <2> QED
    BY <2>3 DEF Accounted
<1>2. CASE Turn
  <2>1. CASE base' = Len(log)
    <3>0. log' = log
      BY <1>2, TurnBase
    <3>1. \A i \in DOMAIN log' : ~(i > base')
      BY <1>0, <2>1, <3>0
    <3> QED
      BY <3>1 DEF Accounted
  <2>2. CASE base' = base /\ (TurnEnds => ~known)
    <3>1. ASSUME NEW i \in DOMAIN log, known', i > base, log[i].by \in Sends
          PROVE  /\ log[i].by = active'
                 /\ st'[log[i].by] \in {"sending", "stream", "erred", "exited", "release"}
      <4>1. log[i].by = active /\ st[log[i].by] \in Holding /\ ~TurnEnds
        BY <1>0, <2>2, <3>1 DEF Accounted, Holding
      <4> QED
        BY <1>2, <3>1, <4>1, HoldsUntilEnd DEF Turn, Holding
    <3> QED
      BY <1>2, <2>2, <3>1, TurnBase DEF Accounted
  <2> QED
    BY <1>2, <2>1, <2>2, TurnBase
<1>3. CASE Scan
  <2>1. UNCHANGED <<known, active, st, log>>
    BY <1>3
    DEF Scan, ScanStat, ScanCompare, ScanRead, ScanCommit, ScanPublish, ScanExit, vars,
        queueVars
  <2>2. base' >= base /\ base' \in Nat
    BY BaseGrows
  <2> QED
    BY <1>0, <2>1, <2>2 DEF Accounted
<1>4. CASE UNCHANGED fvars
  BY <1>4 DEF fvars, vars, queueVars, watchVars, Accounted
<1> QED
  BY <1>1, <1>2, <1>3, <1>4 DEF FNext

\* What a scan that goes on knows of the baseline and of the lines between.
LEMMA ScannedStep ==
  ASSUME Forgotten, FTypeOK, Scanned, Accounted, [FNext]_fvars
  PROVE  Scanned'
<1>0. /\ Len(log) \in Nat /\ DOMAIN log = 1 .. Len(log) /\ base \in Nat
      /\ scan.size \in Nat /\ scan.base \in Nat /\ (known' => known)
      /\ scan.size <= Len(log) /\ base <= Len(log) /\ seen \in BOOLEAN
  BY ForgottenStep, TypeFacts
<1>1. ASSUME NEW by \in Sends \union {Foreign}, Write(by) PROVE Scanned'
  <2>1. UNCHANGED <<known, watchVars>>
    BY <1>1 DEF Write, vars
  <2>2. \A i \in scan.base + 1 .. scan.size : log'[i] = log[i]
    BY <1>0, <1>1, WriteFacts
  <2> QED
    BY <2>1, <2>2 DEF Scanned, watchVars
<1>2. CASE Turn
  <2>1. UNCHANGED <<log, scan>> /\ (seen => seen') /\ base <= base' /\ (~seen' => base' = base)
    <3>1. /\ UNCHANGED <<log, scan>>
          /\ \/ UNCHANGED <<seen, base>>
             \/ seen' = TRUE /\ base' = Len(log)
      BY <1>2, TurnBase
    <3> QED
      BY <1>0, <3>1
  <2>2. base' \in Nat
    BY BaseGrows
  <2>3. scan.pc \in {"read", "commit"} => scan.base <= base'
    BY <1>0, <2>1, <2>2 DEF Scanned
  <2>4. scan.pc = "publish" => scan.size <= base'
    BY <1>0, <2>1, <2>2 DEF Scanned
  <2> QED
    BY <1>0, <2>1, <2>3, <2>4 DEF Scanned
<1>3. CASE ScanStat
  BY <1>3 DEF ScanStat, Scanned
<1>4. CASE ScanCompare
  BY <1>0, <1>4 DEF ScanCompare, Scanned, NoScan
<1>5. CASE ScanRead
  BY <1>5 DEF ScanRead, Scanned, NoScan
<1>6. CASE ScanCommit
  <2>1. CASE active = NoSend /\ base = scan.base
    <3>1. ASSUME known, NEW i \in scan.base + 1 .. scan.size
          PROVE  log[i].by = Foreign
      <4>1. i \in DOMAIN log /\ i > base
        BY <1>0, <2>1
      <4>2. log[i].by \in Sends \union {Foreign}
        BY <1>0, <4>1, TypeFacts
      <4> QED
        BY <2>1, <3>1, <4>1, <4>2, SendQueueAssumption DEF Accounted
    <3>2. /\ base' = scan.size /\ scan'.pc = "publish" /\ seen' = seen /\ seen
          /\ scan'.size = scan.size /\ scan'.base = scan.base /\ UNCHANGED <<known, log>>
      BY <1>6, <2>1 DEF ScanCommit, Scanned, vars, FTypeOK
    <3> QED
      BY <1>0, <3>1, <3>2 DEF Scanned
  <2>2. CASE ~(active = NoSend /\ base = scan.base)
    BY <1>6, <2>2 DEF ScanCommit, Scanned, NoScan
  <2> QED
    BY <2>1, <2>2
<1>7. CASE ScanPublish \/ ScanExit
  <2>1. UNCHANGED <<seen, base>> /\ scan'.pc \in {"off", "exit"}
    BY <1>7 DEF ScanPublish, ScanExit, NoScan, FTypeOK
  <2> QED
    BY <2>1 DEF Scanned
<1>8. CASE UNCHANGED fvars
  BY <1>8 DEF fvars, vars, watchVars, Scanned
<1> QED
  BY <1>1, <1>2, <1>3, <1>4, <1>5, <1>6, <1>7, <1>8 DEF FNext, Scan

\* What was reported stays below the baseline, and below where the next report
\* will begin.
LEMMA PastStep ==
  ASSUME FTypeOK, Scanned, Past, [FNext]_fvars
  PROVE  Past'
<1>0. /\ base \in Nat /\ base' \in Nat /\ base' >= base /\ reported \subseteq Nat
      /\ scan.size \in Nat /\ scan.base \in Nat
  BY BaseGrows, TypeFacts
<1>1. ASSUME UNCHANGED <<scan, reported>> PROVE Past'
  BY <1>0, <1>1 DEF Past
<1>2. CASE ScanCompare
  BY <1>0, <1>2 DEF ScanCompare, NoScan, Past
<1>7. CASE ScanStat \/ ScanRead \/ ScanCommit \/ ScanExit
  <2>1. UNCHANGED reported
    BY <1>7 DEF ScanStat, ScanRead, ScanCommit, ScanExit
  <2>2. scan'.pc \in {"read", "commit", "publish"} =>
          scan.pc \in {"read", "commit", "publish"} /\ scan'.base = scan.base
    BY <1>7 DEF ScanStat, ScanRead, ScanCommit, ScanExit, NoScan, FTypeOK
  <2> QED
    BY <1>0, <2>1, <2>2 DEF Past
<1>3. CASE ScanPublish
  BY <1>0, <1>3 DEF ScanPublish, Past, Scanned
<1>4. ASSUME NEW by \in Sends \union {Foreign}, Write(by) PROVE Past'
  BY <1>1, <1>4 DEF Write, watchVars
<1>5. CASE Turn
  BY <1>1, <1>5, TurnBase
<1>6. CASE UNCHANGED fvars
  BY <1>1, <1>6 DEF fvars, watchVars
<1> QED
  BY <1>2, <1>3, <1>4, <1>5, <1>6, <1>7 DEF FNext, Scan

\* A report adds foreign lines alone.
LEMMA ReportStep ==
  ASSUME FTypeOK, Scanned, NoDoubleReport, [FNext]_fvars
  PROVE  NoDoubleReport'
<1> USE DEF FTypeOK
<1>1. ASSUME UNCHANGED <<log, reported>> PROVE NoDoubleReport'
  BY <1>1 DEF NoDoubleReport
<1>2. CASE ScanPublish
  BY <1>2 DEF ScanPublish, Scanned, NoDoubleReport
<1>3. ASSUME NEW by \in Sends \union {Foreign}, Write(by) PROVE NoDoubleReport'
  BY <1>3, WriteFacts DEF Write, watchVars, NoDoubleReport
<1>4. CASE Turn
  BY <1>1, <1>4, TurnBase
<1> QED
  BY <1>1, <1>2, <1>3, <1>4
  DEF FNext, Scan, ScanStat, ScanCompare, ScanRead, ScanCommit, ScanExit, fvars, watchVars

(***************************************************************************)
(* Theorems.                                                               *)
(***************************************************************************)

\* The log may have a history before usher starts; the watcher has seen nothing.
LEMMA InitFInv == FInit => FInv
<1> SUFFICES ASSUME FInit PROVE FInv
  OBVIOUS
<1>1. QueueInv /\ Forgotten
  BY InitIInv DEF FInit, Init, IInv, TypeOK, QueueInv, Forgotten
<1>2. /\ log \in Seq(LogLine) /\ Len(log) \in {0, 1}
      /\ \A i \in DOMAIN log : log[i].by = Foreign
  <2> DEFINE line == [by |-> Foreign, end |-> TRUE]
  <2>1. line \in LogLine /\ line.by = Foreign
    BY DEF LogLine
  <2>2. log \in {<<>>, <<line>>}
    BY DEF FInit
  <2> HIDE DEF line
  <2>3. CASE log = <<>>
    BY <2>3
  <2>4. CASE log = <<line>>
    BY <2>1, <2>4
  <2> QED
    BY <2>2, <2>3, <2>4
<1>3. FTypeOK
  <2>1. 0 \in 0 .. Len(log) /\ Len(log) <= MaxLog
    BY <1>2, ForeignWatchAssumption
  <2> QED
    BY <1>2, <2>1 DEF FInit, FTypeOK, NoScan, LogLine
<1>4. Accounted /\ Scanned /\ Past /\ NoDoubleReport
  BY <1>2, ForeignWatchAssumption
  DEF FInit, NoScan, Accounted, Scanned, Past, NoDoubleReport
<1> QED
  BY <1>1, <1>3, <1>4 DEF FInv

\* Every reachable state satisfies the strengthening.
THEOREM WatchInv == FSpec => []FInv
<1>1. FInit => FInv
  BY InitFInv
<1>2. FInv /\ [FNext]_fvars => FInv'
  BY QueueInvStep, ForgottenStep, FTypeStep, AccountedStep, ScannedStep, PastStep,
     ReportStep
  DEF FInv
<1> QED
  BY <1>1, <1>2, PTL DEF FSpec

\* The watcher never reports a line of an usher turn, however its polls fall
\* between the turns' starts, ends, failures and the session's deletion
\* (pkg/router/foreignwatch.go:79,101).
THEOREM OthersOnly == FSpec => []OwnNotReported
<1>1. FInv => OwnNotReported
  BY DEF FInv, OwnNotReported
<1> QED
  BY <1>1, WatchInv, PTL

\* The baseline only moves forward, and each report begins past the last
\* (checkForeignTurn, bumpForeignBaseLocked).
THEOREM EachLineOnce == FSpec => ReportedOnce
<1>1. FInv /\ [FNext]_fvars =>
        [/\ base' >= base
         /\ \A i \in reported' \ reported : i <= base
         /\ scan.pc = "publish" => \A i \in reported : i <= scan.base]_fvars
  <2> SUFFICES ASSUME FInv, FNext
               PROVE  /\ base' >= base
                      /\ \A i \in reported' \ reported : i <= base
                      /\ scan.pc = "publish" => \A i \in reported : i <= scan.base
    OBVIOUS
  <2>1. base' >= base
    BY BaseGrows DEF FInv
  <2>2. CASE ScanPublish
    <3>1. FTypeOK /\ Scanned
      BY DEF FInv
    <3>2. reported' \ reported \subseteq scan.base + 1 .. scan.size /\ scan.pc = "publish"
      BY <2>2 DEF ScanPublish
    <3> QED
      BY <2>1, <3>1, <3>2, TypeFacts DEF FInv, Past, Scanned
  <2>3. CASE Turn
    BY <2>1, <2>3, TurnBase DEF FInv, Past
  <2>4. CASE FNext /\ ~ScanPublish /\ ~Turn
    <3>1. reported' = reported
      BY <2>4
      DEF FNext, Scan, ScanStat, ScanCompare, ScanRead, ScanCommit, ScanExit, Write, watchVars
    <3> QED
      BY <2>1, <3>1 DEF FInv, Past
  <2> QED
    BY <2>2, <2>3, <2>4
<1> QED
  BY <1>1, WatchInv, PTL DEF FSpec, ReportedOnce
=============================================================================
