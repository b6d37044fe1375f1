----------------------------- MODULE ServicesProofs -----------------------------
(***************************************************************************)
(* Proofs about the components side by side, for every value of their      *)
(* constants: for every length of a turn's log what its consumer gets, for *)
(* every sequence of limits when a session resumes, for every publisher and*)
(* subscriber what the broker delivers.                                    *)
(***************************************************************************)
EXTENDS MCServices, SequenceTheorems, FiniteSetTheorems, TLAPS

(***************************************************************************)
(* TurnLoop: the strengthening.                                            *)
(***************************************************************************)

\* What was sent on the stream and what the tailer sent the loop, as one.
Stream == out \o events

Tells(evs, type) == \E i \in DOMAIN evs : evs[i].type = type

\* Every line read was forwarded, except one in the tailer's hand, or dropped by
\* it with its last event.
Ordered ==
  /\ Loop!Sorted(Stream)
  /\ \/ tail # "send" /\ Loop!Within(Stream, rd) /\ Loop!Full(Stream, rd)
     \/ tail \in {"send", "done"} /\ rd > 0 /\ Loop!Within(Stream, rd - 1) /\ Loop!Full(Stream, rd - 1)

\* turn.started comes first, and from the loop.
Begun ==
  /\ loop = "start" => out = <<>> /\ tail = "off"
  /\ loop \notin {"start", "closed"} => out # <<>>
  /\ \A i \in DOMAIN out : out[i].type = "started" <=> i = 1
  /\ ~Tells(events, "started")
  /\ tail = "off" => events = <<>>

\* The loop stops the tailer once, and then waits for it.
Stops ==
  /\ stopped => loop \in {"force", "finishForce", "closed"}
  /\ idle => stopped
  /\ last => Loop!TailCancelled
  /\ loop = "await" \/ (loop = "closed" /\ stopped) => Loop!EventsClosed

\* A tailer that did not fail says turn.ended last, and only when it was stopped;
\* finishCancelled knows whether it did.
Ends ==
  ~faulted =>
    /\ tail = "done" => Loop!TailCancelled
    /\ loop # "closed" =>
         /\ \A i \in DOMAIN Stream : Stream[i].type = "ended" => i = Len(Stream) /\ tail = "done"
         /\ Tells(out, "ended") => exited
    /\ loop = "closed" => \A i \in DOMAIN out : out[i].type = "ended" => i = Len(out)

\* A tailer that is done said why, and the flag is not set for nothing.
Says ==
  /\ tail = "done" => loop = "closed" \/ Tells(Stream, "ended") \/ Tells(Stream, "failed")
  /\ exited => Tells(out, "ended")

\* A tailer stopped between two polls drops nothing it reads from then on.
Idles ==
  idle /\ ~faulted =>
    (tail = "send" => ~hand) /\ (tail = "done" => Loop!Full(Stream, onDisk))

LoopIInv == Loop!TypeOK /\ Ordered /\ Begun /\ Stops /\ Ends /\ Says /\ Loop!ExitUnlessCutShort /\ Idles

(***************************************************************************)
(* TurnLoop: streams.                                                      *)
(***************************************************************************)

\* An event the loop takes from the tailer moves from one end of the stream to
\* where the other begins.
LEMMA MoveKeeps ==
  ASSUME NEW S, NEW a \in Seq(S), NEW b \in Seq(S), b # <<>>
  PROVE  Append(a, Head(b)) \o Tail(b) = a \o b
<1>1. Head(b) \in S /\ Tail(b) \in Seq(S) /\ b = <<Head(b)>> \o Tail(b)
  BY HeadTailProperties
<1>2. Append(a, Head(b)) = a \o <<Head(b)>>
  BY <1>1
<1>3. (a \o <<Head(b)>>) \o Tail(b) = a \o (<<Head(b)>> \o Tail(b))
  BY <1>1
<1> QED
  BY <1>1, <1>2, <1>3

\* Where each event goes when others are put between two parts.
LEMMA InsertFacts ==
  ASSUME NEW S, NEW a \in Seq(S), NEW c \in Seq(S), NEW b \in Seq(S),
         NEW s, s = a \o b, NEW t, t = (a \o c) \o b
  PROVE  /\ Len(a) \in Nat /\ Len(c) \in Nat /\ Len(b) \in Nat
         /\ DOMAIN s = 1 .. Len(a) + Len(b) /\ DOMAIN t = 1 .. Len(a) + Len(c) + Len(b)
         /\ DOMAIN a = 1 .. Len(a) /\ DOMAIN c = 1 .. Len(c)
         /\ \A i \in 1 .. Len(a) : t[i] = s[i] /\ s[i] = a[i]
         /\ \A i \in 1 .. Len(c) : t[Len(a) + i] = c[i]
         /\ \A i \in Len(a) + 1 .. Len(a) + Len(b) : t[i + Len(c)] = s[i]
  OBVIOUS

\* Events that are no records leave the records of a stream as they are.
LEMMA InsertKeeps ==
  ASSUME NEW S, NEW a \in Seq(S), NEW c \in Seq(S), NEW b \in Seq(S), ~Tells(c, "record"),
         NEW n, NEW s, s = a \o b, NEW t, t = (a \o c) \o b
  PROVE  /\ Loop!Sorted(s) => Loop!Sorted(t)
         /\ Loop!Within(s, n) => Loop!Within(t, n)
         /\ Loop!Full(s, n) => Loop!Full(t, n)
         /\ \A type : Tells(s, type) => Tells(t, type)
<1> USE InsertFacts
<1> DEFINE back(i) == IF i <= Len(a) THEN i ELSE i - Len(c)
           forth(i) == IF i <= Len(a) THEN i ELSE i + Len(c)
<1>1. \A i \in DOMAIN s : forth(i) \in DOMAIN t /\ t[forth(i)] = s[i]
  <2> SUFFICES ASSUME NEW i \in DOMAIN s PROVE forth(i) \in DOMAIN t /\ t[forth(i)] = s[i]
    OBVIOUS
  <2>1. CASE i <= Len(a)
    BY <2>1
  <2>2. CASE i > Len(a)
    BY <2>2
  <2> QED
    BY <2>1, <2>2
<1>2. \A i \in Loop!Records(t) : back(i) \in Loop!Records(s) /\ s[back(i)] = t[i]
  <2> SUFFICES ASSUME NEW i \in Loop!Records(t)
               PROVE  back(i) \in Loop!Records(s) /\ s[back(i)] = t[i]
    OBVIOUS
  <2>1. i \in DOMAIN t /\ t[i].type = "record"
    BY DEF Loop!Records
  <2>2. ~(i \in Len(a) + 1 .. Len(a) + Len(c))
    <3>1. ASSUME i \in Len(a) + 1 .. Len(a) + Len(c) PROVE FALSE
      <4>1. i - Len(a) \in 1 .. Len(c) /\ t[Len(a) + (i - Len(a))] = c[i - Len(a)]
        BY <3>1
      <4>2. c[i - Len(a)].type = "record"
        BY <2>1, <3>1, <4>1
      <4> QED
        BY <4>1, <4>2 DEF Tells
    <3> QED
      BY <3>1
  <2>3. CASE i <= Len(a)
    BY <2>1, <2>3 DEF Loop!Records
  <2>4. CASE i > Len(a) + Len(c)
    <3>1. i - Len(c) \in Len(a) + 1 .. Len(a) + Len(b) /\ (i - Len(c)) + Len(c) = i
      BY <2>1, <2>4
    <3>2. t[i] = s[i - Len(c)] /\ i - Len(c) \in DOMAIN s
      BY <3>1
    <3> QED
      BY <2>1, <2>4, <3>2 DEF Loop!Records
  <2> QED
    BY <2>1, <2>2, <2>3, <2>4
<1>3. \A i, j \in Loop!Records(t) : i < j => back(i) < back(j)
  <2> SUFFICES ASSUME NEW i \in Loop!Records(t), NEW j \in Loop!Records(t), i < j
               PROVE  back(i) < back(j)
    OBVIOUS
  <2>1. /\ i \in DOMAIN t /\ j \in DOMAIN t /\ back(i) \in DOMAIN s /\ back(j) \in DOMAIN s
        /\ s[back(i)] = t[i] /\ s[back(j)] = t[j]
    BY <1>2 DEF Loop!Records
  <2>2. ~(j \in Len(a) + 1 .. Len(a) + Len(c))
    <3>1. ASSUME j \in Len(a) + 1 .. Len(a) + Len(c) PROVE FALSE
      <4>1. j - Len(a) \in 1 .. Len(c) /\ t[Len(a) + (j - Len(a))] = c[j - Len(a)]
        BY <3>1
      <4>2. c[j - Len(a)].type = "record"
        BY <2>1, <3>1, <4>1 DEF Loop!Records
      <4> QED
        BY <4>1, <4>2 DEF Tells
    <3> QED
      BY <3>1
  <2> QED
    BY <2>1, <2>2
<1> HIDE DEF back, forth
<1>4. Loop!Sorted(s) => Loop!Sorted(t)
  <2> SUFFICES ASSUME Loop!Sorted(s), NEW i \in Loop!Records(t), NEW j \in Loop!Records(t), i < j
               PROVE  t[i].line < t[j].line
    BY DEF Loop!Sorted
  <2>1. /\ back(i) \in Loop!Records(s) /\ back(j) \in Loop!Records(s) /\ back(i) < back(j)
        /\ s[back(i)] = t[i] /\ s[back(j)] = t[j]
    BY <1>2, <1>3
  <2>2. s[back(i)].line < s[back(j)].line
    BY <2>1 DEF Loop!Sorted
  <2> QED
    BY <2>1, <2>2
<1>5. Loop!Within(s, n) => Loop!Within(t, n)
  BY <1>2 DEF Loop!Within
<1>6. Loop!Full(s, n) => Loop!Full(t, n)
  <2> SUFFICES ASSUME Loop!Full(s, n), NEW k \in 1 .. n
               PROVE  \E i \in DOMAIN t : t[i] = Loop!Rec(k)
    BY DEF Loop!Full
  <2>1. PICK i \in DOMAIN s : s[i] = Loop!Rec(k)
    BY DEF Loop!Full
  <2>2. forth(i) \in DOMAIN t /\ t[forth(i)] = Loop!Rec(k)
    BY <1>1, <2>1
  <2> QED
    BY <2>2
<1>7. ASSUME NEW type, Tells(s, type) PROVE Tells(t, type)
  <2>1. PICK i \in DOMAIN s : s[i].type = type
    BY <1>7 DEF Tells
  <2>2. forth(i) \in DOMAIN t /\ t[forth(i)].type = type
    BY <1>1, <2>1
  <2> QED
    BY <2>2 DEF Tells
<1> QED
  BY <1>4, <1>5, <1>6, <1>7

LEMMA TellsConcat ==
  ASSUME NEW S, NEW a \in Seq(S), NEW b \in Seq(S), NEW type
  PROVE  Tells(a \o b, type) <=> Tells(a, type) \/ Tells(b, type)
<1>1. /\ Len(a) \in Nat /\ Len(b) \in Nat /\ DOMAIN a = 1 .. Len(a) /\ DOMAIN b = 1 .. Len(b)
      /\ DOMAIN (a \o b) = 1 .. Len(a) + Len(b)
      /\ \A i \in DOMAIN a : (a \o b)[i] = a[i]
      /\ \A i \in DOMAIN b : (a \o b)[Len(a) + i] = b[i]
  OBVIOUS
<1>2. ASSUME Tells(a, type) PROVE Tells(a \o b, type)
  BY <1>1, <1>2 DEF Tells
<1>3. ASSUME Tells(b, type) PROVE Tells(a \o b, type)
  <2>1. PICK i \in DOMAIN b : b[i].type = type
    BY <1>3 DEF Tells
  <2>2. Len(a) + i \in DOMAIN (a \o b) /\ (a \o b)[Len(a) + i].type = type
    BY <1>1, <2>1
  <2> QED
    BY <2>2 DEF Tells
<1>4. ASSUME Tells(a \o b, type) PROVE Tells(a, type) \/ Tells(b, type)
  <2>1. PICK i \in DOMAIN (a \o b) : (a \o b)[i].type = type
    BY <1>4 DEF Tells
  <2>2. CASE i \in DOMAIN a
    BY <1>1, <2>1, <2>2 DEF Tells
  <2>3. CASE i \notin DOMAIN a
    <3>1. i - Len(a) \in DOMAIN b /\ (a \o b)[i] = b[i - Len(a)]
      BY <1>1, <2>1, <2>3
    <3> QED
      BY <2>1, <3>1 DEF Tells
  <2> QED
    BY <2>2, <2>3
<1> QED
  BY <1>2, <1>3, <1>4

\* The next line of the log extends a stream that holds all before it.
LEMMA ExtendRecord ==
  ASSUME NEW S, NEW s \in Seq(S), NEW n \in Nat, Loop!Rec(n + 1) \in S,
         Loop!Sorted(s), Loop!Within(s, n), Loop!Full(s, n)
  PROVE  LET t == s \o <<Loop!Rec(n + 1)>> IN Loop!Sorted(t) /\ Loop!Within(t, n + 1) /\ Loop!Full(t, n + 1)
<1> DEFINE e == Loop!Rec(n + 1)
           t == s \o <<e>>
<1>0. e.type = "record" /\ e.line = n + 1 /\ e \in S
  BY DEF Loop!Rec
<1> HIDE DEF e
<1>1. /\ Len(s) \in Nat /\ DOMAIN s = 1 .. Len(s) /\ DOMAIN t = 1 .. Len(s) + 1
      /\ \A i \in 1 .. Len(s) : t[i] = s[i]
      /\ t[Len(s) + 1] = e
  BY <1>0
<1> HIDE DEF t
<1>2. \A i \in Loop!Records(t) : i \in Loop!Records(s) \/ i = Len(s) + 1
  BY <1>1 DEF Loop!Records
<1>3. \A i \in Loop!Records(s) : i \in 1 .. Len(s) /\ s[i].line \in 1 .. n /\ t[i] = s[i]
  BY <1>1 DEF Loop!Within, Loop!Records
<1>4. Loop!Sorted(t)
  <2> SUFFICES ASSUME NEW i \in Loop!Records(t), NEW j \in Loop!Records(t), i < j
               PROVE  t[i].line < t[j].line
    BY DEF Loop!Sorted
  <2>1. i \in Loop!Records(s)
    BY <1>1, <1>2, <1>3
  <2>2. CASE j \in Loop!Records(s)
    BY <1>3, <2>1, <2>2 DEF Loop!Sorted
  <2>3. CASE j = Len(s) + 1
    <3>1. t[i].line \in 1 .. n /\ t[j].line = n + 1
      BY <1>0, <1>1, <1>3, <2>1, <2>3
    <3> QED
      BY <3>1
  <2> QED
    BY <1>2, <2>2, <2>3
<1>5. Loop!Within(t, n + 1)
  BY <1>0, <1>1, <1>2, <1>3 DEF Loop!Within
<1>6. Loop!Full(t, n + 1)
  <2> SUFFICES ASSUME NEW k \in 1 .. n + 1 PROVE \E i \in DOMAIN t : t[i] = Loop!Rec(k)
    BY DEF Loop!Full
  <2>1. CASE k \in 1 .. n
    BY <1>1, <2>1 DEF Loop!Full
  <2>2. CASE k = n + 1
    BY <1>1, <2>2 DEF e
  <2> QED
    BY <2>1, <2>2
<1> QED
  BY <1>4, <1>5, <1>6 DEF t, e

(***************************************************************************)
(* TurnLoop: the steps.                                                    *)
(***************************************************************************)
Types == {"started", "delta", "limited", "failed", "ended", "record"}

LEMMA EventTypes ==
  ASSUME Loop!LoopConstants
  PROVE  /\ \A type \in Types : Loop!Ctl(type) \in Loop!Event /\ Loop!Ctl(type).type = type
         /\ \A i \in 0 .. MaxLines : Loop!Rec(i) \in Loop!Event
BY DEF Loop!LoopConstants, Loop!Ctl, Loop!Rec, Loop!Event, Types

\* What the loop says of its own is no record.
Signals == {c \in Seq(Loop!Event) : ~Tells(c, "record") /\ ~Tells(c, "started") /\ ~Tells(c, "ended")}

LEMMA SignalTypes ==
  ASSUME Loop!LoopConstants
  PROVE  /\ <<>> \in Signals /\ <<Loop!Ctl("delta")>> \in Signals /\ <<Loop!Ctl("failed")>> \in Signals
         /\ \A verdict : Loop!ResultEvents(verdict) \in Signals
         /\ \A verdict : Loop!ResultEvents(verdict) \o <<Loop!Ctl("failed")>> \in Signals
<1>1. /\ Loop!Ctl("delta") \in Loop!Event /\ Loop!Ctl("failed") \in Loop!Event /\ Loop!Ctl("limited") \in Loop!Event
      /\ Loop!Ctl("delta").type = "delta" /\ Loop!Ctl("failed").type = "failed"
      /\ Loop!Ctl("limited").type = "limited"
  BY EventTypes DEF Types
<1>2. /\ <<>> \in Signals /\ <<Loop!Ctl("delta")>> \in Signals /\ <<Loop!Ctl("failed")>> \in Signals
  BY <1>1 DEF Signals, Tells
<1>3. <<Loop!Ctl("limited"), Loop!Ctl("failed")>> \in Signals
  BY <1>1 DEF Signals, Tells
<1>4. ASSUME NEW verdict PROVE Loop!ResultEvents(verdict) \in Signals
  BY <1>2, <1>3 DEF Loop!ResultEvents
<1>5. ASSUME NEW c \in Signals, NEW d \in Signals PROVE c \o d \in Signals
  <2>1. c \in Seq(Loop!Event) /\ d \in Seq(Loop!Event) /\ c \o d \in Seq(Loop!Event)
    BY <1>5 DEF Signals
  <2>2. ASSUME NEW i \in DOMAIN (c \o d)
        PROVE  (c \o d)[i].type \notin {"record", "started", "ended"}
    <3>1. CASE i \in DOMAIN c
      <4>1. (c \o d)[i] = c[i]
        BY <2>1, <2>2, <3>1
      <4> QED
        BY <3>1, <4>1 DEF Signals, Tells
    <3>2. CASE i \notin DOMAIN c
      <4>1. i - Len(c) \in DOMAIN d /\ (c \o d)[i] = d[i - Len(c)]
        BY <2>1, <2>2, <3>2
      <4> QED
        BY <4>1 DEF Signals, Tells
    <3> QED
      BY <3>1, <3>2
  <2> QED
    BY <2>1, <2>2 DEF Signals, Tells
<1> QED
  BY <1>2, <1>4, <1>5

Moves ==
  /\ loop \notin {"start", "await", "closed"}
  /\ events # <<>> /\ out' = Append(out, Head(events)) /\ events' = Tail(events)

\* A step of the loop goroutine passes an event on, adds some of its own, or says
\* that the turn started or ended.
LEMMA LoopSteps ==
  ASSUME Loop!LoopConstants, Loop!TypeOK, Loop!LoopNext
  PROVE  /\ UNCHANGED <<log, exists, cancelled, rd, hand, last, faulted>>
         /\ tail' = tail \/ (tail = "off" /\ tail' = "open")
         /\ \/ Moves
            \/ events' = events /\ \E c \in Signals : out' = out \o c
            \/ events' = events /\ loop = "start" /\ out' = <<Loop!Ctl("started")>>
            \/ /\ events' = events /\ loop \notin {"start", "closed"} /\ loop' = "closed"
               /\ \E c \in Signals : out' = out \o c \o Loop!OwedExit
<1> USE SignalTypes
<1>0. out \in Seq(Loop!Event) /\ out \o <<>> = out
  BY DEF Loop!TypeOK
<1>1. CASE Loop!TurnStarted
  BY <1>0, <1>1 DEF Loop!TurnStarted, Loop!Locate, Loop!turnVars, Loop!tailVars
<1>2. CASE Loop!Look
  BY <1>0, <1>2 DEF Loop!Look, Loop!Locate, Loop!turnVars, Loop!tailVars, Loop!loopVars
<1>3. CASE Loop!Delta
  <2>1. Append(out, Loop!Ctl("delta")) = out \o <<Loop!Ctl("delta")>>
    BY <1>0, EventTypes DEF Types
  <2> QED
    BY <1>0, <1>3, <2>1 DEF Loop!Delta, Loop!tailVars
<1>4. CASE Loop!TailEvent \/ Loop!FinishEvent
  BY <1>4 DEF Loop!TailEvent, Loop!FinishEvent, Moves, Loop!turnVars
<1>5. CASE Loop!DrainEvent \/ Loop!ForceEvent
  BY <1>5
     DEF Loop!DrainEvent, Loop!ForceEvent, Moves, Loop!Draining, Loop!Forcing,
       Loop!MarkStop, Loop!turnVars
<1>6. CASE Loop!TailLost \/ Loop!TurnCancelled
  BY <1>0, <1>6 DEF Loop!TailLost, Loop!TurnCancelled, Loop!turnVars, Loop!tailVars
<1>7. CASE Loop!AwaitResult
  BY <1>0, <1>7 DEF Loop!AwaitResult, Loop!tailVars
<1>8. CASE Loop!TurnResult
  <2>1. ASSUME out' = out \o Loop!ResultEvents(result) \o <<Loop!Ctl("failed")>>
        PROVE  out' = out \o (Loop!ResultEvents(result) \o <<Loop!Ctl("failed")>>)
    <3>1. Loop!ResultEvents(result) \in Seq(Loop!Event) /\ <<Loop!Ctl("failed")>> \in Seq(Loop!Event)
      BY DEF Signals
    <3> QED
      BY <1>0, <2>1, <3>1, ConcatAssociative
  <2> QED
    BY <1>8, <2>1
       DEF Loop!TurnResult, Loop!Locate, Loop!StopTail, Loop!MarkStop, Loop!tailVars
<1>9. CASE Loop!FinishTailLost
  BY <1>0, <1>9 DEF Loop!FinishTailLost, Loop!turnVars, Loop!tailVars
<1>10. CASE Loop!FinishWaited
  BY <1>10 DEF Loop!FinishWaited, Loop!StopTail, Loop!MarkStop, Loop!tailVars
<1>11. CASE Loop!DrainTimeout
  BY <1>0, <1>11 DEF Loop!DrainTimeout, Loop!StopTail, Loop!MarkStop, Loop!turnVars
<1>12. CASE Loop!DrainDone
  BY <1>0, <1>12 DEF Loop!DrainDone, Loop!turnVars, Loop!tailVars
<1> QED
  BY <1>1, <1>2, <1>3, <1>4, <1>5, <1>6, <1>7, <1>8, <1>9, <1>10, <1>11, <1>12
     DEF Loop!LoopNext

\* A step of the tailer adds to its channel, and leaves the loop's variables.
LEMMA TailSteps ==
  ASSUME Loop!LoopConstants, Loop!TypeOK, Loop!TailNext
  PROVE  /\ UNCHANGED <<Loop!turnVars, Loop!loopVars, stopped, onDisk, idle>> /\ tail \notin {"off", "done"}
         /\ \/ /\ tail' # "done" /\ events' = events
               /\ \/ tail # "send" /\ tail' # "send" /\ rd' = rd
                  \/ tail # "send" /\ tail' = "send" /\ rd' = rd + 1 /\ rd < Len(log)
            \/ tail = "send" /\ tail' = "read" /\ rd' = rd /\ events' = events \o <<Loop!Rec(rd)>>
            \/ /\ tail' = "done" /\ rd' = rd
               /\ \E c \in {<<Loop!Ctl("failed")>>, <<Loop!Ctl("ended")>>, <<Loop!Ctl("failed"), Loop!Ctl("ended")>>} :
                    events' = events \o c
BY
   DEF Loop!TailNext, Loop!TailOpen, Loop!TailRead, Loop!TailForward, Loop!TailEOF,
     Loop!TailWake, Loop!TailFault, Loop!TailSend

\* The backend and the user leave both goroutines alone; the log only grows.
LEMMA OtherSteps ==
  ASSUME Loop!LoopConstants, Loop!TypeOK, Loop!Environment \/ UNCHANGED loopVars
  PROVE  /\ UNCHANGED <<Loop!loopVars, Loop!tailVars>> /\ (log' = log \/ \E line \in {"rec", "end"} :
              Len(log) < MaxLines /\ log' = Append(log, line))
         /\ exists' \in BOOLEAN /\ cancelled' \in BOOLEAN /\ deltas' = deltas
         /\ result' \in Loop!ResultKinds \union {"none", "taken"} /\ (cancelled => cancelled')
BY
   DEF Loop!Environment, Loop!Append1, Loop!Report, Loop!Cancel, Loop!TypeOK, loopVars,
     Loop!turnVars, Loop!loopVars, Loop!tailVars

LEMMA OwedType ==
  ASSUME Loop!LoopConstants
  PROVE  /\ Loop!OwedExit \in Seq(Loop!Event) /\ ~Tells(Loop!OwedExit, "record") /\ ~Tells(Loop!OwedExit, "started")
         /\ exited => Loop!OwedExit = <<>>
         /\ ~exited => Loop!OwedExit = <<Loop!Ctl("ended")>>
<1>1. Loop!Ctl("ended") \in Loop!Event /\ Loop!Ctl("ended").type = "ended"
  BY EventTypes DEF Types
<1> QED
  BY <1>1 DEF Loop!OwedExit, Tells

\* What the loop adds to the stream are no records.
LEMMA LoopStream ==
  ASSUME Loop!LoopConstants, Loop!TypeOK, Begun, Loop!LoopNext
  PROVE  \/ Moves /\ Stream' = Stream
         \/ /\ events' = events
            /\ \E c \in Seq(Loop!Event) : out' = out \o c /\ ~Tells(c, "record")
<1>0. out \in Seq(Loop!Event) /\ events \in Seq(Loop!Event)
  BY DEF Loop!TypeOK
<1>1. CASE Moves
  BY <1>0, <1>1, MoveKeeps DEF Moves, Stream
<1>2. CASE events' = events /\ \E c \in Signals : out' = out \o c
  BY <1>2 DEF Signals
<1>3. CASE events' = events /\ loop = "start" /\ out' = <<Loop!Ctl("started")>>
  <2>1. Loop!Ctl("started") \in Loop!Event /\ Loop!Ctl("started").type = "started"
    BY EventTypes DEF Types
  <2>2. /\ <<Loop!Ctl("started")>> \in Seq(Loop!Event) /\ ~Tells(<<Loop!Ctl("started")>>, "record")
        /\ out' = out \o <<Loop!Ctl("started")>>
    BY <1>3, <2>1 DEF Begun, Tells
  <2> QED
    BY <1>3, <2>2
<1>4. CASE events' = events /\ \E c \in Signals : out' = out \o c \o Loop!OwedExit
  <2>1. PICK c \in Signals : out' = out \o c \o Loop!OwedExit
    BY <1>4
  <2>2. c \in Seq(Loop!Event) /\ Loop!OwedExit \in Seq(Loop!Event) /\ ~Tells(c, "record") /\ ~Tells(Loop!OwedExit, "record")
    BY OwedType DEF Signals
  <2>3. out' = out \o (c \o Loop!OwedExit) /\ c \o Loop!OwedExit \in Seq(Loop!Event)
    BY <1>0, <2>1, <2>2, ConcatAssociative
  <2>4. ~Tells(c \o Loop!OwedExit, "record")
    <3> SUFFICES ASSUME NEW i \in DOMAIN (c \o Loop!OwedExit)
                 PROVE  (c \o Loop!OwedExit)[i].type # "record"
      BY DEF Tells
    <3>1. \/ i \in DOMAIN c /\ (c \o Loop!OwedExit)[i] = c[i]
          \/ i - Len(c) \in DOMAIN Loop!OwedExit /\ (c \o Loop!OwedExit)[i] = Loop!OwedExit[i - Len(c)]
      BY <2>2
    <3> QED
      BY <2>2, <3>1 DEF Tells
  <2> QED
    BY <1>4, <2>3, <2>4
<1> QED
  BY <1>1, <1>2, <1>3, <1>4, LoopSteps

\* Whatever is said of the stream's records still holds after a step of the loop.
LEMMA LoopKeeps ==
  ASSUME Loop!LoopConstants, Loop!TypeOK, Begun, Loop!LoopNext, NEW n
  PROVE  /\ Loop!Sorted(Stream) => Loop!Sorted(Stream')
         /\ Loop!Within(Stream, n) => Loop!Within(Stream', n)
         /\ Loop!Full(Stream, n) => Loop!Full(Stream', n)
         /\ \A type : Tells(Stream, type) => Tells(Stream', type)
<1>0. out \in Seq(Loop!Event) /\ events \in Seq(Loop!Event)
  BY DEF Loop!TypeOK
<1>1. CASE Stream' = Stream
  BY <1>1
<1>2. ASSUME events' = events, NEW c \in Seq(Loop!Event), out' = out \o c, ~Tells(c, "record")
      PROVE  /\ Loop!Sorted(Stream) => Loop!Sorted(Stream')
             /\ Loop!Within(Stream, n) => Loop!Within(Stream', n)
             /\ Loop!Full(Stream, n) => Loop!Full(Stream', n)
             /\ \A type : Tells(Stream, type) => Tells(Stream', type)
  <2>1. Stream' = (out \o c) \o events /\ Stream = out \o events
    BY <1>2 DEF Stream
  <2> QED
    BY <1>0, <1>2, <2>1, InsertKeeps
<1> QED
  BY <1>1, <1>2, LoopStream

\* The same when the tailer adds events that are no records.
LEMMA TailKeeps ==
  ASSUME Loop!LoopConstants, Loop!TypeOK, out' = out, NEW c \in Seq(Loop!Event), ~Tells(c, "record"),
         events' = events \o c, NEW n
  PROVE  /\ Stream' = Stream \o c
         /\ Loop!Sorted(Stream) => Loop!Sorted(Stream')
         /\ Loop!Within(Stream, n) => Loop!Within(Stream', n)
         /\ Loop!Full(Stream, n) => Loop!Full(Stream', n)
         /\ \A type : Tells(Stream, type) => Tells(Stream', type)
<1>1. Stream \in Seq(Loop!Event) /\ out \in Seq(Loop!Event) /\ events \in Seq(Loop!Event) /\ <<>> \in Seq(Loop!Event)
  BY DEF Loop!TypeOK, Stream
<1>2. Stream' = Stream \o c
  <2>1. (out \o events) \o c = out \o (events \o c)
    BY <1>1
  <2> QED
    BY <2>1 DEF Stream
<1>3. Stream = Stream \o <<>> /\ Stream' = (Stream \o c) \o <<>>
  BY <1>1, <1>2
<1> QED
  BY <1>1, <1>2, <1>3, InsertKeeps

\* The tailer's last words.
LastWords == {<<Loop!Ctl("failed")>>, <<Loop!Ctl("ended")>>, <<Loop!Ctl("failed"), Loop!Ctl("ended")>>}

LEMMA LastWordsTypes ==
  ASSUME Loop!LoopConstants, NEW c \in LastWords
  PROVE  /\ c \in Seq(Loop!Event) /\ ~Tells(c, "record") /\ ~Tells(c, "started")
         /\ Tells(c, "failed") \/ Tells(c, "ended")
         /\ \A i \in DOMAIN c : c[i].type = "ended" => i = Len(c)
<1>1. /\ Loop!Ctl("failed") \in Loop!Event /\ Loop!Ctl("failed").type = "failed"
      /\ Loop!Ctl("ended") \in Loop!Event /\ Loop!Ctl("ended").type = "ended"
  BY EventTypes DEF Types
<1>2. CASE c = <<Loop!Ctl("failed")>>
  BY <1>1, <1>2 DEF Tells
<1>3. CASE c = <<Loop!Ctl("ended")>>
  BY <1>1, <1>3 DEF Tells
<1>4. CASE c = <<Loop!Ctl("failed"), Loop!Ctl("ended")>>
  BY <1>1, <1>4 DEF Tells
<1> QED
  BY <1>2, <1>3, <1>4 DEF LastWords

\* The records of a stream are the log's lines, in order.
LEMMA OrderedStep ==
  ASSUME Loop!LoopConstants, Loop!TypeOK, Begun, Ordered, [Loop!Next]_loopVars
  PROVE  Ordered'
<1>0. rd \in Nat /\ out \in Seq(Loop!Event) /\ events \in Seq(Loop!Event) /\ Stream \in Seq(Loop!Event)
      /\ Len(log) \in Nat /\ Len(log) <= MaxLines /\ rd <= Len(log)
  BY DEF Loop!TypeOK, Stream
<1>1. CASE Loop!LoopNext
  <2>1. rd' = rd /\ (tail' = tail \/ (tail = "off" /\ tail' = "open"))
    BY <1>1, LoopSteps
  <2>2. /\ Loop!Sorted(Stream) => Loop!Sorted(Stream')
        /\ \A n : Loop!Within(Stream, n) => Loop!Within(Stream', n)
        /\ \A n : Loop!Full(Stream, n) => Loop!Full(Stream', n)
    BY <1>1, LoopKeeps
  <2> QED
    BY <2>1, <2>2 DEF Ordered
<1>2. CASE Loop!TailNext
  <2>0. out' = out
    BY <1>2, TailSteps DEF Loop!loopVars
  <2>1. CASE tail' # "done" /\ events' = events
    <3>1. Stream' = Stream
      BY <2>0, <2>1 DEF Stream
    <3>2. /\ tail \notin {"send", "done"}
          /\ (tail' # "send" /\ rd' = rd) \/ (tail' = "send" /\ rd' = rd + 1)
      <4>1. tail # "done"
        BY <1>2, TailSteps
      <4>2. ~(tail = "send" /\ events' = events \o <<Loop!Rec(rd)>>)
        <5>1. Loop!Rec(rd) \in Loop!Event
          BY <1>0, EventTypes DEF Loop!LoopConstants
        <5>2. Len(events \o <<Loop!Rec(rd)>>) = Len(events) + 1 /\ Len(events) \in Nat
          BY <1>0, <5>1
        <5> QED
          BY <2>1, <5>2
      <4> QED
        BY <1>2, <2>1, <4>1, <4>2, TailSteps
    <3>3. Loop!Sorted(Stream) /\ Loop!Within(Stream, rd) /\ Loop!Full(Stream, rd)
      BY <3>2 DEF Ordered
    <3>4. CASE tail' # "send" /\ rd' = rd
      BY <2>1, <3>1, <3>3, <3>4 DEF Ordered
    <3>5. CASE tail' = "send" /\ rd' = rd + 1
      <4>1. rd' - 1 = rd /\ rd' > 0
        BY <1>0, <3>5
      <4> QED
        BY <3>1, <3>3, <3>5, <4>1 DEF Ordered
    <3> QED
      BY <3>2, <3>4, <3>5
  <2>2. CASE tail = "send" /\ tail' = "read" /\ rd' = rd /\ events' = events \o <<Loop!Rec(rd)>>
    <3>1. rd > 0 /\ Loop!Within(Stream, rd - 1) /\ Loop!Full(Stream, rd - 1) /\ Loop!Sorted(Stream)
      BY <2>2 DEF Ordered
    <3>2. Loop!Rec(rd) \in Loop!Event
      BY <1>0, EventTypes DEF Loop!LoopConstants
    <3>3. Stream' = Stream \o <<Loop!Rec(rd)>>
      <4>1. <<Loop!Rec(rd)>> \in Seq(Loop!Event)
        BY <3>2
      <4> QED
        BY <1>0, <2>0, <2>2, <4>1, ConcatAssociative DEF Stream
    <3>4. rd - 1 \in Nat /\ (rd - 1) + 1 = rd
      BY <1>0, <3>1
    <3>5. Loop!Sorted(Stream') /\ Loop!Within(Stream', rd) /\ Loop!Full(Stream', rd)
      BY <1>0, <3>1, <3>2, <3>3, <3>4, ExtendRecord
    <3> QED
      BY <2>2, <3>5 DEF Ordered
  <2>3. CASE tail' = "done" /\ rd' = rd /\ \E c \in LastWords : events' = events \o c
    <3>1. PICK c \in LastWords : events' = events \o c
      BY <2>3
    <3>2. c \in Seq(Loop!Event) /\ ~Tells(c, "record")
      BY LastWordsTypes
    <3>3. /\ Loop!Sorted(Stream) => Loop!Sorted(Stream')
          /\ \A n : Loop!Within(Stream, n) => Loop!Within(Stream', n)
          /\ \A n : Loop!Full(Stream, n) => Loop!Full(Stream', n)
      BY <2>0, <3>1, <3>2, TailKeeps
    <3> QED
      BY <2>3, <3>3 DEF Ordered
  <2> QED
    BY <1>2, <2>1, <2>2, <2>3, TailSteps DEF LastWords
<1>3. CASE Loop!Environment \/ UNCHANGED loopVars
  BY <1>3, OtherSteps DEF Ordered, Stream, Loop!loopVars, Loop!tailVars
<1> QED
  BY <1>1, <1>2, <1>3 DEF Loop!Next

LEMMA LoopTypeStep ==
  ASSUME Loop!LoopConstants, Loop!TypeOK, [Loop!Next]_loopVars
  PROVE  Loop!TypeOK'
<1>0. /\ out \in Seq(Loop!Event) /\ events \in Seq(Loop!Event) /\ log \in Seq({"rec", "end"})
      /\ Len(log) \in Nat /\ Len(log) <= MaxLines /\ rd \in 0 .. Len(log) /\ MaxLines \in Nat
      /\ onDisk \in 0 .. Len(log) /\ MaxDeltas \in Nat
  BY DEF Loop!TypeOK, Loop!LoopConstants
<1>1. CASE Loop!LoopNext
  <2>1. out' \in Seq(Loop!Event) /\ events' \in Seq(Loop!Event)
    <3>1. CASE Moves
      <4>1. Head(events) \in Loop!Event /\ Tail(events) \in Seq(Loop!Event)
        BY <1>0, <3>1, HeadTailProperties DEF Moves
      <4> QED
        BY <1>0, <3>1, <4>1 DEF Moves
    <3>2. CASE events' = events /\ \E c \in Signals : out' = out \o c
      BY <1>0, <3>2 DEF Signals
    <3>3. CASE events' = events /\ loop = "start" /\ out' = <<Loop!Ctl("started")>>
      <4>1. Loop!Ctl("started") \in Loop!Event
        BY EventTypes DEF Types
      <4> QED
        BY <1>0, <3>3, <4>1
    <3>4. CASE events' = events /\ \E c \in Signals : out' = out \o c \o Loop!OwedExit
      BY <1>0, <3>4, OwedType DEF Signals
    <3> QED
      BY <1>1, <3>1, <3>2, <3>3, <3>4, LoopSteps
  <2>2. /\ result' \in Loop!ResultKinds \union {"none", "taken"} /\ deltas' \in 0 .. MaxDeltas
        /\ loop' \in Loop!LoopStates /\ seen' \in BOOLEAN /\ exited' \in BOOLEAN
        /\ stopped' \in BOOLEAN /\ onDisk' \in 0 .. Len(log) /\ idle' \in BOOLEAN
    <3> USE <1>0 DEF Loop!TypeOK, Loop!LoopStates, Loop!turnVars, Loop!loopVars, Loop!tailVars, Loop!StopTail, Loop!MarkStop, Loop!Locate
    <3>1. CASE Loop!TurnStarted
      BY <3>1 DEF Loop!TurnStarted
    <3>2. CASE Loop!Look
      BY <3>2 DEF Loop!Look
    <3>3. CASE Loop!Delta
      BY <3>3 DEF Loop!Delta
    <3>4. CASE Loop!TailEvent
      BY <3>4 DEF Loop!TailEvent, Loop!IsMarker
    <3>5. CASE Loop!TailLost \/ Loop!AwaitResult \/ Loop!TurnCancelled
      BY <3>5 DEF Loop!TailLost, Loop!AwaitResult, Loop!TurnCancelled
    <3>s. Len(log) \in 0 .. Len(log) /\ (tail \in {"open", "wait"}) \in BOOLEAN
      BY <1>0
    <3>6. CASE Loop!TurnResult
      <4>1. /\ UNCHANGED <<deltas, seen, exited>> /\ result' = "taken"
            /\ loop' \in {"closed", "force", "drain"}
            /\ UNCHANGED <<stopped, onDisk, idle>> \/ Loop!MarkStop
        BY <3>6 DEF Loop!TurnResult
      <4> QED
        BY <3>s, <4>1
    <3>7. CASE Loop!FinishEvent
      BY <3>7 DEF Loop!FinishEvent, Loop!IsMarker
    <3>8. CASE Loop!FinishTailLost
      BY <3>8 DEF Loop!FinishTailLost
    <3>9. CASE Loop!FinishWaited
      <4>1. /\ UNCHANGED <<deltas, seen, exited>> /\ result' \in {"taken", result}
            /\ loop' \in {"closed", "finishForce", "finishDrain"}
            /\ UNCHANGED <<stopped, onDisk, idle>> \/ Loop!MarkStop
        BY <3>9 DEF Loop!FinishWaited
      <4> QED
        BY <3>s, <4>1
    <3>10. CASE Loop!DrainEvent
      <4>1. /\ UNCHANGED <<deltas, seen, result>>
            /\ exited' = (exited \/ Head(events).type = "ended")
            /\ \/ UNCHANGED <<loop, stopped, onDisk, idle>>
               \/ Loop!MarkStop /\ loop' \in {"force", "finishForce"}
        BY <3>10 DEF Loop!DrainEvent, Loop!Forced
      <4> QED
        BY <3>s, <4>1
    <3>11. CASE Loop!DrainTimeout
      BY <3>11 DEF Loop!DrainTimeout, Loop!Forced
    <3>12. CASE Loop!ForceEvent
      BY <3>12 DEF Loop!ForceEvent
    <3>13. CASE Loop!DrainDone
      BY <3>13 DEF Loop!DrainDone
    <3> QED
      BY <1>1, <3>1, <3>2, <3>3, <3>4, <3>5, <3>6, <3>7, <3>8, <3>9, <3>10, <3>11, <3>12,
         <3>13
         DEF Loop!LoopNext
  <2>3. UNCHANGED <<log, exists, cancelled, rd, hand, last, faulted>> /\ tail' \in Loop!TailStates
    BY <1>1, LoopSteps DEF Loop!TypeOK, Loop!TailStates
  <2> QED
    BY <2>1, <2>2, <2>3 DEF Loop!TypeOK
<1>2. CASE Loop!TailNext
  <2>1. UNCHANGED <<Loop!turnVars, Loop!loopVars, stopped, onDisk, idle>>
    BY <1>2, TailSteps
  <2>2. events' \in Seq(Loop!Event) /\ rd' \in 0 .. Len(log)
    <3>1. CASE events' = events /\ (rd' = rd \/ (rd' = rd + 1 /\ rd < Len(log)))
      BY <1>0, <3>1
    <3>2. CASE rd' = rd /\ events' = events \o <<Loop!Rec(rd)>>
      <4>1. Loop!Rec(rd) \in Loop!Event
        BY <1>0, EventTypes
      <4> QED
        BY <1>0, <3>2, <4>1
    <3>3. CASE rd' = rd /\ \E c \in LastWords : events' = events \o c
      BY <1>0, <3>3, LastWordsTypes
    <3> QED
      BY <1>2, <3>1, <3>2, <3>3, TailSteps DEF LastWords
  <2>3. tail' \in Loop!TailStates /\ hand' \in BOOLEAN /\ last' \in BOOLEAN /\ faulted' \in BOOLEAN
    BY <1>2
       DEF Loop!TypeOK, Loop!TailStates, Loop!TailNext, Loop!TailOpen, Loop!TailRead,
         Loop!TailForward, Loop!TailEOF, Loop!TailWake, Loop!TailFault, Loop!TailCancelled
  <2> QED
    BY <2>1, <2>2, <2>3 DEF Loop!TypeOK, Loop!turnVars, Loop!loopVars
<1>3. CASE Loop!Environment \/ UNCHANGED loopVars
  <2>1. UNCHANGED <<Loop!loopVars, Loop!tailVars>> /\ deltas' = deltas
    BY <1>3, OtherSteps
  <2>2. /\ log' \in Seq({"rec", "end"}) /\ Len(log') <= MaxLines
        /\ rd \in 0 .. Len(log') /\ onDisk \in 0 .. Len(log')
    <3>1. CASE log' = log
      BY <1>0, <1>3, <3>1
    <3>2. ASSUME NEW line \in {"rec", "end"}, Len(log) < MaxLines, log' = Append(log, line)
          PROVE  /\ log' \in Seq({"rec", "end"}) /\ Len(log') = Len(log) + 1
      BY <1>0, <3>2
    <3> QED
      BY <1>0, <1>3, <2>1, <3>1, <3>2, OtherSteps DEF Loop!tailVars
  <2>3. /\ exists' \in BOOLEAN /\ cancelled' \in BOOLEAN
        /\ result' \in Loop!ResultKinds \union {"none", "taken"}
    BY <1>3, OtherSteps
  <2> QED
    BY <2>1, <2>2, <2>3 DEF Loop!TypeOK, Loop!loopVars, Loop!tailVars
<1> QED
  BY <1>1, <1>2, <1>3 DEF Loop!Next

\* turn.started comes first, and only once.
LEMMA BegunStep ==
  ASSUME Loop!LoopConstants, Loop!TypeOK, Begun, [Loop!Next]_loopVars
  PROVE  Begun'
<1>0. out \in Seq(Loop!Event) /\ events \in Seq(Loop!Event)
  BY DEF Loop!TypeOK
<1>1. CASE Loop!LoopNext
  <2>1. /\ loop' # "start"
        /\ tail' = tail \/ (tail = "off" /\ tail' = "open")
        /\ loop' \notin {"start", "closed"} => loop \notin {"start", "closed"} \/ out' # <<>>
    <3>1. CASE Loop!TurnStarted
      <4>1. <<Loop!Ctl("started")>> # <<>>
        OBVIOUS
      <4> QED
        BY <3>1, <4>1 DEF Loop!TurnStarted, Loop!Locate, Loop!tailVars
    <3>2. CASE ~Loop!TurnStarted
      BY <1>1, <3>2, LoopSteps
         DEF Loop!LoopNext, Loop!Look, Loop!Delta, Loop!TailEvent, Loop!TailLost,
           Loop!AwaitResult, Loop!TurnResult, Loop!TurnCancelled, Loop!FinishEvent,
           Loop!FinishTailLost, Loop!FinishWaited, Loop!DrainEvent, Loop!DrainTimeout,
           Loop!ForceEvent, Loop!DrainDone, Loop!Draining, Loop!Forcing, Loop!Forced,
           Loop!loopVars
    <3> QED
      BY <1>1, <3>1, <3>2, LoopSteps
  <2>2. /\ loop' \notin {"start", "closed"} => out' # <<>>
        /\ \A i \in DOMAIN out' : out'[i].type = "started" <=> i = 1
        /\ ~Tells(events', "started")
        /\ tail = "off" => events' = <<>>
    <3>1. ASSUME NEW c \in Seq(Loop!Event), ~Tells(c, "started"), out # <<>>, out' = out \o c
          PROVE  /\ out' # <<>>
                 /\ \A i \in DOMAIN out' : out'[i].type = "started" <=> i = 1
      <4>1. /\ Len(out) \in Nat /\ Len(out) > 0 /\ DOMAIN out = 1 .. Len(out)
            /\ DOMAIN out' = 1 .. Len(out) + Len(c) /\ Len(c) \in Nat /\ DOMAIN c = 1 .. Len(c)
            /\ \A i \in 1 .. Len(out) : out'[i] = out[i]
            /\ \A i \in DOMAIN out' : i > Len(out) => i - Len(out) \in DOMAIN c /\ out'[i] = c[i - Len(out)]
        BY <1>0, <3>1
      <4>2. out' # <<>>
        BY <4>1
      <4>3. ASSUME NEW i \in DOMAIN out' PROVE out'[i].type = "started" <=> i = 1
        <5>1. CASE i <= Len(out)
          BY <4>1, <5>1 DEF Begun
        <5>2. CASE i > Len(out)
          BY <3>1, <4>1, <5>2 DEF Tells
        <5> QED
          BY <4>1, <5>1, <5>2
      <4> QED
        BY <4>2, <4>3
    <3>2. CASE Moves
      <4>1. Head(events) \in Loop!Event /\ Tail(events) \in Seq(Loop!Event) /\ out # <<>>
        BY <1>0, <3>2, HeadTailProperties DEF Moves, Begun
      <4>2. /\ 1 \in DOMAIN events /\ Head(events) = events[1]
            /\ \A i \in DOMAIN Tail(events) : i + 1 \in DOMAIN events /\ Tail(events)[i] = events[i + 1]
        BY <1>0, <3>2, <4>1 DEF Moves
      <4>3. Head(events).type # "started" /\ ~Tells(Tail(events), "started")
        BY <4>2 DEF Begun, Tells
      <4>4. <<Head(events)>> \in Seq(Loop!Event) /\ ~Tells(<<Head(events)>>, "started")
        BY <4>1, <4>3 DEF Tells
      <4>5. out' = out \o <<Head(events)>>
        BY <1>0, <3>2, <4>1 DEF Moves
      <4>6. tail # "off"
        BY <3>2 DEF Begun, Moves
      <4> QED
        BY <3>1, <3>2, <4>1, <4>3, <4>4, <4>5, <4>6 DEF Moves
    <3>3. CASE events' = events /\ \E c \in Signals : out' = out \o c
      <4>1. PICK c \in Signals : out' = out \o c
        BY <3>3
      <4>2. CASE out # <<>>
        BY <3>1, <3>3, <4>1, <4>2 DEF Signals, Begun
      <4>3. CASE out = <<>>
        <5>1. CASE loop' = "closed" /\ out' = <<>>
          BY <3>3, <5>1 DEF Begun
        <5>2. CASE loop = "start" /\ out' = <<Loop!Ctl("started")>>
          BY <3>3, <5>2, EventTypes DEF Begun, Types
        <5>3. CASE loop \notin {"start", "closed"}
          BY <4>3, <5>3 DEF Begun
        <5>4. \/ loop = "start" /\ Loop!TurnStarted
              \/ loop \notin {"start", "closed"}
          BY <1>1
             DEF Loop!LoopNext, Loop!TurnStarted, Loop!Look, Loop!Delta, Loop!TailEvent,
               Loop!TailLost, Loop!AwaitResult, Loop!TurnResult, Loop!TurnCancelled,
               Loop!FinishEvent, Loop!FinishTailLost, Loop!FinishWaited, Loop!DrainEvent,
               Loop!DrainTimeout, Loop!ForceEvent, Loop!DrainDone, Loop!Draining,
               Loop!Forcing
        <5> QED
          BY <4>3, <5>1, <5>2, <5>3, <5>4 DEF Loop!TurnStarted
      <4> QED
        BY <4>2, <4>3
    <3>4. CASE events' = events /\ loop = "start" /\ out' = <<Loop!Ctl("started")>>
      BY <3>4, EventTypes DEF Begun, Types
    <3>5. CASE /\ events' = events /\ loop \notin {"start", "closed"} /\ loop' = "closed"
               /\ \E c \in Signals : out' = out \o c \o Loop!OwedExit
      <4>1. PICK c \in Signals : out' = out \o c \o Loop!OwedExit
        BY <3>5
      <4>2. /\ c \in Seq(Loop!Event) /\ Loop!OwedExit \in Seq(Loop!Event) /\ c \o Loop!OwedExit \in Seq(Loop!Event)
            /\ out' = out \o (c \o Loop!OwedExit)
        <5>1. c \in Seq(Loop!Event) /\ Loop!OwedExit \in Seq(Loop!Event)
          BY OwedType DEF Signals
        <5> QED
          BY <1>0, <4>1, <5>1
      <4>3. ~Tells(c \o Loop!OwedExit, "started")
        <5> SUFFICES ASSUME NEW i \in DOMAIN (c \o Loop!OwedExit)
                     PROVE  (c \o Loop!OwedExit)[i].type # "started"
          BY DEF Tells
        <5>1. \/ i \in DOMAIN c /\ (c \o Loop!OwedExit)[i] = c[i]
              \/ i - Len(c) \in DOMAIN Loop!OwedExit /\ (c \o Loop!OwedExit)[i] = Loop!OwedExit[i - Len(c)]
          BY <4>2
        <5> QED
          BY <5>1, OwedType DEF Signals, Tells
      <4>4. out # <<>>
        BY <3>5 DEF Begun
      <4> QED
        BY <3>1, <3>5, <4>2, <4>3, <4>4 DEF Begun
    <3> QED
      BY <1>1, <3>2, <3>3, <3>4, <3>5, LoopSteps
  <2> QED
    BY <2>1, <2>2 DEF Begun
<1>2. CASE Loop!TailNext
  <2>1. UNCHANGED Loop!loopVars /\ tail # "off"
    BY <1>2, TailSteps
  <2>2. tail' # "off"
    BY <1>2
       DEF Loop!TailNext, Loop!TailOpen, Loop!TailRead, Loop!TailForward, Loop!TailEOF,
         Loop!TailWake, Loop!TailFault
  <2>3. ~Tells(events', "started")
    <3>1. ASSUME NEW c \in Seq(Loop!Event), ~Tells(c, "started"), events' = events \o c
          PROVE  ~Tells(events', "started")
      <4> SUFFICES ASSUME NEW i \in DOMAIN events' PROVE events'[i].type # "started"
        BY DEF Tells
      <4>1. \/ i \in DOMAIN events /\ events'[i] = events[i]
            \/ i - Len(events) \in DOMAIN c /\ events'[i] = c[i - Len(events)]
        BY <1>0, <3>1
      <4> QED
        BY <3>1, <4>1 DEF Begun, Tells
    <3>2. CASE events' = events
      BY <3>2 DEF Begun
    <3>3. CASE events' = events \o <<Loop!Rec(rd)>>
      <4>1. Loop!Rec(rd) \in Loop!Event /\ Loop!Rec(rd).type = "record"
        BY EventTypes DEF Loop!TypeOK, Loop!LoopConstants, Loop!Rec
      <4>2. <<Loop!Rec(rd)>> \in Seq(Loop!Event) /\ ~Tells(<<Loop!Rec(rd)>>, "started")
        BY <4>1 DEF Tells
      <4> QED
        BY <3>1, <3>3, <4>2
    <3>4. CASE \E c \in LastWords : events' = events \o c
      BY <3>1, <3>4, LastWordsTypes
    <3> QED
      BY <1>2, <3>2, <3>3, <3>4, TailSteps DEF LastWords
  <2> QED
    BY <2>1, <2>2, <2>3 DEF Begun, Loop!loopVars
<1>3. CASE Loop!Environment \/ UNCHANGED loopVars
  BY <1>3, OtherSteps DEF Begun, Loop!loopVars, Loop!tailVars
<1> QED
  BY <1>1, <1>2, <1>3 DEF Loop!Next

LEMMA StopsStep ==
  ASSUME Loop!LoopConstants, Loop!TypeOK, Begun, Stops, [Loop!Next]_loopVars
  PROVE  Stops'
<1>1. CASE Loop!LoopNext
  <2> USE DEF Stops, Loop!TailCancelled, Loop!EventsClosed, Loop!turnVars, Loop!tailVars, Loop!loopVars, Loop!StopTail, Loop!MarkStop
  <2>0. last' = last
    BY <1>1, LoopSteps
  <2>1. CASE Loop!TurnStarted \/ Loop!Look
    BY <2>0, <2>1 DEF Loop!TurnStarted, Loop!Look, Loop!Locate
  <2>2. CASE Loop!TailEvent \/ Loop!FinishEvent
    BY <2>0, <2>2 DEF Loop!TailEvent, Loop!FinishEvent
  <2>3. CASE Loop!Delta \/ Loop!TailLost \/ Loop!AwaitResult \/ Loop!TurnCancelled
    BY <2>0, <2>3 DEF Loop!Delta, Loop!TailLost, Loop!AwaitResult, Loop!TurnCancelled
  <2>4. CASE Loop!TurnResult
    BY <2>0, <2>4 DEF Loop!TurnResult, Loop!Locate
  <2>5. CASE Loop!FinishTailLost \/ Loop!FinishWaited
    BY <2>0, <2>5 DEF Loop!FinishTailLost, Loop!FinishWaited
  <2>6. CASE Loop!DrainEvent
    BY <2>0, <2>6 DEF Loop!DrainEvent, Loop!Draining, Loop!Forced
  <2>7. CASE Loop!DrainTimeout
    BY <2>0, <2>7 DEF Loop!DrainTimeout, Loop!Draining, Loop!Forced
  <2>8. CASE Loop!ForceEvent \/ Loop!DrainDone
    BY <2>0, <2>8 DEF Loop!ForceEvent, Loop!DrainDone, Loop!Draining, Loop!Forcing
  <2> QED
    BY <1>1, <2>1, <2>2, <2>3, <2>4, <2>5, <2>6, <2>7, <2>8 DEF Loop!LoopNext
<1>2. CASE Loop!TailNext
  <2>1. UNCHANGED <<loop, stopped, idle>> /\ tail # "done"
    BY <1>2, TailSteps DEF Loop!loopVars
  <2>2. last' = last \/ Loop!TailCancelled
    BY <1>2
       DEF Loop!TailNext, Loop!TailOpen, Loop!TailRead, Loop!TailForward, Loop!TailEOF,
         Loop!TailWake, Loop!TailFault
  <2> QED
    BY <2>1, <2>2 DEF Stops, Loop!TailCancelled, Loop!EventsClosed
<1>3. CASE Loop!Environment \/ UNCHANGED loopVars
  BY <1>3, OtherSteps
     DEF Stops, Loop!TailCancelled, Loop!EventsClosed, Loop!loopVars, Loop!tailVars
<1> QED
  BY <1>1, <1>2, <1>3 DEF Loop!Next

\* Before the loop stops a tailer that did not fail, no turn.ended is on its way.
LEMMA Quiet ==
  ASSUME Loop!LoopConstants, Loop!TypeOK, Ends, ~faulted, ~stopped, loop # "closed"
  PROVE  ~Tells(Stream, "ended") /\ ~Tells(out, "ended") /\ tail # "done"
<1>1. tail # "done"
  BY DEF Ends, Loop!TailCancelled
<1>2. ~Tells(Stream, "ended")
  BY <1>1 DEF Ends, Tells
<1> QED
  BY <1>1, <1>2, TellsConcat DEF Stream, Loop!TypeOK

\* The exit the loop owes, said after what is no exit, is the last word.
LEMMA OwedLast ==
  ASSUME Loop!LoopConstants, out \in Seq(Loop!Event), ~Tells(out, "ended"), NEW c \in Signals,
         out' = out \o c \o Loop!OwedExit
  PROVE  \A i \in DOMAIN out' : out'[i].type = "ended" => i = Len(out')
<1> DEFINE a == out \o c
<1>1. c \in Seq(Loop!Event) /\ a \in Seq(Loop!Event)
  BY DEF Signals
<1>2. ~Tells(a, "ended")
  BY <1>1, TellsConcat DEF Signals
<1> HIDE DEF a
<1>3. out' = a \o Loop!OwedExit
  BY DEF a
<1>4. CASE exited
  <2>1. out' = a
    BY <1>1, <1>3, <1>4, OwedType
  <2> QED
    BY <1>2, <2>1 DEF Tells
<1>5. CASE ~exited
  <2>1. out' = a \o <<Loop!Ctl("ended")>> /\ Loop!Ctl("ended") \in Loop!Event
    BY <1>3, <1>5, OwedType, EventTypes DEF Types
  <2>2. /\ Len(a) \in Nat /\ DOMAIN a = 1 .. Len(a) /\ Len(out') = Len(a) + 1
        /\ DOMAIN out' = 1 .. Len(a) + 1 /\ \A i \in 1 .. Len(a) : out'[i] = a[i]
    BY <1>1, <2>1
  <2>3. ASSUME NEW i \in DOMAIN out', out'[i].type = "ended" PROVE i = Len(out')
    <3>1. ~(i \in 1 .. Len(a))
      BY <1>2, <2>2, <2>3 DEF Tells
    <3> QED
      BY <2>2, <3>1
  <2> QED
    BY <2>3
<1> QED
  BY <1>4, <1>5

\* What a step of the loop does to its flags.
LEMMA LoopFlags ==
  ASSUME Loop!LoopConstants, Loop!TypeOK, Stops, Loop!LoopNext
  PROVE  /\ loop # "closed" /\ (stopped => stopped')
         /\ Moves => /\ loop' # "closed"
                     /\ stopped => exited' = (exited \/ Head(events).type = "ended")
         /\ stopped => \/ Moves
                       \/ /\ Loop!EventsClosed /\ loop' = "closed" /\ events' = events
                          /\ out' = out \o Loop!OwedExit \/ out' = out
<1>1. CASE stopped
  <2>1. loop \in {"force", "finishForce"}
    BY <1>1
       DEF Stops, Loop!LoopNext, Loop!TurnStarted, Loop!Look, Loop!Delta, Loop!TailEvent,
         Loop!TailLost, Loop!AwaitResult, Loop!TurnResult, Loop!TurnCancelled,
         Loop!FinishEvent, Loop!FinishTailLost, Loop!FinishWaited, Loop!DrainEvent,
         Loop!DrainTimeout, Loop!ForceEvent, Loop!DrainDone, Loop!Draining, Loop!Forcing
  <2>2. Loop!ForceEvent \/ Loop!DrainDone
    BY <2>1
       DEF Loop!LoopNext, Loop!TurnStarted, Loop!Look, Loop!Delta, Loop!TailEvent,
         Loop!TailLost, Loop!AwaitResult, Loop!TurnResult, Loop!TurnCancelled,
         Loop!FinishEvent, Loop!FinishTailLost, Loop!FinishWaited, Loop!DrainEvent,
         Loop!DrainTimeout, Loop!Draining
  <2> QED
    BY <1>1, <2>1, <2>2
       DEF Loop!ForceEvent, Loop!DrainDone, Moves, Loop!EventsClosed, Loop!turnVars,
         Loop!tailVars
<1>2. CASE ~stopped
  <2>1. loop # "closed"
    BY
       DEF Loop!LoopNext, Loop!TurnStarted, Loop!Look, Loop!Delta, Loop!TailEvent,
         Loop!TailLost, Loop!AwaitResult, Loop!TurnResult, Loop!TurnCancelled,
         Loop!FinishEvent, Loop!FinishTailLost, Loop!FinishWaited, Loop!DrainEvent,
         Loop!DrainTimeout, Loop!ForceEvent, Loop!DrainDone, Loop!Draining, Loop!Forcing
  <2>2. ASSUME Moves PROVE loop' # "closed"
    <3>1. events' # events
      <4>1. events \in Seq(Loop!Event) /\ events # <<>> /\ events' = Tail(events)
        BY <2>2 DEF Moves, Loop!TypeOK
      <4> QED
        BY <4>1
    <3>2. Loop!TailEvent \/ Loop!FinishEvent \/ Loop!DrainEvent \/ Loop!ForceEvent
      BY <3>1
         DEF Loop!LoopNext, Loop!TurnStarted, Loop!Look, Loop!Locate, Loop!Delta,
           Loop!TailLost, Loop!AwaitResult, Loop!TurnResult, Loop!TurnCancelled,
           Loop!FinishTailLost, Loop!FinishWaited, Loop!DrainTimeout, Loop!DrainDone,
           Loop!StopTail, Loop!tailVars
    <3> QED
      BY <2>1, <3>2
         DEF Loop!TailEvent, Loop!FinishEvent, Loop!DrainEvent, Loop!ForceEvent,
           Loop!Forced, Loop!turnVars
  <2> QED
    BY <1>2, <2>1, <2>2
<1> QED
  BY <1>1, <1>2

LEMMA EndsStep ==
  ASSUME Loop!LoopConstants, Loop!TypeOK, Begun, Stops, Ends, [Loop!Next]_loopVars
  PROVE  Ends'
<1>0. out \in Seq(Loop!Event) /\ events \in Seq(Loop!Event) /\ Stream \in Seq(Loop!Event)
  BY DEF Loop!TypeOK, Stream
<1>1. CASE Loop!LoopNext
  <2> SUFFICES ASSUME ~faulted' PROVE Ends'
    BY DEF Ends
  <2>0. /\ ~faulted /\ loop # "closed" /\ (stopped => stopped')
        /\ tail' = tail \/ (tail = "off" /\ tail' = "open")
    BY <1>1, LoopSteps, LoopFlags
  <2>1. tail' = "done" => Loop!TailCancelled'
    BY <2>0 DEF Ends, Loop!TailCancelled
  <2>2. CASE Moves
    <3>1. Stream' = Stream /\ loop' # "closed"
      BY <1>0, <1>1, <2>2, MoveKeeps, LoopFlags DEF Moves, Stream
    <3>2. \A i \in DOMAIN Stream' : Stream'[i].type = "ended" => i = Len(Stream') /\ tail' = "done"
      BY <2>0, <3>1 DEF Ends
    <3>3. Tells(out', "ended") => exited'
      <4>1. /\ Head(events) \in Loop!Event /\ Tail(events) \in Seq(Loop!Event)
            /\ out' = out \o <<Head(events)>>
        BY <1>0, <2>2, HeadTailProperties DEF Moves
      <4>2. Tells(out', "ended") <=> Tells(out, "ended") \/ Head(events).type = "ended"
        <5>1. Tells(<<Head(events)>>, "ended") <=> Head(events).type = "ended"
          BY DEF Tells
        <5>2. <<Head(events)>> \in Seq(Loop!Event)
          BY <4>1
        <5> QED
          BY <1>0, <4>1, <5>1, <5>2, TellsConcat
      <4>3. CASE stopped
        BY <1>1, <2>0, <2>2, <4>2, <4>3, LoopFlags DEF Ends
      <4>4. CASE ~stopped
        <5>1. ~Tells(Stream, "ended") /\ ~Tells(out, "ended")
          BY <2>0, <4>4, Quiet
        <5>2. Head(events).type # "ended"
          <6>1. ~Tells(events, "ended")
            BY <1>0, <5>1, TellsConcat DEF Stream
          <6>2. 1 \in DOMAIN events /\ Head(events) = events[1]
            BY <1>0, <2>2 DEF Moves
          <6> QED
            BY <6>1, <6>2 DEF Tells
        <5> QED
          BY <4>2, <5>1, <5>2
      <4> QED
        BY <4>3, <4>4
    <3> QED
      BY <2>1, <3>1, <3>2, <3>3 DEF Ends
  <2>3. CASE stopped /\ ~Moves
    <3>1. /\ events = <<>> /\ loop' = "closed" /\ tail = "done"
          /\ out' = out \o Loop!OwedExit \/ out' = out
      BY <1>1, <2>3, LoopFlags DEF Loop!EventsClosed
    <3>2. Stream = out
      BY <1>0, <3>1 DEF Stream
    <3>3. \A i \in DOMAIN out' : out'[i].type = "ended" => i = Len(out')
      <4>1. CASE out' = out
        BY <2>0, <3>2, <4>1 DEF Ends
      <4>2. CASE out' = out \o Loop!OwedExit /\ exited
        BY <1>0, <4>1, <4>2, OwedType
      <4>3. CASE out' = out \o Loop!OwedExit /\ ~exited
        <5>1. ~Tells(out, "ended")
          BY <2>0, <4>3 DEF Ends
        <5>2. <<>> \in Signals /\ out' = out \o <<>> \o Loop!OwedExit
          BY <1>0, <4>3, SignalTypes
        <5> QED
          BY <1>0, <5>1, <5>2, OwedLast
      <4> QED
        BY <3>1, <4>1, <4>2, <4>3
    <3> QED
      BY <2>1, <3>1, <3>3 DEF Ends
  <2>4. CASE ~stopped /\ ~Moves
    <3>0. ~Tells(Stream, "ended") /\ ~Tells(out, "ended") /\ ~Tells(events, "ended")
      BY <1>0, <2>0, <2>4, Quiet, TellsConcat DEF Stream
    <3>1. ASSUME NEW c \in Seq(Loop!Event), ~Tells(c, "ended"), events' = events, out' = out \o c
          PROVE  ~Tells(out', "ended") /\ ~Tells(Stream', "ended")
      <4>1. ~Tells(out', "ended") /\ out' \in Seq(Loop!Event)
        BY <1>0, <3>0, <3>1, TellsConcat
      <4>2. Stream' = out' \o events
        BY <3>1 DEF Stream
      <4>3. ~Tells(out' \o events, "ended")
        BY <1>0, <3>0, <4>1, TellsConcat
      <4> QED
        BY <4>1, <4>2, <4>3
    <3>2. CASE ~Tells(out', "ended") /\ ~Tells(Stream', "ended")
      BY <2>1, <3>2 DEF Ends, Tells
    <3>3. CASE events' = events /\ \E c \in Signals : out' = out \o c
      BY <3>1, <3>2, <3>3 DEF Signals
    <3>4. CASE events' = events /\ loop = "start" /\ out' = <<Loop!Ctl("started")>>
      <4>1. Loop!Ctl("started") \in Loop!Event /\ Loop!Ctl("started").type = "started"
        BY EventTypes DEF Types
      <4>2. <<Loop!Ctl("started")>> \in Seq(Loop!Event) /\ ~Tells(<<Loop!Ctl("started")>>, "ended") /\ out = <<>>
        BY <3>4, <4>1 DEF Tells, Begun
      <4>3. out' = out \o <<Loop!Ctl("started")>>
        BY <3>4, <4>1, <4>2
      <4> QED
        BY <3>1, <3>2, <3>4, <4>2, <4>3
    <3>5. CASE /\ events' = events /\ loop \notin {"start", "closed"} /\ loop' = "closed"
               /\ \E c \in Signals : out' = out \o c \o Loop!OwedExit
      BY <1>0, <2>1, <3>0, <3>5, OwedLast DEF Ends
    <3> QED
      BY <1>1, <2>4, <3>3, <3>4, <3>5, LoopSteps
  <2> QED
    BY <2>2, <2>3, <2>4
<1>2. CASE Loop!TailNext
  <2> SUFFICES ASSUME ~faulted' PROVE Ends'
    BY DEF Ends
  <2>0. /\ ~faulted /\ UNCHANGED <<loop, exited, out, stopped>> /\ tail # "done"
    <3>1. faulted => faulted'
      BY <1>2
         DEF Loop!TailNext, Loop!TailOpen, Loop!TailRead, Loop!TailForward, Loop!TailEOF,
           Loop!TailWake, Loop!TailFault
    <3> QED
      BY <1>2, <3>1, TailSteps DEF Loop!loopVars
  <2>1. CASE loop = "closed"
    BY <2>0, <2>1 DEF Ends, Loop!TailCancelled
  <2>2. CASE loop # "closed"
    <3>0. ~Tells(Stream, "ended")
      BY <2>0, <2>2 DEF Ends, Tells
    <3>1. Tells(out', "ended") => exited'
      BY <2>0, <2>2 DEF Ends
    <3>2. CASE tail' # "done"
      <4>1. \E c \in Seq(Loop!Event) : events' = events \o c /\ ~Tells(c, "ended")
        <5>1. Loop!Rec(rd) \in Loop!Event /\ Loop!Rec(rd).type = "record"
          BY EventTypes DEF Loop!TypeOK, Loop!LoopConstants, Loop!Rec
        <5>2. <<Loop!Rec(rd)>> \in Seq(Loop!Event) /\ ~Tells(<<Loop!Rec(rd)>>, "ended")
          BY <5>1 DEF Tells
        <5>3. <<>> \in Seq(Loop!Event) /\ ~Tells(<<>>, "ended") /\ events \o <<>> = events
          BY <1>0 DEF Tells
        <5> QED
          BY <1>2, <3>2, <5>2, <5>3, TailSteps
      <4>2. ~Tells(Stream', "ended")
        <5>1. PICK c \in Seq(Loop!Event) : events' = events \o c /\ ~Tells(c, "ended")
          BY <4>1
        <5>2. (out \o events) \o c = out \o (events \o c)
          BY <1>0
        <5>3. Stream' = Stream \o c
          BY <2>0, <5>1, <5>2 DEF Stream
        <5> QED
          BY <1>0, <3>0, <5>1, <5>3, TellsConcat
      <4> QED
        BY <2>0, <2>2, <3>1, <3>2, <4>2 DEF Ends, Tells
    <3>3. CASE tail' = "done"
      <4>1. Loop!TailCancelled /\ events' = events \o <<Loop!Ctl("ended")>>
        BY <1>2, <2>0, <3>3
           DEF Loop!TailNext, Loop!TailOpen, Loop!TailRead, Loop!TailForward, Loop!TailEOF,
             Loop!TailWake, Loop!TailFault, Loop!TailSend, Stops
      <4>2. Loop!Ctl("ended") \in Loop!Event
        BY EventTypes DEF Types
      <4>3. Stream' = Stream \o <<Loop!Ctl("ended")>>
        <5>1. <<Loop!Ctl("ended")>> \in Seq(Loop!Event)
          BY <4>2
        <5> QED
          BY <1>0, <2>0, <4>1, <5>1, ConcatAssociative DEF Stream
      <4>4. \A i \in DOMAIN Stream' : Stream'[i].type = "ended" => i = Len(Stream')
        <5>1. /\ Len(Stream) \in Nat /\ DOMAIN Stream = 1 .. Len(Stream)
              /\ Len(Stream') = Len(Stream) + 1 /\ DOMAIN Stream' = 1 .. Len(Stream) + 1
              /\ \A i \in 1 .. Len(Stream) : Stream'[i] = Stream[i]
          BY <1>0, <4>2, <4>3
        <5> QED
          BY <3>0, <5>1 DEF Tells
      <4> QED
        BY <2>0, <2>2, <3>1, <3>3, <4>1, <4>4 DEF Ends, Loop!TailCancelled
    <3> QED
      BY <3>2, <3>3
  <2> QED
    BY <2>1, <2>2
<1>3. CASE Loop!Environment \/ UNCHANGED loopVars
  BY <1>3, OtherSteps DEF Ends, Stream, Loop!TailCancelled, Loop!loopVars, Loop!tailVars
<1> QED
  BY <1>1, <1>2, <1>3 DEF Loop!Next

\* What was said on the stream stays said.
LEMMA LoopSaid ==
  ASSUME Loop!LoopConstants, Loop!TypeOK, Loop!LoopNext, loop # "start" \/ out = <<>>, NEW type
  PROVE  Tells(out, type) => Tells(out', type)
<1>0. out \in Seq(Loop!Event) /\ events \in Seq(Loop!Event)
  BY DEF Loop!TypeOK
<1>1. CASE Moves
  <2>1. Head(events) \in Loop!Event
    BY <1>0, <1>1, HeadTailProperties DEF Moves
  <2>2. <<Head(events)>> \in Seq(Loop!Event) /\ out' = out \o <<Head(events)>>
    BY <1>0, <1>1, <2>1 DEF Moves
  <2> QED
    BY <1>0, <2>2, TellsConcat
<1>2. CASE \E c \in Signals : out' = out \o c
  BY <1>0, <1>2, TellsConcat DEF Signals
<1>3. CASE loop = "start"
  BY <1>3 DEF Tells
<1>4. CASE \E c \in Signals : out' = out \o c \o Loop!OwedExit
  <2>1. PICK c \in Signals : out' = (out \o c) \o Loop!OwedExit
    BY <1>4
  <2>2. c \in Seq(Loop!Event) /\ out \o c \in Seq(Loop!Event) /\ Loop!OwedExit \in Seq(Loop!Event)
    BY <1>0, OwedType DEF Signals
  <2> QED
    BY <1>0, <2>1, <2>2, TellsConcat
<1> QED
  BY <1>1, <1>2, <1>3, <1>4, LoopSteps

LEMMA SaysStep ==
  ASSUME Loop!LoopConstants, Loop!TypeOK, Begun, Stops, Says, [Loop!Next]_loopVars
  PROVE  Says'
<1>0. out \in Seq(Loop!Event) /\ events \in Seq(Loop!Event) /\ Stream \in Seq(Loop!Event)
  BY DEF Loop!TypeOK, Stream
<1>1. CASE Loop!LoopNext
  <2>1. tail' = "done" => loop' = "closed" \/ Tells(Stream', "ended") \/ Tells(Stream', "failed")
    <3>1. tail' = "done" => tail = "done" /\ loop # "closed"
      BY <1>1, LoopSteps, LoopFlags
    <3>2. \A type : Tells(Stream, type) => Tells(Stream', type)
      BY <1>1, LoopKeeps
    <3> QED
      BY <3>1, <3>2 DEF Says
  <2>2. exited' => Tells(out', "ended")
    <3>1. exited /\ exited' => Tells(out', "ended")
      BY <1>1, LoopSaid DEF Says, Begun
    <3>2. ASSUME events # <<>>, out' = Append(out, Head(events)), Head(events).type = "ended"
          PROVE  Tells(out', "ended")
      <4>1. Head(events) \in Loop!Event
        BY <1>0, <3>2, HeadTailProperties
      <4>2. <<Head(events)>> \in Seq(Loop!Event) /\ Tells(<<Head(events)>>, "ended")
        BY <3>2, <4>1 DEF Tells
      <4>3. out' = out \o <<Head(events)>>
        BY <1>0, <3>2, <4>1, AppendIsConcat
      <4> QED
        BY <1>0, <4>2, <4>3, TellsConcat
    <3>3. \/ exited' => exited
          \/ events # <<>> /\ out' = Append(out, Head(events)) /\ (exited' => exited \/ Head(events).type = "ended")
      <4>1. CASE Loop!TailEvent
        BY <4>1 DEF Loop!TailEvent
      <4>2. CASE Loop!FinishEvent
        BY <4>2 DEF Loop!FinishEvent
      <4>3. CASE Loop!DrainEvent
        BY <4>3 DEF Loop!DrainEvent
      <4>4. CASE Loop!ForceEvent
        BY <4>4 DEF Loop!ForceEvent
      <4>5. CASE ~(Loop!TailEvent \/ Loop!FinishEvent \/ Loop!DrainEvent \/ Loop!ForceEvent)
        BY <1>1, <4>5
           DEF Loop!LoopNext, Loop!TurnStarted, Loop!Look, Loop!Delta, Loop!TailLost,
             Loop!AwaitResult, Loop!TurnResult, Loop!TurnCancelled, Loop!FinishTailLost,
             Loop!FinishWaited, Loop!DrainTimeout, Loop!DrainDone, Loop!loopVars
      <4> QED
        BY <4>1, <4>2, <4>3, <4>4, <4>5
    <3> QED
      BY <3>1, <3>2, <3>3
  <2> QED
    BY <2>1, <2>2 DEF Says
<1>2. CASE Loop!TailNext
  <2>1. UNCHANGED <<loop, exited, out>> /\ tail # "done"
    BY <1>2, TailSteps DEF Loop!loopVars
  <2>2. tail' = "done" => Tells(Stream', "ended") \/ Tells(Stream', "failed")
    <3> SUFFICES ASSUME tail' = "done"
                 PROVE  Tells(Stream', "ended") \/ Tells(Stream', "failed")
      OBVIOUS
    <3>1. PICK c \in LastWords : events' = events \o c
      BY <1>2, TailSteps DEF LastWords
    <3>2. c \in Seq(Loop!Event) /\ (Tells(c, "failed") \/ Tells(c, "ended"))
      BY LastWordsTypes
    <3>3. Stream' = Stream \o c
      <4>1. out \in Seq(Loop!Event) /\ events \in Seq(Loop!Event) /\ c \in Seq(Loop!Event)
        BY <1>0, <3>2
      <4> HIDE DEF Loop!TypeOK
      <4>2. (out \o events) \o c = out \o (events \o c)
        BY <4>1
      <4> QED
        BY <2>1, <3>1, <4>2 DEF Stream
    <3> QED
      BY <1>0, <3>2, <3>3, TellsConcat
  <2> QED
    BY <2>1, <2>2 DEF Says
<1>3. CASE Loop!Environment \/ UNCHANGED loopVars
  BY <1>3, OtherSteps DEF Says, Stream, Loop!loopVars, Loop!tailVars
<1> QED
  BY <1>1, <1>2, <1>3 DEF Loop!Next

\* Has is Tells of what was sent.
LEMMA CutShortStep ==
  ASSUME Loop!LoopConstants, Loop!TypeOK, Begun, Stops, Says, Loop!ExitUnlessCutShort, [Loop!Next]_loopVars
  PROVE  Loop!ExitUnlessCutShort'
<1>0. out \in Seq(Loop!Event) /\ events \in Seq(Loop!Event) /\ out \o <<>> = out
  BY DEF Loop!TypeOK
<1>1. CASE Loop!LoopNext
  <2> SUFFICES ASSUME loop' = "closed"
               PROVE  Tells(out', "ended") \/ Tells(out', "failed") \/ out' = <<>>
    BY DEF Loop!ExitUnlessCutShort, Loop!Has, Tells
  <2>0. loop # "closed"
    BY <1>1, LoopFlags
  <2>1. CASE loop = "start"
    BY <1>1, <2>1
       DEF Begun, Loop!LoopNext, Loop!TurnStarted, Loop!Look, Loop!Delta, Loop!TailEvent,
         Loop!TailLost, Loop!AwaitResult, Loop!TurnResult, Loop!TurnCancelled,
         Loop!FinishEvent, Loop!FinishTailLost, Loop!FinishWaited, Loop!DrainEvent,
         Loop!DrainTimeout, Loop!ForceEvent, Loop!DrainDone, Loop!Draining, Loop!Forcing
  <2>2. ASSUME Loop!EventsClosed PROVE Tells(out', "ended") \/ Tells(out', "failed")
    <3>1. Tells(out, "ended") \/ Tells(out, "failed")
      <4>1. Stream = out
        BY <1>0, <2>2 DEF Loop!EventsClosed, Stream
      <4> QED
        BY <2>0, <2>2, <4>1 DEF Says, Loop!EventsClosed
    <3> QED
      BY <1>1, <3>1, LoopSaid DEF Begun
  <2>3. ASSUME NEW a \in Seq(Loop!Event), out' = a \o Loop!OwedExit, exited => Tells(out', "ended")
        PROVE  Tells(out', "ended")
    <3>1. CASE ~exited
      <4>1. Loop!OwedExit = <<Loop!Ctl("ended")>> /\ Loop!OwedExit \in Seq(Loop!Event) /\ Loop!Ctl("ended").type = "ended"
        BY <3>1, OwedType, EventTypes DEF Types
      <4>2. Tells(Loop!OwedExit, "ended")
        BY <4>1 DEF Tells
      <4> QED
        BY <2>3, <4>1, <4>2, TellsConcat
    <3> QED
      BY <2>3, <3>1
  <2>4. exited => Tells(out', "ended")
    BY <1>1, LoopSaid DEF Says, Begun
  <2>5. CASE Loop!AwaitResult
    BY <2>2, <2>5 DEF Loop!AwaitResult, Stops
  <2>6. CASE Loop!TurnResult
    <3>1. out' = (out \o Loop!ResultEvents(result)) \o <<Loop!Ctl("failed")>>
      BY <2>6 DEF Loop!TurnResult
    <3>2. /\ Loop!ResultEvents(result) \in Seq(Loop!Event) /\ out \o Loop!ResultEvents(result) \in Seq(Loop!Event)
          /\ <<Loop!Ctl("failed")>> \in Seq(Loop!Event)
      BY <1>0, SignalTypes DEF Signals
    <3>3. Tells(<<Loop!Ctl("failed")>>, "failed")
      BY EventTypes DEF Types, Tells
    <3> QED
      BY <3>1, <3>2, <3>3, TellsConcat
  <2>7. CASE Loop!FinishTailLost
    BY <2>2, <2>7 DEF Loop!FinishTailLost
  <2>8. CASE Loop!FinishWaited
    <3>1. PICK sent \in {<<>>, Loop!ResultEvents(result)} : out' = out \o sent \o Loop!OwedExit
      BY <2>8 DEF Loop!FinishWaited
    <3>2. sent \in Seq(Loop!Event)
      BY SignalTypes DEF Signals
    <3>3. out \o sent \in Seq(Loop!Event)
      BY <1>0, <3>2
    <3> QED
      BY <2>3, <2>4, <3>1, <3>3
  <2>9. CASE Loop!DrainDone
    BY <2>2, <2>9 DEF Loop!DrainDone
  <2>10. Loop!AwaitResult \/ Loop!TurnResult \/ Loop!FinishTailLost \/ Loop!FinishWaited \/ Loop!DrainDone \/ loop = "start"
    BY <1>1, <2>0
       DEF Loop!LoopNext, Loop!TurnStarted, Loop!Look, Loop!Delta, Loop!TailEvent,
         Loop!TailLost, Loop!TurnCancelled, Loop!FinishEvent, Loop!DrainEvent,
         Loop!DrainTimeout, Loop!ForceEvent, Loop!Forced, Loop!loopVars, Loop!turnVars
  <2> QED
    BY <2>1, <2>5, <2>6, <2>7, <2>8, <2>9, <2>10
<1>2. CASE Loop!TailNext
  BY <1>2, TailSteps DEF Loop!ExitUnlessCutShort, Loop!Has, Loop!loopVars
<1>3. CASE Loop!Environment \/ UNCHANGED loopVars
  BY <1>3, OtherSteps DEF Loop!ExitUnlessCutShort, Loop!Has, Loop!loopVars
<1> QED
  BY <1>1, <1>2, <1>3 DEF Loop!Next

LEMMA IdlesStep ==
  ASSUME Loop!LoopConstants, Loop!TypeOK, Ordered, Begun, Stops, Idles, [Loop!Next]_loopVars
  PROVE  Idles'
<1>0. /\ out \in Seq(Loop!Event) /\ events \in Seq(Loop!Event) /\ Stream \in Seq(Loop!Event)
      /\ onDisk \in 0 .. Len(log) /\ Len(log) \in Nat
  BY DEF Loop!TypeOK, Stream
<1>1. CASE Loop!LoopNext
  <2>1. /\ UNCHANGED <<hand, faulted>>
        /\ tail' = tail \/ tail' = "open"
        /\ Loop!Full(Stream, onDisk) => Loop!Full(Stream', onDisk)
    BY <1>1, LoopSteps, LoopKeeps
  <2>2. UNCHANGED <<idle, onDisk>> \/ (Loop!MarkStop /\ tail' = tail)
    BY <1>1
       DEF Loop!LoopNext, Loop!TurnStarted, Loop!Look, Loop!Locate, Loop!Delta,
         Loop!TailEvent, Loop!TailLost, Loop!AwaitResult, Loop!TurnResult,
         Loop!TurnCancelled, Loop!FinishEvent, Loop!FinishTailLost, Loop!FinishWaited,
         Loop!DrainEvent, Loop!DrainTimeout, Loop!ForceEvent, Loop!DrainDone, Loop!StopTail,
         Loop!tailVars
  <2>3. CASE UNCHANGED <<idle, onDisk>>
    BY <2>1, <2>3 DEF Idles
  <2>4. CASE Loop!MarkStop /\ tail' = tail
    BY <2>4 DEF Loop!MarkStop, Idles
  <2> QED
    BY <2>2, <2>3, <2>4
<1>2. CASE Loop!TailNext
  <2> SUFFICES ASSUME idle', ~faulted'
               PROVE  (tail' = "send" => ~hand') /\ (tail' = "done" => Loop!Full(Stream', onDisk))
    <3>1. onDisk' = onDisk
      BY <1>2, TailSteps
    <3> QED
      BY <3>1 DEF Idles
  <2>0. UNCHANGED <<idle, stopped, out, onDisk>> /\ idle /\ stopped /\ Loop!TailCancelled
    BY <1>2, TailSteps DEF Stops, Loop!TailCancelled, Loop!loopVars
  <2>1. ~faulted
    BY <1>2
       DEF Loop!TailNext, Loop!TailOpen, Loop!TailRead, Loop!TailForward, Loop!TailEOF,
         Loop!TailWake, Loop!TailFault
  <2>2. tail' = "send" => ~hand'
    BY <1>2, <2>0
       DEF Loop!TailNext, Loop!TailOpen, Loop!TailRead, Loop!TailForward, Loop!TailEOF,
         Loop!TailWake, Loop!TailFault
  <2>3. ASSUME tail' = "done" PROVE Loop!Full(Stream', onDisk)
    <3>1. tail = "read" /\ rd = Len(log) /\ events' = events \o <<Loop!Ctl("ended")>>
      BY <1>2, <2>0, <2>1, <2>3
         DEF Idles, Loop!TailNext, Loop!TailOpen, Loop!TailRead, Loop!TailForward,
           Loop!TailEOF, Loop!TailWake, Loop!TailFault, Loop!TailSend
    <3>2. Loop!Full(Stream, Len(log))
      BY <3>1 DEF Ordered
    <3>3. Loop!Full(Stream, onDisk)
      <4>1. 1 .. onDisk \subseteq 1 .. Len(log)
        BY <1>0
      <4> QED
        BY <3>2, <4>1 DEF Loop!Full
    <3>4. /\ <<Loop!Ctl("ended")>> \in Seq(Loop!Event) /\ ~Tells(<<Loop!Ctl("ended")>>, "record")
      BY EventTypes DEF Types, Tells
    <3> QED
      BY <2>0, <3>1, <3>3, <3>4, TailKeeps
  <2> QED
    BY <2>2, <2>3
<1>3. CASE Loop!Environment \/ UNCHANGED loopVars
  BY <1>3, OtherSteps DEF Idles, Stream, Loop!loopVars, Loop!tailVars
<1> QED
  BY <1>1, <1>2, <1>3 DEF Loop!Next

LEMMA LoopInit == ASSUME Loop!LoopConstants, Loop!Init PROVE LoopIInv
<1>1. Stream = <<>>
  BY DEF Loop!Init, Stream
<1>2. Ordered
  BY <1>1 DEF Loop!Init, Ordered, Loop!Sorted, Loop!Within, Loop!Full, Loop!Records
<1>3. Loop!TypeOK
  <2>1. /\ log = <<>> /\ Len(log) = 0 /\ log \in Seq({"rec", "end"})
        /\ out \in Seq(Loop!Event) /\ events \in Seq(Loop!Event)
    BY DEF Loop!Init
  <2>2. Len(log) <= MaxLines /\ rd \in 0 .. Len(log) /\ onDisk \in 0 .. Len(log)
    BY <2>1 DEF Loop!Init, Loop!LoopConstants
  <2>3. /\ exists \in BOOLEAN /\ result \in Loop!ResultKinds \union {"none", "taken"}
        /\ deltas \in 0 .. MaxDeltas /\ cancelled \in BOOLEAN /\ loop \in Loop!LoopStates
        /\ seen \in BOOLEAN /\ exited \in BOOLEAN /\ tail \in Loop!TailStates /\ hand \in BOOLEAN
        /\ last \in BOOLEAN /\ stopped \in BOOLEAN /\ idle \in BOOLEAN /\ faulted \in BOOLEAN
    BY DEF Loop!Init, Loop!LoopStates, Loop!TailStates
  <2> QED
    BY <2>1, <2>2, <2>3 DEF Loop!TypeOK
<1> QED
  BY <1>1, <1>2, <1>3
     DEF Loop!Init, LoopIInv, Begun, Stops, Ends, Says, Loop!ExitUnlessCutShort, Idles,
       Tells, Loop!EventsClosed

\* What the strengthening says of a stream alone.
LEMMA LoopConsequences ==
  ASSUME Loop!LoopConstants, LoopIInv
  PROVE  Loop!Forwarding /\ Loop!EndsOnce /\ Loop!IdleStopComplete
<1>0. /\ out \in Seq(Loop!Event) /\ events \in Seq(Loop!Event) /\ rd \in Nat
      /\ Loop!TypeOK /\ Ordered /\ Begun /\ Stops /\ Ends /\ Idles /\ Loop!ExitUnlessCutShort
  BY DEF LoopIInv, Loop!TypeOK
<1>1. Loop!ForwardedInOrder
  <2>1. CASE Loop!Within(Stream, rd) /\ Loop!Full(Stream, rd)
    BY <1>0, <2>1 DEF Ordered, Loop!ForwardedInOrder, Stream
  <2>2. CASE rd > 0 /\ Loop!Within(Stream, rd - 1) /\ Loop!Full(Stream, rd - 1)
    <3>1. rd - 1 \in 0 .. rd
      BY <1>0, <2>2
    <3> QED
      BY <1>0, <2>2, <3>1 DEF Ordered, Loop!ForwardedInOrder, Stream
  <2> QED
    BY <1>0, <2>1, <2>2 DEF Ordered
<1>2. Loop!ExitLast
  <2> SUFFICES ASSUME ~faulted, NEW i \in DOMAIN out, out[i].type = "ended"
               PROVE  i = Len(out)
    BY <1>0 DEF Loop!ExitLast, Begun
  <2>1. CASE loop = "closed"
    BY <1>0, <2>1 DEF Ends
  <2>2. CASE loop # "closed"
    <3>1. /\ Len(out) \in Nat /\ i \in 1 .. Len(out) /\ Len(events) \in Nat
          /\ i \in DOMAIN Stream /\ Stream[i] = out[i] /\ Len(Stream) = Len(out) + Len(events)
      BY <1>0 DEF Stream
    <3>2. i = Len(Stream)
      BY <1>0, <2>2, <3>1 DEF Ends
    <3> QED
      BY <3>1, <3>2
  <2> QED
    BY <2>1, <2>2
<1>3. Loop!IdleStopComplete
  <2> SUFFICES ASSUME loop = "closed", tail = "done", idle, ~faulted
               PROVE  Loop!Full(out, onDisk)
    BY DEF Loop!IdleStopComplete
  <2>1. events = <<>>
    BY <1>0 DEF Stops, Loop!EventsClosed
  <2>2. Stream = out
    BY <1>0, <2>1 DEF Stream
  <2> QED
    BY <1>0, <2>2 DEF Idles
<1> QED
  BY <1>0, <1>1, <1>2, <1>3 DEF Loop!Forwarding, Loop!EndsOnce

LEMMA LoopStep == ASSUME Loop!LoopConstants, LoopIInv, [Loop!Next]_loopVars PROVE LoopIInv'
BY LoopTypeStep, OrderedStep, BegunStep, StopsStep, EndsStep, SaysStep, CutShortStep,
   IdlesStep
   DEF LoopIInv

(***************************************************************************)
(* UsageLimit: the strengthening.  A timer pending is one a Stop reaches;  *)
(* the callbacks on their way to the lock, and the timers the record lost  *)
(* sight of, are not.  Few bounds those for the limit's own reset by the   *)
(* switches that came late, and Counted says that whatever will resume the *)
(* session has a resume left.                                              *)
(***************************************************************************)

\* A timer that will go off, or a callback that will have the lock.
Alive(f) == fire[f].pc \in {"armed", "run"}

Ticking == \E f \in Fires : Limits!Pending(f)

\* What will resume the session whatever becomes of the timer in place.
Loose == {f \in Limits!Due : ~Limits!Pending(f)}

\* Only the timer in place is for a reset still to come.
Past == \A f \in Fires : Alive(f) /\ ~Limits!Pending(f) => fire[f].at <= now

\* A timer set for a wait is set for the reset waited for.
Aimed == limit.resume => \A f \in Fires : Limits!Pending(f) => fire[f].at = limit.resetsAt

Few ==
  limit.held =>
    /\ Cardinality(Loose) <= late + 1
    /\ Ticking \/ ~Limits!Overtaken => Cardinality(Loose) <= late

Counted ==
  limit.held /\ limit.resume =>
    \/ limit.resumes + Cardinality(Limits!Due) <= MaxResumes
    \/ limit.resumes + Cardinality(Limits!Due) <= 1 + late

Core == Limits!WaitingHasTimer /\ Past /\ Aimed /\ Few /\ Counted

LimitsIInv == Limits!TypeOK /\ Core

(***************************************************************************)
(* The steps.                                                              *)
(***************************************************************************)
LimitRecords == [held : BOOLEAN, resetsAt : 0 .. MaxNow, resume : BOOLEAN, resumes : Nat,
           gaveUp : BOOLEAN, resuming : BOOLEAN, timer : Fires \union {NoTimer}]

Runs == [pc : {"off", "armed", "run", "goal", "send", "failed"}, at : 0 .. MaxNow]

TurnOK ==
  /\ turn \in [by : {NoTurn, "user", "resume"}, fresh : BOOLEAN]
  /\ queue \in Seq({"user", "resume"}) /\ Len(queue) <= MaxQueued

LimitOK == limit \in LimitRecords /\ (limit.held \/ limit = Limits!NoLimit)

Rest ==
  /\ now \in 0 .. MaxNow /\ always \in BOOLEAN /\ late \in 0 .. MaxLate
  /\ mine \subseteq Fires /\ known \in BOOLEAN /\ user \in {"idle", "send", "pause"}

LEMMA TypeParts == Limits!TypeOK <=> TurnOK /\ LimitOK /\ fire \in [Fires -> Runs] /\ Rest
BY DEF Limits!TypeOK, TurnOK, LimitOK, LimitRecords, Runs, Rest

LEMMA NoLimitType ==
  ASSUME Limits!LimitConstants
  PROVE  /\ Limits!NoLimit \in LimitRecords /\ ~Limits!NoLimit.held /\ ~Limits!NoLimit.resume
         /\ Limits!NoLimit.resumes = 0 /\ Limits!NoLimit.timer = NoTimer
         /\ Limits!Off \in Runs
BY DEF Limits!LimitConstants, Limits!NoLimit, LimitRecords, Limits!Off, Runs

\* What a Stop leaves of the timers (timer.Stop()).
LEMMA StoppedIs ==
  ASSUME Limits!LimitConstants, fire \in [Fires -> Runs]
  PROVE  /\ Limits!Stopped \in [Fires -> Runs]
         /\ \A f \in Fires : /\ Limits!Pending(f) => Limits!Stopped[f].pc = "off"
                             /\ ~Limits!Pending(f) => Limits!Stopped[f] = fire[f]
BY NoLimitType DEF Limits!Stopped, Limits!Off

\* armLocked: one timer is pending, the new one, and no other is touched but the
\* one it replaces.
LEMMA ArmIs ==
  ASSUME Limits!LimitConstants, fire \in [Fires -> Runs], NEW l \in LimitRecords, Limits!Arm(l)
  PROVE  /\ limit' = [l EXCEPT !.timer = limit'.timer] /\ limit' \in LimitRecords
         /\ limit'.timer \in Fires /\ fire' \in [Fires -> Runs]
         /\ fire'[limit'.timer] = [pc |-> "armed", at |-> l.resetsAt]
         /\ Limits!Pending(limit'.timer) \/ ~Alive(limit'.timer)
         /\ \A f \in Fires : Limits!Pending(f)' <=> f = limit'.timer
         /\ \A f \in Fires \ {limit'.timer} :
              \/ Limits!Pending(f) /\ ~Alive(f)'
              \/ ~Limits!Pending(f) /\ fire'[f] = fire[f]
<1> DEFINE f == CHOOSE g \in Limits!Slots : TRUE
<1>1. /\ f \in Fires /\ Limits!Stopped[f].pc = "off"
      /\ limit' = [l EXCEPT !.timer = f]
      /\ fire' = [Limits!Stopped EXCEPT ![f] = [pc |-> "armed", at |-> l.resetsAt]]
  BY DEF Limits!Arm, Limits!Slots
<1> HIDE DEF f
<1>2. limit'.timer = f /\ limit' \in LimitRecords
  BY <1>1 DEF LimitRecords
<1>3. [pc |-> "armed", at |-> l.resetsAt] \in Runs
  BY DEF LimitRecords, Runs
<1>4. /\ fire' \in [Fires -> Runs] /\ fire'[f] = [pc |-> "armed", at |-> l.resetsAt]
      /\ \A g \in Fires \ {f} : fire'[g] = Limits!Stopped[g]
  BY <1>1, <1>3, StoppedIs
<1>5. Limits!Pending(f) \/ ~Alive(f)
  BY <1>1, StoppedIs DEF Alive
<1>6. \A g \in Fires : Limits!Pending(g)' <=> g = f
  BY <1>1, <1>2, <1>4 DEF Limits!Pending
<1>7. \A g \in Fires \ {f} : \/ Limits!Pending(g) /\ ~Alive(g)'
                             \/ ~Limits!Pending(g) /\ fire'[g] = fire[g]
  BY <1>4, StoppedIs DEF Alive
<1> QED
  BY <1>1, <1>2, <1>4, <1>5, <1>6, <1>7

\* The queue stays within its bound, and a turn is somebody's (enqueueSend).
LEMMA AcceptType ==
  ASSUME Limits!LimitConstants, TurnOK, NEW by \in {"user", "resume"}, Limits!Accept(by)
  PROVE  TurnOK'
<1> USE DEF TurnOK
<1>1. CASE turn' = [by |-> by, fresh |-> TRUE] /\ UNCHANGED queue
  BY <1>1
<1>2. CASE Len(queue) < MaxQueued /\ queue' = Append(queue, by) /\ UNCHANGED turn
  <2>1. queue' \in Seq({"user", "resume"}) /\ Len(queue') = Len(queue) + 1
    BY <1>2
  <2> QED
    BY <1>2, <2>1 DEF Limits!LimitConstants
<1> QED
  BY <1>1, <1>2 DEF Limits!Accept

LEMMA NextTurnType ==
  ASSUME Limits!LimitConstants, TurnOK, Limits!NextTurn
  PROVE  TurnOK'
<1> USE DEF TurnOK
<1>1. CASE turn' = Limits!Idle /\ UNCHANGED queue
  BY <1>1 DEF Limits!Idle
<1>2. CASE /\ queue # <<>>
           /\ turn' = [by |-> Head(queue), fresh |-> TRUE] /\ queue' = Tail(queue)
  <2>1. /\ Head(queue) \in {"user", "resume"} /\ Tail(queue) \in Seq({"user", "resume"})
        /\ Len(Tail(queue)) = Len(queue) - 1 /\ Len(queue) \in Nat
    BY <1>2
  <2>2. turn' \in [by : {NoTurn, "user", "resume"}, fresh : BOOLEAN]
    BY <1>2, <2>1
  <2>3. queue' \in Seq({"user", "resume"}) /\ Len(queue') <= MaxQueued
    BY <1>2, <2>1 DEF Limits!LimitConstants
  <2> QED
    BY <2>2, <2>3
<1> QED
  BY <1>1, <1>2 DEF Limits!NextTurn

(***************************************************************************)
(* The steps, by what they do to the record and its timers.                *)
(***************************************************************************)

\* The limit and what is on its way to the lock stay as they are.
Keeps ==
  /\ now' >= now /\ UNCHANGED <<limit, late>>
  /\ \A f \in Fires : fire'[f] = fire[f] \/ (~Alive(f) /\ ~Alive(f)')

\* The record goes, its timer stopped (dropLimitLocked).
Drops ==
  /\ limit' = Limits!NoLimit /\ now' >= now
  /\ \A f \in Fires : /\ Alive(f)' => fire'[f] = fire[f] /\ ~Limits!Pending(f)
                      /\ fire[f].pc = "run" => fire'[f] = fire[f]

\* The user's switch and the calls that turn it off; a limit noted.
Disarms ==
  /\ limit.held /\ UNCHANGED <<now, late>>
  /\ \E l \in LimitRecords : l.resetsAt = limit.resetsAt /\ Limits!Disarm(l)

Arms ==
  /\ limit.held /\ ~limit.resume
  /\ Limits!Arm([limit EXCEPT !.resume = TRUE, !.resumes = 0, !.gaveUp = FALSE])
  /\ \/ Limits!Overtaken /\ late' = late + 1
     \/ ~Limits!Overtaken /\ late' = late
  /\ UNCHANGED now

Notes ==
  /\ late' = 0 /\ UNCHANGED now
  /\ \E l \in LimitRecords :
       l.held /\ l.resetsAt > now /\ l.timer = limit.timer /\ Limits!Renew(l)

Fired == \E f \in Fires : Limits!TimerFires(f)
Checks == \E f \in Fires : Limits!FireCheck(f)

\* Every step is one of these, and the variables keep their types.
LEMMA Steps ==
  ASSUME Limits!LimitConstants, Limits!TypeOK, [Limits!Next]_limitVars
  PROVE  /\ Limits!TypeOK'
         /\ Keeps \/ Drops \/ Disarms \/ Arms \/ Notes \/ Fired \/ Checks
<1>0. TurnOK /\ LimitOK /\ fire \in [Fires -> Runs] /\ Rest
  BY TypeParts
<1>1. ASSUME TurnOK', LimitOK', fire' \in [Fires -> Runs], Rest' PROVE Limits!TypeOK'
  BY <1>1 DEF Limits!TypeOK, TurnOK, LimitOK, LimitRecords, Runs, Rest
<1>2. ASSUME UNCHANGED Limits!turnVars PROVE TurnOK'
  BY <1>0, <1>2 DEF Limits!turnVars, TurnOK
<1>3. ASSUME limit' \in LimitRecords, limit'.held \/ limit' = Limits!NoLimit PROVE LimitOK'
  BY <1>3 DEF LimitOK, LimitRecords
<1>4. ASSUME UNCHANGED limit PROVE LimitOK'
  BY <1>0, <1>3, <1>4 DEF LimitOK
<1>5. ASSUME NEW done \in SUBSET Fires, \A f \in done : ~Alive(f), Limits!Drop(done), now' = now
      PROVE  Drops /\ LimitOK' /\ fire' \in [Fires -> Runs] /\ late' = 0 /\ mine' = {}
  <2>1. /\ limit' = Limits!NoLimit /\ late' = 0 /\ mine' = {}
        /\ fire' = [f \in Fires |-> IF f \in done THEN Limits!Off ELSE Limits!Stopped[f]]
    BY <1>5 DEF Limits!Drop
  <2>2. fire' \in [Fires -> Runs]
    BY <1>0, <2>1, StoppedIs, NoLimitType
  <2>3. \A f \in Fires : Alive(f)' => fire'[f] = fire[f] /\ ~Limits!Pending(f)
    <3> TAKE f \in Fires
    <3> HAVE Alive(f)'
    <3>1. f \notin done
      BY <2>1 DEF Alive, Limits!Off
    <3>2. fire'[f] = Limits!Stopped[f]
      BY <2>1, <3>1
    <3> QED
      BY <1>0, <3>2, StoppedIs DEF Alive
  <2>4. \A f \in Fires : fire[f].pc = "run" => fire'[f] = fire[f]
    <3> TAKE f \in Fires
    <3> HAVE fire[f].pc = "run"
    <3>1. f \notin done /\ ~Limits!Pending(f)
      BY <1>5 DEF Alive, Limits!Pending
    <3> QED
      BY <1>0, <2>1, <3>1, StoppedIs
  <2> QED
    BY <1>0, <1>3, <1>5, <2>1, <2>2, <2>3, <2>4, NoLimitType DEF Drops, Rest
<1>6. ASSUME NEW f \in Fires, NEW r \in Runs, fire' = [fire EXCEPT ![f] = r]
      PROVE  fire' \in [Fires -> Runs] /\ fire'[f] = r /\ \A g \in Fires \ {f} : fire'[g] = fire[g]
  BY <1>0, <1>6
<1>7. CASE Limits!Tick \/ Limits!SetContinueAtReset
  <2>1. Rest' /\ now' >= now
    <3>1. CASE Limits!Tick
      BY <1>0, <3>1 DEF Rest, Limits!Tick, Limits!LimitConstants, Limits!recordVars
    <3>2. CASE Limits!SetContinueAtReset
      <4>1. always' \in BOOLEAN /\ now' = now
        BY <1>0, <3>2 DEF Rest, Limits!SetContinueAtReset
      <4> QED
        BY <1>0, <3>2, <4>1 DEF Rest, Limits!SetContinueAtReset, Limits!recordVars
    <3> QED
      BY <1>7, <3>1, <3>2
  <2> QED
    BY <1>0, <1>1, <1>2, <1>4, <1>7, <2>1
      DEF Limits!Tick, Limits!SetContinueAtReset, Limits!recordVars, Keeps
<1>8. ASSUME NEW on \in BOOLEAN, Limits!SetLimitResume(on)
      PROVE  Limits!TypeOK' /\ (Disarms \/ Arms)
  <2> DEFINE l == [limit EXCEPT !.resume = on, !.resumes = 0, !.gaveUp = FALSE]
  <2>1. l \in LimitRecords /\ l.held /\ limit.held /\ l.resetsAt = limit.resetsAt
    BY <1>0, <1>8 DEF LimitOK, LimitRecords, Limits!SetLimitResume
  <2>2. /\ \/ on /\ Limits!Arm(l)
           \/ ~on /\ Limits!Disarm(l)
        /\ \/ on /\ Limits!Overtaken /\ late < MaxLate /\ late' = late + 1
           \/ ~(on /\ Limits!Overtaken) /\ late' = late
        /\ limit.resume # on /\ UNCHANGED <<now, always, known, mine, Limits!turnVars, user>>
    BY <1>8 DEF Limits!SetLimitResume
  <2>3. Rest'
    BY <1>0, <2>2 DEF Rest, Limits!LimitConstants
  <2>4. CASE on /\ Limits!Arm(l)
    <3>1. limit' \in LimitRecords /\ limit'.held /\ fire' \in [Fires -> Runs]
      <4> HIDE DEF l
      <4>1. /\ limit' = [l EXCEPT !.timer = limit'.timer] /\ limit' \in LimitRecords
            /\ fire' \in [Fires -> Runs]
        BY <1>0, <2>1, <2>4, ArmIs
      <4> QED
        BY <2>1, <4>1 DEF LimitRecords
    <3>2. Arms
      BY <2>1, <2>2, <2>4 DEF Arms
    <3> QED
      BY <1>1, <1>2, <1>3, <2>2, <2>3, <3>1, <3>2
  <2>5. CASE ~on /\ Limits!Disarm(l)
    <3>1. limit' \in LimitRecords /\ limit'.held /\ fire' \in [Fires -> Runs]
      <4> HIDE DEF l
      <4> QED
        BY <1>0, <2>1, <2>5, StoppedIs DEF Limits!Disarm, LimitRecords
    <3>2. Disarms
      BY <2>1, <2>2, <2>5 DEF Disarms
    <3> QED
      BY <1>1, <1>2, <1>3, <2>2, <2>3, <3>1, <3>2
  <2> QED
    BY <2>2, <2>4, <2>5
<1>9. ASSUME NEW call \in {"send", "pause"}, Limits!UserCalls(call)
      PROVE  Limits!TypeOK' /\ (Keeps \/ Disarms)
  <2>1. Rest' /\ UNCHANGED Limits!turnVars /\ UNCHANGED <<now, late>>
    BY <1>0, <1>9 DEF Rest, Limits!UserCalls
  <2>2. CASE UNCHANGED <<limit, fire>>
    BY <1>0, <1>1, <1>2, <1>4, <2>1, <2>2 DEF Keeps, Rest
  <2>3. CASE limit.resume /\ Limits!Disarm(limit)
    <3>1. limit \in LimitRecords /\ limit.held
      BY <1>0, <2>3, NoLimitType DEF LimitOK
    <3>2. limit' \in LimitRecords /\ limit'.held /\ fire' \in [Fires -> Runs]
      BY <1>0, <2>3, <3>1, StoppedIs DEF Limits!Disarm, LimitRecords
    <3> QED
      BY <1>1, <1>2, <1>3, <2>1, <2>3, <3>1, <3>2 DEF Disarms
  <2> QED
    BY <1>9, <2>2, <2>3 DEF Limits!UserCalls, Limits!CancelWait
<1>10. CASE Limits!UserDelete
  <2>1. TurnOK' /\ now' = now
    BY <1>0, <1>10 DEF Limits!UserDelete, TurnOK, Limits!LimitConstants
  <2>2. Drops /\ LimitOK' /\ fire' \in [Fires -> Runs] /\ late' = 0 /\ mine' = {}
    BY <1>5, <1>10, <2>1 DEF Limits!UserDelete
  <2>3. Rest'
    <3>1. known' = FALSE /\ UNCHANGED <<now, always, user>> /\ 0 \in 0 .. MaxLate
      BY <1>10 DEF Limits!UserDelete, Limits!LimitConstants
    <3> QED
      BY <1>0, <2>2, <3>1 DEF Rest
  <2> QED
    BY <1>1, <2>1, <2>2, <2>3
<1>11. CASE Limits!UserStop \/ Limits!UserEnqueue \/ Limits!TurnFailed
  <2>1. TurnOK'
    <3>1. CASE Limits!UserStop
      BY <1>0, <3>1 DEF TurnOK, Limits!UserStop, Limits!LimitConstants
    <3>2. CASE Limits!UserEnqueue
      BY <1>0, <1>2, <3>2, AcceptType DEF Limits!UserEnqueue, Limits!Refuse
    <3>3. CASE Limits!TurnFailed
      BY <1>0, <3>3, NextTurnType DEF Limits!TurnFailed
    <3> QED
      BY <1>11, <3>1, <3>2, <3>3
  <2>2. UNCHANGED <<now, limit, late, fire>> /\ Rest'
    BY <1>0, <1>11
      DEF Limits!UserStop, Limits!UserEnqueue, Limits!TurnFailed, Limits!recordVars, Rest
  <2> QED
    BY <1>0, <1>1, <1>4, <2>1, <2>2 DEF Keeps, Rest
<1>12. CASE Limits!TurnEnded
  <2>1. TurnOK' /\ now' = now
    BY <1>0, <1>12, NextTurnType DEF Limits!TurnEnded
  <2>2. CASE Limits!Drop({})
    <3>1. Drops /\ LimitOK' /\ fire' \in [Fires -> Runs] /\ late' = 0 /\ mine' = {}
      BY <1>5, <2>1, <2>2
    <3> QED
      BY <1>0, <1>1, <1>12, <2>1, <3>1 DEF Limits!TurnEnded, Rest, Limits!LimitConstants
  <2>3. CASE UNCHANGED <<Limits!recordVars, fire>>
    <3>1. UNCHANGED <<now, limit, late, fire>> /\ Rest'
      BY <1>0, <1>12, <2>3 DEF Limits!TurnEnded, Limits!recordVars, Rest
    <3> QED
      BY <1>0, <1>1, <1>4, <2>1, <3>1 DEF Keeps, Rest
  <2> QED
    BY <1>12, <2>2, <2>3 DEF Limits!TurnEnded, Limits!EndUsageLimit
<1>13. CASE Limits!Note
  <2> DEFINE old == IF limit.held THEN limit ELSE [Limits!NoLimit EXCEPT !.resume = always]
             l(at) == [old EXCEPT !.held = TRUE, !.resetsAt = at, !.resuming = FALSE]
  <2>1. PICK at \in now + 1 .. MaxNow : Limits!Renew(l(at))
    BY <1>13 DEF Limits!Note
  <2>2. at \in 0 .. MaxNow /\ at > now
    BY <1>0 DEF Rest, Limits!LimitConstants
  <2>3. old \in LimitRecords /\ old.timer = limit.timer
    <3>1. CASE limit.held
      BY <1>0, <3>1 DEF LimitOK
    <3>2. CASE ~limit.held
      BY <1>0, <3>2, NoLimitType DEF LimitOK, LimitRecords, Rest
    <3> QED
      BY <3>1, <3>2
  <2>4. /\ l(at) \in LimitRecords /\ l(at).held /\ l(at).resetsAt = at
        /\ l(at).timer = limit.timer
    <3> HIDE DEF old
    <3> QED
      BY <2>2, <2>3 DEF LimitRecords
  <2>5. PICK n \in LimitRecords :
          n.held /\ n.resetsAt > now /\ n.timer = limit.timer /\ Limits!Renew(n)
    <3> HIDE DEF l, old
    <3> QED
      BY <2>1, <2>2, <2>4
  <2>6. LimitOK' /\ fire' \in [Fires -> Runs]
    <3>1. CASE UNCHANGED fire /\ limit' \in {n, [n EXCEPT !.resume = FALSE, !.gaveUp = TRUE],
                                             [n EXCEPT !.resume = FALSE]}
      <4>1. limit' \in LimitRecords /\ limit'.held
        BY <2>5, <3>1 DEF LimitRecords
      <4> QED
        BY <1>0, <1>3, <3>1, <4>1
    <3>2. CASE Limits!Arm(n)
      <4>1. /\ limit' = [n EXCEPT !.timer = limit'.timer] /\ limit' \in LimitRecords
            /\ fire' \in [Fires -> Runs]
        BY <1>0, <3>2, ArmIs
      <4>2. limit'.held
        BY <2>5, <4>1 DEF LimitRecords
      <4> QED
        BY <1>3, <4>1, <4>2
    <3> QED
      BY <2>5, <3>1, <3>2 DEF Limits!Renew
  <2>7. TurnOK' /\ Rest'
    <3>1. TurnOK'
      BY <1>0, <1>13 DEF Limits!Note, TurnOK
    <3>2. late' = 0 /\ 0 \in 0 .. MaxLate /\ UNCHANGED <<now, always, known, mine, user>>
      BY <1>13 DEF Limits!Note, Limits!LimitConstants
    <3> QED
      BY <1>0, <3>1, <3>2 DEF Rest
  <2>8. Notes
    BY <1>13, <2>5 DEF Notes, Limits!Note
  <2> QED
    BY <1>1, <2>6, <2>7, <2>8
<1>14. ASSUME NEW f \in Fires, Limits!TimerFires(f) PROVE Limits!TypeOK' /\ Fired
  <2>1. fire' \in [Fires -> Runs]
    BY <1>0, <1>14 DEF Limits!TimerFires, Limits!Goto, Runs
  <2> QED
    BY <1>0, <1>1, <1>2, <1>4, <1>14, <2>1 DEF Limits!TimerFires, Limits!recordVars, Rest, Fired
<1>15. ASSUME NEW f \in Fires, Limits!FireCheck(f) PROVE Limits!TypeOK' /\ Checks
  <2>1. CASE Limits!Wanted(f) /\ Limits!Goto(f, "goal")
             /\ limit' = [limit EXCEPT !.timer = NoTimer, !.resumes = @ + 1, !.resuming = TRUE]
    <3>1. limit \in LimitRecords /\ limit.held
      BY <1>0, <2>1 DEF Limits!Wanted, LimitOK
    <3>2. limit' \in LimitRecords /\ limit'.held
      <4>1. limit.resumes + 1 \in Nat
        BY <3>1 DEF LimitRecords
      <4>2. limit' = [limit EXCEPT !.timer = NoTimer, !.resumes = limit.resumes + 1, !.resuming = TRUE]
        BY <2>1
      <4> QED
        BY <3>1, <4>1, <4>2 DEF LimitRecords
    <3>3. fire' \in [Fires -> Runs]
      BY <1>0, <2>1 DEF Limits!Goto, Runs
    <3>4. Rest'
      BY <1>0, <1>15 DEF Limits!FireCheck, Rest
    <3> QED
      BY <1>1, <1>2, <1>3, <1>15, <3>2, <3>3, <3>4 DEF Limits!FireCheck, Checks
  <2>2. CASE Limits!Return(f) /\ UNCHANGED <<limit, mine>>
    <3>1. fire' \in [Fires -> Runs]
      BY <1>0, <2>2, NoLimitType DEF Limits!Return
    <3>2. Rest'
      BY <1>0, <1>15, <2>2 DEF Limits!FireCheck, Rest
    <3> QED
      BY <1>1, <1>2, <1>4, <1>15, <2>2, <3>1, <3>2 DEF Limits!FireCheck, Checks
  <2> QED
    BY <1>15, <2>1, <2>2 DEF Limits!FireCheck
<1>16. ASSUME NEW f \in Fires, Limits!FireGoal(f) \/ Limits!FireSend(f) \/ Limits!FireFailed(f)
       PROVE  Limits!TypeOK' /\ (Keeps \/ Drops)
  <2>1. ~Alive(f) /\ ~Limits!Pending(f) /\ now' = now
    BY <1>16 DEF Limits!FireGoal, Limits!FireSend, Limits!FireFailed, Alive, Limits!Pending
  <2>2. TurnOK'
    BY <1>0, <1>2, <1>16, AcceptType
    DEF Limits!FireGoal, Limits!FireSend, Limits!FireFailed, Limits!Refuse
  <2>3. UNCHANGED <<now, always, known, user>>
    BY <1>16 DEF Limits!FireGoal, Limits!FireSend, Limits!FireFailed
  <2>4. CASE Limits!Drop({f})
    <3>1. Drops /\ LimitOK' /\ fire' \in [Fires -> Runs] /\ late' = 0 /\ mine' = {}
      BY <1>5, <2>1, <2>4
    <3> QED
      BY <1>0, <1>1, <2>2, <2>3, <3>1 DEF Rest, Limits!LimitConstants
  <2>5. CASE UNCHANGED Limits!recordVars
             /\ (Limits!Return(f) \/ \E pc \in {"send", "failed"} : Limits!Goto(f, pc))
    <3>1. PICK r \in Runs : r.pc \in {"off", "send", "failed"} /\ fire' = [fire EXCEPT ![f] = r]
      <4>1. CASE Limits!Return(f)
        BY <4>1, NoLimitType DEF Limits!Return, Limits!Off
      <4>2. ASSUME NEW pc \in {"send", "failed"}, Limits!Goto(f, pc)
            PROVE  \E r \in Runs : r.pc \in {"off", "send", "failed"} /\ fire' = [fire EXCEPT ![f] = r]
        <5>1. [fire[f] EXCEPT !.pc = pc] \in Runs /\ [fire[f] EXCEPT !.pc = pc].pc = pc
          BY <1>0 DEF Runs
        <5> QED
          BY <4>2, <5>1 DEF Limits!Goto
      <4> QED
        BY <2>5, <4>1, <4>2
    <3>2. fire' \in [Fires -> Runs] /\ fire'[f] = r /\ \A g \in Fires \ {f} : fire'[g] = fire[g]
      BY <1>6, <3>1
    <3>3. Keeps
      BY <1>0, <2>1, <2>5, <3>1, <3>2 DEF Keeps, Alive, Limits!recordVars, Rest
    <3>4. Rest'
      BY <1>0, <2>3, <2>5 DEF Rest, Limits!recordVars
    <3> QED
      BY <1>1, <1>4, <2>2, <2>5, <3>2, <3>3, <3>4 DEF Limits!recordVars
  <2> QED
    BY <1>16, <2>4, <2>5 DEF Limits!FireGoal, Limits!FireSend, Limits!FireFailed
<1>17. CASE UNCHANGED limitVars
  BY <1>0, <1>1, <1>2, <1>4, <1>17 DEF limitVars, Limits!turnVars, Keeps, Rest
<1> QED
  BY <1>7, <1>8, <1>9, <1>10, <1>11, <1>12, <1>13, <1>14, <1>15, <1>16, <1>17
  DEF Limits!Next, Limits!User, Limits!Calls, Limits!Turns, Limits!Callback

(***************************************************************************)
(* The strengthening is kept, step by step.                                *)
(***************************************************************************)

LEMMA Counts ==
  ASSUME Limits!LimitConstants
  PROVE  /\ \A S \in SUBSET Fires : Cardinality(S) \in Nat
         /\ \A S, T \in SUBSET Fires : S \subseteq T => Cardinality(S) <= Cardinality(T)
         /\ \A S \in SUBSET Fires, f \in Fires : Cardinality(S \union {f}) <= Cardinality(S) + 1
         /\ \A S \in SUBSET Fires : \A f \in S : Cardinality(S \ {f}) = Cardinality(S) - 1
         /\ Cardinality({}) = 0
<1>0. \A S \in SUBSET Fires : IsFiniteSet(S)
  <2> SUFFICES ASSUME NEW S \in SUBSET Fires PROVE IsFiniteSet(S)
    OBVIOUS
  <2>1. IsFiniteSet(Fires)
    BY DEF Limits!LimitConstants, Limits!IsFiniteSet, IsFiniteSet
  <2> QED
    BY <2>1, FS_Subset
<1>1. \A S \in SUBSET Fires : Cardinality(S) \in Nat
  BY <1>0, FS_CardinalityType
<1>2. \A S, T \in SUBSET Fires : S \subseteq T => Cardinality(S) <= Cardinality(T)
  BY <1>0, FS_Subset
<1>3. \A S \in SUBSET Fires, f \in Fires : Cardinality(S \union {f}) <= Cardinality(S) + 1
  <2> TAKE S \in SUBSET Fires, f \in Fires
  <2>1. f \in S \/ Cardinality(S \union {f}) = Cardinality(S) + 1
    BY <1>0, FS_AddElement
  <2>2. f \in S => S \union {f} = S
    OBVIOUS
  <2> QED
    BY <1>1, <2>1, <2>2
<1>4. \A S \in SUBSET Fires : \A f \in S : Cardinality(S \ {f}) = Cardinality(S) - 1
  BY <1>0, FS_RemoveElement
<1> QED
  BY <1>1, <1>2, <1>3, <1>4, FS_EmptySet

\* The sizes the strengthening speaks of are numbers.
LEMMA Sizes ==
  ASSUME Limits!LimitConstants, Limits!TypeOK
  PROVE  /\ Limits!Due \in SUBSET Fires /\ Loose \in SUBSET Limits!Due
         /\ Cardinality(Limits!Due) \in Nat /\ Cardinality(Loose) \in Nat
         /\ late \in Nat /\ limit.resumes \in Nat /\ MaxResumes \in Nat /\ MaxResumes >= 1
         /\ now \in Int /\ limit.resetsAt \in Int /\ \A f \in Fires : fire[f].at \in Int
<1>1. Limits!Due \in SUBSET Fires /\ Loose \in SUBSET Limits!Due
  BY DEF Limits!Due, Loose
<1>2. Cardinality(Limits!Due) \in Nat /\ Cardinality(Loose) \in Nat
  BY <1>1, Counts
<1> QED
  BY <1>1, <1>2, TypeParts DEF LimitOK, LimitRecords, Rest, Limits!LimitConstants, Runs

LEMMA KeepsStep ==
  ASSUME Limits!LimitConstants, Limits!TypeOK, Core, Limits!TypeOK', Keeps
  PROVE  Core'
<1>1. \A f \in Fires : /\ Alive(f)' <=> Alive(f)
                       /\ Alive(f) => fire'[f] = fire[f]
                       /\ Limits!Pending(f)' <=> Limits!Pending(f)
  BY DEF Keeps, Alive, Limits!Pending
<1>2. /\ Limits!Due' = Limits!Due /\ (Limits!Overtaken' <=> Limits!Overtaken)
      /\ Ticking' <=> Ticking
  BY <1>1 DEF Keeps, Limits!Due, Limits!Overtaken, Ticking, Alive
<1>3. Loose' = Loose
  BY <1>1, <1>2, Sizes DEF Loose
<1>4. Past'
  BY <1>1, Sizes DEF Core, Past, Keeps, Limits!TypeOK
<1>5. Aimed'
  BY <1>1 DEF Core, Aimed, Keeps, Alive, Limits!Pending
<1> QED
  BY <1>2, <1>3, <1>4, <1>5 DEF Core, Keeps, Limits!WaitingHasTimer, Few, Counted

LEMMA DropsStep ==
  ASSUME Limits!LimitConstants, Limits!TypeOK, Core, Limits!TypeOK', Drops
  PROVE  Core'
<1>1. ~limit'.held /\ ~limit'.resume
  BY NoLimitType DEF Drops
<1>2. Past'
  <2> SUFFICES ASSUME NEW f \in Fires, Alive(f)' PROVE fire'[f].at <= now'
    BY DEF Past
  <2>1. fire'[f] = fire[f] /\ ~Limits!Pending(f) /\ now' >= now
    BY DEF Drops
  <2> QED
    BY <2>1, Sizes DEF Core, Past, Alive, Limits!TypeOK
<1> QED
  BY <1>1, <1>2 DEF Core, Limits!WaitingHasTimer, Aimed, Few, Counted

\* The switch turned off: the timer in place is stopped.
LEMMA DisarmsStep ==
  ASSUME Limits!LimitConstants, Limits!TypeOK, Core, Limits!TypeOK', Disarms
  PROVE  Core'
<1>1. PICK l \in LimitRecords :
        l.resetsAt = limit.resetsAt /\ Limits!Disarm(l) /\ UNCHANGED <<now, late>>
  BY DEF Disarms
<1>2. /\ ~limit'.resume /\ limit'.timer = NoTimer /\ limit'.resetsAt = limit.resetsAt
      /\ fire' = Limits!Stopped
  BY <1>1 DEF Limits!Disarm, LimitRecords
<1>3. \A f \in Fires : /\ ~Limits!Pending(f)'
                       /\ Alive(f)' => fire'[f] = fire[f] /\ ~Limits!Pending(f)
                       /\ ~Limits!Pending(f) => fire'[f] = fire[f]
  BY <1>2, TypeParts, StoppedIs DEF Limits!Pending, Alive, Limits!LimitConstants
<1>4. Past' /\ Aimed' /\ Limits!WaitingHasTimer' /\ Counted'
  BY <1>1, <1>2, <1>3 DEF Core, Past, Aimed, Limits!WaitingHasTimer, Counted, Alive
<1>5. Loose' = Loose
  BY <1>2, <1>3 DEF Loose, Limits!Due, Alive
<1>6. Limits!Overtaken' <=> Limits!Overtaken
  BY <1>2, <1>3 DEF Limits!Overtaken, Limits!Pending, Alive
<1>7. ~Ticking'
  BY <1>3 DEF Ticking
<1>8. Few'
  BY <1>1, <1>5, <1>6, <1>7 DEF Core, Few, Disarms
<1> QED
  BY <1>4, <1>8 DEF Core

\* A timer is set: it is the one pending, and the others that live are not for a
\* reset still to come.
LEMMA Armed ==
  ASSUME Limits!LimitConstants, Limits!TypeOK, Core, Limits!TypeOK', UNCHANGED now,
         NEW l \in LimitRecords, Limits!Arm(l)
  PROVE  /\ limit'.held = l.held /\ limit'.resume = l.resume /\ limit'.resumes = l.resumes
         /\ limit'.resetsAt = l.resetsAt
         /\ Past' /\ Aimed' /\ Limits!WaitingHasTimer' /\ Ticking'
         /\ l.resetsAt = limit.resetsAt => Loose' = Loose
         /\ l.resetsAt > now => Loose' = {}
         /\ Limits!Due' \subseteq Loose' \union {limit'.timer} /\ limit'.timer \in Fires
<1> DEFINE t == limit'.timer
<1>1. /\ limit' = [l EXCEPT !.timer = t]
      /\ t \in Fires
      /\ fire'[t] = [pc |-> "armed", at |-> l.resetsAt]
      /\ Limits!Pending(t) \/ ~Alive(t)
      /\ \A f \in Fires : Limits!Pending(f)' <=> f = t
      /\ \A f \in Fires \ {t} : \/ Limits!Pending(f) /\ ~Alive(f)'
                                \/ ~Limits!Pending(f) /\ fire'[f] = fire[f]
  <2>1. fire \in [Fires -> Runs]
    BY TypeParts
  <2> QED
    BY <2>1, ArmIs
<1>2. /\ limit'.held = l.held /\ limit'.resume = l.resume /\ limit'.resumes = l.resumes
      /\ limit'.resetsAt = l.resetsAt
  BY <1>1 DEF LimitRecords
<1> HIDE DEF t
<1>3. Past' /\ Aimed'
  BY <1>1, <1>2 DEF Core, Past, Aimed, Alive
<1>4. t \in Limits!Due' /\ Ticking'
  BY <1>1, <1>2 DEF Limits!Due, Ticking
<1>5. Limits!WaitingHasTimer'
  BY <1>4 DEF Limits!WaitingHasTimer
<1>6. Loose' = {f \in Fires : Alive(f) /\ fire[f].at = l.resetsAt /\ ~Limits!Pending(f)}
  <2>1. \A f \in Fires : f \in Loose' <=> Alive(f)' /\ fire'[f].at = l.resetsAt /\ f # t
    BY <1>1, <1>2 DEF Loose, Limits!Due, Alive
  <2>2. \A f \in Fires : f \in Loose' <=> Alive(f) /\ fire[f].at = l.resetsAt /\ ~Limits!Pending(f)
    BY <1>1, <2>1 DEF Alive
  <2> QED
    BY <2>2, Sizes DEF Loose, Limits!Due
<1>7. l.resetsAt = limit.resetsAt => Loose' = Loose
  BY <1>6 DEF Loose, Limits!Due, Alive
<1>8. l.resetsAt > now => Loose' = {}
  <2> SUFFICES ASSUME l.resetsAt > now, NEW f \in Loose' PROVE FALSE
    OBVIOUS
  <2>1. f \in Fires /\ Alive(f) /\ fire[f].at = l.resetsAt /\ ~Limits!Pending(f)
    BY <1>6
  <2>2. fire[f].at <= now
    BY <2>1 DEF Core, Past
  <2> QED
    BY <2>1, <2>2, Sizes
<1>9. Limits!Due' \subseteq Loose' \union {t}
  BY <1>1 DEF Loose, Limits!Due
<1> QED
  BY <1>1, <1>2, <1>3, <1>4, <1>5, <1>7, <1>8, <1>9 DEF t

\* The switch turned on, the resumes counted afresh.
LEMMA ArmsStep ==
  ASSUME Limits!LimitConstants, Limits!TypeOK, Core, Limits!TypeOK', Arms
  PROVE  Core'
<1> DEFINE l == [limit EXCEPT !.resume = TRUE, !.resumes = 0, !.gaveUp = FALSE]
<1>1. l \in LimitRecords /\ l.resetsAt = limit.resetsAt /\ l.resumes = 0
  BY TypeParts DEF LimitOK, LimitRecords
<1>2. Limits!Arm(l) /\ UNCHANGED now
  BY DEF Arms
<1> HIDE DEF l
<1>3. /\ limit'.resumes = 0 /\ limit'.resetsAt = limit.resetsAt
      /\ Past' /\ Aimed' /\ Limits!WaitingHasTimer' /\ Ticking' /\ Loose' = Loose
      /\ Limits!Due' \subseteq Loose' \union {limit'.timer} /\ limit'.timer \in Fires
  BY <1>1, <1>2, Armed
<1>4. Cardinality(Loose') <= late' /\ late \in Nat /\ late' \in Nat
  <2>1. limit.held
    BY DEF Arms
  <2> QED
    BY <1>3, <2>1, Sizes DEF Core, Few, Arms
<1>5. Cardinality(Limits!Due') <= Cardinality(Loose') + 1
  <2>1. /\ Cardinality(Limits!Due') <= Cardinality(Loose' \union {limit'.timer})
        /\ Cardinality(Loose' \union {limit'.timer}) <= Cardinality(Loose') + 1
        /\ Cardinality(Loose' \union {limit'.timer}) \in Nat
    <3>1. Limits!Due' \in SUBSET Fires /\ Loose' \in SUBSET Fires
      BY DEF Loose, Limits!Due
    <3> QED
      BY <1>3, <3>1, Counts
  <2>2. Cardinality(Limits!Due') \in Nat /\ Cardinality(Loose') \in Nat
    <3>1. Limits!Due' \in SUBSET Fires /\ Loose' \in SUBSET Fires
      BY DEF Loose, Limits!Due
    <3> QED
      BY <3>1, Counts
  <2> QED
    BY <2>1, <2>2
<1>6. Cardinality(Limits!Due') \in Nat /\ Cardinality(Loose') \in Nat
  <2>1. Limits!Due' \in SUBSET Fires /\ Loose' \in SUBSET Fires
    BY DEF Loose, Limits!Due
  <2> QED
    BY <2>1, Counts
<1>7. Few' /\ Counted'
  BY <1>3, <1>4, <1>5, <1>6 DEF Few, Counted
<1> QED
  BY <1>3, <1>7 DEF Core

\* A limit noted: the wait begins again, for a reset still to come.
LEMMA NotesStep ==
  ASSUME Limits!LimitConstants, Limits!TypeOK, Core, Limits!TypeOK', Notes
  PROVE  Core'
<1>1. PICK l \in LimitRecords :
        l.held /\ l.resetsAt > now /\ l.timer = limit.timer /\ Limits!Renew(l)
  BY DEF Notes
<1>2. late' = 0 /\ UNCHANGED now
  BY DEF Notes
<1>3. CASE Limits!Arm(l) /\ l.resume /\ l.resumes < MaxResumes
  <2>1. /\ limit'.resumes = l.resumes /\ Past' /\ Aimed' /\ Limits!WaitingHasTimer' /\ Ticking'
        /\ Loose' = {} /\ Limits!Due' \subseteq {limit'.timer} /\ limit'.timer \in Fires
    BY <1>1, <1>2, <1>3, Armed
  <2>2. Cardinality(Limits!Due') <= 1 /\ Cardinality(Limits!Due') \in Nat
    <3>1. /\ Limits!Due' \in SUBSET Fires /\ {limit'.timer} \in SUBSET Fires
          /\ {limit'.timer} = {} \union {limit'.timer} /\ {} \in SUBSET Fires
      BY <2>1 DEF Limits!Due
    <3>2. /\ Cardinality(Limits!Due') <= Cardinality({limit'.timer})
          /\ Cardinality({limit'.timer}) <= Cardinality({}) + 1
          /\ Cardinality({}) = 0
          /\ Cardinality({limit'.timer}) \in Nat /\ Cardinality(Limits!Due') \in Nat
      BY <2>1, <3>1, Counts
    <3> QED
      BY <3>2
  <2>3. Few'
    BY <1>2, <2>1, Counts DEF Few
  <2>4. Counted'
    <3>1. l.resumes \in Nat /\ MaxResumes \in Nat
      BY DEF LimitRecords, Limits!LimitConstants
    <3> QED
      BY <1>3, <2>1, <2>2, <3>1 DEF Counted
  <2> QED
    BY <2>1, <2>3, <2>4 DEF Core
<1>4. CASE /\ UNCHANGED fire
           /\ \/ limit' = l /\ ~l.resume
              \/ limit' = [l EXCEPT !.resume = FALSE, !.gaveUp = TRUE]
              \/ limit' = [l EXCEPT !.resume = FALSE]
  <2>1. ~limit'.resume /\ limit'.resetsAt = l.resetsAt /\ limit'.timer = l.timer
    BY <1>4 DEF LimitRecords
  <2>2. \A f \in Fires : (Limits!Pending(f)' <=> Limits!Pending(f)) /\ fire'[f] = fire[f]
    BY <1>1, <1>4, <2>1 DEF Limits!Pending
  <2>3. Past'
    BY <1>2, <2>2 DEF Core, Past, Alive
  <2>4. Loose' = {}
    <3> SUFFICES ASSUME NEW f \in Loose' PROVE FALSE
      OBVIOUS
    <3>1. f \in Fires /\ Alive(f) /\ fire[f].at = l.resetsAt /\ ~Limits!Pending(f)
      BY <2>1, <2>2 DEF Loose, Limits!Due, Alive
    <3>2. fire[f].at <= now
      BY <3>1 DEF Core, Past
    <3> QED
      BY <1>1, <3>1, <3>2, Sizes
  <2> QED
    BY <1>2, <2>1, <2>3, <2>4, Counts
    DEF Core, Limits!WaitingHasTimer, Aimed, Few, Counted
<1> QED
  BY <1>1, <1>3, <1>4 DEF Limits!Renew

\* A timer goes off: its callback is on its way to the lock.
LEMMA FiredStep ==
  ASSUME Limits!LimitConstants, Limits!TypeOK, Core, Limits!TypeOK', NEW f \in Fires,
         Limits!TimerFires(f)
  PROVE  Core'
<1>1. /\ fire[f].pc = "armed" /\ fire[f].at <= now /\ UNCHANGED <<now, limit, late>>
      /\ fire'[f].pc = "run" /\ fire'[f].at = fire[f].at
      /\ \A g \in Fires \ {f} : fire'[g] = fire[g]
  BY TypeParts DEF Limits!TimerFires, Limits!Goto, Limits!recordVars, Runs
<1>2. /\ \A g \in Fires : Limits!Pending(g)' <=> Limits!Pending(g) /\ g # f
      /\ \A g \in Fires : Alive(g)' <=> Alive(g)
      /\ \A g \in Fires : fire'[g].at = fire[g].at
  BY <1>1 DEF Limits!Pending, Alive
<1>3. Past' /\ Aimed'
  BY <1>1, <1>2 DEF Core, Past, Aimed
<1>4. Limits!Due' = Limits!Due
  BY <1>1, <1>2 DEF Limits!Due, Alive
<1>5. Limits!WaitingHasTimer' /\ Counted'
  BY <1>1, <1>4 DEF Core, Limits!WaitingHasTimer, Counted
<1>6. /\ Loose' \in SUBSET Fires /\ Loose \in SUBSET Fires
      /\ Cardinality(Loose') \in Nat /\ Cardinality(Loose) \in Nat
  <2>1. Loose' \in SUBSET Fires /\ Loose \in SUBSET Fires
    BY DEF Loose, Limits!Due
  <2> QED
    BY <2>1, Counts
<1>7. CASE Limits!Pending(f)
  <2>1. Loose' \subseteq Loose \union {f} /\ Ticking /\ ~Ticking'
    BY <1>2, <1>4, <1>7 DEF Loose, Ticking, Limits!Pending
  <2>2. Cardinality(Loose') <= Cardinality(Loose) + 1
    <3>1. Loose \union {f} \in SUBSET Fires
      BY <1>6
    <3>2. /\ Cardinality(Loose') <= Cardinality(Loose \union {f})
          /\ Cardinality(Loose \union {f}) <= Cardinality(Loose) + 1
          /\ Cardinality(Loose \union {f}) \in Nat
      BY <1>6, <2>1, <3>1, Counts
    <3> QED
      BY <1>6, <3>2
  <2>3. f \in Limits!Due \/ Loose' = Loose
    <3>1. f \notin Limits!Due => \A g \in Fires : g \in Loose' <=> g \in Loose
      BY <1>2, <1>4 DEF Loose
    <3> QED
      BY <1>6, <3>1
  <2>4. f \in Limits!Due => Limits!Overtaken'
    BY <1>1 DEF Limits!Due, Limits!Overtaken
  <2> QED
    BY <1>1, <1>3, <1>5, <1>6, <2>1, <2>2, <2>3, <2>4, Sizes DEF Core, Few
<1>8. CASE ~Limits!Pending(f)
  <2>1. Loose' = Loose /\ (Ticking' <=> Ticking)
    BY <1>2, <1>4, <1>8, Sizes DEF Loose, Ticking
  <2>2. Limits!Overtaken => Limits!Overtaken'
    BY <1>1 DEF Limits!Overtaken
  <2> QED
    BY <1>1, <1>3, <1>5, <2>1, <2>2 DEF Core, Few
<1> QED
  BY <1>7, <1>8

\* The callback has the lock: it counts a resume and forgets the timer in place, or
\* finds itself unwanted.
LEMMA ChecksStep ==
  ASSUME Limits!LimitConstants, Limits!TypeOK, Core, Limits!TypeOK', NEW f \in Fires,
         Limits!FireCheck(f)
  PROVE  Core'
<1>0. limit \in LimitRecords /\ fire \in [Fires -> Runs]
  BY TypeParts DEF LimitOK
<1>1. /\ fire[f].pc = "run" /\ UNCHANGED <<now, late>> /\ ~Alive(f)'
      /\ \A g \in Fires \ {f} : fire'[g] = fire[g]
  BY <1>0, NoLimitType
  DEF Limits!FireCheck, Limits!Goto, Limits!Return, Limits!Off, Alive, Runs
<1>2. /\ \A g \in Fires : Alive(g)' <=> Alive(g) /\ g # f
      /\ limit'.resetsAt = limit.resetsAt /\ limit'.held = limit.held
      /\ limit'.resume = limit.resume
      /\ Alive(f) /\ ~Limits!Pending(f)
  BY <1>0, <1>1 DEF Alive, Limits!FireCheck, Limits!Pending, LimitRecords
<1>3. Limits!Due' = Limits!Due \ {f}
  BY <1>1, <1>2 DEF Limits!Due, Alive
<1>4. /\ Loose' \in SUBSET Fires /\ Loose \in SUBSET Fires
      /\ Cardinality(Loose') \in Nat /\ Cardinality(Loose) \in Nat
      /\ Limits!Due' \in SUBSET Fires /\ Limits!Due \in SUBSET Fires
      /\ Cardinality(Limits!Due') \in Nat /\ Cardinality(Limits!Due) \in Nat
  <2>1. /\ Loose' \in SUBSET Fires /\ Loose \in SUBSET Fires
        /\ Limits!Due' \in SUBSET Fires /\ Limits!Due \in SUBSET Fires
    BY DEF Loose, Limits!Due
  <2> QED
    BY <2>1, Counts
<1>5. CASE /\ Limits!Wanted(f)
           /\ limit' = [limit EXCEPT !.timer = NoTimer, !.resumes = @ + 1, !.resuming = TRUE]
  <2>1. /\ limit'.timer = NoTimer /\ limit'.resumes = limit.resumes + 1 /\ limit'.resuming
        /\ limit.held /\ limit.resume /\ f \in Limits!Due /\ f \in Loose
        /\ fire[f].at = limit.resetsAt
    BY <1>0, <1>1, <1>2, <1>5 DEF LimitRecords, Limits!Wanted, Limits!Due, Loose
  <2>2. \A g \in Fires : ~Limits!Pending(g)'
    BY <2>1 DEF Limits!Pending, Limits!LimitConstants
  <2>3. fire[f].at <= now
    BY <1>2 DEF Core, Past
  <2>4. Past'
    <3> SUFFICES ASSUME NEW g \in Fires, Alive(g)' PROVE fire'[g].at <= now'
      BY DEF Past
    <3>1. fire'[g] = fire[g] /\ Alive(g)
      BY <1>1, <1>2
    <3>2. CASE Limits!Pending(g)
      BY <1>1, <2>1, <2>3, <3>1, <3>2 DEF Core, Aimed
    <3>3. CASE ~Limits!Pending(g)
      BY <1>1, <3>1, <3>3 DEF Core, Past
    <3> QED
      BY <3>2, <3>3
  <2>5. Counted'
    <3>1. Cardinality(Limits!Due') = Cardinality(Limits!Due) - 1
      BY <1>3, <1>4, <2>1, Counts
    <3> QED
      BY <1>1, <1>4, <2>1, <3>1, Sizes DEF Core, Counted
  <2>6. Cardinality(Loose') <= late
    <3>1. CASE Ticking
      <4>1. PICK g \in Fires : Limits!Pending(g)
        BY <3>1 DEF Ticking
      <4>2. Loose' \subseteq (Loose \ {f}) \union {g}
        BY <1>3, <4>1 DEF Loose, Limits!Pending
      <4>3. /\ Cardinality(Loose') <= Cardinality((Loose \ {f}) \union {g})
            /\ Cardinality((Loose \ {f}) \union {g}) <= Cardinality(Loose \ {f}) + 1
            /\ Cardinality(Loose \ {f}) = Cardinality(Loose) - 1
            /\ Cardinality((Loose \ {f}) \union {g}) \in Nat
        <5>1. /\ (Loose \ {f}) \union {g} \in SUBSET Fires
              /\ Loose \ {f} \in SUBSET Fires
          BY <1>4
        <5> QED
          BY <1>4, <2>1, <4>2, <5>1, Counts
      <4>4. Cardinality(Loose) <= late
        BY <2>1, <3>1 DEF Core, Few
      <4> QED
        BY <1>4, <4>3, <4>4, Sizes
    <3>2. CASE ~Ticking
      <4>1. Loose' \subseteq Loose \ {f}
        BY <1>3, <1>4, <3>2 DEF Loose, Ticking
      <4>2. /\ Cardinality(Loose') <= Cardinality(Loose \ {f})
            /\ Cardinality(Loose \ {f}) = Cardinality(Loose) - 1
        <5>1. Loose \ {f} \in SUBSET Fires
          BY <1>4
        <5> QED
          BY <1>4, <2>1, <4>1, <5>1, Counts
      <4>3. Cardinality(Loose) <= late + 1
        BY <2>1 DEF Core, Few
      <4> QED
        BY <1>4, <4>2, <4>3, Sizes
    <3> QED
      BY <3>1, <3>2
  <2>7. Few'
    BY <1>1, <1>4, <2>6, Sizes DEF Few
  <2>8. Aimed' /\ Limits!WaitingHasTimer'
    BY <2>1, <2>2 DEF Aimed, Limits!WaitingHasTimer
  <2> QED
    BY <2>4, <2>5, <2>7, <2>8 DEF Core
<1>6. CASE ~Limits!Wanted(f) /\ limit' = limit
  <2>1. \A g \in Fires : Limits!Pending(g)' <=> Limits!Pending(g)
    <3>1. \A g \in Fires \ {f} : Limits!Pending(g)' <=> Limits!Pending(g)
      BY <1>1, <1>6 DEF Limits!Pending
    <3>2. ~Limits!Pending(f)'
      BY <1>1 DEF Limits!Pending, Alive
    <3> QED
      BY <1>2, <3>1, <3>2
  <2>2. Past' /\ Aimed'
    BY <1>1, <1>2, <1>6, <2>1 DEF Core, Past, Aimed, Limits!Pending
  <2>3. limit.held /\ limit.resume => Limits!Due' = Limits!Due
    BY <1>3, <1>6 DEF Limits!Due, Limits!Wanted
  <2>4. Limits!WaitingHasTimer' /\ Counted'
    BY <1>1, <1>6, <2>3 DEF Core, Limits!WaitingHasTimer, Counted
  <2>5. Loose' = Loose \ {f} /\ (Ticking' <=> Ticking)
    BY <1>2, <1>3, <2>1, <1>4 DEF Loose, Ticking
  <2>6. CASE f \in Limits!Due
    <3>1. f \in Loose
      BY <1>2, <2>6 DEF Loose
    <3>2. Cardinality(Loose') = Cardinality(Loose) - 1
      BY <1>4, <2>5, <3>1, Counts
    <3>3. Few'
      BY <1>1, <1>4, <1>6, <3>2, Sizes DEF Core, Few
    <3> QED
      BY <2>2, <2>4, <3>3 DEF Core
  <2>7. CASE f \notin Limits!Due
    <3>1. Loose' = Loose
      BY <2>5, <2>7 DEF Loose
    <3>2. fire[f].at # limit.resetsAt
      BY <1>1, <2>7 DEF Limits!Due
    <3>3. Limits!Overtaken => Limits!Overtaken'
      BY <1>1, <1>6, <3>2 DEF Limits!Overtaken
    <3>4. Few'
      BY <1>1, <1>6, <2>5, <3>1, <3>3 DEF Core, Few
    <3> QED
      BY <2>2, <2>4, <3>4 DEF Core
  <2> QED
    BY <2>6, <2>7
<1> QED
  BY <1>5, <1>6 DEF Limits!FireCheck

LEMMA LimitsInit == ASSUME Limits!LimitConstants, Limits!Init PROVE LimitsIInv
<1>1. Limits!TypeOK
  <2>1. TurnOK /\ LimitOK
    BY NoLimitType DEF Limits!Init, TurnOK, LimitOK, Limits!Idle, Limits!LimitConstants
  <2> QED
    BY <2>1, TypeParts, NoLimitType DEF Limits!Init, Rest, Limits!LimitConstants
<1>2. Core
  <2>1. ~limit.held /\ ~limit.resume /\ \A f \in Fires : ~Alive(f)
    BY NoLimitType DEF Limits!Init, Alive, Limits!Off
  <2> QED
    BY <2>1 DEF Core, Limits!WaitingHasTimer, Past, Aimed, Few, Counted
<1> QED
  BY <1>1, <1>2 DEF LimitsIInv

\* The strengthening is inductive.
LEMMA LimitsStep ==
  ASSUME Limits!LimitConstants, LimitsIInv, [Limits!Next]_limitVars
  PROVE  LimitsIInv'
BY Steps, KeepsStep, DropsStep, DisarmsStep, ArmsStep, NotesStep, FiredStep, ChecksStep
   DEF LimitsIInv, Fired, Checks

\* The bound, tested by the refusal, holds up to the next one (maxLimitResumes).
LEMMA LimitsBounded == ASSUME Limits!LimitConstants, LimitsIInv PROVE Limits!Bounded
<1>1. limit.resume => limit.held
  BY TypeParts, NoLimitType DEF LimitsIInv, LimitOK
<1>2. Limits!NotForEver
  BY <1>1, Sizes DEF LimitsIInv, Core, Counted, Limits!NotForEver
<1> QED
  BY <1>2 DEF LimitsIInv, Core, Limits!Bounded

\* A callback that acts was armed for the reset of the limit it finds, and ran
\* after it.
LEMMA NotEarly ==
  ASSUME Limits!LimitConstants, LimitsIInv, [Limits!Next]_limitVars
  PROVE  ~Limits!EarlyResume
<1> SUFFICES ASSUME NEW f \in Fires, fire[f].pc = "run", fire'[f].pc = "goal",
                    now < limit.resetsAt
             PROVE  FALSE
  BY DEF Limits!EarlyResume
<1>0. /\ fire \in [Fires -> Runs] /\ fire' \in [Fires -> Runs] /\ limit.resetsAt \in Int
      /\ Keeps \/ Drops \/ Disarms \/ Arms \/ Notes \/ Fired \/ Checks
  <2>1. Limits!TypeOK /\ Limits!TypeOK'
    BY Steps DEF LimitsIInv
  <2> QED
    BY <2>1, Steps, Sizes DEF Limits!TypeOK, Runs
<1>1. /\ Alive(f) /\ ~Alive(f)' /\ fire'[f] # Limits!Off /\ ~Limits!Pending(f)
      /\ fire'[f] # fire[f]
  BY DEF Alive, Limits!Off, Limits!Pending
<1>2. Limits!FireCheck(f)
  <2>1. ~Keeps /\ ~Drops
    BY <1>1 DEF Keeps, Drops
  <2>2. ~Disarms
    BY <1>0, <1>1, StoppedIs DEF Disarms, Limits!Disarm
  <2>3. \A l \in LimitRecords : ~Limits!Arm(l)
    BY <1>0, <1>1, ArmIs DEF Alive
  <2>4. ~Arms
    <3>1. [limit EXCEPT !.resume = TRUE, !.resumes = 0, !.gaveUp = FALSE] \in LimitRecords
      BY TypeParts DEF LimitsIInv, LimitOK, LimitRecords
    <3> QED
      BY <2>3, <3>1 DEF Arms
  <2>5. ~Notes
    BY <1>1, <2>3 DEF Notes, Limits!Renew
  <2>6. ~Fired
    BY <1>0, <1>1 DEF Fired, Limits!TimerFires, Limits!Goto, Alive
  <2>7. PICK g \in Fires : Limits!FireCheck(g)
    BY <1>0, <2>1, <2>2, <2>4, <2>5, <2>6 DEF Checks
  <2> QED
    BY <1>0, <1>1, <2>7 DEF Limits!FireCheck, Limits!Goto, Limits!Return
<1>3. Limits!Wanted(f)
  BY <1>0, <1>1, <1>2 DEF Limits!FireCheck, Limits!Return
<1>4. fire[f].at <= now
  BY <1>1 DEF LimitsIInv, Core, Past
<1> QED
  BY <1>3, <1>4, Sizes DEF Limits!Wanted, LimitsIInv

(***************************************************************************)
(* Broker: the strengthening.  Locked says what the lock protects: while a *)
(* publisher holds it, those it has still to visit are registered, and the *)
(* closed channels are those of subscribers that were removed before.      *)
(* Numbered ties what a subscriber was given to the publishers' counts: an *)
(* event still to be delivered is newer than all that was.                 *)
(***************************************************************************)
Locked ==
  /\ \A s \in Subs : s \in subs <=> stage[s] = "in"
  /\ \A s \in Subs : s \in closed <=> stage[s] = "gone"
  /\ \A p \in Pubs : pub[p].todo # {} => p \in sending
  /\ \A p \in Pubs : pub[p].todo \subseteq subs

Unseeded == \A s \in Subs : stage[s] = "new" => got[s] = <<>> /\ ch[s] = <<>>

Numbered ==
  \A s \in Subs, p \in Pubs : \A i \in DOMAIN Events!Given(s) :
    Events!Given(s)[i].from = p =>
      /\ Events!Given(s)[i].n <= pub[p].n
      /\ s \in pub[p].todo => Events!Given(s)[i].n < pub[p].n

EventsIInv == Events!TypeOK /\ Locked /\ Unseeded /\ Numbered /\ Events!InOrder

(***************************************************************************)
(* What was read and what waits, as one sequence.                          *)
(***************************************************************************)

\* Reading the oldest event moves it from one part to the other (a receive from
\* the channel).
LEMMA ReadKeeps ==
  ASSUME NEW S, NEW a \in Seq(S), NEW b \in Seq(S), b # <<>>
  PROVE  Append(a, Head(b)) \o Tail(b) = a \o b
<1>1. Head(b) \in S /\ Tail(b) \in Seq(S) /\ <<Head(b)>> \in Seq(S)
  OBVIOUS
<1>2. Append(a, Head(b)) = a \o <<Head(b)>>
  BY <1>1, AppendIsConcat
<1>3. (a \o <<Head(b)>>) \o Tail(b) = a \o (<<Head(b)>> \o Tail(b))
  BY <1>1, ConcatAssociative
<1>4. <<Head(b)>> \o Tail(b) = b
  BY <1>1
<1> QED
  BY <1>2, <1>3, <1>4

\* A delivery comes after all that was given before (a send to the channel).
LEMMA SendAppends ==
  \A a, b \in Seq(Events!Event), e \in Events!Event : a \o Append(b, e) = Append(a \o b, e)
<1> SUFFICES ASSUME NEW a \in Seq(Events!Event), NEW b \in Seq(Events!Event),
                    NEW e \in Events!Event
             PROVE  a \o Append(b, e) = Append(a \o b, e)
  OBVIOUS
<1>1. <<e>> \in Seq(Events!Event) /\ a \o b \in Seq(Events!Event)
  OBVIOUS
<1>2. Append(b, e) = b \o <<e>> /\ Append(a \o b, e) = (a \o b) \o <<e>>
  BY <1>1, AppendIsConcat
<1>3. (a \o b) \o <<e>> = a \o (b \o <<e>>)
  BY <1>1
<1> QED
  BY <1>2, <1>3

\* What a subscriber was given is a sequence of events.
LEMMA GivenType ==
  ASSUME Events!TypeOK, NEW s \in Subs
  PROVE  Events!Given(s) \in Seq(Events!Event)
BY DEF Events!TypeOK, Events!Given

(***************************************************************************)
(* The steps.                                                              *)
(***************************************************************************)

\* Every step keeps the types: a channel never holds more than it has room for.
LEMMA TypeStep ==
  ASSUME Events!BrokerConstants, Events!TypeOK, [Events!Next]_eventVars
  PROVE  Events!TypeOK'
<1> USE DEF Events!TypeOK, Events!BrokerConstants
<1>1. ASSUME NEW s \in Subs, Events!Seed(s) PROVE Events!TypeOK'
  <2>1. PICK k \in 0 .. MaxSeed :
          /\ ch' = [ch EXCEPT ![s] = [i \in 1 .. k |-> [from |-> "seed", n |-> i]]]
          /\ room' = [room EXCEPT ![s] = Cap + k]
    BY <1>1 DEF Events!Seed
  <2> DEFINE seeds == [i \in 1 .. k |-> [from |-> "seed", n |-> i]]
  <2>2. seeds \in Seq(Events!Event) /\ Len(seeds) = k
    BY DEF Events!Event
  <2> HIDE DEF seeds
  <2>3. ch' \in [Subs -> Seq(Events!Event)] /\ room' \in [Subs -> Nat]
    BY <2>1, <2>2 DEF seeds
  <2>4. \A t \in Subs : Len(ch'[t]) <= room'[t]
    BY <2>1, <2>2 DEF seeds
  <2> QED
    BY <1>1, <2>3, <2>4 DEF Events!Seed, Events!Enter
<1>2. ASSUME NEW s \in Subs, Events!Register(s) \/ Events!Remove(s) \/ Events!Close(s)
      PROVE  Events!TypeOK'
  BY <1>2 DEF Events!Register, Events!Remove, Events!Close, Events!Enter
<1>3. ASSUME NEW s \in Subs, Events!Receive(s) PROVE Events!TypeOK'
  <2>1. /\ ch[s] \in Seq(Events!Event) /\ ch[s] # <<>> /\ got[s] \in Seq(Events!Event)
        /\ ch' = [ch EXCEPT ![s] = Tail(ch[s])]
        /\ got' = [got EXCEPT ![s] = Append(got[s], Head(ch[s]))]
    BY <1>3 DEF Events!Receive
  <2>2. /\ Tail(ch[s]) \in Seq(Events!Event) /\ Len(Tail(ch[s])) <= Len(ch[s])
        /\ Append(got[s], Head(ch[s])) \in Seq(Events!Event)
    BY <2>1
  <2>3. ch' \in [Subs -> Seq(Events!Event)] /\ got' \in [Subs -> Seq(Events!Event)]
    BY <2>1, <2>2
  <2>4. \A t \in Subs : Len(ch'[t]) <= room[t]
    <3> TAKE t \in Subs
    <3>1. Len(ch[t]) \in Nat /\ Len(Tail(ch[s])) \in Nat /\ room[t] \in Nat
      BY <2>1, <2>2
    <3> QED
      BY <2>1, <2>2, <3>1
  <2> QED
    BY <1>3, <2>3, <2>4 DEF Events!Receive
<1>4. ASSUME NEW p \in Pubs, Events!Publish(p) \/ Events!Published(p) PROVE Events!TypeOK'
  <2>1. CASE Events!Publish(p)
    BY <2>1 DEF Events!Publish
  <2>2. CASE Events!Published(p)
    BY <2>2 DEF Events!Published
  <2> QED
    BY <1>4, <2>1, <2>2
<1>5. ASSUME NEW p \in Pubs, NEW s \in Subs, Events!Deliver(p, s) PROVE Events!TypeOK'
  <2> DEFINE e == [from |-> p, n |-> pub[p].n]
  <2>1. e \in Events!Event
    BY DEF Events!Event
  <2> HIDE DEF e
  <2>2. /\ ch' = IF Len(ch[s]) < room[s] THEN [ch EXCEPT ![s] = Append(ch[s], e)] ELSE ch
        /\ UNCHANGED room
    BY <1>5 DEF Events!Deliver, e
  <2>3. Append(ch[s], e) \in Seq(Events!Event) /\ Len(Append(ch[s], e)) = Len(ch[s]) + 1
    BY <2>1
  <2>4. ch' \in [Subs -> Seq(Events!Event)]
    BY <2>2, <2>3
  <2>5. \A t \in Subs : Len(ch'[t]) <= room'[t]
    <3> TAKE t \in Subs
    <3>1. Len(ch[t]) \in Nat /\ Len(ch[s]) \in Nat /\ room[s] \in Nat /\ Len(ch[t]) <= room[t]
      OBVIOUS
    <3> QED
      BY <2>2, <2>3, <3>1
  <2>6. pub' \in [Pubs -> [n : Nat, todo : SUBSET Subs]]
    BY <1>5 DEF Events!Deliver
  <2> QED
    BY <1>5, <2>4, <2>5, <2>6 DEF Events!Deliver
<1>6. CASE UNCHANGED eventVars
  BY <1>6 DEF eventVars
<1> QED
  BY <1>1, <1>2, <1>3, <1>4, <1>5, <1>6 DEF Events!Next, Events!Publisher

\* Nobody is registered, removed or closed under a publisher that holds the lock
\* and has still to visit them.
LEMMA LockedStep ==
  ASSUME Events!TypeOK, Locked, [Events!Next]_eventVars
  PROVE  Locked'
<1> USE DEF Events!TypeOK, Locked
<1>1. ASSUME NEW s \in Subs, Events!Seed(s) PROVE Locked'
  BY <1>1 DEF Events!Seed, Events!Enter
<1>2. ASSUME NEW s \in Subs, Events!Register(s) PROVE Locked'
  BY <1>2 DEF Events!Register, Events!Enter
<1>3. ASSUME NEW s \in Subs, Events!Remove(s) PROVE Locked'
  BY <1>3 DEF Events!Remove, Events!Enter
<1>4. ASSUME NEW s \in Subs, Events!Close(s) PROVE Locked'
  BY <1>4 DEF Events!Close, Events!Enter
<1>5. ASSUME NEW s \in Subs, Events!Receive(s) PROVE Locked'
  BY <1>5 DEF Events!Receive
<1>6. ASSUME NEW p \in Pubs, Events!Publish(p) \/ Events!Published(p) PROVE Locked'
  <2>1. CASE Events!Publish(p)
    BY <2>1 DEF Events!Publish
  <2>2. CASE Events!Published(p)
    BY <2>2 DEF Events!Published
  <2> QED
    BY <1>6, <2>1, <2>2
<1>7. ASSUME NEW p \in Pubs, NEW s \in Subs, Events!Deliver(p, s) PROVE Locked'
  BY <1>7 DEF Events!Deliver
<1>8. CASE UNCHANGED eventVars
  BY <1>8 DEF eventVars
<1> QED
  BY <1>1, <1>2, <1>3, <1>4, <1>5, <1>6, <1>7, <1>8 DEF Events!Next, Events!Publisher

\* An unregistered channel without seeds is empty.
LEMMA UnseededStep ==
  ASSUME Events!TypeOK, Locked, Unseeded, [Events!Next]_eventVars
  PROVE  Unseeded'
<1> USE DEF Events!TypeOK, Locked, Unseeded
<1>1. ASSUME NEW s \in Subs,
             Events!Seed(s) \/ Events!Register(s) \/ Events!Remove(s) \/ Events!Close(s)
      PROVE  Unseeded'
  BY <1>1 DEF Events!Seed, Events!Register, Events!Remove, Events!Close, Events!Enter
<1>2. ASSUME NEW s \in Subs, Events!Receive(s) PROVE Unseeded'
  BY <1>2 DEF Events!Receive
<1>3. ASSUME NEW p \in Pubs, Events!Publish(p) \/ Events!Published(p) PROVE Unseeded'
  BY <1>3 DEF Events!Publish, Events!Published
<1>4. ASSUME NEW p \in Pubs, NEW s \in Subs, Events!Deliver(p, s) PROVE Unseeded'
  <2>1. stage[s] # "new"
    BY <1>4 DEF Events!Deliver
  <2> QED
    BY <1>4, <2>1 DEF Events!Deliver
<1>5. CASE UNCHANGED eventVars
  BY <1>5 DEF eventVars
<1> QED
  BY <1>1, <1>2, <1>3, <1>4, <1>5 DEF Events!Next, Events!Publisher

\* The order of one sequence of events, and how it relates to one publisher.
Sorted(g) ==
  \A i, j \in DOMAIN g :
    i < j =>
      /\ g[i].from = g[j].from => g[i].n < g[j].n
      /\ g[j].from = "seed" => g[i].from = "seed"

Older(g, p, s) ==
  \A i \in DOMAIN g :
    g[i].from = p => g[i].n <= pub[p].n /\ (s \in pub[p].todo => g[i].n < pub[p].n)

\* An event newer than all of its publisher's goes to the end of the order.
LEMMA AppendSorted ==
  ASSUME NEW g \in Seq(Events!Event), Sorted(g), NEW e \in Events!Event, e.from # "seed",
         \A i \in DOMAIN g : g[i].from = e.from => g[i].n < e.n
  PROVE  Sorted(Append(g, e))
<1> DEFINE h == Append(g, e)
<1>1. /\ Len(g) \in Nat /\ DOMAIN g = 1 .. Len(g) /\ DOMAIN h = 1 .. Len(g) + 1
      /\ \A i \in 1 .. Len(g) : h[i] = g[i]
      /\ h[Len(g) + 1] = e
  OBVIOUS
<1> HIDE DEF h
<1> SUFFICES ASSUME NEW i \in DOMAIN h, NEW j \in DOMAIN h, i < j
             PROVE  /\ h[i].from = h[j].from => h[i].n < h[j].n
                    /\ h[j].from = "seed" => h[i].from = "seed"
  BY DEF Sorted, h
<1>2. i \in DOMAIN g /\ h[i] = g[i]
  BY <1>1
<1>3. CASE j \in DOMAIN g
  BY <1>1, <1>2, <1>3 DEF Sorted
<1>4. CASE j = Len(g) + 1
  BY <1>1, <1>2, <1>4
<1> QED
  BY <1>1, <1>3, <1>4

\* What a step adds to what a subscriber was given: nothing, its seeds when it
\* had nothing, or one event that a publisher under way owes it.
LEMMA GivenStep ==
  ASSUME Events!BrokerConstants, Events!TypeOK, Locked, Unseeded, [Events!Next]_eventVars,
         NEW s \in Subs
  PROVE  \/ Events!Given(s)' = Events!Given(s)
         \/ \E k \in Nat : Events!Given(s)' = [i \in 1 .. k |-> [from |-> "seed", n |-> i]]
         \/ \E p \in Pubs :
              /\ s \in pub[p].todo /\ pub' = [pub EXCEPT ![p].todo = @ \ {s}]
              /\ Events!Given(s)' = Append(Events!Given(s), [from |-> p, n |-> pub[p].n])
<1> USE DEF Events!TypeOK
<1>1. ASSUME NEW t \in Subs, Events!Seed(t)
      PROVE  \/ Events!Given(s)' = Events!Given(s)
             \/ \E k \in Nat : Events!Given(s)' = [i \in 1 .. k |-> [from |-> "seed", n |-> i]]
  <2>1. CASE t # s
    BY <1>1, <2>1 DEF Events!Seed, Events!Given
  <2>2. CASE t = s
    <3>1. PICK k \in 0 .. MaxSeed :
            ch' = [ch EXCEPT ![s] = [i \in 1 .. k |-> [from |-> "seed", n |-> i]]]
      BY <1>1, <2>2 DEF Events!Seed
    <3> DEFINE seeds == [i \in 1 .. k |-> [from |-> "seed", n |-> i]]
    <3>2. k \in Nat /\ seeds \in Seq(Events!Event)
      BY DEF Events!BrokerConstants, Events!Event
    <3>3. got'[s] = <<>> /\ ch'[s] = seeds
      BY <1>1, <2>2, <3>1 DEF Events!Seed, Unseeded
    <3> HIDE DEF seeds
    <3>4. Events!Given(s)' = seeds
      BY <3>2, <3>3, ConcatEmptySeq DEF Events!Given
    <3> QED
      BY <3>2, <3>4 DEF seeds
  <2> QED
    BY <2>1, <2>2
<1>2. ASSUME NEW t \in Subs, Events!Register(t) \/ Events!Remove(t) \/ Events!Close(t)
      PROVE  Events!Given(s)' = Events!Given(s)
  BY <1>2 DEF Events!Register, Events!Remove, Events!Close, Events!Given
<1>3. ASSUME NEW t \in Subs, Events!Receive(t)
      PROVE  Events!Given(s)' = Events!Given(s)
  <2>1. CASE t # s
    BY <1>3, <2>1 DEF Events!Receive, Events!Given
  <2>2. CASE t = s
    <3>1. /\ ch[s] \in Seq(Events!Event) /\ got[s] \in Seq(Events!Event) /\ ch[s] # <<>>
          /\ got'[s] = Append(got[s], Head(ch[s])) /\ ch'[s] = Tail(ch[s])
      BY <1>3, <2>2 DEF Events!Receive
    <3> QED
      BY <3>1, ReadKeeps DEF Events!Given
  <2> QED
    BY <2>1, <2>2
<1>4. ASSUME NEW p \in Pubs, Events!Publish(p) \/ Events!Published(p)
      PROVE  Events!Given(s)' = Events!Given(s)
  BY <1>4 DEF Events!Publish, Events!Published, Events!Given
<1>5. ASSUME NEW p \in Pubs, NEW t \in Subs, Events!Deliver(p, t)
      PROVE  \/ Events!Given(s)' = Events!Given(s)
             \/ /\ s \in pub[p].todo /\ pub' = [pub EXCEPT ![p].todo = @ \ {s}]
                /\ Events!Given(s)' = Append(Events!Given(s), [from |-> p, n |-> pub[p].n])
  <2> DEFINE e == [from |-> p, n |-> pub[p].n]
  <2>1. e \in Events!Event
    BY DEF Events!Event
  <2> HIDE DEF e
  <2>2. CASE t # s \/ ~(Len(ch[t]) < room[t])
    BY <1>5, <2>2 DEF Events!Deliver, Events!Given
  <2>3. CASE t = s /\ Len(ch[t]) < room[t]
    <3>1. /\ ch[s] \in Seq(Events!Event) /\ got[s] \in Seq(Events!Event)
          /\ got'[s] = got[s] /\ ch'[s] = Append(ch[s], e)
          /\ s \in pub[p].todo /\ pub' = [pub EXCEPT ![p].todo = @ \ {s}]
      BY <1>5, <2>3 DEF Events!Deliver, e
    <3>2. Events!Given(s)' = Append(Events!Given(s), e)
      <4>1. got[s] \o Append(ch[s], e) = Append(got[s] \o ch[s], e)
        BY <2>1, <3>1, SendAppends, Zenon
      <4> QED
        BY <3>1, <4>1 DEF Events!Given
    <3> QED
      BY <3>1, <3>2 DEF e
  <2> QED
    BY <2>2, <2>3
<1>6. CASE UNCHANGED eventVars
  BY <1>6 DEF eventVars, Events!Given
<1> QED
  BY <1>1, <1>2, <1>3, <1>4, <1>5, <1>6 DEF Events!Next, Events!Publisher

\* The events a subscriber was given are no newer than their publishers' last,
\* and older where that is still owed.
LEMMA NumberedStep ==
  ASSUME Events!BrokerConstants, Events!TypeOK, Locked, Unseeded, Numbered,
         [Events!Next]_eventVars
  PROVE  Numbered'
<1> SUFFICES ASSUME NEW s \in Subs, NEW p \in Pubs
             PROVE  \A i \in DOMAIN Events!Given(s)' :
                      Events!Given(s)'[i].from = p =>
                        /\ Events!Given(s)'[i].n <= pub'[p].n
                        /\ s \in pub'[p].todo => Events!Given(s)'[i].n < pub'[p].n
  BY DEF Numbered
<1>0. Events!Given(s) \in Seq(Events!Event) /\ pub \in [Pubs -> [n : Nat, todo : SUBSET Subs]]
  BY GivenType DEF Events!TypeOK
<1>1. \A i \in DOMAIN Events!Given(s) :
        /\ Events!Given(s)[i].n \in Nat
        /\ Events!Given(s)[i].from = p =>
             /\ Events!Given(s)[i].n <= pub[p].n
             /\ s \in pub[p].todo => Events!Given(s)[i].n < pub[p].n
  <2> TAKE i \in DOMAIN Events!Given(s)
  <2>1. Events!Given(s)[i] \in Events!Event
    BY <1>0
  <2>2. Events!Given(s)[i].n \in Nat
    BY <2>1 DEF Events!Event
  <2> QED
    BY <2>2 DEF Numbered
<1>2. \/ pub'[p].n = pub[p].n /\ pub'[p].todo \subseteq pub[p].todo
      \/ pub'[p].n = pub[p].n + 1 /\ Events!Given(s)' = Events!Given(s)
  <2>1. ASSUME NEW q \in Pubs, Events!Publish(q)
        PROVE  /\ pub'[p] = pub[p] \/ pub'[p].n = pub[p].n + 1
               /\ Events!Given(s)' = Events!Given(s)
    BY <1>0, <2>1 DEF Events!Publish, Events!Given
  <2>2. ASSUME NEW q \in Pubs, Events!Publisher(q)
        PROVE  pub'[p].n = pub[p].n /\ pub'[p].todo \subseteq pub[p].todo
    BY <1>0, <2>2 DEF Events!Publisher, Events!Published, Events!Deliver
  <2>3. ASSUME NEW t \in Subs,
               \/ Events!Seed(t) \/ Events!Register(t) \/ Events!Remove(t)
               \/ Events!Close(t) \/ Events!Receive(t)
        PROVE  pub' = pub
    BY <2>3 DEF Events!Seed, Events!Register, Events!Remove, Events!Close, Events!Receive
  <2> QED
    BY <2>1, <2>2, <2>3 DEF Events!Next, eventVars
<1>3. CASE Events!Given(s)' = Events!Given(s)
  BY <1>0, <1>1, <1>2, <1>3
<1>4. CASE \E k \in Nat : Events!Given(s)' = [i \in 1 .. k |-> [from |-> "seed", n |-> i]]
  BY <1>4 DEF Events!BrokerConstants
<1>5. ASSUME NEW q \in Pubs, s \in pub[q].todo, pub' = [pub EXCEPT ![q].todo = @ \ {s}],
             Events!Given(s)' = Append(Events!Given(s), [from |-> q, n |-> pub[q].n])
      PROVE  \A i \in DOMAIN Events!Given(s)' :
               Events!Given(s)'[i].from = p =>
                 /\ Events!Given(s)'[i].n <= pub'[p].n
                 /\ s \in pub'[p].todo => Events!Given(s)'[i].n < pub'[p].n
  <2> DEFINE e == [from |-> q, n |-> pub[q].n]
  <2>1. e \in Events!Event /\ e.from = q /\ e.n = pub[q].n
    BY <1>0 DEF Events!Event
  <2> HIDE DEF e
  <2>2. /\ Len(Events!Given(s)) \in Nat /\ DOMAIN Events!Given(s) = 1 .. Len(Events!Given(s))
        /\ DOMAIN Events!Given(s)' = 1 .. Len(Events!Given(s)) + 1
        /\ \A i \in 1 .. Len(Events!Given(s)) : Events!Given(s)'[i] = Events!Given(s)[i]
        /\ Events!Given(s)'[Len(Events!Given(s)) + 1] = e
    BY <1>0, <1>5, <2>1 DEF e
  <2>3. pub'[p].n = pub[p].n /\ pub'[p].todo = IF p = q THEN pub[p].todo \ {s} ELSE pub[p].todo
    BY <1>0, <1>5
  <2> TAKE i \in DOMAIN Events!Given(s)'
  <2>4. CASE i \in DOMAIN Events!Given(s)
    BY <1>1, <2>2, <2>3, <2>4
  <2>5. CASE i = Len(Events!Given(s)) + 1
    <3>1. pub[p].n \in Nat
      BY <1>0
    <3> QED
      BY <2>1, <2>2, <2>3, <2>5, <3>1
  <2> QED
    BY <2>2, <2>4, <2>5
<1> QED
  BY <1>3, <1>4, <1>5, GivenStep

\* A step keeps what every subscriber was given in order.
LEMMA OrderStep ==
  ASSUME Events!BrokerConstants, Events!TypeOK, Locked, Unseeded, Numbered,
         Events!InOrder, [Events!Next]_eventVars
  PROVE  Events!InOrder'
<1> SUFFICES ASSUME NEW s \in Subs PROVE Sorted(Events!Given(s)')
  BY DEF Events!InOrder, Sorted
<1>0. Events!Given(s) \in Seq(Events!Event) /\ Sorted(Events!Given(s))
  BY GivenType DEF Events!InOrder, Sorted
<1>1. CASE \E k \in Nat : Events!Given(s)' = [i \in 1 .. k |-> [from |-> "seed", n |-> i]]
  BY <1>1 DEF Sorted
<1>2. ASSUME NEW p \in Pubs, s \in pub[p].todo,
             Events!Given(s)' = Append(Events!Given(s), [from |-> p, n |-> pub[p].n])
      PROVE  Sorted(Events!Given(s)')
  <2> DEFINE e == [from |-> p, n |-> pub[p].n]
  <2>1. e \in Events!Event /\ e.from = p /\ e.n = pub[p].n /\ e.from # "seed"
    BY DEF Events!TypeOK, Events!Event, Events!BrokerConstants
  <2> HIDE DEF e
  <2>2. \A i \in DOMAIN Events!Given(s) :
          Events!Given(s)[i].from = e.from => Events!Given(s)[i].n < e.n
    BY <1>2, <2>1 DEF Numbered
  <2> QED
    BY <1>0, <1>2, <2>1, <2>2, AppendSorted DEF e
<1> QED
  BY <1>0, <1>1, <1>2, GivenStep

\* Nobody has subscribed or published at first.
LEMMA EventsInit == Events!BrokerConstants /\ Events!Init => EventsIInv
<1> SUFFICES ASSUME Events!BrokerConstants, Events!Init PROVE EventsIInv
  OBVIOUS
<1>1. Events!TypeOK /\ Locked /\ Unseeded
  BY DEF Events!Init, Events!TypeOK, Locked, Unseeded
<1>2. \A s \in Subs : Events!Given(s) = <<>>
  BY DEF Events!Init, Events!Given
<1>3. Numbered /\ Events!InOrder
  BY <1>2 DEF Numbered, Events!InOrder
<1> QED
  BY <1>1, <1>3 DEF EventsIInv

\* The strengthening is inductive.
LEMMA EventsStep ==
  ASSUME Events!BrokerConstants, EventsIInv, [Events!Next]_eventVars
  PROVE  EventsIInv'
BY TypeStep, LockedStep, UnseededStep, NumberedStep, OrderStep DEF EventsIInv

LEMMA EventsConsequences == ASSUME EventsIInv PROVE Events!Delivers
<1>1. Events!TypeOK /\ Locked => Events!NoSendOnClosed
  BY DEF Events!TypeOK, Locked, Events!NoSendOnClosed
<1> QED
  BY <1>1 DEF EventsIInv, Events!Delivers

(***************************************************************************)
(* The components side by side.                                            *)
(***************************************************************************)

\* The three strengthenings hold together: a step is one component's.
Held == LoopIInv /\ LimitsIInv /\ EventsIInv

LEMMA Constants ==
  Loop!LoopConstants /\ Limits!LimitConstants /\ Events!BrokerConstants
BY ServicesAssumption DEF ServicesAssumption

LEMMA StepParts ==
  ASSUME [Next]_vars
  PROVE  /\ Loop!Next \/ UNCHANGED loopVars
         /\ [Limits!Next]_limitVars
         /\ [Events!Next]_eventVars
BY DEF Next, vars

LEMMA HeldStep == ASSUME Held, [Next]_vars PROVE Held'
<1>1. LoopIInv'
  BY StepParts, Constants, LoopStep DEF Held
<1>2. LimitsIInv'
  BY StepParts, Constants, LimitsStep DEF Held
<1>3. EventsIInv'
  BY StepParts, Constants, EventsStep DEF Held
<1> QED
  BY <1>1, <1>2, <1>3 DEF Held

(***************************************************************************)
(* Theorems.                                                               *)
(***************************************************************************)

\* Every reachable state satisfies the three strengthenings.
THEOREM ServicesInv == Spec => []Held
<1>1. Init => Held
  BY Constants, LoopInit, LimitsInit, EventsInit
  DEF Init, Held
<1>2. Held /\ [Next]_vars => Held'
  BY HeldStep
<1> QED
  BY <1>1, <1>2, PTL DEF Spec

\* The consumer of a turn's stream gets the log's records in order, none skipped,
\* none twice (pkg/sender/turnloop.go:107); one turn.started, first, and at most one
\* turn.ended, last, which is missing only when the turn failed or never started
\* (turnloop.go:57,125,174); and, when the tailer was stopped between two polls, all
\* that was on disk then (tail.go:156).
THEOREM TurnsForwarded == Spec => []Forwarding
<1>1. Held => Forwarding
  BY Constants, LoopConsequences DEF Held, Forwarding
<1> QED
  BY <1>1, ServicesInv, PTL

\* A session that waits for its limit's reset has what will wake it, and resumes
\* are bounded, whatever the user, the turns and late callbacks do
\* (pkg/router/usagelimit.go:58): by maxLimitResumes, or by one for the switch and
\* one for each time it was turned on again while a callback waited for the lock,
\* whose timer outlives the callback (usagelimit.go:176).
THEOREM WaitsBounded == Spec => []Bounded
<1>1. Held => Bounded
  BY Constants, LimitsBounded DEF Held, Bounded
<1> QED
  BY <1>1, ServicesInv, PTL

\* No resume begins before the reset of the limit it finds
\* (pkg/router/usagelimit.go:75).
THEOREM NoEarlyResume == Spec => ResumesAfterReset
<1>1. Held /\ [Next]_vars => ~Limits!EarlyResume
  BY StepParts, Constants, NotEarly DEF Held
<1> QED
  BY <1>1, ServicesInv, PTL DEF Spec, ResumesAfterReset, vars

\* The broker never sends on a closed channel, whoever cancels while others
\* publish, and what reaches a subscriber is in each publisher's order and never
\* twice (pkg/broker/broker.go:63,103).
THEOREM EventsDelivered == Spec => []Delivers
<1>1. Held => Delivers
  BY EventsConsequences DEF Held, Delivers
<1> QED
  BY <1>1, ServicesInv, PTL
=============================================================================
