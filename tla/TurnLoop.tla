------------------------------ MODULE TurnLoop ------------------------------
(***************************************************************************)
(* One headless turn of the Claude or Codex backend as the sender runs it: *)
(* the loop goroutine of mergeLoggedTurn (pkg/sender/turnloop.go) merges   *)
(* the protocol's deltas and terminal result with the records the tailer   *)
(* goroutine of tailTurn (pkg/sender/tail.go) reads from the session log.  *)
(* Both read a context the user may cancel at any moment; the backend      *)
(* process appends to the log and reports its result on clocks of its own. *)
(*                                                                         *)
(* Every production Sender sets contentOnly, so the tailer never ends a    *)
(* turn by a marker of its own; that branch of tail.go is left out.  Timers*)
(* (look, quiet, ceiling, grace) may fire at any moment they are armed.    *)
(* The 64-slot channels never fill with MaxLines records, so both are      *)
(* unbounded here; a select that finds its context cancelled may still     *)
(* take the send, as Go's may.                                             *)
(***************************************************************************)
EXTENDS Naturals, Sequences, FiniteSets

CONSTANTS
  MaxLines,   \* bound: records appended to the log since the turn began
  MaxDeltas   \* bound: live deltas the protocol sends

LoopConstants == MaxLines \in Nat /\ MaxDeltas \in Nat

VARIABLES
  log,        \* the lines appended to the session log, "rec" or "end" (marker)
  exists,     \* is there a log file that locate finds?
  result,     \* the done channel: "none", a kind of result, or "taken"
  deltas,     \* deltas waiting in the protocol's channel
  cancelled,  \* is the caller's ctx cancelled?
  loop,       \* the loop goroutine's position
  seen,       \* its terminalSeen flag
  exited,     \* finishCancelled's exited flag
  out,        \* every event sent on the stream, oldest first
  tail,       \* the tailer goroutine's position
  rd,         \* lines the tailer has read
  hand,       \* is the tailer's read line sent under the cancellable context?
  last,       \* the tailer saw its cancellation and is on its last read to EOF
  stopped,    \* is the tailer's context cancelled?
  events,     \* the tailer's channel to the loop
  onDisk,     \* history: lines on disk when the tailer was told to stop
  idle,       \* history: the tailer was not in the middle of a line then
  faulted     \* history: the log file failed under the tailer

turnVars == <<log, exists, result, deltas, cancelled>>
loopVars == <<loop, seen, exited, out>>
tailVars == <<tail, rd, hand, last, stopped, events, onDisk, idle, faulted>>
vars == <<turnVars, loopVars, tailVars>>

ResultKinds == {"ok", "failed", "limited"}
LoopStates == {"start", "run", "await", "drain", "force",
               "finish", "finishDrain", "finishForce", "closed"}
TailStates == {"off", "open", "read", "send", "wait", "done"}

Ctl(type) == [type |-> type, line |-> 0]
Rec(i) == [type |-> "record", line |-> i]
Event == [type : {"started", "delta", "limited", "failed", "ended", "record"},
          line : 0 .. MaxLines]

\* terminalMarker of tail.go: the backend's end-of-turn or abort record.
IsMarker(ev) == ev.type = "record" /\ log[ev.line] = "end"

\* What the result callbacks of claudeTurn and appLoggedTurn send.
ResultEvents(kind) ==
  CASE kind = "limited" -> <<Ctl("limited"), Ctl("failed")>>
    [] kind = "failed" -> <<Ctl("failed")>>
    [] OTHER -> <<>>

TypeOK ==
  /\ log \in Seq({"rec", "end"}) /\ Len(log) <= MaxLines
  /\ exists \in BOOLEAN
  /\ result \in ResultKinds \union {"none", "taken"}
  /\ deltas \in 0 .. MaxDeltas
  /\ cancelled \in BOOLEAN
  /\ loop \in LoopStates
  /\ seen \in BOOLEAN /\ exited \in BOOLEAN
  /\ out \in Seq(Event)
  /\ tail \in TailStates
  /\ rd \in 0 .. Len(log)
  /\ hand \in BOOLEAN /\ last \in BOOLEAN /\ stopped \in BOOLEAN
  /\ events \in Seq(Event)
  /\ onDisk \in 0 .. Len(log) /\ idle \in BOOLEAN /\ faulted \in BOOLEAN

\* A turn begins with the prompt just handed to the backend; an existing
\* session has its log, a new one gets it when the backend writes first.
Init ==
  /\ log = <<>> /\ exists \in BOOLEAN
  /\ result = "none" /\ deltas \in 0 .. MaxDeltas /\ cancelled = FALSE
  /\ loop = "start" /\ seen = FALSE /\ exited = FALSE /\ out = <<>>
  /\ tail = "off" /\ rd = 0 /\ hand = FALSE /\ last = FALSE
  /\ stopped = FALSE /\ events = <<>> /\ onDisk = 0 /\ idle = FALSE /\ faulted = FALSE

-----------------------------------------------------------------------------
(* The environment: the backend process, its log, and the user.            *)

\* The backend, or another frontend on the same log, appends one line.
Append1(line) ==
  /\ Len(log) < MaxLines
  /\ log' = Append(log, line) /\ exists' = TRUE
  /\ UNCHANGED <<result, deltas, cancelled, loopVars, tailVars>>

\* The protocol reports the turn's terminal result, once.
Report(kind) ==
  /\ result = "none"
  /\ result' = kind
  /\ UNCHANGED <<log, exists, deltas, cancelled, loopVars, tailVars>>

\* The caller's context is cancelled: CancelSend, a pause, a delete.
Cancel ==
  /\ ~cancelled /\ loop # "closed"
  /\ cancelled' = TRUE
  /\ UNCHANGED <<log, exists, result, deltas, loopVars, tailVars>>

-----------------------------------------------------------------------------
(* The loop goroutine.                                                     *)

\* sendEvent under ctx: certain while ctx lives, a coin toss once cancelled.
MayFail == cancelled

\* locate: find the log and start its tailer.
Locate ==
  IF tail = "off" /\ exists
    THEN tail' = "open" /\ UNCHANGED <<rd, hand, last, stopped, events, onDisk, idle, faulted>>
    ELSE UNCHANGED tailVars

\* cancel(): the tailer's context, detached from ctx, is cancelled.
MarkStop ==
  /\ stopped' = TRUE
  /\ onDisk' = Len(log)
  /\ idle' = (tail \in {"open", "wait"})

StopTail == MarkStop /\ UNCHANGED <<tail, rd, hand, last, events, faulted>>

TurnStarted ==
  /\ loop = "start"
  /\ \/ /\ out' = <<Ctl("started")>> /\ loop' = "run"
        /\ Locate
     \/ /\ MayFail
        /\ loop' = "closed" /\ UNCHANGED <<out, tailVars>>
  /\ UNCHANGED <<turnVars, seen, exited>>

\* The look timer: a new session's log may have appeared.
Look ==
  /\ loop = "run" /\ tail = "off" /\ exists
  /\ Locate
  /\ UNCHANGED <<turnVars, loopVars>>

\* A live delta; one that cannot be sent is lost to the cancellation.
Delta ==
  /\ loop = "run" /\ deltas > 0
  /\ deltas' = deltas - 1
  /\ \/ out' = Append(out, Ctl("delta")) /\ UNCHANGED loop
     \/ MayFail /\ loop' = "finish" /\ UNCHANGED out
  /\ UNCHANGED <<log, exists, result, cancelled, seen, exited, tailVars>>

\* Mutant: an event that cannot be sent under ctx is lost.
TailEventLost ==
  /\ loop = "run" /\ events # <<>>
  /\ LET ev == Head(events) IN
       \/ out' = Append(out, ev) /\ seen' = (seen \/ IsMarker(ev)) /\ UNCHANGED <<loop, exited>>
       \/ /\ MayFail /\ loop' = "finish"
          /\ seen' = FALSE /\ exited' = FALSE /\ UNCHANGED out
  /\ events' = Tail(events)
  /\ UNCHANGED <<turnVars, tail, rd, hand, last, stopped, onDisk, idle, faulted>>

\* A tailed event; one that cannot be sent under ctx is finishCancelled's
\* pending event, which it sends first, under a context of its own.
TailEvent ==
  /\ loop = "run" /\ events # <<>>
  /\ LET ev == Head(events) IN
       /\ out' = Append(out, ev)
       /\ \/ seen' = (seen \/ IsMarker(ev)) /\ UNCHANGED <<loop, exited>>
          \/ /\ MayFail
             /\ loop' = "finish"
             /\ seen' = IsMarker(ev) /\ exited' = (ev.type = "ended")
  /\ events' = Tail(events)
  /\ UNCHANGED <<turnVars, tail, rd, hand, last, stopped, onDisk, idle, faulted>>

EventsClosed == tail = "done" /\ events = <<>>

\* The tailer gave up: only the result, or a cancellation, is left to wait for.
TailLost ==
  /\ loop = "run" /\ EventsClosed
  /\ loop' = "await"
  /\ UNCHANGED <<turnVars, seen, exited, out, tailVars>>

AwaitResult ==
  /\ loop = "await"
  /\ \/ /\ result \in ResultKinds
        /\ out' = out \o ResultEvents(result) /\ result' = "taken"
     \/ /\ cancelled
        /\ UNCHANGED <<out, result>>
  /\ loop' = "closed"
  /\ UNCHANGED <<log, exists, deltas, cancelled, seen, exited, tailVars>>

\* The terminal result: its events, then the drain, or an error when the log
\* never appeared.  A marker already forwarded stops the tailer at once.
TurnResult ==
  /\ loop = "run" /\ result \in ResultKinds
  /\ result' = "taken"
  /\ \/ /\ tail = "off" /\ ~exists
        /\ out' = out \o ResultEvents(result) \o <<Ctl("failed")>>
        /\ loop' = "closed" /\ UNCHANGED tailVars
     \/ /\ tail # "off" \/ exists
        /\ out' = out \o ResultEvents(result)
        /\ IF seen THEN loop' = "force" /\ StopTail
                   ELSE loop' = "drain" /\ Locate
  /\ UNCHANGED <<log, exists, deltas, cancelled, seen, exited>>

TurnCancelled ==
  /\ loop = "run" /\ cancelled
  /\ loop' = "finish" /\ seen' = FALSE /\ exited' = FALSE
  /\ UNCHANGED <<turnVars, out, tailVars>>

(* finishCancelled: a grace period for the result, then the drain.         *)

FinishEvent ==
  /\ loop = "finish" /\ events # <<>>
  /\ LET ev == Head(events) IN
       /\ out' = Append(out, ev)
       /\ seen' = (seen \/ IsMarker(ev))
       /\ exited' = (exited \/ ev.type = "ended")
  /\ events' = Tail(events)
  /\ UNCHANGED <<turnVars, loop, tail, rd, hand, last, stopped, onDisk, idle, faulted>>

\* Mutants: the exit is sent whether or not the tailer sent one, or never.
ExitAlways == <<Ctl("ended")>>
ExitNever == <<>>

\* The exit finishCancelled owes the consumer if no tailer sent one.
OwedExit == IF exited THEN <<>> ELSE <<Ctl("ended")>>

FinishTailLost ==
  /\ loop = "finish" /\ EventsClosed
  /\ out' = out \o OwedExit /\ loop' = "closed"
  /\ UNCHANGED <<turnVars, seen, exited, tailVars>>

\* Mutant: no grace timer.
FinishWaitsForResult ==
  /\ loop = "finish" /\ result \in ResultKinds /\ result' = "taken"
  /\ out' = out \o ResultEvents(result)
  /\ IF seen THEN loop' = "finishForce" /\ StopTail
             ELSE loop' = "finishDrain" /\ UNCHANGED tailVars
  /\ UNCHANGED <<log, exists, deltas, cancelled, seen, exited>>

\* The result arrives, or the grace timer fires without one.
FinishWaited ==
  /\ loop = "finish"
  /\ \E sent \in {<<>>, ResultEvents(result)} :
       /\ \/ result \in ResultKinds /\ sent = ResultEvents(result) /\ result' = "taken"
          \/ sent = <<>> /\ UNCHANGED result
       /\ IF tail = "off"
            THEN out' = out \o sent \o OwedExit /\ loop' = "closed" /\ UNCHANGED tailVars
            ELSE /\ out' = out \o sent
                 /\ IF seen THEN loop' = "finishForce" /\ StopTail
                            ELSE loop' = "finishDrain" /\ UNCHANGED tailVars
  /\ UNCHANGED <<log, exists, deltas, cancelled, seen, exited>>

(* drainTail, called on both paths: until the marker, silence or ceiling.   *)

Draining == loop \in {"drain", "finishDrain"}
Forcing == loop \in {"force", "finishForce"}
Forced == IF loop = "drain" THEN "force" ELSE "finishForce"

DrainEvent ==
  /\ Draining /\ events # <<>>
  /\ LET ev == Head(events) IN
       /\ out' = Append(out, ev)
       /\ exited' = (exited \/ ev.type = "ended")
       /\ events' = Tail(events)
       /\ IF IsMarker(ev)
            THEN loop' = Forced /\ MarkStop
            ELSE UNCHANGED <<loop, stopped, onDisk, idle>>
  /\ UNCHANGED <<turnVars, seen, tail, rd, hand, last, faulted>>

\* The quiet timer or the ceiling: cancel the tailer, take what it still sends.
DrainTimeout ==
  /\ Draining
  /\ loop' = Forced /\ StopTail
  /\ UNCHANGED <<turnVars, seen, exited, out>>

ForceEvent ==
  /\ Forcing /\ events # <<>>
  /\ out' = Append(out, Head(events))
  /\ exited' = (exited \/ Head(events).type = "ended")
  /\ events' = Tail(events)
  /\ UNCHANGED <<turnVars, loop, seen, tail, rd, hand, last, stopped, onDisk, idle, faulted>>

DrainDone ==
  /\ Draining \/ Forcing
  /\ EventsClosed
  /\ out' = IF loop \in {"finishDrain", "finishForce"} THEN out \o OwedExit ELSE out
  /\ loop' = "closed"
  /\ UNCHANGED <<turnVars, seen, exited, tailVars>>

LoopNext ==
  \/ TurnStarted \/ Look \/ Delta \/ TailEvent \/ TailLost \/ AwaitResult
  \/ TurnResult \/ TurnCancelled
  \/ FinishEvent \/ FinishTailLost \/ FinishWaited
  \/ DrainEvent \/ DrainTimeout \/ ForceEvent \/ DrainDone

-----------------------------------------------------------------------------
(* The tailer goroutine.  When the loop goroutine returns, its deferred     *)
(* cancel stops a tailer that is still running.                             *)

TailCancelled == stopped \/ loop = "closed"

\* Sends of the tailer's own signals use a background context: never lost.
TailSend(evs) == events' = events \o evs

TailOpen ==
  /\ tail = "open"
  /\ \/ exists /\ tail' = "read" /\ UNCHANGED <<events, faulted>>
     \/ /\ \E type \in {"failed"} \union {t \in {"ended"} : TailCancelled} : TailSend(<<Ctl(type)>>)
        /\ tail' = "done" /\ faulted' = TRUE
  /\ UNCHANGED <<turnVars, loopVars, rd, hand, last, stopped, onDisk, idle>>

\* Mutant: the end of the file is not noticed.
TailReadPastEnd ==
  /\ tail = "read"
  /\ rd' = rd + 1 /\ tail' = "send"
  /\ hand' = ~(last \/ TailCancelled)
  /\ UNCHANGED <<turnVars, loopVars, last, stopped, events, onDisk, idle, faulted>>

\* A whole line is read; it goes out under ctx unless ctx was already done.
TailRead ==
  /\ tail = "read" /\ rd < Len(log)
  /\ rd' = rd + 1 /\ tail' = "send"
  /\ hand' = ~(last \/ TailCancelled)
  /\ UNCHANGED <<turnVars, loopVars, last, stopped, events, onDisk, idle, faulted>>

\* A select that finds ctx cancelled may drop the line, and ends the tail.
TailForward ==
  /\ tail = "send"
  /\ \/ tail' = "read" /\ TailSend(<<Rec(rd)>>)
     \/ hand /\ TailCancelled /\ tail' = "done" /\ TailSend(<<Ctl("ended")>>)
  /\ UNCHANGED <<turnVars, loopVars, rd, hand, last, stopped, onDisk, idle, faulted>>

TailEOF ==
  /\ tail = "read" /\ rd = Len(log)
  /\ IF last THEN tail' = "done" /\ TailSend(<<Ctl("ended")>>)
             ELSE tail' = "wait" /\ UNCHANGED events
  /\ UNCHANGED <<turnVars, loopVars, rd, hand, last, stopped, onDisk, idle, faulted>>

\* Mutant: the cancellation ends the tail without the last read through EOF.
TailWakeQuits ==
  /\ tail = "wait"
  /\ \/ TailCancelled /\ tail' = "done" /\ TailSend(<<Ctl("ended")>>)
     \/ rd < Len(log) /\ tail' = "read" /\ UNCHANGED events
  /\ UNCHANGED <<turnVars, loopVars, rd, hand, last, stopped, onDisk, idle, faulted>>

\* The ticker, or the cancellation: one more read through EOF.
TailWake ==
  /\ tail = "wait"
  /\ \/ TailCancelled /\ last' = TRUE
     \/ rd < Len(log) /\ UNCHANGED last
  /\ tail' = "read"
  /\ UNCHANGED <<turnVars, loopVars, rd, hand, stopped, events, onDisk, idle, faulted>>

TailFault ==
  /\ tail = "read"
  /\ tail' = "done" /\ TailSend(<<Ctl("failed"), Ctl("ended")>>)
  /\ faulted' = TRUE
  /\ UNCHANGED <<turnVars, loopVars, rd, hand, last, stopped, onDisk, idle>>

TailNext == TailOpen \/ TailRead \/ TailForward \/ TailEOF \/ TailWake \/ TailFault

-----------------------------------------------------------------------------
Environment ==
  \/ \E line \in {"rec", "end"} : Append1(line)
  \/ \E kind \in ResultKinds : Report(kind)
  \/ Cancel

Next == LoopNext \/ TailNext \/ Environment

\* Goroutines run and armed timers fire; nobody has to write, report or cancel.
Fairness == WF_vars(LoopNext) /\ WF_vars(TailNext)

Spec == Init /\ [][Next]_vars /\ Fairness

-----------------------------------------------------------------------------
(* Properties.                                                             *)

Has(type) == \E i \in DOMAIN out : out[i].type = type

\* A stream's records: in log order, none twice; none past line n; all up to it.
Records(evs) == {i \in DOMAIN evs : evs[i].type = "record"}
Sorted(evs) == \A i, j \in Records(evs) : i < j => evs[i].line < evs[j].line
Within(evs, n) == \A i \in Records(evs) : evs[i].line \in 1 .. n
Full(evs, n) == \A k \in 1 .. n : \E i \in DOMAIN evs : evs[i] = Rec(k)

\* The records reach the consumer in log order with none skipped or repeated,
\* the one pending when the cancellation won a select included.
ForwardedInOrder ==
  LET sent == out \o events IN
    Sorted(sent) /\ \E n \in 0 .. rd : Within(sent, n) /\ Full(sent, n)

\* A turn that starts says so first, ends at most once, and says nothing more:
\* markSendIdle lets the session's next turn begin at turn.ended.  (A tail whose
\* file fails says turn.ended itself, and the loop, unaware, goes on.)
ExitLast ==
  ~faulted => \A i \in DOMAIN out :
    /\ out[i].type = "started" <=> i = 1
    /\ out[i].type = "ended" => i = Len(out)

\* A tailer stopped between two polls still forwards every record on disk:
\* the read through EOF that follows the cancellation (tail.go).
IdleStopComplete ==
  loop = "closed" /\ tail = "done" /\ idle /\ ~faulted => Full(out, onDisk)

\* A stream that closes without turn.ended said turn.failed, or was cancelled
\* before it said turn.started: what SendQueue's Close relies on.
ExitUnlessCutShort == loop = "closed" => Has("ended") \/ Has("failed") \/ out = <<>>

\* A cancelled turn, or one whose result is in, closes its stream.
TurnCloses == (cancelled \/ result # "none") ~> loop = "closed"

\* What reaches the consumer: well typed, in log order, once (turnloop.go:107).
Forwarding == TypeOK /\ ForwardedInOrder

\* The end of a turn: said once and last, and never left out, unless the turn
\* failed or was cut short (turnloop.go:57,125,174).
EndsOnce == ExitLast /\ ExitUnlessCutShort
=============================================================================
