----------------------------- MODULE UsageLimit -------------------------------
(***************************************************************************)
(* A session held by its backend's usage limit, and the prompt that resumes*)
(* it when the limit resets (pkg/router/usagelimit.go): the note a turn    *)
(* leaves, the user's switch, the timers, whose callbacks may already be   *)
(* waiting for the lock when they are stopped, and the turns that clear or *)
(* renew the limit.  A timer lives until it goes off or is stopped, and    *)
(* only the one the record points at is ever stopped.                      *)
(*                                                                         *)
(* One session.  Each action is one critical section of limitMu or one call*)
(* made between two of them.  Instants are small numbers; a turn's start is*)
(* kept only as what endUsageLimit asks of it, whether it came after the   *)
(* limit was last noted.  A backend reports a reset still to come.         *)
(***************************************************************************)
EXTENDS Integers, Sequences, FiniteSets

CONSTANTS
  Fires,        \* bound: the timers and runs of fireLimitResume at one time
  NoTimer,      \* the record points at no timer
  NoTurn,       \* no turn is running
  MaxResumes,   \* maxLimitResumes (2)
  MaxWait,      \* maxLimitWait (24 h)
  MaxNow,       \* bound: the last instant
  MaxQueued,    \* maxQueuedSends (32)
  MaxLate       \* bound: switches turned on while a callback waits for the lock

\* A limit is resumed at least once, and no turn is nobody's.
LimitConstants ==
  /\ MaxNow \in Nat /\ MaxWait \in Nat /\ MaxQueued \in Nat /\ MaxResumes \in Nat \ {0}
  /\ NoTurn \notin {"user", "resume"} /\ MaxLate \in Nat
  /\ IsFiniteSet(Fires) /\ NoTimer \notin Fires

VARIABLES
  now,     \* limitNow
  always,  \* ContinueAtReset, the instance's setting
  known,   \* does discovery know the session?
  limit,   \* limits[id]
  late,    \* history: switches turned on since the note while a callback waited
  fire,    \* each timer: armed or its callback's step, and the reset it is for
  mine,    \* the callbacks whose record is still the one in limits
  turn,    \* the running turn: who asked, and did it start after the last note?
  queue,   \* the turns waiting behind it
  user     \* a user's call between two of its steps: "idle", "send" or "pause"

recordVars == <<limit, late, mine>>
turnVars == <<turn, queue>>
vars == <<now, always, known, recordVars, fire, turnVars, user>>

NoLimit == [held |-> FALSE, resetsAt |-> 0, resume |-> FALSE, resumes |-> 0,
            gaveUp |-> FALSE, resuming |-> FALSE, timer |-> NoTimer]

Off == [pc |-> "off", at |-> 0]

Idle == [by |-> NoTurn, fresh |-> FALSE]

TypeOK ==
  /\ now \in 0 .. MaxNow /\ always \in BOOLEAN
  /\ limit \in [held : BOOLEAN, resetsAt : 0 .. MaxNow, resume : BOOLEAN,
                resumes : Nat, gaveUp : BOOLEAN, resuming : BOOLEAN,
                timer : Fires \union {NoTimer}]
  /\ limit.held \/ limit = NoLimit
  /\ fire \in [Fires -> [pc : {"off", "armed", "run", "goal", "send", "failed"},
                         at : 0 .. MaxNow]]
  /\ late \in 0 .. MaxLate /\ mine \subseteq Fires /\ known \in BOOLEAN
  /\ turn \in [by : {NoTurn, "user", "resume"}, fresh : BOOLEAN]
  /\ queue \in Seq({"user", "resume"}) /\ Len(queue) <= MaxQueued
  /\ user \in {"idle", "send", "pause"}

Init ==
  /\ now = 0 /\ always \in BOOLEAN /\ limit = NoLimit /\ late = 0
  /\ fire = [f \in Fires |-> Off] /\ mine = {} /\ known = TRUE
  /\ turn = Idle /\ queue = <<>> /\ user = "idle"

Tick ==
  /\ now < MaxNow /\ now' = now + 1
  /\ UNCHANGED <<always, known, recordVars, fire, turnVars, user>>

SetContinueAtReset ==
  /\ always' = ~always
  /\ UNCHANGED <<now, known, recordVars, fire, turnVars, user>>

-----------------------------------------------------------------------------
(* The limit.                                                              *)

TooFar(resetsAt) == resetsAt - now > MaxWait

\* timer.Stop(): it stops a timer that has not gone off.
Pending(f) == f = limit.timer /\ fire[f].pc = "armed"

Stopped == [f \in Fires |-> IF Pending(f) THEN Off ELSE fire[f]]

\* armLocked: the timer in place is stopped, and another one set.
Slots == {f \in Fires : Stopped[f].pc = "off"}

Arm(l) ==
  /\ Slots # {}
  /\ LET f == CHOOSE g \in Slots : TRUE
     IN  /\ limit' = [l EXCEPT !.timer = f]
         /\ fire' = [Stopped EXCEPT ![f] = [pc |-> "armed", at |-> l.resetsAt]]

Disarm(l) ==
  /\ limit' = [l EXCEPT !.resume = FALSE, !.timer = NoTimer]
  /\ fire' = Stopped

\* dropLimitLocked, by these callbacks or by none.
Drop(done) ==
  /\ limit' = NoLimit /\ late' = 0 /\ mine' = {}
  /\ fire' = [f \in Fires |-> IF f \in done THEN Off ELSE Stopped[f]]

\* Mutant: an armed session resumes however often it was refused.
RenewForEver(l) ==
  IF ~l.resume THEN limit' = l /\ UNCHANGED fire
  ELSE IF TooFar(l.resetsAt) THEN limit' = [l EXCEPT !.resume = FALSE] /\ UNCHANGED fire
  ELSE Arm(l)

\* Mutant: a limit hit again is not waited for.
RenewUnarmed(l) == limit' = l /\ UNCHANGED fire

\* A limit hit while armed: give up, leave it, or wait for the next reset.
Renew(l) ==
  \/ ~l.resume /\ limit' = l /\ UNCHANGED fire
  \/ /\ l.resume /\ l.resumes >= MaxResumes
     /\ limit' = [l EXCEPT !.resume = FALSE, !.gaveUp = TRUE] /\ UNCHANGED fire
  \/ /\ l.resume /\ l.resumes < MaxResumes /\ TooFar(l.resetsAt)
     /\ limit' = [l EXCEPT !.resume = FALSE] /\ UNCHANGED fire
  \/ l.resume /\ l.resumes < MaxResumes /\ ~TooFar(l.resetsAt) /\ Arm(l)

\* noteUsageLimit, on the running turn's turn.limited.
Note ==
  /\ turn.by # NoTurn
  /\ \E at \in now + 1 .. MaxNow :
       Renew([(IF limit.held THEN limit ELSE [NoLimit EXCEPT !.resume = always])
              EXCEPT !.held = TRUE, !.resetsAt = at, !.resuming = FALSE])
  /\ turn' = [turn EXCEPT !.fresh = FALSE] /\ late' = 0
  /\ UNCHANGED <<now, always, known, mine, queue, user>>

\* A callback for this reset went off and has not had the lock.
Overtaken == \E f \in Fires : fire[f].pc = "run" /\ fire[f].at = limit.resetsAt

\* SetLimitResume.  Arming starts the count of resumes afresh.
SetLimitResume(on) ==
  /\ limit.held /\ limit.resume # on
  /\ LET l == [limit EXCEPT !.resume = on, !.resumes = 0, !.gaveUp = FALSE]
     IN  \/ on /\ ~TooFar(limit.resetsAt) /\ Arm(l)
         \/ ~on /\ Disarm(l)
  /\ \/ on /\ Overtaken /\ late < MaxLate /\ late' = late + 1
     \/ ~(on /\ Overtaken) /\ UNCHANGED late
  /\ UNCHANGED <<now, always, known, mine, turnVars, user>>

\* cancelLimitWait.
CancelWait ==
  \/ limit.resume /\ Disarm(limit)
  \/ ~limit.resume /\ UNCHANGED <<limit, fire>>

-----------------------------------------------------------------------------
(* The session's turns, one at a time in order (SerialTurns).               *)

\* Mutant: the queue has no limit.
AcceptMore(by) ==
  /\ known
  /\ \/ /\ turn.by = NoTurn /\ queue = <<>>
        /\ turn' = [by |-> by, fresh |-> TRUE] /\ UNCHANGED queue
     \/ turn.by # NoTurn /\ queue' = Append(queue, by) /\ UNCHANGED turn

\* enqueueSend: run at once, or wait.
Accept(by) ==
  /\ known
  /\ \/ /\ turn.by = NoTurn /\ queue = <<>>
        /\ turn' = [by |-> by, fresh |-> TRUE] /\ UNCHANGED queue
     \/ /\ turn.by # NoTurn /\ Len(queue) < MaxQueued
        /\ queue' = Append(queue, by) /\ UNCHANGED turn

\* It cannot: the session is gone, its backend switched off, or its queue full.
Refuse == UNCHANGED turnVars

\* SendToSession and PauseSession: cancelLimitWait comes first.
UserCalls(call) ==
  /\ known /\ user = "idle" /\ user' = call /\ CancelWait
  /\ UNCHANGED <<now, always, known, late, mine, turnVars>>

\* Then SendToSession calls enqueueSend,
UserEnqueue ==
  /\ user = "send" /\ user' = "idle"
  /\ Accept("user") \/ Refuse
  /\ UNCHANGED <<now, always, known, recordVars, fire>>

\* and PauseSession stopLive, which drops the queue and cancels the turn.
UserStop ==
  /\ user = "pause" /\ user' = "idle"
  /\ queue' = <<>>
  /\ UNCHANGED <<now, always, known, recordVars, fire, turn>>

\* DeleteSession: stopLive, discovery forgets the session, forgetUsageLimit.
UserDelete ==
  /\ known /\ user = "idle" /\ known' = FALSE
  /\ queue' = <<>> /\ Drop({})
  /\ UNCHANGED <<now, always, turn, user>>

\* The turn is over and the next one starts.
NextTurn ==
  IF queue = <<>> THEN turn' = Idle /\ UNCHANGED queue
  ELSE turn' = [by |-> Head(queue), fresh |-> TRUE] /\ queue' = Tail(queue)

\* endUsageLimit: a turn begun after the limit clears it.
EndUsageLimit ==
  \/ turn.fresh /\ Drop({})
  \/ ~turn.fresh /\ UNCHANGED <<recordVars, fire>>

\* The turn's stream carried turn.ended.
TurnEnded ==
  /\ turn.by # NoTurn /\ NextTurn /\ EndUsageLimit
  /\ UNCHANGED <<now, always, known, user>>

\* It did not: its backend would not take the turn, and failSend publishes the
\* end itself, or it was cancelled before it began.
TurnFailed ==
  /\ turn.by # NoTurn /\ NextTurn
  /\ UNCHANGED <<now, always, known, recordVars, fire, user>>

-----------------------------------------------------------------------------
(* fireLimitResume.                                                        *)

Goto(f, pc) == fire' = [fire EXCEPT ![f].pc = pc]

Return(f) == fire' = [fire EXCEPT ![f] = Off]

\* The timer goes off, at its instant or later: its callback starts.
TimerFires(f) ==
  /\ fire[f].pc = "armed" /\ fire[f].at <= now /\ Goto(f, "run")
  /\ UNCHANGED <<now, always, known, recordVars, turnVars, user>>

\* Mutant: a callback whose timer was stopped too late still counts.
StillWanted(f) == limit.held /\ limit.resume

\* Is the limit still the one the timer was armed for?
Wanted(f) == limit.held /\ limit.resume /\ limit.resetsAt = fire[f].at

\* The callback has the lock.  It forgets the timer in place without stopping it:
\* its own, or one set while it waited, which stays alive for the same reset.
FireCheck(f) ==
  /\ fire[f].pc = "run"
  /\ \/ /\ Wanted(f) /\ Goto(f, "goal") /\ mine' = mine \union {f}
        /\ limit' = [limit EXCEPT !.timer = NoTimer, !.resumes = @ + 1, !.resuming = TRUE]
     \/ ~Wanted(f) /\ Return(f) /\ UNCHANGED <<limit, mine>>
  /\ UNCHANGED <<now, always, known, late, turnVars, user>>

\* resumeGoal, a call to the backend: a goal it stopped runs on by itself.
FireGoal(f) ==
  /\ fire[f].pc = "goal"
  /\ \/ Drop({f})
     \/ Goto(f, "send") /\ UNCHANGED recordVars
  /\ UNCHANGED <<now, always, known, turnVars, user>>

\* The resume prompt.
FireSend(f) ==
  /\ fire[f].pc = "send"
  /\ \/ Return(f) /\ Accept("resume")
     \/ Goto(f, "failed") /\ Refuse
  /\ UNCHANGED <<now, always, known, recordVars, user>>

\* It was refused: the record goes, if it is still the one the callback found.
FireFailed(f) ==
  /\ fire[f].pc = "failed"
  /\ \/ f \in mine /\ Drop({f})
     \/ f \notin mine /\ Return(f) /\ UNCHANGED recordVars
  /\ UNCHANGED <<now, always, known, turnVars, user>>

-----------------------------------------------------------------------------
Callback == \E f \in Fires :
  TimerFires(f) \/ FireCheck(f) \/ FireGoal(f) \/ FireSend(f) \/ FireFailed(f)

User ==
  \/ \E on \in BOOLEAN : SetLimitResume(on)
  \/ \E call \in {"send", "pause"} : UserCalls(call)
  \/ SetContinueAtReset \/ UserDelete

Calls == UserEnqueue \/ UserStop

Turns == Note \/ TurnEnded \/ TurnFailed

Next == Tick \/ User \/ Calls \/ Turns \/ Callback

\* Time passes, calls and callbacks run on, turns end.
Fairness ==
  /\ WF_vars(Tick) /\ WF_vars(Calls) /\ WF_vars(TurnEnded \/ TurnFailed)
  /\ WF_vars(Callback)

Spec == Init /\ [][Next]_vars /\ Fairness

-----------------------------------------------------------------------------
(* Properties.                                                             *)

\* The timers and callbacks that will find themselves wanted.
Due == {f \in Fires : fire[f].pc \in {"armed", "run"} /\ fire[f].at = limit.resetsAt}

\* A session that shows itself waiting for the reset (state) has what will end
\* the wait: a timer, or a callback that will find itself wanted.
WaitingHasTimer == limit.held /\ limit.resume /\ ~limit.resuming => Due # {}

\* A session is resumed into its limit no more than maxLimitResumes times in a
\* row: the bound is tested by the next refusal and not by the callback, so each
\* resume must be answered by a refusal, or the switch, before the next.  What the
\* code leaves open is the switch turned on again while a callback for the same
\* reset waits for the lock: the timer it sets outlives that callback, and each
\* such switch may give the reset one resume more.
NotForEver == limit.resume => limit.resumes <= MaxResumes \/ limit.resumes <= 1 + late

\* No resume begins before the limit it resumes from has reset: a callback armed
\* for an earlier reset does not act on a later one.
EarlyResume == \E f \in Fires : fire[f].pc = "run" /\ fire'[f].pc = "goal" /\ now < limit.resetsAt
ResumesAfterReset == [][~EarlyResume]_vars

\* An armed wait ends: in a resume, or because somebody called it off.
WaitEnds ==
  (limit.held /\ limit.resume /\ ~limit.resuming)
    ~> ~(limit.held /\ limit.resume /\ ~limit.resuming)

\* A wait has something that will wake it, and resumes are bounded
\* (pkg/router/usagelimit.go:58,75).
Bounded == TypeOK /\ WaitingHasTimer /\ NotForEver
=============================================================================
