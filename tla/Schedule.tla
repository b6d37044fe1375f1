------------------------------ MODULE Schedule ------------------------------
(***************************************************************************)
(* Scheduled tasks (pkg/schedule): the cron expression and its walk over   *)
(* the calendar, the store of tasks, and the runner, which starts a        *)
(* session for every task with a match since its last check, one after     *)
(* another, while sessions may also be started by hand, tasks edited, the  *)
(* clock goes on and usher restarts. Instants are counted in half minutes; *)
(* a year has few months, a month few days, a day few hours, an hour few   *)
(* minutes. The zone's clock is moved once by an hour, or never.           *)
(***************************************************************************)
EXTENDS Integers, Sequences, FiniteSetsExt, SequencesExt

CONSTANTS
  Minutes, Hours, Days, Months, Week, \* how many there are of each
  Ahead,     \* years that are searched for a match (five)
  Zones,     \* each [at, shift, west]: when the clock moves, and by how much
  Crons,     \* expressions: five fields, each a list of parts
  Starts,    \* when usher starts
  MaxTasks,  \* bound: tasks ever made
  MaxEdits,  \* bound: edits of tasks and sessions started by hand
  MaxNow     \* bound: the clock's run, from its start

VARIABLES
  zone, now,
  tasks,   \* the store: [id, on, spec], in creation order
  made,    \* ids given
  since,   \* the runner's last check
  upto,    \* the check being made, and what is due in it still
  due,
  fireMu,  \* who starts a session: "", "check" or "hand"
  hand,    \* RunNow waits for fireMu, or has it
  \* history and bounds
  began,   \* when usher started
  since0,  \* a task's schedule holds since then
  ran,     \* the check that last fired it
  twice,   \* it was fired with no match since
  edits

vars == <<zone, now, tasks, made, since, upto, due, fireMu, hand,
          began, since0, ran, twice, edits>>

-----------------------------------------------------------------------------
(* ParseSpec. A part of a field is <<"*", step>>, <<"a", value, step>> or   *)
(* <<"a-b", from, to, step>>.                                               *)

Steps(from, to, step) == {v \in from .. to : (v - from) % step = 0}

\* A value with a step runs to the field's end, but not with a step of one.
Part(p, min, max) ==
  CASE p[1] = "*" -> Steps(min, max, p[2])
    [] p[1] = "a" -> Steps(p[2], IF p[3] = 1 THEN p[2] ELSE max, p[3])
    [] p[1] = "a-b" -> Steps(p[2], p[3], p[4])

Field(f, min, max) == UNION {Part(p, min, max) : p \in Range(f)}
Starred(f) == Head(f)[1] = "*"

\* The weekday after the last is the first again.
ParseSpec(f) ==
  [minute |-> Field(f[1], 0, Minutes - 1), hour |-> Field(f[2], 0, Hours - 1),
   dom |-> Field(f[3], 1, Days), month |-> Field(f[4], 1, Months),
   dow |-> {v % Week : v \in Field(f[5], 0, Week)},
   domStar |-> Starred(f[3]), dowStar |-> Starred(f[5])]

-----------------------------------------------------------------------------
(* The wall clock, in half minutes, and time.Date *)

Minute == 2
Hour == Minute * Minutes
Day == Hour * Hours
Month == Day * Days
Year == Month * Months

Wall(t) == IF t < zone.at THEN t ELSE t + zone.shift

\* The instant with this wall time: of two, the first in the west, the last in
\* the east; of none, the one an hour before in the west, after in the east.
Date(w) ==
  IF zone.west THEN IF w < zone.at THEN w ELSE w - zone.shift
               ELSE IF w - zone.shift >= zone.at THEN w - zone.shift ELSE w

MinuteOf(w) == (w % Hour) \div Minute
HourOf(w) == (w % Day) \div Hour
DayOf(w) == (w % Month) \div Day + 1
MonthOf(w) == (w % Year) \div Month + 1
WeekdayOf(w) == (w \div Day) % Week

\* The day fields are both to match when one begins with a star, else either.
MatchDay(spec, w) ==
  IF spec.domStar \/ spec.dowStar
    THEN DayOf(w) \in spec.dom /\ WeekdayOf(w) \in spec.dow
    ELSE DayOf(w) \in spec.dom \/ WeekdayOf(w) \in spec.dow

\* Mutant: a step forward keeps the place within the month, day or hour.
Further(spec, w) ==
  CASE MonthOf(w) \notin spec.month -> w + Month
    [] MonthOf(w) \in spec.month /\ ~MatchDay(spec, w) -> w + Day
    [] OTHER -> IF HourOf(w) \notin spec.hour THEN w + Hour ELSE w + Minute

\* The start of the next month, day, hour or minute that may match.
Onward(spec, w) ==
  LET next(span) == (w \div span + 1) * span IN
  CASE MonthOf(w) \notin spec.month -> next(Month)
    [] MonthOf(w) \in spec.month /\ ~MatchDay(spec, w) -> next(Day)
    [] OTHER -> IF HourOf(w) \notin spec.hour THEN next(Hour) ELSE next(Minute)

MatchesAt(spec, w) ==
  /\ MonthOf(w) \in spec.month /\ MatchDay(spec, w)
  /\ HourOf(w) \in spec.hour /\ MinuteOf(w) \in spec.minute

Never == -1

RECURSIVE Walk(_, _, _)
Walk(spec, t, limit) ==
  LET next == Date(Onward(spec, Wall(t))) IN
  CASE Wall(t) \div Year > limit -> Never
    [] Wall(t) \div Year <= limit /\ MatchesAt(spec, Wall(t)) -> t
    [] OTHER -> Walk(spec, IF next > t THEN next ELSE t + Minute, limit)

MinuteStart(t) == Date((Wall(t) \div Minute) * Minute)

\* Mutant: a match at the minute of t itself counts.
FromMinute(spec, t) ==
  LET start == MinuteStart(t) IN Walk(spec, start, Wall(start) \div Year + Ahead)

NextAfter(spec, t) ==
  LET start == MinuteStart(t) + Minute
  IN Walk(spec, start, Wall(start) \div Year + Ahead)

NextRun(task, t) == IF task.on THEN NextAfter(task.spec, t) ELSE Never

-----------------------------------------------------------------------------
Ids == 1 .. MaxTasks

Init ==
  /\ zone \in Zones /\ now \in Starts /\ began = now /\ since = now
  /\ \E f \in Crons : tasks = <<[id |-> 1, on |-> TRUE, spec |-> ParseSpec(f)]>>
  /\ made = 1 /\ upto = Never /\ due = <<>> /\ fireMu = "" /\ hand = FALSE
  /\ since0 = [i \in Ids |-> now] /\ ran = [i \in Ids |-> now]
  /\ twice = FALSE /\ edits = 0

Tick ==
  /\ now < began + MaxNow
  /\ now' = now + 1
  /\ UNCHANGED <<zone, tasks, made, since, upto, due, fireMu, hand, began, since0, ran, twice, edits>>

-----------------------------------------------------------------------------
(* The runner *)

Due(task) == LET next == NextRun(task, since) IN next # Never /\ next <= now

\* Mutant: the next window begins when this one's sessions have started.
OnceStarted == now

\* The next window begins where this one ended, however long its starts took.
WindowEnd == upto

\* check: what is due is listed, and the window ends, before any of it starts.
Check ==
  /\ upto = Never /\ now > since
  /\ due' = SelectSeq(tasks, Due) /\ upto' = now
  /\ UNCHANGED <<zone, now, tasks, made, since, fireMu, hand, began, since0, ran, twice, edits>>

CheckEnd ==
  /\ upto # Never /\ due = <<>>
  /\ since' = WindowEnd /\ upto' = Never
  /\ UNCHANGED <<zone, now, tasks, made, due, fireMu, hand, began, since0, ran, twice, edits>>

\* The instants a schedule names.
Named(spec, t) == t % Minute = 0 /\ MatchesAt(spec, Wall(t))

\* fire, by the runner and by hand: one session is started at a time, which
\* takes a while, and whether it does makes no difference here.
Fire ==
  /\ due # <<>> /\ fireMu = "" /\ fireMu' = "check"
  /\ LET task == Head(due) IN
       /\ twice' = (twice \/ \A t \in ran[task.id] + 1 .. upto : ~Named(task.spec, t))
       /\ ran' = [ran EXCEPT ![task.id] = upto]
  /\ UNCHANGED <<zone, now, tasks, made, since, upto, due, hand, began, since0, edits>>

Fired ==
  /\ fireMu = "check" /\ fireMu' = "" /\ due' = Tail(due)
  /\ UNCHANGED <<zone, now, tasks, made, since, upto, hand, began, since0, ran, twice, edits>>

RunNow(i) ==
  /\ ~hand /\ hand' = TRUE
  /\ edits < MaxEdits /\ edits' = edits + 1
  /\ UNCHANGED <<zone, now, tasks, made, since, upto, due, fireMu, began, since0, ran, twice>>

FireByHand ==
  /\ hand /\ \/ fireMu = "" /\ fireMu' = "hand" /\ UNCHANGED hand
             \/ fireMu = "hand" /\ fireMu' = "" /\ hand' = FALSE
  /\ UNCHANGED <<zone, now, tasks, made, since, upto, due, began, since0, ran, twice, edits>>

-----------------------------------------------------------------------------
(* The store. A change that cannot be saved changes nothing. *)

Commits(ts) ==
  /\ edits < MaxEdits /\ edits' = edits + 1 /\ tasks' = ts
  /\ UNCHANGED <<zone, now, since, upto, due, fireMu, hand, began, ran, twice>>

Create(spec) ==
  /\ made < MaxTasks /\ made' = made + 1
  /\ Commits(Append(tasks, [id |-> made + 1, on |-> TRUE, spec |-> spec]))
  /\ since0' = [since0 EXCEPT ![made + 1] = now]

Update(i, on, spec) ==
  /\ Commits([tasks EXCEPT ![i].on = on, ![i].spec = spec])
  /\ since0' = [since0 EXCEPT ![tasks[i].id] = now] /\ UNCHANGED made

Delete(i) == Commits(RemoveAt(tasks, i)) /\ UNCHANGED <<made, since0>>

\* A fresh runner looks back no further than its start.
Restart ==
  /\ edits < MaxEdits /\ edits' = edits + 1
  /\ since' = now /\ upto' = Never /\ due' = <<>> /\ fireMu' = "" /\ hand' = FALSE
  /\ since0' = [i \in Ids |-> now] /\ ran' = [i \in Ids |-> now]
  /\ UNCHANGED <<zone, now, tasks, made, began, twice>>

Next ==
  \/ Tick \/ Check \/ CheckEnd \/ Fire \/ Fired \/ FireByHand \/ Restart
  \/ \E f \in Crons : Create(ParseSpec(f))
  \/ \E i \in DOMAIN tasks : \/ RunNow(i) \/ Delete(i)
                             \/ \E on \in BOOLEAN, f \in Crons : Update(i, on, ParseSpec(f))

Spec == Init /\ [][Next]_vars

-----------------------------------------------------------------------------
\* NextAfter is the first instant after now that a schedule names, within the
\* years it searches (pkg/schedule/cron.go:206).
Exact ==
  LET last == Wall(now) \div Year + Ahead
      Is(task, t) == Named(task.spec, t) /\ Wall(t) \div Year <= last
  IN \A task \in Range(tasks) :
       LET next == NextAfter(task.spec, now)
           before == IF next = Never THEN (last + 1) * Year + Hour ELSE next - 1
       IN /\ next # Never => next > now /\ Is(task, next)
          /\ \A t \in now + 1 .. before : ~Is(task, t)

\* A check fires a task only for an instant since it last did, and between
\* checks no instant of a task that was on is left behind, however long the
\* sessions took to start (pkg/schedule/runner.go:30, :84).
FiresOnce == ~twice
MissesNone ==
  upto = Never =>
    \A task \in Range(tasks) : task.on =>
      \A t \in Max({since0[task.id], ran[task.id]}) + 1 .. since : ~Named(task.spec, t)
=============================================================================
