------------------------------ MODULE Discovery ------------------------------
(****************************************************************************)
(* The registry of session logs (pkg/discovery) and one session's log. The  *)
(* watcher's goroutine and a caller of Complete or Upsert read the log and  *)
(* update the session it tells of, each in steps: stat, the registry's      *)
(* lock, the read under the reading's own mutex with a look at the record,  *)
(* the write of the record. Meanwhile the log grows, moves or is deleted, a *)
(* send advances the session's clock and a turn tells its context window.   *)
(* A path is 1 or 2, a prompt is its number, which is also its time, and a  *)
(* goal is the number of the line that set it.                              *)
(****************************************************************************)
EXTENDS Naturals, Sequences, FiniteSetsExt, SequencesExt

CONSTANTS
  Sparse,    \* the source's logs are read at their ends alone (Source.Sparse)
  HeadMax,   \* lines searched for the first prompt (headMax)
  Tails,     \* lines of the end that are read, try after try (tailMin to tailMax)
  MaxLines,  \* bound: lines of the log
  MaxActs    \* bound: moves of the log, calls, sends, windows told, deletions

VARIABLES
  \* external: the disk and the watch on it
  file,      \* where the log is, 0 for nowhere
  log,       \* its complete lines: 0 for a goal's, or a prompt
  events,    \* what the watcher will hear, each <<op, path>>
  \* the registry
  session,   \* sessions[id]: NoSession, or what is known of it
  path,      \* paths[id], 0 for none
  reading,   \* readings[id]: one of readings, 0 for none
  readings,  \* every reading made, each [fed, off, whole, scans, busy]
  \* the goroutines
  at,        \* where each is
  target,    \* the path it is about
  entire,    \* it wants every line read
  hold,      \* the reading it has
  failed,    \* it could not open the log
  seen,      \* the record it saw
  \* history and bounds
  completed, \* the reading of the last Complete that is over
  told,      \* a window was told with no ingest about to write the record
  raced,     \* the log moved, or the session was forgotten, amid an ingest or a deletion
  sent,      \* the last prompt sent or logged
  acts

disk == <<file, log, events>>
registry == <<session, path, reading, readings>>
actors == <<at, target, entire, hold, failed, seen>>
history == <<completed, told, raced>>
bounds == <<sent, acts>>
vars == <<disk, registry, actors, history, bounds>>

Actors == {"watch", "call"}
NoSession == [known |-> FALSE, prompt |-> 0, input |-> 0, goal |-> 0, window |-> FALSE]

Init ==
  /\ file = 1 /\ log = <<>> /\ events = <<<<"create", 1>>>>
  /\ session = NoSession /\ path = 0 /\ reading = 0 /\ readings = <<>>
  /\ at = [a \in Actors \cup {"delete"} |-> "idle"]
  /\ target = [a \in Actors \cup {"delete"} |-> 0]
  /\ entire = [a \in Actors |-> FALSE] /\ hold = [a \in Actors |-> 0]
  /\ failed = [a \in Actors |-> FALSE] /\ seen = [a \in Actors |-> NoSession]
  /\ completed = 0 /\ told = FALSE /\ raced = FALSE
  /\ sent = 0 /\ acts = 0

-----------------------------------------------------------------------------
(* What a scanner makes of the lines it was fed, given by their numbers. *)

Prompts(fed) == {n \in Range(fed) : log[n] > 0}
Goals(fed) == {n \in Range(fed) : log[n] = 0}

Meta(fed) ==
  [prompt |-> IF Prompts(fed) = {} THEN 0 ELSE log[Min(Prompts(fed))],
   input |-> IF Prompts(fed) = {} THEN 0 ELSE log[Max(Prompts(fed))],
   goal |-> Max(Goals(fed) \cup {0})]

-----------------------------------------------------------------------------
(* reading.read *)

Least(m, n) == IF m < n THEN m ELSE n
Most(m, n) == IF m > n THEN m ELSE n
Lines(from, to) == [i \in 1 .. Most(to - from, 0) |-> from + i]

\* The head, up to its first prompt.
Head1 ==
  LET limit == Least(Len(log), HeadMax)
  IN Min({n \in 1 .. limit : log[n] > 0} \cup {limit})

Start(tail) == Most(Len(log) - tail, 0)

\* Mutant: the tail is fed from its start, over the head.
TailTwice(tail) == Lines(Start(tail), Len(log))

TailLines(tail) == Lines(Most(Start(tail), Head1), Len(log))

\* The least tail that reaches back to the head, or holds a later prompt, or
\* else the greatest.
TailRead ==
  LET enough(i) == \/ Start(Tails[i]) <= Head1 \/ i = Len(Tails)
                   \/ Prompts(TailLines(Tails[i])) # {}
  IN Tails[Min({i \in DOMAIN Tails : enough(i)})]

ReadSparse ==
  [fed |-> Lines(0, Head1) \o TailLines(TailRead), off |-> Len(log),
   whole |-> Start(TailRead) <= Head1, scans |-> TRUE, busy |-> TRUE]

ReadWhole ==
  [fed |-> Lines(0, Len(log)), off |-> Len(log), whole |-> TRUE, scans |-> TRUE, busy |-> TRUE]

\* Mutant: a reading that skipped lines goes on where every line is wanted.
ContinuesAnyway(r, whole) == r.scans

Continues(r, whole) == r.scans /\ Len(log) >= r.off /\ (r.whole \/ ~whole)

ReadOn(r, whole) ==
  CASE Continues(r, whole) ->
         [r EXCEPT !.fed = @ \o Lines(r.off, Len(log)), !.off = Len(log), !.busy = TRUE]
    [] ~Continues(r, whole) /\ (whole \/ ~Sparse) -> ReadWhole
    [] OTHER -> ReadSparse

-----------------------------------------------------------------------------
(* ingest *)

Goes(a, place) == at' = [at EXCEPT ![a] = place]
Moves(a, from, to) == at[a] = from /\ Goes(a, to)

\* os.Stat first: a log that is not there is not read.
Ingests(a, p, whole) ==
  IF file = p
    THEN /\ Goes(a, "lock")
         /\ target' = [target EXCEPT ![a] = p] /\ entire' = [entire EXCEPT ![a] = whole]
    ELSE UNCHANGED <<at, target, entire>>

NewReading == [fed |-> <<>>, off |-> 0, whole |-> FALSE, scans |-> FALSE, busy |-> FALSE]

\* The first critical section: a known session at a new path has moved, and is
\* read afresh from there.
Lock(a) ==
  /\ Moves(a, "lock", "read")
  /\ LET moved == path # 0 /\ path # target[a] IN
       /\ path' = IF moved THEN target[a] ELSE path
       /\ IF reading = 0 \/ moved
            THEN /\ readings' = Append(readings, NewReading)
                 /\ reading' = Len(readings) + 1 /\ hold' = [hold EXCEPT ![a] = Len(readings) + 1]
            ELSE hold' = [hold EXCEPT ![a] = reading] /\ UNCHANGED <<reading, readings>>
  /\ UNCHANGED <<disk, session, target, entire, failed, seen, history, bounds>>

\* The read, under the reading's mutex, which is held until the ingest is over,
\* then a look at the record, which is written back under another lock. A log
\* that cannot be opened leaves the reading as it was.
Read(a) ==
  /\ Moves(a, "read", "store")
  /\ ~readings[hold[a]].busy
  /\ readings' = [readings EXCEPT ![hold[a]] =
       IF file = target[a] THEN ReadOn(@, entire[a]) ELSE [@ EXCEPT !.busy = TRUE]]
  /\ failed' = [failed EXCEPT ![a] = file # target[a]]
  /\ seen' = [seen EXCEPT ![a] = session]
  /\ UNCHANGED <<disk, session, path, reading, target, entire, hold, history, bounds>>

\* A goal is taken from a whole reading alone, the prompt once, the clock
\* forwards.
Merged(old, meta, whole) ==
  [old EXCEPT !.prompt = IF @ = 0 THEN meta.prompt ELSE @,
              !.input = Most(@, meta.input),
              !.goal = IF whole THEN meta.goal ELSE @]

Store(a) ==
  LET r == readings[hold[a]] IN
  /\ Moves(a, "store", "idle")
  /\ IF failed[a]
       THEN IF seen[a].known THEN session' = seen[a] /\ UNCHANGED path
                             ELSE UNCHANGED <<session, path>>
       ELSE /\ session' = [Merged(seen[a], Meta(r.fed), r.whole) EXCEPT !.known = TRUE]
            /\ path' = IF seen[a].known THEN path ELSE target[a]
  /\ readings' = [readings EXCEPT ![hold[a]].busy = FALSE]
  /\ completed' = IF entire[a] /\ ~failed[a] THEN hold[a] ELSE completed
  /\ seen' = [seen EXCEPT ![a] = NoSession] /\ hold' = [hold EXCEPT ![a] = 0]
  /\ failed' = [failed EXCEPT ![a] = FALSE]
  /\ target' = [target EXCEPT ![a] = 0] /\ entire' = [entire EXCEPT ![a] = FALSE]
  /\ UNCHANGED <<disk, reading, told, raced, bounds>>

-----------------------------------------------------------------------------
(* The watcher *)

Amid == \E a \in Actors : at[a] \in {"lock", "read", "store"}

\* handle: a log that appears or grows is read, one that is gone or renamed away
\* is looked up first.
Handle ==
  /\ at["watch"] = "idle" /\ events # <<>>
  /\ events' = Tail(events)
  /\ LET op == Head(events)[1]  p == Head(events)[2] IN
       IF op = "gone"
         THEN /\ Goes("watch", "check") /\ target' = [target EXCEPT !["watch"] = p]
              /\ UNCHANGED entire
         ELSE Ingests("watch", p, FALSE)
  /\ UNCHANGED <<file, log, registry, hold, failed, seen, history, bounds>>

\* Mutant: a log that is gone from a path takes its session along.
ElsewhereNever(p) == FALSE

\* The session's log has since been seen at another path.
Elsewhere(p) == path # 0 /\ path # p

\* remove
Check ==
  /\ at["watch"] = "check"
  /\ Goes("watch", IF Elsewhere(target["watch"]) THEN "idle" ELSE "forget")
  /\ target' = [target EXCEPT !["watch"] = 0]
  /\ UNCHANGED <<disk, registry, entire, hold, failed, seen, history, bounds>>

\* Remove
Forget(a) ==
  /\ Moves(a, "forget", IF a = "delete" THEN "done" ELSE "idle")
  /\ session' = NoSession /\ path' = 0 /\ reading' = 0
  /\ told' = FALSE /\ raced' = (raced \/ Amid)
  /\ UNCHANGED <<disk, readings, target, entire, hold, failed, seen, completed, bounds>>

-----------------------------------------------------------------------------
(* The router *)

Acts == acts < MaxActs /\ acts' = acts + 1

\* Complete, at the path the registry has, and Upsert there (a turn's end) or of
\* a log it does not know yet (a fork, the scan at the start).
Call(whole) ==
  /\ at["call"] = "idle" /\ Acts
  /\ \E p \in (IF whole \/ session.known THEN {path} ELSE {path, file}) \ {0} :
       Ingests("call", p, whole)
  /\ UNCHANGED <<disk, registry, hold, failed, seen, history, sent>>

Logged == Max({log[n] : n \in DOMAIN log} \cup {0})

\* A send: MarkInput, before the agent logs the prompt; one at a time.
MarkInput ==
  /\ session.known /\ sent = Logged /\ Acts
  /\ sent' = sent + 1
  /\ session' = [session EXCEPT !.input = Most(@, sent + 1)]
  /\ UNCHANGED <<disk, path, reading, readings, actors, history>>

\* UpdateRuntime, by a turn that tells the context window.
UpdateRuntime ==
  /\ session.known /\ ~session.window /\ Acts
  /\ session' = [session EXCEPT !.window = TRUE]
  /\ told' = \A a \in Actors : at[a] # "store"
  /\ UNCHANGED <<disk, path, reading, readings, actors, completed, raced, sent>>

\* DeleteSession finds the path, unlinks the log if it is still there, and makes
\* the registry forget the session.
Delete ==
  /\ Moves("delete", "idle", "unlink") /\ session.known /\ path # 0 /\ Acts
  /\ target' = [target EXCEPT !["delete"] = path]
  /\ UNCHANGED <<disk, registry, entire, hold, failed, seen, history, sent>>

Unlink ==
  /\ Moves("delete", "unlink", "forget")
  /\ IF file = target["delete"]
       THEN /\ file' = 0 /\ events' = Append(events, <<"gone", file>>)
            /\ raced' = (raced \/ Amid)
       ELSE raced' = TRUE /\ UNCHANGED <<file, events>>
  /\ UNCHANGED <<log, registry, target, entire, hold, failed, seen, completed, told, bounds>>

-----------------------------------------------------------------------------
(* The disk *)

\* The agent logs a line. A change that is still to be heard covers the next one.
Grow ==
  /\ file # 0 /\ Len(log) < MaxLines
  /\ \E line \in {0, Logged + 1} :
       log' = Append(log, line) /\ sent' = Most(sent, line)
  /\ events' = IF events # <<>> /\ Last(events) = <<"write", file>>
                 THEN events ELSE Append(events, <<"write", file>>)
  /\ UNCHANGED <<file, registry, actors, history, acts>>

\* The log is moved to the other path, and either end is heard of first.
Move ==
  /\ file # 0 /\ Acts
  /\ file' = 3 - file
  /\ \E es \in {<<<<"gone", file>>, <<"create", 3 - file>>>>,
                <<<<"create", 3 - file>>, <<"gone", file>>>>} : events' = events \o es
  /\ raced' = (raced \/ Amid)
  /\ UNCHANGED <<log, registry, actors, completed, told, sent>>

Next ==
  \/ \E a \in Actors : Lock(a) \/ Read(a) \/ Store(a)
  \/ Handle \/ Check \/ Forget("watch") \/ Forget("delete")
  \/ \E whole \in BOOLEAN : Call(whole)
  \/ MarkInput \/ UpdateRuntime \/ Delete \/ Unlink \/ Grow \/ Move

Spec == Init /\ [][Next]_vars

-----------------------------------------------------------------------------
Quiet == events = <<>> /\ \A a \in DOMAIN at : at[a] \in {"idle", "done"}

All == Meta(Lines(0, Len(log)))
Ending == Range(Lines(Start(Tails[Len(Tails)]), Len(log)))

\* Once everything was heard and nothing raced, the registry lists the session
\* exactly when its log is there, at its path, with its first prompt if the head
\* has it, its clock at its last prompt if the tail has it, a window told to it,
\* and after a Complete its goal (pkg/discovery/discovery.go:184).
Current ==
  Quiet /\ ~raced =>
    /\ session.known <=> file # 0
    /\ path = file
    /\ session.known =>
         /\ All.prompt > 0 /\ Min({n \in DOMAIN log : log[n] > 0}) <= HeadMax =>
              session.prompt = All.prompt
         /\ session.input <= sent
         /\ (\E n \in Ending : log[n] = All.input) => session.input >= All.input
         /\ told => session.window
         /\ reading = completed => session.goal = All.goal

\* No reading feeds a line twice or out of order, and a whole one skips none
\* (pkg/discovery/read.go:36).
FedOnce ==
  \A i \in DOMAIN readings : LET fed == readings[i].fed IN
    /\ \A j \in 1 .. Len(fed) - 1 : fed[j] < fed[j + 1]
    /\ readings[i].whole => fed = Lines(0, readings[i].off)
=============================================================================
