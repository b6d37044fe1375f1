------------------------------ MODULE ClaudePool -------------------------------
(*****************************************************************************)
(* The pool of Claude processes (pkg/claude/manager.go): at most one process *)
(* per session in the map, at most MaxLive of them, and in each the queue of *)
(* turns that Claude's lifecycle frames answer.                              *)
(*                                                                           *)
(* A process is named by the call that spawned it, and a turn by the call    *)
(* that sent it.  Each action is one critical section of Manager.mu or of    *)
(* the process's mu; Claude itself reads its stdin, runs commands and        *)
(* writes frames at its own pace, and may exit at any time.  Of time, only   *)
(* the order is kept: any idle process may be the least recently used one,   *)
(* or idle for long enough to be paused.                                     *)
(*****************************************************************************)
EXTENDS Integers, Sequences, SequencesExt, FiniteSets

CONSTANTS
  Sessions,
  Calls,      \* of Send and of Resume
  Jobs,       \* what the calls may be: their kinds and sessions
  Owns,       \* what Claude starts by itself: commands (cron, /loop), tasks
  NoProc,
  MaxLive,    \* maxLive
  Frames,     \* bound: the frames Claude has written and readLoop has not read
  MaxUpsets   \* bound: the crashes, kills and failed starts

Procs == Calls
Commands == Calls \cup Owns

ASSUME ClaudePoolAssumption ==
  /\ Jobs \subseteq [Calls -> [kind : {"send", "resume"}, session : Sessions]]
  /\ Calls \cap Owns = {} /\ NoProc \notin Calls
  /\ MaxLive \in Nat \ {0} /\ Frames \in Nat \ {0}
  /\ MaxUpsets \in Nat

VARIABLES
  job,       \* each call's kind and session
  pool,      \* Manager.processes
  proc,      \* each process's record
  claude,    \* each Claude: its stdin, what it runs, its stdout, and the
             \* commands that threw, which end without a frame
  call,      \* each call: its step, the process it resolved, was it told?
  stops,     \* the processes whose stop has begun and has not marked them
  started,   \* what Claude has started by itself
  upsets,    \* how many crashes, kills and failed starts there were
  killed,    \* history: what Kill or Shutdown took out and has not exited yet
  panicked   \* did a slice expression panic?

procVars == <<pool, proc>>
history == <<killed, upsets, job>>
vars == <<procVars, claude, call, stops, started, history, panicked>>

\* A turnRequest; grace: does the timer of an interrupt run on it?
Turn == [cmd : Commands, started : BOOLEAN, foreign : BOOLEAN, grace : BOOLEAN]

Sends == {c \in Calls : job[c].kind = "send"}

SessionOf(c) == job[c].session

Live == {s \in Sessions : pool[s] # NoProc}

(* The variables keep their types and the pool its bound (pkg/claude/       *)
(* manager.go:328): however calls interleave, the map never holds more than *)
(* maxLive processes, and a lease is always some call's.                    *)
TypeOK ==
  /\ job \in Jobs
  /\ pool \in [Sessions -> Procs \cup {NoProc}]
  /\ Cardinality(Live) <= MaxLive
  /\ proc \in [Procs -> [init : {"wait", "ok", "err"}, leases : Nat,
                         turns : Seq(Turn), work : SUBSET Owns,
                         stopping : BOOLEAN, gone : {"no", "done", "told"}]]
  /\ claude \in [Procs -> [os : {"none", "up", "exited"}, inbox : Seq(Calls),
                           run : Seq(Commands),
                           out : Seq([cmd : Commands, state : {"started", "ended"}]),
                           threw : SUBSET Commands]]
  /\ call \in [Calls -> [pc : {"new", "init", "clean", "wait", "append",
                               "write", "undo", "pass", "fail", "done",
                               "refused"},
                         p : Procs \cup {NoProc}, told : BOOLEAN]]
  /\ stops \subseteq Procs
  /\ started \subseteq Owns /\ upsets \in 0 .. MaxUpsets /\ killed \subseteq Procs
  /\ panicked \in BOOLEAN

Init ==
  /\ job \in Jobs
  /\ pool = [s \in Sessions |-> NoProc]
  /\ proc = [p \in Procs |-> [init |-> "wait", leases |-> 0, turns |-> <<>>,
                              work |-> {}, stopping |-> FALSE, gone |-> "no"]]
  /\ claude = [p \in Procs |-> [os |-> "none", inbox |-> <<>>, run |-> <<>>,
                                out |-> <<>>, threw |-> {}]]
  /\ call = [c \in Calls |-> [pc |-> "new", p |-> NoProc, told |-> FALSE]]
  /\ stops = {} /\ started = {} /\ upsets = 0
  /\ killed = {}
  /\ panicked = FALSE

Upset == upsets < MaxUpsets /\ upsets' = upsets + 1

-----------------------------------------------------------------------------
(* Resolving the process.                                                  *)

\* Mutant: the eviction scan looks at turns and tasks only.
BusyTurns(p) == proc[p].turns # <<>> \/ proc[p].work # {}

Busy(p) == proc[p].turns # <<>> \/ proc[p].leases > 0 \/ proc[p].work # {}

Lease(c) == IF c \in Sends THEN 1 ELSE 0

\* The router sends to a session one call at a time.
Alone(c) ==
  c \in Sends => \A d \in Sends \ {c} :
    SessionOf(d) = SessionOf(c) => call[d].pc \in {"new", "done", "refused"}

Goto(c, pc) == call' = [call EXCEPT ![c].pc = pc]

\* The session has a process: lease it under the lock that found it.
Join(c) ==
  LET p == pool[SessionOf(c)] IN
  /\ call[c].pc = "new" /\ Alone(c) /\ p # NoProc
  /\ proc' = [proc EXCEPT ![p].leases = @ + Lease(c)]
  /\ call' = [call EXCEPT ![c].pc = "wait", ![c].p = p]
  /\ UNCHANGED <<pool, claude, stops, started, history, panicked>>

\* Mutant: one process too many.
FullLate == Cardinality(Live) > MaxLive

\* The pool is full: one idle process goes, or the call is refused, as it may
\* be with idle processes too, when their sessions have work scheduled.
Full == Cardinality(Live) >= MaxLive

Idle(s) == pool[s] # NoProc /\ ~Busy(pool[s])

Refuse(c) ==
  /\ call[c].pc = "new" /\ Alone(c) /\ pool[SessionOf(c)] = NoProc /\ Full
  /\ Goto(c, "refused")
  /\ UNCHANGED <<procVars, claude, stops, started, history, panicked>>

\* The process starts, or its command does not.
Spawned(c, rest) ==
  \/ /\ pool' = [rest EXCEPT ![SessionOf(c)] = c]
     /\ proc' = [proc EXCEPT ![c].leases = Lease(c)]
     /\ claude' = [claude EXCEPT ![c].os = "up"]
     /\ call' = [call EXCEPT ![c].pc = "init", ![c].p = c]
  \/ /\ pool' = rest /\ Goto(c, "refused")
     /\ UNCHANGED <<proc, claude>>

Spawn(c) ==
  /\ call[c].pc = "new" /\ Alone(c) /\ pool[SessionOf(c)] = NoProc
  /\ IF Full
     THEN \E s \in Sessions :
            /\ Idle(s) /\ stops' = stops \cup {pool[s]}
            /\ Spawned(c, [pool EXCEPT ![s] = NoProc])
     ELSE Spawned(c, pool) /\ UNCHANGED stops
  /\ UNCHANGED <<started, history, panicked>>

\* The spawner's initialize exchange: an answer (finishControlRequest), or an
\* error, a deadline or the process's exit (controlRequest).
Resolved(c) == IF c \in Sends THEN "append" ELSE "done"

Initialized(c) ==
  /\ call[c].pc = "init"
  /\ proc' = [proc EXCEPT ![c].init = "ok"]
  /\ Goto(c, Resolved(c))
  /\ UNCHANGED <<pool, claude, stops, started, history, panicked>>

InitFails(c) ==
  /\ call[c].pc = "init"
  /\ proc' = [proc EXCEPT ![c].init = "err"]
  /\ Goto(c, "clean")
  /\ IF proc[c].gone = "no" THEN Upset ELSE UNCHANGED upsets
  /\ UNCHANGED <<pool, claude, stops, started, killed, job, panicked>>

Clean(c) ==
  /\ call[c].pc = "clean"
  /\ pool' = [s \in Sessions |-> IF pool[s] = c THEN NoProc ELSE pool[s]]
  /\ stops' = stops \cup {c} /\ Goto(c, "refused")
  /\ UNCHANGED <<proc, claude, started, history, panicked>>

\* Another call waits for the spawner's exchange.
Waited(c) ==
  LET p == call[c].p IN
  /\ call[c].pc = "wait"
  /\ \/ proc[p].init = "ok" /\ Goto(c, Resolved(c))
     \/ proc[p].init = "err" /\ Goto(c, "fail")
     \/ proc[p].gone # "no" /\ Goto(c, "fail")
  /\ UNCHANGED <<procVars, claude, stops, started, history, panicked>>

WaitCancelled(c) ==
  /\ call[c].pc = "wait" /\ Upset /\ Goto(c, "fail")
  /\ UNCHANGED <<procVars, claude, stops, started, killed, job, panicked>>

-----------------------------------------------------------------------------
(* Sending.                                                                *)

\* A slash command that is not allowed, or not known.
Reject(c) ==
  /\ call[c].pc = "append" /\ Goto(c, "fail")
  /\ UNCHANGED <<procVars, claude, stops, started, history, panicked>>

Queue(c) ==
  LET own == [cmd |-> c, started |-> FALSE, foreign |-> FALSE, grace |-> FALSE] IN
  /\ call[c].pc = "append"
  /\ proc' = [proc EXCEPT ![call[c].p].turns = Append(@, own)]
  /\ Goto(c, "write")
  /\ UNCHANGED <<pool, claude, stops, started, history, panicked>>

\* Claude's stdin is closed once stop has marked the process or it has exited.
Write(c) ==
  LET p == call[c].p IN
  /\ call[c].pc = "write"
  /\ IF proc[p].stopping \/ claude[p].os = "exited"
     THEN Goto(c, "undo") /\ UNCHANGED claude
     ELSE /\ claude' = [claude EXCEPT ![p].inbox = Append(@, c)]
          /\ Goto(c, "pass")
  /\ UNCHANGED <<procVars, stops, started, history, panicked>>

\* p.turns[:len(p.turns)-1]
Undo(c) ==
  LET p == call[c].p IN
  /\ call[c].pc = "undo"
  /\ IF proc[p].turns = <<>>
     THEN panicked' = TRUE /\ UNCHANGED <<proc, call>>
     ELSE /\ proc' = [proc EXCEPT ![p].turns = Front(@)]
          /\ Goto(c, "fail") /\ UNCHANGED panicked
  /\ UNCHANGED <<pool, claude, stops, started, history>>

\* releaseProcess; a Resume holds no lease.
Release(c) ==
  /\ call[c].pc \in {"pass", "fail"}
  /\ proc' = [proc EXCEPT ![call[c].p].leases = @ - Lease(c)]
  /\ Goto(c, IF call[c].pc = "pass" THEN "done" ELSE "refused")
  /\ UNCHANGED <<pool, claude, stops, started, history, panicked>>

-----------------------------------------------------------------------------
(* Claude: commands from its stdin in order, and its own; frames to stdout. *)

Say(p, cmd, state, runs) ==
  claude' = [claude EXCEPT ![p].run = runs,
                           ![p].out = Append(@, [cmd |-> cmd, state |-> state])]

CanSay(p) == claude[p].os = "up" /\ Len(claude[p].out) < Frames

Start(p) ==
  LET c == claude[p] IN
  /\ CanSay(p) /\ c.run = <<>> /\ c.inbox # <<>>
  /\ claude' = [claude EXCEPT ![p].inbox = Tail(@), ![p].run = <<Head(c.inbox)>>,
                  ![p].out = Append(@, [cmd |-> Head(c.inbox), state |-> "started"])]
  /\ UNCHANGED <<procVars, call, stops, started, history, panicked>>

\* A command of its own, alone or folded into the one that runs.
StartOwn(p) ==
  /\ CanSay(p) /\ proc[p].init = "ok"
  /\ \E o \in Owns \ started :
       /\ started' = started \cup {o}
       /\ Say(p, o, "started", Append(claude[p].run, o))
  /\ UNCHANGED <<procVars, call, stops, history, panicked>>

End(p) ==
  /\ CanSay(p)
  /\ \E i \in DOMAIN claude[p].run :
       Say(p, claude[p].run[i], "ended", RemoveAt(claude[p].run, i))
  /\ UNCHANGED <<procVars, call, stops, started, history, panicked>>

\* A command that throws sends no terminal frame.
Throw(p) ==
  /\ claude[p].os = "up" /\ claude[p].run # <<>>
  /\ claude' = [claude EXCEPT ![p].run = Tail(@),
                              ![p].threw = @ \cup {Head(claude[p].run)}]
  /\ Upset
  /\ UNCHANGED <<procVars, call, stops, started, killed, job, panicked>>

\* A command still in its inbox is cancelled, refused or discarded.
Discard(p) ==
  /\ CanSay(p)
  /\ \E i \in DOMAIN claude[p].inbox :
       claude' = [claude EXCEPT ![p].inbox = RemoveAt(@, i),
                    ![p].out = Append(@, [cmd |-> claude[p].inbox[i], state |-> "ended"])]
  /\ UNCHANGED <<procVars, call, stops, started, history, panicked>>

\* trackTask: background tasks and shells begin and settle.
TaskStarted(p) ==
  /\ claude[p].os = "up" /\ proc[p].init = "ok"
  /\ \E o \in Owns \ started :
       /\ started' = started \cup {o}
       /\ proc' = [proc EXCEPT ![p].work = @ \cup {o}]
  /\ UNCHANGED <<pool, claude, call, stops, history, panicked>>

TaskEnded(p) ==
  /\ claude[p].os = "up"
  /\ \E o \in proc[p].work : proc' = [proc EXCEPT ![p].work = @ \ {o}]
  /\ UNCHANGED <<pool, claude, call, stops, started, history, panicked>>

\* Its stdin was closed or stop killed it, or it crashes.
Exit(p) ==
  /\ claude[p].os = "up"
  /\ claude' = [claude EXCEPT ![p].os = "exited", ![p].inbox = <<>>, ![p].run = <<>>,
                              ![p].threw = {}]
  /\ IF proc[p].stopping THEN UNCHANGED upsets ELSE Upset
  /\ UNCHANGED <<procVars, call, stops, started, killed, job, panicked>>

ClaudeNext ==
  \E p \in Procs : \/ Start(p) \/ StartOwn(p) \/ End(p) \/ Throw(p)
                   \/ Discard(p) \/ TaskStarted(p) \/ TaskEnded(p) \/ Exit(p)

-----------------------------------------------------------------------------
(* The frames.                                                             *)

IndexOf(turns, cmd) == SelectInSeq(turns, LAMBDA t : t.cmd = cmd)

\* Mutant: a foreign turn goes behind every turn.
ForeignLast(turns, cmd) ==
  Append(turns, [cmd |-> cmd, started |-> TRUE, foreign |-> TRUE, grace |-> FALSE])

\* A turn Claude began by itself goes ahead of those that have not started.
InsertForeign(turns, cmd) ==
  LET own == [cmd |-> cmd, started |-> TRUE, foreign |-> TRUE, grace |-> FALSE]
      at  == SelectInSeq(turns, LAMBDA t : ~t.started)
  IN IF at = 0 THEN Append(turns, own) ELSE InsertAt(turns, at, own)

\* The calls of these turns are told how they ended.
Tell(turns, calls) ==
  [c \in Calls |->
    IF \E i \in DOMAIN turns : turns[i].cmd = c /\ ~turns[i].foreign
    THEN [calls[c] EXCEPT !.told = TRUE] ELSE calls[c]]

ReadStarted(p, cmd) ==
  LET turns == proc[p].turns
      i == IndexOf(turns, cmd)
  IN /\ proc' = [proc EXCEPT ![p].turns =
                   IF i = 0 THEN InsertForeign(turns, cmd)
                   ELSE [turns EXCEPT ![i].started = TRUE]]
     /\ UNCHANGED call

ReadEnded(p, cmd) ==
  LET turns == proc[p].turns
      i == IndexOf(turns, cmd)
  IN IF i = 0 THEN UNCHANGED <<proc, call>>
     ELSE /\ proc' = [proc EXCEPT ![p].turns = RemoveAt(@, i)]
          /\ call' = Tell(<<turns[i]>>, call)

\* readLoop.  The other frames carry text, usage, limits and settings of the head
\* turn, or of none, and leave the queue as it is.
Read(p) ==
  /\ claude[p].out # <<>>
  /\ LET f == Head(claude[p].out) IN
     IF f.state = "started" THEN ReadStarted(p, f.cmd) ELSE ReadEnded(p, f.cmd)
  /\ claude' = [claude EXCEPT ![p].out = Tail(@)]
  /\ UNCHANGED <<pool, stops, started, history, panicked>>

-----------------------------------------------------------------------------
(* Interrupts, stops and exits.                                            *)

Interrupt(s) ==
  /\ pool[s] # NoProc /\ proc[pool[s]].turns # <<>>
  /\ proc' = [proc EXCEPT ![pool[s]].turns[1].grace = TRUE]
  /\ Upset
  /\ UNCHANGED <<pool, claude, call, stops, started, killed, job, panicked>>

\* Nothing answered for interruptGrace: the turn is dropped if it is the head.
Grace(p) ==
  LET turns == proc[p].turns IN
  \E i \in DOMAIN turns :
    /\ turns[i].grace
    /\ IF i = 1 THEN /\ proc' = [proc EXCEPT ![p].turns = Tail(@)]
                     /\ call' = Tell(<<turns[1]>>, call)
                ELSE /\ proc' = [proc EXCEPT ![p].turns[i].grace = FALSE]
                     /\ UNCHANGED call
    /\ UNCHANGED <<pool, claude, stops, started, history, panicked>>

\* The processes of these sessions leave the map and are stopped.
TakeOut(ss) ==
  LET ps == {pool[s] : s \in ss \cap Live} IN
  /\ ps # {}
  /\ pool' = [s \in Sessions |-> IF s \in ss THEN NoProc ELSE pool[s]]
  /\ stops' = stops \cup ps
  /\ UNCHANGED <<proc, claude, call, started, job, panicked>>

Reap(s) == Idle(s) /\ TakeOut({s}) /\ UNCHANGED <<killed, upsets>>

Kill(s) == Upset /\ TakeOut({s}) /\ killed' = killed \cup {pool[s]}

Shutdown == Upset /\ TakeOut(Sessions) /\ killed' = killed \cup {pool[s] : s \in Live}

\* stop marks the process and closes its stdin.
StopMark(p) ==
  /\ p \in stops /\ stops' = stops \ {p}
  /\ proc' = [proc EXCEPT ![p].stopping = TRUE]
  /\ UNCHANGED <<pool, claude, call, started, history, panicked>>

\* cmd.Wait has returned, and may have closed stdout on unread frames.
Died(p) ==
  /\ claude[p].os = "exited" /\ proc[p].gone = "no"
  /\ proc' = [proc EXCEPT ![p].gone = "done"]
  /\ pool' = [s \in Sessions |-> IF pool[s] = p THEN NoProc ELSE pool[s]]
  /\ \E unread \in {<<>>, claude[p].out} : claude' = [claude EXCEPT ![p].out = unread]
  /\ killed' = killed \ {p}
  /\ UNCHANGED <<call, stops, started, upsets, job, panicked>>

\* Mutant: only turns that have started are told.
TellStarted(p) ==
  /\ proc[p].gone = "done"
  /\ proc' = [proc EXCEPT ![p].gone = "told", ![p].turns = <<>>, ![p].stopping = TRUE]
  /\ claude' = [claude EXCEPT ![p].out = <<>>]
  /\ call' = Tell(SelectSeq(proc[p].turns, LAMBDA t : t.started), call)
  /\ UNCHANGED <<pool, stops, started, history, panicked>>

\* The rest of stdout no longer concerns any turn.
TellExited(p) ==
  /\ proc[p].gone = "done"
  /\ proc' = [proc EXCEPT ![p].gone = "told", ![p].turns = <<>>, ![p].stopping = TRUE]
  /\ claude' = [claude EXCEPT ![p].out = <<>>]
  /\ call' = Tell(proc[p].turns, call)
  /\ UNCHANGED <<pool, stops, started, history, panicked>>

-----------------------------------------------------------------------------
Enter(c) == Join(c) \/ Refuse(c) \/ Spawn(c)

\* What a call does by itself once it is on its way.
CallStep(c) ==
  \/ Clean(c) \/ Waited(c) \/ Queue(c) \/ Reject(c) \/ Write(c) \/ Undo(c)
  \/ Release(c)

Next ==
  /\ ~panicked
  /\ \/ \E c \in Calls : \/ Enter(c) \/ Initialized(c) \/ InitFails(c)
                         \/ WaitCancelled(c) \/ CallStep(c)
     \/ ClaudeNext
     \/ \E p \in Procs : Read(p) \/ Grace(p) \/ StopMark(p) \/ Died(p) \/ TellExited(p)
     \/ \E s \in Sessions : Interrupt(s) \/ Reap(s) \/ Kill(s)
     \/ Shutdown

Spec == Init /\ [][Next]_vars

\* The steps of a call and of a stop are code that runs without waiting, the
\* exchange of a process that is gone returns, and a process that was stopped
\* is killed after two seconds.  Claude owes nothing else, nor does the user.
Fairness ==
  /\ \A c \in Calls :
       /\ WF_vars(~panicked /\ CallStep(c))
       /\ WF_vars(~panicked /\ proc[c].gone # "no" /\ InitFails(c))
  /\ \A p \in Procs :
       /\ WF_vars(~panicked /\ StopMark(p))
       /\ WF_vars(~panicked /\ proc[p].stopping /\ Exit(p))
       /\ WF_vars(~panicked /\ Died(p)) /\ WF_vars(~panicked /\ TellExited(p))

FairSpec == Spec /\ Fairness

-----------------------------------------------------------------------------
(* What the pool promises.                                                 *)

\* A Send between ensureProcess and its release, or one whose accepted turn
\* nobody has told the end of.
Holds(c) ==
  \/ call[c].pc \in {"init", "wait", "append", "write", "undo", "pass"}
  \/ call[c].pc = "done" /\ ~call[c].told

(* A process a send relies on is not evicted or paused (pkg/claude/         *)
(* manager.go:305-309): from the moment the send resolved it until its turn *)
(* is told, the process stays in the map, unless it was killed, failed to   *)
(* start or exited.                                                         *)
HeldInPlace ==
  \A c \in Sends : Holds(c) =>
    LET p == call[c].p IN
    \/ pool[SessionOf(c)] = p
    \/ p \in killed \/ proc[p].init = "err" \/ proc[p].gone # "no"

(* The head of the queue is the turn that produces output (pkg/claude/     *)
(* manager.go:76), once the frames are read: a turn ahead of the command   *)
(* Claude runs is one that threw.                                          *)
HeadRuns ==
  \A p \in Procs :
    LET turns == proc[p].turns
        i == IndexOf(turns, Head(claude[p].run))
    IN claude[p].out = <<>> /\ claude[p].run # <<>> /\ i # 0 =>
         \A j \in 1 .. i - 1 : turns[j].cmd \in claude[p].threw

(* No call waits for a process that is gone (pkg/claude/manager.go:1297,   *)
(* 442): once the process is stopped or has exited, a send is refused or   *)
(* its turn is told its end, and a resume returns.                         *)
Gone(c) ==
  call[c].p # NoProc
  /\ (proc[call[c].p].stopping \/ claude[call[c].p].os = "exited")

Settled(c) ==
  \/ call[c].pc = "refused"
  \/ call[c].pc = "done" /\ (c \in Sends => call[c].told)

Settles == \A c \in Calls : Gone(c) ~> (Settled(c) \/ panicked)

(* No legal order of calls and exits breaks the queue of turns (pkg/claude/ *)
(* manager.go:680): a send whose write failed has its turn to take back.    *)
NoPanic == ~panicked

(* The bound holds, what is within it is what sends rely on, and the output  *)
(* of a process is told to the turn it is of (pkg/claude/manager.go:305-328, *)
(* 1095).                                                                    *)
InPlace == TypeOK /\ HeldInPlace /\ HeadRuns
==============================================================================
