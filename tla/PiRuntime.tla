------------------------------- MODULE PiRuntime -------------------------------
(*****************************************************************************)
(* The warm pi processes (pkg/pi/runtime.go): at most Max workers, one for a *)
(* session, each read by one goroutine that answers requests and passes the  *)
(* rest through a bounded channel to the pump, which hands each event to the *)
(* turn attached at the time.                                                *)
(*                                                                           *)
(* Each action is one critical section of Runtime.mu, of a client's mu or of *)
(* a worker's recvMu, or one channel operation.  A run of pi's agent belongs *)
(* to the call that prompted it, or to an extension.                         *)
(*****************************************************************************)
EXTENDS Integers, Sequences, FiniteSets

CONSTANTS
  Sessions,
  Calls,      \* of Start, Send, an operation by RPC, Resume, Rename, Kill
  Procs,      \* bound: the processes alive at a time
  PiJobs,     \* what the calls may be: their kinds and sessions
  NoProc,
  Extension,  \* the owner of a run that an extension queued
  Max,        \* the most live workers
  Cap,        \* bound: of the channels events and evts
  MaxUpsets   \* bound: the crashes, refusals, cancels, extension runs and rebinds

ASSUME PiAssumption ==
  /\ PiJobs \subseteq [Calls -> [kind : {"create", "send", "operation", "resume", "rename", "kill"},
                               session : Sessions]]
  /\ NoProc \notin Procs \cup Calls /\ Extension \notin Calls \cup {NoProc}
  /\ Max \in Nat \ {0} /\ Cap \in Nat \ {0} /\ MaxUpsets \in Nat

NoCall == NoProc
Owners == Calls \cup {Extension}

VARIABLES
  pjob,      \* each call's kind and session
  pi,        \* Runtime.workers
  wk,        \* each worker: busy, loop, leases, and its attached receiver
  proc,      \* each process: alive, the session it is bound to, its run, its
             \* stdin and stdout, its client's channel of events, and whether
             \* it waits for the answer to a dialog
  pump,      \* what each pump holds: an event and the receiver it read
  piStop,    \* the processes whose client is being stopped
  dialogs,   \* the processes with a goroutine that answers a dialog
  pcall,     \* each call: its step, worker, answer, channel evts, cancel
  pupsets,
  pkilled    \* history: the workers that Kill or a rebind took out of the map

piVars == <<pjob, pi, wk, proc, pump, piStop, dialogs, pcall, pupsets, pkilled>>

Kind(c) == pjob[c].kind
SessionOf(c) == pjob[c].session
Proc(c) == pcall[c].p
At(c, pc) == pcall[c].pc = pc
Live == {s \in Sessions : pi[s] # NoProc}

\* What pi writes: an answer to a call, or an event of its owner's run.
Event == {"start", "settled", "dialog"} \X Owners
Reply == {"ok", "err", "handled"} \X Calls
Frame == Reply \cup Event

NoHold == [on |-> FALSE, event |-> <<"start", Extension>>, to |-> NoCall]

(* The variables keep their types, and the map never holds more than max     *)
(* workers (pkg/pi/runtime.go:1448).                                         *)
TypeOK ==
  /\ pjob \in PiJobs
  /\ pi \in [Sessions -> Procs \cup {NoProc}] /\ Cardinality(Live) <= Max
  /\ wk \in [Procs -> [busy : BOOLEAN, loop : BOOLEAN, leases : Nat,
                       recv : Calls \cup {NoCall}]]
  /\ proc \in [Procs -> [up : BOOLEAN, done : BOOLEAN, session : Sessions \cup {NoProc},
                         run : Owners \cup {NoCall}, in : SUBSET Calls, out : Seq(Frame),
                         events : Seq(Event), reading : BOOLEAN, pumped : BOOLEAN,
                         waits : BOOLEAN]]
  /\ pump \in [Procs -> [on : BOOLEAN, event : Event, to : Calls \cup {NoCall}]]
  /\ \A p \in Procs : Len(proc[p].events) <= Cap
  /\ \A c \in Calls : Len(pcall[c].evts) <= Cap
  /\ piStop \subseteq Procs /\ pkilled \subseteq Procs /\ dialogs \subseteq Procs
  /\ pcall \in [Calls -> [pc : {"new", "add", "begin", "rpc", "run", "grace", "finish",
                                "clear", "detach", "stop", "done", "refused"},
                          p : Procs \cup {NoProc}, box : {"none", "ok", "err", "handled"},
                          evts : Seq(Event), attached : BOOLEAN,
                          ended : Owners \cup {NoCall}]]
  /\ pupsets \in 0 .. MaxUpsets

NewWorker == [busy |-> FALSE, loop |-> FALSE, leases |-> 0, recv |-> NoCall]

Absent == [up |-> FALSE, done |-> TRUE, session |-> NoProc, run |-> NoCall,
           in |-> {}, out |-> <<>>, events |-> <<>>, reading |-> FALSE,
           pumped |-> FALSE, waits |-> FALSE]

Init ==
  /\ pjob \in PiJobs
  /\ pi = [s \in Sessions |-> NoProc]
  /\ wk = [p \in Procs |-> NewWorker]
  /\ proc = [p \in Procs |-> Absent]
  /\ pump = [p \in Procs |-> NoHold]
  /\ piStop = {} /\ pkilled = {} /\ dialogs = {} /\ pupsets = 0
  /\ pcall = [c \in Calls |-> [pc |-> "new", p |-> NoProc, box |-> "none", evts |-> <<>>,
                               attached |-> FALSE, ended |-> NoCall]]

Upset == pupsets < MaxUpsets /\ pupsets' = pupsets + 1
Goto(c, pc) == pcall' = [pcall EXCEPT ![c].pc = pc]
Stopping(p) == piStop' = IF proc[p].done THEN piStop ELSE piStop \cup {p}

-----------------------------------------------------------------------------
(* Leasing and adding a worker.                                            *)

\* Mutant: the scan for a victim asks only whether the worker is busy.
HoldsBusy(p) == wk[p].busy

Holds(p) == wk[p].busy \/ wk[p].loop \/ wk[p].leases > 0

\* leaseWorkerIfLive, for a call that uses a worker; Resume takes no lease.
LeaseIfLive(c) ==
  LET p == pi[SessionOf(c)] IN
  /\ At(c, "new") /\ p # NoProc
  /\ \/ /\ Kind(c) \in {"send", "operation", "rename"}
        /\ wk' = [wk EXCEPT ![p].leases = @ + 1]
        /\ pcall' = [pcall EXCEPT ![c].pc = "begin", ![c].p = p]
     \/ Kind(c) = "resume" /\ Goto(c, "done") /\ wk' = wk
  /\ UNCHANGED <<pjob, pi, proc, pump, piStop, dialogs, pupsets, pkilled>>

\* A process that nothing refers to any more may stand for a new one.
Forgotten(p) ==
  /\ proc[p].done /\ ~pump[p].on /\ p \notin piStop \cup dialogs
  /\ \A s \in Sessions : pi[s] # p
  /\ \A c \in Calls : Proc(c) = p => pcall[c].pc \in {"new", "done", "refused"}

\* A process of the call's own, in no map yet: a new session's, or a cold one's.
StartClient(c) ==
  \E p \in Procs :
    /\ Forgotten(p) /\ p = CHOOSE q \in Procs : Forgotten(q)
    /\ proc' = [proc EXCEPT ![p] = [Absent EXCEPT !.up = TRUE, !.done = FALSE,
                                      !.session = SessionOf(c), !.reading = TRUE]]
    /\ wk' = [wk EXCEPT ![p] = [NewWorker EXCEPT !.leases = IF Kind(c) = "resume"
                                                            THEN 0 ELSE 1]]
    /\ pcall' = [pcall EXCEPT ![c].pc = "add", ![c].p = p]
    /\ pkilled' = pkilled \ {p}

Start(c) ==
  /\ At(c, "new") /\ pi[SessionOf(c)] = NoProc
  /\ Kind(c) \in {"create", "send", "operation", "resume"}
  /\ \/ StartClient(c) /\ pupsets' = pupsets
     \/ Upset /\ Goto(c, "refused") /\ UNCHANGED <<proc, wk, pkilled>>
  /\ UNCHANGED <<pjob, pi, pump, piStop, dialogs>>

\* Rename of a session with no worker writes the session file.
RenameFile(c) ==
  /\ At(c, "new") /\ Kind(c) = "rename" /\ pi[SessionOf(c)] = NoProc
  /\ Goto(c, "done")
  /\ UNCHANGED <<pjob, pi, wk, proc, pump, piStop, dialogs, pupsets, pkilled>>

\* Mutant: one worker more than the most.
FullLate == Cardinality(Live) > Max

Full == Cardinality(Live) >= Max

Added(c) == IF Kind(c) = "resume" THEN "done" ELSE "begin"

\* add: another call may have added one; the map may be full of held ones.
Add(c) ==
  LET s == SessionOf(c) IN
  /\ At(c, "add")
  /\ \/ /\ pi[s] = NoProc /\ ~Full
        /\ pi' = [pi EXCEPT ![s] = Proc(c)] /\ Goto(c, Added(c)) /\ piStop' = piStop
        /\ proc' = [proc EXCEPT ![Proc(c)].pumped = TRUE]
     \/ \E v \in Live :
          /\ pi[s] = NoProc /\ Full /\ ~Holds(pi[v])
          /\ pi' = [pi EXCEPT ![v] = NoProc, ![s] = Proc(c)]
          /\ Stopping(pi[v])
          /\ Goto(c, Added(c))
          /\ proc' = [proc EXCEPT ![Proc(c)].pumped = TRUE]
     \/ /\ pi[s] # NoProc \/ (Full /\ \A v \in Live : Holds(pi[v]))
        /\ Goto(c, "stop") /\ Stopping(Proc(c)) /\ UNCHANGED <<pi, proc>>
  /\ UNCHANGED <<pjob, wk, pump, dialogs, pupsets, pkilled>>

\* The call waits for the client it stops.
Stopped(c) ==
  /\ At(c, "stop") /\ proc[Proc(c)].done
  /\ Goto(c, IF Kind(c) = "kill" THEN "done" ELSE "refused")
  /\ UNCHANGED <<pjob, pi, wk, proc, pump, piStop, dialogs, pupsets, pkilled>>

-----------------------------------------------------------------------------
(* Requests, turns and operations.                                         *)

Unleased(p, w) == [w EXCEPT ![p].leases = @ - 1]
Turns(c) == Kind(c) \in {"create", "send"}

\* The call that is refused, or cannot write its request: a new session's
\* worker is taken back and stopped.
Refused(c, w) ==
  LET p == Proc(c)
      s == SessionOf(c)
  IN
  /\ wk' = Unleased(p, w)
  /\ IF Kind(c) = "create"
     THEN /\ pi' = IF pi[s] = p THEN [pi EXCEPT ![s] = NoProc] ELSE pi
          /\ Stopping(p) /\ pkilled' = pkilled \cup {p}
          /\ pcall' = [pcall EXCEPT ![c].pc = "stop", ![c].attached = FALSE,
                                    ![c].evts = <<>>]
     ELSE /\ pcall' = [pcall EXCEPT ![c].pc = "refused", ![c].attached = FALSE,
                                    ![c].evts = <<>>]
          /\ UNCHANGED <<pi, piStop, pkilled>>

\* startTurn marks the worker busy, attaches and prompts; Rename asks.
BeginTurn(c) ==
  LET p == Proc(c) IN
  /\ At(c, "begin") /\ Kind(c) # "operation"
  /\ IF (Turns(c) /\ wk[p].busy) \/ ~proc[p].up
     THEN Refused(c, wk) /\ proc' = proc
     ELSE /\ wk' = [wk EXCEPT ![p].busy = @ \/ Turns(c),
                              ![p].recv = IF Turns(c) THEN c ELSE @]
          /\ proc' = [proc EXCEPT ![p].in = @ \cup {c}]
          /\ pcall' = [pcall EXCEPT ![c].pc = "rpc", ![c].box = "none",
                                    ![c].attached = Turns(c), ![c].evts = <<>>]
          /\ UNCHANGED <<pi, piStop, pkilled>>
  /\ UNCHANGED <<pjob, pump, dialogs, pupsets>>

\* rpcOperation marks its worker and returns, with the lease; its goroutine asks.
BeginOperation(c) ==
  LET p == Proc(c) IN
  /\ At(c, "begin") /\ Kind(c) = "operation"
  /\ IF wk[p].busy THEN Refused(c, wk) /\ proc' = proc
     ELSE /\ wk' = [Unleased(p, wk) EXCEPT ![p].busy = TRUE]
          /\ IF proc[p].up
             THEN /\ proc' = [proc EXCEPT ![p].in = @ \cup {c}]
                  /\ pcall' = [pcall EXCEPT ![c].pc = "rpc", ![c].box = "none"]
             ELSE proc' = proc /\ Goto(c, "clear")
          /\ UNCHANGED <<pi, piStop, pkilled>>
  /\ UNCHANGED <<pjob, pump, dialogs, pupsets>>

\* pi answers a request: it starts the run prompted, says that an extension
\* handled it, or refuses it, as it does while a run goes on.
Answer(c) ==
  LET p == Proc(c)
      Says(kind) == Append(proc[p].out, <<kind, c>>)
  IN
  /\ p # NoProc /\ c \in proc[p].in /\ Len(proc[p].out) < Cap
  /\ \/ /\ Turns(c) /\ proc[p].run = NoCall
        /\ proc' = [proc EXCEPT ![p].in = @ \ {c}, ![p].run = c,
                                ![p].out = Says("ok") \o <<<<"start", c>>>>]
        /\ pupsets' = pupsets
     \/ /\ ~Turns(c) /\ pupsets' = pupsets
        /\ proc' = [proc EXCEPT ![p].in = @ \ {c}, ![p].out = Says("ok")]
     \/ /\ Turns(c) /\ Upset
        /\ proc' = [proc EXCEPT ![p].in = @ \ {c}, ![p].out = Says("handled")]
     \/ /\ IF proc[p].run # NoCall THEN pupsets' = pupsets ELSE Upset
        /\ proc' = [proc EXCEPT ![p].in = @ \ {c}, ![p].out = Says("err")]
  /\ UNCHANGED <<pjob, pi, wk, pump, piStop, dialogs, pcall, pkilled>>

\* The answer is there.  A turn that runs has its goroutine; the lease goes
\* back either way.
AnsweredTurn(c) ==
  LET p == Proc(c)
      box == pcall[c].box
  IN
  /\ At(c, "rpc") /\ Kind(c) # "operation" /\ box # "none"
  /\ IF box = "err" /\ Turns(c)
     THEN Refused(c, [wk EXCEPT ![p].busy = FALSE, ![p].recv = IF @ = c THEN NoCall ELSE @])
     ELSE /\ wk' = Unleased(p, wk)
          /\ Goto(c, IF ~Turns(c) THEN "done" ELSE IF box = "ok" THEN "run" ELSE "finish")
          /\ UNCHANGED <<pi, piStop, pkilled>>
  /\ UNCHANGED <<pjob, proc, pump, dialogs, pupsets>>

AnsweredOperation(c) ==
  /\ At(c, "rpc") /\ Kind(c) = "operation" /\ pcall[c].box # "none"
  /\ Goto(c, IF pcall[c].box = "ok" THEN "finish" ELSE "clear")
  /\ UNCHANGED <<pjob, pi, wk, proc, pump, piStop, dialogs, pupsets, pkilled>>

\* The turn's select: an event, or the process's exit.
Hear(c) ==
  /\ pcall[c].pc \in {"run", "grace"}
  /\ \/ /\ pcall[c].evts # <<>>
        /\ LET e == Head(pcall[c].evts) IN
           pcall' = [pcall EXCEPT ![c].evts = Tail(@),
                                  ![c].pc = IF e[1] = "settled" THEN "finish" ELSE @,
                                  ![c].ended = IF e[1] = "settled" THEN e[2] ELSE @]
     \/ proc[Proc(c)].done /\ Goto(c, "clear")
  /\ UNCHANGED <<pjob, pi, wk, proc, pump, piStop, dialogs, pupsets, pkilled>>

\* A cancel fails the request, which pi may still serve, and gives a run a
\* grace to settle.
Cancel(c) ==
  /\ pcall[c].pc \in {"rpc", "run"} /\ Kind(c) # "rename" /\ Upset
  /\ pcall' = IF At(c, "run") THEN [pcall EXCEPT ![c].pc = "grace"]
              ELSE [pcall EXCEPT ![c].box = IF @ = "none" THEN "err" ELSE @]
  /\ UNCHANGED <<pjob, pi, wk, proc, pump, piStop, dialogs, pkilled>>

Grace(c) ==
  /\ At(c, "grace") /\ Goto(c, "clear")
  /\ UNCHANGED <<pjob, pi, wk, proc, pump, piStop, dialogs, pupsets, pkilled>>

\* finishOperation reads the session the process is bound to, for at most two
\* seconds: checkBinding drops a process that pi bound to another one.
Finish(c) ==
  LET p == Proc(c)
      s == SessionOf(c)
  IN
  /\ At(c, "finish")
  /\ Goto(c, "clear")
  /\ \/ UNCHANGED <<pi, piStop, pkilled>>
     \/ /\ proc[p].up /\ proc[p].session # s
        /\ pi' = IF pi[s] = p THEN [pi EXCEPT ![s] = NoProc] ELSE pi
        /\ Stopping(p)
        /\ pkilled' = pkilled \cup {p}
  /\ UNCHANGED <<pjob, wk, proc, pump, dialogs, pupsets>>

\* Mutant: the end of an operation leaves its worker busy.
ClearLoop(c) ==
  LET p == Proc(c) IN
  /\ At(c, "clear")
  /\ wk' = IF pi[SessionOf(c)] = p /\ Turns(c)
           THEN [wk EXCEPT ![p].busy = FALSE, ![p].loop = FALSE] ELSE wk
  /\ Goto(c, "detach")
  /\ UNCHANGED <<pjob, pi, proc, pump, piStop, dialogs, pupsets, pkilled>>

\* The deferred calls: first the marks go, if the worker is still the
\* session's, then the receiver, if it is still this turn's.
Clear(c) ==
  LET p == Proc(c) IN
  /\ At(c, "clear")
  /\ wk' = IF pi[SessionOf(c)] = p
           THEN [wk EXCEPT ![p].busy = FALSE, ![p].loop = @ /\ ~Turns(c)] ELSE wk
  /\ Goto(c, "detach")
  /\ UNCHANGED <<pjob, pi, proc, pump, piStop, dialogs, pupsets, pkilled>>

\* Mutant: detach takes whatever receiver there is.
DetachAny(c) ==
  /\ At(c, "detach")
  /\ wk' = [wk EXCEPT ![Proc(c)].recv = NoCall]
  /\ pcall' = [pcall EXCEPT ![c].pc = "done", ![c].attached = FALSE, ![c].evts = <<>>]
  /\ UNCHANGED <<pjob, pi, proc, pump, piStop, dialogs, pupsets, pkilled>>

Detach(c) ==
  /\ At(c, "detach")
  /\ wk' = [wk EXCEPT ![Proc(c)].recv = IF @ = c THEN NoCall ELSE @]
  /\ pcall' = [pcall EXCEPT ![c].pc = "done", ![c].attached = FALSE, ![c].evts = <<>>]
  /\ UNCHANGED <<pjob, pi, proc, pump, piStop, dialogs, pupsets, pkilled>>

-----------------------------------------------------------------------------
(* The reader and the pump.                                                *)

\* readLoop: an answer goes to the call that still waits, an event into the
\* channel.
Read(p) ==
  LET f == Head(proc[p].out)
      reply == f \in Reply
  IN
  /\ proc[p].reading /\ proc[p].out # <<>>
  /\ reply \/ Len(proc[p].events) < Cap
  /\ proc' = [proc EXCEPT ![p].out = Tail(@),
                          ![p].events = IF reply THEN @ ELSE Append(@, f)]
  /\ pcall' = [c \in Calls |->
                 IF reply /\ c = f[2] /\ At(c, "rpc") /\ Proc(c) = p /\ pcall[c].box = "none"
                 THEN [pcall[c] EXCEPT !.box = f[1]] ELSE pcall[c]]
  /\ UNCHANGED <<pjob, pi, wk, pump, piStop, dialogs, pupsets, pkilled>>

\* At the end of stdout every pending call is told, and the process is
\* waited for.
ReadEnd(p) ==
  /\ proc[p].reading /\ ~proc[p].up /\ proc[p].out = <<>>
  /\ proc' = [proc EXCEPT ![p].reading = FALSE, ![p].done = TRUE]
  /\ piStop' = piStop \ {p}
  /\ pcall' = [c \in Calls |->
                 IF Proc(c) = p /\ At(c, "rpc") /\ pcall[c].box = "none"
                 THEN [pcall[c] EXCEPT !.box = "err"] ELSE pcall[c]]
  /\ UNCHANGED <<pjob, pi, wk, pump, dialogs, pupsets, pkilled>>

\* The pump takes an event.  A dialog gets a goroutine; the others keep the
\* worker's loop mark and go to whoever is attached.
Pump(p) ==
  LET e == Head(proc[p].events) IN
  /\ proc[p].events # <<>> /\ ~pump[p].on /\ proc[p].pumped
  /\ proc' = [proc EXCEPT ![p].events = Tail(@)]
  /\ wk' = IF e[1] \in {"start", "settled"} THEN [wk EXCEPT ![p].loop = e[1] = "start"] ELSE wk
  /\ dialogs' = IF e[1] = "dialog" THEN dialogs \cup {p} ELSE dialogs
  /\ pump' = IF e[1] = "dialog" \/ wk[p].recv = NoCall THEN pump
             ELSE [pump EXCEPT ![p] = [on |-> TRUE, event |-> e, to |-> wk[p].recv]]
  /\ UNCHANGED <<pjob, pi, piStop, pcall, pupsets, pkilled>>

\* deliver: to the receiver it read, unless that one has detached.
Deliver(p) ==
  LET c == pump[p].to IN
  /\ pump[p].on
  /\ IF pcall[c].attached
     THEN /\ Len(pcall[c].evts) < Cap
          /\ pcall' = [pcall EXCEPT ![c].evts = Append(@, pump[p].event)]
     ELSE pcall' = pcall
  /\ pump' = [pump EXCEPT ![p] = NoHold]
  /\ UNCHANGED <<pjob, pi, wk, proc, piStop, dialogs, pupsets, pkilled>>

\* Mutant: a dialog that usher cannot render gets no answer.
RespondRendered(p) ==
  /\ p \in dialogs /\ dialogs' = dialogs \ {p}
  /\ proc' \in {proc, [proc EXCEPT ![p].waits = FALSE]}
  /\ UNCHANGED <<pjob, pi, wk, pump, piStop, pcall, pupsets, pkilled>>

\* handleExtensionUI answers in every case: with the user's choice, and with
\* a cancel for a dialog it cannot show, that timed out or whose pump ended.
Respond(p) ==
  /\ p \in dialogs /\ dialogs' = dialogs \ {p}
  /\ proc' = [proc EXCEPT ![p].waits = FALSE]
  /\ UNCHANGED <<pjob, pi, wk, pump, piStop, pcall, pupsets, pkilled>>

-----------------------------------------------------------------------------
(* pi, and stopping it.                                                    *)

\* A run asks, and settles.
Goes(p, e) ==
  LET r == proc[p].run IN
  /\ proc[p].up /\ r # NoCall /\ ~proc[p].waits /\ Len(proc[p].out) < Cap
  /\ proc' = [proc EXCEPT ![p].out = Append(@, <<e, r>>), ![p].waits = e = "dialog",
                          ![p].run = IF e = "settled" THEN NoCall ELSE @]
  /\ UNCHANGED <<pjob, pi, wk, pump, piStop, dialogs, pcall, pkilled>>

Asks(p) == Upset /\ Goes(p, "dialog")
Settle(p) == pupsets' = pupsets /\ Goes(p, "settled")

\* An extension queues a run, or moves the process to another session.
ExtensionActs(p) ==
  /\ proc[p].up /\ Upset /\ Len(proc[p].out) < Cap
  /\ \/ /\ proc[p].run = NoCall
        /\ proc' = [proc EXCEPT ![p].run = Extension, ![p].out = Append(@, <<"start", Extension>>)]
     \/ \E s \in Sessions \ {proc[p].session} : proc' = [proc EXCEPT ![p].session = s]
  /\ UNCHANGED <<pjob, pi, wk, pump, piStop, dialogs, pcall, pkilled>>

\* The process exits: by itself, or because its client stops it.
Exit(p) ==
  /\ proc[p].up /\ (Upset \/ (p \in piStop /\ pupsets' = pupsets))
  /\ proc' = [proc EXCEPT ![p].up = FALSE, ![p].run = NoCall, ![p].in = {}, ![p].waits = FALSE]
  /\ UNCHANGED <<pjob, pi, wk, pump, piStop, dialogs, pcall, pkilled>>

Kill(c) ==
  LET p == pi[SessionOf(c)] IN
  /\ At(c, "new") /\ Kind(c) = "kill"
  /\ pi' = [pi EXCEPT ![SessionOf(c)] = NoProc]
  /\ IF p = NoProc THEN Goto(c, "done") /\ UNCHANGED <<piStop, pkilled>>
     ELSE /\ pcall' = [pcall EXCEPT ![c].pc = "stop", ![c].p = p]
          /\ Stopping(p)
          /\ pkilled' = pkilled \cup {p}
  /\ UNCHANGED <<pjob, wk, proc, pump, dialogs, pupsets>>

\* reapIdle: a worker that has held nothing for long enough.
Reap(s) ==
  LET p == pi[s] IN
  /\ p # NoProc /\ ~Holds(p)
  /\ pi' = [pi EXCEPT ![s] = NoProc]
  /\ Stopping(p)
  /\ UNCHANGED <<pjob, wk, proc, pump, dialogs, pcall, pupsets, pkilled>>

-----------------------------------------------------------------------------
Turn(c) ==
  \/ Add(c) \/ Stopped(c) \/ BeginTurn(c) \/ BeginOperation(c)
  \/ AnsweredTurn(c) \/ AnsweredOperation(c)
  \/ Hear(c) \/ Grace(c) \/ Finish(c) \/ Clear(c) \/ Detach(c)

\* How a call begins: with the worker there is, or with a client of its own.
Called(c) == LeaseIfLive(c) \/ Start(c) \/ RenameFile(c) \/ Kill(c)

Reader(p) == Read(p) \/ ReadEnd(p)
Pumps(p) == Pump(p) \/ Deliver(p)

Next ==
  \/ \E c \in Calls : Called(c) \/ Turn(c) \/ Answer(c) \/ Cancel(c)
  \/ \E p \in Procs : \/ Reader(p) \/ Pumps(p) \/ Respond(p)
                      \/ Asks(p) \/ Settle(p) \/ ExtensionActs(p) \/ Exit(p)
  \/ \E s \in Sessions : Reap(s)

Spec == Init /\ [][Next]_piVars

(* usher's goroutines run, pi answers, the user answers the dialogs, and a  *)
(* run that nobody cancelled settles; a client that stops its process kills *)
(* it after a second.                                                       *)
Fairness ==
  /\ \A c \in Calls : WF_piVars(Turn(c)) /\ WF_piVars(Answer(c))
  /\ \A p \in Procs :
       /\ WF_piVars(Reader(p)) /\ WF_piVars(Pumps(p)) /\ WF_piVars(Respond(p))
       /\ WF_piVars(p \in piStop /\ Exit(p))
       /\ WF_piVars(Settle(p) /\ \A c \in Calls : proc[p].run = c => ~At(c, "grace"))

FairSpec == Spec /\ Fairness

-----------------------------------------------------------------------------
(* A worker that a call leases or a turn runs on stays in place: only a      *)
(* kill, a rebind or a failed creation takes it                              *)
(* (pkg/pi/runtime.go:1360-1364,1453).                                       *)
HeldInPlace ==
  \A c \in Calls :
    pcall[c].pc \in {"begin", "rpc", "run", "grace", "finish", "clear"} =>
      pi[SessionOf(c)] = Proc(c) \/ Proc(c) \in pkilled

(* No worker is left busy with nothing that will clear it: the session would *)
(* answer "busy" for ever (pkg/pi/runtime.go:987-994,1128-1153).             *)
BusyHasOwner ==
  \A s \in Live :
    wk[pi[s]].busy =>
      \E c \in Calls : /\ Proc(c) = pi[s] /\ (Turns(c) \/ Kind(c) = "operation")
                       /\ pcall[c].pc \in {"rpc", "run", "grace", "finish", "clear"}

(* A running turn is the receiver of its worker's events, whatever the turn  *)
(* before it still has to undo (pkg/pi/runtime.go:456-465).                  *)
TurnListens ==
  \A c \in Calls :
    pcall[c].pc \in {"run", "grace"} => wk[Proc(c)].recv = c

(* Every call that has its worker ends, whoever exits, cancels or settles    *)
(* late: no dialog leaves its run waiting, and the pump, which every later   *)
(* call of the worker needs, never waits for a turn that is over             *)
(* (pkg/pi/runtime.go:468-481,826-831,1198-1220).                            *)
CallsEnd == \A c \in Calls : At(c, "begin") ~> pcall[c].pc \in {"done", "refused"}

(* A turn that ends on agent_settled ends on its own run's: "Drain through   *)
(* agent_settled so its final records and shared event do not leak into the  *)
(* next turn" (pkg/pi/runtime.go:1196).                                      *)
OwnSettled == \A c \in Calls : pcall[c].ended \in {c, NoCall}

(* The bound holds, what is within it is in place, busy for someone, and     *)
(* heard by the turn it runs (pkg/pi/runtime.go:987,1360,1453).              *)
InPlace == TypeOK /\ HeldInPlace /\ BusyHasOwner /\ TurnListens
==============================================================================
