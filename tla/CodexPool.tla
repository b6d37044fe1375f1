------------------------------- MODULE CodexPool -------------------------------
(***************************************************************************)
(* The pool of Codex app-servers (pkg/codex/manager.go) with the clients   *)
(* that talk to them (pkg/codex/client.go): at most MaxLive workers, one   *)
(* for a session, each with a client that starts its process lazily, again *)
(* when the last one died, and that matches answers and notifications to   *)
(* the calls and the turn waiting for them.                                *)
(*                                                                         *)
(* Each action is one critical section of Manager.mu or Client.mu, or a    *)
(* channel operation between two.  Starting a process and its initialize   *)
(* exchange are one step.  A context may expire whenever its call waits    *)
(* for an answer.                                                          *)
(***************************************************************************)
EXTENDS Integers, Sequences, FiniteSets

CONSTANTS
  Sessions,
  Calls,      \* of StartTurn, SetGoal, StartThread, SkillsIfLive and Kill
  Clients,    \* bound: the Client values alive at a time
  CodexJobs,  \* what the calls may be: their kinds and sessions
  NoProc,     \* no client; also no turn
  MaxLive,    \* maxLive
  Frames,     \* bound: the frames an app-server has written and none has read
  MaxUpsets   \* bound: the crashes, failed starts, expiries, background commands and
              \* evictions of a worker before the call that resumed it leases it

ASSUME CodexAssumption ==
  /\ CodexJobs \subseteq
       [Calls -> [kind : {"turn", "goal", "live", "kill", "create", "interrupt"},
                  session : Sessions]]
  /\ NoProc \notin Clients \cup Calls
  /\ MaxLive \in Nat \ {0} /\ MaxUpsets \in Nat

VARIABLES
  xjob,      \* each call's kind and session
  workers,   \* Manager.workers
  starting,  \* Manager.starting
  worker,    \* each worker: settled (ready = nil), busy, leases
  client,    \* each Client's fields
  server,    \* each app-server: its process, its thread, its stdout
  late,      \* what a dead process's readLoop holds and has not dispatched
  failing,   \* failProcess under way: the calls and the turn it has yet to tell
  reaping,   \* the clients reapIdle has taken out and not shut down
  xcall,     \* each call: its step, its client, its answer
  xupsets,
  xkilled    \* history: the clients Kill took out of the map

codexVars == <<xjob, workers, starting, worker, client, server, late, failing,
               reaping, xcall, xupsets, xkilled>>

\* What an app-server writes: answers to a call, and notifications.
Frame == ({"started", "completed", "goal", "cleared", "work", "workEnded"} \X {NoProc})
           \cup ({"ok", "err"} \X Calls)

Note(kind) == <<kind, NoProc>>

Kind(c) == xjob[c].kind
SessionOf(c) == xjob[c].session
Client(c) == xcall[c].p
Live == {s \in Sessions : workers[s] # NoProc}

(* The variables keep their types, and the workers with those about to start *)
(* never exceed the bound (pkg/codex/manager.go:231), whatever was evicted,  *)
(* lost a race for its session or failed to start.                           *)
TypeOK ==
  /\ xjob \in CodexJobs
  /\ workers \in [Sessions -> Clients \cup {NoProc}]
  /\ starting \in Nat /\ Cardinality(Live) + starting <= MaxLive
  /\ worker \in [Clients -> [settled : BOOLEAN, busy : BOOLEAN, leases : Nat]]
  /\ client \in [Clients -> [cmd : BOOLEAN, open : BOOLEAN, thread : BOOLEAN,
                             turn : Calls \cup {NoProc}, active : BOOLEAN,
                             goal : BOOLEAN, work : BOOLEAN]]
  /\ server \in [Clients -> [up : BOOLEAN, loaded : Sessions \cup {NoProc}, running : BOOLEAN,
                             goal : BOOLEAN, work : BOOLEAN, out : Seq(Frame)]]
  /\ late \in [Clients -> Seq(Frame)]
  /\ failing \subseteq [p : Clients, calls : SUBSET Calls, full : SUBSET Calls,
                      turn : Calls \cup {NoProc}]
  /\ reaping \subseteq Clients /\ xkilled \subseteq Clients
  /\ xcall \in [Calls -> [pc : {"new", "again", "ready", "reserve", "evict", "make", "ensure",
                                "resume", "unmake", "lease", "mark", "start",
                                "reload", "begin", "rpc", "run", "kill",
                                "interrupt", "forget", "shut", "done", "refused"},
                          p : Clients \cup {NoProc}, closed : BOOLEAN, left : BOOLEAN,
                          sent : BOOLEAN, box : {"none", "ok", "err"}, result : BOOLEAN]]
  /\ xupsets \in 0 .. MaxUpsets

NewClient == [cmd |-> FALSE, open |-> FALSE, thread |-> FALSE, turn |-> NoProc,
              active |-> FALSE, goal |-> FALSE, work |-> FALSE]

Down == [up |-> FALSE, loaded |-> NoProc, running |-> FALSE, goal |-> FALSE,
         work |-> FALSE, out |-> <<>>]

Init ==
  /\ xjob \in CodexJobs
  /\ workers = [s \in Sessions |-> NoProc]
  /\ starting = 0
  /\ worker = [p \in Clients |-> [settled |-> FALSE, busy |-> FALSE, leases |-> 0]]
  /\ client = [p \in Clients |-> NewClient]
  /\ server = [p \in Clients |-> Down]
  /\ late = [p \in Clients |-> <<>>]
  /\ failing = {} /\ reaping = {}
  /\ xcall = [c \in Calls |-> [pc |-> "new", p |-> NoProc, closed |-> FALSE,
                               left |-> FALSE, sent |-> FALSE, box |-> "none",
                               result |-> FALSE]]
  /\ xupsets = 0 /\ xkilled = {}

Upset == xupsets < MaxUpsets /\ xupsets' = xupsets + 1

Goto(c, pc) == xcall' = [xcall EXCEPT ![c].pc = pc]
At(c, pc) == xcall[c].pc = pc

pool == <<workers, starting, worker>>
servers == <<server, late>>
rest == <<xjob, xkilled, reaping>>

-----------------------------------------------------------------------------
(* Resolving the worker.                                                   *)

Busy(p) == client[p].turn # NoProc \/ client[p].active

\* Mutant: the scan for a victim looks at the turn only.
HoldsTurn(p) == ~worker[p].settled \/ Busy(p) \/ client[p].work

HoldsWork(p) ==
  \/ ~worker[p].settled \/ worker[p].busy \/ worker[p].leases > 0
  \/ Busy(p) \/ client[p].work

\* Codex mints a new thread's id, which StartThread returns: until then no call
\* can be about the session.
Named(c) ==
  \A d \in Calls \ {c} : Kind(d) = "create" /\ SessionOf(d) = SessionOf(c) => At(d, "done")

New(c) == At(c, "new") /\ Named(c)

Looks(c) == New(c) \/ At(c, "again")

\* The session has a worker: use it, or wait until its resume has settled.
Find(c) ==
  LET p == workers[SessionOf(c)] IN
  /\ Looks(c) /\ Kind(c) \in {"turn", "goal"} /\ p # NoProc
  /\ xcall' = [xcall EXCEPT ![c].p = p,
                            ![c].pc = IF worker[p].settled THEN "lease" ELSE "ready"]
  /\ UNCHANGED <<pool, client, servers, failing, rest, xupsets>>

AwaitReady(c) ==
  /\ At(c, "ready") /\ worker[Client(c)].settled
  /\ Goto(c, "again")
  /\ UNCHANGED <<pool, client, servers, failing, rest, xupsets>>

FindNone(c) ==
  /\ Looks(c)
  /\ \/ Kind(c) \in {"turn", "goal"} /\ workers[SessionOf(c)] = NoProc
     \/ Kind(c) = "create"
  /\ Goto(c, "reserve")
  /\ UNCHANGED <<pool, client, servers, failing, rest, xupsets>>

\* Mutant: the workers about to start are not counted.
RoomInMap == Cardinality(Live) < MaxLive

Room == Cardinality(Live) + starting < MaxLive

AboutToLease(p) == \E c \in Calls : At(c, "lease") /\ Client(c) = p

\* It has none, and a new thread has no session yet: make room.  Which idle
\* worker goes, LRU and the dead ones first, is left open: it may be one that
\* another call has just made for the same session.
Reserve(c) ==
  /\ At(c, "reserve")
  /\ \/ /\ Room
        /\ starting' = starting + 1
        /\ Goto(c, "make")
        /\ UNCHANGED <<workers, xupsets>>
     \/ \E s \in Live :
          /\ ~Room /\ ~HoldsWork(workers[s])
          /\ workers' = [workers EXCEPT ![s] = NoProc]
          /\ starting' = starting + 1
          /\ xcall' = [xcall EXCEPT ![c].pc = "evict", ![c].p = workers[s], ![c].closed = FALSE]
          /\ IF AboutToLease(workers[s]) THEN Upset ELSE xupsets' = xupsets
     \/ /\ ~Room /\ \A s \in Live : HoldsWork(workers[s])
        /\ Goto(c, "refused")
        /\ UNCHANGED <<workers, starting, xupsets>>
  /\ UNCHANGED <<worker, client, servers, failing, rest>>

\* A Client that nothing refers to any more may stand for a new one.
Forgotten(p) ==
  /\ \A s \in Sessions : workers[s] # p
  /\ \A c \in Calls : Client(c) = p => xcall[c].pc \in {"new", "reserve", "make", "done", "refused"}
  /\ p \notin reaping /\ ~client[p].cmd /\ late[p] = <<>>
  /\ \A f \in failing : f.p # p

\* Another call resumed the session meanwhile: use its worker.
Make(c) ==
  LET s == SessionOf(c) IN
  /\ At(c, "make")
  /\ starting' = IF Kind(c) = "create" THEN starting ELSE starting - 1
  /\ IF workers[s] # NoProc
     THEN Goto(c, "again") /\ UNCHANGED <<workers, worker, client, xkilled>>
     ELSE \E p \in Clients :
            /\ Forgotten(p) /\ p = CHOOSE q \in Clients : Forgotten(q)
            /\ workers' = IF Kind(c) = "create" THEN workers ELSE [workers EXCEPT ![s] = p]
            /\ worker' = [worker EXCEPT ![p] = [settled |-> FALSE, busy |-> FALSE, leases |-> 0]]
            /\ client' = [client EXCEPT ![p] = NewClient]
            /\ xcall' = [xcall EXCEPT ![c].pc = "ensure", ![c].p = p]
            /\ xkilled' = xkilled \ {p}
  /\ UNCHANGED <<servers, failing, xjob, reaping, xupsets>>

-----------------------------------------------------------------------------
(* The client's process and its calls.                                     *)

Writable(p) == client[p].cmd /\ client[p].open /\ server[p].up

\* ensure, with what it leaves of the client and its process.
Ensured(p) ==
  IF client[p].cmd THEN UNCHANGED <<client, server>>
  ELSE /\ client' = [client EXCEPT ![p].cmd = TRUE, ![p].open = TRUE]
       /\ server' = [server EXCEPT ![p] = [Down EXCEPT !.up = TRUE]]

\* The process does not start, or its initialize fails.
NotStarted(p) == Upset /\ ~client[p].cmd /\ UNCHANGED <<client, server>>

\* call: a request is written, and waits at pc.
Writes(c, pc) ==
  xcall' = [xcall EXCEPT ![c].pc = pc, ![c].sent = TRUE, ![c].box = "none", ![c].left = FALSE]

\* The steps that wait for an answer.
Rpcs == {"resume", "reload", "rpc", "interrupt"}

Waits(c) == xcall[c].pc \in Rpcs /\ xcall[c].sent

\* The select's other branch: the context has expired.  The call is still
\* in pending until it takes the lock again.
Expire(c) ==
  /\ Waits(c) /\ ~xcall[c].left /\ Upset
  /\ xcall' = [xcall EXCEPT ![c].left = TRUE]
  /\ UNCHANGED <<pool, client, servers, failing, rest>>

\* The call's return takes its entry out of pending.  A failProcess that
\* has the entry sends into the channel: it is full if the context won
\* over an answer that was there.
Answered(c, ok) ==
  /\ Waits(c)
  /\ IF xcall[c].left THEN ok = "err" ELSE xcall[c].box = ok
  /\ LET full == xcall[c].left /\ xcall[c].box # "none" IN
     failing' = {IF c \in f.calls
                 THEN [f EXCEPT !.calls = IF full THEN @ ELSE @ \ {c},
                                !.full = IF full THEN @ \cup {c} ELSE @]
                 ELSE f : f \in failing}

Returned(c, pc) == xcall' = [xcall EXCEPT ![c].pc = pc, ![c].sent = FALSE]

\* app-server reads the request of c and answers.  Codex lets one process
\* at a time write a thread.
Accepts(c) ==
  LET p == Client(c) IN
  \/ xcall[c].pc \in {"resume", "reload"}
       /\ \A q \in Clients \ {p} : server[q].up => server[q].loaded # SessionOf(c)
  \/ xcall[c].pc = "rpc" /\ (Kind(c) = "live" \/ server[p].loaded # NoProc)
  \/ xcall[c].pc = "interrupt" /\ server[p].loaded # NoProc

Effect(c) ==
  LET old == server[Client(c)]
      out == Append(old.out, <<"ok", c>>)
  IN CASE xcall[c].pc \in {"resume", "reload"} -> [old EXCEPT !.loaded = SessionOf(c), !.out = out]
       [] xcall[c].pc = "interrupt" /\ old.running ->
            [old EXCEPT !.running = FALSE, !.out = Append(out, Note("completed"))]
       [] xcall[c].pc = "rpc" /\ Kind(c) = "turn" ->
            [old EXCEPT !.running = TRUE, !.out = Append(out, Note("started"))]
       [] xcall[c].pc = "rpc" /\ Kind(c) = "goal" ->
            [old EXCEPT !.running = TRUE, !.goal = TRUE,
                        !.out = out \o <<Note("goal"), Note("started")>>]
       [] OTHER -> [old EXCEPT !.out = out]

Unanswered(c) ==
  LET p == Client(c) IN
  /\ Waits(c) /\ server[p].up /\ Len(server[p].out) < Frames
  /\ \A ok \in {"ok", "err"} : \A i \in 1 .. Len(server[p].out) : server[p].out[i] # <<ok, c>>
  /\ xcall[c].box = "none"

Serve(c) ==
  LET p == Client(c) IN
  /\ Unanswered(c)
  /\ IF Accepts(c)
     THEN server' = [server EXCEPT ![p] = Effect(c)]
     ELSE server' = [server EXCEPT ![p].out = Append(@, <<"err", c>>)]
  /\ UNCHANGED <<pool, client, late, failing, rest, xcall, xupsets>>

\* Codex ends its turn, and with a goal's turn the goal.
Complete(p) ==
  /\ server[p].up /\ server[p].running /\ Len(server[p].out) < Frames
  /\ server' = [server EXCEPT ![p].running = FALSE, ![p].goal = FALSE,
                              ![p].out = IF server[p].goal
                                         THEN @ \o <<Note("completed"), Note("cleared")>>
                                         ELSE Append(@, Note("completed"))]
  /\ UNCHANGED <<pool, client, late, failing, rest, xcall, xupsets>>

\* A command the turn leaves in the background, and its end.
Background(p) ==
  /\ server[p].up /\ Len(server[p].out) < Frames
  /\ \/ /\ server[p].running /\ ~server[p].work /\ Upset
        /\ server' = [server EXCEPT ![p].work = TRUE, ![p].out = Append(@, Note("work"))]
     \/ /\ server[p].work /\ xupsets' = xupsets
        /\ server' = [server EXCEPT ![p].work = FALSE, ![p].out = Append(@, Note("workEnded"))]
  /\ UNCHANGED <<pool, client, late, failing, rest, xcall>>

-----------------------------------------------------------------------------
(* readLoop and failProcess.                                               *)

Pending(p) == {c \in Calls : Waits(c) /\ Client(c) = p}

\* Mutant: a completed turn leaves its stream registered.
CompletedKeeps(p) == [client[p] EXCEPT !.active = FALSE]

Completed(p) == [client[p] EXCEPT !.turn = NoProc, !.active = FALSE]

\* What a frame does to the client's fields.
Heard(p, f) ==
  CASE f[1] = "started"   -> [client[p] EXCEPT !.active = TRUE]
    [] f[1] = "completed" -> Completed(p)
    [] f[1] = "goal"      -> [client[p] EXCEPT !.goal = TRUE]
    [] f[1] = "cleared"   -> [client[p] EXCEPT !.goal = FALSE]
    [] f[1] = "work"      -> [client[p] EXCEPT !.work = TRUE]
    [] f[1] = "workEnded" -> [client[p] EXCEPT !.work = FALSE]
    [] OTHER           -> client[p]

\* An answer goes to its call if it is still pending: after failProcess none
\* is.  A completed turn finishes the stream registered for the thread.
Delivered(p, f, pending) ==
  [c \in Calls |->
     IF \E ok \in {"ok", "err"} : f = <<ok, c>>
     THEN [xcall[c] EXCEPT !.box = IF c \in pending /\ @ = "none" THEN f[1] ELSE @]
     ELSE IF f[1] = "completed" /\ client[p].turn = c
     THEN [xcall[c] EXCEPT !.result = TRUE]
     ELSE xcall[c]]

Dispatch(p) ==
  /\ server[p].out # <<>> /\ client[p].cmd
  /\ client' = [client EXCEPT ![p] = Heard(p, Head(server[p].out))]
  /\ xcall' = Delivered(p, Head(server[p].out), Pending(p))
  /\ server' = [server EXCEPT ![p].out = Tail(@)]
  /\ UNCHANGED <<pool, late, failing, rest, xupsets>>

\* readLoop does not ask whether the process its frames came from is still
\* the client's.
DispatchLate(p) ==
  /\ late[p] # <<>>
  /\ client' = [client EXCEPT ![p] = Heard(p, Head(late[p]))]
  /\ xcall' = Delivered(p, Head(late[p]), {})
  /\ late' = [late EXCEPT ![p] = Tail(@)]
  /\ UNCHANGED <<pool, server, failing, rest, xupsets>>

\* The process exits: by itself, or because its stdin was closed.
Exit(p) ==
  /\ server[p].up /\ (Upset \/ (~client[p].open /\ xupsets' = xupsets))
  /\ server' = [server EXCEPT ![p] = [Down EXCEPT !.out = server[p].out]]
  /\ UNCHANGED <<pool, client, late, failing, rest, xcall>>

\* Mutant: failProcess tells the calls that wait, and not the turn.
CallsOnly(p) == [p |-> p, calls |-> Pending(p), full |-> {}, turn |-> NoProc]

\* What failProcess has to tell.
ToTell(p) == [p |-> p, calls |-> Pending(p), full |-> {}, turn |-> client[p].turn]

\* failProcess, under the lock: the fields are reset, the calls and the turn
\* that wait are to be told.
Failed(p) ==
  /\ client' = [client EXCEPT ![p] = NewClient]
  /\ server' = [server EXCEPT ![p] = Down]
  /\ \E rests \in {<<>>, server[p].out} : late' = [late EXCEPT ![p] = @ \o rests]
  /\ failing' = failing \cup {ToTell(p)}

Died(p) ==
  /\ client[p].cmd /\ ~server[p].up
  /\ Failed(p)
  /\ UNCHANGED <<pool, rest, xcall, xupsets>>

\* It sends the error to each pending call: a full channel makes it wait, for
\* ever when the call has left it full.
FailSend(f, c) ==
  /\ c \in f.calls \ f.full /\ Waits(c) /\ xcall[c].box = "none"
  /\ xcall' = [xcall EXCEPT ![c].box = "err"]
  /\ failing' = (failing \ {f}) \cup {[f EXCEPT !.calls = @ \ {c}]}
  /\ UNCHANGED <<pool, client, servers, rest, xupsets>>

\* Then it finishes the turn.
FailFinish(f) ==
  /\ f.calls = {}
  /\ failing' = failing \ {f}
  /\ xcall' = IF f.turn = NoProc THEN xcall ELSE [xcall EXCEPT ![f.turn].result = TRUE]
  /\ UNCHANGED <<pool, client, servers, rest, xupsets>>

-----------------------------------------------------------------------------
(* Resuming: the thread is loaded by a process of its own.                 *)

StartClient(c) ==
  /\ At(c, "ensure")
  /\ \/ /\ Ensured(Client(c)) /\ xupsets' = xupsets
        /\ Writes(c, "resume")
     \/ NotStarted(Client(c)) /\ Goto(c, "unmake")
  /\ UNCHANGED <<pool, late, failing, rest>>

\* The resume settles, and tells the calls that wait for it.  The worker may
\* have been killed meanwhile.
Resumed(c) ==
  LET s == SessionOf(c)
      p == Client(c)
      owned == workers[s] = p
      create == Kind(c) = "create"
  IN
  /\ xcall[c].pc \in {"resume", "unmake"}
  /\ \E ok \in BOOLEAN :
       /\ IF At(c, "resume") THEN Answered(c, IF ok THEN "ok" ELSE "err")
          ELSE ok = FALSE /\ failing' = failing
       /\ client' = [client EXCEPT ![p].thread = @ \/ ok]
       /\ worker' = [worker EXCEPT ![p].settled = TRUE]
       /\ starting' = IF create THEN starting - 1 ELSE starting
       /\ workers' = [workers EXCEPT ![s] = CASE create /\ ok -> p
                                              [] ~create /\ ~ok /\ owned -> NoProc
                                              [] OTHER -> @]
       /\ Returned(c, CASE create /\ ok -> "done"
                        [] ok /\ owned -> "lease"
                        [] OTHER -> "shut")
  /\ UNCHANGED <<servers, rest, xupsets>>

\* Mutant: a worker found is leased whether or not it is still the session's.
LeaseFound(c) ==
  /\ At(c, "lease")
  /\ worker' = [worker EXCEPT ![Client(c)].leases = @ + 1]
  /\ Goto(c, "mark")
  /\ UNCHANGED <<workers, starting, client, servers, failing, rest, xupsets>>

\* leaseWorker: the lease is taken under the lock that finds the worker in
\* place; one that was evicted in the gap is resumed again.
Lease(c) ==
  /\ At(c, "lease")
  /\ IF workers[SessionOf(c)] = Client(c)
     THEN worker' = [worker EXCEPT ![Client(c)].leases = @ + 1] /\ Goto(c, "mark")
     ELSE worker' = worker /\ Goto(c, "again")
  /\ UNCHANGED <<workers, starting, client, servers, failing, rest, xupsets>>

\* SkillsIfLive and its like never start a worker.
LeaseIfLive(c) ==
  LET p == workers[SessionOf(c)] IN
  /\ New(c) /\ Kind(c) = "live"
  /\ IF p # NoProc /\ worker[p].settled
     THEN /\ worker' = [worker EXCEPT ![p].leases = @ + 1]
          /\ xcall' = [xcall EXCEPT ![c].pc = "mark", ![c].p = p]
     ELSE worker' = worker /\ Goto(c, "refused")
  /\ UNCHANGED <<workers, starting, client, servers, failing, rest, xupsets>>

-----------------------------------------------------------------------------
(* Operations.                                                             *)

Released(p, busy) == worker' = [worker EXCEPT ![p].leases = @ - 1, ![p].busy = busy]

\* startOperation marks the worker busy, unless a turn runs on it, be it
\* Codex's own.
Mark(c) ==
  LET p == Client(c) IN
  /\ At(c, "mark") /\ Kind(c) = "turn"
  /\ IF worker[p].busy \/ Busy(p)
     THEN Released(p, worker[p].busy) /\ Goto(c, "refused")
     ELSE worker' = [worker EXCEPT ![p].busy = TRUE] /\ Goto(c, "start")
  /\ UNCHANGED <<workers, starting, client, servers, failing, rest, xupsets>>

\* Mutant: a refused operation leaves its worker busy.
GivesUpBusy(c) == Released(Client(c), worker[Client(c)].busy) /\ Returned(c, "refused")

\* An operation or a call that failed to begin: the busy mark goes, the lease
\* goes back, a registered stream is taken back.
GivesUp(c) ==
  /\ Released(Client(c), IF Kind(c) = "turn" THEN FALSE ELSE worker[Client(c)].busy)
  /\ Returned(c, "refused")

\* turn/start: the stream is registered before the request is written.
Begin(c) ==
  LET p == Client(c) IN
  IF Writable(p)
  THEN /\ client' = [client EXCEPT ![p].turn = c]
       /\ Writes(c, "rpc") /\ worker' = worker
  ELSE client' = client /\ GivesUp(c)

\* StartTurn starts the process if it died, and loads the thread into it.
StartTurn(c) ==
  LET p == Client(c) IN
  /\ At(c, "start")
  /\ \/ /\ client[p].cmd /\ client[p].thread /\ Begin(c) /\ UNCHANGED <<server, xupsets>>
     \/ /\ ~(client[p].cmd /\ client[p].thread)
        /\ Ensured(p) /\ xupsets' = xupsets
        /\ IF client[p].cmd /\ ~Writable(p) THEN GivesUp(c)
           ELSE Writes(c, "reload") /\ worker' = worker
     \/ NotStarted(p) /\ GivesUp(c)
  /\ UNCHANGED <<workers, starting, late, failing, rest>>

Reloaded(c) ==
  /\ At(c, "reload")
  /\ \/ /\ Answered(c, "ok") /\ xcall' = [xcall EXCEPT ![c].pc = "begin", ![c].sent = FALSE]
        /\ client' = [client EXCEPT ![Client(c)].thread = TRUE] /\ worker' = worker
     \/ Answered(c, "err") /\ client' = client /\ GivesUp(c)
  /\ UNCHANGED <<workers, starting, servers, rest, xupsets>>

BeginReloaded(c) ==
  /\ At(c, "begin") /\ Begin(c)
  /\ UNCHANGED <<workers, starting, servers, failing, rest, xupsets>>

\* SetGoal writes to whatever process there is, a list starts one.
Ask(c) ==
  LET p == Client(c) IN
  /\ At(c, "mark") /\ Kind(c) \in {"goal", "live"}
  /\ \/ /\ Kind(c) = "goal" \/ client[p].cmd
        /\ IF Writable(p) THEN Writes(c, "rpc") /\ worker' = worker
           ELSE GivesUp(c)
        /\ UNCHANGED <<client, server, xupsets>>
     \/ /\ Kind(c) = "live" /\ ~client[p].cmd
        /\ Ensured(p) /\ xupsets' = xupsets
        /\ Writes(c, "rpc") /\ worker' = worker
     \/ Kind(c) = "live" /\ NotStarted(p) /\ GivesUp(c)
  /\ UNCHANGED <<workers, starting, late, failing, rest>>

\* The answer: an operation that has begun gives its lease back and runs.
Begun(c) ==
  LET p == Client(c) IN
  /\ At(c, "rpc")
  /\ \/ /\ Answered(c, "ok")
        /\ Returned(c, IF Kind(c) = "turn" THEN "run" ELSE "done")
        /\ Released(p, worker[p].busy) /\ client' = client
     \/ /\ Answered(c, "err") /\ GivesUp(c)
        /\ client' = IF Kind(c) = "turn" THEN [client EXCEPT ![p].turn = NoProc] ELSE client
  /\ UNCHANGED <<workers, starting, servers, rest, xupsets>>

\* The turn's result: the worker is free again, if it is still the session's.
Finish(c) ==
  LET p == Client(c) IN
  /\ At(c, "run") /\ xcall[c].result
  /\ worker' = IF workers[SessionOf(c)] = p THEN [worker EXCEPT ![p].busy = FALSE] ELSE worker
  /\ Goto(c, "done")
  /\ UNCHANGED <<workers, starting, client, servers, failing, rest, xupsets>>

-----------------------------------------------------------------------------
(* Stopping.                                                               *)

\* Kill takes the worker out, then waits for a resume under way.
Kill(c) ==
  LET s == SessionOf(c) IN
  /\ New(c) /\ Kind(c) = "kill"
  /\ workers' = [workers EXCEPT ![s] = NoProc]
  /\ IF workers[s] = NoProc THEN Goto(c, "done") /\ UNCHANGED xkilled
     ELSE /\ xcall' = [xcall EXCEPT ![c].pc = "kill", ![c].p = workers[s]]
          /\ xkilled' = xkilled \cup {workers[s]}
  /\ UNCHANGED <<xjob, reaping, starting, worker, client, servers, failing, xupsets>>

\* Interrupt, of a kill or by itself: only a running turn is interrupted.
Interrupt(c) ==
  LET p == IF Kind(c) = "kill" THEN Client(c) ELSE workers[SessionOf(c)]
      then == IF Kind(c) = "kill" THEN "forget" ELSE "done"
  IN
  /\ \/ At(c, "kill") /\ worker[p].settled
     \/ New(c) /\ Kind(c) = "interrupt"
  /\ xcall' = IF p = NoProc \/ ~worker[p].settled \/ ~client[p].cmd \/ ~Busy(p) \/ ~Writable(p)
              THEN [xcall EXCEPT ![c].pc = then]
              ELSE [xcall EXCEPT ![c].p = p, ![c].pc = "interrupt", ![c].sent = TRUE,
                                 ![c].box = "none", ![c].left = FALSE]
  /\ UNCHANGED <<pool, client, servers, failing, rest, xupsets>>

Interrupted(c) ==
  /\ At(c, "interrupt")
  /\ \E ok \in {"ok", "err"} : Answered(c, ok)
  /\ Returned(c, IF Kind(c) = "kill" THEN "forget" ELSE "done")
  /\ UNCHANGED <<pool, client, servers, rest, xupsets>>

\* Client.Kill finishes the registered turn.
Forget(c) ==
  LET p == Client(c)
      t == client[p].turn
      left == [xcall EXCEPT ![c].pc = "shut"]
  IN
  /\ At(c, "forget")
  /\ client' = [client EXCEPT ![p].thread = FALSE, ![p].turn = NoProc]
  /\ xcall' = IF t = NoProc THEN left ELSE [left EXCEPT ![t].result = TRUE]
  /\ UNCHANGED <<pool, servers, failing, rest, xupsets>>

\* Client.Shutdown: close stdin, then wait for the exit.
Closing(c) == xcall[c].pc \in {"evict", "shut"}

ShutClose(c) ==
  LET p == Client(c) IN
  /\ Closing(c) /\ ~xcall[c].closed /\ client[p].cmd
  /\ client' = [client EXCEPT ![p].open = FALSE]
  /\ xcall' = [xcall EXCEPT ![c].closed = TRUE]
  /\ UNCHANGED <<pool, servers, failing, rest, xupsets>>

Gone(p) == ~server[p].up \/ client[p].open

AfterShut(c) ==
  xcall' = [xcall EXCEPT ![c].closed = FALSE,
                         ![c].pc = CASE @ = "evict" -> "make"
                                     [] @ = "shut" /\ Kind(c) = "kill" -> "done"
                                     [] OTHER -> "refused"]

ShutDone(c) ==
  /\ Closing(c)
  /\ IF xcall[c].closed THEN Gone(Client(c)) ELSE ~client[Client(c)].cmd
  /\ AfterShut(c)
  /\ UNCHANGED <<pool, client, servers, failing, rest, xupsets>>

\* It did not exit in two seconds: stopProcess.
ShutTimeout(c) ==
  /\ Closing(c) /\ xcall[c].closed /\ ~Gone(Client(c))
  /\ Failed(Client(c)) /\ AfterShut(c)
  /\ UNCHANGED <<pool, rest, xupsets>>

\* reapIdle: a worker idle for long enough, with no goal to pursue.  One that
\* a call resumed and is about to lease was used a moment ago.
Reap(s) ==
  LET p == workers[s] IN
  /\ p # NoProc /\ ~HoldsWork(p) /\ ~client[p].goal
  /\ ~AboutToLease(p)
  /\ workers' = [workers EXCEPT ![s] = NoProc]
  /\ reaping' = reaping \cup {p}
  /\ UNCHANGED <<xjob, xkilled, starting, worker, client, servers, failing, xcall, xupsets>>

ReapShut(p) ==
  /\ p \in reaping
  /\ \/ /\ client[p].cmd /\ client[p].open
        /\ client' = [client EXCEPT ![p].open = FALSE]
        /\ UNCHANGED <<reaping, servers, failing>>
     \/ /\ ~client[p].cmd \/ (~client[p].open /\ ~server[p].up)
        /\ reaping' = reaping \ {p}
        /\ UNCHANGED <<client, servers, failing>>
     \/ /\ client[p].cmd /\ ~client[p].open /\ server[p].up
        /\ Failed(p)
        /\ reaping' = reaping \ {p}
  /\ UNCHANGED <<pool, xjob, xkilled, xcall, xupsets>>

-----------------------------------------------------------------------------
Call(c) ==
  \/ Find(c) \/ AwaitReady(c) \/ FindNone(c) \/ Reserve(c) \/ Make(c)
  \/ StartClient(c) \/ Resumed(c) \/ Lease(c) \/ LeaseIfLive(c)
  \/ Mark(c) \/ StartTurn(c) \/ Reloaded(c) \/ BeginReloaded(c) \/ Ask(c)
  \/ Begun(c) \/ Finish(c)
  \/ Kill(c) \/ Interrupt(c) \/ Interrupted(c) \/ Forget(c)
  \/ ShutClose(c) \/ ShutDone(c) \/ ShutTimeout(c)

Tell == \E f \in failing : FailFinish(f) \/ \E c \in f.calls : FailSend(f, c)

Next ==
  \/ \E c \in Calls : (Call(c) \/ Serve(c) \/ Expire(c))
  \/ \E p \in Clients : \/ Complete(p) \/ Background(p) \/ Dispatch(p) \/ DispatchLate(p)
                        \/ Exit(p) \/ Died(p) \/ ReapShut(p)
  \/ Tell
  \/ \E s \in Sessions : Reap(s)

Spec == Init /\ [][Next]_codexVars

(* A call's own goroutine runs, app-server answers and ends its turns, and  *)
(* readLoop reads.  A process may or may not crash, a context expire.       *)
Fairness ==
  /\ \A c \in Calls : WF_codexVars(Call(c) /\ ~At(c, "new")) /\ WF_codexVars(Serve(c))
  /\ \A p \in Clients :
       /\ WF_codexVars(Complete(p)) /\ WF_codexVars(Dispatch(p))
       /\ WF_codexVars(DispatchLate(p)) /\ WF_codexVars(Died(p)) /\ WF_codexVars(ReapShut(p))
  /\ WF_codexVars(Tell)

FairSpec == Spec /\ Fairness

-----------------------------------------------------------------------------
(* A worker that a call relies on stays in place, whatever is evicted or     *)
(* paused around it: only a kill takes it (pkg/codex/manager.go:81,291).     *)
HeldInPlace ==
  \A c \in Calls :
    /\ Kind(c) \in {"turn", "goal", "live"}
    /\ xcall[c].pc \in {"mark", "start", "reload", "begin", "rpc", "run"}
    => workers[SessionOf(c)] = Client(c) \/ Client(c) \in xkilled

(* No worker is left busy with nothing that will clear it: the session would *)
(* refuse every turn (pkg/codex/manager.go:485-503).                         *)
BusyHasOwner ==
  \A s \in Live :
    worker[workers[s]].busy =>
      \E c \in Calls : /\ Kind(c) = "turn" /\ Client(c) = workers[s]
                       /\ xcall[c].pc \in {"start", "reload", "begin", "rpc", "run"}

(* The stream of a turn under way has exactly one goroutine left that will   *)
(* finish it: it is registered, or taken by a failProcess, or finished.  Two *)
(* would close a closed channel, none would leave the turn running for ever  *)
(* (pkg/codex/client.go:77,507,787,1231).                                    *)
OneFinisher ==
  \A c \in Calls :
    xcall[c].pc \in {"rpc", "run"} /\ Kind(c) = "turn" =>
      Cardinality({p \in Clients : client[p].turn = c}) + Cardinality({f \in failing : f.turn = c})
        = IF xcall[c].result THEN 0 ELSE 1

Stuck == \E f \in failing : f.full # {}

(* Every call that holds a lease, waits for a turn or stops a worker comes to *)
(* an end, whatever dies: unless a failProcess waits on the channel of a call *)
(* that left it full (pkg/codex/client.go:797).                               *)
OpsSettle ==
  \A c \in Calls :
    xcall[c].pc \in {"mark", "run", "kill", "shut"}
      ~> (xcall[c].pc \in {"done", "refused"} \/ Stuck)

(* Every process belongs to the pool, or to a call that will put it there or *)
(* stop it: "Manager owns one app-server worker per live root Codex session" *)
(* (pkg/codex/manager.go:29).                                                *)
PoolOwns ==
  \A p \in Clients : server[p].up =>
    \/ \E s \in Live : workers[s] = p
    \/ p \in reaping
    \/ \E c \in Calls : Client(c) = p /\ xcall[c].pc \notin {"new", "done", "refused"}

(* The bound holds, what is within it is in place, busy for someone, and the  *)
(* stream of a turn has who will finish it (pkg/codex/manager.go:81,228,485). *)
InPlace == TypeOK /\ HeldInPlace /\ BusyHasOwner /\ OneFinisher
==============================================================================
