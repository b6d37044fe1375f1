--------------------------- MODULE CodexPoolProofs ---------------------------
(***************************************************************************)
(* Proofs about CodexPool, for every set of sessions, of calls and of      *)
(* clients, every size of the pool.                                        *)
(***************************************************************************)
EXTENDS CodexPool, FiniteSetTheorems, TLAPS

WorkerState == [settled : BOOLEAN, busy : BOOLEAN, leases : Nat]

ClientState ==
  [cmd : BOOLEAN, open : BOOLEAN, thread : BOOLEAN, turn : Calls \cup {NoProc},
   active : BOOLEAN, goal : BOOLEAN, work : BOOLEAN]

ServerState ==
  [up : BOOLEAN, loaded : Sessions \cup {NoProc}, running : BOOLEAN, goal : BOOLEAN,
   work : BOOLEAN, out : Seq(Frame)]

FailState ==
  [p : Clients, calls : SUBSET Calls, full : SUBSET Calls, turn : Calls \cup {NoProc}]

Steps ==
  {"new", "again", "ready", "reserve", "evict", "make", "ensure", "resume", "unmake", "lease",
   "mark", "start", "reload", "begin", "rpc", "run", "kill", "interrupt", "forget", "shut",
   "done", "refused"}

CallState ==
  [pc : Steps, p : Clients \cup {NoProc}, closed : BOOLEAN, left : BOOLEAN, sent : BOOLEAN,
   box : {"none", "ok", "err"}, result : BOOLEAN]

\* TypeOK but for the bound of the pool, in parts.
MapTyped ==
  /\ xjob \in CodexJobs /\ workers \in [Sessions -> Clients \cup {NoProc}] /\ starting \in Nat
  /\ reaping \subseteq Clients /\ xkilled \subseteq Clients /\ xupsets \in 0 .. MaxUpsets

WorkTyped == worker \in [Clients -> WorkerState]

ClientTyped == client \in [Clients -> ClientState]

ServerTyped == server \in [Clients -> ServerState] /\ late \in [Clients -> Seq(Frame)]

FailTyped == failing \subseteq FailState

CallTyped == xcall \in [Calls -> CallState]

Typed == MapTyped /\ WorkTyped /\ ClientTyped /\ ServerTyped /\ FailTyped /\ CallTyped

(***************************************************************************)
(* The strengthening.  What a call says of its client, its pc and its      *)
(* kind, decides what it holds of the pool.                                *)
(***************************************************************************)
Idle == {"new", "again", "reserve", "make", "done", "refused"}

\* The calls that refer to a client, but for one that stops its victim.
Active == Steps \ (Idle \cup {"evict"})

Making == {"ensure", "resume", "unmake"}

\* What a worker is held for; the calls that lease one; that have it to themselves.
HeldSet == {"mark", "start", "reload", "begin", "rpc", "run"}
Leasing == {"mark", "start", "reload", "begin", "rpc"}
Owning == {"start", "reload", "begin", "rpc", "run"}

Owner(c) == Kind(c) = "turn" /\ xcall[c].pc \in Owning

Placed ==
  \A c \in Calls :
    /\ xcall[c].pc \in Steps \ Idle => Client(c) \in Clients
    /\ xcall[c].pc \in {"start", "reload", "begin", "run"} => Kind(c) = "turn"

\* A worker is in the map for one session, that of the calls active on it.
Mapped ==
  \A s \in Live :
    /\ \A t \in Live : workers[t] = workers[s] => t = s
    /\ \A c \in Calls : xcall[c].pc \in Active /\ Client(c) = workers[s] => SessionOf(c) = s

\* A session under creation has no worker and no other call; its client is the
\* creator's alone, and unmarked.
Creating ==
  \A c \in Calls : Kind(c) = "create" =>
    /\ ~At(c, "done") =>
         /\ workers[SessionOf(c)] = NoProc
         /\ \A d \in Calls : d # c /\ SessionOf(d) = SessionOf(c) => At(d, "new")
    /\ xcall[c].pc \in Making =>
         /\ \A s \in Sessions : workers[s] # Client(c)
         /\ \A d \in Calls : d # c /\ Client(d) = Client(c) => xcall[d].pc \notin Active
         /\ ~worker[Client(c)].busy

\* Until its resume settles a worker is one call's to settle, and no call leases it.
Settling ==
  /\ \A c \in Calls : xcall[c].pc \in Making => ~worker[Client(c)].settled
  /\ \A c \in Calls : xcall[c].pc \in HeldSet \cup {"lease"} => worker[Client(c)].settled
  /\ \A c, d \in Calls :
       xcall[c].pc \in Making /\ xcall[d].pc \in Making /\ Client(c) = Client(d) => c = d

\* The calls that have room reserved.
Reserved(c) ==
  xcall[c].pc \in {"evict", "make"} \/ (Kind(c) = "create" /\ xcall[c].pc \in Making)

Reserving == {c \in Calls : Reserved(c)}

Counted ==
  /\ IsFiniteSet(Reserving) /\ Cardinality(Reserving) <= starting
  /\ IsFiniteSet(Live) /\ Cardinality(Live) + starting <= MaxLive

Holders(p) == {c \in Calls : Client(c) = p /\ xcall[c].pc \in Leasing}

Leased ==
  \A p \in Clients : IsFiniteSet(Holders(p)) /\ Cardinality(Holders(p)) <= worker[p].leases

Owned ==
  /\ \A c \in Calls : Owner(c) => worker[Client(c)].busy
  /\ \A c, d \in Calls : Owner(c) /\ Owner(d) /\ Client(c) = Client(d) => c = d

(***************************************************************************)
(* The streams.  A registered one is its client's turn; one not begun has  *)
(* nobody to finish it; one under way has one of three.                    *)
(***************************************************************************)
Registered ==
  \A p \in Clients : client[p].turn # NoProc =>
    /\ Client(client[p].turn) = p /\ Kind(client[p].turn) = "turn"
    /\ xcall[client[p].turn].pc \in {"rpc", "run"}

Taken(c) == \E f \in failing : f.turn = c

Single(c) == \A f, g \in failing : f.turn = c /\ g.turn = c => f = g

Begins == Steps \ {"rpc", "run", "done", "refused"}

Unbegun ==
  \A c \in Calls : xcall[c].pc \in Begins =>
    ~xcall[c].result /\ ~Taken(c)

Finishing ==
  \A c \in Calls : xcall[c].pc \in {"rpc", "run"} /\ Kind(c) = "turn" =>
    /\ Single(c)
    /\ client[Client(c)].turn = c <=> ~Taken(c) /\ ~xcall[c].result
    /\ xcall[c].result => ~Taken(c)

PoolLinks ==
  Placed /\ Mapped /\ Creating /\ Settling /\ Leased /\ Owned /\ HeldInPlace /\ BusyHasOwner

Streams == Registered /\ Unbegun /\ Finishing

IInv == Typed /\ Counted /\ PoolLinks /\ Streams

(***************************************************************************)
(* What the types say.                                                     *)
(***************************************************************************)
LEMMA TypeOKTyped ==
  Typed /\ Cardinality(Live) + starting <= MaxLive => TypeOK
BY DEF TypeOK, Typed, MapTyped, WorkTyped, ClientTyped, ServerTyped, FailTyped, CallTyped,
  WorkerState, ClientState, ServerState, FailState, CallState, Steps

LEMMA JobTyped ==
  ASSUME MapTyped, NEW c \in Calls
  PROVE  /\ SessionOf(c) \in Sessions
         /\ Kind(c) \in {"turn", "goal", "live", "kill", "create", "interrupt"}
BY CodexAssumption DEF MapTyped, SessionOf, Kind

LEMMA CallTo ==
  ASSUME CallTyped, NEW c \in Calls, NEW k \in CallState, xcall' = [xcall EXCEPT ![c] = k]
  PROVE  CallTyped' /\ xcall'[c] = k /\ \A d \in Calls : d # c => xcall'[d] = xcall[d]
BY DEF CallTyped

LEMMA WorkTo ==
  ASSUME WorkTyped, NEW p \in Clients, NEW w \in WorkerState, worker' = [worker EXCEPT ![p] = w]
  PROVE  WorkTyped' /\ worker'[p] = w /\ \A q \in Clients \ {p} : worker'[q] = worker[q]
BY DEF WorkTyped

LEMMA ClientTo ==
  ASSUME ClientTyped, NEW p \in Clients, NEW k \in ClientState,
         client' = [client EXCEPT ![p] = k]
  PROVE  ClientTyped' /\ client'[p] = k /\ \A q \in Clients \ {p} : client'[q] = client[q]
BY DEF ClientTyped

LEMMA ServerTo ==
  ASSUME ServerTyped, NEW p \in Clients, NEW q \in ServerState, late' = late,
         server' = [server EXCEPT ![p] = q]
  PROVE  ServerTyped'
BY DEF ServerTyped

LEMMA CallFacts ==
  ASSUME CallTyped, NEW c \in Calls
  PROVE  /\ xcall[c] \in CallState /\ xcall[c].pc \in Steps
         /\ Client(c) \in Clients \cup {NoProc} /\ xcall[c].result \in BOOLEAN
<1>1. xcall[c] \in CallState
  BY DEF CallTyped
<1> QED
  BY <1>1 DEF CallState, Client

LEMMA ClientFacts ==
  ASSUME ClientTyped, NEW p \in Clients
  PROVE  client[p] \in ClientState /\ client[p].turn \in Calls \cup {NoProc}
<1>1. client[p] \in ClientState
  BY DEF ClientTyped
<1> QED
  BY <1>1 DEF ClientState

LEMMA ServerFacts ==
  ASSUME ServerTyped, NEW p \in Clients
  PROVE  /\ server[p] \in ServerState /\ server[p].out \in Seq(Frame) /\ late[p] \in Seq(Frame)
<1>1. server[p] \in ServerState /\ late[p] \in Seq(Frame)
  BY DEF ServerTyped
<1> QED
  BY <1>1 DEF ServerState

LEMMA WorkFacts ==
  ASSUME WorkTyped, NEW p \in Clients
  PROVE  /\ worker[p] \in WorkerState /\ worker[p].leases \in Nat
         /\ worker[p].busy \in BOOLEAN /\ worker[p].settled \in BOOLEAN
<1>1. worker[p] \in WorkerState
  BY DEF WorkTyped
<1> QED
  BY <1>1 DEF WorkerState

LEMMA UpsetTyped ==
  ASSUME xupsets \in 0 .. MaxUpsets, Upset PROVE xupsets' \in 0 .. MaxUpsets
BY CodexAssumption DEF Upset

LEMMA SeqFacts ==
  ASSUME NEW S, NEW q \in Seq(S)
  PROVE  /\ q # <<>> => Head(q) \in S /\ Tail(q) \in Seq(S)
         /\ \A e \in S : Append(q, e) \in Seq(S)
         /\ \A r \in Seq(S) : q \o r \in Seq(S)
OBVIOUS

LEMMA FrameFacts ==
  /\ \A kind \in {"ok", "err"}, c \in Calls : <<kind, c>> \in Frame
  /\ \A kind \in {"started", "completed", "goal", "cleared", "work", "workEnded"} :
       Note(kind) \in Frame
BY DEF Frame, Note

LEMMA NewClientTyped == NewClient \in ClientState /\ NewClient.turn = NoProc
BY DEF NewClient, ClientState

LEMMA DownTyped == Down \in ServerState
<1> DEFINE none == <<>>
<1>1. none \in Seq(Frame)
  OBVIOUS
<1>2. Down = [up |-> FALSE, loaded |-> NoProc, running |-> FALSE, goal |-> FALSE,
              work |-> FALSE, out |-> none]
  BY DEF Down
<1> HIDE DEF none
<1> QED
  BY <1>1, <1>2 DEF ServerState

(***************************************************************************)
(* Where a step leaves the call that takes it: at pc, with client p.       *)
(***************************************************************************)
Goes(c, pc, p) ==
  /\ CallTyped'
  /\ xcall'[c].pc = pc /\ xcall'[c].p = p /\ xcall'[c].result = xcall[c].result
  /\ \A d \in Calls : d # c => xcall'[d] = xcall[d]

\* It goes there if what it becomes says so.
LEMMA GoesTo ==
  ASSUME CallTyped, NEW c \in Calls, NEW k \in CallState, xcall' = [xcall EXCEPT ![c] = k],
         k.result = xcall[c].result
  PROVE  Goes(c, k.pc, k.p)
BY CallTo DEF Goes

LEMMA GotoGoes ==
  ASSUME CallTyped, NEW c \in Calls, NEW pc \in Steps, Goto(c, pc)
  PROVE  Goes(c, pc, Client(c))
<1> DEFINE k == [xcall[c] EXCEPT !.pc = pc]
<1>1. k \in CallState /\ k.pc = pc /\ k.p = Client(c) /\ k.result = xcall[c].result
  BY CallFacts DEF CallState, Client
<1>2. xcall' = [xcall EXCEPT ![c] = k]
  BY DEF Goto
<1> HIDE DEF k
<1> QED
  BY <1>1, <1>2, GoesTo

LEMMA ReturnedGoes ==
  ASSUME CallTyped, NEW c \in Calls, NEW pc \in Steps, Returned(c, pc)
  PROVE  Goes(c, pc, Client(c))
<1> DEFINE k == [xcall[c] EXCEPT !.pc = pc, !.sent = FALSE]
<1>1. k \in CallState /\ k.pc = pc /\ k.p = Client(c) /\ k.result = xcall[c].result
  BY CallFacts DEF CallState, Client
<1>2. xcall' = [xcall EXCEPT ![c] = k]
  BY DEF Returned
<1> HIDE DEF k
<1> QED
  BY <1>1, <1>2, GoesTo

LEMMA WritesGoes ==
  ASSUME CallTyped, NEW c \in Calls, NEW pc \in Steps, Writes(c, pc)
  PROVE  Goes(c, pc, Client(c))
<1> DEFINE k == [xcall[c] EXCEPT !.pc = pc, !.sent = TRUE, !.box = "none", !.left = FALSE]
<1>1. k \in CallState /\ k.pc = pc /\ k.p = Client(c) /\ k.result = xcall[c].result
  BY CallFacts DEF CallState, Client
<1>2. xcall' = [xcall EXCEPT ![c] = k]
  BY DEF Writes
<1> HIDE DEF k
<1> QED
  BY <1>1, <1>2, GoesTo

\* The call takes up a client.
LEMMA TakesGoes ==
  ASSUME CallTyped, NEW c \in Calls, NEW pc \in Steps, NEW p \in Clients,
         xcall' = [xcall EXCEPT ![c].p = p, ![c].pc = pc]
  PROVE  Goes(c, pc, p)
<1> DEFINE k == [xcall[c] EXCEPT !.p = p, !.pc = pc]
<1>1. k \in CallState /\ k.pc = pc /\ k.p = p /\ k.result = xcall[c].result
  BY CallFacts DEF CallState
<1>2. xcall' = [xcall EXCEPT ![c] = k]
  OBVIOUS
<1> HIDE DEF k
<1> QED
  BY <1>1, <1>2, GoesTo

\* A call that goes nowhere keeps its place.
Stays ==
  CallTyped' /\ \A d \in Calls : xcall'[d].pc = xcall[d].pc /\ xcall'[d].p = xcall[d].p

\* The jobs stay.
LEMMA SameJob ==
  ASSUME xjob' = xjob
  PROVE  \A d : SessionOf(d)' = SessionOf(d) /\ Kind(d)' = Kind(d)
BY DEF SessionOf, Kind

(***************************************************************************)
(* What a step of one call, c, does to the parts of the strengthening.     *)
(***************************************************************************)
Others(c) ==
  \A d \in Calls : d # c => xcall'[d].pc = xcall[d].pc /\ xcall'[d].p = xcall[d].p

\* Where c goes, of what the workers depend on.
Moves(c, pc, p) == Others(c) /\ xcall'[c].pc = pc /\ xcall'[c].p = p

LEMMA GoesMoves ==
  ASSUME NEW c \in Calls, NEW pc, NEW p, Goes(c, pc, p) PROVE Moves(c, pc, p)
BY DEF Goes, Moves, Others

\* Workers only leave the map.
Fewer == \A s \in Sessions : workers'[s] = workers[s] \/ workers'[s] = NoProc

LEMMA PlacedOne ==
  ASSUME Placed, xjob' = xjob, NEW c, Others(c),
         c \in Calls =>
           /\ xcall'[c].pc \in Steps \ Idle => xcall'[c].p \in Clients
           /\ xcall'[c].pc \in {"start", "reload", "begin", "run"} => Kind(c) = "turn"
  PROVE  Placed'
<1>1. ASSUME NEW d \in Calls
      PROVE  /\ xcall'[d].pc \in Steps \ Idle => xcall'[d].p \in Clients
             /\ xcall'[d].pc \in {"start", "reload", "begin", "run"} => Kind(d) = "turn"
  <2>1. CASE d = c
    BY <2>1
  <2>2. CASE d # c
    BY <2>2 DEF Placed, Others, Client
  <2> QED
    BY <2>1, <2>2
<1> QED
  BY <1>1, SameJob DEF Placed, Client

\* A call takes up the worker of its session, or a client that is in no map.
LEMMA MappedOne ==
  ASSUME MapTyped, Mapped, xjob' = xjob, NEW c, Others(c), Fewer,
         c \in Calls /\ xcall'[c].pc \in Active =>
           \/ xcall[c].pc \in Active /\ xcall'[c].p = xcall[c].p
           \/ xcall'[c].p = workers[SessionOf(c)]
           \/ \A s \in Sessions : workers[s] # xcall'[c].p
  PROVE  Mapped'
<1>1. \A s \in Live' : s \in Live /\ workers'[s] = workers[s]
  BY DEF Live, Fewer
<1>2. ASSUME NEW s \in Live', NEW d \in Calls, xcall'[d].pc \in Active, xcall'[d].p = workers'[s]
      PROVE  SessionOf(d) = s
  <2>1. CASE xcall[d].pc \in Active /\ xcall'[d].p = xcall[d].p
    BY <1>1, <1>2, <2>1 DEF Mapped, Client
  <2>2. CASE d = c /\ xcall'[c].p = workers[SessionOf(c)]
    <3>1. SessionOf(c) \in Sessions /\ workers[SessionOf(c)] = workers[s] /\ workers[s] # NoProc
      BY <1>1, <1>2, <2>2, JobTyped DEF Live
    <3>2. SessionOf(c) \in Live /\ s \in Live
      BY <1>1, <3>1 DEF Live
    <3> QED
      BY <2>2, <3>1, <3>2 DEF Mapped
  <2>3. CASE d = c /\ \A t \in Sessions : workers[t] # xcall'[c].p
    BY <1>1, <1>2, <2>3 DEF Live
  <2>4. d # c => xcall[d].pc \in Active /\ xcall'[d].p = xcall[d].p
    BY <1>2 DEF Others
  <2> QED
    BY <1>2, <2>1, <2>2, <2>3, <2>4
<1>3. \A s, t \in Live' : workers'[t] = workers'[s] => t = s
  BY <1>1 DEF Mapped
<1> QED
  BY <1>2, <1>3, SameJob DEF Mapped, Client

\* A call begins only when its session has been created, and takes up a worker of
\* the map.
LEMMA CreatingOne ==
  ASSUME MapTyped, Placed, Creating, xjob' = xjob, NEW c, Others(c), Fewer,
         c \in Calls =>
           /\ xcall[c].pc = "new" /\ xcall'[c].pc # "new" => Named(c)
           /\ xcall[c].pc # "new" => xcall'[c].pc # "new"
           /\ xcall[c].pc = "done" => xcall'[c].pc = "done"
           /\ xcall'[c].pc \in Active =>
                \/ xcall[c].pc \in Active /\ xcall'[c].p = xcall[c].p
                \/ \E s \in Sessions : workers[s] = xcall'[c].p
           /\ xcall'[c].pc \in Making => xcall[c].pc \in Making /\ xcall'[c].p = xcall[c].p,
         \A q \in Clients : worker'[q].busy =>
           \/ worker[q].busy
           \/ c \in Calls /\ xcall[c].pc \in Active \ Making /\ Client(c) = q
  PROVE  Creating'
<1> SUFFICES ASSUME NEW d \in Calls, Kind(d) = "create"
             PROVE  /\ xcall'[d].pc # "done" =>
                         /\ workers'[SessionOf(d)] = NoProc
                         /\ \A e \in Calls : e # d /\ SessionOf(e) = SessionOf(d) =>
                              xcall'[e].pc = "new"
                    /\ xcall'[d].pc \in Making =>
                         /\ \A s \in Sessions : workers'[s] # xcall'[d].p
                         /\ \A e \in Calls : e # d /\ xcall'[e].p = xcall'[d].p =>
                              xcall'[e].pc \notin Active
                         /\ ~worker'[xcall'[d].p].busy
  BY SameJob DEF Creating, At, Client
<1>1. ASSUME xcall'[d].pc # "done"
      PROVE  /\ workers'[SessionOf(d)] = NoProc
             /\ \A e \in Calls : e # d /\ SessionOf(e) = SessionOf(d) => xcall'[e].pc = "new"
  <2>1. xcall[d].pc # "done"
    BY <1>1 DEF Others
  <2>2. workers[SessionOf(d)] = NoProc
        /\ \A e \in Calls : e # d /\ SessionOf(e) = SessionOf(d) => xcall[e].pc = "new"
    BY <2>1 DEF Creating, At
  <2>3. SessionOf(d) \in Sessions
    BY JobTyped
  <2>4. ASSUME NEW e \in Calls, e # d, SessionOf(e) = SessionOf(d), xcall'[e].pc # "new"
        PROVE  FALSE
    <3>1. xcall[e].pc = "new"
      BY <2>2, <2>4
    <3>2. e = c /\ Named(c)
      BY <2>4, <3>1 DEF Others
    <3> QED
      BY <2>1, <2>4, <3>2 DEF Named, At
  <2> QED
    BY <2>2, <2>3, <2>4 DEF Fewer
<1>2. ASSUME xcall'[d].pc \in Making
      PROVE  /\ \A s \in Sessions : workers'[s] # xcall'[d].p
             /\ \A e \in Calls : e # d /\ xcall'[e].p = xcall'[d].p => xcall'[e].pc \notin Active
             /\ ~worker'[xcall'[d].p].busy
  <2>1. xcall[d].pc \in Making /\ xcall'[d].p = Client(d)
    BY <1>2 DEF Others, Client
  <2>2. /\ \A s \in Sessions : workers[s] # Client(d)
        /\ \A e \in Calls : e # d /\ Client(e) = Client(d) => xcall[e].pc \notin Active
        /\ ~worker[Client(d)].busy
    BY <2>1 DEF Creating
  <2>3. Client(d) \in Clients
    BY <2>1 DEF Placed, Making, Steps, Idle
  <2>4. ASSUME NEW e \in Calls, e # d, xcall'[e].p = xcall'[d].p, xcall'[e].pc \in Active
        PROVE  FALSE
    <3>1. CASE xcall[e].pc \in Active /\ xcall'[e].p = xcall[e].p
      BY <2>1, <2>2, <2>4, <3>1 DEF Client
    <3>2. CASE e = c /\ \E s \in Sessions : workers[s] = xcall'[c].p
      BY <2>1, <2>2, <2>4, <3>2
    <3>3. e # c => xcall[e].pc \in Active /\ xcall'[e].p = xcall[e].p
      BY <2>4 DEF Others
    <3> QED
      BY <2>4, <3>1, <3>2, <3>3
  <2>5. ~worker'[Client(d)].busy
    BY <2>1, <2>2, <2>3
  <2>6. \A s \in Sessions : workers'[s] # Client(d)
    BY <2>2, <2>3, CodexAssumption DEF Fewer
  <2> QED
    BY <2>1, <2>4, <2>5, <2>6
<1> QED
  BY <1>1, <1>2

LEMMA SettlingOne ==
  ASSUME Placed, Settling, NEW c, Others(c),
         \A q \in Clients : worker'[q].settled = worker[q].settled,
         c \in Calls =>
           /\ xcall'[c].pc \in Making => xcall[c].pc \in Making /\ xcall'[c].p = xcall[c].p
           /\ xcall'[c].pc \in HeldSet \cup {"lease"} =>
                \/ xcall[c].pc \in HeldSet \cup {"lease"} /\ xcall'[c].p = xcall[c].p
                \/ xcall'[c].p \in Clients /\ worker[xcall'[c].p].settled
  PROVE  Settling'
<1>1. ASSUME NEW d \in Calls, xcall'[d].pc \in Making
      PROVE  xcall[d].pc \in Making /\ xcall'[d].p = Client(d) /\ Client(d) \in Clients
  <2>1. xcall[d].pc \in Making /\ xcall'[d].p = Client(d)
    BY <1>1 DEF Others, Client
  <2> QED
    BY <2>1 DEF Placed, Making, Steps, Idle
<1>2. ASSUME NEW d \in Calls, xcall'[d].pc \in HeldSet \cup {"lease"}
      PROVE  worker'[xcall'[d].p].settled
  <2>1. CASE xcall[d].pc \in HeldSet \cup {"lease"} /\ xcall'[d].p = xcall[d].p
    <3>1. worker[Client(d)].settled /\ Client(d) \in Clients
      BY <2>1 DEF Settling, Placed, HeldSet, Steps, Idle
    <3> QED
      BY <2>1, <3>1 DEF Client
  <2>2. CASE d = c /\ xcall'[c].p \in Clients /\ worker[xcall'[c].p].settled
    BY <2>2
  <2> QED
    BY <1>2, <2>1, <2>2 DEF Others
<1>3. \A d \in Calls : xcall'[d].pc \in Making => ~worker'[xcall'[d].p].settled
  BY <1>1 DEF Settling
<1>4. \A d, e \in Calls :
        xcall'[d].pc \in Making /\ xcall'[e].pc \in Making /\ xcall'[d].p = xcall'[e].p => d = e
  BY <1>1 DEF Settling
<1> QED
  BY <1>2, <1>3, <1>4 DEF Settling, Client

\* A lease is taken, or given back by the call that had it.
LEMMA LeasedOne ==
  ASSUME WorkTyped, WorkTyped', Leased, NEW c, Others(c),
         \A q \in Clients :
           \/ /\ worker'[q].leases >= worker[q].leases
              /\ c \in Calls /\ xcall'[c].pc \in Leasing /\ xcall'[c].p = q =>
                   xcall[c].pc \in Leasing /\ Client(c) = q
           \/ worker'[q].leases = worker[q].leases + 1
           \/ /\ worker'[q].leases = worker[q].leases - 1
              /\ c \in Calls /\ xcall[c].pc \in Leasing /\ Client(c) = q
              /\ ~(xcall'[c].pc \in Leasing /\ xcall'[c].p = q)
  PROVE  Leased'
<1> SUFFICES ASSUME NEW q \in Clients
             PROVE  IsFiniteSet(Holders(q)') /\ Cardinality(Holders(q)') <= worker'[q].leases
  BY DEF Leased
<1> DEFINE H == Holders(q)
           N == Holders(q)'
<1>1. IsFiniteSet(H) /\ Cardinality(H) \in Nat /\ Cardinality(H) <= worker[q].leases
  BY FS_CardinalityType DEF Leased
<1>2. worker[q].leases \in Nat /\ worker'[q].leases \in Nat
  BY DEF WorkTyped, WorkerState
<1>3. ASSUME NEW d, d # c PROVE d \in N <=> d \in H
  BY <1>3 DEF Others, Holders, Client
<1>4. c \in N <=> c \in Calls /\ xcall'[c].pc \in Leasing /\ xcall'[c].p = q
  BY DEF Holders, Client
<1>5. c \in H <=> c \in Calls /\ xcall[c].pc \in Leasing /\ Client(c) = q
  BY DEF Holders
<1> HIDE DEF H, N
<1>6. CASE worker'[q].leases >= worker[q].leases /\ (c \in N => c \in H)
  <2>1. N \subseteq H
    BY <1>3, <1>6
  <2>2. IsFiniteSet(N) /\ Cardinality(N) <= Cardinality(H) /\ Cardinality(N) \in Nat
    BY <1>1, <2>1, FS_Subset, FS_CardinalityType
  <2> QED
    BY <1>1, <1>2, <1>6, <2>2 DEF N
<1>7. CASE worker'[q].leases = worker[q].leases + 1
  <2>1. N \subseteq H \cup {c}
    BY <1>3
  <2>2. IsFiniteSet(H \cup {c}) /\ Cardinality(H \cup {c}) <= Cardinality(H) + 1
        /\ Cardinality(H \cup {c}) \in Nat
    <3>1. /\ IsFiniteSet(H \cup {c})
          /\ Cardinality(H \cup {c}) = IF c \in H THEN Cardinality(H) ELSE Cardinality(H) + 1
      BY <1>1, FS_AddElement
    <3> QED
      BY <1>1, <3>1
  <2>3. IsFiniteSet(N) /\ Cardinality(N) <= Cardinality(H \cup {c}) /\ Cardinality(N) \in Nat
    BY <2>1, <2>2, FS_Subset, FS_CardinalityType
  <2> QED
    BY <1>1, <1>2, <1>7, <2>2, <2>3 DEF N
<1>8. CASE worker'[q].leases = worker[q].leases - 1 /\ c \in H /\ c \notin N
  <2>1. N = H \ {c}
    BY <1>3, <1>8
  <2>2. IsFiniteSet(N) /\ Cardinality(N) = Cardinality(H) - 1
    BY <1>1, <1>8, <2>1, FS_RemoveElement
  <2> QED
    BY <1>1, <1>2, <1>8, <2>2 DEF N
<1> QED
  BY <1>4, <1>5, <1>6, <1>7, <1>8

\* A call that leases a worker has a lease to give back.
LEMMA CanRelease ==
  ASSUME WorkTyped, Leased, NEW c \in Calls, xcall[c].pc \in Leasing, Client(c) \in Clients
  PROVE  worker[Client(c)].leases - 1 \in Nat
<1> DEFINE H == Holders(Client(c))
<1>1. IsFiniteSet(H) /\ c \in H /\ Cardinality(H) <= worker[Client(c)].leases
  BY DEF Holders, Leased
<1>2. Cardinality(H) \in Nat /\ Cardinality(H) # 0
  <2>1. H # {}
    BY <1>1
  <2> HIDE DEF H
  <2> QED
    BY <1>1, <2>1, FS_EmptySet, FS_CardinalityType
<1>3. worker[Client(c)].leases \in Nat
  BY WorkFacts
<1> QED
  BY <1>1, <1>2, <1>3

LEMMA HoldsHeld ==
  ASSUME WorkTyped, Placed, Leased, Owned, NEW p \in Clients, ~HoldsWork(p),
         NEW d \in Calls, Client(d) = p, xcall[d].pc \in HeldSet
  PROVE  FALSE
<1>1. ~worker[p].busy /\ worker[p].leases = 0
  BY WorkFacts DEF HoldsWork
<1>2. IsFiniteSet(Holders(p)) /\ Cardinality(Holders(p)) = 0
  BY <1>1, FS_CardinalityType DEF Leased
<1>3. xcall[d].pc \notin Leasing
  BY <1>2, FS_EmptySet DEF Holders
<1>4. xcall[d].pc = "run" /\ Kind(d) = "turn"
  BY <1>3 DEF HeldSet, Leasing, Placed
<1> QED
  BY <1>1, <1>4 DEF Owned, Owner, Owning

LEMMA HeldOne ==
  ASSUME MapTyped, HeldInPlace, xjob' = xjob, NEW c, Others(c), xkilled \subseteq xkilled',
         \A s \in Sessions :
           \/ workers'[s] = workers[s] \/ workers[s] \in xkilled'
           \/ \A d \in Calls : Client(d) = workers[s] => xcall[d].pc \notin HeldSet,
         c \in Calls /\ xcall'[c].pc \in HeldSet =>
           \/ xcall[c].pc \in HeldSet /\ xcall'[c].p = xcall[c].p
           \/ workers'[SessionOf(c)] = xcall'[c].p
  PROVE  HeldInPlace'
<1> SUFFICES ASSUME NEW d \in Calls, Kind(d) \in {"turn", "goal", "live"},
                    xcall'[d].pc \in HeldSet
             PROVE  workers'[SessionOf(d)] = xcall'[d].p \/ xcall'[d].p \in xkilled'
  BY SameJob DEF HeldInPlace, HeldSet, Client
<1>1. SessionOf(d) \in Sessions
  BY JobTyped
<1>2. CASE xcall[d].pc \in HeldSet /\ xcall'[d].p = xcall[d].p
  <2>1. workers[SessionOf(d)] = xcall[d].p \/ xcall[d].p \in xkilled
    BY <1>2 DEF HeldInPlace, HeldSet, Client
  <2> QED
    BY <1>1, <1>2, <2>1 DEF Client
<1>3. CASE d = c /\ workers'[SessionOf(c)] = xcall'[c].p
  BY <1>3
<1> QED
  BY <1>2, <1>3 DEF Others

\* A worker changes hands only when nobody owns it.
LEMMA OwnedOne ==
  ASSUME Owned, xjob' = xjob, NEW c, Others(c),
         \A d \in Calls : d # c /\ Owner(d) => worker'[Client(d)].busy,
         c \in Calls /\ Owner(c)' =>
           /\ worker'[xcall'[c].p].busy
           /\ \/ Owner(c) /\ xcall'[c].p = xcall[c].p
              \/ \A d \in Calls : d # c /\ Owner(d) => Client(d) # xcall'[c].p
  PROVE  Owned'
<1>1. ASSUME NEW d \in Calls, d # c
      PROVE  (Owner(d)' <=> Owner(d)) /\ xcall'[d].p = Client(d)
  BY <1>1, SameJob DEF Others, Owner, Client
<1>2. \A d \in Calls : Owner(d)' => worker'[xcall'[d].p].busy
  BY <1>1
<1>3. \A d, e \in Calls : Owner(d)' /\ Owner(e)' /\ xcall'[d].p = xcall'[e].p => d = e
  <2> SUFFICES ASSUME NEW d \in Calls, NEW e \in Calls, Owner(d)', Owner(e)',
                      xcall'[d].p = xcall'[e].p, d # e
               PROVE  FALSE
    OBVIOUS
  <2>1. d # c /\ e # c => d = e
    BY <1>1 DEF Owned
  <2>2. ASSUME NEW x \in Calls, x # c, Owner(x)', c \in Calls, Owner(c)',
               xcall'[x].p = xcall'[c].p
        PROVE  FALSE
    BY <1>1, <2>2 DEF Owned, Client
  <2> QED
    BY <2>1, <2>2
<1> QED
  BY <1>2, <1>3, SameJob DEF Owned, Client

\* A worker of the map is marked by its call, or stays marked by another.
LEMMA BusyOne ==
  ASSUME BusyHasOwner, xjob' = xjob, NEW c, Others(c),
         \A s \in Sessions : workers'[s] # NoProc /\ worker'[workers'[s]].busy =>
           \/ /\ workers'[s] = workers[s] /\ worker[workers[s]].busy
              /\ c \in Calls /\ Owner(c) /\ Client(c) = workers[s] =>
                   Owner(c)' /\ xcall'[c].p = xcall[c].p
           \/ c \in Calls /\ Owner(c)' /\ xcall'[c].p = workers'[s]
  PROVE  BusyHasOwner'
<1> SUFFICES ASSUME NEW s \in Live', worker'[workers'[s]].busy
             PROVE  \E d \in Calls : xcall'[d].p = workers'[s] /\ Owner(d)'
  BY DEF BusyHasOwner, Owner, Owning, Client
<1>1. s \in Sessions /\ workers'[s] # NoProc
  BY DEF Live
<1>2. CASE c \in Calls /\ Owner(c)' /\ xcall'[c].p = workers'[s]
  BY <1>2
<1>3. CASE /\ workers'[s] = workers[s] /\ worker[workers[s]].busy
           /\ c \in Calls /\ Owner(c) /\ Client(c) = workers[s] =>
                Owner(c)' /\ xcall'[c].p = xcall[c].p
  <2>1. PICK d \in Calls : Client(d) = workers[s] /\ Owner(d)
    BY <1>1, <1>3 DEF BusyHasOwner, Owner, Owning, Live
  <2>2. d # c => xcall'[d].p = xcall[d].p /\ Owner(d)'
    BY <2>1, SameJob DEF Others, Owner
  <2> QED
    BY <1>3, <2>1, <2>2 DEF Client
<1> QED
  BY <1>1, <1>2, <1>3

\* Room is reserved for as many calls, or more.
LEMMA ReservingOne ==
  ASSUME Counted, xjob' = xjob, NEW c, Others(c), starting \in Nat, starting' \in Nat,
         \/ starting' >= starting /\ (c \in Calls /\ Reserved(c)' => Reserved(c))
         \/ starting' = starting + 1
         \/ starting' = starting - 1 /\ c \in Calls /\ Reserved(c) /\ ~Reserved(c)'
  PROVE  IsFiniteSet(Reserving') /\ Cardinality(Reserving') <= starting'
<1> DEFINE H == Reserving
           N == Reserving'
<1>1. IsFiniteSet(H) /\ Cardinality(H) \in Nat /\ Cardinality(H) <= starting
  BY FS_CardinalityType DEF Counted
<1>2. ASSUME NEW d, d # c PROVE d \in N <=> d \in H
  BY <1>2, SameJob DEF Others, Reserving, Reserved
<1>3. (c \in N <=> c \in Calls /\ Reserved(c)') /\ (c \in H <=> c \in Calls /\ Reserved(c))
  BY DEF Reserving
<1> HIDE DEF H, N
<1>4. CASE starting' >= starting /\ (c \in N => c \in H)
  <2>1. N \subseteq H
    BY <1>2, <1>4
  <2>2. IsFiniteSet(N) /\ Cardinality(N) <= Cardinality(H) /\ Cardinality(N) \in Nat
    BY <1>1, <2>1, FS_Subset, FS_CardinalityType
  <2> QED
    BY <1>1, <1>4, <2>2 DEF N
<1>5. CASE starting' = starting + 1
  <2>1. N \subseteq H \cup {c}
    BY <1>2
  <2>2. IsFiniteSet(H \cup {c}) /\ Cardinality(H \cup {c}) <= Cardinality(H) + 1
        /\ Cardinality(H \cup {c}) \in Nat
    <3>1. /\ IsFiniteSet(H \cup {c})
          /\ Cardinality(H \cup {c}) = IF c \in H THEN Cardinality(H) ELSE Cardinality(H) + 1
      BY <1>1, FS_AddElement
    <3> QED
      BY <1>1, <3>1
  <2>3. IsFiniteSet(N) /\ Cardinality(N) <= Cardinality(H \cup {c}) /\ Cardinality(N) \in Nat
    BY <2>1, <2>2, FS_Subset, FS_CardinalityType
  <2> QED
    BY <1>1, <1>5, <2>2, <2>3 DEF N
<1>6. CASE starting' = starting - 1 /\ c \in H /\ c \notin N
  <2>1. N = H \ {c}
    BY <1>2, <1>6
  <2>2. IsFiniteSet(N) /\ Cardinality(N) = Cardinality(H) - 1
    BY <1>1, <1>6, <2>1, FS_RemoveElement
  <2> QED
    BY <1>1, <1>6, <2>2 DEF N
<1> QED
  BY <1>3, <1>4, <1>5, <1>6

\* A call with room reserved can give it back.
LEMMA CanFinishStart ==
  ASSUME Counted, starting \in Nat, NEW c \in Calls, Reserved(c)
  PROVE  starting - 1 \in Nat
<1>1. IsFiniteSet(Reserving) /\ c \in Reserving /\ Cardinality(Reserving) <= starting
  BY DEF Counted, Reserving
<1>2. Cardinality(Reserving) \in Nat /\ Cardinality(Reserving) # 0
  <2>1. Reserving # {}
    BY <1>1
  <2> QED
    BY <1>1, <2>1, FS_EmptySet, FS_CardinalityType
<1> QED
  BY <1>1, <1>2

\* The map only shrinks.
LEMMA LiveFewer ==
  ASSUME Counted, Fewer
  PROVE  /\ IsFiniteSet(Live') /\ Cardinality(Live) \in Nat /\ Cardinality(Live') \in Nat
         /\ Cardinality(Live') <= Cardinality(Live)
         /\ \A s \in Live : workers'[s] = NoProc => Cardinality(Live') < Cardinality(Live)
<1>1. Live' \subseteq Live /\ IsFiniteSet(Live)
  BY DEF Live, Counted, Fewer
<1>2. IsFiniteSet(Live') /\ Cardinality(Live') <= Cardinality(Live)
  BY <1>1, FS_Subset
<1>3. Cardinality(Live) \in Nat /\ Cardinality(Live') \in Nat
  BY <1>1, <1>2, FS_CardinalityType
<1>4. ASSUME NEW s \in Live, workers'[s] = NoProc
      PROVE  Cardinality(Live') < Cardinality(Live)
  <2>1. Live' \subseteq Live \ {s}
    BY <1>1, <1>4 DEF Live
  <2>2. IsFiniteSet(Live \ {s}) /\ Cardinality(Live \ {s}) = Cardinality(Live) - 1
    BY <1>1, FS_RemoveElement
  <2>3. Cardinality(Live') <= Cardinality(Live \ {s})
    BY <2>1, <2>2, FS_Subset
  <2> QED
    BY <1>3, <2>2, <2>3
<1> QED
  BY <1>1, <1>2, <1>3, <1>4

\* The map grows by one session at most.
LEMMA LiveMore ==
  ASSUME Counted, NEW t, \A s \in Sessions : s # t => workers'[s] = workers[s]
  PROVE  /\ IsFiniteSet(Live') /\ Cardinality(Live) \in Nat /\ Cardinality(Live') \in Nat
         /\ Cardinality(Live') <= Cardinality(Live) + 1
<1>1. Live' \subseteq Live \cup {t} /\ IsFiniteSet(Live) /\ Cardinality(Live) \in Nat
  BY FS_CardinalityType DEF Live, Counted
<1>2. /\ IsFiniteSet(Live \cup {t})
      /\ Cardinality(Live \cup {t}) = IF t \in Live THEN Cardinality(Live) ELSE Cardinality(Live) + 1
  BY <1>1, FS_AddElement
<1>3. IsFiniteSet(Live') /\ Cardinality(Live') <= Cardinality(Live \cup {t})
  BY <1>1, <1>2, FS_Subset
<1>4. Cardinality(Live') \in Nat
  BY <1>3, FS_CardinalityType
<1> QED
  BY <1>1, <1>2, <1>3, <1>4

(***************************************************************************)
(* Steps that leave the workers as they are: a call moves on, and says of  *)
(* its worker no more than it did.                                         *)
(***************************************************************************)
Pool == <<xjob, workers, starting, worker, xkilled>>

\* From from to to with client p, c may go.
May(c, from, to, p) ==
  /\ from = "new" /\ to # "new" => Named(c)
  /\ from # "new" => to # "new"
  /\ from # "done"
  /\ to \in Active =>
       \/ from \in Active /\ p = Client(c)
       \/ p = workers[SessionOf(c)] /\ p \in Clients
  /\ to \in Steps \ Idle => p \in Clients
  /\ to \in Making => from \in Making /\ p = Client(c)
  /\ to \in {"evict", "make"} => from \in {"evict", "make"}
  /\ to \in Leasing => from \in Leasing /\ p = Client(c)
  /\ to \in HeldSet => from \in HeldSet /\ p = Client(c)
  /\ Kind(c) = "turn" => (to \in Owning <=> from \in Owning)
  /\ to \in Owning => p = Client(c)
  /\ to \in {"start", "reload", "begin", "run"} => Kind(c) = "turn"
  /\ to = "lease" => worker[p].settled

LEMMA PoolMoves ==
  ASSUME Typed, Counted, PoolLinks, NEW c \in Calls, NEW pc \in Steps, NEW p, Moves(c, pc, p),
         UNCHANGED Pool, May(c, xcall[c].pc, pc, p)
  PROVE  Counted' /\ PoolLinks'
<1>1. /\ Placed /\ Mapped /\ Creating /\ Settling /\ Leased /\ Owned /\ HeldInPlace /\ BusyHasOwner
      /\ MapTyped /\ WorkTyped /\ CallTyped
  BY DEF PoolLinks, Typed
<1>2. Others(c) /\ xcall'[c].pc = pc /\ xcall'[c].p = p
  BY DEF Moves
<1>3. /\ xjob' = xjob /\ workers' = workers /\ starting' = starting /\ worker' = worker
      /\ xkilled' = xkilled /\ Fewer
  BY DEF Pool, Fewer
<1>4. xcall[c].pc \in Steps /\ Client(c) = xcall[c].p
  BY <1>1, CallFacts DEF Client
<1>5. Placed'
  BY <1>1, <1>2, <1>3, PlacedOne DEF May
<1>6. Mapped'
  <2>1. pc \in Active =>
          \/ xcall[c].pc \in Active /\ p = xcall[c].p
          \/ p = workers[SessionOf(c)]
    BY <1>4 DEF May
  <2> QED
    BY <1>1, <1>2, <1>3, <2>1, MappedOne
<1>7. Creating'
  <2>1. SessionOf(c) \in Sessions
    BY <1>1, JobTyped
  <2>2. /\ xcall[c].pc = "new" /\ pc # "new" => Named(c)
        /\ xcall[c].pc # "new" => pc # "new"
        /\ xcall[c].pc # "done"
        /\ pc \in Active =>
             \/ xcall[c].pc \in Active /\ p = xcall[c].p
             \/ \E s \in Sessions : workers[s] = p
        /\ pc \in Making => xcall[c].pc \in Making /\ p = xcall[c].p
    BY <1>4, <2>1 DEF May
  <2> QED
    BY <1>1, <1>2, <1>3, <2>2, CreatingOne
<1>8. Settling'
  <2>1. /\ pc \in Making => xcall[c].pc \in Making /\ p = xcall[c].p
        /\ pc \in HeldSet \cup {"lease"} =>
             \/ xcall[c].pc \in HeldSet \cup {"lease"} /\ p = xcall[c].p
             \/ p \in Clients /\ worker[p].settled
    BY <1>4 DEF May, Steps, Idle
  <2> QED
    BY <1>1, <1>2, <1>3, <2>1, SettlingOne
<1>9. Leased'
  <2>1. WorkTyped'
    BY <1>1, <1>3 DEF WorkTyped
  <2>2. pc \in Leasing => xcall[c].pc \in Leasing /\ Client(c) = p
    BY DEF May
  <2>3. \A q \in Clients : worker'[q].leases >= worker[q].leases
    BY <1>1, <1>3, WorkFacts
  <2> QED
    BY <1>1, <1>2, <2>1, <2>2, <2>3, LeasedOne
<1>10. (Owner(c)' <=> Owner(c)) /\ (Owner(c)' => p = xcall[c].p)
  BY <1>2, <1>3, <1>4, SameJob DEF May, Owner
<1>11. Owned'
  <2>1. \A d \in Calls : Owner(d) => worker'[Client(d)].busy
    BY <1>1, <1>3 DEF Owned
  <2> QED
    BY <1>1, <1>2, <1>3, <1>4, <1>10, <2>1, OwnedOne
<1>12. HeldInPlace'
  <2>1. pc \in HeldSet => xcall[c].pc \in HeldSet /\ p = xcall[c].p
    BY <1>4 DEF May
  <2> QED
    BY <1>1, <1>2, <1>3, <2>1, HeldOne
<1>13. BusyHasOwner'
  BY <1>1, <1>2, <1>3, <1>10, BusyOne
<1>14. Counted'
  <2>1. Reserved(c)' => Reserved(c)
    BY <1>2, <1>3, SameJob DEF May, Reserved
  <2>2. starting \in Nat
    BY <1>1 DEF MapTyped
  <2>3. IsFiniteSet(Reserving') /\ Cardinality(Reserving') <= starting'
    BY <1>2, <1>3, <2>1, <2>2, ReservingOne
  <2>4. Live' = Live
    BY <1>3 DEF Live
  <2> QED
    BY <1>3, <2>3, <2>4 DEF Counted
<1> QED
  BY <1>5, <1>6, <1>7, <1>8, <1>9, <1>11, <1>12, <1>13, <1>14 DEF PoolLinks

\* Or no call moves.
LEMMA PoolStays ==
  ASSUME Typed, Counted, PoolLinks, Stays, UNCHANGED Pool
  PROVE  Counted' /\ PoolLinks'
<1>1. /\ Placed /\ Mapped /\ Creating /\ Settling /\ Leased /\ Owned /\ HeldInPlace /\ BusyHasOwner
      /\ MapTyped /\ WorkTyped /\ CallTyped
  BY DEF PoolLinks, Typed
<1> DEFINE c == CHOOSE x : x \notin Calls
<1>2. c \notin Calls /\ Others(c)
  BY NoSetContainsEverything DEF Stays, Others
<1>3. /\ xjob' = xjob /\ workers' = workers /\ starting' = starting /\ worker' = worker
      /\ xkilled' = xkilled /\ Fewer
  BY DEF Pool, Fewer
<1> HIDE DEF c
<1>4. Placed' /\ Mapped' /\ Creating' /\ Settling'
  BY <1>1, <1>2, <1>3, PlacedOne, MappedOne, CreatingOne, SettlingOne
<1>5. Leased'
  <2>1. WorkTyped'
    BY <1>1, <1>3 DEF WorkTyped
  <2>3. \A q \in Clients : worker'[q].leases >= worker[q].leases
    BY <1>1, <1>3, WorkFacts
  <2> QED
    BY <1>1, <1>2, <2>1, <2>3, LeasedOne
<1>6. Owned'
  <2>1. \A d \in Calls : Owner(d) => worker'[Client(d)].busy
    BY <1>1, <1>3 DEF Owned
  <2> QED
    BY <1>1, <1>2, <1>3, <2>1, OwnedOne
<1>7. HeldInPlace' /\ BusyHasOwner'
  BY <1>1, <1>2, <1>3, HeldOne, BusyOne
<1>8. Counted'
  <2>2. starting \in Nat
    BY <1>1 DEF MapTyped
  <2>3. IsFiniteSet(Reserving') /\ Cardinality(Reserving') <= starting'
    BY <1>2, <1>3, <2>2, ReservingOne
  <2>4. Live' = Live
    BY <1>3 DEF Live
  <2> QED
    BY <1>3, <2>3, <2>4 DEF Counted
<1> QED
  BY <1>4, <1>5, <1>6, <1>7, <1>8 DEF PoolLinks

(***************************************************************************)
(* What a step does to the streams.                                        *)
(***************************************************************************)
Running == {"rpc", "run"}

\* failProcess has the same turns to finish.
TurnsKept == \A c \in Calls : (Taken(c)' <=> Taken(c)) /\ (Single(c) => Single(c)')

LEMMA SameTurns ==
  ASSUME failing' = failing PROVE TurnsKept
BY DEF TurnsKept, Taken, Single

\* A call's return marks the entries of failProcess, and keeps their turns.
LEMMA AnsweredTurns ==
  ASSUME FailTyped, NEW c \in Calls, NEW ok, Answered(c, ok)
  PROVE  FailTyped' /\ TurnsKept
<1> DEFINE full == xcall[c].left /\ xcall[c].box # "none"
           G(f) == IF c \in f.calls
                   THEN [f EXCEPT !.calls = IF full THEN @ ELSE @ \ {c},
                                  !.full = IF full THEN @ \cup {c} ELSE @]
                   ELSE f
<1>1. failing' = {G(f) : f \in failing}
  BY DEF Answered
<1>2. ASSUME NEW f \in failing PROVE G(f) \in FailState /\ G(f).turn = f.turn
  <2>1. f \in FailState
    BY DEF FailTyped
  <2>2. f.calls \in SUBSET Calls /\ f.full \in SUBSET Calls
    BY <2>1 DEF FailState
  <2> DEFINE calls == IF full THEN f.calls ELSE f.calls \ {c}
             fulls == IF full THEN f.full \cup {c} ELSE f.full
             g == [f EXCEPT !.calls = calls, !.full = fulls]
  <2>3. calls \in SUBSET Calls /\ fulls \in SUBSET Calls
    BY <2>2
  <2>4. G(f) = f \/ G(f) = g
    OBVIOUS
  <2>5. g \in FailState /\ g.turn = f.turn
    <3> HIDE DEF calls, fulls
    <3> QED
      BY <2>1, <2>3 DEF FailState
  <2> HIDE DEF g, G
  <2> QED
    BY <2>1, <2>4, <2>5
<1> HIDE DEF G
<1>3. FailTyped'
  BY <1>1, <1>2 DEF FailTyped
<1>4. \A g \in failing' : \E f \in failing : g = G(f) /\ g.turn = f.turn
  BY <1>1, <1>2
<1>5. \A f \in failing : G(f) \in failing' /\ G(f).turn = f.turn
  BY <1>1, <1>2
<1>6. ASSUME NEW d \in Calls PROVE (Taken(d)' <=> Taken(d)) /\ (Single(d) => Single(d)')
  <2>1. Taken(d)' <=> Taken(d)
    BY <1>4, <1>5 DEF Taken
  <2>2. ASSUME Single(d), NEW g \in failing', NEW h \in failing', g.turn = d, h.turn = d
        PROVE  g = h
    <3>1. PICK f \in failing : g = G(f) /\ f.turn = d
      BY <1>4, <2>2
    <3>2. PICK e \in failing : h = G(e) /\ e.turn = d
      BY <1>4, <2>2
    <3> QED
      BY <2>2, <3>1, <3>2 DEF Single
  <2> QED
    BY <2>1, <2>2 DEF Single
<1> QED
  BY <1>3, <1>6 DEF TurnsKept

\* A call other than c that runs its turn goes on, with its client.
StillRuns(c) ==
  \A d \in Calls : d # c =>
    /\ xcall'[d].pc \in Running <=> xcall[d].pc \in Running
    /\ xcall[d].pc \in Running => xcall'[d].p = xcall[d].p
    /\ xcall'[d].pc \in Begins => xcall[d].pc \in Begins

\* A call moves on, and may take its own stream back.
LEMMA StreamsOne ==
  ASSUME Streams, Placed, ClientTyped, xjob' = xjob, TurnsKept, NEW c, StillRuns(c),
         \A d \in Calls : xcall'[d].result = xcall[d].result,
         \A p \in Clients :
           \/ client'[p].turn = client[p].turn
           \/ client'[p].turn = NoProc /\ client[p].turn = c,
         c \in Calls =>
           /\ xcall'[c].pc \in Begins => xcall[c].pc \in Begins
           /\ Kind(c) = "turn" /\ xcall'[c].pc \in Running =>
                /\ xcall[c].pc \in Running /\ xcall'[c].p = xcall[c].p
                /\ \A p \in Clients : client'[p].turn = client[p].turn
           /\ Kind(c) = "turn" /\ xcall'[c].pc \notin Running =>
                \A p \in Clients : client'[p].turn # c
  PROVE  Streams'
<1>1. Registered /\ Unbegun /\ Finishing
  BY DEF Streams
<1>2. Registered'
  <2> SUFFICES ASSUME NEW p \in Clients, client'[p].turn # NoProc
               PROVE  /\ xcall'[client'[p].turn].p = p /\ Kind(client'[p].turn) = "turn"
                      /\ xcall'[client'[p].turn].pc \in Running
    BY SameJob DEF Registered, Client, Running
  <2> DEFINE d == client[p].turn
  <2>1. client'[p].turn = d /\ d # NoProc
    OBVIOUS
  <2>2. d \in Calls
    BY <2>1, ClientFacts
  <2>3. xcall[d].p = p /\ Kind(d) = "turn" /\ xcall[d].pc \in Running
    BY <1>1, <2>1 DEF Registered, Client, Running
  <2> HIDE DEF d
  <2>4. CASE d # c
    BY <2>1, <2>2, <2>3, <2>4 DEF StillRuns
  <2>5. CASE d = c
    BY <2>1, <2>2, <2>3, <2>5
  <2> QED
    BY <2>4, <2>5
<1>3. Unbegun'
  <2> SUFFICES ASSUME NEW d \in Calls, xcall'[d].pc \in Begins
               PROVE  ~xcall'[d].result /\ ~Taken(d)'
    BY DEF Unbegun
  <2>1. xcall[d].pc \in Begins
    BY DEF StillRuns
  <2>2. ~xcall[d].result /\ ~Taken(d)
    BY <1>1, <2>1 DEF Unbegun
  <2> QED
    BY <2>2 DEF TurnsKept
<1>4. Finishing'
  <2> SUFFICES ASSUME NEW d \in Calls, xcall'[d].pc \in Running, Kind(d) = "turn"
               PROVE  /\ Single(d)'
                      /\ client'[xcall'[d].p].turn = d <=> ~Taken(d)' /\ ~xcall'[d].result
                      /\ xcall'[d].result => ~Taken(d)'
    BY SameJob DEF Finishing, Client, Running
  <2>1. xcall[d].pc \in Running /\ xcall'[d].p = xcall[d].p
    BY DEF StillRuns
  <2>2. /\ Single(d) /\ (client[xcall[d].p].turn = d <=> ~Taken(d) /\ ~xcall[d].result)
        /\ xcall[d].result => ~Taken(d)
    BY <1>1, <2>1 DEF Finishing, Client, Running
  <2>3. xcall[d].p \in Clients
    BY <2>1 DEF Placed, Client, Running, Steps, Idle
  <2>4. client'[xcall[d].p].turn = d <=> client[xcall[d].p].turn = d
    BY <2>3, CodexAssumption
  <2> QED
    BY <2>1, <2>2, <2>4 DEF TurnsKept
<1> QED
  BY <1>2, <1>3, <1>4 DEF Streams

\* A stream is registered before its request is written.
LEMMA StreamsBegin ==
  ASSUME Streams, Placed, ClientTyped, xjob' = xjob, TurnsKept, NEW c \in Calls, StillRuns(c),
         \A d \in Calls : xcall'[d].result = xcall[d].result,
         Kind(c) = "turn", xcall[c].pc \in Begins, xcall'[c].pc = "rpc",
         Client(c) \in Clients, xcall'[c].p = Client(c), client[Client(c)].turn = NoProc,
         client'[Client(c)].turn = c,
         \A p \in Clients : p # Client(c) => client'[p].turn = client[p].turn
  PROVE  Streams'
<1>1. Registered /\ Unbegun /\ Finishing
  BY DEF Streams
<1>2. ~xcall[c].result /\ ~Taken(c)
  BY <1>1 DEF Unbegun
<1>3. \A p \in Clients : client[p].turn # c
  <2> SUFFICES ASSUME NEW p \in Clients, client[p].turn = c PROVE FALSE
    OBVIOUS
  <2>1. c # NoProc
    BY CodexAssumption
  <2> QED
    BY <1>1, <2>1 DEF Registered, Begins
<1>4. Registered'
  <2> SUFFICES ASSUME NEW p \in Clients, client'[p].turn # NoProc
               PROVE  /\ xcall'[client'[p].turn].p = p /\ Kind(client'[p].turn) = "turn"
                      /\ xcall'[client'[p].turn].pc \in Running
    BY SameJob DEF Registered, Client, Running
  <2>1. CASE p = Client(c)
    BY <2>1 DEF Running
  <2>2. CASE p # Client(c)
    <3> DEFINE d == client[p].turn
    <3>1. client'[p].turn = d /\ d # NoProc /\ d \in Calls /\ d # c
      BY <1>3, <2>2, ClientFacts
    <3>2. xcall[d].p = p /\ Kind(d) = "turn" /\ xcall[d].pc \in Running
      BY <1>1, <3>1 DEF Registered, Client, Running
    <3> HIDE DEF d
    <3> QED
      BY <3>1, <3>2 DEF StillRuns
  <2> QED
    BY <2>1, <2>2
<1>5. Unbegun'
  <2> SUFFICES ASSUME NEW d \in Calls, xcall'[d].pc \in Begins
               PROVE  ~xcall'[d].result /\ ~Taken(d)'
    BY DEF Unbegun
  <2>1. xcall[d].pc \in Begins
    BY DEF StillRuns
  <2>2. ~xcall[d].result /\ ~Taken(d)
    BY <1>1, <2>1 DEF Unbegun
  <2> QED
    BY <2>2 DEF TurnsKept
<1>6. Finishing'
  <2> SUFFICES ASSUME NEW d \in Calls, xcall'[d].pc \in Running, Kind(d) = "turn"
               PROVE  /\ Single(d)'
                      /\ client'[xcall'[d].p].turn = d <=> ~Taken(d)' /\ ~xcall'[d].result
                      /\ xcall'[d].result => ~Taken(d)'
    BY SameJob DEF Finishing, Client, Running
  <2>1. CASE d = c
    <3>1. Single(c)
      BY <1>2 DEF Single, Taken
    <3> QED
      BY <1>2, <2>1, <3>1 DEF TurnsKept
  <2>2. CASE d # c
    <3>1. xcall[d].pc \in Running /\ xcall'[d].p = xcall[d].p
      BY <2>2 DEF StillRuns
    <3>2. /\ Single(d) /\ (client[xcall[d].p].turn = d <=> ~Taken(d) /\ ~xcall[d].result)
          /\ xcall[d].result => ~Taken(d)
      BY <1>1, <3>1 DEF Finishing, Client, Running
    <3>3. xcall[d].p \in Clients
      BY <3>1 DEF Placed, Client, Running, Steps, Idle
    <3>4. client'[xcall[d].p].turn = d <=> client[xcall[d].p].turn = d
      BY <2>2, <3>3, CodexAssumption
    <3> QED
      BY <3>1, <3>2, <3>4 DEF TurnsKept
  <2> QED
    BY <2>1, <2>2
<1> QED
  BY <1>4, <1>5, <1>6 DEF Streams

\* Every call goes on, or stays out.
Steady ==
  \A d \in Calls :
    /\ xcall'[d].pc \in Running <=> xcall[d].pc \in Running
    /\ xcall[d].pc \in Running => xcall'[d].p = xcall[d].p
    /\ xcall'[d].pc \in Begins => xcall[d].pc \in Begins

LEMMA StreamsSame ==
  ASSUME Streams, Placed, ClientTyped, xjob' = xjob, TurnsKept, Steady,
         \A d \in Calls : xcall'[d].result = xcall[d].result,
         \A p \in Clients : client'[p].turn = client[p].turn
  PROVE  Streams'
<1> DEFINE c == CHOOSE x : x \notin Calls
<1>1. c \notin Calls
  BY NoSetContainsEverything
<1> HIDE DEF c
<1> QED
  BY <1>1, StreamsOne DEF Steady, StillRuns

\* The registered stream of a client is finished.
LEMMA StreamsFinish ==
  ASSUME Streams, Placed, ClientTyped, xjob' = xjob, failing' = failing, Steady,
         NEW p \in Clients, NEW t \in Calls, client[p].turn = t, client'[p].turn = NoProc,
         \A q \in Clients : q # p => client'[q].turn = client[q].turn,
         xcall'[t].result,
         \A d \in Calls : d # t => xcall'[d].result = xcall[d].result
  PROVE  Streams'
<1>1. Registered /\ Unbegun /\ Finishing /\ TurnsKept
  BY SameTurns DEF Streams
<1>2. t # NoProc /\ xcall[t].p = p /\ Kind(t) = "turn" /\ xcall[t].pc \in Running
  <2>1. t # NoProc
    BY CodexAssumption
  <2> QED
    BY <1>1, <2>1 DEF Registered, Client, Running
<1>3. ~Taken(t) /\ ~xcall[t].result /\ Single(t)
  BY <1>1, <1>2 DEF Finishing, Client, Running
<1>4. Registered'
  <2> SUFFICES ASSUME NEW q \in Clients, client'[q].turn # NoProc
               PROVE  /\ xcall'[client'[q].turn].p = q /\ Kind(client'[q].turn) = "turn"
                      /\ xcall'[client'[q].turn].pc \in Running
    BY SameJob DEF Registered, Client, Running
  <2> DEFINE d == client[q].turn
  <2>1. client'[q].turn = d /\ d # NoProc /\ d \in Calls
    BY ClientFacts
  <2>2. xcall[d].p = q /\ Kind(d) = "turn" /\ xcall[d].pc \in Running
    BY <1>1, <2>1 DEF Registered, Client, Running
  <2> HIDE DEF d
  <2> QED
    BY <2>1, <2>2 DEF Steady
<1>5. Unbegun'
  <2> SUFFICES ASSUME NEW d \in Calls, xcall'[d].pc \in Begins
               PROVE  ~xcall'[d].result /\ ~Taken(d)'
    BY DEF Unbegun
  <2>1. xcall[d].pc \in Begins /\ d # t
    BY <1>2 DEF Steady, Begins, Running
  <2>2. ~xcall[d].result /\ ~Taken(d)
    BY <1>1, <2>1 DEF Unbegun
  <2> QED
    BY <1>1, <2>1, <2>2 DEF TurnsKept
<1>6. Finishing'
  <2> SUFFICES ASSUME NEW d \in Calls, xcall'[d].pc \in Running, Kind(d) = "turn"
               PROVE  /\ Single(d)'
                      /\ client'[xcall'[d].p].turn = d <=> ~Taken(d)' /\ ~xcall'[d].result
                      /\ xcall'[d].result => ~Taken(d)'
    BY SameJob DEF Finishing, Client, Running
  <2>1. xcall[d].pc \in Running /\ xcall'[d].p = xcall[d].p
    BY DEF Steady
  <2>2. d # NoProc
    BY CodexAssumption
  <2>3. CASE d = t
    BY <1>1, <1>2, <1>3, <2>1, <2>2, <2>3 DEF TurnsKept
  <2>4. CASE d # t
    <3>1. /\ Single(d) /\ (client[xcall[d].p].turn = d <=> ~Taken(d) /\ ~xcall[d].result)
          /\ xcall[d].result => ~Taken(d)
      BY <1>1, <2>1 DEF Finishing, Client, Running
    <3>2. xcall[d].p \in Clients
      BY <2>1 DEF Placed, Client, Running, Steps, Idle
    <3>3. client'[xcall[d].p].turn = d <=> client[xcall[d].p].turn = d
      BY <2>2, <2>4, <3>2
    <3> QED
      BY <1>1, <2>1, <2>4, <3>1, <3>3 DEF TurnsKept
  <2> QED
    BY <2>3, <2>4
<1> QED
  BY <1>4, <1>5, <1>6 DEF Streams

\* failProcess takes the registered stream of its client to finish it.
LEMMA StreamsFail ==
  ASSUME Streams, Placed, ClientTyped, xjob' = xjob, Steady, NEW p \in Clients,
         failing' = failing \cup {ToTell(p)}, client'[p].turn = NoProc,
         \A q \in Clients : q # p => client'[q].turn = client[q].turn,
         \A d \in Calls : xcall'[d].result = xcall[d].result
  PROVE  Streams'
<1>1. Registered /\ Unbegun /\ Finishing
  BY DEF Streams
<1> DEFINE t == client[p].turn
<1>2. ToTell(p).turn = t
  BY DEF ToTell
<1>3. t \in Calls =>
        /\ xcall[t].p = p /\ Kind(t) = "turn" /\ xcall[t].pc \in Running
        /\ ~Taken(t) /\ ~xcall[t].result
  <2> SUFFICES ASSUME t \in Calls
               PROVE  /\ xcall[t].p = p /\ Kind(t) = "turn" /\ xcall[t].pc \in Running
                      /\ ~Taken(t) /\ ~xcall[t].result
    OBVIOUS
  <2>1. t # NoProc
    BY CodexAssumption
  <2>2. xcall[t].p = p /\ Kind(t) = "turn" /\ xcall[t].pc \in Running
    BY <1>1, <2>1 DEF Registered, Client, Running
  <2>3. client[xcall[t].p].turn = t
    BY <2>2
  <2> HIDE DEF t
  <2>4. ~Taken(t) /\ ~xcall[t].result
    BY <1>1, <2>2, <2>3 DEF Finishing, Client, Running
  <2> QED
    BY <2>2, <2>4
<1>4. \A d : Taken(d)' <=> Taken(d) \/ d = t
  BY <1>2 DEF Taken
<1>5. \A d : Single(d) /\ (d = t => ~Taken(d)) => Single(d)'
  BY <1>2 DEF Single, Taken
<1>6. client[p].turn = t
  OBVIOUS
<1> HIDE DEF t
<1>7. Registered'
  <2> SUFFICES ASSUME NEW q \in Clients, client'[q].turn # NoProc
               PROVE  /\ xcall'[client'[q].turn].p = q /\ Kind(client'[q].turn) = "turn"
                      /\ xcall'[client'[q].turn].pc \in Running
    BY SameJob DEF Registered, Client, Running
  <2> DEFINE d == client[q].turn
  <2>1. client'[q].turn = d /\ d # NoProc /\ d \in Calls
    BY ClientFacts
  <2>2. xcall[d].p = q /\ Kind(d) = "turn" /\ xcall[d].pc \in Running
    BY <1>1, <2>1 DEF Registered, Client, Running
  <2> HIDE DEF d
  <2> QED
    BY <2>1, <2>2 DEF Steady
<1>8. Unbegun'
  <2> SUFFICES ASSUME NEW d \in Calls, xcall'[d].pc \in Begins
               PROVE  ~xcall'[d].result /\ ~Taken(d)'
    BY DEF Unbegun
  <2>1. xcall[d].pc \in Begins /\ d # t
    BY <1>3 DEF Steady, Begins, Running
  <2>2. ~xcall[d].result /\ ~Taken(d)
    BY <1>1, <2>1 DEF Unbegun
  <2> QED
    BY <1>4, <2>1, <2>2
<1>9. Finishing'
  <2> SUFFICES ASSUME NEW d \in Calls, xcall'[d].pc \in Running, Kind(d) = "turn"
               PROVE  /\ Single(d)'
                      /\ client'[xcall'[d].p].turn = d <=> ~Taken(d)' /\ ~xcall'[d].result
                      /\ xcall'[d].result => ~Taken(d)'
    BY SameJob DEF Finishing, Client, Running
  <2>1. xcall[d].pc \in Running /\ xcall'[d].p = xcall[d].p
    BY DEF Steady
  <2>2. d # NoProc
    BY CodexAssumption
  <2>3. /\ Single(d) /\ (client[xcall[d].p].turn = d <=> ~Taken(d) /\ ~xcall[d].result)
        /\ xcall[d].result => ~Taken(d)
    BY <1>1, <2>1 DEF Finishing, Client, Running
  <2>4. xcall[d].p \in Clients
    BY <2>1 DEF Placed, Client, Running, Steps, Idle
  <2>5. CASE d = t
    <3>1. xcall'[d].p = p /\ ~Taken(d) /\ ~xcall[d].result
      BY <1>3, <2>1, <2>5
    <3>2. Single(d)' /\ Taken(d)'
      BY <1>4, <1>5, <2>3, <2>5, <3>1
    <3> QED
      BY <2>2, <3>1, <3>2
  <2>6. CASE d # t
    <3>1. client'[xcall[d].p].turn = d <=> client[xcall[d].p].turn = d
      BY <1>6, <2>2, <2>4, <2>6
    <3>2. Single(d)' /\ (Taken(d)' <=> Taken(d))
      BY <1>4, <1>5, <2>3, <2>6
    <3> QED
      BY <2>1, <2>3, <3>1, <3>2
  <2> QED
    BY <2>5, <2>6
<1> QED
  BY <1>7, <1>8, <1>9 DEF Streams

\* failProcess finishes the turn it took.
LEMMA StreamsTold ==
  ASSUME Streams, Placed, ClientTyped, xjob' = xjob, Steady, NEW f \in failing,
         failing' = failing \ {f},
         f.turn \in Calls => xcall'[f.turn].result,
         \A d \in Calls : d # f.turn => xcall'[d].result = xcall[d].result,
         \A q \in Clients : client'[q].turn = client[q].turn
  PROVE  Streams'
<1>1. Registered /\ Unbegun /\ Finishing
  BY DEF Streams
<1>2. \A d : d # f.turn => (Taken(d)' <=> Taken(d))
  BY DEF Taken
<1>3. \A d : Single(d) => Single(d)'
  BY DEF Single
<1>4. Taken(f.turn) /\ (Single(f.turn) => ~Taken(f.turn)')
  BY DEF Taken, Single
<1>5. Registered'
  <2> SUFFICES ASSUME NEW q \in Clients, client'[q].turn # NoProc
               PROVE  /\ xcall'[client'[q].turn].p = q /\ Kind(client'[q].turn) = "turn"
                      /\ xcall'[client'[q].turn].pc \in Running
    BY SameJob DEF Registered, Client, Running
  <2> DEFINE d == client[q].turn
  <2>1. client'[q].turn = d /\ d # NoProc /\ d \in Calls
    BY ClientFacts
  <2>2. xcall[d].p = q /\ Kind(d) = "turn" /\ xcall[d].pc \in Running
    BY <1>1, <2>1 DEF Registered, Client, Running
  <2> HIDE DEF d
  <2> QED
    BY <2>1, <2>2 DEF Steady
<1>6. Unbegun'
  <2> SUFFICES ASSUME NEW d \in Calls, xcall'[d].pc \in Begins
               PROVE  ~xcall'[d].result /\ ~Taken(d)'
    BY DEF Unbegun
  <2>1. xcall[d].pc \in Begins
    BY DEF Steady
  <2>2. ~xcall[d].result /\ ~Taken(d)
    BY <1>1, <2>1 DEF Unbegun
  <2>3. d # f.turn
    BY <1>4, <2>2
  <2> QED
    BY <1>2, <2>2, <2>3
<1>7. Finishing'
  <2> SUFFICES ASSUME NEW d \in Calls, xcall'[d].pc \in Running, Kind(d) = "turn"
               PROVE  /\ Single(d)'
                      /\ client'[xcall'[d].p].turn = d <=> ~Taken(d)' /\ ~xcall'[d].result
                      /\ xcall'[d].result => ~Taken(d)'
    BY SameJob DEF Finishing, Client, Running
  <2>1. xcall[d].pc \in Running /\ xcall'[d].p = xcall[d].p
    BY DEF Steady
  <2>2. /\ Single(d) /\ (client[xcall[d].p].turn = d <=> ~Taken(d) /\ ~xcall[d].result)
        /\ xcall[d].result => ~Taken(d)
    BY <1>1, <2>1 DEF Finishing, Client, Running
  <2>3. xcall[d].p \in Clients
    BY <2>1 DEF Placed, Client, Running, Steps, Idle
  <2>4. client'[xcall'[d].p].turn = client[xcall[d].p].turn
    BY <2>1, <2>3
  <2>5. CASE d = f.turn
    BY <1>3, <1>4, <2>2, <2>4, <2>5
  <2>6. CASE d # f.turn
    BY <1>2, <1>3, <2>2, <2>4, <2>6
  <2> QED
    BY <2>5, <2>6
<1> QED
  BY <1>5, <1>6, <1>7 DEF Streams

(***************************************************************************)
(* Steps of app-server, of readLoop and of failProcess: no call moves.     *)
(***************************************************************************)
LEMMA StillInv ==
  ASSUME IInv, Typed', Stays, UNCHANGED Pool, Streams'
  PROVE  IInv'
BY PoolStays DEF IInv

LEMMA StaysSteady ==
  ASSUME Stays PROVE Steady
BY DEF Stays, Steady

\* An app-server gets another state.
LEMMA ServerInv ==
  ASSUME IInv, NEW p \in Clients, NEW q \in ServerState, server' = [server EXCEPT ![p] = q],
         UNCHANGED <<Pool, client, late, failing, reaping, xcall>>, xupsets' \in 0 .. MaxUpsets
  PROVE  IInv'
<1>1. Typed /\ Streams /\ Placed
  BY DEF IInv, PoolLinks
<1>2. ServerTyped'
  BY <1>1, ServerTo DEF Typed
<1>3. Typed'
  BY <1>1, <1>2 DEF Typed, MapTyped, WorkTyped, ClientTyped, FailTyped, CallTyped, Pool
<1>4. Stays
  BY <1>3 DEF Stays, Typed
<1>5. Streams'
  BY <1>1, <1>4, SameTurns, StaysSteady, StreamsSame DEF Typed, Pool
<1> QED
  BY <1>3, <1>4, <1>5, StillInv

LEMMA ServeInv ==
  ASSUME IInv, NEW c \in Calls, Serve(c) PROVE IInv'
<1> DEFINE p == Client(c)
           r == server[p]
           ok == Append(r.out, <<"ok", c>>)
           no == Append(r.out, <<"err", c>>)
           ended == Append(ok, Note("completed"))
           began == Append(ok, Note("started"))
           goal == ok \o <<Note("goal"), Note("started")>>
           s == SessionOf(c)
<1>1. Typed /\ Placed /\ xupsets \in 0 .. MaxUpsets
  BY DEF IInv, PoolLinks, Typed, MapTyped
<1>2. p \in Clients
  BY <1>1 DEF Serve, Unanswered, Waits, Rpcs, Placed, Steps, Idle
<1>3. r \in ServerState /\ r.out \in Seq(Frame)
  BY <1>1, <1>2, ServerFacts DEF Typed
<1>4. s \in Sessions
  BY <1>1, JobTyped DEF Typed
<1>5. ok \in Seq(Frame) /\ no \in Seq(Frame)
  BY <1>3, FrameFacts, SeqFacts
<1>6. ended \in Seq(Frame) /\ began \in Seq(Frame)
  <2> HIDE DEF ok
  <2> QED
    BY <1>5, FrameFacts, SeqFacts
<1>7. goal \in Seq(Frame)
  <2>1. <<Note("goal"), Note("started")>> \in Seq(Frame)
    BY FrameFacts
  <2> HIDE DEF ok
  <2> QED
    BY <1>5, <2>1, SeqFacts
<1>8. UNCHANGED <<Pool, client, late, failing, reaping, xcall, xupsets>>
  BY DEF Serve, Pool, pool, rest
<1>9. \E q : /\ server' = [server EXCEPT ![p] = q]
             /\ \/ q = [r EXCEPT !.loaded = s, !.out = ok]
                \/ q = [r EXCEPT !.running = FALSE, !.out = ended]
                \/ q = [r EXCEPT !.running = TRUE, !.out = began]
                \/ q = [r EXCEPT !.running = TRUE, !.goal = TRUE, !.out = goal]
                \/ q = [r EXCEPT !.out = ok]
                \/ q = [r EXCEPT !.out = no]
  <2>1. CASE Accepts(c)
    <3>1. server' = [server EXCEPT ![p] = Effect(c)]
      BY <2>1 DEF Serve
    <3>2. \/ Effect(c) = [r EXCEPT !.loaded = s, !.out = ok]
          \/ Effect(c) = [r EXCEPT !.running = FALSE, !.out = ended]
          \/ Effect(c) = [r EXCEPT !.running = TRUE, !.out = began]
          \/ Effect(c) = [r EXCEPT !.running = TRUE, !.goal = TRUE, !.out = goal]
          \/ Effect(c) = [r EXCEPT !.out = ok]
      BY DEF Effect
    <3> HIDE DEF ok, no, ended, began, goal, r, p, s
    <3> QED
      BY <3>1, <3>2
  <2>2. CASE ~Accepts(c)
    <3>1. server' = [server EXCEPT ![p] = [r EXCEPT !.out = no]]
      BY <2>2 DEF Serve
    <3> HIDE DEF ok, no, ended, began, goal, r, p, s
    <3> QED
      BY <3>1
  <2> QED
    BY <2>1, <2>2
<1> HIDE DEF ok, no, ended, began, goal, r, p, s
<1>10. PICK q : /\ server' = [server EXCEPT ![p] = q]
                /\ \/ q = [r EXCEPT !.loaded = s, !.out = ok]
                   \/ q = [r EXCEPT !.running = FALSE, !.out = ended]
                   \/ q = [r EXCEPT !.running = TRUE, !.out = began]
                   \/ q = [r EXCEPT !.running = TRUE, !.goal = TRUE, !.out = goal]
                   \/ q = [r EXCEPT !.out = ok]
                   \/ q = [r EXCEPT !.out = no]
  BY <1>9
<1>11. q \in ServerState
  BY <1>3, <1>4, <1>5, <1>6, <1>7, <1>10 DEF ServerState
<1> QED
  BY <1>1, <1>2, <1>8, <1>10, <1>11, ServerInv

LEMMA CompleteInv ==
  ASSUME IInv, NEW p \in Clients, Complete(p) PROVE IInv'
<1> DEFINE r == server[p]
           over == <<Note("completed"), Note("cleared")>>
           out == IF r.goal THEN r.out \o over ELSE Append(r.out, Note("completed"))
           q == [r EXCEPT !.running = FALSE, !.goal = FALSE, !.out = out]
<1>1. r \in ServerState /\ r.out \in Seq(Frame) /\ xupsets \in 0 .. MaxUpsets
  BY ServerFacts DEF IInv, Typed, MapTyped
<1>2. over \in Seq(Frame) /\ Note("completed") \in Frame
  BY FrameFacts
<1>3. out \in Seq(Frame)
  <2> HIDE DEF over
  <2> QED
    BY <1>1, <1>2, SeqFacts
<1>4. q \in ServerState
  <2> HIDE DEF out
  <2> QED
    BY <1>1, <1>3 DEF ServerState
<1>5. server' = [server EXCEPT ![p] = q]
  BY DEF Complete
<1>6. UNCHANGED <<Pool, client, late, failing, reaping, xcall, xupsets>>
  BY DEF Complete, Pool, pool, rest
<1> HIDE DEF q
<1> QED
  BY <1>1, <1>4, <1>5, <1>6, ServerInv

LEMMA BackgroundInv ==
  ASSUME IInv, NEW p \in Clients, Background(p) PROVE IInv'
<1>1. /\ server[p] \in ServerState /\ server[p].out \in Seq(Frame)
      /\ xupsets \in 0 .. MaxUpsets
  BY ServerFacts DEF IInv, Typed, MapTyped
<1>2. xupsets' \in 0 .. MaxUpsets
  BY <1>1, UpsetTyped DEF Background
<1>3. UNCHANGED <<Pool, client, late, failing, reaping, xcall>>
  BY DEF Background, Pool, pool, rest
<1>4. PICK work \in BOOLEAN, note \in {"work", "workEnded"} :
        server' = [server EXCEPT ![p].work = work, ![p].out = Append(@, Note(note))]
  BY DEF Background
<1> DEFINE r == server[p]
           out == Append(r.out, Note(note))
           q == [r EXCEPT !.work = work, !.out = out]
<1>5. out \in Seq(Frame)
  BY <1>1, FrameFacts, SeqFacts
<1>6. q \in ServerState
  <2> HIDE DEF out
  <2> QED
    BY <1>1, <1>5 DEF ServerState
<1>7. server' = [server EXCEPT ![p] = q]
  BY <1>4
<1> HIDE DEF q
<1> QED
  BY <1>2, <1>3, <1>6, <1>7, ServerInv

LEMMA ExitInv ==
  ASSUME IInv, NEW p \in Clients, Exit(p) PROVE IInv'
<1> DEFINE q == [Down EXCEPT !.out = server[p].out]
<1>1. /\ server[p].out \in Seq(Frame) /\ xupsets \in 0 .. MaxUpsets
  BY ServerFacts DEF IInv, Typed, MapTyped
<1>2. xupsets' \in 0 .. MaxUpsets
  BY <1>1, UpsetTyped DEF Exit
<1>3. UNCHANGED <<Pool, client, late, failing, reaping, xcall>>
  BY DEF Exit, Pool, pool, rest
<1>4. q \in ServerState
  BY <1>1, DownTyped DEF ServerState
<1>5. server' = [server EXCEPT ![p] = q]
  BY DEF Exit
<1> HIDE DEF q
<1> QED
  BY <1>2, <1>3, <1>4, <1>5, ServerInv

\* The context expires: a call no longer listens.
LEMMA ExpireInv ==
  ASSUME IInv, NEW c \in Calls, Expire(c) PROVE IInv'
<1> DEFINE k == [xcall[c] EXCEPT !.left = TRUE]
<1>1. Typed /\ Streams /\ Placed /\ xupsets' \in 0 .. MaxUpsets
  BY UpsetTyped DEF IInv, PoolLinks, Typed, MapTyped, Expire
<1>2. k \in CallState /\ k.pc = xcall[c].pc /\ k.p = xcall[c].p /\ k.result = xcall[c].result
  BY <1>1, CallFacts DEF CallState, Typed
<1>3. xcall' = [xcall EXCEPT ![c] = k]
  BY DEF Expire
<1> HIDE DEF k
<1>4. CallTyped' /\ xcall'[c] = k /\ \A d \in Calls : d # c => xcall'[d] = xcall[d]
  BY <1>1, <1>2, <1>3, CallTo DEF Typed
<1>5. UNCHANGED <<Pool, client, server, late, failing, reaping>>
  BY DEF Expire, Pool, pool, servers, rest
<1>6. Typed'
  BY <1>1, <1>4, <1>5 DEF Typed, MapTyped, WorkTyped, ClientTyped, ServerTyped, FailTyped, Pool
<1>7. Stays /\ \A d \in Calls : xcall'[d].result = xcall[d].result
  BY <1>2, <1>4 DEF Stays
<1>8. Streams'
  BY <1>1, <1>5, <1>7, SameTurns, StaysSteady, StreamsSame DEF Typed, Pool
<1> QED
  BY <1>5, <1>6, <1>7, <1>8, StillInv DEF Pool

(***************************************************************************)
(* A frame that readLoop dispatches.                                       *)
(***************************************************************************)
LEMMA HeardTyped ==
  ASSUME ClientTyped, NEW p \in Clients, NEW f, NEW pending
  PROVE  /\ Heard(p, f) \in ClientState
         /\ Heard(p, f).turn = IF f[1] = "completed" THEN NoProc ELSE client[p].turn
<1>1. client[p] \in ClientState
  BY ClientFacts
<1>2. Completed(p) \in ClientState /\ Completed(p).turn = NoProc
  BY <1>1 DEF Completed, ClientState
<1> QED
  BY <1>1, <1>2 DEF Heard, ClientState

\* It moves no call, and finishes at most the stream of its client.
LEMMA DeliveredTyped ==
  ASSUME CallTyped, NEW p \in Clients, NEW f \in Frame, NEW pending,
         xcall' = Delivered(p, f, pending)
  PROVE  /\ Stays
         /\ \A d \in Calls :
              xcall'[d].result = IF f[1] = "completed" /\ client[p].turn = d THEN TRUE
                                 ELSE xcall[d].result
<1>1. ASSUME NEW d \in Calls
      PROVE  /\ xcall'[d] \in CallState
             /\ xcall'[d].pc = xcall[d].pc /\ xcall'[d].p = xcall[d].p
             /\ xcall'[d].result = IF f[1] = "completed" /\ client[p].turn = d THEN TRUE
                                   ELSE xcall[d].result
  <2> DEFINE k == xcall[d]
             box == IF d \in pending /\ k.box = "none" THEN f[1] ELSE k.box
  <2>1. k \in CallState
    BY CallFacts
  <2>2. xcall'[d] = IF \E ok \in {"ok", "err"} : f = <<ok, d>> THEN [k EXCEPT !.box = box]
                    ELSE IF f[1] = "completed" /\ client[p].turn = d
                    THEN [k EXCEPT !.result = TRUE]
                    ELSE k
    BY DEF Delivered
  <2>3. CASE \E ok \in {"ok", "err"} : f = <<ok, d>>
    <3>1. f[1] \in {"ok", "err"}
      BY <2>3
    <3>2. box \in {"none", "ok", "err"}
      BY <2>1, <3>1 DEF CallState
    <3>3. xcall'[d] = [k EXCEPT !.box = box]
      BY <2>2, <2>3
    <3> HIDE DEF k, box
    <3>4. /\ xcall'[d] \in CallState /\ xcall'[d].pc = k.pc /\ xcall'[d].p = k.p
          /\ xcall'[d].result = k.result
      BY <2>1, <3>2, <3>3 DEF CallState
    <3> QED
      BY <3>1, <3>4 DEF k
  <2>4. CASE ~(\E ok \in {"ok", "err"} : f = <<ok, d>>) /\ f[1] = "completed" /\ client[p].turn = d
    <3>1. xcall'[d] = [k EXCEPT !.result = TRUE]
      BY <2>2, <2>4
    <3> HIDE DEF k, box
    <3>2. /\ xcall'[d] \in CallState /\ xcall'[d].pc = k.pc /\ xcall'[d].p = k.p
          /\ xcall'[d].result = TRUE
      BY <2>1, <3>1 DEF CallState
    <3> QED
      BY <2>4, <3>2 DEF k
  <2>5. CASE ~(\E ok \in {"ok", "err"} : f = <<ok, d>>) /\ ~(f[1] = "completed" /\ client[p].turn = d)
    <3>1. xcall'[d] = k
      BY <2>2, <2>5
    <3> QED
      BY <2>1, <2>5, <3>1
  <2> QED
    BY <2>3, <2>4, <2>5
<1>2. DOMAIN xcall' = Calls /\ xcall' = [d \in Calls |-> xcall'[d]]
  BY DEF Delivered
<1>3. CallTyped'
  BY <1>1, <1>2 DEF CallTyped
<1> QED
  BY <1>1, <1>3 DEF Stays

LEMMA DispatchedInv ==
  ASSUME IInv, NEW p \in Clients, NEW f \in Frame, NEW pending,
         client' = [client EXCEPT ![p] = Heard(p, f)], xcall' = Delivered(p, f, pending),
         ServerTyped', UNCHANGED <<Pool, failing, reaping, xupsets>>
  PROVE  IInv'
<1>1. Typed /\ Streams /\ Placed
  BY DEF IInv, PoolLinks
<1>2. /\ Heard(p, f) \in ClientState
      /\ Heard(p, f).turn = IF f[1] = "completed" THEN NoProc ELSE client[p].turn
  BY <1>1, HeardTyped DEF Typed
<1> DEFINE k == Heard(p, f)
<1>3. ClientTyped' /\ client'[p] = k /\ \A q \in Clients \ {p} : client'[q] = client[q]
  <2> HIDE DEF k
  <2> QED
    BY <1>1, <1>2, ClientTo DEF Typed, k
<1>4. /\ Stays
      /\ \A d \in Calls :
           xcall'[d].result = IF f[1] = "completed" /\ client[p].turn = d THEN TRUE
                              ELSE xcall[d].result
  BY <1>1, DeliveredTyped DEF Typed
<1>5. Typed'
  BY <1>1, <1>3, <1>4 DEF Typed, MapTyped, WorkTyped, FailTyped, Pool, Stays
<1>6. client'[p].turn = IF f[1] = "completed" THEN NoProc ELSE client[p].turn
  BY <1>2, <1>3
<1>7. Streams'
  <2>1. xjob' = xjob /\ failing' = failing /\ TurnsKept /\ Steady /\ ClientTyped
    BY <1>1, <1>4, SameTurns, StaysSteady DEF Pool, Typed
  <2>2. CASE f[1] = "completed" /\ client[p].turn \in Calls
    <3> DEFINE t == client[p].turn
    <3>1. t \in Calls /\ xcall'[t].result /\ client'[p].turn = NoProc
          /\ \A d \in Calls : d # t => xcall'[d].result = xcall[d].result
      BY <1>4, <1>6, <2>2
    <3> QED
      BY <1>1, <1>3, <2>1, <3>1, StreamsFinish
  <2>3. CASE ~(f[1] = "completed" /\ client[p].turn \in Calls)
    <3>1. client'[p].turn = client[p].turn
      BY <1>1, <1>6, <2>3, ClientFacts DEF Typed
    <3>2. \A d \in Calls : xcall'[d].result = xcall[d].result
      BY <1>4, <2>3
    <3> QED
      BY <1>1, <1>3, <2>1, <3>1, <3>2, StreamsSame
  <2> QED
    BY <2>2, <2>3
<1> QED
  BY <1>4, <1>5, <1>7, StillInv DEF Pool

LEMMA DispatchInv ==
  ASSUME IInv, NEW p \in Clients, Dispatch(p) PROVE IInv'
<1> DEFINE f == Head(server[p].out)
           r == server[p]
           out == Tail(r.out)
           q == [r EXCEPT !.out = out]
<1>1. Typed
  BY DEF IInv
<1>2. r \in ServerState /\ r.out \in Seq(Frame)
  BY <1>1, ServerFacts DEF Typed
<1>3. f \in Frame /\ out \in Seq(Frame)
  BY <1>2, SeqFacts DEF Dispatch
<1>4. q \in ServerState
  <2> HIDE DEF out
  <2> QED
    BY <1>2, <1>3 DEF ServerState
<1>5. server' = [server EXCEPT ![p] = q] /\ late' = late
  BY DEF Dispatch
<1>6. ServerTyped'
  <2> HIDE DEF q
  <2> QED
    BY <1>1, <1>4, <1>5, ServerTo DEF Typed
<1>7. UNCHANGED <<Pool, failing, reaping, xupsets>>
  BY DEF Dispatch, Pool, pool, rest
<1>8. client' = [client EXCEPT ![p] = Heard(p, f)] /\ xcall' = Delivered(p, f, Pending(p))
  BY DEF Dispatch
<1> HIDE DEF f
<1> QED
  BY <1>3, <1>6, <1>7, <1>8, DispatchedInv

LEMMA DispatchLateInv ==
  ASSUME IInv, NEW p \in Clients, DispatchLate(p) PROVE IInv'
<1> DEFINE f == Head(late[p])
           out == Tail(late[p])
<1>1. Typed
  BY DEF IInv
<1>2. late[p] \in Seq(Frame)
  BY <1>1, ServerFacts DEF Typed
<1>3. f \in Frame /\ out \in Seq(Frame)
  BY <1>2, SeqFacts DEF DispatchLate
<1>4. late' = [late EXCEPT ![p] = out] /\ server' = server
  BY DEF DispatchLate
<1>5. ServerTyped'
  <2> HIDE DEF out
  <2> QED
    BY <1>1, <1>3, <1>4 DEF Typed, ServerTyped
<1>6. UNCHANGED <<Pool, failing, reaping, xupsets>>
  BY DEF DispatchLate, Pool, pool, rest
<1>7. client' = [client EXCEPT ![p] = Heard(p, f)] /\ xcall' = Delivered(p, f, {})
  BY DEF DispatchLate
<1> HIDE DEF f
<1> QED
  BY <1>3, <1>5, <1>6, <1>7, DispatchedInv

(***************************************************************************)
(* failProcess.                                                            *)
(***************************************************************************)
LEMMA FailedTyped ==
  ASSUME Typed, NEW p \in Clients, Failed(p)
  PROVE  /\ ClientTyped' /\ ServerTyped' /\ FailTyped' /\ client'[p].turn = NoProc
         /\ \A q \in Clients : q # p => client'[q].turn = client[q].turn
         /\ failing' = failing \cup {ToTell(p)}
<1>1. ClientTyped' /\ client'[p] = NewClient /\ \A q \in Clients \ {p} : client'[q] = client[q]
  BY NewClientTyped, ClientTo DEF Typed, Failed
<1>2. ServerTyped'
  <2>1. server' = [server EXCEPT ![p] = Down]
    BY DEF Failed
  <2>2. PICK rests \in {<<>>, server[p].out} : late' = [late EXCEPT ![p] = @ \o rests]
    BY DEF Failed
  <2>3. rests \in Seq(Frame) /\ late[p] \in Seq(Frame)
    <3>1. <<>> \in Seq(Frame)
      OBVIOUS
    <3>2. late[p] \in Seq(Frame) /\ server[p].out \in Seq(Frame)
      BY ServerFacts DEF Typed
    <3> QED
      BY <2>2, <3>1, <3>2, Zenon
  <2> DEFINE l == late[p] \o rests
  <2>4. l \in Seq(Frame)
    BY <2>3, SeqFacts
  <2>5. late' = [late EXCEPT ![p] = l]
    BY <2>2
  <2> HIDE DEF l
  <2> QED
    BY <2>1, <2>4, <2>5, DownTyped DEF ServerTyped, Typed
<1>3. FailTyped'
  <2>1. ToTell(p) \in FailState
    BY ClientFacts DEF ToTell, FailState, Pending, Typed
  <2> QED
    BY <2>1 DEF Failed, FailTyped, Typed
<1> QED
  BY <1>1, <1>2, <1>3, NewClientTyped DEF Failed

LEMMA FailedInv ==
  ASSUME IInv, NEW p \in Clients, Failed(p), UNCHANGED <<Pool, xcall, xupsets>>,
         reaping' \subseteq reaping
  PROVE  IInv'
<1>1. Typed /\ Streams /\ Placed
  BY DEF IInv, PoolLinks
<1>2. /\ ClientTyped' /\ ServerTyped' /\ FailTyped' /\ client'[p].turn = NoProc
      /\ \A q \in Clients : q # p => client'[q].turn = client[q].turn
      /\ failing' = failing \cup {ToTell(p)}
  BY <1>1, FailedTyped
<1>3. Typed'
  BY <1>1, <1>2 DEF Typed, MapTyped, WorkTyped, CallTyped, Pool
<1>4. Stays
  BY <1>3 DEF Stays, Typed
<1>5. Streams'
  BY <1>1, <1>2, <1>4, StaysSteady, StreamsFail DEF Typed, Pool
<1> QED
  BY <1>3, <1>4, <1>5, StillInv DEF Pool

LEMMA DiedInv ==
  ASSUME IInv, NEW p \in Clients, Died(p) PROVE IInv'
<1>1. Failed(p) /\ UNCHANGED <<Pool, xcall, xupsets>> /\ reaping' \subseteq reaping
  BY DEF Died, Pool, pool, rest
<1> QED
  BY <1>1, FailedInv

\* The client changes but for its turn.
LEMMA ClientInv ==
  ASSUME IInv, NEW p \in Clients, NEW k \in ClientState, client' = [client EXCEPT ![p] = k],
         k.turn = client[p].turn, CallTyped', Stays,
         \A d \in Calls : xcall'[d].result = xcall[d].result,
         UNCHANGED <<Pool, server, late, failing, xupsets>>, reaping' \subseteq reaping
  PROVE  IInv'
<1>1. Typed /\ Streams /\ Placed
  BY DEF IInv, PoolLinks
<1>2. ClientTyped' /\ client'[p] = k /\ \A q \in Clients \ {p} : client'[q] = client[q]
  BY <1>1, ClientTo DEF Typed
<1>3. Typed'
  BY <1>1, <1>2 DEF Typed, MapTyped, WorkTyped, ServerTyped, FailTyped, Pool
<1>4. Streams'
  BY <1>1, <1>2, SameTurns, StaysSteady, StreamsSame DEF Typed, Pool
<1> QED
  BY <1>3, <1>4, StillInv DEF Pool

LEMMA ReapShutInv ==
  ASSUME IInv, NEW p \in Clients, ReapShut(p) PROVE IInv'
<1>1. Typed /\ Streams /\ Placed /\ UNCHANGED <<Pool, xcall, xupsets>>
  BY DEF IInv, PoolLinks, ReapShut, Pool, pool
<1>2. CallTyped' /\ Stays /\ \A d \in Calls : xcall'[d].result = xcall[d].result
  BY <1>1 DEF Typed, CallTyped, Stays
<1> DEFINE k == [client[p] EXCEPT !.open = FALSE]
<1>3. k \in ClientState /\ k.turn = client[p].turn
  BY <1>1, ClientFacts DEF ClientState, Typed
<1>4. \/ /\ client' = [client EXCEPT ![p] = k]
         /\ UNCHANGED <<server, late, failing>> /\ reaping' \subseteq reaping
      \/ UNCHANGED <<client, server, late, failing>> /\ reaping' \subseteq reaping
      \/ Failed(p) /\ reaping' \subseteq reaping
  BY DEF ReapShut, servers
<1> HIDE DEF k
<1>5. CASE /\ client' = [client EXCEPT ![p] = k]
           /\ UNCHANGED <<server, late, failing>> /\ reaping' \subseteq reaping
  BY <1>1, <1>2, <1>3, <1>5, ClientInv
<1>6. CASE UNCHANGED <<client, server, late, failing>> /\ reaping' \subseteq reaping
  <2>1. Typed'
    BY <1>1, <1>2, <1>6
       DEF Typed, MapTyped, WorkTyped, ClientTyped, ServerTyped, FailTyped, Pool
  <2>2. Streams'
    BY <1>1, <1>2, <1>6, SameTurns, StaysSteady, StreamsSame DEF Typed, Pool
  <2> QED
    BY <1>1, <1>2, <2>1, <2>2, StillInv
<1>7. CASE Failed(p) /\ reaping' \subseteq reaping
  BY <1>1, <1>7, FailedInv
<1> QED
  BY <1>4, <1>5, <1>6, <1>7

LEMMA FailSendInv ==
  ASSUME IInv, NEW f \in failing, NEW c \in f.calls, FailSend(f, c) PROVE IInv'
<1>1. Typed /\ Streams /\ Placed
  BY DEF IInv, PoolLinks
<1>2. f \in FailState /\ f.calls \in SUBSET Calls /\ c \in Calls
  <2>1. f \in FailState
    BY <1>1 DEF Typed, FailTyped
  <2> QED
    BY <2>1 DEF FailState
<1> DEFINE k == [xcall[c] EXCEPT !.box = "err"]
           calls == f.calls \ {c}
           g == [f EXCEPT !.calls = calls]
<1>3. k \in CallState /\ k.pc = xcall[c].pc /\ k.p = xcall[c].p /\ k.result = xcall[c].result
  BY <1>1, <1>2, CallFacts DEF CallState, Typed
<1>4. xcall' = [xcall EXCEPT ![c] = k] /\ failing' = (failing \ {f}) \cup {g}
  BY DEF FailSend
<1>5. g \in FailState /\ g.turn = f.turn
  <2>1. calls \in SUBSET Calls
    BY <1>2
  <2> HIDE DEF calls
  <2> QED
    BY <1>2, <2>1 DEF FailState
<1> HIDE DEF k, g
<1>6. CallTyped' /\ xcall'[c] = k /\ \A d \in Calls : d # c => xcall'[d] = xcall[d]
  BY <1>1, <1>2, <1>3, <1>4, CallTo DEF Typed
<1>7. UNCHANGED <<Pool, client, server, late, reaping, xupsets>>
  BY DEF FailSend, Pool, pool, servers, rest
<1>8. FailTyped' /\ TurnsKept
  <2>1. FailTyped'
    BY <1>1, <1>4, <1>5 DEF Typed, FailTyped
  <2>2. ASSUME NEW d \in Calls PROVE (Taken(d)' <=> Taken(d)) /\ (Single(d) => Single(d)')
    <3>1. Taken(d)' <=> Taken(d)
      BY <1>4, <1>5 DEF Taken
    <3>2. Single(d) => Single(d)'
      BY <1>4, <1>5 DEF Single
    <3> QED
      BY <3>1, <3>2
  <2> QED
    BY <2>1, <2>2 DEF TurnsKept
<1>9. Typed'
  BY <1>1, <1>6, <1>7, <1>8 DEF Typed, MapTyped, WorkTyped, ClientTyped, ServerTyped, Pool
<1>10. Stays /\ \A d \in Calls : xcall'[d].result = xcall[d].result
  BY <1>2, <1>3, <1>6 DEF Stays
<1>11. Streams'
  BY <1>1, <1>7, <1>8, <1>10, StaysSteady, StreamsSame DEF Typed, Pool
<1> QED
  BY <1>7, <1>9, <1>10, <1>11, StillInv

LEMMA FailFinishInv ==
  ASSUME IInv, NEW f \in failing, FailFinish(f) PROVE IInv'
<1>1. Typed /\ Streams /\ Placed
  BY DEF IInv, PoolLinks
<1>2. f \in FailState /\ f.turn \in Calls \cup {NoProc}
  <2>1. f \in FailState
    BY <1>1 DEF Typed, FailTyped
  <2> QED
    BY <2>1 DEF FailState
<1> DEFINE t == f.turn
           k == [xcall[t] EXCEPT !.result = TRUE]
<1>3. UNCHANGED <<Pool, client, server, late, reaping, xupsets>> /\ failing' = failing \ {f}
  BY DEF FailFinish, Pool, pool, servers, rest
<1>4. /\ CallTyped' /\ Stays
      /\ t \in Calls => xcall'[t].result
      /\ \A d \in Calls : d # t => xcall'[d].result = xcall[d].result
  <2>1. CASE t = NoProc
    <3>1. xcall' = xcall
      BY <2>1 DEF FailFinish
    <3> QED
      BY <1>1, <2>1, <3>1, CodexAssumption DEF Stays, CallTyped, Typed
  <2>2. CASE t # NoProc
    <3>1. t \in Calls /\ xcall' = [xcall EXCEPT ![t] = k]
      BY <1>2, <2>2 DEF FailFinish
    <3> HIDE DEF t
    <3>2. k \in CallState /\ k.pc = xcall[t].pc /\ k.p = xcall[t].p /\ k.result
      BY <1>1, <3>1, CallFacts DEF CallState, Typed
    <3> HIDE DEF k
    <3>3. CallTyped' /\ xcall'[t] = k /\ \A d \in Calls : d # t => xcall'[d] = xcall[d]
      BY <1>1, <3>1, <3>2, CallTo DEF Typed
    <3> QED
      BY <3>1, <3>2, <3>3 DEF Stays
  <2> QED
    BY <2>1, <2>2
<1>5. Typed'
  BY <1>1, <1>3, <1>4
     DEF Typed, MapTyped, WorkTyped, ClientTyped, ServerTyped, FailTyped, Pool
<1>6. Streams'
  BY <1>1, <1>3, <1>4, StaysSteady, StreamsTold DEF Typed, Pool
<1> QED
  BY <1>3, <1>4, <1>5, <1>6, StillInv

(***************************************************************************)
(* A call that moves on, without a lease to take or to give back.          *)
(***************************************************************************)
MayRun(c, from, to) ==
  /\ to \in Begins => from \in Begins
  /\ Kind(c) = "turn" => (to \in Running <=> from \in Running)

LEMMA StreamsMoves ==
  ASSUME Streams, Placed, Typed, NEW c \in Calls, NEW pc, NEW p, Goes(c, pc, p), xjob' = xjob,
         MayRun(c, xcall[c].pc, pc), pc \in Running => p = Client(c), TurnsKept,
         \A q \in Clients : client'[q].turn = client[q].turn
  PROVE  Streams'
<1>1. xcall'[c].pc = pc /\ xcall'[c].p = p /\ Client(c) = xcall[c].p
      /\ \A d \in Calls : d # c => xcall'[d] = xcall[d]
  BY DEF Goes, Client
<1>2. StillRuns(c) /\ \A d \in Calls : xcall'[d].result = xcall[d].result
  BY <1>1 DEF StillRuns, Goes
<1>3. Kind(c) = "turn" /\ pc \notin Running => \A q \in Clients : client[q].turn # c
  <2> SUFFICES ASSUME Kind(c) = "turn", pc \notin Running, NEW q \in Clients, client[q].turn = c
               PROVE  FALSE
    OBVIOUS
  <2>1. c # NoProc
    BY CodexAssumption
  <2>2. xcall[c].pc \in Running
    BY <2>1 DEF Streams, Registered, Running
  <2> QED
    BY <2>2 DEF MayRun
<1>4. Kind(c) = "turn" /\ pc \in Running => xcall[c].pc \in Running /\ p = xcall[c].p
  BY <1>1 DEF MayRun
<1>5. ClientTyped /\ (pc \in Begins => xcall[c].pc \in Begins)
  BY DEF MayRun, Typed
<1> QED
  BY <1>1, <1>2, <1>3, <1>4, <1>5, StreamsOne

LEMMA MovesInv ==
  ASSUME IInv, NEW c \in Calls, NEW pc \in Steps, NEW p, Goes(c, pc, p), UNCHANGED Pool,
         May(c, xcall[c].pc, pc, p), MayRun(c, xcall[c].pc, pc),
         ClientTyped', ServerTyped', FailTyped', TurnsKept,
         \A q \in Clients : client'[q].turn = client[q].turn,
         reaping' \subseteq reaping, xupsets' \in 0 .. MaxUpsets
  PROVE  IInv'
<1>1. Typed /\ Counted /\ PoolLinks /\ Streams /\ Placed
  BY DEF IInv, PoolLinks
<1>2. Counted' /\ PoolLinks'
  BY <1>1, GoesMoves, PoolMoves
<1>3. Typed'
  BY <1>1 DEF Typed, MapTyped, WorkTyped, Pool, Goes
<1>4. pc \in Running => p = Client(c)
  BY DEF May, Running, HeldSet
<1>5. Streams'
  BY <1>1, <1>4, StreamsMoves DEF Pool
<1> QED
  BY <1>2, <1>3, <1>5 DEF IInv

\* Only the call changes.
LEMMA GoesInv ==
  ASSUME IInv, NEW c \in Calls, NEW pc \in Steps, NEW p, Goes(c, pc, p),
         UNCHANGED <<Pool, client, server, late, failing, reaping>>, xupsets' \in 0 .. MaxUpsets,
         May(c, xcall[c].pc, pc, p), MayRun(c, xcall[c].pc, pc)
  PROVE  IInv'
<1>1. Typed
  BY DEF IInv
<1>2. ClientTyped' /\ ServerTyped' /\ FailTyped' /\ TurnsKept
  BY <1>1, SameTurns DEF Typed, ClientTyped, ServerTyped, FailTyped
<1> QED
  BY <1>2, MovesInv

LEMMA FindInv ==
  ASSUME IInv, NEW c \in Calls, Find(c) PROVE IInv'
<1> DEFINE p == workers[SessionOf(c)]
           pc == IF worker[p].settled THEN "lease" ELSE "ready"
<1>1. Typed /\ xupsets \in 0 .. MaxUpsets
  BY DEF IInv, Typed, MapTyped
<1>2. p \in Clients
  BY <1>1, JobTyped DEF Find, Typed, MapTyped
<1>3. pc \in Steps
  BY DEF Steps
<1>4. Goes(c, pc, p)
  <2>1. xcall' = [xcall EXCEPT ![c].p = p, ![c].pc = pc]
    BY DEF Find
  <2> HIDE DEF p, pc
  <2> QED
    BY <1>1, <1>2, <1>3, <2>1, TakesGoes DEF Typed
<1>5. UNCHANGED <<Pool, client, server, late, failing, reaping, xupsets>>
  BY DEF Find, Pool, pool, servers, rest
<1>6. May(c, xcall[c].pc, pc, p) /\ MayRun(c, xcall[c].pc, pc)
  <2>1. (xcall[c].pc = "new" /\ Named(c)) \/ xcall[c].pc = "again"
    BY DEF Find, Looks, New, At
  <2>2. pc \in {"lease", "ready"} /\ (pc = "lease" => worker[p].settled)
    OBVIOUS
  <2>3. p = workers[SessionOf(c)]
    OBVIOUS
  <2> HIDE DEF p, pc
  <2>4. May(c, xcall[c].pc, pc, p)
    BY <1>2, <2>1, <2>2, <2>3 DEF May, Active, Steps, Idle, Making, Leasing, HeldSet, Owning
  <2>5. MayRun(c, xcall[c].pc, pc)
    BY <2>1, <2>2 DEF MayRun, Running, Begins, Steps
  <2> QED
    BY <2>4, <2>5
<1> HIDE DEF p, pc
<1> QED
  BY <1>1, <1>3, <1>4, <1>5, <1>6, GoesInv

\* The steps a call takes with the client it has.
Path ==
  {<<"ready", "again">>, <<"again", "reserve">>, <<"reserve", "refused">>,
   <<"ensure", "resume">>, <<"ensure", "unmake">>, <<"lease", "again">>,
   <<"start", "reload">>, <<"reload", "begin">>, <<"kill", "forget">>,
   <<"kill", "interrupt">>, <<"interrupt", "forget">>, <<"interrupt", "done">>,
   <<"forget", "shut">>, <<"evict", "make">>, <<"shut", "done">>, <<"shut", "refused">>}

LEMMA MayPath ==
  ASSUME Placed, NEW c \in Calls, NEW to, <<xcall[c].pc, to>> \in Path
  PROVE  to \in Steps /\ May(c, xcall[c].pc, to, Client(c)) /\ MayRun(c, xcall[c].pc, to)
<1> DEFINE from == xcall[c].pc
<1>1. /\ from \in Steps \ Idle => Client(c) \in Clients
      /\ from \in {"start", "reload"} => Kind(c) = "turn"
  BY DEF Placed
<1>2. <<from, to>> \in Path
  OBVIOUS
<1> HIDE DEF from
<1>3. to \in Steps /\ MayRun(c, from, to)
  BY <1>2 DEF Path, Steps, MayRun, Running, Begins
<1>4. May(c, from, to, Client(c))
  BY <1>1, <1>2 DEF Path, May, Active, Steps, Idle, Making, Leasing, HeldSet, Owning
<1> QED
  BY <1>3, <1>4 DEF from

\* The steps a call begins with, that need no client.
LEMMA MayEnter ==
  ASSUME NEW c \in Calls, New(c), NEW to \in {"reserve", "done", "refused"}
  PROVE  /\ to \in Steps /\ May(c, xcall[c].pc, to, Client(c)) /\ MayRun(c, xcall[c].pc, to)
BY DEF New, At, May, MayRun, Active, Steps, Idle, Making, Leasing, HeldSet, Owning, Running,
  Begins

LEMMA GotoInv ==
  ASSUME IInv, NEW c \in Calls, NEW pc \in Steps, Goto(c, pc),
         UNCHANGED <<Pool, client, server, late, failing, reaping>>, xupsets' \in 0 .. MaxUpsets,
         May(c, xcall[c].pc, pc, Client(c)), MayRun(c, xcall[c].pc, pc)
  PROVE  IInv'
BY GotoGoes, GoesInv DEF IInv, Typed

LEMMA AwaitReadyInv ==
  ASSUME IInv, NEW c \in Calls, AwaitReady(c) PROVE IInv'
<1>1. Placed /\ xupsets \in 0 .. MaxUpsets
  BY DEF IInv, PoolLinks, Typed, MapTyped
<1>2. /\ UNCHANGED <<Pool, client, server, late, failing, reaping, xupsets>>
      /\ Goto(c, "again") /\ xcall[c].pc = "ready"
  BY DEF AwaitReady, At, Pool, pool, servers, rest
<1>3. <<xcall[c].pc, "again">> \in Path
  BY <1>2 DEF Path
<1> QED
  BY <1>1, <1>2, <1>3, MayPath, GotoInv

LEMMA FindNoneInv ==
  ASSUME IInv, NEW c \in Calls, FindNone(c) PROVE IInv'
<1>1. Placed /\ xupsets \in 0 .. MaxUpsets
  BY DEF IInv, PoolLinks, Typed, MapTyped
<1>2. /\ UNCHANGED <<Pool, client, server, late, failing, reaping, xupsets>>
      /\ Goto(c, "reserve") /\ (New(c) \/ xcall[c].pc = "again")
  BY DEF FindNone, Looks, At, Pool, pool, servers, rest
<1>3. CASE New(c)
  BY <1>1, <1>2, <1>3, MayEnter, GotoInv
<1>4. CASE xcall[c].pc = "again"
  <2>1. <<xcall[c].pc, "reserve">> \in Path
    BY <1>4 DEF Path
  <2> QED
    BY <1>1, <1>2, <2>1, MayPath, GotoInv
<1> QED
  BY <1>2, <1>3, <1>4

\* What ensure leaves: the turn stays.
LEMMA EnsuredTyped ==
  ASSUME ClientTyped, ServerTyped, NEW p \in Clients, Ensured(p) \/ UNCHANGED <<client, server>>,
         late' = late
  PROVE  /\ ClientTyped' /\ ServerTyped'
         /\ \A q \in Clients : client'[q].turn = client[q].turn
<1>1. CASE UNCHANGED <<client, server>>
  BY <1>1 DEF ClientTyped, ServerTyped
<1>2. CASE /\ client' = [client EXCEPT ![p].cmd = TRUE, ![p].open = TRUE]
           /\ server' = [server EXCEPT ![p] = [Down EXCEPT !.up = TRUE]]
  <2> DEFINE k == [client[p] EXCEPT !.cmd = TRUE, !.open = TRUE]
             q == [Down EXCEPT !.up = TRUE]
  <2>1. k \in ClientState /\ k.turn = client[p].turn
    BY ClientFacts DEF ClientState
  <2>2. q \in ServerState
    BY DownTyped DEF ServerState
  <2>3. client' = [client EXCEPT ![p] = k] /\ server' = [server EXCEPT ![p] = q]
    BY <1>2
  <2> HIDE DEF k, q
  <2> QED
    BY <2>1, <2>2, <2>3, ClientTo, ServerTo
<1> QED
  BY <1>1, <1>2 DEF Ensured

LEMMA StartClientInv ==
  ASSUME IInv, NEW c \in Calls, StartClient(c) PROVE IInv'
<1>1. Typed /\ Placed /\ xupsets \in 0 .. MaxUpsets
  BY DEF IInv, PoolLinks, Typed, MapTyped
<1>2. xcall[c].pc = "ensure" /\ Client(c) \in Clients
  BY <1>1 DEF StartClient, At, Placed, Steps, Idle
<1>3. /\ UNCHANGED <<Pool, late, failing, reaping>>
  BY DEF StartClient, Pool, pool, rest
<1>4. xupsets' \in 0 .. MaxUpsets
  BY <1>1, UpsetTyped DEF StartClient, NotStarted
<1>5. \/ Ensured(Client(c)) /\ Writes(c, "resume")
      \/ UNCHANGED <<client, server>> /\ Goto(c, "unmake")
  BY DEF StartClient, NotStarted
<1>6. ClientTyped' /\ ServerTyped' /\ \A q \in Clients : client'[q].turn = client[q].turn
  BY <1>1, <1>2, <1>3, <1>5, EnsuredTyped DEF Typed
<1>7. PICK pc \in {"resume", "unmake"} : Goes(c, pc, Client(c))
  BY <1>1, <1>5, GotoGoes, WritesGoes DEF Typed, Steps
<1>8. <<xcall[c].pc, pc>> \in Path
  BY <1>2 DEF Path
<1>9. FailTyped' /\ TurnsKept
  BY <1>1, <1>3, SameTurns DEF Typed, FailTyped
<1> QED
  BY <1>1, <1>3, <1>4, <1>6, <1>7, <1>8, <1>9, MayPath, MovesInv

LEMMA InterruptInv ==
  ASSUME IInv, NEW c \in Calls, Interrupt(c) PROVE IInv'
<1> DEFINE kill == Kind(c) = "kill"
           p == IF kill THEN Client(c) ELSE workers[SessionOf(c)]
           then == IF kill THEN "forget" ELSE "done"
<1>1. Typed /\ Placed /\ xupsets \in 0 .. MaxUpsets
  BY DEF IInv, PoolLinks, Typed, MapTyped
<1>2. UNCHANGED <<Pool, client, server, late, failing, reaping, xupsets>>
  BY DEF Interrupt, Pool, pool, servers, rest
<1>3. xcall[c].pc = "kill" \/ (New(c) /\ Kind(c) = "interrupt")
  BY DEF Interrupt, At
<1>4. \/ xcall' = [xcall EXCEPT ![c].pc = then]
      \/ /\ p # NoProc
         /\ xcall' = [xcall EXCEPT ![c].p = p, ![c].pc = "interrupt", ![c].sent = TRUE,
                                   ![c].box = "none", ![c].left = FALSE]
  BY DEF Interrupt
<1>5. CASE xcall' = [xcall EXCEPT ![c].pc = then]
  <2>1. Goto(c, then)
    BY <1>5 DEF Goto
  <2>2. then \in Steps /\ May(c, xcall[c].pc, then, Client(c)) /\ MayRun(c, xcall[c].pc, then)
    <3>1. CASE xcall[c].pc = "kill"
      <4>1. CASE kill
        <5>1. then = "forget" /\ <<xcall[c].pc, then>> \in Path
          BY <3>1, <4>1 DEF Path
        <5> HIDE DEF then
        <5> QED
          BY <1>1, <5>1, MayPath
      <4>2. CASE ~kill
        <5>1. then = "done"
          BY <4>2
        <5> HIDE DEF then
        <5> QED
          BY <3>1, <5>1 DEF May, MayRun, Active, Steps, Idle, Making, Leasing, HeldSet, Owning,
            Running, Begins
      <4> QED
        BY <4>1, <4>2
    <3>2. CASE New(c) /\ Kind(c) = "interrupt"
      <4>1. then = "done"
        BY <3>2
      <4> HIDE DEF then
      <4> QED
        BY <3>2, <4>1, MayEnter
    <3> QED
      BY <1>3, <3>1, <3>2
  <2> HIDE DEF then
  <2> QED
    BY <1>1, <1>2, <2>1, <2>2, GotoInv
<1>6. CASE /\ p # NoProc
           /\ xcall' = [xcall EXCEPT ![c].p = p, ![c].pc = "interrupt", ![c].sent = TRUE,
                                     ![c].box = "none", ![c].left = FALSE]
  <2>1. p \in Clients /\ ((xcall[c].pc = "kill" /\ p = Client(c)) \/ p = workers[SessionOf(c)])
    <3>1. workers[SessionOf(c)] \in Clients \cup {NoProc}
      BY <1>1, JobTyped DEF Typed, MapTyped
    <3>2. xcall[c].pc = "kill" => Client(c) \in Clients
      BY <1>1 DEF Placed, Steps, Idle
    <3>3. ~kill => p = workers[SessionOf(c)] 
      OBVIOUS
    <3>4. kill => p = Client(c) /\ xcall[c].pc = "kill"
      BY <1>3
    <3> HIDE DEF p, kill
    <3> QED
      BY <1>6, <3>1, <3>2, <3>3, <3>4
  <2> DEFINE k == [xcall[c] EXCEPT !.p = p, !.pc = "interrupt", !.sent = TRUE,
                                   !.box = "none", !.left = FALSE]
  <2>2. xcall' = [xcall EXCEPT ![c] = k]
    BY <1>6
  <2> HIDE DEF p
  <2>3. k \in CallState /\ k.pc = "interrupt" /\ k.p = p /\ k.result = xcall[c].result
    BY <1>1, <2>1, CallFacts DEF CallState, Steps, Typed
  <2> HIDE DEF k
  <2>4. Goes(c, "interrupt", p)
    BY <1>1, <2>2, <2>3, GoesTo DEF Typed
  <2>5. May(c, xcall[c].pc, "interrupt", p) /\ MayRun(c, xcall[c].pc, "interrupt")
    BY <1>3, <2>1 DEF New, At, May, MayRun, Active, Steps, Idle, Making, Leasing, HeldSet,
      Owning, Running, Begins
  <2> QED
    BY <1>1, <1>2, <2>4, <2>5, GoesInv DEF Steps
<1> QED
  BY <1>4, <1>5, <1>6

LEMMA InterruptedInv ==
  ASSUME IInv, NEW c \in Calls, Interrupted(c) PROVE IInv'
<1> DEFINE pc == IF Kind(c) = "kill" THEN "forget" ELSE "done"
<1>1. Typed /\ Placed /\ xupsets \in 0 .. MaxUpsets
  BY DEF IInv, PoolLinks, Typed, MapTyped
<1>2. xcall[c].pc = "interrupt" /\ Returned(c, pc)
  BY DEF Interrupted, At
<1>3. UNCHANGED <<Pool, client, server, late, reaping, xupsets>>
  BY DEF Interrupted, Pool, pool, servers, rest
<1>4. FailTyped' /\ TurnsKept
  <2>1. PICK ok \in {"ok", "err"} : Answered(c, ok)
    BY DEF Interrupted
  <2> QED
    BY <1>1, <2>1, AnsweredTurns DEF Typed
<1>5. pc \in {"forget", "done"}
  OBVIOUS
<1> HIDE DEF pc
<1>6. pc \in Steps /\ <<xcall[c].pc, pc>> \in Path
  BY <1>2, <1>5 DEF Path, Steps
<1>7. Goes(c, pc, Client(c))
  BY <1>1, <1>2, <1>6, ReturnedGoes DEF Typed
<1>8. ClientTyped' /\ ServerTyped'
  BY <1>1, <1>3 DEF Typed, ClientTyped, ServerTyped
<1> QED
  BY <1>1, <1>3, <1>4, <1>6, <1>7, <1>8, MayPath, MovesInv

LEMMA ShutCloseInv ==
  ASSUME IInv, NEW c \in Calls, ShutClose(c) PROVE IInv'
<1> DEFINE k == [xcall[c] EXCEPT !.closed = TRUE]
           n == [client[Client(c)] EXCEPT !.open = FALSE]
<1>1. Typed /\ Placed
  BY DEF IInv, PoolLinks
<1>2. Client(c) \in Clients
  BY <1>1 DEF ShutClose, Closing, Placed, Steps, Idle
<1>3. k \in CallState /\ k.pc = xcall[c].pc /\ k.p = xcall[c].p /\ k.result = xcall[c].result
  BY <1>1, CallFacts DEF CallState, Typed
<1>4. n \in ClientState /\ n.turn = client[Client(c)].turn
  BY <1>1, <1>2, ClientFacts DEF ClientState, Typed
<1>5. xcall' = [xcall EXCEPT ![c] = k] /\ client' = [client EXCEPT ![Client(c)] = n]
  BY DEF ShutClose
<1>6. UNCHANGED <<Pool, server, late, failing, reaping, xupsets>>
  BY DEF ShutClose, Pool, pool, servers, rest
<1> HIDE DEF k, n
<1>7. CallTyped' /\ xcall'[c] = k /\ \A d \in Calls : d # c => xcall'[d] = xcall[d]
  BY <1>1, <1>3, <1>5, CallTo DEF Typed
<1>8. Stays /\ \A d \in Calls : xcall'[d].result = xcall[d].result
  BY <1>3, <1>7 DEF Stays
<1> QED
  BY <1>2, <1>4, <1>5, <1>6, <1>7, <1>8, ClientInv

\* Where a shut-down leaves its call.
LEMMA AfterShutGoes ==
  ASSUME CallTyped, NEW c \in Calls, Closing(c), AfterShut(c)
  PROVE  \E pc \in Steps : <<xcall[c].pc, pc>> \in Path /\ Goes(c, pc, Client(c))
<1>1. PICK pc : /\ \/ xcall[c].pc = "evict" /\ pc = "make"
                   \/ xcall[c].pc = "shut" /\ pc \in {"done", "refused"}
                /\ xcall' = [xcall EXCEPT ![c].closed = FALSE, ![c].pc = pc]
  <2>1. CASE xcall[c].pc = "evict"
    <3>1. xcall' = [xcall EXCEPT ![c].closed = FALSE, ![c].pc = "make"]
      BY <2>1 DEF AfterShut, CallTyped
    <3> QED
      BY <2>1, <3>1
  <2>2. CASE xcall[c].pc = "shut" /\ Kind(c) = "kill"
    <3>1. xcall' = [xcall EXCEPT ![c].closed = FALSE, ![c].pc = "done"]
      BY <2>2 DEF AfterShut, CallTyped
    <3> QED
      BY <2>2, <3>1
  <2>3. CASE xcall[c].pc = "shut" /\ Kind(c) # "kill"
    <3>1. xcall' = [xcall EXCEPT ![c].closed = FALSE, ![c].pc = "refused"]
      BY <2>3 DEF AfterShut, CallTyped
    <3> QED
      BY <2>3, <3>1
  <2> QED
    BY <2>1, <2>2, <2>3 DEF Closing
<1>2. <<xcall[c].pc, pc>> \in Path /\ pc \in Steps
  BY <1>1 DEF Path, Steps
<1> DEFINE k == [xcall[c] EXCEPT !.closed = FALSE, !.pc = pc]
<1>3. k \in CallState /\ k.pc = pc /\ k.p = Client(c) /\ k.result = xcall[c].result
  BY <1>2, CallFacts DEF CallState, Client
<1>4. xcall' = [xcall EXCEPT ![c] = k]
  BY <1>1
<1> HIDE DEF k
<1>5. Goes(c, pc, Client(c))
  BY <1>3, <1>4, GoesTo
<1> QED
  BY <1>2, <1>5

LEMMA ShutDoneInv ==
  ASSUME IInv, NEW c \in Calls, ShutDone(c) PROVE IInv'
<1>1. Typed /\ Placed /\ xupsets \in 0 .. MaxUpsets
  BY DEF IInv, PoolLinks, Typed, MapTyped
<1>2. UNCHANGED <<Pool, client, server, late, failing, reaping, xupsets>>
  BY DEF ShutDone, Pool, pool, servers, rest
<1>3. PICK pc \in Steps : <<xcall[c].pc, pc>> \in Path /\ Goes(c, pc, Client(c))
  BY <1>1, AfterShutGoes DEF ShutDone, Typed
<1> QED
  BY <1>1, <1>2, <1>3, MayPath, GoesInv

\* A path leaves every turn where it is.
LEMMA PathSteady ==
  ASSUME NEW c \in Calls, NEW pc \in Steps, Goes(c, pc, Client(c)),
         <<xcall[c].pc, pc>> \in Path \ {<<"start", "reload">>, <<"reload", "begin">>}
  PROVE  Steady
<1>1. xcall'[c].pc = pc /\ \A d \in Calls : d # c => xcall'[d] = xcall[d]
  BY DEF Goes
<1>2. /\ pc \notin Running /\ xcall[c].pc \notin Running
      /\ pc \in Begins => xcall[c].pc \in Begins
  BY DEF Path, Running, Begins, Steps
<1> QED
  BY <1>1, <1>2 DEF Steady

LEMMA ShutTimeoutInv ==
  ASSUME IInv, NEW c \in Calls, ShutTimeout(c) PROVE IInv'
<1>1. /\ Typed /\ Placed /\ Counted /\ PoolLinks /\ Streams
  BY DEF IInv, PoolLinks
<1>2. Client(c) \in Clients
  BY <1>1 DEF ShutTimeout, Closing, Placed, Steps, Idle
<1>3. UNCHANGED <<Pool, reaping, xupsets>> /\ Failed(Client(c))
  BY DEF ShutTimeout, Pool, pool, rest
<1>4. PICK pc \in Steps : <<xcall[c].pc, pc>> \in Path /\ Goes(c, pc, Client(c))
  BY <1>1, AfterShutGoes DEF ShutTimeout, Typed
<1>5. Counted' /\ PoolLinks'
  BY <1>1, <1>3, <1>4, MayPath, GoesMoves, PoolMoves
<1>6. /\ ClientTyped' /\ ServerTyped' /\ FailTyped' /\ client'[Client(c)].turn = NoProc
      /\ \A q \in Clients : q # Client(c) => client'[q].turn = client[q].turn
      /\ failing' = failing \cup {ToTell(Client(c))}
  BY <1>1, <1>2, <1>3, FailedTyped
<1>7. Typed'
  BY <1>1, <1>3, <1>4, <1>6 DEF Typed, MapTyped, WorkTyped, Pool, Goes
<1>8. Steady
  BY <1>4, PathSteady DEF ShutTimeout, Closing
<1>9. \A d \in Calls : xcall'[d].result = xcall[d].result
  BY <1>4 DEF Goes
<1>10. Streams'
  BY <1>1, <1>2, <1>3, <1>6, <1>8, <1>9, StreamsFail DEF Typed, Pool
<1> QED
  BY <1>5, <1>7, <1>10 DEF IInv

LEMMA ForgetInv ==
  ASSUME IInv, NEW c \in Calls, Forget(c) PROVE IInv'
<1> DEFINE p == Client(c)
           t == client[p].turn
           n == [client[p] EXCEPT !.thread = FALSE, !.turn = NoProc]
           k == [xcall[c] EXCEPT !.pc = "shut"]
           done == [xcall[t] EXCEPT !.result = TRUE]
<1>1. /\ Typed /\ Placed /\ Counted /\ PoolLinks /\ Streams
  BY DEF IInv, PoolLinks
<1>2. p \in Clients /\ xcall[c].pc = "forget"
  BY <1>1 DEF Forget, At, Placed, Steps, Idle
<1>3. UNCHANGED <<Pool, server, late, failing, reaping, xupsets>>
  BY DEF Forget, Pool, pool, servers, rest
<1>4. t \in Calls \cup {NoProc} /\ n \in ClientState /\ n.turn = NoProc
  BY <1>1, <1>2, ClientFacts DEF ClientState, Typed
<1>5. t \in Calls => t # c /\ xcall[t].pc \in Running
  <2> SUFFICES ASSUME t \in Calls PROVE t # c /\ xcall[t].pc \in Running
    OBVIOUS
  <2>1. t # NoProc
    BY CodexAssumption
  <2>2. xcall[t].pc \in Running
    BY <1>1, <1>2, <2>1 DEF Streams, Registered, Running
  <2> QED
    BY <1>2, <2>2 DEF Running
<1>6. k \in CallState /\ k.pc = "shut" /\ k.p = xcall[c].p /\ k.result = xcall[c].result
  BY <1>1, CallFacts DEF CallState, Typed, Steps
<1>7. client' = [client EXCEPT ![p] = n]
  BY DEF Forget
<1>8. \/ t = NoProc /\ xcall' = [xcall EXCEPT ![c] = k]
      \/ t # NoProc /\ xcall' = [[xcall EXCEPT ![c] = k] EXCEPT ![t].result = TRUE]
  BY DEF Forget
<1>9. t \in Calls => done \in CallState /\ done.pc = xcall[t].pc /\ done.p = xcall[t].p /\ done.result
  BY <1>1, CallFacts DEF CallState, Typed
<1> HIDE DEF n, k
<1>10. ClientTyped' /\ client'[p] = n /\ \A q \in Clients \ {p} : client'[q] = client[q]
  <2> HIDE DEF p
  <2> QED
    BY <1>1, <1>2, <1>4, <1>7, ClientTo DEF Typed
<1>11. /\ CallTyped' /\ xcall'[c] = k
       /\ t \in Calls => xcall'[t] = done
       /\ \A d \in Calls : d # c /\ d # t => xcall'[d] = xcall[d]
  <2>1. CASE t = NoProc
    <3> HIDE DEF t, done
    <3> QED
      BY <1>1, <1>6, <1>8, <2>1, CodexAssumption, CallTo DEF Typed
  <2>2. CASE t # NoProc
    <3>1. t \in Calls /\ t # c
      BY <1>4, <1>5, <2>2
    <3>2. xcall' = [xcall EXCEPT ![c] = k, ![t] = done]
      <4> HIDE DEF t
      <4> QED
        BY <1>1, <1>8, <2>2, <3>1 DEF CallTyped, Typed
    <3> HIDE DEF t, done
    <3> QED
      BY <1>1, <1>6, <1>9, <3>1, <3>2 DEF CallTyped, Typed
  <2> QED
    BY <2>1, <2>2
<1> HIDE DEF t, done
<1>12. \A d \in Calls : d # c => xcall'[d].pc = xcall[d].pc /\ xcall'[d].p = xcall[d].p
  BY <1>9, <1>11
<1>13. Moves(c, "shut", p)
  BY <1>6, <1>11, <1>12 DEF Moves, Others, Client
<1>14. Counted' /\ PoolLinks'
  <2>1. <<xcall[c].pc, "shut">> \in Path
    BY <1>2 DEF Path
  <2> QED
    BY <1>1, <1>3, <1>13, <2>1, MayPath, PoolMoves
<1>15. Typed'
  BY <1>1, <1>3, <1>10, <1>11
     DEF Typed, MapTyped, WorkTyped, ServerTyped, FailTyped, Pool
<1>16. Steady
  <2>1. xcall'[c].pc = "shut"
    BY <1>6, <1>11
  <2> QED
    BY <1>2, <1>12, <2>1 DEF Steady, Running, Begins, Steps
<1>17. client'[p].turn = NoProc /\ \A q \in Clients : q # p => client'[q].turn = client[q].turn
  BY <1>4, <1>10
<1>18. Streams'
  <2>1. CASE t \in Calls
    <3>1. xcall'[t].result /\ \A d \in Calls : d # t => xcall'[d].result = xcall[d].result
      BY <1>6, <1>9, <1>11, <2>1
    <3>2. client[p].turn = t
      BY DEF t
    <3> QED
      BY <1>1, <1>2, <1>3, <1>16, <1>17, <2>1, <3>1, <3>2, StreamsFinish DEF Typed, Pool
  <2>2. CASE t = NoProc
    <3>1. \A d \in Calls : xcall'[d].result = xcall[d].result
      BY <1>6, <1>11, <2>2, CodexAssumption
    <3>2. \A q \in Clients : client'[q].turn = client[q].turn
      BY <1>17, <2>2 DEF t
    <3> QED
      BY <1>1, <1>3, <1>16, <3>1, <3>2, SameTurns, StreamsSame DEF Typed, Pool
  <2> QED
    BY <1>4, <2>1, <2>2
<1> QED
  BY <1>14, <1>15, <1>18 DEF IInv

(***************************************************************************)
(* A worker's lease or its mark changes hands: p's fields become w.        *)
(***************************************************************************)
Hands(c, from, to, p, w) ==
  /\ \/ from \in HeldSet \cup {"lease"} /\ p = Client(c)
     \/ from = "new" /\ Named(c)
  /\ to \in HeldSet \cup {"done", "refused"}
  /\ to \in HeldSet =>
       \/ from \in HeldSet
       \/ worker[p].settled /\ p = workers[SessionOf(c)]
  /\ to \in {"start", "reload", "begin", "run"} => Kind(c) = "turn"
  /\ w.settled = worker[p].settled
  /\ \/ w.leases = worker[p].leases + 1
     \/ w.leases = worker[p].leases /\ (to \in Leasing => from \in Leasing)
     \/ w.leases = worker[p].leases - 1 /\ from \in Leasing /\ to \notin Leasing
  /\ Kind(c) = "turn" /\ to \in Owning => w.busy /\ (Owner(c) \/ ~worker[p].busy)
  /\ w.busy \/ Owner(c) \/ ~worker[p].busy
  /\ w.busy =>
       \/ worker[p].busy /\ ~Owner(c)
       \/ Kind(c) = "turn" /\ to \in Owning /\ from \in HeldSet
       \/ worker[p].busy /\ workers[SessionOf(c)] # p

LEMMA PoolHands ==
  ASSUME Typed, Counted, PoolLinks, NEW c \in Calls, NEW pc \in Steps, NEW p \in Clients,
         NEW w \in WorkerState, Moves(c, pc, p), xcall[c].pc # "done",
         worker' = [worker EXCEPT ![p] = w], UNCHANGED <<xjob, workers, starting, xkilled>>,
         Hands(c, xcall[c].pc, pc, p, w)
  PROVE  WorkTyped' /\ Counted' /\ PoolLinks'
<1> DEFINE from == xcall[c].pc
<1>1. /\ Placed /\ Mapped /\ Creating /\ Settling /\ Leased /\ Owned /\ HeldInPlace /\ BusyHasOwner
      /\ MapTyped /\ WorkTyped /\ CallTyped
  BY DEF PoolLinks, Typed
<1>2. Others(c) /\ xcall'[c].pc = pc /\ xcall'[c].p = p /\ Client(c) = xcall[c].p
  BY DEF Moves, Client
<1>3. WorkTyped' /\ worker'[p] = w /\ \A q \in Clients \ {p} : worker'[q] = worker[q]
  BY <1>1, WorkTo
<1>4. Fewer /\ from \in Steps
  BY <1>1, CallFacts DEF Fewer
<1>5. /\ \/ from \in HeldSet \cup {"lease"} /\ p = xcall[c].p
         \/ from = "new" /\ Named(c)
      /\ pc \in HeldSet \cup {"done", "refused"}
      /\ pc \in HeldSet =>
           \/ from \in HeldSet /\ p = xcall[c].p
           \/ worker[p].settled /\ p = workers[SessionOf(c)]
  BY <1>2 DEF Hands, HeldSet
<1>6. Placed'
  <2>1. pc \in {"start", "reload", "begin", "run"} => Kind(c) = "turn"
    BY DEF Hands
  <2> QED
    BY <1>1, <1>2, <2>1, PlacedOne
<1>7. Mapped'
  <2>1. pc \in Active =>
          \/ from \in Active /\ p = xcall[c].p
          \/ p = workers[SessionOf(c)]
    BY <1>5 DEF Active, HeldSet, Steps, Idle
  <2> QED
    BY <1>1, <1>2, <1>4, <2>1, MappedOne
<1>8. Creating'
  <2>1. SessionOf(c) \in Sessions
    BY <1>1, JobTyped
  <2>2. /\ from = "new" /\ pc # "new" => Named(c)
        /\ from # "new" => pc # "new"
        /\ from # "done"
        /\ pc \in Active =>
             \/ from \in Active /\ p = xcall[c].p
             \/ \E s \in Sessions : workers[s] = p
        /\ pc \notin Making
    BY <1>5, <2>1 DEF Active, HeldSet, Steps, Idle, Making
  <2>3. \A q \in Clients : worker'[q].busy =>
          \/ worker[q].busy
          \/ c \in Calls /\ from \in Active \ Making /\ Client(c) = q
    <3> SUFFICES ASSUME worker'[p].busy, ~worker[p].busy
                 PROVE  from \in Active \ Making /\ Client(c) = p
      BY <1>3
    <3>1. from \in HeldSet
      BY <1>3 DEF Hands
    <3> QED
      BY <1>2, <1>5, <3>1 DEF HeldSet, Active, Making, Steps, Idle
  <2> QED
    BY <1>1, <1>2, <1>4, <2>2, <2>3, CreatingOne
<1>9. Settling'
  <2>1. \A q \in Clients : worker'[q].settled = worker[q].settled
    BY <1>3 DEF Hands
  <2>2. /\ pc \notin Making
        /\ pc \in HeldSet \cup {"lease"} =>
             \/ from \in HeldSet \cup {"lease"} /\ p = xcall[c].p
             \/ p \in Clients /\ worker[p].settled
    BY <1>5 DEF Making, HeldSet
  <2> QED
    BY <1>1, <1>2, <2>1, <2>2, SettlingOne
<1>10. Leased'
  <2> SUFFICES ASSUME NEW q \in Clients
               PROVE  \/ /\ worker'[q].leases >= worker[q].leases
                         /\ c \in Calls /\ pc \in Leasing /\ p = q =>
                              from \in Leasing /\ Client(c) = q
                      \/ worker'[q].leases = worker[q].leases + 1
                      \/ /\ worker'[q].leases = worker[q].leases - 1
                         /\ c \in Calls /\ from \in Leasing /\ Client(c) = q
                         /\ ~(pc \in Leasing /\ p = q)
    BY <1>1, <1>2, <1>3, LeasedOne
  <2>1. worker[q].leases \in Nat /\ worker'[q].leases \in Nat
    BY <1>1, <1>3 DEF WorkTyped, WorkerState
  <2>2. CASE q # p
    BY <1>3, <2>1, <2>2
  <2>3. CASE q = p
    <3>1. from \in Leasing => Client(c) = p
      BY <1>2, <1>5 DEF Leasing
    <3>2. worker'[q].leases = w.leases
      BY <1>3, <2>3
    <3>3. \/ w.leases = worker[p].leases + 1
          \/ w.leases = worker[p].leases /\ (pc \in Leasing => from \in Leasing)
          \/ w.leases = worker[p].leases - 1 /\ from \in Leasing /\ pc \notin Leasing
      BY DEF Hands
    <3> QED
      BY <2>1, <2>3, <3>1, <3>2, <3>3
  <2> QED
    BY <2>2, <2>3
<1>11. (Owner(c)' <=> Kind(c) = "turn" /\ pc \in Owning) /\ (Owner(c) => p = Client(c))
  BY <1>2, <1>5, SameJob DEF Owner, Owning
<1>12. Owned'
  <2>1. ASSUME NEW d \in Calls, d # c, Owner(d) PROVE worker'[Client(d)].busy
    <3>1. worker[Client(d)].busy /\ Client(d) \in Clients
      BY <1>1, <2>1 DEF Owned, Owner, Placed, Owning, Steps, Idle
    <3>2. CASE Client(d) = p
      <4>1. ~Owner(c)
        BY <1>1, <1>11, <2>1, <3>2 DEF Owned
      <4> QED
        BY <1>3, <3>1, <3>2, <4>1 DEF Hands
    <3> QED
      BY <1>3, <3>1, <3>2
  <2>2. ASSUME Owner(c)'
        PROVE  /\ worker'[p].busy
               /\ \/ Owner(c) /\ p = xcall[c].p
                  \/ \A d \in Calls : d # c /\ Owner(d) => Client(d) # p
    <3>1. w.busy /\ (Owner(c) \/ ~worker[p].busy)
      BY <1>11, <2>2 DEF Hands
    <3> QED
      BY <1>1, <1>2, <1>3, <1>11, <3>1 DEF Owned
  <2> QED
    BY <1>1, <1>2, <2>1, <2>2, OwnedOne
<1>13. HeldInPlace'
  <2>1. pc \in HeldSet =>
          \/ from \in HeldSet /\ p = xcall[c].p
          \/ workers'[SessionOf(c)] = p
    BY <1>5
  <2> QED
    BY <1>1, <1>2, <2>1, HeldOne
<1>14. BusyHasOwner'
  <2> SUFFICES ASSUME NEW s \in Sessions, workers[s] # NoProc, worker'[workers[s]].busy
               PROVE  \/ /\ worker[workers[s]].busy
                         /\ c \in Calls /\ Owner(c) /\ Client(c) = workers[s] =>
                              Owner(c)' /\ p = xcall[c].p
                      \/ c \in Calls /\ Owner(c)' /\ p = workers[s]
    BY <1>1, <1>2, BusyOne
  <2>1. workers[s] \in Clients /\ s \in Live
    BY <1>1 DEF MapTyped, Live
  <2>2. CASE workers[s] # p
    <3>1. worker[workers[s]].busy
      BY <1>3, <2>1, <2>2
    <3>2. ~(Owner(c) /\ Client(c) = workers[s])
      BY <1>11, <2>2
    <3> QED
      BY <3>1, <3>2
  <2>3. CASE workers[s] = p
    <3>1. w.busy
      BY <1>3, <2>3
    <3>2. CASE worker[p].busy /\ ~Owner(c)
      BY <2>3, <3>2
    <3>3. CASE Kind(c) = "turn" /\ pc \in Owning /\ from \in HeldSet
      BY <1>11, <2>3, <3>3
    <3>4. CASE worker[p].busy /\ workers[SessionOf(c)] # p
      <4>1. Owner(c) => xcall[c].pc \in Active /\ Client(c) = workers[s]
        BY <1>11, <2>3 DEF Owner, Owning, Active, Steps, Idle
      <4>2. ~Owner(c)
        BY <1>1, <2>1, <2>3, <3>4, <4>1 DEF Mapped
      <4> QED
        BY <2>3, <3>4, <4>2
    <3> QED
      BY <3>1, <3>2, <3>3, <3>4 DEF Hands
  <2> QED
    BY <2>2, <2>3
<1>15. Counted'
  <2>1. Reserved(c)' => Reserved(c)
    BY <1>2, <1>5 DEF Reserved, HeldSet, Making
  <2>2. starting \in Nat
    BY <1>1 DEF MapTyped
  <2>3. IsFiniteSet(Reserving') /\ Cardinality(Reserving') <= starting'
    BY <1>2, <2>1, <2>2, ReservingOne
  <2>4. Live' = Live
    BY DEF Live
  <2> QED
    BY <2>3, <2>4 DEF Counted
<1> QED
  BY <1>3, <1>6, <1>7, <1>8, <1>9, <1>10, <1>12, <1>13, <1>14, <1>15 DEF PoolLinks

Rest == <<xjob, workers, starting, xkilled>>

LEMMA HandsInv ==
  ASSUME IInv, NEW c \in Calls, NEW pc \in Steps, NEW p \in Clients, NEW w \in WorkerState,
         Goes(c, pc, p), xcall[c].pc # "done", worker' = [worker EXCEPT ![p] = w],
         UNCHANGED Rest, Hands(c, xcall[c].pc, pc, p, w),
         ClientTyped', ServerTyped', FailTyped', Streams',
         reaping' \subseteq reaping, xupsets' \in 0 .. MaxUpsets
  PROVE  IInv'
<1>1. Typed /\ Counted /\ PoolLinks
  BY DEF IInv
<1>2. UNCHANGED <<xjob, workers, starting, xkilled>>
  BY DEF Rest
<1>3. WorkTyped' /\ Counted' /\ PoolLinks'
  BY <1>1, <1>2, GoesMoves, PoolHands
<1>4. Typed'
  BY <1>1, <1>2, <1>3 DEF Typed, MapTyped, Goes
<1> QED
  BY <1>3, <1>4 DEF IInv

\* No more than the call and its worker changes.
LEMMA HandsOnly ==
  ASSUME IInv, NEW c \in Calls, NEW pc \in Steps, NEW p \in Clients, NEW w \in WorkerState,
         Goes(c, pc, p), xcall[c].pc # "done", worker' = [worker EXCEPT ![p] = w],
         UNCHANGED Rest, Hands(c, xcall[c].pc, pc, p, w), MayRun(c, xcall[c].pc, pc),
         pc \in Running => p = Client(c),
         ClientTyped', ServerTyped', FailTyped', TurnsKept,
         \A q \in Clients : client'[q].turn = client[q].turn,
         reaping' \subseteq reaping, xupsets' \in 0 .. MaxUpsets
  PROVE  IInv'
<1>1. Typed /\ Streams /\ Placed
  BY DEF IInv, PoolLinks
<1>2. Streams'
  BY <1>1, StreamsMoves DEF Rest
<1> QED
  BY <1>2, HandsInv

LEMMA SameClients ==
  ASSUME Typed, UNCHANGED <<client, server, late, failing>>
  PROVE  /\ ClientTyped' /\ ServerTyped' /\ FailTyped' /\ TurnsKept
         /\ \A q \in Clients : client'[q].turn = client[q].turn
BY SameTurns DEF Typed, ClientTyped, ServerTyped, FailTyped

LEMMA LeaseInv ==
  ASSUME IInv, NEW c \in Calls, Lease(c) PROVE IInv'
<1> DEFINE p == Client(c)
           w == [worker[p] EXCEPT !.leases = @ + 1]
<1>1. Typed /\ Placed /\ Settling /\ xupsets \in 0 .. MaxUpsets
  BY DEF IInv, PoolLinks, Typed, MapTyped
<1>2. p \in Clients /\ xcall[c].pc = "lease"
  BY <1>1 DEF Lease, At, Placed, Steps, Idle
<1>3. UNCHANGED <<Rest, client, server, late, failing, reaping, xupsets>>
  BY DEF Lease, Rest, servers, rest
<1>4. CASE workers[SessionOf(c)] = p
  <2>1. worker' = [worker EXCEPT ![p] = w] /\ Goto(c, "mark")
    BY <1>4 DEF Lease
  <2>2. w \in WorkerState /\ w.leases = worker[p].leases + 1 /\ w.busy = worker[p].busy
        /\ w.settled = worker[p].settled
    BY <1>1, <1>2, WorkFacts DEF WorkerState, Typed
  <2> HIDE DEF w
  <2>3. Goes(c, "mark", p)
    BY <1>1, <2>1, GotoGoes DEF Typed, Steps
  <2>4. worker[p].settled
    BY <1>1, <1>2 DEF Settling
  <2>5. Hands(c, xcall[c].pc, "mark", p, w) /\ MayRun(c, xcall[c].pc, "mark")
    BY <1>2, <1>4, <2>2, <2>4 DEF Hands, HeldSet, Leasing, Owning, Owner, MayRun, Begins, Running, Steps
  <2> QED
    BY <1>1, <1>2, <1>3, <2>1, <2>2, <2>3, <2>5, SameClients, HandsOnly DEF Steps, Running
<1>5. CASE workers[SessionOf(c)] # p
  <2>1. worker' = worker /\ Goto(c, "again")
    BY <1>5 DEF Lease
  <2>2. <<xcall[c].pc, "again">> \in Path
    BY <1>2 DEF Path
  <2> QED
    BY <1>1, <1>3, <2>1, <2>2, MayPath, GotoInv DEF Pool, Rest
<1> QED
  BY <1>4, <1>5

LEMMA LeaseIfLiveInv ==
  ASSUME IInv, NEW c \in Calls, LeaseIfLive(c) PROVE IInv'
<1> DEFINE p == workers[SessionOf(c)]
           w == [worker[p] EXCEPT !.leases = @ + 1]
<1>1. Typed /\ Placed /\ xupsets \in 0 .. MaxUpsets
  BY DEF IInv, PoolLinks, Typed, MapTyped
<1>2. New(c) /\ xcall[c].pc = "new" /\ Named(c) /\ Kind(c) = "live"
  BY DEF LeaseIfLive, New, At
<1>3. UNCHANGED <<Rest, client, server, late, failing, reaping, xupsets>>
  BY DEF LeaseIfLive, Rest, servers, rest
<1>4. CASE p # NoProc /\ worker[p].settled
  <2>1. /\ worker' = [worker EXCEPT ![p] = w]
        /\ xcall' = [xcall EXCEPT ![c].pc = "mark", ![c].p = p]
    BY <1>4 DEF LeaseIfLive
  <2>2. p \in Clients
    BY <1>1, <1>4, JobTyped DEF Typed, MapTyped
  <2>3. w \in WorkerState /\ w.leases = worker[p].leases + 1 /\ w.busy = worker[p].busy
        /\ w.settled = worker[p].settled
    BY <1>1, <2>2, WorkFacts DEF WorkerState, Typed
  <2>4. p = workers[SessionOf(c)]
    OBVIOUS
  <2> HIDE DEF p, w
  <2>5. Goes(c, "mark", p)
    BY <1>1, <2>1, <2>2, TakesGoes DEF Typed, Steps
  <2>6. Hands(c, xcall[c].pc, "mark", p, w) /\ MayRun(c, xcall[c].pc, "mark")
    BY <1>2, <1>4, <2>3, <2>4 DEF Hands, HeldSet, Leasing, Owning, Owner, MayRun, Begins, Running, Steps
  <2> QED
    BY <1>1, <1>2, <1>3, <2>1, <2>2, <2>3, <2>5, <2>6, SameClients, HandsOnly DEF Steps, Running
<1>5. CASE ~(p # NoProc /\ worker[p].settled)
  <2>1. worker' = worker /\ Goto(c, "refused")
    BY <1>5 DEF LeaseIfLive
  <2> QED
    BY <1>1, <1>2, <1>3, <2>1, MayEnter, GotoInv DEF Pool, Rest
<1> QED
  BY <1>4, <1>5

\* What a call that gives its lease back leaves of its worker.
LEMMA ReleasedState ==
  ASSUME IInv, NEW c \in Calls, xcall[c].pc \in Leasing, NEW busy \in BOOLEAN,
         Released(Client(c), busy)
  PROVE  /\ Client(c) \in Clients
         /\ \E w \in WorkerState :
              /\ worker' = [worker EXCEPT ![Client(c)] = w]
              /\ w.settled = worker[Client(c)].settled /\ w.busy = busy
              /\ w.leases = worker[Client(c)].leases - 1
<1> DEFINE p == Client(c)
           leases == worker[p].leases - 1
           w == [worker[p] EXCEPT !.leases = leases, !.busy = busy]
<1>1. Typed /\ Placed /\ Leased
  BY DEF IInv, PoolLinks
<1>2. p \in Clients
  BY <1>1 DEF Leasing, Placed, Steps, Idle
<1>3. leases \in Nat
  BY <1>1, <1>2, CanRelease DEF Typed
<1>4. worker' = [worker EXCEPT ![p] = w]
  BY DEF Released
<1>5. w \in WorkerState /\ w.settled = worker[p].settled /\ w.busy = busy /\ w.leases = leases
  <2> HIDE DEF leases
  <2> QED
    BY <1>1, <1>2, <1>3, WorkFacts DEF WorkerState, Typed
<1> HIDE DEF w
<1> QED
  BY <1>2, <1>4, <1>5

LEMMA MarkInv ==
  ASSUME IInv, NEW c \in Calls, Mark(c) PROVE IInv'
<1> DEFINE p == Client(c)
<1>1. Typed /\ Placed /\ xupsets \in 0 .. MaxUpsets
  BY DEF IInv, PoolLinks, Typed, MapTyped
<1>2. p \in Clients /\ xcall[c].pc = "mark" /\ Kind(c) = "turn"
  BY <1>1 DEF Mark, At, Placed, Steps, Idle
<1>3. UNCHANGED <<Rest, client, server, late, failing, reaping, xupsets>>
  BY DEF Mark, Rest, servers, rest
<1>4. CASE worker[p].busy \/ Busy(p)
  <2>1. Released(p, worker[p].busy) /\ Goto(c, "refused") /\ worker[p].busy \in BOOLEAN
    BY <1>1, <1>2, <1>4, WorkFacts DEF Mark, Typed
  <2>2. PICK w \in WorkerState : /\ worker' = [worker EXCEPT ![p] = w]
                                 /\ w.settled = worker[p].settled /\ w.busy = worker[p].busy
                                 /\ w.leases = worker[p].leases - 1
    BY <1>2, <2>1, ReleasedState DEF Leasing
  <2>3. Goes(c, "refused", p)
    BY <1>1, <2>1, GotoGoes DEF Typed, Steps
  <2>4. Hands(c, xcall[c].pc, "refused", p, w) /\ MayRun(c, xcall[c].pc, "refused")
    BY <1>2, <2>2 DEF Hands, HeldSet, Leasing, Owning, Owner, MayRun, Begins, Running, Steps
  <2> QED
    BY <1>1, <1>2, <1>3, <2>2, <2>3, <2>4, SameClients, HandsOnly DEF Steps, Running
<1>5. CASE ~(worker[p].busy \/ Busy(p))
  <2> DEFINE w == [worker[p] EXCEPT !.busy = TRUE]
  <2>1. worker' = [worker EXCEPT ![p] = w] /\ Goto(c, "start")
    BY <1>5 DEF Mark
  <2>2. w \in WorkerState /\ w.leases = worker[p].leases /\ w.busy /\ w.settled = worker[p].settled
    BY <1>1, <1>2, WorkFacts DEF WorkerState, Typed
  <2> HIDE DEF w
  <2>3. Goes(c, "start", p)
    BY <1>1, <2>1, GotoGoes DEF Typed, Steps
  <2>4. Hands(c, xcall[c].pc, "start", p, w) /\ MayRun(c, xcall[c].pc, "start")
    BY <1>2, <1>5, <2>2 DEF Hands, HeldSet, Leasing, Owning, Owner, MayRun, Begins, Running, Steps
  <2> QED
    BY <1>1, <1>2, <1>3, <2>1, <2>2, <2>3, <2>4, SameClients, HandsOnly DEF Steps, Running
<1> QED
  BY <1>4, <1>5

\* An operation that gives up: its stream, if it had one, has been taken back.
LEMMA GivesUpInv ==
  ASSUME IInv, NEW c \in Calls, xcall[c].pc \in Leasing,
         Kind(c) = "turn" => xcall[c].pc # "mark", GivesUp(c), UNCHANGED Rest,
         ClientTyped', ServerTyped', FailTyped', Streams',
         reaping' \subseteq reaping, xupsets' \in 0 .. MaxUpsets
  PROVE  IInv'
<1> DEFINE p == Client(c)
           busy == IF Kind(c) = "turn" THEN FALSE ELSE worker[p].busy
<1>1. Typed /\ Placed
  BY DEF IInv, PoolLinks
<1>2. p \in Clients
  BY <1>1 DEF Leasing, Placed, Steps, Idle
<1>3. Released(p, busy) /\ Returned(c, "refused") /\ busy \in BOOLEAN
  BY <1>1, <1>2, WorkFacts DEF GivesUp, Typed
<1>4. \/ Kind(c) = "turn" /\ ~busy
      \/ Kind(c) # "turn" /\ busy = worker[p].busy
  OBVIOUS
<1> HIDE DEF busy
<1>5. PICK w \in WorkerState : /\ worker' = [worker EXCEPT ![p] = w]
                               /\ w.settled = worker[p].settled /\ w.busy = busy
                               /\ w.leases = worker[p].leases - 1
  BY <1>3, ReleasedState
<1>6. Goes(c, "refused", p)
  BY <1>1, <1>3, ReturnedGoes DEF Typed, Steps
<1>7. Kind(c) = "turn" => Owner(c)
  BY DEF Owner, Owning, Leasing
<1>8. Hands(c, xcall[c].pc, "refused", p, w)
  BY <1>4, <1>5, <1>7 DEF Hands, HeldSet, Leasing, Owning, Owner
<1> QED
  BY <1>2, <1>5, <1>6, <1>8, HandsInv DEF Steps, Leasing

\* It had none.
LEMMA GivesUpOnly ==
  ASSUME IInv, NEW c \in Calls, xcall[c].pc \in Leasing,
         Kind(c) = "turn" => xcall[c].pc \notin {"mark", "rpc"}, GivesUp(c),
         UNCHANGED <<Rest, client>>, ServerTyped', FailTyped', TurnsKept,
         reaping' \subseteq reaping, xupsets' \in 0 .. MaxUpsets
  PROVE  IInv'
<1>1. Typed /\ Streams /\ Placed
  BY DEF IInv, PoolLinks
<1>2. ClientTyped'
  BY <1>1 DEF Typed, ClientTyped
<1>3. Goes(c, "refused", Client(c))
  BY <1>1, ReturnedGoes DEF GivesUp, Typed, Steps
<1>4. MayRun(c, xcall[c].pc, "refused")
  BY DEF MayRun, Begins, Running, Leasing
<1>5. Streams'
  BY <1>1, <1>3, <1>4, StreamsMoves DEF Rest, Running
<1> QED
  BY <1>2, <1>5, GivesUpInv

\* Nobody's stream is registered on the worker of a turn that has not begun.
LEMMA NoStream ==
  ASSUME IInv, NEW c \in Calls, xcall[c].pc \in {"start", "begin"}
  PROVE  Client(c) \in Clients /\ Kind(c) = "turn" /\ client[Client(c)].turn = NoProc
<1>1. Placed /\ Owned /\ Registered
  BY DEF IInv, PoolLinks, Streams
<1>2. Client(c) \in Clients /\ Kind(c) = "turn"
  BY <1>1 DEF Placed, Steps, Idle
<1> DEFINE d == client[Client(c)].turn
<1>3. ASSUME d # NoProc PROVE FALSE
  <2>1. d \in Calls
    BY <1>2, <1>3, ClientFacts DEF IInv, Typed
  <2>2. Client(d) = Client(c) /\ Kind(d) = "turn" /\ xcall[d].pc \in {"rpc", "run"}
    BY <1>1, <1>2, <1>3 DEF Registered
  <2> HIDE DEF d
  <2>3. Owner(c) /\ Owner(d)
    BY <1>2, <2>2 DEF Owner, Owning
  <2>4. d = c
    BY <1>1, <2>1, <2>2, <2>3 DEF Owned
  <2> QED
    BY <2>2, <2>4
<1> QED
  BY <1>2, <1>3

LEMMA BeginInv ==
  ASSUME IInv, NEW c \in Calls, xcall[c].pc \in {"start", "begin"}, Begin(c),
         UNCHANGED <<Rest, server, late, failing, reaping, xupsets>>
  PROVE  IInv'
<1> DEFINE p == Client(c)
           n == [client[p] EXCEPT !.turn = c]
<1>1. /\ Typed /\ Placed /\ Counted /\ PoolLinks /\ Streams /\ xupsets \in 0 .. MaxUpsets
  BY DEF IInv, PoolLinks, Typed, MapTyped
<1>2. p \in Clients /\ Kind(c) = "turn" /\ client[p].turn = NoProc
  BY NoStream
<1>3. ServerTyped' /\ FailTyped' /\ TurnsKept
  BY <1>1, SameTurns DEF Typed, ServerTyped, FailTyped
<1>4. CASE Writable(p)
  <2>1. client' = [client EXCEPT ![p] = n] /\ Writes(c, "rpc") /\ worker' = worker
    BY <1>4 DEF Begin
  <2>2. n \in ClientState /\ n.turn = c
    BY <1>1, <1>2, ClientFacts DEF ClientState, Typed
  <2> HIDE DEF n
  <2>3. ClientTyped' /\ client'[p] = n /\ \A q \in Clients \ {p} : client'[q] = client[q]
    <3> HIDE DEF p
    <3> QED
      BY <1>1, <1>2, <2>1, <2>2, ClientTo DEF Typed
  <2>4. Goes(c, "rpc", p)
    BY <1>1, <2>1, WritesGoes DEF Typed, Steps
  <2>5. May(c, xcall[c].pc, "rpc", p)
    BY <1>2 DEF May, Active, Steps, Idle, Making, Leasing, HeldSet, Owning
  <2>6. Counted' /\ PoolLinks'
    BY <1>1, <2>1, <2>4, <2>5, GoesMoves, PoolMoves DEF Pool, Rest, Steps
  <2>7. Typed'
    BY <1>1, <1>3, <2>1, <2>3, <2>4 DEF Typed, MapTyped, WorkTyped, Rest, Goes
  <2>8. /\ StillRuns(c) /\ xcall'[c].pc = "rpc" /\ xcall'[c].p = p
        /\ \A d \in Calls : xcall'[d].result = xcall[d].result
    BY <2>4 DEF StillRuns, Goes
  <2>9. client'[p].turn = c /\ \A q \in Clients : q # p => client'[q].turn = client[q].turn
    BY <2>2, <2>3
  <2>10. ClientTyped /\ xjob' = xjob /\ xcall[c].pc \in Begins
    BY <1>1 DEF Typed, Rest, Begins, Steps
  <2>11. Streams'
    BY <1>1, <1>2, <1>3, <2>8, <2>9, <2>10, StreamsBegin
  <2> QED
    BY <2>6, <2>7, <2>11 DEF IInv
<1>5. CASE ~Writable(p)
  <2>1. client' = client /\ GivesUp(c)
    BY <1>5 DEF Begin
  <2> QED
    BY <1>1, <1>3, <2>1, GivesUpOnly DEF Leasing
<1> QED
  BY <1>4, <1>5

LEMMA StartTurnInv ==
  ASSUME IInv, NEW c \in Calls, StartTurn(c) PROVE IInv'
<1> DEFINE p == Client(c)
<1>1. Typed /\ Placed /\ xupsets \in 0 .. MaxUpsets
  BY DEF IInv, PoolLinks, Typed, MapTyped
<1>2. p \in Clients /\ xcall[c].pc = "start"
  BY <1>1 DEF StartTurn, At, Placed, Steps, Idle
<1>3. UNCHANGED <<Rest, late, failing, reaping>>
  BY DEF StartTurn, Rest, rest
<1>4. FailTyped' /\ TurnsKept
  BY <1>1, <1>3, SameTurns DEF Typed, FailTyped
<1>5. CASE Begin(c) /\ UNCHANGED <<server, xupsets>>
  BY <1>2, <1>3, <1>5, BeginInv
<1>6. CASE GivesUp(c) /\ UNCHANGED <<client, server>> /\ xupsets' \in 0 .. MaxUpsets
  <2>1. ServerTyped'
    BY <1>1, <1>3, <1>6 DEF Typed, ServerTyped
  <2> QED
    BY <1>2, <1>3, <1>4, <1>6, <2>1, GivesUpOnly DEF Leasing
<1>7. CASE Ensured(p) /\ xupsets' = xupsets /\ Writes(c, "reload") /\ worker' = worker
  <2>1. ClientTyped' /\ ServerTyped' /\ \A q \in Clients : client'[q].turn = client[q].turn
    BY <1>1, <1>2, <1>3, <1>7, EnsuredTyped DEF Typed
  <2>2. Goes(c, "reload", p)
    BY <1>1, <1>7, WritesGoes DEF Typed, Steps
  <2>3. <<xcall[c].pc, "reload">> \in Path
    BY <1>2 DEF Path
  <2> QED
    BY <1>1, <1>3, <1>4, <1>7, <2>1, <2>2, <2>3, MayPath, MovesInv DEF Pool, Rest, Steps
<1>8. \/ Begin(c) /\ UNCHANGED <<server, xupsets>>
      \/ GivesUp(c) /\ UNCHANGED <<client, server>> /\ xupsets' = xupsets
      \/ GivesUp(c) /\ UNCHANGED <<client, server>> /\ Upset
      \/ Ensured(p) /\ xupsets' = xupsets /\ Writes(c, "reload") /\ worker' = worker
  BY DEF StartTurn, NotStarted, Ensured
<1> QED
  BY <1>1, <1>5, <1>6, <1>7, <1>8, UpsetTyped

LEMMA ReloadedInv ==
  ASSUME IInv, NEW c \in Calls, Reloaded(c) PROVE IInv'
<1> DEFINE p == Client(c)
           n == [client[p] EXCEPT !.thread = TRUE]
           k == [xcall[c] EXCEPT !.pc = "begin", !.sent = FALSE]
<1>1. Typed /\ Placed /\ xupsets \in 0 .. MaxUpsets
  BY DEF IInv, PoolLinks, Typed, MapTyped
<1>2. p \in Clients /\ xcall[c].pc = "reload" /\ Kind(c) = "turn"
  BY <1>1 DEF Reloaded, At, Placed, Steps, Idle
<1>3. UNCHANGED <<Rest, server, late, reaping, xupsets>> /\ ServerTyped'
  BY <1>1 DEF Reloaded, Rest, rest, servers, ServerTyped, Typed
<1>4. CASE /\ Answered(c, "ok") /\ xcall' = [xcall EXCEPT ![c].pc = "begin", ![c].sent = FALSE]
           /\ client' = [client EXCEPT ![p].thread = TRUE] /\ worker' = worker
  <2>1. FailTyped' /\ TurnsKept
    BY <1>1, <1>4, AnsweredTurns DEF Typed
  <2>2. n \in ClientState /\ n.turn = client[p].turn /\ client' = [client EXCEPT ![p] = n]
    BY <1>1, <1>2, <1>4, ClientFacts DEF ClientState, Typed
  <2> HIDE DEF n
  <2>3. ClientTyped' /\ \A q \in Clients : client'[q].turn = client[q].turn
    <3> HIDE DEF p
    <3>1. ClientTyped' /\ client'[p] = n /\ \A q \in Clients \ {p} : client'[q] = client[q]
      BY <1>1, <1>2, <2>2, ClientTo DEF Typed
    <3> QED
      BY <2>2, <3>1
  <2>4. Goes(c, "begin", p)
    <3>1. k \in CallState /\ k.pc = "begin" /\ k.p = p /\ k.result = xcall[c].result
      BY <1>1, CallFacts DEF CallState, Client, Typed, Steps
    <3>2. xcall' = [xcall EXCEPT ![c] = k]
      BY <1>4
    <3> HIDE DEF k
    <3> QED
      BY <1>1, <3>1, <3>2, GoesTo DEF Typed
  <2>5. <<xcall[c].pc, "begin">> \in Path
    BY <1>2 DEF Path
  <2> QED
    BY <1>1, <1>3, <1>4, <2>1, <2>3, <2>4, <2>5, MayPath, MovesInv DEF Pool, Rest, Steps
<1>5. CASE Answered(c, "err") /\ client' = client /\ GivesUp(c)
  <2>1. FailTyped' /\ TurnsKept
    BY <1>1, <1>5, AnsweredTurns DEF Typed
  <2> QED
    BY <1>1, <1>2, <1>3, <1>5, <2>1, GivesUpOnly DEF Leasing
<1> QED
  BY <1>4, <1>5 DEF Reloaded

LEMMA BeginReloadedInv ==
  ASSUME IInv, NEW c \in Calls, BeginReloaded(c) PROVE IInv'
BY BeginInv DEF BeginReloaded, At, Rest, rest, servers

LEMMA AskInv ==
  ASSUME IInv, NEW c \in Calls, Ask(c) PROVE IInv'
<1> DEFINE p == Client(c)
<1>1. Typed /\ Placed /\ xupsets \in 0 .. MaxUpsets
  BY DEF IInv, PoolLinks, Typed, MapTyped
<1>2. p \in Clients /\ xcall[c].pc = "mark" /\ Kind(c) # "turn"
  BY <1>1 DEF Ask, At, Placed, Steps, Idle
<1>3. UNCHANGED <<Rest, late, failing, reaping>>
  BY DEF Ask, Rest, rest
<1>4. FailTyped' /\ TurnsKept
  BY <1>1, <1>3, SameTurns DEF Typed, FailTyped
<1>5. CASE /\ Writes(c, "rpc") /\ worker' = worker /\ xupsets' = xupsets
           /\ Ensured(p) \/ UNCHANGED <<client, server>>
  <2>1. ClientTyped' /\ ServerTyped' /\ \A q \in Clients : client'[q].turn = client[q].turn
    BY <1>1, <1>2, <1>3, <1>5, EnsuredTyped DEF Typed
  <2>2. Goes(c, "rpc", p)
    BY <1>1, <1>5, WritesGoes DEF Typed, Steps
  <2>3. May(c, xcall[c].pc, "rpc", p) /\ MayRun(c, xcall[c].pc, "rpc")
    BY <1>2 DEF May, MayRun, Active, Steps, Idle, Making, Leasing, HeldSet, Owning, Begins
  <2> QED
    BY <1>1, <1>3, <1>4, <1>5, <2>1, <2>2, <2>3, MovesInv DEF Pool, Rest, Steps
<1>6. CASE GivesUp(c) /\ UNCHANGED <<client, server>> /\ xupsets' \in 0 .. MaxUpsets
  <2>1. ServerTyped'
    BY <1>1, <1>3, <1>6 DEF Typed, ServerTyped
  <2> QED
    BY <1>2, <1>3, <1>4, <1>6, <2>1, GivesUpOnly DEF Leasing
<1>7. \/ /\ Writes(c, "rpc") /\ worker' = worker /\ xupsets' = xupsets
         /\ Ensured(p) \/ UNCHANGED <<client, server>>
      \/ GivesUp(c) /\ UNCHANGED <<client, server>> /\ (xupsets' = xupsets \/ Upset)
  BY DEF Ask, NotStarted
<1> QED
  BY <1>1, <1>5, <1>6, <1>7, UpsetTyped

\* A call that has its worker to itself, or no stream: the stream of its client
\* is its own.
LEMMA OwnStream ==
  ASSUME IInv, NEW c \in Calls, Owner(c)
  PROVE  /\ Client(c) \in Clients
         /\ client[Client(c)].turn \in {c, NoProc}
         /\ \A q \in Clients : client[q].turn = c => q = Client(c)
<1>1. Placed /\ Owned /\ Registered /\ c # NoProc
  BY CodexAssumption DEF IInv, PoolLinks, Streams
<1>2. Client(c) \in Clients
  BY <1>1 DEF Owner, Owning, Placed, Steps, Idle
<1> DEFINE d == client[Client(c)].turn
<1>3. ASSUME d # NoProc PROVE d = c
  <2>1. d \in Calls
    BY <1>2, <1>3, ClientFacts DEF IInv, Typed
  <2>2. Client(d) = Client(c) /\ Kind(d) = "turn" /\ xcall[d].pc \in {"rpc", "run"}
    BY <1>1, <1>2, <1>3 DEF Registered
  <2> HIDE DEF d
  <2>3. Owner(d)
    BY <2>2 DEF Owner, Owning
  <2> QED
    BY <1>1, <2>1, <2>2, <2>3 DEF Owned
<1> QED
  BY <1>1, <1>2, <1>3 DEF Registered

LEMMA BegunInv ==
  ASSUME IInv, NEW c \in Calls, Begun(c) PROVE IInv'
<1> DEFINE p == Client(c)
           n == [client[p] EXCEPT !.turn = NoProc]
           pc == IF Kind(c) = "turn" THEN "run" ELSE "done"
<1>1. Typed /\ Placed /\ Streams /\ xupsets \in 0 .. MaxUpsets
  BY DEF IInv, PoolLinks, Typed, MapTyped
<1>2. p \in Clients /\ xcall[c].pc = "rpc"
  BY <1>1 DEF Begun, At, Placed, Steps, Idle
<1>3. UNCHANGED <<Rest, server, late, reaping, xupsets>> /\ ServerTyped'
  BY <1>1 DEF Begun, Rest, rest, servers, ServerTyped, Typed
<1>4. CASE Answered(c, "ok") /\ Returned(c, pc) /\ Released(p, worker[p].busy) /\ client' = client
  <2>1. FailTyped' /\ TurnsKept
    BY <1>1, <1>4, AnsweredTurns DEF Typed
  <2>2. worker[p].busy \in BOOLEAN
    BY <1>1, <1>2, WorkFacts DEF Typed
  <2>3. PICK w \in WorkerState : /\ worker' = [worker EXCEPT ![p] = w]
                                 /\ w.settled = worker[p].settled /\ w.busy = worker[p].busy
                                 /\ w.leases = worker[p].leases - 1
    BY <1>2, <1>4, <2>2, ReleasedState DEF Leasing
  <2>4. (Kind(c) = "turn" /\ pc = "run") \/ (Kind(c) # "turn" /\ pc = "done")
    OBVIOUS
  <2> HIDE DEF pc
  <2>5. pc \in Steps /\ Goes(c, pc, p)
    BY <1>1, <1>4, <2>4, ReturnedGoes DEF Typed, Steps
  <2>6. Kind(c) = "turn" => worker[p].busy /\ Owner(c)
    BY <1>2 DEF IInv, PoolLinks, Owned, Owner, Owning
  <2>7. Hands(c, xcall[c].pc, pc, p, w) /\ MayRun(c, xcall[c].pc, pc)
    BY <1>2, <2>3, <2>4, <2>6 DEF Hands, HeldSet, Leasing, Owning, Owner, MayRun, Begins, Running, Steps
  <2>8. ClientTyped' /\ \A q \in Clients : client'[q].turn = client[q].turn
    BY <1>1, <1>4 DEF Typed, ClientTyped
  <2> QED
    BY <1>1, <1>2, <1>3, <2>1, <2>3, <2>5, <2>7, <2>8, HandsOnly
<1>5. CASE /\ Answered(c, "err") /\ GivesUp(c)
           /\ client' = IF Kind(c) = "turn" THEN [client EXCEPT ![p].turn = NoProc] ELSE client
  <2>1. FailTyped' /\ TurnsKept
    BY <1>1, <1>5, AnsweredTurns DEF Typed
  <2>2. CASE Kind(c) = "turn"
    <3>1. n \in ClientState /\ n.turn = NoProc /\ client' = [client EXCEPT ![p] = n]
      BY <1>1, <1>2, <1>5, <2>2, ClientFacts DEF ClientState, Typed
    <3> HIDE DEF n
    <3>2. ClientTyped' /\ client'[p] = n /\ \A q \in Clients \ {p} : client'[q] = client[q]
      <4> HIDE DEF p
      <4> QED
        BY <1>1, <1>2, <3>1, ClientTo DEF Typed
    <3>3. /\ client[p].turn \in {c, NoProc}
          /\ \A q \in Clients : client[q].turn = c => q = p
      BY <1>2, <2>2, OwnStream DEF Owner, Owning
    <3>4. Goes(c, "refused", p)
      BY <1>1, <1>5, ReturnedGoes DEF GivesUp, Typed, Steps
    <3>5. /\ xcall'[c].pc = "refused" /\ StillRuns(c)
          /\ \A d \in Calls : xcall'[d].result = xcall[d].result
      BY <3>4 DEF StillRuns, Goes
    <3>6. \A q \in Clients :
            /\ \/ client'[q].turn = client[q].turn
               \/ client'[q].turn = NoProc /\ client[q].turn = c
            /\ client'[q].turn # c
      BY <3>1, <3>2, <3>3, CodexAssumption
    <3>7. Streams'
      <4>1. xjob' = xjob /\ ClientTyped
        BY <1>1, <1>3 DEF Rest, Typed
      <4>2. xcall'[c].pc \notin Running /\ xcall'[c].pc \notin Begins
        BY <3>5 DEF Running, Begins
      <4> QED
        BY <1>1, <2>1, <3>5, <3>6, <4>1, <4>2, StreamsOne
    <3> QED
      BY <1>1, <1>2, <1>3, <1>5, <2>1, <3>2, <3>7, GivesUpInv DEF Leasing
  <2>3. CASE Kind(c) # "turn"
    BY <1>1, <1>2, <1>3, <1>5, <2>1, <2>3, GivesUpOnly DEF Leasing
  <2> QED
    BY <2>2, <2>3
<1> QED
  BY <1>4, <1>5 DEF Begun

LEMMA FinishInv ==
  ASSUME IInv, NEW c \in Calls, Finish(c) PROVE IInv'
<1> DEFINE p == Client(c)
           mine == workers[SessionOf(c)] = p
           w == IF mine THEN [worker[p] EXCEPT !.busy = FALSE] ELSE worker[p]
<1>1. Typed /\ Placed /\ Streams /\ xupsets \in 0 .. MaxUpsets
  BY DEF IInv, PoolLinks, Typed, MapTyped
<1>2. p \in Clients /\ xcall[c].pc = "run" /\ Kind(c) = "turn" /\ xcall[c].result
  BY <1>1 DEF Finish, At, Placed, Steps, Idle
<1>3. UNCHANGED <<Rest, client, server, late, failing, reaping, xupsets>> /\ Goto(c, "done")
  BY DEF Finish, Rest, rest, servers
<1>4. w \in WorkerState /\ w.settled = worker[p].settled /\ w.leases = worker[p].leases
      /\ (w.busy => ~mine /\ worker[p].busy)
  BY <1>1, <1>2, WorkFacts DEF WorkerState, Typed
<1>5. worker' = [worker EXCEPT ![p] = w]
  <2>1. CASE mine
    BY <2>1 DEF Finish
  <2>2. CASE ~mine
    <3>1. worker' = worker
      BY <2>2 DEF Finish
    <3> HIDE DEF p
    <3> QED
      BY <1>1, <1>2, <2>2, <3>1 DEF WorkTyped, Typed
  <2> QED
    BY <2>1, <2>2
<1> HIDE DEF w
<1>6. Owner(c)
  BY <1>2 DEF Owner, Owning
<1>7. Hands(c, xcall[c].pc, "done", p, w)
  BY <1>2, <1>4, <1>6 DEF Hands, HeldSet, Leasing, Owning
<1>8. Goes(c, "done", p)
  BY <1>1, <1>3, GotoGoes DEF Typed, Steps
<1>9. \A q \in Clients : client[q].turn # c
  <2>1. client[p].turn # c
    BY <1>1, <1>2 DEF Streams, Finishing
  <2> QED
    BY <1>6, <2>1, OwnStream
<1>10. ClientTyped' /\ ServerTyped' /\ FailTyped' /\ TurnsKept
  BY <1>1, <1>3, SameClients
<1>11. Streams'
  <2>1. /\ xcall'[c].pc = "done" /\ StillRuns(c)
        /\ \A d \in Calls : xcall'[d].result = xcall[d].result
    BY <1>8 DEF StillRuns, Goes
  <2>2. xjob' = xjob /\ ClientTyped
    BY <1>1, <1>3 DEF Rest, Typed
  <2>3. xcall'[c].pc \notin Running /\ xcall'[c].pc \notin Begins
    BY <2>1 DEF Running, Begins
  <2>4. \A q \in Clients : client'[q].turn = client[q].turn /\ client'[q].turn # c
    BY <1>3, <1>9
  <2> QED
    BY <1>1, <1>10, <2>1, <2>2, <2>3, <2>4, StreamsOne
<1> QED
  BY <1>1, <1>2, <1>3, <1>4, <1>5, <1>7, <1>8, <1>10, <1>11, HandsInv DEF Steps

(***************************************************************************)
(* Workers taken out of the map, and room reserved for one to start.       *)
(***************************************************************************)
Takes(c, from, to, p) ==
  \/ from = "new" /\ Named(c) /\ to = "kill" /\ p = workers[SessionOf(c)] /\ p \in Clients
  \/ from = "reserve" /\ to = "evict" /\ p \in Clients /\ starting' = starting + 1
  \/ from = "reserve" /\ to = "make" /\ starting' = starting + 1

LEMMA PoolTakes ==
  ASSUME Typed, Counted, PoolLinks, NEW c, Others(c),
         UNCHANGED <<xjob, worker>>, xkilled \subseteq xkilled', Fewer,
         starting' \in {starting, starting + 1}, Cardinality(Live') + starting' <= MaxLive,
         \A s \in Sessions :
           \/ workers'[s] = workers[s] \/ workers[s] \in xkilled'
           \/ workers[s] \in Clients /\ ~HoldsWork(workers[s]),
         c \in Calls => Takes(c, xcall[c].pc, xcall'[c].pc, xcall'[c].p)
  PROVE  Counted' /\ PoolLinks'
<1> DEFINE from == xcall[c].pc
           to == xcall'[c].pc
           p == xcall'[c].p
<1>1. /\ Placed /\ Mapped /\ Creating /\ Settling /\ Leased /\ Owned /\ HeldInPlace /\ BusyHasOwner
      /\ MapTyped /\ WorkTyped /\ CallTyped
  BY DEF PoolLinks, Typed
<1>2. xjob' = xjob /\ worker' = worker /\ WorkTyped'
  BY <1>1 DEF WorkTyped
<1>3. c \in Calls =>
        /\ from \in {"new", "reserve"} /\ to \in {"kill", "evict", "make"}
        /\ from = "new" => Named(c)
        /\ to = "kill" => p = workers[SessionOf(c)]
        /\ to # "make" => p \in Clients
        /\ to # "kill" => starting' = starting + 1
  BY DEF Takes
<1> HIDE DEF from, to, p
<1>4. Placed'
  <2>1. c \in Calls => /\ to \in Steps \ Idle => p \in Clients
                       /\ to \notin {"start", "reload", "begin", "run"}
    BY <1>3 DEF Idle
  <2> QED
    BY <1>1, <1>2, <2>1, PlacedOne DEF to, p
<1>5. Mapped'
  <2>1. c \in Calls /\ to \in Active => p = workers[SessionOf(c)]
    BY <1>3 DEF Active, Idle
  <2> QED
    BY <1>1, <1>2, <2>1, MappedOne DEF to, p
<1>6. Creating'
  <2>1. c \in Calls =>
          /\ from = "new" /\ to # "new" => Named(c)
          /\ from # "new" => to # "new"
          /\ from = "done" => to = "done"
          /\ to \in Active => \E s \in Sessions : workers[s] = p
          /\ to \notin Making
    <3> SUFFICES ASSUME c \in Calls
                 PROVE  /\ from = "new" /\ to # "new" => Named(c)
                        /\ from # "new" => to # "new"
                        /\ from = "done" => to = "done"
                        /\ to \in Active => \E s \in Sessions : workers[s] = p
                        /\ to \notin Making
      OBVIOUS
    <3>1. SessionOf(c) \in Sessions
      BY <1>1, JobTyped
    <3>2. to \in Active => p = workers[SessionOf(c)]
      BY <1>3 DEF Active, Idle
    <3> QED
      BY <1>3, <3>1, <3>2 DEF Making
  <2> QED
    BY <1>1, <1>2, <2>1, CreatingOne DEF from, to, p
<1>7. Settling'
  <2>1. c \in Calls => to \notin Making /\ to \notin HeldSet \cup {"lease"}
    BY <1>3 DEF Making, HeldSet
  <2> QED
    BY <1>1, <1>2, <2>1, SettlingOne DEF to
<1>8. Leased'
  <2>1. \A q \in Clients : worker'[q].leases >= worker[q].leases
    BY <1>1, <1>2, WorkFacts
  <2>2. c \in Calls => to \notin Leasing
    BY <1>3 DEF Leasing
  <2> QED
    BY <1>1, <1>2, <2>1, <2>2, LeasedOne DEF to
<1>9. c \in Calls => ~Owner(c) /\ ~Owner(c)'
  BY <1>2, <1>3 DEF Owner, Owning, from, to
<1>10. Owned'
  <2>1. \A d \in Calls : Owner(d) => worker'[Client(d)].busy
    BY <1>1, <1>2 DEF Owned
  <2> QED
    BY <1>1, <1>2, <1>9, <2>1, OwnedOne
<1>11. HeldInPlace'
  <2>1. c \in Calls => to \notin HeldSet
    BY <1>3 DEF HeldSet
  <2>2. \A s \in Sessions :
          \/ workers'[s] = workers[s] \/ workers[s] \in xkilled'
          \/ \A d \in Calls : Client(d) = workers[s] => xcall[d].pc \notin HeldSet
    BY <1>1, HoldsHeld
  <2> QED
    BY <1>1, <1>2, <2>1, <2>2, HeldOne DEF to
<1>12. BusyHasOwner'
  <2>1. \A s \in Sessions : workers'[s] # NoProc => workers'[s] = workers[s]
    BY DEF Fewer
  <2> QED
    BY <1>1, <1>2, <1>9, <2>1, BusyOne
<1>13. Counted'
  <2>1. starting \in Nat /\ starting' \in Nat
    BY <1>1 DEF MapTyped
  <2>2. c \in Calls /\ starting' = starting => ~Reserved(c)'
    BY <1>2, <1>3, <2>1 DEF Reserved, Making, to
  <2>3. IsFiniteSet(Reserving') /\ Cardinality(Reserving') <= starting'
    BY <1>2, <2>1, <2>2, ReservingOne
  <2> QED
    BY <2>3, LiveFewer DEF Counted
<1> QED
  BY <1>4, <1>5, <1>6, <1>7, <1>8, <1>10, <1>11, <1>12, <1>13 DEF PoolLinks

\* A call takes a worker, or room for one.
LEMMA TakesInv ==
  ASSUME IInv, NEW c \in Calls, NEW pc \in {"kill", "evict", "make"}, NEW p, Goes(c, pc, p),
         UNCHANGED <<xjob, worker, client, server, late, failing, reaping>>,
         xkilled \subseteq xkilled', xkilled' \subseteq Clients, Fewer,
         starting' \in {starting, starting + 1}, Cardinality(Live') + starting' <= MaxLive,
         xupsets' \in 0 .. MaxUpsets,
         \A s \in Sessions :
           \/ workers'[s] = workers[s] \/ workers[s] \in xkilled'
           \/ workers[s] \in Clients /\ ~HoldsWork(workers[s]),
         workers' \in [Sessions -> Clients \cup {NoProc}],
         Takes(c, xcall[c].pc, pc, p)
  PROVE  IInv'
<1>1. Typed /\ Counted /\ PoolLinks /\ Streams /\ Placed
  BY DEF IInv, PoolLinks
<1>2. Others(c) /\ xcall'[c].pc = pc /\ xcall'[c].p = p
  BY GoesMoves DEF Moves
<1>3. Counted' /\ PoolLinks'
  BY <1>1, <1>2, PoolTakes
<1>4. ClientTyped' /\ ServerTyped' /\ FailTyped' /\ TurnsKept
      /\ \A q \in Clients : client'[q].turn = client[q].turn
  BY <1>1, SameClients
<1>5. Typed'
  <2>1. starting' \in Nat
    BY <1>1 DEF Typed, MapTyped
  <2> QED
    BY <1>1, <1>4, <2>1 DEF Typed, MapTyped, WorkTyped, Goes
<1>6. MayRun(c, xcall[c].pc, pc) /\ pc \notin Running
  BY DEF MayRun, Takes, Begins, Running, Steps
<1>7. Streams'
  BY <1>1, <1>4, <1>6, StreamsMoves
<1> QED
  BY <1>3, <1>5, <1>7 DEF IInv

LEMMA ReserveInv ==
  ASSUME IInv, NEW c \in Calls, Reserve(c) PROVE IInv'
<1>1. /\ Typed /\ Placed /\ Counted /\ xupsets \in 0 .. MaxUpsets /\ starting \in Nat
      /\ workers \in [Sessions -> Clients \cup {NoProc}] /\ xkilled \subseteq Clients
  BY DEF IInv, PoolLinks, Typed, MapTyped
<1>2. xcall[c].pc = "reserve"
  BY DEF Reserve, At
<1>3. UNCHANGED <<xjob, xkilled, worker, client, server, late, failing, reaping>>
  BY DEF Reserve, rest, servers
<1>4. CASE Room /\ starting' = starting + 1 /\ Goto(c, "make") /\ UNCHANGED <<workers, xupsets>>
  <2>1. Goes(c, "make", Client(c))
    BY <1>1, <1>4, GotoGoes DEF Typed, Steps
  <2>2. Fewer /\ Live' = Live /\ Takes(c, xcall[c].pc, "make", Client(c))
    BY <1>2, <1>4 DEF Fewer, Live, Takes
  <2>3. Cardinality(Live') + starting' <= MaxLive
    <3>1. Cardinality(Live) \in Nat /\ MaxLive \in Nat
      BY <1>1, CodexAssumption, FS_CardinalityType DEF Counted
    <3> QED
      BY <1>1, <1>4, <2>2, <3>1 DEF Room
  <2> QED
    BY <1>1, <1>3, <1>4, <2>1, <2>2, <2>3, TakesInv
<1>5. ASSUME NEW s \in Live, ~HoldsWork(workers[s]),
             workers' = [workers EXCEPT ![s] = NoProc], starting' = starting + 1,
             xcall' = [xcall EXCEPT ![c].pc = "evict", ![c].p = workers[s], ![c].closed = FALSE],
             Upset \/ xupsets' = xupsets
      PROVE  IInv'
  <2>1. s \in Sessions /\ workers[s] \in Clients
    BY <1>1 DEF Live
  <2> DEFINE k == [xcall[c] EXCEPT !.pc = "evict", !.p = workers[s], !.closed = FALSE]
  <2>2. k \in CallState /\ k.pc = "evict" /\ k.p = workers[s] /\ k.result = xcall[c].result
    BY <1>1, <2>1, CallFacts DEF CallState, Typed, Steps
  <2>3. xcall' = [xcall EXCEPT ![c] = k]
    BY <1>5
  <2> HIDE DEF k
  <2>4. Goes(c, "evict", workers[s])
    BY <1>1, <2>2, <2>3, GoesTo DEF Typed
  <2>5. /\ Fewer /\ workers'[s] = NoProc
        /\ \A t \in Sessions : workers'[t] = workers[t] \/ t = s
        /\ workers' \in [Sessions -> Clients \cup {NoProc}]
    BY <1>1, <1>5, <2>1 DEF Fewer
  <2>6. Cardinality(Live') + starting' <= MaxLive
    <3>1. Cardinality(Live') < Cardinality(Live)
          /\ Cardinality(Live) \in Nat /\ Cardinality(Live') \in Nat
      BY <1>1, <2>5, LiveFewer
    <3>2. Cardinality(Live) + starting <= MaxLive /\ MaxLive \in Nat
      BY <1>1, CodexAssumption DEF Counted
    <3> QED
      BY <1>1, <1>5, <3>1, <3>2
  <2>7. Takes(c, xcall[c].pc, "evict", workers[s])
    BY <1>2, <1>5, <2>1 DEF Takes
  <2>8. xupsets' \in 0 .. MaxUpsets
    BY <1>1, <1>5, UpsetTyped
  <2> QED
    BY <1>1, <1>3, <1>5, <2>1, <2>4, <2>5, <2>6, <2>7, <2>8, TakesInv
<1>6. CASE Goto(c, "refused") /\ UNCHANGED <<workers, starting, xupsets>>
  <2>1. <<xcall[c].pc, "refused">> \in Path
    BY <1>2 DEF Path
  <2> QED
    BY <1>1, <1>3, <1>6, <2>1, MayPath, GotoInv DEF Pool
<1> QED
  BY <1>4, <1>5, <1>6 DEF Reserve

LEMMA KillInv ==
  ASSUME IInv, NEW c \in Calls, Kill(c) PROVE IInv'
<1> DEFINE s == SessionOf(c)
           p == workers[s]
<1>1. /\ Typed /\ Placed /\ Counted /\ xupsets \in 0 .. MaxUpsets /\ starting \in Nat
      /\ workers \in [Sessions -> Clients \cup {NoProc}] /\ xkilled \subseteq Clients
      /\ s \in Sessions
  BY JobTyped DEF IInv, PoolLinks, Typed, MapTyped
<1>2. New(c) /\ xcall[c].pc = "new" /\ Named(c)
  BY DEF Kill, New, At
<1>3. UNCHANGED <<xjob, starting, worker, client, server, late, failing, reaping, xupsets>>
  BY DEF Kill, servers
<1>4. workers' = [workers EXCEPT ![s] = NoProc]
  BY DEF Kill
<1>5. CASE p = NoProc
  <2>1. Goto(c, "done") /\ xkilled' = xkilled
    BY <1>5 DEF Kill
  <2>2. workers' = workers
    <3> HIDE DEF s
    <3> QED
      BY <1>1, <1>4, <1>5
  <2> QED
    BY <1>1, <1>2, <1>3, <2>1, <2>2, MayEnter, GotoInv DEF Pool
<1>6. CASE p # NoProc
  <2>1. /\ xcall' = [xcall EXCEPT ![c].pc = "kill", ![c].p = p]
        /\ xkilled' = xkilled \cup {p}
    BY <1>6 DEF Kill
  <2>2. p \in Clients /\ p = workers[SessionOf(c)]
    BY <1>1, <1>6
  <2>3. /\ Fewer /\ workers'[s] = NoProc /\ s \in Live
        /\ \A t \in Sessions : workers'[t] = workers[t] \/ workers[t] = p
        /\ workers' \in [Sessions -> Clients \cup {NoProc}]
    BY <1>1, <1>4, <1>6 DEF Fewer, Live
  <2> HIDE DEF p, s
  <2>4. Goes(c, "kill", p)
    BY <1>1, <2>1, <2>2, TakesGoes DEF Typed, Steps
  <2>5. Cardinality(Live') + starting' <= MaxLive
    <3>1. Cardinality(Live') <= Cardinality(Live)
          /\ Cardinality(Live) \in Nat /\ Cardinality(Live') \in Nat
      BY <1>1, <2>3, LiveFewer
    <3>2. Cardinality(Live) + starting <= MaxLive /\ MaxLive \in Nat
      BY <1>1, CodexAssumption DEF Counted
    <3> QED
      BY <1>1, <1>3, <3>1, <3>2
  <2>6. Takes(c, xcall[c].pc, "kill", p)
    BY <1>2, <2>2 DEF Takes
  <2> QED
    BY <1>1, <1>3, <2>1, <2>2, <2>3, <2>4, <2>5, <2>6, TakesInv
<1> QED
  BY <1>5, <1>6

LEMMA ReapInv ==
  ASSUME IInv, NEW s \in Sessions, Reap(s) PROVE IInv'
<1>1. /\ Typed /\ Placed /\ Counted /\ PoolLinks /\ Streams /\ starting \in Nat
      /\ workers \in [Sessions -> Clients \cup {NoProc}] /\ reaping \subseteq Clients
  BY DEF IInv, PoolLinks, Typed, MapTyped
<1>2. workers[s] \in Clients /\ ~HoldsWork(workers[s])
  BY <1>1 DEF Reap
<1>3. /\ UNCHANGED <<xjob, xkilled, starting, worker, client, server, late, failing, xcall, xupsets>>
      /\ workers' = [workers EXCEPT ![s] = NoProc] /\ reaping' \subseteq Clients
  BY <1>1, <1>2 DEF Reap, servers
<1>4. /\ Fewer
      /\ \A t \in Sessions : workers'[t] = workers[t] \/ t = s
      /\ workers' \in [Sessions -> Clients \cup {NoProc}]
  BY <1>1, <1>3 DEF Fewer
<1>5. Cardinality(Live') + starting' <= MaxLive
  <2>1. Cardinality(Live') <= Cardinality(Live)
        /\ Cardinality(Live) \in Nat /\ Cardinality(Live') \in Nat
    BY <1>1, <1>4, LiveFewer
  <2>2. Cardinality(Live) + starting <= MaxLive /\ MaxLive \in Nat
    BY <1>1, CodexAssumption DEF Counted
  <2> QED
    BY <1>1, <1>3, <2>1, <2>2
<1> DEFINE c == CHOOSE x : x \notin Calls
<1>6. c \notin Calls
  BY NoSetContainsEverything
<1> HIDE DEF c
<1>7. Others(c)
  BY <1>3 DEF Others
<1>8. Counted' /\ PoolLinks'
  <2>1. \A t \in Sessions :
          \/ workers'[t] = workers[t] \/ workers[t] \in xkilled'
          \/ workers[t] \in Clients /\ ~HoldsWork(workers[t])
    BY <1>2, <1>4
  <2>2. starting' \in {starting, starting + 1} /\ xkilled \subseteq xkilled'
    BY <1>3
  <2> QED
    BY <1>1, <1>3, <1>4, <1>5, <1>6, <1>7, <2>1, <2>2, PoolTakes
<1>9. Typed'
  BY <1>1, <1>3, <1>4 DEF Typed, MapTyped, WorkTyped, ClientTyped, ServerTyped, FailTyped, CallTyped
<1>10. Streams'
  BY <1>1, <1>3, SameTurns, StreamsSame DEF Typed, Steady
<1> QED
  BY <1>8, <1>9, <1>10 DEF IInv

(***************************************************************************)
(* A worker made: its client is one that nobody refers to.                 *)
(***************************************************************************)
Fresh == [settled |-> FALSE, busy |-> FALSE, leases |-> 0]

LEMMA PoolMade ==
  ASSUME Typed, Counted, PoolLinks, NEW c \in Calls, NEW p \in Clients, Forgotten(p),
         xcall[c].pc = "make", Moves(c, "ensure", p), workers[SessionOf(c)] = NoProc,
         xjob' = xjob, worker' = [worker EXCEPT ![p] = Fresh], xkilled' = xkilled \ {p},
         IF Kind(c) = "create" THEN starting' = starting /\ workers' = workers
         ELSE /\ starting' = starting - 1
              /\ workers' = [workers EXCEPT ![SessionOf(c)] = p]
  PROVE  /\ WorkTyped' /\ Counted' /\ PoolLinks' /\ starting' \in Nat
         /\ workers' \in [Sessions -> Clients \cup {NoProc}]
<1> DEFINE s == SessionOf(c)
<1>1. /\ Placed /\ Mapped /\ Creating /\ Settling /\ Leased /\ Owned /\ HeldInPlace /\ BusyHasOwner
      /\ MapTyped /\ WorkTyped /\ CallTyped
  BY DEF PoolLinks, Typed
<1>2. /\ Others(c) /\ xcall'[c].pc = "ensure" /\ xcall'[c].p = p
  BY DEF Moves
<1>3. s \in Sessions /\ workers[s] = NoProc
  BY <1>1, JobTyped
<1>4. Fresh \in WorkerState /\ ~Fresh.settled /\ ~Fresh.busy /\ Fresh.leases = 0
  BY DEF Fresh, WorkerState
<1>5. WorkTyped' /\ worker'[p] = Fresh /\ \A q \in Clients \ {p} : worker'[q] = worker[q]
  BY <1>1, <1>4, WorkTo
<1>6. /\ \A t \in Sessions : workers[t] # p
      /\ \A d \in Calls : Client(d) = p => xcall[d].pc \notin Active /\ xcall[d].pc # "evict"
  BY DEF Forgotten, Active, Idle
<1>7. /\ \A t \in Sessions : t # s => workers'[t] = workers[t]
      /\ workers' \in [Sessions -> Clients \cup {NoProc}]
      /\ workers'[s] = IF Kind(c) = "create" THEN NoProc ELSE p
  <2> HIDE DEF s
  <2> QED
    BY <1>1, <1>3 DEF MapTyped, s
<1>8. ASSUME NEW d \in Calls, d # c
      PROVE  xcall'[d].pc = xcall[d].pc /\ xcall'[d].p = Client(d)
  BY <1>2, <1>8 DEF Others, Client
<1> HIDE DEF s
<1>9. Placed'
  BY <1>1, <1>2, PlacedOne
<1>10. Mapped'
  <2> SUFFICES ASSUME NEW t \in Live'
               PROVE  /\ \A u \in Live' : workers'[u] = workers'[t] => u = t
                      /\ \A d \in Calls : xcall'[d].pc \in Active /\ xcall'[d].p = workers'[t] =>
                           SessionOf(d) = t
    BY SameJob DEF Mapped, Client
  <2>1. t \in Sessions /\ workers'[t] # NoProc
    BY DEF Live
  <2>2. CASE t = s
    <3>1. workers'[t] = p
      BY <1>7, <2>1, <2>2
    <3>2. \A u \in Live' : workers'[u] = p => u = t
      BY <1>6, <1>7, <2>2 DEF Live
    <3>3. \A d \in Calls : xcall'[d].pc \in Active /\ xcall'[d].p = p => SessionOf(d) = t
      BY <1>6, <1>8, <2>2 DEF s
    <3> QED
      BY <3>1, <3>2, <3>3
  <2>3. CASE t # s
    <3>1. workers'[t] = workers[t] /\ t \in Live /\ workers[t] # p
      BY <1>6, <1>7, <2>1, <2>3 DEF Live
    <3>2. \A u \in Live' : workers'[u] = workers[t] => u = t
      <4> SUFFICES ASSUME NEW u \in Live', workers'[u] = workers[t] PROVE u = t
        OBVIOUS
      <4>1. u \in Sessions /\ workers'[u] # NoProc
        BY DEF Live
      <4>2. u # s
        BY <1>7, <3>1, <4>1
      <4>3. u \in Live /\ workers[u] = workers[t]
        BY <1>7, <4>1, <4>2 DEF Live
      <4> QED
        BY <1>1, <3>1, <4>3 DEF Mapped
    <3>3. \A d \in Calls : xcall'[d].pc \in Active /\ xcall'[d].p = workers[t] => SessionOf(d) = t
      BY <1>1, <1>2, <1>8, <3>1 DEF Mapped
    <3> QED
      BY <3>1, <3>2, <3>3
  <2> QED
    BY <2>2, <2>3
<1>11. Creating'
  <2> SUFFICES ASSUME NEW d \in Calls, Kind(d) = "create"
               PROVE  /\ xcall'[d].pc # "done" =>
                           /\ workers'[SessionOf(d)] = NoProc
                           /\ \A e \in Calls : e # d /\ SessionOf(e) = SessionOf(d) =>
                                xcall'[e].pc = "new"
                      /\ xcall'[d].pc \in Making =>
                           /\ \A t \in Sessions : workers'[t] # xcall'[d].p
                           /\ \A e \in Calls : e # d /\ xcall'[e].p = xcall'[d].p =>
                                xcall'[e].pc \notin Active
                           /\ ~worker'[xcall'[d].p].busy
    BY SameJob DEF Creating, At, Client
  <2>1. CASE d = c
    <3>1. workers' = workers /\ xcall[c].pc # "done"
      BY <2>1
    <3>2. \A e \in Calls : e # c /\ SessionOf(e) = s => xcall'[e].pc = "new"
      BY <1>1, <1>8, <2>1, <3>1 DEF Creating, At, s
    <3>3. \A e \in Calls : e # c /\ xcall'[e].p = p => xcall'[e].pc \notin Active
      BY <1>6, <1>8
    <3> QED
      BY <1>2, <1>3, <1>4, <1>5, <1>6, <2>1, <3>1, <3>2, <3>3 DEF s
  <2>2. CASE d # c
    <3>1. xcall'[d].pc = xcall[d].pc /\ xcall'[d].p = Client(d)
      BY <1>8, <2>2
    <3>2. ASSUME xcall[d].pc # "done"
          PROVE  /\ workers'[SessionOf(d)] = NoProc
                 /\ \A e \in Calls : e # d /\ SessionOf(e) = SessionOf(d) => xcall'[e].pc = "new"
      <4>1. /\ workers[SessionOf(d)] = NoProc
            /\ \A e \in Calls : e # d /\ SessionOf(e) = SessionOf(d) => xcall[e].pc = "new"
        BY <1>1, <3>2 DEF Creating, At
      <4>2. SessionOf(d) # SessionOf(c) /\ SessionOf(d) \in Sessions
        BY <1>1, <2>2, <4>1, JobTyped
      <4> QED
        BY <1>7, <1>8, <4>1, <4>2 DEF s
    <3>3. ASSUME xcall[d].pc \in Making
          PROVE  /\ \A t \in Sessions : workers'[t] # Client(d)
                 /\ \A e \in Calls : e # d /\ xcall'[e].p = Client(d) => xcall'[e].pc \notin Active
                 /\ ~worker'[Client(d)].busy
      <4>1. /\ \A t \in Sessions : workers[t] # Client(d)
            /\ \A e \in Calls : e # d /\ Client(e) = Client(d) => xcall[e].pc \notin Active
            /\ ~worker[Client(d)].busy
        BY <1>1, <3>3 DEF Creating
      <4>2. Client(d) \in Clients /\ Client(d) # p /\ Client(d) # NoProc
        BY <1>1, <1>6, <3>3, CodexAssumption DEF Placed, Making, Active, Steps, Idle
      <4> QED
        BY <1>2, <1>5, <1>7, <1>8, <4>1, <4>2
    <3> QED
      BY <3>1, <3>2, <3>3
  <2> QED
    BY <2>1, <2>2
<1>12. ASSUME NEW d \in Calls, d # c, xcall[d].pc \in Active
       PROVE  Client(d) \in Clients /\ Client(d) # p /\ worker'[Client(d)] = worker[Client(d)]
  BY <1>1, <1>5, <1>6, <1>12 DEF Placed, Active, Steps, Idle
<1>13. Settling'
  <2>1. ASSUME NEW d \in Calls, xcall'[d].pc \in Making PROVE ~worker'[xcall'[d].p].settled
    <3>1. CASE d = c
      BY <1>2, <1>4, <1>5, <3>1
    <3>2. CASE d # c
      BY <1>1, <1>8, <1>12, <2>1, <3>2 DEF Settling, Making, Active, Steps, Idle
    <3> QED
      BY <3>1, <3>2
  <2>2. ASSUME NEW d \in Calls, xcall'[d].pc \in HeldSet \cup {"lease"}
        PROVE  worker'[xcall'[d].p].settled
    <3>1. d # c
      BY <1>2, <2>2 DEF HeldSet
    <3>2. xcall[d].pc \in HeldSet \cup {"lease"} /\ xcall[d].pc \in Active
      BY <1>8, <2>2, <3>1 DEF HeldSet, Active, Steps, Idle
    <3> QED
      BY <1>1, <1>8, <1>12, <3>1, <3>2 DEF Settling
  <2>3. ASSUME NEW d \in Calls, NEW e \in Calls, xcall'[d].pc \in Making, xcall'[e].pc \in Making,
               xcall'[d].p = xcall'[e].p
        PROVE  d = e
    <3>1. d # c => xcall[d].pc \in Making /\ xcall'[d].p = Client(d) /\ Client(d) # p
      BY <1>6, <1>8, <2>3 DEF Making, Active, Steps, Idle
    <3>2. e # c => xcall[e].pc \in Making /\ xcall'[e].p = Client(e) /\ Client(e) # p
      BY <1>6, <1>8, <2>3 DEF Making, Active, Steps, Idle
    <3> QED
      BY <1>1, <1>2, <2>3, <3>1, <3>2 DEF Settling
  <2> QED
    BY <2>1, <2>2, <2>3 DEF Settling, Client
<1>14. Leased'
  <2> SUFFICES ASSUME NEW q \in Clients
               PROVE  IsFiniteSet(Holders(q)') /\ Cardinality(Holders(q)') <= worker'[q].leases
    BY DEF Leased
  <2>1. CASE q = p
    <3>1. \A d \in Calls : xcall'[d].p = p => xcall'[d].pc \notin Leasing
      BY <1>2, <1>6, <1>8 DEF Leasing, Active, Steps, Idle
    <3>2. Holders(q)' = {}
      BY <2>1, <3>1 DEF Holders, Client
    <3>3. worker'[q].leases = 0
      BY <1>4, <1>5, <2>1
    <3> QED
      BY <3>2, <3>3, FS_EmptySet
  <2>2. CASE q # p
    <3>1. Holders(q)' = Holders(q)
      <4>1. ASSUME NEW d \in Calls
            PROVE  (xcall'[d].p = q /\ xcall'[d].pc \in Leasing) <=>
                   (Client(d) = q /\ xcall[d].pc \in Leasing)
        <5>1. CASE d = c
          BY <1>2, <2>2, <5>1 DEF Leasing
        <5>2. CASE d # c
          BY <1>8, <5>2
        <5> QED
          BY <5>1, <5>2
      <4> QED
        BY <4>1 DEF Holders, Client
    <3> QED
      BY <1>1, <1>5, <2>2, <3>1 DEF Leased
  <2> QED
    BY <2>1, <2>2
<1>15. ~Owner(c) /\ ~Owner(c)'
  BY <1>2 DEF Owner, Owning
<1>16. ASSUME NEW d \in Calls, Owner(d)
       PROVE  Client(d) # p /\ worker'[Client(d)] = worker[Client(d)]
  <2>1. xcall[d].pc \in Active /\ d # c
    BY <1>15, <1>16 DEF Owner, Owning, Active, Steps, Idle
  <2> QED
    BY <1>12, <2>1
<1>17. Owned'
  BY <1>1, <1>2, <1>15, <1>16, OwnedOne DEF Owned
<1>18. HeldInPlace'
  <2> SUFFICES ASSUME NEW d \in Calls, Kind(d) \in {"turn", "goal", "live"},
                      xcall'[d].pc \in HeldSet
               PROVE  workers'[SessionOf(d)] = xcall'[d].p \/ xcall'[d].p \in xkilled'
    BY SameJob DEF HeldInPlace, HeldSet, Client
  <2>1. d # c
    BY <1>2 DEF HeldSet
  <2>2. xcall[d].pc \in HeldSet /\ xcall'[d].p = Client(d)
    BY <1>8, <2>1
  <2>3. Client(d) \in Clients /\ Client(d) # p /\ Client(d) # NoProc
    BY <1>12, <2>1, <2>2, CodexAssumption DEF HeldSet, Active, Steps, Idle
  <2>4. workers[SessionOf(d)] = Client(d) \/ Client(d) \in xkilled
    BY <1>1, <2>2 DEF HeldInPlace, HeldSet
  <2>5. SessionOf(d) \in Sessions
    BY <1>1, JobTyped
  <2> QED
    BY <1>3, <1>7, <2>2, <2>3, <2>4, <2>5
<1>19. BusyHasOwner'
  <2> SUFFICES ASSUME NEW t \in Sessions, workers'[t] # NoProc, worker'[workers'[t]].busy
               PROVE  \/ /\ workers'[t] = workers[t] /\ worker[workers[t]].busy
                         /\ c \in Calls /\ Owner(c) /\ Client(c) = workers[t] =>
                              Owner(c)' /\ xcall'[c].p = xcall[c].p
                      \/ c \in Calls /\ Owner(c)' /\ xcall'[c].p = workers'[t]
    BY <1>1, <1>2, BusyOne
  <2>1. workers'[t] # p
    BY <1>4, <1>5
  <2>2. t # s
    BY <1>7, <2>1
  <2>3. workers'[t] = workers[t] /\ workers[t] \in Clients
    BY <1>1, <1>7, <2>2 DEF MapTyped
  <2> QED
    BY <1>5, <1>15, <2>1, <2>3
<1>20. starting \in Nat /\ starting' \in Nat
  <2>1. starting \in Nat /\ Reserved(c)
    BY <1>1 DEF MapTyped, Reserved
  <2> QED
    BY <2>1, CanFinishStart
<1>21. Counted'
  <2>1. Reserved(c) /\ (Reserved(c)' <=> Kind(c) = "create")
    BY <1>2, SameJob DEF Reserved, Making
  <2>2. IsFiniteSet(Reserving') /\ Cardinality(Reserving') <= starting'
    BY <1>2, <1>20, <2>1, ReservingOne
  <2>3. IsFiniteSet(Live') /\ Cardinality(Live') + starting' <= MaxLive
    <3>1. CASE Kind(c) = "create"
      <4>1. Live' = Live
        BY <3>1 DEF Live
      <4> QED
        BY <3>1, <4>1 DEF Counted
    <3>2. CASE Kind(c) # "create"
      <4>1. /\ IsFiniteSet(Live') /\ Cardinality(Live) \in Nat /\ Cardinality(Live') \in Nat
            /\ Cardinality(Live') <= Cardinality(Live) + 1
        BY <1>7, LiveMore
      <4>2. Cardinality(Live) + starting <= MaxLive /\ MaxLive \in Nat
        BY CodexAssumption DEF Counted
      <4> QED
        BY <1>20, <3>2, <4>1, <4>2
    <3> QED
      BY <3>1, <3>2
  <2> QED
    BY <2>2, <2>3 DEF Counted
<1> QED
  BY <1>5, <1>7, <1>9, <1>10, <1>11, <1>13, <1>14, <1>17, <1>18, <1>19, <1>20, <1>21
     DEF PoolLinks

LEMMA MakeAgainInv ==
  ASSUME IInv, NEW c \in Calls, Make(c), workers[SessionOf(c)] # NoProc PROVE IInv'
<1>1. /\ Typed /\ Counted /\ PoolLinks /\ Streams /\ starting \in Nat /\ xupsets \in 0 .. MaxUpsets
      /\ Placed /\ Mapped /\ Creating /\ Settling /\ Leased /\ Owned /\ HeldInPlace /\ BusyHasOwner
      /\ MapTyped /\ WorkTyped
  BY DEF IInv, PoolLinks, Typed, MapTyped
<1>2. /\ xcall[c].pc = "make" /\ Goto(c, "again")
      /\ UNCHANGED <<xjob, workers, worker, xkilled, client, server, late, failing, reaping, xupsets>>
  BY DEF Make, At, servers
<1>3. Kind(c) # "create" /\ starting' = starting - 1
  BY <1>1, <1>2 DEF Make, Creating, At
<1>4. Goes(c, "again", Client(c)) /\ Moves(c, "again", Client(c))
  BY <1>1, <1>2, GotoGoes, GoesMoves DEF Typed, Steps
<1>5. Others(c) /\ xcall'[c].pc = "again" /\ xcall'[c].p = Client(c) /\ Fewer
  BY <1>2, <1>4 DEF Moves, Fewer
<1>6. ~Owner(c) /\ ~Owner(c)' /\ Reserved(c) /\ ~Reserved(c)'
  BY <1>2, <1>3, <1>5, SameJob DEF Owner, Owning, Reserved, Making
<1>7. Placed' /\ Mapped' /\ Creating' /\ Settling'
  <2>1. Placed'
    BY <1>1, <1>2, <1>5, PlacedOne DEF Idle
  <2>2. Mapped'
    BY <1>1, <1>2, <1>5, MappedOne DEF Active, Idle
  <2>3. Creating'
    BY <1>1, <1>2, <1>5, CreatingOne DEF Active, Idle, Making
  <2>4. Settling'
    BY <1>1, <1>2, <1>5, SettlingOne DEF Making, HeldSet
  <2> QED
    BY <2>1, <2>2, <2>3, <2>4
<1>8. Leased'
  <2>1. WorkTyped' /\ \A q \in Clients : worker'[q].leases >= worker[q].leases
    BY <1>1, <1>2, WorkFacts DEF WorkTyped
  <2> QED
    BY <1>1, <1>5, <2>1, LeasedOne DEF Leasing
<1>9. Owned' /\ HeldInPlace' /\ BusyHasOwner'
  <2>1. \A d \in Calls : Owner(d) => worker'[Client(d)].busy
    BY <1>1, <1>2 DEF Owned
  <2>2. Owned'
    BY <1>1, <1>2, <1>5, <1>6, <2>1, OwnedOne
  <2>3. HeldInPlace'
    BY <1>1, <1>2, <1>5, HeldOne DEF HeldSet
  <2>4. BusyHasOwner'
    BY <1>1, <1>2, <1>5, <1>6, BusyOne
  <2> QED
    BY <2>2, <2>3, <2>4
<1>10. starting' \in Nat
  BY <1>1, <1>3, <1>6, CanFinishStart
<1>11. Counted'
  <2>1. IsFiniteSet(Reserving') /\ Cardinality(Reserving') <= starting'
    BY <1>1, <1>2, <1>3, <1>5, <1>6, <1>10, ReservingOne
  <2>2. Live' = Live
    BY <1>2 DEF Live
  <2>3. IsFiniteSet(Live) /\ Cardinality(Live) \in Nat /\ Cardinality(Live) + starting <= MaxLive
        /\ MaxLive \in Nat
    BY <1>1, CodexAssumption, FS_CardinalityType DEF Counted
  <2> QED
    BY <1>1, <1>3, <2>1, <2>2, <2>3 DEF Counted
<1>12. ClientTyped' /\ ServerTyped' /\ FailTyped' /\ TurnsKept
       /\ \A q \in Clients : client'[q].turn = client[q].turn
  BY <1>1, <1>2, SameClients
<1>13. Typed'
  BY <1>1, <1>2, <1>4, <1>10, <1>12 DEF Typed, MapTyped, WorkTyped, Goes
<1>14. Streams'
  <2>1. MayRun(c, xcall[c].pc, "again")
    BY <1>2 DEF MayRun, Begins, Running, Steps
  <2> QED
    BY <1>1, <1>2, <1>4, <1>12, <2>1, StreamsMoves DEF Running
<1> QED
  BY <1>7, <1>8, <1>9, <1>11, <1>13, <1>14 DEF IInv, PoolLinks

LEMMA MakeNewInv ==
  ASSUME IInv, NEW c \in Calls, Make(c), workers[SessionOf(c)] = NoProc PROVE IInv'
<1>1. /\ Typed /\ Counted /\ PoolLinks /\ Streams /\ xupsets \in 0 .. MaxUpsets
      /\ Placed /\ xkilled \subseteq Clients /\ reaping \subseteq Clients
  BY DEF IInv, PoolLinks, Typed, MapTyped
<1>2. /\ xcall[c].pc = "make" /\ UNCHANGED <<xjob, server, late, failing, reaping, xupsets>>
      /\ starting' = IF Kind(c) = "create" THEN starting ELSE starting - 1
  BY DEF Make, At, servers
<1>3. PICK p \in Clients :
        /\ Forgotten(p)
        /\ workers' = IF Kind(c) = "create" THEN workers ELSE [workers EXCEPT ![SessionOf(c)] = p]
        /\ worker' = [worker EXCEPT ![p] = Fresh]
        /\ client' = [client EXCEPT ![p] = NewClient]
        /\ xcall' = [xcall EXCEPT ![c].pc = "ensure", ![c].p = p]
        /\ xkilled' = xkilled \ {p}
  BY Zenon DEF Make, Fresh
<1>4. Goes(c, "ensure", p) /\ Moves(c, "ensure", p)
  <2>1. xcall' = [xcall EXCEPT ![c].p = p, ![c].pc = "ensure"]
    BY <1>3
  <2> QED
    BY <1>1, <2>1, TakesGoes, GoesMoves DEF Typed, Steps
<1>5. /\ WorkTyped' /\ Counted' /\ PoolLinks' /\ starting' \in Nat
      /\ workers' \in [Sessions -> Clients \cup {NoProc}]
  BY <1>1, <1>2, <1>3, <1>4, PoolMade
<1>6. ClientTyped' /\ client'[p] = NewClient /\ \A q \in Clients \ {p} : client'[q] = client[q]
  BY <1>1, <1>3, NewClientTyped, ClientTo DEF Typed
<1>7. client[p].turn = NoProc
  <2> DEFINE d == client[p].turn
  <2>1. SUFFICES ASSUME d # NoProc PROVE FALSE
    OBVIOUS
  <2>2. d \in Calls /\ Client(d) = p /\ xcall[d].pc \in {"rpc", "run"}
    BY <1>1, <2>1, ClientFacts DEF Typed, Streams, Registered
  <2> HIDE DEF d
  <2> QED
    BY <1>3, <2>2 DEF Forgotten
<1>8. \A q \in Clients : client'[q].turn = client[q].turn
  BY <1>6, <1>7, NewClientTyped
<1>9. Typed'
  BY <1>1, <1>2, <1>3, <1>4, <1>5, <1>6 DEF Typed, MapTyped, ServerTyped, FailTyped, Goes
<1>10. Streams'
  <2>1. MayRun(c, xcall[c].pc, "ensure") /\ TurnsKept
    BY <1>2, SameTurns DEF MayRun, Begins, Running, Steps
  <2> QED
    BY <1>1, <1>2, <1>4, <1>8, <2>1, StreamsMoves DEF Running
<1> QED
  BY <1>5, <1>9, <1>10 DEF IInv

(***************************************************************************)
(* A resume that settles: the worker stays, leaves the map, or enters it   *)
(* as the one of a session created.                                        *)
(***************************************************************************)
Settles(c) ==
  LET p == Client(c) IN
  /\ worker' = [worker EXCEPT ![p].settled = TRUE]
  /\ starting' = IF Kind(c) = "create" THEN starting - 1 ELSE starting
  /\ UNCHANGED <<xjob, xkilled>>

\* What the settling of c leaves of its worker, and of the room it had.
LEMMA SettledWork ==
  ASSUME Typed, Counted, PoolLinks, NEW c \in Calls, xcall[c].pc \in {"resume", "unmake"},
         Settles(c)
  PROVE  /\ Client(c) \in Clients /\ WorkTyped' /\ worker'[Client(c)].settled
         /\ \A q \in Clients : /\ worker'[q].busy = worker[q].busy
                               /\ worker'[q].leases = worker[q].leases
                               /\ q # Client(c) => worker'[q] = worker[q]
         /\ starting \in Nat /\ starting' \in Nat
         /\ ~worker[Client(c)].settled /\ ~Owner(c)
         /\ Reserved(c) <=> Kind(c) = "create"
<1> DEFINE p == Client(c)
           w == [worker[p] EXCEPT !.settled = TRUE]
<1>1. /\ Placed /\ Settling /\ WorkTyped /\ MapTyped
  BY DEF PoolLinks, Typed
<1>2. p \in Clients /\ xcall[c].pc \in Making
  BY <1>1 DEF Placed, Steps, Idle, Making
<1>3. w \in WorkerState /\ w.settled /\ w.busy = worker[p].busy /\ w.leases = worker[p].leases
  BY <1>1, <1>2, WorkFacts DEF WorkerState
<1>4. worker' = [worker EXCEPT ![p] = w]
  BY DEF Settles
<1> HIDE DEF w
<1>5. WorkTyped' /\ worker'[p] = w /\ \A q \in Clients \ {p} : worker'[q] = worker[q]
  <2> HIDE DEF p
  <2> QED
    BY <1>1, <1>2, <1>3, <1>4, WorkTo
<1>6. Reserved(c) <=> Kind(c) = "create"
  BY DEF Reserved, Making
<1>7. starting \in Nat /\ starting' \in Nat
  BY <1>1, <1>6, CanFinishStart DEF Settles, MapTyped
<1>8. ~Owner(c) /\ ~worker[p].settled
  BY <1>1, <1>2 DEF Owner, Owning, Settling
<1> QED
  BY <1>2, <1>3, <1>5, <1>6, <1>7, <1>8

\* The map shrinks or stays.
LEMMA PoolSettles ==
  ASSUME Typed, Counted, PoolLinks, NEW c \in Calls, xcall[c].pc \in {"resume", "unmake"},
         Settles(c), NEW pc \in {"lease", "shut"}, Moves(c, pc, Client(c)), Fewer,
         \A s \in Sessions : workers'[s] = workers[s] \/ workers[s] = Client(c)
  PROVE  Counted' /\ PoolLinks'
<1> DEFINE p == Client(c)
<1>1. /\ Placed /\ Mapped /\ Creating /\ Settling /\ Leased /\ Owned /\ HeldInPlace /\ BusyHasOwner
      /\ MapTyped /\ WorkTyped /\ CallTyped
  BY DEF PoolLinks, Typed
<1>2. /\ p \in Clients /\ WorkTyped' /\ worker'[p].settled
      /\ \A q \in Clients : /\ worker'[q].busy = worker[q].busy
                            /\ worker'[q].leases = worker[q].leases
                            /\ q # p => worker'[q] = worker[q]
      /\ starting \in Nat /\ starting' \in Nat
      /\ ~worker[p].settled /\ ~Owner(c)
      /\ Reserved(c) <=> Kind(c) = "create"
  BY SettledWork
<1>3. /\ Others(c) /\ xcall'[c].pc = pc /\ xcall'[c].p = xcall[c].p /\ xcall[c].p = p
      /\ xjob' = xjob /\ xkilled' = xkilled
  BY DEF Moves, Settles, Client
<1>4. ~Owner(c)' /\ ~Reserved(c)'
  BY <1>3, SameJob DEF Owner, Owning, Reserved, Making
<1> HIDE DEF p
<1>5. Placed'
  BY <1>1, <1>2, <1>3, PlacedOne
<1>6. Mapped'
  BY <1>1, <1>3, MappedOne DEF Active, Idle, Steps
<1>7. Creating'
  <2>1. /\ xcall[c].pc # "new" /\ xcall[c].pc # "done" /\ pc # "new" /\ pc \notin Making
        /\ xcall[c].pc \in Active
    BY DEF Active, Idle, Steps, Making
  <2> QED
    BY <1>1, <1>2, <1>3, <2>1, CreatingOne
<1>8. Settling'
  <2>1. ASSUME NEW d \in Calls, xcall'[d].pc \in Making
        PROVE  /\ ~worker'[xcall'[d].p].settled
               /\ d # c /\ xcall[d].pc \in Making /\ xcall'[d].p = Client(d)
    <3>1. d # c
      BY <1>3, <2>1 DEF Making
    <3>2. xcall[d].pc \in Making /\ xcall'[d].p = Client(d)
      BY <1>3, <2>1, <3>1 DEF Others, Client
    <3>3. Client(d) # p /\ Client(d) \in Clients
      <4>1. xcall[c].pc \in Making
        BY DEF Making
      <4> QED
        BY <1>1, <3>1, <3>2, <4>1 DEF Settling, Placed, Making, Steps, Idle, p
    <3> QED
      BY <1>1, <1>2, <3>1, <3>2, <3>3 DEF Settling
  <2>2. ASSUME NEW d \in Calls, xcall'[d].pc \in HeldSet \cup {"lease"}
        PROVE  worker'[xcall'[d].p].settled
    <3>1. CASE d = c
      BY <1>2, <1>3, <3>1
    <3>2. CASE d # c
      <4>1. xcall[d].pc \in HeldSet \cup {"lease"} /\ xcall'[d].p = Client(d)
        BY <1>3, <2>2, <3>2 DEF Others, Client
      <4>2. worker[Client(d)].settled /\ Client(d) \in Clients
        BY <1>1, <4>1 DEF Settling, Placed, HeldSet, Steps, Idle
      <4> QED
        BY <1>2, <4>1, <4>2
    <3> QED
      BY <3>1, <3>2
  <2>3. \A d, e \in Calls :
          xcall'[d].pc \in Making /\ xcall'[e].pc \in Making /\ xcall'[d].p = xcall'[e].p => d = e
    BY <1>1, <2>1 DEF Settling
  <2> QED
    BY <2>1, <2>2, <2>3 DEF Settling, Client
<1>9. Leased'
  <2>1. \A q \in Clients : worker'[q].leases >= worker[q].leases
    BY <1>1, <1>2, WorkFacts
  <2> QED
    BY <1>1, <1>2, <1>3, <2>1, LeasedOne DEF Leasing
<1>10. Owned'
  <2>1. \A d \in Calls : Owner(d) => worker'[Client(d)].busy
    BY <1>1, <1>2 DEF Owned, Owner, Placed, Owning, Steps, Idle
  <2> QED
    BY <1>1, <1>3, <1>4, <2>1, OwnedOne
<1>11. HeldInPlace'
  <2>1. \A d \in Calls : Client(d) = p => xcall[d].pc \notin HeldSet
    BY <1>1, <1>2 DEF Settling
  <2> QED
    BY <1>1, <1>3, <2>1, HeldOne DEF HeldSet, p
<1>12. BusyHasOwner'
  <2>1. \A s \in Sessions : workers'[s] # NoProc => workers'[s] = workers[s] /\ workers[s] \in Clients
    BY <1>1 DEF Fewer, MapTyped
  <2> QED
    BY <1>1, <1>2, <1>3, <1>4, <2>1, BusyOne
<1>13. Counted'
  <2>1. IsFiniteSet(Reserving') /\ Cardinality(Reserving') <= starting'
    BY <1>2, <1>3, <1>4, ReservingOne DEF Settles
  <2>2. /\ IsFiniteSet(Live') /\ Cardinality(Live) \in Nat /\ Cardinality(Live') \in Nat
        /\ Cardinality(Live') <= Cardinality(Live)
    BY LiveFewer
  <2>3. starting' <= starting /\ Cardinality(Live) + starting <= MaxLive /\ MaxLive \in Nat
    BY <1>2, CodexAssumption DEF Counted, Settles
  <2> QED
    BY <1>2, <2>1, <2>2, <2>3 DEF Counted
<1> QED
  BY <1>5, <1>6, <1>7, <1>8, <1>9, <1>10, <1>11, <1>12, <1>13 DEF PoolLinks

\* A session created gets its worker.
LEMMA PoolCreated ==
  ASSUME Typed, Counted, PoolLinks, NEW c \in Calls, xcall[c].pc \in {"resume", "unmake"},
         Settles(c), Kind(c) = "create", Moves(c, "done", Client(c)),
         workers' = [workers EXCEPT ![SessionOf(c)] = Client(c)]
  PROVE  Counted' /\ PoolLinks'
<1> DEFINE p == Client(c)
           s == SessionOf(c)
<1>1. /\ Placed /\ Mapped /\ Creating /\ Settling /\ Leased /\ Owned /\ HeldInPlace /\ BusyHasOwner
      /\ MapTyped /\ WorkTyped /\ CallTyped
  BY DEF PoolLinks, Typed
<1>2. /\ p \in Clients /\ WorkTyped' /\ worker'[p].settled
      /\ \A q \in Clients : /\ worker'[q].busy = worker[q].busy
                            /\ worker'[q].leases = worker[q].leases
                            /\ q # p => worker'[q] = worker[q]
      /\ starting \in Nat /\ starting' \in Nat
      /\ ~worker[p].settled /\ ~Owner(c) /\ Reserved(c)
  BY SettledWork
<1>3. /\ Others(c) /\ xcall'[c].pc = "done" /\ xcall'[c].p = xcall[c].p /\ xcall[c].p = p
      /\ xjob' = xjob /\ xkilled' = xkilled /\ starting' = starting - 1
  BY DEF Moves, Settles, Client
<1>4. ~Owner(c)' /\ ~Reserved(c)'
  BY <1>3, SameJob DEF Owner, Owning, Reserved, Making
<1>5. /\ workers[s] = NoProc /\ \A t \in Sessions : workers[t] # p
      /\ \A d \in Calls : d # c /\ SessionOf(d) = s => xcall[d].pc = "new"
      /\ \A d \in Calls : d # c /\ Client(d) = p => xcall[d].pc \notin Active
      /\ ~worker[p].busy
  BY <1>1 DEF Creating, At, Making
<1>6. s \in Sessions
  BY <1>1, JobTyped
<1>7. workers'[s] = p /\ \A t \in Sessions : t # s => workers'[t] = workers[t]
  <2> HIDE DEF p, s
  <2> QED
    BY <1>1, <1>6 DEF MapTyped, p, s
<1>8. ASSUME NEW d \in Calls, d # c
      PROVE  xcall'[d].pc = xcall[d].pc /\ xcall'[d].p = Client(d)
  BY <1>3, <1>8 DEF Others, Client
<1>9. ASSUME NEW d \in Calls, xcall'[d].pc \in Active
      PROVE  /\ d # c /\ xcall[d].pc \in Active /\ xcall'[d].p = Client(d)
             /\ Client(d) # p /\ Client(d) \in Clients /\ SessionOf(d) # s
  <2>1. d # c
    BY <1>3, <1>9 DEF Active, Idle
  <2>2. xcall[d].pc \in Active /\ xcall'[d].p = Client(d)
    BY <1>8, <1>9, <2>1
  <2> QED
    BY <1>1, <1>5, <2>1, <2>2 DEF Active, Idle, Placed
<1> HIDE DEF p, s
<1>10. Placed'
  BY <1>1, <1>3, PlacedOne DEF Idle
<1>11. Mapped'
  <2> SUFFICES ASSUME NEW t \in Live'
               PROVE  /\ \A u \in Live' : workers'[u] = workers'[t] => u = t
                      /\ \A d \in Calls : xcall'[d].pc \in Active /\ xcall'[d].p = workers'[t] =>
                           SessionOf(d) = t
    BY <1>3, SameJob DEF Mapped, Client
  <2>1. t \in Sessions /\ workers'[t] # NoProc
    BY DEF Live
  <2>2. CASE t = s
    BY <1>5, <1>7, <1>9, <2>2 DEF Live
  <2>3. CASE t # s
    <3>1. workers'[t] = workers[t] /\ t \in Live /\ workers[t] # p
      BY <1>5, <1>7, <2>1, <2>3 DEF Live
    <3>2. \A u \in Live' : workers'[u] = workers[t] => u \in Live /\ workers[u] = workers[t]
      BY <1>7, <3>1 DEF Live
    <3> QED
      BY <1>1, <1>9, <3>1, <3>2 DEF Mapped
  <2> QED
    BY <2>2, <2>3
<1>12. Creating'
  <2> SUFFICES ASSUME NEW d \in Calls, Kind(d) = "create", d # c
               PROVE  /\ xcall'[d].pc # "done" =>
                           /\ workers'[SessionOf(d)] = NoProc
                           /\ \A e \in Calls : e # d /\ SessionOf(e) = SessionOf(d) =>
                                xcall'[e].pc = "new"
                      /\ xcall'[d].pc \in Making =>
                           /\ \A t \in Sessions : workers'[t] # xcall'[d].p
                           /\ \A e \in Calls : e # d /\ xcall'[e].p = xcall'[d].p =>
                                xcall'[e].pc \notin Active
                           /\ ~worker'[xcall'[d].p].busy
    BY <1>3, SameJob DEF Creating, At, Client, Making
  <2>1. xcall'[d].pc = xcall[d].pc /\ xcall'[d].p = Client(d)
    BY <1>8
  <2>2. ASSUME xcall[d].pc # "done"
        PROVE  /\ workers'[SessionOf(d)] = NoProc
               /\ \A e \in Calls : e # d /\ SessionOf(e) = SessionOf(d) => xcall'[e].pc = "new"
    <3>1. /\ workers[SessionOf(d)] = NoProc
          /\ \A e \in Calls : e # d /\ SessionOf(e) = SessionOf(d) => xcall[e].pc = "new"
      BY <1>1, <2>2 DEF Creating, At
    <3>2. SessionOf(d) # s /\ SessionOf(d) \in Sessions
      BY <1>1, <3>1, JobTyped DEF s
    <3> QED
      BY <1>7, <1>8, <3>1, <3>2 DEF s
  <2>3. ASSUME xcall[d].pc \in Making
        PROVE  /\ \A t \in Sessions : workers'[t] # Client(d)
               /\ \A e \in Calls : e # d /\ xcall'[e].p = Client(d) => xcall'[e].pc \notin Active
               /\ ~worker'[Client(d)].busy
    <3>1. /\ \A t \in Sessions : workers[t] # Client(d)
          /\ \A e \in Calls : e # d /\ Client(e) = Client(d) => xcall[e].pc \notin Active
          /\ ~worker[Client(d)].busy
      BY <1>1, <2>3 DEF Creating
    <3>2. xcall'[d].pc \in Active
      BY <2>1, <2>3 DEF Making, Active, Steps, Idle
    <3>3. Client(d) # p /\ Client(d) \in Clients
      BY <1>9, <3>2
    <3> QED
      BY <1>2, <1>7, <1>9, <3>1, <3>3
  <2> QED
    BY <2>1, <2>2, <2>3
<1>13. Settling'
  <2>1. ASSUME NEW d \in Calls, xcall'[d].pc \in Making
        PROVE  ~worker'[xcall'[d].p].settled /\ xcall[d].pc \in Making /\ xcall'[d].p = Client(d)
    <3>1. xcall'[d].pc \in Active
      BY <2>1 DEF Making, Active, Steps, Idle
    <3> QED
      BY <1>1, <1>2, <1>8, <1>9, <2>1, <3>1 DEF Settling
  <2>2. ASSUME NEW d \in Calls, xcall'[d].pc \in HeldSet \cup {"lease"}
        PROVE  worker'[xcall'[d].p].settled
    <3>1. xcall'[d].pc \in Active
      BY <2>2 DEF HeldSet, Active, Steps, Idle
    <3> QED
      BY <1>1, <1>2, <1>8, <1>9, <2>2, <3>1 DEF Settling
  <2>3. \A d, e \in Calls :
          xcall'[d].pc \in Making /\ xcall'[e].pc \in Making /\ xcall'[d].p = xcall'[e].p => d = e
    BY <1>1, <2>1 DEF Settling
  <2> QED
    BY <2>1, <2>2, <2>3 DEF Settling, Client
<1>14. Leased'
  <2>1. \A q \in Clients : worker'[q].leases >= worker[q].leases
    BY <1>1, <1>2, WorkFacts
  <2> QED
    BY <1>1, <1>2, <1>3, <2>1, LeasedOne DEF Leasing
<1>15. Owned'
  <2>1. \A d \in Calls : Owner(d) => worker'[Client(d)].busy
    BY <1>1, <1>2 DEF Owned, Owner, Placed, Owning, Steps, Idle
  <2> QED
    BY <1>1, <1>3, <1>4, <2>1, OwnedOne
<1>16. HeldInPlace'
  <2> SUFFICES ASSUME NEW d \in Calls, Kind(d) \in {"turn", "goal", "live"},
                      xcall'[d].pc \in HeldSet
               PROVE  workers'[SessionOf(d)] = xcall'[d].p \/ xcall'[d].p \in xkilled'
    BY <1>3, SameJob DEF HeldInPlace, HeldSet, Client
  <2>1. xcall'[d].pc \in Active
    BY DEF HeldSet, Active, Steps, Idle
  <2>2. d # c /\ xcall[d].pc \in HeldSet /\ xcall'[d].p = Client(d) /\ SessionOf(d) # s
    BY <1>8, <1>9, <2>1
  <2>3. workers[SessionOf(d)] = Client(d) \/ Client(d) \in xkilled
    BY <1>1, <2>2 DEF HeldInPlace, HeldSet
  <2>4. SessionOf(d) \in Sessions
    BY <1>1, JobTyped
  <2> QED
    BY <1>3, <1>7, <2>2, <2>3, <2>4
<1>17. BusyHasOwner'
  <2> SUFFICES ASSUME NEW t \in Sessions, workers'[t] # NoProc, worker'[workers'[t]].busy
               PROVE  \/ /\ workers'[t] = workers[t] /\ worker[workers[t]].busy
                         /\ c \in Calls /\ Owner(c) /\ Client(c) = workers[t] =>
                              Owner(c)' /\ xcall'[c].p = xcall[c].p
                      \/ c \in Calls /\ Owner(c)' /\ xcall'[c].p = workers'[t]
    BY <1>1, <1>3, BusyOne
  <2>1. t # s
    BY <1>2, <1>5, <1>7
  <2>2. workers'[t] = workers[t] /\ workers[t] \in Clients
    BY <1>1, <1>7, <2>1 DEF MapTyped
  <2> QED
    BY <1>2, <2>2
<1>18. Counted'
  <2>1. IsFiniteSet(Reserving') /\ Cardinality(Reserving') <= starting'
    BY <1>2, <1>3, <1>4, ReservingOne
  <2>2. /\ IsFiniteSet(Live') /\ Cardinality(Live) \in Nat /\ Cardinality(Live') \in Nat
        /\ Cardinality(Live') <= Cardinality(Live) + 1
    BY <1>7, LiveMore
  <2>3. Cardinality(Live) + starting <= MaxLive /\ MaxLive \in Nat
    BY CodexAssumption DEF Counted
  <2> QED
    BY <1>2, <1>3, <2>1, <2>2, <2>3 DEF Counted
<1> QED
  BY <1>10, <1>11, <1>12, <1>13, <1>14, <1>15, <1>16, <1>17, <1>18 DEF PoolLinks

LEMMA ResumedInv ==
  ASSUME IInv, NEW c \in Calls, Resumed(c) PROVE IInv'
<1> DEFINE s == SessionOf(c)
           p == Client(c)
           create == Kind(c) = "create"
           owned == workers[s] = p
<1>1. /\ Typed /\ Counted /\ PoolLinks /\ Streams /\ Placed /\ Creating /\ MapTyped
      /\ xupsets \in 0 .. MaxUpsets /\ s \in Sessions
  BY JobTyped DEF IInv, PoolLinks, Typed, MapTyped
<1>2. xcall[c].pc \in {"resume", "unmake"} /\ Settles(c)
      /\ UNCHANGED <<xjob, xkilled, server, late, reaping, xupsets>>
  BY DEF Resumed, Settles, rest, servers
<1>3. /\ p \in Clients /\ WorkTyped' /\ starting' \in Nat
  BY <1>1, <1>2, SettledWork
<1>4. PICK ok \in BOOLEAN :
        /\ IF At(c, "resume") THEN Answered(c, IF ok THEN "ok" ELSE "err")
           ELSE ok = FALSE /\ failing' = failing
        /\ client' = [client EXCEPT ![p].thread = @ \/ ok]
        /\ workers' = [workers EXCEPT ![s] = CASE create /\ ok -> p
                                               [] ~create /\ ~ok /\ owned -> NoProc
                                               [] OTHER -> @]
        /\ Returned(c, CASE create /\ ok -> "done"
                         [] ok /\ owned -> "lease"
                         [] OTHER -> "shut")
  BY Zenon DEF Resumed
<1>5. create => ~owned
  <2>1. create => xcall[c].pc \in Making
    BY <1>2 DEF Making
  <2> QED
    BY <1>1, <2>1 DEF Creating
<1>6. FailTyped' /\ TurnsKept
  <2>1. failing' = failing \/ \E answer : Answered(c, answer)
    BY <1>4
  <2> QED
    BY <1>1, <2>1, SameTurns, AnsweredTurns DEF Typed, FailTyped
<1>7. ClientTyped' /\ \A q \in Clients : client'[q].turn = client[q].turn
  <2> DEFINE thread == client[p].thread \/ ok
             n == [client[p] EXCEPT !.thread = thread]
  <2>1. thread \in BOOLEAN
    OBVIOUS
  <2>2. client' = [client EXCEPT ![p] = n]
    BY <1>4
  <2> HIDE DEF thread
  <2>3. n \in ClientState /\ n.turn = client[p].turn
    BY <1>1, <1>3, <2>1, ClientFacts DEF ClientState, Typed
  <2> HIDE DEF n, p
  <2>4. ClientTyped' /\ client'[p] = n /\ \A q \in Clients \ {p} : client'[q] = client[q]
    BY <1>1, <1>3, <2>2, <2>3, ClientTo DEF Typed
  <2> QED
    BY <2>3, <2>4
<1>8. \E pc \in {"done", "lease", "shut"} :
        /\ Goes(c, pc, p) /\ Counted' /\ PoolLinks'
        /\ workers' \in [Sessions -> Clients \cup {NoProc}]
  <2>1. CASE create /\ ok
    <3>1. Returned(c, "done") /\ workers' = [workers EXCEPT ![s] = p]
      <4> HIDE DEF p, s, owned, create
      <4> QED
        BY <1>4, <1>5, <2>1
    <3>2. Goes(c, "done", p)
      BY <1>1, <3>1, ReturnedGoes DEF Typed, Steps
    <3>3. Counted' /\ PoolLinks'
      BY <1>1, <1>2, <2>1, <3>1, <3>2, GoesMoves, PoolCreated
    <3>4. workers' \in [Sessions -> Clients \cup {NoProc}]
      <4> HIDE DEF p, s
      <4> QED
        BY <1>1, <1>3, <3>1 DEF MapTyped
    <3> QED
      BY <3>2, <3>3, <3>4
  <2>2. CASE ~(create /\ ok)
    <3>1. PICK pc \in {"lease", "shut"} : Returned(c, pc)
      <4>1. CASE ok /\ owned
        <5>1. Returned(c, "lease")
          <6> HIDE DEF p, s, owned, create
          <6> QED
            BY <1>4, <2>2, <4>1
        <5> QED
          BY <5>1
      <4>2. CASE ~(ok /\ owned)
        <5>1. Returned(c, "shut")
          <6> HIDE DEF p, s, owned, create
          <6> QED
            BY <1>4, <2>2, <4>2
        <5> QED
          BY <5>1
      <4> QED
        BY <4>1, <4>2
    <3>2. \/ workers' = workers
          \/ owned /\ workers' = [workers EXCEPT ![s] = NoProc]
      <4>1. CASE ~create /\ ~ok /\ owned
        <5> HIDE DEF p, s, owned, create
        <5> QED
          BY <1>4, <4>1
      <4>2. CASE ~(~create /\ ~ok /\ owned)
        <5>1. workers' = [workers EXCEPT ![s] = workers[s]]
          <6> HIDE DEF p, s, owned, create
          <6> QED
            BY <1>4, <2>2, <4>2
        <5> HIDE DEF p, s
        <5> QED
          BY <1>1, <5>1 DEF MapTyped
      <4> QED
        BY <4>1, <4>2
    <3>3. /\ Fewer /\ workers' \in [Sessions -> Clients \cup {NoProc}]
          /\ \A t \in Sessions : workers'[t] = workers[t] \/ workers[t] = p
      <4> HIDE DEF p, s
      <4> QED
        BY <1>1, <3>2 DEF Fewer, MapTyped
    <3>4. Goes(c, pc, p)
      BY <1>1, <3>1, ReturnedGoes DEF Typed, Steps
    <3>5. Counted' /\ PoolLinks'
      BY <1>1, <1>2, <3>3, <3>4, GoesMoves, PoolSettles
    <3> QED
      BY <3>3, <3>4, <3>5
  <2> QED
    BY <2>1, <2>2
<1>9. PICK pc \in {"done", "lease", "shut"} :
        /\ Goes(c, pc, p) /\ Counted' /\ PoolLinks'
        /\ workers' \in [Sessions -> Clients \cup {NoProc}]
  BY <1>8
<1>10. Typed'
  BY <1>1, <1>2, <1>3, <1>6, <1>7, <1>9 DEF Typed, MapTyped, ServerTyped, Goes
<1>11. Streams'
  <2>1. MayRun(c, xcall[c].pc, pc) /\ pc \notin Running
    BY <1>2 DEF MayRun, Begins, Running, Steps
  <2> QED
    BY <1>1, <1>2, <1>6, <1>7, <1>9, <2>1, StreamsMoves
<1> QED
  BY <1>9, <1>10, <1>11 DEF IInv

(***************************************************************************)
(* The invariant, and what it says.                                        *)
(***************************************************************************)
LEMMA InitIInv == Init => IInv
<1> SUFFICES ASSUME Init PROVE IInv
  OBVIOUS
<1>1. /\ \A c \in Calls : /\ xcall[c].pc = "new" /\ Client(c) = NoProc /\ ~xcall[c].result
                          /\ ~Reserved(c) /\ ~Owner(c)
      /\ \A s \in Sessions : workers[s] = NoProc
      /\ \A p \in Clients : /\ worker[p] = [settled |-> FALSE, busy |-> FALSE, leases |-> 0]
                            /\ client[p] = NewClient
      /\ starting = 0 /\ failing = {}
  BY DEF Init, Client, Reserved, Making, Owner, Owning
<1>2. Live = {} /\ Reserving = {} /\ \A p : Holders(p) = {}
  BY <1>1 DEF Live, Reserving, Holders, Leasing
<1>3. IsFiniteSet({}) /\ Cardinality({}) = 0
  BY FS_EmptySet
<1>4. Typed
  <2>1. MapTyped
    BY CodexAssumption DEF Init, MapTyped
  <2>2. WorkTyped
    BY DEF Init, WorkTyped, WorkerState
  <2>3. ClientTyped
    BY NewClientTyped DEF Init, ClientTyped
  <2>4. ServerTyped
    <3> DEFINE none == <<>>
    <3>1. none \in Seq(Frame)
      OBVIOUS
    <3>2. late = [p \in Clients |-> none] /\ server = [p \in Clients |-> Down]
      BY DEF Init
    <3> HIDE DEF none
    <3> QED
      BY <3>1, <3>2, DownTyped DEF ServerTyped
  <2>5. FailTyped
    BY DEF Init, FailTyped
  <2>6. CallTyped
    BY DEF Init, CallTyped, CallState, Steps
  <2> QED
    BY <2>1, <2>2, <2>3, <2>4, <2>5, <2>6 DEF Typed
<1>5. Counted
  BY <1>1, <1>2, <1>3, CodexAssumption DEF Counted
<1>6. PoolLinks
  <2>1. Placed /\ Mapped /\ HeldInPlace /\ BusyHasOwner
    BY <1>1, <1>2 DEF Placed, Mapped, Idle, HeldInPlace, BusyHasOwner
  <2>2. Creating /\ Settling /\ Owned
    <3>1. \A c \in Calls : SessionOf(c) \in Sessions
      BY <1>4, JobTyped DEF Typed
    <3>2. Creating
      BY <1>1, <3>1 DEF Creating, Making, At
    <3>3. Settling
      BY <1>1 DEF Settling, Making, HeldSet
    <3>4. Owned
      BY <1>1 DEF Owned
    <3> QED
      BY <3>2, <3>3, <3>4
  <2>3. Leased
    BY <1>1, <1>2, <1>3 DEF Leased
  <2> QED
    BY <2>1, <2>2, <2>3 DEF PoolLinks
<1>7. Streams
  <2>1. Registered
    BY <1>1, NewClientTyped DEF Registered
  <2>2. Unbegun /\ Finishing
    BY <1>1 DEF Unbegun, Finishing, Taken
  <2> QED
    BY <2>1, <2>2 DEF Streams
<1> QED
  BY <1>4, <1>5, <1>6, <1>7 DEF IInv

LEMMA CallInv ==
  ASSUME IInv, NEW c \in Calls, Call(c) PROVE IInv'
<1>1. CASE Find(c) \/ AwaitReady(c) \/ FindNone(c) \/ Reserve(c) \/ Make(c)
  BY <1>1, FindInv, AwaitReadyInv, FindNoneInv, ReserveInv, MakeAgainInv, MakeNewInv
<1>2. CASE StartClient(c) \/ Resumed(c) \/ Lease(c) \/ LeaseIfLive(c)
  BY <1>2, StartClientInv, ResumedInv, LeaseInv, LeaseIfLiveInv
<1>3. CASE Mark(c) \/ StartTurn(c) \/ Reloaded(c) \/ BeginReloaded(c) \/ Ask(c)
  BY <1>3, MarkInv, StartTurnInv, ReloadedInv, BeginReloadedInv, AskInv
<1>4. CASE Begun(c) \/ Finish(c) \/ Kill(c) \/ Interrupt(c) \/ Interrupted(c) \/ Forget(c)
  BY <1>4, BegunInv, FinishInv, KillInv, InterruptInv, InterruptedInv, ForgetInv
<1>5. CASE ShutClose(c) \/ ShutDone(c) \/ ShutTimeout(c)
  BY <1>5, ShutCloseInv, ShutDoneInv, ShutTimeoutInv
<1> QED
  BY <1>1, <1>2, <1>3, <1>4, <1>5 DEF Call

LEMMA IInvStep == IInv /\ [Next]_codexVars => IInv'
<1> SUFFICES ASSUME IInv, [Next]_codexVars PROVE IInv'
  OBVIOUS
<1>1. ASSUME NEW c \in Calls, Call(c) \/ Serve(c) \/ Expire(c) PROVE IInv'
  BY <1>1, CallInv, ServeInv, ExpireInv
<1>2. ASSUME NEW p \in Clients,
             \/ Complete(p) \/ Background(p) \/ Dispatch(p) \/ DispatchLate(p)
             \/ Exit(p) \/ Died(p) \/ ReapShut(p)
      PROVE  IInv'
  BY <1>2, CompleteInv, BackgroundInv, DispatchInv, DispatchLateInv, ExitInv, DiedInv, ReapShutInv
<1>3. CASE Tell
  BY <1>3, FailFinishInv, FailSendInv DEF Tell
<1>4. ASSUME NEW s \in Sessions, Reap(s) PROVE IInv'
  BY <1>4, ReapInv
<1>5. CASE UNCHANGED codexVars
  <2>1. UNCHANGED <<Pool, client, server, late, failing, reaping, xcall, xupsets>>
    BY <1>5 DEF codexVars, Pool
  <2>2. Typed /\ Streams /\ Placed
    BY DEF IInv, PoolLinks
  <2>3. Typed'
    BY <2>1, <2>2 DEF Typed, MapTyped, WorkTyped, ClientTyped, ServerTyped, FailTyped, CallTyped, Pool
  <2>4. Stays
    BY <2>1, <2>3 DEF Stays, Typed
  <2>5. Streams'
    BY <2>1, <2>2, <2>4, SameTurns, StaysSteady, StreamsSame DEF Typed, Pool
  <2> QED
    BY <2>1, <2>3, <2>4, <2>5, StillInv
<1> QED
  BY <1>1, <1>2, <1>3, <1>4, <1>5 DEF Next

\* The stream of a turn under way is in one place.
LEMMA StreamInOnePlace ==
  ASSUME Typed, Placed, Streams PROVE OneFinisher
<1> SUFFICES ASSUME NEW c \in Calls, xcall[c].pc \in {"rpc", "run"}, Kind(c) = "turn"
             PROVE  Cardinality({p \in Clients : client[p].turn = c})
                      + Cardinality({f \in failing : f.turn = c})
                      = IF xcall[c].result THEN 0 ELSE 1
  BY DEF OneFinisher
<1> DEFINE R == {p \in Clients : client[p].turn = c}
           F == {f \in failing : f.turn = c}
<1>1. /\ Single(c)
      /\ client[Client(c)].turn = c <=> ~Taken(c) /\ ~xcall[c].result
      /\ xcall[c].result => ~Taken(c)
  BY DEF Streams, Finishing
<1>2. Client(c) \in Clients /\ c # NoProc
  BY CodexAssumption DEF Placed, Steps, Idle
<1>3. \A p \in R : p = Client(c)
  BY <1>2 DEF Streams, Registered
<1>4. Cardinality({}) = 0 /\ \A x : Cardinality({x}) = 1
  BY FS_EmptySet, FS_Singleton
<1> SUFFICES Cardinality(R) + Cardinality(F) = IF xcall[c].result THEN 0 ELSE 1
  OBVIOUS
<1>5. CASE client[Client(c)].turn = c
  <2>1. R = {Client(c)} /\ F = {}
    BY <1>1, <1>2, <1>3, <1>5 DEF Taken
  <2>2. ~xcall[c].result
    BY <1>1, <1>5
  <2> HIDE DEF R, F
  <2>3. Cardinality(R) = 1 /\ Cardinality(F) = 0
    BY <1>4, <2>1
  <2> QED
    BY <2>2, <2>3
<1>6. CASE client[Client(c)].turn # c
  <2>1. R = {}
    BY <1>3, <1>6
  <2>2. CASE Taken(c)
    <3>1. PICK f \in failing : f.turn = c
      BY <2>2 DEF Taken
    <3>2. F = {f}
      BY <1>1, <3>1 DEF Single
    <3> HIDE DEF R, F
    <3> QED
      BY <1>1, <1>4, <2>1, <2>2, <3>2
  <2>3. CASE ~Taken(c)
    <3>1. F = {}
      BY <2>3 DEF Taken
    <3> HIDE DEF R, F
    <3> QED
      BY <1>1, <1>4, <1>6, <2>1, <2>3, <3>1
  <2> QED
    BY <2>2, <2>3
<1> QED
  BY <1>5, <1>6

LEMMA IInvImplies == IInv => InPlace
BY TypeOKTyped, StreamInOnePlace DEF IInv, Counted, PoolLinks, InPlace

\* For every pool, every mix of calls: the workers with those about to start never
\* exceed the bound, a worker that a call relies on is left in place by every
\* eviction, pause and crash, none stays busy for nobody, and the stream of a turn
\* under way has exactly one goroutine that will finish it
\* (pkg/codex/manager.go:81,228,485, pkg/codex/client.go:787).
THEOREM CodexInPlace == Spec => []InPlace
<1>1. Init => IInv
  BY InitIInv
<1>2. IInv /\ [Next]_codexVars => IInv'
  BY IInvStep
<1>3. IInv => InPlace
  BY IInvImplies
<1> QED
  BY <1>1, <1>2, <1>3, PTL DEF Spec

=============================================================================
