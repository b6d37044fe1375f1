--------------------------- MODULE PiRuntimeProofs ---------------------------
(***************************************************************************)
(* Proofs about PiRuntime, for every set of sessions, of calls and of      *)
(* processes, every size of the map and of the channels.                   *)
(***************************************************************************)
EXTENDS PiRuntime, FiniteSetTheorems, TLAPS

WorkerState == [busy : BOOLEAN, loop : BOOLEAN, leases : Nat, recv : Calls \cup {NoCall}]

ProcState ==
  [up : BOOLEAN, done : BOOLEAN, session : Sessions \cup {NoProc}, run : Owners \cup {NoCall},
   in : SUBSET Calls, out : Seq(Frame), events : Seq(Event), reading : BOOLEAN,
   pumped : BOOLEAN, waits : BOOLEAN]

PumpState == [on : BOOLEAN, event : Event, to : Calls \cup {NoCall}]

CallState ==
  [pc : {"new", "add", "begin", "rpc", "run", "grace", "finish", "clear", "detach", "stop",
         "done", "refused"},
   p : Procs \cup {NoProc}, box : {"none", "ok", "err", "handled"}, evts : Seq(Event),
   attached : BOOLEAN, ended : Owners \cup {NoCall}]

\* TypeOK but for the bound of the map, in parts.
MapTyped ==
  /\ pjob \in PiJobs /\ pi \in [Sessions -> Procs \cup {NoProc}]
  /\ piStop \subseteq Procs /\ pkilled \subseteq Procs /\ dialogs \subseteq Procs
  /\ pupsets \in 0 .. MaxUpsets

ProcTyped ==
  proc \in [Procs -> ProcState] /\ \A p \in Procs : Len(proc[p].events) <= Cap

CallTyped ==
  pcall \in [Calls -> CallState] /\ \A c \in Calls : Len(pcall[c].evts) <= Cap

PumpTyped ==
  pump \in [Procs -> PumpState] /\ \A p \in Procs : pump[p].on => pump[p].to \in Calls

WorkTyped == wk \in [Procs -> WorkerState]

Typed == MapTyped /\ ProcTyped /\ CallTyped /\ PumpTyped /\ WorkTyped

(***************************************************************************)
(* The strengthening.  A call is active from when it has a process until   *)
(* it is done; a worker is in the map for one session, that of the calls   *)
(* active on it, and a process that is not added yet is one call's only.   *)
(***************************************************************************)
Active == {"add", "begin", "rpc", "run", "grace", "finish", "clear", "detach", "stop"}
Working == {"rpc", "run", "grace", "finish", "clear"}

Placed ==
  /\ \A c \in Calls : pcall[c].pc \in Active => Proc(c) \in Procs
  /\ \A c \in Calls : pcall[c].pc \in {"run", "grace"} => Turns(c)
  /\ \A c \in Calls : pcall[c].pc \in {"finish", "clear"} => Turns(c) \/ Kind(c) = "operation"

Mapped ==
  \A s \in Live :
    /\ \A t \in Live : pi[t] = pi[s] => t = s
    /\ \A c \in Calls : pcall[c].pc \in Active /\ Proc(c) = pi[s] => SessionOf(c) = s

Adding ==
  \A c \in Calls : At(c, "add") =>
    /\ \A s \in Sessions : pi[s] # Proc(c)
    /\ \A d \in Calls : d # c /\ Proc(d) = Proc(c) => pcall[d].pc \notin Active

\* Nobody has marked a worker that is not added yet.
Unmarked == \A c \in Calls : At(c, "add") => ~wk[Proc(c)].busy

\* A lease is a call's that leases, begins or asks; an operation gives it back as
\* it asks.  A worker has one for each of them, or more.
HasLease(c) ==
  \/ At(c, "add") /\ Kind(c) # "resume"
  \/ At(c, "begin")
  \/ At(c, "rpc") /\ Kind(c) # "operation"

Holders(p) == {c \in Calls : Proc(c) = p /\ HasLease(c)}

Leased ==
  \A p \in Procs : IsFiniteSet(Holders(p)) /\ Cardinality(Holders(p)) <= wk[p].leases

\* The call that marked its worker busy, and is its only one; a turn also has
\* the worker's events.
Owner(c) == pcall[c].pc \in Working /\ (Turns(c) \/ Kind(c) = "operation")

Owned ==
  /\ \A c \in Calls : Owner(c) => wk[Proc(c)].busy
  /\ \A c, d \in Calls : Owner(c) /\ Owner(d) /\ Proc(c) = Proc(d) => c = d
  /\ \A c \in Calls : Owner(c) /\ Turns(c) => wk[Proc(c)].recv = c

Bounded == IsFiniteSet(Live) /\ Cardinality(Live) <= Max

Links ==
  Placed /\ Mapped /\ Adding /\ Unmarked /\ Leased /\ Owned /\ HeldInPlace /\ BusyHasOwner

IInv == Typed /\ Bounded /\ Links

(***************************************************************************)
(* What the types say.                                                     *)
(***************************************************************************)
LEMMA TypeOKTyped ==
  /\ Typed /\ Cardinality(Live) <= Max => TypeOK
BY DEF TypeOK, Typed, MapTyped, ProcTyped, CallTyped, PumpTyped, WorkTyped, WorkerState,
  ProcState, PumpState, CallState

LEMMA JobTyped ==
  ASSUME MapTyped, NEW c \in Calls
  PROVE  /\ SessionOf(c) \in Sessions
         /\ Kind(c) \in {"create", "send", "operation", "resume", "rename", "kill"}
BY PiAssumption DEF MapTyped, SessionOf, Kind

LEMMA ProcTo ==
  ASSUME ProcTyped, NEW p \in Procs, NEW q \in ProcState, Len(q.events) <= Cap,
         proc' = [proc EXCEPT ![p] = q]
  PROVE  ProcTyped'
BY DEF ProcTyped

LEMMA CallTo ==
  ASSUME CallTyped, NEW c \in Calls, NEW k \in CallState, Len(k.evts) <= Cap,
         pcall' = [pcall EXCEPT ![c] = k]
  PROVE  CallTyped' /\ pcall'[c] = k /\ \A d \in Calls : d # c => pcall'[d] = pcall[d]
BY DEF CallTyped

LEMMA WorkTo ==
  ASSUME WorkTyped, NEW p \in Procs, NEW w \in WorkerState, wk' = [wk EXCEPT ![p] = w]
  PROVE  WorkTyped' /\ wk'[p] = w /\ \A q \in Procs \ {p} : wk'[q] = wk[q]
BY DEF WorkTyped

\* A call only moves on.
LEMMA GotoTyped ==
  ASSUME CallTyped, NEW c \in Calls, NEW pc, Goto(c, pc),
         pc \in {"new", "add", "begin", "rpc", "run", "grace", "finish", "clear", "detach",
                 "stop", "done", "refused"}
  PROVE  /\ CallTyped' /\ pcall'[c].pc = pc /\ pcall'[c].p = pcall[c].p
         /\ \A d \in Calls : d # c => pcall'[d] = pcall[d]
<1> DEFINE k == [pcall[c] EXCEPT !.pc = pc]
<1>1. pcall[c] \in CallState /\ Len(pcall[c].evts) <= Cap
  BY DEF CallTyped
<1>2. k \in CallState /\ k.pc = pc /\ k.p = pcall[c].p /\ k.evts = pcall[c].evts
  BY <1>1 DEF CallState
<1>3. pcall' = [pcall EXCEPT ![c] = k]
  BY DEF Goto
<1> HIDE DEF k
<1> QED
  BY <1>1, <1>2, <1>3, CallTo

LEMMA UpsetTyped ==
  ASSUME pupsets \in 0 .. MaxUpsets, Upset PROVE pupsets' \in 0 .. MaxUpsets
BY PiAssumption DEF Upset

LEMMA StoppingTyped ==
  ASSUME piStop \subseteq Procs, NEW p \in Procs, Stopping(p) PROVE piStop' \subseteq Procs
BY DEF Stopping

\* An answer is a call's, an event an owner's.
LEMMA FrameFacts ==
  ASSUME NEW f \in Frame
  PROVE  /\ f \in Reply => f[1] \in {"ok", "err", "handled"} /\ f[2] \in Calls
         /\ f \notin Reply => f \in Event
BY DEF Frame, Reply

LEMMA EventFacts ==
  ASSUME NEW e \in Event
  PROVE  e[1] \in {"start", "settled", "dialog"} /\ e[2] \in Owners
BY DEF Event

LEMMA SeqFacts ==
  ASSUME NEW S, NEW q \in Seq(S)
  PROVE  /\ Len(q) \in Nat
         /\ q # <<>> => Head(q) \in S /\ Tail(q) \in Seq(S) /\ Len(Tail(q)) = Len(q) - 1
         /\ \A e \in S : Append(q, e) \in Seq(S) /\ Len(Append(q, e)) = Len(q) + 1
OBVIOUS

(***************************************************************************)
(* What a step of one call, c, does to the parts of the strengthening.     *)
(***************************************************************************)
Others(c) ==
  \A d \in Calls : d # c => pcall'[d].pc = pcall[d].pc /\ pcall'[d].p = pcall[d].p

\* The jobs stay.
LEMMA SameJob ==
  ASSUME pjob' = pjob
  PROVE  \A d : SessionOf(d)' = SessionOf(d) /\ Kind(d)' = Kind(d) /\ Turns(d)' = Turns(d)
BY DEF SessionOf, Kind, Turns

LEMMA PlacedOne ==
  ASSUME Placed, pjob' = pjob, NEW c, Others(c),
         c \in Calls =>
           /\ pcall'[c].pc \in Active => pcall'[c].p \in Procs
           /\ pcall'[c].pc \in {"run", "grace"} => Turns(c)
           /\ pcall'[c].pc \in {"finish", "clear"} => Turns(c) \/ Kind(c) = "operation"
  PROVE  Placed'
<1>1. ASSUME NEW d \in Calls
      PROVE  /\ pcall'[d].pc \in Active => pcall'[d].p \in Procs
             /\ pcall'[d].pc \in {"run", "grace"} => Turns(d)
             /\ pcall'[d].pc \in {"finish", "clear"} => Turns(d) \/ Kind(d) = "operation"
  <2>1. CASE d = c
    BY <2>1
  <2>2. CASE d # c
    BY <2>2 DEF Placed, Others, Proc
  <2> QED
    BY <2>1, <2>2
<1> QED
  BY <1>1, SameJob DEF Placed, Proc, Active

\* Workers only leave the map, and a call takes up the one of its session, or one
\* that is in no map.
Fewer == \A s \in Sessions : pi'[s] = pi[s] \/ pi'[s] = NoProc

LEMMA MappedOne ==
  ASSUME MapTyped, Mapped, pjob' = pjob, NEW c, Others(c), Fewer,
         c \in Calls /\ pcall'[c].pc \in Active =>
           \/ pcall[c].pc \in Active /\ pcall'[c].p = pcall[c].p
           \/ pcall'[c].p = pi[SessionOf(c)]
           \/ \A s \in Sessions : pi[s] # pcall'[c].p
  PROVE  Mapped'
<1>1. \A s \in Live' : s \in Live /\ pi'[s] = pi[s]
  BY DEF Live, Fewer
<1>2. ASSUME NEW s \in Live', NEW d \in Calls, pcall'[d].pc \in Active, pcall'[d].p = pi'[s]
      PROVE  SessionOf(d) = s
  <2>1. CASE pcall[d].pc \in Active /\ pcall'[d].p = pcall[d].p
    BY <1>1, <1>2, <2>1 DEF Mapped, Proc
  <2>2. CASE d = c /\ pcall'[c].p = pi[SessionOf(c)]
    <3>1. SessionOf(c) \in Sessions /\ pi[SessionOf(c)] = pi[s] /\ pi[s] # NoProc
      BY <1>1, <1>2, <2>2, JobTyped DEF Live
    <3>2. SessionOf(c) \in Live /\ s \in Live
      BY <1>1, <3>1 DEF Live
    <3> QED
      BY <2>2, <3>1, <3>2 DEF Mapped
  <2>3. CASE d = c /\ \A t \in Sessions : pi[t] # pcall'[c].p
    BY <1>1, <1>2, <2>3 DEF Live
  <2>4. d # c => pcall[d].pc \in Active /\ pcall'[d].p = pcall[d].p
    BY <1>2 DEF Others
  <2> QED
    BY <1>2, <2>1, <2>2, <2>3, <2>4
<1>3. \A s, t \in Live' : pi'[t] = pi'[s] => t = s
  BY <1>1 DEF Mapped
<1> QED
  BY <1>2, <1>3, SameJob DEF Mapped, Proc, Active

LEMMA AddingOne ==
  ASSUME MapTyped, Placed, Adding, pjob' = pjob, NEW c, Others(c), Fewer,
         c \in Calls /\ pcall'[c].pc \in Active =>
           \/ pcall[c].pc \in Active /\ pcall'[c].p = pcall[c].p
           \/ \E s \in Sessions : pi[s] = pcall'[c].p,
         c \in Calls /\ pcall'[c].pc = "add" => pcall[c].pc = "add" /\ pcall'[c].p = pcall[c].p
  PROVE  Adding'
<1> SUFFICES ASSUME NEW d \in Calls, pcall'[d].pc = "add"
             PROVE  /\ \A s \in Sessions : pi'[s] # pcall'[d].p
                    /\ \A e \in Calls : e # d /\ pcall'[e].p = pcall'[d].p =>
                         pcall'[e].pc \notin Active
  BY DEF Adding, At, Proc, Active
<1>1. pcall[d].pc = "add" /\ pcall'[d].p = pcall[d].p
  BY DEF Others
<1>2. pcall[d].p # NoProc /\ \A s \in Sessions : pi[s] # pcall[d].p
  BY <1>1, PiAssumption DEF Adding, Placed, At, Proc, Active
<1>3. ASSUME NEW e \in Calls, e # d, pcall'[e].p = pcall'[d].p, pcall'[e].pc \in Active
      PROVE  FALSE
  <2>1. CASE pcall[e].pc \in Active /\ pcall'[e].p = pcall[e].p
    BY <1>1, <1>3, <2>1 DEF Adding, At, Proc
  <2>2. CASE e = c /\ \E s \in Sessions : pi[s] = pcall'[c].p
    BY <1>1, <1>2, <1>3, <2>2
  <2>3. e # c => pcall[e].pc \in Active /\ pcall'[e].p = pcall[e].p
    BY <1>3 DEF Others
  <2> QED
    BY <1>3, <2>1, <2>2, <2>3
<1> QED
  BY <1>1, <1>2, <1>3 DEF Fewer

\* Only the calls of a worker mark it.
LEMMA UnmarkedOne ==
  ASSUME Placed, Adding, Unmarked, NEW c, Others(c), c \in Calls => pcall'[c].pc # "add",
         \A q \in Procs : wk'[q].busy =>
           wk[q].busy \/ (c \in Calls /\ pcall[c].pc \in Active /\ Proc(c) = q)
  PROVE  Unmarked'
<1> SUFFICES ASSUME NEW d \in Calls, pcall'[d].pc = "add", wk'[pcall'[d].p].busy
             PROVE  FALSE
  BY DEF Unmarked, At, Proc
<1>1. d # c /\ pcall[d].pc = "add" /\ pcall'[d].p = Proc(d) /\ Proc(d) \in Procs
  BY DEF Others, Placed, Active, Proc
<1>2. ~wk[Proc(d)].busy
  BY <1>1 DEF Unmarked, At
<1>3. c \in Calls /\ pcall[c].pc \in Active /\ Proc(c) = Proc(d)
  BY <1>1, <1>2
<1> QED
  BY <1>1, <1>3 DEF Adding, At

\* A lease is taken, or given back by the call that had it.
LEMMA LeasedOne ==
  ASSUME WorkTyped, WorkTyped', Leased, pjob' = pjob, NEW c, Others(c),
         \A q \in Procs :
           \/ /\ wk'[q].leases >= wk[q].leases
              /\ c \in Calls /\ HasLease(c)' /\ pcall'[c].p = q => HasLease(c) /\ Proc(c) = q
           \/ wk'[q].leases = wk[q].leases + 1
           \/ /\ wk'[q].leases = wk[q].leases - 1
              /\ c \in Calls /\ HasLease(c) /\ Proc(c) = q
              /\ ~(HasLease(c)' /\ pcall'[c].p = q)
  PROVE  Leased'
<1> SUFFICES ASSUME NEW q \in Procs
             PROVE  IsFiniteSet(Holders(q)') /\ Cardinality(Holders(q)') <= wk'[q].leases
  BY DEF Leased
<1> DEFINE H == Holders(q)
           N == Holders(q)'
<1>1. IsFiniteSet(H) /\ Cardinality(H) \in Nat /\ Cardinality(H) <= wk[q].leases
  BY FS_CardinalityType DEF Leased
<1>2. wk[q].leases \in Nat /\ wk'[q].leases \in Nat
  BY DEF WorkTyped, WorkerState
<1>3. ASSUME NEW d, d # c PROVE d \in N <=> d \in H
  BY <1>3, SameJob DEF Others, Holders, HasLease, At, Proc
<1>4. c \in N <=> c \in Calls /\ HasLease(c)' /\ pcall'[c].p = q
  BY DEF Holders, Proc
<1>5. c \in H <=> c \in Calls /\ HasLease(c) /\ Proc(c) = q
  BY DEF Holders
<1> HIDE DEF H, N
<1>6. CASE wk'[q].leases >= wk[q].leases /\ (c \in N => c \in H)
  <2>1. N \subseteq H
    BY <1>3, <1>6
  <2>2. IsFiniteSet(N) /\ Cardinality(N) <= Cardinality(H) /\ Cardinality(N) \in Nat
    BY <1>1, <2>1, FS_Subset, FS_CardinalityType
  <2> QED
    BY <1>1, <1>2, <1>6, <2>2 DEF N
<1>7. CASE wk'[q].leases = wk[q].leases + 1
  <2>1. N \subseteq H \cup {c}
    BY <1>3
  <2>2. IsFiniteSet(H \cup {c}) /\ Cardinality(H \cup {c}) <= Cardinality(H) + 1
        /\ Cardinality(H \cup {c}) \in Nat
    <3>1. /\ IsFiniteSet(H \cup {c})
          /\ Cardinality(H \cup {c}) = IF c \in H THEN Cardinality(H) ELSE Cardinality(H) + 1
      BY <1>1, FS_AddElement
    <3> QED
      BY <1>1, <3>1
  <2>3. IsFiniteSet(N) /\ Cardinality(N) <= Cardinality(H \cup {c}) /\ Cardinality(N) \in Nat
    BY <2>1, <2>2, FS_Subset, FS_CardinalityType
  <2> QED
    BY <1>1, <1>2, <1>7, <2>2, <2>3 DEF N
<1>8. CASE wk'[q].leases = wk[q].leases - 1 /\ c \in H /\ c \notin N
  <2>1. N = H \ {c}
    BY <1>3, <1>8
  <2>2. IsFiniteSet(N) /\ Cardinality(N) = Cardinality(H) - 1
    BY <1>1, <1>8, <2>1, FS_RemoveElement
  <2> QED
    BY <1>1, <1>2, <1>8, <2>2 DEF N
<1> QED
  BY <1>4, <1>5, <1>6, <1>7, <1>8

\* What a worker is held for.
HeldSet == {"begin", "rpc", "run", "grace", "finish", "clear"}

LEMMA HoldsHeld ==
  ASSUME WorkTyped, Placed, Leased, Owned, NEW p \in Procs, ~Holds(p),
         NEW d \in Calls, Proc(d) = p, pcall[d].pc \in HeldSet
  PROVE  FALSE
<1>1. ~wk[p].busy /\ wk[p].leases = 0
  BY DEF Holds, WorkTyped, WorkerState
<1>2. IsFiniteSet(Holders(p)) /\ Cardinality(Holders(p)) = 0
  BY <1>1, FS_CardinalityType DEF Leased
<1>3. ~HasLease(d)
  BY <1>2, FS_EmptySet DEF Holders
<1>4. pcall[d].pc \in {"run", "grace", "finish", "clear"} \/ (At(d, "rpc") /\ Kind(d) = "operation")
  BY <1>3 DEF HasLease, HeldSet, At
<1>5. Owner(d)
  BY <1>4 DEF Owner, Placed, Working, At
<1> QED
  BY <1>1, <1>5 DEF Owned

LEMMA HeldOne ==
  ASSUME MapTyped, HeldInPlace, pjob' = pjob, NEW c, Others(c), pkilled \subseteq pkilled',
         \A s \in Sessions :
           \/ pi'[s] = pi[s] \/ pi[s] \in pkilled'
           \/ \A d \in Calls : Proc(d) = pi[s] => pcall[d].pc \notin HeldSet,
         c \in Calls /\ pcall'[c].pc \in HeldSet =>
           \/ pcall[c].pc \in HeldSet /\ pcall'[c].p = pcall[c].p
           \/ pi'[SessionOf(c)] = pcall'[c].p
  PROVE  HeldInPlace'
<1> SUFFICES ASSUME NEW d \in Calls, pcall'[d].pc \in HeldSet
             PROVE  pi'[SessionOf(d)] = pcall'[d].p \/ pcall'[d].p \in pkilled'
  BY SameJob DEF HeldInPlace, HeldSet, Proc
<1>1. SessionOf(d) \in Sessions
  BY JobTyped
<1>2. CASE pcall[d].pc \in HeldSet /\ pcall'[d].p = pcall[d].p
  <2>1. pi[SessionOf(d)] = pcall[d].p \/ pcall[d].p \in pkilled
    BY <1>2 DEF HeldInPlace, HeldSet, Proc
  <2> QED
    BY <1>1, <1>2, <2>1 DEF Proc
<1>3. CASE d = c /\ pi'[SessionOf(c)] = pcall'[c].p
  BY <1>3
<1> QED
  BY <1>2, <1>3 DEF Others

\* A worker changes hands only when nobody owns it.
LEMMA OwnedOne ==
  ASSUME Owned, pjob' = pjob, NEW c, Others(c),
         \A d \in Calls : d # c /\ Owner(d) =>
           wk'[Proc(d)].busy /\ (Turns(d) => wk'[Proc(d)].recv = d),
         c \in Calls /\ Owner(c)' =>
           /\ wk'[pcall'[c].p].busy /\ (Turns(c) => wk'[pcall'[c].p].recv = c)
           /\ \/ Owner(c) /\ pcall'[c].p = pcall[c].p
              \/ \A d \in Calls : d # c /\ Owner(d) => Proc(d) # pcall'[c].p
  PROVE  Owned'
<1>1. ASSUME NEW d \in Calls, d # c
      PROVE  /\ Owner(d)' <=> Owner(d)
             /\ pcall'[d].p = Proc(d)
  BY <1>1, SameJob DEF Others, Owner, Proc
<1>2. \A d \in Calls : Owner(d)' =>
        wk'[pcall'[d].p].busy /\ (Turns(d) => wk'[pcall'[d].p].recv = d)
  BY <1>1
<1>3. \A d, e \in Calls : Owner(d)' /\ Owner(e)' /\ pcall'[d].p = pcall'[e].p => d = e
  <2> SUFFICES ASSUME NEW d \in Calls, NEW e \in Calls, Owner(d)', Owner(e)',
                      pcall'[d].p = pcall'[e].p, d # e
               PROVE  FALSE
    OBVIOUS
  <2>1. d # c /\ e # c => d = e
    BY <1>1 DEF Owned
  <2>2. ASSUME NEW x \in Calls, x # c, Owner(x)', c \in Calls, Owner(c)',
               pcall'[x].p = pcall'[c].p
        PROVE  FALSE
    BY <1>1, <2>2 DEF Owned, Proc
  <2> QED
    BY <2>1, <2>2
<1> QED
  BY <1>2, <1>3, SameJob DEF Owned, Proc

LEMMA BusyOne ==
  ASSUME BusyHasOwner, pjob' = pjob, NEW c, Others(c), Fewer,
         \A s \in Sessions : pi[s] # NoProc /\ pi'[s] = pi[s] /\ wk'[pi[s]].busy =>
           \/ wk[pi[s]].busy /\ (c \in Calls /\ Owner(c) /\ Proc(c) = pi[s] =>
                                   Owner(c)' /\ pcall'[c].p = pcall[c].p)
           \/ c \in Calls /\ Owner(c)' /\ pcall'[c].p = pi[s]
  PROVE  BusyHasOwner'
<1> SUFFICES ASSUME NEW s \in Live', wk'[pi'[s]].busy
             PROVE  \E d \in Calls : pcall'[d].p = pi'[s] /\ Owner(d)'
  BY DEF BusyHasOwner, Owner, Working, Proc
<1>1. s \in Live /\ s \in Sessions /\ pi'[s] = pi[s] /\ pi[s] # NoProc
  BY DEF Live, Fewer
<1>2. CASE c \in Calls /\ Owner(c)' /\ pcall'[c].p = pi[s]
  BY <1>1, <1>2
<1>3. CASE wk[pi[s]].busy /\ (c \in Calls /\ Owner(c) /\ Proc(c) = pi[s] =>
                                Owner(c)' /\ pcall'[c].p = pcall[c].p)
  <2>1. PICK d \in Calls : Proc(d) = pi[s] /\ Owner(d)
    BY <1>1, <1>3 DEF BusyHasOwner, Owner, Working
  <2>2. d # c => pcall'[d].p = pcall[d].p /\ Owner(d)'
    BY <2>1, SameJob DEF Others, Owner
  <2> QED
    BY <1>1, <1>3, <2>1, <2>2 DEF Proc
<1> QED
  BY <1>1, <1>2, <1>3

LEMMA BoundKept ==
  ASSUME Bounded, Fewer
  PROVE  Bounded'
<1>1. Live' \subseteq Live /\ IsFiniteSet(Live)
  BY DEF Live, Bounded, Fewer
<1>2. IsFiniteSet(Live') /\ Cardinality(Live') <= Cardinality(Live)
  BY <1>1, FS_Subset
<1>3. Cardinality(Live) \in Nat /\ Cardinality(Live') \in Nat
  BY <1>1, <1>2, FS_CardinalityType
<1> QED
  BY <1>2, <1>3, PiAssumption DEF Bounded

(***************************************************************************)
(* Steps that leave the workers' marks as they are.  A call that owns its  *)
(* worker may move on, and goes on owning it.                              *)
(***************************************************************************)
MovesOn(d) ==
  LET from == pcall[d].pc
      to == pcall'[d].pc IN
  \/ to = from
  \/ /\ (from \in {"run", "grace", "finish"}) \/ (from = "rpc" /\ Kind(d) = "operation")
     /\ (to \in {"finish", "clear"}) \/ (from = "run" /\ to = "grace")

LEMMA StillInv ==
  ASSUME IInv, Typed', pjob' = pjob, pi' = pi, pkilled' = pkilled,
         \A p \in Procs : /\ wk'[p].busy = wk[p].busy /\ wk'[p].leases = wk[p].leases
                          /\ wk'[p].recv = wk[p].recv,
         \A d \in Calls : pcall'[d].p = pcall[d].p /\ MovesOn(d)
  PROVE  IInv'
<1>1. /\ Placed /\ Mapped /\ Adding /\ Unmarked /\ Leased /\ Owned /\ HeldInPlace /\ BusyHasOwner
      /\ MapTyped
  BY DEF IInv, Links, Typed
<1>2. ASSUME NEW d \in Calls
      PROVE  /\ pcall'[d].pc \in Active <=> pcall[d].pc \in Active
             /\ pcall'[d].pc = "add" <=> pcall[d].pc = "add"
             /\ pcall'[d].pc \in HeldSet <=> pcall[d].pc \in HeldSet
             /\ HasLease(d)' <=> HasLease(d)
             /\ Owner(d)' <=> Owner(d)
             /\ pcall'[d].pc \in {"run", "grace"} => pcall[d].pc \in {"run", "grace"}
             /\ pcall'[d].pc \in {"finish", "clear"} => Turns(d) \/ Kind(d) = "operation"
  <2>1. MovesOn(d) /\ (pcall[d].pc \in {"run", "grace", "finish"} => Turns(d) \/ Kind(d) = "operation")
    BY <1>1 DEF Placed
  <2>2. pcall'[d].pc \in {"finish", "clear"} => Turns(d) \/ Kind(d) = "operation"
    BY <1>1, <2>1 DEF Placed, MovesOn
  <2>3. HasLease(d)' <=> HasLease(d)
    BY <2>1, SameJob DEF MovesOn, HasLease, At
  <2>4. Owner(d)' <=> Owner(d)
    BY <2>1, SameJob DEF MovesOn, Owner, Working
  <2>5. /\ pcall'[d].pc \in Active <=> pcall[d].pc \in Active
        /\ pcall'[d].pc = "add" <=> pcall[d].pc = "add"
        /\ pcall'[d].pc \in HeldSet <=> pcall[d].pc \in HeldSet
        /\ pcall'[d].pc \in {"run", "grace"} => pcall[d].pc \in {"run", "grace"}
    BY <2>1 DEF MovesOn, Active, HeldSet
  <2> QED
    BY <2>2, <2>3, <2>4, <2>5
<1>3. Placed'
  BY <1>1, <1>2, SameJob DEF Placed, Proc
<1>4. Mapped'
  BY <1>1, <1>2, SameJob DEF Mapped, Proc, Live
<1>5. Adding'
  BY <1>1, <1>2 DEF Adding, Proc, At
<1>6. Leased'
  <2>1. ASSUME NEW p \in Procs PROVE Holders(p)' = Holders(p)
    BY <1>2 DEF Holders, Proc
  <2> QED
    BY <1>1, <2>1 DEF Leased
<1>7. Owned'
  <2>1. \A d \in Calls : Owner(d) => Proc(d) \in Procs /\ pcall'[d].p = Proc(d)
    BY <1>1 DEF Placed, Owner, Working, Active, Proc
  <2> QED
    BY <1>1, <1>2, <2>1, SameJob DEF Owned, Proc
<1>8. HeldInPlace'
  BY <1>1, <1>2, SameJob DEF HeldInPlace, HeldSet, Proc
<1>9. BusyHasOwner'
  <2> SUFFICES ASSUME NEW s \in Live', wk'[pi'[s]].busy
               PROVE  \E d \in Calls : pcall'[d].p = pi'[s] /\ Owner(d)'
    BY DEF BusyHasOwner, Owner, Working, Proc
  <2>1. s \in Live /\ pi[s] \in Procs
    BY <1>1 DEF Live, MapTyped
  <2>2. PICK d \in Calls : Proc(d) = pi[s] /\ Owner(d)
    BY <1>1, <2>1 DEF BusyHasOwner, Owner, Working
  <2> QED
    BY <1>2, <2>2 DEF Proc
<1>10. Bounded'
  BY BoundKept DEF IInv, Fewer
<1>11. Unmarked'
  <2>1. \A d \in Calls : At(d, "add") => Proc(d) \in Procs
    BY <1>1 DEF Placed, At, Active
  <2> QED
    BY <1>1, <1>2, <2>1 DEF Unmarked, At, Proc
<1> QED
  BY <1>3, <1>4, <1>5, <1>6, <1>7, <1>8, <1>9, <1>10, <1>11 DEF IInv, Links

\* Steps of pi, of the reader and of the user touch no call's place.
LEMMA QuietInv ==
  ASSUME IInv, Typed', UNCHANGED <<pjob, pi, wk, pcall, pkilled>>
  PROVE  IInv'
BY StillInv DEF MovesOn

\* A process gets another state.
LEMMA ProcInv ==
  ASSUME IInv, NEW p \in Procs, NEW q \in ProcState, Len(q.events) <= Cap,
         proc' = [proc EXCEPT ![p] = q], UNCHANGED <<pjob, pi, wk, pump, piStop, pcall, pkilled>>,
         dialogs' \subseteq dialogs, pupsets' \in 0 .. MaxUpsets
  PROVE  IInv'
<1>1. ProcTyped' /\ MapTyped' /\ CallTyped' /\ PumpTyped' /\ WorkTyped'
  <2>1. Typed
    BY DEF IInv
  <2>2. ProcTyped'
    BY <2>1, ProcTo DEF Typed
  <2>3. MapTyped' /\ CallTyped' /\ PumpTyped' /\ WorkTyped'
    BY <2>1 DEF Typed, MapTyped, CallTyped, PumpTyped, WorkTyped
  <2> QED
    BY <2>2, <2>3
<1> QED
  BY <1>1, QuietInv DEF Typed

LEMMA ProcFacts ==
  ASSUME ProcTyped, NEW p \in Procs
  PROVE  /\ proc[p] \in ProcState /\ Len(proc[p].events) <= Cap
         /\ proc[p].run \in Owners \cup {NoCall} /\ proc[p].in \subseteq Calls
         /\ proc[p].out \in Seq(Frame) /\ proc[p].events \in Seq(Event)
<1>1. proc[p] \in ProcState /\ Len(proc[p].events) <= Cap
  BY DEF ProcTyped
<1> QED
  BY <1>1 DEF ProcState

LEMMA AnswerInv ==
  ASSUME IInv, NEW c \in Calls, Answer(c) PROVE IInv'
<1> DEFINE p == Proc(c)
           r == proc[p]
           ask == r.in \ {c}
           Says(kind) == Append(r.out, <<kind, c>>)
           began == Says("ok") \o <<<<"start", c>>>>
<1>1. Typed /\ pupsets \in 0 .. MaxUpsets /\ (Upset => pupsets' \in 0 .. MaxUpsets)
  BY UpsetTyped DEF IInv, Typed, MapTyped
<1>2. p \in Procs
  BY <1>1 DEF Typed, CallTyped, CallState, Answer, Proc
<1>3. r \in ProcState /\ Len(r.events) <= Cap /\ r.in \subseteq Calls /\ r.out \in Seq(Frame)
  BY <1>1, <1>2, ProcFacts DEF Typed
<1>4. /\ \A kind \in {"ok", "err", "handled"} : <<kind, c>> \in Frame
      /\ <<"start", c>> \in Frame
  BY DEF Frame, Reply, Event, Owners
<1>5. /\ Says("ok") \in Seq(Frame) /\ Says("handled") \in Seq(Frame) /\ Says("err") \in Seq(Frame)
      /\ began \in Seq(Frame)
  BY <1>3, <1>4, SeqFacts
<1>6. c \in Owners /\ ask \in SUBSET Calls
  BY <1>3 DEF Owners
<1>7. UNCHANGED <<pjob, pi, wk, pump, piStop, pcall, pkilled>> /\ dialogs' \subseteq dialogs
  BY DEF Answer
<1>8. pupsets' \in 0 .. MaxUpsets
  BY <1>1 DEF Answer
<1>9. \/ proc' = [proc EXCEPT ![p] = [r EXCEPT !.in = ask, !.run = c, !.out = began]]
      \/ \E kind \in {"ok", "err", "handled"} :
           proc' = [proc EXCEPT ![p] = [r EXCEPT !.in = ask, !.out = Says(kind)]]
  BY DEF Answer
<1> HIDE DEF p, r, ask, Says, began
<1>10. CASE proc' = [proc EXCEPT ![p] = [r EXCEPT !.in = ask, !.run = c, !.out = began]]
  <2> DEFINE q == [r EXCEPT !.in = ask, !.run = c, !.out = began]
  <2>1. q \in ProcState /\ Len(q.events) <= Cap
    BY <1>3, <1>5, <1>6 DEF ProcState
  <2> HIDE DEF q
  <2> QED
    BY <1>2, <1>7, <1>8, <1>10, <2>1, ProcInv DEF q
<1>11. ASSUME NEW kind \in {"ok", "err", "handled"},
              proc' = [proc EXCEPT ![p] = [r EXCEPT !.in = ask, !.out = Says(kind)]]
       PROVE  IInv'
  <2> DEFINE q == [r EXCEPT !.in = ask, !.out = Says(kind)]
  <2>1. q \in ProcState /\ Len(q.events) <= Cap
    BY <1>3, <1>5, <1>6 DEF ProcState
  <2> HIDE DEF q
  <2> QED
    BY <1>2, <1>7, <1>8, <1>11, <2>1, ProcInv DEF q
<1> QED
  BY <1>9, <1>10, <1>11

LEMMA GoesInv ==
  ASSUME IInv, NEW p \in Procs, NEW e \in {"dialog", "settled"}, Goes(p, e),
         pupsets' \in 0 .. MaxUpsets
  PROVE  IInv'
<1> DEFINE r == proc[p]
           out == Append(r.out, <<e, r.run>>)
           run == IF e = "settled" THEN NoCall ELSE r.run
           waits == e = "dialog"
           q == [r EXCEPT !.out = out, !.waits = waits, !.run = run]
<1>1. r \in ProcState /\ Len(r.events) <= Cap /\ r.run \in Owners /\ r.out \in Seq(Frame)
  BY ProcFacts DEF IInv, Typed, Goes
<1>2. <<e, r.run>> \in Frame
  BY <1>1 DEF Frame, Event
<1>3. out \in Seq(Frame) /\ run \in Owners \cup {NoCall} /\ waits \in BOOLEAN
  BY <1>1, <1>2, SeqFacts
<1>4. proc' = [proc EXCEPT ![p] = q]
  BY DEF Goes
<1>5. UNCHANGED <<pjob, pi, wk, pump, piStop, pcall, pkilled>> /\ dialogs' \subseteq dialogs
  BY DEF Goes
<1>6. q \in ProcState /\ q.events = r.events
  <2> HIDE DEF r, out, run, waits
  <2> QED
    BY <1>1, <1>3 DEF ProcState
<1> HIDE DEF q
<1> QED
  BY <1>1, <1>4, <1>5, <1>6, ProcInv

LEMMA AsksInv ==
  ASSUME IInv, NEW p \in Procs, Asks(p) \/ Settle(p) PROVE IInv'
<1>1. pupsets' \in 0 .. MaxUpsets
  BY UpsetTyped DEF IInv, Typed, MapTyped, Asks, Settle
<1>2. Goes(p, "dialog") \/ Goes(p, "settled")
  BY DEF Asks, Settle
<1> QED
  BY <1>1, <1>2, GoesInv

LEMMA ExtensionInv ==
  ASSUME IInv, NEW p \in Procs, ExtensionActs(p) PROVE IInv'
<1> DEFINE r == proc[p]
           out == Append(r.out, <<"start", Extension>>)
<1>1. r \in ProcState /\ Len(r.events) <= Cap /\ r.out \in Seq(Frame)
  BY ProcFacts DEF IInv, Typed
<1>2. pupsets' \in 0 .. MaxUpsets
  BY UpsetTyped DEF IInv, Typed, MapTyped, ExtensionActs
<1>3. UNCHANGED <<pjob, pi, wk, pump, piStop, pcall, pkilled>> /\ dialogs' \subseteq dialogs
  BY DEF ExtensionActs
<1>4. \/ proc' = [proc EXCEPT ![p] = [r EXCEPT !.run = Extension, !.out = out]]
      \/ \E s \in Sessions : proc' = [proc EXCEPT ![p] = [r EXCEPT !.session = s]]
  BY DEF ExtensionActs
<1>5. <<"start", Extension>> \in Frame /\ Extension \in Owners
  BY DEF Frame, Event, Owners
<1>6. out \in Seq(Frame)
  BY <1>1, <1>5, SeqFacts
<1> HIDE DEF r, out
<1>7. ASSUME proc' = [proc EXCEPT ![p] = [r EXCEPT !.run = Extension, !.out = out]]
      PROVE  IInv'
  <2> DEFINE q == [r EXCEPT !.run = Extension, !.out = out]
  <2>1. q \in ProcState /\ Len(q.events) <= Cap
    BY <1>1, <1>5, <1>6 DEF ProcState
  <2> HIDE DEF q
  <2> QED
    BY <1>2, <1>3, <1>7, <2>1, ProcInv DEF q
<1>8. ASSUME NEW s \in Sessions, proc' = [proc EXCEPT ![p] = [r EXCEPT !.session = s]]
      PROVE  IInv'
  <2> DEFINE q == [r EXCEPT !.session = s]
  <2>1. q \in ProcState /\ Len(q.events) <= Cap
    BY <1>1 DEF ProcState
  <2> HIDE DEF q
  <2> QED
    BY <1>2, <1>3, <1>8, <2>1, ProcInv DEF q
<1> QED
  BY <1>4, <1>7, <1>8

LEMMA ExitInv ==
  ASSUME IInv, NEW p \in Procs, Exit(p) PROVE IInv'
<1> DEFINE r == proc[p]
           q == [r EXCEPT !.up = FALSE, !.run = NoCall, !.in = {}, !.waits = FALSE]
<1>1. r \in ProcState /\ Len(r.events) <= Cap
  BY ProcFacts DEF IInv, Typed
<1>2. pupsets' \in 0 .. MaxUpsets
  BY UpsetTyped DEF IInv, Typed, MapTyped, Exit
<1>3. UNCHANGED <<pjob, pi, wk, pump, piStop, pcall, pkilled>> /\ dialogs' \subseteq dialogs
  BY DEF Exit
<1>4. proc' = [proc EXCEPT ![p] = q]
  BY DEF Exit
<1>5. q \in ProcState /\ Len(q.events) <= Cap
  <2> HIDE DEF r
  <2> QED
    BY <1>1 DEF ProcState
<1> HIDE DEF q
<1> QED
  BY <1>2, <1>3, <1>4, <1>5, ProcInv

LEMMA RespondInv ==
  ASSUME IInv, NEW p \in Procs, Respond(p) PROVE IInv'
<1> DEFINE r == proc[p]
           q == [r EXCEPT !.waits = FALSE]
<1>1. r \in ProcState /\ Len(r.events) <= Cap
  BY ProcFacts DEF IInv, Typed
<1>2. /\ pupsets' \in 0 .. MaxUpsets /\ proc' = [proc EXCEPT ![p] = q]
      /\ UNCHANGED <<pjob, pi, wk, pump, piStop, pcall, pkilled>> /\ dialogs' \subseteq dialogs
  BY DEF Respond, IInv, Typed, MapTyped
<1>3. q \in ProcState /\ Len(q.events) <= Cap
  <2> HIDE DEF r
  <2> QED
    BY <1>1 DEF ProcState
<1> HIDE DEF q
<1> QED
  BY <1>2, <1>3, ProcInv

\* A call moves on.
LEMMA MovesInv ==
  ASSUME IInv, CallTyped', UNCHANGED <<pjob, pi, wk, proc, pump, piStop, dialogs, pkilled>>,
         pupsets' \in 0 .. MaxUpsets,
         \A d \in Calls : pcall'[d].p = pcall[d].p /\ MovesOn(d)
  PROVE  IInv'
<1>1. Typed'
  BY DEF IInv, Typed, MapTyped, ProcTyped, PumpTyped, WorkTyped
<1> QED
  BY <1>1, StillInv

LEMMA CallMovesInv ==
  ASSUME IInv, NEW c \in Calls, NEW k \in CallState, Len(k.evts) <= Cap,
         pcall' = [pcall EXCEPT ![c] = k], k.p = pcall[c].p,
         UNCHANGED <<pjob, pi, wk, proc, pump, piStop, dialogs, pkilled>>,
         pupsets' \in 0 .. MaxUpsets, MovesOn(c)
  PROVE  IInv'
<1>1. CallTyped' /\ pcall'[c] = k /\ \A d \in Calls : d # c => pcall'[d] = pcall[d]
  BY CallTo DEF IInv, Typed
<1>2. \A d \in Calls : pcall'[d].p = pcall[d].p /\ MovesOn(d)
  BY <1>1 DEF MovesOn
<1> QED
  BY <1>1, <1>2, MovesInv

LEMMA CallFacts ==
  ASSUME CallTyped, NEW c \in Calls
  PROVE  /\ pcall[c] \in CallState /\ Len(pcall[c].evts) <= Cap
         /\ pcall[c].evts \in Seq(Event) /\ Proc(c) \in Procs \cup {NoProc}
<1>1. pcall[c] \in CallState /\ Len(pcall[c].evts) <= Cap
  BY DEF CallTyped
<1> QED
  BY <1>1 DEF CallState, Proc

\* The step of a call that only goes to its next place.
LEMMA GotoInv ==
  ASSUME IInv, NEW c \in Calls, NEW pc \in {"finish", "clear"}, Goto(c, pc),
         UNCHANGED <<pjob, pi, wk, proc, pump, piStop, dialogs, pupsets, pkilled>>,
         \/ pcall[c].pc \in {"run", "grace", "finish"}
         \/ pcall[c].pc = "rpc" /\ Kind(c) = "operation"
  PROVE  IInv'
<1>1. /\ CallTyped' /\ pcall'[c].pc = pc /\ pcall'[c].p = pcall[c].p
      /\ \A d \in Calls : d # c => pcall'[d] = pcall[d]
  BY GotoTyped DEF IInv, Typed
<1>2. \A d \in Calls : pcall'[d].p = pcall[d].p /\ MovesOn(d)
  BY <1>1 DEF MovesOn
<1> QED
  BY <1>1, <1>2, MovesInv DEF IInv, Typed, MapTyped

LEMMA AnsweredOperationInv ==
  ASSUME IInv, NEW c \in Calls, AnsweredOperation(c) PROVE IInv'
<1>1. \E pc \in {"finish", "clear"} : Goto(c, pc)
  BY DEF AnsweredOperation
<1> QED
  BY <1>1, GotoInv DEF AnsweredOperation, At

LEMMA GraceInv ==
  ASSUME IInv, NEW c \in Calls, Grace(c) PROVE IInv'
BY GotoInv DEF Grace, At

LEMMA HearInv ==
  ASSUME IInv, NEW c \in Calls, Hear(c) PROVE IInv'
<1> DEFINE r == pcall[c]
           e == Head(r.evts)
           k == [r EXCEPT !.evts = Tail(@), !.pc = IF e[1] = "settled" THEN "finish" ELSE @,
                          !.ended = IF e[1] = "settled" THEN e[2] ELSE @]
<1>1. r.pc \in {"run", "grace"} /\ UNCHANGED <<pjob, pi, wk, proc, pump, piStop, dialogs, pupsets, pkilled>>
  BY DEF Hear
<1>2. \/ r.evts # <<>> /\ pcall' = [pcall EXCEPT ![c] = k]
      \/ Goto(c, "clear")
  BY DEF Hear
<1>3. CASE Goto(c, "clear")
  BY <1>1, <1>3, GotoInv
<1>4. CASE r.evts # <<>> /\ pcall' = [pcall EXCEPT ![c] = k]
  <2>1. r \in CallState /\ Len(r.evts) <= Cap /\ r.evts \in Seq(Event)
    BY CallFacts DEF IInv, Typed
  <2>2. /\ e \in Event /\ Tail(r.evts) \in Seq(Event) /\ Len(r.evts) \in Nat
        /\ Len(Tail(r.evts)) = Len(r.evts) - 1
    BY <1>4, <2>1, SeqFacts
  <2>3. e[2] \in Owners
    BY <2>2, EventFacts
  <2>4. Len(Tail(r.evts)) <= Cap
    BY <2>1, <2>2, PiAssumption
  <2>5. /\ k \in CallState /\ k.evts = Tail(r.evts) /\ k.p = r.p
        /\ k.pc = IF e[1] = "settled" THEN "finish" ELSE r.pc
    <3> HIDE DEF r, e
    <3> QED
      BY <2>1, <2>2, <2>3 DEF CallState
  <2> HIDE DEF k
  <2>6. pcall'[c] = k
    BY <1>4 DEF IInv, Typed, CallTyped
  <2>7. MovesOn(c)
    BY <1>1, <2>5, <2>6 DEF MovesOn
  <2> QED
    BY <1>1, <1>4, <2>4, <2>5, <2>7, CallMovesInv DEF IInv, Typed, MapTyped
<1> QED
  BY <1>2, <1>3, <1>4

LEMMA CancelInv ==
  ASSUME IInv, NEW c \in Calls, Cancel(c) PROVE IInv'
<1> DEFINE r == pcall[c]
           g == [r EXCEPT !.pc = "grace"]
           b == [r EXCEPT !.box = IF @ = "none" THEN "err" ELSE @]
<1>1. r \in CallState /\ Len(r.evts) <= Cap
  BY CallFacts DEF IInv, Typed
<1>2. /\ pupsets' \in 0 .. MaxUpsets
      /\ UNCHANGED <<pjob, pi, wk, proc, pump, piStop, dialogs, pkilled>>
  BY UpsetTyped DEF IInv, Typed, MapTyped, Cancel
<1>3. \/ r.pc = "run" /\ pcall' = [pcall EXCEPT ![c] = g]
      \/ pcall' = [pcall EXCEPT ![c] = b]
  BY DEF Cancel, At
<1>4. /\ g \in CallState /\ g.evts = r.evts /\ g.p = r.p /\ g.pc = "grace"
      /\ b \in CallState /\ b.evts = r.evts /\ b.p = r.p /\ b.pc = r.pc
  <2> HIDE DEF r
  <2>1. g \in CallState /\ g.evts = r.evts /\ g.p = r.p /\ g.pc = "grace"
    BY <1>1 DEF CallState
  <2>2. b \in CallState /\ b.evts = r.evts /\ b.p = r.p /\ b.pc = r.pc
    BY <1>1 DEF CallState
  <2> QED
    BY <2>1, <2>2
<1> HIDE DEF g, b
<1>5. pcall \in [Calls -> CallState]
  BY DEF IInv, Typed, CallTyped
<1>6. CASE r.pc = "run" /\ pcall' = [pcall EXCEPT ![c] = g]
  <2>1. MovesOn(c)
    BY <1>4, <1>5, <1>6 DEF MovesOn
  <2> QED
    BY <1>1, <1>2, <1>4, <1>6, <2>1, CallMovesInv
<1>7. CASE pcall' = [pcall EXCEPT ![c] = b]
  <2>1. MovesOn(c)
    BY <1>4, <1>5, <1>7 DEF MovesOn
  <2> QED
    BY <1>1, <1>2, <1>4, <1>7, <2>1, CallMovesInv
<1> QED
  BY <1>3, <1>6, <1>7

\* The reader answers calls: they get an answer, and stay where they are.
LEMMA Boxed ==
  ASSUME CallTyped,
         \A d \in Calls : \/ pcall'[d] = pcall[d]
                          \/ \E b \in {"ok", "err", "handled"} : pcall'[d] = [pcall[d] EXCEPT !.box = b],
         DOMAIN pcall' = Calls, pcall' = [d \in Calls |-> pcall'[d]]
  PROVE  CallTyped' /\ \A d \in Calls : pcall'[d].p = pcall[d].p /\ MovesOn(d)
<1>1. ASSUME NEW r \in CallState, NEW b \in {"ok", "err", "handled"}, NEW k,
             k = [r EXCEPT !.box = b]
      PROVE  k \in CallState /\ k.evts = r.evts /\ k.p = r.p /\ k.pc = r.pc
  BY <1>1 DEF CallState
<1>2. ASSUME NEW d \in Calls
      PROVE  /\ pcall'[d] \in CallState /\ Len(pcall'[d].evts) <= Cap
             /\ pcall'[d].p = pcall[d].p /\ pcall'[d].pc = pcall[d].pc
  <2>1. pcall[d] \in CallState /\ Len(pcall[d].evts) <= Cap
    BY CallFacts
  <2>2. CASE pcall'[d] = pcall[d]
    BY <2>1, <2>2
  <2>3. ASSUME NEW b \in {"ok", "err", "handled"}, pcall'[d] = [pcall[d] EXCEPT !.box = b]
        PROVE  /\ pcall'[d] \in CallState /\ pcall'[d].evts = pcall[d].evts
               /\ pcall'[d].p = pcall[d].p /\ pcall'[d].pc = pcall[d].pc
    BY <1>1, <2>1, <2>3
  <2> QED
    BY <2>1, <2>2, <2>3
<1> QED
  BY <1>2 DEF CallTyped, MovesOn

LEMMA ReadInv ==
  ASSUME IInv, NEW p \in Procs, Read(p) PROVE IInv'
<1> DEFINE r == proc[p]
           f == Head(r.out)
           reply == f \in Reply
           q == [r EXCEPT !.out = Tail(@), !.events = IF reply THEN @ ELSE Append(@, f)]
           told(d) == reply /\ d = f[2] /\ At(d, "rpc") /\ Proc(d) = p /\ pcall[d].box = "none"
<1>1. /\ r \in ProcState /\ Len(r.events) <= Cap /\ r.out \in Seq(Frame)
      /\ r.events \in Seq(Event)
  BY ProcFacts DEF IInv, Typed
<1>2. /\ r.out # <<>> /\ (reply \/ Len(r.events) < Cap) /\ proc' = [proc EXCEPT ![p] = q]
      /\ pcall' = [d \in Calls |-> IF told(d) THEN [pcall[d] EXCEPT !.box = f[1]] ELSE pcall[d]]
      /\ UNCHANGED <<pjob, pi, wk, pump, piStop, dialogs, pupsets, pkilled>>
  BY DEF Read
<1>3. f \in Frame /\ Tail(r.out) \in Seq(Frame)
  BY <1>1, <1>2, SeqFacts
<1>4. (reply => f[1] \in {"ok", "err", "handled"}) /\ (~reply => f \in Event)
  BY <1>3, FrameFacts
<1>5. ~reply => Append(r.events, f) \in Seq(Event) /\ Len(Append(r.events, f)) = Len(r.events) + 1
  BY <1>1, <1>4, SeqFacts
<1>6. Len(r.events) \in Nat
  BY <1>1, SeqFacts
<1> HIDE DEF f, reply, told
<1>7. q \in ProcState /\ Len(q.events) <= Cap
  <2> HIDE DEF r
  <2>1. q \in ProcState /\ q.events = IF reply THEN r.events ELSE Append(r.events, f)
    BY <1>1, <1>3, <1>5 DEF ProcState
  <2> HIDE DEF q
  <2> QED
    BY <1>1, <1>2, <1>5, <1>6, <2>1, PiAssumption
<1> HIDE DEF q
<1>8. ProcTyped'
  BY <1>2, <1>7, ProcTo DEF IInv, Typed
<1>9. CallTyped' /\ \A d \in Calls : pcall'[d].p = pcall[d].p /\ MovesOn(d)
  <2>1. \A d \in Calls : \/ pcall'[d] = pcall[d]
                         \/ \E b \in {"ok", "err", "handled"} : pcall'[d] = [pcall[d] EXCEPT !.box = b]
    BY <1>2, <1>4 DEF told
  <2>2. DOMAIN pcall' = Calls /\ pcall' = [d \in Calls |-> pcall'[d]]
    BY <1>2
  <2> QED
    BY <2>1, <2>2, Boxed DEF IInv, Typed
<1>10. Typed'
  BY <1>2, <1>8, <1>9 DEF IInv, Typed, MapTyped, PumpTyped, WorkTyped
<1> QED
  BY <1>2, <1>9, <1>10, StillInv

LEMMA ReadEndInv ==
  ASSUME IInv, NEW p \in Procs, ReadEnd(p) PROVE IInv'
<1> DEFINE r == proc[p]
           q == [r EXCEPT !.reading = FALSE, !.done = TRUE]
           told(d) == Proc(d) = p /\ At(d, "rpc") /\ pcall[d].box = "none"
<1>1. r \in ProcState /\ Len(r.events) <= Cap
  BY ProcFacts DEF IInv, Typed
<1>2. /\ proc' = [proc EXCEPT ![p] = q] /\ piStop' \subseteq piStop
      /\ pcall' = [d \in Calls |-> IF told(d) THEN [pcall[d] EXCEPT !.box = "err"] ELSE pcall[d]]
      /\ UNCHANGED <<pjob, pi, wk, pump, dialogs, pupsets, pkilled>>
  BY DEF ReadEnd
<1> HIDE DEF told
<1>3. q \in ProcState /\ Len(q.events) <= Cap
  <2> HIDE DEF r
  <2> QED
    BY <1>1 DEF ProcState
<1> HIDE DEF q
<1>4. ProcTyped'
  BY <1>2, <1>3, ProcTo DEF IInv, Typed
<1>5. CallTyped' /\ \A d \in Calls : pcall'[d].p = pcall[d].p /\ MovesOn(d)
  <2>1. \A d \in Calls : \/ pcall'[d] = pcall[d]
                         \/ \E b \in {"ok", "err", "handled"} : pcall'[d] = [pcall[d] EXCEPT !.box = b]
    BY <1>2
  <2>2. DOMAIN pcall' = Calls /\ pcall' = [d \in Calls |-> pcall'[d]]
    BY <1>2
  <2> QED
    BY <2>1, <2>2, Boxed DEF IInv, Typed
<1>6. Typed'
  BY <1>2, <1>4, <1>5 DEF IInv, Typed, MapTyped, PumpTyped, WorkTyped
<1> QED
  BY <1>2, <1>5, <1>6, StillInv

LEMMA PumpInv ==
  ASSUME IInv, NEW p \in Procs, Pump(p) PROVE IInv'
<1> DEFINE r == proc[p]
           e == Head(r.events)
           q == [r EXCEPT !.events = Tail(@)]
           w == [wk[p] EXCEPT !.loop = e[1] = "start"]
           h == [on |-> TRUE, event |-> e, to |-> wk[p].recv]
<1>1. /\ r \in ProcState /\ Len(r.events) <= Cap /\ r.events \in Seq(Event)
      /\ wk[p] \in WorkerState /\ WorkTyped /\ pump \in [Procs -> PumpState]
  BY ProcFacts DEF IInv, Typed, WorkTyped, PumpTyped
<1>2. /\ r.events # <<>> /\ proc' = [proc EXCEPT ![p] = q]
      /\ wk' = wk \/ wk' = [wk EXCEPT ![p] = w]
      /\ dialogs' \subseteq dialogs \cup {p}
      /\ pump' = pump \/ (wk[p].recv # NoCall /\ pump' = [pump EXCEPT ![p] = h])
      /\ UNCHANGED <<pjob, pi, piStop, pcall, pupsets, pkilled>>
  BY DEF Pump
<1>3. /\ e \in Event /\ Tail(r.events) \in Seq(Event) /\ Len(r.events) \in Nat
      /\ Len(Tail(r.events)) = Len(r.events) - 1
  BY <1>1, <1>2, SeqFacts
<1>4. q \in ProcState /\ q.events = Tail(r.events)
  <2> HIDE DEF r
  <2> QED
    BY <1>1, <1>3 DEF ProcState
<1> HIDE DEF q
<1>5. ProcTyped'
  <2>1. Len(q.events) <= Cap
    BY <1>1, <1>3, <1>4, PiAssumption
  <2> QED
    BY <1>2, <1>4, <2>1, ProcTo DEF IInv, Typed
<1>6. WorkTyped' /\ \A o \in Procs : /\ wk'[o].busy = wk[o].busy /\ wk'[o].leases = wk[o].leases
                                     /\ wk'[o].recv = wk[o].recv
  <2>1. /\ w \in WorkerState /\ w.busy = wk[p].busy /\ w.leases = wk[p].leases
        /\ w.recv = wk[p].recv
    BY <1>1 DEF WorkerState
  <2> HIDE DEF w
  <2>2. ASSUME wk' = [wk EXCEPT ![p] = w]
        PROVE  WorkTyped' /\ wk'[p] = w /\ \A o \in Procs \ {p} : wk'[o] = wk[o]
    BY <1>1, <2>1, <2>2, WorkTo
  <2>3. wk' = wk => WorkTyped'
    BY <1>1 DEF WorkTyped
  <2> QED
    BY <1>2, <2>1, <2>2, <2>3
<1>7. PumpTyped'
  <2>1. wk[p].recv # NoCall => h \in PumpState /\ h.to \in Calls
    BY <1>1, <1>3 DEF PumpState, WorkerState
  <2> HIDE DEF h
  <2> QED
    BY <1>1, <1>2, <2>1 DEF IInv, Typed, PumpTyped
<1>8. Typed'
  BY <1>2, <1>5, <1>6, <1>7 DEF IInv, Typed, MapTyped, CallTyped
<1> QED
  BY <1>2, <1>6, <1>8, StillInv DEF MovesOn

LEMMA DeliverInv ==
  ASSUME IInv, NEW p \in Procs, Deliver(p) PROVE IInv'
<1> DEFINE c == pump[p].to
           r == pcall[c]
           k == [r EXCEPT !.evts = Append(@, pump[p].event)]
<1>1. /\ c \in Calls /\ pump[p] \in PumpState /\ pump[p].event \in Event
      /\ pump \in [Procs -> PumpState] /\ CallTyped
  BY DEF IInv, Typed, PumpTyped, PumpState, Deliver
<1>2. /\ \/ Len(r.evts) < Cap /\ pcall' = [pcall EXCEPT ![c] = k]
         \/ pcall' = pcall
      /\ pump' = [pump EXCEPT ![p] = NoHold]
      /\ UNCHANGED <<pjob, pi, wk, proc, piStop, dialogs, pupsets, pkilled>>
  BY DEF Deliver
<1>3. PumpTyped'
  <2>1. NoHold \in PumpState /\ ~NoHold.on
    BY DEF NoHold, PumpState, Event, Owners
  <2> QED
    BY <1>1, <1>2, <2>1 DEF IInv, Typed, PumpTyped
<1>4. CallTyped' /\ \A d \in Calls : pcall'[d].p = pcall[d].p /\ pcall'[d].pc = pcall[d].pc
  <2>1. CASE pcall' = pcall
    BY <1>1, <2>1 DEF CallTyped
  <2>2. CASE Len(r.evts) < Cap /\ pcall' = [pcall EXCEPT ![c] = k]
    <3>1. r \in CallState /\ r.evts \in Seq(Event)
      BY <1>1, CallFacts
    <3>2. /\ Append(r.evts, pump[p].event) \in Seq(Event) /\ Len(r.evts) \in Nat
          /\ Len(Append(r.evts, pump[p].event)) = Len(r.evts) + 1
      BY <1>1, <3>1, SeqFacts
    <3>3. /\ k \in CallState /\ k.p = r.p /\ k.pc = r.pc
          /\ k.evts = Append(r.evts, pump[p].event)
      <4> HIDE DEF r
      <4> QED
        BY <3>1, <3>2 DEF CallState
    <3> HIDE DEF k
    <3>4. Len(k.evts) <= Cap
      BY <2>2, <3>2, <3>3, PiAssumption
    <3> HIDE DEF c
    <3> QED
      BY <1>1, <2>2, <3>3, <3>4, CallTo
  <2> QED
    BY <1>2, <2>1, <2>2
<1>5. Typed'
  BY <1>2, <1>3, <1>4 DEF IInv, Typed, MapTyped, ProcTyped, WorkTyped
<1> QED
  BY <1>2, <1>4, <1>5, StillInv DEF MovesOn

(***************************************************************************)
(* Steps that move a call in or out of a worker.                           *)
(***************************************************************************)
LEMMA Parts ==
  ASSUME IInv
  PROVE  /\ MapTyped /\ ProcTyped /\ CallTyped /\ PumpTyped /\ WorkTyped /\ Bounded
         /\ Placed /\ Mapped /\ Adding /\ Unmarked /\ Leased /\ Owned
         /\ HeldInPlace /\ BusyHasOwner
BY DEF IInv, Links, Typed

\* The parts are enough, when the workers only leave the map.
LEMMA Whole ==
  ASSUME Bounded, Fewer, MapTyped', ProcTyped', CallTyped', PumpTyped', WorkTyped',
         Placed', Mapped', Adding', Unmarked', Leased', Owned', HeldInPlace', BusyHasOwner'
  PROVE  IInv'
BY BoundKept DEF IInv, Links, Typed

\* Whoever has a lease can give it back.
LEMMA CanUnlease ==
  ASSUME WorkTyped, Leased, NEW c \in Calls, HasLease(c), Proc(c) \in Procs
  PROVE  wk[Proc(c)].leases \in Nat /\ wk[Proc(c)].leases - 1 \in Nat
<1> DEFINE H == Holders(Proc(c))
<1>1. c \in H /\ IsFiniteSet(H) /\ Cardinality(H) <= wk[Proc(c)].leases
  BY DEF Holders, Leased
<1>2. Cardinality(H) \in Nat /\ Cardinality(H) # 0
  BY <1>1, FS_CardinalityType, FS_EmptySet
<1>3. wk[Proc(c)].leases \in Nat
  BY DEF WorkTyped, WorkerState
<1> HIDE DEF H
<1> QED
  BY <1>1, <1>2, <1>3

\* The call that never had a worker, or has done with it.
LEMMA EndsInv ==
  ASSUME IInv, NEW c \in Calls, NEW pc \in {"done", "refused"}, Goto(c, pc),
         pcall[c].pc \in {"new", "stop"}, pupsets' \in 0 .. MaxUpsets,
         UNCHANGED <<pjob, pi, wk, proc, pump, piStop, dialogs, pkilled>>
  PROVE  IInv'
<1>1. /\ CallTyped' /\ pcall'[c].pc = pc /\ pcall'[c].p = pcall[c].p /\ Others(c)
  BY GotoTyped, Parts DEF Others
<1>2. Fewer /\ MapTyped' /\ ProcTyped' /\ PumpTyped' /\ WorkTyped'
  BY Parts DEF Fewer, MapTyped, ProcTyped, PumpTyped, WorkTyped
<1>3. pcall'[c].pc \notin Active /\ pcall'[c].pc \notin HeldSet
  BY <1>1 DEF Active, HeldSet
<1>4. ~HasLease(c)' /\ ~Owner(c)' /\ ~Owner(c)
  BY <1>1 DEF HasLease, Owner, Working, At
<1>5. Placed'
  BY <1>1, <1>3, Parts, PlacedOne
<1>6. Mapped'
  BY <1>1, <1>2, <1>3, Parts, MappedOne
<1>7. Adding'
  BY <1>1, <1>2, <1>3, Parts, AddingOne
<1>8. Leased'
  <2>1. \A q \in Procs : wk'[q].leases >= wk[q].leases
    BY Parts DEF WorkTyped, WorkerState
  <2> QED
    BY <1>1, <1>2, <1>4, <2>1, Parts, LeasedOne
<1>9. HeldInPlace'
  BY <1>1, <1>3, Parts, HeldOne
<1>10. Owned'
  BY <1>1, <1>4, Parts, OwnedOne DEF Owned
<1>11. BusyHasOwner'
  BY <1>1, <1>2, <1>4, Parts, BusyOne
<1>12. Unmarked'
  BY <1>1, <1>3, Parts, UnmarkedOne DEF Active
<1> QED
  BY <1>1, <1>2, <1>5, <1>6, <1>7, <1>8, <1>9, <1>10, <1>11, <1>12, Parts, Whole

LEMMA RenameFileInv ==
  ASSUME IInv, NEW c \in Calls, RenameFile(c) PROVE IInv'
<1>1. Goto(c, "done") /\ pcall[c].pc = "new" /\ pupsets' \in 0 .. MaxUpsets
  BY Parts DEF RenameFile, At, MapTyped
<1> QED
  BY <1>1, EndsInv DEF RenameFile

LEMMA StoppedInv ==
  ASSUME IInv, NEW c \in Calls, Stopped(c) PROVE IInv'
<1>1. \E pc \in {"done", "refused"} : Goto(c, pc)
  BY DEF Stopped
<1>2. pcall[c].pc = "stop" /\ pupsets' \in 0 .. MaxUpsets
  BY Parts DEF Stopped, At, MapTyped
<1> QED
  BY <1>1, <1>2, EndsInv DEF Stopped

LEMMA LeaseInv ==
  ASSUME IInv, NEW c \in Calls, LeaseIfLive(c) PROVE IInv'
<1> DEFINE p == pi[SessionOf(c)]
           w == [wk[p] EXCEPT !.leases = @ + 1]
           k == [pcall[c] EXCEPT !.pc = "begin", !.p = p]
<1>1. /\ pcall[c].pc = "new" /\ p # NoProc
      /\ UNCHANGED <<pjob, pi, proc, pump, piStop, dialogs, pupsets, pkilled>>
      /\ \/ wk' = [wk EXCEPT ![p] = w] /\ pcall' = [pcall EXCEPT ![c] = k]
         \/ wk' = wk /\ Goto(c, "done")
  BY DEF LeaseIfLive, At
<1>2. pupsets' \in 0 .. MaxUpsets
  BY <1>1, Parts DEF MapTyped
<1>3. CASE wk' = wk /\ Goto(c, "done")
  BY <1>1, <1>2, <1>3, EndsInv
<1>4. ASSUME wk' = [wk EXCEPT ![p] = w], pcall' = [pcall EXCEPT ![c] = k]
      PROVE  IInv'
  <2>1. SessionOf(c) \in Sessions /\ p \in Procs
    BY <1>1, Parts, JobTyped DEF MapTyped
  <2>2. pcall[c] \in CallState /\ Len(pcall[c].evts) <= Cap /\ wk[p] \in WorkerState
    BY <2>1, Parts, CallFacts DEF WorkTyped
  <2>3. k \in CallState /\ k.evts = pcall[c].evts /\ k.pc = "begin" /\ k.p = p
    <3> HIDE DEF p
    <3> QED
      BY <2>1, <2>2 DEF CallState
  <2>4. /\ w \in WorkerState /\ w.leases = wk[p].leases + 1 /\ w.busy = wk[p].busy
        /\ w.recv = wk[p].recv
    BY <2>2 DEF WorkerState
  <2> HIDE DEF k, w
  <2>5. CallTyped' /\ pcall'[c].pc = "begin" /\ pcall'[c].p = p /\ Others(c)
    BY <1>4, <2>2, <2>3, Parts, CallTo DEF Others
  <2>6. WorkTyped' /\ wk'[p] = w /\ \A q \in Procs \ {p} : wk'[q] = wk[q]
    BY <1>4, <2>1, <2>4, Parts, WorkTo
  <2>7. \A q \in Procs : /\ wk'[q].busy = wk[q].busy /\ wk'[q].recv = wk[q].recv
                         /\ wk'[q].leases = IF q = p THEN wk[q].leases + 1 ELSE wk[q].leases
    BY <2>4, <2>6
  <2>8. Fewer /\ MapTyped' /\ ProcTyped' /\ PumpTyped'
    BY <1>1, Parts DEF Fewer, MapTyped, ProcTyped, PumpTyped
  <2>9. Placed'
    BY <1>1, <2>1, <2>5, Parts, PlacedOne
  <2>10. Mapped'
    BY <1>1, <2>5, <2>8, Parts, MappedOne
  <2>11. Adding'
    BY <1>1, <2>1, <2>5, <2>8, Parts, AddingOne
  <2>12. Leased'
    <3>1. \A q \in Procs : /\ wk[q].leases \in Nat
                           /\ q # p => wk'[q].leases >= wk[q].leases /\ pcall'[c].p # q
      BY <2>5, <2>7, Parts DEF WorkTyped, WorkerState
    <3> QED
      BY <1>1, <2>5, <2>6, <2>7, <3>1, Parts, LeasedOne
  <2>13. HeldInPlace'
    BY <1>1, <2>5, Parts, HeldOne
  <2>14. Owned'
    <3>1. ~Owner(c)'
      BY <2>5 DEF Owner, Working
    <3>2. \A d \in Calls : Owner(d) => Proc(d) \in Procs
      BY Parts DEF Placed, Owner, Working, Active
    <3> QED
      BY <1>1, <2>5, <2>7, <3>1, <3>2, Parts, OwnedOne DEF Owned
  <2>15. BusyHasOwner'
    <3>1. ~Owner(c)
      BY <1>1 DEF Owner, Working
    <3>2. \A s \in Sessions : pi[s] # NoProc => pi[s] \in Procs
      BY Parts DEF MapTyped
    <3> QED
      BY <1>1, <2>5, <2>7, <2>8, <3>1, <3>2, Parts, BusyOne
  <2>16. Unmarked'
    BY <2>5, <2>7, Parts, UnmarkedOne
  <2> QED
    BY <2>5, <2>6, <2>8, <2>9, <2>10, <2>11, <2>12, <2>13, <2>14, <2>15, <2>16, Parts, Whole
<1> QED
  BY <1>1, <1>3, <1>4

\* A call whose worker another call added first, or that finds the map full.
LEMMA AddFailsInv ==
  ASSUME IInv, NEW c \in Calls, At(c, "add"), Goto(c, "stop"), Stopping(Proc(c)),
         UNCHANGED <<pjob, pi, wk, proc, pump, dialogs, pupsets, pkilled>>
  PROVE  IInv'
<1>1. /\ CallTyped' /\ pcall'[c].pc = "stop" /\ pcall'[c].p = pcall[c].p /\ Others(c)
  BY GotoTyped, Parts DEF Others
<1>2. pcall[c].pc = "add" /\ Proc(c) \in Procs
  BY Parts DEF At, Placed, Active
<1>3. Fewer /\ MapTyped' /\ ProcTyped' /\ PumpTyped' /\ WorkTyped'
  BY <1>2, Parts, StoppingTyped DEF Fewer, MapTyped, ProcTyped, PumpTyped, WorkTyped
<1>4. ~HasLease(c)' /\ ~Owner(c)' /\ ~Owner(c) /\ "add" \in Active /\ "stop" \notin HeldSet
  BY <1>1, <1>2 DEF HasLease, Owner, Working, At, Active, HeldSet
<1>5. Placed'
  BY <1>1, <1>2, Parts, PlacedOne DEF Proc
<1>6. Mapped'
  BY <1>1, <1>2, <1>3, <1>4, Parts, MappedOne
<1>7. Adding'
  BY <1>1, <1>2, <1>3, <1>4, Parts, AddingOne
<1>8. Leased'
  <2>1. \A q \in Procs : wk'[q].leases >= wk[q].leases
    BY Parts DEF WorkTyped, WorkerState
  <2> QED
    BY <1>1, <1>3, <1>4, <2>1, Parts, LeasedOne
<1>9. HeldInPlace'
  BY <1>1, <1>4, Parts, HeldOne
<1>10. Owned'
  BY <1>1, <1>4, Parts, OwnedOne DEF Owned
<1>11. BusyHasOwner'
  BY <1>1, <1>3, <1>4, Parts, BusyOne
<1>12. Unmarked'
  BY <1>1, Parts, UnmarkedOne
<1> QED
  BY <1>1, <1>3, <1>5, <1>6, <1>7, <1>8, <1>9, <1>10, <1>11, <1>12, Parts, Whole

\* A call detaches with an empty channel.
LEMMA NoEvents == <<>> \in Seq(Event) /\ Len(<<>>) <= Cap
BY PiAssumption

\* A call that is refused has marked nothing, or takes its marks back.
Marks(c) ==
  LET p == Proc(c) IN
  \/ pcall[c].pc = "begin" /\ wk'[p].busy = wk[p].busy /\ wk'[p].recv = wk[p].recv
  \/ /\ pcall[c].pc = "rpc" /\ Turns(c)
     /\ wk'[p].busy = FALSE /\ wk'[p].recv = IF wk[p].recv = c THEN NoCall ELSE wk[p].recv

RefusedEffect(c) ==
  LET p == Proc(c) IN
  /\ p \in Procs /\ pcall[c].pc \in {"begin", "rpc"} /\ HasLease(c)
  /\ wk'[p].leases = wk[p].leases - 1 /\ Marks(c)
  /\ \A q \in Procs \ {p} : wk'[q] = wk[q]
  /\ pcall'[c].pc \in {"stop", "refused"} /\ pcall'[c].p = p /\ Others(c)
  /\ pkilled \subseteq pkilled'
  /\ \A s \in Sessions : \/ pi'[s] = pi[s]
                         \/ pi[s] = p /\ pi'[s] = NoProc /\ p \in pkilled'

LEMMA RefusedTyped ==
  ASSUME IInv, NEW c \in Calls, NEW w, Refused(c, w),
         UNCHANGED <<pjob, proc, pump, dialogs, pupsets>>,
         \/ w = wk /\ pcall[c].pc = "begin"
         \/ /\ w = [wk EXCEPT ![Proc(c)].busy = FALSE,
                              ![Proc(c)].recv = IF @ = c THEN NoCall ELSE @]
            /\ pcall[c].pc = "rpc" /\ Turns(c)
  PROVE  /\ MapTyped' /\ ProcTyped' /\ CallTyped' /\ PumpTyped' /\ WorkTyped'
         /\ RefusedEffect(c)
<1> DEFINE p == Proc(c)
           s == SessionOf(c)
           r == pcall[c]
           a == [wk[p] EXCEPT !.leases = @ - 1]
           b == [wk[p] EXCEPT !.busy = FALSE, !.recv = IF @ = c THEN NoCall ELSE @,
                              !.leases = @ - 1]
           none == <<>>
           stop == [r EXCEPT !.pc = "stop", !.attached = FALSE, !.evts = none]
           out == [r EXCEPT !.pc = "refused", !.attached = FALSE, !.evts = none]
<1>1. p \in Procs /\ r.pc \in {"begin", "rpc"} /\ s \in Sessions
  BY Parts, JobTyped DEF Placed, Active
<1>2. HasLease(c)
  BY DEF HasLease, At, Turns
<1>3. r \in CallState /\ wk[p] \in WorkerState /\ wk[p].leases - 1 \in Nat
  BY <1>1, <1>2, Parts, CallFacts, CanUnlease DEF WorkTyped
<1>4. wk \in [Procs -> WorkerState]
  BY Parts DEF WorkTyped
<1>5. \/ wk' = [wk EXCEPT ![p] = a] /\ pcall[c].pc = "begin"
      \/ wk' = [wk EXCEPT ![p] = b] /\ pcall[c].pc = "rpc" /\ Turns(c)
  <2>1. wk' = [w EXCEPT ![p].leases = @ - 1]
    BY DEF Refused, Unleased
  <2>2. w = wk => wk' = [wk EXCEPT ![p] = a]
    BY <2>1
  <2>3. ASSUME w = [wk EXCEPT ![p].busy = FALSE, ![p].recv = IF @ = c THEN NoCall ELSE @]
        PROVE  wk' = [wk EXCEPT ![p] = b]
    <3> DEFINE v == [wk[p] EXCEPT !.busy = FALSE, !.recv = IF @ = c THEN NoCall ELSE @]
    <3>1. w = [wk EXCEPT ![p] = v]
      BY <2>3
    <3>2. b = [v EXCEPT !.leases = @ - 1]
      <4>1. v.leases = wk[p].leases
        BY <1>3 DEF WorkerState
      <4> QED
        BY <1>3, <4>1 DEF WorkerState
    <3> HIDE DEF v, b
    <3> QED
      BY <1>1, <1>4, <2>1, <3>1, <3>2
  <2> QED
    BY <2>2, <2>3
<1>6. /\ a \in WorkerState /\ a.leases = wk[p].leases - 1 /\ a.busy = wk[p].busy
      /\ a.recv = wk[p].recv
  BY <1>3 DEF WorkerState
<1>7. /\ b \in WorkerState /\ b.leases = wk[p].leases - 1 /\ b.busy = FALSE
      /\ b.recv = IF wk[p].recv = c THEN NoCall ELSE wk[p].recv
  BY <1>3 DEF WorkerState
<1> HIDE DEF a, b
<1>8. /\ WorkTyped' /\ \A q \in Procs \ {p} : wk'[q] = wk[q]
      /\ wk'[p].leases = wk[p].leases - 1 /\ Marks(c)
  <2>1. CASE wk' = [wk EXCEPT ![p] = a] /\ pcall[c].pc = "begin"
    <3>1. WorkTyped' /\ wk'[p] = a /\ \A q \in Procs \ {p} : wk'[q] = wk[q]
      BY <1>1, <1>6, <2>1, Parts, WorkTo
    <3> QED
      BY <1>6, <2>1, <3>1 DEF Marks
  <2>2. CASE wk' = [wk EXCEPT ![p] = b] /\ pcall[c].pc = "rpc" /\ Turns(c)
    <3>1. WorkTyped' /\ wk'[p] = b /\ \A q \in Procs \ {p} : wk'[q] = wk[q]
      BY <1>1, <1>7, <2>2, Parts, WorkTo
    <3> QED
      BY <1>7, <2>2, <3>1 DEF Marks
  <2> QED
    BY <1>5, <2>1, <2>2
<1>9. \/ /\ pcall' = [pcall EXCEPT ![c] = stop] /\ pkilled' = pkilled \cup {p} /\ Stopping(p)
         /\ pi' = IF pi[s] = p THEN [pi EXCEPT ![s] = NoProc] ELSE pi
      \/ pcall' = [pcall EXCEPT ![c] = out] /\ UNCHANGED <<pi, piStop, pkilled>>
  BY DEF Refused
<1>10. /\ stop \in CallState /\ stop.pc = "stop" /\ stop.p = p /\ Len(stop.evts) <= Cap
       /\ out \in CallState /\ out.pc = "refused" /\ out.p = p /\ Len(out.evts) <= Cap
  <2>1. r.p = p /\ none \in Seq(Event) /\ Len(none) <= Cap
    BY NoEvents DEF Proc
  <2> HIDE DEF r, p, none
  <2>2. stop \in CallState /\ stop.pc = "stop" /\ stop.p = p /\ stop.evts = none
    BY <1>3, <2>1 DEF CallState
  <2>3. out \in CallState /\ out.pc = "refused" /\ out.p = p /\ out.evts = none
    BY <1>3, <2>1 DEF CallState
  <2> QED
    BY <2>1, <2>2, <2>3
<1> HIDE DEF stop, out
<1>11. CallTyped' /\ pcall'[c].pc \in {"stop", "refused"} /\ pcall'[c].p = p /\ Others(c)
  <2>1. ASSUME NEW k \in CallState, Len(k.evts) <= Cap, pcall' = [pcall EXCEPT ![c] = k]
        PROVE  CallTyped' /\ pcall'[c] = k /\ Others(c)
    BY <2>1, Parts, CallTo DEF Others
  <2> QED
    BY <1>9, <1>10, <2>1
<1>12. /\ MapTyped' /\ pkilled \subseteq pkilled'
       /\ \A t \in Sessions : \/ pi'[t] = pi[t]
                              \/ pi[t] = p /\ pi'[t] = NoProc /\ p \in pkilled'
  <2>1. MapTyped /\ piStop' \subseteq Procs
    BY <1>1, <1>9, Parts, StoppingTyped DEF MapTyped
  <2> HIDE DEF p, s
  <2> QED
    BY <1>1, <1>9, <2>1 DEF MapTyped
<1>13. ProcTyped' /\ PumpTyped'
  BY Parts DEF ProcTyped, PumpTyped
<1> QED
  BY <1>1, <1>2, <1>8, <1>11, <1>12, <1>13 DEF RefusedEffect

LEMMA RefusedKept ==
  ASSUME IInv, NEW c \in Calls, RefusedEffect(c), pjob' = pjob,
         MapTyped', ProcTyped', CallTyped', PumpTyped', WorkTyped'
  PROVE  IInv'
<1> DEFINE p == Proc(c)
<1>1. /\ p \in Procs /\ pcall[c].pc \in {"begin", "rpc"} /\ HasLease(c)
      /\ wk'[p].leases = wk[p].leases - 1 /\ Marks(c)
      /\ \A q \in Procs \ {p} : wk'[q] = wk[q]
      /\ pcall'[c].pc \in {"stop", "refused"} /\ pcall'[c].p = pcall[c].p /\ Others(c)
      /\ pkilled \subseteq pkilled'
      /\ \A s \in Sessions : \/ pi'[s] = pi[s]
                             \/ pi[s] = p /\ pi'[s] = NoProc /\ p \in pkilled'
  BY DEF RefusedEffect, Proc
<1>2. Fewer
  BY <1>1 DEF Fewer
<1>3. ~HasLease(c)' /\ ~Owner(c)' /\ {"begin", "rpc"} \subseteq Active
      /\ pcall'[c].pc \notin HeldSet
  BY <1>1 DEF HasLease, Owner, Working, At, Active, HeldSet
<1>4. Placed'
  BY <1>1, Parts, PlacedOne DEF Proc
<1>5. Mapped'
  BY <1>1, <1>2, <1>3, Parts, MappedOne
<1>6. Adding'
  BY <1>1, <1>2, <1>3, Parts, AddingOne
<1>7. Leased'
  <2>1. \A q \in Procs : wk[q].leases \in Nat
    BY Parts DEF WorkTyped, WorkerState
  <2> QED
    BY <1>1, <1>3, <2>1, Parts, LeasedOne
<1>8. HeldInPlace'
  BY <1>1, <1>3, Parts, HeldOne
<1>9. Owned'
  <2> SUFFICES ASSUME NEW d \in Calls, d # c, Owner(d)
               PROVE  wk'[Proc(d)].busy /\ (Turns(d) => wk'[Proc(d)].recv = d)
    BY <1>1, <1>3, Parts, OwnedOne
  <2>1. /\ Proc(d) \in Procs /\ wk[Proc(d)].busy /\ (Turns(d) => wk[Proc(d)].recv = d)
    BY Parts DEF Owned, Placed, Owner, Working, Active
  <2>2. pcall[c].pc = "rpc" /\ Turns(c) => Proc(d) # p
    BY Parts DEF Owned, Owner, Working
  <2> QED
    BY <1>1, <2>1, <2>2 DEF Marks
<1>10. BusyHasOwner'
  <2> SUFFICES ASSUME NEW s \in Sessions, pi[s] # NoProc, wk'[pi[s]].busy
               PROVE  wk[pi[s]].busy /\ ~(Owner(c) /\ Proc(c) = pi[s])
    BY <1>1, <1>2, Parts, BusyOne
  <2>1. pi[s] \in Procs
    BY Parts DEF MapTyped
  <2>2. pcall[c].pc = "begin" => ~Owner(c)
    BY DEF Owner, Working
  <2> QED
    BY <1>1, <2>1, <2>2 DEF Marks
<1>11. Unmarked'
  BY <1>1, <1>3, Parts, UnmarkedOne
<1> QED
  BY <1>2, <1>4, <1>5, <1>6, <1>7, <1>8, <1>9, <1>10, <1>11, Parts, Whole

LEMMA RefusedInv ==
  ASSUME IInv, NEW c \in Calls, NEW w, Refused(c, w),
         UNCHANGED <<pjob, proc, pump, dialogs, pupsets>>,
         \/ w = wk /\ pcall[c].pc = "begin"
         \/ /\ w = [wk EXCEPT ![Proc(c)].busy = FALSE,
                              ![Proc(c)].recv = IF @ = c THEN NoCall ELSE @]
            /\ pcall[c].pc = "rpc" /\ Turns(c)
  PROVE  IInv'
BY RefusedTyped, RefusedKept

\* A call's step on its worker, which stays where it is.
OnWorker(c) ==
  LET p == Proc(c) IN
  /\ p \in Procs /\ pcall[c].pc \in Active \ {"add"} /\ pcall'[c].pc \in Active \cup {"done"}
  /\ pcall'[c].pc # "add" /\ pcall'[c].p = p /\ Others(c)
  /\ pcall'[c].pc \in HeldSet => pcall[c].pc \in HeldSet
  /\ pcall'[c].pc \in {"run", "grace"} => Turns(c)
  /\ pcall'[c].pc \in {"finish", "clear"} => Turns(c) \/ Kind(c) = "operation"
  /\ \A q \in Procs \ {p} : wk'[q] = wk[q]
  /\ \/ wk'[p].leases = wk[p].leases /\ (HasLease(c)' => HasLease(c))
     \/ wk'[p].leases = wk[p].leases - 1 /\ HasLease(c) /\ ~HasLease(c)'
  /\ Owner(c)' => /\ wk'[p].busy /\ (Turns(c) => wk'[p].recv = c)
                  /\ Owner(c) \/ ~wk[p].busy
  /\ \A d \in Calls : d # c /\ Owner(d) /\ Proc(d) = p =>
       wk'[p].busy /\ (Turns(d) => wk'[p].recv = d)
  /\ wk'[p].busy /\ pi[SessionOf(c)] = p =>
       Owner(c)' \/ (wk[p].busy /\ ~Owner(c))

LEMMA OnWorkerInv ==
  ASSUME IInv, NEW c \in Calls, OnWorker(c), UNCHANGED <<pjob, pi, pkilled>>,
         MapTyped', ProcTyped', CallTyped', PumpTyped', WorkTyped'
  PROVE  IInv'
<1> DEFINE p == Proc(c)
<1>1. /\ p \in Procs /\ pcall[c].pc \in Active /\ pcall'[c].pc # "add"
      /\ pcall'[c].p = pcall[c].p /\ Others(c)
      /\ \A q \in Procs \ {p} : wk'[q] = wk[q]
  BY DEF OnWorker, Proc
<1>2. Fewer
  BY DEF Fewer
<1>3. Placed'
  <2>1. /\ pcall'[c].pc \in {"run", "grace"} => Turns(c)
        /\ pcall'[c].pc \in {"finish", "clear"} => Turns(c) \/ Kind(c) = "operation"
    BY DEF OnWorker
  <2> QED
    BY <1>1, <2>1, Parts, PlacedOne DEF Proc
<1>4. Mapped'
  BY <1>1, <1>2, Parts, MappedOne
<1>5. Adding'
  BY <1>1, <1>2, Parts, AddingOne
<1>6. Leased'
  <2>1. \A q \in Procs : wk[q].leases \in Nat
    BY Parts DEF WorkTyped, WorkerState
  <2>2. \/ wk'[p].leases = wk[p].leases /\ (HasLease(c)' => HasLease(c))
        \/ wk'[p].leases = wk[p].leases - 1 /\ HasLease(c) /\ ~HasLease(c)'
    BY DEF OnWorker
  <2>3. pcall'[c].p = p
    BY <1>1 DEF Proc
  <2> HIDE DEF p
  <2>4. \A q \in Procs :
          \/ /\ wk'[q].leases >= wk[q].leases
             /\ HasLease(c)' /\ pcall'[c].p = q => HasLease(c) /\ p = q
          \/ /\ wk'[q].leases = wk[q].leases - 1
             /\ HasLease(c) /\ p = q /\ ~(HasLease(c)' /\ pcall'[c].p = q)
    BY <1>1, <2>1, <2>2, <2>3
  <2> QED
    BY <1>1, <2>4, Parts, LeasedOne DEF p
<1>7. HeldInPlace'
  <2>1. pcall'[c].pc \in HeldSet => pcall[c].pc \in HeldSet
    BY DEF OnWorker
  <2> QED
    BY <1>1, <2>1, Parts, HeldOne
<1>8. Owned'
  <2>1. \A d \in Calls : d # c /\ Owner(d) =>
          wk'[Proc(d)].busy /\ (Turns(d) => wk'[Proc(d)].recv = d)
    <3> SUFFICES ASSUME NEW d \in Calls, d # c, Owner(d)
                 PROVE  wk'[Proc(d)].busy /\ (Turns(d) => wk'[Proc(d)].recv = d)
      OBVIOUS
    <3>1. Proc(d) \in Procs /\ wk[Proc(d)].busy /\ (Turns(d) => wk[Proc(d)].recv = d)
      BY Parts DEF Owned, Placed, Owner, Working, Active
    <3>2. Proc(d) = p => wk'[p].busy /\ (Turns(d) => wk'[p].recv = d)
      BY DEF OnWorker
    <3> QED
      BY <1>1, <3>1, <3>2
  <2>2. Owner(c)' => /\ wk'[p].busy /\ (Turns(c) => wk'[p].recv = c)
                     /\ Owner(c) \/ ~wk[p].busy
    BY DEF OnWorker
  <2>3. ~wk[p].busy => \A d \in Calls : Owner(d) => Proc(d) # p
    BY Parts DEF Owned
  <2> QED
    BY <1>1, <2>1, <2>2, <2>3, Parts, OwnedOne DEF Proc
<1>9. BusyHasOwner'
  <2> SUFFICES ASSUME NEW s \in Sessions, pi[s] # NoProc, wk'[pi[s]].busy
               PROVE  \/ wk[pi[s]].busy /\ (Owner(c) /\ Proc(c) = pi[s] => Owner(c)')
                      \/ Owner(c)' /\ pcall'[c].p = pi[s]
    BY <1>1, <1>2, Parts, BusyOne
  <2>1. pi[s] \in Procs
    BY Parts DEF MapTyped
  <2>2. CASE pi[s] = p
    <3>1. SessionOf(c) = s
      BY <1>1, <2>2, Parts DEF Mapped, Live
    <3>2. Owner(c)' \/ (wk[p].busy /\ ~Owner(c))
      BY <2>2, <3>1 DEF OnWorker
    <3> QED
      BY <1>1, <2>2, <3>2 DEF Proc
  <2>3. CASE pi[s] # p
    BY <1>1, <2>1, <2>3
  <2> QED
    BY <2>2, <2>3
<1>10. Unmarked'
  BY <1>1, Parts, UnmarkedOne
<1> QED
  BY <1>2, <1>3, <1>4, <1>5, <1>6, <1>7, <1>8, <1>9, <1>10, Parts, Whole

\* The parts that a step on a worker leaves alone.
LEMMA Alone ==
  ASSUME IInv, UNCHANGED <<pjob, pi, pump, piStop, dialogs, pupsets, pkilled>>
  PROVE  MapTyped' /\ PumpTyped' /\ (proc' = proc => ProcTyped')
BY Parts DEF MapTyped, PumpTyped, ProcTyped

\* The request is in the process's stdin.
LEMMA Asked ==
  ASSUME ProcTyped, NEW p \in Procs, NEW c \in Calls,
         proc' = [proc EXCEPT ![p].in = @ \cup {c}]
  PROVE  ProcTyped'
<1> DEFINE r == proc[p]
           q == [r EXCEPT !.in = @ \cup {c}]
<1>1. r \in ProcState /\ Len(r.events) <= Cap
  BY ProcFacts
<1>2. q \in ProcState /\ q.events = r.events
  <2> HIDE DEF r
  <2> QED
    BY <1>1 DEF ProcState
<1>3. proc' = [proc EXCEPT ![p] = q]
  OBVIOUS
<1> HIDE DEF q
<1> QED
  BY <1>1, <1>2, <1>3, ProcTo

LEMMA BeginTurnInv ==
  ASSUME IInv, NEW c \in Calls, BeginTurn(c) PROVE IInv'
<1> DEFINE p == Proc(c)
           r == pcall[c]
           none == <<>>
           w == [wk[p] EXCEPT !.busy = @ \/ Turns(c), !.recv = IF Turns(c) THEN c ELSE @]
           k == [r EXCEPT !.pc = "rpc", !.box = "none", !.attached = Turns(c), !.evts = none]
<1>1. pcall[c].pc = "begin" /\ Kind(c) # "operation" /\ UNCHANGED <<pjob, pump, dialogs, pupsets>>
  BY DEF BeginTurn, At
<1>2. \/ Refused(c, wk) /\ proc' = proc
      \/ /\ ~(Turns(c) /\ wk[p].busy)
         /\ wk' = [wk EXCEPT ![p] = w] /\ pcall' = [pcall EXCEPT ![c] = k]
         /\ proc' = [proc EXCEPT ![p].in = @ \cup {c}] /\ UNCHANGED <<pi, piStop, pkilled>>
  BY DEF BeginTurn
<1>3. CASE Refused(c, wk) /\ proc' = proc
  BY <1>1, <1>3, RefusedInv
<1>4. ASSUME ~(Turns(c) /\ wk[p].busy), wk' = [wk EXCEPT ![p] = w],
             pcall' = [pcall EXCEPT ![c] = k], proc' = [proc EXCEPT ![p].in = @ \cup {c}],
             UNCHANGED <<pi, piStop, pkilled>>
      PROVE  IInv'
  <2>1. p \in Procs /\ r \in CallState /\ wk[p] \in WorkerState /\ Turns(c) \in BOOLEAN
    BY <1>1, Parts, CallFacts DEF Placed, Active, WorkTyped, Turns
  <2>2. /\ w \in WorkerState /\ w.busy = (wk[p].busy \/ Turns(c)) /\ w.leases = wk[p].leases
        /\ w.recv = IF Turns(c) THEN c ELSE wk[p].recv
    <3> DEFINE t == Turns(c)
    <3>1. t \in BOOLEAN
      BY <2>1
    <3> HIDE DEF t, p
    <3>2. [wk[p] EXCEPT !.busy = @ \/ t, !.recv = IF t THEN c ELSE @] \in WorkerState
      BY <2>1, <3>1 DEF WorkerState
    <3>3. w = [wk[p] EXCEPT !.busy = @ \/ t, !.recv = IF t THEN c ELSE @]
      BY DEF t
    <3>4. /\ w.busy = (wk[p].busy \/ t) /\ w.leases = wk[p].leases
          /\ w.recv = IF t THEN c ELSE wk[p].recv
      BY <2>1, <3>1, <3>3 DEF WorkerState
    <3> QED
      BY <3>2, <3>3, <3>4 DEF t
  <2>3. k \in CallState /\ k.pc = "rpc" /\ k.p = p /\ k.evts = none
    <3> DEFINE t == Turns(c)
    <3>1. t \in BOOLEAN /\ r.p = p /\ none \in Seq(Event)
      BY <2>1, NoEvents DEF Proc
    <3>2. k = [r EXCEPT !.pc = "rpc", !.box = "none", !.attached = t, !.evts = none]
      OBVIOUS
    <3> HIDE DEF t, p, r, none, k
    <3> QED
      BY <2>1, <3>1, <3>2 DEF CallState
  <2>4. Len(k.evts) <= Cap
    BY <2>3, NoEvents
  <2> HIDE DEF w, k
  <2>5. CallTyped' /\ pcall'[c] = k /\ Others(c)
    BY <1>4, <2>3, <2>4, Parts, CallTo DEF Others
  <2>6. WorkTyped' /\ wk'[p] = w /\ \A q \in Procs \ {p} : wk'[q] = wk[q]
    BY <1>4, <2>1, <2>2, Parts, WorkTo
  <2>7. MapTyped' /\ PumpTyped' /\ ProcTyped'
    BY <1>1, <1>4, <2>1, Parts, Alone, Asked
  <2>8. /\ HasLease(c) /\ ~Owner(c) /\ (Owner(c)' <=> Turns(c)) /\ pcall'[c].p = p
        /\ pcall'[c].pc = "rpc"
    BY <1>1, <2>3, <2>5, SameJob DEF HasLease, Owner, Working, At
  <2>9. ASSUME NEW d \in Calls, Owner(d), Proc(d) = p
        PROVE  ~Turns(c) /\ wk'[p].busy /\ (Turns(d) => wk'[p].recv = d)
    BY <1>4, <2>2, <2>6, <2>9, Parts DEF Owned
  <2>10. OnWorker(c)
    <3>1. /\ pcall[c].pc \in Active \ {"add"} /\ pcall'[c].pc \in Active \cup {"done"}
          /\ pcall'[c].pc # "add" /\ pcall'[c].pc \notin {"run", "grace", "finish", "clear"}
          /\ pcall[c].pc \in HeldSet
      BY <1>1, <2>8 DEF Active, HeldSet
    <3>2. wk'[p].leases = wk[p].leases /\ wk'[p].busy = (wk[p].busy \/ Turns(c))
          /\ wk'[p].recv = IF Turns(c) THEN c ELSE wk[p].recv
      BY <2>2, <2>6
    <3> QED
      BY <1>4, <2>1, <2>5, <2>6, <2>8, <2>9, <3>1, <3>2 DEF OnWorker
  <2> QED
    BY <1>1, <1>4, <2>5, <2>6, <2>7, <2>10, OnWorkerInv
<1> QED
  BY <1>2, <1>3, <1>4

LEMMA BeginOperationInv ==
  ASSUME IInv, NEW c \in Calls, BeginOperation(c) PROVE IInv'
<1> DEFINE p == Proc(c)
           r == pcall[c]
           w == [wk[p] EXCEPT !.leases = @ - 1, !.busy = TRUE]
           k == [r EXCEPT !.pc = "rpc", !.box = "none"]
           l == [r EXCEPT !.pc = "clear"]
<1>1. pcall[c].pc = "begin" /\ Kind(c) = "operation" /\ UNCHANGED <<pjob, pump, dialogs, pupsets>>
  BY DEF BeginOperation, At
<1>2. p \in Procs /\ wk \in [Procs -> WorkerState] /\ r \in CallState /\ Len(r.evts) <= Cap
  BY <1>1, Parts, CallFacts DEF Placed, Active, WorkTyped
<1>3. \/ Refused(c, wk) /\ proc' = proc
      \/ /\ ~wk[p].busy /\ wk' = [wk EXCEPT ![p] = w] /\ UNCHANGED <<pi, piStop, pkilled>>
         /\ \/ /\ proc' = [proc EXCEPT ![p].in = @ \cup {c}]
               /\ pcall' = [pcall EXCEPT ![c] = k]
            \/ proc' = proc /\ pcall' = [pcall EXCEPT ![c] = l]
  <2>1. [Unleased(p, wk) EXCEPT ![p].busy = TRUE] = [wk EXCEPT ![p] = w]
    <3> HIDE DEF p
    <3> QED
      BY <1>2 DEF Unleased, WorkerState
  <2> QED
    BY <2>1 DEF BeginOperation, Goto
<1>4. CASE Refused(c, wk) /\ proc' = proc
  BY <1>1, <1>4, RefusedInv
<1>5. ASSUME ~wk[p].busy, wk' = [wk EXCEPT ![p] = w], UNCHANGED <<pi, piStop, pkilled>>,
             \/ /\ proc' = [proc EXCEPT ![p].in = @ \cup {c}]
                /\ pcall' = [pcall EXCEPT ![c] = k]
             \/ proc' = proc /\ pcall' = [pcall EXCEPT ![c] = l]
      PROVE  IInv'
  <2>1. HasLease(c) /\ wk[p] \in WorkerState /\ wk[p].leases - 1 \in Nat
    BY <1>1, <1>2, Parts, CanUnlease DEF HasLease, At
  <2>2. /\ w \in WorkerState /\ w.busy = TRUE /\ w.leases = wk[p].leases - 1
    BY <2>1 DEF WorkerState
  <2>3. /\ k \in CallState /\ k.pc = "rpc" /\ k.p = p /\ k.evts = r.evts
        /\ l \in CallState /\ l.pc = "clear" /\ l.p = p /\ l.evts = r.evts
    <3>1. r.p = p
      BY DEF Proc
    <3> HIDE DEF r, p
    <3>2. k \in CallState /\ k.pc = "rpc" /\ k.p = p /\ k.evts = r.evts
      BY <1>2, <3>1 DEF CallState
    <3>3. l \in CallState /\ l.pc = "clear" /\ l.p = p /\ l.evts = r.evts
      BY <1>2, <3>1 DEF CallState
    <3> QED
      BY <3>2, <3>3
  <2> HIDE DEF w, k, l
  <2>4. CallTyped' /\ (pcall'[c] = k \/ pcall'[c] = l) /\ Others(c)
    <3>1. pcall' = [pcall EXCEPT ![c] = k] => CallTyped' /\ pcall'[c] = k /\ Others(c)
      BY <1>2, <2>3, Parts, CallTo DEF Others
    <3>2. pcall' = [pcall EXCEPT ![c] = l] => CallTyped' /\ pcall'[c] = l /\ Others(c)
      BY <1>2, <2>3, Parts, CallTo DEF Others
    <3> QED
      BY <1>5, <3>1, <3>2
  <2>5. WorkTyped' /\ wk'[p] = w /\ \A q \in Procs \ {p} : wk'[q] = wk[q]
    BY <1>2, <1>5, <2>2, Parts, WorkTo
  <2>6. MapTyped' /\ PumpTyped' /\ ProcTyped'
    BY <1>1, <1>2, <1>5, Parts, Alone, Asked
  <2>7. /\ ~Owner(c) /\ Owner(c)' /\ pcall'[c].p = p /\ pcall'[c].pc \in {"rpc", "clear"}
        /\ ~HasLease(c)' /\ ~Turns(c)
    BY <1>1, <2>3, <2>4, SameJob DEF HasLease, Owner, Working, At, Turns
  <2>8. \A d \in Calls : Owner(d) => Proc(d) # p
    BY <1>5, Parts DEF Owned
  <2>9. OnWorker(c)
    <3>1. /\ pcall[c].pc \in Active \ {"add"} /\ pcall'[c].pc \in Active \cup {"done"}
          /\ pcall'[c].pc # "add" /\ pcall'[c].pc \notin {"run", "grace"}
          /\ pcall[c].pc \in HeldSet
      BY <1>1, <2>7 DEF Active, HeldSet
    <3>2. wk'[p].leases = wk[p].leases - 1 /\ wk'[p].busy
      BY <2>2, <2>5
    <3> QED
      BY <1>1, <1>2, <1>5, <2>1, <2>4, <2>5, <2>7, <2>8, <3>1, <3>2 DEF OnWorker
  <2> QED
    BY <1>1, <1>5, <2>4, <2>5, <2>6, <2>9, OnWorkerInv
<1> QED
  BY <1>3, <1>4, <1>5

LEMMA AnsweredTurnInv ==
  ASSUME IInv, NEW c \in Calls, AnsweredTurn(c) PROVE IInv'
<1> DEFINE p == Proc(c)
           v == [wk EXCEPT ![p].busy = FALSE, ![p].recv = IF @ = c THEN NoCall ELSE @]
           w == [wk[p] EXCEPT !.leases = @ - 1]
<1>1. pcall[c].pc = "rpc" /\ Kind(c) # "operation"
      /\ UNCHANGED <<pjob, proc, pump, dialogs, pupsets>>
  BY DEF AnsweredTurn, At
<1>2. \/ Turns(c) /\ Refused(c, v)
      \/ /\ wk' = [wk EXCEPT ![p] = w] /\ UNCHANGED <<pi, piStop, pkilled>>
         /\ \/ ~Turns(c) /\ Goto(c, "done")
            \/ \E pc \in {"run", "finish"} : Turns(c) /\ Goto(c, pc)
  BY DEF AnsweredTurn, Unleased
<1>3. CASE Turns(c) /\ Refused(c, v)
  BY <1>1, <1>3, RefusedInv
<1>4. ASSUME wk' = [wk EXCEPT ![p] = w], UNCHANGED <<pi, piStop, pkilled>>,
             NEW pc \in {"run", "finish", "done"}, Goto(c, pc), Turns(c) <=> pc # "done"
      PROVE  IInv'
  <2>1. p \in Procs /\ wk[p] \in WorkerState /\ HasLease(c)
    BY <1>1, Parts DEF Placed, Active, WorkTyped, HasLease, At
  <2>2. wk[p].leases - 1 \in Nat
    BY <2>1, Parts, CanUnlease
  <2>3. /\ w \in WorkerState /\ w.busy = wk[p].busy /\ w.leases = wk[p].leases - 1
        /\ w.recv = wk[p].recv
    BY <2>1, <2>2 DEF WorkerState
  <2> HIDE DEF w
  <2>4. CallTyped' /\ pcall'[c].pc = pc /\ pcall'[c].p = p /\ Others(c)
    BY <1>4, Parts, GotoTyped DEF Others, Proc
  <2>5. WorkTyped' /\ wk'[p] = w /\ \A q \in Procs \ {p} : wk'[q] = wk[q]
    BY <1>4, <2>1, <2>3, Parts, WorkTo
  <2>6. MapTyped' /\ PumpTyped' /\ ProcTyped'
    BY <1>1, <1>4, Alone
  <2>7. /\ Owner(c) <=> Turns(c)
        /\ Owner(c)' <=> Turns(c)
        /\ ~HasLease(c)'
    BY <1>1, <1>4, <2>4, SameJob DEF HasLease, Owner, Working, At
  <2>8. Owner(c) => wk[p].busy /\ (Turns(c) => wk[p].recv = c)
    BY Parts DEF Owned
  <2>9. \A d \in Calls : Owner(d) /\ Proc(d) = p => wk[p].busy /\ (Turns(d) => wk[p].recv = d)
    BY Parts DEF Owned
  <2>10. OnWorker(c)
    <3>1. /\ pcall[c].pc \in Active \ {"add"} /\ pcall'[c].pc \in Active \cup {"done"}
          /\ pcall'[c].pc # "add" /\ pcall[c].pc \in HeldSet
          /\ pcall'[c].pc \in {"run", "grace"} => Turns(c)
          /\ pcall'[c].pc \in {"finish", "clear"} => Turns(c)
      BY <1>1, <1>4, <2>4 DEF Active, HeldSet
    <3>2. wk'[p].leases = wk[p].leases - 1 /\ wk'[p].busy = wk[p].busy /\ wk'[p].recv = wk[p].recv
      BY <2>3, <2>5
    <3> QED
      BY <2>1, <2>4, <2>5, <2>7, <2>8, <2>9, <3>1, <3>2 DEF OnWorker
  <2> QED
    BY <1>1, <1>4, <2>4, <2>5, <2>6, <2>10, OnWorkerInv
<1> QED
  BY <1>2, <1>3, <1>4

LEMMA ClearInv ==
  ASSUME IInv, NEW c \in Calls, Clear(c) PROVE IInv'
<1> DEFINE p == Proc(c)
           mine == pi[SessionOf(c)] = p
           w == [wk[p] EXCEPT !.busy = FALSE, !.loop = @ /\ ~Turns(c)]
<1>1. /\ pcall[c].pc = "clear" /\ Goto(c, "detach")
      /\ wk' = IF mine THEN [wk EXCEPT ![p] = w] ELSE wk
      /\ UNCHANGED <<pjob, pi, proc, pump, piStop, dialogs, pupsets, pkilled>>
  BY DEF Clear, At
<1>2. p \in Procs /\ wk[p] \in WorkerState /\ Turns(c) \in BOOLEAN
  BY <1>1, Parts DEF Placed, Active, WorkTyped, Turns
<1>3. /\ w \in WorkerState /\ w.busy = FALSE /\ w.leases = wk[p].leases /\ w.recv = wk[p].recv
  <2> DEFINE t == Turns(c)
  <2>1. t \in BOOLEAN /\ w = [wk[p] EXCEPT !.busy = FALSE, !.loop = @ /\ ~t]
    BY <1>2
  <2> HIDE DEF t, w, p
  <2> QED
    BY <1>2, <2>1 DEF WorkerState
<1> HIDE DEF w
<1>4. CallTyped' /\ pcall'[c].pc = "detach" /\ pcall'[c].p = p /\ Others(c)
  BY <1>1, Parts, GotoTyped DEF Others, Proc
<1>5. /\ WorkTyped' /\ \A q \in Procs \ {p} : wk'[q] = wk[q]
      /\ wk'[p].leases = wk[p].leases /\ wk'[p].recv = wk[p].recv
      /\ wk'[p].busy = IF mine THEN FALSE ELSE wk[p].busy
  <2>1. CASE mine
    <3>1. wk' = [wk EXCEPT ![p] = w]
      BY <1>1, <2>1
    <3>2. WorkTyped' /\ wk'[p] = w /\ \A q \in Procs \ {p} : wk'[q] = wk[q]
      BY <1>2, <1>3, <3>1, Parts, WorkTo
    <3> QED
      BY <1>3, <2>1, <3>2
  <2>2. CASE ~mine
    BY <1>1, <2>2, Parts DEF WorkTyped
  <2> QED
    BY <2>1, <2>2
<1>6. MapTyped' /\ PumpTyped' /\ ProcTyped'
  BY <1>1, Alone
<1>7. Owner(c) /\ ~Owner(c)' /\ ~HasLease(c)'
  BY <1>1, <1>4, Parts DEF Placed, HasLease, Owner, Working, At
<1>8. \A d \in Calls : d # c /\ Owner(d) => Proc(d) # p
  BY <1>7, Parts DEF Owned
<1>9. OnWorker(c)
  <2>1. /\ pcall[c].pc \in Active \ {"add"} /\ pcall'[c].pc \in Active \cup {"done"}
        /\ pcall'[c].pc # "add" /\ pcall'[c].pc \notin HeldSet
        /\ pcall'[c].pc \notin {"run", "grace", "finish", "clear"}
    BY <1>1, <1>4 DEF Active, HeldSet
  <2> QED
    BY <1>2, <1>4, <1>5, <1>7, <1>8, <2>1 DEF OnWorker
<1> QED
  BY <1>1, <1>4, <1>5, <1>6, <1>9, OnWorkerInv

LEMMA DetachInv ==
  ASSUME IInv, NEW c \in Calls, Detach(c) PROVE IInv'
<1> DEFINE p == Proc(c)
           r == pcall[c]
           none == <<>>
           w == [wk[p] EXCEPT !.recv = IF @ = c THEN NoCall ELSE @]
           k == [r EXCEPT !.pc = "done", !.attached = FALSE, !.evts = none]
<1>1. /\ r.pc = "detach" /\ wk' = [wk EXCEPT ![p] = w] /\ pcall' = [pcall EXCEPT ![c] = k]
      /\ UNCHANGED <<pjob, pi, proc, pump, piStop, dialogs, pupsets, pkilled>>
  BY DEF Detach, At
<1>2. p \in Procs /\ wk[p] \in WorkerState /\ r \in CallState
  BY <1>1, Parts, CallFacts DEF Placed, Active, WorkTyped
<1>3. /\ w \in WorkerState /\ w.busy = wk[p].busy /\ w.leases = wk[p].leases
      /\ w.recv = IF wk[p].recv = c THEN NoCall ELSE wk[p].recv
  BY <1>2 DEF WorkerState
<1>4. k \in CallState /\ k.pc = "done" /\ k.p = p /\ k.evts = none
  <2>1. r.p = p /\ none \in Seq(Event)
    BY NoEvents DEF Proc
  <2> HIDE DEF r, p, none
  <2> QED
    BY <1>2, <2>1 DEF CallState
<1>5. Len(k.evts) <= Cap
  BY <1>4, NoEvents
<1> HIDE DEF w, k
<1>6. CallTyped' /\ pcall'[c] = k /\ Others(c)
  BY <1>1, <1>4, <1>5, Parts, CallTo DEF Others
<1>7. WorkTyped' /\ wk'[p] = w /\ \A q \in Procs \ {p} : wk'[q] = wk[q]
  BY <1>1, <1>2, <1>3, Parts, WorkTo
<1>8. MapTyped' /\ PumpTyped' /\ ProcTyped'
  BY <1>1, Alone
<1>9. ~Owner(c) /\ ~Owner(c)' /\ ~HasLease(c)' /\ pcall'[c].p = p /\ pcall'[c].pc = "done"
  BY <1>1, <1>4, <1>6 DEF HasLease, Owner, Working, At
<1>10. \A d \in Calls : Owner(d) /\ Proc(d) = p => wk[p].busy /\ (Turns(d) => wk[p].recv = d)
  BY Parts DEF Owned
<1>11. OnWorker(c)
  <2>1. /\ pcall[c].pc \in Active \ {"add"} /\ pcall'[c].pc \in Active \cup {"done"}
        /\ pcall'[c].pc # "add" /\ pcall'[c].pc \notin HeldSet
        /\ pcall'[c].pc \notin {"run", "grace", "finish", "clear"}
    BY <1>1, <1>9 DEF Active, HeldSet
  <2>2. /\ wk'[p].leases = wk[p].leases /\ wk'[p].busy = wk[p].busy
        /\ wk'[p].recv = IF wk[p].recv = c THEN NoCall ELSE wk[p].recv
    BY <1>3, <1>7
  <2> QED
    BY <1>2, <1>6, <1>7, <1>9, <1>10, <2>1, <2>2 DEF OnWorker
<1> QED
  BY <1>1, <1>6, <1>7, <1>8, <1>11, OnWorkerInv

(***************************************************************************)
(* Steps that take a worker out of the map.                                *)
(***************************************************************************)
\* The marks of the workers stay; a call leaves its owner's place only with the
\* worker it leaves.
Taking(c, s) ==
  /\ s \in Sessions /\ pi' = [pi EXCEPT ![s] = NoProc] /\ pi[s] \in Procs
  /\ Others(c) /\ pkilled \subseteq pkilled'
  /\ pi[s] \in pkilled' \/ ~Holds(pi[s])
  /\ c \in Calls =>
       \/ /\ pcall[c].pc = "new" /\ pcall'[c].pc = "stop" /\ pcall'[c].p = pi[s]
          /\ SessionOf(c) = s
       \/ pcall[c].pc = "finish" /\ pcall'[c].pc = "clear" /\ pcall'[c].p = pcall[c].p

LEMMA TakingInv ==
  ASSUME IInv, NEW c, NEW s, Taking(c, s), UNCHANGED <<pjob, wk>>,
         MapTyped', ProcTyped', CallTyped', PumpTyped'
  PROVE  IInv'
<1>1. /\ s \in Sessions /\ pi[s] \in Procs /\ Others(c) /\ pkilled \subseteq pkilled'
      /\ \A t \in Sessions : pi'[t] = IF t = s THEN NoProc ELSE pi[t]
  BY Parts DEF Taking, MapTyped
<1>2. /\ Fewer /\ WorkTyped'
  BY <1>1, Parts DEF Fewer, WorkTyped
<1>3. c \in Calls =>
        \/ /\ pcall[c].pc = "new" /\ pcall'[c].pc = "stop" /\ pcall'[c].p = pi[s]
           /\ SessionOf(c) = s
        \/ pcall[c].pc = "finish" /\ pcall'[c].pc = "clear" /\ pcall'[c].p = pcall[c].p
  BY DEF Taking
<1>4. ASSUME c \in Calls
      PROVE  /\ ~HasLease(c)' /\ (Owner(c)' <=> Owner(c)) /\ pcall'[c].pc # "add"
             /\ Owner(c) => pcall'[c].p = pcall[c].p
             /\ pcall'[c].pc \in HeldSet => pcall[c].pc \in HeldSet /\ pcall'[c].p = pcall[c].p
  BY <1>3, <1>4, SameJob DEF HasLease, Owner, Working, At, HeldSet
<1>5. Placed'
  <2>1. c \in Calls /\ pcall[c].pc = "finish" =>
          Proc(c) \in Procs /\ (Turns(c) \/ Kind(c) = "operation")
    BY Parts DEF Placed, Active
  <2> QED
    BY <1>1, <1>3, <2>1, Parts, PlacedOne DEF Proc
<1>6. Mapped'
  BY <1>1, <1>2, <1>3, Parts, MappedOne DEF Active
<1>7. Adding'
  BY <1>1, <1>2, <1>3, Parts, AddingOne DEF Active
<1>8. Leased'
  <2>1. \A q \in Procs : wk'[q].leases >= wk[q].leases
    BY Parts DEF WorkTyped, WorkerState
  <2> QED
    BY <1>1, <1>2, <1>4, <2>1, Parts, LeasedOne
<1>9. HeldInPlace'
  <2>1. pi[s] \in pkilled' \/ \A d \in Calls : Proc(d) = pi[s] => pcall[d].pc \notin HeldSet
    BY <1>1, Parts, HoldsHeld DEF Taking
  <2> QED
    BY <1>1, <1>4, <2>1, Parts, HeldOne
<1>10. Owned'
  <2>1. \A d \in Calls : Owner(d) => wk'[Proc(d)].busy /\ (Turns(d) => wk'[Proc(d)].recv = d)
    BY Parts DEF Owned
  <2> QED
    BY <1>1, <1>4, <2>1, Parts, OwnedOne DEF Proc
<1>11. BusyHasOwner'
  BY <1>1, <1>2, <1>4, Parts, BusyOne
<1>12. Unmarked'
  BY <1>1, <1>4, Parts, UnmarkedOne
<1> QED
  BY <1>2, <1>5, <1>6, <1>7, <1>8, <1>9, <1>10, <1>11, <1>12, Parts, Whole

\* What such a step leaves typed.
LEMMA TakenTyped ==
  ASSUME IInv, NEW s, s \in Sessions, pi' = [pi EXCEPT ![s] = NoProc],
         NEW p \in Procs, Stopping(p), pkilled' \in {pkilled, pkilled \cup {p}},
         UNCHANGED <<pjob, proc, pump, dialogs, pupsets>>
  PROVE  MapTyped' /\ ProcTyped' /\ PumpTyped'
<1>1. piStop' \subseteq Procs /\ pkilled' \subseteq Procs
  BY Parts, StoppingTyped DEF MapTyped
<1> QED
  BY <1>1, Parts DEF MapTyped, ProcTyped, PumpTyped

LEMMA ReapInv ==
  ASSUME IInv, NEW s \in Sessions, Reap(s) PROVE IInv'
<1>1. /\ pi[s] # NoProc /\ ~Holds(pi[s]) /\ pi' = [pi EXCEPT ![s] = NoProc] /\ Stopping(pi[s])
      /\ UNCHANGED <<pjob, wk, proc, pump, dialogs, pcall, pupsets, pkilled>>
  BY DEF Reap
<1>2. pi[s] \in Procs
  BY <1>1, Parts DEF MapTyped
<1>3. MapTyped' /\ ProcTyped' /\ PumpTyped' /\ CallTyped'
  BY <1>1, <1>2, Parts, TakenTyped DEF CallTyped
<1>4. Taking(NoCall, s)
  BY <1>1, <1>2, PiAssumption DEF Taking, Others, NoCall
<1> QED
  BY <1>1, <1>3, <1>4, TakingInv

LEMMA KillInv ==
  ASSUME IInv, NEW c \in Calls, Kill(c) PROVE IInv'
<1> DEFINE s == SessionOf(c)
           p == pi[s]
           k == [pcall[c] EXCEPT !.pc = "stop", !.p = p]
<1>1. /\ pcall[c].pc = "new" /\ pi' = [pi EXCEPT ![s] = NoProc]
      /\ UNCHANGED <<pjob, wk, proc, pump, dialogs, pupsets>>
      /\ \/ p = NoProc /\ Goto(c, "done") /\ UNCHANGED <<piStop, pkilled>>
         \/ /\ p # NoProc /\ pcall' = [pcall EXCEPT ![c] = k] /\ Stopping(p)
            /\ pkilled' = pkilled \cup {p}
  BY DEF Kill, At
<1>2. s \in Sessions /\ pi \in [Sessions -> Procs \cup {NoProc}] /\ pupsets' \in 0 .. MaxUpsets
  BY <1>1, Parts, JobTyped DEF MapTyped
<1>3. ASSUME p = NoProc, Goto(c, "done"), UNCHANGED <<piStop, pkilled>> PROVE IInv'
  <2>1. pi' = pi
    BY <1>1, <1>2, <1>3
  <2> QED
    BY <1>1, <1>2, <1>3, <2>1, EndsInv
<1>4. ASSUME p # NoProc, pcall' = [pcall EXCEPT ![c] = k], Stopping(p),
             pkilled' = pkilled \cup {p}
      PROVE  IInv'
  <2>1. p \in Procs /\ pcall[c] \in CallState /\ Len(pcall[c].evts) <= Cap
    BY <1>2, <1>4, Parts, CallFacts
  <2>2. k \in CallState /\ k.pc = "stop" /\ k.p = p /\ k.evts = pcall[c].evts
    <3> HIDE DEF p
    <3> QED
      BY <2>1 DEF CallState
  <2> HIDE DEF k
  <2>3. CallTyped' /\ pcall'[c] = k /\ Others(c)
    BY <1>4, <2>1, <2>2, Parts, CallTo DEF Others
  <2>4. MapTyped' /\ ProcTyped' /\ PumpTyped'
    BY <1>1, <1>2, <1>4, <2>1, TakenTyped
  <2>5. Taking(c, s)
    BY <1>1, <1>2, <1>4, <2>1, <2>2, <2>3 DEF Taking
  <2> QED
    BY <1>1, <2>3, <2>4, <2>5, TakingInv
<1> QED
  BY <1>1, <1>3, <1>4

LEMMA FinishInv ==
  ASSUME IInv, NEW c \in Calls, Finish(c) PROVE IInv'
<1> DEFINE s == SessionOf(c)
           p == Proc(c)
<1>1. /\ pcall[c].pc = "finish" /\ Goto(c, "clear")
      /\ UNCHANGED <<pjob, wk, proc, pump, dialogs, pupsets>>
      /\ \/ UNCHANGED <<pi, piStop, pkilled>>
         \/ /\ pi[s] # p /\ pi' = pi /\ Stopping(p) /\ pkilled' = pkilled \cup {p}
         \/ /\ pi[s] = p /\ pi' = [pi EXCEPT ![s] = NoProc] /\ Stopping(p)
            /\ pkilled' = pkilled \cup {p}
  BY DEF Finish, At
<1>2. s \in Sessions /\ p \in Procs
  BY <1>1, Parts, JobTyped DEF Placed, Active
<1>3. CASE UNCHANGED <<pi, piStop, pkilled>>
  BY <1>1, <1>3, GotoInv
<1>4. CallTyped' /\ pcall'[c].pc = "clear" /\ pcall'[c].p = p /\ Others(c)
  BY <1>1, Parts, GotoTyped DEF Others, Proc
<1>5. ASSUME pi[s] # p, pi' = pi, Stopping(p), pkilled' = pkilled \cup {p} PROVE IInv'
  <2>1. MapTyped' /\ ProcTyped' /\ PumpTyped' /\ WorkTyped' /\ Fewer
    BY <1>1, <1>2, <1>5, Parts, StoppingTyped
      DEF MapTyped, ProcTyped, PumpTyped, WorkTyped, Fewer
  <2>2. /\ ~HasLease(c)' /\ (Owner(c)' <=> Owner(c)) /\ "finish" \in Active \cap HeldSet
        /\ pcall'[c].p = pcall[c].p
    BY <1>1, <1>4, SameJob DEF HasLease, Owner, Working, At, HeldSet, Active, Proc
  <2>3. Placed'
    <3>1. Turns(c) \/ Kind(c) = "operation"
      BY <1>1, Parts DEF Placed
    <3> QED
      BY <1>1, <1>2, <1>4, <3>1, Parts, PlacedOne
  <2>4. Mapped' /\ Adding'
    BY <1>1, <1>4, <2>1, <2>2, Parts, MappedOne, AddingOne
  <2>5. Leased'
    <3>1. \A q \in Procs : wk'[q].leases >= wk[q].leases
      BY <1>1, Parts DEF WorkTyped, WorkerState
    <3> QED
      BY <1>1, <1>4, <2>1, <2>2, <3>1, Parts, LeasedOne
  <2>6. HeldInPlace'
    BY <1>1, <1>4, <1>5, <2>2, Parts, HeldOne
  <2>7. Owned'
    <3>1. \A d \in Calls : Owner(d) => wk'[Proc(d)].busy /\ (Turns(d) => wk'[Proc(d)].recv = d)
      BY <1>1, Parts DEF Owned
    <3> QED
      BY <1>1, <1>4, <2>2, <3>1, Parts, OwnedOne DEF Proc
  <2>8. BusyHasOwner'
    BY <1>1, <1>4, <2>1, <2>2, Parts, BusyOne
  <2>9. Unmarked'
    BY <1>1, <1>4, Parts, UnmarkedOne
  <2> QED
    BY <1>4, <2>1, <2>3, <2>4, <2>5, <2>6, <2>7, <2>8, <2>9, Parts, Whole
<1>6. ASSUME pi[s] = p, pi' = [pi EXCEPT ![s] = NoProc], Stopping(p),
             pkilled' = pkilled \cup {p}
      PROVE  IInv'
  <2>1. MapTyped' /\ ProcTyped' /\ PumpTyped'
    BY <1>1, <1>2, <1>6, TakenTyped
  <2>2. Taking(c, s)
    BY <1>1, <1>2, <1>4, <1>6 DEF Taking, Proc
  <2> QED
    BY <1>1, <1>4, <2>1, <2>2, TakingInv
<1> QED
  BY <1>1, <1>3, <1>5, <1>6

(***************************************************************************)
(* Steps that make a process, and put it in the map.                       *)
(***************************************************************************)
LEMMA AbsentTyped == Absent \in ProcState /\ Len(Absent.events) <= Cap
<1> DEFINE none == <<>>
<1>1. none \in Seq(Frame) /\ none \in Seq(Event) /\ Len(none) <= Cap
  BY NoEvents
<1>2. Absent = [up |-> FALSE, done |-> TRUE, session |-> NoProc, run |-> NoCall,
                in |-> {}, out |-> none, events |-> none, reading |-> FALSE,
                pumped |-> FALSE, waits |-> FALSE]
  BY DEF Absent
<1> HIDE DEF none
<1> QED
  BY <1>1, <1>2 DEF ProcState

\* No call at work is on the process, and no session has it.
StartEffect(c) ==
  \E p \in Procs :
    /\ \A s \in Sessions : pi[s] # p
    /\ \A d \in Calls : Proc(d) = p => pcall[d].pc \notin Active
    /\ pcall[c].pc = "new" /\ pcall'[c].pc = "add" /\ pcall'[c].p = p /\ Others(c)
    /\ ~wk'[p].busy /\ wk'[p].leases = (IF Kind(c) = "resume" THEN 0 ELSE 1)
    /\ \A q \in Procs \ {p} : wk'[q] = wk[q]
    /\ pkilled' = pkilled \ {p}

LEMMA StartTyped ==
  ASSUME IInv, NEW c \in Calls, StartClient(c), pcall[c].pc = "new",
         UNCHANGED <<pjob, pi, pump, piStop, dialogs, pupsets>>
  PROVE  /\ MapTyped' /\ ProcTyped' /\ CallTyped' /\ PumpTyped' /\ WorkTyped'
         /\ StartEffect(c)
<1> DEFINE fresh == [Absent EXCEPT !.up = TRUE, !.done = FALSE, !.session = SessionOf(c),
                                   !.reading = TRUE]
           leases == IF Kind(c) = "resume" THEN 0 ELSE 1
           w == [NewWorker EXCEPT !.leases = leases]
<1>1. PICK p \in Procs :
        /\ Forgotten(p) /\ proc' = [proc EXCEPT ![p] = fresh]
        /\ wk' = [wk EXCEPT ![p] = w]
        /\ pcall' = [pcall EXCEPT ![c].pc = "add", ![c].p = p]
        /\ pkilled' = pkilled \ {p}
  BY Zenon DEF StartClient
<1> DEFINE k == [pcall[c] EXCEPT !.pc = "add", !.p = p]
<1>2. SessionOf(c) \in Sessions /\ pcall[c] \in CallState /\ Len(pcall[c].evts) <= Cap
  BY Parts, JobTyped, CallFacts
<1>3. /\ \A s \in Sessions : pi[s] # p
      /\ \A d \in Calls : Proc(d) = p => pcall[d].pc \notin Active
  BY <1>1 DEF Forgotten, Active
<1>4. fresh \in ProcState /\ Len(fresh.events) <= Cap
  BY <1>2, AbsentTyped DEF ProcState
<1>5. w \in WorkerState /\ w.busy = FALSE /\ w.leases = leases
  <2>1. leases \in Nat
    OBVIOUS
  <2> HIDE DEF leases
  <2> QED
    BY <2>1 DEF NewWorker, WorkerState
<1>6. k \in CallState /\ k.evts = pcall[c].evts /\ k.pc = "add" /\ k.p = p
  BY <1>2 DEF CallState
<1>7. ProcTyped'
  <2> HIDE DEF fresh
  <2> QED
    BY <1>1, <1>4, Parts, ProcTo
<1>8. WorkTyped' /\ wk'[p] = w /\ \A q \in Procs \ {p} : wk'[q] = wk[q]
  <2> HIDE DEF w
  <2> QED
    BY <1>1, <1>5, Parts, WorkTo
<1>9. CallTyped' /\ pcall'[c] = k /\ Others(c)
  <2>1. pcall' = [pcall EXCEPT ![c] = k]
    BY <1>1
  <2> HIDE DEF k
  <2> QED
    BY <1>2, <1>6, <2>1, Parts, CallTo DEF Others
<1>10. MapTyped' /\ PumpTyped'
  BY <1>1, Parts DEF MapTyped, PumpTyped
<1>11. StartEffect(c)
  BY <1>1, <1>3, <1>5, <1>6, <1>8, <1>9 DEF StartEffect
<1> QED
  BY <1>7, <1>8, <1>9, <1>10, <1>11

LEMMA StartKept ==
  ASSUME IInv, NEW c \in Calls, StartEffect(c), pjob' = pjob, pi' = pi,
         MapTyped', ProcTyped', CallTyped', PumpTyped', WorkTyped'
  PROVE  IInv'
<1>1. PICK p \in Procs :
        /\ \A s \in Sessions : pi[s] # p
        /\ \A d \in Calls : Proc(d) = p => pcall[d].pc \notin Active
        /\ pcall[c].pc = "new" /\ pcall'[c].pc = "add" /\ pcall'[c].p = p /\ Others(c)
        /\ ~wk'[p].busy /\ wk'[p].leases = (IF Kind(c) = "resume" THEN 0 ELSE 1)
        /\ \A q \in Procs \ {p} : wk'[q] = wk[q]
        /\ pkilled' = pkilled \ {p}
  BY DEF StartEffect
<1>2. Fewer
  BY DEF Fewer
<1>3. ~HasLease(c) /\ ~Owner(c) /\ ~Owner(c)' /\ (HasLease(c)' <=> Kind(c) # "resume")
  BY <1>1, SameJob DEF HasLease, Owner, Working, At
<1>4. ASSUME NEW d \in Calls, d # c
      PROVE  pcall'[d].pc = pcall[d].pc /\ pcall'[d].p = Proc(d)
  BY <1>1, <1>4 DEF Others, Proc
<1>5. Placed'
  BY <1>1, Parts, PlacedOne
<1>6. Mapped'
  BY <1>1, <1>2, Parts, MappedOne
<1>7. Adding'
  <2> SUFFICES ASSUME NEW d \in Calls, pcall'[d].pc = "add"
               PROVE  /\ \A s \in Sessions : pi[s] # pcall'[d].p
                      /\ \A e \in Calls : e # d /\ pcall'[e].p = pcall'[d].p =>
                           pcall'[e].pc \notin Active
    BY DEF Adding, At, Proc
  <2>1. CASE d = c
    BY <1>1, <1>4, <2>1
  <2>2. CASE d # c
    <3>1. pcall[d].pc = "add" /\ pcall'[d].p = Proc(d)
      BY <1>4, <2>2
    <3>2. /\ \A s \in Sessions : pi[s] # Proc(d)
          /\ \A e \in Calls : e # d /\ Proc(e) = Proc(d) => pcall[e].pc \notin Active
      BY <3>1, Parts DEF Adding, At
    <3>3. Proc(d) # p
      BY <1>1, <3>1 DEF Active
    <3> QED
      BY <1>1, <1>4, <3>1, <3>2, <3>3
  <2> QED
    BY <2>1, <2>2
<1>8. Unmarked'
  <2> SUFFICES ASSUME NEW d \in Calls, pcall'[d].pc = "add"
               PROVE  ~wk'[pcall'[d].p].busy
    BY DEF Unmarked, At, Proc
  <2>1. d = c => ~wk'[pcall'[d].p].busy
    BY <1>1
  <2>2. CASE d # c
    <3>1. pcall[d].pc = "add" /\ pcall'[d].p = Proc(d) /\ Proc(d) \in Procs
      BY <1>4, <2>2, Parts DEF Placed, Active
    <3>2. Proc(d) # p /\ ~wk[Proc(d)].busy
      BY <1>1, <3>1, Parts DEF Active, Unmarked, At
    <3> QED
      BY <1>1, <3>1, <3>2
  <2> QED
    BY <2>1, <2>2
<1>9. Leased'
  <2> SUFFICES ASSUME NEW q \in Procs
               PROVE  IsFiniteSet(Holders(q)') /\ Cardinality(Holders(q)') <= wk'[q].leases
    BY DEF Leased
  <2>1. ASSUME NEW d \in Calls, d # c PROVE HasLease(d)' <=> HasLease(d)
    BY <1>4, <2>1, SameJob DEF HasLease, At
  <2>2. CASE q = p
    <3>1. \A d \in Calls : d # c /\ Proc(d) = p => ~HasLease(d)
      BY <1>1 DEF HasLease, At, Active
    <3>2. Holders(q)' = IF Kind(c) = "resume" THEN {} ELSE {c}
      BY <1>1, <1>3, <1>4, <2>1, <2>2, <3>1 DEF Holders, Proc
    <3>3. Kind(c) = "resume" => IsFiniteSet(Holders(q)') /\ Cardinality(Holders(q)') = 0
      BY <3>2, FS_EmptySet
    <3>4. Kind(c) # "resume" => IsFiniteSet(Holders(q)') /\ Cardinality(Holders(q)') = 1
      BY <3>2, FS_Singleton
    <3> QED
      BY <1>1, <2>2, <3>3, <3>4
  <2>3. CASE q # p
    <3>1. Holders(q)' = Holders(q)
      BY <1>1, <1>3, <1>4, <2>1, <2>3 DEF Holders, Proc
    <3>2. wk'[q] = wk[q]
      BY <1>1, <2>3
    <3> QED
      BY <3>1, <3>2, Parts DEF Leased
  <2> QED
    BY <2>2, <2>3
<1>10. HeldInPlace'
  <2> SUFFICES ASSUME NEW d \in Calls, pcall'[d].pc \in HeldSet
               PROVE  pi[SessionOf(d)] = pcall'[d].p \/ pcall'[d].p \in pkilled'
    BY SameJob DEF HeldInPlace, HeldSet, Proc
  <2>1. d # c /\ pcall[d].pc \in HeldSet /\ pcall'[d].p = Proc(d)
    BY <1>1, <1>4 DEF HeldSet
  <2>2. Proc(d) # p /\ (pi[SessionOf(d)] = Proc(d) \/ Proc(d) \in pkilled)
    BY <1>1, <2>1, Parts DEF HeldSet, Active, HeldInPlace
  <2> QED
    BY <1>1, <2>1, <2>2
<1>11. Owned'
  <2>1. ASSUME NEW d \in Calls, Owner(d)
        PROVE  wk'[Proc(d)].busy /\ (Turns(d) => wk'[Proc(d)].recv = d)
    <3>1. Proc(d) \in Procs /\ Proc(d) # p
      BY <1>1, <2>1, Parts DEF Placed, Owner, Working, Active
    <3> QED
      BY <1>1, <2>1, <3>1, Parts DEF Owned
  <2> QED
    BY <1>1, <1>3, <2>1, Parts, OwnedOne
<1>12. BusyHasOwner'
  <2>1. \A s \in Sessions : pi[s] # NoProc => wk'[pi[s]] = wk[pi[s]]
    BY <1>1, Parts DEF MapTyped
  <2> QED
    BY <1>1, <1>2, <1>3, <2>1, Parts, BusyOne
<1> QED
  BY <1>2, <1>5, <1>6, <1>7, <1>8, <1>9, <1>10, <1>11, <1>12, Parts, Whole

LEMMA StartInv ==
  ASSUME IInv, NEW c \in Calls, Start(c) PROVE IInv'
<1>1. pcall[c].pc = "new" /\ UNCHANGED <<pjob, pi, pump, piStop, dialogs>>
  BY DEF Start, At
<1>2. CASE StartClient(c) /\ pupsets' = pupsets
  BY <1>1, <1>2, StartTyped, StartKept
<1>3. CASE Upset /\ Goto(c, "refused") /\ UNCHANGED <<proc, wk, pkilled>>
  <2>1. pupsets' \in 0 .. MaxUpsets
    BY <1>3, Parts, UpsetTyped DEF MapTyped
  <2> QED
    BY <1>1, <1>3, <2>1, EndsInv
<1> QED
  BY <1>2, <1>3 DEF Start

\* The process is its session's; a worker that nothing holds may have gone.
AddEffect(c) ==
  LET s == SessionOf(c)
      p == Proc(c)
  IN
  /\ pcall[c].pc = "add" /\ pi[s] = NoProc /\ pi'[s] = p
  /\ \A t \in Sessions \ {s} :
       \/ pi'[t] = pi[t]
       \/ pi'[t] = NoProc /\ pi[t] \in Procs /\ ~Holds(pi[t])
  /\ pcall'[c].p = p /\ Others(c)
  /\ \/ pcall'[c].pc = "done" /\ Kind(c) = "resume"
     \/ pcall'[c].pc = "begin" /\ Kind(c) # "resume"

LEMMA AddKept ==
  ASSUME IInv, NEW c \in Calls, AddEffect(c), UNCHANGED <<pjob, wk, pkilled>>, Bounded',
         MapTyped', ProcTyped', CallTyped', PumpTyped'
  PROVE  IInv'
<1> DEFINE s == SessionOf(c)
           p == Proc(c)
<1>1. /\ pcall[c].pc = "add" /\ pi[s] = NoProc /\ pi'[s] = p
      /\ \A t \in Sessions \ {s} :
           \/ pi'[t] = pi[t]
           \/ pi'[t] = NoProc /\ pi[t] \in Procs /\ ~Holds(pi[t])
      /\ pcall'[c].p = p /\ Others(c)
      /\ \/ pcall'[c].pc = "done" /\ Kind(c) = "resume"
         \/ pcall'[c].pc = "begin" /\ Kind(c) # "resume"
  BY DEF AddEffect
<1>2. /\ s \in Sessions /\ p \in Procs /\ p # NoProc
      /\ \A t \in Sessions : pi[t] # p
      /\ \A d \in Calls : d # c /\ Proc(d) = p => pcall[d].pc \notin Active
      /\ ~wk[p].busy
  BY <1>1, Parts, JobTyped, PiAssumption DEF Placed, Active, Adding, Unmarked, At
<1>3. ASSUME NEW d \in Calls, d # c
      PROVE  pcall'[d].pc = pcall[d].pc /\ pcall'[d].p = Proc(d)
  BY <1>1, <1>3 DEF Others, Proc
<1>4. /\ ~Owner(c) /\ ~Owner(c)' /\ (HasLease(c)' => HasLease(c)) /\ pcall'[c].pc # "add"
      /\ pcall'[c].pc \notin {"run", "grace", "finish", "clear"}
  BY <1>1, SameJob DEF HasLease, Owner, Working, At
<1>5. Placed'
  BY <1>1, <1>2, <1>4, Parts, PlacedOne
<1>6. ASSUME NEW t \in Live', t # s PROVE t \in Live /\ pi'[t] = pi[t] /\ pi[t] # p
  BY <1>1, <1>2, <1>6 DEF Live
<1>7. Mapped'
  <2>1. ASSUME NEW t \in Live', NEW u \in Live', pi'[u] = pi'[t] PROVE u = t
    <3>1. CASE t = s
      BY <1>1, <1>6, <2>1, <3>1
    <3>2. CASE t # s
      <4>1. t \in Live /\ pi'[t] = pi[t] /\ pi[t] # p
        BY <1>6, <3>2
      <4>2. u # s
        BY <1>1, <2>1, <4>1
      <4>3. u \in Live /\ pi'[u] = pi[u]
        BY <1>6, <4>2
      <4> QED
        BY <2>1, <4>1, <4>3, Parts DEF Mapped
    <3> QED
      BY <3>1, <3>2
  <2>2. ASSUME NEW t \in Live', NEW d \in Calls, pcall'[d].pc \in Active, pcall'[d].p = pi'[t]
        PROVE  SessionOf(d) = t
    <3>1. CASE d = c
      BY <1>1, <1>6, <2>2, <3>1
    <3>2. CASE d # c
      <4>1. pcall[d].pc \in Active /\ Proc(d) = pi'[t]
        BY <1>3, <2>2, <3>2
      <4>2. t # s
        BY <1>1, <1>2, <3>2, <4>1
      <4> QED
        BY <1>6, <4>1, <4>2, Parts DEF Mapped
    <3> QED
      BY <3>1, <3>2
  <2> QED
    BY <2>1, <2>2, SameJob DEF Mapped, Proc, Active
<1>8. Adding'
  <2> SUFFICES ASSUME NEW d \in Calls, pcall'[d].pc = "add"
               PROVE  /\ \A t \in Sessions : pi'[t] # pcall'[d].p
                      /\ \A e \in Calls : e # d /\ pcall'[e].p = pcall'[d].p =>
                           pcall'[e].pc \notin Active
    BY DEF Adding, At, Proc, Active
  <2>1. d # c /\ pcall[d].pc = "add" /\ pcall'[d].p = Proc(d)
    BY <1>3, <1>4
  <2>2. /\ \A t \in Sessions : pi[t] # Proc(d)
        /\ \A e \in Calls : e # d /\ Proc(e) = Proc(d) => pcall[e].pc \notin Active
        /\ Proc(d) # NoProc
    BY <2>1, Parts, PiAssumption DEF Adding, At, Placed, Active
  <2>3. Proc(d) # p
    BY <1>1, <2>1, <2>2 DEF Active
  <2>4. \A t \in Sessions : pi'[t] # Proc(d)
    BY <1>1, <2>2, <2>3
  <2> QED
    BY <1>1, <1>3, <2>1, <2>2, <2>3, <2>4
<1>9. Unmarked'
  BY <1>1, <1>4, Parts, UnmarkedOne
<1>10. Leased'
  <2>1. \A q \in Procs : wk'[q].leases >= wk[q].leases
    BY Parts DEF WorkTyped, WorkerState
  <2>2. WorkTyped'
    BY Parts DEF WorkTyped
  <2> QED
    BY <1>1, <1>4, <2>1, <2>2, Parts, LeasedOne DEF Proc
<1>11. HeldInPlace'
  <2>1. ASSUME NEW t \in Sessions
        PROVE  \/ pi'[t] = pi[t] \/ pi[t] \in pkilled'
               \/ \A d \in Calls : Proc(d) = pi[t] => pcall[d].pc \notin HeldSet
    <3>1. CASE t = s
      BY <1>1, <3>1, Parts, PiAssumption DEF Placed, Active, HeldSet
    <3>2. CASE t # s
      BY <1>1, <3>2, Parts, HoldsHeld
    <3> QED
      BY <3>1, <3>2
  <2> QED
    BY <1>1, <2>1, Parts, HeldOne
<1>12. Owned'
  <2>1. \A d \in Calls : Owner(d) => wk'[Proc(d)].busy /\ (Turns(d) => wk'[Proc(d)].recv = d)
    BY Parts DEF Owned
  <2> QED
    BY <1>1, <1>4, <2>1, Parts, OwnedOne
<1>13. BusyHasOwner'
  <2> SUFFICES ASSUME NEW t \in Live', wk[pi'[t]].busy
               PROVE  \E d \in Calls : pcall'[d].p = pi'[t] /\ Owner(d)'
    BY DEF BusyHasOwner, Owner, Working, Proc
  <2>1. t # s
    BY <1>1, <1>2
  <2>2. t \in Live /\ pi'[t] = pi[t]
    BY <1>6, <2>1
  <2>3. PICK d \in Calls : Proc(d) = pi[t] /\ Owner(d)
    BY <2>2, Parts DEF BusyHasOwner, Owner, Working
  <2>4. d # c /\ Owner(d)'
    BY <1>3, <1>4, <2>3, SameJob DEF Owner
  <2> QED
    BY <1>3, <2>2, <2>3, <2>4
<1>14. WorkTyped'
  BY Parts DEF WorkTyped
<1> QED
  BY <1>5, <1>7, <1>8, <1>9, <1>10, <1>11, <1>12, <1>13, <1>14 DEF IInv, Links, Typed

\* One worker more than before, or one for another.
LEMMA AddBound ==
  ASSUME IInv, NEW s \in Sessions, NEW p \in Procs, pi[s] = NoProc,
         \/ ~Full /\ pi' = [pi EXCEPT ![s] = p]
         \/ \E v \in Live : pi' = [pi EXCEPT ![v] = NoProc, ![s] = p]
  PROVE  Bounded'
<1>1. /\ pi \in [Sessions -> Procs \cup {NoProc}] /\ p # NoProc /\ s \notin Live
      /\ IsFiniteSet(Live) /\ Cardinality(Live) <= Max /\ Cardinality(Live) \in Nat
      /\ Max \in Nat
  BY Parts, FS_CardinalityType, PiAssumption DEF MapTyped, Bounded, Live
<1>2. CASE ~Full /\ pi' = [pi EXCEPT ![s] = p]
  <2>1. Live' = Live \cup {s}
    BY <1>1, <1>2 DEF Live
  <2>2. IsFiniteSet(Live') /\ Cardinality(Live') = Cardinality(Live) + 1
    BY <1>1, <2>1, FS_AddElement
  <2>3. Cardinality(Live) < Max
    BY <1>1, <1>2 DEF Full
  <2> QED
    BY <1>1, <2>2, <2>3 DEF Bounded
<1>3. ASSUME NEW v \in Live, pi' = [pi EXCEPT ![v] = NoProc, ![s] = p] PROVE Bounded'
  <2> DEFINE L == Live \ {v}
  <2>1. Live' = L \cup {s} /\ s \notin L
    BY <1>1, <1>3 DEF Live
  <2>2. IsFiniteSet(L) /\ Cardinality(L) = Cardinality(Live) - 1
    BY <1>1, FS_RemoveElement
  <2>3. IsFiniteSet(Live') /\ Cardinality(Live') = Cardinality(L) + 1
    BY <2>1, <2>2, FS_AddElement
  <2> HIDE DEF L
  <2> QED
    BY <1>1, <2>2, <2>3 DEF Bounded
<1> QED
  BY <1>2, <1>3

LEMMA AddInv ==
  ASSUME IInv, NEW c \in Calls, Add(c) PROVE IInv'
<1> DEFINE s == SessionOf(c)
           p == Proc(c)
           r == proc[p]
           q == [r EXCEPT !.pumped = TRUE]
<1>1. pcall[c].pc = "add" /\ UNCHANGED <<pjob, wk, pump, dialogs, pupsets, pkilled>>
  BY DEF Add, At
<1>2. s \in Sessions /\ p \in Procs /\ pi \in [Sessions -> Procs \cup {NoProc}]
  BY <1>1, Parts, JobTyped DEF Placed, Active, MapTyped
<1>3. /\ r \in ProcState /\ Len(r.events) <= Cap
  BY <1>2, Parts, ProcFacts
<1>4. q \in ProcState /\ q.events = r.events
  <2> HIDE DEF r
  <2> QED
    BY <1>3 DEF ProcState
<1>5. \/ /\ pi[s] = NoProc /\ ~Full /\ pi' = [pi EXCEPT ![s] = p] /\ Goto(c, Added(c))
         /\ piStop' = piStop /\ proc' = [proc EXCEPT ![p] = q]
      \/ \E v \in Live :
           /\ pi[s] = NoProc /\ ~Holds(pi[v]) /\ pi' = [pi EXCEPT ![v] = NoProc, ![s] = p]
           /\ Stopping(pi[v]) /\ Goto(c, Added(c)) /\ proc' = [proc EXCEPT ![p] = q]
      \/ Goto(c, "stop") /\ Stopping(p) /\ UNCHANGED <<pi, proc>>
  BY DEF Add
<1> HIDE DEF q
<1>6. CASE Goto(c, "stop") /\ Stopping(p) /\ UNCHANGED <<pi, proc>>
  BY <1>1, <1>6, AddFailsInv DEF At
<1>7. ASSUME pi[s] = NoProc, Goto(c, Added(c)), proc' = [proc EXCEPT ![p] = q],
             piStop' \subseteq Procs,
             \/ ~Full /\ pi' = [pi EXCEPT ![s] = p]
             \/ \E v \in Live : ~Holds(pi[v]) /\ pi' = [pi EXCEPT ![v] = NoProc, ![s] = p]
      PROVE  IInv'
  <2>1. Bounded'
    BY <1>2, <1>7, AddBound
  <2>2. Added(c) \in {"done", "begin"}
    BY DEF Added
  <2>3. CallTyped' /\ pcall'[c].pc = Added(c) /\ pcall'[c].p = p /\ Others(c)
    BY <1>7, <2>2, Parts, GotoTyped DEF Others, Proc
  <2>4. ProcTyped'
    BY <1>2, <1>3, <1>4, <1>7, Parts, ProcTo
  <2>5. MapTyped' /\ PumpTyped'
    <3>1. pi' \in [Sessions -> Procs \cup {NoProc}]
      BY <1>2, <1>7 DEF Live
    <3> QED
      BY <1>1, <1>7, <3>1, Parts DEF MapTyped, PumpTyped
  <2>6. AddEffect(c)
    <3>1. /\ pi'[s] = p
          /\ \A t \in Sessions \ {s} :
               \/ pi'[t] = pi[t]
               \/ pi'[t] = NoProc /\ pi[t] \in Procs /\ ~Holds(pi[t])
      BY <1>2, <1>7 DEF Live
    <3>2. \/ pcall'[c].pc = "done" /\ Kind(c) = "resume"
          \/ pcall'[c].pc = "begin" /\ Kind(c) # "resume"
      BY <2>3 DEF Added
    <3> QED
      BY <1>1, <1>7, <2>3, <3>1, <3>2 DEF AddEffect
  <2> QED
    BY <1>1, <2>1, <2>3, <2>4, <2>5, <2>6, AddKept
<1>8. ASSUME NEW v \in Live, pi[s] = NoProc, ~Holds(pi[v]),
             pi' = [pi EXCEPT ![v] = NoProc, ![s] = p], Stopping(pi[v]), Goto(c, Added(c)),
             proc' = [proc EXCEPT ![p] = q]
      PROVE  IInv'
  <2>1. piStop' \subseteq Procs
    BY <1>2, Parts, <1>8, StoppingTyped DEF Live, MapTyped
  <2> QED
    BY <1>7, <1>8, <2>1
<1>9. piStop \subseteq Procs
  BY Parts DEF MapTyped
<1> QED
  BY <1>5, <1>6, <1>7, <1>8, <1>9

(***************************************************************************)
(* The theorem.                                                            *)
(***************************************************************************)
LEMMA InitIInv == Init => IInv
<1> SUFFICES ASSUME Init PROVE IInv
  OBVIOUS
<1>1. /\ pjob \in PiJobs /\ pi = [s \in Sessions |-> NoProc]
      /\ wk = [p \in Procs |-> NewWorker] /\ proc = [p \in Procs |-> Absent]
      /\ pump = [p \in Procs |-> NoHold] /\ piStop = {} /\ pkilled = {} /\ dialogs = {}
      /\ pupsets = 0
      /\ pcall = [c \in Calls |-> [pc |-> "new", p |-> NoProc, box |-> "none", evts |-> <<>>,
                                   attached |-> FALSE, ended |-> NoCall]]
  BY DEF Init
<1>2. MapTyped
  BY <1>1, PiAssumption DEF MapTyped
<1>3. ProcTyped
  BY <1>1, AbsentTyped DEF ProcTyped
<1>4. CallTyped /\ \A c \in Calls : pcall[c].pc = "new"
  <2> DEFINE none == <<>>
             k == [pc |-> "new", p |-> NoProc, box |-> "none", evts |-> none,
                   attached |-> FALSE, ended |-> NoCall]
  <2>1. none \in Seq(Event) /\ Len(none) <= Cap
    BY NoEvents
  <2>2. pcall = [c \in Calls |-> k]
    BY <1>1
  <2> HIDE DEF none
  <2>3. k \in CallState /\ k.pc = "new" /\ k.evts = none
    BY <2>1 DEF CallState
  <2> HIDE DEF k
  <2> QED
    BY <2>1, <2>2, <2>3 DEF CallTyped
<1>5. PumpTyped
  BY <1>1 DEF PumpTyped, PumpState, NoHold, Event, Owners
<1>6. WorkTyped /\ \A p \in Procs : wk[p].leases = 0
  BY <1>1 DEF WorkTyped, WorkerState, NewWorker
<1>7. Live = {}
  BY <1>1 DEF Live
<1>8. Bounded
  BY <1>7, FS_EmptySet, PiAssumption DEF Bounded
<1>9. \A c \in Calls : ~HasLease(c) /\ ~Owner(c)
  BY <1>4 DEF HasLease, Owner, Working, At
<1>10. Leased
  <2>1. \A p \in Procs : Holders(p) = {}
    BY <1>9 DEF Holders
  <2> QED
    BY <1>6, <2>1, FS_EmptySet DEF Leased
<1>11. Placed /\ Adding /\ Unmarked /\ HeldInPlace
  BY <1>4 DEF Placed, Active, Adding, At, Unmarked, HeldInPlace
<1>12. Owned
  BY <1>9 DEF Owned
<1>13. Mapped /\ BusyHasOwner
  BY <1>7 DEF Mapped, BusyHasOwner
<1> QED
  BY <1>2, <1>3, <1>4, <1>5, <1>6, <1>8, <1>10, <1>11, <1>12, <1>13 DEF IInv, Links, Typed

LEMMA StutterInv ==
  ASSUME IInv, UNCHANGED piVars PROVE IInv'
<1>1. Typed'
  BY Parts DEF piVars, Typed, MapTyped, ProcTyped, CallTyped, PumpTyped, WorkTyped
<1> QED
  BY <1>1, QuietInv DEF piVars

LEMMA IInvStep == IInv /\ [Next]_piVars => IInv'
<1> SUFFICES ASSUME IInv, [Next]_piVars PROVE IInv'
  OBVIOUS
<1>1. ASSUME NEW c \in Calls, Called(c) PROVE IInv'
  BY <1>1, LeaseInv, StartInv, RenameFileInv, KillInv DEF Called
<1>2. ASSUME NEW c \in Calls, Turn(c) PROVE IInv'
  <2>1. CASE Add(c) \/ Stopped(c) \/ BeginTurn(c) \/ BeginOperation(c)
    BY <2>1, AddInv, StoppedInv, BeginTurnInv, BeginOperationInv
  <2>2. CASE AnsweredTurn(c) \/ AnsweredOperation(c) \/ Hear(c) \/ Grace(c)
    BY <2>2, AnsweredTurnInv, AnsweredOperationInv, HearInv, GraceInv
  <2>3. CASE Finish(c) \/ Clear(c) \/ Detach(c)
    BY <2>3, FinishInv, ClearInv, DetachInv
  <2> QED
    BY <1>2, <2>1, <2>2, <2>3 DEF Turn
<1>3. ASSUME NEW c \in Calls, Answer(c) \/ Cancel(c) PROVE IInv'
  BY <1>3, AnswerInv, CancelInv
<1>4. ASSUME NEW p \in Procs, Reader(p) \/ Pumps(p) \/ Respond(p) PROVE IInv'
  BY <1>4, ReadInv, ReadEndInv, PumpInv, DeliverInv, RespondInv DEF Reader, Pumps
<1>5. ASSUME NEW p \in Procs, Asks(p) \/ Settle(p) \/ ExtensionActs(p) \/ Exit(p) PROVE IInv'
  BY <1>5, AsksInv, ExtensionInv, ExitInv
<1>6. ASSUME NEW s \in Sessions, Reap(s) PROVE IInv'
  BY <1>6, ReapInv
<1>7. CASE UNCHANGED piVars
  BY <1>7, StutterInv
<1> QED
  BY <1>1, <1>2, <1>3, <1>4, <1>5, <1>6, <1>7 DEF Next

LEMMA IInvImplies == IInv => InPlace
<1> SUFFICES ASSUME IInv PROVE InPlace
  OBVIOUS
<1>1. TypeOK
  BY TypeOKTyped DEF IInv, Bounded
<1>2. TurnListens
  BY Parts DEF TurnListens, Placed, Owned, Owner, Working, Proc
<1> QED
  BY <1>1, <1>2, Parts DEF InPlace

(* The variables keep their types and the map its bound, whatever the       *)
(* number of sessions, of calls and of processes (pkg/pi/runtime.go:1448):  *)
(* a worker that a call leases or a turn runs on stays in the map unless it *)
(* was killed, rebound or failed to be created (1360-1364, 1453); a worker  *)
(* that is busy is so for a call that will clear it (987-994, 1128-1153),   *)
(* and a turn that runs has its worker's events, whatever the turn before   *)
(* it still has to undo (456-465).                                          *)
THEOREM PiInPlace == Spec => []InPlace
<1>1. Init => IInv
  BY InitIInv
<1>2. IInv /\ [Next]_piVars => IInv'
  BY IInvStep
<1>3. IInv => InPlace
  BY IInvImplies
<1> QED
  BY <1>1, <1>2, <1>3, PTL DEF Spec

=============================================================================
