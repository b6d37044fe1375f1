-------------------------- MODULE ClaudePoolProofs ---------------------------
(***************************************************************************)
(* Proofs about ClaudePool, for every set of sessions and of calls, every  *)
(* size of the pool and every number of frames that nobody has read.       *)
(***************************************************************************)
EXTENDS ClaudePool, FiniteSetTheorems, SequenceTheorems, TLAPS

Frame == [cmd : Commands, state : {"started", "ended"}]

ClaudeState == [os : {"none", "up", "exited"}, inbox : Seq(Calls), run : Seq(Commands),
                out : Seq(Frame), threw : SUBSET Commands]

ProcState == [init : {"wait", "ok", "err"}, leases : Nat, turns : Seq(Turn),
              work : SUBSET Owns, stopping : BOOLEAN, gone : {"no", "done", "told"}]

CallState == [pc : {"new", "init", "clean", "wait", "append", "write", "undo", "pass",
                    "fail", "done", "refused"},
              p : Procs \cup {NoProc}, told : BOOLEAN]

\* TypeOK but for the bound of the pool.
Typed ==
  /\ job \in Jobs /\ pool \in [Sessions -> Procs \cup {NoProc}]
  /\ proc \in [Procs -> ProcState] /\ claude \in [Procs -> ClaudeState]
  /\ call \in [Calls -> CallState] /\ stops \subseteq Procs /\ started \subseteq Owns
  /\ upsets \in 0 .. MaxUpsets /\ killed \subseteq Procs /\ panicked \in BOOLEAN

(***************************************************************************)
(* The strengthening, first what ties calls, processes and leases.  Mapped *)
(* and Blank say which process a call and a session may refer to, OneSend  *)
(* that the router sends to a session one call at a time, and Leased that  *)
(* a send on its way holds a lease.                                        *)
(***************************************************************************)
OnTheWay == {"init", "clean", "wait", "append", "write", "undo", "pass", "fail"}

Mapped ==
  /\ \A s \in Sessions : pool[s] # NoProc => SessionOf(pool[s]) = s
  /\ \A c \in Calls :
       /\ call[c].p # NoProc => SessionOf(call[c].p) = SessionOf(c)
       /\ call[c].pc = "new" => claude[c].os = "none"
       /\ call[c].pc \in OnTheWay \cup {"done"} => call[c].p # NoProc
       /\ call[c].pc \in {"init", "clean"} => call[c].p = c
       /\ call[c].pc \in {"append", "write", "undo", "pass"} => c \in Sends
       /\ call[c].pc \in {"new", "init"} => proc[c].init = "wait"
       /\ call[c].pc = "clean" => proc[c].init = "err"

\* Nothing refers to a process that was never started.
Blank ==
  \A p \in Procs : claude[p].os = "none" =>
    /\ claude[p].inbox = <<>> /\ claude[p].run = <<>> /\ claude[p].out = <<>>
    /\ proc[p].turns = <<>> /\ proc[p].gone = "no"
    /\ \A s \in Sessions : pool[s] # p
    /\ \A c \in Calls : call[c].p # p

OneSend ==
  \A c, d \in Sends :
    /\ SessionOf(c) = SessionOf(d)
    /\ call[c].pc \in OnTheWay /\ call[d].pc \in OnTheWay
    => c = d

Leased == \A c \in Sends : call[c].pc \in OnTheWay => proc[call[c].p].leases > 0

(***************************************************************************)
(* Then the order of the queue against what Claude has read, runs and has  *)
(* written.  A command is over when it threw or its end is in stdout; the  *)
(* others are in line: they run, or wait in stdin.                         *)
(***************************************************************************)
IsIn(x, seq) == \E m \in DOMAIN seq : seq[m] = x

Before(seq, y, x) == \E m, n \in DOMAIN seq : m < n /\ seq[m] = y /\ seq[n] = x

Unique(seq) == \A m, n \in DOMAIN seq : seq[m] = seq[n] => m = n

InLine(k, x) == IsIn(x, k.run) \/ IsIn(x, k.inbox)

Taken(k, x) == InLine(k, x) \/ x \in k.threw

Over(k, y) ==
  y \in k.threw \/ \E f \in DOMAIN k.out : k.out[f].cmd = y /\ k.out[f].state = "ended"

Ahead(k, y, x) ==
  \/ Over(k, y)
  \/ Before(k.run, y, x)
  \/ IsIn(y, k.run) /\ IsIn(x, k.inbox)
  \/ Before(k.inbox, y, x)

\* A command is in one place, and its frames come in their order.
Piped(k) ==
  /\ Unique(k.run) /\ Unique(k.inbox)
  /\ \A x \in Commands : ~(IsIn(x, k.run) /\ IsIn(x, k.inbox))
  /\ \A f \in DOMAIN k.out :
       /\ k.out[f].state = "started" => ~IsIn(k.out[f].cmd, k.inbox)
       /\ k.out[f].state = "ended" => ~InLine(k, k.out[f].cmd)
       /\ \A g \in DOMAIN k.out :
            k.out[f].cmd = k.out[g].cmd /\ k.out[f].state = "started"
              /\ k.out[g].state = "ended" => f < g

\* The turns that have started come first.  What is ahead of a command in line,
\* in the queue or in stdout, is over or ahead of it in the line too; and of
\* what is ahead of one whose start is in stdout, a frame was read or comes first.
Ranked(turns) ==
  /\ \A i, j \in DOMAIN turns : turns[i].cmd = turns[j].cmd => i = j
  /\ \A i, j \in DOMAIN turns : j < i /\ turns[i].started => turns[j].started

Queued(k, turns) ==
  /\ \A i, j \in DOMAIN turns :
       j < i /\ InLine(k, turns[i].cmd) => Ahead(k, turns[j].cmd, turns[i].cmd)
  /\ \A i \in DOMAIN turns : turns[i].started /\ k.os = "up" =>
       Over(k, turns[i].cmd) \/ IsIn(turns[i].cmd, k.run)
  /\ \A i \in DOMAIN turns :
       /\ ~turns[i].started
       /\ IsIn(turns[i].cmd, k.run) \/ turns[i].cmd \in k.threw
       => \E f \in DOMAIN k.out : k.out[f].cmd = turns[i].cmd /\ k.out[f].state = "started"

Announced(k, turns, f) ==
  /\ k.os = "up" => Over(k, k.out[f].cmd) \/ IsIn(k.out[f].cmd, k.run)
  /\ IsIn(k.out[f].cmd, k.run) =>
       /\ \A j \in DOMAIN turns :
            turns[j].started /\ turns[j].cmd # k.out[f].cmd
              => Ahead(k, turns[j].cmd, k.out[f].cmd)
       /\ \A e \in DOMAIN k.out :
            e < f /\ k.out[e].state = "started" /\ k.out[e].cmd # k.out[f].cmd
              => Ahead(k, k.out[e].cmd, k.out[f].cmd)
  /\ \A i, j \in DOMAIN turns : turns[i].cmd = k.out[f].cmd /\ j < i =>
       turns[j].started \/ \E e \in DOMAIN k.out : e < f /\ k.out[e].cmd = turns[j].cmd

Ordered(k, turns) ==
  /\ Ranked(turns) /\ Queued(k, turns)
  /\ \A f \in DOMAIN k.out : k.out[f].state = "started" => Announced(k, turns, f)

\* Where each command comes from.
Given(p, x) ==
  IF x \in Calls THEN call[x].p = p /\ call[x].pc \in {"pass", "done"} ELSE x \in started

Origin(p) ==
  /\ \A x \in Commands : Taken(claude[p], x) => Given(p, x)
  /\ \A f \in DOMAIN claude[p].out : Given(p, claude[p].out[f].cmd)
  /\ \A i \in DOMAIN proc[p].turns :
       LET t == proc[p].turns[i] IN
       \/ Given(p, t.cmd)
       \/ /\ t.cmd \in Calls /\ ~t.foreign /\ ~t.started
          /\ call[t.cmd].p = p /\ call[t.cmd].pc \in {"write", "undo"}

\* A turn whose command was written is over or in line.
Written(p) ==
  claude[p].os = "up" =>
    \A i \in DOMAIN proc[p].turns :
      LET x == proc[p].turns[i].cmd IN
      Given(p, x) => Over(claude[p], x) \/ InLine(claude[p], x)

Flow(p) ==
  /\ claude[p].os # "up" =>
       claude[p].run = <<>> /\ claude[p].inbox = <<>> /\ claude[p].threw = {}
  /\ proc[p].gone # "no" => claude[p].os = "exited"
  /\ Piped(claude[p]) /\ Ordered(claude[p], proc[p].turns)
  /\ Origin(p) /\ Written(p)

Flows == \A p \in Procs : Flow(p)

(***************************************************************************)
(* Last, whose turn a send may take back, and who is still to be told.     *)
(***************************************************************************)
Has(c, turns) == \E i \in DOMAIN turns : turns[i].cmd = c /\ ~turns[i].foreign

\* A turn that was queued and not written is the last, or was dropped, and then
\* no other call's is there.
MayTake(c, turns) ==
  \/ /\ turns # <<>> /\ turns[Len(turns)].cmd = c
     /\ ~turns[Len(turns)].foreign /\ ~turns[Len(turns)].started
  \/ \A i \in DOMAIN turns : turns[i].foreign /\ turns[i].cmd # c

Takeable ==
  \A c \in Calls : call[c].pc \in {"write", "undo"} => MayTake(c, proc[call[c].p].turns)

Owed ==
  \A c \in Sends : call[c].pc \in {"write", "undo", "pass", "done"} =>
    call[c].told \/ Has(c, proc[call[c].p].turns)

Ties == Mapped /\ Blank /\ OneSend /\ Leased /\ HeldInPlace

Bounded == IsFiniteSet(Live) /\ Cardinality(Live) <= MaxLive

IInv == Typed /\ Bounded /\ Ties /\ Flows /\ Takeable /\ Owed

(***************************************************************************)
(* Sequences.  r is s without its i-th element, or with e put before it;   *)
(* Tail, Front, RemoveAt, Append and InsertAt do one of these.             *)
(***************************************************************************)
Without(s, i, r) ==
  /\ Len(r) = Len(s) - 1
  /\ \A j \in 1 .. Len(s) - 1 : r[j] = s[IF j < i THEN j ELSE j + 1]

With(s, i, e, r) ==
  /\ Len(r) = Len(s) + 1 /\ r[i] = e
  /\ \A j \in 1 .. Len(s) : j < i => r[j] = s[j]
  /\ \A j \in 1 .. Len(s) : j >= i => r[j + 1] = s[j]

\* Taking one element out closes the gap it leaves (slices.Delete of a turn).
LEMMA RemoveAtFacts ==
  ASSUME NEW S, NEW q \in Seq(S), NEW i \in DOMAIN q
  PROVE  RemoveAt(q, i) \in Seq(S) /\ Without(q, i, RemoveAt(q, i))
<1> DEFINE before == SubSeq(q, 1, i - 1)
           after == SubSeq(q, i + 1, Len(q))
<1>1. Len(q) \in Nat /\ DOMAIN q = 1 .. Len(q)
  BY LenProperties
<1>2. /\ before \in Seq(S) /\ Len(before) = i - 1
      /\ \A j \in 1 .. i - 1 : before[j] = q[j]
  BY <1>1
<1>3. /\ after \in Seq(S) /\ Len(after) = Len(q) - i
      /\ \A j \in 1 .. Len(q) - i : after[j] = q[i + j]
  BY <1>1
<1> HIDE DEF before, after
<1>4. /\ before \o after \in Seq(S)
      /\ Len(before \o after) = Len(before) + Len(after)
      /\ \A j \in 1 .. Len(before) + Len(after) :
           (before \o after)[j] =
             IF j <= Len(before) THEN before[j] ELSE after[j - Len(before)]
  BY <1>2, <1>3, ConcatProperties, Zenon
<1>5. i \in Int /\ 1 <= i /\ i <= Len(q) /\ Len(before) + Len(after) = Len(q) - 1
  BY <1>1, <1>2, <1>3
<1>6. \A j \in 1 .. Len(q) - 1 : (before \o after)[j] = q[IF j < i THEN j ELSE j + 1]
  <2> TAKE j \in 1 .. Len(q) - 1
  <2>1. CASE j < i
    BY <2>1, <1>1, <1>2, <1>4, <1>5
  <2>2. CASE ~(j < i)
    <3>1. j - (i - 1) \in 1 .. Len(q) - i /\ i + (j - (i - 1)) = j + 1
      BY <2>2, <1>1, <1>5
    <3>2. (before \o after)[j] = after[j - Len(before)]
      <4>1. j \in 1 .. Len(before) + Len(after) /\ ~(j <= Len(before))
        BY <2>2, <1>2, <1>5
      <4> QED
        BY <4>1, <1>4
    <3> QED
      BY <2>2, <3>1, <3>2, <1>2, <1>3
  <2> QED
    BY <2>1, <2>2
<1> QED
  BY <1>4, <1>5, <1>6 DEF RemoveAt, Without, before, after

LEMMA TailFacts ==
  ASSUME NEW S, NEW q \in Seq(S), q # <<>>
  PROVE  Tail(q) \in Seq(S) /\ Head(q) = q[1] /\ 1 \in DOMAIN q /\ Without(q, 1, Tail(q))
BY DEF Without

LEMMA FrontFacts ==
  ASSUME NEW S, NEW q \in Seq(S), q # <<>>
  PROVE  /\ Front(q) \in Seq(S) /\ Len(q) \in DOMAIN q
         /\ Without(q, Len(q), Front(q))
BY DEF Without, Front

LEMMA AppendFacts ==
  ASSUME NEW S, NEW q \in Seq(S), NEW e \in S
  PROVE  /\ Append(q, e) \in Seq(S) /\ With(q, Len(q) + 1, e, Append(q, e))
         /\ Len(q) + 1 \in 1 .. Len(q) + 1
BY DEF With

LEMMA InsertAtFacts ==
  ASSUME NEW S, NEW q \in Seq(S), NEW e \in S, NEW i \in DOMAIN q
  PROVE  InsertAt(q, i, e) \in Seq(S) /\ With(q, i, e, InsertAt(q, i, e))
<1> DEFINE before == SubSeq(q, 1, i - 1)
           after == SubSeq(q, i, Len(q))
           one == <<e>>
<1>1. Len(q) \in Nat /\ i \in 1 .. Len(q)
  OBVIOUS
<1>2. /\ before \in Seq(S) /\ Len(before) = i - 1
      /\ \A j \in 1 .. i - 1 : before[j] = q[j]
  BY <1>1
<1>3. /\ after \in Seq(S) /\ Len(after) = Len(q) - i + 1
      /\ \A j \in 1 .. Len(q) - i + 1 : after[j] = q[i + j - 1]
  BY <1>1
<1>4. one \in Seq(S) /\ Len(one) = 1 /\ one[1] = e
  OBVIOUS
<1> HIDE DEF before, after, one
<1> DEFINE r == before \o one \o after
<1>5. /\ r \in Seq(S) /\ Len(r) = Len(q) + 1
      /\ \A j \in 1 .. Len(q) + 1 :
           r[j] = IF j < i THEN before[j] ELSE IF j = i THEN e ELSE after[j - i]
  <2> DEFINE front == before \o one
  <2>1. /\ front \in Seq(S) /\ Len(front) = i
        /\ \A j \in 1 .. i : front[j] = IF j < i THEN before[j] ELSE e
    <3>1. /\ before \o one \in Seq(S) /\ Len(before \o one) = Len(before) + Len(one)
          /\ \A j \in 1 .. Len(before) + Len(one) : (before \o one)[j] =
               IF j <= Len(before) THEN before[j] ELSE one[j - Len(before)]
      BY <1>2, <1>4, ConcatProperties, Zenon
    <3> QED
      BY <3>1, <1>1, <1>2, <1>4
  <2> HIDE DEF front
  <2>2. /\ front \o after \in Seq(S) /\ Len(front \o after) = Len(q) + 1
        /\ \A j \in 1 .. Len(q) + 1 :
             (front \o after)[j] = IF j <= i THEN front[j] ELSE after[j - i]
    <3>1. /\ front \o after \in Seq(S) /\ Len(front \o after) = Len(front) + Len(after)
          /\ \A j \in 1 .. Len(front) + Len(after) : (front \o after)[j] =
               IF j <= Len(front) THEN front[j] ELSE after[j - Len(front)]
      BY <1>3, <2>1, ConcatProperties, Zenon
    <3> QED
      BY <3>1, <1>1, <1>3, <2>1
  <2>3. r = front \o after
    BY DEF front
  <2> HIDE DEF r
  <2> QED
    BY <1>1, <2>1, <2>2, <2>3
<1> HIDE DEF r
<1>6. \A j \in 1 .. Len(q) : j < i => r[j] = q[j]
  BY <1>1, <1>2, <1>5
<1>7. \A j \in 1 .. Len(q) : j >= i => r[j + 1] = q[j]
  <2> TAKE j \in 1 .. Len(q)
  <2> HAVE j >= i
  <2>1. j + 1 - i \in 1 .. Len(q) - i + 1 /\ i + (j + 1 - i) - 1 = j
    BY <1>1
  <2>2. j + 1 \in 1 .. Len(q) + 1 /\ ~(j + 1 < i) /\ j + 1 # i
    BY <1>1
  <2>3. r[j + 1] = after[j + 1 - i]
    <3>1. r[j + 1] = IF j + 1 < i THEN before[j + 1]
                     ELSE IF j + 1 = i THEN e ELSE after[j + 1 - i]
      <4> DEFINE m == j + 1
      <4>1. m \in 1 .. Len(q) + 1
        BY <2>2
      <4> HIDE DEF m
      <4>2. r[m] = IF m < i THEN before[m] ELSE IF m = i THEN e ELSE after[m - i]
        BY <4>1, <1>5
      <4> QED
        BY <4>2 DEF m
    <3> QED
      BY <2>2, <3>1
  <2> QED
    BY <2>1, <2>3, <1>3
<1>8. r[i] = e
  BY <1>1, <1>5
<1> QED
  BY <1>5, <1>6, <1>7, <1>8 DEF InsertAt, With, r, before, after, one

\* What is in a sequence without one of its elements, or with one more, and in
\* which order.
Loses(s, e, r) ==
  /\ IsIn(e, s)
  /\ \A x : IsIn(x, r) => IsIn(x, s)
  /\ \A x : IsIn(x, s) /\ x # e => IsIn(x, r)
  /\ \A x, y : Before(s, y, x) /\ x # e /\ y # e => Before(r, y, x)
  /\ Unique(s) => Unique(r) /\ ~IsIn(e, r)

Gains(s, e, r) ==
  /\ \A x : IsIn(x, r) <=> IsIn(x, s) \/ x = e
  /\ \A x, y : Before(s, y, x) => Before(r, y, x)
  /\ \A y : IsIn(y, s) => Before(r, y, e)
  /\ Unique(s) /\ ~IsIn(e, s) => Unique(r)

LEMMA WithoutFacts ==
  ASSUME NEW S, NEW s \in Seq(S), NEW i \in DOMAIN s, NEW r \in Seq(S), Without(s, i, r)
  PROVE  Loses(s, s[i], r)
<1>1. Len(s) \in Nat /\ DOMAIN s = 1 .. Len(s) /\ DOMAIN r = 1 .. Len(s) - 1 /\ i \in 1 .. Len(s)
  BY DEF Without
<1> DEFINE up(j) == IF j < i THEN j ELSE j + 1
           down(j) == IF j < i THEN j ELSE j - 1
<1>2. \A j \in DOMAIN r : up(j) \in DOMAIN s /\ up(j) # i /\ r[j] = s[up(j)]
  BY <1>1 DEF Without
<1>3. \A j \in DOMAIN s : j # i => down(j) \in DOMAIN r /\ up(down(j)) = j
  BY <1>1
<1>4. \A j \in DOMAIN s : j # i => r[down(j)] = s[j]
  BY <1>2, <1>3
<1>5. \A j, m \in DOMAIN s : j < m /\ j # i /\ m # i => down(j) < down(m)
  BY <1>1
<1>6. \A j, m \in DOMAIN r : up(j) = up(m) => j = m
  BY <1>1
<1> HIDE DEF up, down
<1>7. \A x : IsIn(x, r) => IsIn(x, s)
  BY <1>2 DEF IsIn
<1>8. \A x : IsIn(x, s) /\ x # s[i] => IsIn(x, r)
  BY <1>3, <1>4 DEF IsIn
<1>9. \A x, y : Before(s, y, x) /\ x # s[i] /\ y # s[i] => Before(r, y, x)
  BY <1>3, <1>4, <1>5 DEF Before
<1>10. Unique(s) => Unique(r) /\ ~IsIn(s[i], r)
  BY <1>2, <1>6 DEF Unique, IsIn
<1> QED
  BY <1>1, <1>7, <1>8, <1>9, <1>10 DEF Loses, IsIn

LEMMA AppendGains ==
  ASSUME NEW S, NEW s \in Seq(S), NEW e \in S
  PROVE  Gains(s, e, Append(s, e))
<1> DEFINE i == Len(s) + 1
           r == Append(s, e)
<1>1. /\ Len(s) \in Nat /\ DOMAIN s = 1 .. Len(s) /\ DOMAIN r = 1 .. Len(s) + 1
      /\ i \in DOMAIN r /\ i \notin DOMAIN s /\ r[i] = e
      /\ \A j \in DOMAIN s : r[j] = s[j] /\ j \in DOMAIN r /\ j < i
      /\ \A j \in DOMAIN r : j # i => j \in DOMAIN s
  OBVIOUS
<1> HIDE DEF i, r
<1>2. \A x : IsIn(x, r) <=> IsIn(x, s) \/ x = e
  BY <1>1 DEF IsIn
<1>3. \A x, y : Before(s, y, x) => Before(r, y, x)
  BY <1>1 DEF Before
<1>4. \A y : IsIn(y, s) => Before(r, y, e)
  BY <1>1 DEF Before, IsIn
<1>5. Unique(s) /\ ~IsIn(e, s) => Unique(r)
  BY <1>1 DEF Unique, IsIn
<1> QED
  BY <1>2, <1>3, <1>4, <1>5 DEF Gains, r

\* The least of some numbers.
LEMMA MinExists ==
  ASSUME NEW T \in SUBSET Nat, T # {}
  PROVE  Min(T) \in T /\ \A y \in T : Min(T) <= y
<1>1. \E x \in T : \A y \in T : x <= y
  <2>1. PICK x \in T : \A y \in T : ~(<<y, x>> \in OpToRel(<, Nat))
    BY WFMin, NatLessThanWellFounded
  <2>2. \A y \in T : ~(y < x)
    BY <2>1 DEF OpToRel
  <2> QED
    BY <2>2
<1> QED
  BY <1>1 DEF Min

\* IndexOf finds the first turn of a command, InsertForeign the first that has
\* not started.
LEMMA IndexOfFacts ==
  ASSUME NEW turns \in Seq(Turn), NEW cmd
  PROVE  LET i == IndexOf(turns, cmd) IN
         /\ i = 0 => \A j \in DOMAIN turns : turns[j].cmd # cmd
         /\ i # 0 => i \in DOMAIN turns /\ turns[i].cmd = cmd
<1> DEFINE I == {j \in 1 .. Len(turns) : turns[j].cmd = cmd}
<1>1. IndexOf(turns, cmd) = IF I # {} THEN Min(I) ELSE 0
  BY DEF IndexOf, SelectInSeq
<1>2. I \in SUBSET Nat /\ 0 \notin I /\ DOMAIN turns = 1 .. Len(turns)
  OBVIOUS
<1>3. I # {} => Min(I) \in I
  BY <1>2, MinExists
<1> QED
  BY <1>1, <1>2, <1>3

LEMMA InsertForeignFacts ==
  ASSUME NEW turns \in Seq(Turn), NEW cmd \in Commands
  PROVE  LET own == [cmd |-> cmd, started |-> TRUE, foreign |-> TRUE, grace |-> FALSE] IN
         /\ InsertForeign(turns, cmd) \in Seq(Turn)
         /\ \E i \in 1 .. Len(turns) + 1 :
              /\ With(turns, i, own, InsertForeign(turns, cmd))
              /\ \A j \in DOMAIN turns : j < i => turns[j].started
              /\ i \in DOMAIN turns => ~turns[i].started
<1> DEFINE own == [cmd |-> cmd, started |-> TRUE, foreign |-> TRUE, grace |-> FALSE]
           I == {j \in 1 .. Len(turns) : ~turns[j].started}
           at == SelectInSeq(turns, LAMBDA t : ~t.started)
<1>1. at = IF I # {} THEN Min(I) ELSE 0
  BY DEF SelectInSeq
<1>2. I \in SUBSET Nat /\ 0 \notin I /\ DOMAIN turns = 1 .. Len(turns) /\ Len(turns) \in Nat
  OBVIOUS
<1>3. I # {} => Min(I) \in I /\ \A j \in I : Min(I) <= j
  BY <1>2, MinExists
<1>4. own \in Turn
  BY DEF Turn
<1>5. InsertForeign(turns, cmd) = IF at = 0 THEN Append(turns, own) ELSE InsertAt(turns, at, own)
  BY DEF InsertForeign
<1> HIDE DEF own, at, I
<1>6. CASE I = {}
  <2>1. at = 0 /\ \A j \in DOMAIN turns : turns[j].started
    BY <1>1, <1>2, <1>6 DEF I
  <2> QED
    <3>1. /\ InsertForeign(turns, cmd) = Append(turns, own)
          /\ Append(turns, own) \in Seq(Turn)
          /\ With(turns, Len(turns) + 1, own, Append(turns, own))
      BY <2>1, <1>4, <1>5, AppendFacts
    <3>2. Len(turns) + 1 \in 1 .. Len(turns) + 1 /\ Len(turns) + 1 \notin DOMAIN turns
      BY <1>2
    <3> QED
      BY <2>1, <3>1, <3>2 DEF own
<1>7. CASE I # {}
  <2>1. at \in I /\ at \in DOMAIN turns /\ at # 0 /\ at \in 1 .. Len(turns) + 1
    BY <1>1, <1>2, <1>3, <1>7 DEF I
  <2>2. \A j \in DOMAIN turns : j < at => turns[j].started
    BY <1>1, <1>2, <1>3, <1>7 DEF I
  <2>3. ~turns[at].started
    BY <2>1 DEF I
  <2> QED
    BY <2>1, <2>2, <2>3, <1>4, <1>5, InsertAtFacts DEF own
<1> QED
  BY <1>6, <1>7

(***************************************************************************)
(* Claude's steps.  A command stays in line until it is over, and what is  *)
(* ahead of another stays ahead of it.                                     *)
(***************************************************************************)
Moves(k, l) ==
  /\ \A y : Over(k, y) => Over(l, y)
  /\ \A y : IsIn(y, k.run) => IsIn(y, l.run) \/ Over(l, y)
  /\ \A y : InLine(k, y) => InLine(l, y) \/ Over(l, y)
  /\ \A x, y : InLine(l, x) /\ InLine(k, x) /\ Ahead(k, y, x) => Ahead(l, y, x)

\* A frame at the end of stdout.
LEMMA SaidFacts ==
  ASSUME NEW k \in ClaudeState, NEW l \in ClaudeState, NEW x \in Commands,
         NEW state \in {"started", "ended"}, l.threw = k.threw,
         l.out = Append(k.out, [cmd |-> x, state |-> state])
  PROVE  /\ DOMAIN k.out = 1 .. Len(k.out) /\ DOMAIN l.out = 1 .. Len(k.out) + 1
         /\ Len(k.out) \in Nat
         /\ \A f \in DOMAIN k.out : l.out[f] = k.out[f]
         /\ l.out[Len(k.out) + 1].cmd = x /\ l.out[Len(k.out) + 1].state = state
         /\ \A y : Over(l, y) <=> Over(k, y) \/ (state = "ended" /\ y = x)
<1>1. k.out \in Seq(Frame) /\ [cmd |-> x, state |-> state] \in Frame
  BY DEF ClaudeState, Frame
<1>2. /\ DOMAIN k.out = 1 .. Len(k.out) /\ DOMAIN l.out = 1 .. Len(k.out) + 1
      /\ Len(k.out) \in Nat
      /\ \A f \in DOMAIN k.out : l.out[f] = k.out[f]
      /\ l.out[Len(k.out) + 1] = [cmd |-> x, state |-> state]
  BY <1>1
<1>3. ASSUME NEW y PROVE Over(l, y) <=> Over(k, y) \/ (state = "ended" /\ y = x)
  BY <1>2 DEF Over
<1> QED
  BY <1>2, <1>3

LEMMA StartedFacts ==
  ASSUME NEW k \in ClaudeState, NEW l \in ClaudeState, NEW x \in Commands,
         l.threw = k.threw, l.out = Append(k.out, [cmd |-> x, state |-> "started"])
  PROVE  /\ DOMAIN k.out = 1 .. Len(k.out) /\ DOMAIN l.out = 1 .. Len(k.out) + 1
         /\ Len(k.out) \in Nat
         /\ \A f \in DOMAIN k.out : l.out[f] = k.out[f]
         /\ l.out[Len(k.out) + 1].cmd = x /\ l.out[Len(k.out) + 1].state = "started"
         /\ \A y : Over(l, y) <=> Over(k, y)
<1>1. k.out \in Seq(Frame) /\ [cmd |-> x, state |-> "started"] \in Frame
  BY DEF ClaudeState, Frame
<1>2. /\ DOMAIN k.out = 1 .. Len(k.out) /\ DOMAIN l.out = 1 .. Len(k.out) + 1
      /\ Len(k.out) \in Nat
      /\ \A f \in DOMAIN k.out : l.out[f] = k.out[f]
      /\ l.out[Len(k.out) + 1] = [cmd |-> x, state |-> "started"]
  BY <1>1
<1>3. ASSUME NEW y PROVE Over(l, y) <=> Over(k, y)
  BY <1>2 DEF Over
<1> QED
  BY <1>2, <1>3

\* Start: the head of stdin, when nothing runs.
LEMMA StartMoves ==
  ASSUME NEW k \in ClaudeState, NEW l \in ClaudeState, Piped(k),
         k.run = <<>>, k.inbox # <<>>, l.run = <<Head(k.inbox)>>, l.inbox = Tail(k.inbox),
         l.threw = k.threw,
         l.out = Append(k.out, [cmd |-> Head(k.inbox), state |-> "started"])
  PROVE  /\ Piped(l) /\ Moves(k, l)
         /\ \A x : InLine(l, x) <=> InLine(k, x)
         /\ \A x : IsIn(x, l.run) <=> x = Head(k.inbox)
         /\ IsIn(Head(k.inbox), k.inbox)
<1> DEFINE h == Head(k.inbox)
<1>1. k.inbox \in Seq(Calls) /\ l.inbox \in Seq(Calls) /\ k.inbox[1] = h /\ h \in Commands
  BY TailFacts DEF ClaudeState, Commands
<1>2. 1 \in DOMAIN k.inbox /\ Without(k.inbox, 1, l.inbox)
  BY TailFacts DEF ClaudeState
<1>3. \A x : IsIn(x, l.run) <=> x = h
  BY DEF IsIn
<1>4. /\ \A x : IsIn(x, l.inbox) => IsIn(x, k.inbox)
      /\ \A x : IsIn(x, k.inbox) /\ x # h => IsIn(x, l.inbox)
      /\ \A x, y : Before(k.inbox, y, x) /\ x # h /\ y # h => Before(l.inbox, y, x)
      /\ Unique(l.inbox) /\ ~IsIn(h, l.inbox)
  <2>1. Loses(k.inbox, k.inbox[1], l.inbox)
    BY <1>1, <1>2, WithoutFacts
  <2> QED
    BY <1>1, <2>1 DEF Loses, Piped
<1>5. IsIn(h, k.inbox)
  BY <1>1, <1>2 DEF IsIn
<1>6. \A x : ~IsIn(x, k.run)
  BY DEF IsIn
<1>7. \A y : ~Before(k.inbox, y, h)
  <2>1. Unique(k.inbox) /\ DOMAIN k.inbox = 1 .. Len(k.inbox)
    BY <1>1 DEF Piped
  <2> QED
    BY <1>1, <1>2, <2>1 DEF Before, Unique
<1>8. \A y, x : Before(k.inbox, y, x) => IsIn(y, k.inbox) /\ IsIn(x, k.inbox)
  BY DEF Before, IsIn
<1>9. \A y, x : ~Before(k.run, y, x)
  BY DEF Before
<1> HIDE DEF h
<1>10. \A x : InLine(l, x) <=> InLine(k, x)
  BY <1>3, <1>4, <1>5, <1>6 DEF InLine
<1>11. l.out = Append(k.out, [cmd |-> h, state |-> "started"])
  BY DEF h
<1>12. /\ DOMAIN k.out = 1 .. Len(k.out) /\ DOMAIN l.out = 1 .. Len(k.out) + 1
       /\ Len(k.out) \in Nat
       /\ \A f \in DOMAIN k.out : l.out[f] = k.out[f]
       /\ l.out[Len(k.out) + 1].cmd = h /\ l.out[Len(k.out) + 1].state = "started"
       /\ \A y : Over(l, y) <=> Over(k, y)
  <2> HIDE DEF h
  <2> QED
    BY <1>1, <1>11, StartedFacts
<1>13. Moves(k, l)
  <2>1. ASSUME NEW x, NEW y, InLine(l, x), Ahead(k, y, x) PROVE Ahead(l, y, x)
    BY <2>1, <1>3, <1>4, <1>6, <1>7, <1>8, <1>9, <1>12 DEF Ahead, InLine
  <2> QED
    BY <2>1, <1>6, <1>10, <1>12 DEF Moves
<1>14. Piped(l)
  <2>1. Unique(l.run)
    BY DEF Unique
  <2>2. \A x \in Commands : ~(IsIn(x, l.run) /\ IsIn(x, l.inbox))
    BY <1>3, <1>4
  <2>3. ASSUME NEW f \in DOMAIN l.out
        PROVE  /\ l.out[f].state = "started" => ~IsIn(l.out[f].cmd, l.inbox)
               /\ l.out[f].state = "ended" => ~InLine(l, l.out[f].cmd)
    BY <2>3, <1>4, <1>10, <1>12 DEF Piped
  <2>4. ASSUME NEW f \in DOMAIN l.out, NEW g \in DOMAIN l.out,
               l.out[f].cmd = l.out[g].cmd, l.out[f].state = "started", l.out[g].state = "ended"
        PROVE  f < g
    <3>1. g \in DOMAIN k.out
      BY <2>4, <1>12
    <3>2. CASE f \in DOMAIN k.out
      BY <2>4, <3>1, <3>2, <1>12 DEF Piped
    <3>3. CASE f = Len(k.out) + 1
      <4>1. k.out[g].cmd = h /\ k.out[g].state = "ended"
        BY <2>4, <3>1, <3>3, <1>12
      <4>2. ~InLine(k, h)
        BY <3>1, <4>1 DEF Piped
      <4> QED
        BY <4>2, <1>5 DEF InLine
    <3> QED
      BY <3>2, <3>3, <1>12
  <2> QED
    BY <2>1, <2>2, <2>3, <2>4, <1>4 DEF Piped
<1> QED
  BY <1>3, <1>5, <1>10, <1>13, <1>14 DEF h

\* Frames at the end of stdout leave those before them as they are.
Prefixed(k, l) ==
  /\ \A f \in DOMAIN k.out : f \in DOMAIN l.out /\ l.out[f] = k.out[f]
  /\ \A f \in DOMAIN l.out, g \in DOMAIN k.out : f \notin DOMAIN k.out => g < f /\ ~(f < g)

\* End, Throw and Discard: a command is over and leaves the line.
LEMMA DropMoves ==
  ASSUME NEW k, NEW l, Piped(k), NEW e \in Commands,
         \/ Loses(k.run, e, l.run) /\ l.inbox = k.inbox
         \/ Loses(k.inbox, e, l.inbox) /\ l.run = k.run,
         \A y : Over(l, y) <=> Over(k, y) \/ y = e,
         Prefixed(k, l),
         \A f \in DOMAIN l.out :
           f \notin DOMAIN k.out => l.out[f].cmd = e /\ l.out[f].state = "ended"
  PROVE  /\ Piped(l) /\ Moves(k, l)
         /\ \A x : InLine(l, x) => InLine(k, x)
         /\ \A x : IsIn(x, l.run) => IsIn(x, k.run)
<1>1. /\ Unique(k.run) /\ Unique(k.inbox)
      /\ \A x \in Commands : ~(IsIn(x, k.run) /\ IsIn(x, k.inbox))
  BY DEF Piped
<1>2. /\ Unique(l.run) /\ Unique(l.inbox)
      /\ \A x : IsIn(x, l.run) => IsIn(x, k.run) /\ x # e
      /\ \A x : IsIn(x, l.inbox) => IsIn(x, k.inbox) /\ x # e
      /\ \A x : IsIn(x, k.run) /\ x # e => IsIn(x, l.run)
      /\ \A x : IsIn(x, k.inbox) /\ x # e => IsIn(x, l.inbox)
      /\ \A x, y : Before(k.run, y, x) /\ x # e /\ y # e => Before(l.run, y, x)
      /\ \A x, y : Before(k.inbox, y, x) /\ x # e /\ y # e => Before(l.inbox, y, x)
  <2>1. CASE Loses(k.run, e, l.run) /\ l.inbox = k.inbox
    BY <2>1, <1>1 DEF Loses
  <2>2. CASE Loses(k.inbox, e, l.inbox) /\ l.run = k.run
    BY <2>2, <1>1 DEF Loses
  <2> QED
    BY <2>1, <2>2
<1>3. \A x : InLine(l, x) => InLine(k, x) /\ x # e
  BY <1>2 DEF InLine
<1>4. Moves(k, l)
  <2>1. ASSUME NEW x, NEW y, InLine(l, x), Ahead(k, y, x) PROVE Ahead(l, y, x)
    BY <2>1, <1>2, <1>3 DEF Ahead
  <2> QED
    BY <2>1, <1>2 DEF Moves, InLine
<1>5. Piped(l)
  <2>1. \A x \in Commands : ~(IsIn(x, l.run) /\ IsIn(x, l.inbox))
    BY <1>1, <1>2
  <2>2. ASSUME NEW f \in DOMAIN l.out
        PROVE  /\ l.out[f].state = "started" => ~IsIn(l.out[f].cmd, l.inbox)
               /\ l.out[f].state = "ended" => ~InLine(l, l.out[f].cmd)
    BY <2>2, <1>2, <1>3 DEF Piped, Prefixed
  <2>3. ASSUME NEW f \in DOMAIN l.out, NEW g \in DOMAIN l.out,
               l.out[f].cmd = l.out[g].cmd, l.out[f].state = "started", l.out[g].state = "ended"
        PROVE  f < g
    <3>1. f \in DOMAIN k.out
      BY <2>3
    <3> QED
      BY <2>3, <3>1 DEF Piped, Prefixed
  <2> QED
    BY <2>1, <2>2, <2>3, <1>2 DEF Piped
<1> QED
  BY <1>2, <1>3, <1>4, <1>5

\* StartOwn: a command that was never heard of joins the run.
LEMMA StartOwnMoves ==
  ASSUME NEW k \in ClaudeState, NEW l \in ClaudeState, Piped(k), NEW o \in Commands,
         ~InLine(k, o), \A f \in DOMAIN k.out : k.out[f].cmd # o,
         l.run = Append(k.run, o), l.inbox = k.inbox, l.threw = k.threw,
         l.out = Append(k.out, [cmd |-> o, state |-> "started"])
  PROVE  /\ Piped(l) /\ Moves(k, l)
         /\ \A x : InLine(l, x) <=> InLine(k, x) \/ x = o
         /\ \A x : IsIn(x, l.run) <=> IsIn(x, k.run) \/ x = o
         /\ \A y : IsIn(y, k.run) => Ahead(l, y, o)
<1>1. Gains(k.run, o, l.run)
  BY AppendGains DEF ClaudeState
<1>2. /\ \A x : IsIn(x, l.run) <=> IsIn(x, k.run) \/ x = o
      /\ \A x, y : Before(k.run, y, x) => Before(l.run, y, x)
      /\ \A y : IsIn(y, k.run) => Before(l.run, y, o)
      /\ Unique(l.run)
  BY <1>1 DEF Gains, InLine, Piped
<1>3. /\ DOMAIN k.out = 1 .. Len(k.out) /\ DOMAIN l.out = 1 .. Len(k.out) + 1
      /\ Len(k.out) \in Nat
      /\ \A f \in DOMAIN k.out : l.out[f] = k.out[f]
      /\ l.out[Len(k.out) + 1].cmd = o /\ l.out[Len(k.out) + 1].state = "started"
      /\ \A y : Over(l, y) <=> Over(k, y)
  BY StartedFacts
<1>4. \A x : InLine(l, x) <=> InLine(k, x) \/ x = o
  BY <1>2 DEF InLine
<1>5. Moves(k, l)
  <2>1. ASSUME NEW x, NEW y, InLine(l, x), Ahead(k, y, x) PROVE Ahead(l, y, x)
    BY <2>1, <1>2, <1>3 DEF Ahead
  <2> QED
    BY <2>1, <1>2, <1>3, <1>4 DEF Moves
<1>6. Piped(l)
  <2>1. Unique(l.inbox) /\ \A x \in Commands : ~(IsIn(x, l.run) /\ IsIn(x, l.inbox))
    BY <1>2 DEF Piped, InLine
  <2>2. ASSUME NEW f \in DOMAIN l.out
        PROVE  /\ l.out[f].state = "started" => ~IsIn(l.out[f].cmd, l.inbox)
               /\ l.out[f].state = "ended" => ~InLine(l, l.out[f].cmd)
    <3>1. CASE f \in DOMAIN k.out
      BY <3>1, <1>3, <1>4 DEF Piped
    <3>2. CASE f = Len(k.out) + 1
      BY <3>2, <1>3 DEF InLine
    <3> QED
      BY <3>1, <3>2, <1>3
  <2>3. ASSUME NEW f \in DOMAIN l.out, NEW g \in DOMAIN l.out,
               l.out[f].cmd = l.out[g].cmd, l.out[f].state = "started", l.out[g].state = "ended"
        PROVE  f < g
    <3>1. g \in DOMAIN k.out /\ f \in DOMAIN k.out
      BY <2>3, <1>3
    <3> QED
      BY <2>3, <3>1, <1>3 DEF Piped
  <2> QED
    BY <2>1, <2>2, <2>3, <1>2 DEF Piped
<1>7. \A y : IsIn(y, k.run) => Ahead(l, y, o)
  BY <1>2 DEF Ahead
<1> QED
  BY <1>2, <1>4, <1>5, <1>6, <1>7

\* Write: a command that was never heard of goes to stdin.
LEMMA WriteMoves ==
  ASSUME NEW k \in ClaudeState, NEW l \in ClaudeState, Piped(k), NEW c \in Calls,
         ~InLine(k, c), \A f \in DOMAIN k.out : k.out[f].cmd # c,
         l.inbox = Append(k.inbox, c), l.run = k.run, l.threw = k.threw, l.out = k.out
  PROVE  /\ Piped(l) /\ Moves(k, l)
         /\ \A x : InLine(l, x) <=> InLine(k, x) \/ x = c
         /\ \A y : Over(k, y) \/ InLine(k, y) => Ahead(l, y, c)
<1>1. Gains(k.inbox, c, l.inbox)
  BY AppendGains DEF ClaudeState
<1>2. /\ \A x : IsIn(x, l.inbox) <=> IsIn(x, k.inbox) \/ x = c
      /\ \A x, y : Before(k.inbox, y, x) => Before(l.inbox, y, x)
      /\ \A y : IsIn(y, k.inbox) => Before(l.inbox, y, c)
      /\ Unique(l.inbox)
  BY <1>1 DEF Gains, InLine, Piped
<1>3. \A y : Over(l, y) <=> Over(k, y)
  BY DEF Over
<1>4. \A x : InLine(l, x) <=> InLine(k, x) \/ x = c
  BY <1>2 DEF InLine
<1>5. Moves(k, l)
  <2>1. ASSUME NEW x, NEW y, InLine(l, x), Ahead(k, y, x) PROVE Ahead(l, y, x)
    BY <2>1, <1>2, <1>3 DEF Ahead
  <2> QED
    BY <2>1, <1>2, <1>3, <1>4 DEF Moves
<1>6. Piped(l)
  BY <1>2, <1>4 DEF Piped, InLine
<1>7. \A y : Over(k, y) \/ InLine(k, y) => Ahead(l, y, c)
  BY <1>2, <1>3 DEF Ahead, InLine
<1> QED
  BY <1>4, <1>5, <1>6, <1>7

(***************************************************************************)
(* The order of the queue is kept by what Claude does, ...                 *)
(***************************************************************************)
LEMMA OrderMoves ==
  ASSUME NEW k, NEW l, NEW turns, Moves(k, l), Ordered(k, turns), l.os = k.os,
         Prefixed(k, l),
         \A f \in DOMAIN l.out :
           f \notin DOMAIN k.out /\ l.out[f].state = "started" => Announced(l, turns, f),
         \A x : InLine(l, x) => InLine(k, x) \/
           \A i, j \in DOMAIN turns : turns[i].cmd = x /\ j < i => Ahead(l, turns[j].cmd, x),
         \A x : IsIn(x, l.run) => IsIn(x, k.run) \/
           /\ \E f \in DOMAIN l.out : l.out[f].cmd = x /\ l.out[f].state = "started"
           /\ \A f \in DOMAIN k.out : k.out[f].state = "started" => k.out[f].cmd # x,
         \A x \in l.threw : x \in k.threw \/ IsIn(x, k.run)
  PROVE  Ordered(l, turns)
<1>1. Ranked(turns)
  BY DEF Ordered
<1>2. Queued(l, turns)
  <2>1. ASSUME NEW i \in DOMAIN turns, NEW j \in DOMAIN turns,
               j < i, InLine(l, turns[i].cmd)
        PROVE  Ahead(l, turns[j].cmd, turns[i].cmd)
    <3>1. CASE InLine(k, turns[i].cmd)
      <4>1. Ahead(k, turns[j].cmd, turns[i].cmd)
        BY <2>1, <3>1 DEF Ordered, Queued
      <4> QED
        BY <2>1, <3>1, <4>1 DEF Moves
    <3>2. CASE ~InLine(k, turns[i].cmd)
      BY <2>1, <3>2
    <3> QED
      BY <3>1, <3>2
  <2>2. ASSUME NEW i \in DOMAIN turns, turns[i].started, l.os = "up"
        PROVE  Over(l, turns[i].cmd) \/ IsIn(turns[i].cmd, l.run)
    <3>1. Over(k, turns[i].cmd) \/ IsIn(turns[i].cmd, k.run)
      BY <2>2 DEF Ordered, Queued
    <3> QED
      BY <3>1 DEF Moves
  <2>3. ASSUME NEW i \in DOMAIN turns, ~turns[i].started,
               IsIn(turns[i].cmd, l.run) \/ turns[i].cmd \in l.threw
        PROVE  \E f \in DOMAIN l.out :
                 l.out[f].cmd = turns[i].cmd /\ l.out[f].state = "started"
    <3>1. CASE IsIn(turns[i].cmd, k.run) \/ turns[i].cmd \in k.threw
      BY <2>3, <3>1 DEF Ordered, Queued, Prefixed
    <3> QED
      BY <2>3, <3>1
  <2> QED
    BY <2>1, <2>2, <2>3 DEF Queued
<1>3. ASSUME NEW f \in DOMAIN k.out, k.out[f].state = "started"
      PROVE  Announced(l, turns, f)
  <2>1. Announced(k, turns, f) /\ l.out[f] = k.out[f]
    BY <1>3 DEF Ordered, Prefixed
  <2> DEFINE x == k.out[f].cmd
  <2>2. l.os = "up" => Over(l, x) \/ IsIn(x, l.run)
    BY <2>1 DEF Announced, Moves
  <2>3. IsIn(x, l.run) => IsIn(x, k.run) /\ InLine(k, x) /\ InLine(l, x)
    BY <1>3 DEF InLine
  <2>4. \A y : Ahead(k, y, x) /\ IsIn(x, l.run) => Ahead(l, y, x)
    BY <2>3 DEF Moves
  <2>5. \A e \in DOMAIN l.out : e < f => e \in DOMAIN k.out /\ l.out[e] = k.out[e]
    BY <1>3 DEF Prefixed
  <2> QED
    BY <2>1, <2>2, <2>3, <2>4, <2>5 DEF Announced, Prefixed
<1> QED
  BY <1>1, <1>2, <1>3 DEF Ordered, Prefixed

\* The frame of a command that starts comes after all that is ahead of it.
LEMMA NewAnnounced ==
  ASSUME NEW k, NEW l, NEW turns, Moves(k, l), Ordered(k, turns), k.os = "up",
         NEW f \in DOMAIN l.out, IsIn(l.out[f].cmd, l.run),
         \A y : IsIn(y, k.run) => Ahead(l, y, l.out[f].cmd),
         \A e \in DOMAIN l.out : e < f => e \in DOMAIN k.out /\ l.out[e] = k.out[e],
         \A e \in DOMAIN k.out : e \in DOMAIN l.out /\ e < f /\ l.out[e] = k.out[e],
         \A i, j \in DOMAIN turns : turns[i].cmd = l.out[f].cmd /\ j < i =>
           turns[j].started \/ \E e \in DOMAIN k.out : k.out[e].cmd = turns[j].cmd
  PROVE  Announced(l, turns, f)
<1> DEFINE x == l.out[f].cmd
<1>1. ASSUME NEW y, Over(k, y) \/ IsIn(y, k.run) PROVE Ahead(l, y, x)
  BY <1>1 DEF Moves, Ahead
<1>2. \A j \in DOMAIN turns : turns[j].started => Ahead(l, turns[j].cmd, x)
  BY <1>1 DEF Ordered, Queued
<1>3. \A e \in DOMAIN k.out : k.out[e].state = "started" => Ahead(l, k.out[e].cmd, x)
  BY <1>1 DEF Ordered, Announced
<1> QED
  BY <1>2, <1>3 DEF Announced

\* ... by the end of a turn (Without), by a flag on one, ...
Fewer(turns, r) ==
  \E up \in [DOMAIN r -> DOMAIN turns] :
    /\ \A i \in DOMAIN r :
         r[i].cmd = turns[up[i]].cmd /\ r[i].started = turns[up[i]].started
    /\ \A i, j \in DOMAIN r : /\ j < i => up[j] < up[i]
                              /\ up[i] = up[j] => i = j

LEMMA FewerWithout ==
  ASSUME NEW turns \in Seq(Turn), NEW i \in DOMAIN turns, NEW r \in Seq(Turn),
         Without(turns, i, r)
  PROVE  Fewer(turns, r)
<1> DEFINE up == [j \in DOMAIN r |-> IF j < i THEN j ELSE j + 1]
<1>1. Len(turns) \in Nat /\ DOMAIN turns = 1 .. Len(turns)
      /\ DOMAIN r = 1 .. Len(turns) - 1 /\ i \in 1 .. Len(turns)
  BY DEF Without
<1>2. up \in [DOMAIN r -> DOMAIN turns]
  BY <1>1
<1>3. \A j \in DOMAIN r : r[j] = turns[up[j]]
  BY <1>1 DEF Without
<1>4. \A n, j \in DOMAIN r : (j < n => up[j] < up[n]) /\ (up[n] = up[j] => n = j)
  BY <1>1
<1> HIDE DEF up
<1> QED
  BY <1>2, <1>3, <1>4 DEF Fewer

LEMMA OrderFewer ==
  ASSUME NEW k, NEW turns, NEW r, Fewer(turns, r), Ordered(k, turns)
  PROVE  Ordered(k, r)
<1> PICK up \in [DOMAIN r -> DOMAIN turns] :
      /\ \A i \in DOMAIN r :
           r[i].cmd = turns[up[i]].cmd /\ r[i].started = turns[up[i]].started
      /\ \A i, j \in DOMAIN r : /\ j < i => up[j] < up[i]
                                /\ up[i] = up[j] => i = j
  BY DEF Fewer
<1>1. \A i \in DOMAIN r : up[i] \in DOMAIN turns
  OBVIOUS
<1>2. Ranked(r)
  BY <1>1 DEF Ranked, Ordered
<1>3. Queued(k, r)
  BY <1>1 DEF Queued, Ordered
<1>4. ASSUME NEW f \in DOMAIN k.out, k.out[f].state = "started"
      PROVE  Announced(k, r, f)
  <2>1. Announced(k, turns, f)
    BY <1>4 DEF Ordered
  <2> QED
    BY <2>1, <1>1 DEF Announced
<1> QED
  BY <1>2, <1>3, <1>4 DEF Ordered

\* ... by a new turn, which has not started and of which nothing is known, ...
LEMMA OrderAppend ==
  ASSUME NEW k, NEW turns \in Seq(Turn), NEW t \in Turn, Ordered(k, turns),
         ~t.started, ~InLine(k, t.cmd), t.cmd \notin k.threw,
         \A f \in DOMAIN k.out : k.out[f].cmd # t.cmd,
         \A i \in DOMAIN turns : turns[i].cmd # t.cmd
  PROVE  Ordered(k, Append(turns, t))
<1> DEFINE r == Append(turns, t)
           n == Len(turns) + 1
<1>1. /\ DOMAIN r = DOMAIN turns \cup {n} /\ r[n] = t /\ n \notin DOMAIN turns
      /\ \A i \in DOMAIN turns : r[i] = turns[i] /\ i < n /\ ~(n < i)
      /\ ~(n < n)
  OBVIOUS
<1> HIDE DEF r, n
<1>2. Ranked(r)
  BY <1>1 DEF Ordered, Ranked
<1>3. Queued(k, r)
  BY <1>1 DEF Ordered, Queued, InLine
<1>4. ASSUME NEW f \in DOMAIN k.out, k.out[f].state = "started"
      PROVE  Announced(k, r, f)
  <2>1. Announced(k, turns, f)
    BY <1>4 DEF Ordered
  <2> QED
    BY <2>1, <1>1 DEF Announced
<1> QED
  BY <1>2, <1>3, <1>4 DEF Ordered, r

\* ... by a turn that is marked as started or put ahead of those that have not,
\* when stdout begins with the start of its command, ...
LEMMA OrderMarked ==
  ASSUME NEW k, NEW turns \in Seq(Turn), NEW i \in DOMAIN turns, Ordered(k, turns),
         1 \in DOMAIN k.out, \A f \in DOMAIN k.out : ~(f < 1) /\ (f # 1 => 1 < f),
         k.out[1].state = "started", k.out[1].cmd = turns[i].cmd
  PROVE  Ordered(k, [turns EXCEPT ![i].started = TRUE])
<1> DEFINE r == [turns EXCEPT ![i].started = TRUE]
           x == turns[i].cmd
<1>1. /\ DOMAIN r = DOMAIN turns /\ r[i].started /\ r[i].cmd = x
      /\ \A j \in DOMAIN turns : r[j].cmd = turns[j].cmd
      /\ \A j \in DOMAIN turns : j # i => r[j] = turns[j]
  <2>1. \A j \in DOMAIN turns : turns[j] \in Turn
    BY ElementOfSeq, LenProperties
  <2> QED
    BY <2>1 DEF Turn
<1> HIDE DEF r
<1>2. Announced(k, turns, 1)
  BY DEF Ordered
<1>3. \A j \in DOMAIN turns : j < i => turns[j].started
  BY <1>2 DEF Announced
<1>4. Ranked(r)
  <2>1. ASSUME NEW m \in DOMAIN r, NEW j \in DOMAIN r, j < m, r[m].started
        PROVE  r[j].started
    <3>1. CASE m = i
      BY <2>1, <3>1, <1>1, <1>3
    <3>2. CASE m # i
      BY <2>1, <3>2, <1>1 DEF Ordered, Ranked
    <3> QED
      BY <3>1, <3>2
  <2> QED
    BY <2>1, <1>1 DEF Ordered, Ranked
<1>5. Queued(k, r)
  <2>1. k.os = "up" => Over(k, x) \/ IsIn(x, k.run)
    BY <1>2 DEF Announced
  <2> QED
    BY <2>1, <1>1 DEF Ordered, Queued
<1>6. ASSUME NEW f \in DOMAIN k.out, k.out[f].state = "started"
      PROVE  Announced(k, r, f)
  <2>1. Announced(k, turns, f)
    BY <1>6 DEF Ordered
  <2>2. ASSUME IsIn(k.out[f].cmd, k.run), NEW j \in DOMAIN r,
               r[j].started, r[j].cmd # k.out[f].cmd
        PROVE  Ahead(k, r[j].cmd, k.out[f].cmd)
    <3>1. CASE j = i
      BY <2>1, <2>2, <3>1, <1>1, <1>6 DEF Announced
    <3>2. CASE j # i
      BY <2>1, <2>2, <3>2, <1>1 DEF Announced
    <3> QED
      BY <3>1, <3>2
  <2>3. ASSUME NEW m \in DOMAIN r, NEW j \in DOMAIN r, r[m].cmd = k.out[f].cmd, j < m
        PROVE  r[j].started \/ \E e \in DOMAIN k.out : e < f /\ k.out[e].cmd = r[j].cmd
    BY <2>1, <2>3, <1>1 DEF Announced
  <2> QED
    BY <2>1, <2>2, <2>3 DEF Announced
<1> QED
  BY <1>4, <1>5, <1>6 DEF Ordered, r

LEMMA OrderInserted ==
  ASSUME NEW k, NEW turns \in Seq(Turn), NEW r \in Seq(Turn), NEW own \in Turn,
         NEW at \in 1 .. Len(turns) + 1, With(turns, at, own, r), Ordered(k, turns),
         Piped(k), k.os # "up" => k.run = <<>> /\ k.inbox = <<>>,
         1 \in DOMAIN k.out, \A f \in DOMAIN k.out : ~(f < 1) /\ (f # 1 => 1 < f),
         k.out[1].state = "started", k.out[1].cmd = own.cmd, own.started,
         \A j \in DOMAIN turns : turns[j].cmd # own.cmd,
         \A j \in DOMAIN turns : j < at => turns[j].started,
         at \in DOMAIN turns => ~turns[at].started
  PROVE  Ordered(k, r)
<1> DEFINE x == own.cmd
           down == [j \in DOMAIN r |-> IF j < at THEN j ELSE j - 1]
<1>1. Len(turns) \in Nat /\ DOMAIN turns = 1 .. Len(turns) /\ DOMAIN r = 1 .. Len(turns) + 1
      /\ Len(r) \in Nat
  BY DEF With
<1>2. /\ r[at] = own /\ at \in DOMAIN r
      /\ \A j \in DOMAIN r : j # at => down[j] \in DOMAIN turns /\ r[j] = turns[down[j]]
      /\ \A j \in DOMAIN r : j < at => down[j] < at
      /\ \A j \in DOMAIN r : at < j => at < down[j] \/ at = down[j]
      /\ \A j, m \in DOMAIN r : j # at /\ m # at => (down[j] = down[m] => j = m)
      /\ \A j, m \in DOMAIN r : j # at /\ m # at /\ j < m => down[j] < down[m]
      /\ \A j \in DOMAIN r : j = at \/ j < at \/ at < j
      /\ ~(at < at)
      /\ \A j, m \in DOMAIN r : j < at /\ at < m => j < m /\ ~(m < j)
      /\ \A j \in DOMAIN r : ~(j < at /\ at < j)
  <2>1. \A j \in DOMAIN r : j < at => j \in DOMAIN turns /\ r[j] = turns[j]
    BY <1>1 DEF With
  <2>2. \A j \in DOMAIN r : at < j => j - 1 \in DOMAIN turns /\ r[j] = turns[j - 1]
    <3> TAKE j \in DOMAIN r
    <3> HAVE at < j
    <3> DEFINE m == j - 1
    <3>1. m \in 1 .. Len(turns) /\ m >= at /\ j = m + 1
      BY <1>1
    <3> HIDE DEF m
    <3>2. r[m + 1] = turns[m]
      BY <3>1 DEF With
    <3> QED
      BY <3>1, <3>2, <1>1 DEF m
  <2> QED
    BY <1>1, <2>1, <2>2 DEF With
<1> HIDE DEF down
<1>3. Announced(k, turns, 1) /\ Ranked(turns) /\ Queued(k, turns)
  BY DEF Ordered
<1>4. \A j \in DOMAIN r : (j < at => r[j].started) /\ (at < j => ~r[j].started)
  <2>1. ASSUME NEW j \in DOMAIN r, j < at PROVE r[j].started
    BY <2>1, <1>2
  <2>2. ASSUME NEW j \in DOMAIN r, at < j PROVE ~r[j].started
    <3>1. down[j] \in DOMAIN turns /\ r[j] = turns[down[j]] /\ at \in DOMAIN turns
      <4>1. at < j /\ j \in 1 .. Len(turns) + 1
        BY <2>2, <1>1
      <4> QED
        BY <2>2, <4>1, <1>1, <1>2
    <3>2. at = down[j] \/ at < down[j]
      BY <2>2, <1>2
    <3> QED
      BY <3>1, <3>2, <1>3 DEF Ranked
  <2> QED
    BY <2>1, <2>2
<1>5. \A j \in DOMAIN r : j # at => r[j].cmd # x
  BY <1>2
<1>6. Ranked(r)
  <2>1. \A i, j \in DOMAIN r : r[i].cmd = r[j].cmd => i = j
    BY <1>2, <1>3, <1>5 DEF Ranked
  <2>2. \A i, j \in DOMAIN r : j < i /\ r[i].started => r[j].started
    BY <1>2, <1>4
  <2> QED
    BY <2>1, <2>2 DEF Ranked
<1>7. ASSUME NEW w, InLine(k, w) PROVE Over(k, x) \/ IsIn(x, k.run)
  <2>1. k.os = "up"
    BY <1>7 DEF InLine, IsIn
  <2> QED
    BY <2>1, <1>3 DEF Announced
<1>8. ~IsIn(x, k.inbox)
  BY DEF Piped
<1>9. Queued(k, r)
  <2>1. ASSUME NEW i \in DOMAIN r, NEW j \in DOMAIN r, j < i, InLine(k, r[i].cmd)
        PROVE  Ahead(k, r[j].cmd, r[i].cmd)
    <3>1. CASE i # at /\ j # at
      <4>1. down[j] < down[i]
        BY <2>1, <3>1, <1>2
      <4> QED
        BY <2>1, <3>1, <4>1, <1>2, <1>3 DEF Queued
    <3>2. CASE i = at
      <4>1. IsIn(x, k.run) /\ r[i].cmd = x
        BY <2>1, <3>2, <1>2, <1>8 DEF InLine
      <4>2. j \in DOMAIN r /\ j # at /\ r[j].started /\ r[j].cmd # x
        BY <2>1, <3>2, <1>2, <1>4, <1>5
      <4> QED
        BY <4>1, <4>2, <1>2, <1>3 DEF Announced
    <3>3. CASE j = at
      <4>1. Over(k, x) \/ IsIn(x, k.run)
        BY <2>1, <1>7
      <4>2. i # at /\ ~r[i].started /\ r[i].cmd # x /\ r[j].cmd = x
        BY <2>1, <3>3, <1>2, <1>4, <1>5
      <4>3. CASE IsIn(r[i].cmd, k.run)
        <5>1. PICK f \in DOMAIN k.out : k.out[f].cmd = r[i].cmd /\ k.out[f].state = "started"
          BY <4>2, <4>3, <1>2, <1>3 DEF Queued
        <5>2. 1 < f
          BY <4>2, <5>1
        <5> QED
          BY <4>2, <4>3, <5>1, <5>2 DEF Ordered, Announced
      <4> QED
        BY <2>1, <4>1, <4>2, <4>3 DEF InLine, Ahead
    <3> QED
      BY <3>1, <3>2, <3>3
  <2>2. ASSUME NEW i \in DOMAIN r, r[i].started, k.os = "up"
        PROVE  Over(k, r[i].cmd) \/ IsIn(r[i].cmd, k.run)
    BY <2>2, <1>2, <1>3 DEF Queued, Announced
  <2>3. ASSUME NEW i \in DOMAIN r, ~r[i].started,
               IsIn(r[i].cmd, k.run) \/ r[i].cmd \in k.threw
        PROVE  \E f \in DOMAIN k.out : k.out[f].cmd = r[i].cmd /\ k.out[f].state = "started"
    BY <2>3, <1>2, <1>3 DEF Queued
  <2> QED
    BY <2>1, <2>2, <2>3 DEF Queued
<1>10. ASSUME NEW f \in DOMAIN k.out, k.out[f].state = "started"
       PROVE  Announced(k, r, f)
  <2>1. Announced(k, turns, f)
    BY <1>10 DEF Ordered
  <2>2. ASSUME IsIn(k.out[f].cmd, k.run), NEW j \in DOMAIN r,
               r[j].started, r[j].cmd # k.out[f].cmd
        PROVE  Ahead(k, r[j].cmd, k.out[f].cmd)
    <3>1. CASE j = at
      BY <2>1, <2>2, <3>1, <1>2, <1>10 DEF Announced
    <3>2. CASE j # at
      BY <2>1, <2>2, <3>2, <1>2 DEF Announced
    <3> QED
      BY <3>1, <3>2
  <2>3. ASSUME NEW m \in DOMAIN r, NEW j \in DOMAIN r, r[m].cmd = k.out[f].cmd, j < m
        PROVE  r[j].started \/ \E e \in DOMAIN k.out : e < f /\ k.out[e].cmd = r[j].cmd
    <3>1. CASE m # at /\ j # at
      <4>1. /\ down[m] \in DOMAIN turns /\ r[m] = turns[down[m]]
            /\ down[j] \in DOMAIN turns /\ r[j] = turns[down[j]]
            /\ down[j] < down[m]
        BY <2>3, <3>1, <1>2
      <4> QED
        BY <2>1, <2>3, <4>1 DEF Announced
    <3>2. CASE m = at \/ j = at
      BY <2>3, <3>2, <1>2, <1>4
    <3> QED
      BY <3>1, <3>2
  <2> QED
    BY <2>1, <2>2, <2>3 DEF Announced
<1> QED
  BY <1>6, <1>9, <1>10 DEF Ordered

\* ... and by the frame that readLoop has taken, once its command's turn has
\* started or has ended.
LEMMA OrderRead ==
  ASSUME NEW k \in ClaudeState, NEW l \in ClaudeState, NEW r, Piped(k), Ordered(k, r),
         k.out # <<>>, l.out = Tail(k.out), l.run = k.run, l.inbox = k.inbox,
         l.threw = k.threw, l.os = k.os,
         \A j \in DOMAIN r : r[j].cmd = Head(k.out).cmd =>
           Head(k.out).state = "started" /\ r[j].started
  PROVE  /\ Piped(l) /\ Ordered(l, r)
         /\ \A y : Over(k, y) /\ (Head(k.out).state = "started" \/ y # Head(k.out).cmd) => Over(l, y)
         /\ \A f \in DOMAIN l.out : \E g \in DOMAIN k.out : l.out[f] = k.out[g]
<1> DEFINE x == Head(k.out).cmd
<1>1. k.out \in Seq(Frame)
  BY DEF ClaudeState
<1>2. /\ 1 \in DOMAIN k.out /\ k.out[1] = Head(k.out)
      /\ \A f \in DOMAIN l.out : f + 1 \in DOMAIN k.out /\ l.out[f] = k.out[f + 1]
      /\ \A f \in DOMAIN k.out : f # 1 =>
           f - 1 \in DOMAIN l.out /\ l.out[f - 1] = k.out[f] /\ (f - 1) + 1 = f
      /\ \A f, g \in DOMAIN l.out : f + 1 < g + 1 => f < g
      /\ \A f, g \in DOMAIN l.out : f < g => f + 1 < g + 1
      /\ \A f \in DOMAIN k.out : ~(f < 1) /\ (f # 1 => 1 < f)
      /\ \A f \in DOMAIN l.out : f + 1 # 1
      /\ \A e \in DOMAIN k.out, f \in DOMAIN l.out : e # 1 /\ e < f + 1 => e - 1 < f
      /\ Head(k.out).state \in {"started", "ended"}
  <2>1. /\ DOMAIN k.out = 1 .. Len(k.out) /\ Len(k.out) \in Nat \ {0}
        /\ DOMAIN l.out = 1 .. Len(k.out) - 1 /\ k.out[1] = Head(k.out)
        /\ Head(k.out) \in Frame
    BY <1>1
  <2>2. \A f \in DOMAIN l.out : l.out[f] = k.out[f + 1]
    BY <1>1
  <2>3. \A f \in DOMAIN k.out : f # 1 => f - 1 \in DOMAIN l.out /\ (f - 1) + 1 = f
    BY <2>1
  <2>4. \A f \in DOMAIN k.out : f # 1 => l.out[f - 1] = k.out[f]
    BY <2>2, <2>3
  <2> QED
    BY <2>1, <2>2, <2>3, <2>4 DEF Frame
<1>3. Piped(l)
  <2>1. ASSUME NEW f \in DOMAIN l.out, NEW g \in DOMAIN l.out,
               l.out[f].cmd = l.out[g].cmd, l.out[f].state = "started", l.out[g].state = "ended"
        PROVE  f < g
    <3>1. f + 1 \in DOMAIN k.out /\ l.out[f] = k.out[f + 1]
          /\ g + 1 \in DOMAIN k.out /\ l.out[g] = k.out[g + 1]
      BY <1>2
    <3>2. f + 1 < g + 1
      BY <2>1, <3>1 DEF Piped
    <3> QED
      BY <3>2, <1>2
  <2> QED
    BY <2>1, <1>2 DEF Piped, InLine
<1>4. ASSUME NEW y, Over(k, y), Head(k.out).state = "started" \/ y # x PROVE Over(l, y)
  <2>1. CASE y \in k.threw
    BY <2>1 DEF Over
  <2>2. ASSUME NEW f \in DOMAIN k.out, k.out[f].cmd = y, k.out[f].state = "ended"
        PROVE  Over(l, y)
    <3>1. f # 1
      <4>1. "started" # "ended"
        OBVIOUS
      <4> QED
        BY <4>1, <2>2, <1>2, <1>4
    <3>2. PICK g \in DOMAIN l.out : l.out[g] = k.out[f]
      BY <3>1, <1>2
    <3> QED
      BY <2>2, <3>2 DEF Over
  <2> QED
    BY <2>1, <2>2, <1>4 DEF Over
<1>5. ASSUME NEW y, NEW z, Ahead(k, y, z), Head(k.out).state = "started" \/ y # x
      PROVE  Ahead(l, y, z)
  BY <1>4, <1>5 DEF Ahead
<1>6. \A z : InLine(l, z) <=> InLine(k, z)
  BY DEF InLine
<1>7. \A j \in DOMAIN r : Head(k.out).state = "started" \/ r[j].cmd # x
  OBVIOUS
<1>8. Queued(l, r)
  <2>1. ASSUME NEW i \in DOMAIN r, NEW j \in DOMAIN r, j < i, InLine(l, r[i].cmd)
        PROVE  Ahead(l, r[j].cmd, r[i].cmd)
    <3>1. Ahead(k, r[j].cmd, r[i].cmd)
      BY <2>1, <1>6 DEF Ordered, Queued
    <3> QED
      BY <3>1, <1>5, <1>7
  <2>2. ASSUME NEW i \in DOMAIN r, r[i].started, l.os = "up"
        PROVE  Over(l, r[i].cmd) \/ IsIn(r[i].cmd, l.run)
    <3>1. Over(k, r[i].cmd) \/ IsIn(r[i].cmd, k.run)
      BY <2>2 DEF Ordered, Queued
    <3> QED
      BY <3>1, <1>4, <1>7
  <2>3. ASSUME NEW i \in DOMAIN r, ~r[i].started,
               IsIn(r[i].cmd, l.run) \/ r[i].cmd \in l.threw
        PROVE  \E f \in DOMAIN l.out : l.out[f].cmd = r[i].cmd /\ l.out[f].state = "started"
    <3>1. PICK f \in DOMAIN k.out : k.out[f].cmd = r[i].cmd /\ k.out[f].state = "started"
      BY <2>3 DEF Ordered, Queued
    <3>2. f # 1
      BY <2>3, <3>1, <1>2
    <3>3. PICK g \in DOMAIN l.out : l.out[g] = k.out[f]
      BY <3>2, <1>2
    <3> QED
      BY <3>1, <3>3
  <2> QED
    BY <2>1, <2>2, <2>3 DEF Queued
<1>9. ASSUME NEW f \in DOMAIN l.out, l.out[f].state = "started"
      PROVE  Announced(l, r, f)
  <2> DEFINE y == l.out[f].cmd
  <2>1. /\ f + 1 \in DOMAIN k.out /\ k.out[f + 1] = l.out[f] /\ f + 1 # 1
        /\ Announced(k, r, f + 1)
    BY <1>2, <1>9 DEF Ordered
  <2>2. ASSUME NEW e \in DOMAIN k.out, k.out[e].state = "started", ~(e < 1)
        PROVE  Head(k.out).state = "started" \/ k.out[e].cmd # x
    <3>1. CASE Head(k.out).state = "ended" /\ k.out[e].cmd = x
      <4>1. e < 1
        BY <2>2, <3>1, <1>2 DEF Piped
      <4> QED
        BY <4>1, <2>2
    <3> QED
      BY <3>1, <1>2
  <2>3. l.os = "up" => Over(l, y) \/ IsIn(y, l.run)
    <3>1. Head(k.out).state = "started" \/ y # x
      BY <2>1, <2>2, <1>2, <1>9
    <3> QED
      BY <2>1, <3>1, <1>4 DEF Announced
  <2>4. ASSUME IsIn(y, l.run), NEW j \in DOMAIN r, r[j].started, r[j].cmd # y
        PROVE  Ahead(l, r[j].cmd, y)
    <3>1. Ahead(k, r[j].cmd, y)
      BY <2>1, <2>4 DEF Announced
    <3> QED
      BY <3>1, <1>5, <1>7
  <2>5. ASSUME IsIn(y, l.run), NEW e \in DOMAIN l.out, e < f,
               l.out[e].state = "started", l.out[e].cmd # y
        PROVE  Ahead(l, l.out[e].cmd, y)
    <3>1. e + 1 \in DOMAIN k.out /\ e + 1 < f + 1 /\ k.out[e + 1] = l.out[e]
      BY <2>5, <1>2
    <3>2. Ahead(k, l.out[e].cmd, y)
      BY <2>1, <2>5, <3>1 DEF Announced
    <3>3. Head(k.out).state = "started" \/ l.out[e].cmd # x
      BY <2>2, <2>5, <3>1, <1>2
    <3> QED
      BY <3>2, <3>3, <1>5
  <2>6. ASSUME NEW m \in DOMAIN r, NEW j \in DOMAIN r, r[m].cmd = y, j < m
        PROVE  r[j].started \/ \E e \in DOMAIN l.out : e < f /\ l.out[e].cmd = r[j].cmd
    <3>1. CASE ~r[j].started
      <4>1. PICK e \in DOMAIN k.out : e < f + 1 /\ k.out[e].cmd = r[j].cmd
        BY <2>1, <2>6, <3>1 DEF Announced
      <4>2. e # 1
        BY <4>1, <3>1, <1>2
      <4> QED
        BY <4>1, <4>2, <1>2
    <3> QED
      BY <3>1
  <2> QED
    BY <2>3, <2>4, <2>5, <2>6 DEF Announced
<1> QED
  BY <1>2, <1>3, <1>4, <1>8, <1>9 DEF Ordered

(***************************************************************************)
(* Types.                                                                  *)
(***************************************************************************)
LEMMA TypeOKTyped == TypeOK <=> Typed /\ Cardinality(Live) <= MaxLive
BY DEF TypeOK, Typed, ProcState, ClaudeState, CallState, Frame

LEMMA SessionTyped ==
  ASSUME Typed PROVE \A c \in Calls : SessionOf(c) \in Sessions
BY ClaudePoolAssumption DEF Typed, SessionOf

LEMMA TellTyped ==
  ASSUME call \in [Calls -> CallState], NEW turns
  PROVE  /\ Tell(turns, call) \in [Calls -> CallState]
         /\ \A c \in Calls : /\ Tell(turns, call)[c].pc = call[c].pc
                             /\ Tell(turns, call)[c].p = call[c].p
                             /\ call[c].told => Tell(turns, call)[c].told
                             /\ \A i \in DOMAIN turns :
                                  turns[i].cmd = c /\ ~turns[i].foreign => Tell(turns, call)[c].told
BY DEF Tell, CallState

LEMMA GotoTyped ==
  ASSUME call \in [Calls -> CallState], NEW c \in Calls,
         NEW pc \in {"new", "init", "clean", "wait", "append", "write", "undo", "pass",
                     "fail", "done", "refused"},
         Goto(c, pc)
  PROVE  /\ call' \in [Calls -> CallState]
         /\ call'[c].pc = pc /\ call'[c].p = call[c].p /\ call'[c].told = call[c].told
         /\ \A d \in Calls : d # c => call'[d] = call[d]
BY DEF Goto, CallState

\* The calls that the lock of the session's sends lets in, and those on their way.
LEMMA EnterTyped ==
  ASSUME Typed, NEW c \in Calls, Enter(c)
  PROVE  Typed'
<1>1. SessionOf(c) \in Sessions /\ SessionOf(c)' = SessionOf(c) /\ NoProc \notin Procs
  BY SessionTyped, ClaudePoolAssumption DEF Enter, Join, Refuse, Spawn, history, SessionOf, Procs
<1>5. /\ proc \in [Procs -> ProcState] /\ claude \in [Procs -> ClaudeState]
      /\ call \in [Calls -> CallState] /\ Lease(c) \in Nat /\ c \in Procs
  BY DEF Typed, Lease, Procs
<1>2. CASE Join(c)
  <2>1. pool[SessionOf(c)] \in Procs
    BY <1>1, <1>2 DEF Join, Typed
  <2>2. proc' = [proc EXCEPT ![pool[SessionOf(c)]].leases = @ + Lease(c)]
        /\ call' = [call EXCEPT ![c].pc = "wait", ![c].p = pool[SessionOf(c)]]
    BY <1>2 DEF Join
  <2>3. proc' \in [Procs -> ProcState] /\ call' \in [Calls -> CallState]
    <3>1. proc' \in [Procs -> ProcState]
      <4> DEFINE q == pool[SessionOf(c)]
                 n == proc[q].leases + Lease(c)
      <4>1. n \in Nat
        BY <1>5, <2>1 DEF ProcState
      <4>2. proc' = [proc EXCEPT ![q].leases = n]
        BY <2>2
      <4> DEFINE r == [proc[q] EXCEPT !.leases = n]
      <4>3. proc[q] \in ProcState
        BY <1>5, <2>1
      <4>4. r \in ProcState
        <5> HIDE DEF n, q
        <5> QED
          BY <4>1, <4>3 DEF ProcState
      <4>5. proc' = [proc EXCEPT ![q] = r]
        BY <4>2
      <4> HIDE DEF n, q, r
      <4> QED
        BY <1>5, <4>4, <4>5
    <3>2. call' \in [Calls -> CallState]
      BY <1>5, <2>1, <2>2 DEF CallState
    <3> QED
      BY <3>1, <3>2
  <2> QED
    BY <1>2, <2>3 DEF Join, Typed, history
<1>3. CASE Refuse(c)
  BY <1>3, GotoTyped DEF Refuse, Typed, history, procVars
<1>4. CASE Spawn(c)
  <2>1. /\ stops' \subseteq Procs /\ started' = started /\ upsets' = upsets
        /\ killed' = killed /\ job' = job /\ panicked' = panicked
    BY <1>4 DEF Spawn, history, Typed, Idle
  <2>2. PICK rest \in [Sessions -> Procs \cup {NoProc}] : Spawned(c, rest)
    BY <1>4 DEF Spawn, Typed
  <2>3. pool' \in [Sessions -> Procs \cup {NoProc}]
    BY <1>1, <2>2 DEF Spawned, Procs
  <2>4. proc' \in [Procs -> ProcState] /\ claude' \in [Procs -> ClaudeState]
        /\ call' \in [Calls -> CallState]
    <3>2. CASE call' = [call EXCEPT ![c].pc = "init", ![c].p = c]
      <4>1. /\ proc' = [proc EXCEPT ![c].leases = Lease(c)] \/ proc' = proc
            /\ claude' = [claude EXCEPT ![c].os = "up"] \/ claude' = claude
        BY <2>2 DEF Spawned
      <4>2. proc' \in [Procs -> ProcState]
        <5> DEFINE r == [proc[c] EXCEPT !.leases = Lease(c)]
        <5>1. r \in ProcState
          BY <1>5 DEF ProcState
        <5>2. proc' = [proc EXCEPT ![c] = r] \/ proc' = proc
          BY <4>1
        <5> HIDE DEF r
        <5> QED
          BY <1>5, <5>1, <5>2
      <4>3. claude' \in [Procs -> ClaudeState]
        <5> DEFINE l == [claude[c] EXCEPT !.os = "up"]
        <5>1. l \in ClaudeState
          BY <1>5 DEF ClaudeState
        <5>2. claude' = [claude EXCEPT ![c] = l] \/ claude' = claude
          BY <4>1
        <5> HIDE DEF l
        <5> QED
          BY <1>5, <5>1, <5>2
      <4>4. call' \in [Calls -> CallState]
        <5> DEFINE k == [call[c] EXCEPT !.pc = "init", !.p = c]
        <5>1. k \in CallState
          BY <1>5 DEF CallState
        <5>2. call' = [call EXCEPT ![c] = k]
          BY <3>2
        <5> HIDE DEF k
        <5> QED
          BY <1>5, <5>1, <5>2
      <4> QED
        BY <4>2, <4>3, <4>4
    <3>3. CASE Goto(c, "refused") /\ UNCHANGED <<proc, claude>>
      BY <3>3, GotoTyped DEF Typed
    <3> QED
      BY <2>2, <3>2, <3>3 DEF Spawned
  <2> QED
    BY <2>1, <2>3, <2>4 DEF Typed
<1> QED
  BY <1>2, <1>3, <1>4 DEF Enter

(***************************************************************************)
(* Flow(p) under the steps that leave p's queue and stdio alone, under     *)
(* those of its Claude, and under those of its queue.                      *)
(***************************************************************************)
\* What Claude was given stays so.
Onward ==
  /\ started \subseteq started'
  /\ \A x \in Calls : call[x].pc \in {"pass", "done"} =>
       call'[x].pc \in {"pass", "done"} /\ call'[x].p = call[x].p

\* A turn not written yet stays so.
Pending(p) ==
  \A x \in Calls : call[x].pc \in {"write", "undo"} /\ call[x].p = p =>
    call'[x].pc \in {"write", "undo"} /\ call'[x].p = p

\* What a command was given after the step.
GivenNext(p, x) ==
  IF x \in Calls THEN call'[x].p = p /\ call'[x].pc \in {"pass", "done"} ELSE x \in started'

LEMMA GivenKept ==
  ASSUME Onward, NEW p, NEW x, Given(p, x)
  PROVE  GivenNext(p, x)
BY DEF Onward, Given, GivenNext

LEMMA GivenBack ==
  ASSUME NEW p, NEW i \in DOMAIN proc[p].turns, Origin(p), Pending(p),
         GivenNext(p, proc[p].turns[i].cmd)
  PROVE  Given(p, proc[p].turns[i].cmd)
<1> DEFINE x == proc[p].turns[i].cmd
<1>1. CASE Given(p, x)
  BY <1>1
<1>2. CASE x \in Calls /\ call[x].p = p /\ call[x].pc \in {"write", "undo"}
  BY <1>2 DEF GivenNext, Pending
<1> QED
  BY <1>1, <1>2 DEF Origin

\* Origin(p) and Written(p) after a step of p's Claude or of its queue.
LEMMA OriginNext ==
  ASSUME NEW p,
         \A x \in Commands : Taken(claude'[p], x) => GivenNext(p, x),
         \A f \in DOMAIN claude'[p].out : GivenNext(p, claude'[p].out[f].cmd),
         \A i \in DOMAIN proc'[p].turns :
           LET t == proc'[p].turns[i] IN
           \/ GivenNext(p, t.cmd)
           \/ /\ t.cmd \in Calls /\ ~t.foreign /\ ~t.started
              /\ call'[t.cmd].p = p /\ call'[t.cmd].pc \in {"write", "undo"}
  PROVE  Origin(p)'
BY DEF Origin, Given, GivenNext

LEMMA WrittenNext ==
  ASSUME NEW p,
         claude'[p].os = "up" =>
           \A i \in DOMAIN proc'[p].turns :
             GivenNext(p, proc'[p].turns[i].cmd) =>
               \/ Over(claude'[p], proc'[p].turns[i].cmd)
               \/ InLine(claude'[p], proc'[p].turns[i].cmd)
  PROVE  Written(p)'
BY DEF Written, Given, GivenNext

LEMMA FlowKept ==
  ASSUME NEW p, Flow(p), claude'[p] = claude[p], proc'[p].turns = proc[p].turns,
         proc'[p].gone = proc[p].gone, Onward, Pending(p)
  PROVE  Flow(p)'
<1>1. Origin(p)'
  <2>1. Origin(p)
    BY DEF Flow
  <2> QED
    BY <2>1, GivenKept, OriginNext DEF Origin, Pending
<1>2. Written(p)'
  <2>1. Origin(p) /\ Written(p)
    BY DEF Flow
  <2> QED
    BY <2>1, GivenBack, WrittenNext DEF Written
<1> QED
  BY <1>1, <1>2 DEF Flow

LEMMA FlowMoved ==
  ASSUME NEW p, Flow(p), proc' = proc, call' = call, started \subseteq started',
         claude[p].os = "up", claude'[p].os = "up", Moves(claude[p], claude'[p]),
         Piped(claude'[p]), Ordered(claude'[p], proc[p].turns),
         \A x \in Commands : Taken(claude'[p], x) => Taken(claude[p], x) \/ GivenNext(p, x),
         \A f \in DOMAIN claude'[p].out :
           \/ f \in DOMAIN claude[p].out /\ claude'[p].out[f] = claude[p].out[f]
           \/ GivenNext(p, claude'[p].out[f].cmd)
  PROVE  Flow(p)'
<1>1. Onward /\ Pending(p)
  BY DEF Onward, Pending
<1>2. Origin(p)'
  <2>1. Origin(p)
    BY DEF Flow
  <2>2. \A x \in Commands : Taken(claude'[p], x) => GivenNext(p, x)
    BY <1>1, <2>1, GivenKept DEF Origin
  <2>3. \A f \in DOMAIN claude'[p].out : GivenNext(p, claude'[p].out[f].cmd)
    BY <1>1, <2>1, GivenKept DEF Origin
  <2> QED
    BY <1>1, <2>1, <2>2, <2>3, GivenKept, OriginNext DEF Origin
<1>3. Written(p)'
  <2>1. ASSUME NEW i \in DOMAIN proc[p].turns, GivenNext(p, proc[p].turns[i].cmd)
        PROVE  LET x == proc[p].turns[i].cmd IN Over(claude'[p], x) \/ InLine(claude'[p], x)
    <3>1. Given(p, proc[p].turns[i].cmd)
      BY <1>1, <2>1, GivenBack DEF Flow
    <3>2. LET x == proc[p].turns[i].cmd IN Over(claude[p], x) \/ InLine(claude[p], x)
      BY <3>1 DEF Flow, Written
    <3> QED
      BY <3>2 DEF Moves
  <2> QED
    BY <2>1, WrittenNext
<1> QED
  BY <1>2, <1>3 DEF Flow

\* Claude's steps leave its processes and the calls alone.
ClaudeMoves(p, l) ==
  /\ Typed' /\ claude'[p] = l /\ \A q \in Procs \ {p} : claude'[q] = claude[q]

LEMMA ClaudeTo ==
  ASSUME Typed, NEW p \in Procs, NEW l \in ClaudeState, claude' = [claude EXCEPT ![p] = l],
         UNCHANGED <<pool, proc, call, stops, job, killed, panicked>>,
         started' \subseteq Owns, upsets' \in 0 .. MaxUpsets
  PROVE  ClaudeMoves(p, l)
BY DEF Typed, ClaudeMoves

LEMMA UpsetTyped ==
  ASSUME Typed, Upset PROVE upsets' \in 0 .. MaxUpsets
BY ClaudePoolAssumption DEF Typed, Upset

LEMMA Appended ==
  ASSUME NEW S, NEW q \in Seq(S), NEW e \in S
  PROVE  /\ Append(q, e) \in Seq(S)
         /\ \A f \in DOMAIN q : f \in DOMAIN Append(q, e) /\ Append(q, e)[f] = q[f]
         /\ \A f \in DOMAIN Append(q, e) :
              f \notin DOMAIN q => Append(q, e)[f] = e /\ \A g \in DOMAIN q : g < f /\ ~(f < g)
OBVIOUS

LEMMA StartFlow ==
  ASSUME Typed, NEW p \in Procs, Flow(p), Start(p)
  PROVE  ClaudeMoves(p, claude'[p]) /\ claude'[p].os = "up" /\ Flow(p)'
<1> DEFINE k == claude[p]
           h == Head(k.inbox)
           e == [cmd |-> h, state |-> "started"]
           l == [k EXCEPT !.inbox = Tail(@), !.run = <<h>>, !.out = Append(@, e)]
<1>1. k \in ClaudeState /\ k.os = "up" /\ k.run = <<>> /\ k.inbox # <<>>
  BY DEF Start, CanSay, Typed
<1>2. h \in Calls /\ h \in Commands /\ Tail(k.inbox) \in Seq(Calls) /\ e \in Frame
  BY <1>1, TailFacts DEF ClaudeState, Frame, Commands
<1>3. /\ l \in ClaudeState /\ l.run = <<h>> /\ l.inbox = Tail(k.inbox) /\ l.threw = k.threw
      /\ l.out = Append(k.out, e) /\ l.os = k.os
  <2>1. <<h>> \in Seq(Commands) /\ Append(k.out, e) \in Seq(Frame)
    BY <1>1, <1>2 DEF ClaudeState
  <2> QED
    BY <1>1, <1>2, <2>1 DEF ClaudeState
<1>4. claude' = [claude EXCEPT ![p] = l]
  BY DEF Start
<1>5. UNCHANGED <<pool, proc, call, stops, job, killed, panicked, started, upsets>>
  BY DEF Start, procVars, history
<1>6. ClaudeMoves(p, l)
  <2>1. started' \subseteq Owns /\ upsets' \in 0 .. MaxUpsets
    BY <1>5 DEF Typed
  <2> QED
    BY <1>3, <1>4, <1>5, <2>1, ClaudeTo
<1>7. /\ Piped(l) /\ Moves(k, l) /\ IsIn(h, k.inbox)
      /\ \A x : InLine(l, x) <=> InLine(k, x)
      /\ \A x : IsIn(x, l.run) <=> x = h
  BY <1>1, <1>3, StartMoves DEF Flow
<1>8. /\ Prefixed(k, l)
      /\ \A f \in DOMAIN l.out : f \notin DOMAIN k.out => l.out[f] = e
  <2>1. k.out \in Seq(Frame)
    BY <1>1 DEF ClaudeState
  <2> QED
    BY <1>2, <1>3, <2>1, Appended DEF Prefixed
<1>9. e.cmd = h /\ e.state = "started"
  OBVIOUS
<1>10. l.out[Len(k.out) + 1] = e /\ Len(k.out) + 1 \in DOMAIN l.out
  BY <1>1, <1>2, <1>3 DEF ClaudeState
<1>11. Ordered(k, proc[p].turns) /\ Piped(k) /\ Origin(p)
  BY DEF Flow
<1> HIDE DEF l, h, e
<1>12. Ordered(l, proc[p].turns)
  <2> DEFINE turns == proc[p].turns
  <2>1. ASSUME NEW i \in DOMAIN turns, NEW j \in DOMAIN turns, turns[i].cmd = h, j < i
        PROVE  turns[j].started \/ \E d \in DOMAIN k.out : k.out[d].cmd = turns[j].cmd
    <3>1. Ahead(k, turns[j].cmd, h)
      <4>1. InLine(k, turns[i].cmd)
        BY <2>1, <1>7 DEF InLine
      <4> QED
        BY <2>1, <4>1, <1>11 DEF Ordered, Queued
    <3>2. ~Before(k.run, turns[j].cmd, h) /\ ~IsIn(turns[j].cmd, k.run)
      BY <1>1 DEF Before, IsIn
    <3>3. ~Before(k.inbox, turns[j].cmd, h)
      <4>1. k.inbox \in Seq(Calls) /\ Unique(k.inbox)
        BY <1>1, <1>11 DEF ClaudeState, Piped
      <4>2. k.inbox[1] = h /\ 1 \in DOMAIN k.inbox /\ DOMAIN k.inbox = 1 .. Len(k.inbox)
        BY <1>1, <4>1 DEF h
      <4> QED
        BY <4>1, <4>2 DEF Before, Unique
    <3> QED
      BY <3>1, <3>2, <3>3, <1>11 DEF Ahead, Over, Ordered, Queued
  <2>2. ASSUME NEW f \in DOMAIN l.out, f \notin DOMAIN k.out PROVE Announced(l, turns, f)
    <3>1. l.out[f].cmd = h
      BY <2>2, <1>8, <1>9
    <3>2. IsIn(h, l.run) /\ \A y : ~IsIn(y, k.run)
      BY <1>1, <1>7 DEF IsIn
    <3>3. \A d \in DOMAIN l.out : d < f => d \in DOMAIN k.out /\ l.out[d] = k.out[d]
      <4>1. \A d \in DOMAIN l.out : d \notin DOMAIN k.out => ~(d < f)
        <5>1. k.out \in Seq(Frame)
          BY <1>1 DEF ClaudeState
        <5>2. DOMAIN l.out = DOMAIN k.out \cup {Len(k.out) + 1} /\ Len(k.out) \in Nat
          BY <5>1, <1>3 DEF e
        <5> QED
          BY <2>2, <5>2
      <4> QED
        BY <4>1, <1>8 DEF Prefixed
    <3>4. \A d \in DOMAIN k.out : d \in DOMAIN l.out /\ d < f /\ l.out[d] = k.out[d]
      BY <2>2, <1>8 DEF Prefixed
    <3> QED
      BY <2>1, <2>2, <3>1, <3>2, <3>3, <3>4, <1>1, <1>7, <1>11, NewAnnounced
  <2>3. ASSUME NEW f \in DOMAIN k.out, k.out[f].state = "started" PROVE k.out[f].cmd # h
    BY <2>3, <1>7, <1>11 DEF Piped
  <2>4. l.os = k.os /\ l.threw = k.threw
    BY <1>3
  <2> QED
    BY <2>2, <2>3, <2>4, <1>7, <1>8, <1>9, <1>10, <1>11, OrderMoves
<1>13. /\ claude'[p] = l /\ proc' = proc /\ call' = call /\ started' = started
       /\ \A f \in DOMAIN l.out :
            (f \in DOMAIN k.out /\ l.out[f] = k.out[f]) \/ GivenNext(p, l.out[f].cmd)
  <2>1. GivenNext(p, h)
    <3>1. Given(p, h) /\ call' = call /\ started' = started
      BY <1>2, <1>5, <1>7, <1>11 DEF Origin, InLine, Taken
    <3> QED
      BY <3>1 DEF Given, GivenNext
  <2> QED
    BY <2>1, <1>5, <1>6, <1>8, <1>9 DEF ClaudeMoves, Prefixed
<1> QED
  BY <1>1, <1>3, <1>6, <1>7, <1>12, <1>13, FlowMoved DEF Taken

LEMMA StartOwnFlow ==
  ASSUME Typed, NEW p \in Procs, Flow(p), StartOwn(p)
  PROVE  ClaudeMoves(p, claude'[p]) /\ claude'[p].os = "up" /\ Flow(p)'
<1> DEFINE k == claude[p]
<1> PICK o \in Owns \ started : /\ started' = started \cup {o}
                                /\ Say(p, o, "started", Append(k.run, o))
  BY DEF StartOwn
<1> DEFINE e == [cmd |-> o, state |-> "started"]
           l == [k EXCEPT !.run = Append(@, o), !.out = Append(@, e)]
<1>1. k \in ClaudeState /\ k.os = "up" /\ o \in Commands /\ o \notin Calls /\ e \in Frame
      /\ o \notin started
  BY ClaudePoolAssumption DEF StartOwn, CanSay, Typed, Commands, Frame
<1>2. k.run \in Seq(Commands) /\ k.out \in Seq(Frame)
  BY <1>1 DEF ClaudeState
<1>3. /\ l \in ClaudeState /\ l.run = Append(k.run, o) /\ l.inbox = k.inbox
      /\ l.threw = k.threw /\ l.out = Append(k.out, e) /\ l.os = k.os
  <2>1. Append(k.run, o) \in Seq(Commands) /\ Append(k.out, e) \in Seq(Frame)
    BY <1>1, <1>2
  <2> QED
    BY <1>1, <2>1 DEF ClaudeState
<1>4. claude' = [claude EXCEPT ![p] = l]
  BY DEF Say
<1>5. UNCHANGED <<pool, proc, call, stops, job, killed, panicked, upsets>>
  BY DEF StartOwn, procVars, history
<1>6. ClaudeMoves(p, l)
  <2>1. started' \subseteq Owns /\ upsets' \in 0 .. MaxUpsets
    BY <1>5 DEF Typed
  <2> QED
    BY <1>3, <1>4, <1>5, <2>1, ClaudeTo
<1>7. Ordered(k, proc[p].turns) /\ Piped(k) /\ Origin(p)
  BY DEF Flow
<1>8. ~Given(p, o)
  BY <1>1 DEF Given
<1>9. ~InLine(k, o) /\ \A f \in DOMAIN k.out : k.out[f].cmd # o
  BY <1>1, <1>7, <1>8 DEF Origin, Taken
<1>10. \A i \in DOMAIN proc[p].turns : proc[p].turns[i].cmd # o
  BY <1>1, <1>7, <1>8 DEF Origin
<1> HIDE DEF l
<1>11. /\ Piped(l) /\ Moves(k, l)
       /\ \A x : InLine(l, x) <=> InLine(k, x) \/ x = o
       /\ \A x : IsIn(x, l.run) <=> IsIn(x, k.run) \/ x = o
       /\ \A y : IsIn(y, k.run) => Ahead(l, y, o)
  BY <1>1, <1>3, <1>7, <1>9, StartOwnMoves
<1>12. /\ Prefixed(k, l)
       /\ \A f \in DOMAIN l.out : f \notin DOMAIN k.out => l.out[f] = e
  BY <1>1, <1>2, <1>3, Appended DEF Prefixed
<1>13. e.cmd = o /\ e.state = "started"
  OBVIOUS
<1>14. l.out[Len(k.out) + 1] = e /\ Len(k.out) + 1 \in DOMAIN l.out
  BY <1>1, <1>2, <1>3
<1> HIDE DEF e
<1>15. Ordered(l, proc[p].turns)
  <2> DEFINE turns == proc[p].turns
  <2>1. ASSUME NEW f \in DOMAIN l.out, f \notin DOMAIN k.out PROVE Announced(l, turns, f)
    <3>1. l.out[f].cmd = o
      BY <2>1, <1>12, <1>13
    <3>2. IsIn(o, l.run)
      BY <1>11
    <3>3. \A d \in DOMAIN l.out : d < f => d \in DOMAIN k.out /\ l.out[d] = k.out[d]
      <4>1. \A d \in DOMAIN l.out : d \notin DOMAIN k.out => ~(d < f)
        <5>1. DOMAIN l.out = DOMAIN k.out \cup {Len(k.out) + 1} /\ Len(k.out) \in Nat
          BY <1>2, <1>3 DEF e
        <5> QED
          BY <2>1, <5>1
      <4> QED
        BY <4>1, <1>12 DEF Prefixed
    <3>4. \A d \in DOMAIN k.out : d \in DOMAIN l.out /\ d < f /\ l.out[d] = k.out[d]
      BY <2>1, <1>12 DEF Prefixed
    <3> QED
      BY <2>1, <3>1, <3>2, <3>3, <3>4, <1>1, <1>7, <1>10, <1>11, NewAnnounced
  <2>2. l.os = k.os /\ l.threw = k.threw
    BY <1>3
  <2> QED
    BY <2>1, <2>2, <1>7, <1>9, <1>10, <1>11, <1>12, <1>13, <1>14, OrderMoves
<1>16. /\ claude'[p] = l /\ proc' = proc /\ call' = call /\ started \subseteq started'
       /\ GivenNext(p, o)
       /\ \A f \in DOMAIN l.out :
            (f \in DOMAIN k.out /\ l.out[f] = k.out[f]) \/ GivenNext(p, l.out[f].cmd)
  <2>1. GivenNext(p, o)
    BY <1>1 DEF GivenNext
  <2> QED
    BY <2>1, <1>5, <1>6, <1>12, <1>13 DEF ClaudeMoves, Prefixed
<1> QED
  BY <1>1, <1>3, <1>6, <1>11, <1>15, <1>16, FlowMoved DEF Taken

\* End, Throw and Discard, once what they do to the line and to stdout is known.
LEMMA DropFlow ==
  ASSUME Typed, NEW p \in Procs, Flow(p), NEW l \in ClaudeState, NEW e \in Commands,
         claude' = [claude EXCEPT ![p] = l], claude[p].os = "up", l.os = "up",
         UNCHANGED <<pool, proc, call, stops, job, killed, panicked, started>>,
         upsets' \in 0 .. MaxUpsets,
         \/ Loses(claude[p].run, e, l.run) /\ l.inbox = claude[p].inbox
         \/ Loses(claude[p].inbox, e, l.inbox) /\ l.run = claude[p].run,
         \/ l.out = claude[p].out /\ l.threw = claude[p].threw \cup {e} /\ IsIn(e, claude[p].run)
         \/ l.out = Append(claude[p].out, [cmd |-> e, state |-> "ended"])
            /\ l.threw = claude[p].threw
  PROVE  ClaudeMoves(p, claude'[p]) /\ claude'[p].os = "up" /\ Flow(p)'
<1> DEFINE k == claude[p]
           last == [cmd |-> e, state |-> "ended"]
<1>1. k \in ClaudeState /\ k.out \in Seq(Frame) /\ last \in Frame
  BY DEF Typed, ClaudeState, Frame
<1>2. ClaudeMoves(p, l)
  BY ClaudeTo DEF Typed
<1>3. last.cmd = e /\ last.state = "ended" /\ last.state # "started"
  OBVIOUS
<1>4. /\ Prefixed(k, l)
      /\ \A f \in DOMAIN l.out : f \notin DOMAIN k.out => l.out[f] = last
  <2>1. CASE l.out = k.out
    BY <2>1 DEF Prefixed
  <2>2. CASE l.out = Append(k.out, last)
    BY <2>2, <1>1, Appended DEF Prefixed
  <2> QED
    BY <2>1, <2>2
<1>5. \A y : Over(l, y) <=> Over(k, y) \/ y = e
  <2>1. CASE l.out = k.out /\ l.threw = k.threw \cup {e}
    BY <2>1 DEF Over
  <2>2. CASE l.out = Append(k.out, last) /\ l.threw = k.threw
    <3>1. DOMAIN l.out = DOMAIN k.out \cup {Len(k.out) + 1} /\ l.out[Len(k.out) + 1] = last
      BY <2>2, <1>1
    <3> HIDE DEF last
    <3> QED
      BY <2>2, <3>1, <1>3, <1>4 DEF Over, Prefixed
  <2> QED
    BY <2>1, <2>2
<1> HIDE DEF last
<1>6. Ordered(k, proc[p].turns) /\ Piped(k) /\ Origin(p)
  BY DEF Flow
<1>7. /\ Piped(l) /\ Moves(k, l)
      /\ \A x : InLine(l, x) => InLine(k, x)
      /\ \A x : IsIn(x, l.run) => IsIn(x, k.run)
  BY <1>3, <1>4, <1>5, <1>6, DropMoves
<1>8. Ordered(l, proc[p].turns)
  <2>1. \A x \in l.threw : x \in k.threw \/ IsIn(x, k.run)
    OBVIOUS
  <2>2. l.os = k.os
    OBVIOUS
  <2> QED
    BY <2>1, <2>2, <1>3, <1>4, <1>6, <1>7, OrderMoves
<1>9. GivenNext(p, e)
  <2>1. InLine(k, e)
    BY DEF InLine, Loses
  <2>2. Given(p, e) /\ Onward
    BY <2>1, <1>6 DEF Origin, Onward, Taken
  <2> QED
    BY <2>2, GivenKept
<1>10. \A f \in DOMAIN l.out :
         (f \in DOMAIN k.out /\ l.out[f] = k.out[f]) \/ GivenNext(p, l.out[f].cmd)
  BY <1>3, <1>4, <1>9 DEF Prefixed
<1>11. claude'[p] = l
  BY <1>2 DEF ClaudeMoves
<1> QED
  BY <1>2, <1>7, <1>8, <1>10, <1>11, FlowMoved DEF Taken, InLine

LEMMA EndFlow ==
  ASSUME Typed, NEW p \in Procs, Flow(p), End(p)
  PROVE  ClaudeMoves(p, claude'[p]) /\ claude'[p].os = "up" /\ Flow(p)'
<1> DEFINE k == claude[p]
<1> PICK i \in DOMAIN k.run : Say(p, k.run[i], "ended", RemoveAt(k.run, i))
  BY DEF End
<1> DEFINE e == k.run[i]
           last == [cmd |-> e, state |-> "ended"]
           l == [k EXCEPT !.run = RemoveAt(k.run, i), !.out = Append(@, last)]
<1>1. k \in ClaudeState /\ k.os = "up" /\ k.run \in Seq(Commands) /\ k.out \in Seq(Frame)
  BY DEF End, CanSay, Typed, ClaudeState
<1>2. e \in Commands /\ last \in Frame
  BY <1>1 DEF Frame
<1>3. RemoveAt(k.run, i) \in Seq(Commands) /\ Loses(k.run, e, RemoveAt(k.run, i))
  BY <1>1, RemoveAtFacts, WithoutFacts
<1>4. /\ l \in ClaudeState /\ l.run = RemoveAt(k.run, i) /\ l.inbox = k.inbox
      /\ l.threw = k.threw /\ l.out = Append(k.out, last) /\ l.os = k.os
  <2>1. Append(k.out, last) \in Seq(Frame)
    BY <1>1, <1>2
  <2> HIDE DEF last
  <2> QED
    BY <1>1, <1>3, <2>1 DEF ClaudeState
<1>5. claude' = [claude EXCEPT ![p] = l]
  BY DEF Say
<1>6. /\ UNCHANGED <<pool, proc, call, stops, job, killed, panicked, started>>
      /\ upsets' \in 0 .. MaxUpsets
  BY DEF End, procVars, history, Typed
<1> HIDE DEF l, e
<1> QED
  BY <1>1, <1>2, <1>3, <1>4, <1>5, <1>6, DropFlow

LEMMA ThrowFlow ==
  ASSUME Typed, NEW p \in Procs, Flow(p), Throw(p)
  PROVE  ClaudeMoves(p, claude'[p]) /\ claude'[p].os = "up" /\ Flow(p)'
<1> DEFINE k == claude[p]
           e == Head(k.run)
           l == [k EXCEPT !.run = Tail(@), !.threw = @ \cup {e}]
<1>1. /\ k \in ClaudeState /\ k.os = "up" /\ k.run \in Seq(Commands) /\ k.run # <<>>
      /\ k.threw \subseteq Commands
  BY DEF Throw, Typed, ClaudeState
<1>2. e \in Commands /\ e = k.run[1] /\ 1 \in DOMAIN k.run
  BY <1>1
<1>3. Tail(k.run) \in Seq(Commands) /\ Loses(k.run, e, Tail(k.run)) /\ IsIn(e, k.run)
  <2>1. Tail(k.run) \in Seq(Commands) /\ Loses(k.run, k.run[1], Tail(k.run))
    BY <1>1, TailFacts, WithoutFacts
  <2> QED
    BY <2>1, <1>2 DEF Loses
<1>4. /\ l \in ClaudeState /\ l.run = Tail(k.run) /\ l.inbox = k.inbox
      /\ l.threw = k.threw \cup {e} /\ l.out = k.out /\ l.os = k.os
  BY <1>1, <1>2, <1>3 DEF ClaudeState
<1>5. claude' = [claude EXCEPT ![p] = l]
  BY DEF Throw
<1>6. /\ UNCHANGED <<pool, proc, call, stops, job, killed, panicked, started>>
      /\ upsets' \in 0 .. MaxUpsets
  BY UpsetTyped DEF Throw, procVars
<1> HIDE DEF l, e
<1> QED
  BY <1>1, <1>2, <1>3, <1>4, <1>5, <1>6, DropFlow

LEMMA DiscardFlow ==
  ASSUME Typed, NEW p \in Procs, Flow(p), Discard(p)
  PROVE  ClaudeMoves(p, claude'[p]) /\ claude'[p].os = "up" /\ Flow(p)'
<1> DEFINE k == claude[p]
<1> PICK i \in DOMAIN k.inbox :
      claude' = [claude EXCEPT ![p].inbox = RemoveAt(@, i),
                    ![p].out = Append(@, [cmd |-> claude[p].inbox[i], state |-> "ended"])]
  BY DEF Discard
<1> DEFINE e == k.inbox[i]
           last == [cmd |-> e, state |-> "ended"]
           l == [k EXCEPT !.inbox = RemoveAt(k.inbox, i), !.out = Append(@, last)]
<1>1. k \in ClaudeState /\ k.os = "up" /\ k.inbox \in Seq(Calls) /\ k.out \in Seq(Frame)
  BY DEF Discard, CanSay, Typed, ClaudeState
<1>2. e \in Commands /\ last \in Frame
  BY <1>1 DEF Frame, Commands
<1>3. RemoveAt(k.inbox, i) \in Seq(Calls) /\ Loses(k.inbox, e, RemoveAt(k.inbox, i))
  BY <1>1, RemoveAtFacts, WithoutFacts
<1>4. /\ l \in ClaudeState /\ l.inbox = RemoveAt(k.inbox, i) /\ l.run = k.run
      /\ l.threw = k.threw /\ l.out = Append(k.out, last) /\ l.os = k.os
  <2>1. Append(k.out, last) \in Seq(Frame)
    BY <1>1, <1>2
  <2> HIDE DEF last
  <2> QED
    BY <1>1, <1>3, <2>1 DEF ClaudeState
<1>5. claude' = [claude EXCEPT ![p] = l]
  OBVIOUS
<1>6. /\ UNCHANGED <<pool, proc, call, stops, job, killed, panicked, started>>
      /\ upsets' \in 0 .. MaxUpsets
  BY DEF Discard, procVars, history, Typed
<1> HIDE DEF l, e
<1> QED
  BY <1>1, <1>2, <1>3, <1>4, <1>5, <1>6, DropFlow

\* Claude is down: nothing is in line any more.
LEMMA OrderDown ==
  ASSUME NEW k, NEW l, NEW turns, Piped(k), Ordered(k, turns), l.os # "up",
         l.run = <<>>, l.inbox = <<>>, l.threw = {}, l.out = k.out \/ l.out = <<>>
  PROVE  Piped(l) /\ Ordered(l, turns)
<1>1. \A x : ~IsIn(x, l.run) /\ ~IsIn(x, l.inbox) /\ ~InLine(l, x)
  BY DEF IsIn, InLine
<1>2. Piped(l)
  BY <1>1 DEF Piped, Unique
<1>3. Queued(l, turns)
  BY <1>1 DEF Queued
<1>4. ASSUME NEW f \in DOMAIN l.out, l.out[f].state = "started" PROVE Announced(l, turns, f)
  BY <1>1, <1>4 DEF Announced, Ordered
<1> QED
  BY <1>2, <1>3, <1>4 DEF Ordered

LEMMA ExitFlow ==
  ASSUME Typed, NEW p \in Procs, Flow(p), Exit(p)
  PROVE  ClaudeMoves(p, claude'[p]) /\ claude'[p].os = "exited" /\ Flow(p)'
<1> DEFINE k == claude[p]
           l == [k EXCEPT !.os = "exited", !.inbox = <<>>, !.run = <<>>, !.threw = {}]
<1>1. k \in ClaudeState /\ k.os = "up"
  BY DEF Exit, Typed
<1>2. /\ l \in ClaudeState /\ l.run = <<>> /\ l.inbox = <<>> /\ l.threw = {}
      /\ l.out = k.out /\ l.os = "exited"
  <2> DEFINE none == <<>>
  <2>1. none \in Seq(Calls) /\ none \in Seq(Commands)
    OBVIOUS
  <2> HIDE DEF none
  <2>2. [k EXCEPT !.os = "exited", !.inbox = none, !.run = none, !.threw = {}] \in ClaudeState
    BY <1>1, <2>1 DEF ClaudeState
  <2> QED
    BY <1>1, <2>2 DEF none, ClaudeState
<1>3. claude' = [claude EXCEPT ![p] = l]
  BY DEF Exit
<1>4. /\ UNCHANGED <<pool, proc, call, stops, job, killed, panicked, started>>
      /\ upsets' \in 0 .. MaxUpsets
  BY UpsetTyped DEF Exit, procVars, Typed
<1> HIDE DEF l
<1>5. ClaudeMoves(p, l) /\ claude'[p] = l
  BY <1>2, <1>3, <1>4, ClaudeTo DEF Typed, ClaudeMoves
<1>6. Ordered(k, proc[p].turns) /\ Piped(k) /\ Origin(p) /\ Onward /\ Pending(p)
  BY <1>4 DEF Flow, Onward, Pending
<1>7. Piped(l) /\ Ordered(l, proc[p].turns)
  BY <1>2, <1>6, OrderDown
<1>8. Origin(p)'
  <2>1. \A x : ~Taken(l, x)
    BY <1>2 DEF InLine, IsIn, Taken
  <2> QED
    BY <1>2, <1>4, <1>5, <1>6, <2>1, GivenKept, OriginNext DEF Origin, Pending
<1>9. Written(p)'
  BY <1>2, <1>5, WrittenNext
<1> QED
  BY <1>2, <1>4, <1>5, <1>7, <1>8, <1>9 DEF Flow

\* What the steps of a queue, and the frames readLoop takes, leave of Flow(p).
Stays(p, turns, t) ==
  \E j \in DOMAIN turns :
    /\ t.cmd = turns[j].cmd /\ t.foreign = turns[j].foreign
    /\ t.started => turns[j].started \/ GivenNext(p, t.cmd)
    /\ t.cmd \in Calls /\ call[t.cmd].pc \in {"write", "undo"} /\ call[t.cmd].p = p =>
         call'[t.cmd].pc \in {"write", "undo"} /\ call'[t.cmd].p = p
    /\ Over(claude[p], t.cmd) => Over(claude'[p], t.cmd)

Begins(p, t) ==
  /\ GivenNext(p, t.cmd)
  /\ claude'[p].os = "up" => Over(claude'[p], t.cmd) \/ InLine(claude'[p], t.cmd)

Arrives(p, t) ==
  /\ t.cmd \in Calls /\ ~t.foreign /\ ~t.started
  /\ call'[t.cmd].p = p /\ call'[t.cmd].pc \in {"write", "undo"}

LEMMA FlowTurned ==
  ASSUME NEW p, Flow(p), Onward, proc'[p].gone = proc[p].gone,
         claude'[p].os = claude[p].os, claude'[p].run = claude[p].run,
         claude'[p].inbox = claude[p].inbox, claude'[p].threw = claude[p].threw,
         Piped(claude'[p]), Ordered(claude'[p], proc'[p].turns),
         \A f \in DOMAIN claude'[p].out : Given(p, claude'[p].out[f].cmd),
         \A i \in DOMAIN proc'[p].turns :
           \/ Stays(p, proc[p].turns, proc'[p].turns[i])
           \/ Begins(p, proc'[p].turns[i])
           \/ Arrives(p, proc'[p].turns[i])
  PROVE  Flow(p)'
<1> DEFINE r == proc'[p].turns
<1>1. Origin(p) /\ Written(p)
  BY DEF Flow
<1>2. \A x : Taken(claude'[p], x) <=> Taken(claude[p], x)
  BY DEF Taken, InLine
<1>3. ASSUME NEW i \in DOMAIN r
      PROVE  GivenNext(p, r[i].cmd) \/ Arrives(p, r[i])
  <2>1. ASSUME Stays(p, proc[p].turns, r[i])
        PROVE  GivenNext(p, r[i].cmd) \/ Arrives(p, r[i])
    <3>1. PICK j \in DOMAIN proc[p].turns :
            /\ r[i].cmd = proc[p].turns[j].cmd /\ r[i].foreign = proc[p].turns[j].foreign
            /\ r[i].started => proc[p].turns[j].started \/ GivenNext(p, r[i].cmd)
            /\ r[i].cmd \in Calls /\ call[r[i].cmd].pc \in {"write", "undo"} /\ call[r[i].cmd].p = p =>
                 call'[r[i].cmd].pc \in {"write", "undo"} /\ call'[r[i].cmd].p = p
      BY <2>1 DEF Stays
    <3>2. Given(p, proc[p].turns[j].cmd) => GivenNext(p, proc[p].turns[j].cmd)
      BY GivenKept
    <3> QED
      BY <3>1, <3>2, <1>1 DEF Origin, Arrives
  <2> QED
    BY <2>1, <1>3 DEF Begins
<1>4. Origin(p)'
  <2>1. \A x \in Commands : Taken(claude'[p], x) => GivenNext(p, x)
    BY <1>1, <1>2, GivenKept DEF Origin
  <2>2. \A f \in DOMAIN claude'[p].out : GivenNext(p, claude'[p].out[f].cmd)
    BY GivenKept
  <2> QED
    BY <2>1, <2>2, <1>3, OriginNext DEF Arrives
<1>5. Written(p)'
  <2>1. ASSUME claude'[p].os = "up", NEW i \in DOMAIN r, GivenNext(p, r[i].cmd)
        PROVE  Over(claude'[p], r[i].cmd) \/ InLine(claude'[p], r[i].cmd)
    <3>1. CASE Stays(p, proc[p].turns, r[i])
      <4>1. PICK j \in DOMAIN proc[p].turns :
              /\ r[i].cmd = proc[p].turns[j].cmd
              /\ r[i].cmd \in Calls /\ call[r[i].cmd].pc \in {"write", "undo"} /\ call[r[i].cmd].p = p =>
                   call'[r[i].cmd].pc \in {"write", "undo"} /\ call'[r[i].cmd].p = p
              /\ Over(claude[p], r[i].cmd) => Over(claude'[p], r[i].cmd)
        BY <3>1 DEF Stays
      <4>2. Given(p, r[i].cmd)
        BY <2>1, <4>1, <1>1 DEF Origin, GivenNext
      <4>3. Over(claude[p], r[i].cmd) \/ InLine(claude[p], r[i].cmd)
        BY <2>1, <4>1, <4>2, <1>1 DEF Written
      <4> QED
        BY <4>1, <4>3 DEF InLine
    <3>2. CASE Begins(p, r[i])
      BY <2>1, <3>2 DEF Begins
    <3>3. CASE Arrives(p, r[i])
      BY <2>1, <3>3 DEF Arrives, GivenNext
    <3> QED
      BY <3>1, <3>2, <3>3
  <2> QED
    BY <2>1, WrittenNext
<1> QED
  BY <1>4, <1>5 DEF Flow

\* One process's record changes.
LEMMA ProcTo ==
  ASSUME Typed, NEW p \in Procs, NEW q \in ProcState, proc' = [proc EXCEPT ![p] = q]
  PROVE  /\ proc' \in [Procs -> ProcState] /\ proc'[p] = q
         /\ \A r \in Procs \ {p} : proc'[r] = proc[r]
BY DEF Typed

LEMMA CallProc ==
  ASSUME Typed, Mapped, NEW c \in Calls, call[c].pc \in OnTheWay \cup {"done"}
  PROVE  call[c].p \in Procs
BY DEF Typed, Mapped, CallState

\* The last own turn, in the queue of its process.
NewTurn(c) == [cmd |-> c, started |-> FALSE, foreign |-> FALSE, grace |-> FALSE]

QueueEffect(c, p) ==
  /\ p = call[c].p /\ p \in Procs /\ call[c].pc = "append"
  /\ proc' \in [Procs -> ProcState] /\ proc'[p].turns = Append(proc[p].turns, NewTurn(c))
  /\ proc'[p].gone = proc[p].gone /\ proc'[p].init = proc[p].init
  /\ proc'[p].leases = proc[p].leases /\ proc'[p].stopping = proc[p].stopping
  /\ \A q \in Procs \ {p} : proc'[q] = proc[q]
  /\ call' \in [Calls -> CallState]
  /\ call'[c].pc = "write" /\ call'[c].p = p /\ call'[c].told = call[c].told
  /\ \A d \in Calls : d # c => call'[d] = call[d]

LEMMA QueueTyped ==
  ASSUME Typed, Mapped, NEW c \in Calls, Queue(c)
  PROVE  Typed' /\ QueueEffect(c, call[c].p)
<1> DEFINE p == call[c].p
           q == [proc[p] EXCEPT !.turns = Append(@, NewTurn(c))]
<1>1. p \in Procs /\ call[c].pc = "append"
  BY CallProc DEF Queue, OnTheWay
<1>2. NewTurn(c) \in Turn
  BY DEF NewTurn, Turn, Commands
<1>3. /\ q \in ProcState /\ q.turns = Append(proc[p].turns, NewTurn(c))
      /\ q.gone = proc[p].gone /\ q.init = proc[p].init
      /\ q.leases = proc[p].leases /\ q.stopping = proc[p].stopping
  <2>1. proc[p] \in ProcState /\ proc[p].turns \in Seq(Turn)
    BY <1>1 DEF Typed, ProcState
  <2>2. Append(proc[p].turns, NewTurn(c)) \in Seq(Turn)
    BY <1>2, <2>1
  <2> QED
    BY <2>1, <2>2 DEF ProcState
<1>4. proc' = [proc EXCEPT ![p] = q] /\ Goto(c, "write")
  BY DEF Queue, NewTurn
<1> HIDE DEF q
<1>5. /\ proc' \in [Procs -> ProcState] /\ proc'[p] = q
      /\ \A r \in Procs \ {p} : proc'[r] = proc[r]
  BY <1>1, <1>3, <1>4, ProcTo
<1>6. /\ call' \in [Calls -> CallState]
      /\ call'[c].pc = "write" /\ call'[c].p = p /\ call'[c].told = call[c].told
      /\ \A d \in Calls : d # c => call'[d] = call[d]
  <2>1. call \in [Calls -> CallState]
    BY DEF Typed
  <2> QED
    BY <1>4, <2>1, GotoTyped
<1>7. Typed'
  BY <1>5, <1>6 DEF Typed, Queue, history
<1> QED
  BY <1>1, <1>3, <1>5, <1>6, <1>7 DEF QueueEffect

LEMMA QueueFlow ==
  ASSUME Typed, Flows, NEW c \in Calls, NEW p, QueueEffect(c, p),
         claude' = claude, started' = started
  PROVE  Flows'
<1> DEFINE t == NewTurn(c)
           k == claude[p]
           turns == proc[p].turns
<1>1. p \in Procs /\ Flow(p) /\ turns \in Seq(Turn) /\ c \in Commands /\ Piped(k)
  BY DEF QueueEffect, Flows, Flow, Typed, ProcState, Commands
<1>2. t \in Turn /\ t.cmd = c /\ ~t.started /\ ~t.foreign
  BY DEF NewTurn, Turn, Commands
<1>3. Onward /\ \A q \in Procs \ {p} : Pending(q)
  BY DEF QueueEffect, Onward, Pending
<1>4. ~Given(p, c) /\ Origin(p) /\ Ordered(k, turns)
  BY <1>1 DEF QueueEffect, Given, Flow
<1>5. /\ ~Taken(k, c) /\ \A f \in DOMAIN k.out : k.out[f].cmd # c
      /\ \A i \in DOMAIN turns : turns[i].cmd # c
  BY <1>1, <1>4 DEF Origin, QueueEffect
<1> HIDE DEF t
<1>6. Ordered(k, Append(turns, t))
  BY <1>1, <1>2, <1>4, <1>5, OrderAppend DEF Taken
<1>7. Flow(p)'
  <2>1. /\ proc'[p].turns = Append(turns, t) /\ proc'[p].gone = proc[p].gone
        /\ claude'[p] = k
    BY DEF QueueEffect, t
  <2>2. \A f \in DOMAIN k.out : Given(p, k.out[f].cmd)
    BY <1>4 DEF Origin
  <2>3. ASSUME NEW i \in DOMAIN Append(turns, t)
        PROVE  \/ Stays(p, turns, Append(turns, t)[i])
               \/ Arrives(p, Append(turns, t)[i])
    <3>1. CASE i \in DOMAIN turns
      <4>1. Append(turns, t)[i] = turns[i]
        BY <1>1, <3>1
      <4>2. turns[i].cmd # c
        BY <1>5, <3>1
      <4> QED
        BY <1>4, <3>1, <4>1, <4>2 DEF Stays, QueueEffect
    <3>2. CASE i \notin DOMAIN turns
      <4>1. Append(turns, t)[i] = t
        BY <1>1, <1>2, <3>2
      <4> QED
        BY <1>2, <4>1 DEF Arrives, QueueEffect
    <3> QED
      BY <3>1, <3>2
  <2> QED
    BY <1>1, <1>3, <1>6, <2>1, <2>2, <2>3, FlowTurned
<1>8. ASSUME NEW q \in Procs \ {p} PROVE Flow(q)'
  BY <1>3, <1>8, FlowKept DEF Flows, QueueEffect
<1> QED
  BY <1>7, <1>8 DEF Flows

\* Of two sends of a process at most one is on its way.
LEMMA OneSendOf ==
  ASSUME Mapped, OneSend, NEW c \in Sends, NEW d \in Sends, call[c].p # NoProc,
         call[c].p = call[d].p, call[c].pc \in OnTheWay, call[d].pc \in OnTheWay
  PROVE  c = d
BY DEF Mapped, OneSend, Sends

WriteEffect(c, p) ==
  /\ p = call[c].p /\ p \in Procs /\ call[c].pc = "write" /\ c \in Sends
  /\ proc' = proc /\ claude' \in [Procs -> ClaudeState]
  /\ call' \in [Calls -> CallState]
  /\ call'[c].pc \in {"undo", "pass"} /\ call'[c].p = p /\ call'[c].told = call[c].told
  /\ \A d \in Calls : d # c => call'[d] = call[d]
  /\ \/ claude' = claude /\ call'[c].pc = "undo"
     \/ /\ call'[c].pc = "pass" /\ claude[p].os = "up" /\ claude'[p].os = "up"
        /\ claude'[p].inbox = Append(claude[p].inbox, c) /\ claude'[p].run = claude[p].run
        /\ claude'[p].threw = claude[p].threw /\ claude'[p].out = claude[p].out
        /\ \A q \in Procs \ {p} : claude'[q] = claude[q]

LEMMA WriteTyped ==
  ASSUME Typed, Mapped, Blank, NEW c \in Calls, Write(c)
  PROVE  Typed' /\ WriteEffect(c, call[c].p)
<1> DEFINE p == call[c].p
           k == claude[p]
           l == [k EXCEPT !.inbox = Append(@, c)]
<1>1. p \in Procs /\ call[c].pc = "write" /\ c \in Sends /\ k.os # "none" /\ k \in ClaudeState
  BY CallProc DEF Write, OnTheWay, Mapped, Blank, Typed
<1>2. /\ l \in ClaudeState /\ l.inbox = Append(k.inbox, c) /\ l.run = k.run
      /\ l.threw = k.threw /\ l.out = k.out /\ l.os = k.os
  <2>1. Append(k.inbox, c) \in Seq(Calls)
    BY <1>1 DEF ClaudeState
  <2> QED
    BY <1>1, <2>1 DEF ClaudeState
<1>3. call \in [Calls -> CallState] /\ claude \in [Procs -> ClaudeState]
  BY DEF Typed
<1>4. UNCHANGED <<pool, proc, stops, started, upsets, killed, job, panicked>>
  BY DEF Write, procVars, history
<1>5. CASE proc[p].stopping \/ claude[p].os = "exited"
  <2>1. Goto(c, "undo") /\ claude' = claude
    BY <1>5 DEF Write
  <2>2. /\ call' \in [Calls -> CallState]
        /\ call'[c].pc = "undo" /\ call'[c].p = p /\ call'[c].told = call[c].told
        /\ \A d \in Calls : d # c => call'[d] = call[d]
    BY <1>3, <2>1, GotoTyped
  <2> QED
    BY <1>1, <1>3, <1>4, <2>1, <2>2 DEF Typed, WriteEffect
<1>6. CASE ~(proc[p].stopping \/ claude[p].os = "exited")
  <2>1. Goto(c, "pass") /\ claude' = [claude EXCEPT ![p] = l]
    BY <1>6 DEF Write
  <2>2. /\ call' \in [Calls -> CallState]
        /\ call'[c].pc = "pass" /\ call'[c].p = p /\ call'[c].told = call[c].told
        /\ \A d \in Calls : d # c => call'[d] = call[d]
    BY <1>3, <2>1, GotoTyped
  <2>3. k.os = "up"
    BY <1>1, <1>6 DEF ClaudeState
  <2> HIDE DEF l
  <2>4. /\ claude' \in [Procs -> ClaudeState] /\ claude'[p] = l
        /\ \A q \in Procs \ {p} : claude'[q] = claude[q]
    BY <1>1, <1>2, <1>3, <2>1
  <2> QED
    BY <1>1, <1>2, <1>4, <2>2, <2>3, <2>4 DEF Typed, WriteEffect
<1> QED
  BY <1>5, <1>6

LEMMA WriteFlow ==
  ASSUME Typed, Mapped, OneSend, Flows, NEW c \in Calls, NEW p, WriteEffect(c, p),
         started' = started
  PROVE  Flows'
<1> DEFINE k == claude[p]
           l == claude'[p]
           turns == proc[p].turns
<1>1. p \in Procs /\ Flow(p) /\ Piped(k) /\ Ordered(k, turns) /\ Origin(p) /\ Written(p)
  BY DEF WriteEffect, Flows, Flow
<1>2. Onward /\ \A q \in Procs \ {p} : Pending(q)
  BY DEF WriteEffect, Onward, Pending
<1>3. ASSUME NEW q \in Procs \ {p} PROVE Flow(q)'
  BY <1>2, <1>3, FlowKept DEF Flows, WriteEffect
<1>4. CASE claude' = claude /\ call'[c].pc = "undo"
  <2>1. Pending(p)
    BY <1>4 DEF WriteEffect, Pending
  <2>2. Flow(p)'
    BY <1>1, <1>2, <1>4, <2>1, FlowKept DEF WriteEffect
  <2> QED
    BY <1>3, <2>2 DEF Flows
<1>5. CASE /\ call'[c].pc = "pass" /\ k.os = "up" /\ l.os = "up"
           /\ l.inbox = Append(k.inbox, c) /\ l.run = k.run
           /\ l.threw = k.threw /\ l.out = k.out
  <2>1. ~Given(p, c) /\ c \in Commands
    BY DEF WriteEffect, Given, Commands
  <2>2. ~InLine(k, c) /\ \A f \in DOMAIN k.out : k.out[f].cmd # c
    BY <1>1, <2>1 DEF Origin, Taken
  <2>3. k \in ClaudeState /\ l \in ClaudeState
    BY <1>1 DEF Typed, WriteEffect
  <2>4. /\ Piped(l) /\ Moves(k, l)
        /\ \A x : InLine(l, x) <=> InLine(k, x) \/ x = c
        /\ \A y : Over(k, y) \/ InLine(k, y) => Ahead(l, y, c)
    BY <1>1, <1>5, <2>2, <2>3, WriteMoves
  <2>5. \A j \in DOMAIN turns : turns[j].cmd # c => \/ Given(p, turns[j].cmd)
                                                    \/ call[turns[j].cmd].pc \notin {"write", "undo"}
                                                    \/ call[turns[j].cmd].p # p
    <3> SUFFICES ASSUME NEW j \in DOMAIN turns, turns[j].cmd # c, ~Given(p, turns[j].cmd),
                        call[turns[j].cmd].pc \in {"write", "undo"}, call[turns[j].cmd].p = p
                 PROVE  FALSE
      OBVIOUS
    <3>1. turns[j].cmd \in Calls
      BY <1>1 DEF Origin
    <3>2. turns[j].cmd \in Sends /\ call[turns[j].cmd].pc \in OnTheWay
      BY <3>1 DEF Mapped, OnTheWay
    <3>3. c \in Sends /\ call[c].pc \in OnTheWay /\ call[c].p = p /\ p # NoProc
      BY <1>1, ClaudePoolAssumption DEF WriteEffect, OnTheWay, Procs
    <3> QED
      BY <3>2, <3>3, OneSendOf
  <2>6. \A j \in DOMAIN turns : turns[j].cmd # c => Given(p, turns[j].cmd)
    BY <1>1, <2>5 DEF Origin
  <2>7. Ordered(l, turns)
    <3>1. ASSUME NEW i \in DOMAIN turns, NEW j \in DOMAIN turns, turns[i].cmd = c, j < i
          PROVE  Ahead(l, turns[j].cmd, c)
      <4>1. turns[j].cmd # c
        <5>1. turns \in Seq(Turn)
          BY <1>1 DEF Typed, ProcState
        <5>2. i # j
          BY <3>1, <5>1
        <5> QED
          BY <3>1, <5>2, <1>1 DEF Ordered, Ranked
      <4>2. Over(k, turns[j].cmd) \/ InLine(k, turns[j].cmd)
        BY <4>1, <1>1, <1>5, <2>6 DEF Written
      <4> QED
        BY <4>2, <2>4
    <3>2. Prefixed(k, l)
      BY <1>5 DEF Prefixed
    <3> QED
      BY <3>1, <3>2, <1>1, <1>5, <2>4, OrderMoves
  <2>8. GivenNext(p, c)
    BY <1>5 DEF WriteEffect, GivenNext
  <2>9. \A j \in DOMAIN turns : GivenNext(p, turns[j].cmd)
    BY <1>2, <2>6, <2>8, GivenKept
  <2>10. Origin(p)'
    <3>1. \A x \in Commands : Taken(l, x) => GivenNext(p, x)
      BY <1>1, <1>2, <1>5, <2>4, <2>8, GivenKept DEF Origin, Taken
    <3>2. \A f \in DOMAIN l.out : GivenNext(p, l.out[f].cmd)
      BY <1>1, <1>2, <1>5, GivenKept DEF Origin
    <3> QED
      BY <3>1, <3>2, <2>9, OriginNext DEF WriteEffect
  <2>11. Written(p)'
    <3>1. ASSUME NEW j \in DOMAIN turns
          PROVE  Over(l, turns[j].cmd) \/ InLine(l, turns[j].cmd)
      <4>1. CASE turns[j].cmd = c
        BY <4>1, <2>4
      <4>2. CASE turns[j].cmd # c
        <5>1. Over(k, turns[j].cmd) \/ InLine(k, turns[j].cmd)
          BY <4>2, <1>1, <1>5, <2>6 DEF Written
        <5> QED
          BY <5>1, <2>4 DEF Moves
      <4> QED
        BY <4>1, <4>2
    <3> QED
      BY <3>1, WrittenNext DEF WriteEffect
  <2>12. Flow(p)'
    BY <1>1, <1>5, <2>4, <2>7, <2>10, <2>11 DEF Flow, WriteEffect
  <2> QED
    BY <1>3, <2>12 DEF Flows
<1> QED
  BY <1>4, <1>5 DEF WriteEffect

\* The turns of one process change.
TurnEffect(p, r) ==
  /\ proc' \in [Procs -> ProcState] /\ proc'[p].turns = r
  /\ proc'[p].gone = proc[p].gone /\ proc'[p].init = proc[p].init
  /\ proc'[p].leases = proc[p].leases /\ proc'[p].stopping = proc[p].stopping
  /\ \A q \in Procs \ {p} : proc'[q] = proc[q]

LEMMA TurnsTo ==
  ASSUME Typed, NEW p \in Procs, NEW r \in Seq(Turn), proc' = [proc EXCEPT ![p].turns = r]
  PROVE  TurnEffect(p, r)
<1> DEFINE q == [proc[p] EXCEPT !.turns = r]
<1>1. /\ q \in ProcState /\ q.turns = r
      /\ q.gone = proc[p].gone /\ q.init = proc[p].init
      /\ q.leases = proc[p].leases /\ q.stopping = proc[p].stopping
  <2>1. proc[p] \in ProcState
    BY DEF Typed
  <2> QED
    BY <2>1 DEF ProcState
<1>2. proc' = [proc EXCEPT ![p] = q]
  OBVIOUS
<1> HIDE DEF q
<1> QED
  BY <1>1, <1>2, ProcTo DEF TurnEffect

\* What is left of the queue after a turn is gone.
LEMMA RestStays ==
  ASSUME NEW p, NEW turns \in Seq(Turn), NEW i \in DOMAIN turns, NEW r \in Seq(Turn),
         Without(turns, i, r)
  PROVE  \A m \in DOMAIN r : \E j \in DOMAIN turns : j # i /\ r[m] = turns[j]
<1>1. /\ DOMAIN turns = 1 .. Len(turns) /\ DOMAIN r = 1 .. Len(turns) - 1
      /\ Len(turns) \in Nat /\ i \in 1 .. Len(turns)
      /\ \A j \in 1 .. Len(turns) - 1 : r[j] = turns[IF j < i THEN j ELSE j + 1]
  BY DEF Without
<1> TAKE m \in DOMAIN r
<1>2. CASE m < i
  BY <1>1, <1>2
<1>3. CASE ~(m < i)
  <2>1. m + 1 \in DOMAIN turns /\ m + 1 # i /\ r[m] = turns[m + 1]
    BY <1>1, <1>3
  <2> QED
    BY <2>1
<1> QED
  BY <1>2, <1>3

\* A turn that is gone, and the calls' steps but for a pending one that is told of.
LEMMA FlowWithout ==
  ASSUME Typed, NEW p \in Procs, Flow(p), Onward,
         NEW i \in DOMAIN proc[p].turns, NEW r \in Seq(Turn),
         Without(proc[p].turns, i, r), TurnEffect(p, r), claude'[p] = claude[p],
         \A j \in DOMAIN proc[p].turns : LET x == proc[p].turns[j].cmd IN
           j # i /\ x \in Calls /\ call[x].pc \in {"write", "undo"} /\ call[x].p = p =>
             call'[x].pc \in {"write", "undo"} /\ call'[x].p = p
  PROVE  Flow(p)'
<1> DEFINE turns == proc[p].turns
<1>1. turns \in Seq(Turn)
  BY DEF Typed, ProcState
<1>2. Ordered(claude[p], r) /\ Piped(claude[p]) /\ Origin(p)
  BY <1>1, FewerWithout, OrderFewer DEF Flow
<1>3. ASSUME NEW m \in DOMAIN r PROVE Stays(p, turns, r[m])
  <2>1. PICK j \in DOMAIN turns : j # i /\ r[m] = turns[j]
    BY <1>1, <1>3, RestStays
  <2> QED
    BY <2>1 DEF Stays
<1>4. \A f \in DOMAIN claude[p].out : Given(p, claude[p].out[f].cmd)
  BY <1>2 DEF Origin
<1>5. proc'[p].turns = r /\ proc'[p].gone = proc[p].gone
  BY DEF TurnEffect
<1> QED
  BY <1>2, <1>3, <1>4, <1>5, FlowTurned

UndoEffect(c, p) ==
  /\ p = call[c].p /\ p \in Procs /\ call[c].pc = "undo" /\ c \in Sends
  /\ claude' = claude
  /\ \/ proc[p].turns = <<>> /\ proc' = proc /\ call' = call
     \/ /\ proc[p].turns # <<>> /\ TurnEffect(p, Front(proc[p].turns))
        /\ call' \in [Calls -> CallState]
        /\ call'[c].pc = "fail" /\ call'[c].p = p /\ call'[c].told = call[c].told
        /\ \A d \in Calls : d # c => call'[d] = call[d]

LEMMA UndoTyped ==
  ASSUME Typed, Mapped, NEW c \in Calls, Undo(c)
  PROVE  Typed' /\ UndoEffect(c, call[c].p)
<1> DEFINE p == call[c].p
<1>1. p \in Procs /\ call[c].pc = "undo" /\ c \in Sends /\ proc[p].turns \in Seq(Turn)
  BY CallProc DEF Undo, OnTheWay, Mapped, Typed, ProcState
<1>2. UNCHANGED <<pool, claude, stops, started, upsets, killed, job>>
  BY DEF Undo, history
<1>3. CASE proc[p].turns = <<>>
  BY <1>1, <1>2, <1>3 DEF Undo, UndoEffect, Typed
<1>4. CASE proc[p].turns # <<>>
  <2>1. proc' = [proc EXCEPT ![p].turns = Front(proc[p].turns)] /\ Goto(c, "fail")
        /\ panicked' = panicked
    BY <1>4 DEF Undo
  <2>2. Front(proc[p].turns) \in Seq(Turn)
    BY <1>1, <1>4, FrontFacts
  <2>3. TurnEffect(p, Front(proc[p].turns))
    BY <1>1, <2>1, <2>2, TurnsTo
  <2>4. /\ call' \in [Calls -> CallState]
        /\ call'[c].pc = "fail" /\ call'[c].p = p /\ call'[c].told = call[c].told
        /\ \A d \in Calls : d # c => call'[d] = call[d]
    BY <2>1, GotoTyped DEF Typed
  <2> QED
    BY <1>1, <1>2, <1>4, <2>1, <2>3, <2>4 DEF Typed, UndoEffect, TurnEffect
<1> QED
  BY <1>3, <1>4

LEMMA UndoFlow ==
  ASSUME Typed, Flows, Takeable, NEW c \in Calls, NEW p, UndoEffect(c, p), started' = started
  PROVE  Flows'
<1> DEFINE turns == proc[p].turns
<1>1. p \in Procs /\ Flow(p) /\ turns \in Seq(Turn) /\ c \in Commands
  BY DEF UndoEffect, Flows, Typed, ProcState, Commands
<1>2. Onward /\ \A q \in Procs \ {p} : Pending(q)
  BY DEF UndoEffect, Onward, Pending
<1>3. ASSUME NEW q \in Procs \ {p} PROVE Flow(q)'
  BY <1>2, <1>3, FlowKept DEF Flows, UndoEffect, TurnEffect
<1>4. Flow(p)'
  <2>1. CASE turns = <<>> /\ proc' = proc /\ call' = call
    <3>1. Pending(p)
      BY <2>1 DEF Pending
    <3> QED
      BY <1>1, <1>2, <2>1, <3>1, FlowKept DEF UndoEffect
  <2>2. CASE turns # <<>>
    <3>1. /\ Front(turns) \in Seq(Turn) /\ Len(turns) \in DOMAIN turns
          /\ Without(turns, Len(turns), Front(turns))
      BY <1>1, <2>2, FrontFacts
    <3>2. \A j \in DOMAIN turns : j # Len(turns) => turns[j].cmd # c
      <4>1. Ranked(turns)
        BY <1>1 DEF Flow, Ordered
      <4>2. c \in Calls /\ call[c].pc = "undo" /\ call[c].p = p
        BY DEF UndoEffect
      <4>3. \/ turns[Len(turns)].cmd = c
            \/ \A i \in DOMAIN turns : turns[i].cmd # c
        BY <4>2 DEF Takeable, MayTake
      <4> QED
        BY <3>1, <4>1, <4>3 DEF Ranked
    <3>3. TurnEffect(p, Front(turns)) /\ claude'[p] = claude[p]
      BY <2>2 DEF UndoEffect
    <3>4. \A j \in DOMAIN turns : LET x == turns[j].cmd IN
            j # Len(turns) /\ x \in Calls /\ call[x].pc \in {"write", "undo"} /\ call[x].p = p =>
              call'[x].pc \in {"write", "undo"} /\ call'[x].p = p
      BY <2>2, <3>2 DEF UndoEffect
    <3> QED
      BY <1>1, <1>2, <3>1, <3>3, <3>4, FlowWithout
  <2> QED
    BY <2>1, <2>2 DEF UndoEffect
<1> QED
  BY <1>3, <1>4 DEF Flows

\* What readLoop does with a frame: it marks a turn, inserts one, passes over the
\* end of none, or ends one.
Takes(p) ==
  /\ claude[p].out # <<>> /\ claude' \in [Procs -> ClaudeState]
  /\ claude'[p].out = Tail(claude[p].out) /\ claude'[p].os = claude[p].os
  /\ claude'[p].run = claude[p].run /\ claude'[p].inbox = claude[p].inbox
  /\ claude'[p].threw = claude[p].threw
  /\ \A q \in Procs \ {p} : claude'[q] = claude[q]

Marks(p, f, i) ==
  /\ f.state = "started" /\ i \in DOMAIN proc[p].turns /\ proc[p].turns[i].cmd = f.cmd
  /\ TurnEffect(p, [proc[p].turns EXCEPT ![i].started = TRUE]) /\ call' = call

Inserts(p, f) ==
  /\ f.state = "started" /\ \A j \in DOMAIN proc[p].turns : proc[p].turns[j].cmd # f.cmd
  /\ TurnEffect(p, InsertForeign(proc[p].turns, f.cmd)) /\ call' = call

Passes(p, f) ==
  /\ f.state = "ended" /\ \A j \in DOMAIN proc[p].turns : proc[p].turns[j].cmd # f.cmd
  /\ proc' = proc /\ call' = call

Ends(p, f, i) ==
  /\ f.state = "ended" /\ i \in DOMAIN proc[p].turns /\ proc[p].turns[i].cmd = f.cmd
  /\ TurnEffect(p, RemoveAt(proc[p].turns, i)) /\ call' = Tell(<<proc[p].turns[i]>>, call)

ReadEffect(p) ==
  LET f == Head(claude[p].out) IN
  /\ p \in Procs /\ f \in Frame /\ Takes(p)
  /\ \/ Inserts(p, f) \/ Passes(p, f)
     \/ \E i \in DOMAIN proc[p].turns : Marks(p, f, i) \/ Ends(p, f, i)

LEMMA MarkTyped ==
  ASSUME NEW turns \in Seq(Turn), NEW i \in DOMAIN turns, NEW b \in BOOLEAN
  PROVE  [turns EXCEPT ![i].started = b] \in Seq(Turn) /\ [turns EXCEPT ![i].grace = b] \in Seq(Turn)
<1>1. turns[i] \in Turn
  BY ElementOfSeq, LenProperties
<1>2. [turns[i] EXCEPT !.started = b] \in Turn /\ [turns[i] EXCEPT !.grace = b] \in Turn
  BY <1>1 DEF Turn
<1>3. ASSUME NEW t \in Turn PROVE [turns EXCEPT ![i] = t] \in Seq(Turn)
  BY ExceptSeq
<1> QED
  BY <1>2, <1>3

LEMMA ReadTyped ==
  ASSUME Typed, NEW p \in Procs, Read(p)
  PROVE  Typed' /\ ReadEffect(p)
<1> DEFINE k == claude[p]
           turns == proc[p].turns
           f == Head(k.out)
           i == IndexOf(turns, f.cmd)
           l == [k EXCEPT !.out = Tail(@)]
<1>1. /\ k \in ClaudeState /\ k.out \in Seq(Frame) /\ k.out # <<>> /\ turns \in Seq(Turn)
      /\ proc \in [Procs -> ProcState] /\ call \in [Calls -> CallState]
  BY DEF Read, Typed, ClaudeState, ProcState
<1>2. f \in Frame /\ Tail(k.out) \in Seq(Frame) /\ f.cmd \in Commands
  <2>1. f \in Frame /\ Tail(k.out) \in Seq(Frame)
    BY <1>1
  <2> HIDE DEF f
  <2> QED
    BY <2>1 DEF Frame
<1>3. Takes(p)
  <2>1. /\ l \in ClaudeState /\ l.out = Tail(k.out) /\ l.os = k.os
        /\ l.run = k.run /\ l.inbox = k.inbox /\ l.threw = k.threw
    BY <1>1, <1>2 DEF ClaudeState
  <2>2. claude' = [claude EXCEPT ![p] = l]
    BY DEF Read
  <2> HIDE DEF l
  <2> QED
    BY <1>1, <2>1, <2>2 DEF Takes, Typed
<1>4. /\ i = 0 => \A j \in DOMAIN turns : turns[j].cmd # f.cmd
      /\ i # 0 => i \in DOMAIN turns /\ turns[i].cmd = f.cmd
  BY <1>1, IndexOfFacts
<1>5. IF f.state = "started" THEN ReadStarted(p, f.cmd) ELSE ReadEnded(p, f.cmd)
  BY DEF Read
<1>6. f.state = "started" \/ f.state = "ended"
  BY <1>2 DEF Frame
<1>7. UNCHANGED <<pool, stops, started, upsets, killed, job, panicked>>
  BY DEF Read, history
<1> HIDE DEF i, f
<1>8. CASE f.state = "started" /\ i # 0
  <2> DEFINE r == [turns EXCEPT ![i].started = TRUE]
  <2>1. proc' = [proc EXCEPT ![p].turns = r] /\ call' = call
    BY <1>5, <1>8 DEF ReadStarted, i
  <2>2. r \in Seq(Turn)
    BY <1>1, <1>4, <1>8, MarkTyped
  <2>3. TurnEffect(p, r)
    BY <2>1, <2>2, TurnsTo
  <2>4. Marks(p, f, i)
    BY <1>4, <1>8, <2>1, <2>3 DEF Marks
  <2> QED
    BY <1>1, <1>2, <1>3, <1>4, <1>7, <1>8, <2>1, <2>3, <2>4
       DEF ReadEffect, Typed, TurnEffect, Takes, f
<1>9. CASE f.state = "started" /\ i = 0
  <2> DEFINE r == InsertForeign(turns, f.cmd)
  <2>1. proc' = [proc EXCEPT ![p].turns = r] /\ call' = call
    BY <1>5, <1>9 DEF ReadStarted, i
  <2>2. r \in Seq(Turn)
    BY <1>1, <1>2, InsertForeignFacts
  <2>3. TurnEffect(p, r)
    BY <2>1, <2>2, TurnsTo
  <2>4. Inserts(p, f)
    BY <1>4, <1>9, <2>1, <2>3 DEF Inserts
  <2> QED
    BY <1>1, <1>2, <1>3, <1>7, <2>1, <2>3, <2>4
       DEF ReadEffect, Typed, TurnEffect, Takes, f
<1>10. CASE f.state = "ended" /\ i # 0
  <2> DEFINE r == RemoveAt(turns, i)
  <2>1. proc' = [proc EXCEPT ![p].turns = r] /\ call' = Tell(<<turns[i]>>, call)
    BY <1>5, <1>10 DEF ReadEnded, i
  <2>2. r \in Seq(Turn)
    BY <1>1, <1>4, <1>10, RemoveAtFacts
  <2>3. TurnEffect(p, r)
    BY <2>1, <2>2, TurnsTo
  <2>4. Ends(p, f, i)
    BY <1>4, <1>10, <2>1, <2>3 DEF Ends
  <2>5. call' \in [Calls -> CallState]
    BY <1>1, <2>1, TellTyped
  <2> QED
    BY <1>1, <1>2, <1>3, <1>4, <1>7, <1>10, <2>3, <2>4, <2>5
       DEF ReadEffect, Typed, TurnEffect, Takes, f
<1>11. CASE f.state = "ended" /\ i = 0
  <2>1. proc' = proc /\ call' = call
    BY <1>5, <1>11 DEF ReadEnded, i
  <2>2. Passes(p, f)
    BY <1>4, <1>11, <2>1 DEF Passes
  <2> QED
    BY <1>1, <1>2, <1>3, <1>7, <2>1, <2>2 DEF ReadEffect, Typed, Takes, f
<1> QED
  BY <1>6, <1>8, <1>9, <1>10, <1>11

LEMMA WithMembers ==
  ASSUME NEW turns \in Seq(Turn), NEW e, NEW r \in Seq(Turn),
         NEW at \in 1 .. Len(turns) + 1, With(turns, at, e, r)
  PROVE  \A m \in DOMAIN r : r[m] = e \/ \E j \in DOMAIN turns : r[m] = turns[j]
<1>1. /\ DOMAIN turns = 1 .. Len(turns) /\ DOMAIN r = 1 .. Len(turns) + 1
      /\ Len(turns) \in Nat /\ r[at] = e
  BY DEF With
<1> TAKE m \in DOMAIN r
<1>2. CASE m < at
  <2>1. m \in 1 .. Len(turns)
    BY <1>1, <1>2
  <2> QED
    BY <1>1, <1>2, <2>1 DEF With
<1>3. CASE m = at
  BY <1>1, <1>3
<1>4. CASE at < m
  <2> DEFINE j == m - 1
  <2>1. j \in 1 .. Len(turns) /\ j >= at /\ m = j + 1
    BY <1>1, <1>4
  <2> HIDE DEF j
  <2>2. r[j + 1] = turns[j]
    BY <2>1 DEF With
  <2> QED
    BY <1>1, <2>1, <2>2
<1> QED
  BY <1>1, <1>2, <1>3, <1>4

LEMMA ReadFlow ==
  ASSUME Typed, Flows, NEW p, ReadEffect(p), started' = started
  PROVE  Flows'
<1> DEFINE k == claude[p]
           l == claude'[p]
           f == Head(k.out)
           x == f.cmd
           turns == proc[p].turns
<1>1. /\ p \in Procs /\ Flow(p) /\ Takes(p) /\ f \in Frame /\ x \in Commands
      /\ turns \in Seq(Turn) /\ k \in ClaudeState /\ l \in ClaudeState
      /\ k.out \in Seq(Frame) /\ k.out # <<>>
  <2>1. p \in Procs /\ Takes(p) /\ f \in Frame
    BY DEF ReadEffect
  <2> QED
    BY <2>1 DEF Flows, Typed, ProcState, ClaudeState, Takes, Frame
<1>2. Piped(k) /\ Ordered(k, turns) /\ Origin(p) /\ Ranked(turns)
  BY <1>1 DEF Flow, Ordered
<1>3. Onward /\ \A q \in Procs : Pending(q)
  <2>1. call' = call \/ \E i \in DOMAIN turns : call' = Tell(<<turns[i]>>, call)
    BY DEF ReadEffect, Marks, Inserts, Passes, Ends
  <2>2. \A c \in Calls : call'[c].pc = call[c].pc /\ call'[c].p = call[c].p
    BY <2>1, TellTyped DEF Typed
  <2> QED
    BY <2>2 DEF Onward, Pending
<1>4. ASSUME NEW q \in Procs \ {p} PROVE Flow(q)'
  <2>1. proc'[q] = proc[q] /\ claude'[q] = claude[q]
    BY <1>4 DEF ReadEffect, Takes, Marks, Inserts, Passes, Ends, TurnEffect
  <2> QED
    BY <2>1, <1>3, <1>4, FlowKept DEF Flows
<1>5. /\ 1 \in DOMAIN k.out /\ k.out[1] = f
      /\ \A g \in DOMAIN k.out : ~(g < 1) /\ (g # 1 => 1 < g)
  BY <1>1
<1>6. Given(p, x) /\ GivenNext(p, x)
  <2>1. Given(p, x)
    BY <1>2, <1>5 DEF Origin
  <2> QED
    BY <2>1, <1>3, GivenKept
<1>7. /\ l.out = Tail(k.out) /\ l.run = k.run /\ l.inbox = k.inbox
      /\ l.threw = k.threw /\ l.os = k.os
  BY <1>1 DEF Takes
<1> HIDE DEF f
<1>8. ASSUME NEW r, Ordered(k, r), proc'[p].turns = r, proc'[p].gone = proc[p].gone,
             \A j \in DOMAIN r : r[j].cmd = x => f.state = "started" /\ r[j].started,
             \A m \in DOMAIN r :
               \/ r[m].cmd = x /\ r[m].started
                  /\ (k.os = "up" => Over(k, x) \/ IsIn(x, k.run))
               \/ \E j \in DOMAIN turns :
                    r[m].cmd = turns[j].cmd /\ r[m].foreign = turns[j].foreign
                    /\ (r[m].started => turns[j].started \/ r[m].cmd = x)
      PROVE  Flow(p)'
  <2>1. /\ Piped(l) /\ Ordered(l, r)
        /\ \A y : Over(k, y) /\ (f.state = "started" \/ y # x) => Over(l, y)
        /\ \A g \in DOMAIN l.out : \E h \in DOMAIN k.out : l.out[g] = k.out[h]
    BY <1>1, <1>2, <1>7, <1>8, OrderRead DEF f
  <2>2. \A g \in DOMAIN l.out : Given(p, l.out[g].cmd)
    BY <1>2, <2>1 DEF Origin
  <2>3. ASSUME NEW m \in DOMAIN r
        PROVE  Stays(p, turns, r[m]) \/ Begins(p, r[m])
    <3>1. f.state = "started" \/ r[m].cmd # x
      BY <1>8
    <3>2. CASE /\ r[m].cmd = x /\ r[m].started
               /\ (k.os = "up" => Over(k, x) \/ IsIn(x, k.run))
      BY <3>1, <3>2, <1>6, <1>7, <2>1 DEF Begins, InLine
    <3>3. ASSUME NEW j \in DOMAIN turns, r[m].cmd = turns[j].cmd,
                 r[m].foreign = turns[j].foreign,
                 r[m].started => turns[j].started \/ r[m].cmd = x
          PROVE  Stays(p, turns, r[m])
      <4>1. Over(k, r[m].cmd) => Over(l, r[m].cmd)
        BY <3>1, <2>1
      <4> QED
        BY <3>3, <4>1, <1>1, <1>3, <1>6 DEF Stays, Pending
    <3> QED
      BY <3>2, <3>3, <1>8
  <2> QED
    BY <1>1, <1>3, <1>7, <1>8, <2>1, <2>2, <2>3, FlowTurned
<1>9. ASSUME NEW i, Marks(p, f, i) PROVE Flow(p)'
  <2> DEFINE r == [turns EXCEPT ![i].started = TRUE]
  <2>1. i \in DOMAIN turns /\ f.state = "started" /\ turns[i].cmd = x
        /\ proc'[p].turns = r /\ proc'[p].gone = proc[p].gone
    BY <1>9 DEF Marks, TurnEffect
  <2>2. Ordered(k, r)
    BY <1>1, <1>2, <1>5, <2>1, OrderMarked
  <2>3. /\ DOMAIN r = DOMAIN turns /\ r[i].started
        /\ \A j \in DOMAIN turns : r[j].cmd = turns[j].cmd /\ r[j].foreign = turns[j].foreign
        /\ \A j \in DOMAIN turns : j # i => r[j] = turns[j]
    <3>1. \A j \in DOMAIN turns : turns[j] \in Turn
      BY <1>1, ElementOfSeq, LenProperties
    <3> QED
      BY <2>1, <3>1 DEF Turn
  <2> HIDE DEF r
  <2>4. \A j \in DOMAIN turns : turns[j].cmd = x => j = i
    BY <1>2, <2>1 DEF Ranked
  <2>5. \A j \in DOMAIN r : r[j].cmd = x => f.state = "started" /\ r[j].started
    BY <2>1, <2>3, <2>4
  <2>6. \A m \in DOMAIN r : \E j \in DOMAIN turns :
          r[m].cmd = turns[j].cmd /\ r[m].foreign = turns[j].foreign
          /\ (r[m].started => turns[j].started \/ r[m].cmd = x)
    BY <2>1, <2>3
  <2> QED
    BY <1>8, <2>1, <2>2, <2>5, <2>6
<1>10. ASSUME Inserts(p, f) PROVE Flow(p)'
  <2> DEFINE r == InsertForeign(turns, x)
             own == [cmd |-> x, started |-> TRUE, foreign |-> TRUE, grace |-> FALSE]
  <2>1. /\ f.state = "started" /\ \A j \in DOMAIN turns : turns[j].cmd # x
        /\ proc'[p].turns = r /\ proc'[p].gone = proc[p].gone
    BY <1>10 DEF Inserts, TurnEffect
  <2>2. own \in Turn /\ own.cmd = x /\ own.started
    BY <1>1 DEF Turn
  <2>3. /\ r \in Seq(Turn)
        /\ \E at \in 1 .. Len(turns) + 1 :
             /\ With(turns, at, own, r)
             /\ \A j \in DOMAIN turns : j < at => turns[j].started
             /\ at \in DOMAIN turns => ~turns[at].started
    BY <1>1, InsertForeignFacts
  <2> HIDE DEF r, own
  <2> PICK at \in 1 .. Len(turns) + 1 :
             /\ With(turns, at, own, r)
             /\ \A j \in DOMAIN turns : j < at => turns[j].started
             /\ at \in DOMAIN turns => ~turns[at].started
    BY <2>3
  <2>4. Ordered(k, r)
    <3>1. k.os # "up" => k.run = <<>> /\ k.inbox = <<>>
      BY <1>1 DEF Flow
    <3> QED
      <4>1. /\ k.out[1].state = "started" /\ k.out[1].cmd = own.cmd
            /\ \A j \in DOMAIN turns : turns[j].cmd # own.cmd
        BY <1>5, <2>1, <2>2
      <4>2. /\ own \in Turn /\ own.started /\ r \in Seq(Turn) /\ turns \in Seq(Turn)
            /\ With(turns, at, own, r) /\ Ordered(k, turns) /\ Piped(k)
            /\ \A j \in DOMAIN turns : j < at => turns[j].started
            /\ at \in DOMAIN turns => ~turns[at].started
            /\ 1 \in DOMAIN k.out /\ \A g \in DOMAIN k.out : ~(g < 1) /\ (g # 1 => 1 < g)
        BY <1>1, <1>2, <1>5, <2>2, <2>3
      <4> QED
        BY <3>1, <4>1, <4>2, OrderInserted
  <2>5. \A m \in DOMAIN r : r[m] = own \/ \E j \in DOMAIN turns : r[m] = turns[j]
    BY <1>1, <2>3, WithMembers
  <2>6. \A j \in DOMAIN r : r[j].cmd = x => f.state = "started" /\ r[j].started
    BY <2>1, <2>2, <2>5
  <2>7. k.os = "up" => Over(k, x) \/ IsIn(x, k.run)
    BY <1>2, <1>5, <2>1 DEF Ordered, Announced
  <2>8. \A m \in DOMAIN r :
          \/ r[m].cmd = x /\ r[m].started
             /\ (k.os = "up" => Over(k, x) \/ IsIn(x, k.run))
          \/ \E j \in DOMAIN turns :
               r[m].cmd = turns[j].cmd /\ r[m].foreign = turns[j].foreign
               /\ (r[m].started => turns[j].started \/ r[m].cmd = x)
    BY <2>2, <2>5, <2>7
  <2> QED
    BY <1>8, <2>1, <2>4, <2>6, <2>8
<1>11. ASSUME Passes(p, f) PROVE Flow(p)'
  <2>1. /\ \A j \in DOMAIN turns : turns[j].cmd # x
        /\ proc'[p].turns = turns /\ proc'[p].gone = proc[p].gone
    BY <1>11 DEF Passes
  <2>2. \A m \in DOMAIN turns : \E j \in DOMAIN turns :
          turns[m].cmd = turns[j].cmd /\ turns[m].foreign = turns[j].foreign
          /\ (turns[m].started => turns[j].started \/ turns[m].cmd = x)
    OBVIOUS
  <2> QED
    BY <1>2, <1>8, <2>1, <2>2
<1>12. ASSUME NEW i, Ends(p, f, i) PROVE Flow(p)'
  <2> DEFINE r == RemoveAt(turns, i)
  <2>1. i \in DOMAIN turns /\ f.state = "ended" /\ turns[i].cmd = x
        /\ proc'[p].turns = r /\ proc'[p].gone = proc[p].gone
    BY <1>12 DEF Ends, TurnEffect
  <2>2. r \in Seq(Turn) /\ Without(turns, i, r)
    BY <1>1, <2>1, RemoveAtFacts
  <2> HIDE DEF r
  <2>3. Ordered(k, r)
    BY <1>1, <1>2, <2>1, <2>2, FewerWithout, OrderFewer
  <2>4. \A m \in DOMAIN r : \E j \in DOMAIN turns : j # i /\ r[m] = turns[j]
    BY <1>1, <2>1, <2>2, RestStays
  <2>5. \A j \in DOMAIN r : r[j].cmd # x
    BY <1>2, <2>1, <2>4 DEF Ranked
  <2> QED
    BY <1>8, <2>1, <2>3, <2>4, <2>5
<1> QED
  BY <1>1, <1>4, <1>9, <1>10, <1>11, <1>12 DEF Flows, ReadEffect, f

\* A flag on a turn, as the timer of an interrupt is, and the drop of the head.
FlagEffect(p) ==
  LET turns == proc[p].turns
      r == proc'[p].turns IN
  /\ p \in Procs /\ TurnEffect(p, r) /\ claude' = claude /\ call' = call
  /\ turns # <<>> /\ r \in Seq(Turn) /\ Len(r) = Len(turns)
  /\ \A j \in DOMAIN turns : /\ r[j].cmd = turns[j].cmd /\ r[j].foreign = turns[j].foreign
                             /\ r[j].started = turns[j].started

DropEffect(p) ==
  LET turns == proc[p].turns IN
  /\ p \in Procs /\ turns # <<>> /\ TurnEffect(p, Tail(turns)) /\ claude' = claude
  /\ call' = Tell(<<turns[1]>>, call)

LEMMA FlagTo ==
  ASSUME Typed, NEW p \in Procs, NEW i \in DOMAIN proc[p].turns, NEW b \in BOOLEAN,
         proc' = [proc EXCEPT ![p].turns[i].grace = b], claude' = claude, call' = call
  PROVE  FlagEffect(p)
<1> DEFINE turns == proc[p].turns
           r == [turns EXCEPT ![i].grace = b]
<1>1. turns \in Seq(Turn)
  BY DEF Typed, ProcState
<1>2. r \in Seq(Turn)
  BY <1>1, MarkTyped
<1>3. proc' = [proc EXCEPT ![p].turns = r]
  OBVIOUS
<1>4. turns # <<>> /\ Len(r) = Len(turns)
  BY <1>1
<1>5. \A j \in DOMAIN turns : /\ r[j].cmd = turns[j].cmd /\ r[j].foreign = turns[j].foreign
                              /\ r[j].started = turns[j].started
  <2>1. \A j \in DOMAIN turns : turns[j] \in Turn
    BY <1>1, ElementOfSeq, LenProperties
  <2> QED
    BY <2>1 DEF Turn
<1> HIDE DEF r
<1>6. TurnEffect(p, r) /\ proc'[p].turns = r
  BY <1>2, <1>3, TurnsTo DEF TurnEffect
<1> QED
  BY <1>2, <1>4, <1>5, <1>6 DEF FlagEffect

LEMMA InterruptTyped ==
  ASSUME Typed, NEW s \in Sessions, Interrupt(s)
  PROVE  Typed' /\ FlagEffect(pool[s])
<1>1. pool[s] \in Procs
  BY DEF Interrupt, Typed
<1>2. proc[pool[s]].turns \in Seq(Turn) /\ proc[pool[s]].turns # <<>>
  BY <1>1 DEF Interrupt, Typed, ProcState
<1>3. 1 \in DOMAIN proc[pool[s]].turns
  BY <1>2
<1>4. /\ proc' = [proc EXCEPT ![pool[s]].turns[1].grace = TRUE]
      /\ UNCHANGED <<pool, claude, call, stops, started, killed, job, panicked>>
      /\ upsets' \in 0 .. MaxUpsets
  BY UpsetTyped DEF Interrupt
<1>5. FlagEffect(pool[s])
  BY <1>1, <1>3, <1>4, FlagTo
<1> QED
  BY <1>4, <1>5 DEF Typed, FlagEffect, TurnEffect

LEMMA GraceTyped ==
  ASSUME Typed, NEW p \in Procs, Grace(p)
  PROVE  Typed' /\ (FlagEffect(p) \/ DropEffect(p)) /\ UNCHANGED <<pool, started, killed, job>>
<1> DEFINE turns == proc[p].turns
<1> PICK i \in DOMAIN turns :
      /\ IF i = 1 THEN /\ proc' = [proc EXCEPT ![p].turns = Tail(@)]
                       /\ call' = Tell(<<turns[1]>>, call)
                  ELSE /\ proc' = [proc EXCEPT ![p].turns[i].grace = FALSE]
                       /\ UNCHANGED call
      /\ UNCHANGED <<pool, claude, stops, started, history, panicked>>
  BY DEF Grace
<1>1. turns \in Seq(Turn) /\ call \in [Calls -> CallState]
  BY DEF Typed, ProcState
<1>2. CASE i = 1
  <2>1. turns # <<>>
    BY <1>1
  <2>2. Tail(turns) \in Seq(Turn)
    BY <1>1, <2>1, TailFacts
  <2>3. proc' = [proc EXCEPT ![p].turns = Tail(turns)] /\ call' = Tell(<<turns[1]>>, call)
    BY <1>2
  <2>4. TurnEffect(p, Tail(turns))
    BY <2>2, <2>3, TurnsTo
  <2>5. call' \in [Calls -> CallState]
    BY <1>1, <2>3, TellTyped
  <2> QED
    BY <2>1, <2>3, <2>4, <2>5 DEF Typed, DropEffect, TurnEffect, history
<1>3. CASE i # 1
  <2>1. proc' = [proc EXCEPT ![p].turns[i].grace = FALSE] /\ call' = call
    BY <1>3
  <2>2. FlagEffect(p)
    BY <2>1, FlagTo
  <2> QED
    BY <2>1, <2>2 DEF Typed, FlagEffect, TurnEffect, history
<1> QED
  BY <1>2, <1>3

LEMMA FlagFlow ==
  ASSUME Typed, Flows, NEW p, FlagEffect(p), started' = started
  PROVE  Flows'
<1> DEFINE turns == proc[p].turns
           r == proc'[p].turns
           up == [j \in DOMAIN r |-> j]
<1>1. /\ p \in Procs /\ Flow(p) /\ turns \in Seq(Turn) /\ r \in Seq(Turn)
      /\ TurnEffect(p, r) /\ Len(r) = Len(turns)
      /\ \A j \in DOMAIN turns : /\ r[j].cmd = turns[j].cmd /\ r[j].foreign = turns[j].foreign
                                 /\ r[j].started = turns[j].started
  BY DEF FlagEffect, Flows, Typed, ProcState
<1>2. DOMAIN r = DOMAIN turns
  BY <1>1
<1>3. Onward /\ \A q \in Procs : Pending(q)
  BY DEF FlagEffect, Onward, Pending
<1>4. Fewer(turns, r)
  <2>1. up \in [DOMAIN r -> DOMAIN turns] /\ \A j \in DOMAIN r : up[j] = j
    BY <1>2
  <2> QED
    BY <1>1, <1>2, <2>1 DEF Fewer
<1>5. Ordered(claude[p], r) /\ Piped(claude[p]) /\ Origin(p)
  BY <1>1, <1>4, OrderFewer DEF Flow
<1>6. \A i \in DOMAIN r : Stays(p, turns, r[i])
  BY <1>1, <1>2, <1>3 DEF Stays, Pending, FlagEffect
<1>7. Flow(p)'
  BY <1>1, <1>3, <1>5, <1>6, FlowTurned DEF FlagEffect, TurnEffect, Origin
<1>8. ASSUME NEW q \in Procs \ {p} PROVE Flow(q)'
  BY <1>3, <1>8, FlowKept DEF Flows, FlagEffect, TurnEffect
<1> QED
  BY <1>7, <1>8 DEF Flows

LEMMA DropTurnFlow ==
  ASSUME Typed, Flows, NEW p, DropEffect(p), started' = started
  PROVE  Flows'
<1> DEFINE turns == proc[p].turns
<1>1. /\ p \in Procs /\ Flow(p) /\ turns \in Seq(Turn) /\ turns # <<>>
      /\ TurnEffect(p, Tail(turns)) /\ claude' = claude
  BY DEF DropEffect, Flows, Typed, ProcState
<1>2. Tail(turns) \in Seq(Turn) /\ 1 \in DOMAIN turns /\ Without(turns, 1, Tail(turns))
  BY <1>1, TailFacts
<1>3. Onward /\ \A q \in Procs : Pending(q)
  <2>1. \A c \in Calls : call'[c].pc = call[c].pc /\ call'[c].p = call[c].p
    BY TellTyped DEF Typed, DropEffect
  <2> QED
    BY <2>1 DEF Onward, Pending
<1>4. Flow(p)'
  <2>1. \A j \in DOMAIN turns : LET x == turns[j].cmd IN
          j # 1 /\ x \in Calls /\ call[x].pc \in {"write", "undo"} /\ call[x].p = p =>
            call'[x].pc \in {"write", "undo"} /\ call'[x].p = p
    BY <1>1, <1>3 DEF Pending
  <2> QED
    BY <1>1, <1>2, <1>3, <2>1, FlowWithout
<1>5. ASSUME NEW q \in Procs \ {p} PROVE Flow(q)'
  BY <1>1, <1>3, <1>5, FlowKept DEF Flows, TurnEffect
<1> QED
  BY <1>4, <1>5 DEF Flows

\* The exit of a process, and the word of it to those who wait.
DiedEffect(p) ==
  /\ p \in Procs /\ claude[p].os = "exited" /\ call' = call
  /\ proc' \in [Procs -> ProcState] /\ proc'[p].turns = proc[p].turns
  /\ proc'[p].init = proc[p].init /\ proc'[p].leases = proc[p].leases
  /\ proc'[p].gone = "done"
  /\ \A q \in Procs \ {p} : proc'[q] = proc[q] /\ claude'[q] = claude[q]
  /\ claude' \in [Procs -> ClaudeState]
  /\ claude'[p].out = claude[p].out \/ claude'[p].out = <<>>
  /\ claude'[p].os = claude[p].os /\ claude'[p].run = claude[p].run
  /\ claude'[p].inbox = claude[p].inbox /\ claude'[p].threw = claude[p].threw

LEMMA DiedTyped ==
  ASSUME Typed, NEW p \in Procs, Died(p)
  PROVE  Typed' /\ DiedEffect(p)
<1> DEFINE q == [proc[p] EXCEPT !.gone = "done"]
<1>1. /\ q \in ProcState /\ q.turns = proc[p].turns /\ q.gone = "done"
      /\ q.init = proc[p].init /\ q.leases = proc[p].leases
  <2>1. proc[p] \in ProcState
    BY DEF Typed
  <2> QED
    BY <2>1 DEF ProcState
<1>2. proc' = [proc EXCEPT ![p] = q] /\ claude[p].os = "exited"
  BY DEF Died
<1> HIDE DEF q
<1>3. /\ proc' \in [Procs -> ProcState] /\ proc'[p] = q
      /\ \A r \in Procs \ {p} : proc'[r] = proc[r]
  BY <1>1, <1>2, ProcTo
<1>4. PICK unread \in {<<>>, claude[p].out} : claude' = [claude EXCEPT ![p].out = unread]
  BY DEF Died
<1> DEFINE l == [claude[p] EXCEPT !.out = unread]
<1>5. /\ l \in ClaudeState /\ l.out = unread /\ l.os = claude[p].os /\ l.run = claude[p].run
      /\ l.inbox = claude[p].inbox /\ l.threw = claude[p].threw
  <2>1. claude[p] \in ClaudeState
    BY DEF Typed
  <2>2. unread \in Seq(Frame)
    <3>1. claude[p].out \in Seq(Frame)
      BY <2>1 DEF ClaudeState
    <3>2. unread = <<>> \/ unread = claude[p].out
      BY <1>4
    <3>3. \A S : <<>> \in Seq(S)
      OBVIOUS
    <3> QED
      BY <3>1, <3>2, <3>3
  <2> QED
    BY <2>1, <2>2 DEF ClaudeState
<1>6. claude' = [claude EXCEPT ![p] = l]
  BY <1>4
<1> HIDE DEF l
<1>7. /\ claude' \in [Procs -> ClaudeState] /\ claude'[p] = l
      /\ \A r \in Procs \ {p} : claude'[r] = claude[r]
  BY <1>5, <1>6 DEF Typed
<1>8. Typed'
  <2>1. pool' \in [Sessions -> Procs \cup {NoProc}]
    BY DEF Died, Typed
  <2> QED
    BY <1>3, <1>7, <2>1 DEF Died, Typed
<1> QED
  BY <1>1, <1>2, <1>3, <1>5, <1>7, <1>8 DEF DiedEffect, Died

LEMMA DiedFlow ==
  ASSUME Typed, Flows, NEW p, DiedEffect(p), started' = started
  PROVE  Flows'
<1> DEFINE k == claude[p]
           l == claude'[p]
<1>1. /\ p \in Procs /\ Flow(p) /\ k.os = "exited" /\ l.os = "exited" /\ l.run = <<>>
      /\ l.inbox = <<>> /\ l.threw = {}
      /\ l.out = k.out \/ l.out = <<>>
      /\ proc'[p].turns = proc[p].turns
  BY DEF DiedEffect, Flows, Flow
<1>2. Onward /\ \A q \in Procs : Pending(q)
  BY DEF DiedEffect, Onward, Pending
<1>3. Piped(k) /\ Ordered(k, proc[p].turns) /\ Origin(p)
  BY <1>1 DEF Flow
<1>4. Piped(l) /\ Ordered(l, proc[p].turns)
  <2>1. l.os # "up" /\ l.run = <<>> /\ l.inbox = <<>> /\ l.threw = {}
        /\ (l.out = k.out \/ l.out = <<>>)
    BY <1>1
  <2> QED
    BY <1>3, <2>1, OrderDown
<1>5. Origin(p)'
  <2>1. \A x : ~Taken(l, x)
    BY <1>1 DEF InLine, IsIn, Taken
  <2>2. \A f \in DOMAIN l.out : GivenNext(p, l.out[f].cmd)
    BY <1>1, <1>2, <1>3, GivenKept DEF Origin
  <2>3. \A i \in DOMAIN proc[p].turns : LET t == proc[p].turns[i] IN
          GivenNext(p, t.cmd) \/ Arrives(p, t)
    BY <1>1, <1>2, <1>3, GivenKept DEF Origin, Pending, Arrives
  <2> QED
    BY <1>1, <2>1, <2>2, <2>3, OriginNext DEF Arrives
<1>6. Written(p)'
  BY <1>1, WrittenNext
<1>7. Flow(p)'
  BY <1>1, <1>4, <1>5, <1>6 DEF Flow
<1>8. ASSUME NEW q \in Procs \ {p} PROVE Flow(q)'
  BY <1>2, <1>8, FlowKept DEF Flows, DiedEffect
<1> QED
  BY <1>7, <1>8 DEF Flows

ToldEffect(p) ==
  /\ p \in Procs /\ proc[p].gone = "done" /\ call' = Tell(proc[p].turns, call)
  /\ proc' \in [Procs -> ProcState] /\ proc'[p].turns = <<>> /\ proc'[p].gone = "told"
  /\ proc'[p].init = proc[p].init /\ proc'[p].leases = proc[p].leases
  /\ \A q \in Procs \ {p} : proc'[q] = proc[q] /\ claude'[q] = claude[q]
  /\ claude' \in [Procs -> ClaudeState] /\ claude'[p].out = <<>>
  /\ claude'[p].os = claude[p].os /\ claude'[p].run = claude[p].run
  /\ claude'[p].inbox = claude[p].inbox /\ claude'[p].threw = claude[p].threw

LEMMA ToldTyped ==
  ASSUME Typed, NEW p \in Procs, TellExited(p)
  PROVE  Typed' /\ ToldEffect(p)
<1> DEFINE none == <<>>
           q == [proc[p] EXCEPT !.gone = "told", !.turns = none, !.stopping = TRUE]
           l == [claude[p] EXCEPT !.out = none]
<1>1. none \in Seq(Turn) /\ none \in Seq(Frame)
  OBVIOUS
<1> HIDE DEF none
<1>2. /\ q \in ProcState /\ q.turns = none /\ q.gone = "told"
      /\ q.init = proc[p].init /\ q.leases = proc[p].leases
  <2>1. proc[p] \in ProcState
    BY DEF Typed
  <2> QED
    BY <1>1, <2>1 DEF ProcState
<1>3. /\ l \in ClaudeState /\ l.out = none /\ l.os = claude[p].os /\ l.run = claude[p].run
      /\ l.inbox = claude[p].inbox /\ l.threw = claude[p].threw
  <2>1. claude[p] \in ClaudeState
    BY DEF Typed
  <2> QED
    BY <1>1, <2>1 DEF ClaudeState
<1>4. /\ proc' = [proc EXCEPT ![p] = q] /\ claude' = [claude EXCEPT ![p] = l]
      /\ proc[p].gone = "done" /\ call' = Tell(proc[p].turns, call)
  BY DEF TellExited, none
<1> HIDE DEF q, l
<1>5. /\ proc' \in [Procs -> ProcState] /\ proc'[p] = q
      /\ \A r \in Procs \ {p} : proc'[r] = proc[r]
  BY <1>2, <1>4, ProcTo
<1>6. /\ claude' \in [Procs -> ClaudeState] /\ claude'[p] = l
      /\ \A r \in Procs \ {p} : claude'[r] = claude[r]
  BY <1>3, <1>4 DEF Typed
<1>7. call' \in [Calls -> CallState]
  BY <1>4, TellTyped DEF Typed
<1>8. Typed'
  BY <1>5, <1>6, <1>7 DEF TellExited, Typed, history
<1> QED
  BY <1>2, <1>3, <1>4, <1>5, <1>6, <1>8 DEF ToldEffect, none

LEMMA ToldFlow ==
  ASSUME Typed, Flows, NEW p, ToldEffect(p), started' = started
  PROVE  Flows'
<1> DEFINE k == claude[p]
           l == claude'[p]
<1>1. /\ p \in Procs /\ Flow(p) /\ l.os = "exited" /\ l.run = <<>>
      /\ l.inbox = <<>> /\ l.threw = {} /\ l.out = <<>> /\ proc'[p].turns = <<>>
  <2>1. p \in Procs /\ Flow(p) /\ k.os = "exited"
    BY DEF ToldEffect, Flows, Flow
  <2> QED
    BY <2>1 DEF ToldEffect, Flow
<1>2. Onward /\ \A q \in Procs : Pending(q)
  <2>1. \A c \in Calls : call'[c].pc = call[c].pc /\ call'[c].p = call[c].p
    BY TellTyped DEF Typed, ToldEffect
  <2> QED
    BY <2>1 DEF Onward, Pending
<1>3. Piped(l) /\ Ordered(l, proc'[p].turns)
  <2>1. \A x : ~IsIn(x, l.run) /\ ~IsIn(x, l.inbox)
    BY <1>1 DEF IsIn
  <2> QED
    BY <1>1, <2>1 DEF Piped, Unique, Ordered, Ranked, Queued
<1>4. Origin(p)'
  <2>1. \A x : ~Taken(l, x)
    BY <1>1 DEF InLine, IsIn, Taken
  <2> QED
    BY <1>1, <2>1, OriginNext
<1>5. Written(p)'
  BY <1>1, WrittenNext
<1>6. Flow(p)'
  BY <1>1, <1>3, <1>4, <1>5 DEF Flow
<1>7. ASSUME NEW q \in Procs \ {p} PROVE Flow(q)'
  BY <1>2, <1>7, FlowKept DEF Flows, ToldEffect
<1> QED
  BY <1>6, <1>7 DEF Flows

\* The steps that leave the queues and Claude alone.
LEMMA QuietFlow ==
  ASSUME Flows, claude' = claude, Onward,
         \A p \in Procs : /\ proc'[p].turns = proc[p].turns /\ proc'[p].gone = proc[p].gone
                          /\ Pending(p)
  PROVE  Flows'
<1>1. ASSUME NEW p \in Procs PROVE Flow(p)'
  BY <1>1, FlowKept DEF Flows
<1> QED
  BY <1>1 DEF Flows

(***************************************************************************)
(* What ties calls and processes, under every step but those that resolve  *)
(* a process: calls go on, and a session's process goes only when no send  *)
(* relies on it.                                                           *)
(***************************************************************************)
Proceeds(c) ==
  LET from == call[c].pc
      to == call'[c].pc IN
  /\ call'[c].p = call[c].p /\ (call[c].told => call'[c].told)
  /\ to \in {"init", "clean"} => from = to \/ (from = "init" /\ to = "clean")
  /\ \/ from = to
     \/ from = "new" /\ to = "refused"
     \/ from \in {"init", "wait"} /\ to = Resolved(c)
     \/ from \in {"init", "wait"} /\ to \in {"clean", "fail"}
     \/ from = "append" /\ to \in {"write", "fail"}
     \/ from = "write" /\ to \in {"undo", "pass"}
     \/ from = "undo" /\ to = "fail"
     \/ from = "pass" /\ to = "done"
     \/ from \in {"clean", "fail"} /\ to = "refused"

Parts(s) ==
  \/ pool[s] \in killed' \/ proc'[pool[s]].init = "err" \/ proc'[pool[s]].gone # "no"
  \/ \A c \in Sends : Holds(c) => call[c].p # pool[s]

LEMMA TiesKept ==
  ASSUME Typed, Typed', Ties, job' = job, \A c \in Calls : Proceeds(c),
         \A p \in Procs : claude'[p].os = "none" =>
           claude'[p] = claude[p] /\ proc'[p].turns = proc[p].turns /\ proc'[p].gone = proc[p].gone,
         \A p \in Procs : claude[p].os = "none" => claude'[p].os = "none",
         \A c \in Calls : call'[c].pc \in {"new", "init"} => proc'[c].init = proc[c].init,
         \A c \in Calls : call'[c].pc = "clean" => proc'[c].init = "err",
         \A c \in Sends : call'[c].pc \in OnTheWay => proc'[call[c].p].leases > 0,
         \A s \in Sessions : pool'[s] = pool[s] \/ pool'[s] = NoProc,
         \A s \in Sessions : pool[s] # NoProc /\ pool'[s] # pool[s] => Parts(s),
         \A p \in Procs : /\ p \in killed => p \in killed' \/ proc'[p].gone # "no"
                          /\ proc[p].init = "err" => proc'[p].init = "err"
                          /\ proc[p].gone # "no" => proc'[p].gone # "no"
  PROVE  Ties'
<1>1. Sends' = Sends /\ \A c : SessionOf(c)' = SessionOf(c)
  BY DEF Sends, SessionOf
<1>2. \A c \in Calls : Resolved(c) = IF c \in Sends THEN "append" ELSE "done"
  BY DEF Resolved
<1>3. \A c \in Calls : SessionOf(c) \in Sessions
  BY SessionTyped
<1>4. \A c \in Calls : call'[c].p = call[c].p
  BY DEF Proceeds
<1>5. \A c \in Calls : /\ call'[c].pc = "new" => call[c].pc = "new"
                       /\ call'[c].pc \in OnTheWay \cup {"done"} => call[c].pc \in OnTheWay \cup {"done"}
                       /\ call'[c].pc \in OnTheWay => call[c].pc \in OnTheWay
                       /\ call'[c].pc \in {"init", "clean"} => call[c].pc \in {"init", "clean"}
                       /\ call'[c].pc = "init" => call[c].pc = "init"
  BY <1>2 DEF Proceeds, OnTheWay
<1>6. \A c \in Calls : call'[c].pc \in {"append", "write", "undo", "pass"} => c \in Sends
  BY <1>2 DEF Proceeds, Ties, Mapped
<1>7. Mapped'
  <2>1. \A s \in Sessions : pool'[s] # NoProc => SessionOf(pool'[s]) = s
    BY DEF Ties, Mapped
  <2>2. ASSUME NEW c \in Calls
        PROVE  /\ call'[c].p # NoProc => SessionOf(call'[c].p) = SessionOf(c)
               /\ call'[c].pc = "new" => claude'[c].os = "none"
               /\ call'[c].pc \in OnTheWay \cup {"done"} => call'[c].p # NoProc
               /\ call'[c].pc \in {"init", "clean"} => call'[c].p = c
               /\ call'[c].pc \in {"new", "init"} => proc'[c].init = "wait"
    BY <1>4, <1>5 DEF Ties, Mapped, Procs
  <2> QED
    BY <1>1, <1>6, <2>1, <2>2 DEF Mapped, SessionOf, OnTheWay
<1>8. Blank'
  <2>1. \A p \in Procs : p # NoProc
    BY ClaudePoolAssumption DEF Procs
  <2> QED
    BY <1>4, <2>1 DEF Ties, Blank
<1>9. OneSend'
  BY <1>1, <1>5 DEF Ties, OneSend, SessionOf, OnTheWay, Sends
<1>10. Leased'
  BY <1>1, <1>4 DEF Leased, OnTheWay, Sends
<1>11. HeldInPlace'
  <2>1. ASSUME NEW c \in Sends, Holds(c)'
        PROVE  \/ pool'[SessionOf(c)] = call'[c].p
               \/ call'[c].p \in killed' \/ proc'[call'[c].p].init = "err"
               \/ proc'[call'[c].p].gone # "no"
    <3>1. Holds(c) /\ call'[c].p = call[c].p /\ c \in Calls
      <4>1. c \in Calls /\ Proceeds(c)
        BY DEF Sends
      <4> QED
        BY <2>1, <4>1, <1>2 DEF Proceeds, Holds
    <3>2. call[c].p \in Procs
      BY <3>1, CallProc DEF Holds, OnTheWay, Ties
    <3>3. CASE pool[SessionOf(c)] = call[c].p
      <4>1. pool[SessionOf(c)] # NoProc
        BY <3>2, <3>3, ClaudePoolAssumption DEF Procs
      <4> QED
        BY <1>3, <3>1, <3>3, <4>1 DEF Parts
    <3>4. CASE pool[SessionOf(c)] # call[c].p
      BY <3>1, <3>2, <3>4 DEF Ties, HeldInPlace
    <3> QED
      BY <3>3, <3>4
  <2> QED
    BY <1>1, <2>1 DEF HeldInPlace, SessionOf, Sends
<1> QED
  BY <1>7, <1>8, <1>9, <1>10, <1>11 DEF Ties

\* Takeable and Owed, while the queues keep their turns.
LEMMA TurnsKept ==
  ASSUME Takeable, Owed, job' = job, \A c \in Calls : Proceeds(c),
         \A c \in Calls : call[c].pc = "append" => call'[c].pc # "write",
         \A c \in Calls : call[c].pc \in {"write", "undo", "pass", "done"} =>
           proc'[call[c].p].turns = proc[call[c].p].turns
  PROVE  Takeable' /\ Owed'
<1>1. Sends' = Sends
  BY DEF Sends
<1>2. \A c \in Calls : Resolved(c) = IF c \in Sends THEN "append" ELSE "done"
  BY DEF Resolved
<1>3. Takeable'
  <2>1. ASSUME NEW c \in Calls, call'[c].pc \in {"write", "undo"}
        PROVE  /\ call[c].pc \in {"write", "undo"} /\ call'[c].p = call[c].p
               /\ proc'[call[c].p].turns = proc[call[c].p].turns
    <3>1. call[c].pc \in {"write", "undo"} /\ call'[c].p = call[c].p
      BY <2>1, <1>2 DEF Proceeds
    <3> QED
      BY <3>1
  <2> QED
    BY <2>1 DEF Takeable
<1>4. Owed'
  <2>1. ASSUME NEW c \in Sends, call'[c].pc \in {"write", "undo", "pass", "done"}
        PROVE  /\ call[c].pc \in {"write", "undo", "pass", "done"} /\ call'[c].p = call[c].p
               /\ call[c].told => call'[c].told
               /\ proc'[call[c].p].turns = proc[call[c].p].turns
    <3>1. c \in Calls /\ Resolved(c) = "append"
      BY <1>2 DEF Sends
    <3> QED
      BY <2>1, <3>1 DEF Proceeds
  <2> QED
    BY <1>1, <2>1 DEF Owed, Sends
<1> QED
  BY <1>3, <1>4

\* Processes only leave the map: the bound is kept.
LEMMA BoundKept ==
  ASSUME Bounded, \A s \in Sessions : pool'[s] = pool[s] \/ pool'[s] = NoProc
  PROVE  Bounded'
<1>1. Live' \subseteq Live /\ IsFiniteSet(Live)
  BY DEF Live, Bounded
<1>2. IsFiniteSet(Live') /\ Cardinality(Live') <= Cardinality(Live)
  BY <1>1, FS_Subset
<1>3. Cardinality(Live) \in Nat /\ Cardinality(Live') \in Nat
  BY <1>1, <1>2, FS_CardinalityType
<1> QED
  BY <1>2, <1>3, ClaudePoolAssumption DEF Bounded

\* An idle process is nobody's: a send on its way holds a lease, and one that is
\* done has its turn in the queue until it is told.
LEMMA IdleFree ==
  ASSUME IInv, NEW s \in Sessions, Idle(s)
  PROVE  \A c \in Sends : Holds(c) => call[c].p # pool[s]
<1> SUFFICES ASSUME NEW c \in Sends, Holds(c), call[c].p = pool[s] PROVE FALSE
  OBVIOUS
<1>1. pool[s] \in Procs /\ c \in Calls
  BY DEF Idle, IInv, Typed, Sends
<1>2. proc[pool[s]] \in ProcState
  BY <1>1 DEF IInv, Typed
<1>3. proc[pool[s]].turns = <<>> /\ ~(proc[pool[s]].leases > 0)
  BY DEF Idle, Busy
<1>4. CASE call[c].pc \in OnTheWay
  BY <1>3, <1>4 DEF IInv, Ties, Leased
<1>5. CASE call[c].pc = "done" /\ ~call[c].told
  BY <1>3, <1>5 DEF IInv, Owed, Has
<1> QED
  BY <1>4, <1>5 DEF Holds, OnTheWay

LEMMA QuietInv ==
  ASSUME IInv, Typed', job' = job, claude' = claude, started \subseteq started',
         \A c \in Calls : Proceeds(c),
         \A c \in Calls : call[c].pc \in {"write", "undo"} => call'[c].pc = call[c].pc,
         \A c \in Calls : call[c].pc = "append" => call'[c].pc # "write",
         \A c \in Calls : call'[c].pc \in {"new", "init"} => proc'[c].init = proc[c].init,
         \A c \in Calls : call'[c].pc = "clean" => proc'[c].init = "err",
         \A c \in Sends : call'[c].pc \in OnTheWay =>
           proc'[call[c].p].leases = proc[call[c].p].leases,
         \A s \in Sessions : pool'[s] = pool[s] \/ pool'[s] = NoProc,
         \A s \in Sessions : pool[s] # NoProc /\ pool'[s] # pool[s] => Parts(s),
         \A p \in Procs : /\ proc'[p].turns = proc[p].turns /\ proc'[p].gone = proc[p].gone
                          /\ proc[p].init = "err" => proc'[p].init = "err",
         killed \subseteq killed'
  PROVE  IInv'
<1>1. \A c \in Calls : Resolved(c) \in {"append", "done"}
  BY DEF Resolved
<1>2. Onward /\ \A p \in Procs : Pending(p)
  <2>1. ASSUME NEW c \in Calls, call[c].pc \in {"pass", "done"}
        PROVE  call'[c].pc \in {"pass", "done"} /\ call'[c].p = call[c].p
    BY <2>1, <1>1 DEF Proceeds
  <2>2. \A c \in Calls : call'[c].p = call[c].p
    BY DEF Proceeds
  <2> QED
    BY <2>1, <2>2 DEF Onward, Pending
<1>3. Flows'
  BY <1>2, QuietFlow DEF IInv
<1>4. \A c \in Sends : call'[c].pc \in OnTheWay => proc'[call[c].p].leases > 0
  <2>1. ASSUME NEW c \in Sends, call'[c].pc \in OnTheWay PROVE call[c].pc \in OnTheWay
    BY <2>1, <1>1 DEF Proceeds, OnTheWay, Sends, Resolved
  <2> QED
    BY <2>1 DEF IInv, Ties, Leased
<1>5. Ties'
  BY <1>4, TiesKept DEF IInv
<1>6. \A c \in Calls : call[c].pc \in {"write", "undo", "pass", "done"} =>
        proc'[call[c].p].turns = proc[call[c].p].turns
  BY CallProc DEF IInv, Ties, OnTheWay
<1>7. Takeable' /\ Owed'
  BY <1>6, TurnsKept DEF IInv
<1>8. Bounded'
  BY BoundKept DEF IInv
<1> QED
  BY <1>3, <1>5, <1>7, <1>8 DEF IInv

\* Steps of one call that leave its process alone.
LEMMA CallInv ==
  ASSUME IInv, NEW c \in Calls,
         NEW to \in {"append", "fail", "done", "refused"}, Goto(c, to),
         \/ call[c].pc = "new" /\ to = "refused"
         \/ call[c].pc \in {"init", "wait"} /\ (to = "fail" \/ to = Resolved(c))
         \/ call[c].pc = "append" /\ to = "fail",
         UNCHANGED <<pool, proc, claude, stops, started, killed, job, panicked>>,
         upsets' \in 0 .. MaxUpsets
  PROVE  IInv'
<1>1. call \in [Calls -> CallState] /\ Typed
  BY DEF IInv, Typed
<1>2. /\ call' \in [Calls -> CallState]
      /\ call'[c].pc = to /\ call'[c].p = call[c].p /\ call'[c].told = call[c].told
      /\ \A d \in Calls : d # c => call'[d] = call[d]
  <2>1. to \in {"new", "init", "clean", "wait", "append", "write", "undo", "pass",
                     "fail", "done", "refused"}
    OBVIOUS
  <2> QED
    BY <1>1, <2>1, GotoTyped
<1>3. Typed'
  BY <1>1, <1>2 DEF Typed
<1>4. \A d \in Calls : Proceeds(d)
  <2>1. Proceeds(c)
    BY <1>2 DEF Proceeds
  <2>2. ASSUME NEW d \in Calls, d # c PROVE Proceeds(d)
    BY <1>2, <2>2 DEF Proceeds
  <2> QED
    BY <2>1, <2>2
<1>5. \A d \in Calls : /\ call[d].pc \in {"write", "undo"} => call'[d].pc = call[d].pc
                       /\ call[d].pc = "append" => call'[d].pc # "write"
                       /\ call'[d].pc = "clean" => proc[d].init = "err"
  BY <1>2 DEF IInv, Ties, Mapped
<1> QED
  BY <1>3, <1>4, <1>5, QuietInv

LEMMA ResolvedTyped ==
  ASSUME NEW c \in Calls PROVE Resolved(c) \in {"append", "done"}
BY DEF Resolved

LEMMA SoloInv ==
  ASSUME IInv, NEW c \in Calls, Refuse(c) \/ Waited(c) \/ WaitCancelled(c) \/ Reject(c)
  PROVE  IInv'
<1>1. Typed
  BY DEF IInv
<1>2. upsets \in 0 .. MaxUpsets
  BY <1>1 DEF Typed
<1>3. CASE Refuse(c)
  BY <1>2, <1>3, CallInv DEF Refuse, procVars, history
<1>4. CASE WaitCancelled(c)
  BY <1>1, <1>4, UpsetTyped, CallInv DEF WaitCancelled, procVars
<1>5. CASE Reject(c)
  BY <1>2, <1>5, CallInv DEF Reject, procVars, history
<1>6. CASE Waited(c)
  <2>1. PICK to \in {"append", "fail", "done", "refused"} :
          Goto(c, to) /\ (to = "fail" \/ to = Resolved(c))
    BY <1>6, ResolvedTyped DEF Waited
  <2>2. /\ call[c].pc = "wait"
        /\ UNCHANGED <<pool, proc, claude, stops, started, killed, job, panicked, upsets>>
    BY <1>6 DEF Waited, procVars, history
  <2> QED
    BY <1>2, <2>1, <2>2, CallInv
<1> QED
  BY <1>3, <1>4, <1>5, <1>6

\* The spawner's exchange ends.
LEMMA InitInv ==
  ASSUME IInv, NEW c \in Calls, Initialized(c) \/ InitFails(c)
  PROVE  IInv'
<1> PICK to \in {"append", "done", "clean"}, init \in {"ok", "err"} :
      /\ proc' = [proc EXCEPT ![c].init = init] /\ Goto(c, to)
      /\ init = "err" <=> to = "clean"
      /\ to # "clean" => to = Resolved(c)
  BY ResolvedTyped DEF Initialized, InitFails
<1> DEFINE q == [proc[c] EXCEPT !.init = init]
<1>1. /\ call \in [Calls -> CallState] /\ Typed /\ c \in Procs /\ call[c].pc = "init"
      /\ UNCHANGED <<pool, claude, stops, started, killed, job, panicked>>
      /\ upsets' \in 0 .. MaxUpsets
  BY UpsetTyped DEF IInv, Typed, Procs, Initialized, InitFails, history
<1>2. /\ call' \in [Calls -> CallState]
      /\ call'[c].pc = to /\ call'[c].p = call[c].p /\ call'[c].told = call[c].told
      /\ \A d \in Calls : d # c => call'[d] = call[d]
  <2>1. to \in {"new", "init", "clean", "wait", "append", "write", "undo", "pass",
                     "fail", "done", "refused"}
    OBVIOUS
  <2> QED
    BY <1>1, <2>1, GotoTyped
<1>3. /\ q \in ProcState /\ q.init = init /\ q.turns = proc[c].turns
      /\ q.gone = proc[c].gone /\ q.leases = proc[c].leases
  <2>1. proc[c] \in ProcState
    BY <1>1 DEF Typed
  <2> QED
    BY <2>1 DEF ProcState
<1>4. proc' = [proc EXCEPT ![c] = q]
  OBVIOUS
<1> HIDE DEF q
<1>5. /\ proc' \in [Procs -> ProcState] /\ proc'[c] = q
      /\ \A r \in Procs \ {c} : proc'[r] = proc[r]
  BY <1>1, <1>3, <1>4, ProcTo
<1>6. Typed'
  BY <1>1, <1>2, <1>5 DEF Typed
<1>7. \A d \in Calls : Proceeds(d)
  <2>1. Proceeds(c)
    BY <1>1, <1>2 DEF Proceeds
  <2>2. ASSUME NEW d \in Calls, d # c PROVE Proceeds(d)
    BY <1>2, <2>2 DEF Proceeds
  <2> QED
    BY <2>1, <2>2
<1>8. \A d \in Calls : /\ call[d].pc \in {"write", "undo"} => call'[d].pc = call[d].pc
                       /\ call[d].pc = "append" => call'[d].pc # "write"
                       /\ call'[d].pc \in {"new", "init"} => proc'[d].init = proc[d].init
                       /\ call'[d].pc = "clean" => proc'[d].init = "err"
  BY <1>1, <1>2, <1>3, <1>5 DEF IInv, Ties, Mapped, Procs
<1>9. \A p \in Procs : /\ proc'[p].turns = proc[p].turns /\ proc'[p].gone = proc[p].gone
                       /\ proc[p].init = "err" => proc'[p].init = "err"
                       /\ proc'[p].leases = proc[p].leases
  <2>1. proc[c].init = "wait"
    BY <1>1 DEF IInv, Ties, Mapped
  <2> QED
    BY <1>3, <1>5, <2>1
<1>10. \A d \in Sends : call'[d].pc \in OnTheWay =>
         proc'[call[d].p].leases = proc[call[d].p].leases
  <2>1. ASSUME NEW d \in Sends, call'[d].pc \in OnTheWay PROVE call[d].p \in Procs
    <3>1. d \in Calls /\ call[d].pc \in OnTheWay
      BY <1>1, <1>2, <2>1 DEF Sends, OnTheWay
    <3> QED
      BY <1>1, <3>1, CallProc DEF IInv, Ties
  <2> QED
    BY <1>9, <2>1
<1> QED
  BY <1>1, <1>6, <1>7, <1>8, <1>9, <1>10, QuietInv

LEMMA CleanInv ==
  ASSUME IInv, NEW c \in Calls, Clean(c)
  PROVE  IInv'
<1>1. /\ call \in [Calls -> CallState] /\ Typed /\ c \in Procs /\ call[c].pc = "clean"
      /\ UNCHANGED <<proc, claude, started, killed, job, panicked, upsets>>
      /\ pool' = [s \in Sessions |-> IF pool[s] = c THEN NoProc ELSE pool[s]]
      /\ stops' = stops \cup {c} /\ Goto(c, "refused")
  BY DEF IInv, Typed, Procs, Clean, history
<1>2. /\ call' \in [Calls -> CallState]
      /\ call'[c].pc = "refused" /\ call'[c].p = call[c].p /\ call'[c].told = call[c].told
      /\ \A d \in Calls : d # c => call'[d] = call[d]
  BY <1>1, GotoTyped
<1>3. Typed'
  BY <1>1, <1>2 DEF Typed
<1>4. \A d \in Calls : Proceeds(d)
  <2>1. Proceeds(c)
    BY <1>1, <1>2 DEF Proceeds
  <2>2. ASSUME NEW d \in Calls, d # c PROVE Proceeds(d)
    BY <1>2, <2>2 DEF Proceeds
  <2> QED
    BY <2>1, <2>2
<1>5. \A d \in Calls : /\ call[d].pc \in {"write", "undo"} => call'[d].pc = call[d].pc
                       /\ call[d].pc = "append" => call'[d].pc # "write"
                       /\ call'[d].pc = "clean" => proc[d].init = "err"
  BY <1>1, <1>2 DEF IInv, Ties, Mapped
<1>6. proc[c].init = "err"
  BY <1>1 DEF IInv, Ties, Mapped
<1>7. \A s \in Sessions : pool[s] # NoProc /\ pool'[s] # pool[s] => Parts(s)
  BY <1>1, <1>6 DEF Parts
<1> QED
  BY <1>1, <1>3, <1>4, <1>5, <1>7, QuietInv

\* Where the calls stay, and their processes keep their turns and leases.
LEMMA StillInv ==
  ASSUME IInv, Typed', job' = job, claude' = claude, call' = call, started \subseteq started',
         \A p \in Procs : /\ proc'[p].turns = proc[p].turns /\ proc'[p].gone = proc[p].gone
                          /\ proc'[p].init = proc[p].init /\ proc'[p].leases = proc[p].leases,
         \A s \in Sessions : pool'[s] = pool[s] \/ pool'[s] = NoProc,
         \A s \in Sessions : pool[s] # NoProc /\ pool'[s] # pool[s] => Parts(s),
         killed \subseteq killed'
  PROVE  IInv'
<1>1. \A c \in Calls : Proceeds(c)
  BY DEF Proceeds
<1>2. \A c \in Calls : /\ call'[c].pc \in {"new", "init"} => proc'[c].init = proc[c].init
                       /\ call'[c].pc = "clean" => proc'[c].init = "err"
  BY DEF IInv, Ties, Mapped, Procs
<1>3. \A c \in Sends : call'[c].pc \in OnTheWay =>
         proc'[call[c].p].leases = proc[call[c].p].leases
  BY CallProc DEF IInv, Ties, Sends
<1> QED
  BY <1>1, <1>2, <1>3, QuietInv

LEMMA TaskInv ==
  ASSUME IInv, NEW p \in Procs, StopMark(p) \/ TaskStarted(p) \/ TaskEnded(p)
  PROVE  IInv'
<1>1. Typed /\ proc[p] \in ProcState
  BY DEF IInv, Typed
<1>2. PICK q \in ProcState :
        /\ proc' = [proc EXCEPT ![p] = q] /\ q.turns = proc[p].turns
        /\ q.gone = proc[p].gone /\ q.init = proc[p].init /\ q.leases = proc[p].leases
  <2>1. CASE StopMark(p)
    <3> DEFINE q == [proc[p] EXCEPT !.stopping = TRUE]
    <3>1. /\ q \in ProcState /\ q.turns = proc[p].turns
          /\ q.gone = proc[p].gone /\ q.init = proc[p].init /\ q.leases = proc[p].leases
      BY <1>1 DEF ProcState
    <3>2. proc' = [proc EXCEPT ![p] = q]
      BY <2>1 DEF StopMark
    <3> QED
      BY <3>1, <3>2
  <2>2. CASE TaskStarted(p) \/ TaskEnded(p)
    <3>1. PICK w \in SUBSET Owns : proc' = [proc EXCEPT ![p].work = w]
      <4>1. \A o \in Owns : proc[p].work \cup {o} \in SUBSET Owns /\ proc[p].work \ {o} \in SUBSET Owns
        BY <1>1 DEF ProcState
      <4>2. proc[p].work \subseteq Owns
        BY <1>1 DEF ProcState
      <4> QED
        BY <2>2, <4>1, <4>2 DEF TaskStarted, TaskEnded
    <3> DEFINE q == [proc[p] EXCEPT !.work = w]
    <3>2. /\ q \in ProcState /\ q.turns = proc[p].turns
          /\ q.gone = proc[p].gone /\ q.init = proc[p].init /\ q.leases = proc[p].leases
      BY <1>1 DEF ProcState
    <3>3. proc' = [proc EXCEPT ![p] = q]
      BY <3>1
    <3> QED
      BY <3>2, <3>3
  <2> QED
    BY <2>1, <2>2
<1>3. /\ proc' \in [Procs -> ProcState] /\ proc'[p] = q
      /\ \A r \in Procs \ {p} : proc'[r] = proc[r]
  BY <1>1, <1>2, ProcTo
<1>4. /\ UNCHANGED <<pool, claude, call, killed, upsets, job, panicked>>
      /\ started \subseteq started' /\ started' \subseteq Owns /\ stops' \subseteq Procs
  BY <1>1 DEF StopMark, TaskStarted, TaskEnded, history, Typed
<1>5. Typed'
  BY <1>1, <1>3, <1>4 DEF Typed
<1> QED
  BY <1>2, <1>3, <1>4, <1>5, StillInv

LEMMA TakeOutInv ==
  ASSUME IInv, (\E s \in Sessions : Reap(s) \/ Kill(s)) \/ Shutdown
  PROVE  IInv'
<1>1. Typed
  BY DEF IInv
<1>2. PICK ss \in SUBSET Sessions : TakeOut(ss) /\
        \/ killed' = killed /\ upsets' = upsets /\ \A s \in ss : Idle(s)
        \/ Upset /\ killed' = killed \cup {pool[s] : s \in ss \cap Live}
  <2>1. ASSUME NEW s \in Sessions, Reap(s)
        PROVE  TakeOut({s}) /\ killed' = killed /\ upsets' = upsets /\ \A t \in {s} : Idle(t)
    BY <2>1 DEF Reap
  <2>2. ASSUME NEW s \in Sessions, Kill(s)
        PROVE  TakeOut({s}) /\ Upset /\ killed' = killed \cup {pool[t] : t \in {s} \cap Live}
    <3>1. {s} \cap Live = {s}
      <4>1. {s} \cap Live # {}
        BY <2>2 DEF Kill, TakeOut
      <4> QED
        BY <4>1
    <3>2. {pool[t] : t \in {s} \cap Live} = {pool[s]}
      BY <3>1
    <3> QED
      BY <2>2, <3>2 DEF Kill
  <2>3. ASSUME Shutdown
        PROVE  TakeOut(Sessions) /\ Upset /\ killed' = killed \cup {pool[t] : t \in Sessions \cap Live}
    BY <2>3 DEF Shutdown, Live
  <2>4. Sessions \in SUBSET Sessions /\ \A s \in Sessions : {s} \in SUBSET Sessions
    OBVIOUS
  <2> QED
    BY <2>1, <2>2, <2>3, <2>4
<1>3. /\ UNCHANGED <<proc, claude, call, started, job, panicked>>
      /\ pool' = [s \in Sessions |-> IF s \in ss THEN NoProc ELSE pool[s]]
      /\ stops' = stops \cup {pool[s] : s \in ss \cap Live}
  BY <1>2 DEF TakeOut
<1>4. \A s \in Live : pool[s] \in Procs
  BY <1>1 DEF Live, Typed
<1>5. killed' \subseteq Procs /\ killed \subseteq killed' /\ upsets' \in 0 .. MaxUpsets
  BY <1>1, <1>2, <1>4, UpsetTyped DEF Typed
<1>6. Typed'
  BY <1>1, <1>3, <1>4, <1>5 DEF Typed
<1>7. ASSUME NEW s \in Sessions, pool[s] # NoProc, pool'[s] # pool[s] PROVE Parts(s)
  <2>1. s \in ss /\ s \in Live
    BY <1>3, <1>7 DEF Live
  <2> QED
    BY <1>2, <2>1, IdleFree DEF Parts
<1> QED
  BY <1>3, <1>5, <1>6, <1>7, StillInv

\* releaseProcess: the lease was this call's own, and no other send to the
\* process is on its way.
LEMMA ReleaseInv ==
  ASSUME IInv, NEW c \in Calls, Release(c)
  PROVE  IInv'
<1> DEFINE p == call[c].p
           to == IF call[c].pc = "pass" THEN "done" ELSE "refused"
           q == [proc[p] EXCEPT !.leases = @ - Lease(c)]
<1>1. /\ call \in [Calls -> CallState] /\ Typed /\ call[c].pc \in {"pass", "fail"}
      /\ UNCHANGED <<pool, claude, stops, started, killed, job, panicked, upsets>>
      /\ to \in {"done", "refused"} /\ Goto(c, to)
  BY DEF IInv, Typed, Release, history
<1>2. p \in Procs
  BY <1>1, CallProc DEF IInv, Ties, OnTheWay
<1>3. proc[p].leases - Lease(c) \in Nat /\ (c \notin Sends => proc[p].leases - Lease(c) = proc[p].leases)
  <2>1. proc[p].leases \in Nat
    BY <1>1, <1>2 DEF Typed, ProcState
  <2>2. c \in Sends => proc[p].leases > 0
    BY <1>1 DEF IInv, Ties, Leased, OnTheWay
  <2> QED
    BY <2>1, <2>2 DEF Lease
<1>4. /\ q \in ProcState /\ q.init = proc[p].init /\ q.turns = proc[p].turns
      /\ q.gone = proc[p].gone /\ (c \notin Sends => q.leases = proc[p].leases)
  <2>1. proc[p] \in ProcState
    BY <1>1, <1>2 DEF Typed
  <2> QED
    BY <1>3, <2>1 DEF ProcState
<1>5. proc' = [proc EXCEPT ![p] = q]
  BY DEF Release
<1> HIDE DEF q, to
<1>6. /\ proc' \in [Procs -> ProcState] /\ proc'[p] = q
      /\ \A r \in Procs \ {p} : proc'[r] = proc[r]
  BY <1>1, <1>2, <1>4, <1>5, ProcTo
<1>7. /\ call' \in [Calls -> CallState]
      /\ call'[c].pc = to /\ call'[c].p = call[c].p /\ call'[c].told = call[c].told
      /\ \A d \in Calls : d # c => call'[d] = call[d]
  <2>1. to \in {"new", "init", "clean", "wait", "append", "write", "undo", "pass",
                     "fail", "done", "refused"}
    BY <1>1
  <2> QED
    BY <1>1, <2>1, GotoTyped
<1>8. Typed'
  BY <1>1, <1>6, <1>7 DEF Typed
<1>9. \A d \in Calls : Proceeds(d)
  <2>1. Proceeds(c)
    BY <1>1, <1>7 DEF Proceeds, to
  <2>2. ASSUME NEW d \in Calls, d # c PROVE Proceeds(d)
    BY <1>7, <2>2 DEF Proceeds
  <2> QED
    BY <2>1, <2>2
<1>10. \A r \in Procs : /\ proc'[r].turns = proc[r].turns /\ proc'[r].gone = proc[r].gone
                        /\ proc'[r].init = proc[r].init
  BY <1>4, <1>6
<1>11. \A d \in Calls : /\ call[d].pc \in {"write", "undo"} => call'[d].pc = call[d].pc
                        /\ call[d].pc = "append" => call'[d].pc # "write"
                        /\ call'[d].pc \in {"new", "init"} => proc'[d].init = proc[d].init
                        /\ call'[d].pc = "clean" => proc'[d].init = "err"
  BY <1>1, <1>7, <1>10 DEF IInv, Ties, Mapped, Procs
<1>12. ASSUME NEW d \in Sends, call'[d].pc \in OnTheWay
       PROVE  proc'[call[d].p].leases = proc[call[d].p].leases
  <2>1. d \in Calls /\ d # c /\ call[d].pc \in OnTheWay
    BY <1>1, <1>7, <1>12 DEF Sends, OnTheWay
  <2>2. call[d].p \in Procs
    BY <1>1, <2>1, CallProc DEF IInv, Ties
  <2>3. CASE call[d].p # p
    BY <1>6, <2>2, <2>3
  <2>4. CASE call[d].p = p
    <3>1. c \notin Sends
      <4>1. p # NoProc /\ call[c].pc \in OnTheWay
        BY <1>1, <1>2, ClaudePoolAssumption DEF Procs, OnTheWay
      <4> QED
        BY <2>1, <2>4, <4>1, OneSendOf DEF IInv, Ties
    <3> QED
      BY <1>4, <1>6, <2>4, <3>1
  <2> QED
    BY <2>3, <2>4
<1> QED
  BY <1>1, <1>8, <1>9, <1>10, <1>11, <1>12, QuietInv

(***************************************************************************)
(* Steps of the queues and of Claude: what ties calls, processes and       *)
(* leases is kept by all of them.                                          *)
(***************************************************************************)
LEMMA StepInv ==
  ASSUME IInv, Typed', Flows', Takeable', Owed', job' = job,
         \A c \in Calls : Proceeds(c),
         \A c \in Calls : call'[c].pc = "clean" => call[c].pc = "clean",
         \A p \in Procs : claude'[p].os = "none" <=> claude[p].os = "none",
         \A p \in Procs : claude[p].os = "none" =>
           claude'[p] = claude[p] /\ proc'[p].turns = proc[p].turns /\ proc'[p].gone = proc[p].gone,
         \A p \in Procs : /\ proc'[p].init = proc[p].init /\ proc'[p].leases = proc[p].leases
                          /\ proc[p].gone # "no" => proc'[p].gone # "no"
                          /\ p \in killed => p \in killed' \/ proc'[p].gone # "no",
         \A s \in Sessions :
           pool'[s] = pool[s] \/ (pool'[s] = NoProc /\ proc'[pool[s]].gone # "no")
  PROVE  IInv'
<1>1. \A c \in Calls : Resolved(c) \in {"append", "done"}
  BY ResolvedTyped
<1>2. \A c \in Calls : /\ call'[c].pc \in {"new", "init"} => proc'[c].init = proc[c].init
                       /\ call'[c].pc = "clean" => proc'[c].init = "err"
  BY DEF IInv, Ties, Mapped, Procs
<1>3. ASSUME NEW c \in Sends, call'[c].pc \in OnTheWay
      PROVE  proc'[call[c].p].leases > 0
  <2>1. c \in Calls /\ call[c].pc \in OnTheWay
    <3>1. c \in Calls
      BY DEF Sends
    <3> QED
      BY <1>3, <3>1 DEF Proceeds, OnTheWay, Resolved
  <2>2. call[c].p \in Procs
    BY <2>1, CallProc DEF IInv, Ties
  <2> QED
    BY <2>1, <2>2 DEF IInv, Ties, Leased
<1>4. \A s \in Sessions : pool[s] # NoProc /\ pool'[s] # pool[s] => Parts(s)
  BY DEF Parts
<1>5. Ties'
  BY <1>2, <1>3, <1>4, TiesKept DEF IInv
<1>6. Bounded'
  BY BoundKept DEF IInv
<1> QED
  BY <1>5, <1>6 DEF IInv

\* What Claude does by itself.
LEMMA ClaudeInv ==
  ASSUME IInv, NEW p \in Procs,
         Start(p) \/ StartOwn(p) \/ End(p) \/ Throw(p) \/ Discard(p) \/ Exit(p)
  PROVE  IInv'
<1>1. Typed /\ Flow(p)
  BY DEF IInv, Flows
<1>2. ClaudeMoves(p, claude'[p]) /\ claude'[p].os # "none" /\ Flow(p)'
  BY <1>1, StartFlow, StartOwnFlow, EndFlow, ThrowFlow, DiscardFlow, ExitFlow
<1>3. /\ claude[p].os = "up" /\ started \subseteq started'
      /\ UNCHANGED <<pool, proc, call, job, killed>>
  BY DEF Start, StartOwn, End, Throw, Discard, Exit, CanSay, procVars, history
<1>4. Typed' /\ \A q \in Procs \ {p} : claude'[q] = claude[q]
  BY <1>2 DEF ClaudeMoves
<1>5. Onward /\ \A q \in Procs : Pending(q)
  BY <1>3 DEF Onward, Pending
<1>6. Flows'
  <2>1. ASSUME NEW q \in Procs, q # p PROVE Flow(q)'
    BY <1>3, <1>4, <1>5, <2>1, FlowKept DEF IInv, Flows
  <2> QED
    BY <1>2, <2>1 DEF Flows
<1>7. \A c \in Calls : Proceeds(c)
  BY <1>3 DEF Proceeds
<1>8. Takeable' /\ Owed'
  BY <1>3, <1>7, TurnsKept DEF IInv
<1> QED
  BY <1>2, <1>3, <1>4, <1>6, <1>7, <1>8, StepInv

LEMMA WriteInv ==
  ASSUME IInv, NEW c \in Calls, Write(c)
  PROVE  IInv'
<1>1. Typed /\ Ties /\ Mapped /\ Blank /\ OneSend /\ Flows
  BY DEF IInv, Ties
<1>2. Typed' /\ WriteEffect(c, call[c].p)
  BY <1>1, WriteTyped
<1>3. UNCHANGED <<pool, started, killed, job>>
  BY DEF Write, procVars, history
<1>4. Flows'
  BY <1>1, <1>2, <1>3, WriteFlow
<1>5. \A d \in Calls : Proceeds(d)
  <2>1. Proceeds(c)
    BY <1>2 DEF Proceeds, WriteEffect
  <2>2. ASSUME NEW d \in Calls, d # c PROVE Proceeds(d)
    BY <1>2, <2>2 DEF Proceeds, WriteEffect
  <2> QED
    BY <2>1, <2>2
<1>6. \A d \in Calls : /\ call[d].pc = "append" => call'[d].pc # "write"
                       /\ call'[d].pc = "clean" => call[d].pc = "clean"
  BY <1>2 DEF WriteEffect
<1>7. proc' = proc
  BY <1>2 DEF WriteEffect
<1>8. Takeable' /\ Owed'
  BY <1>3, <1>5, <1>6, <1>7, TurnsKept DEF IInv
<1>9. \A p \in Procs : /\ claude'[p].os = "none" <=> claude[p].os = "none"
                       /\ claude[p].os = "none" => claude'[p] = claude[p]
  BY <1>2 DEF WriteEffect
<1> QED
  BY <1>2, <1>3, <1>4, <1>5, <1>6, <1>7, <1>8, <1>9, StepInv

\* Queue: the turn comes last, and no other call's turn is on its way.
LEMMA QueueInv ==
  ASSUME IInv, NEW c \in Calls, Queue(c)
  PROVE  IInv'
<1> DEFINE p == call[c].p
           turns == proc[p].turns
<1>1. Typed /\ Ties /\ Mapped /\ Blank /\ OneSend /\ Flows
  BY DEF IInv, Ties
<1>2. Typed' /\ QueueEffect(c, p)
  BY <1>1, QueueTyped
<1>3. UNCHANGED <<pool, claude, started, killed, job>>
  BY DEF Queue, history
<1>4. Flows'
  BY <1>1, <1>2, <1>3, QueueFlow
<1>5. \A d \in Calls : Proceeds(d)
  <2>1. Proceeds(c)
    BY <1>2 DEF Proceeds, QueueEffect
  <2>2. ASSUME NEW d \in Calls, d # c PROVE Proceeds(d)
    BY <1>2, <2>2 DEF Proceeds, QueueEffect
  <2> QED
    BY <2>1, <2>2
<1>6. /\ p \in Procs /\ c \in Sends /\ turns \in Seq(Turn) /\ call[c].pc = "append"
      /\ NewTurn(c) \in Turn /\ claude[p].os # "none"
  <2>1. p \in Procs /\ call[c].pc = "append" /\ c \in Sends
    BY <1>1, <1>2 DEF QueueEffect, Mapped
  <2>2. turns \in Seq(Turn)
    BY <1>1, <2>1 DEF Typed, ProcState
  <2>3. NewTurn(c) \in Turn
    BY DEF NewTurn, Turn, Commands
  <2> QED
    BY <1>1, <2>1, <2>2, <2>3 DEF Blank
<1>7. proc'[p].turns = Append(turns, NewTurn(c)) /\ call'[c].pc = "write" /\ call'[c].p = p
  BY <1>2 DEF QueueEffect
<1>8. /\ \A q \in Procs \ {p} : proc'[q] = proc[q]
      /\ \A d \in Calls : d # c => call'[d] = call[d]
  BY <1>2 DEF QueueEffect
<1> HIDE DEF turns
<1> DEFINE r == Append(turns, NewTurn(c))
<1>9. /\ MayTake(c, r) /\ Has(c, r) /\ \A d : Has(d, turns) => Has(d, r)
  <2>1. /\ r # <<>> /\ Len(r) = Len(turns) + 1 /\ Len(turns) \in Nat /\ r[Len(r)] = NewTurn(c)
        /\ DOMAIN r = 1 .. Len(r) /\ DOMAIN turns = 1 .. Len(turns)
        /\ \A i \in DOMAIN turns : r[i] = turns[i]
    BY <1>6
  <2> HIDE DEF r
  <2>2. MayTake(c, r)
    BY <2>1 DEF MayTake, NewTurn
  <2>3. Has(c, r)
    BY <2>1 DEF Has, NewTurn
  <2>4. \A i \in DOMAIN turns : i \in DOMAIN r /\ r[i] = turns[i]
    BY <2>1
  <2> QED
    BY <2>2, <2>3, <2>4 DEF Has
<1> HIDE DEF r
<1>10. proc'[p].turns = r
  BY <1>7 DEF r
<1>11. Takeable'
  <2>1. ASSUME NEW d \in Calls, call'[d].pc \in {"write", "undo"}
        PROVE  MayTake(d, proc'[call'[d].p].turns)
    <3>1. CASE d = c
      BY <1>7, <1>9, <1>10, <3>1
    <3>2. CASE d # c
      <4>1. call'[d] = call[d] /\ call[d].pc \in OnTheWay /\ d \in Sends
        BY <1>1, <1>8, <2>1, <3>2 DEF Mapped, OnTheWay
      <4>2. call[d].p \in Procs
        BY <1>1, <4>1, CallProc
      <4>3. call[d].p # p
        <5>1. p # NoProc /\ call[c].pc \in OnTheWay
          BY <1>6, ClaudePoolAssumption DEF Procs, OnTheWay
        <5> QED
          BY <1>1, <1>6, <3>2, <4>1, <5>1, OneSendOf
      <4> QED
        BY <1>8, <2>1, <4>1, <4>2, <4>3 DEF IInv, Takeable
    <3> QED
      BY <3>1, <3>2
  <2> QED
    BY <2>1 DEF Takeable, MayTake
<1>12. Owed'
  <2>1. ASSUME NEW d \in Sends, call'[d].pc \in {"write", "undo", "pass", "done"}
        PROVE  call'[d].told \/ Has(d, proc'[call'[d].p].turns)
    <3>1. CASE d = c
      BY <1>7, <1>9, <1>10, <3>1
    <3>2. CASE d # c
      <4>1. call'[d] = call[d] /\ d \in Calls
        BY <1>8, <3>2 DEF Sends
      <4>2. call[d].p \in Procs
        BY <1>1, <2>1, <4>1, CallProc DEF OnTheWay
      <4> QED
        BY <1>8, <1>9, <1>10, <2>1, <4>1, <4>2 DEF IInv, Owed, turns
    <3> QED
      BY <3>1, <3>2
  <2>2. Sends' = Sends
    BY <1>3 DEF Sends
  <2> QED
    BY <2>1, <2>2 DEF Owed, Has
<1>13. \A d \in Calls : call'[d].pc = "clean" => call[d].pc = "clean"
  BY <1>7, <1>8
<1>14. \A q \in Procs : /\ proc'[q].init = proc[q].init /\ proc'[q].leases = proc[q].leases
                        /\ proc'[q].gone = proc[q].gone
                        /\ claude[q].os = "none" => proc'[q].turns = proc[q].turns
  BY <1>2, <1>6, <1>8 DEF QueueEffect
<1> QED
  BY <1>2, <1>3, <1>4, <1>5, <1>11, <1>12, <1>13, <1>14, StepInv

\* Undo takes back the call's own turn: it is the last, or all are Claude's own.
LEMMA UndoInv ==
  ASSUME IInv, NEW c \in Calls, Undo(c)
  PROVE  IInv'
<1> DEFINE p == call[c].p
           turns == proc[p].turns
<1>1. Typed /\ Ties /\ Mapped /\ Blank /\ OneSend /\ Flows /\ Takeable
  BY DEF IInv, Ties
<1>2. Typed' /\ UndoEffect(c, p)
  BY <1>1, UndoTyped
<1>3. UNCHANGED <<pool, claude, started, killed, job>>
  BY DEF Undo, history
<1>4. Flows'
  BY <1>1, <1>2, <1>3, UndoFlow
<1>5. CASE proc' = proc /\ call' = call
  <2>1. \A d \in Calls : Proceeds(d)
    BY <1>5 DEF Proceeds
  <2>2. Takeable' /\ Owed'
    BY <1>3, <1>5, <2>1, TurnsKept DEF IInv
  <2> QED
    BY <1>2, <1>3, <1>4, <1>5, <2>1, <2>2, StepInv
<1>6. CASE turns # <<>> /\ TurnEffect(p, Front(turns))
           /\ call'[c].pc = "fail" /\ call'[c].p = p /\ call'[c].told = call[c].told
           /\ \A d \in Calls : d # c => call'[d] = call[d]
  <2>1. /\ p \in Procs /\ c \in Sends /\ call[c].pc = "undo" /\ turns \in Seq(Turn)
        /\ claude[p].os # "none"
    <3>1. p \in Procs /\ call[c].pc = "undo" /\ c \in Sends
      BY <1>2 DEF UndoEffect
    <3> QED
      BY <1>1, <3>1 DEF Blank, Typed, ProcState
  <2>2. /\ \A q \in Procs \ {p} : proc'[q] = proc[q]
        /\ proc'[p].turns = Front(turns)
    BY <1>6 DEF TurnEffect
  <2>3. \A d \in Calls : Proceeds(d)
    <3>1. Proceeds(c)
      BY <1>6, <2>1 DEF Proceeds
    <3>2. ASSUME NEW d \in Calls, d # c PROVE Proceeds(d)
      BY <1>6, <3>2 DEF Proceeds
    <3> QED
      BY <3>1, <3>2
  <2> HIDE DEF turns
  <2>4. \A d : d # c /\ Has(d, turns) => Has(d, Front(turns))
    <3>1. MayTake(c, turns)
      BY <1>1, <2>1 DEF Takeable, turns
    <3>2. /\ Len(turns) \in Nat /\ DOMAIN turns = 1 .. Len(turns) /\ turns # <<>>
          /\ DOMAIN Front(turns) = 1 .. Len(turns) - 1
          /\ \A i \in 1 .. Len(turns) - 1 : Front(turns)[i] = turns[i]
      <4>1. turns \in Seq(Turn) /\ turns # <<>>
        BY <1>6, <2>1 DEF turns
      <4>2. Front(turns) \in Seq(Turn) /\ Without(turns, Len(turns), Front(turns))
        BY <4>1, FrontFacts
      <4>3. Len(turns) \in Nat /\ DOMAIN turns = 1 .. Len(turns)
        BY <4>1
      <4>4. Len(Front(turns)) = Len(turns) - 1
        BY <4>2 DEF Without
      <4>5. DOMAIN Front(turns) = 1 .. Len(turns) - 1
        BY <4>2, <4>4
      <4>6. \A i \in 1 .. Len(turns) - 1 : Front(turns)[i] = turns[i]
        BY <4>2, <4>3 DEF Without
      <4> QED
        BY <4>1, <4>3, <4>5, <4>6
    <3>3. SUFFICES ASSUME NEW d, d # c, NEW i \in DOMAIN turns, turns[i].cmd = d, ~turns[i].foreign
                   PROVE  Has(d, Front(turns))
      BY DEF Has
    <3>4. turns[Len(turns)].cmd = c
      BY <3>1, <3>3 DEF MayTake
    <3>5. i \in 1 .. Len(turns) - 1
      BY <3>2, <3>3, <3>4
    <3> QED
      BY <3>2, <3>3, <3>5 DEF Has
  <2>5. Takeable'
    <3>1. ASSUME NEW d \in Calls, call'[d].pc \in {"write", "undo"}
          PROVE  MayTake(d, proc'[call'[d].p].turns)
      <4>1. d # c
        BY <1>6, <3>1
      <4>2. call'[d] = call[d] /\ call[d].pc \in OnTheWay /\ d \in Sends
        BY <1>1, <1>6, <3>1, <4>1 DEF Mapped, OnTheWay
      <4>3. call[d].p \in Procs
        BY <1>1, <4>2, CallProc
      <4>4. call[d].p # p
        <5>1. p # NoProc /\ call[c].pc \in OnTheWay
          BY <2>1, ClaudePoolAssumption DEF Procs, OnTheWay
        <5> QED
          BY <1>1, <2>1, <4>1, <4>2, <5>1, OneSendOf
      <4> QED
        BY <1>1, <2>2, <3>1, <4>2, <4>3, <4>4 DEF Takeable
    <3> QED
      BY <3>1 DEF Takeable, MayTake
  <2>6. Owed'
    <3>1. ASSUME NEW d \in Sends, call'[d].pc \in {"write", "undo", "pass", "done"}
          PROVE  call'[d].told \/ Has(d, proc'[call'[d].p].turns)
      <4>1. d # c
        BY <1>6, <3>1
      <4>2. call'[d] = call[d] /\ d \in Calls
        BY <1>6, <4>1 DEF Sends
      <4>3. call[d].p \in Procs
        BY <1>1, <3>1, <4>2, CallProc DEF OnTheWay
      <4> QED
        BY <2>2, <2>4, <3>1, <4>1, <4>2, <4>3 DEF IInv, Owed, turns
    <3>2. Sends' = Sends
      BY <1>3 DEF Sends
    <3> QED
      BY <3>1, <3>2 DEF Owed, Has
  <2>7. \A d \in Calls : call'[d].pc = "clean" => call[d].pc = "clean"
    BY <1>6
  <2>8. \A q \in Procs : /\ proc'[q].init = proc[q].init /\ proc'[q].leases = proc[q].leases
                         /\ proc'[q].gone = proc[q].gone
                         /\ claude[q].os = "none" => proc'[q].turns = proc[q].turns
    BY <1>6, <2>1, <2>2 DEF TurnEffect
  <2> QED
    BY <1>2, <1>3, <1>4, <2>3, <2>5, <2>6, <2>7, <2>8, StepInv
<1> QED
  BY <1>2, <1>5, <1>6 DEF UndoEffect

\* The turns of one process change, and calls are told at most: who may take his
\* turn back, and who is owed an end, has to be shown for that process only.
LEMMA TurnInv ==
  ASSUME IInv, Typed', Flows', NEW p \in Procs, job' = job, claude[p].os # "none",
         claude'[p].os = claude[p].os,
         proc'[p].init = proc[p].init, proc'[p].leases = proc[p].leases,
         proc[p].gone # "no" => proc'[p].gone # "no",
         \A q \in Procs \ {p} : proc'[q] = proc[q] /\ claude'[q] = claude[q],
         \A c \in Calls : /\ call'[c].pc = call[c].pc /\ call'[c].p = call[c].p
                          /\ call[c].told => call'[c].told,
         \A c \in Calls :
           call[c].pc \in {"write", "undo"} /\ call[c].p = p /\ MayTake(c, proc[p].turns)
             => MayTake(c, proc'[p].turns),
         \A c \in Sends : Has(c, proc[p].turns) => call'[c].told \/ Has(c, proc'[p].turns),
         \A q \in Procs : q \in killed => q \in killed' \/ proc'[q].gone # "no",
         \A s \in Sessions :
           pool'[s] = pool[s] \/ (pool'[s] = NoProc /\ proc'[pool[s]].gone # "no")
  PROVE  IInv'
<1>1. Typed /\ Mapped
  BY DEF IInv, Ties
<1>2. \A c \in Calls : Proceeds(c)
  BY DEF Proceeds
<1>3. \A c \in Calls : call[c].pc \in {"write", "undo", "pass", "done"} => call[c].p \in Procs
  BY <1>1, CallProc DEF OnTheWay
<1>4. Takeable'
  <2>1. ASSUME NEW c \in Calls, call'[c].pc \in {"write", "undo"}
        PROVE  MayTake(c, proc'[call'[c].p].turns)
    <3>1. call[c].pc \in {"write", "undo"} /\ call'[c].p = call[c].p /\ call[c].p \in Procs
      BY <2>1, <1>3
    <3>2. MayTake(c, proc[call[c].p].turns)
      BY <3>1 DEF IInv, Takeable
    <3>3. CASE call[c].p = p
      BY <3>1, <3>2, <3>3
    <3>4. CASE call[c].p # p
      BY <3>1, <3>2, <3>4
    <3> QED
      BY <3>3, <3>4
  <2> QED
    BY <2>1 DEF Takeable, MayTake
<1>5. Owed'
  <2>1. ASSUME NEW c \in Sends, call'[c].pc \in {"write", "undo", "pass", "done"}
        PROVE  call'[c].told \/ Has(c, proc'[call'[c].p].turns)
    <3>1. /\ c \in Calls /\ call[c].pc \in {"write", "undo", "pass", "done"}
          /\ call'[c].p = call[c].p /\ call[c].p \in Procs /\ (call[c].told => call'[c].told)
      BY <2>1, <1>3 DEF Sends
    <3>2. call[c].told \/ Has(c, proc[call[c].p].turns)
      BY <3>1 DEF IInv, Owed
    <3>3. CASE call[c].p = p
      BY <3>1, <3>2, <3>3
    <3>4. CASE call[c].p # p
      BY <3>1, <3>2, <3>4
    <3> QED
      BY <3>3, <3>4
  <2>2. Sends' = Sends
    BY DEF Sends
  <2> QED
    BY <2>1, <2>2 DEF Owed, Has
<1>6. \A q \in Procs :
        /\ claude'[q].os = claude[q].os
        /\ proc'[q].init = proc[q].init /\ proc'[q].leases = proc[q].leases
        /\ proc[q].gone # "no" => proc'[q].gone # "no"
        /\ claude[q].os = "none" =>
             claude'[q] = claude[q] /\ proc'[q].turns = proc[q].turns /\ proc'[q].gone = proc[q].gone
  <2> TAKE q \in Procs
  <2>1. CASE q = p
    BY <2>1
  <2>2. CASE q # p
    BY <2>2
  <2> QED
    BY <2>1, <2>2
<1> QED
  BY <1>2, <1>4, <1>5, <1>6, StepInv

\* What taking one turn out leaves of the others.
LEMMA LeftWithout ==
  ASSUME NEW turns \in Seq(Turn), NEW i \in DOMAIN turns, NEW r \in Seq(Turn),
         Without(turns, i, r)
  PROVE  /\ \A c : MayTake(c, turns) /\ (turns[i].cmd # c \/ i = 1) => MayTake(c, r)
         /\ \A c : Has(c, turns) => Has(c, r) \/ (turns[i].cmd = c /\ ~turns[i].foreign)
<1>1. /\ Len(turns) \in Nat /\ DOMAIN turns = 1 .. Len(turns) /\ Len(r) = Len(turns) - 1
      /\ DOMAIN r = 1 .. Len(r) /\ Len(r) \in Nat
      /\ \A j \in DOMAIN r : r[j] = turns[IF j < i THEN j ELSE j + 1]
  BY DEF Without
<1>2. \A j \in DOMAIN turns : j # i => \E m \in DOMAIN r : r[m] = turns[j]
  <2> TAKE j \in DOMAIN turns
  <2> HAVE j # i
  <2>1. CASE j < i
    BY <1>1, <2>1
  <2>2. CASE j > i
    <3>1. j - 1 \in DOMAIN r /\ ~(j - 1 < i) /\ (j - 1) + 1 = j
      BY <1>1, <2>2
    <3> QED
      BY <1>1, <3>1
  <2> QED
    BY <1>1, <2>1, <2>2
<1>3. \A m \in DOMAIN r : \E j \in DOMAIN turns : r[m] = turns[j]
  BY RestStays
<1>4. ASSUME NEW c, MayTake(c, turns), turns[i].cmd # c \/ i = 1 PROVE MayTake(c, r)
  <2>1. CASE \A j \in DOMAIN turns : turns[j].foreign /\ turns[j].cmd # c
    BY <1>3, <2>1 DEF MayTake
  <2>2. CASE /\ turns # <<>> /\ turns[Len(turns)].cmd = c
             /\ ~turns[Len(turns)].foreign /\ ~turns[Len(turns)].started
    <3>1. CASE Len(turns) = 1
      <4>1. DOMAIN r = {}
        BY <1>1, <3>1
      <4> QED
        BY <4>1 DEF MayTake
    <3>2. CASE Len(turns) # 1
      <4>1. i < Len(turns) /\ Len(turns) > 1
        BY <1>1, <1>4, <2>2, <3>2
      <4>2. Len(r) \in DOMAIN r /\ ~(Len(r) < i) /\ Len(r) + 1 = Len(turns) /\ r # <<>>
        BY <1>1, <4>1
      <4>3. r[Len(r)] = turns[Len(turns)]
        BY <1>1, <4>2
      <4> QED
        BY <2>2, <4>2, <4>3 DEF MayTake
    <3> QED
      BY <3>1, <3>2
  <2> QED
    BY <1>4, <2>1, <2>2 DEF MayTake
<1>5. ASSUME NEW c, Has(c, turns), ~(turns[i].cmd = c /\ ~turns[i].foreign) PROVE Has(c, r)
  <2>1. PICK j \in DOMAIN turns : turns[j].cmd = c /\ ~turns[j].foreign
    BY <1>5 DEF Has
  <2>2. PICK m \in DOMAIN r : r[m] = turns[j]
    BY <1>2, <1>5, <2>1
  <2> QED
    BY <2>1, <2>2 DEF Has
<1> QED
  BY <1>4, <1>5

\* A turn of Claude's own goes ahead of the one that may be taken back.
LEMMA LeftWith ==
  ASSUME NEW turns \in Seq(Turn), NEW own \in Turn, own.foreign, NEW r \in Seq(Turn),
         NEW at \in 1 .. Len(turns) + 1, With(turns, at, own, r),
         \A j \in DOMAIN turns : j < at => turns[j].started
  PROVE  /\ \A c : MayTake(c, turns) /\ own.cmd # c => MayTake(c, r)
         /\ \A c : Has(c, turns) => Has(c, r)
<1>1. /\ Len(turns) \in Nat /\ DOMAIN turns = 1 .. Len(turns) /\ Len(r) = Len(turns) + 1
      /\ DOMAIN r = 1 .. Len(turns) + 1
      /\ \A j \in DOMAIN turns : j < at => r[j] = turns[j]
      /\ \A j \in DOMAIN turns : j >= at => r[j + 1] = turns[j]
  <2>1. Len(turns) \in Nat /\ DOMAIN turns = 1 .. Len(turns) /\ DOMAIN r = 1 .. Len(r)
    OBVIOUS
  <2> QED
    BY <2>1 DEF With
<1>2. \A m \in DOMAIN r : r[m] = own \/ \E j \in DOMAIN turns : r[m] = turns[j]
  BY WithMembers
<1>3. ASSUME NEW c, MayTake(c, turns), own.cmd # c PROVE MayTake(c, r)
  <2>1. CASE \A j \in DOMAIN turns : turns[j].foreign /\ turns[j].cmd # c
    BY <1>2, <1>3, <2>1 DEF MayTake
  <2>2. CASE /\ turns # <<>> /\ turns[Len(turns)].cmd = c
             /\ ~turns[Len(turns)].foreign /\ ~turns[Len(turns)].started
    <3>1. Len(turns) \in DOMAIN turns
      BY <1>1, <2>2
    <3>2. Len(turns) >= at
      BY <1>1, <2>2, <3>1
    <3>3. r[Len(r)] = turns[Len(turns)] /\ r # <<>>
      BY <1>1, <3>1, <3>2
    <3> QED
      BY <2>2, <3>3 DEF MayTake
  <2> QED
    BY <1>3, <2>1, <2>2 DEF MayTake
<1>4. ASSUME NEW c, Has(c, turns) PROVE Has(c, r)
  <2>1. PICK j \in DOMAIN turns : turns[j].cmd = c /\ ~turns[j].foreign
    BY <1>4 DEF Has
  <2>2. CASE j < at
    <3>1. j \in DOMAIN r /\ r[j] = turns[j]
      BY <1>1, <2>2
    <3> QED
      BY <2>1, <3>1 DEF Has
  <2>3. CASE ~(j < at)
    <3>1. j + 1 \in DOMAIN r /\ r[j + 1] = turns[j]
      BY <1>1, <2>3
    <3> QED
      BY <2>1, <3>1 DEF Has
  <2> QED
    BY <2>2, <2>3
<1> QED
  BY <1>3, <1>4

\* readLoop: a frame's command was written, so it is no turn that a failed write
\* takes back.
LEMMA ReadInv ==
  ASSUME IInv, NEW p \in Procs, Read(p)
  PROVE  IInv'
<1> DEFINE turns == proc[p].turns
           r == proc'[p].turns
           f == Head(claude[p].out)
<1>1. Typed /\ Flows /\ Blank
  BY DEF IInv, Ties
<1>2. Typed' /\ ReadEffect(p)
  BY <1>1, ReadTyped
<1>3. UNCHANGED <<pool, started, killed, job>>
  BY DEF Read, history
<1>4. Flows'
  BY <1>1, <1>2, <1>3, ReadFlow
<1>5. /\ turns \in Seq(Turn) /\ call \in [Calls -> CallState] /\ claude[p].out \in Seq(Frame)
      /\ claude[p].out # <<>>
  BY <1>1, <1>2 DEF Typed, ProcState, ClaudeState, ReadEffect, Takes
<1>6. f.cmd \in Commands /\ Given(p, f.cmd)
  <2>1. 1 \in DOMAIN claude[p].out /\ f = claude[p].out[1] /\ f \in Frame
    BY <1>5
  <2> QED
    BY <1>1, <2>1 DEF Flows, Flow, Origin, Frame
<1> HIDE DEF f
<1>7. \A c \in Calls : call[c].pc \in {"write", "undo"} => f.cmd # c
  BY <1>6 DEF Given
<1>8. claude[p].os # "none" /\ claude'[p].os = claude[p].os
      /\ \A q \in Procs \ {p} : claude'[q] = claude[q]
  BY <1>1, <1>2, <1>5 DEF Blank, ReadEffect, Takes
<1>9. PICK i \in DOMAIN turns \cup {0} :
        \/ Inserts(p, f) \/ Passes(p, f)
        \/ i \in DOMAIN turns /\ (Marks(p, f, i) \/ Ends(p, f, i))
  BY <1>2 DEF ReadEffect, f
<1> DEFINE Left == /\ \A c \in Calls : /\ call'[c].pc = call[c].pc /\ call'[c].p = call[c].p
                                       /\ call[c].told => call'[c].told
                   /\ \A c \in Calls : f.cmd # c /\ MayTake(c, turns) => MayTake(c, r)
                   /\ \A c \in Sends : Has(c, turns) => call'[c].told \/ Has(c, r)
                   /\ (r = turns /\ proc' = proc) \/ TurnEffect(p, r)
<1>10. ASSUME Inserts(p, f) PROVE Left
  <2> DEFINE own == [cmd |-> f.cmd, started |-> TRUE, foreign |-> TRUE, grace |-> FALSE]
  <2>1. r = InsertForeign(turns, f.cmd) /\ call' = call /\ TurnEffect(p, r)
    BY <1>10 DEF Inserts, TurnEffect
  <2>2. own \in Turn /\ own.foreign /\ own.cmd = f.cmd
    BY <1>6 DEF Turn
  <2>3. r \in Seq(Turn) /\ \E at \in 1 .. Len(turns) + 1 :
          With(turns, at, own, r) /\ \A j \in DOMAIN turns : j < at => turns[j].started
    <3> HIDE DEF turns
    <3> QED
      BY <1>5, <1>6, <2>1, InsertForeignFacts
  <2> HIDE DEF own, turns, r
  <2>4. PICK at \in 1 .. Len(turns) + 1 :
          With(turns, at, own, r) /\ \A j \in DOMAIN turns : j < at => turns[j].started
    BY <2>3
  <2>5. /\ \A c : MayTake(c, turns) /\ f.cmd # c => MayTake(c, r)
        /\ \A c : Has(c, turns) => Has(c, r)
    BY <1>5, <2>2, <2>3, <2>4, LeftWith
  <2>6. Left
    BY <2>1, <2>5
  <2> QED
    BY <2>6
<1>11. ASSUME Passes(p, f) PROVE Left
  <2>1. call' = call /\ proc' = proc
    BY <1>11 DEF Passes
  <2> QED
    BY <2>1
<1>12. ASSUME i \in DOMAIN turns /\ Marks(p, f, i) PROVE Left
  <2>1. /\ r = [turns EXCEPT ![i].started = TRUE] /\ call' = call /\ TurnEffect(p, r)
        /\ turns[i].cmd = f.cmd
    BY <1>12 DEF Marks, TurnEffect
  <2> HIDE DEF turns, r
  <2>2. /\ DOMAIN r = DOMAIN turns /\ Len(r) = Len(turns)
        /\ \A j \in DOMAIN turns : /\ r[j].cmd = turns[j].cmd /\ r[j].foreign = turns[j].foreign
                                   /\ j # i => r[j] = turns[j]
    <3>1. turns[i] \in Turn /\ r \in Seq(Turn)
      <4>1. turns[i] \in Turn
        BY <1>5, <1>12
      <4>2. [turns EXCEPT ![i].started = TRUE] \in Seq(Turn)
        BY <1>5, <1>12, MarkTyped
      <4> QED
        BY <2>1, <4>1, <4>2
    <3>2. DOMAIN r = DOMAIN turns /\ \A j \in DOMAIN turns : j # i => r[j] = turns[j]
      BY <1>5, <2>1
    <3>3. r[i].cmd = turns[i].cmd /\ r[i].foreign = turns[i].foreign
      BY <1>5, <1>12, <2>1, <3>1 DEF Turn
    <3>4. Len(r) = Len(turns)
      BY <1>5, <3>1, <3>2
    <3> QED
      BY <3>2, <3>3, <3>4
  <2>3. \A c : MayTake(c, turns) /\ f.cmd # c => MayTake(c, r)
    <3>1. turns # <<>> => r # <<>> /\ Len(turns) \in DOMAIN turns
      BY <1>5, <2>2
    <3> QED
      BY <2>1, <2>2, <3>1 DEF MayTake
  <2>4. \A c : Has(c, turns) => Has(c, r)
    BY <2>2 DEF Has
  <2> QED
    BY <2>1, <2>3, <2>4
<1>13. ASSUME i \in DOMAIN turns /\ Ends(p, f, i) PROVE Left
  <2>1. /\ r = RemoveAt(turns, i) /\ call' = Tell(<<turns[i]>>, call) /\ TurnEffect(p, r)
        /\ turns[i].cmd = f.cmd
    BY <1>13 DEF Ends, TurnEffect
  <2> DEFINE one == <<turns[i]>>
  <2>2. DOMAIN one = {1} /\ one[1] = turns[i]
    OBVIOUS
  <2> HIDE DEF turns, r, one
  <2>3. \A c \in Calls : /\ call'[c].pc = call[c].pc /\ call'[c].p = call[c].p
                         /\ call[c].told => call'[c].told
                         /\ turns[i].cmd = c /\ ~turns[i].foreign => call'[c].told
    <3>1. call' = Tell(one, call)
      BY <2>1 DEF one
    <3> QED
      BY <1>5, <2>2, <3>1, TellTyped
  <2>4. r \in Seq(Turn) /\ Without(turns, i, r)
    BY <1>5, <1>13, <2>1, RemoveAtFacts
  <2>5. /\ \A c : MayTake(c, turns) /\ f.cmd # c => MayTake(c, r)
        /\ \A c : Has(c, turns) => Has(c, r) \/ (turns[i].cmd = c /\ ~turns[i].foreign)
    BY <1>5, <1>13, <2>1, <2>4, LeftWithout
  <2> QED
    BY <2>1, <2>3, <2>5 DEF Sends
<1>14. Left
  BY <1>9, <1>10, <1>11, <1>12, <1>13
<1> HIDE DEF turns, r
<1>15. /\ proc'[p].init = proc[p].init /\ proc'[p].leases = proc[p].leases
       /\ proc'[p].gone = proc[p].gone /\ \A q \in Procs \ {p} : proc'[q] = proc[q]
  BY <1>14 DEF TurnEffect
<1> QED
  BY <1>2, <1>3, <1>4, <1>7, <1>8, <1>14, <1>15, TurnInv DEF turns, r

\* An interrupt, and what becomes of the turn it was for.
LEMMA InterruptInv ==
  ASSUME IInv, NEW p, FlagEffect(p) \/ DropEffect(p), Typed',
         UNCHANGED <<pool, started, killed, job>>
  PROVE  IInv'
<1> DEFINE turns == proc[p].turns
           r == proc'[p].turns
<1>1. Typed /\ Flows /\ Blank
  BY DEF IInv, Ties
<1>2. Flows'
  BY <1>1, FlagFlow, DropTurnFlow
<1>3. /\ p \in Procs /\ turns # <<>> /\ claude' = claude /\ TurnEffect(p, r)
  BY DEF FlagEffect, DropEffect, TurnEffect
<1>4. claude[p].os # "none" /\ turns \in Seq(Turn) /\ call \in [Calls -> CallState]
  BY <1>1, <1>3 DEF Blank, Typed, ProcState
<1> DEFINE Left == /\ \A c \in Calls : /\ call'[c].pc = call[c].pc /\ call'[c].p = call[c].p
                                       /\ call[c].told => call'[c].told
                   /\ \A c \in Calls : MayTake(c, turns) => MayTake(c, r)
                   /\ \A c \in Sends : Has(c, turns) => call'[c].told \/ Has(c, r)
<1>5. ASSUME FlagEffect(p) PROVE Left
  <2>1. /\ r \in Seq(Turn) /\ Len(r) = Len(turns) /\ call' = call
        /\ \A j \in DOMAIN turns : /\ r[j].cmd = turns[j].cmd /\ r[j].foreign = turns[j].foreign
                                   /\ r[j].started = turns[j].started
    BY <1>5 DEF FlagEffect
  <2> HIDE DEF turns, r
  <2>2. DOMAIN r = DOMAIN turns /\ r # <<>> /\ Len(turns) \in DOMAIN turns
    BY <1>3, <1>4, <2>1
  <2>3. \A c : MayTake(c, turns) => MayTake(c, r)
    BY <2>1, <2>2 DEF MayTake
  <2>4. \A c : Has(c, turns) => Has(c, r)
    BY <2>1, <2>2 DEF Has
  <2> QED
    BY <2>1, <2>3, <2>4
<1>6. ASSUME DropEffect(p) PROVE Left
  <2> DEFINE one == <<turns[1]>>
  <2>1. r = Tail(turns) /\ call' = Tell(one, call)
    BY <1>6 DEF DropEffect, TurnEffect
  <2>2. DOMAIN one = {1} /\ one[1] = turns[1]
    OBVIOUS
  <2> HIDE DEF turns, r, one
  <2>3. \A c \in Calls : /\ call'[c].pc = call[c].pc /\ call'[c].p = call[c].p
                         /\ call[c].told => call'[c].told
                         /\ turns[1].cmd = c /\ ~turns[1].foreign => call'[c].told
    BY <1>4, <2>1, <2>2, TellTyped
  <2>4. r \in Seq(Turn) /\ Without(turns, 1, r) /\ 1 \in DOMAIN turns
    BY <1>3, <1>4, <2>1, TailFacts
  <2>5. /\ \A c : MayTake(c, turns) => MayTake(c, r)
        /\ \A c : Has(c, turns) => Has(c, r) \/ (turns[1].cmd = c /\ ~turns[1].foreign)
    BY <1>4, <2>4, LeftWithout
  <2> QED
    BY <2>3, <2>5 DEF Sends
<1>7. Left
  BY <1>5, <1>6
<1> HIDE DEF turns, r
<1>8. /\ proc'[p].init = proc[p].init /\ proc'[p].leases = proc[p].leases
      /\ proc'[p].gone = proc[p].gone /\ \A q \in Procs \ {p} : proc'[q] = proc[q]
  BY <1>3 DEF TurnEffect
<1> QED
  BY <1>2, <1>3, <1>4, <1>7, <1>8, TurnInv DEF turns, r

\* Exited processes leave the map, and then their turns are told.
LEMMA DiedInv ==
  ASSUME IInv, NEW p \in Procs, Died(p)
  PROVE  IInv'
<1>1. Typed /\ Flows
  BY DEF IInv
<1>2. Typed' /\ DiedEffect(p)
  BY <1>1, DiedTyped
<1>3. /\ UNCHANGED <<started, job>> /\ killed' = killed \ {p}
      /\ pool' = [s \in Sessions |-> IF pool[s] = p THEN NoProc ELSE pool[s]]
  BY DEF Died
<1>4. Flows'
  BY <1>1, <1>2, <1>3, DiedFlow
<1>5. /\ claude[p].os # "none" /\ claude'[p].os = claude[p].os /\ call' = call
      /\ proc'[p].turns = proc[p].turns /\ proc'[p].gone = "done"
      /\ proc'[p].init = proc[p].init /\ proc'[p].leases = proc[p].leases
      /\ \A q \in Procs \ {p} : proc'[q] = proc[q] /\ claude'[q] = claude[q]
  BY <1>2 DEF DiedEffect
<1>6. /\ \A q \in Procs : q \in killed => q \in killed' \/ proc'[q].gone # "no"
      /\ \A s \in Sessions :
           pool'[s] = pool[s] \/ (pool'[s] = NoProc /\ proc'[pool[s]].gone # "no")
  BY <1>3, <1>5
<1> QED
  BY <1>2, <1>3, <1>4, <1>5, <1>6, TurnInv

LEMMA ToldInv ==
  ASSUME IInv, NEW p \in Procs, TellExited(p)
  PROVE  IInv'
<1> DEFINE turns == proc[p].turns
<1>1. Typed /\ Flows /\ Blank
  BY DEF IInv, Ties
<1>2. Typed' /\ ToldEffect(p)
  BY <1>1, ToldTyped
<1>3. UNCHANGED <<pool, started, killed, job>>
  BY DEF TellExited, history
<1>4. Flows'
  BY <1>1, <1>2, <1>3, ToldFlow
<1>5. /\ proc[p].gone = "done" /\ claude'[p].os = claude[p].os
      /\ call' = Tell(turns, call)
      /\ proc'[p].turns = <<>> /\ proc'[p].gone = "told"
      /\ proc'[p].init = proc[p].init /\ proc'[p].leases = proc[p].leases
      /\ \A q \in Procs \ {p} : proc'[q] = proc[q] /\ claude'[q] = claude[q]
  BY <1>2 DEF ToldEffect
<1>6. claude[p].os # "none" /\ call \in [Calls -> CallState]
  BY <1>1, <1>5 DEF Blank, Typed
<1>7. \A c \in Calls : /\ call'[c].pc = call[c].pc /\ call'[c].p = call[c].p
                       /\ call[c].told => call'[c].told
                       /\ Has(c, turns) => call'[c].told
  <2> HIDE DEF turns
  <2> QED
    BY <1>5, <1>6, TellTyped DEF Has
<1>8. \A c : MayTake(c, proc'[p].turns)
  <2>1. DOMAIN proc'[p].turns = {}
    BY <1>5
  <2> QED
    BY <2>1 DEF MayTake
<1> QED
  BY <1>2, <1>3, <1>4, <1>5, <1>6, <1>7, <1>8, TurnInv DEF Sends

(***************************************************************************)
(* A call resolves its process.  It joins one at rest there, and what the  *)
(* other calls rely on is left as it is.                                   *)
(***************************************************************************)
LEMMA EnteredTurns ==
  ASSUME IInv, NEW c \in Calls, call[c].pc = "new", Alone(c), job' = job,
         call'[c].pc \in {"wait", "init"}, \A d \in Calls : d # c => call'[d] = call[d],
         \A d \in Calls : call[d].p \in Procs =>
           proc'[call[d].p].turns = proc[call[d].p].turns
  PROVE  OneSend' /\ Takeable' /\ Owed'
<1>1. Sends' = Sends /\ (\A d : SessionOf(d)' = SessionOf(d)) /\ Sends \subseteq Calls
  BY DEF Sends, SessionOf
<1>2. Typed /\ Mapped /\ OneSend
  BY DEF IInv, Ties
<1>3. OneSend'
  <2>1. ASSUME NEW d \in Sends, NEW e \in Sends, SessionOf(d) = SessionOf(e),
               call'[d].pc \in OnTheWay, call'[e].pc \in OnTheWay
        PROVE  d = e
    <3>1. ASSUME c \in Sends, NEW x \in Sends, x # c, SessionOf(x) = SessionOf(c)
          PROVE  ~(call'[x].pc \in OnTheWay)
      BY <1>1, <3>1 DEF Alone, OnTheWay
    <3>2. d # c /\ e # c => d = e
      BY <1>1, <1>2, <2>1 DEF OneSend
    <3> QED
      BY <2>1, <3>1, <3>2
  <2> QED
    BY <1>1, <2>1 DEF OneSend, OnTheWay, SessionOf, Sends
<1>4. ASSUME NEW d \in Calls, call'[d].pc \in {"write", "undo", "pass", "done"}
      PROVE  /\ call'[d] = call[d]
             /\ proc'[call[d].p].turns = proc[call[d].p].turns
  <2>1. call'[d] = call[d]
    BY <1>4
  <2>2. call[d].p \in Procs
    BY <1>2, <1>4, <2>1, CallProc DEF OnTheWay
  <2> QED
    BY <2>1, <2>2
<1>5. Takeable'
  <2>1. ASSUME NEW d \in Calls, call'[d].pc \in {"write", "undo"}
        PROVE  MayTake(d, proc'[call'[d].p].turns)
    <3>1. call'[d] = call[d] /\ proc'[call[d].p].turns = proc[call[d].p].turns
      BY <1>4, <2>1
    <3> QED
      BY <2>1, <3>1 DEF IInv, Takeable
  <2> QED
    BY <2>1 DEF Takeable, MayTake
<1>6. Owed'
  BY <1>1, <1>4 DEF IInv, Owed, Has
<1> QED
  BY <1>3, <1>5, <1>6

LEMMA JoinInv ==
  ASSUME IInv, NEW c \in Calls, Join(c)
  PROVE  IInv'
<1> DEFINE p == pool[SessionOf(c)]
           n == proc[p].leases + Lease(c)
           q == [proc[p] EXCEPT !.leases = n]
           k == [call[c] EXCEPT !.pc = "wait", !.p = p]
<1>1. /\ Typed /\ Ties /\ Mapped /\ Blank /\ SessionOf(c) \in Sessions
      /\ call[c].pc = "new" /\ Alone(c) /\ p \in Procs /\ p # NoProc
      /\ UNCHANGED <<pool, claude, stops, started, killed, upsets, job, panicked>>
  BY SessionTyped DEF Join, history, IInv, Typed, Ties
<1>2. Typed'
  BY <1>1, EnterTyped DEF Enter
<1>3. proc \in [Procs -> ProcState] /\ call \in [Calls -> CallState]
  BY <1>1 DEF Typed
<1>4. n \in Nat /\ n >= proc[p].leases /\ (c \in Sends => n > 0)
  <2>1. proc[p].leases \in Nat
    BY <1>1, <1>3 DEF ProcState
  <2> QED
    BY <2>1 DEF Lease
<1>5. /\ q \in ProcState /\ q.leases = n /\ q.init = proc[p].init /\ q.turns = proc[p].turns
      /\ q.gone = proc[p].gone
  <2>1. proc[p] \in ProcState
    BY <1>1, <1>3
  <2> HIDE DEF n
  <2> QED
    BY <1>4, <2>1 DEF ProcState
<1>6. k \in CallState /\ k.pc = "wait" /\ k.p = p /\ k.told = call[c].told
  <2>1. call[c] \in CallState
    BY <1>3
  <2> QED
    BY <1>1, <2>1 DEF CallState
<1>7. proc' = [proc EXCEPT ![p] = q] /\ call' = [call EXCEPT ![c] = k]
  BY DEF Join
<1> HIDE DEF q, k, n, p
<1>8. /\ proc'[p] = q /\ \A r \in Procs \ {p} : proc'[r] = proc[r]
      /\ call'[c] = k /\ \A d \in Calls : d # c => call'[d] = call[d]
  BY <1>1, <1>3, <1>7
<1>9. \A r \in Procs : /\ proc'[r].turns = proc[r].turns /\ proc'[r].gone = proc[r].gone
                       /\ proc'[r].init = proc[r].init /\ proc'[r].leases >= proc[r].leases
  <2> TAKE r \in Procs
  <2>1. CASE r = p
    BY <1>4, <1>5, <1>8, <2>1
  <2>2. CASE r # p
    <3>1. proc[r].leases \in Nat
      BY <1>3 DEF ProcState
    <3> QED
      BY <1>8, <2>2, <3>1
  <2> QED
    BY <2>1, <2>2
<1>10. Bounded'
  BY <1>1, BoundKept DEF IInv
<1>11. Flows'
  <2>1. Onward /\ \A r \in Procs : Pending(r)
    BY <1>1, <1>8 DEF Onward, Pending
  <2> QED
    BY <1>1, <1>9, <2>1, QuietFlow DEF IInv
<1>12. OneSend' /\ Takeable' /\ Owed'
  BY <1>1, <1>6, <1>8, <1>9, EnteredTurns
<1>13. /\ Sends' = Sends /\ (\A d : SessionOf(d)' = SessionOf(d)) /\ Sends \subseteq Calls
       /\ SessionOf(p) = SessionOf(c)
  BY <1>1 DEF Sends, SessionOf, Mapped, p
<1>14. Mapped'
  <2>1. \A s \in Sessions : pool'[s] # NoProc => SessionOf(pool'[s]) = s
    BY <1>1 DEF Mapped
  <2>2. ASSUME NEW d \in Calls
        PROVE  /\ call'[d].p # NoProc => SessionOf(call'[d].p) = SessionOf(d)
               /\ call'[d].pc = "new" => claude'[d].os = "none"
               /\ call'[d].pc \in OnTheWay \cup {"done"} => call'[d].p # NoProc
               /\ call'[d].pc \in {"init", "clean"} => call'[d].p = d
               /\ call'[d].pc \in {"append", "write", "undo", "pass"} => d \in Sends
               /\ call'[d].pc \in {"new", "init"} => proc'[d].init = "wait"
               /\ call'[d].pc = "clean" => proc'[d].init = "err"
    <3>1. CASE d = c
      BY <1>1, <1>6, <1>8, <1>13, <3>1
    <3>2. CASE d # c
      BY <1>1, <1>8, <1>9, <3>2 DEF Mapped, Procs
    <3> QED
      BY <3>1, <3>2
  <2> QED
    BY <1>13, <2>1, <2>2 DEF Mapped, SessionOf, OnTheWay
<1>15. Blank'
  <2>1. ASSUME NEW r \in Procs, claude[r].os = "none" PROVE r # p
    BY <1>1, <2>1 DEF Blank, p
  <2>2. \A d \in Calls : call'[d].p = call[d].p \/ call'[d].p = p
    BY <1>6, <1>8
  <2> QED
    BY <1>1, <1>9, <2>1, <2>2 DEF Blank
<1>16. Leased'
  <2>1. ASSUME NEW d \in Sends, call'[d].pc \in OnTheWay
        PROVE  proc'[call'[d].p].leases > 0
    <3>1. CASE d = c
      BY <1>4, <1>5, <1>6, <1>8, <3>1
    <3>2. CASE d # c
      <4>1. d \in Calls /\ call'[d] = call[d]
        BY <1>8, <1>13, <3>2
      <4>2. call[d].p \in Procs /\ proc[call[d].p].leases > 0
        BY <1>1, <2>1, <4>1, CallProc DEF Ties, Leased
      <4>3. proc[call[d].p].leases \in Nat /\ proc'[call[d].p].leases \in Nat
        BY <1>2, <1>3, <4>2 DEF Typed, ProcState
      <4> QED
        BY <1>9, <4>1, <4>2, <4>3
    <3> QED
      BY <3>1, <3>2
  <2> QED
    BY <1>13, <2>1 DEF Leased, OnTheWay
<1>17. HeldInPlace'
  <2>1. ASSUME NEW d \in Sends, Holds(d)'
        PROVE  \/ pool'[SessionOf(d)] = call'[d].p
               \/ call'[d].p \in killed' \/ proc'[call'[d].p].init = "err"
               \/ proc'[call'[d].p].gone # "no"
    <3>1. CASE d = c
      BY <1>1, <1>6, <1>8, <3>1 DEF p
    <3>2. CASE d # c
      <4>1. d \in Calls /\ call'[d] = call[d] /\ Holds(d)
        BY <1>8, <1>13, <2>1, <3>2 DEF Holds
      <4>2. call[d].p \in Procs
        BY <1>1, <4>1, CallProc DEF Holds, OnTheWay
      <4> QED
        BY <1>1, <1>9, <4>1, <4>2 DEF Ties, HeldInPlace
    <3> QED
      BY <3>1, <3>2
  <2> QED
    BY <1>13, <2>1 DEF HeldInPlace, SessionOf
<1> QED
  BY <1>2, <1>10, <1>11, <1>12, <1>14, <1>15, <1>16, <1>17 DEF IInv, Ties

\* It spawns one, which no other call knows, in a place that was free, or that an
\* idle process has left.
SpawnEffect(c, rest) ==
  /\ call[c].pc = "new" /\ Alone(c) /\ pool[SessionOf(c)] = NoProc
  /\ UNCHANGED <<started, upsets, killed, job, panicked>>
  /\ \/ rest = pool /\ ~Full
     \/ \E s \in Sessions : Idle(s) /\ rest = [pool EXCEPT ![s] = NoProc]
  /\ Spawned(c, rest)

LEMMA SpawnFails ==
  ASSUME IInv, NEW c \in Calls, NEW rest, SpawnEffect(c, rest), stops' \subseteq Procs,
         pool' = rest, Goto(c, "refused"), UNCHANGED <<proc, claude>>
  PROVE  IInv'
<1>1. /\ Typed /\ call[c].pc = "new" /\ UNCHANGED <<started, killed, upsets, job, panicked>>
      /\ call \in [Calls -> CallState] /\ pool \in [Sessions -> Procs \cup {NoProc}]
  BY DEF IInv, Typed, SpawnEffect
<1>2. /\ call' \in [Calls -> CallState]
      /\ call'[c].pc = "refused" /\ call'[c].p = call[c].p /\ call'[c].told = call[c].told
      /\ \A d \in Calls : d # c => call'[d] = call[d]
  BY <1>1, GotoTyped
<1>3. /\ pool' \in [Sessions -> Procs \cup {NoProc}]
      /\ \A s \in Sessions : pool'[s] = pool[s] \/ (pool'[s] = NoProc /\ Idle(s))
  <2>1. CASE rest = pool
    BY <1>1, <2>1
  <2>2. CASE rest # pool
    <3>1. PICK s \in Sessions : Idle(s) /\ rest = [pool EXCEPT ![s] = NoProc]
      BY <2>2 DEF SpawnEffect
    <3> QED
      BY <1>1, <3>1
  <2> QED
    BY <2>1, <2>2
<1>4. Typed'
  BY <1>1, <1>2, <1>3 DEF Typed
<1>5. \A d \in Calls : Proceeds(d)
  <2>1. Proceeds(c)
    BY <1>1, <1>2 DEF Proceeds
  <2>2. ASSUME NEW d \in Calls, d # c PROVE Proceeds(d)
    BY <1>2, <2>2 DEF Proceeds
  <2> QED
    BY <2>1, <2>2
<1>6. \A d \in Calls : /\ call[d].pc \in {"write", "undo"} => call'[d].pc = call[d].pc
                       /\ call[d].pc = "append" => call'[d].pc # "write"
                       /\ call'[d].pc = "clean" => proc[d].init = "err"
  BY <1>1, <1>2 DEF IInv, Ties, Mapped
<1>7. \A s \in Sessions : pool[s] # NoProc /\ pool'[s] # pool[s] => Parts(s)
  BY <1>3, IdleFree DEF Parts
<1> QED
  BY <1>1, <1>3, <1>4, <1>5, <1>6, <1>7, QuietInv

LEMMA SpawnBound ==
  ASSUME IInv, NEW c \in Calls, NEW rest, SpawnEffect(c, rest),
         pool' = [rest EXCEPT ![SessionOf(c)] = c]
  PROVE  Bounded'
<1> DEFINE S == SessionOf(c)
<1>1. /\ Typed /\ S \in Sessions /\ pool \in [Sessions -> Procs \cup {NoProc}]
      /\ IsFiniteSet(Live) /\ Cardinality(Live) <= MaxLive /\ Cardinality(Live) \in Nat
      /\ MaxLive \in Nat \ {0}
  BY SessionTyped, FS_CardinalityType, ClaudePoolAssumption DEF IInv, Typed, Bounded
<1>2. PICK L : /\ Live' \subseteq L \cup {S} /\ IsFiniteSet(L)
               /\ Cardinality(L) \in Nat /\ Cardinality(L) < MaxLive
  <2>1. CASE rest = pool /\ ~Full
    <3>1. Live' \subseteq Live \cup {S}
      BY <1>1, <2>1 DEF Live
    <3> QED
      BY <1>1, <2>1, <3>1 DEF Full
  <2>2. CASE \E s \in Sessions : Idle(s) /\ rest = [pool EXCEPT ![s] = NoProc]
    <3>1. PICK s \in Sessions : Idle(s) /\ rest = [pool EXCEPT ![s] = NoProc]
      BY <2>2
    <3>2. s \in Live /\ Live' \subseteq (Live \ {s}) \cup {S}
      BY <1>1, <3>1 DEF Live, Idle
    <3>3. IsFiniteSet(Live \ {s}) /\ Cardinality(Live \ {s}) = Cardinality(Live) - 1
      BY <1>1, <3>2, FS_RemoveElement
    <3>4. Cardinality(Live \ {s}) \in Nat
      BY <3>3, FS_CardinalityType
    <3> QED
      BY <1>1, <3>2, <3>3, <3>4
  <2> QED
    BY <2>1, <2>2 DEF SpawnEffect
<1>3. IsFiniteSet(L \cup {S}) /\ Cardinality(L \cup {S}) <= Cardinality(L) + 1
  BY <1>2, FS_AddElement
<1>4. /\ IsFiniteSet(Live') /\ Cardinality(Live') <= Cardinality(L \cup {S})
      /\ Cardinality(Live') \in Nat /\ Cardinality(L \cup {S}) \in Nat
  BY <1>2, <1>3, FS_Subset, FS_CardinalityType
<1> QED
  BY <1>1, <1>2, <1>3, <1>4 DEF Bounded

\* A process that has just started has nothing in its queue or in its pipes.
LEMMA NewFlow ==
  ASSUME NEW c, claude'[c].inbox = <<>>, claude'[c].run = <<>>, claude'[c].out = <<>>,
         claude'[c].threw = {}, claude'[c].os = "up", proc'[c].turns = <<>>,
         proc'[c].gone = "no"
  PROVE  Flow(c)'
<1>1. DOMAIN <<>> = {}
  OBVIOUS
<1>2. Piped(claude'[c])
  BY <1>1 DEF Piped, Unique, IsIn, InLine
<1>3. Ordered(claude'[c], proc'[c].turns)
  BY <1>1 DEF Ordered, Ranked, Queued
<1>4. Origin(c)'
  <2>1. \A x : ~Taken(claude'[c], x)
    BY <1>1 DEF Taken, InLine, IsIn
  <2> QED
    BY <1>1, <2>1, OriginNext
<1>5. Written(c)'
  BY <1>1, WrittenNext
<1> QED
  BY <1>2, <1>3, <1>4, <1>5 DEF Flow, Piped, Ordered, Unique, IsIn, InLine, Ranked, Queued,
    Announced, Ahead, Over, Before

\* The process is blank: nobody knows it.
StartsEffect(c) ==
  /\ call[c].pc = "new" /\ Alone(c) /\ pool[SessionOf(c)] = NoProc
  /\ UNCHANGED <<started, killed, job>>
  /\ claude[c].os = "none" /\ proc[c].init = "wait"
  /\ claude'[c].inbox = <<>> /\ claude'[c].run = <<>> /\ claude'[c].out = <<>>
  /\ claude'[c].threw = {} /\ claude'[c].os = "up"
  /\ proc'[c].turns = <<>> /\ proc'[c].gone = "no" /\ proc'[c].init = "wait"
  /\ proc'[c].leases = Lease(c) /\ call'[c].pc = "init" /\ call'[c].p = c
  /\ \A d \in Calls : call[d].p # c
  /\ \A r \in Procs \ {c} : proc'[r] = proc[r] /\ claude'[r] = claude[r]
  /\ \A d \in Calls : d # c => call'[d] = call[d]
  /\ pool'[SessionOf(c)] = c
  /\ \A s \in Sessions : s # SessionOf(c) =>
       pool'[s] = pool[s] \/ (pool'[s] = NoProc /\ Idle(s))

LEMMA SpawnedTo ==
  ASSUME IInv, NEW c \in Calls, NEW rest, SpawnEffect(c, rest),
         pool' = [rest EXCEPT ![SessionOf(c)] = c],
         proc' = [proc EXCEPT ![c].leases = Lease(c)],
         claude' = [claude EXCEPT ![c].os = "up"],
         call' = [call EXCEPT ![c].pc = "init", ![c].p = c]
  PROVE  StartsEffect(c)
<1> DEFINE S == SessionOf(c)
           q == [proc[c] EXCEPT !.leases = Lease(c)]
           k == [call[c] EXCEPT !.pc = "init", !.p = c]
           l == [claude[c] EXCEPT !.os = "up"]
<1>1. /\ Typed /\ Ties /\ Mapped /\ Blank /\ Flows /\ S \in Sessions /\ c \in Procs
      /\ c # NoProc /\ call[c].pc = "new" /\ Alone(c) /\ pool[S] = NoProc
      /\ UNCHANGED <<started, upsets, killed, job, panicked>>
      /\ pool \in [Sessions -> Procs \cup {NoProc}]
  BY SessionTyped, ClaudePoolAssumption DEF IInv, Ties, Procs, SpawnEffect, Typed
<1>2. /\ proc \in [Procs -> ProcState] /\ call \in [Calls -> CallState]
      /\ claude \in [Procs -> ClaudeState]
  BY <1>1 DEF Typed
<1>3. /\ claude[c].os = "none" /\ claude[c].inbox = <<>> /\ claude[c].run = <<>>
      /\ claude[c].out = <<>> /\ claude[c].threw = {}
      /\ proc[c].turns = <<>> /\ proc[c].gone = "no" /\ proc[c].init = "wait"
      /\ \A s \in Sessions : pool[s] # c
      /\ \A d \in Calls : call[d].p # c
  BY <1>1 DEF Mapped, Blank, Flows, Flow, Procs
<1>4. /\ q.init = proc[c].init /\ q.turns = proc[c].turns /\ q.gone = proc[c].gone
      /\ q.leases = Lease(c)
  <2>1. proc[c] \in ProcState
    BY <1>1, <1>2
  <2> QED
    BY <2>1 DEF ProcState
<1>5. k.pc = "init" /\ k.p = c
  <2>1. call[c] \in CallState
    BY <1>2
  <2> QED
    BY <2>1 DEF CallState
<1>6. /\ l.os = "up" /\ l.inbox = claude[c].inbox /\ l.run = claude[c].run
      /\ l.out = claude[c].out /\ l.threw = claude[c].threw
  <2>1. claude[c] \in ClaudeState
    BY <1>1, <1>2
  <2> QED
    BY <2>1 DEF ClaudeState
<1>7. /\ proc' = [proc EXCEPT ![c] = q] /\ call' = [call EXCEPT ![c] = k]
      /\ claude' = [claude EXCEPT ![c] = l]
  OBVIOUS
<1> HIDE DEF q, k, l
<1>8. /\ proc'[c] = q /\ call'[c] = k /\ claude'[c] = l
      /\ \A r \in Procs \ {c} : proc'[r] = proc[r] /\ claude'[r] = claude[r]
      /\ \A d \in Calls : d # c => call'[d] = call[d]
  BY <1>1, <1>2, <1>7
<1>9. /\ pool'[S] = c
      /\ \A s \in Sessions : s # S =>
           pool'[s] = pool[s] \/ (pool'[s] = NoProc /\ Idle(s))
  <2>1. CASE rest = pool
    BY <1>1, <2>1
  <2>2. CASE rest # pool
    <3>1. PICK s \in Sessions : Idle(s) /\ rest = [pool EXCEPT ![s] = NoProc]
      BY <2>2 DEF SpawnEffect
    <3> QED
      BY <1>1, <3>1
  <2> QED
    BY <2>1, <2>2
<1> QED
  BY <1>1, <1>3, <1>4, <1>5, <1>6, <1>8, <1>9 DEF StartsEffect

LEMMA SpawnStarts ==
  ASSUME IInv, NEW c \in Calls, Typed', Bounded', StartsEffect(c)
  PROVE  IInv'
<1> DEFINE S == SessionOf(c)
<1>1. /\ Typed /\ Ties /\ Mapped /\ Blank /\ Flows /\ S \in Sessions /\ c \in Procs
      /\ c # NoProc /\ call[c].pc = "new" /\ Alone(c) /\ pool[S] = NoProc
      /\ UNCHANGED <<started, killed, job>>
  BY SessionTyped, ClaudePoolAssumption DEF IInv, Ties, Procs, StartsEffect
<1>2. /\ pool'[S] = c /\ proc'[c].leases = Lease(c)
      /\ \A s \in Sessions : s # S =>
           pool'[s] = pool[s] \/ (pool'[s] = NoProc /\ Idle(s))
  BY DEF StartsEffect
<1>3. /\ claude'[c].inbox = <<>> /\ claude'[c].run = <<>> /\ claude'[c].out = <<>>
      /\ claude'[c].threw = {} /\ claude'[c].os = "up"
      /\ proc'[c].turns = <<>> /\ proc'[c].gone = "no" /\ proc'[c].init = "wait"
  BY DEF StartsEffect
<1>5. call'[c].pc = "init" /\ call'[c].p = c /\ \A d \in Calls : call[d].p # c
  BY DEF StartsEffect
<1>8. /\ \A r \in Procs \ {c} : proc'[r] = proc[r] /\ claude'[r] = claude[r]
      /\ \A d \in Calls : d # c => call'[d] = call[d]
  BY DEF StartsEffect
<1>11. Flows'
  <2>1. Flow(c)'
    BY <1>3, NewFlow
  <2>2. ASSUME NEW r \in Procs, r # c PROVE Flow(r)'
    <3>1. Onward /\ Pending(r)
      BY <1>1, <1>8 DEF Onward, Pending
    <3> QED
      BY <1>1, <1>8, <2>2, <3>1, FlowKept DEF Flows
  <2> QED
    BY <2>1, <2>2 DEF Flows
<1>12. \A d \in Calls : call[d].p \in Procs => proc'[call[d].p] = proc[call[d].p]
  BY <1>5, <1>8
<1>13. OneSend' /\ Takeable' /\ Owed'
  BY <1>1, <1>5, <1>8, <1>12, EnteredTurns
<1>14. /\ Sends' = Sends /\ (\A d : SessionOf(d)' = SessionOf(d)) /\ Sends \subseteq Calls
  BY <1>1 DEF Sends, SessionOf
<1>15. Mapped'
  <2>1. \A s \in Sessions : pool'[s] # NoProc => SessionOf(pool'[s]) = s
    BY <1>1, <1>2 DEF Mapped
  <2>2. ASSUME NEW d \in Calls
        PROVE  /\ call'[d].p # NoProc => SessionOf(call'[d].p) = SessionOf(d)
               /\ call'[d].pc = "new" => claude'[d].os = "none"
               /\ call'[d].pc \in OnTheWay \cup {"done"} => call'[d].p # NoProc
               /\ call'[d].pc \in {"init", "clean"} => call'[d].p = d
               /\ call'[d].pc \in {"append", "write", "undo", "pass"} => d \in Sends
               /\ call'[d].pc \in {"new", "init"} => proc'[d].init = "wait"
               /\ call'[d].pc = "clean" => proc'[d].init = "err"
    <3>1. CASE d = c
      BY <1>1, <1>3, <1>5, <3>1
    <3>2. CASE d # c
      BY <1>1, <1>8, <3>2 DEF Mapped, Procs
    <3> QED
      BY <3>1, <3>2
  <2> QED
    BY <1>14, <2>1, <2>2 DEF Mapped, SessionOf, OnTheWay
<1>16. Blank'
  <2>1. ASSUME NEW r \in Procs, claude'[r].os = "none"
        PROVE  /\ r # c /\ claude[r].os = "none" /\ proc'[r] = proc[r] /\ claude'[r] = claude[r]
    BY <1>3, <1>8, <2>1
  <2>2. ASSUME NEW r \in Procs, claude'[r].os = "none", NEW s \in Sessions PROVE pool'[s] # r
    BY <1>1, <1>2, <2>1, <2>2, ClaudePoolAssumption DEF Blank, Procs
  <2>3. ASSUME NEW r \in Procs, claude'[r].os = "none", NEW d \in Calls PROVE call'[d].p # r
    BY <1>1, <1>5, <1>8, <2>1, <2>3 DEF Blank
  <2> QED
    BY <1>1, <2>1, <2>2, <2>3 DEF Blank
<1>17. Leased'
  <2>1. ASSUME NEW d \in Sends, call'[d].pc \in OnTheWay
        PROVE  proc'[call'[d].p].leases > 0
    <3>1. CASE d = c
      BY <1>2, <1>5, <3>1 DEF Lease
    <3>2. CASE d # c
      <4>1. d \in Calls /\ call'[d] = call[d]
        BY <1>8, <1>14, <3>2
      <4>2. call[d].p \in Procs /\ proc[call[d].p].leases > 0
        BY <1>1, <2>1, <4>1, CallProc DEF Ties, Leased
      <4> QED
        BY <1>12, <4>1, <4>2
    <3> QED
      BY <3>1, <3>2
  <2> QED
    BY <1>14, <2>1 DEF Leased, OnTheWay
<1>18. HeldInPlace'
  <2>1. ASSUME NEW d \in Sends, Holds(d)'
        PROVE  \/ pool'[SessionOf(d)] = call'[d].p
               \/ call'[d].p \in killed' \/ proc'[call'[d].p].init = "err"
               \/ proc'[call'[d].p].gone # "no"
    <3>1. CASE d = c
      BY <1>2, <1>5, <3>1
    <3>2. CASE d # c
      <4>1. d \in Calls /\ call'[d] = call[d] /\ Holds(d) /\ SessionOf(d) \in Sessions
        BY <1>1, <1>8, <1>14, <2>1, <3>2, SessionTyped DEF Holds
      <4>2. call[d].p \in Procs /\ call[d].p # NoProc
        BY <1>1, <4>1, CallProc, ClaudePoolAssumption DEF Holds, OnTheWay, Procs
      <4>3. CASE pool[SessionOf(d)] = call[d].p
        <5>1. SessionOf(d) # S
          BY <1>1, <4>2, <4>3
        <5>2. ~Idle(SessionOf(d))
          BY <4>1, <4>3, IdleFree
        <5> QED
          BY <1>2, <4>1, <4>3, <5>1, <5>2
      <4>4. CASE pool[SessionOf(d)] # call[d].p
        BY <1>1, <1>12, <4>1, <4>2, <4>4 DEF Ties, HeldInPlace
      <4> QED
        BY <4>3, <4>4
    <3> QED
      BY <3>1, <3>2
  <2> QED
    BY <1>14, <2>1 DEF HeldInPlace, SessionOf
<1> QED
  BY <1>11, <1>13, <1>15, <1>16, <1>17, <1>18 DEF IInv, Ties

LEMMA SpawnInv ==
  ASSUME IInv, NEW c \in Calls, Spawn(c)
  PROVE  IInv'
<1>1. Typed' /\ stops' \subseteq Procs
  BY EnterTyped DEF Enter, IInv, Typed
<1>2. PICK rest : SpawnEffect(c, rest)
  BY DEF Spawn, SpawnEffect, history
<1>3. CASE pool' = rest /\ Goto(c, "refused") /\ UNCHANGED <<proc, claude>>
  BY <1>1, <1>2, <1>3, SpawnFails
<1>4. CASE /\ pool' = [rest EXCEPT ![SessionOf(c)] = c]
           /\ proc' = [proc EXCEPT ![c].leases = Lease(c)]
           /\ claude' = [claude EXCEPT ![c].os = "up"]
           /\ call' = [call EXCEPT ![c].pc = "init", ![c].p = c]
  BY <1>1, <1>2, <1>4, SpawnedTo, SpawnBound, SpawnStarts
<1> QED
  BY <1>2, <1>3, <1>4 DEF SpawnEffect, Spawned

(***************************************************************************)
(* The invariant, and what follows from it.                                *)
(***************************************************************************)
LEMMA InitIInv == Init => IInv
<1> SUFFICES ASSUME Init PROVE IInv
  OBVIOUS
<1>1. DOMAIN <<>> = {}
  OBVIOUS
<1>2. \A p \in Procs : /\ claude[p].os = "none" /\ claude[p].inbox = <<>>
                       /\ claude[p].run = <<>> /\ claude[p].out = <<>> /\ claude[p].threw = {}
                       /\ proc[p].init = "wait" /\ proc[p].turns = <<>> /\ proc[p].gone = "no"
  BY DEF Init
<1>3. \A c \in Calls : call[c].pc = "new" /\ call[c].p = NoProc /\ ~call[c].told
  BY DEF Init
<1>4. Live = {} /\ \A s \in Sessions : pool[s] = NoProc
  BY DEF Init, Live
<1>5. Typed
  <2>1. proc \in [Procs -> ProcState] /\ claude \in [Procs -> ClaudeState]
    BY DEF Init, ProcState, ClaudeState
  <2>2. call \in [Calls -> CallState]
    BY DEF Init, CallState
  <2>3. upsets \in 0 .. MaxUpsets
    BY ClaudePoolAssumption DEF Init
  <2> QED
    BY <2>1, <2>2, <2>3 DEF Init, Typed
<1>6. Bounded
  BY <1>4, FS_EmptySet, ClaudePoolAssumption DEF Bounded
<1>7. Ties
  <2>1. Mapped /\ Blank
    BY <1>2, <1>3, <1>4, ClaudePoolAssumption DEF Mapped, Blank, OnTheWay, Procs
  <2>2. OneSend /\ Leased /\ HeldInPlace
    BY <1>3 DEF OneSend, Leased, HeldInPlace, Holds, OnTheWay, Sends
  <2> QED
    BY <2>1, <2>2 DEF Ties
<1>8. ASSUME NEW p \in Procs PROVE Flow(p)
  <2>1. Piped(claude[p]) /\ Ordered(claude[p], proc[p].turns)
    BY <1>1, <1>2 DEF Piped, Unique, IsIn, InLine, Ordered, Ranked, Queued
  <2>2. Origin(p) /\ Written(p)
    BY <1>1, <1>2 DEF Origin, Taken, InLine, IsIn, Written
  <2> QED
    BY <1>2, <2>1, <2>2 DEF Flow
<1>9. Takeable /\ Owed
  BY <1>3 DEF Takeable, Owed, Sends
<1> QED
  BY <1>5, <1>6, <1>7, <1>8, <1>9 DEF IInv, Flows

LEMMA IInvStep == IInv /\ [Next]_vars => IInv'
<1> SUFFICES ASSUME IInv, [Next]_vars PROVE IInv'
  OBVIOUS
<1>1. CASE UNCHANGED vars
  <2>1. /\ UNCHANGED <<pool, proc, claude, call, stops, started, killed, upsets, job, panicked>>
        /\ Typed
    BY <1>1 DEF vars, procVars, history, IInv
  <2>2. Typed'
    BY <2>1 DEF Typed
  <2> QED
    BY <2>1, <2>2, StillInv
<1>2. ASSUME NEW c \in Calls,
             \/ Enter(c) \/ Initialized(c) \/ InitFails(c) \/ WaitCancelled(c) \/ CallStep(c)
      PROVE  IInv'
  <2>1. CASE Enter(c)
    BY <2>1, JoinInv, SoloInv, SpawnInv DEF Enter
  <2>2. CASE CallStep(c)
    BY <2>2, CleanInv, SoloInv, QueueInv, WriteInv, UndoInv, ReleaseInv DEF CallStep
  <2> QED
    BY <1>2, <2>1, <2>2, InitInv, SoloInv
<1>3. ASSUME ClaudeNext PROVE IInv'
  BY <1>3, ClaudeInv, TaskInv DEF ClaudeNext
<1>4. ASSUME NEW p \in Procs, Read(p) \/ Grace(p) \/ StopMark(p) \/ Died(p) \/ TellExited(p)
      PROVE  IInv'
  <2>1. CASE Grace(p)
    BY <2>1, GraceTyped, InterruptInv DEF IInv
  <2> QED
    BY <1>4, <2>1, ReadInv, TaskInv, DiedInv, ToldInv
<1>5. ASSUME NEW s \in Sessions, Interrupt(s) \/ Reap(s) \/ Kill(s) PROVE IInv'
  <2>1. CASE Interrupt(s)
    <3>1. UNCHANGED <<pool, started, killed, job>>
      BY <2>1 DEF Interrupt
    <3> QED
      BY <2>1, <3>1, InterruptTyped, InterruptInv DEF IInv
  <2> QED
    BY <1>5, <2>1, TakeOutInv
<1>6. ASSUME Shutdown PROVE IInv'
  BY <1>6, TakeOutInv
<1> QED
  BY <1>1, <1>2, <1>3, <1>4, <1>5, <1>6 DEF Next

\* The command at the head of Claude's line is preceded, among the turns, by those
\* that are over only, and with stdout read these have thrown.
LEMMA HeadFirst ==
  ASSUME Typed, Flows
  PROVE  HeadRuns
<1> SUFFICES ASSUME NEW p \in Procs, claude[p].out = <<>>, claude[p].run # <<>>,
                    IndexOf(proc[p].turns, Head(claude[p].run)) # 0,
                    NEW j \in 1 .. IndexOf(proc[p].turns, Head(claude[p].run)) - 1
             PROVE  proc[p].turns[j].cmd \in claude[p].threw
  BY DEF HeadRuns
<1> DEFINE k == claude[p]
           turns == proc[p].turns
           x == Head(k.run)
           i == IndexOf(turns, x)
<1>1. /\ turns \in Seq(Turn) /\ k.run \in Seq(Commands) /\ k.out = <<>>
      /\ Piped(k) /\ Ordered(k, turns)
  BY DEF Typed, ProcState, ClaudeState, Flows, Flow
<1>2. 1 \in DOMAIN k.run /\ k.run[1] = x /\ IsIn(x, k.run)
  BY <1>1 DEF IsIn
<1> HIDE DEF k, turns, x
<1>3. i \in DOMAIN turns /\ turns[i].cmd = x
  BY <1>1, IndexOfFacts DEF k, turns, x
<1> HIDE DEF i
<1>4. j \in DOMAIN turns /\ j < i
  <2>1. j \in 1 .. i - 1
    BY DEF k, turns, x, i
  <2> QED
    BY <1>1, <1>3, <2>1
<1>5. Ahead(k, turns[j].cmd, x)
  BY <1>1, <1>2, <1>3, <1>4 DEF Ordered, Queued, InLine
<1>6. ~Before(k.run, turns[j].cmd, x)
  <2> SUFFICES ASSUME NEW m \in DOMAIN k.run, NEW n \in DOMAIN k.run, m < n, k.run[n] = x
               PROVE  FALSE
    BY DEF Before
  <2>1. n = 1
    BY <1>1, <1>2 DEF Piped, Unique
  <2> QED
    BY <1>1, <2>1
<1>7. ~IsIn(x, k.inbox)
  <2>1. x \in Commands
    BY <1>1, <1>2
  <2> QED
    BY <1>1, <1>2, <2>1 DEF Piped
<1>8. Over(k, turns[j].cmd)
  BY <1>5, <1>6, <1>7 DEF Ahead, Before, IsIn
<1>9. DOMAIN k.out = {}
  BY <1>1
<1> QED
  BY <1>8, <1>9 DEF Over, k, turns

LEMMA IInvImplies == IInv => InPlace
BY TypeOKTyped, HeadFirst DEF IInv, Bounded, Ties, InPlace

(* The variables keep their types and the map its bound, whatever the       *)
(* number of sessions, of calls and of processes (ensureProcess, pkg/claude/ *)
(* manager.go:305-328); a process that a send relies on stays in the map    *)
(* until the send's turn is told, unless it was killed, failed to start or  *)
(* exited; and when the frames are read, the turns ahead of the command     *)
(* that Claude runs have thrown: its output is told to the turn it is of    *)
(* (manager.go:76, 1095).                                                   *)
THEOREM PoolInPlace == Spec => []InPlace
<1>1. Init => IInv
  BY InitIInv
<1>2. IInv /\ [Next]_vars => IInv'
  BY IInvStep
<1>3. IInv => InPlace
  BY IInvImplies
<1> QED
  BY <1>1, <1>2, <1>3, PTL DEF Spec

=============================================================================
