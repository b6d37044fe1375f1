---------------------------- MODULE SerialTurns -----------------------------
(***************************************************************************)
(* What the router promises about the sends of one session, whatever       *)
(* threads carry them out: they run one at a time, in the order they were  *)
(* accepted, each at most once, and a waiting one may be dropped.          *)
(*                                                                         *)
(* This is the abstract specification SendQueue implements: "Serializing   *)
(* usher-injected turns per session" (pkg/router/router.go, enqueueSend).  *)
(***************************************************************************)
EXTENDS SequencesExt

CONSTANTS
  Sends,   \* the sends clients make to the session
  NoSend   \* no turn is running

VARIABLES
  running,   \* the send whose turn holds the session, or NoSend
  waiting,   \* the sends accepted behind it, oldest first
  served     \* the sends that have held the session

vars == <<running, waiting, served>>

Waiting == {waiting[i] : i \in DOMAIN waiting}

\* A send never accepted before joins the line.
Accept(s) ==
  /\ s \notin served \union Waiting
  /\ waiting' = Append(waiting, s)
  /\ UNCHANGED <<running, served>>

\* With the session idle and nobody waiting it starts at once.
StartNow(s) ==
  /\ running = NoSend /\ waiting = <<>>
  /\ s \notin served
  /\ running' = s /\ served' = served \union {s}
  /\ UNCHANGED waiting

\* The turn lets go of the session.
Finish ==
  /\ running # NoSend
  /\ running' = NoSend
  /\ UNCHANGED <<waiting, served>>

\* The oldest waiting send takes the session, in the same step in which the
\* turn before it lets go, or later.
StartNext ==
  /\ waiting # <<>>
  /\ Head(waiting) \notin served
  /\ running' = Head(waiting) /\ waiting' = Tail(waiting)
  /\ served' = served \union {Head(waiting)}

\* Waiting sends are withdrawn, one or all; the others keep their order.
Drop(i) ==
  /\ waiting' = RemoveAt(waiting, i)
  /\ UNCHANGED <<running, served>>

DropAll ==
  /\ waiting' = <<>>
  /\ UNCHANGED <<running, served>>

Init == running = NoSend /\ waiting = <<>> /\ served = {}

Next ==
  \/ \E s \in Sends : Accept(s) \/ StartNow(s)
  \/ \E i \in DOMAIN waiting : Drop(i)
  \/ Finish \/ StartNext \/ DropAll

Spec == Init /\ [][Next]_vars
=============================================================================
