------------------------------- MODULE Broker ---------------------------------
(***************************************************************************)
(* The in-process broker (pkg/broker/broker.go): subscribers with a bounded*)
(* channel, publishers that never wait for them, and the lock that keeps a *)
(* channel from being closed while somebody sends to it.                   *)
(*                                                                         *)
(* A publisher holds the lock for reading while it visits the subscribers  *)
(* one by one; a subscriber is registered or removed while no publisher    *)
(* holds it.  One session's subscribers and those of every session differ  *)
(* only in the map they sit in and the size of their channel.              *)
(***************************************************************************)
EXTENDS Naturals, Sequences, Functions

CONSTANTS
  Pubs,     \* publishers
  Subs,     \* subscribers
  Cap,      \* a channel's slots, besides the seeds' (64; 256 in SubscribeAll)
  MaxSeed,  \* bound: seed events of a subscription
  MaxSent   \* bound: events published

\* A channel has room for some events, and a seed is nobody's.
BrokerConstants == Cap \in Nat /\ MaxSeed \in Nat /\ "seed" \notin Pubs

VARIABLES
  subs,     \* the registered subscribers
  ch,       \* each channel's contents
  room,     \* each channel's capacity
  closed,   \* the channels that were closed
  stage,    \* each subscriber: "new", "seeded", "in", "removed" or "gone"
  pub,      \* each publisher: its last event and whom it has still to visit
  sending,  \* the publishers that hold the lock for reading
  got       \* history: what each subscriber read

vars == <<subs, ch, room, closed, stage, pub, sending, got>>

Event == [from : Pubs \union {"seed"}, n : Nat]

TypeOK ==
  /\ subs \subseteq Subs /\ closed \subseteq Subs /\ sending \subseteq Pubs
  /\ ch \in [Subs -> Seq(Event)] /\ got \in [Subs -> Seq(Event)]
  /\ room \in [Subs -> Nat]
  /\ \A s \in Subs : Len(ch[s]) <= room[s]
  /\ stage \in [Subs -> {"new", "seeded", "in", "removed", "gone"}]
  /\ pub \in [Pubs -> [n : Nat, todo : SUBSET Subs]]

Init ==
  /\ subs = {} /\ closed = {} /\ sending = {}
  /\ ch = [s \in Subs |-> <<>>] /\ got = [s \in Subs |-> <<>>]
  /\ room = [s \in Subs |-> 0]
  /\ stage = [s \in Subs |-> "new"]
  /\ pub = [p \in Pubs |-> [n |-> 0, todo |-> {}]]

Enter(s, next) == stage' = [stage EXCEPT ![s] = next]

-----------------------------------------------------------------------------
(* Subscribe and its cancel function.                                      *)

\* The channel is made and seeded before anyone can see it.
Seed(s) ==
  /\ stage[s] = "new" /\ Enter(s, "seeded")
  /\ \E k \in 0 .. MaxSeed :
       /\ ch' = [ch EXCEPT ![s] = [i \in 1 .. k |-> [from |-> "seed", n |-> i]]]
       /\ room' = [room EXCEPT ![s] = Cap + k]
  /\ UNCHANGED <<subs, closed, pub, sending, got>>

Register(s) ==
  /\ stage[s] = "seeded" /\ sending = {} /\ Enter(s, "in")
  /\ subs' = subs \union {s}
  /\ UNCHANGED <<ch, room, closed, pub, sending, got>>

\* Mutant: the lock is not taken to remove a subscriber.
RemoveUnlocked(s) ==
  /\ stage[s] = "in" /\ Enter(s, "removed")
  /\ subs' = subs \ {s}
  /\ UNCHANGED <<ch, room, closed, pub, sending, got>>

\* cancel takes the lock to remove the subscriber, then closes its channel.
Remove(s) ==
  /\ stage[s] = "in" /\ sending = {} /\ Enter(s, "removed")
  /\ subs' = subs \ {s}
  /\ UNCHANGED <<ch, room, closed, pub, sending, got>>

Close(s) ==
  /\ stage[s] = "removed" /\ Enter(s, "gone")
  /\ closed' = closed \union {s}
  /\ UNCHANGED <<subs, ch, room, pub, sending, got>>

\* The subscriber reads an event, also what a closed channel still holds.
Receive(s) ==
  /\ ch[s] # <<>>
  /\ got' = [got EXCEPT ![s] = Append(@, Head(ch[s]))]
  /\ ch' = [ch EXCEPT ![s] = Tail(@)]
  /\ UNCHANGED <<subs, room, closed, stage, pub, sending>>

-----------------------------------------------------------------------------
(* Publish.                                                                *)

\* Bound: fewer than MaxSent events were published.
MayPublish == FoldFunction(LAMBDA q, n : q.n + n, 0, pub) < MaxSent

\* The lock is taken for reading: nobody comes or goes until it is released.
Publish(p) ==
  /\ p \notin sending /\ MayPublish
  /\ pub' = [pub EXCEPT ![p] = [n |-> @.n + 1, todo |-> subs]]
  /\ sending' = sending \union {p}
  /\ UNCHANGED <<subs, ch, room, closed, stage, got>>

\* Mutant: a full channel is waited for.
DeliverWaits(p, s) ==
  /\ p \in sending /\ s \in pub[p].todo /\ Len(ch[s]) < room[s]
  /\ pub' = [pub EXCEPT ![p].todo = @ \ {s}]
  /\ ch' = [ch EXCEPT ![s] = Append(@, [from |-> p, n |-> pub[p].n])]
  /\ UNCHANGED <<subs, room, closed, stage, sending, got>>

\* Mutant: a full channel is sent to.
DeliverFull(p, s) ==
  /\ p \in sending /\ s \in pub[p].todo
  /\ pub' = [pub EXCEPT ![p].todo = @ \ {s}]
  /\ ch' = [ch EXCEPT ![s] = Append(@, [from |-> p, n |-> pub[p].n])]
  /\ UNCHANGED <<subs, room, closed, stage, sending, got>>

\* Mutant: a subscriber already visited may be visited again.
DeliverTwice(p, s) ==
  /\ p \in sending /\ s \in pub[p].todo
  /\ \E todo \in {pub[p].todo, pub[p].todo \ {s}} : pub' = [pub EXCEPT ![p].todo = todo]
  /\ ch' = IF Len(ch[s]) < room[s]
             THEN [ch EXCEPT ![s] = Append(@, [from |-> p, n |-> pub[p].n])]
             ELSE ch
  /\ UNCHANGED <<subs, room, closed, stage, sending, got>>

\* One subscriber is sent the event, or, its channel full, loses it.
Deliver(p, s) ==
  /\ p \in sending /\ s \in pub[p].todo
  /\ pub' = [pub EXCEPT ![p].todo = @ \ {s}]
  /\ ch' = IF Len(ch[s]) < room[s]
             THEN [ch EXCEPT ![s] = Append(@, [from |-> p, n |-> pub[p].n])]
             ELSE ch
  /\ UNCHANGED <<subs, room, closed, stage, sending, got>>

Published(p) ==
  /\ p \in sending /\ pub[p].todo = {}
  /\ sending' = sending \ {p}
  /\ UNCHANGED <<subs, ch, room, closed, stage, pub, got>>

Publisher(p) == Published(p) \/ \E s \in Subs : Deliver(p, s)

Next ==
  \/ \E s \in Subs : Seed(s) \/ Register(s) \/ Remove(s) \/ Close(s) \/ Receive(s)
  \/ \E p \in Pubs : Publish(p) \/ Publisher(p)

\* A publisher under way runs on.  No subscriber is obliged to read.
Spec == Init /\ [][Next]_vars /\ \A p \in Pubs : WF_vars(Publisher(p))

-----------------------------------------------------------------------------
(* Properties.                                                             *)

\* A channel somebody may still send to is not closed (Publish's comment): a
\* send to a closed channel panics.
NoSendOnClosed == \A p \in Pubs : p \in sending => pub[p].todo \intersect closed = {}

\* What a subscriber was given, read or not, is in the order it was published
\* by each publisher, each event once, and its seeds come first and complete.
Given(s) == got[s] \o ch[s]

InOrder ==
  \A s \in Subs : \A i, j \in DOMAIN Given(s) :
    i < j =>
      /\ Given(s)[i].from = Given(s)[j].from => Given(s)[i].n < Given(s)[j].n
      /\ Given(s)[j].from = "seed" => Given(s)[i].from = "seed"

\* A publisher gets through whatever its subscribers do, also when none reads.
NeverStalls == \A p \in Pubs : p \in sending ~> p \notin sending

\* No send on a closed channel, and a subscriber's events in order, each once
\* (pkg/broker/broker.go:63,103-113).
Delivers == TypeOK /\ NoSendOnClosed /\ InOrder
=============================================================================
