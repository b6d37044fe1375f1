-------------------------------- MODULE Push --------------------------------
(***************************************************************************)
(* Web push (pkg/push): the subscriptions usher keeps and the notices it   *)
(* sends them when a turn ends or an interaction waits.                    *)
(*                                                                         *)
(* Run hears the broker and the interactions over two channels and fans    *)
(* each out, a goroutine for every subscription; a session that somebody   *)
(* follows on the broker gets none: a browser, or the collector of a turn  *)
(* the router session relayed.  A subscription the push service calls gone *)
(* is pruned.  A subscription is its endpoint, an event is [no, session].     *)
(***************************************************************************)
EXTENDS Naturals, SequencesExt

CONSTANTS
    Endpoints,  \* browsers' push endpoints
    Sessions,
    MaxEvents,  \* bound: turn ends and interactions
    MaxFails,   \* bound: saves and sends that fail
    MaxActs     \* bound: subscriptions, watches, relayed turns, restarts

VARIABLES
    live,       \* external: the endpoints the push service knows
    wanted,     \* endpoints whose browser has subscribed and not unsubscribed
    watched,    \* sessions with a browser's stream open
    collectors, \* sessions in a relayed turn, whose collector is subscribed
    subs,       \* store.subs
    disk,       \* push-subscriptions.json
    unsaved,    \* endpoints whose last change is not on disk
    lost,       \* those of them as usher restarted
    ended,      \* the channel of the broker: turns ended
    pending,    \* the channel of interactions
    sends,      \* the goroutines of fanout: [to, no]
    got,        \* notices delivered, in order: [to, no]
    owed,       \* [to, no] with a subscription that was there all along
    hushed,     \* the events that no browser but a collector silenced
    events, fails, acts

store  == <<subs, disk, unsaved, lost>>
queues == <<ended, pending>>
notes  == <<sends, got, owed, hushed>>
wvars  == <<live, wanted, watched, collectors, store, queues, notes, events, fails, acts>>

Init ==
    /\ live = Endpoints
    /\ wanted = {} /\ watched = {} /\ collectors = {}
    /\ subs = {} /\ disk = {} /\ unsaved = {} /\ lost = {}
    /\ ended = <<>> /\ pending = <<>>
    /\ sends = {} /\ got = <<>> /\ owed = {} /\ hushed = {}
    /\ events = 0 /\ fails = 0 /\ acts = 0

Act == acts < MaxActs /\ acts' = acts + 1

-----------------------------------------------------------------------------
(* The store. *)

\* persist writes the whole set and renames it, or fails and only says so.
Persist(s, e) ==
    \/ /\ disk' = s
       /\ unsaved' = {}
       /\ UNCHANGED fails
    \/ /\ fails < MaxFails /\ fails' = fails + 1
       /\ unsaved' = unsaved \cup {e}
       /\ UNCHANGED disk

\* Nothing is saved when nothing changes.
Stores(s, e) ==
    /\ subs' = s
    /\ IF s = subs THEN UNCHANGED <<disk, unsaved, lost, fails>>
       ELSE Persist(s, e) /\ lost' = lost \ {e}

(* A browser subscribes, or its page does again as it loads. *)
Subscribe(e) ==
    /\ Act
    /\ wanted' = wanted \cup {e}
    /\ Stores(subs \cup {e}, e)
    /\ UNCHANGED <<live, watched, collectors, queues, notes, events>>

Unsubscribe(e) ==
    /\ e \in wanted
    /\ Act
    /\ wanted' = wanted \ {e}
    /\ Stores(subs \ {e}, e)
    /\ owed' = {o \in owed : o.to # e}
    /\ UNCHANGED <<live, watched, collectors, queues, sends, got, hushed, events>>

-----------------------------------------------------------------------------
(* Run. *)

Happens(s) ==
    /\ events < MaxEvents /\ events' = events + 1
    /\ owed' = owed \cup {[to |-> e, no |-> events'] : e \in subs}

Publish(s) ==
    /\ Happens(s)
    /\ ended' = Append(ended, [no |-> events', session |-> s])
    /\ UNCHANGED <<live, wanted, watched, collectors, store, pending, sends, got,
                   hushed, fails, acts>>

Submit(s) ==
    /\ Happens(s)
    /\ pending' = Append(pending, [no |-> events', session |-> s])
    /\ UNCHANGED <<live, wanted, watched, collectors, store, ended, sends, got,
                   hushed, fails, acts>>

\* Every subscriber of the session counts, not another session's.
HasViewers(s) == s \in watched \cup collectors

\* Mutant: a browser that watches any session silences them all.
HasAnyViewer(s) == watched # {}

Suppressed(s) == HasViewers(s)

\* fanout: to every subscription there is.
Fanout(ev) ==
    /\ sends' = IF Suppressed(ev.session) THEN sends
                ELSE sends \cup {[to |-> e, no |-> ev.no] : e \in subs}
    /\ owed' = IF ev.session \in watched THEN {o \in owed : o.no # ev.no} ELSE owed
    /\ hushed' = IF ev.session \in collectors \ watched THEN hushed \cup {ev.no} ELSE hushed

NotifyTurnDone ==
    /\ ended # <<>>
    /\ ended' = Tail(ended)
    /\ Fanout(Head(ended))
    /\ UNCHANGED <<live, wanted, watched, collectors, store, pending, got, events, fails, acts>>

NotifyPermission ==
    /\ pending # <<>>
    /\ pending' = Tail(pending)
    /\ Fanout(Head(pending))
    /\ UNCHANGED <<live, wanted, watched, collectors, store, ended, got, events, fails, acts>>

(* A goroutine of fanout: delivered, or gone and pruned, or lost. *)
Send(n) ==
    /\ n.to \in live
    /\ sends' = sends \ {n}
    /\ got' = Append(got, n)
    /\ owed' = owed \ {n}
    /\ UNCHANGED <<live, wanted, watched, collectors, store, queues, hushed, events, fails, acts>>

Prune(n) ==
    /\ n.to \notin live
    /\ sends' = sends \ {n}
    /\ Stores(subs \ {n.to}, n.to)
    /\ owed' = {o \in owed : o.to # n.to}
    /\ UNCHANGED <<live, wanted, watched, collectors, queues, got, hushed, events, acts>>

\* What a send that failed on its way does to the subscription.
Logged(n) == UNCHANGED store

\* Mutant: any failure prunes the subscription.
Pruned(n) == subs' = subs \ {n.to} /\ disk' = subs' /\ UNCHANGED <<unsaved, lost>>

AfterError(n) == Logged(n)

SendFails(n) ==
    /\ fails < MaxFails /\ fails' = fails + 1
    /\ sends' = sends \ {n}
    /\ AfterError(n)
    /\ owed' = owed \ {n}
    /\ UNCHANGED <<live, wanted, watched, collectors, queues, got, hushed, events, acts>>

-----------------------------------------------------------------------------
(* The push service drops an endpoint; a browser opens or closes a session. *)
Expire(e) ==
    /\ e \in live /\ Act
    /\ live' = live \ {e}
    /\ owed' = {o \in owed : o.to # e}
    /\ UNCHANGED <<wanted, watched, collectors, store, queues, sends, got, hushed, events, fails>>

Watch(s) ==
    /\ Act
    /\ watched' = IF s \in watched THEN watched \ {s} ELSE watched \cup {s}
    /\ UNCHANGED <<live, wanted, collectors, store, queues, notes, events, fails>>

(* A relayed turn begins, and its collector has heard the end of it. *)
Collect(s) ==
    /\ Act
    /\ s \notin collectors /\ collectors' = collectors \cup {s}
    /\ UNCHANGED <<live, wanted, watched, store, queues, notes, events, fails>>

Collected(s) ==
    /\ s \in collectors /\ collectors' = collectors \ {s}
    /\ UNCHANGED <<live, wanted, watched, store, queues, notes, events, fails, acts>>

(* usher restarts: newStore reads the disk, and what was under way is lost. *)
Restart ==
    /\ Act
    /\ subs' = disk
    /\ ended' = <<>> /\ pending' = <<>> /\ sends' = {} /\ owed' = {}
    /\ watched' = {} /\ collectors' = {}
    /\ lost' = lost \cup unsaved /\ unsaved' = {}
    /\ UNCHANGED <<live, wanted, disk, got, hushed, events, fails>>

Next ==
    \/ \E e \in Endpoints : Subscribe(e) \/ Unsubscribe(e) \/ Expire(e)
    \/ \E s \in Sessions : Publish(s) \/ Submit(s) \/ Watch(s) \/ Collect(s) \/ Collected(s)
    \/ NotifyTurnDone
    \/ NotifyPermission
    \/ \E n \in sends : Send(n) \/ Prune(n) \/ SendFails(n)
    \/ Restart

PushSpec == Init /\ [][Next]_wvars

-----------------------------------------------------------------------------

Queued(no) == \E ev \in Range(ended) \cup Range(pending) : ev.no = no

\* A notice owed is on its way: its event is queued, or its goroutine is there.
OwedWaits == \A o \in owed : Queued(o.no) \/ o \in sends

\* A subscription that is there from a turn's end or an interaction until it is
\* dealt with is sent its notice, once, unless the session is viewed as it is
\* dealt with, by a browser or by the collector of a relayed turn, which the code
\* takes for one, or the send fails; and usher keeps the subscriptions that
\* browsers want and the push service knows, no others that it knows, but for a
\* change it could not save.
\* (pkg/push/push.go:148 Run, :126 suppressed, :255 fanout;
\* pkg/push/store.go:79 add; pkg/broker/broker.go:96 HasViewers)
Notified ==
    /\ \A o \in owed : Queued(o.no) \/ o \in sends \/ o.no \in hushed
    /\ IsInjective(got)
    /\ \A e \in live \ lost : e \in subs <=> e \in wanted
=============================================================================
