---------------------------- MODULE PluginStream ----------------------------
(***************************************************************************)
(* The plugin socket and the stream of turns a plugin follows over it      *)
(* (pkg/pluginapi/server.go, pkg/pluginapi/client.go, pkg/api/events.go).  *)
(*                                                                         *)
(* Processes of usher come and go on one socket path.  Each takes the path *)
(* when nobody answers there, and removes it when it stops.  The plugin's  *)
(* client dials the path again whenever its stream ends.  What happened in *)
(* the gap it is not told: a new stream opens with the turns that run.     *)
(* (What a stream says of pending interactions is in Interaction.)         *)
(***************************************************************************)
EXTENDS Naturals, Sequences

CONSTANTS
    Ushers,     \* processes of usher, positive numbers, each started once
    Sessions,   \* sessions whose turns are followed
    MaxBegun,   \* bound: turns begun
    MaxDrops    \* bound: streams dropped with usher alive

VARIABLES
    file,       \* whose socket the path names, 0: there is none
    st,         \* st[u]: where process u is in Server.Run
    raced,      \* processes that were not alone as they took the path
    turn,       \* turn[u]: the sessions that run in u
    begun,      \* turns begun
    conn,       \* the client's connection: [usher, steps taken by handleEvents]
    events,     \* what the stream's broker subscription holds
    believed,   \* sessions the plugin takes for running
    missed,     \* sessions whose turn ended with no stream subscribed
    drops

socket == <<file, st, raced>>
router == <<turn, begun>>
stream == <<conn, events>>
plugin == <<believed, missed>>
pvars  == <<socket, router, stream, plugin, drops>>

Apart == [usher |-> 0, steps |-> 0]

Init ==
    /\ file = 0
    /\ st = [u \in Ushers |-> "new"]
    /\ raced = {}
    /\ turn = [u \in Ushers |-> {}]
    /\ begun = 0
    /\ conn = Apart
    /\ events = <<>>
    /\ believed = {} /\ missed = {}
    /\ drops = 0

About(u) == st[u] \in {"checked", "serving", "stopping"}

-----------------------------------------------------------------------------
(* ListenUnixSocket and Run. *)

\* DialTimeout: somebody accepts at the path.
Answers == file # 0 /\ st[file] = "serving"

\* Mutant: whatever is at the path is taken for a leftover.
NobodyAnswers == FALSE

InUse == Answers

Check(u) ==
    /\ st[u] = "new"
    /\ st' = [st EXCEPT ![u] = IF InUse THEN "refused" ELSE "checked"]
    /\ UNCHANGED <<file, raced, router, stream, plugin, drops>>

(* The socket, bound in a private directory, is moved over what is there. *)
Bind(u) ==
    /\ st[u] = "checked"
    /\ st' = [st EXCEPT ![u] = "serving"]
    /\ file' = u
    /\ raced' = IF \E v \in Ushers \ {u} : About(v) THEN raced \cup {u} ELSE raced
    /\ UNCHANGED <<router, stream, plugin, drops>>

(* srv.Shutdown closes the listener, and waits for the streams that are open. *)
Stop(u) ==
    /\ st[u] = "serving"
    /\ st' = [st EXCEPT ![u] = "stopping"]
    /\ UNCHANGED <<file, raced, router, stream, plugin, drops>>

-----------------------------------------------------------------------------
(* The stream: subscribe and streamOnce of the client, handleEvents. *)

\* The two steps a stream opens with.
ThenList == <<"subscribe", "list">>

\* Mutant: the running turns are listed before the stream is subscribed.
ListFirst == <<"list", "subscribe">>

Opening == ThenList

HasSubscribed(u) == conn.usher = u /\ \E i \in 1..conn.steps : Opening[i] = "subscribe"

Open == conn.usher # 0 /\ conn.steps = Len(Opening)

\* The end of the client's connection: what it held unread is lost.
Ended(evs) == {evs[i].session : i \in {j \in DOMAIN evs : evs[j].type = "ended"}}

Disconnected ==
    /\ conn' = Apart
    /\ events' = <<>>

(* The client dials again, after its backoff. *)
Connect ==
    /\ conn = Apart
    /\ Answers
    /\ conn' = [usher |-> file, steps |-> 0]
    /\ UNCHANGED <<socket, router, events, plugin, drops>>

OpenStream ==
    /\ conn.usher # 0 /\ conn.steps < Len(Opening)
    /\ conn' = [conn EXCEPT !.steps = @ + 1]
    /\ IF Opening[conn'.steps] = "list"
       THEN /\ believed' = believed \cup turn[conn.usher]
            /\ missed' = missed \ turn[conn.usher]
       ELSE UNCHANGED plugin
    /\ UNCHANGED <<socket, router, events, drops>>

(* stream writes an event, and the client reads it. *)
Forward ==
    /\ Open /\ events # <<>>
    /\ LET ev == Head(events)
       IN  /\ believed' = IF ev.type = "started" THEN believed \cup {ev.session}
                          ELSE believed \ {ev.session}
           /\ missed' = missed \ {ev.session}
    /\ events' = Tail(events)
    /\ UNCHANGED <<socket, router, conn, drops>>

(* The connection breaks, both ends alive. *)
Drop ==
    /\ conn.usher # 0
    /\ drops < MaxDrops /\ drops' = drops + 1
    /\ Disconnected
    /\ missed' = missed \cup Ended(events)
    /\ UNCHANGED <<socket, router, believed>>

\* A process is gone, and its turns and streams with it.
Goes(u) ==
    /\ st' = [st EXCEPT ![u] = "gone"]
    /\ turn' = [turn EXCEPT ![u] = {}]
    /\ missed' = missed \cup turn[u] \cup (IF conn.usher = u THEN Ended(events) ELSE {})
    /\ IF conn.usher = u THEN Disconnected ELSE UNCHANGED stream

(* The end of Run: the path is removed, whoever's it is, and usher exits. *)
Unlink(u) ==
    /\ st[u] = "stopping"
    /\ Goes(u)
    /\ file' = 0
    /\ UNCHANGED <<raced, begun, believed, drops>>

(* usher dies: its socket is left over. *)
Crash(u) ==
    /\ About(u)
    /\ Goes(u)
    /\ UNCHANGED <<file, raced, begun, believed, drops>>

-----------------------------------------------------------------------------
(* A turn begins, a turn ends; Publish tells the subscription of it. *)
Publish(u, type, s) ==
    events' = IF HasSubscribed(u) THEN Append(events, [type |-> type, session |-> s]) ELSE events

Begin(u, s) ==
    /\ About(u) /\ s \notin turn[u]
    /\ begun < MaxBegun /\ begun' = begun + 1
    /\ turn' = [turn EXCEPT ![u] = @ \cup {s}]
    /\ Publish(u, "started", s)
    /\ UNCHANGED <<socket, conn, plugin, drops>>

End(u, s) ==
    /\ s \in turn[u]
    /\ turn' = [turn EXCEPT ![u] = @ \ {s}]
    /\ Publish(u, "ended", s)
    /\ missed' = IF HasSubscribed(u) THEN missed ELSE missed \cup {s}
    /\ UNCHANGED <<socket, begun, conn, believed, drops>>

Next ==
    \/ \E u \in Ushers : Check(u) \/ Bind(u) \/ Stop(u) \/ Unlink(u) \/ Crash(u)
    \/ \E u \in Ushers, s \in Sessions : Begin(u, s) \/ End(u, s)
    \/ Connect
    \/ OpenStream
    \/ Forward
    \/ Drop

PluginSpec == Init /\ [][Next]_pvars

-----------------------------------------------------------------------------

\* A process that was alone when it took the path keeps it for as long as it
\* serves; and a plugin whose stream has gone quiet takes for running every
\* session its usher runs, and none that no usher does, but for those whose
\* turn ended while it had no stream.
\* (pkg/pluginapi/server.go:182 ListenUnixSocket, :67 shutdown;
\* pkg/api/events.go:149 handleEvents; pkg/pluginapi/client.go:374 subscribe)
KeepsUp ==
    /\ \A u \in Ushers : st[u] = "serving" /\ u \notin raced => file = u
    /\ Open /\ events = <<>> =>
         /\ turn[conn.usher] \subseteq believed
         /\ believed \ UNION {turn[u] : u \in Ushers} \subseteq missed
=============================================================================
