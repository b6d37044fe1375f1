------------------------------ MODULE LiveView --------------------------------
(***************************************************************************)
(* A browser tab open on a session while its turns run: the events runSend *)
(* publishes and the preview the router folds them into (router.go), the   *)
(* subscription and the snapshot handleSessionEvents sends on every connect*)
(* (api/events.go), and what the tab makes of them (web/static/detail.js). *)
(*                                                                         *)
(* One session and one tab.  The broker delivers in order and drops what   *)
(* does not fit (Broker); every turn's stream ends (TurnLoop).  A text is  *)
(* the sequence of its deltas; a queue is known by its version.            *)
(* Left out of the snapshot: a session whose worker runs a turn usher did  *)
(* not send, which applyLiveStatus also shows running, and one that is     *)
(* still being created.                                                    *)
(***************************************************************************)
EXTENDS Naturals, Sequences

CONSTANTS
  Cap,        \* slots of the subscription, besides the seed's
  MaxTurns,   \* bound: turns
  MaxDeltas,  \* bound: deltas
  MaxParts,   \* bound: parts
  MaxQueue,   \* bound: changes of the queue
  MaxDrops    \* bound: broken connections

ASSUME LiveViewAssumption ==
  /\ Cap \in Nat \ {0}
  /\ {MaxTurns, MaxDeltas, MaxParts, MaxQueue, MaxDrops} \subseteq Nat

VARIABLES
  turn,      \* the running turn's stage
  busy,      \* is a token registered in activeSend?
  failing,   \* failSend: what it has still to publish
  preview,   \* previews[id]: the text not yet in a part, and closed
  queued,    \* the version of the session's queue
  conn,      \* handleSessionEvents: its step
  ch,        \* the subscription's channel
  view,      \* the tab: liveTurn, its text, acceptDeltas, detailStreaming, the queue
  count,     \* turns, deltas, parts and broken connections so far
  note       \* history: see Clean

server == <<turn, busy, failing, preview, queued>>
client == <<conn, ch, view>>
vars == <<server, client, count, note>>

Texts == Seq(1 .. MaxDeltas)

NoPreview == [text |-> <<>>, closed |-> FALSE]

TypeOK ==
  /\ turn \in {"none", "taken", "running", "erred", "ended"}
  /\ busy \in BOOLEAN
  /\ turn \in {"taken", "running", "erred", "ended"} => busy
  /\ failing \in {"none", "failed", "ended"}
  /\ preview \in [text : Texts, closed : BOOLEAN]
  /\ queued \in 0 .. MaxQueue
  /\ conn \in {"off", "subscribed", "stated", "streaming"}
  /\ Len(ch) <= Cap + 1
  /\ view.live \in BOOLEAN /\ view.accept \in BOOLEAN /\ view.streaming \in BOOLEAN
  /\ view.text \in Texts /\ view.queue \in 0 .. MaxQueue

Init ==
  /\ turn = "none" /\ busy = FALSE /\ failing = "none"
  /\ preview = NoPreview /\ queued = 0
  /\ conn = "off" /\ ch = <<>>
  /\ view = [live |-> FALSE, text |-> <<>>, accept |-> TRUE, streaming |-> FALSE,
             queue |-> 0]
  /\ count = [turns |-> 0, deltas |-> 0, parts |-> 0, drops |-> 0]
  /\ note = [lost |-> FALSE, crossed |-> FALSE, late |-> FALSE, synced |-> FALSE,
             jumped |-> FALSE]

-----------------------------------------------------------------------------
(* Events.                                                                 *)

Ev(type) == [type |-> type, text |-> <<>>, n |-> 0]
Delta(text) == [Ev("delta") EXCEPT !.text = text]
Ended(reason) == [Ev("ended") EXCEPT !.n = IF reason THEN 1 ELSE 0]
QueueIs(n) == [Ev("queue") EXCEPT !.n = n]

\* An event the tab cannot do without: an error, or an end while that of a turn
\* that could not be sent is still to come.
Missed(ev) == ev.type = "failed" \/ (ev.type = "ended" /\ failing # "none")

\* Broker.Publish, to this tab's subscription.
Publish(ev, also) ==
  /\ IF conn # "off" /\ Len(ch) >= Cap
       THEN /\ UNCHANGED ch
            /\ note' = [also EXCEPT !.lost = TRUE, !.synced = FALSE,
                                    !.late = @ \/ Missed(ev)]
       ELSE /\ ch' = IF conn # "off" THEN Append(ch, ev) ELSE ch
            /\ note' = also
  /\ UNCHANGED <<conn, view>>

-----------------------------------------------------------------------------
(* The session's turns.                                                    *)

\* enqueueSend registers a token.
Take ==
  /\ turn = "none" /\ ~busy /\ count.turns < MaxTurns
  /\ turn' = "taken" /\ busy' = TRUE
  /\ count' = [count EXCEPT !.turns = @ + 1]
  /\ UNCHANGED <<failing, preview, queued, client, note>>

\* publishPreviewed: one critical section of previewMu publishes and folds.
Start ==
  /\ turn = "taken" /\ turn' = "running"
  /\ Publish(Ev("started"), note) /\ preview' = NoPreview
  /\ UNCHANGED <<busy, failing, queued, count>>

TurnDelta ==
  /\ turn = "running" /\ count.deltas < MaxDeltas
  /\ LET d == count.deltas + 1 IN
       /\ Publish(Delta(<<d>>), note)
       /\ preview' = IF preview.closed THEN preview
                     ELSE [preview EXCEPT !.text = Append(@, d)]
       /\ count' = [count EXCEPT !.deltas = d]
  /\ UNCHANGED <<turn, busy, failing, queued>>

\* A text part takes the place of what was streamed of it; its last deltas may
\* still come.
AfterText == [text |-> <<>>, closed |-> TRUE]

\* A tool part opens the next item.  Its record may come after the first deltas
\* of that item, read from elsewhere.
TurnPart(tool) ==
  /\ turn = "running" /\ count.parts < MaxParts
  /\ Publish(Ev(IF tool THEN "tool" ELSE "text"),
             [note EXCEPT !.jumped = @ \/ (tool /\ preview.text # <<>>)])
  /\ preview' = IF tool THEN NoPreview ELSE AfterText
  /\ count' = [count EXCEPT !.parts = @ + 1]
  /\ UNCHANGED <<turn, busy, failing, queued>>

TurnFailed ==
  /\ turn = "running" /\ turn' = "erred"
  /\ Publish(Ev("failed"), note) /\ preview' = NoPreview
  /\ UNCHANGED <<busy, failing, queued, count>>

\* An end that follows an error may carry a reason.
TurnEnded ==
  /\ turn \in {"running", "erred"} /\ turn' = "ended"
  /\ \E reason \in {FALSE, turn = "erred"} : Publish(Ended(reason), note)
  /\ preview' = NoPreview
  /\ UNCHANGED <<busy, failing, queued, count>>

\* Mutant: the session is marked idle before its turn has ended.
MarkIdleEarly ==
  /\ turn = "running" /\ busy /\ busy' = FALSE
  /\ UNCHANGED <<turn, failing, preview, queued, client, count, note>>

\* markSendIdle, after turn.ended was published.
MarkIdle ==
  /\ turn = "ended" /\ turn' = "none" /\ busy' = FALSE
  /\ UNCHANGED <<failing, preview, queued, client, count, note>>

\* failSend: the token goes first, then both events are published.
SendFails ==
  /\ turn = "taken" /\ failing = "none"
  /\ turn' = "none" /\ busy' = FALSE /\ failing' = "failed"
  /\ UNCHANGED <<preview, queued, client, count, note>>

FailPublish ==
  /\ failing # "none"
  /\ failing' = IF failing = "failed" THEN "ended" ELSE "none"
  /\ Publish(IF failing = "failed" THEN Ev("failed") ELSE Ended(TRUE),
             [note EXCEPT !.crossed = @ \/ turn # "none"])
  /\ UNCHANGED <<turn, busy, preview, queued, count>>

\* publishQueueLocked, in the critical section of sendMu that changed the queue.
QueueChange ==
  /\ queued < MaxQueue /\ queued' = queued + 1
  /\ Publish(QueueIs(queued'), note)
  /\ UNCHANGED <<turn, busy, failing, preview, count>>

-----------------------------------------------------------------------------
(* The tab's handlers.                                                     *)

\* beginTurn: stand the bubble up, unless there is one.
Begin(v) ==
  IF v.live THEN v
  ELSE [v EXCEPT !.live = TRUE, !.text = <<>>, !.accept = TRUE, !.streaming = TRUE]

Finish(v) == [v EXCEPT !.live = FALSE, !.text = <<>>, !.streaming = FALSE]

\* appendLiveDelta.
Grow(v, text) == IF v.accept THEN [v EXCEPT !.text = @ \o text] ELSE v

Handle(v, ev) ==
  CASE ev.type = "started" -> Begin(v)
    [] ev.type = "active"  -> Begin(v)
    [] ev.type = "idle"    -> IF v.streaming THEN Finish(v) ELSE v
    [] ev.type = "delta"   -> Grow(Begin(v), ev.text)
    [] ev.type = "text"    -> [Begin(v) EXCEPT !.text = <<>>, !.accept = FALSE]
    [] ev.type = "tool"    -> [Begin(v) EXCEPT !.accept = TRUE]
    [] ev.type = "failed"  -> Finish(v)
    [] ev.type = "ended"   -> IF ev.n = 1 THEN [v EXCEPT !.streaming = FALSE] ELSE Finish(v)
    [] ev.type = "queue"   -> [v EXCEPT !.queue = ev.n]

-----------------------------------------------------------------------------
(* handleSessionEvents.                                                    *)

\* Mutant: the tab is subscribed without what it missed.
NoSeed == <<>>

\* The text streamed so far, as one delta.
SeedEvents == IF preview.text = <<>> THEN <<>> ELSE <<Delta(preview.text)>>

\* SubscribeSession, under previewMu.
Subscribe ==
  /\ conn = "off" /\ conn' = "subscribed"
  /\ ch' = SeedEvents
  /\ note' = [note EXCEPT !.lost = FALSE, !.synced = ~view.live /\ ~preview.closed]
  /\ UNCHANGED <<server, view, count>>

\* The snapshot is read when the turn's last events are already out: its error,
\* or its end, which the session is marked idle only after.
Stale == turn \in {"erred", "ended"} \/ \E i \in DOMAIN ch : ch[i] = Ended(TRUE)

\* Mutant: a connection starts with no snapshot.
SendNoState ==
  /\ conn = "subscribed" /\ conn' = "stated"
  /\ UNCHANGED <<server, ch, view, count, note>>

\* onopen of a connection made again restarts the preview; then the snapshot
\* says whether a turn runs.
SendState ==
  /\ conn = "subscribed" /\ conn' = "stated"
  /\ LET v == IF view.streaming THEN [view EXCEPT !.text = <<>>] ELSE view
     IN  view' = Handle(v, Ev(IF busy THEN "active" ELSE "idle"))
  /\ note' = [note EXCEPT !.late = @ \/ Stale]
  /\ UNCHANGED <<server, ch, count>>

\* Mutant: the queue is sent only when it changes.
SendNoQueue ==
  /\ conn = "stated" /\ conn' = "streaming"
  /\ UNCHANGED <<server, ch, view, count, note>>

SendQueued ==
  /\ conn = "stated" /\ conn' = "streaming"
  /\ view' = Handle(view, QueueIs(queued))
  /\ UNCHANGED <<server, ch, count, note>>

\* stream: the next event goes to the tab.
Forward ==
  /\ conn = "streaming" /\ ch # <<>>
  /\ ch' = Tail(ch) /\ view' = Handle(view, Head(ch))
  /\ UNCHANGED <<server, conn, count, note>>

\* The connection breaks; the tab keeps what it shows and connects again.
Disconnect ==
  /\ conn # "off" /\ conn' = "off" /\ count.drops < MaxDrops
  /\ ch' = <<>>
  /\ count' = [count EXCEPT !.drops = @ + 1]
  /\ note' = [note EXCEPT !.synced = FALSE]
  /\ UNCHANGED <<server, view>>

-----------------------------------------------------------------------------
Turns ==
  \/ Take \/ Start \/ TurnDelta \/ TurnFailed \/ TurnEnded \/ MarkIdle
  \/ SendFails \/ FailPublish \/ QueueChange
  \/ \E tool \in BOOLEAN : TurnPart(tool)

Tab == Subscribe \/ SendState \/ SendQueued \/ Forward \/ Disconnect

Next == Turns \/ Tab

Spec == Init /\ [][Next]_vars

-----------------------------------------------------------------------------
(* Properties.                                                             *)

\* The tab is connected and has been sent everything there was, nothing dropped.
UpToDate == conn = "streaming" /\ ch = <<>> /\ ~note.lost

\* A turn that could not be sent did not publish its end into another turn.
Clean == UpToDate /\ ~note.crossed

\* The tab shows a turn running exactly while one is, whenever it connected or
\* lost its connection, unless a snapshot of it was stale or it missed an error.
ShowsRunning ==
  Clean /\ ~note.late =>
    /\ turn = "running" => view.streaming
    /\ turn = "none" /\ failing = "none" => ~view.streaming

\* A tab that joined before a text part closed the item shows the text streamed
\* so far: the seed and what follows it neither overlap nor leave a gap.
MirrorsPreview ==
  Clean /\ turn = "running" /\ note.synced /\ ~note.jumped => view.text = preview.text

\* The tab shows the queue as it is: the snapshot is read after the subscription
\* began, and what the channel then repeats ends with the last change.
ShowsQueue == UpToDate => view.queue = queued

\* The tab's variables are well typed, and it shows a turn that runs and the
\* queue (pkg/api/events.go:133).
ShowsState == TypeOK /\ ShowsRunning /\ ShowsQueue
=============================================================================
