----------------------------- MODULE SendQueue ------------------------------
(***************************************************************************)
(* The router's per-session turn queue (pkg/router/router.go): the clients *)
(* that send, retract, cancel, stop and delete, the executor goroutine of  *)
(* every turn (runSend, failSend, releaseSend), and the relay collectors   *)
(* that subscribe before their turn and read its reply off the broker.     *)
(*                                                                         *)
(* One session: every map of the Router is keyed by session id and no      *)
(* action here crosses sessions.  A send gets at most one turn, so a turn's*)
(* sendToken is named by its send.  Each action is one critical section of *)
(* sendMu, or one publish, or one step between them; a removed send's abort*)
(* callback, which only reports to that send's own caller, is part of the  *)
(* step that removes it.  Cancelling a turn's context and interrupting its *)
(* worker only end its stream, which may end at any time here, so          *)
(* CancelSend and stopLive are what they do to the queue.  The stream of a *)
(* turn keeps the contract TurnLoop establishes: it closes after           *)
(* turn.ended, which is its last event, after turn.failed, or, cut short,  *)
(* with neither.                                                           *)
(***************************************************************************)
EXTENDS Naturals, SequencesExt

CONSTANTS
  Sends,      \* the sends clients make to the session
  Relayed,    \* those of SendToSessionRelayed: a collector waits for the reply
  NoSend,     \* no turn, no token
  MaxQueued   \* maxQueuedSends (32 in the code)

ASSUME SendQueueAssumption ==
  /\ Relayed \subseteq Sends
  /\ NoSend \notin Sends
  /\ MaxQueued \in Nat

VARIABLES
  known,      \* does discovery know the session?
  active,     \* activeSend: the send whose token is registered, or NoSend
  queue,      \* sendQueue: sends waiting for the turn to end
  st,         \* where each send is
  collecting, \* collectors subscribed to the broker and still listening
  heard,      \* for each collector, the turns whose text parts it gathered
  answer,     \* what resolved each relayed send: how, and whose turn did it
  orphans,    \* history: relayed sends whose turn did not end their collection
  cancel,     \* CancelSend: its step
  stop        \* stopLive under PauseSession or DeleteSession: its step

queueVars == <<active, queue, st>>
relayVars == <<collecting, heard, answer, orphans>>
stopVars == <<cancel, stop>>
vars == <<known, queueVars, relayVars, stopVars>>

(* new -> checked -> queued -> promoted -> ... or new -> checked -> owned ->  *)
(* sending -> stream -> exited -> idle -> release -> done.  A stream that     *)
(* carried turn.failed is erred; a Send that fails goes sending -> failing -> *)
(* failed -> release.                                                         *)
Stages == {"new", "checked", "queued", "promoted", "owned", "sending",
           "stream", "erred", "exited", "idle", "failing", "failed", "release",
           "done", "refused", "dropped"}

\* A turn in one of these stages is the one the session is on.
Live == {"promoted", "owned", "sending", "stream", "erred", "exited"}
Streaming == {"stream", "erred"}

\* A turn in one of these has given its token up and has yet to release.
Closing == {"idle", "failing", "failed", "release"}

Unanswered == [how |-> "none", by |-> NoSend]
Answers == [how : {"none", "ended", "error", "unsent", "abort"}, by : Sends \union {NoSend}]

Queued == {queue[i] : i \in DOMAIN queue}

QueueTypeOK ==
  /\ known \in BOOLEAN
  /\ active \in Sends \union {NoSend}
  /\ queue \in Seq(Sends)
  /\ st \in [Sends -> Stages]

TypeOK ==
  /\ QueueTypeOK
  /\ collecting \subseteq Relayed
  /\ heard \in [Relayed -> SUBSET Sends]
  /\ answer \in [Relayed -> Answers]
  /\ orphans \subseteq Relayed
  /\ cancel \in {"none", "read", "done"} /\ stop \in {"none", "flushed", "done"}

Init ==
  /\ known = TRUE /\ active = NoSend /\ queue = <<>>
  /\ st = [s \in Sends |-> "new"]
  /\ collecting = {} /\ heard = [s \in Relayed |-> {}]
  /\ answer = [s \in Relayed |-> Unanswered]
  /\ orphans = {} /\ cancel = "none" /\ stop = "none"

Goto(s, stage) == st' = [st EXCEPT ![s] = stage]

-----------------------------------------------------------------------------
(* The broker, as the collectors see it.  Publish is drop-on-full; a          *)
(* collector's 64 slots do not fill in the runs, see Broker for that.         *)

\* A turn.part of turn s reaches everyone listening (collectTurnText).
PublishPart(s) ==
  heard' = [c \in Relayed |-> IF c \in collecting THEN heard[c] \union {s} ELSE heard[c]]

\* turn.ended or turn.failed of turn s resolves everyone listening.
PublishEnd(how, s) ==
  /\ answer' = [c \in Relayed |-> IF c \in collecting
                                    THEN [how |-> how, by |-> s] ELSE answer[c]]
  /\ collecting' = {}

\* The abort callbacks of the sends taken off the queue.
Abort(gone) ==
  answer' = [c \in Relayed |-> IF c \in gone
                                 THEN [how |-> "abort", by |-> c] ELSE answer[c]]

-----------------------------------------------------------------------------
(* Clients.                                                                  *)

\* enqueueSend looks the session up before it takes the lock.
Check(s) ==
  /\ st[s] = "new"
  /\ Goto(s, IF known THEN "checked" ELSE "refused")
  /\ UNCHANGED <<known, active, queue, relayVars, stopVars>>

\* Mutant: the queue is not looked at when no turn is registered.
EnqueueJumpsQueue(s) ==
  /\ st[s] = "checked"
  /\ \/ active = NoSend /\ active' = s /\ Goto(s, "owned") /\ UNCHANGED queue
     \/ /\ active # NoSend /\ Len(queue) < MaxQueued
        /\ queue' = Append(queue, s) /\ Goto(s, "queued") /\ UNCHANGED active
  /\ UNCHANGED <<known, relayVars, stopVars>>

\* enqueueSend's critical section: run now, wait, or be refused.
Enqueue(s) ==
  /\ st[s] = "checked"
  /\ \/ /\ active = NoSend /\ queue = <<>>
        /\ active' = s /\ Goto(s, "owned") /\ UNCHANGED queue
     \/ /\ active # NoSend \/ queue # <<>>
        /\ Len(queue) < MaxQueued
        /\ queue' = Append(queue, s) /\ Goto(s, "queued") /\ UNCHANGED active
     \/ /\ active # NoSend \/ queue # <<>>
        /\ Len(queue) >= MaxQueued
        /\ Goto(s, "refused") /\ UNCHANGED <<active, queue>>
  /\ UNCHANGED <<known, relayVars, stopVars>>

\* RetractSend: one queued send is taken back.
Retract(s) ==
  /\ \E i \in DOMAIN queue : queue[i] = s /\ queue' = RemoveAt(queue, i)
  /\ Goto(s, "dropped") /\ Abort({s})
  /\ UNCHANGED <<known, active, collecting, heard, orphans, stopVars>>

\* Mutant: the callers are told, the entries stay.
FlushTellsOnly == Abort(Queued) /\ UNCHANGED <<queue, st>>

\* flushSendQueue: every queued send is dropped and its caller told.
Flush ==
  /\ queue' = <<>>
  /\ st' = [s \in Sends |-> IF s \in Queued THEN "dropped" ELSE st[s]]
  /\ Abort(Queued)

\* CancelSend reads whether a turn is registered, then flushes.
CancelRead ==
  /\ cancel = "none" /\ active # NoSend
  /\ cancel' = "read"
  /\ UNCHANGED <<known, queueVars, relayVars, stop>>

CancelFlush ==
  /\ cancel = "read"
  /\ cancel' = "done"
  /\ Flush
  /\ UNCHANGED <<known, active, collecting, heard, orphans, stop>>

\* stopLive: PauseSession ends there; DeleteSession makes discovery forget the
\* session.
StopFlush ==
  /\ stop = "none" /\ known
  /\ stop' = "flushed"
  /\ Flush
  /\ UNCHANGED <<known, active, collecting, heard, orphans, cancel>>

StopDone ==
  /\ stop = "flushed"
  /\ stop' = "done"
  /\ known' \in {TRUE, FALSE}
  /\ UNCHANGED <<queueVars, relayVars, cancel>>

-----------------------------------------------------------------------------
(* The goroutine that carries a turn.                                        *)

\* Mutant: a send that was typed gets a collector as well.
BeginListens(s) ==
  /\ \/ st[s] = "owned"
     \/ st[s] = "promoted" /\ known
  /\ Goto(s, "sending")
  /\ collecting' = collecting \union {s}
  /\ UNCHANGED <<known, active, queue, heard, answer, orphans, stopVars>>

\* pre, then startTurn: the collector subscribes, then runSend is launched.
\* A promoted send is looked up again; a vanished session aborts it and moves
\* on to the next.
Begin(s) ==
  /\ \/ st[s] = "owned"
     \/ st[s] = "promoted" /\ known
  /\ Goto(s, "sending")
  /\ collecting' = IF s \in Relayed THEN collecting \union {s} ELSE collecting
  /\ UNCHANGED <<known, active, queue, heard, answer, orphans, stopVars>>

\* Mutant: a vanished session's promoted send never reaches releaseSend.
VanishedReturns(s) ==
  /\ st[s] = "promoted" /\ ~known
  /\ Goto(s, "dropped") /\ Abort({s})
  /\ UNCHANGED <<known, active, queue, collecting, heard, orphans, stopVars>>

Vanished(s) ==
  /\ st[s] = "promoted" /\ ~known
  /\ Goto(s, "release") /\ Abort({s})
  /\ UNCHANGED <<known, active, queue, collecting, heard, orphans, stopVars>>

\* The backend's Send returned a stream.
SendOK(s) ==
  /\ st[s] = "sending"
  /\ Goto(s, "stream")
  /\ UNCHANGED <<known, active, queue, relayVars, stopVars>>

\* Mutant: the token is deleted whoever holds it.
DropAnyToken(s) == active' = NoSend

\* The token goes, if it is still this turn's.
DropToken(s) == active' = IF active = s THEN NoSend ELSE active

\* It failed: failSend marks the session idle, then publishes both events.
FailIdle(s) ==
  /\ st[s] = "sending"
  /\ Goto(s, "failing") /\ DropToken(s)
  /\ orphans' = orphans \union ({s} \intersect Relayed)
  /\ UNCHANGED <<known, queue, collecting, heard, answer, stopVars>>

FailError(s) ==
  /\ st[s] = "failing"
  /\ Goto(s, "failed") /\ PublishEnd("unsent", s)
  /\ UNCHANGED <<known, active, queue, heard, orphans, stopVars>>

FailEnded(s) ==
  /\ st[s] = "failed"
  /\ Goto(s, "release") /\ PublishEnd("unsent", s)
  /\ UNCHANGED <<known, active, queue, heard, orphans, stopVars>>

\* publishStream of one record, of an error, and of turn.ended.
Part(s) ==
  /\ st[s] \in Streaming /\ PublishPart(s)
  /\ UNCHANGED <<known, queueVars, collecting, answer, orphans, stopVars>>

Failure(s) ==
  /\ st[s] \in Streaming
  /\ Goto(s, "erred") /\ PublishEnd("error", s)
  /\ UNCHANGED <<known, active, queue, heard, orphans, stopVars>>

Exit(s) ==
  /\ st[s] \in Streaming
  /\ Goto(s, "exited") /\ PublishEnd("ended", s)
  /\ UNCHANGED <<known, active, queue, heard, orphans, stopVars>>

\* Mutant: the token goes while the stream still carries events.
MarkIdleEarly(s) ==
  /\ st[s] \in Streaming \union {"exited"}
  /\ Goto(s, IF st[s] = "exited" THEN "idle" ELSE st[s]) /\ DropToken(s)
  /\ UNCHANGED <<known, queue, relayVars, stopVars>>

\* markSendIdle, after the exit was published.
MarkIdle(s) ==
  /\ st[s] = "exited"
  /\ Goto(s, "idle") /\ DropToken(s)
  /\ UNCHANGED <<known, queue, relayVars, stopVars>>

\* The stream closes, after turn.ended, after turn.failed or, cut short, after
\* neither: the turn's collector goes on listening.
Close(s) ==
  /\ st[s] \in {"idle", "erred", "stream"}
  /\ Goto(s, "release")
  /\ orphans' = IF st[s] = "stream" THEN orphans \union ({s} \intersect Relayed) ELSE orphans
  /\ UNCHANGED <<known, active, queue, collecting, heard, answer, stopVars>>

\* Mutant: only a turn that still holds its token promotes the next.
ReleaseIfHolding(s) ==
  /\ st[s] = "release"
  /\ \/ /\ active = s /\ queue # <<>>
        /\ active' = Head(queue) /\ queue' = Tail(queue)
        /\ st' = [st EXCEPT ![s] = "done", ![Head(queue)] = "promoted"]
     \/ /\ active # s \/ queue = <<>>
        /\ DropToken(s) /\ Goto(s, "done") /\ UNCHANGED queue
  /\ UNCHANGED <<known, relayVars, stopVars>>

\* releaseSend's critical section: give the token up, and if no other turn is
\* registered promote the head of the queue.
Release(s) ==
  /\ st[s] = "release"
  /\ \/ /\ active \in {s, NoSend} /\ queue # <<>>
        /\ active' = Head(queue) /\ queue' = Tail(queue)
        /\ st' = [st EXCEPT ![s] = "done", ![Head(queue)] = "promoted"]
     \/ /\ active \notin {s, NoSend} \/ queue = <<>>
        /\ DropToken(s) /\ Goto(s, "done") /\ UNCHANGED queue
  /\ UNCHANGED <<known, relayVars, stopVars>>

-----------------------------------------------------------------------------
Client ==
  \/ \E s \in Sends : Check(s) \/ Retract(s)
  \/ CancelRead \/ StopFlush

\* The rest of a call under way, and the goroutine of a turn.
Carry(s) ==
  \/ Enqueue(s) \/ Begin(s) \/ Vanished(s)
  \/ SendOK(s) \/ FailIdle(s) \/ FailError(s) \/ FailEnded(s)
  \/ Exit(s) \/ MarkIdle(s) \/ Close(s) \/ Release(s)

Publishing(s) == Part(s) \/ Failure(s)

Stopping == CancelFlush \/ StopDone

Next ==
  \/ Client \/ Stopping
  \/ \E s \in Sends : Carry(s) \/ Publishing(s)

\* Goroutines run on, and a backend finishes the turn it was given (TurnLoop's
\* TurnCloses, from a result or a cancellation).  No client is obliged to act.
Fairness == \A s \in Sends : WF_vars(Carry(s))

Spec == Init /\ [][Next]_vars /\ Fairness

-----------------------------------------------------------------------------
(* Properties.                                                             *)

\* At most one usher turn holds the session, from the moment it is chosen until
\* its exit has been published, and its token is the registered one.
SingleTurn ==
  /\ \A s \in Sends : st[s] \in Live => active = s
  /\ active # NoSend => st[active] \in Live \union {"release"}

\* A waiting send always has somebody left to promote it: the registered turn,
\* or one that gave its token up and has not reached releaseSend.
NoStranded ==
  queue # <<>> => active # NoSend \/ \E s \in Sends : st[s] \in Closing

\* A relayed send whose own turn ended its collection gathered that turn's text
\* and nothing else: the exit is published before the token goes, and pre
\* subscribes after the turn before is over.  The orphans are those whose Send
\* failed or whose stream was cut short.
OwnReply ==
  \A c \in Relayed \ orphans :
    /\ heard[c] \subseteq {c}
    /\ answer[c].how \in {"ended", "error"} => answer[c].by = c

\* onDone is called at most once for a relayed send (SendToSessionRelayed).
OnDoneOnce ==
  [][\A c \in Relayed : answer[c].how # "none" => answer'[c] = answer[c]]_vars

\* The session's sends run one at a time, in the order they were accepted.
Serial == INSTANCE SerialTurns WITH
  running <- active, waiting <- queue,
  served <- {s \in Sends : st[s] \in Live \union Closing \union {"done"}}

SerialSpec == Serial!Spec

\* Every send that enqueueSend took in is carried out or dropped: none waits
\* for ever behind turns that end.
SendsSettle ==
  \A s \in Sends :
    st[s] \in {"checked", "queued"} ~> st[s] \in {"done", "dropped", "refused"}

\* What runSend's comment says a collector never sees: another turn's exit.
RelayOwnTurn ==
  \A c \in Relayed : answer[c].how # "none" => answer[c].by = c
=============================================================================
