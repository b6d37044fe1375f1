-------------------------------- MODULE Relays --------------------------------
(***************************************************************************)
(* Work the router session hands to another session (pkg/router): a tool   *)
(* call of the router's sends to it, or creates it; what came of the turn  *)
(* lands as a note for the router's next prompt; the reply is found again  *)
(* in the session's log (routed.go). A turn of that session may ask a      *)
(* question without waiting (questions.go), whose answer is steered into   *)
(* the running turn, or sent. Its turns run as SendQueue has them, and     *)
(* here a send is its number: the dispatches first, then what the user     *)
(* sends, then the answers.                                                *)
(***************************************************************************)
EXTENDS Naturals, Sequences, FiniteSetsExt, SequencesExt

CONSTANTS
  Cases,       \* what happens: the text of each dispatch, how many prompts the user
               \* sends to the session and to the router, questions asked, upsets,
               \* and lookups of a reply
  MaxQueued,   \* maxQueuedSends
  MaxNotes,    \* maxQueuedRelays
  Reach        \* turns back that a reply is looked for (routedSearchPages)

VARIABLES
  case,      \* one of Cases, never changed
  fresh,     \* the first of them makes the session
  \* the session
  known, active, queue,
  st,        \* where each send is
  log,       \* its turns: [role, of, whole]
  asks,      \* asks[id]: the tokens of its questions
  ask,       \* where each question's goroutine is
  withdrawn, \* its context was cancelled
  box,       \* it has an answer
  \* the router session
  rst,       \* its turn: "idle", "fold" or "runs"
  waiting,   \* prompts queued behind it
  relayIn,   \* the notes for its next prompt
  telling,   \* dispatches whose onDone is called
  \* a lookup of a reply, with the turns it has read
  since,     \* how many turns of the log are older than 5 s before the
             \* dispatching turn began
  look,
  \* history and bounds
  landed, dropped, said, unsaid, folded, began, steered, typed, overlap, upsets

work == <<known, active, queue, st>>
questions == <<asks, ask, withdrawn, box, steered>>
inbox == <<rst, waiting, said, unsaid, folded, began, typed>>
notes == <<relayIn, landed, dropped>>
vars == <<case, fresh, work, log, questions, inbox, notes, telling, since, look, overlap, upsets>>

text == case.text
Dispatches == DOMAIN text
Prompts == Len(text) + 1 .. Len(text) + case.others
Questions == 1 .. case.questions
Answer(q) == Len(text) + case.others + q
Sends == Dispatches \cup Prompts \cup {Answer(q) : q \in Questions}
NoLook == [of |-> 0, turns |-> <<>>, raced |-> FALSE]

Init ==
  /\ case \in Cases
  /\ fresh \in BOOLEAN /\ known = ~fresh /\ active = 0 /\ queue = <<>> /\ st = [s \in Sends |-> "new"]
  /\ log = <<>> /\ asks = {} /\ ask = [q \in Questions |-> "none"]
  /\ withdrawn = {} /\ box = {} /\ steered = {}
  /\ rst = "idle" /\ waiting = 0 /\ relayIn = <<>> /\ telling = {}
  /\ since = [s \in Dispatches |-> 0] /\ look = NoLook
  /\ landed = <<>> /\ dropped = {} /\ said = <<>> /\ unsaid = {} /\ folded = 0 /\ began = 0
  /\ typed = 0 /\ overlap = FALSE /\ upsets = 0

Upset == upsets < case.upsets /\ upsets' = upsets + 1
Becomes(s, stage) == st' = [st EXCEPT ![s] = stage]
Moves(s, from, to) == st[s] = from /\ Becomes(s, to)
Idle(s) == active' = IF active = s THEN 0 ELSE active
Told(s) == telling' = telling \cup ({s} \cap Dispatches)

-----------------------------------------------------------------------------
(* The router session *)

\* SendToSession of what the user types to the router.
Prompt ==
  /\ typed < case.typed /\ typed' = typed + 1
  /\ IF rst = "idle" THEN rst' = "fold" /\ UNCHANGED waiting
                     ELSE waiting' = waiting + 1 /\ UNCHANGED rst
  /\ UNCHANGED <<case, fresh, work, log, questions, said, unsaid, folded, began, notes, telling, since, look, overlap, upsets>>

\* Mutant: the notes stay for the next prompt too.
FoldedKept == relayIn

Folded == <<>>

NextPrompt ==
  IF waiting = 0 THEN rst' = "idle" /\ UNCHANGED waiting
                 ELSE rst' = "fold" /\ waiting' = waiting - 1

\* foldRelays, once the turn has its token; a backend that refuses the prompt then
\* has the notes with it. A reply is looked for from 5 s before the turn, which
\* makes no difference where none is.
Fold ==
  /\ rst = "fold"
  /\ \/ /\ rst' = "runs" /\ said' = Append(said, relayIn)
        /\ UNCHANGED <<waiting, unsaid, upsets>>
     \/ Upset /\ NextPrompt /\ unsaid' = unsaid \cup Range(relayIn) /\ UNCHANGED said
  /\ relayIn' = Folded
  /\ folded' = Len(landed) /\ began' \in IF case.looks THEN began .. Len(log) ELSE {Len(log)}
  /\ UNCHANGED <<case, fresh, work, log, questions, typed, landed, dropped, telling, since, look, overlap>>

RouterEnds ==
  /\ rst = "runs" /\ NextPrompt
  /\ UNCHANGED <<case, fresh, work, log, questions, said, unsaid, folded, began, typed, notes, telling, since, look, overlap, upsets>>

\* RouteToSession of a session that is known, RouteNewSession of one to be.
Dispatch(s) ==
  /\ rst = "runs" /\ st[s] = "new" /\ (s > 1 => known /\ st[s - 1] # "new")
  /\ Becomes(s, IF known THEN "withdraw" ELSE "start")
  /\ since' = [since EXCEPT ![s] = began]
  /\ UNCHANGED <<case, fresh, known, active, queue, log, questions, inbox, notes, telling, look, overlap, upsets>>

\* queueRelay keeps the last of them.
Note(s) ==
  /\ s \in telling /\ telling' = telling \ {s}
  /\ landed' = Append(landed, s)
  /\ LET all == Append(relayIn, s)
         over == IF Len(all) > MaxNotes THEN Len(all) - MaxNotes ELSE 0
     IN /\ relayIn' = SubSeq(all, over + 1, Len(all))
        /\ dropped' = dropped \cup Range(SubSeq(all, 1, over))
  /\ UNCHANGED <<case, fresh, work, log, questions, inbox, since, look, overlap, upsets>>

-----------------------------------------------------------------------------
(* Sends to the session *)

User(s) == [role |-> "user", of |-> s, whole |-> TRUE]
Says(s, whole) == [role |-> "assistant", of |-> s, whole |-> whole]
Fails(s) == [role |-> "error", of |-> s, whole |-> TRUE]

\* beginNewSession: the session starts with its prompt, is found by its log, and
\* has its turn registered later, whatever is registered there.
Start(s) ==
  /\ st[s] = "start"
  /\ \/ known' = TRUE /\ Becomes(s, "born") /\ log' = Append(log, User(s)) /\ UNCHANGED upsets
     \/ Upset /\ Becomes(s, "refused") /\ UNCHANGED <<known, log>>
  /\ UNCHANGED <<case, fresh, active, queue, questions, inbox, notes, telling, since, look, overlap>>

Register(s) ==
  /\ Moves(s, "born", "runs") /\ active' = s
  /\ overlap' = (active # 0 \/ Len(log) > 1)
  /\ UNCHANGED <<case, fresh, known, queue, log, questions, inbox, notes, telling, since, look, upsets>>

UserSend(s) ==
  /\ known /\ Moves(s, "new", "withdraw")
  /\ UNCHANGED <<case, fresh, known, active, queue, log, questions, inbox, notes, telling, since, look, overlap, upsets>>

Withdraws == asks' = {} /\ withdrawn' = withdrawn \cup asks /\ UNCHANGED <<ask, box, steered>>

WithdrawQuestions(s) ==
  /\ Moves(s, "withdraw", "enqueue") /\ Withdraws
  /\ UNCHANGED <<case, fresh, known, active, queue, log, inbox, notes, telling, since, look, overlap, upsets>>

EnqueueSend(s) ==
  /\ st[s] = "enqueue"
  /\ IF active # 0 \/ queue # <<>>
       THEN IF Len(queue) < MaxQueued
              THEN queue' = Append(queue, s) /\ Becomes(s, "queued") /\ UNCHANGED active
              ELSE Becomes(s, "full") /\ UNCHANGED <<active, queue>>
       ELSE active' = s /\ Becomes(s, "sent") /\ UNCHANGED queue
  /\ UNCHANGED <<case, fresh, known, log, questions, inbox, notes, telling, since, look, overlap, upsets>>

\* The agent logs the prompt, or the send fails first.
Sent(s) ==
  /\ st[s] = "sent"
  /\ \/ /\ Becomes(s, "runs") /\ log' = Append(log, User(s)) /\ UNCHANGED <<active, telling, upsets>>
     \/ /\ Upset /\ Becomes(s, "idle") /\ Idle(s) /\ Told(s) /\ UNCHANGED log
  /\ UNCHANGED <<case, fresh, known, queue, questions, inbox, notes, since, look, overlap>>

Spoke(s) == log # <<>> /\ Last(log) = Says(s, FALSE)

\* external: the agent writes, and ends its turn, or the turn ends in an error, which
\* only a lookup tells from an answer.
Write(s) ==
  /\ st[s] = "runs" /\ Says(s, FALSE) \notin Range(log) /\ log' = Append(log, Says(s, FALSE))
  /\ UNCHANGED <<case, fresh, work, questions, inbox, notes, telling, since, look, overlap, upsets>>

End(s) ==
  /\ Moves(s, "runs", "ended")
  /\ LET before == IF Spoke(s) THEN Front(log) ELSE log
         spoken == Append(before, Says(s, TRUE))
     IN  \/ log' = spoken
         \/ case.looks /\ log' = Append(IF Spoke(s) THEN spoken ELSE log, Fails(s))
  /\ look' = [look EXCEPT !.raced = look.of # 0]
  /\ UNCHANGED <<case, fresh, known, active, queue, questions, inbox, notes, telling, since, overlap, upsets>>

Created(s) == fresh /\ s = 1

\* runSend at turn.ended, which the collector hears too. The turn that made the
\* session stays registered until its stream is over.
Publish(s) ==
  /\ Moves(s, "ended", "idle")
  /\ IF Created(s) THEN UNCHANGED <<active, telling>> ELSE Idle(s) /\ Told(s)
  /\ UNCHANGED <<case, fresh, known, queue, log, questions, inbox, notes, since, look, overlap, upsets>>

\* releaseSend
Release(s) ==
  /\ st[s] = "idle"
  /\ LET free == active \in {0, s} IN
       IF free /\ queue # <<>>
         THEN /\ active' = Head(queue) /\ queue' = Tail(queue)
              /\ st' = [st EXCEPT ![s] = "over", ![Head(queue)] = "sent"]
         ELSE Idle(s) /\ Becomes(s, "over") /\ UNCHANGED queue
  /\ IF Created(s) THEN Told(s) ELSE UNCHANGED telling
  /\ UNCHANGED <<case, fresh, known, log, questions, inbox, notes, since, look, overlap, upsets>>

\* stopLive: the questions are withdrawn and the queue is flushed; the turn ends
\* like another.
StopLive ==
  /\ known /\ Upset /\ Withdraws
  /\ queue' = <<>> /\ telling' = telling \cup (Range(queue) \cap Dispatches)
  /\ st' = [s \in Sends |-> IF s \in Range(queue) THEN "refused" ELSE st[s]]
  /\ UNCHANGED <<case, fresh, known, active, log, inbox, notes, since, look, overlap>>

-----------------------------------------------------------------------------
(* Questions *)

Asks(q, stage) == ask' = [ask EXCEPT ![q] = stage]

\* askInPlace, as a turn's stream is read.
AskInPlace(q) ==
  /\ ask[q] = "none" /\ \E s \in Sends : st[s] \in {"runs", "ended"}
  /\ Asks(q, "raised") /\ asks' = asks \cup {q}
  /\ UNCHANGED <<case, fresh, work, log, withdrawn, box, steered, inbox, notes, telling, since, look, overlap, upsets>>

\* external: Submit of pkg/interaction, and the user.
Submit(q) ==
  /\ ask[q] = "raised" /\ Asks(q, "open")
  /\ UNCHANGED <<case, fresh, work, log, asks, withdrawn, box, steered, inbox, notes, telling, since, look, overlap, upsets>>

Respond(q) ==
  /\ ask[q] = "open" /\ q \notin box /\ box' = box \cup {q}
  /\ UNCHANGED <<case, fresh, work, log, asks, ask, withdrawn, steered, inbox, notes, telling, since, look, overlap, upsets>>

\* Submit returns the answer, or that the context is over.
Returned(q) ==
  /\ ask[q] = "open"
  /\ \/ q \in box /\ Asks(q, "reply") /\ UNCHANGED asks
     \/ q \in withdrawn /\ Asks(q, "over") /\ asks' = asks \ {q}
  /\ UNCHANGED <<case, fresh, work, log, withdrawn, box, steered, inbox, notes, telling, since, look, overlap, upsets>>

\* Mutant: an answer with no turn to take it is dropped.
Unsent(q) == UNCHANGED st

AsTurn(q) == Becomes(Answer(q), "enqueue")

\* replyInPlace reads whether a turn is registered.
ReplyInPlace(q) ==
  /\ ask[q] = "reply"
  /\ IF active # 0 THEN Asks(q, "steer") /\ UNCHANGED <<asks, st>>
                   ELSE Asks(q, "over") /\ asks' = asks \ {q} /\ AsTurn(q)
  /\ UNCHANGED <<case, fresh, known, active, queue, log, withdrawn, box, steered, inbox, notes, telling, since, look, overlap, upsets>>

Takes(q) ==
  /\ \E s \in Sends : st[s] = "runs"
  /\ steered' = steered \cup {q} /\ log' = Append(log, User(Answer(q)))

\* A turn that runs takes it; a backend declines, which may not steer; one that is
\* late to say that it took it counts as one that declined.
Steer(q) ==
  /\ ask[q] = "steer" /\ Asks(q, "over") /\ asks' = asks \ {q}
  /\ \/ Takes(q) /\ UNCHANGED <<st, upsets>>
     \/ Takes(q) /\ Upset /\ AsTurn(q)
     \/ AsTurn(q) /\ UNCHANGED <<steered, log, upsets>>
  /\ UNCHANGED <<case, fresh, known, active, queue, withdrawn, box, inbox, notes, telling, since, look, overlap>>

-----------------------------------------------------------------------------
(* RoutedReplies *)

\* The log is read before it is asked whether the session runs.
ReadTurns(s) ==
  /\ case.looks /\ look = NoLook /\ st[s] \notin {"new", "start", "born"}
  /\ look' = [of |-> s, turns |-> log, raced |-> FALSE]
  /\ UNCHANGED <<case, fresh, work, log, questions, inbox, notes, telling, since, overlap, upsets>>

Answered ==
  /\ look # NoLook /\ look' = NoLook
  /\ UNCHANGED <<case, fresh, work, log, questions, inbox, notes, telling, since, overlap, upsets>>

Said(s, t) == t.role = "user" /\ t.of \in Dispatches /\ text[t.of] = text[s]

\* Where the prompt of s is taken to be: the first like it since 5 s before the
\* router's turn began, among the last turns.
Matches(s, turns) ==
  {i \in DOMAIN turns : Said(s, turns[i]) /\ i > since[s] /\ i > Len(turns) - Reach}

PromptOf(s, turns) == Min(Matches(s, turns))

NoReply == [of |-> 0, whole |-> FALSE, done |-> active = 0]

\* Mutant: a reply that is there is done.
OnceSaid(i, turns) == TRUE

\* An error is; a text is if another turn follows, or nothing runs.
Done(i, turns) == turns[i + 1].role = "error" \/ i + 1 < Len(turns) \/ active = 0

\* replyTo: the turn after the prompt.
ReplyTo(s, turns) ==
  IF Matches(s, turns) = {} THEN NoReply
  ELSE LET i == PromptOf(s, turns) IN
       IF i < Len(turns) /\ turns[i + 1].role \in {"assistant", "error"}
         THEN [of |-> turns[i + 1].of, whole |-> turns[i + 1].whole,
               done |-> Done(i, turns)]
         ELSE NoReply

Next ==
  \/ Prompt \/ Fold \/ RouterEnds \/ StopLive \/ Answered
  \/ \E s \in Dispatches : Dispatch(s) \/ Note(s) \/ Start(s) \/ Register(s) \/ ReadTurns(s)
  \/ \E s \in Sends : \/ WithdrawQuestions(s) \/ EnqueueSend(s) \/ Sent(s)
                      \/ Write(s) \/ End(s) \/ Publish(s) \/ Release(s)
  \/ \E s \in Prompts : UserSend(s)
  \/ \E q \in Questions : \/ AskInPlace(q) \/ Submit(q) \/ Respond(q)
                               \/ Returned(q) \/ ReplyInPlace(q) \/ Steer(q)

Spec == Init /\ [][Next]_vars

-----------------------------------------------------------------------------
\* What landed is told to the router once, in the order it landed, in the first
\* prompt whose turn starts after it, but for the oldest of too many that wait and
\* those that went with a prompt the backend refused (pkg/router/router.go:1103,
\* 1123: they are gone with it).
NotesTold ==
  /\ \A i, j \in DOMAIN landed : landed[i] = landed[j] => i = j
  /\ SelectSeq(landed, LAMBDA s : s \notin dropped \cup unsaid) = FlattenSeq(said) \o relayIn
  /\ rst = "runs" => \A s \in Range(relayIn) : s \notin Range(SubSeq(landed, 1, folded))
  /\ \A i \in DOMAIN landed : landed[i] \in dropped => Len(landed) >= i + MaxNotes
  /\ unsaid # {} => upsets > 0

Logs(q) == {i \in DOMAIN log : log[i] = User(Answer(q))}

\* An answer that was taken, of a question that was not withdrawn, is in the
\* session's log or on its way there: steered into the running turn, or a turn of
\* its own, and once, unless a steer was late to say that it took it
\* (pkg/router/questions.go:103). A queue that was full, a send that failed and a
\* flush lose it, and that is only logged (questions.go:121).
AnsweredInPlace ==
  \A q \in Questions :
    /\ ask[q] = "over" /\ q \in box \ withdrawn =>
         \/ Logs(q) # {} \/ st[Answer(q)] \in {"enqueue", "queued", "sent", "full"}
         \/ st[Answer(q)] \in {"refused", "idle", "over"} /\ upsets > 0
    /\ Logs(q) # {} /\ st[Answer(q)] \in {"enqueue", "queued", "sent"} => upsets > 0
    /\ \A i, j \in Logs(q) : i = j \/ upsets > 0
    /\ Logs(q) # {} \/ st[Answer(q)] # "new" => q \in box /\ q \notin asks

\* A promotion is under way.
Between == active = 0 /\ queue # <<>>

\* A reply that is shown as done is the whole turn of the call's own prompt, or
\* the error it ended in, but for another call with its text, which may be up to
\* 5 s older than the router's turn, a turn that was steered, or ended, since the
\* log was read, or two turns at once (pkg/router/routed.go:80).
RoutedReply ==
  LET s == look.of
      turns == look.turns
      Near == (Len(turns) + 2) - Reach .. Len(turns)
      r == ReplyTo(s, turns)
      same == {d \in Dispatches : text[d] = text[s]}
  IN look # NoLook /\ ~look.raced /\ ~overlap /\ steered = {} /\ ~Between =>
       /\ r.of # 0 => r.of \in same /\ \E i \in since[s] + 1 .. Len(turns) : turns[i] = User(r.of)
       /\ r.of # 0 /\ same = {s} /\ r.done => r.whole
       /\ same = {s} /\ (\E i \in (Near \cap DOMAIN turns) \ {1} :
            turns[i - 1] = User(s) /\ turns[i] \in {Says(s, TRUE), Fails(s)}) => r.of = s
       /\ r.done /\ r.of = 0 => \A d \in same : st[d] \notin {"queued", "sent", "runs"}
=============================================================================
