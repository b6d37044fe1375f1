-------------------------------- MODULE Lark --------------------------------
(***************************************************************************)
(* The Lark plugin and one session (plugins/lark). The session is mirrored *)
(* into a thread of the chat, or belongs to a guest: it was created by a   *)
(* mention in someone's discussion, whose other messages it is given as    *)
(* context, and its answers are posted one message per turn. Pushes arrive *)
(* at least once; each accepted one is routed by a goroutine of its own.   *)
(* Calls to usher cross the plugin socket and may fail there, before usher *)
(* saw them or after. Messages of a discussion, and events, have numbers:  *)
(* their places in thread and in said; a message's number is its time.     *)
(***************************************************************************)
EXTENDS Naturals, Sequences, FiniteSets, SequencesExt

CONSTANTS
  QueueSize,   \* events the worker's channel holds (hub.go:286)
  MaxSaid,     \* bound: messages users write in the thread
  MaxPrompts,  \* bound: mentions, and prompts sent from elsewhere
  MaxActs,     \* bound: messages, prompts from elsewhere and questions
  MaxParts,    \* bound: parts of all turns, and none beside a question
  MaxAsks,     \* bound: questions the agent asks
  MaxUpsets,   \* bound: calls and turns that fail, pushes that come twice, reconnects
  MaxSessions  \* bound: sessions of a discussion; with 1, users wait for the
               \* first mention's reaction before they mention the bot again

VARIABLES
  guest,       \* the session is a guest's
  backend,     \* its backend, once that matters: "any" (not yet), "codex" or "other"
  \* external: the session
  created,     \* sessions a discussion created; 1 for a mirrored session
  sends,       \* prompts taken and not started: the message typed, 0 from elsewhere
  turn,        \* 0, or one more than the parts still to come
  open,        \* questions that wait for an answer
  asked,       \* questions asked so far; a question is its number
  said,        \* history: the session's events, in order
  \* external: Lark
  thread,      \* what was written in the thread, "mention" or "line", in order
  pushes,      \* messages on their way to the plugin
  \* the hub
  seen,        \* messages handled before
  task,        \* where the goroutine of each message is
  arg,         \* the watermark it read
  reply,       \* the question it answers
  context,     \* the discussion it pulled: the lines its prompt has, and lacks
  queue,       \* the worker's channel: numbers of events
  work,        \* where the worker is, and the events it posts: [at, parts]
  feed,        \* the pending stream: questions
  perm,        \* where the permission loop is: [at, q]
  tap,         \* the question a tap is resolving, 0 for none
  createMu,    \* "free", "worker", "perm", or the message that holds createMu
  bound,       \* the store has the session's root message
  wm,          \* its watermark
  posted,      \* the prompts claimed as live cards
  asks,        \* the questions that wait here
  askOf,       \* the question the session's next message answers, 0 for none
  recentSent,  \* the message last forwarded, 0 for none
  guestBuf,    \* the parts of the guest turn in progress
  \* history and bounds
  shown,       \* what was mirrored, in order: an event, or a turn's parts
  cards,       \* how many cards each question was posted on
  roots,       \* root messages posted
  reached,     \* messages that reached the session, in order
  outcome,     \* "acked", "told" or "ignored" for a message that is done with
  given,       \* messages of the discussion that prompts carried
  skipped,     \* those an answer, or a prompt that lacks them, passed over
  lost,        \* events that were dropped or failed
  upsets

external == <<created, sends, turn, open, asked, said, thread, pushes>>
tasks == <<seen, task, arg, reply, context>>
loops == <<queue, work, feed, perm, tap, createMu>>
store == <<bound, wm>>
prompts == <<posted, asks, askOf>>
history == <<shown, cards, roots, reached, outcome, given, skipped, lost, upsets>>
vars == <<guest, backend, external, tasks, loops, store, prompts, recentSent, guestBuf, history>>

Messages == 1 .. MaxSaid
Questions == 1 .. MaxAsks
WebPrompts == Len(SelectSeq(said, LAMBDA ev : ev = <<"prompt", 0>>)) + Len(SelectSeq(sends, LAMBDA m : m = 0))
Prompts == WebPrompts + Cardinality({l \in DOMAIN thread : thread[l] = "mention"})
More == Len(thread) + WebPrompts + asked < MaxActs
NoContext == [has |-> {}, lacks |-> {}]
Upset == upsets < MaxUpsets /\ upsets' = upsets + 1

Init ==
  /\ guest \in BOOLEAN /\ backend = "any"
  /\ created = IF guest THEN 0 ELSE 1
  /\ sends = <<>> /\ turn = 0 /\ open = {} /\ asked = 0 /\ said = <<>>
  /\ thread = <<>> /\ pushes = {}
  /\ seen = {} /\ task = [m \in Messages |-> "none"] /\ arg = [m \in Messages |-> 0] /\ reply = [m \in Messages |-> 0]
  /\ context = [m \in Messages |-> NoContext]
  /\ queue = <<>> /\ work = [at |-> "idle", parts |-> <<>>]
  /\ feed = <<>> /\ perm = [at |-> "idle", q |-> 0] /\ tap = 0 /\ createMu = "free"
  /\ bound = FALSE /\ wm = 0
  /\ posted = {} /\ asks = {} /\ askOf = 0 /\ recentSent = 0 /\ guestBuf = <<>>
  /\ shown = <<>> /\ cards = [q \in Questions |-> 0] /\ roots = 0
  /\ reached = <<>> /\ outcome = [m \in Messages |-> "none"]
  /\ given = {} /\ skipped = {} /\ lost = {} /\ upsets = 0

-----------------------------------------------------------------------------
(* The session, as the plugin sees it, and the people in the chat. *)

Quiet == UNCHANGED <<guest, backend, tasks, work, feed, perm, tap, createMu, store, prompts, recentSent, guestBuf, shown,
                     cards, roots, reached, outcome, given, skipped>>

\* dispatchLoop: to the worker or, its channel full, nowhere.
Dispatch(ev) ==
  /\ said' = Append(said, ev)
  /\ IF Len(queue) < QueueSize
       THEN queue' = Append(queue, Len(said) + 1) /\ UNCHANGED lost
       ELSE lost' = lost \cup {Len(said) + 1} /\ UNCHANGED queue

WebSend ==
  /\ created > 0 /\ More /\ Prompts < MaxPrompts
  /\ sends' = Append(sends, 0)
  /\ UNCHANGED <<created, turn, open, asked, said, thread, pushes, queue, lost>> /\ UNCHANGED upsets /\ Quiet

SaidParts == Len(SelectSeq(said, LAMBDA ev : ev = <<"part">>))

Start ==
  /\ turn = 0 /\ sends # <<>>
  /\ sends' = Tail(sends)
  /\ \E parts \in 0 .. MaxParts - SaidParts : (parts = 0 \/ asked = 0) /\ turn' = parts + 1
  /\ Dispatch(<<"prompt", Head(sends)>>)
  /\ UNCHANGED <<created, open, asked, thread, pushes>> /\ UNCHANGED upsets /\ Quiet

Part ==
  /\ turn > 1 /\ open = {}
  /\ turn' = turn - 1
  /\ Dispatch(<<"part">>)
  /\ UNCHANGED <<created, sends, open, asked, thread, pushes>> /\ UNCHANGED upsets /\ Quiet

\* A turn that succeeds, and one whose end has a reason.
End ==
  /\ turn = 1 /\ open = {}
  /\ turn' = 0
  /\ \/ Dispatch(<<"ended">>) /\ UNCHANGED upsets
     \/ Dispatch(<<"failed">>) /\ Upset
  /\ UNCHANGED <<created, sends, open, asked, thread, pushes>> /\ Quiet

Ask ==
  /\ More /\ turn = 1 /\ SaidParts = 0 /\ asked < MaxAsks
  /\ asked' = asked + 1 /\ open' = open \cup {asked + 1}
  /\ feed' = Append(feed, asked + 1)
  /\ UNCHANGED <<guest, backend, created, sends, turn, said, thread, pushes, tasks, queue, work, perm, tap, createMu>>
  /\ UNCHANGED <<store, prompts, recentSent, guestBuf, history>>

\* Answered elsewhere, or withdrawn.
WebAnswer(q) ==
  /\ open' = open \ {q}
  /\ UNCHANGED <<created, sends, turn, asked, said, thread, pushes, queue, lost>> /\ UNCHANGED upsets /\ Quiet

\* The pending stream drops and connects again: usher replays what is open.
Reconnect ==
  /\ Upset
  /\ feed' = feed \o SetToSeq(open)
  /\ UNCHANGED <<guest, backend, external, tasks, queue, work, perm, tap, createMu, store, prompts, recentSent, guestBuf>>
  /\ UNCHANGED <<shown, cards, roots, reached, outcome, given, skipped, lost>>

\* Someone writes in the thread: a message to the session, or, where the
\* session is a guest's, a line that does not mention the bot.
Write ==
  /\ More /\ Len(thread) < MaxSaid
  /\ guest \/ roots > 0
  /\ \/ /\ Prompts < MaxPrompts
        /\ \/ MaxSessions > 1 \/ bound
           \/ \A m \in Messages : task[m] = "none" /\ m \notin pushes
        /\ thread' = Append(thread, "mention")
        /\ pushes' = pushes \cup {Len(thread) + 1}
     \/ guest /\ thread' = Append(thread, "line") /\ UNCHANGED pushes
  /\ UNCHANGED <<created, sends, turn, open, asked, said, queue, lost>> /\ UNCHANGED upsets /\ Quiet

-----------------------------------------------------------------------------
(* HandleMessage and handleGuest. *)

Goes(m, place) == task' = [task EXCEPT ![m] = place]
Ends(m, how) == Goes(m, "done") /\ outcome' = [outcome EXCEPT ![m] = how]

\* Mutant: nothing remembers what was handled.
NeverHandled(m) == FALSE

\* alreadyHandled.
AlreadyHandled(m) == m \in seen

\* A push is delivered, perhaps to come again. A duplicate goes no further; a
\* message of a thread that is bound is routed by a goroutine, which begins with
\* the guest's watermark; a mention in another thread creates a session, and
\* other messages are nothing to usher.
Push(m) ==
  /\ m \in pushes
  /\ \/ pushes' = pushes \ {m} /\ UNCHANGED upsets
     \/ Upset /\ UNCHANGED pushes
  /\ seen' = seen \cup {m}
  /\ IF AlreadyHandled(m) THEN UNCHANGED <<task, arg, outcome>>
     ELSE CASE bound -> Goes(m, "answer") /\ arg' = [arg EXCEPT ![m] = wm] /\ UNCHANGED outcome
            [] ~bound /\ guest -> Goes(m, "pull") /\ UNCHANGED <<arg, outcome>>
            [] OTHER -> Ends(m, "ignored") /\ UNCHANGED arg
  /\ UNCHANGED <<guest, backend, created, sends, turn, open, asked, said, thread, reply, context, loops, store, prompts, recentSent>>
  /\ UNCHANGED <<guestBuf, shown, cards, roots, reached, given, skipped, lost>>

\* ThreadMessages and transcriptLines: what was written after the watermark,
\* but for the message itself.
Discussion(m, after) == {l \in DOMAIN thread : l > after /\ l # m}

Pulled(m, lines, all) == context' = [context EXCEPT ![m] = [has |-> lines, lacks |-> all \ lines]]

\* ThreadMessages and capGuestLines leave out the oldest of what is too much, however
\* many; a pull that fails has none of it.
Pulls(m, after) ==
  LET all == Discussion(m, after) IN
    \/ \E first \in Messages : Pulled(m, {l \in all : l >= first}, all) /\ UNCHANGED upsets
    \/ Upset /\ Pulled(m, {}, all)

\* guestCreate: the context, createMu, CreateSession, putGuest, recordSent. A
\* mention that begins the thread comes without a thread to pull.
CreatePull(m) ==
  /\ task[m] = "pull"
  /\ Goes(m, "create")
  /\ IF m = 1 THEN UNCHANGED <<context, upsets>> ELSE Pulls(m, 0)
  /\ UNCHANGED <<guest, backend, external, seen, arg, reply, loops, store, prompts, recentSent, guestBuf, shown, cards, roots>>
  /\ UNCHANGED <<reached, outcome, given, skipped, lost>>

\* The prompt of m reaches the session, with its context.
Reaches(m) ==
  /\ reached' = Append(reached, m)
  /\ given' = given \cup context[m].has /\ skipped' = skipped \cup context[m].lacks

CreateSession(m) ==
  /\ task[m] = "create" /\ createMu = "free"
  /\ \/ /\ created < MaxSessions
        /\ created' = created + 1
        /\ sends' = Append(sends, m)
        /\ createMu' = "guest" /\ Goes(m, "bind")
        /\ Reaches(m)
        /\ UNCHANGED <<outcome, upsets>>
     \/ Upset /\ Ends(m, "told") /\ UNCHANGED <<created, sends, createMu, reached, given, skipped>>
  /\ UNCHANGED <<guest, backend, turn, open, asked, said, thread, pushes, seen, arg, reply, context, queue, work, feed, perm, tap>>
  /\ UNCHANGED <<store, prompts, recentSent, guestBuf, shown, cards, roots, lost>>

\* putGuest: bound in memory whether or not the file can be written.
PutGuest(m) ==
  /\ task[m] = "bind"
  /\ bound' = TRUE /\ wm' = m /\ createMu' = "free"
  /\ \/ Goes(m, "made") /\ UNCHANGED <<outcome, upsets>>
     \/ Upset /\ Ends(m, "told")
  /\ UNCHANGED <<guest, backend, external, seen, arg, reply, context, queue, work, feed, perm, tap, prompts, recentSent, guestBuf>>
  /\ UNCHANGED <<shown, cards, roots, reached, given, skipped, lost>>

Created(m) ==
  /\ task[m] = "made"
  /\ recentSent' = m /\ Ends(m, "acked")
  /\ UNCHANGED <<guest, backend, external, seen, arg, reply, context, loops, store, prompts, guestBuf, shown, cards, roots>>
  /\ UNCHANGED <<reached, given, skipped, lost, upsets>>

\* answerByText: a question that waits here is taken, and answered.
TakeForReply(m) ==
  /\ task[m] = "answer"
  /\ IF askOf = 0 THEN Goes(m, "prompt") /\ UNCHANGED <<reply, asks, askOf>>
     ELSE /\ Goes(m, "respond") /\ reply' = [reply EXCEPT ![m] = askOf]
          /\ asks' = asks \ {askOf} /\ askOf' = 0
  /\ UNCHANGED <<guest, backend, external, seen, arg, context, loops, store, posted, recentSent, guestBuf, history>>

Outcome(m, how) == outcome' = [outcome EXCEPT ![m] = how]
Since(m) == IF guest THEN {l \in 1 .. m - 1 : l > arg[m]} ELSE {}

\* Usher takes the answer, or refuses it because the question is closed, and
\* the text becomes a prompt; or the socket fails, and the question is put back.
Respond(m) ==
  /\ task[m] = "respond"
  /\ \/ /\ reply[m] \in open
        /\ open' = open \ {reply[m]} /\ posted' = posted \ {reply[m]}
        /\ reached' = Append(reached, m) /\ Outcome(m, "acked")
        /\ skipped' = skipped \cup Since(m)
        /\ Goes(m, IF guest THEN "mark" ELSE "done")
        /\ UNCHANGED <<asks, askOf, upsets>>
     \/ /\ reply[m] \notin open
        /\ Goes(m, "prompt")
        /\ UNCHANGED <<open, prompts, reached, outcome, skipped, upsets>>
     \/ /\ Upset
        /\ \/ UNCHANGED <<open, reached>>
           \/ reply[m] \in open /\ open' = open \ {reply[m]} /\ reached' = Append(reached, m)
        /\ asks' = asks \cup {reply[m]} /\ askOf' = reply[m]
        /\ Outcome(m, "told") /\ skipped' = skipped \cup Since(m)
        /\ Goes(m, IF guest THEN "mark" ELSE "done")
        /\ UNCHANGED posted
  /\ UNCHANGED <<guest, backend, created, sends, turn, asked, said, thread, pushes, seen, arg, reply, context, loops, store>>
  /\ UNCHANGED <<recentSent, guestBuf, shown, cards, roots, given, lost>>

\* The prompt is recorded as sent before it is; a guest's begins with what was
\* said since the watermark the goroutine read.
Record(m) ==
  /\ task[m] = "prompt"
  /\ Goes(m, "send") /\ recentSent' = m
  /\ IF guest THEN Pulls(m, arg[m]) ELSE UNCHANGED <<context, upsets>>
  /\ UNCHANGED <<guest, backend, external, seen, arg, reply, loops, store, prompts, guestBuf, shown, cards, roots>>
  /\ UNCHANGED <<reached, outcome, given, skipped, lost>>

Arrives(m) == sends' = Append(sends, m) /\ Reaches(m)

\* Mutant: the watermark advances although the send failed.
SendMarks(m) ==
  /\ task[m] = "send"
  /\ \/ Arrives(m) /\ Outcome(m, "acked") /\ UNCHANGED upsets
     \/ Upset /\ Outcome(m, "told") /\ (Arrives(m) \/ UNCHANGED <<sends, reached, given, skipped>>)
  /\ Goes(m, IF guest THEN "mark" ELSE "done")
  /\ UNCHANGED <<guest, backend, created, turn, open, asked, said, thread, pushes, seen, arg, reply, context, loops, store>>
  /\ UNCHANGED <<prompts, recentSent, guestBuf, shown, cards, roots, lost>>

\* SendToSession, and the reaction or the notice.
Send(m) ==
  /\ task[m] = "send"
  /\ \/ /\ Arrives(m) /\ Outcome(m, "acked")
        /\ Goes(m, IF guest THEN "mark" ELSE "done") /\ UNCHANGED upsets
     \/ /\ Upset /\ Outcome(m, "told") /\ Goes(m, "done")
        /\ Arrives(m) \/ UNCHANGED <<sends, reached, given, skipped>>
  /\ UNCHANGED <<guest, backend, created, turn, open, asked, said, thread, pushes, seen, arg, reply, context, loops, store>>
  /\ UNCHANGED <<prompts, recentSent, guestBuf, shown, cards, roots, lost>>

\* setWatermark.
Mark(m) ==
  /\ task[m] = "mark"
  /\ Goes(m, "done") /\ wm' = m
  /\ UNCHANGED <<guest, backend, external, seen, arg, reply, context, loops, bound, prompts, recentSent, guestBuf, history>>

-----------------------------------------------------------------------------
(* rootFor, sessionWorker and permissionLoop. *)

TakeAsk(q) ==
  /\ asks' = asks \ {q}
  /\ askOf' = IF q \in asks THEN 0 ELSE askOf

Idle(l) ==
  IF l = "worker" THEN work' = [at |-> "idle", parts |-> <<>>] /\ UNCHANGED perm
                  ELSE perm' = [at |-> "idle", q |-> 0] /\ UNCHANGED work

At(l) == IF l = "worker" THEN work.at ELSE perm.at

\* Where a loop goes first: to its post, or, no root known, to createMu.
Hit == IF bound THEN "send" ELSE "lock"

\* With its root the permission loop registers the question (registerAsk).
Registers(q, place) ==
  IF place = "send" THEN asks' = asks \cup {q} /\ askOf' = q ELSE UNCHANGED <<asks, askOf>>

Moves(l, place) ==
  IF l = "worker" THEN work' = [work EXCEPT !.at = place] /\ UNCHANGED <<perm, asks, askOf>>
                  ELSE perm' = [perm EXCEPT !.at = place] /\ Registers(perm.q, place) /\ UNCHANGED work

\* What the loop holds is lost: the events, or the claim on the question.
GivesUp(l) ==
  /\ Idle(l)
  /\ IF l = "worker" THEN lost' = lost \cup Range(work.parts) /\ UNCHANGED prompts
                     ELSE posted' = posted \ {perm.q} /\ TakeAsk(perm.q) /\ UNCHANGED lost

\* Mutant: no second look at the store.
LockNoRecheck(l) ==
  /\ At(l) = "lock" /\ createMu = "free"
  /\ createMu' = l /\ Moves(l, "create")
  /\ UNCHANGED <<guest, backend, external, tasks, queue, feed, tap, store, posted, recentSent, guestBuf, history>>

\* createMu, and the second look: guestCreate may have held it.
Lock(l) ==
  /\ At(l) = "lock" /\ createMu = "free"
  /\ IF bound THEN Moves(l, "send") /\ UNCHANGED createMu
              ELSE Moves(l, "create") /\ createMu' = l
  /\ UNCHANGED <<guest, backend, external, tasks, queue, feed, tap, store, posted, recentSent, guestBuf, history>>

\* SendCard.
Create(l) ==
  /\ At(l) = "create"
  /\ \/ /\ Moves(l, "put") /\ roots' = roots + 1
        /\ UNCHANGED <<createMu, posted, lost, upsets>>
     \/ Upset /\ GivesUp(l) /\ createMu' = "free" /\ UNCHANGED roots
  /\ UNCHANGED <<guest, backend, external, tasks, queue, feed, tap, store, recentSent, guestBuf, shown, cards, reached>>
  /\ UNCHANGED <<outcome, given, skipped>>

Put(l) ==
  /\ At(l) = "put"
  /\ bound' = TRUE /\ createMu' = "free" /\ Moves(l, "send")
  /\ UNCHANGED <<guest, backend, external, tasks, queue, feed, tap, wm, posted, recentSent, guestBuf, history>>

Posts(parts) == work' = [at |-> Hit, parts |-> parts]

\* coalesceGuestText: of a guest's turn on codex the last part alone is posted,
\* unless usher cannot be asked which backend it is.
Coalesced(parts) ==
  IF Len(parts) = 1 THEN Posts(parts) /\ UNCHANGED <<backend, upsets>>
  ELSE \/ backend # "codex" /\ backend' = "other" /\ Posts(parts) /\ UNCHANGED upsets
       \/ /\ backend # "other" /\ backend' = "codex"
          /\ \/ Posts(<<Last(parts)>>) /\ UNCHANGED upsets
             \/ Posts(parts) /\ Upset

\* handleEvent: a guest's parts are kept until the turn ends, and dropped when
\* its end has a reason; other events are posted as they come, a prompt unless
\* it was typed here, an end if there is a thread. A part is a text.
Take ==
  /\ work.at = "idle" /\ queue # <<>>
  /\ queue' = Tail(queue)
  /\ LET n == Head(queue)  ev == said[n]  theirs == guest /\ bound
     IN CASE ev[1] = "prompt" /\ ev[2] # 0 /\ ev[2] = recentSent ->
               recentSent' = 0 /\ UNCHANGED <<work, guestBuf, backend, upsets>>
          [] ev[1] = "prompt" /\ (ev[2] = 0 \/ ev[2] # recentSent) ->
               Posts(<<n>>) /\ UNCHANGED <<recentSent, guestBuf, backend, upsets>>
          [] ev[1] = "part" /\ theirs ->
               guestBuf' = Append(guestBuf, n) /\ UNCHANGED <<work, recentSent, backend, upsets>>
          [] ev[1] = "part" /\ ~theirs -> Posts(<<n>>) /\ UNCHANGED <<recentSent, guestBuf, backend, upsets>>
          [] ev[1] = "ended" /\ theirs ->
               /\ IF guestBuf = <<>> THEN UNCHANGED <<work, backend, upsets>> ELSE Coalesced(guestBuf)
               /\ guestBuf' = <<>> /\ UNCHANGED recentSent
          [] ev[1] = "failed" /\ theirs -> guestBuf' = <<>> /\ UNCHANGED <<work, recentSent, backend, upsets>>
          [] ev[1] = "ended" /\ ~theirs /\ bound -> Posts(<<n>>) /\ UNCHANGED <<recentSent, guestBuf, backend, upsets>>
          [] OTHER -> UNCHANGED <<work, recentSent, guestBuf, backend, upsets>>
  /\ UNCHANGED <<guest, external, tasks, feed, perm, tap, createMu, store, prompts>>
  /\ UNCHANGED <<shown, cards, roots, reached, outcome, given, skipped, lost>>

Mirror ==
  /\ work.at = "send"
  /\ \/ shown' = Append(shown, work.parts) /\ Idle("worker") /\ UNCHANGED <<prompts, lost, upsets>>
     \/ Upset /\ GivesUp("worker") /\ UNCHANGED shown
  /\ UNCHANGED <<guest, backend, external, tasks, queue, feed, tap, createMu, store, recentSent, guestBuf, cards, roots>>
  /\ UNCHANGED <<reached, outcome, given, skipped>>

\* claimPending: a replay of a card that is live is skipped.
Pending ==
  /\ perm.at = "idle" /\ feed # <<>>
  /\ feed' = Tail(feed)
  /\ IF Head(feed) \in posted THEN UNCHANGED <<perm, prompts>>
     ELSE /\ perm' = [at |-> Hit, q |-> Head(feed)]
          /\ posted' = posted \cup {Head(feed)} /\ Registers(Head(feed), Hit)
  /\ UNCHANGED <<guest, backend, external, tasks, queue, work, tap, createMu, store, recentSent, guestBuf, history>>

\* ReplyCard.
PostCard ==
  /\ perm.at = "send"
  /\ \/ cards' = [cards EXCEPT ![perm.q] = @ + 1] /\ Idle("perm") /\ UNCHANGED <<prompts, lost, upsets>>
     \/ Upset /\ GivesUp("perm") /\ UNCHANGED cards
  /\ UNCHANGED <<guest, backend, external, tasks, queue, feed, tap, createMu, store, recentSent, guestBuf, shown, roots>>
  /\ UNCHANGED <<reached, outcome, given, skipped>>

\* handleAskAction: peek, and RespondInteraction. A socket that fails leaves
\* card and question for another tap.
Tap(q) ==
  /\ tap = 0 /\ cards[q] > 0 /\ q \in asks
  /\ \/ open' = open \ {q} /\ tap' = q /\ UNCHANGED upsets
     \/ Upset /\ open' \in {open, open \ {q}} /\ UNCHANGED tap
  /\ UNCHANGED <<guest, backend, created, sends, turn, asked, said, thread, pushes, tasks, queue, work, feed, perm, createMu>>
  /\ UNCHANGED <<store, prompts, recentSent, guestBuf, shown, cards, roots, reached, outcome, given, skipped, lost>>

\* takeAsk, and resolved.
Tapped ==
  /\ tap # 0 /\ tap' = 0
  /\ TakeAsk(tap) /\ posted' = posted \ {tap}
  /\ UNCHANGED <<guest, backend, external, tasks, queue, work, feed, perm, createMu, store, recentSent, guestBuf, history>>

Route(m) == Push(m) \/ TakeForReply(m) \/ Respond(m) \/ Record(m) \/ Send(m) \/ Mark(m)
GuestCreate(m) == CreatePull(m) \/ CreateSession(m) \/ PutGuest(m) \/ Created(m)

Next ==
  \/ WebSend \/ Start \/ Part \/ End \/ Ask \/ Reconnect \/ Write
  \/ \E q \in open : WebAnswer(q)
  \/ \E m \in Messages : Route(m) \/ GuestCreate(m)
  \/ \E l \in {"worker", "perm"} : Lock(l) \/ Create(l) \/ Put(l)
  \/ Take \/ Mirror \/ Pending \/ PostCard \/ Tapped \/ \E q \in Questions : Tap(q)

Spec == Init /\ [][Next]_vars

-----------------------------------------------------------------------------
\* A message that usher reacted to reached the session, as an answer or as a
\* prompt, and none reaches it twice although pushes come again
\* (plugins/lark/hub.go:1000, :213).
Once ==
  /\ \A m \in Messages : outcome[m] = "acked" => m \in Range(reached)
  /\ IsInjective(reached)

\* A question counts as posted, and takes typed answers, only while a card
\* shows it or is on its way, so that the replay after a reconnect posts the
\* one that failed; and it has a second card only when it is closed
\* (plugins/lark/hub.go:341, :1919).
CardsLive ==
  /\ \A q \in posted \cup asks : cards[q] > 0 \/ perm.q = q \/ \E m \in Messages : reply[m] = q
  /\ \A q \in open : cards[q] <= 1

\* What is typed in a thread, and what is asked there, arrives once.
Relays == Once /\ CardsLive

\* A session has one root message; a guest's is the mention
\* (plugins/lark/hub.go:705, :914).
OneRoot == roots <= IF guest THEN 0 ELSE 1

TurnOf(n) == Cardinality({k \in 1 .. n : said[k][1] = "prompt"})

\* A guest's turn is one message: the parts of that turn and of no other, in
\* order and with none missing, or for codex the last of them, but for events that
\* were lost and the parts that came before the session was bound
\* (plugins/lark/hub.go:423, :460).
Whole ==
  \A i \in DOMAIN shown :
    LET parts == shown[i]
        mates == {n \in DOMAIN said : said[n] = <<"part">> /\ TurnOf(n) = TurnOf(parts[1])}
        owed == {n \in mates : backend = "codex" => \A k \in mates \ lost : k <= n}
    IN
      /\ \A j \in 1 .. Len(parts) - 1 : parts[j] < parts[j + 1]
      /\ Len(parts) > 1 => Cardinality({TurnOf(n) : n \in Range(parts)}) = 1 \/ \E n \in lost : said[n][1] \in {"ended", "failed"}
      /\ guest /\ said[parts[1]] = <<"part">> =>
           \A n \in owed : n \in Range(parts) \cup lost \/ <<n>> \in Range(shown)

\* Nothing of a discussion falls between two watermarks: what was written
\* before the last one was in a prompt, was a message to the session itself,
\* or was passed over by an answer, or by a prompt that went without it, its pull
\* failed or the oldest of its lines cut, as too many or too long
\* (plugins/lark/hub.go:950, :1558).
ContextGiven ==
  \A l \in 1 .. wm : l \in given \cup skipped \cup Range(reached) \/ outcome[l] = "told"

\* What a guest's discussion and its session are to each other.
Guests == OneRoot /\ Whole /\ ContextGiven

\* "The first mention creates a new usher session rooted at that Lark message.
\* Later mentions in the same thread are turn boundaries"
\* (plugins/lark/README.md:63).
OneSession == created <= 1
=============================================================================
