------------------------------ MODULE Telegram ------------------------------
(***************************************************************************)
(* The Telegram hub and one session (pkg/telegram): a worker mirrors the   *)
(* session's events into a forum topic, the permission loop posts its      *)
(* questions there, the poll loop takes what users type and tap, and the   *)
(* reconcile loop closes the topic of a deleted session. The four meet at  *)
(* the topic store, at createMu, at the table of questions and at the last *)
(* prompt sent. The session itself, its users at other frontends and       *)
(* Telegram's servers are external. Every event has a number: its place in *)
(* said.                                                                   *)
(***************************************************************************)
EXTENDS Naturals, Sequences, FiniteSets, SequencesExt

CONSTANTS
  Texts,       \* what people type, in the order they type it here
  WebTexts,    \* what they send from elsewhere
  QueueSize,   \* events the worker's channel holds (hub.go:116)
  MaxWeb,      \* bound: prompts sent from elsewhere
  MaxParts,    \* bound: parts of all turns, and none beside a question
  MaxAsks,     \* bound: questions the agent asks
  MaxUpsets,   \* bound: calls of Telegram or of the disk that fail, and restarts
  MaxTopics,   \* bound: topics created
  None         \* no text

VARIABLES
  \* external: the session, and Telegram's servers
  exists,      \* the router knows the session
  sends,       \* prompts taken and not started, each [from, text]
  turn,        \* 0, or one more than the parts still to come
  open,        \* questions that wait for an answer
  asked,       \* questions asked so far; a question is its number
  said,        \* history: the events published, in order
  updates,     \* what users sent, in order
  confirmed,   \* updates Telegram will not deliver again
  closed,      \* topics that were closed
  made,        \* topics created so far; a topic is its number
  \* the hub
  queue,       \* the worker's channel: numbers of events
  feed,        \* the permission loop's channel: questions
  at,          \* where each loop is
  item,        \* the event, question or update it handles
  arg,         \* the topic it was given; for poll, the question it answers
  createMu,    \* the loop that holds createMu, or "free"
  topic,       \* the store's topic of the session, 0 for none
  disk,        \* the topic in the store's file
  offset,      \* the next update to ask for, 0 after a start
  fetched,     \* the last update of the batch in hand
  recentSent,  \* the last prompt forwarded from Telegram, or None
  asks,        \* the questions that wait here, each with its topic
  asksByThread, \* the question a topic's next message answers, 0 for none
  \* history and bounds
  shown,       \* the events that were mirrored, in order
  cards,       \* the questions that were posted, each with its topic
  recorded,    \* the updates whose text was recorded as sent
  reached,     \* the updates that reached the session
  acked,       \* the updates usher reacted to
  lost,        \* events that were dropped, failed, or died with the process
  upsets       \* calls that failed, and restarts

external == <<exists, sends, turn, open, asked, said, updates, confirmed, closed, made>>
loops == <<at, item, arg, createMu>>
store == <<topic, disk>>
poll == <<offset, fetched>>
questions == <<asks, asksByThread>>
chat == <<shown, cards>>
history == <<recorded, reached, acked, lost, upsets>>
vars == <<external, queue, feed, loops, store, poll, recentSent, questions, chat, history>>

Loops == {"worker", "perm", "poll", "reconcile"}
Threads == 1 .. made
NoAsks == [q \in 1 .. MaxAsks |-> 0]
NoIndex == [t \in 1 .. MaxTopics |-> 0]
At(l, place) == at' = [at EXCEPT ![l] = place]
Moves(l, from, to) == at[l] = from /\ At(l, to)

Init ==
  /\ exists = TRUE /\ sends = <<>> /\ turn = 0 /\ open = {} /\ asked = 0 /\ said = <<>>
  /\ updates = <<>> /\ confirmed = 0 /\ closed = {} /\ made = 0
  /\ queue = <<>> /\ feed = <<>>
  /\ at = [l \in Loops |-> "idle"]
  /\ item = [l \in Loops |-> 0]
  /\ arg = [l \in Loops |-> 0]
  /\ createMu = "free"
  /\ topic = 0 /\ disk = 0
  /\ offset = 0 /\ fetched = 0
  /\ recentSent = None
  /\ asks = NoAsks /\ asksByThread = NoIndex
  /\ shown = <<>> /\ cards = {} /\ recorded = <<>> /\ reached = <<>> /\ acked = {} /\ lost = {}
  /\ upsets = 0

-----------------------------------------------------------------------------
(* The session, as the hub sees it. *)

\* dispatchLoop: the event goes to the session's worker or, its channel full,
\* nowhere.
Dispatch(ev) ==
  /\ said' = Append(said, ev)
  /\ IF Len(queue) < QueueSize
       THEN queue' = Append(queue, Len(said) + 1) /\ UNCHANGED lost
       ELSE lost' = lost \cup {Len(said) + 1} /\ UNCHANGED queue

Elsewhere == UNCHANGED <<feed, loops, store, poll, recentSent, questions, chat, recorded, reached, acked, upsets>>

WebSend ==
  /\ exists
  /\ Cardinality({i \in DOMAIN said : said[i][1] = "prompt" /\ said[i][2] = "web"})
       + Len(SelectSeq(sends, LAMBDA p : p[1] = "web")) < MaxWeb
  /\ \E text \in WebTexts : sends' = Append(sends, <<"web", text>>)
  /\ UNCHANGED <<exists, turn, open, asked, said, updates, confirmed, closed, made, queue, lost>>
  /\ Elsewhere

SaidParts == Len(SelectSeq(said, LAMBDA ev : ev = <<"part">>))

Start ==
  /\ exists /\ turn = 0 /\ sends # <<>>
  /\ sends' = Tail(sends)
  /\ \E parts \in 0 .. MaxParts - SaidParts : (parts = 0 \/ asked = 0) /\ turn' = parts + 1
  /\ Dispatch(<<"prompt">> \o Head(sends))
  /\ UNCHANGED <<exists, open, asked, updates, confirmed, closed, made>>
  /\ Elsewhere

Part ==
  /\ turn > 1 /\ open = {}
  /\ turn' = turn - 1
  /\ Dispatch(<<"part">>)
  /\ UNCHANGED <<exists, sends, open, asked, updates, confirmed, closed, made>>
  /\ Elsewhere

\* The end that a topic hears of: turn.ended of a turn that succeeded, or
\* turn.failed; both are handled alike.
End ==
  /\ turn = 1 /\ open = {}
  /\ turn' = 0
  /\ Dispatch(<<"ended">>)
  /\ UNCHANGED <<exists, sends, open, asked, updates, confirmed, closed, made>>
  /\ Elsewhere

Ask ==
  /\ turn = 1 /\ SaidParts = 0 /\ asked < MaxAsks
  /\ asked' = asked + 1
  /\ open' = open \cup {asked + 1}
  /\ feed' = Append(feed, asked + 1)
  /\ UNCHANGED <<exists, sends, turn, said, updates, confirmed, closed, made, queue, lost>>
  /\ UNCHANGED <<loops, store, poll, recentSent, questions, chat, recorded, reached, acked, upsets>>

\* Answered at another frontend, or withdrawn by its backend.
WebAnswer(q) ==
  /\ open' = open \ {q}
  /\ UNCHANGED <<exists, sends, turn, asked, said, updates, confirmed, closed, made, queue, lost>>
  /\ Elsewhere

Delete ==
  /\ exists /\ turn = 0
  /\ exists' = FALSE /\ sends' = <<>>
  /\ UNCHANGED <<turn, open, asked, said, updates, confirmed, closed, made, queue, lost>>
  /\ Elsewhere

TypedSoFar == Len(SelectSeq(updates, LAMBDA u : u[1] = "text"))

\* A user types in a topic, or taps an option of a question shown there.
User ==
  /\ \E t \in Threads \ closed :
       \/ /\ TypedSoFar < Len(Texts)
          /\ updates' = Append(updates, <<"text", t, Texts[TypedSoFar + 1]>>)
       \/ \E q \in 1 .. asked :
            /\ <<t, q>> \in cards /\ \A u \in Range(updates) : u # <<"tap", t, q>>
            /\ updates' = Append(updates, <<"tap", t, q>>)
  /\ UNCHANGED <<exists, sends, turn, open, asked, said, confirmed, closed, made, queue, lost>>
  /\ Elsewhere

-----------------------------------------------------------------------------
(* topicFor, for the worker and the permission loop. *)

Fail == upsets < MaxUpsets /\ upsets' = upsets + 1

Given(l, t) == arg' = [arg EXCEPT ![l] = t]

\* A loop has its topic: the worker goes on to the message, the permission loop
\* registers its question first (putAsk), by id and by topic.
Has(l, q, t) ==
  /\ At(l, "send") /\ Given(l, t)
  /\ IF l = "perm"
       THEN /\ asks' = [asks EXCEPT ![q] = t]
            /\ asksByThread' = [asksByThread EXCEPT ![t] = q]
       ELSE UNCHANGED questions

\* The store's lock-free hit, or on to createMu.
TopicFor(l, q) ==
  IF topic # 0 THEN Has(l, q, topic)
               ELSE At(l, "lock") /\ UNCHANGED <<arg, questions>>

\* Mutant: no second look at the store.
LockNoRecheck(l) ==
  /\ Moves(l, "lock", "create")
  /\ createMu = "free" /\ createMu' = l
  /\ UNCHANGED <<external, queue, feed, item, arg, store, poll, recentSent, questions, chat, history>>

\* createMu, and the second look at the store.
Lock(l) ==
  /\ at[l] = "lock" /\ createMu = "free"
  /\ IF topic # 0 THEN Has(l, item[l], topic) /\ UNCHANGED createMu
                  ELSE At(l, "create") /\ createMu' = l /\ UNCHANGED <<arg, questions>>
  /\ UNCHANGED <<external, queue, feed, item, store, poll, recentSent, chat, history>>

Dropped(l) == IF l = "worker" THEN lost' = lost \cup {item[l]} ELSE UNCHANGED lost

\* CreateForumTopic.
Create(l) ==
  /\ at[l] = "create"
  /\ \/ made < MaxTopics /\ made' = made + 1 /\ At(l, "put") /\ Given(l, made + 1)
        /\ UNCHANGED <<createMu, upsets, lost>>
     \/ Fail /\ At(l, "idle") /\ createMu' = "free" /\ Dropped(l) /\ UNCHANGED <<made, arg>>
  /\ UNCHANGED <<exists, sends, turn, open, asked, said, updates, confirmed, closed, queue, feed, item>>
  /\ UNCHANGED <<store, poll, recentSent, questions, chat, recorded, reached, acked>>

\* store.put: the map is written in memory whether or not its file can be.
Put(l) ==
  /\ at[l] = "put"
  /\ Has(l, item[l], arg[l])
  /\ topic' = arg[l]
  /\ \/ disk' = arg[l] /\ UNCHANGED upsets
     \/ Fail /\ UNCHANGED disk
  /\ createMu' = "free"
  /\ UNCHANGED <<external, queue, feed, item, poll, recentSent, chat, recorded, reached, acked, lost>>

-----------------------------------------------------------------------------
(* sessionWorker. *)

\* handleEvent up to its first call: an echo of what was typed here is
\* dropped, and the end of a turn goes to a topic that exists or nowhere.
Take ==
  /\ at["worker"] = "idle" /\ queue # <<>>
  /\ queue' = Tail(queue)
  /\ item' = [item EXCEPT !["worker"] = Head(queue)]
  /\ LET ev == said[Head(queue)] IN
       CASE ev[1] = "prompt" /\ ev[3] = recentSent ->
              recentSent' = None /\ UNCHANGED <<at, arg, questions>>
         [] ev[1] = "ended" /\ topic = 0 -> UNCHANGED <<at, arg, questions, recentSent>>
         [] OTHER -> TopicFor("worker", 0) /\ UNCHANGED recentSent
  /\ UNCHANGED <<external, feed, createMu, store, poll, chat, history>>

Mirror ==
  /\ Moves("worker", "send", "idle")
  /\ \/ /\ arg["worker"] \notin closed
        /\ shown' = Append(shown, item["worker"])
        /\ UNCHANGED <<upsets, lost>>
     \/ /\ arg["worker"] \in closed
        /\ lost' = lost \cup {item["worker"]} /\ UNCHANGED <<shown, upsets>>
     \/ Fail /\ lost' = lost \cup {item["worker"]} /\ UNCHANGED shown
  /\ Given("worker", 0)
  /\ UNCHANGED <<external, queue, feed, item, createMu, store, poll, recentSent, questions, cards, recorded, reached, acked>>

-----------------------------------------------------------------------------
(* permissionLoop: every request is a question with options. *)

Pending ==
  /\ at["perm"] = "idle" /\ feed # <<>>
  /\ feed' = Tail(feed)
  /\ item' = [item EXCEPT !["perm"] = Head(feed)]
  /\ TopicFor("perm", Head(feed))
  /\ UNCHANGED <<external, queue, createMu, store, poll, recentSent, chat, history>>

\* takeAsk: the question and its topic's index, whichever question that names.
TakeAsk(q) ==
  /\ asks' = [asks EXCEPT ![q] = 0]
  /\ asksByThread' = IF asks[q] = 0 THEN asksByThread ELSE [asksByThread EXCEPT ![asks[q]] = 0]

\* sendAskPrompt.
Prompt ==
  /\ Moves("perm", "send", "idle")
  /\ \/ /\ arg["perm"] \notin closed
        /\ cards' = cards \cup {<<arg["perm"], item["perm"]>>}
        /\ UNCHANGED <<questions, upsets>>
     \/ arg["perm"] \in closed /\ TakeAsk(item["perm"]) /\ UNCHANGED <<cards, upsets>>
     \/ Fail /\ TakeAsk(item["perm"]) /\ UNCHANGED cards
  /\ Given("perm", 0)
  /\ UNCHANGED <<external, queue, feed, item, createMu, store, poll, recentSent, shown, recorded, reached, acked, lost>>

-----------------------------------------------------------------------------
(* pollLoop. *)

NextUpdate == IF offset = 0 THEN confirmed + 1 ELSE offset

\* GetUpdates: what is below the offset is confirmed, the rest is delivered.
\* After a start the offset is 0, and all that is not confirmed comes again.
Fetch ==
  /\ at["poll"] = "idle" /\ NextUpdate > fetched
  /\ confirmed < NextUpdate - 1 \/ Len(updates) >= NextUpdate
  /\ confirmed' = NextUpdate - 1
  /\ fetched' = Len(updates)
  /\ UNCHANGED <<exists, sends, turn, open, asked, said, updates, closed, made, queue, feed, loops, store, offset>>
  /\ UNCHANGED <<recentSent, questions, chat, history>>

Received(kind) ==
  /\ at["poll"] = "idle" /\ NextUpdate <= fetched
  /\ updates[NextUpdate][1] = kind
  /\ offset' = NextUpdate + 1
  /\ item' = [item EXCEPT !["poll"] = NextUpdate]
  /\ UNCHANGED <<external, queue, feed, createMu, store, fetched, chat, reached, acked, lost, upsets>>

Unrecorded == UNCHANGED <<recentSent, recorded>>

\* recordSent.
RecordSent(m) ==
  /\ recentSent' = updates[m][3]
  /\ recorded' = Append(recorded, m)

\* handleInbound up to its call: a question of the topic takes the text
\* (takeAskByThread), else it is a prompt for the session bound to the topic.
HandleInbound ==
  /\ Received("text")
  /\ LET t == updates[NextUpdate][2] IN
       CASE asksByThread[t] # 0 ->
              /\ At("poll", "answer") /\ Given("poll", asksByThread[t])
              /\ asks' = [asks EXCEPT ![asksByThread[t]] = 0]
              /\ asksByThread' = [asksByThread EXCEPT ![t] = 0]
              /\ Unrecorded
         [] asksByThread[t] = 0 /\ t = topic ->
              At("poll", "post") /\ RecordSent(NextUpdate) /\ UNCHANGED <<arg, questions>>
         [] OTHER -> Unrecorded /\ UNCHANGED <<at, arg, questions>>

\* handleAskCallback: a question that is not registered has expired.
HandleTap ==
  /\ Received("tap")
  /\ LET q == updates[NextUpdate][3] IN
       IF asks[q] = 0 THEN UNCHANGED <<at, arg, questions>>
                      ELSE At("poll", "answer") /\ Given("poll", q) /\ TakeAsk(q)
  /\ Unrecorded

React(m) == acked' = acked \cup {m}

\* RespondInteraction: refused when the question is not open any more. A typed
\* answer is reacted to either way (answerByText), a tap gets a toast.
Answer ==
  /\ Moves("poll", "answer", "idle")
  /\ open' = open \ {arg["poll"]}
  /\ reached' = IF arg["poll"] \in open THEN Append(reached, item["poll"]) ELSE reached
  /\ IF updates[item["poll"]][1] = "text" THEN React(item["poll"]) ELSE UNCHANGED acked
  /\ UNCHANGED <<exists, sends, turn, asked, said, updates, confirmed, closed, made, queue, feed, item, createMu>>
  /\ Given("poll", 0)
  /\ UNCHANGED <<store, poll, recentSent, questions, chat, recorded, lost, upsets>>

\* SendToSession: refused for a session that is gone; the topic is told.
Post ==
  /\ Moves("poll", "post", "idle")
  /\ IF exists
       THEN /\ sends' = Append(sends, <<"chat", updates[item["poll"]][3]>>)
            /\ reached' = Append(reached, item["poll"])
            /\ React(item["poll"])
       ELSE UNCHANGED <<sends, reached, acked>>
  /\ UNCHANGED <<exists, turn, open, asked, said, updates, confirmed, closed, made, queue, feed, item, arg, createMu>>
  /\ UNCHANGED <<store, poll, recentSent, questions, chat, recorded, lost, upsets>>

-----------------------------------------------------------------------------
(* reconcileLoop, and a restart of usher. *)

\* The topic of a session that is gone is closed, and then its mapping dropped
\* whether or not that worked.
Close ==
  /\ topic # 0 /\ ~exists
  /\ Moves("reconcile", "idle", "drop") /\ Given("reconcile", topic)
  /\ \/ closed' = closed \cup {topic} /\ UNCHANGED upsets
     \/ Fail /\ UNCHANGED closed
  /\ UNCHANGED <<exists, sends, turn, open, asked, said, updates, confirmed, made, queue, feed, item, createMu, store>>
  /\ UNCHANGED <<poll, recentSent, questions, chat, recorded, reached, acked, lost>>

Drop ==
  /\ Moves("reconcile", "drop", "idle")
  /\ topic' = 0
  /\ \/ disk' = 0 /\ UNCHANGED upsets
     \/ Fail /\ UNCHANGED disk
  /\ Given("reconcile", 0)
  /\ UNCHANGED <<external, queue, feed, item, createMu, poll, recentSent, questions, chat, recorded, reached, acked, lost>>

\* NewHub and Run after a crash or a stop: the topic store is read back, the
\* rest is empty; the session's turn and its queue died with usher.
Restart ==
  /\ Fail
  /\ sends' = <<>> /\ turn' = 0 /\ open' = {}
  /\ queue' = <<>> /\ feed' = <<>>
  /\ at' = [l \in Loops |-> "idle"] /\ arg' = [l \in Loops |-> 0] /\ createMu' = "free"
  /\ topic' = disk
  /\ offset' = 0 /\ fetched' = confirmed
  /\ recentSent' = None /\ asks' = NoAsks /\ asksByThread' = NoIndex
  /\ lost' = lost \cup Range(queue) \cup (IF at["worker"] = "idle" THEN {} ELSE {item["worker"]})
  /\ UNCHANGED <<exists, said, updates, confirmed, closed, made, item, asked, disk, chat, recorded, reached, acked>>

Next ==
  \/ WebSend \/ Start \/ Part \/ End \/ Delete \/ User
  \/ Ask \/ \E q \in open : WebAnswer(q)
  \/ \E l \in {"worker", "perm"} : Lock(l) \/ Create(l) \/ Put(l)
  \/ Take \/ Mirror \/ Pending \/ Prompt
  \/ Fetch \/ HandleInbound \/ HandleTap \/ Answer \/ Post
  \/ Close \/ Drop \/ Restart

Spec == Init /\ [][Next]_vars

-----------------------------------------------------------------------------
BeingMade == {arg[l] : l \in {l \in {"worker", "perm"} : at[l] = "put"}}

\* The worker and the permission loop never make two topics for one session:
\* a topic that is open is the session's, except one per restart that died
\* before the store's file knew it, and one per close that failed
\* (pkg/telegram/hub.go:688).
OneTopic == upsets >= Cardinality(Threads \ (closed \cup {topic} \cup BeingMade))

Typed(text) == \E m \in Range(recorded) : updates[m][3] = text
Twice(text) == \E k \in DOMAIN said : said[k] = <<"prompt", "web", text>>

\* What happened to an event once the worker is done with it: parts and other
\* people's prompts are shown, a prompt typed in the topic is not, unless what
\* was typed next took its place (pkg/telegram/hub.go:428, :723).
Handled(n) ==
  CASE said[n] = <<"part">> -> n \in Range(shown)
    [] said[n][1] = "prompt" /\ said[n][2] = "web" -> n \in Range(shown) \/ Typed(said[n][3])
    [] said[n][1] = "prompt" /\ said[n][2] = "chat" ->
         n \in Range(shown) => Len(recorded) > 1 \/ upsets > 0 \/ Twice(said[n][3])
    [] OTHER -> TRUE

\* The topic tells the session's story: in order, nothing twice, and nothing
\* missing but what was dropped or failed (pkg/telegram/hub.go:141, :428).
Mirrors ==
  /\ OneTopic
  /\ \A i, j \in DOMAIN shown : i < j => shown[i] < shown[j]
  /\ \A n \in DOMAIN said :
       n \notin lost \cup Range(queue) /\ (at["worker"] = "idle" \/ item["worker"] # n) => Handled(n)

\* "React ... to confirm the message reached the session"
\* (pkg/telegram/hub.go:385).
AckReached == acked \subseteq Range(reached)

\* "A pending AskUserQuestion in this topic claims the reply as its answer (the
\* session is blocked waiting), rather than starting a new prompt"
\* (pkg/telegram/hub.go:365).
Claimed ==
  [][\A q \in open :
       Len(recorded') > Len(recorded) => <<updates[item'["poll"]][2], q>> \notin cards]_vars
=============================================================================
