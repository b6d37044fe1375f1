------------------------------ MODULE MCRecords ------------------------------
(***************************************************************************)
(* What usher reads back and tells, side by side: the pages of a           *)
(* conversation, the register of the sessions' logs, the scheduled tasks,  *)
(* and the two chat bridges.  They share no state: a behaviour is one      *)
(* component's, as kind says, within its bounds, and the variables of the  *)
(* others are 0 throughout.                                                *)
(***************************************************************************)
EXTENDS Integers, Sequences

CONSTANT NoText  \* no text, no topic and no event of Telegram

VARIABLES
  kind,  \* the component of this behaviour
  \* Transcripts
  format, log, kinds, grows, asks, shown, hasEarlier, loads, earlier, sig,
  read, straddled,
  \* Discovery
  file, discoveryLog, events, session, path, reading, readings, at, target,
  entire, hold, failed, seen, completed, told, raced, sent, acts,
  \* Schedule
  zone, now, tasks, made, since, upto, due, fireMu, hand, began, since0, ran,
  twice, edits,
  \* Telegram and Lark
  sends, turn, open, asked, said, queue, feed, createMu, recentSent, askers,
  posts, cards, reached, lost, upsets,
  \* Telegram
  exists, updates, confirmed, closed, topicsMade, place, item, arg, topic, disk,
  offset, fetched, asksByThread, recorded, acked,
  \* Lark
  guest, backend, created, thread, pushes, handled, task, mark, reply, context,
  work, perm, tap, bound, wm, posted, askOf, guestBuf, roots, outcome, given,
  skipped

transcriptsVars == <<format, log, kinds, grows, asks, shown, hasEarlier,
    loads, earlier, sig, read, straddled>>
discoveryVars == <<file, discoveryLog, events, session, path, reading,
    readings, at, target, entire, hold, failed, seen, completed, told, raced,
    sent, acts>>
scheduleVars == <<zone, now, tasks, made, since, upto, due, fireMu, hand,
    began, since0, ran, twice, edits>>
chatVars == <<sends, turn, open, asked, said, queue, feed, createMu, recentSent,
    askers, posts, cards, reached, lost, upsets>>
telegramVars == <<exists, updates, confirmed, closed, topicsMade, place, item,
    arg, topic, disk, offset, fetched, asksByThread, recorded, acked>>
larkVars == <<guest, backend, created, thread, pushes, handled, task, mark, reply,
    context, work, perm, tap, bound, wm, posted, askOf, guestBuf, roots,
    outcome, given, skipped>>
vars == <<kind, transcriptsVars, discoveryVars, scheduleVars, chatVars,
    telegramVars, larkVars>>

-----------------------------------------------------------------------------
\* A tab on a log that still grows by some records of some kinds.
LOCAL Case(fmt, start, ks, n, m) ==
  [format |-> fmt, log |-> start, kinds |-> ks, grows |-> n, asks |-> m]

\* Three rounds of a prompt and an answer.
LOCAL Rounds(first, second) == <<first, second, first, second, first, second>>

LOCAL Claude == Rounds(<<"prompt", 0>>, <<"text", 1>>)
LOCAL ClaudeCases ==
  {Case("claude", Claude, {"text", "prompt", "compact"}, 2, 3),
   Case("claude", Claude, {"call", "result", "meta", "prompt"}, 4, 1),
   Case("claude", Claude, {"call", "silent", "error", "boiler", "ended"}, 3, 1)}

LOCAL Codex == Rounds(<<"user", 0>>, <<"text", 0>>)
LOCAL Ran == <<<<"user", 0>>, <<"exec", <<"run", 0>>>>,
               <<"chunk", [of |-> 2, session |-> 1, printed |-> TRUE]>>>>
LOCAL CodexCases ==
  {Case("codex", <<<<"context", 1>>>> \o Codex, {"context", "user", "done"}, 1, 3),
   Case("codex", Codex, {"mcp", "call", "output", "event", "compact", "abort"}, 3, 1),
   Case("codex", Ran, {"exec", "chunk", "command", "item"}, 4, 0),
   Case("codex", Ran \o Codex, {"exec", "chunk", "command"}, 3, 1)}

\* Each record hangs off the one before it.
LOCAL Pi == [n \in 1 .. 6 |-> <<Rounds("user", "text")[n], n - 1, (n + 1) % 2>>]
LOCAL PiCases ==
  {Case("pi", Pi, {"user", "text", "failed"}, 2, 3),
   Case("pi", Pi, {"call", "result", "shown", "hidden", "compaction"}, 3, 1)}

MCLogs == ClaudeCases \cup CodexCases \cup PiCases
MCTails == <<1, 2>>

\* Cron expressions and zones, on a calendar of two minutes to the hour, three
\* hours to the day and two days to the month.
LOCAL Star == <<<<"*", 1>>>>
LOCAL Is(v) == <<<<"a", v, 1>>>>

\* Every minute; one minute of an hour; a range; steps, with a month; a day
\* of the month or of the week; a step of days or of days of the week.
MCCrons ==
  {<<Star, Star, Star, Star, Star>>,
   <<Is(1), Is(1), Star, Star, Star>>,
   <<Is(0), <<<<"a-b", 1, 2, 1>>>>, Star, Star, Star>>,
   <<Is(1), <<<<"*", 2>>>>, Star, Is(2), Star>>,
   <<Is(0), Is(0), Is(2), Star, Is(1)>>,
   <<Is(0), Is(0), <<<<"*", 2>>>>, Star, <<<<"a", 1, 2>>>>>>}

\* No change of the clock; an hour forward, west or east of Greenwich, or later.
MCZones ==
  {[at |-> 1000, shift |-> 0, west |-> TRUE], [at |-> 4, shift |-> 4, west |-> TRUE],
   [at |-> 4, shift |-> 4, west |-> FALSE], [at |-> 12, shift |-> 4, west |-> TRUE]}

-----------------------------------------------------------------------------
Pages == INSTANCE Transcripts WITH Logs <- MCLogs, Page <- 2,
  EarlierPage <- 1, Probe <- 2, Budget <- 8, SpanMax <- 8, Warm <- 2
Registry == INSTANCE Discovery WITH Sparse <- TRUE, HeadMax <- 1,
  Tails <- MCTails, MaxLines <- 3, MaxActs <- 2, log <- discoveryLog
Timetable == INSTANCE Schedule WITH Minutes <- 2, Hours <- 3, Days <- 2,
  Months <- 2, Week <- 3, Ahead <- 1, Zones <- MCZones, Crons <- MCCrons,
  Starts <- {1}, MaxTasks <- 2, MaxEdits <- 1, MaxNow <- 6
Topics == INSTANCE Telegram WITH None <- NoText, Texts <- <<"x">>, WebTexts <- {"w"},
  QueueSize <- 1, MaxWeb <- 1, MaxParts <- 1, MaxAsks <- 1, MaxUpsets <- 1,
  MaxTopics <- 3, asks <- askers, shown <- posts, made <- topicsMade,
  at <- place
Threads == INSTANCE Lark WITH QueueSize <- 1, MaxSaid <- 3, MaxPrompts <- 2,
  MaxActs <- 3, MaxParts <- 2, MaxAsks <- 1, MaxUpsets <- 1, MaxSessions <- 1,
  asks <- askers, shown <- posts, seen <- handled, arg <- mark

\* The variables of a component that has no part in the behaviour.
NoTranscripts ==
  /\ format = 0 /\ log = 0 /\ kinds = 0 /\ grows = 0 /\ asks = 0 /\ shown = 0
  /\ hasEarlier = 0 /\ loads = 0 /\ earlier = 0 /\ sig = 0 /\ read = 0
  /\ straddled = 0
NoDiscovery ==
  /\ file = 0 /\ discoveryLog = 0 /\ events = 0 /\ session = 0 /\ path = 0
  /\ reading = 0 /\ readings = 0 /\ at = 0 /\ target = 0 /\ entire = 0
  /\ hold = 0 /\ failed = 0 /\ seen = 0 /\ completed = 0 /\ told = 0
  /\ raced = 0 /\ sent = 0 /\ acts = 0
NoSchedule ==
  /\ zone = 0 /\ now = 0 /\ tasks = 0 /\ made = 0 /\ since = 0 /\ upto = 0
  /\ due = 0 /\ fireMu = 0 /\ hand = 0 /\ began = 0 /\ since0 = 0 /\ ran = 0
  /\ twice = 0 /\ edits = 0
NoChat ==
  /\ sends = 0 /\ turn = 0 /\ open = 0 /\ asked = 0 /\ said = 0 /\ queue = 0
  /\ feed = 0 /\ createMu = 0 /\ recentSent = 0 /\ askers = 0 /\ posts = 0
  /\ cards = 0 /\ reached = 0 /\ lost = 0 /\ upsets = 0
NoTelegram ==
  /\ exists = 0 /\ updates = 0 /\ confirmed = 0 /\ closed = 0
  /\ topicsMade = 0 /\ place = 0 /\ item = 0 /\ arg = 0 /\ topic = 0
  /\ disk = 0 /\ offset = 0 /\ fetched = 0 /\ asksByThread = 0
  /\ recorded = 0 /\ acked = 0
NoLark ==
  /\ guest = 0 /\ backend = 0 /\ created = 0 /\ thread = 0 /\ pushes = 0
  /\ handled = 0 /\ task = 0 /\ mark = 0 /\ reply = 0 /\ context = 0
  /\ work = 0 /\ perm = 0 /\ tap = 0 /\ bound = 0 /\ wm = 0 /\ posted = 0
  /\ askOf = 0 /\ guestBuf = 0 /\ roots = 0 /\ outcome = 0 /\ given = 0
  /\ skipped = 0

\* The components but this one.
NoneBut(k) ==
  /\ k # "transcripts" => NoTranscripts
  /\ k # "discovery" => NoDiscovery
  /\ k # "schedule" => NoSchedule
  /\ k \notin {"telegram", "lark"} => NoChat
  /\ k # "telegram" => NoTelegram
  /\ k # "lark" => NoLark

Init ==
  \/ kind = "transcripts" /\ Pages!Init /\ NoneBut("transcripts")
  \/ kind = "discovery" /\ Registry!Init /\ NoneBut("discovery")
  \/ kind = "schedule" /\ Timetable!Init /\ NoneBut("schedule")
  \/ kind = "telegram" /\ Topics!Init /\ NoneBut("telegram")
  \/ kind = "lark" /\ Threads!Init /\ NoneBut("lark")

Next ==
  \/ /\ kind = "transcripts" /\ Pages!Next
     /\ UNCHANGED <<kind, discoveryVars, scheduleVars, chatVars, telegramVars,
          larkVars>>
  \/ /\ kind = "discovery" /\ Registry!Next
     /\ UNCHANGED <<kind, transcriptsVars, scheduleVars, chatVars, telegramVars,
          larkVars>>
  \/ /\ kind = "schedule" /\ Timetable!Next
     /\ UNCHANGED <<kind, transcriptsVars, discoveryVars, chatVars,
          telegramVars, larkVars>>
  \/ /\ kind = "telegram" /\ Topics!Next
     /\ UNCHANGED <<kind, transcriptsVars, discoveryVars, scheduleVars,
          larkVars>>
  \/ /\ kind = "lark" /\ Threads!Next
     /\ UNCHANGED <<kind, transcriptsVars, discoveryVars, scheduleVars,
          telegramVars>>

Spec == Init /\ [][Next]_vars

-----------------------------------------------------------------------------
\* What a page shows is a run of the log's own turns with every part in its
\* place and one card for a tool call, and a fork keeps exactly the turns
\* before it (pkg/window/window.go:112, pkg/codex/rollout/rollout.go:840,
\* pkg/claude/jsonl/fork.go:20).
Paged == kind = "transcripts" => Pages!Shown /\ Pages!ForkKeeps /\ Pages!OneCard

\* What is known of a session is what its log says, read a line once, and is
\* not behind the log when nothing is on its way (pkg/discovery/discovery.go:178,
\* pkg/discovery/read.go:36).
Registered == kind = "discovery" => Registry!Current /\ Registry!FedOnce

\* The next match is the first there is; a task is fired once for the matches
\* of a check and misses none (pkg/schedule/cron.go:206,
\* pkg/schedule/runner.go:66).
OnTime == kind = "schedule" =>
            Timetable!Exact /\ Timetable!FiresOnce /\ Timetable!MissesNone

\* A Telegram topic tells its session's story, in order, once and whole
\* (pkg/telegram/hub.go:141, :428).
Mirrors == kind = "telegram" => Topics!Mirrors

\* What is typed in a Lark thread, and what is asked there, arrives once
\* (plugins/lark/hub.go:213, :341).
Relays == kind = "lark" => Threads!Relays

\* A guest's discussion has one root, whole messages, and is given to its
\* session without gaps, but for what is cut as too much (plugins/lark/hub.go:423,
\* :950, :1558).
Guests == kind = "lark" => Threads!Guests
==============================================================================
