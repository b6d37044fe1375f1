# A TLA+ model of usher

usher runs coding agents (Claude Code, Codex, Pi) as headless backends, feeds
them prompts from a browser, from chat bridges and from other agents, and
streams what they do to whoever is watching. Its difficulty is in the middle: one session
has many senders, many watchers, one backend process with clocks of its own, a
log file that others also write, and a user who may cancel, pause or delete at
any moment. Around it are the logs usher reads back, the files it keeps, and the
bridges over which it must tell everything once. This directory models these in
TLA+, checks them with TLC on small instances and proves the central part with TLAPS
for all instances: the router's queue, the turn's stream, the event broker, the
watcher of foreign turns, the waits for usage limits, the questions to the user, the live view, the
pools of backend processes, and most of what usher delivers and keeps.

Paths below are relative to `src/`.

## 1. The system

| Component | State it keeps | Operations | What is hard |
|---|---|---|---|
| Turn loop and tail (`pkg/sender/turnloop.go`, `tail.go`, `drainTail` of `sender.go`) | position in the log, the flags terminalSeen and exited, four timers | merge deltas, result and log records into one event stream; finish after a cancel; drain | three producers in one select; cancellation under every send; the log may appear late, fail, or go on growing |
| Router: sends and turns (`pkg/router/router.go`) | `activeSend`, `sendQueue` under `sendMu`; collectors of relayed sends | enqueue, retract, cancel, pause, delete, run, fail, mark idle, release | promotion across critical sections; tokens that are no longer registered; a reply that must be one's own |
| Router: turns usher did not start (`foreignwatch.go`) | a baseline per log | poll, compare, read, check again, publish | a file read without the lock beside turns that write it |
| Router: usage limits (`usagelimit.go`) | a limit record with a timer per session | note, wait, resume, give up, clear | callbacks that outlive the timer that started them, and timers the record has lost sight of |
| Router: relays and session questions (`router.go`, `questions.go`, `routed.go`) | notes for the router session, questions per session | dispatch, create, note, fold, ask, withdraw, answer in place, look a reply up | a running bit read and then acted on; notes taken before the send that carries them succeeds; a reply known only by its prompt's text |
| Router: live view (`router.go` preview, `pkg/api/events.go`, `pkg/web/static/detail.js`) | the preview on the server, the bubble in the tab | snapshot, seed, stream, reconnect | a snapshot and a stream that must meet without gap or overlap |
| Interactions (`pkg/interaction`) | pending questions, dedup table, approvals, subscribers | Submit, Respond, SetApproval, SubscribePending, List | duplicated hooks; answers racing contexts; a mode read in one section and used in another |
| Event broker (`pkg/broker`) | subscribers and their bounded channels | Subscribe, cancel, Publish | a close racing a send; slow readers |
| Claude pool (`pkg/claude/manager.go`) | a process per session, its turn FIFO, leases | Send, evict, reap, interrupt, die | a stream shared by usher's turns and the backend's own |
| Codex pool and client (`pkg/codex`) | app-server workers, leases, JSON-RPC calls in flight | lease, start an operation, retire, kill, respawn | workers replaced, killed or dead under an operation |
| Pi runtime (`pkg/pi/runtime.go`) | RPC processes, the consumer attached to each | attach, pump, prompt, answer dialogs, rebind | bounded channels between reader, pump and turn |
| Transcript assemblers and windows (`pkg/claude/jsonl`, `pkg/codex/rollout`, `pkg/pi/transcript.go`, `pkg/window`, `detail.js`) | folds of a log; the turns a page shows | records to turns and parts, forks, pages, reloads | records out of order; pages of a log that grows |
| Session discovery (`pkg/discovery`) | the register of logs, a reading per log | ingest, complete, move, remove, advance | a parse outside the lock, written back after it |
| Schedules (`pkg/schedule`) | tasks, the time of the last check | cron, check, fire, edit | slow starts, restarts, hours that do not exist |
| Metadata, settings, agents (`pkg/sessionmeta`, `pkg/settings`, `pkg/agentprofile`) | JSON files and their copies in memory | set, import an older release's file, start | a save that fails, a crash between two steps |
| Terminal (`pkg/terminal`, the panel of `detail.js`) | window ids, the last request ids | open, submit a line, close | a line sent again whose first answer was lost |
| Agent updates (`pkg/agentupdate`) | the last outcome, a generation | check, update | a check that overlaps an update |
| Plugin socket and stream (`pkg/pluginapi`, `pkg/api/events.go`) | the socket file, the stream | listen, subscribe, reconnect, shut down | two processes on one path; what happens in a gap |
| Push (`pkg/push`) | subscriptions, goroutines per notice | subscribe, notify, prune | devices that come and go while sends are under way |
| Telegram bridge (`pkg/telegram`) | topics, questions, the poll's offset | mirror, ask, poll, reconcile | four loops and a crash around one topic |
| Lark plugin (`plugins/lark`) | threads, watermarks, questions | mirror, ask, mention, guest turns | pushes that come twice, calls that fail half way |

How they interact: a client's prompt goes to the router, which starts a turn or
queues it. A goroutine of its own carries the turn: the sender hands the prompt
to a backend pool and returns the turn loop's event stream; the router publishes each event on
the broker, marks the session idle at `turn.ended`, and releases the queue.
Collectors (relays), tabs (live view), bridges, plugins and push all read the broker.
Questions a backend asks while it works go to the interaction manager and wait
there for any client. Limits, the foreign watch, the schedule and the bridges
are clients of the router on their own timers. The conversation itself is in the
backend's log: discovery finds it, the assemblers read it, a page shows it.

What makes each component correct:

- Turn loop: the records of the log reach the stream once and in order; the
  stream ends, and says `turn.ended` last; a tail that is stopped has forwarded what
  was there.
- Sends: one turn at a time, in the order accepted; no queued send is left behind an
  idle session; a relay is answered once and by its own turn.
- Foreign watch: what usher's turns wrote is never reported as foreign;
  nothing twice; a finished foreign turn in the end.
- Limits: a waiting session has something that will wake it, is not woken before
  its reset, and not for ever.
- Relays: what lands is told to the router session, an answer reaches its question's session in the
  form that session can take, a reply shown is the dispatch's own.
- Interactions: one question per tool use; no allow that nobody granted; an answer
  arrives; a client that lists sees what waits.
- Broker: no send on a closed channel; order; publishers never wait.
- Live view: the tab shows a running turn, its text and the queue as they are.
- Pools: every accepted send is answered once, whatever dies; a worker with work or a
  lease is not evicted; the bound holds; an answer goes to its own turn.
- Transcripts: a page shows a run of the log's turns, each with its own parts; one card per tool call.
- Discovery: what is registered is what the log says, each line read once.
- Schedules: each due task fires once.
- Stores: what was acknowledged outlives a restart, what was refused left no trace.
- Terminal, updates, plugins, push, bridges: a line, an outcome, an event, a notice, a prompt, an answer arrive
  once, at whom they are for, whatever is retried, restarted or dropped.

## 2. Modules

| Module | Models | Refers to |
|---|---|---|
| `TurnLoop` | one turn's loop and tailer goroutines, its log, its user | |
| `SerialTurns` | the promise of the turn queue: sends run one at a time in order | |
| `SendQueue` | the router's queue for one session, its turn goroutines and relays | implements `SerialTurns` |
| `ForeignWatch` | the watcher, beside the whole of `SendQueue` | extends `SendQueue` |
| `SendQueueProofs` | theorems about `SendQueue` and `ForeignWatch` | extends `ForeignWatch` |
| `Interaction` | one session's questions, answers and subscribers | |
| `UsageLimit` | one session's limit, timer callbacks and turns | its turns are those of `SerialTurns` |
| `Broker` | publishers, subscribers and the lock between them | |
| `LiveView` | one session's events and one tab | `Broker` for drops, `TurnLoop` for the stream |
| `Relays` | dispatches of the router session, notes, questions, the lookup of a reply | turns run as `SendQueue` has them |
| `ClaudePool` | the map of processes, each one's queue of turns, the calls that use them | `SendQueue` for one send to a session at a time |
| `CodexPool` | the map of app-server workers, their clients and processes | the same |
| `PiRuntime` | the map of RPC processes, readers, pumps and dialogs | the same |
| `Turns` | the turns and parts every assembler makes | |
| `ClaudeTranscript`, `Rollout`, `PiTranscript` | an assembler each, as a fold over records, and the cut of a fork | extend `Turns` |
| `Window` | pages of a log, older and newer than a cursor | |
| `Transcripts` | a log that grows and the tab that pages and reloads it | the five above |
| `Discovery` | one log, two readers of it, the register | |
| `Schedule` | the calendar and cron's walk, the store, the runner | |
| `SessionMeta` | one session's decisions, saves, imports | |
| `Settings` | `settings.json`, the agents and schedules in it, imports | |
| `Terminal`, `AgentUpdate`, `PluginStream`, `Push` | the components of those names | |
| `Telegram`, `Lark` | a bridge each, with one session and its people | |
| `LiveViewProofs`, `InteractionProofs`, `ClaudePoolProofs`, `CodexPoolProofs`, `PiRuntimeProofs` | theorems about the modules of those names | extend them |
| `MCServices` | `TurnLoop`, `UsageLimit`, `Broker` side by side | instances of them |
| `ServicesProofs` | the proofs about `TurnLoop`, `UsageLimit` and `Broker`, and the theorems of the three side by side | extends `MCServices` |
| `MCRecords` | `Transcripts`, `Discovery`, `Schedule`, `Telegram`, `Lark` side by side | instances |
| `Deliveries` | `Relays`, `Terminal`, `AgentUpdate`, `PluginStream`, `Push`, `SessionMeta`, `Settings` side by side | instances |
| `DeliveriesProofs` | the proofs about those seven | extends `Deliveries` |
| other `MC*` | the values of the constants for TLC | |

Side by side means: the variable `kind` is set once and says whose behaviour this is, the other components'
variables are 0 throughout, and a property of the module is the component's own, for that kind. Such a run asks of
each component what a run of its own would, and they share no state in the code either.

Conventions. Every map in the code is keyed by session and, but for the pools' and the streams' over all sessions,
no modelled action crosses sessions, so most modules have one session. An action is one critical section of
the mutex named in its comment, one channel operation, or one step between two of
them; a goroutine's position is a string in a stage variable (`st`, `loop`, `tail`, `scan.pc`,
`fire[f].pc`, `at`, `task`). Variables the code does not have are marked "history" where they are declared
and no guard reads them; bounds are marked "bound". A definition whose comment starts with "Mutant:" is not part of the
specification: it is the form a plausible bug would give the definition after it,
and every property is known to fail on one of them.

Correspondence of the state, module by module:

- `TurnLoop`. `loop` is where `mergeLoggedTurn` is: `start`, the select of the main
  loop (`run`), `AwaitResult` after the tail closed (`await`), `drainTail` (`drain`, then `force` once it
  cancelled the tail) and the same inside `finishCancelled` (`finish`,
  `finishDrain`, `finishForce`). `tail` is where `tailTurn` is; `hand` records whether
  the line in hand goes out under the cancellable context, `last` that the read to EOF in
  progress is the one after the cancellation. `events` is the channel between
  them and `out` the stream the consumer sees.
- `SendQueue`. `active` and `queue` are `activeSend[id]` and `sendQueue[id]`; a token is named by
  its send, as a send gets at most one. `st` follows a send from `enqueueSend`
  through `runSend` or `failSend` to `releaseSend`. `collecting`, `heard` and `answer` are the
  collectors of `SendToSessionRelayed`. `CancelSend`, `PauseSession` and
  `DeleteSession` are what they do to the queue; the cancel of the turn's
  context only makes its stream end, which a stream may do at any time here.
- `ForeignWatch`. `base` is `foreignBase[id]`; `scan` is `checkForeignTurn` between two
  of its steps. `Turn` is any step of `SendQueue` with the bump of `markSendIdle` and
  `releaseSend`.
- `Interaction`. `st` follows each call of `Submit`; `lead` is the dedup decision
  it follows; `box` is the entry's one-slot channel; `setter` is `SetApproval` between its two
  locks, and `SetLess` one that another client calls meanwhile. `Remember` keeps `underFull`, the permissions
  that were asking while full was granted, which is history. `watch`, `subs` and `notify` are `SubscribePending` and `notifyPending`.
- `UsageLimit`. `limit` is `limits[id]`; `fire` are the timers and the callbacks they started, which live on when the record
  points elsewhere (`limit.timer`): a `Stop` reaches only the one pointed at, and only before it went off. `mine` are the callbacks whose
  `*usageLimit` is still in the map, `turn.fresh` what `endUsageLimit` asks of the turn that ends; `late` is history: the times the switch was
  turned on while a callback for the same reset waited for the lock.
- `Broker`. `sending` are the publishers that hold the read lock; `room` is a channel's capacity.
- `ClaudePool`. `pool` is `Manager.processes` and `proc[p]` the `process` record, named by the call that spawned
  it; `proc[p].turns` is its FIFO, in which a turn is named by the call of `Send`. `call` is where a `Send` or `Resume`
  is: it spawns (`init`) or joins (`wait`), appends, writes, takes back (`undo`), releases. `stops` are the
  `stop(p)` that have begun; `gone` is how far `died` got. `claude[p]` is the process outside: what waits on its
  stdin, what it runs, the frames `readLoop` has not read. The order of last use and the reaper's clock
  are left open: any idle process may be evicted or paused, and a full pool of sessions with scheduled work refuses.
- `LiveView`. `busy` is the registered token, `preview` is `previews[id]`, `view` is
  `liveTurn`, its text, `acceptDeltas` and `detailStreaming` of the tab.
- `CodexPool`. `workers` and `starting` are the manager's maps, `worker` an entry's settled, busy and leases; `client` the
  fields of a `Client` under its `mu`, `server` the process with what it wrote and nobody read, `late` the frames a dead
  process's `readLoop` still holds, `failing` each `failProcess` between its critical section and the last call it tells. A
  session is named by others only once `StartThread` has returned its id (`Named`).
- `PiRuntime`. `pi` is `Runtime.workers`, `wk` a worker's busy, loop, leases and receiver, `proc` a process with its
  channel of events, `pump` what a pump holds with the receiver it read, `pcall` where a call is.
- `Transcripts`. The log is a sequence of records, each its kind and what it refers to, one byte long for the
  window's offsets; `shown` is `renderedTurns`, `loads` and `earlier` the requests in flight with the answers they
  will bring, `sig` is `lastTranscriptSig`.
- `Discovery`. `session` is the registered record, `readings` the parsed state per log under its own mutex, `at`, `target`,
  `entire` and `hold` where each of the two readers is, the path and record it took.
- `Schedule`. Instants are half minutes on a short calendar; `zone` moves the wall clock once; `since` and `upto` are the
  window of a check, `due` what it has still to start, `fireMu` who starts a session.
- `SessionMeta`, `Settings`. `disk` is the file, `meta` or `f` its copy in memory, `legacy` the older release's files, `up` where
  the start is; `word`, `trusted`, `acked` are history: what the user was last told holds.
- `Relays`. `st` is a send from its acceptance to its end, `log` the session's turns, `relayIn` the notes, `rst` the router's
  turn, `look` the lookup of a reply with the turns it has read, `asks` the question tokens of the session. `since` is how far back in the log a
  lookup starts, which is 5 s before the router's turn and so any place between the router's turn before and this one; `unsaid`, history, the notes that went
  with a prompt the backend refused. A turn ends in its text or in an error, and an answer steered in is a prompt in the log.
- `Terminal`. `window` is tmux's, `windows` and `seen` the manager's ids; `box`, `rid`, `lines` the page's line, its request
  id and what was typed; `calls` the submits under way.
- `AgentUpdate`. `check` and `update` are the calls under way with what they read, `generation` and `status` the entry's. A release
  is its number in order; `compareVersions` sees its three numbers and the characters of its tag (`Releases`).
- `PluginStream`. `file` is whose socket the path names, `st` where each usher is between listen and removal, `conn` and
  `events` the plugin's stream, `believed` the turns the plugin takes to be under way.
- `Push`. `subs` and `disk` are the store, `ended` and `pending` the two channels of `Run`, `sends` the goroutines of `fanout`.
  `watched` are the sessions with a browser's stream, `collectors` those in a relayed turn, whose collector is a subscriber like a browser; `hushed`, history, the events
  that a collector alone silenced.
- `Telegram`. `at`, `item` and `arg` are where the worker, the permission loop, the poll loop and the reconciler are;
  `topic` is the store's entry and `disk` its file; `asks` and `asksByThread` the registered questions.
- `Lark`. `task` is the goroutine of each message, `work` the session's worker, `perm` and `tap` the pending stream and a
  card's button; `bound`, `wm`, `posted` the store's root, watermark and claims. `context` is the discussion a goroutine pulled, the
  lines its prompt has and the lines that were cut or could not be pulled; `backend` is chosen when a guest's turn of several parts ends.

## 3. Runs

| Run | Question | Bounds |
|---|---|---|
| `SendQueue` | is the queue serial, fair to its sends and true to its relays? | 3 sends (2 relayed), queue of 1 |
| `ForeignWatch` | is the watcher right about whose lines they are? | 2 sends, queue of 1, 2 lines |
| `Interaction` | are questions merged, granted, answered and shown? | 2 requests (two of one tool use, a permission and a question, or two questions), a user, a setter and another's change of approval, a subscriber |
| `Services` | does a turn forward its log once and in order, and close? does a wait for a limit end, in time and not for ever? is every event delivered in order, and nobody held up? | 2 lines, 1 delta; 2 timers or callbacks, 1 resume, 2 instants, 1 late switch; 2 publishers with 2 events each, 2 subscribers, 1 slot and 1 seed |
| `LiveView` | does a tab show what is there? | 3 turns, 2 deltas, 2 parts, 1 queue change, 1 lost connection, 2 slots |
| `ClaudePool` | is a process kept while a send relies on it, its output told to the right turn, and everyone told when it goes? | 2 calls (2 sends, or a send and a resume; one session or two), 1 process at most, 1 thing Claude starts by itself, 1 unread frame, 1 upset |
| `CodexPool` | the same of app-servers, with one finisher for every stream | 2 calls (a turn, and a turn, goal, look, kill, creation or interrupt of its session or another), 1 worker at most, 3 clients, 1 unread frame, 1 upset |
| `PiRuntime` | the same of pi, with full channels and dialogs | 2 calls (a send, and one of its session or one that wants its slot), 1 worker at most, channels of 1, 1 upset |
| `Records` | does what usher reads back say what it should, does a task fire when it should, and does a bridge tell the session's story once and whole, and the session what was typed? | logs of three rounds with up to 4 more records of up to 6 kinds, pages of 2 and 1, up to 3 loads; 3 lines and 2 acts on a log; 2 tasks, 6 half-minutes, 6 expressions, 4 zones, 1 edit; Telegram: 1 text typed, 1 from elsewhere, 1 part or 1 question, channel of 1, 1 upset, 3 topics; Lark: 3 messages, 2 prompts, 3 acts, 2 parts or 1 question, channel of 1, 1 upset, guests on codex and not |
| `Deliveries` | is each note, answer, line, outcome, event and notice delivered, once, and where it belongs, and each decision kept? | 6 cases of 1 or 2 dispatches, of one text or two, with prompts, questions, lookups and upsets, 1 note kept; 2 tabs, 3 lines, 2 ids, 2 upsets; 2 checkers, 4 releases, two of them tags of the same numbers, 2 updates, 2 checks, 1 failure; 2 ushers, 2 sessions, 3 turns, 1 drop; 2 devices, 2 sessions, 2 events, 1 failure, 4 acts (subscriptions, browsers, relayed turns, restarts); 3 decisions and 1 failed save; 3 agents, 4 changes, 2 failed saves |
| `ClaudePoolPanic` | a bug, see below | as `ClaudePool` |
| `DeliveriesViewers` | a divergence, see below: does only a browser silence a session's notices? | as `Deliveries` |

Some properties of a run are conjunctions of named ones: `Forwarding` (with `EndsOnce`, `IdleStopComplete`), `OneQuestion`
(with `WatcherInformed`), `ShowsState` (`ShowsRunning`, `ShowsQueue`), the pools' `InPlace` (with `HeadRuns`, `OneFinisher` or
`TurnListens`), `Paged` (`Shown`, `ForkKeeps`, `OneCard`), `Registered` (`Current`, `FedOnce`), `OnTime` (`Exact`, `FiresOnce`,
`MissesNone`), `Kept` (`LastWordStands`, `Outlives`; `Kept`, `Indexed`), `Routing` (`NotesTold`, `RoutedReply`),
`GoesOnce` (`AnsweredInPlace`, `LinesOnce`), `Bounded` (`WaitingHasTimer`, `NotForEver`), `Relays` (`Once`, `CardsLive`), `Guests` (`OneRoot`, `Whole`,
`ContextGiven`). The part is stated, with the line it is about, where the module defines it, and most parts have a mutant of their own.

Why the bounds are enough for the question asked. Two log lines are a record and a marker, or
a record read and one unread, which is what the tailer's choices depend on.
Three sends are one turn running, one queued and one that finds the queue full;
the theorems of section 5 lift this to any number. With two sends the watcher meets a turn that
ended before it looked and one that starts between its looks. Two requests are a
leader and its follower, or a permission beside a question. Two timers or callbacks
are one that was stopped too late beside its successor, for another reset or for the same. One slot makes every second event overflow. Two turns make the
tab carry what it kept of the first into the second.
Two calls with room for one process are a holder and one that wants its place, or one that joins it; an upset (a crash,
a kill, an interrupt, a command that throws, a start that fails or is abandoned) meets them at every step, and a third client
is one that outlives its place. Three rounds and pages of two make a page begin in the middle of the log and in the middle
of a turn's tail; the kinds of record are split into groups so that those that depend on each other (a call and its output, a
wrapper and its chunks) come in every order. The short calendar has every boundary of the real one (minute, hour, day, month,
weekday, year, an hour added by the zone) within two years. Two decisions and a crash are a change saved and one lost; two
tabs are a retry from the page that typed and one from a restored page; two checks are one that ends before an update and one that overlaps and outlives it.

`CHECK_DEADLOCK FALSE` is set in every run: the environment may stop (nobody prompts again, bounds are spent)
and the system then rests. That the system does not rest in the middle of something is what the
liveness properties are for.

### Fairness

- `SendQueue`: the goroutine of a turn runs on, and a stream ends (that is what
  `TurnCloses` of `TurnLoop` shows), and so do the calls of `CancelSend` and `stopLive` once begun. No client is obliged to send.
- `ForeignWatch`: the watcher's ticker.
- `Interaction`: the goroutine of each `Submit`. No user is obliged to answer.
- `Services`: of a turn, the two goroutines, whose timers do fire (neither the backend nor the user is
  obliged to do anything); of a limit, time, calls and callbacks under way, and that turns end; of the broker, publishers under
  way (no subscriber reads if it does not want to).
- `ClaudePool`: the steps of a call between its waits, `stop`, `died`, and that a process that was stopped exits (it is
  killed after two seconds). Claude is not obliged to answer, to end a command, or to be read.
- `CodexPool`: the steps of a call that has begun, the reader of each process, `failProcess`, the reaper's shutdown of what it
  took out, and that a living app-server answers requests and ends a turn it started.
- `PiRuntime`: the steps of a call, each reader, pump and dialog's goroutine, the user's answer to a dialog, a stopped
  process's exit (it is killed after a second), and that pi answers requests and settles a run that nobody cancelled.
- `LiveView`, `Records`, `Deliveries`, `DeliveriesViewers` and `ClaudePoolPanic` state safety only.

## 4. Where the code and its comments part

TLC was asked of every promise a comment makes. Two that fail are kept as runs:

- `ClaudePoolPanic` (a bug). `Send` appends its turn, writes, and takes the turn back when the write fails. When the
  process exits between the two, `died` has set `p.turns` to nil together with the flag that makes the write
  fail, and `p.turns[:len(p.turns)-1]` (`claude/manager.go:680`) panics.
- `DeliveriesViewers` (a divergence). A notice is skipped "because a browser is actively viewing that session" (`push/push.go:124`), which the broker tells by
  any subscriber of the session: "i.e. a browser has its /events stream open on that session" (`broker/broker.go:92`). The collector of a send the router
  session relayed subscribes to the session too (`router.go:2189`), for its whole turn, so the notices of that turn are skipped with no browser open.
  `Notified` exempts them (`hushed`).

The others were seen with a counterexample of TLC's each, and the properties are stated so that they hold as the code
stands: what they leave out is exactly what is listed here. Router and services:

- `interaction.go:342` (a bug; `NoSendOnClosed` of `Interaction`). `notifyPending` copies the subscribers, unlocks and
  sends; a subscriber's cancel may close its channel in between and the send panics. The broker takes care of
  the same case by sending under its lock (`pkg/broker/broker.go:103`).
- `router.go:1316`. `runSend` publishes before it clears the running bit so that a
  new send's collector does not see the old turn's exit; `failSend` does the two the other way round, and the
  collector of a relay taken in between is answered with the failed turn's error.
- `foreignwatch.go`: the watcher publishes its own `turn.ended` after it released `sendMu`; a
  relay taken in between takes it for its reply.
- `tail.go:156`: a record that was read when the drain cancels the tail may lose the
  select and is dropped, though `drainTail` says records on disk never are. `IdleStopComplete`
  states what does hold.
- `turnloop.go:57` and `:125`: a turn cancelled while `turn.started` is being sent, and
  one whose log never appeared, close without `turn.ended`. `ExitUnlessCutShort` states the rest.
- `router.go:1619`: `CancelSend` reads the token and flushes the queue in two critical
  sections; a send queued before the cancel may be promoted between them and runs on.
- `interaction.go:178`: a permission that read the mode before it became full and
  registers after `SetApproval` collected waits on under full; and what a `SetApproval` that found the mode full
  collected is allowed after another client set it back to ask, as is a permission asked in between.
  `AllowIsGranted` therefore counts a `SetApproval` still at work as a grant.
- `interaction.go:369`: `Respond` returns nil for an answer that then loses to the request's context.
- `usagelimit.go:176`: the callback forgets the timer in place without stopping it, which may be one that was set while it waited for the lock, the switch turned
  off and on again. That timer passes the same check, and the session is resumed twice from one reset. `NotForEver`
  therefore allows `maxLimitResumes`, or one resume and one more for each switch turned on so late (`late`). Backends report resets still to come
  here; a limit noted again for a reset that has come, while its callback waits, would leave a second timer in the same way.
- `usagelimit.go:185`: a callback past its check resumes a session that was paused meanwhile. A resume
  whose send fails or is flushed leaves the limit recorded and unarmed.
- `api/events.go:133`: a tab that connects between `turn.ended` and the end of the running bit is told a turn is
  active and never that it ended. `note.late` in `LiveView` marks it, and
  the dropped events of `detail.js:1339` below.
- `router.go:1688`: a tool record that comes after the first deltas of the next item clears the server's preview
  and not the tab's (`note.jumped`).
- `claude/manager.go:1146`: a head that no frame answered within the grace of its interrupt is dropped even when Claude
  still works on it; text it writes later goes to the turn behind it, and a command dropped before it started
  comes back as a foreign turn. `HeadRuns` speaks of the commands that still have their turn.
- `detail.js:1339`: a tab that missed `turn.failed` and sees the `turn.ended` with a
  reason keeps a dead bubble, which hides the next turn. So does one that missed the `turn.ended` of a turn that ran
  between the two events of one that could not be sent. It takes three turns, which the bounds of the run are for.
- Relays, notes. Notes folded into a prompt that the backend then refuses are lost (`router.go:1069`, "A router session's prompt carries any
  replies that landed since it last spoke"); `NotesTold` counts them apart (`unsaid`), and the oldest of too many (`dropped`).
- Relays, lookups (`RoutedReply`). A lookup starts 5 s before the router's turn (`routed.go:82`): the reply of an equal text dispatched by the turn before, within that
  time, is shown, as is the first of two calls with one text in one turn; of such a pair the property only says that the reply is of one of them. An error after the prompt is
  shown as the reply (`routed.go:106`), and the turn the error ended may have written text before it, which is shown in its place. A lookup that read the
  log before the turn ended and asks whether it runs after shows a partial reply as done (`routed.go:77`; `raced`); between `markSendIdle` and a promotion, a queued prompt's reply is shown as done
  and empty (`Between`); after a steered answer, only the part before it. A creation's registration overwrites the token of a send taken since its
  log was found, and two turns run at once (`overlap`).
- Relays, questions (`AnsweredInPlace`). "replyInPlace delivers an answer into the running turn ... else as the next turn" (`questions.go:103`): one that a full queue refuses is
  only logged (`questions.go:121`), and one whose send fails or is flushed by a pause is gone as any send is. A steer that times out but was accepted is delivered twice.
  Questions raised between `withdrawQuestions` and the enqueue, or `stopLive`'s kill, stay open.
- `agentupdate.go:254`, "except that prerelease tags compare as plain strings": between two tags of the same numbers an update may be offered for the older, or not for the
  newer (rc.10 after rc.9). `OutcomeShown` exempts such a pair (`TagsOfOneCore`).

Backends:

- `codex/manager.go:635`: `Kill` shuts down a client that a call still leases, and that call's `StartTurn` respawns it
  (`client.go:166`) outside the map, although "Manager owns one app-server worker per live root Codex session"
  (`codex/manager.go:29`). `client.go:797`: `failProcess` blocks for ever when a call's context won over an answer already in its channel of
  one (`OpsSettle` exempts `Stuck`). Frames of a dead process may be dispatched after its successor started (`client.go:302`). Two sessions that
  evict each other between start and lease may do so again and again. `codex/manager.go:282`: `StartThread` writes its worker into the map without
  looking; a call that named the new thread before that, from a log found early, would have made a worker of its own, which is overwritten
  with its process left running. With room for two workers `InPlace` fails there, so `Named` leaves such calls out.
- `pi/runtime.go:1196`: "Drain through agent_settled so its final records and shared event do not leak into the next turn":
  a turn may end on another run's (`OwnSettled` fails). A flood of events between a prompt's write and its response blocks the
  reader, the pump and the turn until a cancel. A dead worker stays in the map and later sends fail until it is reaped. `loop` stays set when
  the process dies in an extension's run, and the deferred reset (1149) may clear the mark of one just begun. A cancel during
  the prompt request refuses a turn that pi may still run.

Transcripts and discovery:

- `window.go:112` with `jsonl.go:395`, "a part streamed live and the same turn fetched later from /transcript can never
  disagree on grouping or rendering": a message Claude takes back stays on a page that loaded before it (`RetractedGone` fails).
- `detail.js:2251`: two loads of the newest page with an older one between them leave a gap until the session is opened again
  (`Shown` exempts `straddled`). `turnKey` (2277) does not look at the id or the model of a turn.
- `jsonl/fork.go:76`: a line that Claude wrote as the user's, after a stale fork point, counts as the next prompt. A Codex script that cannot be
  read leaves its calls empty, and the gap is not marked.
- `discovery.go`: what `MarkInput`, `UpdateRuntime` or `SetTitle` set while a reader is between its look and its write is lost
  ("never let a later fsnotify scan erase a captured window", line 222; `Current` exempts it). A reader under way writes a deleted session back
  (`router.go:965`, "so the id stops resolving immediately"), or leaves it without a path. A stat before a move puts the old path back, and the rename's event
  then removes the session. Deleting a session whose log just moved reports success and leaves the log. A log made between the first scan and the
  watches is found at its next write.

Files and clocks:

- `schedule/cron.go:206`, "NextAfter returns the first matching minute strictly after t": in a zone west of Greenwich whose clock goes
  back, `time.Date` resolves the repeated hour to its first pass, so the walk starts before `t`, and an every-minute task fires at every check
  of the second pass (`FiresOnce` fails for such a zone; `MCZones` has none). East of it such a task pauses for an hour. `a/n` runs to the
  field's end (`cron.go:26`) but not for `a/1`. A task edited within a window may fire for a match before the edit.
- `sessionmeta/store.go:314`: a save that fails is not told, and the import still removes the older file; a removal that fails gives a withdrawn
  approval again at the next start. A setter repeated after a failed save does not save.
- `settings.go`: a file that cannot be parsed reads as empty and the next save replaces it. `SetRouterSession` keeps in memory what it
  could not save.

Terminal, plugins, push:

- `terminal/manager.go`: a call that was given up may enter its line after the one typed in its place. A close that fails still forgets the
  request ids, as a restart and the bound on them do; a retry then enters its line twice, as does a paste that tmux took and reported failed.
- `pluginapi/server.go:175`, "replacing a leftover socket but not a live one": the check and the rename are two steps, and two processes that
  start together replace a live socket; one that shuts down removes its successor's after its grace. A turn that ended in a gap of the stream is not told.
- `push/store.go:82`: a subscription whose save failed is not saved when the page subscribes again. Whether someone watches is asked
  when a notice is dispatched, not when what it is about happened.

Bridges:

- `plugins/lark/hub.go:904`: two quick mentions in an unbound thread make two sessions, as `guestCreate` does not look again under
  `createMu` (`plugins/lark/README.md:63`, "The first mention creates a new usher session"; `OneSession` of `Lark` fails with two). Events of a
  guest's session before it is bound are mirrored live; a dropped `turn.ended` leaks a guest's parts into the next message; concurrent turns share
  a watermark; an answer moves it past lines nobody was given, and so does a prompt whose pull failed or was cut: of more than 60 messages or 6000 runes the oldest are left out (`hub.go:1558`), and are not
  given later (`skipped` in `ContextGiven`). A guest's turn on codex is posted as its last text part, what it wrote before is not (`hub.go:460`; `owed` in `Whole`). An answer usher took but whose call failed becomes a prompt when typed again.
- `telegram/ask.go:104`: a question answered elsewhere stays registered, and the next message is taken as its answer, refused, and reacted to all the
  same (`hub.go:385`, "React to confirm the message reached the session"; `AckReached` of `Telegram` fails). Taking one question deletes another's
  place in the topic (`hub.go:365`). After a restart the unconfirmed updates are handled again (`hub.go:186`). Reconciling drops the topic of a
  session the router does not know yet.

## 5. Proofs

Every theorem is for all values of the constants: any number of sends, publishers, subscribers,
requests, users, setters, callbacks, sessions, calls and processes, any length of the log, any bound. What is assumed of the constants is
`SendQueueAssumption`, `ForeignWatchAssumption`, `InteractionAssumption`, `LiveViewAssumption`, `ClaudePoolAssumption`, `CodexAssumption`, `PiAssumption` and `DeliveriesAssumption`, and, as hypotheses of the theorems of the
three modules that a run instantiates, `LoopConstants`, `LimitConstants` and
`BrokerConstants`: bounds are numbers, a bound on resumes is at least one (`maxLimitResumes` is 2), and a value that means "none" is not one of
the things it stands beside. `DeliveriesAssumption` has more facts: a case of `Relays` numbers its texts and questions, the manager of the terminal remembers at least one id (64 in the code), releases are
numbered so that a lower core, or of one core a tagged one, comes before (`Precedes`), two tags of one core in either order, and the default agent is not the only name there is. `ServicesAssumption` of `MCServices` gathers those three, so that TLC evaluates them.

Each module proves that its `IInv` (`FInv` for `ForeignWatch`) holds at the start and is kept by every
action, one step of the proof per action, and then what follows from it. No invariant a run checks is
inductive by itself but for the simplest; what each one lacks, and why:

`SendQueueProofs`, of `SendQueue` (from `SendQueueAssumption` alone):

- `TypeCorrect`, `OneTurnAtATime` (`SingleTurn`), `NobodyStranded` (`NoStranded`): `IInv` adds to the types and the two properties that an entry
  of the queue is there once (`Distinct`) and that a send is in the stage "queued"
  exactly when it is in the queue (`InLine`). `Retract`, `Flush` and `Release` change the
  queue and the stages together: without it a send could be promoted and still wait.
- `AnsweredOnce` (`OnDoneOnce`): with `Fresh`, that a collector that listens has no answer yet and a
  queued send has neither.
- `RepliesAreOwn` (`OwnReply`): with `Listening`, that only the session's one live
  turn, or an orphan, can be listening when a stream publishes.
- `Serializes` (`SerialSpec`): each step of `SendQueue` is a step of `SerialTurns` or a stutter,
  under the mapping of `Serial`: `running` is the registered token, `waiting`
  the queue, `served` the sends that have had their turn. The fairness of
  `SerialTurns` is not part of `SerialSpec`; that every accepted send settles is `SendsSettle`, checked by TLC.

`ServicesProofs`, of `TurnLoop` (`TurnsForwarded`: `Forwarding`, that is `EndsOnce`, `IdleStopComplete` and the order of the records). The stream is what was sent (`out`)
followed by what the tailer sent the loop (`events`).

- `Ordered`: the records of that stream are exactly the lines read, but for one in the tailer's hand or one dropped with its
  last event. Only with both sides of the channel in one formula does a receive change nothing.
- `Begun`, `Ends`, `Says`: `turn.started` is first and the loop's; `turn.ended` is last, and `exited` is set exactly when it was
  received; a tailer that is done has said why. `finishCancelled` owes the event by that flag (`OwedExit`), so without them it could say it twice or
  never. A tailer that failed is exempt where the code lets it be: it may report a failure after a marker.
- `Stops`: the tailer is stopped once and its channel is closed whenever the loop waits for the result alone or has returned; `last` only
  after the cancellation. `Idles`: what `drainTail` relies on, that a tailer cancelled between two polls has no record whose
  send may be lost, and, done, has read what was on disk.

`ServicesProofs`, of `Broker` (`EventsDelivered`: `Delivers`, that is `NoSendOnClosed` and `InOrder`). `Locked` says what the read lock is for: what a publisher has
still to visit is registered, and only removed subscribers' channels are closed. `Unseeded`, that a subscriber not yet
registered was given nothing. `Numbered`, that an event still to be delivered is newer than all its publisher gave that
subscriber: `InOrder` alone speaks only of what has arrived, and the next delivery could break it.

`SendQueueProofs`, of `ForeignWatch` (`OthersOnly`: `OwnNotReported`; `EachLineOnce`: `ReportedOnce`; with `ForeignWatchAssumption`). It rests on
what is shown of `SendQueue`, whose `Distinct`, `InLine` and `SingleTurn` hold beside the watcher, as no step of its touches the queue.
`Accounted`: a line of usher's past the baseline was written by the turn that holds the session's token, so whoever finds no token finds no such line. `Scanned`: a
scan has the baseline it compared with, and when it publishes, nothing but foreign lines above it; this is where the second look under the
lock is used. `Past`: all that was reported is below the baseline, and below where a scan starts. `Forgotten`: a session out of discovery was deleted for good.

`ServicesProofs`, of `UsageLimit` (`WaitsBounded`: `Bounded`; `NoEarlyResume`: `ResumesAfterReset`, an action property). A timer a `Stop` reaches is pending; those that went off, and those the record lost
sight of, are loose. `Aimed`: a pending timer of a wait is set for the reset waited for. `Past`: whatever is loose is for a reset that has come, so it is turned away by its instant when the limit was noted
again since. `Few`: of those for the limit's own reset there is one, and one more for each late switch; the step that loses sight of a timer is why it must be counted.
`Counted`: what will resume the session and the resumes it had are together within the bound, which is how the bound survives the step that spends one. Counting is by cardinalities of sets of timers.

`InteractionProofs` (`QuestionsInv`: `OneQuestion`; `AllowsInv`: `AllowIsGranted`). `Owned`: a call that asks holds its tool use's slot of the dedup
table, so two cannot. `Led`: a follower's lead leads itself. `Granted`: while full is granted every permission that asks is remembered, what
`SetApproval` collected was, and what a channel holds was. `Noticed`: who subscribed and listed was told or has its notice under way.

`ClaudePoolProofs` (`PoolInPlace`: `InPlace`, that is `TypeOK`, `HeldInPlace`, `HeadRuns`). Two arguments, one for the map and one for the pipe.

- The map. `Leased`: a send on its way holds a lease of its process, which is what eviction and the reaper look at. `Mapped` and `Blank` say which
  process a session or a call may refer to: one of its own session, and none that was never started. `OneSend` is what the router's queue gives the
  pool, one send to a session at a time. `Bounded` is the bound with the finiteness of the map, which counting needs.
- The pipe. The model of Claude is two queues with a program between them, stdin and stdout, and the manager keeps a third, `turns`, in the order of the writes.
  `HeadRuns` compares the third with what runs only while stdout is empty; a frame still unread may contradict it, so by itself it says
  nothing of the next read. `Ordered` says what survives: what is ahead of a command in `turns` is over or ahead of it in the line that runs
  (`Queued`), what has started comes first (`Ranked`), and of what is ahead of a command whose start is in stdout, a frame was read or
  comes first (`Announced`). `Piped`: a command is in one place and its frames come in order. `Origin`: every command and frame
  of a process is of a call that wrote to that process, or of Claude's own. `Written`: a turn whose command was written is over or in line.
- `Takeable`, what `Send` relies on to take its turn back after a failed write: the last turn is its own, or the turns were told and dropped meanwhile.
  In the second case it takes back what is not there, the panic that `ClaudePoolPanic` finds. `Owed`: a send whose turn was queued was told or has it still.

`PiRuntimeProofs` (`PiInPlace`: `InPlace`, that is `TypeOK`, `HeldInPlace`, `BusyHasOwner`, `TurnListens`).

- `Leased`: a worker has at least a lease for each call that adds, begins or asks on it. It is a matter of counting, as Go's `leases` is a number: every step that
  gives one back must be by a call that is counted. `HoldsHeld` concludes that no worker is evicted or reaped under a call.
- `Owned`: the call that marked its worker busy is its only one, the worker is busy, and if it is a turn the receiver is its own. `TurnListens` follows;
  it is not inductive, as a turn that is still asking must already be the receiver, nor is `BusyHasOwner`, as a second owner could clear the mark of the first.
- `Mapped`, `Adding`, `Unmarked`: a worker is in the map once and for the session of its calls; one that is not added yet is one call's alone, and not busy.
  `clear` only acts when the session's worker is the call's, so without `Mapped` a mark could outlive its owner in another session's slot.
- `Placed`: who runs is a turn, and whoever is at work has a process.

`CodexPoolProofs` (`CodexInPlace`: `InPlace`, that is `TypeOK`, `HeldInPlace`, `BusyHasOwner`, `OneFinisher`). Two arguments, one for the map and one
for the streams.

- The map. `Counted`: the calls that have room reserved are at most `starting`, and the workers with `starting` at most `MaxLive`; the second half is the
  bound, but without the first a call could give back what nobody took. `Leased` counts leases as in `PiRuntime`. `Settling`: until its
  resume settles a worker is one call's, and nobody has leased it, so only that call can take it back from the map. `Mapped`: a worker is one
  session's, that of the calls on it. `Creating`: a session being created has no worker and no other call, and its client is the creator's alone.
  `Owned`: a turn that marked its worker is its only owner; `BusyHasOwner` alone would let one of two clear the other's mark.
- The streams. `OneFinisher` counts who will close a stream; that a step keeps the count says nothing of who may still take it. `Finishing` says where it is: a
  turn under way without a result is its own client's registered turn or in exactly one `failing`, one with a result is neither.
  `Registered`: what a client has registered is a turn under way on that client, so `dispatch`, `failProcess` and `Kill`, which each
  empty the slot in the critical section in which they read it, take different streams. `Unbegun`: before its start is written a call's
  stream is nowhere, so that registering it makes the first finisher.
- Of the map, what a step does to the streams needs `Placed` alone: that a call past its look-up has a client, and that only a turn starts or runs one.

`ServicesProofs` states the theorems about the turn's stream, the limits and the broker for the specification the
run `Services` checks (`TurnsForwarded`, `WaitsBounded`, `NoEarlyResume`, `EventsDelivered`): a step of the three side by side
is a step or a stutter of each. The three are proved about in place, as the instances `Loop`, `Limits` and `Events`.

`LiveViewProofs` (`StateShown`: `ShowsState`; `TextMirrored`: `MirrorsPreview`). Both properties speak of a tab that got all there was, and the
next step puts an event in its channel; what is kept is said of the channel and the tab together.

- `Told`: the last event of the channel about the turn, or the tab when there is none, agrees with the turn. `Queue` says the same of the queue's version.
- `Bubble`: no bubble is dead. It rests on `Dead` and `Over`: an end with a reason leaves the bubble to the error before it, so it must come to a tab
  without one, wherever it is in the channel and while it is still to be published. That is false of a tab that missed the error,
  and of one that missed the end of a turn that ran between the error and its end; the second case was found where the proof failed.
- `Mirror`: the events in the channel, handled one after the other, bring the tab to the text the server keeps. Before the snapshot this is
  claimed of every tab without text, as the snapshot may find a bubble or not. It is stated by the tabs in between (`Shows`), so that nothing
  is computed by recursion: an event put at the end extends them by one, and one taken from the head drops the first.
- `Typed`: the token is registered from `Take` to the end, and only a turn that runs has a preview.

`DeliveriesProofs` does the same for the seven components of the run `Deliveries`, each with its own strengthening (`Held` is the seven):

- `Relays` (`HandedOnce`: `AnsweredInPlace`, the first half of `GoesOnce`). `Answerable` follows an answer through its stages: until its question is over it is neither logged nor sent, from then on the
  question is the session's no more, and an answer's turn that ran is in the log, unless something failed. `AnsweredInPlace` speaks of questions that are over, and would let an
  answer be sent before its question's end and again at it. `Lined`, that what is queued is in the queue once, is why a promotion or a flush takes an answer that waits, and takes it once.
- `Terminal` (`HandedOnce`: `LinesOnce`, the second half). `Paired`: an id is of one line and a line has one id, over all that was sent, entered or kept in a tab, restarts
  and lost answers included; it is why the manager may compare ids where the promise is about lines. `Remembered`: what the open window was given
  is remembered or forgotten, and what is remembered was given to the open window. The second half is what makes "ok" to a retry true, and
  what dropping the ids in `Open` and `Close` is for. The bound on ids only has to be at least one: the id just entered must not be the one dropped.
- `AgentUpdate` (`UpdateShown`: `OutcomeShown`). `Timely`: what a check found is of now, unless an update runs, or ended and left the entry another
  generation; `OneUpdate`. That a release is offered exactly when it is later rests on `NewerIsLater`: `compareVersions` agrees with
  the order `Precedes` gives, for any releases but two tags of one core.
- `PluginStream` (`StreamKeepsUp`: `KeepsUp`). `Alone`: with a process that took the path alone there is no other, so nobody unlinks its path. `Subscribed`: the last
  event about a session that the stream holds says whether it runs, and an event of a session that does not run is followed by its end; the first is needed to
  read an event, the second to lose them with a connection. `Informed`: what the plugin takes for running runs, ended in a gap, or has an event
  to be read, and the converse once the stream has listed.
- `Push` (`NoticesSent`: `Notified`). `Due` is stronger than the property: a notice owed has a subscription, and waits in a queue, is itself being sent, or was silenced by a collector.
  `SentAfter`: numbers are of one event, and no notice of it is under way or delivered before it leaves its queue. `Saved` adds what the
  disk has, without which a restart could not keep what browsers want.
- `SessionMeta` (`DecisionsKept`: `LastWordStands`, `Outlives`). `OnDisk`: memory and file differ only after a failed save. `Faultless`: as long as nothing failed the file has
  the last word, and the approval is in one of the two files; in usher's own from the import on, and only there once usher runs. The
  last is why an approval that was withdrawn cannot come back: the properties speak of a usher that runs, and the import is before that.
- `Settings` (`DecisionsKept`: `Kept`, `Indexed`). `Read`: memory has the agents and schedules of the file once it was read, so that a save of another
  section writes them back as they were. `TakenOver`: an older file is removed only when its section was stored. A change that could not be saved is unmade in the list and in
  the index one after the other; that this restores both rests on the list having each name once (`Lists`, `IndexIs`).

Only model-checked:

- all liveness (`TurnCloses`, `SendsSettle`, `Settles`, `OpsSettle`, `CallsEnd`, `ForeignNoticed`, `AnswersArrive`, `WaitEnds`,
  `NeverStalls`), as TLAPS here has no rules for fairness and ENABLED;
- the assemblers, the window and cron's walk (`Paged`, `OnTime`), which are folds and recursions over data and would need induction;
- `NotesTold` of `Relays`, which flattens what was said by a recursion over a sequence, and `RoutedReply` beside it (`Routing`);
- the safety of `Discovery` (`Registered`), `Telegram` and `Lark`: no proof was attempted.

## 6. Not modelled, and the plan

`PROJECT.json` says of each component what is left. Left out for good: HTTP decoding and API handlers (they call what is modelled), authentication,
MCP tools (they translate to router calls), configuration and catalogs, rendering of messages, cards and tool inputs, walks of directories, the terminal's captures and keys,
cryptography of push messages, the backends' own behaviour (they appear as environment), process start-up. Of the pools: switches of model and
approval, catalogs, `applySwitch` and `tailPiJSONL` of pi, a pipe that is full. Of the bridges: titles, resources, images, and permissions that are not questions. The
overflow of push's channels and of a relay's collector is not modelled.

What is planned next:

1. Theorems about `Discovery` and the bridges.
2. The relay's collector with a lossy channel; the switches of model and approval in the pools.
