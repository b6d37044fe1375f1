--------------------------------- MODULE Transcripts ---------------------------------
(******************************************************************************)
(* A session's transcript and a tab that shows it.  The log grows a record at *)
(* a time; the server answers from it (pkg/router/router.go: ReadTurns,       *)
(* ReadTurnsFrom; pkg/window); the tab catches up from its last turn, and     *)
(* pages back (pkg/web/static/detail.js: loadTranscript, loadEarlier).  A     *)
(* request reads the log as it is issued, and its answer is applied later:    *)
(* other answers and records may come in between.                             *)
(******************************************************************************)
EXTENDS Integers, Sequences, FiniteSets

CONSTANTS
  Logs,            \* bound: what a tab is opened on: [format, log], the kinds of
                   \* record still written, how many, and the requests of the tab
  Page,            \* TRANSCRIPT_PAGE
  EarlierPage,     \* EARLIER_PAGE
  Probe, Budget, SpanMax,  \* the spans the window reads
  Warm             \* the turns a span warms up with

LOCAL INSTANCE SequencesExt

VARIABLES
  format,      \* the backend the session runs on
  log,         \* the log
  kinds,       \* bound: the kinds of record that are still written
  grows,       \* bound: how many still are
  asks,        \* bound: requests that the tab still makes
  shown,       \* renderedTurns: each a turn and its cursor
  hasEarlier,  \* whether the tab offers older turns
  loads,       \* loadTranscript's requests in flight, with their answers
  earlier,     \* loadEarlier's request in flight, with its answer
  sig,         \* lastTranscriptSig
  read,        \* history: the records that the answer rendered last knew
  straddled    \* history: an older page in flight while the newest was rendered

backend == <<format, log, kinds, grows>>
tab == <<shown, hasEarlier, loads, earlier, sig, asks, read, straddled>>
vars == <<backend, tab>>

-----------------------------------------------------------------------------
(* The server.                                                             *)

\* FileLines: every line of the span.
FileLines(l, from, stop, last) == [k \in 1 .. stop - from |-> from + k]

C == INSTANCE ClaudeTranscript
X == INSTANCE Rollout
P == INSTANCE PiTranscript

ClaudePages == INSTANCE Window WITH
  Asm0 <- C!Asm0, Feed <- C!Feed, Flush <- C!Flushed, Missed <- C!Missed, Heard <- C!Heard,
  Lines <- FileLines
CodexPages == INSTANCE Window WITH
  Asm0 <- X!Asm0, Feed <- X!Feed, Flush <- X!Flushed, Missed <- X!Missed, Heard <- X!Heard,
  Lines <- FileLines
PiPages == INSTANCE Window WITH
  Asm0 <- P!Asm0, Feed <- P!Feed, Flush <- P!Flushed, Missed <- P!Missed, Heard <- P!Heard,
  Lines <- P!BranchLines

Before(l, before, limit) ==
  CASE format = "claude" -> ClaudePages!PageBefore(l, before, limit)
    [] format = "codex" -> CodexPages!PageBefore(l, before, limit)
    [] format = "pi" -> PiPages!PageBefore(l, before, limit)

From(l, at) ==
  CASE format = "claude" -> ClaudePages!PageFrom(l, at)
    [] format = "codex" -> CodexPages!PageFrom(l, at)
    [] format = "pi" -> PiPages!PageFrom(l, at)

\* ReadTurns, without a cursor and before one.
Newest(l, limit) == Before(l, ClaudePages!End(l), limit)

\* The whole transcript: what one assembler reads from the log's start.
Whole(l) == Newest(l, 0).turns

Writes ==
  {r \in CASE format = "claude" -> C!Writes(log)
           [] format = "codex" -> X!Writes(log)
           [] format = "pi" -> P!Writes(log) : r[1] \in kinds}

\* ForkCopy, forkRPCCommand: the log a fork after record u begins with.
ForkPrefix(u) ==
  CASE format = "claude" -> C!ForkPrefix(log, u)
    [] format = "codex" -> X!ForkPrefix(log, u)
    [] format = "pi" -> P!ForkPrefix(log, u)

-----------------------------------------------------------------------------
(* The tab.                                                                *)

None == [off |-> -1, nth |-> 0]

Init ==
  /\ \E l \in Logs : /\ format = l.format /\ log = l.log
                     /\ kinds = l.kinds /\ grows = l.grows /\ asks = l.asks
  /\ shown = <<>> /\ hasEarlier = FALSE
  /\ loads = <<>> /\ earlier = <<>>
  /\ sig = <<>> /\ read = 0 /\ straddled = FALSE

\* The backend writes a record.
Grow ==
  /\ grows > 0 /\ grows' = grows - 1
  /\ \E r \in Writes : log' = Append(log, r)
  /\ UNCHANGED <<format, kinds, tab>>

Cursors == {k \in DOMAIN shown : shown[k].cursor # None}

\* turnKey: a turn's role, its time and its parts.
Key(t) == [t EXCEPT !.id = 0, !.model = 0]

Asking == asks > 0 /\ asks' = asks - 1

\* loadTranscript asks for what follows the last turn with a cursor, or for the
\* newest page.
LoadTranscript ==
  /\ Asking
  /\ LET from == IF Cursors = {} THEN None
                 ELSE shown[CHOOSE k \in Cursors : \A j \in Cursors : j <= k].cursor
         page == IF from = None THEN Newest(log, Page)
                 ELSE [turns |-> From(log, from), more |-> FALSE]
     IN loads' = Append(loads, [from |-> from, page |-> page, size |-> Len(log)])
  /\ UNCHANGED <<backend, shown, hasEarlier, earlier, sig, read, straddled>>

\* How many of the turns rendered from base on match those of the page.
Same(turns, base) ==
  LET n == Len(turns)
      match(k) == base + k <= Len(shown) /\ Key(shown[base + k].turn) = Key(turns[k].turn)
  IN CHOOSE m \in 0 .. n : /\ \A k \in 1 .. m : match(k)
                           /\ m = n \/ ~match(m + 1)

\* The answer is rendered: the turns from base on that match stay, with what
\* they learn; the rest are replaced.
Render(load, base) ==
  LET turns == load.page.turns
      next == <<load.from, Len(turns), IF turns = <<>> THEN <<>> ELSE turns[Len(turns)]>>
      same == Same(turns, base)
  IN IF next = sig THEN UNCHANGED <<shown, sig, read>>
     ELSE /\ sig' = next
          /\ read' = load.size
          /\ shown' = IF turns = <<>> THEN <<>>
                      ELSE SubSeq(shown, 1, base) \o
                           [k \in DOMAIN turns |->
                              IF k <= same
                              THEN [shown[base + k] EXCEPT !.cursor = turns[k].cursor]
                              ELSE turns[k]]

Base(load) == {k \in DOMAIN shown : shown[k].cursor = load.from}

\* The answer to a load: from a turn that is still rendered, or the newest page.
LoadAnswered ==
  \E n \in DOMAIN loads :
    LET load == loads[n]
        rest == RemoveAt(loads, n)
    IN
    \/ /\ load.from # None /\ load.page.turns # <<>> /\ Base(load) # {}
       /\ Render(load, (CHOOSE k \in Base(load) : TRUE) - 1)
       /\ loads' = rest
       /\ UNCHANGED <<backend, hasEarlier, earlier, asks, straddled>>
    \/ /\ load.from # None /\ (load.page.turns = <<>> \/ Base(load) = {})
       /\ loads' = Append(rest, [from |-> None, page |-> Newest(log, Page), size |-> Len(log)])
       /\ UNCHANGED <<backend, shown, hasEarlier, earlier, sig, asks, read, straddled>>
    \/ /\ load.from = None
       /\ hasEarlier' = load.page.more
       /\ Render(load, 0)
       /\ loads' = rest
       /\ straddled' = (straddled \/ earlier # <<>>)
       /\ UNCHANGED <<backend, earlier, asks>>

\* loadEarlier asks for the page ahead of the oldest turn.
LoadEarlier ==
  /\ Asking
  /\ earlier = <<>> /\ hasEarlier
  /\ shown # <<>> /\ shown[1].cursor # None
  /\ earlier' = <<Before(log, shown[1].cursor, EarlierPage)>>
  /\ UNCHANGED <<backend, shown, hasEarlier, loads, sig, read, straddled>>

EarlierAnswered ==
  /\ earlier # <<>>
  /\ shown' = earlier[1].turns \o shown
  /\ hasEarlier' = (earlier[1].more /\ earlier[1].turns # <<>>)
  /\ earlier' = <<>>
  /\ UNCHANGED <<backend, loads, sig, asks, read, straddled>>

\* finalizeLiveTurn: the live bubble becomes a turn without a cursor, that the
\* transcript has or has not yet.
LiveEnds ==
  /\ Asking
  /\ shown # <<>> /\ shown[Len(shown)].cursor # None
  /\ \E t \in {Last(Whole(log)).turn, [Last(Whole(log)).turn EXCEPT !.parts = <<>>]} :
       shown' = Append(shown, [turn |-> t, cursor |-> None])
  /\ UNCHANGED <<backend, hasEarlier, loads, earlier, sig, read, straddled>>

\* adoptLastTurnAsLive: the last turn becomes the live bubble.
AdoptLast ==
  /\ Asking
  /\ shown # <<>> /\ shown[Len(shown)].turn.role = "assistant"
  /\ shown' = Front(shown)
  /\ UNCHANGED <<backend, hasEarlier, loads, earlier, sig, read, straddled>>

Next ==
  \/ Grow \/ LoadTranscript \/ LoadAnswered \/ LoadEarlier \/ EarlierAnswered
  \/ LiveEnds \/ AdoptLast

Spec == Init /\ [][Next]_vars

-----------------------------------------------------------------------------
(* Properties.                                                             *)

\* The turns of the tab that have a cursor are those of a transcript from one
\* on, and older ones are on offer unless that is the first.
Stretch(known, whole) ==
  \E k \in 0 .. Len(whole) - Len(known) :
    /\ \A j \in DOMAIN known : /\ Key(whole[k + j].turn) = Key(known[j].turn)
                               /\ whole[k + j].cursor = known[j].cursor
    /\ k = 0 \/ hasEarlier

\* The turns with a cursor are a stretch of the transcript of the log the tab
\* last rendered from, and the tab offers older turns when it does not begin
\* with the first (pkg/web/static/detail.js:1873, pkg/window/window.go:53).
\* The exception is an older page that was asked for before the newest page
\* replaced what is rendered, and lands after it.
Shown ==
  \/ straddled \/ Cursors = {}
  \/ Stretch(SelectSeq(shown, LAMBDA e : e.cursor # None), Whole(SubSeq(log, 1, read)))

\* The keys of a transcript's turns.
Keys(turns) == [k \in DOMAIN turns |-> Key(turns[k].turn)]

\* A fork after the k-th turn reads as the transcript through that turn, and
\* nothing from the next prompt on.
KeptBy(k, whole, fork) ==
  fork = <<>>
  \/ \E m \in k .. Len(whole) : /\ Keys(fork) = Keys(SubSeq(whole, 1, m))
                                /\ \A j \in k + 1 .. m : whole[j].turn.role # "user"

ForksOf(whole) ==
  \A k \in DOMAIN whole :
    whole[k].turn.role = "assistant" /\ whole[k].turn.id # 0
      => KeptBy(k, whole, Whole(ForkPrefix(whole[k].turn.id)))

\* Of a session's forks (pkg/claude/jsonl/fork.go:13, pkg/codex/rollout/fork.go:20,
\* pkg/pi/fork.go:29).
ForkKeeps == ForksOf(Whole(log))

\* What the records of a command do: start it, read it, send to it or end it;
\* those that tell of the command of session 1.
Does(i) == IF log[i][1] = "chunk" THEN log[log[i][2].of][2][1] ELSE "end"
Told == {i \in DOMAIN log : \/ log[i] = <<"command", 1>>
                            \/ /\ log[i][1] = "chunk" /\ Does(i) # "send"
                               /\ 1 \in {log[i][2].session, log[log[i][2].of][2][2]}}

\* The parts of a turn that some records are in.
Cards(t, of) == {n \in DOMAIN t.parts : ToSet(t.parts[n].src) \cap of # {}}

OnceIn(turns) ==
  LET all(of) == {c \in turns \X DOMAIN log : c[2] \in Cards(c[1], of)}
      mcp == {i \in DOMAIN log : log[i][1] = "mcp"}
  IN /\ \A i \in DOMAIN log : Cardinality(all({i})) <= 1
     /\ mcp # {} => Cardinality(all(mcp)) = 1
     /\ Cardinality({i \in Told : Does(i) \in {"run", "skip"}}) = 1
          => \A t \in turns : Cardinality(Cards(t, Told)) <= 1

\* What a tool did is told once: a record is in one part, an MCP call has one
\* part however many records tell of it, and a command that outlives its
\* wrapper has one card in a turn (pkg/codex/rollout/rollout.go:290, :840).
OneCard == format = "codex" => OnceIn({e.turn : e \in ToSet(Whole(log))})

\* The lines that Claude took back, of those the tab's last answer knew.
Gone == UNION {log[i][2] : i \in {i \in 1 .. read : log[i][1] = "notice"}}

\* "a part streamed live and the same turn fetched later from /transcript can
\* never disagree on grouping or rendering" (pkg/claude/jsonl/jsonl.go:395): a
\* message that was taken back is not shown.
RetractedGone ==
  \A k \in DOMAIN shown : \A n \in DOMAIN shown[k].turn.parts :
    ToSet(shown[k].turn.parts[n].src) \cap Gone = {}
==============================================================================
