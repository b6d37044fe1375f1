---------------------------------- MODULE Rollout ----------------------------------
(*****************************************************************************)
(* Codex's session log (pkg/codex/rollout): its assembler and its forks.     *)
(*                                                                           *)
(* A command runs in a batched "exec" wrapper, whose script starts it, reads *)
(* a session's output or sends it input; a command that outlives its wrapper *)
(* is known by a session, and its own item closes it.  An MCP call may be    *)
(* recorded by a legacy event, an item and a model item.  Records:           *)
(*   <<"context", model>>   <<"user", 0>>   <<"text", 0>>   <<"compact", 0>> *)
(*   <<"done", 0>>   <<"abort", 0>>   <<"event", 0>>, <<"item", 0>>: a tool  *)
(*   <<"mcp", call>>   <<"call", 0>>   <<"output", line of the call>>        *)
(*   <<"exec", <<what, session>>>>   <<"command", session>>                  *)
(*   <<"chunk", [of, session, printed]>>: a wrapper's output                 *)
(*****************************************************************************)
EXTENDS Turns

LOCAL INSTANCE SequencesExt
LOCAL INSTANCE FiniteSetsExt

NoCommand == [command |-> 0, turn |-> 0, idx |-> 0, done |-> FALSE]

\* Assembler.  pending are the wrappers waiting for their output, each with
\* the count of tool items when it was called; a turn is known by its birth.
Asm0 == [cur |-> NoTurn, model |-> 0, pending |-> <<>>, seen |-> {}, items |-> 0,
         bg |-> <<>>, missed |-> FALSE]

Drop(f, k) == [x \in DOMAIN f \ {k} |-> f[x]]
Put(f, k, v) == [x \in DOMAIN f \cup {k} |-> IF x = k THEN v ELSE f[x]]
Bg(a, s) == IF s \in DOMAIN a.bg THEN a.bg[s] ELSE NoCommand

\* ensureTurn: a turn opened before any model was seen missed its context.
EnsureTurn(a, i) ==
  IF a.cur # NoTurn THEN a
  ELSE [a EXCEPT !.cur = Opened(i, a.model), !.missed = @ \/ a.model = 0]

\* appendTool.
AppendPart(a, i, title) ==
  LET b == EnsureTurn(a, i) IN [b EXCEPT !.cur.parts = Append(@, Part(0, title, i))]

\* toolItem: a rendered item is counted, for the wrapper that ran the same.
ToolItem(a) == [a EXCEPT !.items = @ + 1]

\* Mutant: a call is rendered for every record of it.
McpEachTime(a, i, call) == AppendPart(a, i, 0)

\* markMCP: the records of one MCP call make one part.
McpPart(a, i, call) ==
  IF call \in a.seen THEN a ELSE AppendPart([a EXCEPT !.seen = @ \cup {call}], i, 0)

InTurn(a, bg) == bg.turn # 0 /\ bg.turn = a.cur.born

\* commandPart: a finished command takes over the card it has in this turn.
CommandPart(a, i, s) ==
  LET bg == Bg(a, s)
      told == IF bg = NoCommand THEN a ELSE [a EXCEPT !.bg[s].done = TRUE]
  IN IF InTurn(a, bg) THEN [told EXCEPT !.cur.parts[bg.idx] = Part(0, 0, i)]
     ELSE AppendPart(told, i, 0)

\* backgroundProgress: output goes to the card the command has in this turn;
\* one that printed nothing opens none, unless it has just started.
Progress(a, i, s, bg, printed) ==
  LET b == AppendPart([a EXCEPT !.bg = Put(@, s, bg)], i, bg.command)
      opens == printed \/ (bg.turn = 0 /\ bg.command # 0)
  IN CASE InTurn(a, bg) /\ printed -> [a EXCEPT !.cur.parts[bg.idx].src = Append(@, i)]
       [] ~InTurn(a, bg) /\ opens ->
            [b EXCEPT !.bg[s].turn = b.cur.born, !.bg[s].idx = Len(b.cur.parts)]
       [] OTHER -> [a EXCEPT !.bg = Put(@, s, bg)]

\* backgroundOutput, of a wrapper with one call: of a command that runs on, of
\* a read of it, or of input sent to it.
Background(a, i, stash, chunk, s) ==
  LET bg == Bg(a, s)
      stdin == stash.what \in {"read", "send"}
      cold == [a EXCEPT !.missed = @ \/ (bg = NoCommand /\ stdin)]
      new == [NoCommand EXCEPT !.command = IF stdin THEN 0 ELSE chunk.of]
  IN CASE stash.what = "send" -> AppendPart(cold, i, bg.command)
       [] stash.what # "send" /\ bg.done /\ chunk.session = 0 -> cold
       [] OTHER -> Progress(cold, i, s, IF bg = NoCommand \/ bg.done THEN new ELSE bg,
                            chunk.printed)

\* The output of a wrapper: dropped when its operations rendered as items.
Output(a, i, chunk) ==
  LET stash == a.pending[chunk.of]
      b == [a EXCEPT !.pending = Drop(@, chunk.of)]
      s == IF chunk.session # 0 THEN chunk.session ELSE stash.session
  IN CASE chunk.of \notin DOMAIN a.pending -> a
       [] chunk.of \in DOMAIN a.pending /\ s # 0 -> Background(b, i, stash, chunk, s)
       [] OTHER -> IF stash.what = "skip" \/ a.items > stash.items THEN b
                   ELSE AppendPart(b, i, chunk.of)

\* A search, an image or a dynamic tool: one card, once it is done.
OneShot(a, i) == AppendPart(a, i, 0)

Still(a) == Fed(a, <<>>)

\* feedEvent.
FeedEvent(a, i, kind, x) ==
  CASE kind = "user" -> Commit(a, <<Turn("user", i, 0)>>)
    [] kind = "compact" -> Commit(a, <<Turn("system", i, 0)>>)
    [] kind = "abort" -> Commit(a, <<Turn("error", i, 0)>>)
    [] kind = "done" -> Commit([a EXCEPT !.cur.id = IF a.cur # NoTurn THEN i ELSE @], <<>>)
    [] kind = "text" -> Still(AppendPart(a, i, 0))
    [] kind = "event" -> Still(OneShot(a, i))
    [] kind = "mcp" -> Still(McpPart(a, i, x))

\* feedItemCompleted: items of messages, compactions and MCP calls read as
\* their events do; those of tools are counted.
FeedItem(a, i, kind, x) ==
  Still(ToolItem(IF kind = "command" THEN CommandPart(a, i, x) ELSE OneShot(a, i)))

\* feedResponseItem: a call waits for its output.
FeedResponse(a, i, kind, x) ==
  CASE kind = "call" -> Still([a EXCEPT !.pending = Put(@, i, [what |-> "call"])])
    [] kind = "output" ->
         Still(AppendPart([a EXCEPT !.pending = Drop(@, x)], i,
                          IF x \in DOMAIN a.pending THEN x ELSE 0))
    [] kind = "exec" ->
         Still([a EXCEPT !.pending = Put(@, i, [what |-> x[1], session |-> x[2],
                                                items |-> a.items])])
    [] kind = "chunk" -> Still(Output(a, i, x))

\* feedTurnContext.
FeedContext(a, model) ==
  Still([a EXCEPT !.model = model,
                  !.cur.model = IF a.cur # NoTurn /\ @ = 0 THEN model ELSE @])

\* Feed.
Feed(a, i, r) ==
  CASE r[1] = "context" -> FeedContext(a, r[2])
    [] r[1] \in {"item", "command"} -> FeedItem(a, i, r[1], r[2])
    [] r[1] \in {"call", "output", "exec", "chunk"} -> FeedResponse(a, i, r[1], r[2])
    [] OTHER -> FeedEvent(a, i, r[1], r[2])

\* MissedContext reads the mark and resets it.
Missed(a) == a.missed
Heard(a) == [a EXCEPT !.missed = FALSE]

\* ForkCopy: the lines through the end of the turn, which its completion names.
ForkPrefix(log, u) == IF log[u][1] = "done" THEN SubSeq(log, 1, u) ELSE <<>>

-----------------------------------------------------------------------------
(* External: what Codex writes next.                                       *)

Outputs(log) == {log[j][2].of : j \in {j \in DOMAIN log : log[j][1] = "chunk"}}
Waiting(log) == {i \in DOMAIN log : log[i][1] = "exec"} \ Outputs(log)

\* The sessions of commands that still run: a wrapper's output left them
\* running, and neither an item nor a read saw them exit.
Running(log) ==
  {s \in {1} : LET marks == {j \in DOMAIN log : \/ log[j] = <<"command", s>>
                                                 \/ /\ log[j][1] = "chunk"
                                                    /\ \/ log[j][2].session = s
                                                       \/ log[log[j][2].of][2] = <<"read", s>>}
                IN marks # {} /\ log[Max(marks)][1] = "chunk" /\ log[Max(marks)][2].session = s}

\* A wrapper starts a command of the session's number when none runs; a read of
\* a command that was told to have ended says so too.
Chunks(log, i) ==
  LET stdin == log[i][2][1] \in {"read", "send"} IN
  {[of |-> i, session |-> s, printed |-> p] :
     s \in IF stdin = (Running(log) # {}) THEN {0, 1} ELSE {0}, p \in BOOLEAN}

Writes(log) ==
  {<<k, 0>> : k \in {"text", "event", "item", "compact", "done", "abort", "user", "command"}}
  \cup {<<"context", m>> : m \in 1 .. 2} \cup {<<"mcp", 1>>, <<"call", 0>>}
  \cup {<<"output", i>> : i \in {j \in DOMAIN log : log[j][1] = "call" /\ log[Len(log)] = log[j]}}
  \cup {<<"exec", <<"run", 0>>>>, <<"exec", <<"skip", 0>>>>}
  \cup {<<"exec", <<k, s>>>> : k \in {"read", "send"}, s \in Running(log)}
  \cup {<<"command", s>> : s \in Running(log)}
  \cup {<<"chunk", c>> : c \in UNION {Chunks(log, i) : i \in Waiting(log)}}
==============================================================================
