---------------------------- MODULE ClaudeTranscript ----------------------------
(***************************************************************************)
(* Claude's session log (pkg/claude/jsonl): the assembler that groups its  *)
(* records into turns, the end of a turn, and the copy a fork starts from. *)
(*                                                                         *)
(* A record is its kind and what it refers to: an assistant message names  *)
(* its model (0: one Claude wrote itself), a tool's result and what a tool *)
(* added later name the line of the call, a notice the lines it retracts.  *)
(* A record's uuid is its line.                                            *)
(***************************************************************************)
EXTENDS Turns

LOCAL INSTANCE SequencesExt
LOCAL INSTANCE FiniteSetsExt

\* Assembler: the turn being assembled, the calls seen, and the last model.
Asm0 == [cur |-> NoTurn, calls |-> {}, last |-> 0]

\* The turn gets parts, its model and its last record.
Extend(a, i, model, parts) ==
  LET cur == IF a.cur = NoTurn THEN Opened(i, 0) ELSE a.cur IN
  [a EXCEPT !.cur = [cur EXCEPT !.model = IF @ = 0 THEN model ELSE @,
                                !.parts = @ \o parts, !.id = i]]

\* retract: the turn loses the parts of the retracted records, and shows the
\* model that took over.
Retract(a, gone) ==
  LET kept == SelectSeq(a.cur.parts, LAMBDA p : p.src[1] \notin gone) IN
  IF a.cur = NoTurn THEN a
  ELSE [a EXCEPT !.cur.model = IF Len(kept) < Len(a.cur.parts) THEN a.last ELSE @,
                 !.cur.parts = kept]

\* The part a call has in the turn, the title its result gets if its call was seen.
PartsOf(a, call) == {n \in DOMAIN a.cur.parts : a.cur.parts[n].call = call}
Title(a, call) == IF call \in a.calls THEN call ELSE 0

\* What a tool added after its result goes to the tool's part, or to one of its own.
AddToTool(a, i, call) ==
  IF PartsOf(a, call) # {}
  THEN [a EXCEPT !.cur.parts[Max(PartsOf(a, call))].src = Append(@, i), !.cur.id = i]
  ELSE Extend(a, i, 0, <<Part(call, Title(a, call), i)>>)

\* A silent result has a part only when its call is known.
ResultParts(a, i, call, silent) ==
  IF silent /\ call \notin a.calls THEN <<>> ELSE <<Part(call, Title(a, call), i)>>

\* Assembler.Feed.
Feed(a, i, r) ==
  LET kind == r[1]
      x == r[2]
      said == [a EXCEPT !.calls = IF kind = "call" THEN @ \cup {i} ELSE @,
                        !.last = IF x = 0 THEN @ ELSE x]
  IN
  CASE kind = "compact" -> Commit(a, <<Turn("system", i, 0)>>)
    [] kind = "notice" -> Commit(Retract(a, x), <<Turn("system", i, 0)>>)
    [] kind = "error" -> Commit(a, <<Turn("error", i, i)>>)
    [] kind = "prompt" -> Commit(a, <<Turn("user", i, 0)>>)
    [] kind = "meta" -> Fed(AddToTool(a, i, x), <<>>)
    [] kind = "text" -> Fed(Extend(said, i, x, <<Part(0, 0, i)>>), <<>>)
    [] kind = "call" -> Fed(Extend(said, i, x, <<>>), <<>>)
    [] kind \in {"result", "silent"} ->
         Fed(Extend(a, i, 0, ResultParts(a, i, x, kind = "silent")), <<>>)
    [] OTHER -> Fed(a, <<>>)    \* boilerplate, the end-of-turn marker

\* It carries no state that a read from mid-file would miss.
Missed(a) == FALSE
Heard(a) == a

-----------------------------------------------------------------------------
(* Forks.                                                                  *)

\* modelStopped: an assistant message that asks for no tool.
Stops(r) == r[1] \in {"text", "error"}

\* The records after the fork point that cut it: user records without a result.
Prompts(log, u) == {i \in u + 1 .. Len(log) : log[i][1] \in {"prompt", "boiler", "meta"}}

\* Mutant: the fork holds the next prompt.
ForkIncluding(log, u) ==
  IF Prompts(log, u) = {} THEN <<>> ELSE SubSeq(log, 1, Min(Prompts(log, u)))

\* forkPrefix: the lines through the turn of record u, or none when the turn
\* has not completed.
ForkPrefix(log, u) ==
  LET cut == IF Prompts(log, u) = {} THEN Len(log) ELSE Min(Prompts(log, u)) - 1
      said == {i \in u .. cut : log[i][1] \in {"text", "call", "error", "result", "silent"}}
      done == \/ cut < Len(log)
              \/ \E i \in u + 1 .. cut : log[i][1] = "ended"
              \/ said # {} /\ Stops(log[Max(said)])
  IN IF done THEN SubSeq(log, 1, cut) ELSE <<>>

-----------------------------------------------------------------------------
(* External: what Claude writes next.  A prompt lands once the turn before *)
(* it has its tools' results; a notice retracts a message of its turn.     *)

Open(log) ==
  {i \in DOMAIN log : log[i][1] = "call"
                      /\ \A j \in DOMAIN log : log[j] \notin {<<"result", i>>, <<"silent", i>>}}

Writes(log) ==
  LET said == {i \in DOMAIN log : log[i][1] = "text"
                                  /\ \A j \in i .. Len(log) : log[j][1] # "prompt"}
  IN
  {<<"text", m>> : m \in 0 .. 2} \cup {<<"call", 1>>, <<"boiler", 0>>}
  \cup {<<k, i>> : k \in {"result", "silent"}, i \in Open(log)}
  \cup {<<"meta", i>> : i \in {j \in DOMAIN log : log[j][1] = "call"} \ Open(log)}
  \cup {<<k, 0>> : k \in {"compact", "error", "ended"}}
  \cup {<<"prompt", 0>> : x \in {y \in {0} : Open(log) = {}}}
  \cup {<<"notice", {Max(said)}>> : x \in {y \in {0} : said # {}}}
==============================================================================
