-------------------------------- MODULE PiTranscript --------------------------------
(*****************************************************************************)
(* Pi's session log (pkg/pi/transcript.go): a tree of entries, one branch of *)
(* which is the conversation, and the assembler of that branch.              *)
(*                                                                           *)
(* A record is its kind, the line of its parent (0: none) and what it refers *)
(* to: an assistant message its blocks, each prose or a call; a result the   *)
(* line of the message that called it.  An entry's id is its line.           *)
(*****************************************************************************)
EXTENDS Turns

LOCAL INSTANCE SequencesExt
LOCAL INSTANCE FiniteSetsExt

Asm0 == [cur |-> NoTurn]

Begun(a, i) == IF a.cur = NoTurn THEN Opened(i, 0) ELSE a.cur

\* A result goes to the part of its call, or has one of its own.
Result(a, i, call) ==
  LET cur == Begun(a, i)
      at == {n \in DOMAIN cur.parts : cur.parts[n].call = call}
  IN [a EXCEPT !.cur = IF at = {} THEN [cur EXCEPT !.parts = Append(@, Part(call, 0, i))]
                       ELSE [cur EXCEPT !.parts[Max(at)].src = <<i>>]]

\* A message of the assistant: its parts, its model, and the turn's id if it
\* is the first.
Says(a, i, call, model) ==
  LET cur == IF a.cur = NoTurn THEN [Opened(i, 0) EXCEPT !.id = i] ELSE a.cur IN
  [a EXCEPT !.cur = [cur EXCEPT !.model = model,
                                !.parts = Append(@, Part(IF call THEN i ELSE 0, i, i))]]

\* FeedLineParts.
Feed(a, i, r) ==
  LET kind == r[1]
      x == r[3]
  IN
  CASE kind \in {"compaction", "shown"} -> Commit(a, <<Turn("system", i, i)>>)
    [] kind = "user" -> Commit(a, <<Turn("user", i, i)>>)
    [] kind = "text" -> Fed(Says(a, i, FALSE, x), <<>>)
    [] kind = "call" -> Fed(Says(a, i, TRUE, x), <<>>)
    [] kind = "failed" -> Commit([a EXCEPT !.cur = Begun(a, i)], <<Turn("error", i, i)>>)
    [] kind = "result" -> Fed(Result(a, i, x), <<>>)
    [] OTHER -> Fed(a, <<>>)    \* what is not displayed

Missed(a) == FALSE
Heard(a) == a

-----------------------------------------------------------------------------
(* branchLines.                                                            *)

\* The lines from a leaf up, among those of a span.
RECURSIVE Branch(_, _, _)
Branch(log, lines, leaf) ==
  IF leaf \notin lines THEN <<>>
  ELSE Append(Branch(log, lines, log[leaf][2]), leaf)

\* The branch of a span: the one the line at its end hangs off, or with last
\* the one its last line is on.
BranchLines(log, from, end, last) ==
  LET lines == from + 1 .. end
      leaf == IF last THEN end ELSE IF end < Len(log) THEN log[end + 1][2] ELSE 0
  IN Branch(log, lines, leaf)

\* forkRPCCommand: on the active branch, before the next user's message, or
\* the branch as it is.
ForkPrefix(log, u) ==
  LET branch == Branch(log, DOMAIN log, Len(log))
      later == {k \in DOMAIN branch : branch[k] > u /\ log[branch[k]][1] = "user"}
  IN IF \A k \in DOMAIN branch : branch[k] # u THEN <<>>
     ELSE IF later = {} THEN log
     ELSE SubSeq(log, 1, log[branch[Min(later)]][2])

\* External: what pi writes next: a record under the active leaf, or a user's
\* message under an earlier one (a turn taken again).
Writes(log) ==
  LET n == Len(log)
      users == {i \in DOMAIN log : log[i][1] = "user"}
      called == {i \in DOMAIN log : log[i][1] = "call"
                                    /\ \A j \in DOMAIN log : ~(log[j][1] = "result" /\ log[j][3] = i)}
  IN
  {<<k, n, 0>> : k \in {"compaction", "shown", "hidden", "user", "failed"}}
  \cup {<<k, n, m>> : k \in {"text", "call"}, m \in 1 .. 2}
  \cup {<<"result", n, i>> : i \in called \cap {n}}
  \cup {<<"user", log[i][2], 0>> : i \in users}
==============================================================================
