--------------------------------- MODULE Turns ---------------------------------
(****************************************************************************)
(* The turns every transcript format is read into (pkg/core/transcript.go). *)
(* What a turn shows is the lines of the log its parts came from.           *)
(****************************************************************************)
EXTENDS Integers, Sequences

\* A part: the call it answers, the line its title is read from (0: none), and
\* the lines its content is made of.
Part(call, title, line) == [call |-> call, title |-> title, src |-> <<line>>]

NoTurn == [role |-> "none", born |-> 0, model |-> 0, parts |-> <<>>, id |-> 0]

\* A turn that one line makes: a prompt, a notice, an error.
Turn(role, line, id) ==
  [role |-> role, born |-> line, model |-> 0, parts |-> <<Part(0, 0, line)>>, id |-> id]

Opened(line, model) == [NoTurn EXCEPT !.role = "assistant", !.born = line, !.model = model]

\* Flush: a turn with no parts is dropped.
Flushed(a) == IF a.cur.parts = <<>> THEN <<>> ELSE <<a.cur>>

\* What an assembler makes of a line: the turns it completes.
Fed(a, done) == [a |-> a, done |-> done]

\* The turn in progress is flushed, and the line's own turns follow it.
Commit(a, turns) == Fed([a EXCEPT !.cur = NoTurn], Flushed(a) \o turns)
==============================================================================
