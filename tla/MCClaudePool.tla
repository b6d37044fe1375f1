----------------------------- MODULE MCClaudePool ------------------------------
(* Values for TLC.                                                         *)
EXTENDS ClaudePool, TLC

CONSTANTS s1, s2, c1, c2

MCJob(kind, session) == [kind |-> kind, session |-> session]

\* A send, and a send or a resume of its session or of another one.
MCJobs ==
  {c1 :> MCJob("send", s1) @@ c2 :> MCJob(k, s) : k \in {"send", "resume"}, s \in {s1, s2}}
==============================================================================
