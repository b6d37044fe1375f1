------------------------------ MODULE MCCodexPool ------------------------------
(* Values for TLC.                                                         *)
EXTENDS CodexPool, TLC

CONSTANTS s1, s2, c1, c2

MCJob(kind, session) == [kind |-> kind, session |-> session]

\* A turn, and any call of its session or of another one.
MCJobs ==
  {c1 :> MCJob("turn", s1) @@ c2 :> MCJob(k, s) :
     k \in {"turn", "goal", "live", "kill", "create", "interrupt"}, s \in {s1, s2}}
==============================================================================
