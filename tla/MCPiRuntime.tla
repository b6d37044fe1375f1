------------------------------ MODULE MCPiRuntime ------------------------------
(* Values for TLC.                                                         *)
EXTENDS PiRuntime, TLC

CONSTANTS s1, s2, c1, c2

MCJob(kind, session) == [kind |-> kind, session |-> session]

\* A turn with another call of its session, or one that wants its slot.
MCJobs ==
  {c1 :> MCJob("send", s1) @@ c2 :> job :
     job \in {MCJob(k, s1) : k \in {"send", "operation", "rename", "kill"}}
             \cup {MCJob(k, s2) : k \in {"send", "create", "resume"}}}
==============================================================================
