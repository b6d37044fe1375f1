---------------------------- MODULE MCInteraction -----------------------------
(* Interaction with two requests: two calls for one tool use's permission, a *)
(* permission and a question, or two questions.                              *)
EXTENDS Interaction, TLC

CONSTANTS p, q, NoTool, t  \* two requests; no tool use, and one

Permission == [kind |-> "permission", key |-> t]
Choice == [kind |-> "choice", key |-> NoTool]

MCAsks == {p :> Permission @@ q :> r : r \in {Permission, Choice}}
          \union {p :> Choice @@ q :> Choice}
=============================================================================
