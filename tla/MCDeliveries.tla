---------------------------- MODULE MCDeliveries -----------------------------
(***************************************************************************)
(* An instance of Deliveries for TLC.                                      *)
(***************************************************************************)
EXTENDS Deliveries

\* What is dispatched, what else is sent and asked, and what may go wrong.
LOCAL Routed(t, others, qs, typ, ups, lk) ==
  [text |-> t, others |-> others, questions |-> qs, typed |-> typ, upsets |-> ups,
   looks |-> lk]
MCCases ==
  {Routed(<<1, 2>>, 0, 0, 1, 1, TRUE), Routed(<<1, 1>>, 0, 0, 2, 0, TRUE),
   Routed(<<1, 2>>, 0, 0, 2, 1, FALSE), Routed(<<1, 2>>, 1, 0, 2, 0, FALSE),
   Routed(<<1>>, 1, 1, 1, 1, FALSE), Routed(<<1>>, 0, 1, 1, 0, TRUE)}

\* 0.9.9, 0.10.0-rc.9, 0.10.0-rc.10, 0.10.0.
LOCAL Of(core, pre) == [core |-> core, pre |-> pre]
MCReleases ==
  <<Of(<<0, 9, 9>>, <<>>), Of(<<0, 10, 0>>, <<114, 99, 46, 57>>),
    Of(<<0, 10, 0>>, <<114, 99, 46, 49, 48>>), Of(<<0, 10, 0>>, <<>>)>>
==============================================================================
