---------------------------- MODULE MCSendQueue -----------------------------
(* SendQueue with three sends: one turn running, one queued, one to come.  *)
EXTENDS SendQueue

CONSTANTS a, b, c   \* model values: the sends

MCSends == {a, b, c}
MCRelayed == {a, b}   \* c is typed by the user: no collector
=============================================================================
