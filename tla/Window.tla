----------------------------------- MODULE Window -----------------------------------
(***************************************************************************)
(* Paging a session log (pkg/window/window.go): the turns before a cursor, *)
(* and the turns from a cursor on, read in spans that end where the turns  *)
(* kept so far begin.  A line is one byte here: line i is at offset i - 1, *)
(* and every offset is a line's start.                                     *)
(***************************************************************************)
EXTENDS Integers, Sequences

CONSTANTS
  Asm0, Feed(_, _, _), Flush(_), Missed(_), Heard(_),   \* the format's assembler
  Lines(_, _, _, _),                                    \* the transcript lines of a span
  Probe,                                                \* the first span
  Budget, SpanMax,                                      \* what a page parses, and spans
  Warm                                                  \* the turns a span warms up with

LOCAL INSTANCE SequencesExt

\* A turn's cursor: the offset of its first line, and its place among the
\* turns of that line.
Before(p, q) == p.off < q.off \/ (p.off = q.off /\ p.nth < q.nth)

End(log) == [off |-> Len(log), nth |-> 0]

\* The span's reader: the assembler, where the assistant turn in progress
\* began (-1: not yet), the last position, whether the turns read are whole,
\* and the turns kept, with whether each is cold.
Reader0(from) == [asm |-> Asm0, open |-> -1, last |-> [off |-> -1, nth |-> 0],
                  whole |-> from = 0, turns |-> <<>>, cold |-> <<>>]

\* add: turns of a span that opens midway count from its first user turn.
Add(rd, end, t, off, cold) ==
  LET p == [off |-> off, nth |-> IF rd.last.off = off THEN rd.last.nth + 1 ELSE 0]
      kept == Before(p, end) /\ (rd.whole \/ t.role = "user")
  IN IF ~kept THEN [rd EXCEPT !.last = p]
     ELSE [rd EXCEPT !.last = p, !.whole = TRUE,
                     !.turns = Append(@, [turn |-> t, cursor |-> p]),
                     !.cold = Append(@, cold)]

\* The turns a line completed.
AddAll(rd, end, from, off, fed) ==
  LET open == IF rd.open < 0 THEN off ELSE rd.open
      cold == from > 0 /\ Missed(fed.a)
      each(s, t) == Add(s, end, t, IF t.role = "assistant" THEN open ELSE off, cold)
  IN IF fed.done = <<>> THEN [rd EXCEPT !.asm = fed.a, !.open = open]
     ELSE FoldLeft(each, [rd EXCEPT !.asm = Heard(fed.a), !.open = -1], fed.done)

\* The turn that the span's end leaves open.
AddLast(rd, end, from) ==
  FoldLeft(LAMBDA s, t : Add(s, end, t, s.open, from > 0 /\ Missed(s.asm)), rd, Flush(rd.asm))

\* readSpan: the turns that start in [from, end).
ReadSpan(log, from, end) ==
  LET stop == IF end.nth > 0 THEN end.off + 1 ELSE end.off
      step(rd, i) == AddAll(rd, end, from, i - 1, Feed(rd.asm, i, log[i]))
  IN AddLast(FoldLeft(step, Reader0(from),
                      Lines(log, from, stop, end.nth > 0 \/ stop >= Len(log))), end, from)

Suffix(s, n) == SubSeq(s, Len(s) - n + 1, Len(s))

\* Mutant: the turns that are kept are not looked at.
ColdStart(rd) == Len(rd.turns) <= Warm

\* A span that opens midway must have warmed up, and its turns be warm.
Cold(rd) == Len(rd.turns) <= Warm \/ \E k \in Warm + 1 .. Len(rd.turns) : rd.cold[k]

Warmed(rd, from) == IF from = 0 THEN rd.turns ELSE Suffix(rd.turns, Len(rd.turns) - Warm)

\* Before: read back span by span.
RECURSIVE Back(_, _, _, _, _, _)

\* A span was read, and with it turns are kept.
Kept(log, limit, from, span, parsed, turns) ==
  CASE limit > 0 /\ Len(turns) > limit -> [turns |-> Suffix(turns, limit), more |-> TRUE]
    [] from = 0 /\ (limit = 0 \/ Len(turns) <= limit) -> [turns |-> turns, more |-> FALSE]
    [] OTHER ->
         IF Len(turns) = limit \/ parsed >= Budget THEN [turns |-> turns, more |-> TRUE]
         ELSE Back(log, limit, turns[1].cursor, IF span < SpanMax THEN span * 2 ELSE span,
                   parsed, turns)

Extended(log, limit, end, from, span, parsed, kept, rd) ==
  IF from > 0 /\ Cold(rd) THEN Back(log, limit, end, span * 4, parsed, kept)
  ELSE Kept(log, limit, from, span, parsed, Warmed(rd, from) \o kept)

Back(log, limit, end, span, parsed, kept) ==
  LET from == IF limit > 0 /\ span < end.off THEN end.off - span ELSE 0
  IN Extended(log, limit, end, from, span, parsed + (end.off - from), kept,
              ReadSpan(log, from, end))

PageBefore(log, before, limit) ==
  Back(log, limit, IF before.off >= Len(log) THEN End(log) ELSE before, Probe, 0, <<>>)

\* From: the turn at a cursor and every one after it, or nothing.
RECURSIVE Forward(_, _, _)

Short(rd, at) == Cold(rd) \/ Before(at, rd.turns[Warm + 1].cursor)

Found(turns, at) ==
  LET found == {k \in DOMAIN turns : turns[k].cursor = at} IN
  IF found = {} THEN <<>> ELSE SubSeq(turns, CHOOSE k \in found : TRUE, Len(turns))

Caught(log, at, from, span, rd) ==
  IF from > 0 /\ Short(rd, at) THEN Forward(log, at, span * 4)
  ELSE Found(Warmed(rd, from), at)

Forward(log, at, span) ==
  LET from == IF span < at.off THEN at.off - span ELSE 0
  IN Caught(log, at, from, span, ReadSpan(log, from, End(log)))

PageFrom(log, at) == Forward(log, at, Probe)
==============================================================================
