------------------------------ MODULE MCServices ------------------------------
(***************************************************************************)
(* Components that share no state, side by side: a behaviour is one's, as  *)
(* kind says, and the others stay where they began.                        *)
(***************************************************************************)
EXTENDS Naturals, Sequences

CONSTANTS MaxLines, MaxDeltas,
          Fires, NoTimer, NoTurn, MaxResumes, MaxWait, MaxNow, MaxQueued, MaxLate,
          Pubs, Subs, Cap, MaxSeed, MaxSent

VARIABLES
  kind,  \* the component of this behaviour
  \* TurnLoop
  log, exists, result, deltas, cancelled, loop, seen, exited, out, tail, rd,
  hand, last, stopped, events, onDisk, idle, faulted,
  \* UsageLimit
  now, always, known, limit, late, fire, mine, turn, queue, user,
  \* Broker
  subs, ch, room, closed, stage, pub, sending, got

loopVars == <<log, exists, result, deltas, cancelled, loop, seen, exited, out, tail, rd,
              hand, last, stopped, events, onDisk, idle, faulted>>
limitVars == <<now, always, known, limit, late, fire, mine, turn, queue, user>>
eventVars == <<subs, ch, room, closed, stage, pub, sending, got>>
vars == <<kind, loopVars, limitVars, eventVars>>

Loop == INSTANCE TurnLoop
Limits == INSTANCE UsageLimit
Events == INSTANCE Broker

ASSUME ServicesAssumption ==
  Loop!LoopConstants /\ Limits!LimitConstants /\ Events!BrokerConstants

Init ==
  /\ Loop!Init /\ Limits!Init /\ Events!Init
  /\ \/ kind = "loop" /\ ~always
     \/ kind = "limits" /\ ~exists /\ deltas = 0
     \/ kind = "events" /\ ~always /\ ~exists /\ deltas = 0

Next ==
  \/ kind = "loop" /\ Loop!Next /\ UNCHANGED <<kind, limitVars, eventVars>>
  \/ kind = "limits" /\ Limits!Next /\ UNCHANGED <<kind, loopVars, eventVars>>
  \/ kind = "events" /\ Events!Next /\ UNCHANGED <<kind, loopVars, limitVars>>

\* Each component's fairness, for the behaviours that are its own.
Fairness ==
  /\ WF_loopVars(kind = "loop" /\ Loop!LoopNext)
  /\ WF_loopVars(kind = "loop" /\ Loop!TailNext)
  /\ WF_limitVars(kind = "limits" /\ Limits!Tick)
  /\ WF_limitVars(kind = "limits" /\ Limits!Calls)
  /\ WF_limitVars(kind = "limits" /\ (Limits!TurnEnded \/ Limits!TurnFailed))
  /\ WF_limitVars(kind = "limits" /\ Limits!Callback)
  /\ \A p \in Pubs : WF_eventVars(kind = "events" /\ Events!Publisher(p))

Spec == Init /\ [][Next]_vars /\ Fairness

-----------------------------------------------------------------------------
\* What a turn's consumer gets: its log, in order and once, and one end, last;
\* a tail stopped between two polls has forwarded all there was
\* (pkg/sender/turnloop.go:90, pkg/sender/tail.go:156).
Forwarding == Loop!Forwarding /\ Loop!EndsOnce /\ Loop!IdleStopComplete

\* A turn that is over or called off closes its stream
\* (pkg/sender/turnloop.go:142).
TurnCloses == Loop!TurnCloses

\* A wait for a limit's reset has what wakes it, and resumes are bounded
\* (pkg/router/usagelimit.go:58).
Bounded == Limits!Bounded

\* No resume comes before its reset (pkg/router/usagelimit.go:75).
ResumesAfterReset == [][~Limits!EarlyResume]_limitVars

\* An armed wait ends (pkg/router/usagelimit.go:58).
WaitEnds == Limits!WaitEnds

\* No send on a closed channel; each event once, in order
\* (pkg/broker/broker.go:63).
Delivers == Events!Delivers

\* A publisher waits for no subscriber (pkg/broker/broker.go:103).
NeverStalls == Events!NeverStalls
=============================================================================
