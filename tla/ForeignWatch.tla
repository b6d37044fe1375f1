---------------------------- MODULE ForeignWatch ------------------------------
(***************************************************************************)
(* The watcher of turns usher did not start (pkg/router/foreignwatch.go),  *)
(* beside the turn queue of SendQueue: it polls the session log's size and *)
(* reports what was appended past a baseline that every usher turn moves   *)
(* when it ends.  One watcher goroutine scans every session; here, one.    *)
(*                                                                         *)
(* A backend appends the lines of the turn usher gave it until the turn's  *)
(* exit; whoever types straight into the session appends at any time, and  *)
(* so does a backend of its own accord once usher's turn is over.  A line  *)
(* that completes a turn (TurnEnded) is an end.  Sizes count lines.  A     *)
(* session unknown to discovery is a deleted one: its log is gone too.     *)
(***************************************************************************)
EXTENDS SendQueue

CONSTANTS
  MaxLog,   \* bound: lines appended to the session log
  Foreign   \* the writer of the lines usher did not ask for

ASSUME ForeignWatchAssumption ==
  /\ MaxLog \in Nat \ {0}
  /\ Foreign \notin Sends \union {NoSend}

VARIABLES
  log,       \* the session log: each line's writer, and whether it ends a turn
  seen,      \* has the log a baseline?
  base,      \* foreignBase
  scan,      \* checkForeignTurn: its step, the size it saw and the baseline
  reported   \* history: the log lines the watcher published

watchVars == <<seen, base, scan, reported>>
fvars == <<vars, log, watchVars>>

NoScan == [pc |-> "off", size |-> 0, base |-> 0]

FTypeOK ==
  /\ log \in Seq([by : Sends \union {Foreign}, end : BOOLEAN]) /\ Len(log) <= MaxLog
  /\ seen \in BOOLEAN
  /\ base \in 0 .. Len(log)
  /\ scan \in [pc : {"off", "stat", "read", "commit", "publish", "exit"},
               size : 0 .. Len(log), base : 0 .. Len(log)]
  /\ reported \subseteq DOMAIN log

FInit ==
  /\ Init
  /\ log \in {<<>>, <<[by |-> Foreign, end |-> TRUE]>>}   \* history before startup
  /\ seen = FALSE /\ base = 0 /\ scan = NoScan /\ reported = {}

-----------------------------------------------------------------------------
(* The session log.                                                        *)

Write(by) ==
  /\ known /\ Len(log) < MaxLog
  /\ by \in Sends => st[by] \in {"sending"} \union Streaming
  /\ \E end \in BOOLEAN : log' = Append(log, [by |-> by, end |-> end])
  /\ UNCHANGED <<vars, watchVars>>

-----------------------------------------------------------------------------
(* The turn queue, and the baseline its turns move: bumpForeignBaseLocked   *)
(* in markSendIdle and in releaseSend.                                      *)

\* Mutant: the baseline stays where the watcher left it.
NoBump == UNCHANGED <<seen, base>>

\* Mutant: one past the end.
BumpPast == IF known THEN seen' = TRUE /\ base' = Len(log) + 1 ELSE UNCHANGED <<seen, base>>

Bump == IF known THEN seen' = TRUE /\ base' = Len(log) ELSE UNCHANGED <<seen, base>>

TurnEnds == \E s \in Sends : st[s] # st'[s] /\ st'[s] \in {"idle", "failing", "done"}

Turn ==
  /\ Next
  /\ IF TurnEnds THEN Bump ELSE UNCHANGED <<seen, base>>
  /\ UNCHANGED <<log, scan, reported>>

-----------------------------------------------------------------------------
(* checkForeignTurn.                                                       *)

\* The size is read before the lock is taken.
ScanStat ==
  /\ scan.pc = "off" /\ known
  /\ scan' = [pc |-> "stat", size |-> Len(log), base |-> 0]
  /\ UNCHANGED <<vars, log, seen, base, reported>>

\* First sight sets the baseline; otherwise go on if the session is idle and
\* its log has grown.
ScanCompare ==
  /\ scan.pc = "stat"
  /\ seen' = TRUE /\ base' = IF seen THEN base ELSE scan.size
  /\ scan' = IF seen /\ active = NoSend /\ queue = <<>> /\ scan.size > base
               THEN [scan EXCEPT !.pc = "read", !.base = base]
               ELSE NoScan
  /\ UNCHANGED <<vars, log, reported>>

\* fileTail and TurnEnded, outside the lock: go on if the log, as far as it was
\* seen, ends with a turn's end.  A deleted log cannot be read.
ScanRead ==
  /\ scan.pc = "read"
  /\ scan' = IF known /\ log[scan.size].end THEN [scan EXCEPT !.pc = "commit"] ELSE NoScan
  /\ UNCHANGED <<vars, log, seen, base, reported>>

\* Mutant: what the first look found is acted on without a second one.
ScanCommitUnchecked ==
  /\ scan.pc = "commit"
  /\ base' = scan.size /\ scan' = [scan EXCEPT !.pc = "publish"]
  /\ UNCHANGED <<vars, log, seen, reported>>

\* Mutant: what lies between the two sizes is accounted for and not published.
ScanCommitOnly ==
  /\ scan.pc = "commit"
  /\ base' = scan.size /\ scan' = NoScan
  /\ UNCHANGED <<vars, log, seen, reported>>

\* Under the lock again, no usher turn has started or ended since: the baseline
\* moves, then the lock is released.
ScanCommit ==
  /\ scan.pc = "commit"
  /\ IF active = NoSend /\ base = scan.base
       THEN base' = scan.size /\ scan' = [scan EXCEPT !.pc = "publish"]
       ELSE scan' = NoScan /\ UNCHANGED base
  /\ UNCHANGED <<vars, log, seen, reported>>

\* publishForeignTurnEvents, then an exit of the watcher's own.
ScanPublish ==
  /\ scan.pc = "publish"
  /\ IF known
       THEN reported' = reported \union (scan.base + 1 .. scan.size) /\ PublishPart(Foreign)
       ELSE UNCHANGED <<reported, heard>>   \* nothing left to parse
  /\ scan' = [scan EXCEPT !.pc = "exit"]
  /\ UNCHANGED <<known, queueVars, collecting, answer, orphans, stopVars, log, seen, base>>

ScanExit ==
  /\ scan.pc = "exit"
  /\ PublishEnd("ended", Foreign)
  /\ scan' = NoScan
  /\ UNCHANGED <<known, queueVars, heard, orphans, stopVars, log, seen, base, reported>>

Scan == ScanStat \/ ScanCompare \/ ScanRead \/ ScanCommit \/ ScanPublish \/ ScanExit

-----------------------------------------------------------------------------
FNext ==
  \/ Turn \/ Scan
  \/ \E by \in Sends \union {Foreign} : Write(by)

\* The ticker keeps firing.
FSpec == FInit /\ [][FNext]_fvars /\ WF_fvars(Scan)

-----------------------------------------------------------------------------
(* Properties.                                                             *)

\* The watcher never reports a line of an usher turn, which that turn's own
\* collector already relayed: the baseline and the second look under the lock.
NoDoubleReport == \A i \in reported : log[i].by = Foreign

\* The baseline only moves forward, what is reported lies below it, and a report
\* begins past all that was reported before, so no line is reported twice.
ReportedOnce ==
  [][/\ base' >= base
     /\ \A i \in reported' \ reported : i <= base
     /\ scan.pc = "publish" => \A i \in reported : i <= scan.base]_fvars

\* No usher turn is under way, waiting, or yet to move the baseline.
Quiet ==
  /\ known /\ active = NoSend /\ queue = <<>>
  /\ \A s \in Sends : st[s] \notin Closing

\* A turn somebody else completes while usher has none is reported, unless its
\* log goes on with an unfinished one or a usher turn comes first: what
\* checkForeignTurn skips it looks at again at the next tick.
ForeignNoticed ==
  \A i \in 1 .. MaxLog :
    (i \in DOMAIN log /\ seen /\ i > base /\ Quiet)
      ~> (i \in reported \/ ~Quiet \/ \E n \in DOMAIN log : n = Len(log) /\ ~log[n].end)

\* What checkForeignTurn's comment says: "No relay collector can be subscribed
\* here", so nobody mistakes the foreign turn's events for an usher turn's.
NoForeignReply ==
  \A c \in Relayed : Foreign \notin heard[c] /\ answer[c].by # Foreign

\* The baseline stays within the log, and covers what usher's turns wrote
\* before the watcher reports (foreignwatch.go:79,101).
OwnNotReported == FTypeOK /\ NoDoubleReport
=============================================================================
