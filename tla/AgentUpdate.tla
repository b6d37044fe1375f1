---------------------------- MODULE AgentUpdate ----------------------------
(***************************************************************************)
(* The version checks and the update of one agent CLI                      *)
(* (pkg/agentupdate/agentupdate.go).                                       *)
(*                                                                         *)
(* Checks run concurrently, and each asks the CLI for its version and the  *)
(* network for the newest release outside the mutex; an update runs the    *)
(* CLI's own command and looks both up itself.  A check that read the old  *)
(* version may end after the update: its generation tells.  Versions are   *)
(* numbers, the releases in order; what two of them say of each other is   *)
(* compareVersions over their names, the constant Releases.                *)
(***************************************************************************)
EXTENDS Integers, Sequences, FiniteSets

CONSTANTS
    Checkers,   \* calls of Check
    Releases,   \* the releases, oldest first: [core, pre], pre: the tag's characters
    MaxRuns,    \* bound: update commands run to their end
    MaxChecks,  \* bound: checks begun
    MaxFails    \* bound: lookups and commands that fail

VARIABLES
    installed,  \* the release on disk
    newest,     \* the newest release there is
    status,     \* the entry's Status: [current, latest, available, updating],
                \* and seen: the commands that had ended as current was read
    generation, \* entry.generation
    check,      \* check[c]: the check's state and what it has found
    update,     \* the running updates' goroutines: a set of [at, no, found]
    ran,        \* update commands that have ended
    checks,
    fails

cli   == <<installed, newest>>
kept  == <<status, generation>>
avars == <<cli, kept, check, update, ran, checks, fails>>

None == 0   \* a version not known
Nothing == [current |-> None, latest |-> None, seen |-> 0]
Away == [at |-> "away", generation |-> 0, found |-> Nothing]

Init ==
    /\ installed = 1
    /\ newest = 1
    /\ status = [current |-> None, latest |-> None, available |-> FALSE,
                 updating |-> FALSE, seen |-> 0]
    /\ generation = 0
    /\ check = [c \in Checkers |-> Away]
    /\ update = {}
    /\ ran = 0
    /\ checks = 0
    /\ fails = 0

Failing == /\ fails < MaxFails
           /\ fails' = fails + 1

-----------------------------------------------------------------------------
(* What is looked up, and what is made of it. *)

\* The first place two version cores of three numbers differ at, 0: none.
FirstDifference(a, b) ==
    LET places == {i \in 1..3 : a[i] # b[i]}
    IN  IF places = {} THEN 0 ELSE CHOOSE i \in places : \A j \in places : i <= j

\* strings.Compare(p, q) > 0: of the characters, as numbers.
StringAfter(p, q) ==
    \E k \in DOMAIN p :
      /\ k <= Len(q) + 1 /\ \A i \in 1 .. k - 1 : p[i] = q[i]
      /\ k <= Len(q) => p[k] > q[k]

\* compareVersions(a, b) > 0: by core, and of one core the untagged is newer,
\* the tags as plain strings.
Newer(a, b) ==
    LET i == FirstDifference(a.core, b.core)
    IN  IF i # 0 THEN a.core[i] > b.core[i]
        ELSE IF a.pre = <<>> THEN b.pre # <<>>
        ELSE b.pre # <<>> /\ StringAfter(a.pre, b.pre)

\* Mutant: a tag is taken for the later release.
TagIsNewer(a, b) ==
    LET i == FirstDifference(a.core, b.core)
    IN  IF i # 0 THEN a.core[i] > b.core[i] ELSE StringAfter(a.pre, b.pre)

Later(a, b) == Newer(a, b)

\* apply: a failed lookup of the release keeps the last known one.
Applied(s, found) ==
    LET latest == IF found.latest # None THEN found.latest ELSE s.latest
    IN  [s EXCEPT !.current = found.current,
                  !.latest = latest,
                  !.seen = found.seen,
                  !.available = /\ found.current # None /\ latest # None
                                /\ Later(Releases[latest], Releases[found.current])]

\* localVersion, which also marks how many commands had ended by then.
Local == [Nothing EXCEPT !.current = installed, !.seen = ran]

\* Spec.Latest, asked only when the version was told.
WithLatest(found) == [found EXCEPT !.latest = newest]

\* A lookup that fails at its first or at its second question.
FailedLookup(found) == IF found.current = None THEN [Nothing EXCEPT !.seen = ran] ELSE found

-----------------------------------------------------------------------------
(* A check. *)

\* check: not while an update runs, and under the generation it finds.
Begin(c) ==
    /\ check[c] = Away
    /\ checks < MaxChecks
    /\ checks' = checks + 1
    /\ ~status.updating
    /\ check' = [check EXCEPT ![c] = [at |-> "local", generation |-> generation, found |-> Nothing]]
    /\ UNCHANGED <<cli, kept, update, ran, fails>>

AskVersion(c) ==
    /\ check[c].at = "local"
    /\ check' = [check EXCEPT ![c].at = "latest", ![c].found = Local]
    /\ UNCHANGED <<cli, kept, update, ran, checks, fails>>

AskLatest(c) ==
    /\ check[c].at = "latest"
    /\ check' = [check EXCEPT ![c].at = "apply", ![c].found = WithLatest(check[c].found)]
    /\ UNCHANGED <<cli, kept, update, ran, checks, fails>>

LookupFails(c) ==
    /\ check[c].at \in {"local", "latest"}
    /\ Failing
    /\ check' = [check EXCEPT ![c].at = "apply", ![c].found = FailedLookup(check[c].found)]
    /\ UNCHANGED <<cli, kept, update, ran, checks>>

Fresh(c) == ~status.updating /\ check[c].generation = generation

\* Mutant: only an update still running drops what a check found.
NotUpdating(c) == ~status.updating

StillHolds(c) == Fresh(c)

Apply(c) ==
    /\ check[c].at = "apply"
    /\ status' = IF StillHolds(c) THEN Applied(status, check[c].found) ELSE status
    /\ check' = [check EXCEPT ![c] = Away]
    /\ UNCHANGED <<cli, generation, update, ran, checks, fails>>

-----------------------------------------------------------------------------
(* The update. *)

Idle == ~status.updating

\* Mutant: a second update is started beside the first.
Always == TRUE

MayUpdate == Idle

(* Update: ErrBusy while one runs. *)
Start ==
    /\ MayUpdate
    /\ ran + Cardinality(update) < MaxRuns
    /\ status' = [status EXCEPT !.updating = TRUE]
    /\ update' = update \cup {[at |-> "run", no |-> ran + Cardinality(update), found |-> Nothing]}
    /\ UNCHANGED <<cli, generation, check, ran, checks, fails>>

\* The command installs the newest release, or fails and may have.
RunCommand(u) ==
    /\ u.at = "run"
    /\ \/ installed' = newest /\ UNCHANGED fails
       \/ installed' \in {installed, newest} /\ Failing
    /\ ran' = ran + 1
    /\ update' = (update \ {u}) \cup {[u EXCEPT !.at = "local"]}
    /\ UNCHANGED <<newest, kept, check, checks>>

UpdateAsks(u) ==
    /\ u.at = "local"
    /\ update' = (update \ {u}) \cup {[u EXCEPT !.at = "latest", !.found = Local]}
    /\ UNCHANGED <<cli, kept, check, ran, checks, fails>>

\* The end of update: what it found is applied with Updating cleared, and a
\* check begun before is of an older generation.
Finish(u) ==
    /\ \/ u.at = "latest" /\ UNCHANGED fails
       \/ u.at \in {"local", "latest"} /\ Failing
    /\ LET found == IF fails' = fails THEN WithLatest(u.found) ELSE FailedLookup(u.found)
       IN  status' = Applied([status EXCEPT !.updating = FALSE], found)
    /\ generation' = generation + 1
    /\ update' = update \ {u}
    /\ UNCHANGED <<cli, check, ran, checks>>

-----------------------------------------------------------------------------
(* A release comes out; someone may install it without usher. *)
Release ==
    /\ newest < Len(Releases)
    /\ newest' = newest + 1
    /\ installed' \in {installed, newest'}
    /\ UNCHANGED <<kept, check, update, ran, checks, fails>>

Next ==
    \/ \E c \in Checkers :
         Begin(c) \/ AskVersion(c) \/ AskLatest(c) \/ LookupFails(c) \/ Apply(c)
    \/ Start
    \/ \E u \in update : RunCommand(u) \/ UpdateAsks(u) \/ Finish(u)
    \/ Release

UpdateSpec == Init /\ [][Next]_avars

-----------------------------------------------------------------------------

TagsOfOneCore(a, b) == a.core = b.core /\ a.pre # <<>> /\ b.pre # <<>> /\ a # b

\* Once no update is marked running, the version shown was read after the last
\* update command ended, whichever checks were under way; and an update is
\* offered exactly when the release shown as latest came out after the version
\* shown as current, but between two prerelease tags of the same numbers, which
\* the code compares as plain strings (rc.10 before rc.9).
\* (pkg/agentupdate/agentupdate.go:117 generation, :228 Updating outlasts the
\* lookup, :256 compareVersions)
OutcomeShown ==
    /\ ~status.updating => status.seen = ran
    /\ status.available => status.current # None /\ status.latest # None
    /\ status.current # None /\ status.latest # None =>
         \/ status.available <=> status.latest > status.current
         \/ TagsOfOneCore(Releases[status.latest], Releases[status.current])
=============================================================================
