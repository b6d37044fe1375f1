------------------------------ MODULE Settings ------------------------------
(***************************************************************************)
(* settings.json (pkg/settings) and the stores that keep their sections in *)
(* it: the agents (pkg/agentprofile), a list and an index by name, and the *)
(* schedules (pkg/schedule), here a number that every change increases.    *)
(* A save fails or lands whole. usher crashes at any step, and at its      *)
(* start takes over the agents and schedules files of an older release.    *)
(***************************************************************************)
EXTENDS Naturals, FiniteSets, SequencesExt

CONSTANTS
  Names,    \* of agents, DefaultName among them
  DefaultName,
  Unset,    \* no value
  MaxActs,  \* bound: changes, crashes and broken files
  MaxFails  \* bound: saves and removals that fail

VARIABLES
  disk,      \* settings.json: its sections, or Unset when missing or unreadable
  legacy,    \* the older files, by section
  up,        \* where the start is: "no", a section, that section's file, or "yes"
  f,         \* the settings in memory
  profiles,  \* agentprofile.Store
  byName,
  tasks,     \* schedule.Store
  \* history and bounds
  acked,     \* the agents and schedules last acknowledged
  spoiled,   \* the file was broken by hand
  acts, fails

files == <<disk, legacy>>
stores == <<profiles, byName, tasks>>
bounds == <<acts, fails>>
vars == <<files, up, f, stores, acked, spoiled, bounds>>

Empty == [agents |-> Unset, schedules |-> Unset, router |-> 0, continues |-> TRUE]
Sections == {"agents", "schedules"}
Agent(name, v) == [name |-> name, v |-> v]

\* An older release left both files, or this one ran before, or both.
Init ==
  /\ disk \in {Unset, [Empty EXCEPT !.agents = <<Agent(CHOOSE n \in Names : n # DefaultName, 0)>>]}
  /\ legacy \in [Sections -> {Unset}]
       \cup {[agents |-> <<Agent(n, 1)>>, schedules |-> 1] : n \in Names}
  /\ up = "no" /\ f = Empty /\ profiles = <<>> /\ byName = <<>> /\ tasks = 0
  /\ acked = [s \in Sections |-> IF disk # Unset /\ s = "agents" THEN disk[s] ELSE legacy[s]]
  /\ spoiled = FALSE /\ acts = 0 /\ fails = 0

-----------------------------------------------------------------------------
Lands(g) == f' = g /\ disk' = g /\ UNCHANGED fails
Fails == fails < MaxFails /\ fails' = fails + 1 /\ UNCHANGED disk

\* setRaw and SetContinueAtReset: a save that fails leaves the old value.
Saves(section, v) == Lands([f EXCEPT ![section] = v])
FailsToSave == Fails /\ UNCHANGED f

-----------------------------------------------------------------------------
(* The start *)

Loaded == IF disk = Unset THEN Empty ELSE disk

Start ==
  /\ up = "no" /\ up' = "agents" /\ f' = Loaded
  /\ UNCHANGED <<files, stores, acked, spoiled, bounds>>

File == [agents |-> "agents file", schedules |-> "schedules file"]
After(s) == IF s = "agents" THEN "schedules" ELSE "open"

\* Mutant: the older file takes the section's place.
OldWins(s) == legacy[s]

\* A section already there wins.
Taken(s) == IF f[s] = Unset THEN legacy[s] ELSE f[s]

\* ImportFile, up to the removal: what cannot be saved stops the start.
Import(s) ==
  /\ up = s
  /\ CASE legacy[s] = Unset -> up' = After(s) /\ UNCHANGED <<disk, f, fails>>
       [] legacy[s] # Unset /\ Taken(s) = f[s] -> up' = File[s] /\ UNCHANGED <<disk, f, fails>>
       [] OTHER -> \/ Saves(s, Taken(s)) /\ up' = File[s]
                   \/ FailsToSave /\ up' = "no"
  /\ UNCHANGED <<legacy, stores, acked, spoiled, acts>>

RemoveFile(s) ==
  /\ up = File[s]
  /\ \/ legacy' = [legacy EXCEPT ![s] = Unset] /\ up' = After(s) /\ UNCHANGED fails
     \/ Fails /\ up' = "no" /\ UNCHANGED legacy
  /\ UNCHANGED <<disk, f, stores, acked, spoiled, acts>>

Listed(v) == IF v = Unset THEN <<>> ELSE v
Index(ps) == [n \in {p.name : p \in Range(ps)} |-> CHOOSE p \in Range(ps) : p.name = n]

Open ==
  /\ up = "open" /\ up' = "yes"
  /\ profiles' = Listed(f.agents) /\ byName' = Index(Listed(f.agents))
  /\ tasks' = IF f.schedules = Unset THEN 0 ELSE f.schedules
  /\ UNCHANGED <<files, f, acked, spoiled, bounds>>

-----------------------------------------------------------------------------
(* The agents. A change is made, saved, and unmade if the save failed. *)

Without(ix, n) == [m \in DOMAIN ix \ {n} |-> ix[m]]
With(ix, p) == [m \in DOMAIN ix \cup {p.name} |-> IF m = p.name THEN p ELSE ix[m]]
At(ps, n) == CHOOSE i \in DOMAIN ps : ps[i].name = n

Acts == up = "yes" /\ acts < MaxActs /\ acts' = acts + 1 /\ UNCHANGED <<legacy, up, spoiled>>

\* ps and ix are the list and index with the change, back and ixBack those with
\* the change unmade.
Changes(ps, ix, back, ixBack) ==
  /\ Acts /\ UNCHANGED tasks
  /\ \/ /\ Saves("agents", ps) /\ profiles' = ps /\ byName' = ix
        /\ acked' = [acked EXCEPT !.agents = ps]
     \/ FailsToSave /\ profiles' = back /\ byName' = ixBack /\ UNCHANGED acked

\* createLocked
Create(p) ==
  LET ps == Append(profiles, p) IN
  /\ p.name \notin DOMAIN byName
  /\ Changes(ps, With(byName, p), Front(ps), Without(With(byName, p), p.name))

\* Mutant: a rename that was not saved leaves its new name in the index.
KeepsNewName(ix, p, old) == With(ix, old)

RenamedBack(ix, p, old) == With(Without(ix, p.name), old)

\* Update: the default agent is created when it is not stored, and keeps its
\* name; another may be renamed to a name that is free.
Update(n, p) ==
  /\ n = DefaultName => p.name = n
  /\ IF n = DefaultName /\ n \notin DOMAIN byName
       THEN Create(p)
       ELSE /\ n \in DOMAIN byName /\ (p.name # n => p.name \notin DOMAIN byName)
            /\ LET old == byName[n]
                   ps == [profiles EXCEPT ![At(profiles, n)] = p]
                   ix == With(Without(byName, n), p)
               IN Changes(ps, ix, [ps EXCEPT ![At(ps, p.name)] = old], RenamedBack(ix, p, old))

\* Delete of the stored default agent leaves the one that is built in.
Delete(n) ==
  /\ n \in DOMAIN byName
  /\ LET i == At(profiles, n)
         ps == RemoveAt(profiles, i)
     IN Changes(ps, Without(byName, n), InsertAt(ps, i, byName[n]),
                With(Without(byName, n), byName[n]))

-----------------------------------------------------------------------------
(* The other sections *)

\* schedule.Store adopts its tasks once they are saved.
CommitTasks ==
  /\ Acts /\ UNCHANGED <<profiles, byName>>
  /\ \/ /\ Saves("schedules", tasks + 1) /\ tasks' = tasks + 1
        /\ acked' = [acked EXCEPT !.schedules = tasks + 1]
     \/ FailsToSave /\ UNCHANGED <<tasks, acked>>

SetContinueAtReset(on) ==
  /\ Acts /\ (Saves("continues", on) \/ FailsToSave) /\ UNCHANGED <<stores, acked>>

\* The router session is kept in memory even when it cannot be saved.
SetRouterSession ==
  /\ Acts /\ UNCHANGED <<stores, acked>>
  /\ \/ Saves("router", 1)
     \/ Fails /\ f' = [f EXCEPT !.router = 1]

Crash ==
  /\ up # "no" /\ up' = "no" /\ acts < MaxActs /\ acts' = acts + 1
  /\ UNCHANGED <<files, f, stores, acked, spoiled, fails>>

\* Somebody breaks the file, which reads as no settings then.
Break ==
  /\ up = "no" /\ disk # Unset /\ acts < MaxActs /\ acts' = acts + 1
  /\ disk' = Unset /\ spoiled' = TRUE
  /\ UNCHANGED <<legacy, up, f, stores, acked, fails>>

Next ==
  \/ Start \/ Open \/ Crash \/ Break \/ CommitTasks \/ SetRouterSession
  \/ \E s \in Sections : Import(s) \/ RemoveFile(s)
  \/ \E n \in Names : \/ Delete(n)
                      \/ \E v \in 1 .. 2 : \/ Create(Agent(n, v))
                                          \/ \E m \in Names : Update(n, Agent(m, v))
  \/ \E on \in BOOLEAN : SetContinueAtReset(on)

Spec == Init /\ [][Next]_vars

-----------------------------------------------------------------------------
\* What was acknowledged is what the stores hold and what the next start will
\* find, whatever failed and whenever usher crashed; what was refused left no
\* trace (pkg/schedule/schedule.go:212, pkg/settings/settings.go:107).
Kept ==
  /\ ~spoiled =>
       \A s \in Sections :
         acked[s] = IF Loaded[s] = Unset THEN legacy[s] ELSE Loaded[s]
  /\ up = "yes" =>
       /\ profiles = Listed(Loaded.agents)
       /\ tasks = IF Loaded.schedules = Unset THEN 0 ELSE Loaded.schedules

\* The index has the listed agents and no other, each under one name
\* (pkg/agentprofile/profile.go:212).
Indexed == byName = Index(profiles) /\ Cardinality(DOMAIN byName) = Len(profiles)
=============================================================================
