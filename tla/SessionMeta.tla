----------------------------- MODULE SessionMeta -----------------------------
(***************************************************************************)
(* What the user decided about a session (pkg/sessionmeta): archived or    *)
(* shown, pinned, a title, a prompt, arguments, approval, kept in memory   *)
(* and saved after every change, which may fail silently; a session left   *)
(* alone for long counts as archived. usher crashes and starts again, and  *)
(* at its start takes over the approvals of an older release's file.       *)
(***************************************************************************)
EXTENDS Naturals

CONSTANTS
  AutoAfter,  \* how long a session is left alone before it counts as archived
  MaxNow,     \* bound: the clock
  MaxActs,    \* bound: what the user does
  MaxFails    \* bound: saves and removals that fail

VARIABLES
  now, lastEvent,
  meta,     \* the store's maps at the session
  disk,     \* sessions.json
  legacy,   \* auto-approve.json is there
  up,       \* usher runs: "no", "importing", "removing" or "yes"
  \* history and bounds
  unsaved,  \* the last save failed
  word,     \* the user's last word on archiving, and whether the session was
            \* left alone for long when it was said
  trusted,  \* full approval was given and not withdrawn
  acts, fails

vars == <<now, lastEvent, meta, disk, legacy, up, unsaved, word, trusted, acts, fails>>

Texts == {"title", "prompt", "args"}
Nothing == [archived |-> "none", pinned |-> FALSE, approval |-> FALSE, set |-> {}]

Init ==
  /\ now = 0 /\ lastEvent = 0 /\ meta = Nothing /\ disk = Nothing
  /\ legacy \in BOOLEAN /\ up = "no" /\ unsaved = FALSE
  /\ word = [says |-> "none", stale |-> FALSE] /\ trusted = legacy
  /\ acts = 0 /\ fails = 0

-----------------------------------------------------------------------------
Stale == now - lastEvent > AutoAfter
Fresh == AutoAfter = 0 \/ ~Stale

\* persist writes everything to a file of its own and renames it, or fails and
\* says nothing.
Persist ==
  \/ disk' = meta' /\ unsaved' = FALSE /\ UNCHANGED fails
  \/ fails < MaxFails /\ fails' = fails + 1 /\ unsaved' = TRUE /\ UNCHANGED disk

Says(what) == word' = [says |-> what, stale |-> Stale]

\* A change that changes nothing is not saved.
Becomes(m) ==
  /\ meta' = m
  /\ IF m = meta THEN UNCHANGED <<disk, unsaved, fails>> ELSE Persist

Acts == /\ up = "yes" /\ acts < MaxActs /\ acts' = acts + 1
        /\ UNCHANGED <<now, lastEvent, legacy, up>>

\* Archiving drops the pin, which would override it.
Archive == Becomes([meta EXCEPT !.pinned = FALSE, !.archived = "archived"]) /\ Says("archive")

\* Mutant: showing a session only takes the decision back.
DecisionAfterShow == "none"

\* A session left alone for long must be shown explicitly.
Shown == IF Fresh THEN "none" ELSE "shown"

Unarchive == Becomes([meta EXCEPT !.archived = Shown]) /\ Says("show")

\* A pin overrides the decision, and a decision the clock.
IsArchived(m) ==
  /\ ~m.pinned
  /\ IF m.archived # "none" THEN m.archived = "archived" ELSE AutoAfter # 0 /\ Stale

Pin(on) == Becomes([meta EXCEPT !.pinned = on]) /\ UNCHANGED word

\* A rename is saved even when it changes nothing.
SetText(text, on) ==
  LET m == [meta EXCEPT !.set = IF on THEN @ \cup {text} ELSE @ \ {text}] IN
  /\ IF text = "title" THEN meta' = m /\ Persist ELSE Becomes(m)
  /\ UNCHANGED word

SetApproval(on) == Becomes([meta EXCEPT !.approval = on]) /\ trusted' = on /\ UNCHANGED word

Forget ==
  /\ Becomes(Nothing) /\ trusted' = FALSE
  /\ word' = [says |-> "none", stale |-> FALSE]

-----------------------------------------------------------------------------
Start ==
  /\ up = "no" /\ up' = "importing" /\ meta' = disk /\ unsaved' = FALSE
  /\ UNCHANGED <<now, lastEvent, disk, legacy, word, trusted, acts, fails>>

\* Mutant: only a session that has an approval takes the older file's.
OnlyApproved == meta' = meta

\* A session of the older file that has no approval is approved.
Imported == meta' = [meta EXCEPT !.approval = @ \/ legacy]

\* The file is removed once they are saved, or should be.
Import ==
  /\ up = "importing" /\ up' = "removing"
  /\ Imported
  /\ IF legacy THEN Persist ELSE UNCHANGED <<disk, unsaved, fails>>
  /\ UNCHANGED <<now, lastEvent, legacy, word, trusted, acts>>

Removed ==
  /\ up = "removing" /\ up' = "yes"
  /\ \/ legacy' = FALSE /\ UNCHANGED fails
     \/ legacy /\ fails < MaxFails /\ fails' = fails + 1 /\ UNCHANGED legacy
  /\ UNCHANGED <<now, lastEvent, meta, disk, unsaved, word, trusted, acts>>

Crash ==
  /\ up # "no" /\ up' = "no" /\ acts < MaxActs /\ acts' = acts + 1
  /\ UNCHANGED <<now, lastEvent, meta, disk, legacy, unsaved, word, trusted, fails>>

Tick == now < MaxNow /\ now' = now + 1
        /\ UNCHANGED <<lastEvent, meta, disk, legacy, up, unsaved, word, trusted, acts, fails>>

Event == lastEvent' = now
         /\ UNCHANGED <<now, meta, disk, legacy, up, unsaved, word, trusted, acts, fails>>

Next ==
  \/ Acts /\ (Archive \/ Unarchive \/ \E on \in BOOLEAN : Pin(on)) /\ UNCHANGED trusted
  \/ Acts /\ \E t \in Texts, on \in BOOLEAN : SetText(t, on) /\ UNCHANGED trusted
  \/ Acts /\ (Forget \/ \E on \in BOOLEAN : SetApproval(on))
  \/ Start \/ Import \/ Removed \/ Crash \/ Tick \/ Event

Spec == Init /\ [][Next]_vars

-----------------------------------------------------------------------------
\* The last word on archiving stands until the session was left alone anew: an
\* archived session stays hidden unless pinned, and one that was shown is not
\* hidden again for the time it had then been left alone (pkg/sessionmeta/store.go:188).
LastWordStands ==
  up = "yes" /\ fails = 0 =>
    /\ meta.pinned => ~IsArchived(meta)
    /\ word.says = "archive" /\ ~meta.pinned => IsArchived(meta)
    /\ word.says = "show" /\ IsArchived(meta) => ~word.stale /\ Stale

\* What was decided outlives a crash at any moment unless the save that was to
\* keep it failed, and unless a save or a removal did, an approval of the older
\* file is neither lost nor given again (pkg/sessionmeta/store.go:314).
Outlives ==
  /\ up = "yes" /\ ~unsaved => meta = disk
  /\ fails = 0 => /\ trusted => disk.approval \/ legacy
                  /\ up = "yes" => meta.approval = trusted
=============================================================================
