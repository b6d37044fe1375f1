------------------------------ MODULE Deliveries ------------------------------
(***************************************************************************)
(* What usher hands over once, and keeps, whatever fails, side by side:    *)
(* the replies between sessions, the lines typed in a terminal, the        *)
(* outcome of an agent's update, the events of a plugin's stream, the      *)
(* notices pushed to browsers, what was decided of a session, and the      *)
(* settings.  They share no state: a behaviour is one component's, as kind *)
(* says, within its bounds, and the variables of the others are 0          *)
(* throughout.                                                             *)
(***************************************************************************)
EXTENDS Integers, Sequences

CONSTANTS
  \* Relays
  Cases, MaxQueued, MaxNotes, Reach,
  \* Terminal
  Tabs, MaxRecent, MaxLines, MaxWindows, MaxUpsets,
  \* AgentUpdate
  Checkers, Releases, MaxRuns, MaxChecks, MaxLookupFails,
  \* PluginStream
  Ushers, Sessions, MaxBegun, MaxDrops,
  \* Push, of the same sessions
  Endpoints, MaxEvents, MaxPushFails, MaxActs,
  \* SessionMeta
  AutoAfter, MaxNow, MaxMetaActs, MaxMetaFails,
  \* Settings
  Names, DefaultName, Unset, MaxSettingsActs, MaxSettingsFails

\* One release precedes another: by the three numbers, and a tagged one precedes the
\* untagged of its numbers. Of two tags of the same numbers either may.
Precedes(a, b) ==
  \/ a.core[1] < b.core[1]
  \/ a.core[1] = b.core[1] /\ a.core[2] < b.core[2]
  \/ a.core[1] = b.core[1] /\ a.core[2] = b.core[2] /\ a.core[3] < b.core[3]
  \/ a.core = b.core /\ a.pre # <<>> /\ a.pre # b.pre

\* A case numbers its texts and its questions, an id is remembered for some time,
\* releases are numbered as they precede each other, 0 is no tab and no process, and
\* Unset is nothing that is stored.
ASSUME DeliveriesAssumption ==
  /\ \A c \in Cases : c.text \in Seq(Nat) /\ c.others \in Nat /\ c.questions \in Nat
  /\ MaxRecent \in Nat \ {0}
  /\ Releases # <<>> /\ Releases \in Seq([core : [1 .. 3 -> Nat], pre : Seq(Nat)])
  /\ \A i, j \in DOMAIN Releases : i < j => Precedes(Releases[i], Releases[j])
  /\ 0 \notin Tabs /\ 0 \notin Ushers
  /\ DefaultName \in Names /\ \E n \in Names : n # DefaultName
  /\ Unset \notin Seq([name : Names, v : Nat]) /\ Unset \notin Nat
  /\ Unset \notin [agents : Seq([name : Names, v : Nat]) \cup {Unset},
                    schedules : Nat \cup {Unset}, router : Nat, continues : BOOLEAN]

VARIABLES
  kind,  \* the component of this behaviour
  \* Relays
  case, fresh, known, active, queue, st, log, asks, ask, withdrawn, box, rst,
  waiting, relayIn, telling, since, look, landed, dropped, said, unsaid, folded,
  began, steered, typed, overlap, upsets,
  \* Terminal
  window, windows, seen, terminalBox, rid, lines, minted, calls, entered,
  acked, forgot, terminalUpsets,
  \* AgentUpdate
  installed, newest, status, generation, check, update, ran, checks, fails,
  \* PluginStream
  file, pluginSt, raced, turn, begun, conn, events, believed, missed, drops,
  \* Push
  live, wanted, watched, collectors, subs, disk, unsaved, lost, ended, pending,
  sends, got, owed, hushed, pushEvents, pushFails, acts,
  \* SessionMeta
  now, lastEvent, meta, metaDisk, metaLegacy, metaUp, metaUnsaved, word,
  trusted, metaActs, metaFails,
  \* Settings
  settingsDisk, settingsLegacy, up, f, profiles, byName, tasks,
  settingsAcked, spoiled, settingsActs, settingsFails

relaysVars == <<case, fresh, known, active, queue, st, log, asks, ask,
    withdrawn, box, rst, waiting, relayIn, telling, since, look, landed,
    dropped, said, unsaid, folded, began, steered, typed, overlap, upsets>>
terminalVars == <<window, windows, seen, terminalBox, rid, lines, minted,
    calls, entered, acked, forgot, terminalUpsets>>
updateVars == <<installed, newest, status, generation, check, update, ran,
    checks, fails>>
pluginVars == <<file, pluginSt, raced, turn, begun, conn, events, believed,
    missed, drops>>
pushVars == <<live, wanted, watched, collectors, subs, disk, unsaved, lost,
    ended, pending, sends, got, owed, hushed, pushEvents, pushFails, acts>>
metaVars == <<now, lastEvent, meta, metaDisk, metaLegacy, metaUp,
    metaUnsaved, word, trusted, metaActs, metaFails>>
settingsVars == <<settingsDisk, settingsLegacy, up, f, profiles, byName,
    tasks, settingsAcked, spoiled, settingsActs, settingsFails>>
vars == <<kind, relaysVars, terminalVars, updateVars, pluginVars, pushVars,
    metaVars, settingsVars>>

-----------------------------------------------------------------------------
Relayed == INSTANCE Relays
Shell == INSTANCE Terminal WITH box <- terminalBox, upsets <- terminalUpsets
Updates == INSTANCE AgentUpdate WITH MaxFails <- MaxLookupFails
Plugins == INSTANCE PluginStream WITH st <- pluginSt
Notices == INSTANCE Push WITH MaxFails <- MaxPushFails, events <- pushEvents,
  fails <- pushFails
Meta == INSTANCE SessionMeta WITH MaxActs <- MaxMetaActs,
  MaxFails <- MaxMetaFails, disk <- metaDisk, legacy <- metaLegacy,
  up <- metaUp, unsaved <- metaUnsaved, acts <- metaActs, fails <- metaFails
Config == INSTANCE Settings WITH MaxActs <- MaxSettingsActs,
  MaxFails <- MaxSettingsFails, disk <- settingsDisk,
  legacy <- settingsLegacy, acked <- settingsAcked, acts <- settingsActs,
  fails <- settingsFails

\* The variables of a component that has no part in the behaviour.
NoRelays ==
  /\ case = 0 /\ fresh = 0 /\ known = 0 /\ active = 0 /\ queue = 0 /\ st = 0
  /\ log = 0 /\ asks = 0 /\ ask = 0 /\ withdrawn = 0 /\ box = 0 /\ rst = 0
  /\ waiting = 0 /\ relayIn = 0 /\ telling = 0 /\ since = 0 /\ look = 0
  /\ landed = 0 /\ dropped = 0 /\ said = 0 /\ unsaid = 0 /\ folded = 0 /\ began = 0
  /\ steered = 0 /\ typed = 0 /\ overlap = 0 /\ upsets = 0
NoTerminal ==
  /\ window = 0 /\ windows = 0 /\ seen = 0 /\ terminalBox = 0 /\ rid = 0
  /\ lines = 0 /\ minted = 0 /\ calls = 0 /\ entered = 0 /\ acked = 0
  /\ forgot = 0 /\ terminalUpsets = 0
NoAgentUpdate ==
  /\ installed = 0 /\ newest = 0 /\ status = 0 /\ generation = 0 /\ check = 0
  /\ update = 0 /\ ran = 0 /\ checks = 0 /\ fails = 0
NoPluginStream ==
  /\ file = 0 /\ pluginSt = 0 /\ raced = 0 /\ turn = 0 /\ begun = 0
  /\ conn = 0 /\ events = 0 /\ believed = 0 /\ missed = 0 /\ drops = 0
NoPush ==
  /\ live = 0 /\ wanted = 0 /\ watched = 0 /\ collectors = 0
  /\ subs = 0 /\ disk = 0 /\ hushed = 0
  /\ unsaved = 0 /\ lost = 0 /\ ended = 0 /\ pending = 0 /\ sends = 0
  /\ got = 0 /\ owed = 0 /\ pushEvents = 0 /\ pushFails = 0 /\ acts = 0
NoSessionMeta ==
  /\ now = 0 /\ lastEvent = 0 /\ meta = 0 /\ metaDisk = 0 /\ metaLegacy = 0
  /\ metaUp = 0 /\ metaUnsaved = 0 /\ word = 0 /\ trusted = 0
  /\ metaActs = 0 /\ metaFails = 0
NoSettings ==
  /\ settingsDisk = 0 /\ settingsLegacy = 0 /\ up = 0 /\ f = 0
  /\ profiles = 0 /\ byName = 0 /\ tasks = 0 /\ settingsAcked = 0
  /\ spoiled = 0 /\ settingsActs = 0 /\ settingsFails = 0

\* The components but this one.
NoneBut(k) ==
  /\ k # "relays" => NoRelays
  /\ k # "terminal" => NoTerminal
  /\ k # "update" => NoAgentUpdate
  /\ k # "plugin" => NoPluginStream
  /\ k # "push" => NoPush
  /\ k # "meta" => NoSessionMeta
  /\ k # "settings" => NoSettings

Init ==
  \/ kind = "relays" /\ Relayed!Init /\ NoneBut("relays")
  \/ kind = "terminal" /\ Shell!Init /\ NoneBut("terminal")
  \/ kind = "update" /\ Updates!Init /\ NoneBut("update")
  \/ kind = "plugin" /\ Plugins!Init /\ NoneBut("plugin")
  \/ kind = "push" /\ Notices!Init /\ NoneBut("push")
  \/ kind = "meta" /\ Meta!Init /\ NoneBut("meta")
  \/ kind = "settings" /\ Config!Init /\ NoneBut("settings")

Next ==
  \/ /\ kind = "relays" /\ Relayed!Next
     /\ UNCHANGED <<kind, terminalVars, updateVars, pluginVars, pushVars,
          metaVars, settingsVars>>
  \/ /\ kind = "terminal" /\ Shell!Next
     /\ UNCHANGED <<kind, relaysVars, updateVars, pluginVars, pushVars,
          metaVars, settingsVars>>
  \/ /\ kind = "update" /\ Updates!Next
     /\ UNCHANGED <<kind, relaysVars, terminalVars, pluginVars, pushVars,
          metaVars, settingsVars>>
  \/ /\ kind = "plugin" /\ Plugins!Next
     /\ UNCHANGED <<kind, relaysVars, terminalVars, updateVars, pushVars,
          metaVars, settingsVars>>
  \/ /\ kind = "push" /\ Notices!Next
     /\ UNCHANGED <<kind, relaysVars, terminalVars, updateVars, pluginVars,
          metaVars, settingsVars>>
  \/ /\ kind = "meta" /\ Meta!Next
     /\ UNCHANGED <<kind, relaysVars, terminalVars, updateVars, pluginVars,
          pushVars, settingsVars>>
  \/ /\ kind = "settings" /\ Config!Next
     /\ UNCHANGED <<kind, relaysVars, terminalVars, updateVars, pluginVars,
          pushVars, metaVars>>

Spec == Init /\ [][Next]_vars

-----------------------------------------------------------------------------
\* What lands for the router session is told to it, and a dispatch shows its own
\* reply (pkg/router/router.go:1091, pkg/router/routed.go:77).
Routing == kind = "relays" => Relayed!NotesTold /\ Relayed!RoutedReply

\* What is handed over is handed over once: an answer to the session that asked, a
\* line to the window of the terminal (pkg/router/questions.go:103,
\* pkg/terminal/manager.go:137).
GoesOnce ==
  /\ kind = "relays" => Relayed!AnsweredInPlace
  /\ kind = "terminal" => Shell!LinesOnce

\* The outcome of an update is what is shown after it
\* (pkg/agentupdate/agentupdate.go:117).
OutcomeShown == kind = "update" => Updates!OutcomeShown

\* A plugin's stream catches up, and a usher keeps its socket
\* (pkg/api/events.go:149, pkg/pluginapi/server.go:182).
KeepsUp == kind = "plugin" => Plugins!KeepsUp

\* Every notice owed is sent, once, but for those a relay's collector silenced
\* (pkg/push/push.go:148).
Notified == kind = "push" => Notices!Notified

\* Only a browser that views the session silences its notices, as the comments of
\* the suppression say (pkg/push/push.go:124, pkg/broker/broker.go:91).
PushedUnlessViewed == kind = "push" => Notices!OwedWaits

\* The user's last word on a session stands and what was saved outlives a
\* restart; so do the settings, the agents and the tasks, whatever an import
\* of an older file was cut short at (pkg/sessionmeta/store.go:188,314,
\* pkg/settings/settings.go:107, pkg/agentprofile/profile.go:203).
Kept ==
  /\ kind = "meta" => Meta!LastWordStands /\ Meta!Outlives
  /\ kind = "settings" => Config!Kept /\ Config!Indexed
==============================================================================
