--------------------------- MODULE DeliveriesProofs ---------------------------
(***************************************************************************)
(* Proofs about the components of Deliveries, for every value of their     *)
(* constants: the answers to a session's questions, the terminal's lines,  *)
(* an agent's update, a plugin's stream, the notices that are pushed, what *)
(* was decided of a session, and the settings.                             *)
(***************************************************************************)
EXTENDS Deliveries, FiniteSetTheorems, SequenceTheorems, TLAPS

(***************************************************************************)
(* AgentUpdate: the strengthening.                                         *)
(***************************************************************************)
Numbers == 0 .. Len(Releases)

Found == [current : Numbers, latest : Numbers, seen : Nat]

Checking == [at : {"away", "local", "latest", "apply"}, generation : Nat, found : Found]

Updating == [at : {"run", "local", "latest"}, no : Nat, found : Found]

Shown == [current : Numbers, latest : Numbers, available : BOOLEAN, updating : BOOLEAN,
          seen : Nat]

UpdateTyped ==
  /\ installed \in Numbers \ {0} /\ newest \in Numbers \ {0}
  /\ status \in Shown /\ generation \in Nat
  /\ check \in [Checkers -> Checking] /\ update \subseteq Updating
  /\ ran \in Nat /\ fails \in Nat

\* One update runs, and as long as it does the status says so; before it has asked
\* it found nothing, and then what it found is of now.
OneUpdate ==
  /\ status.updating <=> update # {}
  /\ \A u, v \in update : u = v
  /\ \A u \in update : IF u.at = "latest" THEN u.found.seen = ran ELSE u.found.current = 0

\* What a check found is of now, or of before an update: one that runs, or one
\* whose end gave the entry another generation.
Timely ==
  \A c \in Checkers : check[c].at # "away" =>
    /\ check[c].generation <= generation
    /\ check[c].at = "local" => check[c].found.current = 0
    /\ check[c].at \in {"latest", "apply"} /\ check[c].generation = generation
         /\ ~status.updating => check[c].found.seen = ran

UpdateInv == UpdateTyped /\ OneUpdate /\ Timely /\ Updates!OutcomeShown

(***************************************************************************)
(* Terminal: the strengthening.                                            *)
(***************************************************************************)
Call == [id : Nat, line : Nat, tab : Tabs \cup {0}]

Entry == [window : Nat, id : Nat, line : Nat]

\* The ids with the lines that are sent, were entered or may be sent under them.
Uses ==
  {<<c.id, c.line>> : c \in calls}
    \cup {<<entered[i].id, entered[i].line>> : i \in DOMAIN entered}
    \cup {<<rid[t], terminalBox[t]>> : t \in {s \in Tabs : rid[s] # 0}}

TerminalTyped ==
  /\ window \in 0 .. windows /\ windows \in Nat
  /\ seen \in Seq(Nat) /\ entered \in Seq(Entry)
  /\ terminalBox \in [Tabs -> Nat] /\ rid \in [Tabs -> Nat]
  /\ lines \in Nat /\ minted \in Nat
  /\ calls \subseteq Call

\* An id is of one line, and a line has one id.
Paired ==
  /\ Uses \subseteq (1 .. minted) \X (1 .. lines)
  /\ \A u, v \in Uses : u[1] = v[1] <=> u[2] = v[2]

\* A line is in one tab, and as long as it has no id it was never sent.
Typed ==
  /\ \A t \in Tabs : terminalBox[t] <= lines /\ (rid[t] # 0 => terminalBox[t] # 0)
  /\ \A t, s \in Tabs : t # s /\ terminalBox[t] # 0 => terminalBox[t] # terminalBox[s]
  /\ \A t \in Tabs : terminalBox[t] # 0 /\ rid[t] = 0 =>
       \A u \in Uses : u[2] # terminalBox[t]

\* What the open window was given is remembered or forgotten, and what is remembered
\* was given to the open window.
Remembered ==
  /\ \A i \in DOMAIN entered : entered[i].window \in 1 .. windows
  /\ window # 0 => \A i \in DOMAIN entered : entered[i].window = window =>
       Shell!Given(i) \in forgot \/ \E k \in DOMAIN seen : seen[k] = entered[i].id
  /\ \A k \in DOMAIN seen : \E i \in DOMAIN entered :
       entered[i].id = seen[k] /\ (window # 0 => entered[i].window = window)

TerminalInv == TerminalTyped /\ Paired /\ Typed /\ Remembered /\ Shell!LinesOnce

(***************************************************************************)
(* PluginStream: the strengthening.                                        *)
(***************************************************************************)
Told == [type : {"started", "ended"}, session : Sessions]

PluginTyped ==
  /\ file \in Ushers \cup {0}
  /\ pluginSt \in [Ushers -> {"new", "checked", "refused", "serving", "stopping", "gone"}]
  /\ turn \in [Ushers -> SUBSET Sessions]
  /\ conn \in [usher : Ushers \cup {0}, steps : 0 .. 2]
  /\ events \in Seq(Told)
  /\ believed \subseteq Sessions

\* Who took the path alone is still alone.
Alone ==
  \A u \in Ushers : pluginSt[u] = "serving" /\ u \notin raced =>
    file = u /\ \A v \in Ushers : v # u => ~Plugins!About(v)

\* A stream that is not subscribed holds nothing; the last event about a session says
\* whether it runs, and one that does not run has its end still to be read.
Subscribed ==
  /\ conn.usher = 0 => conn.steps = 0
  /\ conn.steps = 0 => events = <<>>
  /\ \A i \in DOMAIN events :
       (\A j \in DOMAIN events : j > i => events[j].session # events[i].session) =>
         (events[i].type = "started" <=> events[i].session \in turn[conn.usher])
  /\ \A i \in DOMAIN events :
       \/ events[i].session \in turn[conn.usher]
       \/ \E j \in DOMAIN events :
            j >= i /\ events[j].session = events[i].session /\ events[j].type = "ended"

Pending(s) == \E i \in DOMAIN events : events[i].session = s

\* What the plugin takes for running runs, ended in a gap, or is still to be told of;
\* and what runs it takes for running or is still to be told of.
Informed ==
  /\ \A s \in believed :
       (\E u \in Ushers : s \in turn[u]) \/ s \in missed \/ Pending(s)
  /\ conn.steps = 2 => \A s \in turn[conn.usher] : s \in believed \/ Pending(s)

PluginInv == PluginTyped /\ Alone /\ Subscribed /\ Informed

(***************************************************************************)
(* Push: the strengthening.                                                *)
(***************************************************************************)
Event == [no : Nat, session : Sessions]

Notice == [to : Endpoints, no : Nat]

\* A queue has an event of this number; it has no two.
In(q, no) == \E i \in DOMAIN q : q[i].no = no

Distinct(q) == \A i, j \in DOMAIN q : q[i].no = q[j].no => i = j

Queued(no) == In(ended, no) \/ In(pending, no)

PushTyped ==
  /\ subs \subseteq Endpoints /\ disk \subseteq Endpoints
  /\ ended \in Seq(Event) /\ pending \in Seq(Event)
  /\ sends \subseteq Notice /\ got \in Seq(Notice) /\ owed \subseteq Notice
  /\ pushEvents \in Nat

\* An event is in one queue, once, and no notice of it is sent before it leaves.
SentAfter ==
  /\ Distinct(ended) /\ Distinct(pending)
  /\ \A no : ~(In(ended, no) /\ In(pending, no))
  /\ \A no : Queued(no) => no <= pushEvents
  /\ \A n \in sends : n.no <= pushEvents /\ ~Queued(n.no)
  /\ \A i \in DOMAIN got : got[i].no <= pushEvents /\ ~Queued(got[i].no) /\ got[i] \notin sends
  /\ Notices!IsInjective(got)

\* What is owed is owed to a subscription there is, and its event waits, or it is sent,
\* or a collector silenced it.
Due ==
  \A o \in owed : o.to \in subs /\ (Queued(o.no) \/ o \in sends \/ o.no \in hushed)

\* The disk has what usher has but for what it could not save, and usher what browsers
\* want but for what of that it lost.
Saved ==
  /\ \A e \in Endpoints \ unsaved : e \in disk <=> e \in subs
  /\ \A e \in live \ lost : e \in subs <=> e \in wanted

PushInv == PushTyped /\ live \subseteq Endpoints /\ SentAfter /\ Due /\ Saved

(***************************************************************************)
(* Relays: the strengthening, of a question's way to its answer.           *)
(***************************************************************************)
Stages == {"new", "withdraw", "enqueue", "full", "start", "born", "queued", "sent",
           "runs", "ended", "idle", "over", "refused"}

Turn == [role : {"user", "assistant", "error"}, of : Nat, whole : BOOLEAN]

\* Where a log has a turn.
Places(turns, t) == {i \in DOMAIN turns : turns[i] = t}

AnswersTyped ==
  /\ case \in Cases /\ upsets \in Nat
  /\ st \in [Relayed!Sends -> Stages]
  /\ ask \in [Relayed!Questions -> {"none", "raised", "open", "reply", "steer", "over"}]
  /\ queue \in Seq(Relayed!Sends)
  /\ log \in Seq(Turn)

\* What is queued is in the queue once.
Lined ==
  /\ \A i \in DOMAIN queue : st[queue[i]] = "queued"
  /\ \A i, j \in DOMAIN queue : queue[i] = queue[j] => i = j

\* The answer's send and its turn wait for the question's end; a question that is over
\* is the session's no more; and a send that ran is in the log, unless it failed.
Answerable ==
  \A q \in Relayed!Questions :
    LET a == Relayed!Answer(q) IN
    /\ st[a] \notin {"withdraw", "start", "born"}
    /\ ask[q] # "over" => Relayed!Logs(q) = {} /\ st[a] = "new"
    /\ ask[q] = "over" => q \notin asks
    /\ q \in box => ask[q] \notin {"none", "raised"}
    /\ ask[q] \in {"reply", "steer"} => q \in box
    /\ st[a] \in {"runs", "ended"} => Relayed!Logs(q) # {}
    /\ st[a] \in {"idle", "over", "refused"} => Relayed!Logs(q) # {} \/ upsets > 0

AnswersInv == AnswersTyped /\ Lined /\ Answerable /\ Relayed!AnsweredInPlace

(***************************************************************************)
(* SessionMeta: the strengthening.                                         *)
(***************************************************************************)
Decided ==
  [archived : {"none", "archived", "shown"}, pinned : BOOLEAN, approval : BOOLEAN,
   set : SUBSET Meta!Texts]

MetaTyped ==
  /\ meta \in Decided /\ metaDisk \in Decided /\ metaLegacy \in BOOLEAN
  /\ metaUp \in {"no", "importing", "removing", "yes"} /\ metaUnsaved \in BOOLEAN
  /\ word \in [says : {"none", "archive", "show"}, stale : BOOLEAN]
  /\ trusted \in BOOLEAN /\ metaFails \in Nat

\* While usher runs the file has what memory has, unless the last save failed.
OnDisk == metaUp # "no" /\ ~metaUnsaved => meta = metaDisk

\* The last word is in the decision that was saved, and a decision is only taken
\* back of a session that was not left alone for long.
Spoken(m) ==
  /\ word.says = "archive" => m.archived = "archived"
  /\ word.says = "show" =>
       m.archived = "shown" \/ (m.archived = "none" /\ (AutoAfter = 0 \/ ~word.stale))

\* As long as nothing failed, memory and file have the last word, and the approval is
\* in one of the files, in the file from the import on, and only there once usher
\* runs.
Faultless ==
  metaFails = 0 =>
    /\ ~metaUnsaved /\ Spoken(metaDisk)
    /\ trusted <=> metaDisk.approval \/ metaLegacy
    /\ metaUp \in {"removing", "yes"} => metaDisk.approval = trusted
    /\ metaUp = "yes" => ~metaLegacy

MetaInv == MetaTyped /\ OnDisk /\ Faultless

(***************************************************************************)
(* Settings: the strengthening.                                            *)
(***************************************************************************)
Agents == [name : Names, v : Nat]

\* Lists of agents, each with a name of its own.
Lists == {ps \in Seq(Agents) : \A i, j \in DOMAIN ps : ps[i].name = ps[j].name => i = j}

Stored ==
  [agents : Lists \cup {Unset}, schedules : Nat \cup {Unset}, router : Nat,
   continues : BOOLEAN]

SettingsTyped ==
  /\ settingsDisk \in Stored \cup {Unset} /\ f \in Stored
  /\ settingsLegacy \in [agents : Lists \cup {Unset}, schedules : Nat \cup {Unset}]
  /\ up \in {"no", "agents", "agents file", "schedules", "schedules file", "open", "yes"}
  /\ profiles \in Lists /\ tasks \in Nat
  /\ settingsAcked = [s \in Config!Sections |-> settingsAcked[s]]
  /\ spoiled \in BOOLEAN

\* Once it was read, memory has the agents and the schedules of the file.
Read ==
  up # "no" => /\ f.agents = Config!Loaded.agents
               /\ f.schedules = Config!Loaded.schedules

\* An older file is only removed when its section was taken over.
TakenOver ==
  /\ up = "agents file" => f.agents # Unset
  /\ up = "schedules file" => f.schedules # Unset

SettingsInv == SettingsTyped /\ Read /\ TakenOver /\ Config!Kept /\ Config!Indexed

(***************************************************************************)
(* Versions.                                                               *)
(***************************************************************************)

\* Where two cores first differ.
LEMMA FirstDifferenceIs ==
  ASSUME NEW a \in [1 .. 3 -> Nat], NEW b \in [1 .. 3 -> Nat]
  PROVE  \/ Updates!FirstDifference(a, b) = 0 /\ a = b
         \/ Updates!FirstDifference(a, b) = 1 /\ a[1] # b[1]
         \/ Updates!FirstDifference(a, b) = 2 /\ a[1] = b[1] /\ a[2] # b[2]
         \/ Updates!FirstDifference(a, b) = 3 /\ a[1] = b[1] /\ a[2] = b[2] /\ a[3] # b[3]
<1> DEFINE places == {i \in 1 .. 3 : a[i] # b[i]}
           first == CHOOSE i \in places : \A j \in places : i <= j
<1>1. Updates!FirstDifference(a, b) = IF places = {} THEN 0 ELSE first
  BY DEF Updates!FirstDifference
<1>2. CASE places = {}
  <2>1. \A i \in 1 .. 3 : a[i] = b[i]
    BY <1>2
  <2> QED
    BY <1>1, <1>2, <2>1
<1>3. ASSUME NEW k \in places, \A j \in places : k <= j
      PROVE  first \in places /\ \A j \in places : first <= j
  BY <1>3
<1>4. CASE a[1] # b[1]
  BY <1>1, <1>3, <1>4
<1>5. CASE a[1] = b[1] /\ a[2] # b[2]
  BY <1>1, <1>3, <1>5
<1>6. CASE a[1] = b[1] /\ a[2] = b[2] /\ a[3] # b[3]
  BY <1>1, <1>3, <1>6
<1> QED
  BY <1>2, <1>4, <1>5, <1>6

\* A tag is not after itself.
LEMMA NotAfterItself ==
  ASSUME NEW p \in Seq(Nat)
  PROVE  ~Updates!StringAfter(p, p)
<1>1. DOMAIN p = 1 .. Len(p) /\ Len(p) \in Nat /\ \A k \in DOMAIN p : p[k] \in Nat
  BY ElementOfSeq
<1> QED
  BY <1>1 DEF Updates!StringAfter

\* compareVersions orders the releases as they precede each other, but for the tags
\* of one core.
LEMMA NewerIsLater ==
  ASSUME NEW i \in Numbers \ {0}, NEW j \in Numbers \ {0}
  PROVE  \/ Updates!Later(Releases[i], Releases[j]) <=> i > j
         \/ Updates!TagsOfOneCore(Releases[i], Releases[j])
<1> DEFINE Release == [core : [1 .. 3 -> Nat], pre : Seq(Nat)]
<1>1. /\ i \in DOMAIN Releases /\ j \in DOMAIN Releases /\ i \in Nat /\ j \in Nat
      /\ Releases[i] \in Release /\ Releases[j] \in Release
      /\ i < j => Precedes(Releases[i], Releases[j])
      /\ j < i => Precedes(Releases[j], Releases[i])
  <2>1. Releases \in Seq(Release) /\ DOMAIN Releases = 1 .. Len(Releases) /\ Len(Releases) \in Nat
    BY DeliveriesAssumption
  <2>4. \A k, l \in DOMAIN Releases : k < l => Precedes(Releases[k], Releases[l])
    BY DeliveriesAssumption
  <2>2. i \in 1 .. Len(Releases) /\ j \in 1 .. Len(Releases)
    BY <2>1 DEF Numbers
  <2>3. Releases[i] \in Release /\ Releases[j] \in Release
    BY <2>1, <2>2, ElementOfSeq
  <2> HIDE DEF Release
  <2> QED
    BY <2>1, <2>2, <2>3, <2>4
<1>2. ASSUME NEW a \in Release, NEW b \in Release, Precedes(a, b),
             ~Updates!TagsOfOneCore(a, b)
      PROVE  ~Updates!Later(a, b) /\ Updates!Later(b, a)
  <2>1. a.core \in [1 .. 3 -> Nat] /\ b.core \in [1 .. 3 -> Nat]
    OBVIOUS
  <2>2. CASE a.core = b.core
    <3>1. a.pre # <<>> /\ b.pre = <<>>
      BY <1>2, <2>1, <2>2 DEF Precedes, Updates!TagsOfOneCore
    <3>2. Updates!FirstDifference(a.core, b.core) = 0 /\ Updates!FirstDifference(b.core, a.core) = 0
      BY <2>1, <2>2, FirstDifferenceIs
    <3> QED
      BY <3>1, <3>2 DEF Updates!Later, Updates!Newer
  <2>3. CASE a.core # b.core
    <3> DEFINE p == a.core
               q == b.core
    <3>1. p \in [1 .. 3 -> Nat] /\ q \in [1 .. 3 -> Nat] /\ p # q
      BY <2>1, <2>3
    <3>2. \/ p[1] < q[1]
          \/ p[1] = q[1] /\ p[2] < q[2]
          \/ p[1] = q[1] /\ p[2] = q[2] /\ p[3] < q[3]
      BY <1>2, <2>3 DEF Precedes
    <3> HIDE DEF p, q
    <3>3. LET d == Updates!FirstDifference(p, q)
              e == Updates!FirstDifference(q, p)
          IN  d # 0 /\ e # 0 /\ ~(p[d] > q[d]) /\ q[e] > p[e]
      BY <3>1, <3>2, FirstDifferenceIs
    <3> QED
      BY <3>3 DEF Updates!Later, Updates!Newer, p, q
  <2> QED
    BY <2>2, <2>3
<1>3. ASSUME NEW a \in Release PROVE ~Updates!Later(a, a)
  <2>1. a.core \in [1 .. 3 -> Nat] /\ a.pre \in Seq(Nat)
    OBVIOUS
  <2> QED
    BY <2>1, FirstDifferenceIs, NotAfterItself DEF Updates!Later, Updates!Newer
<1>4. ASSUME NEW a, NEW b PROVE Updates!TagsOfOneCore(a, b) <=> Updates!TagsOfOneCore(b, a)
  BY DEF Updates!TagsOfOneCore
<1> QED
  BY <1>1, <1>2, <1>3, <1>4

(***************************************************************************)
(* AgentUpdate: its proof.                                                 *)
(***************************************************************************)

\* What is offered is the later release.
Offers(s) ==
  /\ s.available => s.current # 0 /\ s.latest # 0
  /\ s.current # 0 /\ s.latest # 0 =>
       \/ s.available <=> s.latest > s.current
       \/ Updates!TagsOfOneCore(Releases[s.latest], Releases[s.current])

\* What apply makes of a status.
LEMMA AppliedIs ==
  ASSUME NEW s \in Shown, NEW found \in Found
  PROVE  LET a == Updates!Applied(s, found) IN
         /\ a \in Shown /\ a.updating = s.updating /\ a.seen = found.seen
         /\ Offers(a)
<1> DEFINE latest == IF found.latest # 0 THEN found.latest ELSE s.latest
           offered == /\ found.current # 0 /\ latest # 0
                      /\ Updates!Later(Releases[latest], Releases[found.current])
<1>1. latest \in Numbers /\ found.current \in Numbers /\ found.seen \in Nat
  BY DEF Shown, Found
<1>2. /\ offered => found.current # 0 /\ latest # 0
      /\ found.current # 0 /\ latest # 0 =>
           \/ offered <=> latest > found.current
           \/ Updates!TagsOfOneCore(Releases[latest], Releases[found.current])
  BY <1>1, NewerIsLater
<1>3. Updates!Applied(s, found) =
        [s EXCEPT !.current = found.current, !.latest = latest, !.seen = found.seen,
                  !.available = offered]
  BY DEF Updates!Applied, Updates!None
<1>4. offered \in BOOLEAN
  BY DEF Updates!Later, Updates!Newer, Updates!StringAfter
<1> HIDE DEF latest, offered
<1> DEFINE a == [s EXCEPT !.current = found.current, !.latest = latest, !.seen = found.seen,
                          !.available = offered]
<1>5. /\ a \in Shown /\ a.updating = s.updating /\ a.seen = found.seen
      /\ a.current = found.current /\ a.latest = latest /\ a.available = offered
  BY <1>1, <1>4 DEF Shown
<1> HIDE DEF a
<1>6. Offers(a)
  BY <1>2, <1>5 DEF Offers
<1> QED
  BY <1>3, <1>5, <1>6 DEF a

LEMMA UpdateInit == Updates!Init => UpdateInv
<1>1. Len(Releases) \in Nat \ {0}
  BY DeliveriesAssumption
<1> QED
  BY <1>1
     DEF Updates!Init, UpdateInv, UpdateTyped, OneUpdate, Timely, Updates!OutcomeShown,
       Updates!Away, Updates!Nothing, Updates!None, Numbers, Found, Checking, Shown

\* What is found, of the version on disk and of the newest release.
LEMMA FoundIs ==
  ASSUME UpdateTyped
  PROVE  /\ Updates!Local \in Found /\ Updates!Local.seen = ran
         /\ Updates!Nothing \in Found /\ Updates!Nothing.current = 0
         /\ \A found \in Found :
              /\ Updates!WithLatest(found) \in Found
              /\ Updates!WithLatest(found).seen = found.seen
              /\ Updates!FailedLookup(found) \in Found
              /\ Updates!FailedLookup(found).seen \in {ran, found.seen}
              /\ found.current = 0 => Updates!FailedLookup(found).seen = ran
<1>1. 0 \in Numbers /\ 0 \in Nat
  BY DeliveriesAssumption DEF Numbers
<1>2. Updates!Nothing \in Found /\ Updates!Nothing.current = 0
  BY <1>1 DEF Updates!Nothing, Updates!None, Found
<1>3. Updates!Local \in Found /\ Updates!Local.seen = ran
  BY <1>2 DEF UpdateTyped, Updates!Local, Found
<1>4. ASSUME NEW found \in Found
      PROVE  Updates!WithLatest(found) \in Found /\ Updates!WithLatest(found).seen = found.seen
  BY DEF UpdateTyped, Updates!WithLatest, Found
<1>5. ASSUME NEW found \in Found
      PROVE  /\ Updates!FailedLookup(found) \in Found
             /\ Updates!FailedLookup(found).seen \in {ran, found.seen}
             /\ found.current = 0 => Updates!FailedLookup(found).seen = ran
  BY <1>2 DEF UpdateTyped, Updates!FailedLookup, Updates!None, Found
<1> QED
  BY <1>2, <1>3, <1>4, <1>5

\* A check asks; it changes nothing but what it has found.
LEMMA CheckKeeps ==
  ASSUME UpdateInv, NEW c \in Checkers,
         \/ Updates!Begin(c) \/ Updates!AskVersion(c) \/ Updates!AskLatest(c)
         \/ Updates!LookupFails(c)
  PROVE  UpdateInv'
<1> USE DEF UpdateInv, Updates!cli, Updates!kept
<1>1. check[c] \in Checking /\ check[c].found \in Found /\ UpdateTyped
  BY DEF UpdateTyped, Checking
<1>2. CASE Updates!Begin(c)
  <2> DEFINE asking == [at |-> "local", generation |-> generation, found |-> Updates!Nothing]
  <2>1. asking \in Checking /\ asking.found.current = 0 /\ asking.generation = generation
    BY <1>1, FoundIs DEF UpdateTyped, Checking
  <2>2. check' = [check EXCEPT ![c] = asking] /\ ~status.updating
    BY <1>2 DEF Updates!Begin
  <2>3. asking.at = "local"
    OBVIOUS
  <2> HIDE DEF asking
  <2> QED
    BY <1>2, <2>1, <2>2, <2>3 DEF Updates!Begin, UpdateTyped, OneUpdate, Timely,
       Updates!OutcomeShown, Updates!None
<1>3. CASE Updates!AskVersion(c)
  BY <1>1, <1>3, FoundIs DEF Updates!AskVersion, UpdateTyped, OneUpdate, Timely,
     Updates!OutcomeShown, Updates!None, Checking
<1>4. CASE Updates!AskLatest(c)
  BY <1>1, <1>4, FoundIs DEF Updates!AskLatest, UpdateTyped, OneUpdate, Timely,
     Updates!OutcomeShown, Updates!None, Checking
<1>5. CASE Updates!LookupFails(c)
  <2>1. fails' \in Nat
    BY <1>5 DEF Updates!LookupFails, Updates!Failing, UpdateTyped
  <2> QED
    BY <1>1, <1>5, <2>1, FoundIs DEF Updates!LookupFails, UpdateTyped, OneUpdate, Timely,
       Updates!OutcomeShown, Updates!None, Checking
<1> QED
  BY <1>2, <1>3, <1>4, <1>5

\* What a check found is applied when no update ran, runs or ended meanwhile.
LEMMA ApplyKeeps ==
  ASSUME UpdateInv, NEW c \in Checkers, Updates!Apply(c)
  PROVE  UpdateInv'
<1> USE DEF UpdateInv, Updates!cli
<1>1. check[c] \in Checking /\ check[c].found \in Found /\ check[c].at = "apply" /\ status \in Shown
  BY DEF UpdateTyped, Checking, Updates!Apply
<1>2. /\ status' \in Shown /\ status'.updating = status.updating
      /\ Updates!OutcomeShown'
  <2>1. CASE Updates!StillHolds(c)
    <3>1. check[c].found.seen = ran /\ ~status.updating
      BY <1>1, <2>1 DEF Updates!StillHolds, Updates!Fresh, Timely
    <3> QED
      BY <1>1, <2>1, <3>1, AppliedIs
         DEF Updates!Apply, Updates!OutcomeShown, Updates!None, Offers
  <2> QED
    BY <1>1, <2>1 DEF Updates!Apply, Updates!OutcomeShown, Updates!None
<1>3. Updates!Away \in Checking /\ Updates!Away.at = "away"
  BY FoundIs DEF Updates!Away, Checking
<1> QED
  BY <1>1, <1>2, <1>3 DEF Updates!Apply, UpdateTyped, OneUpdate, Timely

LEMMA StartKeeps ==
  ASSUME UpdateInv, Updates!Start
  PROVE  UpdateInv'
<1> USE DEF UpdateInv, Updates!cli
<1>1. update = {} /\ ~status.updating /\ ran \in Nat
  BY DEF Updates!Start, Updates!MayUpdate, Updates!Idle, OneUpdate, UpdateTyped
<1>2. Updates!Cardinality(update) = 0
  <2>1. Updates!Cardinality({}) = Cardinality({})
    BY DEF Updates!Cardinality, Cardinality
  <2> QED
    BY <1>1, <2>1, FS_EmptySet
<1> DEFINE u == [at |-> "run", no |-> ran, found |-> Updates!Nothing]
<1>3. update' = {u} /\ u \in Updating /\ u.found.current = 0
  <2>1. ran + Updates!Cardinality(update) = ran
    BY <1>1, <1>2
  <2>2. update' = update \cup {u}
    BY <2>1 DEF Updates!Start
  <2>3. u \in Updating /\ u.found.current = 0
    BY <1>1, FoundIs DEF Updating
  <2> QED
    BY <1>1, <2>1, <2>2, <2>3
<1> HIDE DEF u
<1>4. status' \in Shown /\ status'.updating
  BY DEF Updates!Start, UpdateTyped, Shown
<1>5. UpdateTyped'
  BY <1>3, <1>4 DEF Updates!Start, UpdateTyped
<1>6. OneUpdate'
  BY <1>3, <1>4 DEF Updates!Start, OneUpdate, u
<1>7. Timely' /\ Updates!OutcomeShown'
  BY <1>1, <1>4
     DEF Updates!Start, Timely, Updates!OutcomeShown, UpdateTyped, Shown, Updates!None
<1> QED
  BY <1>5, <1>6, <1>7

\* The command ends and the update looks up the outcome; it is the only one.
LEMMA UpdateAsksKeeps ==
  ASSUME UpdateInv, NEW u \in update, Updates!RunCommand(u) \/ Updates!UpdateAsks(u)
  PROVE  UpdateInv'
<1> USE DEF UpdateInv, Updates!cli, Updates!kept
<1>1. u \in Updating /\ u.found \in Found /\ update = {u} /\ status.updating
  BY DEF UpdateTyped, OneUpdate, Updating
<1>2. CASE Updates!RunCommand(u)
  <2> DEFINE v == [u EXCEPT !.at = "local"]
  <2>1. update' = {v} /\ v \in Updating /\ v.at = "local" /\ v.found.current = 0
    BY <1>1, <1>2 DEF Updates!RunCommand, Updating, OneUpdate
  <2> HIDE DEF v
  <2>2. fails' \in Nat /\ ran' = ran + 1 /\ ran' \in Nat /\ installed' \in Numbers \ {0}
    BY <1>2 DEF Updates!RunCommand, Updates!Failing, UpdateTyped
  <2> QED
    BY <1>1, <1>2, <2>1, <2>2 DEF Updates!RunCommand, UpdateTyped, OneUpdate, Timely,
       Updates!OutcomeShown, Updates!None
<1>3. CASE Updates!UpdateAsks(u)
  <2> DEFINE v == [u EXCEPT !.at = "latest", !.found = Updates!Local]
  <2>1. update' = {v} /\ v \in Updating /\ v.at = "latest" /\ v.found.seen = ran
    BY <1>1, <1>3, FoundIs DEF Updates!UpdateAsks, Updating
  <2> HIDE DEF v
  <2> QED
    BY <1>1, <1>3, <2>1 DEF Updates!UpdateAsks, UpdateTyped, OneUpdate, Timely,
       Updates!OutcomeShown, Updates!None
<1> QED
  BY <1>2, <1>3

\* The outcome is applied, and the checks that were under way are of before.
LEMMA FinishKeeps ==
  ASSUME UpdateInv, NEW u \in update, Updates!Finish(u)
  PROVE  UpdateInv'
<1> USE DEF UpdateInv, Updates!cli
<1>1. u \in Updating /\ u.found \in Found /\ update = {u} /\ status.updating /\ status \in Shown
  BY DEF UpdateTyped, OneUpdate, Updating
<1> DEFINE found == IF fails' = fails THEN Updates!WithLatest(u.found) ELSE Updates!FailedLookup(u.found)
           s == [status EXCEPT !.updating = FALSE]
<1>2. found \in Found /\ found.seen = ran
  <2>1. CASE u.at = "latest"
    <3>1. u.found.seen = ran
      BY <2>1 DEF OneUpdate
    <3> QED
      BY <1>1, <3>1, FoundIs
  <2>2. CASE u.at = "local" /\ Updates!Failing
    <3>1. fails' # fails /\ u.found.current = 0
      BY <2>2 DEF Updates!Failing, UpdateTyped, OneUpdate
    <3> QED
      BY <1>1, <3>1, FoundIs
  <2> QED
    BY <2>1, <2>2 DEF Updates!Finish
<1>3. s \in Shown /\ ~s.updating
  BY <1>1 DEF Shown
<1>4. status' = Updates!Applied(s, found)
  BY DEF Updates!Finish
<1> HIDE DEF found, s
<1>5. /\ status' \in Shown /\ ~status'.updating /\ status'.seen = ran
      /\ Offers(status')
  BY <1>2, <1>3, <1>4, AppliedIs
<1>6. update' = {} /\ generation' = generation + 1 /\ fails' \in Nat
  BY <1>1 DEF Updates!Finish, Updates!Failing, UpdateTyped
<1>7. UpdateTyped'
  BY <1>5, <1>6 DEF Updates!Finish, UpdateTyped
<1>8. OneUpdate' /\ Updates!OutcomeShown'
  BY <1>5, <1>6 DEF Updates!Finish, OneUpdate, Updates!OutcomeShown, Updates!None, Offers
<1>9. Timely'
  BY <1>6 DEF Updates!Finish, Timely, UpdateTyped, Checking
<1> QED
  BY <1>7, <1>8, <1>9

LEMMA ReleaseKeeps ==
  ASSUME UpdateInv, Updates!Release
  PROVE  UpdateInv'
<1>1. newest' \in Numbers \ {0} /\ installed' \in Numbers \ {0}
  <2>1. Len(Releases) \in Nat
    BY DeliveriesAssumption
  <2> QED
    BY <2>1 DEF UpdateInv, UpdateTyped, Updates!Release, Numbers
<1> QED
  BY <1>1 DEF UpdateInv, Updates!Release, Updates!kept, UpdateTyped, OneUpdate, Timely,
     Updates!OutcomeShown

LEMMA UpdateStep ==
  UpdateInv /\ [Updates!Next]_(Updates!avars) => UpdateInv'
<1> SUFFICES ASSUME UpdateInv, [Updates!Next]_(Updates!avars) PROVE UpdateInv'
  OBVIOUS
<1>1. CASE Updates!Next
  BY <1>1, CheckKeeps, ApplyKeeps, StartKeeps, UpdateAsksKeeps, FinishKeeps, ReleaseKeeps
     DEF Updates!Next
<1>2. CASE UNCHANGED Updates!avars
  BY <1>2
     DEF Updates!avars, Updates!cli, Updates!kept, UpdateInv, UpdateTyped, OneUpdate,
       Timely, Updates!OutcomeShown
<1> QED
  BY <1>1, <1>2

(***************************************************************************)
(* Terminal: its proof.                                                    *)
(***************************************************************************)
LEMMA TerminalInit == Shell!Init => TerminalInv
<1> SUFFICES ASSUME Shell!Init PROVE TerminalInv
  OBVIOUS
<1> USE DEF Shell!Init
<1>1. TerminalTyped
  BY DEF TerminalTyped
<1>2. Uses = {} /\ DOMAIN entered = {} /\ DOMAIN seen = {}
  BY DEF Uses
<1> QED
  BY <1>1, <1>2 DEF TerminalInv, Paired, Typed, Remembered, Shell!LinesOnce

\* Without a new use no line gets another id.
LEMMA PairedKept ==
  ASSUME Paired, Uses' \subseteq Uses, minted \in Nat, lines \in Nat,
         minted' \in Nat, lines' \in Nat, minted <= minted', lines <= lines'
  PROVE  Paired'
<1>1. (1 .. minted) \X (1 .. lines) \subseteq ((1 .. minted) \X (1 .. lines))'
  OBVIOUS
<1> QED
  BY <1>1 DEF Paired

LEMMA TypeKeeps ==
  ASSUME TerminalInv, NEW t \in Tabs, Shell!Type(t)
  PROVE  TerminalInv'
<1> USE DEF TerminalInv
<1>1. /\ lines' = lines + 1 /\ terminalBox' = [terminalBox EXCEPT ![t] = lines + 1]
      /\ rid' = [rid EXCEPT ![t] = 0]
      /\ UNCHANGED <<window, windows, seen, entered, forgot, minted, calls, acked>>
  BY DEF Shell!Type, Shell!terminal, Shell!wire
<1>2. TerminalTyped'
  BY <1>1 DEF TerminalTyped
<1>3. Uses' \subseteq Uses
  BY <1>1 DEF Uses, TerminalTyped
<1>4. Paired'
  BY <1>1, <1>3, PairedKept DEF TerminalTyped
<1>5. \A u \in Uses' : u[2] \in 1 .. lines
  BY <1>3 DEF Paired
<1>6. Typed'
  <2>1. \A s \in Tabs : s # t => terminalBox'[s] = terminalBox[s] /\ rid'[s] = rid[s]
    BY <1>1 DEF TerminalTyped
  <2>2. terminalBox'[t] = lines + 1 /\ rid'[t] = 0
    BY <1>1 DEF TerminalTyped
  <2> QED
    BY <1>1, <1>3, <1>5, <2>1, <2>2 DEF Typed, TerminalTyped
<1>7. Remembered' /\ Shell!LinesOnce'
  BY <1>1 DEF Remembered, Shell!LinesOnce, Shell!Given
<1> QED
  BY <1>2, <1>4, <1>6, <1>7

LEMMA SubmitTerminalKeeps ==
  ASSUME TerminalInv, NEW t \in Tabs, Shell!SubmitTerminal(t)
  PROVE  TerminalInv'
<1> USE DEF TerminalInv
<1> DEFINE id == Shell!SendID(t)
           line == terminalBox[t]
<1>1. /\ rid' = [rid EXCEPT ![t] = id] /\ minted' = IF id > minted THEN id ELSE minted
      /\ calls' = calls \cup {[id |-> id, line |-> line, tab |-> t]} /\ line # 0
      /\ UNCHANGED <<window, windows, seen, entered, forgot, terminalBox, lines, acked>>
  BY DEF Shell!SubmitTerminal, Shell!terminal
<1>2. id = IF rid[t] # 0 THEN rid[t] ELSE minted + 1
  BY DEF Shell!SendID, Shell!RequestID
<1> HIDE DEF id
<1>3. id \in Nat \ {0} /\ line \in 1 .. lines /\ minted' \in Nat /\ minted <= minted'
      /\ id <= minted'
  BY <1>1, <1>2 DEF TerminalTyped, Typed
<1>4. TerminalTyped'
  BY <1>1, <1>3 DEF TerminalTyped, Call
<1>5. \A u \in Uses : u[1] = id <=> u[2] = line
  <2>1. CASE rid[t] # 0
    <3>1. <<id, line>> \in Uses
      BY <1>2, <2>1 DEF Uses
    <3> QED
      BY <3>1 DEF Paired
  <2>2. CASE rid[t] = 0
    <3>1. \A u \in Uses : u[2] # line /\ u[1] <= minted
      BY <1>1, <2>2 DEF Typed, Paired
    <3> QED
      BY <1>2, <2>2, <3>1 DEF TerminalTyped
  <2> QED
    BY <2>1, <2>2
<1>6. Uses' \subseteq Uses \cup {<<id, line>>}
  BY <1>1 DEF Uses, TerminalTyped
<1>7. Paired'
  <2>1. Uses \subseteq (1 .. minted') \X (1 .. lines)
    BY <1>3 DEF Paired, TerminalTyped
  <2>2. Uses' \subseteq (1 .. minted') \X (1 .. lines')
    BY <1>1, <1>3, <1>6, <2>1
  <2>3. \A u, v \in Uses' : u[1] = v[1] <=> u[2] = v[2]
    BY <1>5, <1>6 DEF Paired
  <2> QED
    BY <2>2, <2>3 DEF Paired
<1>8. Typed'
  <2>1. \A s \in Tabs : s # t => rid'[s] = rid[s]
    BY <1>1 DEF TerminalTyped
  <2>2. rid'[t] = id
    BY <1>1 DEF TerminalTyped
  <2>3. \A s \in Tabs : terminalBox[s] # 0 /\ rid'[s] = 0 => \A u \in Uses' : u[2] # terminalBox[s]
    BY <1>1, <1>3, <1>6, <2>1, <2>2 DEF Typed
  <2> QED
    BY <1>1, <2>1, <2>2, <2>3 DEF Typed
<1>9. Remembered' /\ Shell!LinesOnce'
  BY <1>1 DEF Remembered, Shell!LinesOnce, Shell!Given
<1> QED
  BY <1>4, <1>7, <1>8, <1>9

\* A call in which the page has lost interest, or that is gone.
LEMMA CallsGone ==
  ASSUME TerminalInv, NEW ok \in BOOLEAN, NEW c \in calls,
         Shell!Answer(c, ok)
  PROVE  /\ calls' \subseteq calls
         /\ terminalBox' \in [Tabs -> Nat] /\ rid' \in [Tabs -> Nat]
         /\ \A t \in Tabs : \/ terminalBox'[t] = terminalBox[t] /\ rid'[t] = rid[t]
                            \/ terminalBox'[t] = 0 /\ rid'[t] = 0
         /\ UNCHANGED <<lines, minted>>
         /\ acked' \subseteq acked \cup {[window |-> window, line |-> c.line]}
         /\ ~ok => acked' = acked
BY DEF TerminalInv, TerminalTyped, Shell!Answer, Call, Shell!NoTab

\* What the page's part of the invariant asks of a step that answers a call, or loses some.
LEMMA AnsweredKeeps ==
  ASSUME TerminalInv,
         calls' \subseteq calls, terminalBox' \in [Tabs -> Nat], rid' \in [Tabs -> Nat],
         \A t \in Tabs : \/ terminalBox'[t] = terminalBox[t] /\ rid'[t] = rid[t]
                         \/ terminalBox'[t] = 0 /\ rid'[t] = 0,
         UNCHANGED <<lines, minted>>,
         \A i \in DOMAIN entered' : <<entered'[i].id, entered'[i].line>> \in Uses
  PROVE  Paired' /\ Typed'
<1> USE DEF TerminalInv
<1>1. Uses' \subseteq Uses
  BY DEF Uses
<1>2. Paired'
  BY <1>1, PairedKept DEF TerminalTyped
<1>3. Typed'
  BY <1>1 DEF Typed, TerminalTyped
<1> QED
  BY <1>2, <1>3

LEMMA GiveUpKeeps ==
  ASSUME TerminalInv, NEW c \in calls, Shell!GiveUp(c)
  PROVE  TerminalInv'
<1> USE DEF TerminalInv
<1> DEFINE d == [c EXCEPT !.tab = 0]
<1>1. /\ calls' = (calls \ {c}) \cup {d}
      /\ UNCHANGED <<window, windows, seen, entered, forgot, terminalBox, rid, lines, minted, acked>>
  BY DEF Shell!GiveUp, Shell!terminal, Shell!page, Shell!NoTab
<1>2. d \in Call /\ d.id = c.id /\ d.line = c.line
  BY DEF TerminalTyped, Call
<1> HIDE DEF d
<1>3. Uses' \subseteq Uses
  BY <1>1, <1>2 DEF Uses
<1>4. TerminalTyped'
  BY <1>1, <1>2 DEF TerminalTyped
<1>5. Paired'
  BY <1>1, <1>3, PairedKept DEF TerminalTyped
<1>6. Typed' /\ Remembered' /\ Shell!LinesOnce'
  BY <1>1, <1>3 DEF Typed, Remembered, Shell!LinesOnce, Shell!Given
<1> QED
  BY <1>4, <1>5, <1>6

\* A line put into the open window.
LEMMA Appended ==
  ASSUME TerminalInv, NEW c \in calls, entered' = Append(entered, Shell!Entry(c))
  PROVE  /\ entered' \in Seq(Entry) /\ DOMAIN entered' = DOMAIN entered \cup {Len(entered) + 1}
         /\ Len(entered) \in Nat /\ DOMAIN entered = 1 .. Len(entered)
         /\ \A i \in DOMAIN entered : entered'[i] = entered[i]
         /\ entered'[Len(entered) + 1] = Shell!Entry(c)
         /\ \A i \in DOMAIN entered' : <<entered'[i].id, entered'[i].line>> \in Uses
<1>1. Shell!Entry(c) \in Entry /\ Shell!Entry(c).id = c.id /\ Shell!Entry(c).line = c.line
  BY DEF TerminalInv, TerminalTyped, Shell!Entry, Entry, Call
<1>2. entered \in Seq(Entry)
  BY DEF TerminalInv, TerminalTyped
<1> HIDE DEF Entry
<1>3. /\ entered' \in Seq(Entry) /\ DOMAIN entered' = DOMAIN entered \cup {Len(entered) + 1}
      /\ Len(entered) \in Nat /\ DOMAIN entered = 1 .. Len(entered)
      /\ \A i \in DOMAIN entered : entered'[i] = entered[i]
      /\ entered'[Len(entered) + 1] = Shell!Entry(c)
  BY <1>1, <1>2
<1>4. \A i \in DOMAIN entered : <<entered[i].id, entered[i].line>> \in Uses
  BY DEF Uses
<1>5. <<c.id, c.line>> \in Uses
  BY DEF Uses
<1> QED
  BY <1>1, <1>3, <1>4, <1>5

\* A line the open window was never given, or whose id it forgot, is not its second time.
LEMMA FirstTime ==
  ASSUME TerminalInv, NEW c \in calls, window # 0,
         \A k \in DOMAIN seen : seen[k] # c.id
  PROVE  \A i \in DOMAIN entered :
           Shell!Given(i) = [window |-> window, line |-> c.line] => Shell!Given(i) \in forgot
<1> SUFFICES ASSUME NEW i \in DOMAIN entered,
                    Shell!Given(i) = [window |-> window, line |-> c.line]
             PROVE  Shell!Given(i) \in forgot
  OBVIOUS
<1>1. entered[i].window = window /\ entered[i].line = c.line
  BY DEF Shell!Given
<1>2. <<entered[i].id, entered[i].line>> \in Uses /\ <<c.id, c.line>> \in Uses
  BY DEF Uses
<1>3. entered[i].id = c.id
  BY <1>1, <1>2 DEF TerminalInv, Paired
<1> QED
  BY <1>1, <1>3 DEF TerminalInv, Remembered

\* A line entered leaves each line in its window once or forgotten.
LEMMA EnteredOnce ==
  ASSUME TerminalInv, NEW c \in calls, window # 0,
         \A k \in DOMAIN seen : seen[k] # c.id,
         entered' = Append(entered, Shell!Entry(c)), forgot \subseteq forgot',
         acked' \subseteq acked \cup {[window |-> window, line |-> c.line]}
  PROVE  Shell!LinesOnce'
<1>0. PICK n : n = Len(entered) + 1
  OBVIOUS
<1>1. /\ DOMAIN entered' = DOMAIN entered \cup {n} /\ DOMAIN entered = 1 .. Len(entered)
      /\ Len(entered) \in Nat /\ \A i \in DOMAIN entered : entered'[i] = entered[i]
      /\ entered'[n] = Shell!Entry(c)
  BY <1>0, Appended
<1>2. \A i \in DOMAIN entered : Shell!Given(i)' = Shell!Given(i)
  BY <1>1 DEF Shell!Given
<1>3. Shell!Given(n)' = [window |-> window, line |-> c.line]
  BY <1>1 DEF Shell!Given, Shell!Entry
<1>4. \A i \in DOMAIN entered : i < n
  BY <1>0, <1>1
<1>5. ASSUME NEW i \in DOMAIN entered', NEW j \in DOMAIN entered', i < j,
             Shell!Given(i)' = Shell!Given(j)'
      PROVE  Shell!Given(i)' \in forgot'
  <2>1. CASE j = n
    <3>1. i \in DOMAIN entered
      BY <1>1, <1>5, <2>1
    <3>2. Shell!Given(i) = [window |-> window, line |-> c.line]
      BY <1>2, <1>3, <1>5, <2>1, <3>1
    <3>3. Shell!Given(i) \in forgot
      BY <3>1, <3>2, FirstTime
    <3> QED
      BY <1>2, <3>1, <3>3
  <2>2. CASE j # n
    <3>1. j \in DOMAIN entered /\ i \in DOMAIN entered
      BY <1>0, <1>1, <1>5, <2>2
    <3> QED
      BY <1>2, <1>5, <3>1 DEF TerminalInv, Shell!LinesOnce
  <2> QED
    BY <2>1, <2>2
<1>6. acked' \subseteq {Shell!Given(i)' : i \in DOMAIN entered'}
  BY <1>1, <1>2, <1>3 DEF TerminalInv, Shell!LinesOnce
<1> QED
  BY <1>5, <1>6 DEF Shell!LinesOnce

\* What the manager remembers after a line, and what it forgets for it.
LEMMA RememberingIs ==
  ASSUME TerminalInv, NEW c \in calls, Shell!Remembering(c)
  PROVE  /\ seen' \in Seq(Nat) /\ forgot \subseteq forgot'
         /\ \A k \in DOMAIN seen' : seen'[k] = c.id \/ \E l \in DOMAIN seen : seen'[k] = seen[l]
         /\ \E k \in DOMAIN seen' : seen'[k] = c.id
         /\ \A l \in DOMAIN seen :
              \/ \E k \in DOMAIN seen' : seen'[k] = seen[l]
              \/ \A i \in DOMAIN entered : entered[i].window = window /\ entered[i].id = seen[l] =>
                   Shell!Given(i) \in forgot'
<1> DEFINE order == Append(seen, c.id)
           over == Len(order) > MaxRecent
<1>1. c.id \in Nat /\ seen \in Seq(Nat)
  BY DEF TerminalInv, TerminalTyped, Call
<1>2. /\ order \in Seq(Nat) /\ Len(order) = Len(seen) + 1 /\ Len(seen) \in Nat
      /\ order[Len(seen) + 1] = c.id /\ \A l \in DOMAIN seen : order[l] = seen[l]
      /\ DOMAIN seen = 1 .. Len(seen) /\ DOMAIN order = 1 .. Len(seen) + 1
  BY <1>1
<1>3. /\ seen' = IF over THEN Tail(order) ELSE order
      /\ forgot' = IF over THEN forgot \cup Shell!LinesOf({Head(order)}) ELSE forgot
  BY DEF Shell!Remembering
<1>4. CASE ~over
  <2>1. seen' = order /\ forgot' = forgot
    BY <1>3, <1>4
  <2> HIDE DEF order, over
  <2>2. ASSUME NEW k \in DOMAIN order
        PROVE  order[k] = c.id \/ \E l \in DOMAIN seen : order[k] = seen[l]
    BY <1>2
  <2>3. \A l \in DOMAIN seen : l \in DOMAIN order
    BY <1>2
  <2>4. Len(seen) + 1 \in DOMAIN order
    BY <1>2
  <2> QED
    BY <1>2, <2>1, <2>2, <2>3, <2>4
<1>5. CASE over
  <2>1. Len(seen) >= 1
    BY <1>2, <1>5, DeliveriesAssumption
  <2>2. order # <<>>
    BY <1>2
  <2>3. seen' = Tail(order) /\ forgot' = forgot \cup Shell!LinesOf({Head(order)})
    BY <1>3, <1>5
  <2> HIDE DEF order, over
  <2>4. /\ seen' \in Seq(Nat) /\ DOMAIN seen' = 1 .. Len(seen) /\ Head(order) = order[1]
        /\ \A k \in 1 .. Len(seen) : seen'[k] = order[k + 1]
    <3>1. /\ Tail(order) \in Seq(Nat) /\ Len(Tail(order)) = Len(order) - 1
          /\ \A k \in 1 .. Len(Tail(order)) : Tail(order)[k] = order[k + 1]
      BY <1>2, <2>2, HeadTailProperties
    <3>2. Len(Tail(order)) = Len(seen) /\ DOMAIN Tail(order) = 1 .. Len(Tail(order))
      BY <1>2, <3>1
    <3>3. Head(order) = order[1]
      BY <1>2
    <3> QED
      BY <2>3, <3>1, <3>2, <3>3
  <2>5. ASSUME NEW l \in DOMAIN seen
        PROVE  l = 1 \/ (l - 1 \in DOMAIN seen' /\ seen'[l - 1] = seen[l])
    <3>1. CASE l # 1
      <4>1. l - 1 \in 1 .. Len(seen) /\ l = l - 1 + 1 /\ l \in DOMAIN seen
        BY <1>2, <3>1
      <4>2. seen'[l - 1] = order[l - 1 + 1]
        BY <2>4, <4>1
      <4>3. order[l - 1 + 1] = order[l]
        BY <4>1
      <4> QED
        BY <1>2, <2>4, <4>1, <4>2, <4>3
    <3> QED
      BY <3>1
  <2>6. \A i \in DOMAIN entered : entered[i].window = window /\ entered[i].id = seen[1] =>
          Shell!Given(i) \in forgot'
    <3> SUFFICES ASSUME NEW i \in DOMAIN entered, entered[i].window = window, entered[i].id = seen[1]
                 PROVE  Shell!Given(i) \in forgot'
      OBVIOUS
    <3>1. Head(order) = seen[1]
      BY <1>2, <2>1, <2>4
    <3>2. entered[i] \in Shell!Range(entered)
      BY DEF Shell!Range
    <3> QED
      BY <2>3, <3>1, <3>2 DEF Shell!LinesOf, Shell!Given
  <2>7. \A k \in DOMAIN seen' : seen'[k] = c.id \/ \E l \in DOMAIN seen : seen'[k] = seen[l]
    <3> SUFFICES ASSUME NEW k \in DOMAIN seen'
                 PROVE  seen'[k] = c.id \/ \E l \in DOMAIN seen : seen'[k] = seen[l]
      OBVIOUS
    <3>1. CASE k = Len(seen)
      BY <1>2, <2>1, <2>4, <3>1
    <3>2. CASE k # Len(seen)
      <4>1. k + 1 \in DOMAIN seen
        BY <1>2, <2>4, <3>2
      <4> QED
        BY <1>2, <2>4, <4>1
    <3> QED
      BY <3>1, <3>2
  <2>8. \E k \in DOMAIN seen' : seen'[k] = c.id
    <3>1. Len(seen) \in DOMAIN seen' /\ seen'[Len(seen)] = c.id
      BY <1>2, <2>1, <2>4
    <3> QED
      BY <3>1
  <2> QED
    BY <2>3, <2>4, <2>5, <2>6, <2>7, <2>8
<1> QED
  BY <1>4, <1>5

LEMMA SubmitKeeps ==
  ASSUME TerminalInv, NEW c \in calls, Shell!Submit(c)
  PROVE  TerminalInv'
<1> USE DEF TerminalInv
<1>1. UNCHANGED <<window, windows>>
  BY DEF Shell!Submit
<1>2. c.id \in Nat /\ <<c.id, c.line>> \in Uses
  BY DEF TerminalTyped, Call, Uses
<1>3. \A i \in DOMAIN entered : <<entered[i].id, entered[i].line>> \in Uses
  BY DEF Uses
<1>4. CASE window = 0 \/ Shell!Contains(seen, c.id)
  <2>1. /\ \E ok \in BOOLEAN : Shell!Answer(c, ok) /\ (ok => window # 0 /\ Shell!Contains(seen, c.id))
        /\ UNCHANGED <<seen, entered, forgot>>
    BY <1>4 DEF Shell!Submit
  <2>2. PICK ok \in BOOLEAN : Shell!Answer(c, ok) /\ (ok => window # 0 /\ Shell!Contains(seen, c.id))
    BY <2>1
  <2>3. Paired' /\ Typed'
    BY <1>3, <2>1, <2>2, CallsGone, AnsweredKeeps
  <2>4. TerminalTyped'
    BY <1>1, <2>1, <2>2, CallsGone DEF TerminalTyped
  <2>5. Remembered'
    BY <1>1, <2>1 DEF Remembered, Shell!Given
  <2>6. ok => \E i \in DOMAIN entered : Shell!Given(i) = [window |-> window, line |-> c.line]
    <3> SUFFICES ASSUME ok PROVE \E i \in DOMAIN entered : Shell!Given(i) = [window |-> window, line |-> c.line]
      OBVIOUS
    <3>1. PICK k \in DOMAIN seen : seen[k] = c.id
      <4>1. DOMAIN seen = 1 .. Len(seen)
        BY DEF TerminalTyped
      <4> QED
        BY <2>2, <4>1 DEF Shell!Contains
    <3>2. PICK i \in DOMAIN entered : entered[i].id = c.id /\ entered[i].window = window
      BY <2>2, <3>1 DEF Remembered
    <3>3. entered[i].line = c.line
      BY <1>2, <1>3, <3>2 DEF Paired
    <3> QED
      BY <3>2, <3>3 DEF Shell!Given
  <2>7. \A i \in DOMAIN entered : Shell!Given(i)' = Shell!Given(i)
    BY <2>1 DEF Shell!Given
  <2>8. acked' \subseteq {Shell!Given(i) : i \in DOMAIN entered}
    BY <2>2, <2>6, CallsGone DEF Shell!LinesOnce
  <2>9. Shell!LinesOnce'
    BY <2>1, <2>7, <2>8 DEF Shell!LinesOnce
  <2> QED
    BY <2>3, <2>4, <2>5, <2>9
<1>5. CASE window # 0 /\ ~Shell!Contains(seen, c.id)
  <2>1. Shell!Answer(c, TRUE) /\ Shell!Remembering(c) /\ entered' = Append(entered, Shell!Entry(c))
    BY <1>5 DEF Shell!Submit, Shell!Remembering
  <2>2. \A k \in DOMAIN seen : seen[k] # c.id
    <3>1. DOMAIN seen = 1 .. Len(seen)
      BY DEF TerminalTyped
    <3> QED
      BY <1>5, <3>1 DEF Shell!Contains
  <2>3. Paired' /\ Typed'
    BY <2>1, CallsGone, AnsweredKeeps, Appended
  <2>4. TerminalTyped'
    BY <1>1, <2>1, CallsGone, RememberingIs, Appended DEF TerminalTyped
  <2>5. Shell!LinesOnce'
    BY <1>5, <2>1, <2>2, CallsGone, RememberingIs, EnteredOnce
  <2> DEFINE n == Len(entered) + 1
  <2>6. /\ DOMAIN entered' = DOMAIN entered \cup {n}
        /\ \A i \in DOMAIN entered : entered'[i] = entered[i]
        /\ entered'[n].id = c.id /\ entered'[n].window = window
    BY <2>1, Appended DEF Shell!Entry
  <2> HIDE DEF n
  <2>7. Remembered'
    <3>1. \A i \in DOMAIN entered : Shell!Given(i)' = Shell!Given(i)
      BY <2>6 DEF Shell!Given
    <3>2. \A i \in DOMAIN entered' : entered'[i].window \in 1 .. windows'
      BY <1>1, <1>5, <2>6 DEF Remembered, TerminalTyped
    <3>3. ASSUME NEW i \in DOMAIN entered', entered'[i].window = window
          PROVE  Shell!Given(i)' \in forgot' \/ \E k \in DOMAIN seen' : seen'[k] = entered'[i].id
      <4>1. CASE i = n
        BY <2>1, <2>6, <4>1, RememberingIs
      <4>2. CASE i \in DOMAIN entered
        <5>1. Shell!Given(i) \in forgot \/ \E k \in DOMAIN seen : seen[k] = entered[i].id
          BY <1>5, <2>6, <3>3, <4>2 DEF Remembered
        <5> QED
          BY <2>1, <2>6, <3>1, <3>3, <4>2, <5>1, RememberingIs
      <4> QED
        BY <2>6, <4>1, <4>2
    <3>4. ASSUME NEW k \in DOMAIN seen'
          PROVE  \E i \in DOMAIN entered' : entered'[i].id = seen'[k] /\ entered'[i].window = window
      <4>1. CASE seen'[k] = c.id
        BY <2>6, <4>1
      <4>2. CASE \E l \in DOMAIN seen : seen'[k] = seen[l]
        BY <1>5, <2>6, <4>2 DEF Remembered
      <4> QED
        BY <2>1, <4>1, <4>2, RememberingIs
    <3> QED
      BY <1>1, <3>2, <3>3, <3>4 DEF Remembered
  <2> QED
    BY <2>3, <2>4, <2>5, <2>7
<1> QED
  BY <1>4, <1>5

\* A paste that failed is answered with an error, and what the window took of it is
\* not remembered.
LEMMA SubmitFailsKeeps ==
  ASSUME TerminalInv, NEW c \in calls, Shell!SubmitFails(c)
  PROVE  TerminalInv'
<1> USE DEF TerminalInv
<1>1. /\ window # 0 /\ Shell!Answer(c, FALSE) /\ UNCHANGED <<window, windows, seen>>
      /\ \A k \in DOMAIN seen : seen[k] # c.id
  <2>1. ~Shell!Contains(seen, c.id) /\ DOMAIN seen = 1 .. Len(seen)
    BY DEF Shell!SubmitFails, TerminalTyped
  <2>2. \A k \in DOMAIN seen : seen[k] # c.id
    BY <2>1 DEF Shell!Contains
  <2> QED
    BY <2>2 DEF Shell!SubmitFails, Shell!AfterFailedPaste, Shell!Unpasted
<1>2. acked' = acked
  BY <1>1, CallsGone
<1>3. \A i \in DOMAIN entered : <<entered[i].id, entered[i].line>> \in Uses
  BY DEF Uses
<1>4. CASE UNCHANGED <<entered, forgot>>
  <2>1. Paired' /\ Typed'
    BY <1>1, <1>3, <1>4, CallsGone, AnsweredKeeps
  <2>2. TerminalTyped'
    BY <1>1, <1>4, CallsGone DEF TerminalTyped
  <2>3. Remembered' /\ Shell!LinesOnce'
    BY <1>1, <1>2, <1>4 DEF Remembered, Shell!LinesOnce, Shell!Given
  <2> QED
    BY <2>1, <2>2, <2>3
<1>5. CASE /\ entered' = Append(entered, Shell!Entry(c))
           /\ forgot' = forgot \cup {[window |-> window, line |-> c.line]}
  <2>1. PICK n : n = Len(entered) + 1
    OBVIOUS
  <2>2. /\ DOMAIN entered' = DOMAIN entered \cup {n}
        /\ \A i \in DOMAIN entered : entered'[i] = entered[i]
        /\ entered'[n].id = c.id /\ entered'[n].window = window /\ entered'[n].line = c.line
    BY <1>5, <2>1, Appended DEF Shell!Entry
  <2>3. Paired' /\ Typed'
    BY <1>1, <1>5, CallsGone, AnsweredKeeps, Appended
  <2>4. TerminalTyped'
    BY <1>1, <1>5, CallsGone, Appended DEF TerminalTyped
  <2>5. Shell!LinesOnce'
    BY <1>1, <1>2, <1>5, EnteredOnce
  <2>6. Remembered'
    <3>1. \A i \in DOMAIN entered : Shell!Given(i)' = Shell!Given(i)
      BY <2>2 DEF Shell!Given
    <3>2. Shell!Given(n)' \in forgot'
      BY <1>5, <2>2 DEF Shell!Given
    <3>3. \A i \in DOMAIN entered' : entered'[i].window \in 1 .. windows
      BY <1>1, <2>2 DEF Remembered, TerminalTyped
    <3> QED
      BY <1>1, <1>5, <2>2, <3>1, <3>2, <3>3 DEF Remembered
  <2> QED
    BY <2>3, <2>4, <2>5, <2>6
<1> QED
  BY <1>4, <1>5 DEF Shell!SubmitFails

LEMMA OpenKeeps ==
  ASSUME TerminalInv, Shell!Open
  PROVE  TerminalInv'
<1> USE DEF TerminalInv
<1>1. /\ seen' = <<>> /\ windows' = windows + 1 /\ window' \in {0, windows + 1}
      /\ UNCHANGED <<terminalBox, rid, lines, minted, calls, acked, entered, forgot>>
  BY DEF Shell!Open, Shell!OpenSeen, Shell!Forgotten, Shell!page, Shell!wire
<1>2. TerminalTyped'
  BY <1>1 DEF TerminalTyped
<1>3. Uses' = Uses
  BY <1>1 DEF Uses
<1>4. Paired' /\ Typed' /\ Shell!LinesOnce'
  BY <1>1, <1>3 DEF Paired, Typed, Shell!LinesOnce, Shell!Given
<1>5. Remembered'
  <2>1. DOMAIN seen' = {}
    BY <1>1
  <2>2. \A i \in DOMAIN entered : entered[i].window \in 1 .. windows' /\ entered[i].window # windows + 1
    BY <1>1 DEF Remembered, TerminalTyped
  <2> QED
    BY <1>1, <2>1, <2>2 DEF Remembered
<1> QED
  BY <1>2, <1>4, <1>5

LEMMA ExitKeeps ==
  ASSUME TerminalInv, Shell!Exit
  PROVE  TerminalInv'
<1> USE DEF TerminalInv
<1>1. /\ window' = 0
      /\ UNCHANGED <<windows, seen, entered, forgot, terminalBox, rid, lines, minted, calls, acked>>
  BY DEF Shell!Exit, Shell!page, Shell!wire
<1>2. Uses' = Uses
  BY <1>1 DEF Uses
<1> QED
  BY <1>1, <1>2 DEF TerminalTyped, Paired, Typed, Remembered, Shell!LinesOnce, Shell!Given

\* The ids are dropped, and with them what keeps their lines from a second time.
LEMMA DroppedKeeps ==
  ASSUME TerminalInv, seen' = <<>>, forgot' = forgot \cup Shell!LinesOf(Shell!Range(seen)),
         window' \in {0, window}, calls' \subseteq calls,
         UNCHANGED <<windows, entered, terminalBox, rid, lines, minted, acked>>
  PROVE  TerminalInv'
<1> USE DEF TerminalInv
<1>1. \A i \in DOMAIN entered : <<entered[i].id, entered[i].line>> \in Uses
  BY DEF Uses
<1>2. Paired' /\ Typed'
  BY <1>1, AnsweredKeeps DEF TerminalTyped
<1>3. TerminalTyped'
  BY DEF TerminalTyped
<1>4. DOMAIN seen' = {}
  OBVIOUS
<1>5. \A i \in DOMAIN entered : window # 0 /\ entered[i].window = window => Shell!Given(i) \in forgot'
  <2> SUFFICES ASSUME NEW i \in DOMAIN entered, window # 0, entered[i].window = window,
                      Shell!Given(i) \notin forgot
               PROVE  Shell!Given(i) \in Shell!LinesOf(Shell!Range(seen))
    OBVIOUS
  <2>1. entered[i] \in Shell!Range(entered)
    BY DEF Shell!Range
  <2>2. entered[i].id \in Shell!Range(seen)
    BY DEF Remembered, Shell!Range
  <2> QED
    BY <2>1, <2>2 DEF Shell!LinesOf, Shell!Given
<1>6. Remembered'
  BY <1>4, <1>5 DEF Remembered, Shell!Given
<1>7. Shell!LinesOnce'
  BY DEF Shell!LinesOnce, Shell!Given
<1> QED
  BY <1>2, <1>3, <1>6, <1>7

LEMMA TerminalStep ==
  TerminalInv /\ [Shell!Next]_(Shell!tvars) => TerminalInv'
<1> SUFFICES ASSUME TerminalInv, [Shell!Next]_(Shell!tvars) PROVE TerminalInv'
  OBVIOUS
<1>1. CASE Shell!Close
  BY <1>1, DroppedKeeps DEF Shell!Close, Shell!page, Shell!wire
<1>2. CASE Shell!Restart
  BY <1>2, DroppedKeeps DEF Shell!Restart, Shell!page
<1>3. CASE \E t \in Tabs : Shell!Type(t) \/ Shell!SubmitTerminal(t)
  BY <1>3, TypeKeeps, SubmitTerminalKeeps
<1>4. CASE \E c \in calls : Shell!GiveUp(c) \/ Shell!Submit(c) \/ Shell!SubmitFails(c)
  BY <1>4, GiveUpKeeps, SubmitKeeps, SubmitFailsKeeps
<1>5. CASE Shell!Open \/ Shell!Exit
  BY <1>5, OpenKeeps, ExitKeeps
<1>6. CASE UNCHANGED Shell!tvars
  <2>1. Uses' = Uses
    BY <1>6 DEF Shell!tvars, Shell!terminal, Shell!page, Shell!wire, Uses
  <2> QED
    BY <1>6, <2>1
       DEF Shell!tvars, Shell!terminal, Shell!page, Shell!wire, TerminalInv, TerminalTyped,
         Paired, Typed, Remembered, Shell!LinesOnce, Shell!Given
<1> QED
  BY <1>1, <1>2, <1>3, <1>4, <1>5, <1>6 DEF Shell!Next

(***************************************************************************)
(* PluginStream: its proof.                                                *)
(***************************************************************************)
LEMMA PluginInit == Plugins!Init => PluginInv
<1> SUFFICES ASSUME Plugins!Init PROVE PluginInv
  OBVIOUS
<1>1. events = <<>> /\ DOMAIN events = {} /\ believed = {} /\ conn = [usher |-> 0, steps |-> 0]
  BY DEF Plugins!Init, Plugins!Apart
<1>2. PluginTyped
  BY <1>1 DEF Plugins!Init, PluginTyped
<1>3. Alone /\ Subscribed /\ Informed
  BY <1>1 DEF Plugins!Init, Alone, Subscribed, Informed
<1> QED
  BY <1>2, <1>3 DEF PluginInv

\* How far a stream's opening has come.
LEMMA OpeningIs ==
  ASSUME PluginTyped
  PROVE  /\ Len(Plugins!Opening) = 2
         /\ Plugins!Opening[1] = "subscribe" /\ Plugins!Opening[2] = "list"
         /\ \A u \in Ushers : Plugins!HasSubscribed(u) <=> conn.usher = u /\ conn.steps # 0
         /\ Plugins!Open <=> conn.usher # 0 /\ conn.steps = 2
<1>1. conn.steps \in 0 .. 2
  BY DEF PluginTyped
<1>2. Len(Plugins!Opening) = 2 /\ Plugins!Opening[1] = "subscribe" /\ Plugins!Opening[2] = "list"
  BY DEF Plugins!Opening, Plugins!ThenList
<1>3. (\E i \in 1 .. conn.steps : Plugins!Opening[i] = "subscribe") <=> conn.steps # 0
  BY <1>1, <1>2
<1> QED
  BY <1>2, <1>3 DEF Plugins!HasSubscribed, Plugins!Open

LEMMA AloneKept ==
  ASSUME PluginInv, NEW u \in Ushers,
         \/ Plugins!Check(u) \/ Plugins!Bind(u) \/ Plugins!Stop(u) \/ Plugins!Unlink(u)
         \/ Plugins!Crash(u)
  PROVE  /\ Alone' /\ file' \in Ushers \cup {0}
         /\ pluginSt' \in [Ushers -> {"new", "checked", "refused", "serving", "stopping", "gone"}]
<1> USE DEF PluginInv, PluginTyped, Plugins!About
<1>1. CASE Plugins!Check(u)
  <2>1. \A v \in Ushers : pluginSt[v] = "serving" /\ v \notin raced => pluginSt'[u] = "refused"
    BY <1>1, DeliveriesAssumption DEF Plugins!Check, Alone, Plugins!InUse, Plugins!Answers
  <2> QED
    BY <1>1, <2>1 DEF Plugins!Check, Alone
<1>2. CASE Plugins!Bind(u)
  BY <1>2 DEF Plugins!Bind, Alone
<1>3. CASE Plugins!Stop(u)
  BY <1>3 DEF Plugins!Stop, Alone
<1>4. CASE Plugins!Unlink(u)
  BY <1>4 DEF Plugins!Unlink, Plugins!Goes, Alone
<1>5. CASE Plugins!Crash(u)
  BY <1>5 DEF Plugins!Crash, Plugins!Goes, Alone
<1> QED
  BY <1>1, <1>2, <1>3, <1>4, <1>5

\* What becomes of an event the stream did not write.
LEMMA Unread ==
  ASSUME PluginInv, NEW s, Pending(s)
  PROVE  s \in turn[conn.usher] \/ s \in Plugins!Ended(events)
BY DEF PluginInv, Subscribed, Pending, Plugins!Ended

\* The stream's usher is one that has turns, or there is no stream.
LEMMA Streaming ==
  ASSUME PluginInv
  PROVE  /\ conn.usher \in Ushers \/ events = <<>>
         /\ conn.steps # 0 => conn.usher \in Ushers
         /\ DOMAIN <<>> = {}
BY DEF PluginInv, PluginTyped, Subscribed

\* A connection ends.
LEMMA DisconnectedKeeps ==
  ASSUME PluginInv, Plugins!Disconnected, turn' \in [Ushers -> SUBSET Sessions],
         UNCHANGED believed,
         \A s \in believed : (\E u \in Ushers : s \in turn[u]) \/ s \in missed \/ Pending(s) =>
            (\E u \in Ushers : s \in turn'[u]) \/ s \in missed'
  PROVE  Subscribed' /\ Informed' /\ conn' \in [usher : Ushers \cup {0}, steps : 0 .. 2]
         /\ events' \in Seq(Told)
<1>1. conn' = [usher |-> 0, steps |-> 0] /\ events' = <<>> /\ DOMAIN events' = {}
  BY DEF Plugins!Disconnected, Plugins!Apart
<1>2. Subscribed'
  BY <1>1 DEF Subscribed
<1>3. Informed'
  BY <1>1 DEF PluginInv, Informed
<1> QED
  BY <1>1, <1>2, <1>3

\* A process goes, with its turns and the stream it served.
LEMMA GoesKeeps ==
  ASSUME PluginInv, NEW u \in Ushers, Plugins!Goes(u), UNCHANGED believed
  PROVE  Subscribed' /\ Informed' /\ conn' \in [usher : Ushers \cup {0}, steps : 0 .. 2]
         /\ events' \in Seq(Told) /\ turn' \in [Ushers -> SUBSET Sessions]
<1> USE DEF PluginInv
<1>1. /\ turn' = [turn EXCEPT ![u] = {}] /\ turn' \in [Ushers -> SUBSET Sessions]
      /\ \A v \in Ushers : v # u => turn'[v] = turn[v]
      /\ missed' = missed \cup turn[u] \cup (IF conn.usher = u THEN Plugins!Ended(events) ELSE {})
  BY DEF Plugins!Goes, PluginTyped
<1>2. CASE conn.usher = u
  <2>1. Plugins!Disconnected
    BY <1>2 DEF Plugins!Goes
  <2>2. \A s \in believed : (\E v \in Ushers : s \in turn[v]) \/ s \in missed \/ Pending(s) =>
            (\E v \in Ushers : s \in turn'[v]) \/ s \in missed'
    BY <1>1, <1>2, Unread
  <2> QED
    BY <1>1, <2>1, <2>2, DisconnectedKeeps
<1>3. CASE conn.usher # u
  <2>1. UNCHANGED <<conn, events>>
    BY <1>3 DEF Plugins!Goes, Plugins!stream
  <2>2. conn.usher \in Ushers => turn'[conn.usher] = turn[conn.usher]
    BY <1>1, <1>3
  <2>3. Subscribed'
    BY <2>1, <2>2, Streaming DEF Subscribed
  <2>4. \A s : Pending(s)' <=> Pending(s)
    BY <2>1 DEF Pending
  <2>5. Informed'
    BY <1>1, <2>1, <2>2, <2>4, Streaming DEF Informed
  <2> QED
    BY <1>1, <2>1, <2>3, <2>5 DEF PluginTyped
<1> QED
  BY <1>2, <1>3

LEMMA SocketKeeps ==
  ASSUME PluginInv, NEW u \in Ushers,
         \/ Plugins!Check(u) \/ Plugins!Bind(u) \/ Plugins!Stop(u) \/ Plugins!Unlink(u)
         \/ Plugins!Crash(u)
  PROVE  PluginInv'
<1>1. CASE Plugins!Unlink(u) \/ Plugins!Crash(u)
  <2>1. Plugins!Goes(u) /\ UNCHANGED believed
    BY <1>1 DEF Plugins!Unlink, Plugins!Crash
  <2> QED
    BY <1>1, <2>1, AloneKept, GoesKeeps DEF PluginInv, PluginTyped
<1>2. CASE Plugins!Check(u) \/ Plugins!Bind(u) \/ Plugins!Stop(u)
  <2>1. UNCHANGED <<turn, conn, events, believed, missed>>
    BY <1>2
       DEF Plugins!Check, Plugins!Bind, Plugins!Stop, Plugins!router, Plugins!stream,
         Plugins!plugin
  <2> QED
    BY <1>2, <2>1, AloneKept DEF PluginInv, PluginTyped, Subscribed, Informed, Pending
<1> QED
  BY <1>1, <1>2

\* An event behind the others.
LEMMA Published ==
  ASSUME PluginInv, NEW e \in Told, events' = Append(events, e)
  PROVE  /\ events' \in Seq(Told) /\ Len(events) \in Nat /\ DOMAIN events = 1 .. Len(events)
         /\ DOMAIN events' = DOMAIN events \cup {Len(events) + 1}
         /\ \A i \in DOMAIN events : events'[i] = events[i]
         /\ events'[Len(events) + 1] = e
<1>1. events \in Seq(Told)
  BY DEF PluginInv, PluginTyped
<1> HIDE DEF Told
<1> QED
  BY <1>1

\* A turn begins or ends, and who is subscribed has the event of it.
LEMMA TurnKeeps ==
  ASSUME PluginInv, NEW u \in Ushers, NEW s \in Sessions, Plugins!Begin(u, s) \/ Plugins!End(u, s)
  PROVE  PluginInv'
<1> USE DEF PluginInv
<1> DEFINE runs == Plugins!Begin(u, s)
           e == [type |-> IF runs THEN "started" ELSE "ended", session |-> s]
<1>1. /\ UNCHANGED <<file, pluginSt, raced, conn, believed>>
      /\ turn' = [turn EXCEPT ![u] = IF runs THEN @ \cup {s} ELSE @ \ {s}]
      /\ events' = IF Plugins!HasSubscribed(u) THEN Append(events, e) ELSE events
      /\ missed' = IF runs \/ Plugins!HasSubscribed(u) THEN missed ELSE missed \cup {s}
  BY DEF Plugins!Begin, Plugins!End, Plugins!socket, Plugins!plugin, Plugins!Publish
<1> HIDE DEF runs
<1>2. /\ turn' \in [Ushers -> SUBSET Sessions] /\ \A v \in Ushers : v # u => turn'[v] = turn[v]
      /\ turn'[u] = IF runs THEN turn[u] \cup {s} ELSE turn[u] \ {s}
  BY <1>1 DEF PluginTyped
<1>3. Alone'
  BY <1>1 DEF Alone, Plugins!About
<1>4. CASE conn.usher = u /\ conn.steps # 0
  <2>1. Plugins!HasSubscribed(u)
    BY <1>4, OpeningIs
  <2>2. PICK n : n = Len(events) + 1
    OBVIOUS
  <2>3. e \in Told /\ e.session = s /\ (e.type = "started" <=> runs) /\ (e.type = "ended" <=> ~runs)
    BY DEF Told
  <2> HIDE DEF e
  <2>4. /\ events' \in Seq(Told) /\ Len(events) \in Nat /\ DOMAIN events = 1 .. Len(events)
        /\ DOMAIN events' = DOMAIN events \cup {n}
        /\ \A i \in DOMAIN events : events'[i] = events[i]
        /\ events'[n] = e
    BY <1>1, <2>1, <2>2, <2>3, Published
  <2>5. n \in Nat /\ n \notin DOMAIN events /\ \A i \in DOMAIN events : i \in Nat /\ i < n
    BY <2>2, <2>4
  <2>6. PluginTyped'
    BY <1>1, <1>2, <2>4 DEF PluginTyped
  <2>7. Subscribed'
    <3>1. conn'.steps # 0 /\ conn'.usher = u /\ u # 0
      BY <1>1, <1>4, DeliveriesAssumption
    <3>2. ASSUME NEW i \in DOMAIN events',
                 \A j \in DOMAIN events' : j > i => events'[j].session # events'[i].session
          PROVE  events'[i].type = "started" <=> events'[i].session \in turn'[u]
      <4>1. CASE i = n
        BY <1>2, <2>3, <2>4, <4>1
      <4>2. CASE i \in DOMAIN events
        <5>1. events[i].session # s
          BY <2>3, <2>4, <2>5, <3>2, <4>2
        <5>2. \A j \in DOMAIN events : j > i => events[j].session # events[i].session
          BY <2>4, <3>2, <4>2
        <5>3. events[i].type = "started" <=> events[i].session \in turn[u]
          BY <1>4, <4>2, <5>2 DEF Subscribed
        <5> QED
          BY <1>2, <2>4, <4>2, <5>1, <5>3
      <4> QED
        BY <2>4, <4>1, <4>2
    <3>3. ASSUME NEW i \in DOMAIN events'
          PROVE  \/ events'[i].session \in turn'[u]
                 \/ \E j \in DOMAIN events' :
                      j >= i /\ events'[j].session = events'[i].session /\ events'[j].type = "ended"
      <4>1. CASE events'[i].session = s
        <5>1. n >= i /\ n \in DOMAIN events'
          BY <2>4, <2>5
        <5> QED
          BY <1>2, <2>3, <2>4, <4>1, <5>1
      <4>2. CASE events'[i].session # s
        <5>1. i \in DOMAIN events /\ events'[i] = events[i]
          BY <2>3, <2>4, <4>2
        <5>2. \/ events[i].session \in turn[u]
              \/ \E j \in DOMAIN events :
                   j >= i /\ events[j].session = events[i].session /\ events[j].type = "ended"
          BY <1>4, <5>1 DEF Subscribed
        <5> QED
          BY <1>2, <2>4, <4>2, <5>1, <5>2
      <4> QED
        BY <4>1, <4>2
    <3> QED
      BY <3>1, <3>2, <3>3 DEF Subscribed
  <2>8. Informed'
    <3>1. Pending(s)'
      BY <2>3, <2>4 DEF Pending
    <3>2. \A r : Pending(r) => Pending(r)'
      BY <2>4 DEF Pending
    <3>3. missed' = missed
      BY <1>1, <2>1
    <3> QED
      BY <1>1, <1>2, <1>4, <3>1, <3>2, <3>3 DEF Informed
  <2> QED
    BY <1>3, <2>6, <2>7, <2>8
<1>5. CASE ~(conn.usher = u /\ conn.steps # 0)
  <2>1. ~Plugins!HasSubscribed(u)
    BY <1>5, OpeningIs
  <2>2. events' = events /\ missed' = IF runs THEN missed ELSE missed \cup {s}
    BY <1>1, <2>1
  <2>3. \A r : Pending(r)' <=> Pending(r)
    BY <2>2 DEF Pending
  <2>4. PluginTyped'
    BY <1>1, <1>2, <2>2 DEF PluginTyped
  <2>5. conn.steps # 0 => conn.usher \in Ushers /\ turn'[conn.usher] = turn[conn.usher]
    BY <1>2, <1>5, Streaming
  <2>6. Subscribed'
    <3>1. conn.steps = 0 => DOMAIN events = {}
      BY DEF Subscribed
    <3> QED
      BY <1>1, <2>2, <2>5, <3>1 DEF Subscribed
  <2>7. Informed'
    BY <1>1, <1>2, <2>2, <2>3, <2>5 DEF Informed
  <2> QED
    BY <1>3, <2>4, <2>6, <2>7
<1> QED
  BY <1>4, <1>5

LEMMA OpenStreamKeeps ==
  ASSUME PluginInv, Plugins!OpenStream
  PROVE  PluginInv'
<1> USE DEF PluginInv
<1> DEFINE step == conn.steps + 1
<1>1. /\ conn.usher # 0 /\ conn.steps < 2 /\ conn' = [conn EXCEPT !.steps = conn.steps + 1]
      /\ UNCHANGED <<file, pluginSt, raced, turn, events>>
  BY OpeningIs DEF Plugins!OpenStream, Plugins!socket, Plugins!router
<1>2. /\ conn.steps \in 0 .. 2 /\ conn.usher \in Ushers /\ conn'.usher = conn.usher
      /\ conn'.steps = conn.steps + 1 /\ conn' \in [usher : Ushers \cup {0}, steps : 0 .. 2]
  BY <1>1 DEF PluginTyped
<1>3. Alone'
  BY <1>1 DEF Alone, Plugins!About
<1>4. Subscribed'
  BY <1>1, <1>2 DEF Subscribed
<1>5. \A s : Pending(s)' <=> Pending(s)
  BY <1>1 DEF Pending
<1>6. CASE conn.steps = 0
  <2>1. UNCHANGED <<believed, missed>>
    BY <1>2, <1>6, OpeningIs DEF Plugins!OpenStream, Plugins!plugin
  <2>2. Informed'
    BY <1>1, <1>2, <1>5, <1>6, <2>1 DEF Informed
  <2> QED
    BY <1>1, <1>2, <1>3, <1>4, <2>1, <2>2 DEF PluginTyped
<1>7. CASE conn.steps = 1
  <2>1. believed' = believed \cup turn[conn.usher] /\ missed' = missed \ turn[conn.usher]
    BY <1>2, <1>7, OpeningIs DEF Plugins!OpenStream
  <2>2. Informed'
    BY <1>1, <1>2, <1>5, <2>1 DEF Informed
  <2>3. PluginTyped'
    BY <1>1, <1>2, <2>1 DEF PluginTyped
  <2> QED
    BY <1>3, <1>4, <2>2, <2>3
<1> QED
  BY <1>1, <1>2, <1>6, <1>7

\* The client reads an event; only the last one about its session is the whole truth.
LEMMA ForwardKeeps ==
  ASSUME PluginInv, Plugins!Forward
  PROVE  PluginInv'
<1> USE DEF PluginInv
<1>0. PICK s : s = Head(events).session
  OBVIOUS
<1>1. /\ conn.usher # 0 /\ conn.steps = 2 /\ events # <<>> /\ events' = Tail(events)
      /\ believed' = IF Head(events).type = "started" THEN believed \cup {s} ELSE believed \ {s}
      /\ missed' = missed \ {s}
      /\ UNCHANGED <<file, pluginSt, raced, turn, conn>>
  BY <1>0, OpeningIs DEF Plugins!Forward, Plugins!socket, Plugins!router
<1>2. /\ events' \in Seq(Told) /\ Len(events) \in Nat \ {0} /\ DOMAIN events = 1 .. Len(events)
      /\ DOMAIN events' = 1 .. Len(events) - 1 /\ Head(events) = events[1]
      /\ \A i \in DOMAIN events' : events'[i] = events[i + 1]
  <2>1. events \in Seq(Told)
    BY DEF PluginTyped
  <2> HIDE DEF Told
  <2>2. /\ Tail(events) \in Seq(Told) /\ Len(Tail(events)) = Len(events) - 1
        /\ \A i \in 1 .. Len(Tail(events)) : Tail(events)[i] = events[i + 1]
    BY <1>1, <2>1, HeadTailProperties
  <2>3. Len(events) \in Nat /\ Len(events) # 0 /\ DOMAIN events = 1 .. Len(events)
    BY <1>1, <2>1
  <2> QED
    BY <1>1, <2>1, <2>2, <2>3
<1>3. s \in Sessions /\ s = events[1].session /\ 1 \in DOMAIN events
  <2>1. events \in Seq(Told) /\ 1 \in 1 .. Len(events)
    BY <1>2 DEF PluginTyped
  <2>2. events[1] \in Told
    BY <2>1, ElementOfSeq
  <2> QED
    BY <1>0, <1>2, <2>1, <2>2 DEF Told
<1>4. \A i \in DOMAIN events' : i + 1 \in DOMAIN events /\ events'[i] = events[i + 1] /\ i \in Nat
  BY <1>2
<1>5. ASSUME NEW j \in DOMAIN events, j # 1
      PROVE  j - 1 \in DOMAIN events' /\ events'[j - 1] = events[j] /\ j \in Nat
  <2>1. j \in Nat /\ j - 1 \in DOMAIN events' /\ j - 1 + 1 = j
    BY <1>2, <1>5
  <2> QED
    BY <1>2, <2>1
<1>6. PluginTyped'
  BY <1>1, <1>2, <1>3 DEF PluginTyped
<1>7. Alone'
  BY <1>1 DEF Alone, Plugins!About
<1>8. \A r : Pending(r) => r = s \/ Pending(r)'
  BY <1>3, <1>5 DEF Pending
<1>9. Pending(s)' \/ (events[1].type = "started" <=> s \in turn[conn.usher])
  <2> SUFFICES ASSUME ~Pending(s)' PROVE events[1].type = "started" <=> s \in turn[conn.usher]
    OBVIOUS
  <2>1. \A j \in DOMAIN events : j > 1 => events[j].session # s
    BY <1>2, <1>5 DEF Pending
  <2> QED
    BY <1>3, <2>1 DEF Subscribed
<1>10. conn.usher \in Ushers
  BY <1>1, Streaming
<1>11. Informed'
  BY <1>1, <1>2, <1>8, <1>9, <1>10 DEF Informed
<1>12. Subscribed'
  <2>1. conn'.usher # 0 /\ conn'.steps # 0
    BY <1>1
  <2>2. ASSUME NEW i \in DOMAIN events',
               \A j \in DOMAIN events' : j > i => events'[j].session # events'[i].session
        PROVE  events'[i].type = "started" <=> events'[i].session \in turn[conn.usher]
    <3>1. i + 1 \in DOMAIN events /\ events'[i] = events[i + 1] /\ i \in Nat
      BY <1>4
    <3>2. ASSUME NEW j \in DOMAIN events, j > i + 1
          PROVE  events[j].session # events[i + 1].session
      <4>1. j # 1 /\ j \in Nat
        BY <1>2, <3>1, <3>2
      <4>2. j - 1 \in DOMAIN events' /\ events'[j - 1] = events[j]
        BY <1>5, <4>1
      <4>3. j - 1 > i
        BY <3>1, <3>2, <4>1
      <4> QED
        BY <2>2, <3>1, <4>2, <4>3
    <3> QED
      BY <3>1, <3>2 DEF Subscribed
  <2>3. ASSUME NEW i \in DOMAIN events'
        PROVE  \/ events'[i].session \in turn[conn.usher]
               \/ \E j \in DOMAIN events' :
                    j >= i /\ events'[j].session = events'[i].session /\ events'[j].type = "ended"
    <3>1. i + 1 \in DOMAIN events /\ events'[i] = events[i + 1] /\ i \in Nat
      BY <1>4
    <3>2. CASE events[i + 1].session \in turn[conn.usher]
      BY <3>1, <3>2
    <3>3. ASSUME NEW j \in DOMAIN events, j >= i + 1,
                 events[j].session = events[i + 1].session, events[j].type = "ended"
          PROVE  \E k \in DOMAIN events' :
                    k >= i /\ events'[k].session = events'[i].session /\ events'[k].type = "ended"
      <4>1. j \in Nat /\ (j = 1 => i = 0)
        BY <1>2, <3>1, <3>3
      <4>2. j # 1
        BY <1>2, <4>1
      <4>3. j - 1 \in DOMAIN events' /\ events'[j - 1] = events[j] /\ j - 1 >= i
        BY <1>5, <3>1, <3>3, <4>1, <4>2
      <4> QED
        BY <3>1, <3>3, <4>3
    <3> QED
      BY <3>1, <3>2, <3>3 DEF Subscribed
  <2> QED
    BY <1>1, <2>1, <2>2, <2>3 DEF Subscribed
<1> QED
  BY <1>6, <1>7, <1>11, <1>12

LEMMA PluginStep ==
  PluginInv /\ [Plugins!Next]_(Plugins!pvars) => PluginInv'
<1> SUFFICES ASSUME PluginInv, [Plugins!Next]_(Plugins!pvars) PROVE PluginInv'
  OBVIOUS
<1>1. CASE Plugins!Connect
  <2>1. /\ UNCHANGED <<file, pluginSt, raced, turn, events, believed, missed>>
        /\ conn = [usher |-> 0, steps |-> 0] /\ conn' = [usher |-> file, steps |-> 0]
    BY <1>1
       DEF Plugins!Connect, Plugins!socket, Plugins!router, Plugins!plugin, Plugins!Apart
  <2>2. events = <<>> /\ DOMAIN events = {} /\ conn'.steps = 0
    BY <2>1 DEF PluginInv, Subscribed
  <2>3. PluginTyped'
    BY <2>1 DEF PluginInv, PluginTyped
  <2>4. Alone' /\ Subscribed' /\ Informed'
    BY <2>1, <2>2 DEF PluginInv, Alone, Plugins!About, Subscribed, Informed, Pending
  <2> QED
    BY <2>3, <2>4 DEF PluginInv
<1>2. CASE Plugins!Drop
  <2>1. /\ UNCHANGED <<file, pluginSt, raced, turn, believed>> /\ Plugins!Disconnected
        /\ missed' = missed \cup Plugins!Ended(events)
    BY <1>2 DEF Plugins!Drop, Plugins!socket, Plugins!router
  <2>2. \A s \in believed : (\E u \in Ushers : s \in turn[u]) \/ s \in missed \/ Pending(s) =>
            (\E u \in Ushers : s \in turn'[u]) \/ s \in missed'
    <3>1. \A s : Pending(s) => conn.usher \in Ushers
      BY Streaming DEF Pending
    <3> QED
      BY <2>1, <3>1, Unread
  <2>3. turn' \in [Ushers -> SUBSET Sessions]
    BY <2>1 DEF PluginInv, PluginTyped
  <2> QED
    BY <2>1, <2>2, <2>3, DisconnectedKeeps DEF PluginInv, PluginTyped, Alone, Plugins!About
<1>3. CASE UNCHANGED Plugins!pvars
  BY <1>3
     DEF Plugins!pvars, Plugins!socket, Plugins!router, Plugins!stream, Plugins!plugin,
       PluginInv, PluginTyped, Alone, Plugins!About, Subscribed, Informed, Pending
<1> QED
  BY <1>1, <1>2, <1>3, SocketKeeps, TurnKeeps, OpenStreamKeeps, ForwardKeeps
     DEF Plugins!Next

\* A plugin with a quiet stream knows what runs.
LEMMA QuietKnows == PluginInv => Plugins!KeepsUp
<1> SUFFICES ASSUME PluginInv PROVE Plugins!KeepsUp
  OBVIOUS
<1> USE DEF PluginInv
<1>1. \A u \in Ushers : pluginSt[u] = "serving" /\ u \notin raced => file = u
  BY DEF Alone
<1>2. ASSUME Plugins!Open, events = <<>>
      PROVE  /\ turn[conn.usher] \subseteq believed
             /\ believed \ UNION {turn[u] : u \in Ushers} \subseteq missed
  <2>1. conn.steps = 2 /\ \A s : ~Pending(s)
    BY <1>2, OpeningIs, Streaming DEF Pending
  <2> QED
    BY <2>1 DEF Informed
<1> QED
  BY <1>1, <1>2 DEF Plugins!KeepsUp

(***************************************************************************)
(* Push: its proof.                                                        *)
(***************************************************************************)
LEMMA PushInit == Notices!Init => PushInv
<1> SUFFICES ASSUME Notices!Init PROVE PushInv
  OBVIOUS
<1>1. ended = <<>> /\ pending = <<>> /\ got = <<>> /\ DOMAIN <<>> = {}
  BY DEF Notices!Init
<1>2. PushTyped
  BY DEF Notices!Init, PushTyped
<1>3. SentAfter
  BY <1>1 DEF Notices!Init, SentAfter, Queued, In, Distinct, Notices!IsInjective
<1>4. Due /\ Saved
  BY DEF Notices!Init, Due, Saved
<1> QED
  BY <1>2, <1>3, <1>4 DEF PushInv, Notices!Init

\* An event behind a queue.
LEMMA Joined ==
  ASSUME NEW q \in Seq(Event), NEW e \in Event
  PROVE  /\ Append(q, e) \in Seq(Event)
         /\ \A no : In(Append(q, e), no) <=> In(q, no) \/ no = e.no
         /\ Distinct(q) /\ ~In(q, e.no) => Distinct(Append(q, e))
<1> HIDE DEF Event
<1>1. /\ Append(q, e) \in Seq(Event)
      /\ DOMAIN Append(q, e) = DOMAIN q \cup {Len(q) + 1}
      /\ \A i \in DOMAIN q : Append(q, e)[i] = q[i]
      /\ Append(q, e)[Len(q) + 1] = e
  OBVIOUS
<1> DEFINE r == Append(q, e)
           n == Len(q) + 1
<1>2. DOMAIN r = DOMAIN q \cup {n} /\ r[n] = e /\ \A i \in DOMAIN q : r[i] = q[i]
  BY <1>1
<1> HIDE DEF r, n
<1>3. \A no : In(r, no) <=> In(q, no) \/ no = e.no
  BY <1>2 DEF In
<1>4. Distinct(q) /\ ~In(q, e.no) => Distinct(r)
  BY <1>2 DEF In, Distinct
<1> QED
  BY <1>1, <1>3, <1>4 DEF r

\* A queue without its first event.
LEMMA Left ==
  ASSUME NEW q \in Seq(Event), q # <<>>, Distinct(q)
  PROVE  /\ Tail(q) \in Seq(Event) /\ Head(q) \in Event /\ In(q, Head(q).no)
         /\ \A no : In(Tail(q), no) <=> In(q, no) /\ no # Head(q).no
         /\ Distinct(Tail(q))
<1> HIDE DEF Event
<1>1. /\ Tail(q) \in Seq(Event) /\ Len(Tail(q)) = Len(q) - 1
      /\ \A i \in 1 .. Len(Tail(q)) : Tail(q)[i] = q[i + 1]
      /\ Head(q) \in Event
  BY HeadTailProperties
<1>2. /\ Len(q) \in Nat \ {0} /\ DOMAIN q = 1 .. Len(q) /\ Head(q) = q[1]
      /\ DOMAIN Tail(q) = 1 .. Len(q) - 1
  BY <1>1
<1> DEFINE r == Tail(q)
           h == Head(q)
<1>3. \A i \in DOMAIN r : i \in Nat /\ i + 1 \in DOMAIN q /\ i + 1 # 1 /\ r[i] = q[i + 1]
  BY <1>1, <1>2
<1>4. ASSUME NEW j \in DOMAIN q, j # 1
      PROVE  j - 1 \in DOMAIN r /\ r[j - 1] = q[j]
  <2>1. j - 1 \in 1 .. Len(q) - 1 /\ j - 1 + 1 = j
    BY <1>2, <1>4
  <2> QED
    BY <1>1, <1>2, <2>1
<1>5. h = q[1] /\ 1 \in DOMAIN q
  BY <1>2
<1> HIDE DEF r, h
<1>6. ASSUME NEW no PROVE In(r, no) <=> In(q, no) /\ no # h.no
  <2>1. ASSUME NEW i \in DOMAIN r, r[i].no = no PROVE In(q, no) /\ no # h.no
    BY <1>3, <1>5, <2>1 DEF In, Distinct
  <2>2. ASSUME NEW j \in DOMAIN q, q[j].no = no, no # h.no PROVE In(r, no)
    BY <1>4, <1>5, <2>2 DEF In
  <2> QED
    BY <2>1, <2>2 DEF In
<1>7. Distinct(r)
  <2> SUFFICES ASSUME NEW i \in DOMAIN r, NEW j \in DOMAIN r, r[i].no = r[j].no
               PROVE  i = j
    BY DEF Distinct
  <2>1. i + 1 = j + 1 /\ i \in Nat /\ j \in Nat
    BY <1>3 DEF Distinct
  <2> QED
    BY <2>1
<1>8. In(q, h.no)
  BY <1>5 DEF In
<1> QED
  BY <1>1, <1>6, <1>7, <1>8 DEF r, h

\* The set of subscriptions becomes s, which differs from it at e alone.
LEMMA StoresKeeps ==
  ASSUME PushInv, NEW e \in Endpoints, NEW s \in SUBSET Endpoints, Notices!Stores(s, e),
         \A e2 \in Endpoints \ {e} : e2 \in s <=> e2 \in subs,
         \A e2 \in Endpoints \ {e} : e2 \in wanted' <=> e2 \in wanted,
         e \in live => (e \in s <=> e \in wanted'),
         UNCHANGED live
  PROVE  /\ subs' = s /\ disk' \subseteq Endpoints /\ Saved'
<1>1. CASE s = subs
  BY <1>1 DEF Notices!Stores, PushInv, PushTyped, Saved
<1>2. CASE s # subs
  <2>1. subs' = s /\ lost' = lost \ {e} /\ Notices!Persist(s, e)
    BY <1>2 DEF Notices!Stores
  <2>2. \A e2 \in live \ (lost \ {e}) : e2 \in s <=> e2 \in wanted'
    BY DEF PushInv, Saved
  <2>3. CASE disk' = s /\ unsaved' = {}
    BY <2>1, <2>2, <2>3 DEF Saved
  <2>4. CASE unsaved' = unsaved \cup {e} /\ disk' = disk
    BY <2>1, <2>2, <2>4 DEF PushInv, PushTyped, Saved
  <2> QED
    BY <2>1, <2>3, <2>4 DEF Notices!Persist
<1> QED
  BY <1>1, <1>2

\* A browser subscribes or unsubscribes.
LEMMA SubscriptionKeeps ==
  ASSUME PushInv, NEW e \in Endpoints, Notices!Subscribe(e) \/ Notices!Unsubscribe(e)
  PROVE  PushInv'
<1> USE DEF PushInv
<1>1. /\ UNCHANGED <<live, ended, pending, sends, got, hushed, pushEvents>>
      /\ owed' \subseteq owed
  BY DEF Notices!Subscribe, Notices!Unsubscribe, Notices!queues, Notices!notes
<1>2. subs' \subseteq Endpoints /\ disk' \subseteq Endpoints /\ Saved' /\ \A o \in owed' : o.to \in subs => o.to \in subs'
  <2>1. CASE Notices!Subscribe(e)
    <3>1. subs \cup {e} \in SUBSET Endpoints
      BY DEF PushTyped
    <3>2. wanted' = wanted \cup {e} /\ Notices!Stores(subs \cup {e}, e)
      BY <2>1 DEF Notices!Subscribe
    <3>3. subs' = subs \cup {e} /\ disk' \subseteq Endpoints /\ Saved'
      BY <1>1, <3>1, <3>2, StoresKeeps
    <3> QED
      BY <3>1, <3>3
  <2>2. CASE Notices!Unsubscribe(e)
    <3>1. subs \ {e} \in SUBSET Endpoints
      BY DEF PushTyped
    <3>2. wanted' = wanted \ {e} /\ Notices!Stores(subs \ {e}, e) /\ owed' = {o \in owed : o.to # e}
      BY <2>2 DEF Notices!Unsubscribe
    <3>3. subs' = subs \ {e} /\ disk' \subseteq Endpoints /\ Saved'
      BY <1>1, <3>1, <3>2, StoresKeeps
    <3> QED
      BY <3>1, <3>2, <3>3
  <2> QED
    BY <2>1, <2>2
<1>3. PushTyped' /\ SentAfter'
  BY <1>1, <1>2 DEF PushTyped, SentAfter, Queued
<1>4. Due'
  BY <1>1, <1>2 DEF Due, Queued
<1> QED
  BY <1>1, <1>2, <1>3, <1>4

\* A turn ends or an interaction waits: its event is the newest there is.
LEMMA HappensKeeps ==
  ASSUME PushInv, NEW s \in Sessions, Notices!Publish(s) \/ Notices!Submit(s)
  PROVE  PushInv'
<1> USE DEF PushInv
<1>1. PICK ev : ev = [no |-> pushEvents + 1, session |-> s]
  OBVIOUS
<1>2. /\ pushEvents' = pushEvents + 1
      /\ owed' = owed \cup {[to |-> e, no |-> pushEvents'] : e \in subs}
      /\ UNCHANGED <<live, wanted, subs, disk, unsaved, lost, sends, got, hushed>>
      /\ \/ ended' = Append(ended, ev) /\ UNCHANGED pending
         \/ pending' = Append(pending, ev) /\ UNCHANGED ended
  BY <1>1 DEF Notices!Publish, Notices!Submit, Notices!Happens, Notices!store
<1>3. ev \in Event /\ ev.no = pushEvents + 1 /\ pushEvents \in Nat
  BY <1>1 DEF Event, PushTyped
<1>4. ~In(ended, ev.no) /\ ~In(pending, ev.no)
  BY <1>3 DEF SentAfter, Queued
<1>5. /\ ended' \in Seq(Event) /\ pending' \in Seq(Event)
      /\ Distinct(ended') /\ Distinct(pending')
      /\ \A no : In(ended', no) \/ In(pending', no) <=> Queued(no) \/ no = ev.no
      /\ \A no : ~(In(ended', no) /\ In(pending', no))
  <2>1. CASE ended' = Append(ended, ev) /\ UNCHANGED pending
    <3>1. ended' \in Seq(Event) /\ Distinct(ended') /\ \A no : In(ended', no) <=> In(ended, no) \/ no = ev.no
      BY <1>3, <1>4, <2>1, Joined DEF PushTyped, SentAfter
    <3> QED
      BY <1>4, <2>1, <3>1 DEF PushTyped, SentAfter, Queued
  <2>2. CASE pending' = Append(pending, ev) /\ UNCHANGED ended
    <3>1. pending' \in Seq(Event) /\ Distinct(pending') /\ \A no : In(pending', no) <=> In(pending, no) \/ no = ev.no
      BY <1>3, <1>4, <2>2, Joined DEF PushTyped, SentAfter
    <3> QED
      BY <1>4, <2>2, <3>1 DEF PushTyped, SentAfter, Queued
  <2> QED
    BY <1>2, <2>1, <2>2
<1>6. \A no : Queued(no)' <=> Queued(no) \/ no = ev.no
  BY <1>5 DEF Queued
<1>7. PushTyped'
  <2>1. owed' \subseteq Notice
    BY <1>2, <1>3 DEF PushTyped, Notice
  <2> QED
    BY <1>2, <1>3, <1>5, <2>1 DEF PushTyped
<1>8. SentAfter'
  <2>1. \A n \in sends : n.no \in Nat
    BY DEF PushTyped, Notice
  <2>2. \A i \in DOMAIN got : got[i].no \in Nat
    <3>1. got \in Seq(Notice) /\ DOMAIN got = 1 .. Len(got)
      BY DEF PushTyped
    <3>2. \A i \in 1 .. Len(got) : got[i] \in Notice
      BY <3>1, ElementOfSeq
    <3> QED
      BY <3>1, <3>2 DEF Notice
  <2>3. \A no : Queued(no) => no \in Nat
    <3>1. ASSUME NEW q \in Seq(Event), NEW i \in DOMAIN q PROVE q[i].no \in Nat
      <4>1. i \in 1 .. Len(q)
        OBVIOUS
      <4>2. q[i] \in Event
        BY <4>1, ElementOfSeq
      <4> QED
        BY <4>2 DEF Event
    <3> QED
      BY <3>1 DEF PushTyped, Queued, In
  <2>4. \A no : Queued(no)' => no <= pushEvents'
    BY <1>2, <1>3, <1>6, <2>3 DEF SentAfter
  <2>5. \A n \in sends : n.no <= pushEvents' /\ ~Queued(n.no)'
    BY <1>2, <1>3, <1>6, <2>1 DEF SentAfter
  <2>6. \A i \in DOMAIN got : got[i].no <= pushEvents' /\ ~Queued(got[i].no)' /\ got[i] \notin sends
    BY <1>2, <1>3, <1>6, <2>2 DEF SentAfter
  <2>7. Notices!IsInjective(got)
    BY DEF SentAfter
  <2> QED
    BY <1>2, <1>5, <2>4, <2>5, <2>6, <2>7 DEF SentAfter
<1>9. Due'
  BY <1>2, <1>3, <1>6 DEF Due
<1>10. Saved'
  BY <1>2 DEF Saved
<1> QED
  BY <1>2, <1>7, <1>8, <1>9, <1>10

\* An event leaves its queue, and its notices are sent to all there are or to none.
LEMMA NotifyKeeps ==
  ASSUME PushInv, Notices!NotifyTurnDone \/ Notices!NotifyPermission
  PROVE  PushInv'
<1> USE DEF PushInv
<1>1. PICK ev : /\ Notices!Fanout(ev)
                /\ \/ ended # <<>> /\ ended' = Tail(ended) /\ ev = Head(ended) /\ UNCHANGED pending
                   \/ pending # <<>> /\ pending' = Tail(pending) /\ ev = Head(pending) /\ UNCHANGED ended
  BY DEF Notices!NotifyTurnDone, Notices!NotifyPermission
<1>2. UNCHANGED <<live, wanted, subs, disk, unsaved, lost, got, pushEvents>>
  BY DEF Notices!NotifyTurnDone, Notices!NotifyPermission, Notices!store
<1>3. /\ ended' \in Seq(Event) /\ pending' \in Seq(Event) /\ ev \in Event
      /\ Distinct(ended') /\ Distinct(pending') /\ Queued(ev.no)
      /\ \A no : In(ended', no) \/ In(pending', no) <=> Queued(no) /\ no # ev.no
      /\ \A no : ~(In(ended', no) /\ In(pending', no))
  <2>1. CASE ended # <<>> /\ ended' = Tail(ended) /\ ev = Head(ended) /\ UNCHANGED pending
    <3>1. /\ ended' \in Seq(Event) /\ ev \in Event /\ Distinct(ended') /\ In(ended, ev.no)
          /\ \A no : In(ended', no) <=> In(ended, no) /\ no # ev.no
      BY <2>1, Left DEF PushTyped, SentAfter
    <3> QED
      BY <2>1, <3>1 DEF PushTyped, SentAfter, Queued
  <2>2. CASE pending # <<>> /\ pending' = Tail(pending) /\ ev = Head(pending) /\ UNCHANGED ended
    <3>1. /\ pending' \in Seq(Event) /\ ev \in Event /\ Distinct(pending') /\ In(pending, ev.no)
          /\ \A no : In(pending', no) <=> In(pending, no) /\ no # ev.no
      BY <2>2, Left DEF PushTyped, SentAfter
    <3> QED
      BY <2>2, <3>1 DEF PushTyped, SentAfter, Queued
  <2> QED
    BY <1>1, <2>1, <2>2
<1>4. \A no : Queued(no)' <=> Queued(no) /\ no # ev.no
  BY <1>3 DEF Queued
<1>5. ev.no \in Nat
  BY <1>3 DEF Event
<1> DEFINE news == {[to |-> e, no |-> ev.no] : e \in subs}
<1>6. /\ sends' = IF ev.session \in watched \cup collectors THEN sends ELSE sends \cup news
      /\ owed' = IF ev.session \in watched THEN {o \in owed : o.no # ev.no} ELSE owed
      /\ hushed' = IF ev.session \in collectors \ watched THEN hushed \cup {ev.no} ELSE hushed
  BY <1>1 DEF Notices!Fanout, Notices!Suppressed, Notices!HasViewers
<1>7. news \subseteq Notice /\ \A n \in news : n.no = ev.no
  BY <1>5 DEF PushTyped, Notice
<1>8. \A o \in owed : o.no = ev.no => o \in news
  BY DEF Due, PushTyped, Notice
<1> HIDE DEF news
<1>9. /\ sends \subseteq sends' /\ sends' \subseteq sends \cup news /\ owed' \subseteq owed
      /\ hushed \subseteq hushed'
  BY <1>6
<1>10. PushTyped'
  BY <1>2, <1>3, <1>7, <1>9 DEF PushTyped
<1>11. SentAfter'
  <2>1. ev.no <= pushEvents
    BY <1>3 DEF SentAfter
  <2>2. \A n \in sends' : n.no <= pushEvents /\ ~Queued(n.no)'
    BY <1>4, <1>7, <1>9, <2>1 DEF SentAfter
  <2>3. \A i \in DOMAIN got : got[i].no <= pushEvents /\ ~Queued(got[i].no)' /\ got[i] \notin sends'
    BY <1>2, <1>3, <1>4, <1>7, <1>9 DEF SentAfter
  <2>4. \A no : Queued(no)' => no <= pushEvents
    BY <1>4 DEF SentAfter
  <2> QED
    BY <1>2, <1>3, <2>2, <2>3, <2>4 DEF SentAfter
<1>12. Due'
  <2> SUFFICES ASSUME NEW o \in owed'
               PROVE o.to \in subs /\ (Queued(o.no)' \/ o \in sends' \/ o.no \in hushed')
    BY <1>2 DEF Due
  <2>1. o \in owed /\ o.to \in subs /\ (Queued(o.no) \/ o \in sends \/ o.no \in hushed)
    BY <1>9 DEF Due
  <2>2. CASE o.no = ev.no
    BY <1>6, <1>8, <2>1, <2>2
  <2>3. CASE o.no # ev.no
    BY <1>4, <1>9, <2>1, <2>3
  <2> QED
    BY <2>1, <2>2, <2>3
<1>13. Saved'
  BY <1>2 DEF Saved
<1> QED
  BY <1>2, <1>10, <1>11, <1>12, <1>13

\* A notice is delivered, fails, or finds its subscription gone.
LEMMA SendKeeps ==
  ASSUME PushInv, NEW n \in sends, Notices!Send(n) \/ Notices!Prune(n) \/ Notices!SendFails(n)
  PROVE  PushInv'
<1> USE DEF PushInv
<1>1. /\ UNCHANGED <<live, wanted, ended, pending, hushed, pushEvents>> /\ sends' = sends \ {n}
      /\ got' = got \/ got' = Append(got, n)
      /\ owed' \subseteq owed \ {n}
  BY DEF Notices!Send, Notices!Prune, Notices!SendFails, Notices!queues
<1>2. n \in Notice /\ n.to \in Endpoints
  BY DEF PushTyped, Notice
<1>3. subs' \subseteq Endpoints /\ disk' \subseteq Endpoints /\ Saved' /\ \A o \in owed' : o.to \in subs => o.to \in subs'
  <2>1. CASE Notices!Send(n) \/ Notices!SendFails(n)
    <3>1. UNCHANGED <<subs, disk, unsaved, lost>>
      BY <2>1
         DEF Notices!Send, Notices!SendFails, Notices!AfterError, Notices!Logged,
           Notices!store
    <3> QED
      BY <1>1, <3>1 DEF PushTyped, Saved
  <2>2. CASE Notices!Prune(n)
    <3>1. subs \ {n.to} \in SUBSET Endpoints
      BY DEF PushTyped
    <3>2. n.to \notin live /\ Notices!Stores(subs \ {n.to}, n.to) /\ owed' = {o \in owed : o.to # n.to}
      BY <2>2 DEF Notices!Prune
    <3>3. subs' = subs \ {n.to} /\ disk' \subseteq Endpoints /\ Saved'
      BY <1>1, <1>2, <3>1, <3>2, StoresKeeps
    <3> QED
      BY <3>1, <3>2, <3>3
  <2> QED
    BY <2>1, <2>2
<1>4. /\ got' \in Seq(Notice) /\ Notices!IsInjective(got')
      /\ \A i \in DOMAIN got' : got'[i].no <= pushEvents /\ ~Queued(got'[i].no) /\ got'[i] \notin sends'
  <2>1. CASE got' = got
    BY <1>1, <2>1 DEF PushTyped, SentAfter
  <2>2. CASE got' = Append(got, n)
    <3>1. PICK l : l = Len(got) + 1
      OBVIOUS
    <3>2. /\ got' \in Seq(Notice) /\ DOMAIN got' = DOMAIN got \cup {l} /\ got'[l] = n
          /\ \A i \in DOMAIN got : got'[i] = got[i]
      <4>1. got \in Seq(Notice)
        BY DEF PushTyped
      <4> HIDE DEF Notice
      <4> QED
        BY <1>2, <2>2, <3>1, <4>1
    <3> QED
      BY <1>1, <3>2 DEF SentAfter, Notices!IsInjective
  <2> QED
    BY <1>1, <2>1, <2>2
<1>5. \A no : Queued(no)' <=> Queued(no)
  BY <1>1 DEF Queued
<1>6. PushTyped'
  BY <1>1, <1>3, <1>4 DEF PushTyped
<1>7. SentAfter'
  BY <1>1, <1>4, <1>5 DEF SentAfter
<1>8. Due'
  BY <1>1, <1>3, <1>5 DEF Due
<1> QED
  BY <1>1, <1>3, <1>6, <1>7, <1>8

LEMMA PushStep ==
  PushInv /\ [Notices!Next]_(Notices!wvars) => PushInv'
<1> SUFFICES ASSUME PushInv, [Notices!Next]_(Notices!wvars) PROVE PushInv'
  OBVIOUS
<1> USE DEF PushInv
<1>1. ASSUME NEW e \in Endpoints, Notices!Expire(e) PROVE PushInv'
  <2>1. /\ UNCHANGED <<wanted, subs, disk, unsaved, lost, ended, pending, sends, got, hushed, pushEvents>>
        /\ live' \subseteq live /\ owed' \subseteq owed
    BY <1>1 DEF Notices!Expire, Notices!store, Notices!queues
  <2> QED
    BY <2>1 DEF PushTyped, SentAfter, Queued, Due, Saved
<1>2. ASSUME NEW s \in Sessions, Notices!Watch(s) \/ Notices!Collect(s) \/ Notices!Collected(s)
      PROVE PushInv'
  BY <1>2
     DEF Notices!Watch, Notices!Collect, Notices!Collected, Notices!store, Notices!queues, Notices!notes, PushTyped, SentAfter,
       Queued, Due, Saved
<1>3. CASE Notices!Restart
  <2>1. /\ subs' = disk /\ ended' = <<>> /\ pending' = <<>> /\ sends' = {} /\ owed' = {}
        /\ lost' = lost \cup unsaved /\ unsaved' = {}
        /\ UNCHANGED <<live, wanted, disk, got, pushEvents>>
    BY <1>3 DEF Notices!Restart
  <2>2. DOMAIN ended' = {} /\ DOMAIN pending' = {} /\ \A no : ~Queued(no)'
    BY <2>1 DEF Queued, In
  <2>3. PushTyped'
    BY <2>1 DEF PushTyped
  <2>4. SentAfter'
    BY <2>1, <2>2 DEF SentAfter, Queued, Distinct
  <2>5. Due' /\ Saved'
    BY <2>1 DEF Due, Saved
  <2> QED
    BY <2>1, <2>3, <2>4, <2>5
<1>4. CASE UNCHANGED Notices!wvars
  BY <1>4
     DEF Notices!wvars, Notices!store, Notices!queues, Notices!notes, PushTyped, SentAfter,
       Queued, Due, Saved
<1> QED
  BY <1>1, <1>2, <1>3, <1>4, SubscriptionKeeps, HappensKeeps, NotifyKeeps, SendKeeps
     DEF Notices!Next

\* What is owed waits.
LEMMA DueWaits == PushInv => Notices!Notified
<1> SUFFICES ASSUME PushInv PROVE Notices!Notified
  OBVIOUS
<1>1. \A no : Queued(no) => Notices!Queued(no)
  BY DEF Queued, In, Notices!Queued, Notices!Range
<1> QED
  BY <1>1 DEF PushInv, SentAfter, Due, Saved, Notices!Notified

(***************************************************************************)
(* The answers of a relayed session.                                       *)
(***************************************************************************)
LEMMA SendsAre ==
  ASSUME case \in Cases
  PROVE  /\ Relayed!Dispatches \subseteq Relayed!Sends
         /\ Relayed!Prompts \subseteq Relayed!Sends
         /\ Relayed!Sends \subseteq Nat
         /\ \A s \in Relayed!Sends :
              \/ s \in Relayed!Dispatches \cup Relayed!Prompts
              \/ \E q \in Relayed!Questions : s = Relayed!Answer(q)
         /\ \A q \in Relayed!Questions :
              /\ Relayed!Answer(q) \in Relayed!Sends
              /\ Relayed!Answer(q) \notin Relayed!Dispatches
              /\ Relayed!Answer(q) \notin Relayed!Prompts
              /\ \A r \in Relayed!Questions :
                   Relayed!Answer(q) = Relayed!Answer(r) => q = r
<1>1. case.text \in Seq(Nat) /\ case.others \in Nat /\ case.questions \in Nat
  BY DeliveriesAssumption
<1>2. Len(case.text) \in Nat /\ DOMAIN case.text = 1 .. Len(case.text)
  BY <1>1
<1> QED
  BY <1>1, <1>2
     DEF Relayed!Sends, Relayed!Dispatches, Relayed!Prompts, Relayed!Questions,
         Relayed!Answer, Relayed!text

\* A turn at the end of a log.
LEMMA PlacesOfAppend ==
  ASSUME NEW turns \in Seq(Turn), NEW t \in Turn, NEW u
  PROVE  /\ Append(turns, t) \in Seq(Turn)
         /\ t # u => Places(Append(turns, t), u) = Places(turns, u)
         /\ t = u => Places(Append(turns, t), u) = Places(turns, u) \cup {Len(turns) + 1}
<1> HIDE DEF Turn
<1> DEFINE more == Append(turns, t)
           n == Len(turns) + 1
<1>1. /\ more \in Seq(Turn) /\ DOMAIN more = DOMAIN turns \cup {n} /\ n \notin DOMAIN turns
      /\ more[n] = t /\ \A i \in DOMAIN turns : more[i] = turns[i]
  OBVIOUS
<1> HIDE DEF more, n
<1>2. /\ t # u => Places(more, u) = Places(turns, u)
      /\ t = u => Places(more, u) = Places(turns, u) \cup {n}
  BY <1>1 DEF Places
<1> QED
  BY <1>1, <1>2 DEF more, n

\* A log without its last turn.
LEMMA PlacesOfFront ==
  ASSUME NEW turns \in Seq(Turn), turns # <<>>, NEW u, Relayed!Last(turns) # u
  PROVE  Relayed!Front(turns) \in Seq(Turn) /\ Places(Relayed!Front(turns), u) = Places(turns, u)
<1> HIDE DEF Turn
<1> DEFINE less == Relayed!Front(turns)
           n == Len(turns)
<1>1. /\ n \in Nat \ {0} /\ DOMAIN turns = 1 .. n /\ turns[n] # u
      /\ less = SubSeq(turns, 1, n - 1)
  BY EmptySeq DEF Relayed!Front, Relayed!Last
<1>2. less \in Seq(Turn) /\ DOMAIN less = 1 .. n - 1 /\ \A i \in 1 .. n - 1 : less[i] = turns[i]
  BY <1>1
<1> HIDE DEF less, n
<1>3. \A i : i \in 1 .. n <=> i \in 1 .. n - 1 \/ i = n
  BY <1>1
<1>4. Places(less, u) = Places(turns, u)
  BY <1>1, <1>2, <1>3 DEF Places
<1> QED
  BY <1>2, <1>4 DEF less

LEMMA AnswersInit == Relayed!Init => AnswersInv
<1> SUFFICES ASSUME Relayed!Init PROVE AnswersInv
  OBVIOUS
<1> USE DEF Relayed!Init
<1>1. AnswersTyped
  BY DEF AnswersTyped, Stages
<1>2. Lined
  BY DEF Lined
<1>3. \A q \in Relayed!Questions :
        ask[q] = "none" /\ st[Relayed!Answer(q)] = "new" /\ Relayed!Logs(q) = {}
  BY SendsAre DEF Relayed!Logs
<1>4. Answerable /\ Relayed!AnsweredInPlace
  BY <1>3 DEF Answerable, Relayed!AnsweredInPlace
<1> QED
  BY <1>1, <1>2, <1>4 DEF AnswersInv

\* A send goes on to its next stage.
Onward(from, to) ==
  \/ from = "enqueue" /\ to \in {"queued", "full", "sent"}
  \/ from = "queued" /\ to \in {"sent", "refused"}
  \/ from = "sent" /\ to \in {"runs", "idle"}
  \/ from = "runs" /\ to = "ended"
  \/ from = "ended" /\ to = "idle"
  \/ from = "idle" /\ to = "over"

\* An answer's send stays or goes on: the log has it when it runs, and a flush or a
\* failure is an upset.
Advances(q) ==
  LET s == Relayed!Answer(q)
      logged == Places(log, Relayed!User(s))
  IN  \/ st'[s] = st[s] /\ Places(log', Relayed!User(s)) = logged
      \/ /\ Onward(st[s], st'[s])
         /\ IF st'[s] = "runs" THEN \E i : Places(log', Relayed!User(s)) = logged \cup {i}
                               ELSE Places(log', Relayed!User(s)) = logged
         /\ st'[s] = "refused" \/ (st[s] = "sent" /\ st'[s] = "idle") => upsets' > 0

\* A question on its way: of its answer the stage, where its goroutine is, whether
\* there is one, whether it is the session's, whether it was withdrawn, and where the
\* log has it.
OnItsWay(stage, asked, boxed, open, out, logged, upset) ==
  /\ stage \notin {"withdraw", "start", "born"}
  /\ asked # "over" => logged = {} /\ stage = "new"
  /\ asked = "over" => ~open
  /\ boxed => asked \notin {"none", "raised"}
  /\ asked \in {"reply", "steer"} => boxed
  /\ stage \in {"runs", "ended"} => logged # {}
  /\ stage \in {"idle", "over", "refused"} => logged # {} \/ upset
  /\ asked = "over" /\ boxed /\ ~out =>
       \/ logged # {} \/ stage \in {"enqueue", "queued", "sent", "full"}
       \/ stage \in {"refused", "idle", "over"} /\ upset
  /\ logged # {} /\ stage \in {"enqueue", "queued", "sent"} => upset
  /\ \A i, j \in logged : i = j \/ upset
  /\ logged # {} \/ stage # "new" => boxed /\ ~open

Ways ==
  \A q \in Relayed!Questions :
    OnItsWay(st[Relayed!Answer(q)], ask[q], q \in box, q \in asks, q \in withdrawn,
             Relayed!Logs(q), upsets > 0)

LEMMA WaysAre == AnswersInv <=> AnswersTyped /\ Lined /\ Ways
  BY DEF AnswersInv, Answerable, Relayed!AnsweredInPlace, Ways, OnItsWay

LEMMA CaseKept ==
  ASSUME case' = case
  PROVE  /\ Relayed!Questions' = Relayed!Questions /\ Relayed!Sends' = Relayed!Sends
         /\ \A q \in Relayed!Questions :
              /\ Relayed!Answer(q)' = Relayed!Answer(q)
              /\ Relayed!Logs(q) = Places(log, Relayed!User(Relayed!Answer(q)))
              /\ Relayed!Logs(q)' = Places(log', Relayed!User(Relayed!Answer(q)))
  BY DEF Relayed!Questions, Relayed!Sends, Relayed!Dispatches, Relayed!Prompts,
         Relayed!Answer, Relayed!text, Relayed!Logs, Places, Relayed!User

\* A step that leaves the questions, but for those it withdraws, and lets the sends
\* advance.
LEMMA SendsAdvance ==
  ASSUME AnswersInv, UNCHANGED <<case, ask, box>>, asks' \subseteq asks,
         withdrawn \subseteq withdrawn', upsets' \in Nat, upsets' >= upsets,
         st' \in [Relayed!Sends -> Stages], queue' \in Seq(Relayed!Sends),
         log' \in Seq(Turn), Lined', \A q \in Relayed!Questions : Advances(q)
  PROVE  AnswersInv'
<1>1. AnswersTyped /\ Ways
  BY WaysAre
<1>2. AnswersTyped'
  BY <1>1, CaseKept DEF AnswersTyped
<1>3. ASSUME NEW q \in Relayed!Questions
      PROVE  OnItsWay(st[Relayed!Answer(q)], ask[q], q \in box, q \in asks, q \in withdrawn,
                      Relayed!Logs(q), upsets > 0)'
  <2> DEFINE a == Relayed!Answer(q)
             before == Relayed!Logs(q)
             after == Relayed!Logs(q)'
             u0 == upsets > 0
             u1 == upsets' > 0
  <2>1. a' = a /\ (u0 => u1)
    BY <1>1, CaseKept DEF AnswersTyped
  <2>2. \/ st'[a] = st[a] /\ after = before
        \/ /\ Onward(st[a], st'[a])
           /\ IF st'[a] = "runs" THEN \E i : after = before \cup {i} ELSE after = before
           /\ st'[a] = "refused" \/ (st[a] = "sent" /\ st'[a] = "idle") => u1
    BY CaseKept DEF Advances
  <2>3. OnItsWay(st[a], ask[q], q \in box, q \in asks, q \in withdrawn, before, u0)
    BY <1>1 DEF Ways
  <2> SUFFICES OnItsWay(st'[a], ask[q], q \in box, q \in asks', q \in withdrawn', after, u1)
    BY <2>1
  <2> HIDE DEF a, before, after, u0, u1
  <2>5. CASE st'[a] = st[a] /\ after = before
    BY <2>1, <2>3, <2>5 DEF OnItsWay
  <2>6. CASE Onward(st[a], st'[a]) /\ st'[a] = "runs" /\ \E i : after = before \cup {i}
    BY <2>1, <2>3, <2>6 DEF Onward, OnItsWay
  <2>7. CASE /\ Onward(st[a], st'[a]) /\ st'[a] # "runs" /\ after = before
             /\ st'[a] = "refused" \/ (st[a] = "sent" /\ st'[a] = "idle") => u1
    <3> USE DEF OnItsWay
    <3>1. CASE st[a] = "enqueue" /\ st'[a] \in {"queued", "full", "sent"}
      BY <2>1, <2>3, <2>7, <3>1
    <3>2. CASE st[a] = "queued" /\ st'[a] = "sent"
      BY <2>1, <2>3, <2>7, <3>2
    <3>3. CASE st[a] = "queued" /\ st'[a] = "refused"
      BY <2>1, <2>3, <2>7, <3>3
    <3>4. CASE st[a] = "sent" /\ st'[a] = "idle"
      BY <2>1, <2>3, <2>7, <3>4
    <3>5. CASE st[a] = "runs" /\ st'[a] = "ended"
      BY <2>1, <2>3, <2>7, <3>5
    <3>6. CASE \/ st[a] = "ended" /\ st'[a] = "idle"
               \/ st[a] = "idle" /\ st'[a] = "over"
      BY <2>1, <2>3, <2>7, <3>6
    <3> QED
      BY <2>7, <3>1, <3>2, <3>3, <3>4, <3>5, <3>6 DEF Onward
  <2> QED
    BY <2>2, <2>5, <2>6, <2>7
<1>4. Ways'
  BY <1>3, CaseKept DEF Ways
<1> QED
  BY <1>2, <1>4 DEF AnswersInv, Answerable, Relayed!AnsweredInPlace, Ways, OnItsWay

\* A prompt is logged: the turns of the other sends are where they were.
LEMMA Logging ==
  ASSUME case \in Cases, log \in Seq(Turn), NEW s \in Relayed!Sends,
         log' = Append(log, Relayed!User(s))
  PROVE  /\ log' \in Seq(Turn)
         /\ \A r \in Relayed!Sends \ {s} :
              Places(log', Relayed!User(r)) = Places(log, Relayed!User(r))
         /\ \E i : Places(log', Relayed!User(s)) = Places(log, Relayed!User(s)) \cup {i}
<1>1. Relayed!User(s) \in Turn
  BY SendsAre DEF Turn, Relayed!User
<1>2. \A r \in Relayed!Sends \ {s} : Relayed!User(s) # Relayed!User(r)
  BY DEF Relayed!User
<1> HIDE DEF Turn
<1> QED
  BY <1>1, <1>2, PlacesOfAppend

\* What is not a prompt is logged.
LEMMA Saying ==
  ASSUME case \in Cases, NEW turns \in Seq(Turn), NEW s \in Relayed!Sends, NEW t,
         t \in {Relayed!Says(s, FALSE), Relayed!Says(s, TRUE), Relayed!Fails(s)}
  PROVE  /\ Append(turns, t) \in Seq(Turn)
         /\ \A r \in Relayed!Sends :
              Places(Append(turns, t), Relayed!User(r)) = Places(turns, Relayed!User(r))
<1>1. t \in Turn
  <2>1. s \in Nat
    BY SendsAre
  <2>2. /\ Relayed!Says(s, FALSE) \in Turn /\ Relayed!Says(s, TRUE) \in Turn
        /\ Relayed!Fails(s) \in Turn
    BY <2>1 DEF Turn, Relayed!Says, Relayed!Fails
  <2> HIDE DEF Turn
  <2> QED
    BY <2>2
<1>2. \A r \in Relayed!Sends : t # Relayed!User(r)
  BY DEF Relayed!User, Relayed!Says, Relayed!Fails
<1> HIDE DEF Turn
<1> QED
  BY <1>1, <1>2, PlacesOfAppend

\* A turn ends.
LEMMA Ending ==
  ASSUME case \in Cases, log \in Seq(Turn), NEW s \in Relayed!Sends, Relayed!End(s)
  PROVE  /\ log' \in Seq(Turn)
         /\ \A r \in Relayed!Sends :
              Places(log', Relayed!User(r)) = Places(log, Relayed!User(r))
<1> DEFINE before == IF Relayed!Spoke(s) THEN Relayed!Front(log) ELSE log
           spoken == Append(before, Relayed!Says(s, TRUE))
<1>1. /\ before \in Seq(Turn)
      /\ \A r \in Relayed!Sends : Places(before, Relayed!User(r)) = Places(log, Relayed!User(r))
  <2>1. CASE Relayed!Spoke(s)
    <3>1. log # <<>> /\ \A r \in Relayed!Sends : Relayed!Last(log) # Relayed!User(r)
      BY <2>1 DEF Relayed!Spoke, Relayed!Says, Relayed!User
    <3> HIDE DEF Turn
    <3> QED
      BY <2>1, <3>1, PlacesOfFront
  <2>2. CASE ~Relayed!Spoke(s)
    BY <2>2
  <2> QED
    BY <2>1, <2>2
<1> HIDE DEF before
<1>2. /\ spoken \in Seq(Turn)
      /\ \A r \in Relayed!Sends : Places(spoken, Relayed!User(r)) = Places(log, Relayed!User(r))
  BY <1>1, Saying
<1> HIDE DEF spoken
<1>3. \/ log' = spoken
      \/ log' = Append(IF Relayed!Spoke(s) THEN spoken ELSE log, Relayed!Fails(s))
  BY DEF Relayed!End, spoken, before
<1>4. CASE log' = spoken
  BY <1>2, <1>4
<1>5. CASE log' = Append(spoken, Relayed!Fails(s))
  BY <1>2, <1>5, Saying
<1>6. CASE log' = Append(log, Relayed!Fails(s))
  BY <1>6, Saying
<1> QED
  BY <1>3, <1>4, <1>5, <1>6

\* A send that is not queued moves on, and is the last of the queue if it goes there.
Moving(s) ==
  /\ UNCHANGED <<case, ask, box>> /\ asks' \subseteq asks /\ withdrawn \subseteq withdrawn'
  /\ upsets' \in {upsets, upsets + 1}
  /\ st[s] # "queued"
  /\ \E stage \in Stages :
       /\ st' = [st EXCEPT ![s] = stage]
       /\ queue' = queue \/ (queue' = Append(queue, s) /\ stage = "queued")
       /\ \/ s \in Relayed!Dispatches \cup Relayed!Prompts
          \/ Onward(st[s], stage) /\ (st[s] = "sent" /\ stage = "idle" => upsets' = upsets + 1)
  /\ log' \in Seq(Turn)
  /\ \A r \in Relayed!Sends \ {s} :
       Places(log', Relayed!User(r)) = Places(log, Relayed!User(r))
  /\ \/ s \in Relayed!Dispatches \cup Relayed!Prompts
     \/ IF st'[s] = "runs"
          THEN \E i : Places(log', Relayed!User(s)) = Places(log, Relayed!User(s)) \cup {i}
          ELSE Places(log', Relayed!User(s)) = Places(log, Relayed!User(s))

LEMMA MovesOn ==
  ASSUME AnswersInv, NEW s \in Relayed!Sends, Moving(s)
  PROVE  AnswersInv'
<1>0. /\ case \in Cases /\ st \in [Relayed!Sends -> Stages] /\ queue \in Seq(Relayed!Sends)
      /\ upsets \in Nat /\ Lined
  BY DEF AnswersInv, AnswersTyped
<1>1. PICK stage \in Stages :
        /\ st' = [st EXCEPT ![s] = stage]
        /\ queue' = queue \/ (queue' = Append(queue, s) /\ stage = "queued")
        /\ \/ s \in Relayed!Dispatches \cup Relayed!Prompts
           \/ Onward(st[s], stage) /\ (st[s] = "sent" /\ stage = "idle" => upsets' = upsets + 1)
  BY DEF Moving
<1>2. st' \in [Relayed!Sends -> Stages] /\ queue' \in Seq(Relayed!Sends)
  BY <1>0, <1>1
<1>3. Lined'
  <2>1. \A i \in DOMAIN queue : queue[i] \in Relayed!Sends /\ queue[i] # s
    BY <1>0 DEF Lined, Moving
  <2>2. CASE queue' = queue
    BY <1>0, <1>1, <2>1, <2>2 DEF Lined
  <2>3. CASE queue' = Append(queue, s) /\ stage = "queued"
    <3> DEFINE n == Len(queue) + 1
    <3>1. /\ DOMAIN queue' = DOMAIN queue \cup {n} /\ queue'[n] = s
          /\ \A i \in DOMAIN queue : queue'[i] = queue[i]
      BY <1>0, <2>3
    <3> HIDE DEF n
    <3>2. st'[s] = "queued" /\ \A i \in DOMAIN queue : st'[queue[i]] = "queued"
      BY <1>0, <1>1, <2>1, <2>3 DEF Lined
    <3> QED
      BY <1>0, <2>1, <3>1, <3>2 DEF Lined
  <2> QED
    BY <1>1, <2>2, <2>3
<1>4. ASSUME NEW q \in Relayed!Questions PROVE Advances(q)
  <2> DEFINE a == Relayed!Answer(q)
  <2>1. a \in Relayed!Sends /\ a \notin Relayed!Dispatches \cup Relayed!Prompts
    BY <1>0, SendsAre
  <2>2. CASE a # s
    BY <1>0, <1>1, <2>1, <2>2 DEF Advances, Moving
  <2>3. CASE a = s
    <3>1. st'[s] = stage /\ Onward(st[s], stage)
          /\ (st[s] = "sent" /\ stage = "idle" => upsets' = upsets + 1)
      BY <1>0, <1>1, <2>1, <2>3
    <3>2. IF st'[s] = "runs"
            THEN \E i : Places(log', Relayed!User(s)) = Places(log, Relayed!User(s)) \cup {i}
            ELSE Places(log', Relayed!User(s)) = Places(log, Relayed!User(s))
      BY <2>1, <2>3 DEF Moving
    <3>3. stage # "refused"
      BY <3>1 DEF Onward, Moving
    <3>4. st[s] = "sent" /\ st'[s] = "idle" => upsets' > 0
      BY <1>0, <3>1
    <3> QED
      BY <2>3, <3>1, <3>2, <3>3, <3>4 DEF Advances
  <2> QED
    BY <2>2, <2>3
<1> QED
  BY <1>0, <1>2, <1>3, <1>4, SendsAdvance DEF Moving

LEMMA RelayKeeps ==
  ASSUME AnswersInv,
         \/ \E s \in Relayed!Dispatches :
              Relayed!Dispatch(s) \/ Relayed!Start(s) \/ Relayed!Register(s)
         \/ \E s \in Relayed!Prompts : Relayed!UserSend(s)
         \/ \E s \in Relayed!Sends : \/ Relayed!EnqueueSend(s) \/ Relayed!Sent(s)
                                     \/ Relayed!End(s) \/ Relayed!Publish(s)
  PROVE  AnswersInv'
<1>0. case \in Cases /\ log \in Seq(Turn) /\ st \in [Relayed!Sends -> Stages] /\ upsets \in Nat
  BY DEF AnswersInv, AnswersTyped
<1>9. Relayed!Dispatches \subseteq Relayed!Sends /\ Relayed!Prompts \subseteq Relayed!Sends
  BY <1>0, SendsAre
<1> USE <1>0, <1>9
    DEF Relayed!work, Relayed!questions, Relayed!inbox, Relayed!notes, Relayed!Becomes,
        Relayed!Moves, Stages, Moving, Onward
<1>1. ASSUME NEW s \in Relayed!Dispatches, Relayed!Dispatch(s) PROVE Moving(s)
  <2> PICK stage \in {"withdraw", "start"} : st' = [st EXCEPT ![s] = stage]
    BY <1>1 DEF Relayed!Dispatch
  <2> QED
    BY <1>1 DEF Relayed!Dispatch
<1>2. ASSUME NEW s \in Relayed!Dispatches, Relayed!Start(s) PROVE Moving(s)
  <2>1. CASE log' = Append(log, Relayed!User(s)) /\ UNCHANGED upsets
    BY <1>2, <2>1, Logging DEF Relayed!Start
  <2>2. CASE log' = log
    BY <1>2, <2>2 DEF Relayed!Start, Relayed!Upset
  <2> QED
    BY <1>2, <2>1, <2>2 DEF Relayed!Start
<1>3. ASSUME NEW s \in Relayed!Dispatches, Relayed!Register(s) PROVE Moving(s)
  BY <1>3 DEF Relayed!Register
<1>4. ASSUME NEW s \in Relayed!Prompts, Relayed!UserSend(s) PROVE Moving(s)
  BY <1>4 DEF Relayed!UserSend
<1>5. ASSUME NEW s \in Relayed!Sends, Relayed!EnqueueSend(s) PROVE Moving(s)
  BY <1>5 DEF Relayed!EnqueueSend
<1>6. ASSUME NEW s \in Relayed!Sends, Relayed!Sent(s) PROVE Moving(s)
  <2>1. CASE log' = Append(log, Relayed!User(s)) /\ Relayed!Becomes(s, "runs") /\ UNCHANGED upsets
    BY <1>6, <2>1, Logging DEF Relayed!Sent
  <2>2. CASE log' = log /\ Relayed!Becomes(s, "idle") /\ Relayed!Upset
    BY <1>6, <2>2 DEF Relayed!Sent, Relayed!Upset
  <2> QED
    BY <1>6, <2>1, <2>2 DEF Relayed!Sent
<1>7. ASSUME NEW s \in Relayed!Sends, Relayed!End(s) PROVE Moving(s)
  <2>1. /\ log' \in Seq(Turn)
        /\ \A r \in Relayed!Sends : Places(log', Relayed!User(r)) = Places(log, Relayed!User(r))
    BY <1>7, Ending
  <2>2. st[s] = "runs" /\ st' = [st EXCEPT ![s] = "ended"] /\ st'[s] = "ended"
        /\ UNCHANGED <<case, ask, box, asks, withdrawn, upsets, queue>>
    BY <1>7 DEF Relayed!End
  <2> QED
    BY <2>1, <2>2
<1>8. ASSUME NEW s \in Relayed!Sends, Relayed!Publish(s) PROVE Moving(s)
  BY <1>8 DEF Relayed!Publish
<1> QED
  BY <1>1, <1>2, <1>3, <1>4, <1>5, <1>6, <1>7, <1>8, MovesOn

LEMMA ReleaseSendKeeps ==
  ASSUME AnswersInv, NEW s \in Relayed!Sends, Relayed!Release(s)
  PROVE  AnswersInv'
<1> USE DEF Relayed!questions, Relayed!inbox, Relayed!notes, Relayed!Becomes
<1>0. /\ AnswersTyped /\ Lined /\ UNCHANGED <<case, log, ask, asks, box, withdrawn, upsets>>
      /\ st[s] = "idle"
  BY DEF Relayed!Release, AnswersInv
<1>1. CASE st' = [st EXCEPT ![s] = "over"] /\ queue' = queue
  <2>1. Moving(s)
    BY <1>0, <1>1 DEF Moving, Stages, AnswersTyped, Onward
  <2> QED
    BY <2>1, MovesOn
<1>2. CASE /\ queue # <<>> /\ queue' = Tail(queue)
           /\ st' = [st EXCEPT ![s] = "over", ![Head(queue)] = "sent"]
  <2> DEFINE h == Head(queue)
             n == Len(queue)
  <2>1. /\ queue \in Seq(Relayed!Sends) /\ h = queue[1] /\ h \in Relayed!Sends
        /\ n \in Nat \ {0} /\ DOMAIN queue = 1 .. n
        /\ queue' \in Seq(Relayed!Sends) /\ DOMAIN queue' = 1 .. n - 1
        /\ \A i \in 1 .. n - 1 : queue'[i] = queue[i + 1]
    BY <1>0, <1>2, EmptySeq DEF AnswersTyped
  <2>2. st[h] = "queued" /\ h # s
    BY <1>0, <2>1 DEF Lined
  <2> HIDE DEF h, n
  <2>3. /\ st' \in [Relayed!Sends -> Stages] /\ st'[s] = "over" /\ st'[h] = "sent"
        /\ \A r \in Relayed!Sends \ {s, h} : st'[r] = st[r]
    BY <1>0, <1>2, <2>1, <2>2 DEF AnswersTyped, Stages, h
  <2>4. Lined'
    <3>1. ASSUME NEW i \in 1 .. n - 1
          PROVE  /\ i + 1 \in 1 .. n /\ queue'[i] = queue[i + 1] /\ queue[i + 1] \in Relayed!Sends
                 /\ queue[i + 1] \notin {h, s} /\ st[queue[i + 1]] = "queued"
      <4>1. i + 1 \in 1 .. n /\ 1 \in 1 .. n /\ i + 1 # 1
        BY <2>1
      <4> QED
        BY <1>0, <2>1, <2>2, <4>1 DEF Lined
    <3>2. \A i \in DOMAIN queue' : st'[queue'[i]] = "queued"
      BY <2>1, <2>3, <3>1
    <3>3. ASSUME NEW i \in 1 .. n - 1, NEW j \in 1 .. n - 1, queue'[i] = queue'[j]
          PROVE  i = j
      <4>1. /\ i + 1 \in DOMAIN queue /\ j + 1 \in DOMAIN queue /\ i \in Nat /\ j \in Nat
            /\ queue'[i] = queue[i + 1] /\ queue'[j] = queue[j + 1]
        BY <2>1
      <4>2. i + 1 = j + 1
        BY <1>0, <3>3, <4>1 DEF Lined
      <4> QED
        BY <4>1, <4>2
    <3> QED
      BY <2>1, <3>2, <3>3 DEF Lined
  <2>5. ASSUME NEW q \in Relayed!Questions PROVE Advances(q)
    <3>1. Relayed!Answer(q) \in Relayed!Sends
      BY <1>0, SendsAre DEF AnswersTyped
    <3> QED
      BY <1>0, <2>2, <2>3, <3>1 DEF Advances, Onward
  <2> QED
    BY <1>0, <2>1, <2>3, <2>4, <2>5, SendsAdvance DEF AnswersTyped
<1> QED
  BY <1>1, <1>2 DEF Relayed!Release

LEMMA StopKeeps ==
  ASSUME AnswersInv, Relayed!StopLive
  PROVE  AnswersInv'
<1> USE DEF Relayed!inbox, Relayed!notes, Relayed!Withdraws, Relayed!Upset, Relayed!StopLive
<1>0. /\ AnswersTyped /\ Lined /\ UNCHANGED <<case, log, ask, box>> /\ upsets' = upsets + 1
      /\ asks' = {} /\ withdrawn' = withdrawn \cup asks /\ queue' = <<>>
  BY DEF AnswersInv
<1>1. \A r \in Relayed!Range(queue) : st[r] = "queued"
  BY <1>0 DEF Lined, Relayed!Range
<1>2. /\ st' \in [Relayed!Sends -> Stages]
      /\ \A r \in Relayed!Sends :
           st'[r] = IF r \in Relayed!Range(queue) THEN "refused" ELSE st[r]
  BY <1>0 DEF AnswersTyped, Stages
<1>3. upsets' \in Nat /\ upsets' >= upsets /\ upsets' > 0
  BY <1>0 DEF AnswersTyped
<1>4. ASSUME NEW q \in Relayed!Questions PROVE Advances(q)
  <2>1. Relayed!Answer(q) \in Relayed!Sends
    BY <1>0, SendsAre DEF AnswersTyped
  <2> QED
    BY <1>0, <1>1, <1>2, <1>3, <2>1 DEF Advances, Onward
<1>5. Lined' /\ queue' \in Seq(Relayed!Sends)
  BY <1>0 DEF Lined
<1> QED
  BY <1>0, <1>2, <1>3, <1>4, <1>5, SendsAdvance DEF AnswersTyped

LEMMA WithdrawKeeps ==
  ASSUME AnswersInv, NEW s \in Relayed!Sends, Relayed!WithdrawQuestions(s)
  PROVE  AnswersInv'
<1> USE DEF Relayed!inbox, Relayed!notes, Relayed!Withdraws, Relayed!Moves, Relayed!Becomes,
            Relayed!WithdrawQuestions
<1>1. AnswersTyped /\ Answerable /\ st[s] = "withdraw"
  BY DEF AnswersInv
<1>2. s \in Relayed!Dispatches \cup Relayed!Prompts
  BY <1>1, SendsAre DEF AnswersTyped, Answerable
<1>3. Moving(s)
  BY <1>1, <1>2 DEF Moving, Stages, AnswersTyped
<1> QED
  BY <1>3, MovesOn

\* A question moves on, and its answer's send with it.
LEMMA Asking ==
  ASSUME AnswersInv, NEW q \in Relayed!Questions, case' = case, queue' = queue,
         upsets' \in Nat, upsets' >= upsets, withdrawn' = withdrawn,
         log' \in Seq(Turn),
         \A r \in Relayed!Questions \ {q} :
           Places(log', Relayed!User(Relayed!Answer(r)))
             = Places(log, Relayed!User(Relayed!Answer(r))),
         NEW asked \in {"raised", "open", "reply", "steer", "over"},
         ask' \in {ask, [ask EXCEPT ![q] = asked]},
         \A r \in Relayed!Questions \ {q} : (r \in box' <=> r \in box) /\ (r \in asks' <=> r \in asks),
         \/ st' = st
         \/ st[Relayed!Answer(q)] = "new" /\ st' = [st EXCEPT ![Relayed!Answer(q)] = "enqueue"],
         OnItsWay(st'[Relayed!Answer(q)], ask'[q], q \in box', q \in asks', q \in withdrawn,
                  Places(log', Relayed!User(Relayed!Answer(q))), upsets' > 0)
  PROVE  AnswersInv'
<1>1. AnswersTyped /\ Lined /\ Ways
  BY WaysAre
<1>2. /\ Relayed!Answer(q) \in Relayed!Sends
      /\ \A r \in Relayed!Questions \ {q} :
           Relayed!Answer(r) \in Relayed!Sends /\ Relayed!Answer(r) # Relayed!Answer(q)
  BY <1>1, SendsAre DEF AnswersTyped
<1>3. AnswersTyped'
  <2>1. st' \in [Relayed!Sends -> Stages]
    BY <1>1, <1>2 DEF AnswersTyped, Stages
  <2>2. ask' \in [Relayed!Questions -> {"none", "raised", "open", "reply", "steer", "over"}]
    BY <1>1 DEF AnswersTyped
  <2> QED
    BY <1>1, <2>1, <2>2, CaseKept DEF AnswersTyped
<1>4. Lined'
  <2>1. \A i \in DOMAIN queue : queue[i] \in Relayed!Sends /\ st'[queue[i]] = "queued"
    <3>1. \A i \in DOMAIN queue : queue[i] \in Relayed!Sends /\ st[queue[i]] = "queued"
      BY <1>1 DEF AnswersTyped, Lined
    <3> QED
      BY <1>1, <1>2, <3>1 DEF AnswersTyped
  <2> QED
    BY <1>1, <2>1 DEF Lined
<1>5. ASSUME NEW r \in Relayed!Questions, r # q
      PROVE  OnItsWay(st[Relayed!Answer(r)], ask[r], r \in box, r \in asks, r \in withdrawn,
                      Relayed!Logs(r), upsets > 0)'
  <2>1. /\ OnItsWay(st[Relayed!Answer(r)], ask[r], r \in box, r \in asks, r \in withdrawn,
                    Relayed!Logs(r), upsets > 0)
        /\ Relayed!Logs(r)' = Relayed!Logs(r) /\ Relayed!Answer(r)' = Relayed!Answer(r)
    BY <1>1, <1>5, CaseKept DEF Ways
  <2>2. /\ st'[Relayed!Answer(r)] = st[Relayed!Answer(r)] /\ ask'[r] = ask[r]
        /\ (r \in box' <=> r \in box) /\ (r \in asks' <=> r \in asks)
        /\ (upsets > 0 => upsets' > 0)
    BY <1>1, <1>2, <1>5 DEF AnswersTyped
  <2> DEFINE logged == Relayed!Logs(r)
             stage == st[Relayed!Answer(r)]
  <2>3. OnItsWay(stage, ask[r], r \in box, r \in asks, r \in withdrawn, logged, upsets > 0)
    BY <2>1
  <2> SUFFICES OnItsWay(stage, ask[r], r \in box, r \in asks, r \in withdrawn, logged, upsets' > 0)
    BY <2>1, <2>2 DEF OnItsWay
  <2> HIDE DEF logged, stage
  <2> QED
    BY <2>2, <2>3 DEF OnItsWay
<1>6. Ways'
  BY <1>5, CaseKept DEF Ways
<1> QED
  BY <1>3, <1>4, <1>6 DEF AnswersInv, Answerable, Relayed!AnsweredInPlace, Ways, OnItsWay

LEMMA QuestionKeeps ==
  ASSUME AnswersInv, NEW q \in Relayed!Questions,
         \/ Relayed!AskInPlace(q) \/ Relayed!Submit(q) \/ Relayed!Respond(q)
         \/ Relayed!Returned(q) \/ Relayed!ReplyInPlace(q) \/ Relayed!Steer(q)
  PROVE  AnswersInv'
<1> DEFINE a == Relayed!Answer(q)
           logged == Places(log, Relayed!User(a))
           logged1 == Places(log', Relayed!User(a))
<1> USE DEF Relayed!inbox, Relayed!notes, Relayed!work, Relayed!Asks, Relayed!Becomes
<1>0. /\ AnswersTyped /\ UNCHANGED <<case, queue, withdrawn>>
  BY DEF AnswersInv, Relayed!AskInPlace, Relayed!Submit, Relayed!Respond,
         Relayed!Returned, Relayed!ReplyInPlace, Relayed!Steer
<1>1. /\ case \in Cases /\ log \in Seq(Turn) /\ upsets \in Nat /\ st \in [Relayed!Sends -> Stages]
      /\ ask \in [Relayed!Questions -> {"none", "raised", "open", "reply", "steer", "over"}]
  BY <1>0 DEF AnswersTyped
<1>2. a \in Relayed!Sends /\ \A r \in Relayed!Questions \ {q} : Relayed!Answer(r) # a
  BY <1>1, SendsAre
<1>3. OnItsWay(st[a], ask[q], q \in box, q \in asks, q \in withdrawn, logged, upsets > 0)
  BY <1>0, WaysAre, CaseKept DEF Ways
<1> HIDE DEF a, logged, logged1
<1>4. CASE UNCHANGED <<st, log, upsets>>
  <2> DEFINE Way(asked, boxed, open) ==
               OnItsWay(st[a], asked, boxed, open, q \in withdrawn, logged, upsets > 0)
  <2>1. PICK asked \in {"raised", "open", "reply", "steer", "over"} :
          /\ ask' \in {ask, [ask EXCEPT ![q] = asked]}
          /\ \A r \in Relayed!Questions \ {q} :
               (r \in box' <=> r \in box) /\ (r \in asks' <=> r \in asks)
          /\ Way(ask'[q], q \in box', q \in asks')
    <3>1. CASE Relayed!AskInPlace(q)
      BY <1>1, <1>3, <3>1 DEF Relayed!AskInPlace, OnItsWay
    <3>2. CASE Relayed!Submit(q)
      BY <1>1, <1>3, <3>2 DEF Relayed!Submit, OnItsWay
    <3>3. CASE Relayed!Respond(q)
      BY <1>1, <1>3, <3>3 DEF Relayed!Respond, OnItsWay
    <3>4. CASE Relayed!Returned(q)
      BY <1>1, <1>3, <3>4 DEF Relayed!Returned, OnItsWay
    <3>5. CASE Relayed!ReplyInPlace(q)
      <4>1. ask[q] = "reply" /\ st[a] = "new"
        BY <1>3, <3>5 DEF Relayed!ReplyInPlace, OnItsWay
      <4>2. active # 0
        BY <1>1, <1>2, <1>4, <3>5, <4>1 DEF Relayed!ReplyInPlace, Relayed!AsTurn, a
      <4> QED
        BY <1>1, <1>3, <3>5, <4>2 DEF Relayed!ReplyInPlace, OnItsWay
    <3>6. CASE Relayed!Steer(q)
      <4>1. ask[q] = "steer" /\ st[a] = "new"
        BY <1>3, <3>6 DEF Relayed!Steer, OnItsWay
      <4>2. ~Relayed!AsTurn(q)
        BY <1>1, <1>2, <1>4, <4>1 DEF Relayed!AsTurn, a
      <4>3. log' = Append(log, Relayed!User(a))
        BY <3>6, <4>2 DEF Relayed!Steer, Relayed!Takes, a
      <4>4. Len(Append(log, Relayed!User(a))) # Len(log)
        <5> HIDE DEF Turn
        <5> QED
          BY <1>1
      <4> QED
        BY <1>4, <4>3, <4>4
    <3> QED
      BY <3>1, <3>2, <3>3, <3>4, <3>5, <3>6
  <2> QED
    BY <1>0, <1>1, <1>4, <2>1, Asking DEF a, logged
<1>5. CASE /\ Relayed!ReplyInPlace(q) \/ Relayed!Steer(q)
           /\ Relayed!AsTurn(q) /\ ask' = [ask EXCEPT ![q] = "over"] /\ asks' = asks \ {q}
           /\ UNCHANGED <<log, box, upsets>>
  <2>1. /\ ask[q] \in {"reply", "steer"} /\ st[a] = "new"
        /\ st' = [st EXCEPT ![a] = "enqueue"] /\ st'[a] = "enqueue" /\ ask'[q] = "over"
    BY <1>1, <1>2, <1>3, <1>5
       DEF Relayed!ReplyInPlace, Relayed!Steer, Relayed!AsTurn, OnItsWay, a
  <2>2. OnItsWay(st'[a], ask'[q], q \in box', q \in asks', q \in withdrawn, logged, upsets > 0)
    BY <1>3, <1>5, <2>1 DEF OnItsWay
  <2>3. /\ ask' \in {ask, [ask EXCEPT ![q] = "over"]} /\ log' = log /\ upsets' = upsets
        /\ \A r \in Relayed!Questions \ {q} :
             (r \in box' <=> r \in box) /\ (r \in asks' <=> r \in asks)
    BY <1>5
  <2>4. /\ upsets' \in Nat /\ upsets' >= upsets /\ log' \in Seq(Turn)
        /\ \A r \in Relayed!Questions \ {q} :
             Places(log', Relayed!User(Relayed!Answer(r)))
               = Places(log, Relayed!User(Relayed!Answer(r)))
    <3> HIDE DEF Turn
    <3> QED
      BY <1>1, <2>3
  <2>5. "over" \in {"raised", "open", "reply", "steer", "over"}
    OBVIOUS
  <2>6. OnItsWay(st'[a], ask'[q], q \in box', q \in asks', q \in withdrawn,
                 Places(log', Relayed!User(a)), upsets' > 0)
    BY <2>2, <2>3 DEF logged
  <2> HIDE DEF Turn
  <2> QED
    BY <1>0, <1>1, <2>1, <2>3, <2>4, <2>5, <2>6, Asking DEF a
<1>6. CASE /\ Relayed!Steer(q) /\ Relayed!Takes(q)
           /\ ask' = [ask EXCEPT ![q] = "over"] /\ asks' = asks \ {q} /\ UNCHANGED box
           /\ UNCHANGED <<st, upsets>> \/ (Relayed!AsTurn(q) /\ upsets' = upsets + 1)
  <2>1. /\ ask[q] = "steer" /\ st[a] = "new" /\ logged = {} /\ q \in box /\ ask'[q] = "over"
    BY <1>1, <1>3, <1>6 DEF Relayed!Steer, OnItsWay
  <2>2. /\ log' \in Seq(Turn)
        /\ \A r \in Relayed!Sends \ {a} :
             Places(log', Relayed!User(r)) = Places(log, Relayed!User(r))
        /\ \E i : logged1 = logged \cup {i}
    BY <1>1, <1>2, <1>6, Logging DEF Relayed!Takes, a, logged, logged1
  <2>3. \/ st' = st /\ st'[a] = "new" /\ upsets' = upsets
        \/ st' = [st EXCEPT ![a] = "enqueue"] /\ st'[a] = "enqueue" /\ upsets' = upsets + 1
    BY <1>1, <1>2, <1>6, <2>1 DEF Relayed!AsTurn, a
  <2>4. OnItsWay(st'[a], ask'[q], q \in box', q \in asks', q \in withdrawn, logged1, upsets' > 0)
    BY <1>1, <1>6, <2>1, <2>2, <2>3 DEF OnItsWay
  <2>5. \A r \in Relayed!Questions \ {q} :
          Relayed!Answer(r) \in Relayed!Sends \ {a}
    BY <1>1, <1>2, SendsAre
  <2>6. /\ ask' \in {ask, [ask EXCEPT ![q] = "over"]} /\ upsets' \in Nat /\ upsets' >= upsets
        /\ \A r \in Relayed!Questions \ {q} :
             /\ (r \in box' <=> r \in box) /\ (r \in asks' <=> r \in asks)
             /\ Places(log', Relayed!User(Relayed!Answer(r)))
                  = Places(log, Relayed!User(Relayed!Answer(r)))
    BY <1>1, <1>6, <2>2, <2>3, <2>5
  <2>7. "over" \in {"raised", "open", "reply", "steer", "over"}
    OBVIOUS
  <2>8. OnItsWay(st'[a], ask'[q], q \in box', q \in asks', q \in withdrawn,
                 Places(log', Relayed!User(a)), upsets' > 0)
    BY <2>4 DEF logged1
  <2> HIDE DEF Turn
  <2> QED
    BY <1>0, <1>1, <2>1, <2>2, <2>3, <2>6, <2>7, <2>8, Asking DEF a
<1>7. \/ UNCHANGED <<st, log, upsets>>
      \/ /\ Relayed!ReplyInPlace(q) \/ Relayed!Steer(q)
         /\ Relayed!AsTurn(q) /\ ask' = [ask EXCEPT ![q] = "over"] /\ asks' = asks \ {q}
         /\ UNCHANGED <<log, box, upsets>>
      \/ /\ Relayed!Steer(q) /\ Relayed!Takes(q)
         /\ ask' = [ask EXCEPT ![q] = "over"] /\ asks' = asks \ {q} /\ UNCHANGED box
         /\ UNCHANGED <<st, upsets>> \/ (Relayed!AsTurn(q) /\ upsets' = upsets + 1)
  BY DEF Relayed!AskInPlace, Relayed!Submit, Relayed!Respond, Relayed!Returned,
         Relayed!ReplyInPlace, Relayed!Steer, Relayed!Upset
<1> QED
  BY <1>4, <1>5, <1>6, <1>7

LEMMA AnswersStep ==
  ASSUME AnswersInv, [Relayed!Next]_(Relayed!vars)
  PROVE  AnswersInv'
<1>0. /\ case \in Cases /\ log \in Seq(Turn) /\ upsets \in Nat
      /\ st \in [Relayed!Sends -> Stages] /\ queue \in Seq(Relayed!Sends) /\ Lined
  BY DEF AnswersInv, AnswersTyped
<1>1. ASSUME UNCHANGED <<case, ask, asks, box, withdrawn, st, queue>>,
             upsets' \in {upsets, upsets + 1}, log' \in Seq(Turn),
             \A r \in Relayed!Sends :
               Places(log', Relayed!User(r)) = Places(log, Relayed!User(r))
      PROVE  AnswersInv'
  <2>1. Lined'
    BY <1>0, <1>1 DEF Lined
  <2>2. \A q \in Relayed!Questions : Advances(q)
    BY <1>0, <1>1, SendsAre DEF Advances
  <2>3. upsets' \in Nat /\ upsets' >= upsets
    BY <1>0, <1>1
  <2> QED
    BY <1>0, <1>1, <2>1, <2>2, <2>3, SendsAdvance
<1> USE DEF Relayed!work, Relayed!questions, Relayed!inbox, Relayed!notes
<1>2. CASE Relayed!Prompt \/ Relayed!Fold \/ Relayed!RouterEnds \/ Relayed!Answered
  BY <1>0, <1>1, <1>2
     DEF Relayed!Prompt, Relayed!Fold, Relayed!Upset, Relayed!RouterEnds, Relayed!Answered
<1>3. CASE \E s \in Relayed!Dispatches : Relayed!Note(s) \/ Relayed!ReadTurns(s)
  BY <1>0, <1>1, <1>3 DEF Relayed!Note, Relayed!ReadTurns
<1>4. CASE UNCHANGED Relayed!vars
  BY <1>0, <1>1, <1>4 DEF Relayed!vars
<1>5. ASSUME NEW s \in Relayed!Sends, Relayed!Write(s) PROVE AnswersInv'
  <2>1. log' = Append(log, Relayed!Says(s, FALSE))
        /\ UNCHANGED <<case, ask, asks, box, withdrawn, st, queue, upsets>>
    BY <1>5 DEF Relayed!Write
  <2> QED
    BY <1>0, <1>1, <2>1, Saying
<1> QED
  BY <1>2, <1>3, <1>4, <1>5, RelayKeeps, ReleaseSendKeeps, StopKeeps, WithdrawKeeps,
     QuestionKeeps
     DEF Relayed!Next

(***************************************************************************)
(* What was decided of a session.                                          *)
(***************************************************************************)
LEMMA MetaInit == Meta!Init => MetaInv
<1> SUFFICES ASSUME Meta!Init PROVE MetaInv
  OBVIOUS
<1> USE DEF Meta!Init, Meta!Nothing
<1>1. MetaTyped
  BY DEF MetaTyped, Decided
<1>2. Spoken(metaDisk) /\ (trusted <=> metaDisk.approval \/ metaLegacy)
  BY DEF Spoken
<1> QED
  BY <1>1, <1>2 DEF MetaInv, OnDisk, Faultless

LEMMA MetaKeptIs == MetaInv => Meta!LastWordStands /\ Meta!Outlives
BY DEF MetaInv, MetaTyped, Decided, OnDisk, Faultless, Spoken, Meta!LastWordStands,
       Meta!Outlives, Meta!IsArchived

\* A change is saved, or the save fails, and then nothing is promised of the last word.
LEMMA ChangeKeeps ==
  ASSUME MetaInv, metaUp \in {"importing", "yes"}, metaUp' \in {"removing", "yes"},
         metaUp = "yes" => metaUp' = "yes", metaUp = "importing" => metaUp' = "removing",
         metaLegacy' = metaLegacy,
         meta' \in Decided, trusted' \in BOOLEAN,
         word' \in [says : {"none", "archive", "show"}, stale : BOOLEAN],
         Meta!Becomes(meta') \/ Meta!Persist,
         metaFails = 0 =>
           Spoken(meta)' /\ meta'.approval = trusted'
             /\ (trusted' <=> meta'.approval \/ metaLegacy)
  PROVE  MetaInv'
<1> USE DEF MetaInv
<1>1. CASE metaDisk' = meta' /\ metaUnsaved' = FALSE /\ metaFails' = metaFails
  BY <1>1 DEF MetaTyped, OnDisk, Faultless, Spoken
<1>2. CASE metaFails' = metaFails + 1 /\ metaUnsaved' = TRUE /\ metaDisk' = metaDisk
  BY <1>2 DEF MetaTyped, OnDisk, Faultless
<1>3. CASE meta' = meta /\ UNCHANGED <<metaDisk, metaUnsaved, metaFails>>
  <2>1. CASE metaFails = 0
    BY <1>3, <2>1 DEF MetaTyped, OnDisk, Faultless, Spoken
  <2>2. CASE metaFails # 0
    BY <1>3, <2>2 DEF MetaTyped, OnDisk, Faultless
  <2> QED
    BY <2>1, <2>2
<1> QED
  BY <1>1, <1>2, <1>3 DEF Meta!Becomes, Meta!Persist

LEMMA ActsKeep ==
  ASSUME MetaInv, Meta!Acts,
         \/ Meta!Archive \/ Meta!Unarchive \/ (\E on \in BOOLEAN : Meta!Pin(on))
         \/ (\E t \in Meta!Texts, on \in BOOLEAN : Meta!SetText(t, on)),
         UNCHANGED trusted
  PROVE  MetaInv'
<1> USE DEF MetaInv, MetaTyped, OnDisk, Faultless
<1>0. /\ metaUp = "yes" /\ metaUp' = "yes" /\ metaLegacy' = metaLegacy /\ meta \in Decided
      /\ UNCHANGED <<now, lastEvent, trusted>>
  BY DEF Meta!Acts
<1>1. metaFails = 0 => Spoken(meta) /\ meta.approval = trusted /\ ~metaLegacy
  BY <1>0 DEF Spoken
<1>2. CASE Meta!Archive
  <2>1. /\ meta' = [meta EXCEPT !.pinned = FALSE, !.archived = "archived"]
        /\ Meta!Becomes(meta')
    BY <1>2 DEF Meta!Archive, Meta!Becomes
  <2>2. word' = [says |-> "archive", stale |-> Meta!Stale] /\ Meta!Stale \in BOOLEAN
    BY <1>2 DEF Meta!Archive, Meta!Says, Meta!Stale
  <2>3. /\ meta' \in Decided /\ meta'.archived = "archived"
        /\ meta'.approval = meta.approval
    BY <1>0, <2>1 DEF Decided
  <2>4. word'.says = "archive" /\ word' \in [says : {"none", "archive", "show"}, stale : BOOLEAN]
    BY <2>2
  <2> QED
    BY <1>0, <1>1, <2>1, <2>3, <2>4, ChangeKeeps DEF Spoken
<1>3. CASE Meta!Unarchive
  <2>1. meta' = [meta EXCEPT !.archived = Meta!Shown] /\ Meta!Becomes(meta')
    BY <1>3 DEF Meta!Unarchive, Meta!Becomes
  <2>2. word' = [says |-> "show", stale |-> Meta!Stale] /\ Meta!Stale \in BOOLEAN
    BY <1>3 DEF Meta!Unarchive, Meta!Says, Meta!Stale
  <2> QED
    BY <1>0, <1>1, <2>1, <2>2, ChangeKeeps DEF Meta!Shown, Meta!Fresh, Decided, Spoken
<1>4. ASSUME NEW on \in BOOLEAN, Meta!Pin(on) PROVE MetaInv'
  <2>1. meta' = [meta EXCEPT !.pinned = on] /\ Meta!Becomes(meta') /\ word' = word
    BY <1>4 DEF Meta!Pin, Meta!Becomes
  <2> QED
    BY <1>0, <1>1, <2>1, ChangeKeeps DEF Decided, Spoken
<1>5. ASSUME NEW t \in Meta!Texts, NEW on \in BOOLEAN, Meta!SetText(t, on) PROVE MetaInv'
  <2>1. PICK s \in SUBSET Meta!Texts : meta' = [meta EXCEPT !.set = s]
    BY <1>0, <1>5 DEF Meta!SetText, Meta!Becomes, Decided
  <2>2. (Meta!Becomes(meta') \/ Meta!Persist) /\ word' = word
    BY <1>5 DEF Meta!SetText, Meta!Becomes
  <2> QED
    BY <1>0, <1>1, <2>1, <2>2, ChangeKeeps DEF Decided, Spoken
<1> QED
  BY <1>2, <1>3, <1>4, <1>5

LEMMA ApprovalKeeps ==
  ASSUME MetaInv, Meta!Acts, Meta!Forget \/ \E on \in BOOLEAN : Meta!SetApproval(on)
  PROVE  MetaInv'
<1> USE DEF MetaInv, MetaTyped, OnDisk, Faultless
<1>0. /\ metaUp = "yes" /\ metaUp' = "yes" /\ metaLegacy' = metaLegacy /\ meta \in Decided
  BY DEF Meta!Acts
<1>1. metaFails = 0 => Spoken(meta) /\ meta.approval = trusted /\ ~metaLegacy
  BY <1>0 DEF Spoken
<1>2. CASE Meta!Forget
  <2>1. /\ meta' = Meta!Nothing /\ Meta!Becomes(meta') /\ trusted' = FALSE
        /\ word' = [says |-> "none", stale |-> FALSE]
    BY <1>2 DEF Meta!Forget, Meta!Becomes
  <2> QED
    BY <1>0, <1>1, <2>1, ChangeKeeps DEF Meta!Nothing, Meta!Texts, Decided, Spoken
<1>3. ASSUME NEW on \in BOOLEAN, Meta!SetApproval(on) PROVE MetaInv'
  <2>1. /\ meta' = [meta EXCEPT !.approval = on] /\ Meta!Becomes(meta') /\ trusted' = on
        /\ word' = word
    BY <1>3 DEF Meta!SetApproval, Meta!Becomes
  <2> QED
    BY <1>0, <1>1, <2>1, ChangeKeeps DEF Decided, Spoken
<1> QED
  BY <1>2, <1>3

LEMMA ImportKeeps == ASSUME MetaInv, Meta!Import PROVE MetaInv'
<1> USE DEF MetaInv, MetaTyped, OnDisk, Faultless
<1>1. /\ metaUp = "importing" /\ metaUp' = "removing" /\ metaLegacy' = metaLegacy
      /\ UNCHANGED <<word, trusted>> /\ meta \in Decided
      /\ meta' = [meta EXCEPT !.approval = @ \/ metaLegacy]
  BY DEF Meta!Import, Meta!Imported
<1>2. CASE metaLegacy
  <2>1. meta' = [meta EXCEPT !.approval = TRUE]
    BY <1>1, <1>2
  <2>2. meta' \in Decided /\ meta'.approval = TRUE /\ meta'.archived = meta.archived
    BY <1>1, <2>1 DEF Decided
  <2>3. metaFails = 0 => trusted = TRUE /\ Spoken(meta)
    BY <1>1, <1>2 DEF Spoken
  <2>4. Meta!Persist
    BY <1>2 DEF Meta!Import
  <2> QED
    BY <1>1, <1>2, <2>2, <2>3, <2>4, ChangeKeeps DEF Spoken
<1>3. CASE ~metaLegacy
  <2>1. meta.approval \in BOOLEAN /\ meta' = [meta EXCEPT !.approval = meta.approval]
    BY <1>1, <1>3 DEF Decided
  <2>2. meta' = meta
    BY <1>1, <2>1 DEF Decided
  <2>3. UNCHANGED <<metaDisk, metaUnsaved, metaFails>>
    BY <1>3 DEF Meta!Import
  <2>4. metaFails = 0 => metaDisk.approval = trusted
    <3>1. ASSUME metaFails = 0 PROVE metaDisk.approval <=> trusted
      BY <1>1, <1>3, <3>1
    <3>2. metaDisk.approval \in BOOLEAN /\ trusted \in BOOLEAN
      BY DEF Decided
    <3> QED
      BY <3>1, <3>2
  <2> QED
    BY <1>1, <2>2, <2>3, <2>4 DEF Spoken
<1> QED
  BY <1>2, <1>3

LEMMA MetaStep == ASSUME MetaInv, [Meta!Next]_(Meta!vars) PROVE MetaInv'
<1> USE DEF MetaInv, MetaTyped, OnDisk, Faultless, Spoken
<1>1. CASE Meta!Start
  BY <1>1 DEF Meta!Start
<1>2. CASE Meta!Removed
  <2>1. CASE metaLegacy' = FALSE /\ metaFails' = metaFails
    BY <1>2, <2>1 DEF Meta!Removed
  <2>2. CASE metaFails' = metaFails + 1 /\ metaLegacy' = metaLegacy
    BY <1>2, <2>2 DEF Meta!Removed
  <2> QED
    BY <1>2, <2>1, <2>2 DEF Meta!Removed
<1>3. CASE Meta!Crash
  BY <1>3 DEF Meta!Crash
<1>4. CASE Meta!Tick \/ Meta!Event \/ UNCHANGED Meta!vars
  BY <1>4 DEF Meta!Tick, Meta!Event, Meta!vars
<1> QED
  BY <1>1, <1>2, <1>3, <1>4, ActsKeep, ApprovalKeeps, ImportKeeps DEF Meta!Next

(***************************************************************************)
(* Lists of agents and their index.                                        *)
(***************************************************************************)
LEMMA NotUnset ==
  /\ \A ps \in Lists : ps # Unset
  /\ \A n \in Nat : n # Unset
  /\ \A g \in Stored : g # Unset
<1>1. \A g \in Stored :
        g \in [agents : Seq(Agents) \cup {Unset}, schedules : Nat \cup {Unset},
               router : Nat, continues : BOOLEAN]
  BY DEF Stored, Lists
<1> QED
  BY <1>1, DeliveriesAssumption DEF Agents, Lists

NamesOf(ps) == {ps[i].name : i \in DOMAIN ps}

LEMMA IndexIs ==
  ASSUME NEW ps \in Lists
  PROVE  /\ DOMAIN Config!Index(ps) = NamesOf(ps)
         /\ Config!Index(ps) \in [NamesOf(ps) -> Agents]
         /\ \A i \in DOMAIN ps : Config!Index(ps)[ps[i].name] = ps[i]
<1> DEFINE index == [n \in NamesOf(ps) |->
                      CHOOSE p \in Config!Range(ps) : p.name = n]
<1>1. Config!Index(ps) = index
  BY DEF Config!Index, Config!Range, NamesOf
<1>2. ASSUME NEW i \in DOMAIN ps PROVE index[ps[i].name] = ps[i]
  <2>1. ps[i] \in Config!Range(ps)
    BY DEF Config!Range
  <2>2. \A p \in Config!Range(ps) : p.name = ps[i].name => p = ps[i]
    BY DEF Config!Range, Lists
  <2>3. (CHOOSE p \in Config!Range(ps) : p.name = ps[i].name) = ps[i]
    BY <2>1, <2>2
  <2> QED
    BY <2>3 DEF NamesOf
<1>3. ASSUME NEW n \in NamesOf(ps) PROVE index[n] \in Agents
  <2>1. PICK i \in DOMAIN ps : n = ps[i].name
    BY DEF NamesOf
  <2>2. ps[i] \in Agents
    BY DEF Lists
  <2>3. index[ps[i].name] = ps[i]
    BY <1>2
  <2> HIDE DEF index
  <2> QED
    BY <2>1, <2>2, <2>3
<1>4. index \in [NamesOf(ps) -> Agents]
  BY <1>3
<1> QED
  BY <1>1, <1>2, <1>4

\* There is one index.
LEMMA IndexOnly ==
  ASSUME NEW ps \in Lists, NEW ix \in [NamesOf(ps) -> Agents],
         \A i \in DOMAIN ps : ix[ps[i].name] = ps[i]
  PROVE  ix = Config!Index(ps)
<1> DEFINE index == Config!Index(ps)
<1>1. index \in [NamesOf(ps) -> Agents] /\ \A i \in DOMAIN ps : index[ps[i].name] = ps[i]
  BY IndexIs
<1> HIDE DEF index
<1>2. ASSUME NEW n \in NamesOf(ps) PROVE ix[n] = index[n]
  BY <1>1 DEF NamesOf
<1>3. ix = index
  BY <1>1, <1>2
<1> QED
  BY <1>3 DEF index

\* The index has as many names as the list has agents.
LEMMA IndexCounts ==
  ASSUME NEW ps \in Lists
  PROVE  Config!Cardinality(DOMAIN Config!Index(ps)) = Len(ps)
<1> DEFINE b == [i \in 1 .. Len(ps) |-> ps[i].name]
<1>1. Len(ps) \in Nat /\ DOMAIN ps = 1 .. Len(ps)
  BY DEF Lists
<1>2. b \in Bijection(1 .. Len(ps), NamesOf(ps))
  BY <1>1 DEF Bijection, Injection, Surjection, IsInjective, NamesOf, Lists
<1>3. Cardinality(1 .. Len(ps)) = Len(ps) /\ IsFiniteSet(1 .. Len(ps))
  <2>1. /\ IsFiniteSet(1 .. Len(ps))
        /\ Cardinality(1 .. Len(ps)) = IF 1 > Len(ps) THEN 0 ELSE Len(ps) - 1 + 1
    BY <1>1, FS_Interval, 1 \in Int, Len(ps) \in Int
  <2> QED
    BY <1>1, <2>1
<1>4. Cardinality(NamesOf(ps)) = Len(ps)
  BY <1>2, <1>3, FS_Bijection DEF ExistsBijection
<1>5. Config!Cardinality(NamesOf(ps)) = Cardinality(NamesOf(ps))
  BY DEF Config!Cardinality, Cardinality
<1> QED
  BY <1>4, <1>5, IndexIs

(***************************************************************************)
(* The components' steps.                                                  *)
(***************************************************************************)
LEMMA NoAgents == <<>> \in Lists
BY DEF Lists

LEMMA SettingsInit == Config!Init => SettingsInv
<1> SUFFICES ASSUME Config!Init PROVE SettingsInv
  OBVIOUS
<1> USE DEF Config!Init, Config!Empty, Config!Sections
<1>1. <<>> \in Lists
  BY NoAgents
<1>2. \A n \in Names, v \in Nat : <<Config!Agent(n, v)>> \in Lists
  BY DEF Lists, Agents, Config!Agent
<1>3. (CHOOSE n \in Names : n # DefaultName) \in Names
  BY DeliveriesAssumption
<1>4. /\ settingsDisk \in Stored \cup {Unset}
      /\ settingsDisk # Unset => settingsDisk.schedules = Unset
      /\ settingsDisk # Unset => settingsDisk.agents \in Lists
  <2>1. CASE settingsDisk = Unset
    BY <2>1
  <2>2. CASE settingsDisk # Unset
    <3> DEFINE n == CHOOSE m \in Names : m # DefaultName
    <3>1. n \in Names
      BY <1>3
    <3>2. settingsDisk = [Config!Empty EXCEPT !.agents = <<Config!Agent(n, 0)>>]
      BY <2>2
    <3> HIDE DEF n
    <3>3. <<Config!Agent(n, 0)>> \in Lists
      BY <1>2, <3>1
    <3> QED
      BY <3>2, <3>3 DEF Stored
  <2> QED
    BY <2>1, <2>2
<1>5. settingsLegacy \in [agents : Lists \cup {Unset}, schedules : Nat \cup {Unset}]
  BY <1>2
<1>6. SettingsTyped
  BY <1>1, <1>4, <1>5 DEF SettingsTyped, Stored
<1>7. Config!Kept
  BY <1>4, NotUnset DEF Config!Kept, Config!Loaded
<1>8. Config!Indexed
  <2>1. byName \in [NamesOf(profiles) -> Agents] /\ DOMAIN profiles = {}
    BY DEF NamesOf
  <2>2. byName = Config!Index(profiles)
    BY <1>1, <2>1, IndexOnly
  <2> QED
    BY <1>1, <2>2, IndexCounts DEF Config!Indexed
<1> QED
  BY <1>6, <1>7, <1>8 DEF SettingsInv, Read, TakenOver

(***************************************************************************)
(* The agents' changes.                                                    *)
(***************************************************************************)
LEMMA RemovedIs ==
  ASSUME NEW s \in Seq(Agents), NEW i \in DOMAIN s, NEW r, r = Config!RemoveAt(s, i)
  PROVE  /\ r \in Seq(Agents) /\ Len(r) = Len(s) - 1 /\ DOMAIN r = 1 .. Len(s) - 1
         /\ \A k \in 1 .. Len(s) - 1 : r[k] = IF k < i THEN s[k] ELSE s[k + 1]
         /\ Config!InsertAt(r, i, s[i]) = s
<1> DEFINE head == SubSeq(s, 1, i - 1)
           tail == SubSeq(s, i + 1, Len(s))
<1>1. Len(s) \in Nat /\ DOMAIN s = 1 .. Len(s) /\ i \in 1 .. Len(s) /\ s[i] \in Agents
  OBVIOUS
<1>2. /\ head \in Seq(Agents) /\ Len(head) = i - 1
      /\ \A k \in 1 .. i - 1 : head[k] = s[k]
  BY <1>1
<1>3. /\ tail \in Seq(Agents) /\ Len(tail) = Len(s) - i
      /\ \A k \in 1 .. Len(s) - i : tail[k] = s[k + i]
  BY <1>1
<1>4. r = head \o tail
  BY DEF Config!RemoveAt
<1> HIDE DEF head, tail
<1>5. /\ r \in Seq(Agents) /\ Len(r) = Len(s) - 1 /\ DOMAIN r = 1 .. Len(s) - 1
      /\ \A k \in 1 .. Len(s) - 1 : r[k] = IF k < i THEN s[k] ELSE s[k + 1]
  <2>1. /\ r \in Seq(Agents) /\ Len(r) = Len(head) + Len(tail)
        /\ \A k \in 1 .. Len(head) + Len(tail) :
             r[k] = IF k <= Len(head) THEN head[k] ELSE tail[k - Len(head)]
    BY <1>2, <1>3, <1>4, ConcatProperties
  <2>2. Len(r) = Len(s) - 1 /\ DOMAIN r = 1 .. Len(s) - 1
    BY <1>1, <1>2, <1>3, <2>1
  <2>3. ASSUME NEW k \in 1 .. Len(s) - 1 PROVE r[k] = IF k < i THEN s[k] ELSE s[k + 1]
    <3>1. CASE k < i
      BY <1>1, <1>2, <1>3, <2>1, <3>1
    <3>2. CASE ~(k < i)
      <4>1. k - (i - 1) \in 1 .. Len(s) - i /\ (k - (i - 1)) + i = k + 1
        BY <1>1, <3>2
      <4>2. r[k] = tail[k - (i - 1)] /\ tail[k - (i - 1)] = s[(k - (i - 1)) + i]
        <5>1. k \in 1 .. Len(head) + Len(tail) /\ ~(k <= Len(head)) /\ k - Len(head) = k - (i - 1)
          BY <1>1, <1>2, <1>3, <3>2
        <5>2. r[k] = tail[k - (i - 1)]
          BY <2>1, <5>1
        <5>3. tail[k - (i - 1)] = s[(k - (i - 1)) + i]
          BY <1>3, <4>1
        <5> QED
          BY <5>2, <5>3
      <4> QED
        BY <3>2, <4>1, <4>2
    <3> QED
      BY <3>1, <3>2
  <2> QED
    BY <2>1, <2>2, <2>3
<1> DEFINE first == SubSeq(r, 1, i - 1)
           last == SubSeq(r, i, Len(r))
<1>6. /\ first \in Seq(Agents) /\ Len(first) = i - 1
      /\ \A k \in 1 .. i - 1 : first[k] = s[k]
  BY <1>1, <1>5
<1>7. /\ last \in Seq(Agents) /\ Len(last) = Len(s) - i
      /\ \A k \in 1 .. Len(s) - i : last[k] = s[k + i]
  BY <1>1, <1>5
<1>8. Config!InsertAt(r, i, s[i]) = first \o <<s[i]>> \o last
  BY DEF Config!InsertAt
<1> HIDE DEF first, last
<1>9. /\ first \o <<s[i]>> \in Seq(Agents) /\ Len(first \o <<s[i]>>) = i
      /\ \A k \in 1 .. i : (first \o <<s[i]>>)[k] = s[k]
  BY <1>1, <1>6
<1> DEFINE front == first \o <<s[i]>>
<1> HIDE DEF front
<1>a. front \in Seq(Agents) /\ Len(front) = i /\ \A k \in 1 .. i : front[k] = s[k]
  BY <1>9 DEF front
<1>10. /\ front \o last \in Seq(Agents) /\ Len(front \o last) = Len(s)
       /\ \A k \in 1 .. Len(s) : (front \o last)[k] = s[k]
  <2>1. /\ front \o last \in Seq(Agents) /\ Len(front \o last) = Len(front) + Len(last)
        /\ \A k \in 1 .. Len(front) + Len(last) :
             (front \o last)[k] = IF k <= Len(front) THEN front[k] ELSE last[k - Len(front)]
    <3>1. front \in Seq(Agents) /\ last \in Seq(Agents)
      BY <1>7, <1>a
    <3> QED
      BY <3>1, ConcatProperties
  <2>2. Len(front) = i /\ \A k \in 1 .. i : front[k] = s[k]
    BY <1>a
  <2>3. ASSUME NEW k \in 1 .. Len(s) PROVE (front \o last)[k] = s[k]
    <3>1. CASE k <= i
      BY <1>1, <1>7, <2>1, <2>2, <3>1
    <3>2. CASE ~(k <= i)
      <4>1. k - i \in 1 .. Len(s) - i /\ (k - i) + i = k
        BY <1>1, <3>2
      <4>2. k \in 1 .. Len(front) + Len(last) /\ ~(k <= Len(front)) /\ k - Len(front) = k - i
        BY <1>1, <1>7, <2>2, <3>2
      <4>3. (front \o last)[k] = last[k - i]
        BY <2>1, <4>2
      <4>4. last[k - i] = s[(k - i) + i]
        BY <1>7, <4>1
      <4> QED
        BY <4>1, <4>3, <4>4
    <3> QED
      BY <3>1, <3>2
  <2> QED
    BY <1>1, <1>7, <2>1, <2>2, <2>3
<1>11. front \o last = s
  BY <1>1, <1>10, SeqEqual
<1> QED
  BY <1>5, <1>8, <1>11 DEF front

\* What a change keeps, saved or not.
LEMMA ChangesKeep ==
  ASSUME SettingsInv, NEW ps \in Lists, NEW ix, ix = Config!Index(ps), NEW ixBack,
         ixBack = byName, Config!Changes(ps, ix, profiles, ixBack)
  PROVE  SettingsInv'
<1> USE DEF SettingsInv, SettingsTyped, Config!Changes, Config!Acts, Config!Sections
<1>1. up = "yes" /\ up' = "yes" /\ tasks' = tasks /\ UNCHANGED <<settingsLegacy, spoiled>>
  OBVIOUS
<1>2. ASSUME Config!Saves("agents", ps), profiles' = ps, byName' = ix,
             settingsAcked' = [settingsAcked EXCEPT !.agents = ps]
      PROVE  SettingsInv'
  <2>1. f' = [f EXCEPT !.agents = ps] /\ settingsDisk' = f' /\ f' \in Stored
    BY <1>2 DEF Config!Saves, Config!Lands, Stored
  <2>2. /\ f'.agents = ps /\ f'.schedules = f.schedules /\ settingsDisk' # Unset
        /\ ps # Unset
    BY <2>1, NotUnset DEF Stored
  <2>3. Config!Loaded' = f'
    BY <2>1, <2>2 DEF Config!Loaded
  <2>4. SettingsTyped'
    BY <1>1, <1>2, <2>1
  <2>5. Read' /\ TakenOver'
    BY <1>1, <2>3 DEF Read, TakenOver
  <2>6. Config!Kept'
    BY <1>1, <1>2, <2>2, <2>3 DEF Config!Kept, Config!Listed, Read
  <2>7. Config!Indexed'
    BY <1>2, IndexCounts DEF Config!Indexed
  <2> QED
    BY <2>4, <2>5, <2>6, <2>7
<1>3. ASSUME Config!FailsToSave, profiles' = profiles, byName' = ixBack,
             UNCHANGED settingsAcked
      PROVE  SettingsInv'
  BY <1>1, <1>3
     DEF Config!FailsToSave, Config!Fails, Read, TakenOver, Config!Kept, Config!Loaded,
         Config!Indexed
<1> QED
  BY <1>2, <1>3

\* A list with an agent at its end, whose name is free.
LEMMA CreatedIs ==
  ASSUME NEW l \in Lists, NEW p \in Agents, p.name \notin NamesOf(l)
  PROVE  LET ps == Append(l, p)
             ix == Config!With(Config!Index(l), p)
         IN  /\ ps \in Lists /\ ix = Config!Index(ps) /\ Config!Front(ps) = l
             /\ Config!Without(ix, p.name) = Config!Index(l)
<1> DEFINE ps == Append(l, p)
           ix == Config!With(Config!Index(l), p)
<1>1. /\ l \in Seq(Agents) /\ Len(l) \in Nat /\ DOMAIN l = 1 .. Len(l)
      /\ ps \in Seq(Agents) /\ DOMAIN ps = 1 .. Len(l) + 1
      /\ \A i \in 1 .. Len(l) : ps[i] = l[i] /\ l[i].name \in NamesOf(l)
      /\ ps[Len(l) + 1] = p
  BY DEF Lists, NamesOf
<1>2. ps \in Lists
  <2> SUFFICES ASSUME NEW i \in DOMAIN ps, NEW j \in DOMAIN ps, ps[i].name = ps[j].name
               PROVE  i = j
    BY <1>1 DEF Lists
  <2> QED
    BY <1>1 DEF Lists
<1>3. NamesOf(ps) = NamesOf(l) \cup {p.name}
  BY <1>1 DEF NamesOf
<1>4. ix = [n \in NamesOf(ps) |-> IF n = p.name THEN p ELSE Config!Index(l)[n]]
  BY <1>3, IndexIs DEF Config!With
<1>5. \A i \in DOMAIN ps : ix[ps[i].name] = ps[i]
  BY <1>1, <1>3, <1>4, IndexIs
<1>6. ix = Config!Index(ps)
  <2>1. ix \in [NamesOf(ps) -> Agents]
    BY <1>3, <1>4, IndexIs
  <2> QED
    BY <1>2, <1>5, <2>1, IndexOnly
<1>7. Config!Front(ps) = l
  <2>1. Config!Front(ps) = SubSeq(ps, 1, Len(ps) - 1) /\ Len(ps) = Len(l) + 1
    BY DEF Config!Front
  <2>2. /\ SubSeq(ps, 1, Len(l)) \in Seq(Agents) /\ Len(SubSeq(ps, 1, Len(l))) = Len(l)
        /\ \A k \in 1 .. Len(l) : SubSeq(ps, 1, Len(l))[k] = l[k]
    BY <1>1
  <2>3. SubSeq(ps, 1, Len(l)) = l
    BY <1>1, <2>2, SeqEqual
  <2> QED
    BY <1>1, <2>1, <2>3
<1>8. Config!Without(ix, p.name) = [n \in NamesOf(l) |-> Config!Index(l)[n]]
  BY <1>3, <1>4 DEF Config!Without
<1>9. [n \in NamesOf(l) |-> Config!Index(l)[n]] = Config!Index(l)
  BY IndexIs
<1> QED
  BY <1>2, <1>6, <1>7, <1>8, <1>9

LEMMA PlaceIs ==
  ASSUME NEW l \in Lists, NEW i \in DOMAIN l
  PROVE  Config!At(l, l[i].name) = i
<1>1. \A j \in DOMAIN l : l[j].name = l[i].name => j = i
  BY DEF Lists
<1> QED
  BY <1>1 DEF Config!At

\* A list with an agent replaced, whose name stays or is free, and what unmakes it.
LEMMA UpdatedIs ==
  ASSUME NEW l \in Lists, NEW i \in DOMAIN l, NEW p \in Agents,
         p.name = l[i].name \/ p.name \notin NamesOf(l)
  PROVE  LET ps == [l EXCEPT ![i] = p]
             ix == Config!With(Config!Without(Config!Index(l), l[i].name), p)
         IN  /\ ps \in Lists /\ ix = Config!Index(ps)
             /\ Config!At(ps, p.name) = i /\ [ps EXCEPT ![i] = l[i]] = l
             /\ Config!RenamedBack(ix, p, l[i]) = Config!Index(l)
<1> DEFINE ps == [l EXCEPT ![i] = p]
           ix == Config!With(Config!Without(Config!Index(l), l[i].name), p)
<1>1. /\ l \in Seq(Agents) /\ Len(l) \in Nat /\ DOMAIN l = 1 .. Len(l)
      /\ \A j \in 1 .. Len(l) : l[j] \in Agents /\ l[j].name \in NamesOf(l)
      /\ \A j \in 1 .. Len(l) : l[j].name = l[i].name => j = i
  BY DEF Lists, NamesOf
<1>2. /\ ps \in Seq(Agents) /\ DOMAIN ps = 1 .. Len(l) /\ ps[i] = p
      /\ \A j \in 1 .. Len(l) : j # i => ps[j] = l[j]
  BY <1>1
<1>3. ps \in Lists
  <2> SUFFICES ASSUME NEW j \in DOMAIN ps, NEW k \in DOMAIN ps, ps[j].name = ps[k].name
               PROVE  j = k
    BY <1>2 DEF Lists
  <2> QED
    BY <1>1, <1>2 DEF Lists
<1>4. NamesOf(ps) = (NamesOf(l) \ {l[i].name}) \cup {p.name}
  <2>1. ASSUME NEW n \in NamesOf(ps) PROVE n \in (NamesOf(l) \ {l[i].name}) \cup {p.name}
    <3>1. PICK j \in 1 .. Len(l) : n = ps[j].name
      BY <1>2 DEF NamesOf
    <3> QED
      BY <1>1, <1>2, <3>1
  <2>2. ASSUME NEW n \in NamesOf(l), n # l[i].name PROVE n \in NamesOf(ps)
    <3>1. PICK j \in 1 .. Len(l) : n = l[j].name
      BY <1>1 DEF NamesOf
    <3> QED
      BY <1>2, <2>2, <3>1 DEF NamesOf
  <2>3. p.name \in NamesOf(ps)
    BY <1>1, <1>2 DEF NamesOf
  <2> QED
    BY <2>1, <2>2, <2>3
<1>5. ix = [n \in NamesOf(ps) |-> IF n = p.name THEN p ELSE Config!Index(l)[n]]
  BY <1>4, IndexIs DEF Config!With, Config!Without
<1>6. ix = Config!Index(ps)
  <2>1. ix \in [NamesOf(ps) -> Agents]
    BY <1>4, <1>5, IndexIs
  <2>2. \A j \in DOMAIN ps : ix[ps[j].name] = ps[j]
    <3> SUFFICES ASSUME NEW j \in 1 .. Len(l) PROVE ix[ps[j].name] = ps[j]
      BY <1>2
    <3>1. ps[j].name \in NamesOf(ps)
      BY <1>2 DEF NamesOf
    <3>2. CASE j = i
      BY <1>2, <1>5, <3>1, <3>2
    <3>3. CASE j # i
      BY <1>1, <1>2, <1>5, <3>1, <3>3, IndexIs
    <3> QED
      BY <3>2, <3>3
  <2> QED
    BY <1>3, <2>1, <2>2, IndexOnly
<1>7. Config!At(ps, p.name) = i
  BY <1>1, <1>2, <1>3, PlaceIs
<1>8. [ps EXCEPT ![i] = l[i]] = l
  <2> DEFINE back == [ps EXCEPT ![i] = l[i]]
  <2>1. back \in Seq(Agents) /\ Len(back) = Len(l) /\ \A j \in 1 .. Len(l) : back[j] = l[j]
    BY <1>1, <1>2
  <2> HIDE DEF back
  <2>2. back = l
    BY <1>1, <2>1, SeqEqual
  <2> QED
    BY <2>2 DEF back
<1>9. Config!RenamedBack(ix, p, l[i]) = Config!Index(l)
  <2> DEFINE back == Config!RenamedBack(ix, p, l[i])
  <2>1. back = [n \in NamesOf(l) |-> IF n = l[i].name THEN l[i] ELSE ix[n]]
    <3>1. (NamesOf(ps) \ {p.name}) \cup {l[i].name} = NamesOf(l)
      BY <1>1, <1>4
    <3> QED
      BY <1>5, <3>1 DEF Config!RenamedBack, Config!With, Config!Without
  <2>2. \A n \in NamesOf(l) : n # l[i].name => n \in NamesOf(ps) /\ n # p.name
    BY <1>4
  <2>3. \A n \in NamesOf(l) : n # l[i].name => ix[n] = Config!Index(l)[n]
    BY <1>5, <2>2
  <2>4. Config!Index(l)[l[i].name] = l[i] /\ l[i] \in Agents
    BY <1>1, IndexIs
  <2>5. Config!Index(l) \in [NamesOf(l) -> Agents]
    BY IndexIs
  <2> HIDE DEF back
  <2>6. back \in [NamesOf(l) -> Agents] /\ \A n \in NamesOf(l) : back[n] = Config!Index(l)[n]
    BY <2>1, <2>3, <2>4, <2>5
  <2> QED
    BY <2>5, <2>6 DEF back
<1> QED
  BY <1>3, <1>6, <1>7, <1>8, <1>9

\* A list without one of its agents, and what unmakes it.
LEMMA DeletedIs ==
  ASSUME NEW l \in Lists, NEW i \in DOMAIN l, NEW ps, ps = Config!RemoveAt(l, i),
         NEW ix, ix = Config!Without(Config!Index(l), l[i].name)
  PROVE  /\ ps \in Lists /\ ix = Config!Index(ps)
         /\ Config!InsertAt(ps, i, l[i]) = l
         /\ Config!With(ix, l[i]) = Config!Index(l)
<1>1. /\ l \in Seq(Agents) /\ Len(l) \in Nat /\ DOMAIN l = 1 .. Len(l) /\ i \in 1 .. Len(l)
      /\ \A j \in 1 .. Len(l) : l[j] \in Agents /\ l[j].name \in NamesOf(l)
      /\ \A j, k \in 1 .. Len(l) : l[j].name = l[k].name => j = k
  BY DEF Lists, NamesOf
<1>2. /\ ps \in Seq(Agents) /\ DOMAIN ps = 1 .. Len(l) - 1
      /\ \A k \in 1 .. Len(l) - 1 : ps[k] = IF k < i THEN l[k] ELSE l[k + 1]
      /\ Config!InsertAt(ps, i, l[i]) = l
  <2>1. l \in Seq(Agents)
    BY <1>1
  <2> QED
    BY <2>1, RemovedIs
<1> DEFINE Old(k) == IF k < i THEN k ELSE k + 1
<1>3. \A k \in 1 .. Len(l) - 1 : Old(k) \in 1 .. Len(l) /\ Old(k) # i /\ ps[k] = l[Old(k)]
  BY <1>1, <1>2
<1>4. \A j, k \in 1 .. Len(l) - 1 : Old(j) = Old(k) => j = k
  BY <1>1
<1>5. \A j \in 1 .. Len(l) : j # i => \E k \in 1 .. Len(l) - 1 : Old(k) = j
  <2> SUFFICES ASSUME NEW j \in 1 .. Len(l), j # i
               PROVE  \E k \in 1 .. Len(l) - 1 : Old(k) = j
    OBVIOUS
  <2>1. CASE j < i
    BY <1>1, <2>1
  <2>2. CASE ~(j < i)
    <3>1. j - 1 \in 1 .. Len(l) - 1 /\ Old(j - 1) = j
      BY <1>1, <2>2
    <3> QED
      BY <3>1
  <2> QED
    BY <2>1, <2>2
<1> HIDE DEF Old
<1>6. ps \in Lists
  <2> SUFFICES ASSUME NEW j \in 1 .. Len(l) - 1, NEW k \in 1 .. Len(l) - 1,
                      ps[j].name = ps[k].name
               PROVE  j = k
    BY <1>2 DEF Lists
  <2> QED
    BY <1>1, <1>3, <1>4
<1>7. NamesOf(ps) = NamesOf(l) \ {l[i].name}
  <2>1. ASSUME NEW n \in NamesOf(ps) PROVE n \in NamesOf(l) /\ n # l[i].name
    <3>1. PICK k \in 1 .. Len(l) - 1 : n = ps[k].name
      BY <1>2 DEF NamesOf
    <3> QED
      BY <1>1, <1>3, <3>1
  <2>2. ASSUME NEW n \in NamesOf(l), n # l[i].name PROVE n \in NamesOf(ps)
    <3>1. PICK j \in 1 .. Len(l) : n = l[j].name
      BY <1>1 DEF NamesOf
    <3>2. PICK k \in 1 .. Len(l) - 1 : Old(k) = j
      BY <1>5, <2>2, <3>1
    <3> QED
      BY <1>2, <1>3, <3>1, <3>2 DEF NamesOf
  <2> QED
    BY <2>1, <2>2
<1>8. ix = [n \in NamesOf(ps) |-> Config!Index(l)[n]]
  BY <1>7, IndexIs DEF Config!Without
<1>9. ix = Config!Index(ps)
  <2>1. ix \in [NamesOf(ps) -> Agents]
    BY <1>7, <1>8, IndexIs
  <2>2. ASSUME NEW k \in 1 .. Len(l) - 1 PROVE ix[ps[k].name] = ps[k]
    <3>1. ps[k].name \in NamesOf(ps)
      BY <1>2 DEF NamesOf
    <3> QED
      BY <1>1, <1>3, <1>8, <3>1, IndexIs
  <2> QED
    BY <1>2, <1>6, <2>1, <2>2, IndexOnly
<1>10. Config!With(ix, l[i]) = Config!Index(l)
  <2> DEFINE back == Config!With(ix, l[i])
  <2>1. back = [n \in NamesOf(l) |-> IF n = l[i].name THEN l[i] ELSE ix[n]]
    <3>1. NamesOf(ps) \cup {l[i].name} = NamesOf(l)
      BY <1>1, <1>7
    <3> QED
      BY <1>8, <3>1 DEF Config!With
  <2>2. \A n \in NamesOf(l) : n # l[i].name => ix[n] = Config!Index(l)[n]
    BY <1>7, <1>8
  <2>3. Config!Index(l)[l[i].name] = l[i] /\ l[i] \in Agents
    BY <1>1, IndexIs
  <2>4. Config!Index(l) \in [NamesOf(l) -> Agents]
    BY IndexIs
  <2> HIDE DEF back
  <2>5. back \in [NamesOf(l) -> Agents] /\ \A n \in NamesOf(l) : back[n] = Config!Index(l)[n]
    BY <2>1, <2>2, <2>3, <2>4
  <2> QED
    BY <2>4, <2>5 DEF back
<1> QED
  BY <1>2, <1>6, <1>9, <1>10

LEMMA AgentsKeep ==
  ASSUME SettingsInv, NEW n \in Names,
         \/ Config!Delete(n)
         \/ \E v \in 1 .. 2 : \/ Config!Create(Config!Agent(n, v))
                              \/ \E m \in Names : Config!Update(n, Config!Agent(m, v))
  PROVE  SettingsInv'
<1>0. profiles \in Lists /\ byName = Config!Index(profiles) /\ DOMAIN byName = NamesOf(profiles)
  BY IndexIs DEF SettingsInv, SettingsTyped, Config!Indexed
<1>1. ASSUME NEW p \in Agents, Config!Create(p) PROVE SettingsInv'
  <2> DEFINE ps == Append(profiles, p)
             ix == Config!With(byName, p)
  <2>1. p.name \notin NamesOf(profiles)
    BY <1>0, <1>1 DEF Config!Create
  <2>2. ps = Append(profiles, p) /\ ix = Config!With(Config!Index(profiles), p)
    BY <1>0
  <2>3. Config!Changes(ps, ix, Config!Front(ps), Config!Without(ix, p.name))
    BY <1>1 DEF Config!Create
  <2> HIDE DEF ps, ix
  <2>4. /\ ps \in Lists /\ ix = Config!Index(ps) /\ Config!Front(ps) = profiles
        /\ Config!Without(ix, p.name) = Config!Index(profiles)
    BY <1>0, <2>1, CreatedIs DEF ps, ix
  <2> QED
    BY <1>0, <2>3, <2>4, ChangesKeep
<1>2. ASSUME NEW p \in Agents, Config!Update(n, p) PROVE SettingsInv'
  <2>1. CASE n = DefaultName /\ n \notin DOMAIN byName
    BY <1>1, <1>2, <2>1 DEF Config!Update
  <2>2. CASE ~(n = DefaultName /\ n \notin DOMAIN byName)
    <3>1. n \in DOMAIN byName /\ (p.name # n => p.name \notin DOMAIN byName)
      BY <1>2, <2>2 DEF Config!Update
    <3>2. PICK i \in DOMAIN profiles : n = profiles[i].name
      BY <1>0, <3>1 DEF NamesOf
    <3>3. Config!At(profiles, n) = i /\ byName[n] = profiles[i]
      BY <1>0, <3>2, PlaceIs, IndexIs
    <3> DEFINE ps == [profiles EXCEPT ![i] = p]
               ix == Config!With(Config!Without(byName, n), p)
    <3>4. /\ ps = [profiles EXCEPT ![i] = p]
          /\ ix = Config!With(Config!Without(Config!Index(profiles), profiles[i].name), p)
          /\ p.name = profiles[i].name \/ p.name \notin NamesOf(profiles)
      BY <1>0, <3>1, <3>2
    <3>5. Config!Changes(ps, ix, [ps EXCEPT ![Config!At(ps, p.name)] = profiles[i]],
                         Config!RenamedBack(ix, p, profiles[i]))
      BY <1>2, <2>2, <3>3 DEF Config!Update
    <3> HIDE DEF ps, ix
    <3>6. /\ ps \in Lists /\ ix = Config!Index(ps)
          /\ Config!At(ps, p.name) = i /\ [ps EXCEPT ![i] = profiles[i]] = profiles
          /\ Config!RenamedBack(ix, p, profiles[i]) = Config!Index(profiles)
      BY <1>0, <3>2, <3>4, UpdatedIs DEF ps, ix
    <3>7. Config!Changes(ps, ix, profiles, byName)
      BY <1>0, <3>5, <3>6
    <3> QED
      BY <3>6, <3>7, ChangesKeep
  <2> QED
    BY <2>1, <2>2
<1>3. ASSUME Config!Delete(n) PROVE SettingsInv'
  <2>1. PICK i \in DOMAIN profiles : n = profiles[i].name
    BY <1>0, <1>3 DEF Config!Delete, NamesOf
  <2>2. Config!At(profiles, n) = i /\ byName[n] = profiles[i]
    BY <1>0, <2>1, PlaceIs, IndexIs
  <2> DEFINE ps == Config!RemoveAt(profiles, i)
             ix == Config!Without(byName, n)
  <2>3. /\ ps \in Lists /\ ix = Config!Index(ps)
        /\ Config!InsertAt(ps, i, profiles[i]) = profiles
        /\ Config!With(ix, profiles[i]) = byName
    BY <1>0, <2>1, DeletedIs
  <2>4. Config!Changes(ps, ix, Config!InsertAt(ps, i, profiles[i]), Config!With(ix, profiles[i]))
    BY <1>3, <2>2 DEF Config!Delete
  <2> HIDE DEF ps, ix
  <2> QED
    BY <2>3, <2>4, ChangesKeep
<1>4. \A m \in Names, v \in 1 .. 2 : Config!Agent(m, v) \in Agents
  BY DEF Config!Agent, Agents
<1> QED
  BY <1>1, <1>2, <1>3, <1>4

LEMMA SectionsKeep ==
  ASSUME SettingsInv,
         \/ Config!CommitTasks \/ Config!SetRouterSession
         \/ \E on \in BOOLEAN : Config!SetContinueAtReset(on)
  PROVE  SettingsInv'
<1>a. /\ f \in Stored /\ tasks \in Nat /\ tasks + 1 \in Nat
      /\ \A g \in Stored : g # Unset
  <2>1. f \in Stored /\ tasks \in Nat
    BY DEF SettingsInv, SettingsTyped
  <2>2. tasks + 1 \in Nat
    BY <2>1
  <2> QED
    BY <2>1, <2>2, NotUnset
<1> USE DEF SettingsInv, SettingsTyped, Config!Acts, Config!Saves, Config!Lands,
            Config!Fails, Config!FailsToSave, Config!stores
<1>0. /\ up = "yes" /\ up' = "yes" /\ UNCHANGED <<settingsLegacy, spoiled, profiles, byName>>
  BY DEF Config!CommitTasks, Config!SetRouterSession, Config!SetContinueAtReset
<1>1. Config!Indexed'
  BY <1>0 DEF Config!Indexed
<1>2. ASSUME NEW g \in Stored, f' = g, settingsDisk' = g, g.agents = f.agents,
             \/ g.schedules = f.schedules /\ UNCHANGED <<tasks, settingsAcked>>
             \/ /\ g.schedules = tasks + 1 /\ tasks' = tasks + 1
                /\ settingsAcked' = [settingsAcked EXCEPT !.schedules = tasks + 1]
      PROVE  SettingsInv'
  <2>1. Config!Loaded' = g
    <3>1. g # Unset
      BY <1>a, <1>2
    <3> QED
      BY <1>2, <3>1 DEF Config!Loaded
  <2>2. tasks' \in Nat /\ tasks + 1 # Unset /\ tasks + 1 \in Nat
    BY <1>a, <1>2, NotUnset
  <2>3. SettingsTyped'
    BY <1>0, <1>2, <2>2 DEF Config!Sections
  <2>4. Config!Kept'
    BY <1>0, <1>2, <2>1, <2>2 DEF Config!Kept, Config!Sections, Read
  <2> QED
    BY <1>0, <1>1, <1>2, <2>1, <2>3, <2>4 DEF Read, TakenOver
<1>3. ASSUME NEW g \in Stored, f' = g, settingsDisk' = settingsDisk, g.agents = f.agents,
             g.schedules = f.schedules, UNCHANGED <<tasks, settingsAcked>>
      PROVE  SettingsInv'
  <2>1. Config!Loaded' = Config!Loaded
    BY <1>3 DEF Config!Loaded
  <2>2. SettingsTyped' /\ Config!Kept'
    BY <1>0, <1>3, <2>1 DEF Config!Kept
  <2> QED
    BY <1>0, <1>1, <1>3, <2>1, <2>2 DEF Read, TakenOver
<1>4. CASE Config!CommitTasks
  <2>1. CASE f' = f /\ settingsDisk' = settingsDisk /\ UNCHANGED <<tasks, settingsAcked>>
    BY <1>3, <2>1
  <2>2. CASE /\ f' = [f EXCEPT !.schedules = tasks + 1] /\ settingsDisk' = f'
             /\ tasks' = tasks + 1
             /\ settingsAcked' = [settingsAcked EXCEPT !.schedules = tasks + 1]
    <3> DEFINE g == [f EXCEPT !.schedules = tasks + 1]
    <3>2. g \in Stored /\ g.agents = f.agents /\ g.schedules = tasks + 1
      BY <1>a DEF Stored
    <3> HIDE DEF g
    <3> QED
      BY <1>2, <2>2, <3>2 DEF g
  <2> QED
    BY <1>4, <2>1, <2>2 DEF Config!CommitTasks
<1>5. ASSUME NEW on \in BOOLEAN, Config!SetContinueAtReset(on) PROVE SettingsInv'
  <2> DEFINE g == [f EXCEPT !.continues = on]
  <2>1. g \in Stored /\ g.agents = f.agents /\ g.schedules = f.schedules
    BY DEF Stored
  <2>2. UNCHANGED <<tasks, settingsAcked>>
    BY <1>5 DEF Config!SetContinueAtReset
  <2>3. (f' = g /\ settingsDisk' = g) \/ (f' = f /\ settingsDisk' = settingsDisk)
    BY <1>5 DEF Config!SetContinueAtReset
  <2> HIDE DEF g
  <2> QED
    BY <1>2, <1>3, <2>1, <2>2, <2>3
<1>6. CASE Config!SetRouterSession
  <2> DEFINE g == [f EXCEPT !.router = 1]
  <2>1. g \in Stored /\ g.agents = f.agents /\ g.schedules = f.schedules
    BY DEF Stored
  <2>2. UNCHANGED <<tasks, settingsAcked>>
    BY <1>6 DEF Config!SetRouterSession
  <2>3. f' = g /\ (settingsDisk' = g \/ settingsDisk' = settingsDisk)
    BY <1>6 DEF Config!SetRouterSession
  <2> HIDE DEF g
  <2> QED
    BY <1>2, <1>3, <2>1, <2>2, <2>3
<1> QED
  BY <1>4, <1>5, <1>6

LEMMA OpeningKeeps ==
  ASSUME SettingsInv,
         \/ Config!Start \/ Config!Open \/ Config!Crash \/ Config!Break
         \/ UNCHANGED Config!vars
  PROVE  SettingsInv'
<1> USE DEF SettingsInv, SettingsTyped, Config!files, Config!stores, Config!bounds
<1>1. CASE Config!Start
  <2>1. Config!Loaded \in Stored
    BY NotUnset DEF Config!Loaded, Config!Empty, Stored
  <2>2. Config!Loaded' = Config!Loaded
    BY <1>1 DEF Config!Start, Config!Loaded
  <2>3. SettingsTyped'
    BY <1>1, <2>1 DEF Config!Start
  <2>4. Config!Kept' /\ Config!Indexed'
    BY <1>1, <2>2 DEF Config!Start, Config!Kept, Config!Indexed
  <2> QED
    BY <1>1, <2>2, <2>3, <2>4 DEF Config!Start, Read, TakenOver
<1>2. CASE Config!Open
  <2>1. Config!Listed(f.agents) \in Lists
    <3> QED
      BY NoAgents DEF Config!Listed, Stored
  <2>2. profiles' \in Lists /\ tasks' \in Nat
    BY <1>2, <2>1 DEF Config!Open, Stored
  <2>3. Config!Loaded' = Config!Loaded
    BY <1>2 DEF Config!Open, Config!Loaded
  <2>4. SettingsTyped'
    BY <1>2, <2>2 DEF Config!Open
  <2>5. Config!Indexed'
    <3>1. profiles' = Config!Listed(f.agents) /\ byName' = Config!Index(Config!Listed(f.agents))
      BY <1>2 DEF Config!Open
    <3> QED
      BY <2>1, <3>1, IndexCounts DEF Config!Indexed
  <2>6. Config!Kept'
    BY <1>2, <2>3 DEF Config!Open, Config!Kept, Config!Listed, Read
  <2> QED
    BY <1>2, <2>3, <2>4, <2>5, <2>6 DEF Config!Open, Read, TakenOver
<1>3. CASE Config!Crash
  BY <1>3 DEF Config!Crash, Config!Loaded, Config!Kept, Config!Indexed, Read, TakenOver
<1>4. CASE Config!Break
  BY <1>4 DEF Config!Break, Config!Kept, Config!Indexed, Read, TakenOver
<1>5. CASE UNCHANGED Config!vars
  BY <1>5 DEF Config!vars, Config!Loaded, Config!Kept, Config!Indexed, Read, TakenOver
<1> QED
  BY <1>1, <1>2, <1>3, <1>4, <1>5

LEMMA ImportsKeep ==
  ASSUME SettingsInv, NEW s \in Config!Sections, Config!Import(s) \/ Config!RemoveFile(s)
  PROVE  SettingsInv'
<1>a. \/ s = "agents" /\ Config!File[s] = "agents file" /\ Config!After(s) = "schedules"
      \/ s = "schedules" /\ Config!File[s] = "schedules file" /\ Config!After(s) = "open"
  <2>1. CASE s = "agents"
    BY <2>1 DEF Config!File, Config!After
  <2>2. CASE s = "schedules"
    BY <2>2 DEF Config!File, Config!After
  <2> QED
    BY <2>1, <2>2 DEF Config!Sections
<1> USE DEF SettingsInv, SettingsTyped, Config!Sections, Config!stores
<1>0. /\ up \in {"agents", "agents file", "schedules", "schedules file"}
      /\ up' \in {"no", "agents file", "schedules", "schedules file", "open"}
      /\ UNCHANGED <<profiles, byName, tasks, settingsAcked, spoiled>>
  BY <1>a DEF Config!Import, Config!RemoveFile
<1>1. Config!Indexed'
  BY <1>0 DEF Config!Indexed
<1>2. CASE Config!Import(s) /\ UNCHANGED <<settingsDisk, f>>
  <2>1. settingsLegacy' = settingsLegacy /\ Config!Loaded' = Config!Loaded
    BY <1>2 DEF Config!Import, Config!Loaded
  <2>2. up' = Config!File[s] => f[s] # Unset
    <3> SUFFICES ASSUME up' = Config!File[s] PROVE f[s] # Unset
      OBVIOUS
    <3>1. settingsLegacy[s] # Unset
      BY <1>a, <1>2 DEF Config!Import
    <3>2. Config!Taken(s) = f[s]
      <4>1. CASE f' = [f EXCEPT ![s] = Config!Taken(s)]
        <5>1. f'[s] = Config!Taken(s)
          BY <4>1 DEF Stored
        <5> QED
          BY <1>2, <5>1
      <4>2. CASE f' # [f EXCEPT ![s] = Config!Taken(s)]
        BY <1>a, <1>2, <3>1, <4>2 DEF Config!Import, Config!Saves, Config!Lands
      <4> QED
        BY <4>1, <4>2
    <3> QED
      BY <3>1, <3>2 DEF Config!Taken
  <2>3. SettingsTyped' /\ Config!Kept'
    BY <1>0, <1>2, <2>1 DEF Config!Kept
  <2> QED
    BY <1>a, <1>0, <1>1, <1>2, <2>1, <2>2, <2>3 DEF Config!Import, Read, TakenOver
<1>3. CASE Config!Import(s) /\ Config!Saves(s, Config!Taken(s)) /\ up' = Config!File[s]
           /\ Config!Taken(s) # f[s] /\ settingsLegacy[s] # Unset
  <2>1. f[s] = Unset /\ Config!Taken(s) = settingsLegacy[s] /\ settingsLegacy' = settingsLegacy
    BY <1>3 DEF Config!Taken, Config!Import
  <2>2. f' = [f EXCEPT ![s] = settingsLegacy[s]] /\ settingsDisk' = f' /\ up = s
    BY <1>3, <2>1 DEF Config!Saves, Config!Lands, Config!Import
  <2>3. f' \in Stored
    BY <1>3, <2>2 DEF Stored
  <2>4. /\ f'[s] = settingsLegacy[s]
        /\ \A r \in Config!Sections : r # s => f'[r] = f[r]
    BY <2>2 DEF Stored
  <2>5. Config!Loaded' = f'
    BY <2>2, <2>3, NotUnset DEF Config!Loaded
  <2>6. SettingsTyped'
    BY <1>0, <2>1, <2>2, <2>3
  <2>7. \A r \in Config!Sections : f[r] = Config!Loaded[r]
    BY <1>0 DEF Read
  <2>8. Config!Kept'
    BY <1>0, <1>3, <2>1, <2>4, <2>5, <2>7 DEF Config!Kept
  <2>9. Read' /\ TakenOver'
    BY <1>a, <1>3, <2>2, <2>4, <2>5 DEF Read, TakenOver
  <2> QED
    BY <1>1, <2>6, <2>8, <2>9
<1>4. CASE Config!RemoveFile(s)
  <2>1. up = Config!File[s] /\ f[s] # Unset /\ Config!Loaded[s] # Unset
    BY <1>a, <1>4 DEF Config!RemoveFile, Read, TakenOver
  <2>2. /\ settingsLegacy' \in {settingsLegacy, [settingsLegacy EXCEPT ![s] = Unset]}
        /\ up' \in {"no", Config!After(s)} /\ UNCHANGED <<f, settingsDisk>>
    BY <1>4 DEF Config!RemoveFile
  <2>3. Config!Loaded' = Config!Loaded
    BY <2>2 DEF Config!Loaded
  <2>4. /\ settingsLegacy' \in [agents : Lists \cup {Unset}, schedules : Nat \cup {Unset}]
        /\ \A r \in Config!Sections : r # s => settingsLegacy'[r] = settingsLegacy[r]
    BY <2>2
  <2>5. SettingsTyped' /\ Config!Kept'
    BY <1>0, <2>1, <2>2, <2>3, <2>4 DEF Config!Kept
  <2> QED
    BY <1>a, <1>0, <1>1, <2>1, <2>2, <2>3, <2>5 DEF Read, TakenOver
<1> QED
  BY <1>2, <1>3, <1>4 DEF Config!Import, Config!FailsToSave, Config!Fails

LEMMA SettingsStep == ASSUME SettingsInv, [Config!Next]_(Config!vars) PROVE SettingsInv'
BY AgentsKeep, SectionsKeep, OpeningKeeps, ImportsKeep DEF Config!Next

(***************************************************************************)
(* The components side by side.                                            *)
(***************************************************************************)
Held ==
  /\ kind = "relays" => AnswersInv
  /\ kind = "terminal" => TerminalInv
  /\ kind = "update" => UpdateInv
  /\ kind = "plugin" => PluginInv
  /\ kind = "push" => PushInv
  /\ kind = "meta" => MetaInv
  /\ kind = "settings" => SettingsInv

LEMMA HeldInit == Init => Held
BY AnswersInit, TerminalInit, UpdateInit, PluginInit, PushInit, MetaInit, SettingsInit
   DEF Init, Held

LEMMA HeldStep == Held /\ [Next]_vars => Held'
<1> SUFFICES ASSUME Held, [Next]_vars PROVE Held'
  OBVIOUS
<1>1. kind' = kind
  BY DEF Next, vars
<1>2. /\ kind = "relays" => [Relayed!Next]_(Relayed!vars)
      /\ kind = "terminal" => [Shell!Next]_(Shell!tvars)
  BY DEF Next, vars, relaysVars, terminalVars, Relayed!vars, Relayed!work,
       Relayed!questions, Relayed!inbox, Relayed!notes, Shell!tvars, Shell!terminal,
       Shell!page, Shell!wire
<1>3. /\ kind = "update" => [Updates!Next]_(Updates!avars)
      /\ kind = "plugin" => [Plugins!Next]_(Plugins!pvars)
      /\ kind = "push" => [Notices!Next]_(Notices!wvars)
  BY DEF Next, vars, updateVars, pluginVars, pushVars, Updates!avars, Updates!cli,
       Updates!kept, Plugins!pvars, Plugins!socket, Plugins!router, Plugins!stream,
       Plugins!plugin, Notices!wvars, Notices!store, Notices!queues, Notices!notes
<1>4. /\ kind = "meta" => [Meta!Next]_(Meta!vars)
      /\ kind = "settings" => [Config!Next]_(Config!vars)
  BY DEF Next, vars, metaVars, settingsVars, Meta!vars, Config!vars, Config!files,
       Config!stores, Config!bounds
<1> QED
  BY <1>1, <1>2, <1>3, <1>4, AnswersStep, TerminalStep, UpdateStep, PluginStep, PushStep,
     MetaStep, SettingsStep
     DEF Held

\* The strengthenings hold, of whichever component a behaviour is.
THEOREM DeliveriesInv == Spec => []Held
<1> QED
  BY HeldInit, HeldStep, PTL DEF Spec

\* An answer that was taken, of a question that was not withdrawn, is in the log of the
\* session that asked or on its way there, in the running turn or as a turn of its own,
\* and both only when a steer was late to say that it took it; only a full queue, a send
\* that fails or a flush loses it (questions.go:121). And however often a page sends a
\* line, and whatever fails or restarts in between, the window is given it once while its
\* id is remembered, and what is answered "ok" was given to the window open then
\* (pkg/router/questions.go:103, pkg/terminal/manager.go:137).
THEOREM HandedOnce == Spec => []GoesOnce
<1>1. Held => GoesOnce
  BY DEF Held, GoesOnce, AnswersInv, TerminalInv
<1> QED
  BY <1>1, DeliveriesInv, PTL

\* Whichever checks an update overtakes, what is shown after it was read after its end,
\* and a release is offered exactly when it is the later one, but between two prerelease
\* tags of the same numbers, compared as plain strings (pkg/agentupdate/agentupdate.go:117, :256).
THEOREM UpdateShown == Spec => []OutcomeShown
<1>1. Held => OutcomeShown
  BY DEF Held, OutcomeShown, UpdateInv
<1> QED
  BY <1>1, DeliveriesInv, PTL

\* A process that took the socket alone keeps it, and a plugin whose stream is quiet
\* knows which sessions run (pkg/pluginapi/server.go:182, pkg/api/events.go:149).
THEOREM StreamKeepsUp == Spec => []KeepsUp
<1>1. Held => KeepsUp
  BY QuietKnows DEF Held, KeepsUp
<1> QED
  BY <1>1, DeliveriesInv, PTL

\* A notice owed waits for its turn and is sent once, unless the collector of a relayed
\* turn silenced it (pkg/broker/broker.go:96), and the subscriptions are those
\* wanted but for what could not be saved (pkg/push/push.go:148, pkg/push/store.go:79).
THEOREM NoticesSent == Spec => []Notified
<1>1. Held => Notified
  BY DueWaits DEF Held, Notified
<1> QED
  BY <1>1, DeliveriesInv, PTL

\* The user's last word on a session stands as long as every save succeeded, and what
\* was decided outlives a crash unless its save failed; the agents and the tasks that
\* were acknowledged are in memory and in the files wherever an import of an older file
\* was cut short, and each agent is found under its name alone
\* (pkg/sessionmeta/store.go:188, :314, pkg/settings/settings.go:107,
\* pkg/agentprofile/profile.go:203).
THEOREM DecisionsKept == Spec => []Kept
<1>1. Held => Kept
  BY MetaKeptIs DEF Held, Kept, SettingsInv
<1> QED
  BY <1>1, DeliveriesInv, PTL
=============================================================================
