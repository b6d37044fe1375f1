---------------------------- MODULE LiveViewProofs -----------------------------
(***************************************************************************)
(* Proofs about LiveView, for every number of turns, deltas, parts, changes*)
(* of the queue, lost connections and slots: a tab that got all there was  *)
(* shows a turn running when one is, the queue as it is, and the text      *)
(* streamed so far.                                                        *)
(***************************************************************************)
EXTENDS LiveView, SequenceTheorems, TLAPS

(***************************************************************************)
(* The strengthening.                                                      *)
(***************************************************************************)

\* Events that say a turn runs, and events that say it is over.
Runs == {"started", "delta", "text", "tool"}
Stops == {"failed", "ended"}

Event == [type : Runs \union Stops \union {"queue"}, text : Texts, n : Nat]

Formed(ev) ==
  /\ ev.type = "queue" => ev.n <= MaxQueue
  /\ ev.type = "ended" => ev \in {Ended(TRUE), Ended(FALSE)}

View == [live : BOOLEAN, text : Texts, accept : BOOLEAN, streaming : BOOLEAN,
         queue : 0 .. MaxQueue]
Counts == [turns : Nat, deltas : 0 .. MaxDeltas, parts : Nat, drops : Nat]
Notes == [lost : BOOLEAN, crossed : BOOLEAN, late : BOOLEAN, synced : BOOLEAN,
          jumped : BOOLEAN]

\* Only a turn that runs has a preview, and the token is registered from Take to
\* the end.
Typed ==
  /\ TypeOK
  /\ ch \in Seq(Event) /\ \A i \in DOMAIN ch : Formed(ch[i])
  /\ conn = "off" => ch = <<>>
  /\ view \in View /\ count \in Counts /\ note \in Notes
  /\ busy = (turn # "none")
  /\ preview # NoPreview => turn = "running"

\* The last event before place i that is not about the queue is one of types; or
\* there is none.
LastIs(s, i, types) ==
  \E j \in DOMAIN s : /\ j < i /\ s[j].type \in types
                      /\ \A k \in DOMAIN s : j < k /\ k < i => s[k].type = "queue"
Silent(s, i) == \A k \in DOMAIN s : k < i => s[k].type = "queue"

End(s) == Len(s) + 1

Joined == conn \in {"stated", "streaming"}

\* The tab has no bubble when it comes to place i of the channel.
Quiet(i) == LastIs(ch, i, Stops) \/ (Silent(ch, i) /\ (Joined => ~view.live))

\* No snapshot was stale, no error was missed and no end went into another turn.
Faithful == ~note.late /\ ~note.crossed

\* A bubble streams: none is dead.
Bubble == Faithful => view.live = view.streaming

\* An end with a reason, which leaves the bubble to the error before it, comes to
\* a tab without one.
Dead == Faithful => \A i \in DOMAIN ch : ch[i] = Ended(TRUE) => Quiet(i)

\* So it does when it is still to be published.
Closing == turn = "erred" \/ (failing = "ended" /\ turn \in {"none", "ended"})
Over == Faithful /\ Closing => Quiet(End(ch))

\* What the channel says last, or the tab when the channel says nothing, is what
\* the turn does.
Told ==
  Faithful /\ ~note.lost =>
    /\ LastIs(ch, End(ch), Runs) => turn = "running"
    /\ LastIs(ch, End(ch), Stops) => turn # "running"
    /\ Silent(ch, End(ch)) /\ Joined =>
         /\ turn = "running" => view.streaming
         /\ view.streaming => turn \in {"taken", "running"} \/ failing = "failed"

\* The last version the channel holds, or the one the tab was sent, is the queue's.
Newest(s, n) ==
  \E i \in DOMAIN s : /\ s[i].type = "queue" /\ s[i].n = n
                      /\ \A j \in DOMAIN s : i < j => s[j].type # "queue"
Unqueued(s) == \A i \in DOMAIN s : s[i].type # "queue"
Queue ==
  ~note.lost =>
    Newest(ch, queued) \/ (Unqueued(ch) /\ (conn = "streaming" => view.queue = queued))

\* Two tabs show the same, but for the queue.
Like(v, w) ==
  /\ v.live = w.live /\ v.text = w.text /\ v.accept = w.accept
  /\ v.streaming = w.streaming

\* A tab v that handles the events s, one after the other, becomes f, whatever its
\* queue.
Shows(s, v, f) ==
  \E tab \in [1 .. Len(s) + 1 -> View] :
    /\ Like(tab[1], v) /\ tab[Len(s) + 1] = f
    /\ \A i \in 1 .. Len(s) : Like(tab[i + 1], Handle(tab[i], s[i]))

\* A bubble without text, or none.
Blank(v) == v.live => v.text = <<>> /\ v.accept

\* What the tab is once it has handled all: for a turn that runs, a bubble with the
\* text of the preview, and none only when it has not been told of the turn.
Right(stage, text, up, f) ==
  IF stage = "running"
    THEN /\ f.live => f.text = text.text /\ (f.accept <=> ~text.closed)
         /\ ~f.live => text = NoPreview
         /\ up => f.live
    ELSE Blank(f)

\* The events of the channel bring the tab to the server's text: whatever the
\* snapshot will make of a tab without a bubble, and the tab that had it.
Mirror ==
  /\ note.synced => conn # "off" /\ (conn = "subscribed" => ~view.live)
  /\ note.synced /\ ~note.jumped /\ ~note.crossed =>
       /\ conn = "subscribed" =>
            \A v \in View : Blank(v) =>
              \E f \in View : Shows(ch, v, f) /\ Right(turn, preview, v.live, f)
       /\ Joined =>
            \E f \in View : Shows(ch, view, f) /\ Right(turn, preview, TRUE, f)

IInv == Typed /\ Bubble /\ Dead /\ Over /\ Told /\ Queue /\ Mirror

(***************************************************************************)
(* Channels.                                                               *)
(***************************************************************************)

\* What an event put at the end of a channel changes.
LEMMA AppendFacts ==
  ASSUME NEW s \in Seq(Event), NEW ev \in Event, NEW t, t = Append(s, ev)
  PROVE  /\ t \in Seq(Event) /\ Len(s) \in Nat /\ Len(t) = Len(s) + 1
         /\ DOMAIN s = 1 .. Len(s) /\ DOMAIN t = 1 .. Len(s) + 1
         /\ \A i \in 1 .. Len(s) : t[i] = s[i]
         /\ t[Len(s) + 1] = ev
OBVIOUS

\* An event of the channel keeps what is before it.
LEMMA AppendBefore ==
  ASSUME NEW s \in Seq(Event), NEW ev \in Event, NEW t, t = Append(s, ev),
         NEW types, NEW i \in 1 .. End(s)
  PROVE  /\ Silent(t, i) <=> Silent(s, i)
         /\ LastIs(t, i, types) <=> LastIs(s, i, types)
BY AppendFacts DEF Silent, LastIs, End

\* An event about the queue leaves what the channel says of the turn; any other
\* says it.
LEMMA AppendEnd ==
  ASSUME NEW s \in Seq(Event), NEW ev \in Event, NEW t, t = Append(s, ev),
         NEW types, "queue" \notin types
  PROVE  /\ ev.type = "queue" =>
              /\ Silent(t, End(t)) <=> Silent(s, End(s))
              /\ LastIs(t, End(t), types) <=> LastIs(s, End(s), types)
         /\ ev.type # "queue" =>
              ~Silent(t, End(t)) /\ (LastIs(t, End(t), types) <=> ev.type \in types)
<1> USE AppendFacts
<1>1. End(s) = Len(s) + 1 /\ End(t) = Len(s) + 2
  BY DEF End
<1>2. ASSUME ev.type = "queue" PROVE Silent(t, End(t)) <=> Silent(s, End(s))
  BY <1>1, <1>2 DEF Silent
<1>3. ASSUME ev.type = "queue"
      PROVE  LastIs(t, End(t), types) <=> LastIs(s, End(s), types)
  <2>1. ASSUME NEW j \in DOMAIN t, t[j].type \in types,
               \A k \in DOMAIN t : j < k /\ k < End(t) => t[k].type = "queue"
        PROVE  LastIs(s, End(s), types)
    <3>1. j \in DOMAIN s /\ j < End(s) /\ s[j].type \in types
      BY <1>1, <1>3, <2>1
    <3>2. \A k \in DOMAIN s : j < k /\ k < End(s) => s[k].type = "queue"
      BY <1>1, <2>1
    <3> QED
      BY <3>1, <3>2 DEF LastIs
  <2>2. ASSUME NEW j \in DOMAIN s, s[j].type \in types,
               \A k \in DOMAIN s : j < k /\ k < End(s) => s[k].type = "queue"
        PROVE  LastIs(t, End(t), types)
    <3>1. j \in DOMAIN t /\ j < End(t) /\ t[j].type \in types
      BY <1>1, <2>2
    <3>2. \A k \in DOMAIN t : j < k /\ k < End(t) => t[k].type = "queue"
      BY <1>1, <1>3, <2>2
    <3> QED
      BY <3>1, <3>2 DEF LastIs
  <2> QED
    BY <2>1, <2>2 DEF LastIs
<1>4. ASSUME ev.type # "queue" PROVE ~Silent(t, End(t))
  BY <1>1, <1>4 DEF Silent
<1>5. ASSUME ev.type # "queue", LastIs(t, End(t), types) PROVE ev.type \in types
  BY <1>1, <1>5 DEF LastIs
<1>6. ASSUME ev.type \in types PROVE LastIs(t, End(t), types)
  BY <1>1, <1>6 DEF LastIs
<1> QED
  BY <1>2, <1>3, <1>4, <1>5, <1>6

\* What the first event of a channel leaves behind.
LEMMA TailFacts ==
  ASSUME NEW s \in Seq(Event), s # <<>>, NEW t, t = Tail(s)
  PROVE  /\ t \in Seq(Event) /\ Len(s) \in Nat \ {0} /\ Len(t) = Len(s) - 1
         /\ DOMAIN s = 1 .. Len(s) /\ DOMAIN t = 1 .. Len(s) - 1
         /\ \A i \in 1 .. Len(s) - 1 : t[i] = s[i + 1]
         /\ Head(s) = s[1] /\ s[1] \in Event
<1>1. Len(s) \in Nat \ {0}
  BY EmptySeq
<1> QED
  BY <1>1

\* A place of the channel has the same event before it, unless that one is taken.
LEMMA TailBefore ==
  ASSUME NEW s \in Seq(Event), s # <<>>, NEW t, t = Tail(s), NEW types,
         NEW i \in 1 .. End(t)
  PROVE  /\ Silent(s, i + 1) => Silent(t, i) /\ Head(s).type = "queue"
         /\ LastIs(t, i, types) => LastIs(s, i + 1, types)
         /\ LastIs(s, i + 1, types) =>
              LastIs(t, i, types) \/ (Head(s).type \in types /\ Silent(t, i))
         /\ Silent(t, i) =>
              IF Head(s).type = "queue" THEN Silent(s, i + 1)
              ELSE Head(s).type \in types => LastIs(s, i + 1, types)
<1> USE TailFacts
<1>1. i \in Nat \ {0} /\ i <= Len(s)
  BY DEF End
<1>2. Silent(s, i + 1) => Silent(t, i) /\ Head(s).type = "queue"
  BY <1>1 DEF Silent
<1>3. ASSUME LastIs(t, i, types) PROVE LastIs(s, i + 1, types)
  <2>1. PICK j \in DOMAIN t : /\ j < i /\ t[j].type \in types
                              /\ \A k \in DOMAIN t : j < k /\ k < i => t[k].type = "queue"
    BY <1>3 DEF LastIs
  <2>2. j + 1 \in DOMAIN s /\ j + 1 < i + 1 /\ s[j + 1].type \in types
    BY <1>1, <2>1
  <2>3. \A k \in DOMAIN s : j + 1 < k /\ k < i + 1 => s[k].type = "queue"
    <3> SUFFICES ASSUME NEW k \in DOMAIN s, j + 1 < k, k < i + 1 PROVE s[k].type = "queue"
      OBVIOUS
    <3>1. k - 1 \in DOMAIN t /\ j < k - 1 /\ k - 1 < i /\ t[k - 1] = s[k]
      BY <1>1, <2>1
    <3> QED
      BY <2>1, <3>1
  <2> QED
    BY <2>2, <2>3 DEF LastIs
<1>4. ASSUME LastIs(s, i + 1, types)
      PROVE  LastIs(t, i, types) \/ (Head(s).type \in types /\ Silent(t, i))
  <2>1. PICK j \in DOMAIN s : /\ j < i + 1 /\ s[j].type \in types
                              /\ \A k \in DOMAIN s : j < k /\ k < i + 1 => s[k].type = "queue"
    BY <1>4 DEF LastIs
  <2>2. \A k \in DOMAIN t : j - 1 < k /\ k < i => t[k].type = "queue"
    <3> SUFFICES ASSUME NEW k \in DOMAIN t, j - 1 < k, k < i PROVE t[k].type = "queue"
      OBVIOUS
    <3>1. k + 1 \in DOMAIN s /\ j < k + 1 /\ k + 1 < i + 1 /\ t[k] = s[k + 1]
      BY <1>1, <2>1
    <3> QED
      BY <2>1, <3>1
  <2>3. CASE j = 1
    BY <2>1, <2>2, <2>3 DEF Silent
  <2>4. CASE j # 1
    <3>1. j - 1 \in DOMAIN t /\ j - 1 < i /\ t[j - 1].type \in types
      BY <1>1, <2>1, <2>4
    <3> QED
      BY <2>2, <3>1 DEF LastIs
  <2> QED
    BY <2>3, <2>4
<1>5. ASSUME Silent(t, i), NEW k \in DOMAIN s, 1 < k, k < i + 1
      PROVE  s[k].type = "queue"
  <2>1. k - 1 \in DOMAIN t /\ k - 1 < i /\ t[k - 1] = s[k]
    BY <1>1, <1>5
  <2> QED
    BY <1>5, <2>1 DEF Silent
<1>6. ASSUME Silent(t, i), Head(s).type = "queue" PROVE Silent(s, i + 1)
  BY <1>1, <1>5, <1>6 DEF Silent
<1>7. ASSUME Silent(t, i), Head(s).type \in types PROVE LastIs(s, i + 1, types)
  <2>1. 1 \in DOMAIN s /\ 1 < i + 1 /\ s[1].type \in types
    BY <1>1, <1>7
  <2> QED
    BY <1>5, <1>7, <2>1 DEF LastIs
<1> QED
  BY <1>2, <1>3, <1>4, <1>6, <1>7

\* A channel without events says nothing.
LEMMA EmptySays ==
  ASSUME NEW types, NEW i
  PROVE  Silent(<<>>, i) /\ ~LastIs(<<>>, i, types)
BY DEF Silent, LastIs

(***************************************************************************)
(* Events and handlers.                                                    *)
(***************************************************************************)
\* The events the server makes are well formed.
LEMMA EventFacts ==
  /\ \A type \in {"started", "text", "tool", "failed"} :
       Ev(type) \in Event /\ Ev(type).type = type
  /\ \A text \in Texts : Delta(text) \in Event /\ Delta(text).type = "delta"
  /\ \A reason \in BOOLEAN : Ended(reason) \in Event /\ Ended(reason).type = "ended"
  /\ Ended(TRUE) # Ended(FALSE) /\ Ended(TRUE).n = 1 /\ Ended(FALSE).n = 0
  /\ \A n \in 0 .. MaxQueue :
       QueueIs(n) \in Event /\ QueueIs(n).type = "queue" /\ QueueIs(n).n = n
<1>1. <<>> \in Texts
  BY DEF Texts
<1> QED
  BY <1>1, LiveViewAssumption
     DEF LiveViewAssumption, Ev, Delta, Ended, QueueIs, Event, Runs, Stops

\* What the tab does with an event from the channel.
LEMMA HandleFacts ==
  ASSUME NEW v \in View, NEW ev \in Event, Formed(ev)
  PROVE  /\ Handle(v, ev) \in View
         /\ ev.type \in Runs =>
              /\ Handle(v, ev).live = TRUE
              /\ v.live = v.streaming => Handle(v, ev).streaming = TRUE
         /\ ev.type \in Stops => Handle(v, ev).streaming = FALSE
         /\ ev.type \in Stops /\ ev # Ended(TRUE) => Handle(v, ev).live = FALSE
         /\ ev = Ended(TRUE) => Handle(v, ev).live = v.live
         /\ ev.type = "queue" =>
              /\ Handle(v, ev).live = v.live /\ Handle(v, ev).streaming = v.streaming
              /\ Handle(v, ev).queue = ev.n
         /\ ev.type # "queue" => Handle(v, ev).queue = v.queue
<1>1. <<>> \in Texts /\ ev.text \in Texts /\ v.text \in Texts /\ v.text \o ev.text \in Texts
  BY DEF Texts, Event, View
<1>2. /\ Begin(v) \in View /\ Begin(v).live = TRUE /\ Begin(v).queue = v.queue
      /\ v.live = v.streaming => Begin(v).streaming = TRUE
      /\ Begin(v).text \in {<<>>, v.text}
  BY <1>1 DEF Begin, View
<1>3. Finish(v) \in View /\ Finish(v).live = FALSE /\ Finish(v).streaming = FALSE
      /\ Finish(v).queue = v.queue
  BY <1>1 DEF Finish, View
<1>4. CASE ev.type = "started"
  BY <1>2, <1>4 DEF Handle, Runs, Stops, Ended, Ev
<1>5. CASE ev.type = "delta"
  <2>1. \A a, b \in Texts : a \o b \in Texts
    BY DEF Texts
  <2>2. Begin(v).text \o ev.text \in Texts
    BY <1>1, <1>2, <2>1
  <2>3. /\ Grow(Begin(v), ev.text) \in View /\ Grow(Begin(v), ev.text).live = TRUE
        /\ Grow(Begin(v), ev.text).queue = v.queue
        /\ Grow(Begin(v), ev.text).streaming = Begin(v).streaming
    BY <1>2, <2>2 DEF Grow, View
  <2> QED
    BY <1>2, <1>5, <2>3 DEF Handle, Runs, Stops, Ended, Ev
<1>6. CASE ev.type = "text"
  <2>1. Handle(v, ev) = [Begin(v) EXCEPT !.text = <<>>, !.accept = FALSE]
    BY <1>6 DEF Handle
  <2>2. /\ Handle(v, ev) \in View /\ Handle(v, ev).live = TRUE
        /\ Handle(v, ev).streaming = Begin(v).streaming /\ Handle(v, ev).queue = v.queue
    BY <1>1, <1>2, <2>1 DEF View
  <2> QED
    BY <1>2, <1>6, <2>2 DEF Runs, Stops, Ended, Ev
<1>7. CASE ev.type = "tool"
  <2>1. Handle(v, ev) = [Begin(v) EXCEPT !.accept = TRUE]
    BY <1>7 DEF Handle
  <2>2. /\ Handle(v, ev) \in View /\ Handle(v, ev).live = TRUE
        /\ Handle(v, ev).streaming = Begin(v).streaming /\ Handle(v, ev).queue = v.queue
    BY <1>1, <1>2, <2>1 DEF View
  <2> QED
    BY <1>2, <1>7, <2>2 DEF Runs, Stops, Ended, Ev
<1>8. CASE ev.type = "failed"
  BY <1>3, <1>8 DEF Handle, Runs, Stops, Ended, Ev
<1>9. CASE ev.type = "ended"
  <2>1. CASE ev = Ended(TRUE)
    BY <1>9, <2>1, EventFacts DEF Handle, Runs, Stops, View
  <2>2. CASE ev = Ended(FALSE)
    <3>1. ev.n # 1 /\ ev # Ended(TRUE)
      BY <2>2 DEF Ended, Ev
    <3>2. Handle(v, ev) = Finish(v)
      BY <1>9, <3>1 DEF Handle
    <3> QED
      BY <1>3, <1>9, <3>1, <3>2 DEF Runs, Stops
  <2> QED
    BY <1>9, <2>1, <2>2 DEF Formed
<1>10. CASE ev.type = "queue"
  <2>1. ev.n \in 0 .. MaxQueue
    BY <1>10, LiveViewAssumption DEF Formed, Event, LiveViewAssumption
  <2> QED
    BY <1>10, <2>1 DEF Handle, Runs, Stops, Ended, Ev, View
<1> QED
  BY <1>4, <1>5, <1>6, <1>7, <1>8, <1>9, <1>10 DEF Event, Runs, Stops

\* What the snapshot makes the tab show.
LEMMA StateFacts ==
  ASSUME NEW v \in View, NEW w,
         w = Handle(IF v.streaming THEN [v EXCEPT !.text = <<>>] ELSE v,
                    Ev(IF busy THEN "active" ELSE "idle"))
  PROVE  /\ w \in View /\ w.queue = v.queue
         /\ v.live = v.streaming =>
              /\ busy => w.live = TRUE /\ w.streaming = TRUE
              /\ ~busy => w.live = FALSE /\ w.streaming = FALSE
<1> DEFINE u == IF v.streaming THEN [v EXCEPT !.text = <<>>] ELSE v
<1>1. <<>> \in Texts
  BY DEF Texts
<1>2. /\ u \in View /\ u.queue = v.queue
      /\ u.live = v.live /\ u.streaming = v.streaming
  BY <1>1 DEF View
<1>3. CASE busy
  <2>1. w = Begin(u)
    BY <1>3 DEF Handle, Ev
  <2> HIDE DEF u
  <2>2. w \in View /\ w.queue = u.queue
    BY <1>1, <1>2, <2>1 DEF Begin, View
  <2>3. v.live = v.streaming => w.live = TRUE /\ w.streaming = TRUE
    BY <1>1, <1>2, <2>1 DEF Begin, View
  <2> QED
    BY <1>2, <1>3, <2>2, <2>3
<1>4. CASE ~busy
  <2>1. w = IF u.streaming THEN Finish(u) ELSE u
    BY <1>4 DEF Handle, Ev
  <2> HIDE DEF u
  <2>2. w \in View /\ w.queue = u.queue
    BY <1>1, <1>2, <2>1 DEF Finish, View
  <2>3. v.live = v.streaming => w.live = FALSE /\ w.streaming = FALSE
    BY <1>1, <1>2, <2>1 DEF Finish, View
  <2> QED
    BY <1>2, <1>4, <2>2, <2>3
<1> QED
  BY <1>3, <1>4

\* A publication reaches the channel, is dropped, or finds no subscription.
LEMMA PublishCases ==
  ASSUME Typed, NEW ev \in Event, Formed(ev), NEW also \in Notes, Publish(ev, also)
  PROVE  /\ conn' = conn /\ view' = view /\ note' \in Notes
         /\ ch' \in Seq(Event) /\ \A i \in DOMAIN ch' : Formed(ch'[i])
         /\ Len(ch') <= Cap + 1 /\ (conn = "off" => ch' = <<>>)
         /\ \/ conn = "off" /\ ch = <<>> /\ ch' = <<>> /\ note' = also
            \/ /\ conn # "off" /\ ch' = ch /\ note'.lost = TRUE
               /\ note'.late = (also.late \/ Missed(ev)) /\ note'.crossed = also.crossed
               /\ note'.synced = FALSE
            \/ conn # "off" /\ ch' = Append(ch, ev) /\ note' = also
<1>1. conn' = conn /\ view' = view
  BY DEF Publish
<1>2. ch \in Seq(Event) /\ (\A i \in DOMAIN ch : Formed(ch[i])) /\ Len(ch) <= Cap + 1
      /\ (conn = "off" => ch = <<>>)
  BY DEF Typed, TypeOK
<1>3. CASE conn # "off" /\ Len(ch) >= Cap
  <2>1. ch' = ch /\ note' = [also EXCEPT !.lost = TRUE, !.synced = FALSE,
                                         !.late = @ \/ Missed(ev)]
    BY <1>3 DEF Publish
  <2>2. also.late \in BOOLEAN /\ Missed(ev) \in BOOLEAN
    BY DEF Notes, Missed
  <2>3. /\ note' \in Notes /\ note'.lost = TRUE /\ note'.crossed = also.crossed
        /\ note'.late = (also.late \/ Missed(ev)) /\ note'.synced = FALSE
    BY <2>1, <2>2 DEF Notes
  <2> QED
    BY <1>1, <1>2, <1>3, <2>1, <2>3
<1>4. CASE conn = "off"
  BY <1>1, <1>2, <1>4 DEF Publish
<1>5. CASE conn # "off" /\ ~(Len(ch) >= Cap)
  <2>1. ch' = Append(ch, ev) /\ note' = also
    BY <1>5 DEF Publish
  <2>2. /\ ch' \in Seq(Event) /\ Len(ch') = Len(ch) + 1 /\ Len(ch) \in Nat
        /\ \A i \in DOMAIN ch' : Formed(ch'[i])
    BY <1>2, <2>1, AppendFacts
  <2> QED
    BY <1>1, <1>2, <1>5, <2>1, <2>2, LiveViewAssumption DEF LiveViewAssumption
<1> QED
  BY <1>3, <1>4, <1>5

(***************************************************************************)
(* The steps.                                                              *)
(***************************************************************************)

\* The steps that publish.
Publishes(ev, also) ==
  /\ ev \in Event /\ Formed(ev) /\ also \in Notes /\ Publish(ev, also)
  /\ also.late = note.late /\ also.lost = note.lost /\ also.synced = note.synced
  /\ (note.jumped => also.jumped)
  /\ (also.crossed <=> note.crossed \/ (failing' # failing /\ turn # "none"))

LEMMA Publications ==
  ASSUME Typed
  PROVE  /\ Start => Publishes(Ev("started"), note)
         /\ TurnDelta => Publishes(Delta(<<count.deltas + 1>>), note)
         /\ \A tool \in BOOLEAN : TurnPart(tool) =>
              \E also \in Notes :
                /\ Publishes(Ev(IF tool THEN "tool" ELSE "text"), also)
                /\ tool /\ preview.text # <<>> => also.jumped
         /\ TurnFailed => Publishes(Ev("failed"), note)
         /\ TurnEnded => \E reason \in {FALSE, turn = "erred"} : Publishes(Ended(reason), note)
         /\ FailPublish => \E also \in Notes :
              Publishes(IF failing = "failed" THEN Ev("failed") ELSE Ended(TRUE), also)
         /\ QueueChange => Publishes(QueueIs(queued'), note)
<1>1. note \in Notes /\ note = [lost |-> note.lost, crossed |-> note.crossed, late |-> note.late,
                                synced |-> note.synced, jumped |-> note.jumped]
  BY DEF Typed, Notes
<1>2. /\ \A type \in {"started", "text", "tool", "failed"} : Formed(Ev(type))
      /\ \A text \in Texts : Formed(Delta(text))
      /\ \A reason \in BOOLEAN : Formed(Ended(reason))
      /\ \A n \in 0 .. MaxQueue : Formed(QueueIs(n))
  <2>1. \A reason \in BOOLEAN : Ended(reason) \in {Ended(TRUE), Ended(FALSE)}
    <3>1. ASSUME NEW reason \in BOOLEAN PROVE Ended(reason) \in {Ended(TRUE), Ended(FALSE)}
      BY <3>1, Zenon
    <3> QED
      BY <3>1
  <2>2. \A type \in {"started", "text", "tool", "failed"} : Formed(Ev(type))
    BY DEF Formed, Ev
  <2>3. \A text \in Texts : Formed(Delta(text))
    BY DEF Formed, Delta, Ev
  <2>4. \A reason \in BOOLEAN : Ended(reason).type = "ended"
    BY EventFacts
  <2>5. \A reason \in BOOLEAN : Formed(Ended(reason))
    BY <2>1, <2>4 DEF Formed
  <2>6. \A n \in 0 .. MaxQueue : Formed(QueueIs(n))
    BY DEF Formed, QueueIs, Ev
  <2> QED
    BY <2>2, <2>3, <2>5, <2>6
<1>3. ASSUME Start PROVE Publishes(Ev("started"), note)
  BY <1>1, <1>2, <1>3, EventFacts DEF Start, Publishes
<1>4. ASSUME TurnDelta PROVE Publishes(Delta(<<count.deltas + 1>>), note)
  <2>1. <<count.deltas + 1>> \in Texts
    BY <1>4, LiveViewAssumption DEF Texts, Typed, Counts, TurnDelta, LiveViewAssumption
  <2> QED
    BY <1>1, <1>2, <1>4, <2>1, EventFacts DEF TurnDelta, Publishes
<1>5. ASSUME NEW tool \in BOOLEAN, TurnPart(tool)
      PROVE  \E also \in Notes : /\ Publishes(Ev(IF tool THEN "tool" ELSE "text"), also)
                                 /\ tool /\ preview.text # <<>> => also.jumped
  <2> DEFINE also == [note EXCEPT !.jumped = @ \/ (tool /\ preview.text # <<>>)]
             type == IF tool THEN "tool" ELSE "text"
  <2>1. /\ also \in Notes /\ also.late = note.late /\ also.lost = note.lost
        /\ also.crossed = note.crossed /\ also.synced = note.synced
        /\ also.jumped <=> note.jumped \/ (tool /\ preview.text # <<>>)
    BY <1>1 DEF Notes
  <2>2. Publish(Ev(type), also) /\ failing' = failing
    BY <1>5 DEF TurnPart
  <2>3. type \in {"started", "text", "tool", "failed"}
    OBVIOUS
  <2> HIDE DEF also, type
  <2>4. Publishes(Ev(type), also)
    BY <1>1, <1>2, <2>1, <2>2, <2>3, EventFacts DEF Publishes
  <2> QED
    BY <2>1, <2>4 DEF type
<1>6. ASSUME TurnFailed PROVE Publishes(Ev("failed"), note)
  BY <1>1, <1>2, <1>6, EventFacts DEF TurnFailed, Publishes
<1>7. ASSUME TurnEnded PROVE \E reason \in {FALSE, turn = "erred"} : Publishes(Ended(reason), note)
  <2>1. PICK reason \in {FALSE, turn = "erred"} : Publish(Ended(reason), note)
    BY <1>7 DEF TurnEnded
  <2>2. failing' = failing /\ reason \in BOOLEAN
    BY <1>7 DEF TurnEnded
  <2>3. Publishes(Ended(reason), note)
    BY <1>1, <1>2, <2>1, <2>2, EventFacts DEF Publishes
  <2> QED
    BY <2>1, <2>3
<1>8. ASSUME FailPublish
      PROVE  \E also \in Notes :
               Publishes(IF failing = "failed" THEN Ev("failed") ELSE Ended(TRUE), also)
  <2> DEFINE also == [note EXCEPT !.crossed = @ \/ turn # "none"]
             ev == IF failing = "failed" THEN Ev("failed") ELSE Ended(TRUE)
  <2>1. failing' # failing
    BY <1>8 DEF FailPublish
  <2>2. /\ also \in Notes /\ also.late = note.late /\ also.lost = note.lost
        /\ also.crossed = (note.crossed \/ turn # "none")
        /\ also.synced = note.synced /\ also.jumped = note.jumped
    BY <1>1 DEF Notes
  <2>3. Publish(ev, also)
    BY <1>8 DEF FailPublish
  <2>4. ev \in Event /\ Formed(ev)
    BY <1>2, EventFacts
  <2> HIDE DEF also
  <2>5. Publishes(ev, also)
    BY <1>1, <2>1, <2>2, <2>3, <2>4 DEF Publishes
  <2> QED
    BY <2>2, <2>5
<1>9. ASSUME QueueChange PROVE Publishes(QueueIs(queued'), note)
  <2>1. queued' \in 0 .. MaxQueue
    BY <1>9, LiveViewAssumption DEF QueueChange, Typed, TypeOK, LiveViewAssumption
  <2> QED
    BY <1>1, <1>2, <1>9, <2>1, EventFacts DEF QueueChange, Publishes
<1> QED
  BY <1>3, <1>4, <1>5, <1>6, <1>7, <1>8, <1>9

\* What was counted stays a number.
LEMMA CountFacts ==
  ASSUME NEW c \in Counts
  PROVE  /\ [c EXCEPT !.turns = @ + 1] \in Counts
         /\ [c EXCEPT !.parts = @ + 1] \in Counts
         /\ [c EXCEPT !.drops = @ + 1] \in Counts
         /\ \A d \in 0 .. MaxDeltas : [c EXCEPT !.deltas = d] \in Counts
BY DEF Counts

\* The variables keep their types.
LEMMA TypeStep == ASSUME Typed, [Next]_vars PROVE Typed'
<1> USE LiveViewAssumption DEF LiveViewAssumption
<1>1. /\ turn \in {"none", "taken", "running", "erred", "ended"}
      /\ failing \in {"none", "failed", "ended"}
      /\ preview \in [text : Texts, closed : BOOLEAN] /\ queued \in 0 .. MaxQueue
      /\ conn \in {"off", "subscribed", "stated", "streaming"} /\ Len(ch) <= Cap + 1
      /\ count \in Counts
  BY DEF Typed, TypeOK
<1>2. /\ NoPreview \in [text : Texts, closed : BOOLEAN]
      /\ AfterText \in [text : Texts, closed : BOOLEAN]
  BY DEF NoPreview, AfterText, Texts
\* The server's variables.
<1>3. /\ turn' \in {"none", "taken", "running", "erred", "ended"}
      /\ busy' = (turn' # "none") /\ failing' \in {"none", "failed", "ended"}
      /\ preview' \in [text : Texts, closed : BOOLEAN] /\ queued' \in 0 .. MaxQueue
      /\ preview' # NoPreview => turn' = "running"
      /\ count' \in Counts
  <2> USE DEF Typed
  <2>1. CASE Take
    BY <1>1, <2>1, CountFacts DEF Take
  <2>2. CASE Start
    BY <1>1, <1>2, <2>2 DEF Start
  <2>3. CASE TurnDelta
    <3>1. count.deltas + 1 \in 1 .. MaxDeltas /\ preview.text \in Seq(1 .. MaxDeltas)
      BY <1>1, <2>3 DEF TurnDelta, Counts, Texts
    <3>2. Append(preview.text, count.deltas + 1) \in Texts
      BY <3>1 DEF Texts
    <3>3. preview' \in [text : Texts, closed : BOOLEAN]
      BY <1>1, <2>3, <3>2 DEF TurnDelta
    <3>4. count' \in Counts
      <4>1. count' = [count EXCEPT !.deltas = count.deltas + 1]
        BY <2>3 DEF TurnDelta
      <4>2. count.deltas + 1 \in 0 .. MaxDeltas
        BY <3>1
      <4> QED
        BY <1>1, <4>1, <4>2, CountFacts
    <3> QED
      BY <1>1, <2>3, <3>3, <3>4 DEF TurnDelta
  <2>4. CASE \E tool \in BOOLEAN : TurnPart(tool)
    <3>1. /\ count' = [count EXCEPT !.parts = @ + 1] /\ preview' \in {NoPreview, AfterText}
          /\ turn' = "running" /\ UNCHANGED <<busy, failing, queued, turn>>
      BY <2>4 DEF TurnPart
    <3> QED
      BY <1>1, <1>2, <3>1, CountFacts
  <2>5. CASE TurnFailed
    BY <1>1, <1>2, <2>5 DEF TurnFailed
  <2>6. CASE TurnEnded
    BY <1>1, <1>2, <2>6 DEF TurnEnded
  <2>7. CASE MarkIdle
    BY <1>1, <2>7 DEF MarkIdle
  <2>8. CASE SendFails
    BY <1>1, <2>8 DEF SendFails
  <2>9. CASE FailPublish
    BY <1>1, <2>9 DEF FailPublish
  <2>10. CASE QueueChange
    BY <1>1, <2>10 DEF QueueChange
  <2>11. CASE Tab
    <3>1. UNCHANGED server /\ (count' = count \/ count' = [count EXCEPT !.drops = @ + 1])
      BY <2>11 DEF Tab, Subscribe, SendState, SendQueued, Forward, Disconnect
    <3> QED
      BY <1>1, <3>1, CountFacts DEF server
  <2>12. CASE UNCHANGED vars
    BY <1>1, <2>12 DEF vars, server
  <2> QED
    BY <2>1, <2>2, <2>3, <2>4, <2>5, <2>6, <2>7, <2>8, <2>9, <2>10, <2>11, <2>12
    DEF Next, Turns
\* The channel and the tab.
<1>4. /\ conn' \in {"off", "subscribed", "stated", "streaming"} /\ Len(ch') <= Cap + 1
      /\ ch' \in Seq(Event) /\ (\A i \in DOMAIN ch' : Formed(ch'[i]))
      /\ conn' = "off" => ch' = <<>>
      /\ view' \in View /\ note' \in Notes
  <2>1. CASE \E ev, also : Publishes(ev, also)
    <3>1. PICK ev, also : Publishes(ev, also)
      BY <2>1
    <3> QED
      BY <1>1, <3>1, PublishCases DEF Publishes, Typed
  <2>2. CASE UNCHANGED <<client, note>>
    BY <1>1, <2>2 DEF client, Typed
  <2>3. CASE Subscribe
    <3>1. ch' = <<>> \/ ch' = <<Delta(preview.text)>>
      BY <2>3 DEF Subscribe, SeedEvents
    <3>2. Delta(preview.text) \in Event /\ Formed(Delta(preview.text))
      BY <1>1, EventFacts DEF Formed
    <3>3. /\ ch' \in Seq(Event) /\ Len(ch') <= 1 /\ (\A i \in DOMAIN ch' : Formed(ch'[i]))
      <4>1. CASE ch' = <<>>
        BY <4>1
      <4>2. CASE ch' = <<Delta(preview.text)>>
        <5> DEFINE ev == Delta(preview.text)
        <5> HIDE DEF ev
        <5>1. ch' = <<ev>> /\ ev \in Event /\ Formed(ev)
          BY <3>2, <4>2 DEF ev
        <5>2. DOMAIN ch' = {1} /\ ch'[1] = ev
          BY <5>1
        <5> QED
          BY <5>1, <5>2
      <4> QED
        BY <3>1, <4>1, <4>2
    <3>4. note' \in Notes
      BY <2>3 DEF Subscribe, Notes, Typed, View
    <3> QED
      BY <2>3, <3>3, <3>4 DEF Subscribe, Typed
  <2>4. CASE SendState
    <3>1. view' \in View
      BY <2>4, StateFacts DEF SendState, Typed
    <3>2. note' \in Notes
      BY <2>4 DEF SendState, Notes, Typed, Stale
    <3> QED
      BY <1>1, <2>4, <3>1, <3>2 DEF SendState, Typed
  <2>5. CASE SendQueued
    <3>1. QueueIs(queued) \in Event /\ Formed(QueueIs(queued))
      BY <1>1, EventFacts DEF Formed, QueueIs, Ev
    <3>2. view' \in View
      BY <2>5, <3>1, HandleFacts DEF SendQueued, Typed
    <3> QED
      BY <1>1, <2>5, <3>2 DEF SendQueued, Typed
  <2>6. CASE Forward
    <3>1. ch \in Seq(Event) /\ ch # <<>> /\ ch' = Tail(ch) /\ conn' = "streaming"
      BY <2>6 DEF Forward, Typed
    <3>2. Head(ch) \in Event /\ Formed(Head(ch))
      BY <3>1, TailFacts DEF Typed
    <3>3. view' \in View
      BY <2>6, <3>2, HandleFacts DEF Forward, Typed
    <3>4. /\ ch' \in Seq(Event) /\ Len(ch') <= Cap + 1 /\ (\A i \in DOMAIN ch' : Formed(ch'[i]))
      BY <1>1, <3>1, TailFacts DEF Typed
    <3> QED
      BY <2>6, <3>1, <3>3, <3>4 DEF Forward, Typed
  <2>7. CASE Disconnect
    <3>1. note' \in Notes
      BY <2>7 DEF Disconnect, Notes, Typed
    <3> QED
      BY <2>7, <3>1 DEF Disconnect, Typed
  <2>8. CASE Turns
    <3>1. \/ \E ev, also : Publishes(ev, also)
          \/ Take \/ MarkIdle \/ SendFails
      BY <2>8, Publications DEF Turns
    <3> QED
      BY <2>1, <2>2, <3>1 DEF Take, MarkIdle, SendFails
  <2>9. CASE UNCHANGED vars
    BY <2>2, <2>9 DEF vars
  <2> QED
    BY <2>3, <2>4, <2>5, <2>6, <2>7, <2>8, <2>9 DEF Next, Tab
<1>5. TypeOK'
  BY <1>3, <1>4 DEF TypeOK, View
<1> QED
  BY <1>3, <1>4, <1>5 DEF Typed

\* What was seen stays seen.
LEMMA FaithfulStep ==
  ASSUME Typed, [Next]_vars
  PROVE  Faithful' => Faithful
<1>1. ASSUME NEW ev, NEW also, Publishes(ev, also) PROVE Faithful' => Faithful
  BY <1>1, PublishCases DEF Publishes, Faithful
<1>2. CASE Turns
  BY <1>1, <1>2, Publications DEF Turns, Take, MarkIdle, SendFails, Faithful
<1>3. CASE Tab \/ UNCHANGED vars
  <2>1. \/ note' = note
        \/ note' = [note EXCEPT !.lost = FALSE, !.synced = ~view.live /\ ~preview.closed]
        \/ note' = [note EXCEPT !.late = @ \/ Stale]
        \/ note' = [note EXCEPT !.synced = FALSE]
    BY <1>3 DEF Tab, Subscribe, SendState, SendQueued, Forward, Disconnect, vars
  <2> QED
    BY <2>1 DEF Faithful, Typed, Notes
<1> QED
  BY <1>2, <1>3 DEF Next

\* What a publication does to what the channel says.
LEMMA Published ==
  ASSUME Typed, NEW ev, NEW also, Publishes(ev, also)
  PROVE  /\ conn' = conn /\ view' = view /\ (Joined' <=> Joined)
         /\ (note.lost => note'.lost)
         /\ Faithful' => Faithful /\ (failing' # failing => turn = "none")
         /\ \/ conn = "off" /\ ch = <<>> /\ ch' = <<>>
            \/ /\ conn # "off" /\ ch' = ch /\ note'.lost
               /\ Faithful' => ~Missed(ev)
            \/ conn # "off" /\ ch' = Append(ch, ev) /\ ch \in Seq(Event) /\ ev \in Event
<1>1. /\ conn' = conn /\ view' = view /\ note' \in Notes
      /\ \/ conn = "off" /\ ch = <<>> /\ ch' = <<>> /\ note' = also
         \/ /\ conn # "off" /\ ch' = ch /\ note'.lost = TRUE
            /\ note'.late = (also.late \/ Missed(ev)) /\ note'.crossed = also.crossed
         \/ conn # "off" /\ ch' = Append(ch, ev) /\ note' = also
  BY PublishCases DEF Publishes
<1>2. also \in Notes /\ also.late = note.late /\ also.lost = note.lost
      /\ (also.crossed <=> note.crossed \/ (failing' # failing /\ turn # "none"))
      /\ ev \in Event
  BY DEF Publishes
<1>3. Joined' <=> Joined
  BY <1>1 DEF Joined
<1>4. (note.lost => note'.lost) /\ (Faithful' => ~note'.late /\ ~note'.crossed)
  BY <1>1, <1>2 DEF Faithful, Notes
<1>5. Faithful' => Faithful /\ (failing' # failing => turn = "none")
  BY <1>1, <1>2, <1>4 DEF Faithful, Notes
<1> QED
  BY <1>1, <1>2, <1>3, <1>4, <1>5 DEF Typed, Missed, Notes

\* A publication keeps a place of the channel quiet.
LEMMA QuietPublished ==
  ASSUME Typed, NEW ev, NEW also, Publishes(ev, also), NEW i \in 1 .. End(ch), Quiet(i)
  PROVE  Quiet(i)'
<1>1. CASE conn = "off" /\ ch = <<>> /\ ch' = <<>>
  BY <1>1, Published DEF Quiet
<1>2. CASE ch' = ch
  BY <1>2, Published DEF Quiet
<1>3. CASE ch' = Append(ch, ev) /\ ch \in Seq(Event) /\ ev \in Event
  <2>1. Silent(ch', i) <=> Silent(ch, i)
    BY <1>3, AppendBefore
  <2>2. LastIs(ch', i, Stops) <=> LastIs(ch, i, Stops)
    BY <1>3, AppendBefore
  <2> QED
    BY <2>1, <2>2, Published DEF Quiet
<1> QED
  BY <1>1, <1>2, <1>3, Published

\* It keeps its end quiet when it is about the queue, and makes it so when it stops
\* the turn.
LEMMA EndPublished ==
  ASSUME Typed, NEW ev, NEW also, Publishes(ev, also), Faithful',
         \/ ev.type = "queue" /\ Quiet(End(ch))
         \/ ev.type \in Stops /\ (Quiet(End(ch)) \/ Missed(ev))
  PROVE  Quiet(End(ch))'
<1>1. CASE conn = "off" /\ ch = <<>> /\ ch' = <<>>
  <2>1. ~Joined'
    BY <1>1, Published DEF Joined
  <2>2. Silent(ch', End(ch'))
    BY <1>1, EmptySays
  <2> QED
    BY <2>1, <2>2 DEF Quiet
<1>2. CASE ch' = ch /\ ~Missed(ev)
  BY <1>2, Published DEF Quiet
<1>3. CASE ch' = Append(ch, ev) /\ ch \in Seq(Event) /\ ev \in Event
  <2>1. "queue" \notin Stops
    BY DEF Stops
  <2>2. /\ ev.type = "queue" =>
             /\ Silent(ch', End(ch')) <=> Silent(ch, End(ch))
             /\ LastIs(ch', End(ch'), Stops) <=> LastIs(ch, End(ch), Stops)
        /\ ev.type # "queue" => (LastIs(ch', End(ch'), Stops) <=> ev.type \in Stops)
    BY <1>3, <2>1, AppendEnd
  <2> QED
    BY <2>1, <2>2, Published DEF Quiet
<1> QED
  BY <1>1, <1>2, <1>3, Published

\* The queue of the snapshot changes nothing else.
LEMMA QueueFacts ==
  ASSUME NEW v \in View, queued \in 0 .. MaxQueue
  PROVE  /\ Handle(v, QueueIs(queued)).live = v.live
         /\ Handle(v, QueueIs(queued)).streaming = v.streaming
         /\ Handle(v, QueueIs(queued)).queue = queued
<1>1. QueueIs(queued) \in Event /\ Formed(QueueIs(queued))
  BY EventFacts DEF Formed, QueueIs, Ev
<1>2. QueueIs(queued).type = "queue" /\ QueueIs(queued).n = queued
  BY DEF QueueIs, Ev
<1> DEFINE ev == QueueIs(queued)
<1> HIDE DEF ev
<1>3. ev \in Event /\ Formed(ev) /\ ev.type = "queue" /\ ev.n = queued
  BY <1>1, <1>2 DEF ev
<1>4. Handle(v, ev).live = v.live /\ Handle(v, ev).streaming = v.streaming
      /\ Handle(v, ev).queue = queued
  BY <1>3, HandleFacts
<1> QED
  BY <1>4 DEF ev

\* An end with a reason that is next finds no bubble.
LEMMA HeadQuiet ==
  ASSUME Typed, Dead, Faithful, Forward, Head(ch) = Ended(TRUE)
  PROVE  view.live = FALSE
<1>1. ch \in Seq(Event) /\ ch # <<>> /\ Joined
  BY DEF Forward, Typed, Joined
<1>2. 1 \in DOMAIN ch /\ ch[1] = Ended(TRUE)
  <2>1. Head(ch) = ch[1] /\ DOMAIN ch = 1 .. Len(ch) /\ Len(ch) \in Nat \ {0}
    BY <1>1, TailFacts
  <2>2. 1 \in DOMAIN ch
    BY <2>1
  <2>3. ch[1] = Ended(TRUE)
    BY <2>1, Zenon
  <2> QED
    BY <2>2, <2>3
<1>3. Quiet(1)
  BY <1>2 DEF Dead
<1>4. ~LastIs(ch, 1, Stops)
  BY <1>1, TailFacts DEF LastIs
<1> QED
  BY <1>1, <1>3, <1>4 DEF Quiet, Typed, View

\* A quiet place stays quiet when the channel moves on.
LEMMA QuietForward ==
  ASSUME Typed, Dead, Faithful, Forward, NEW i \in 1 .. End(ch'), Quiet(i + 1)
  PROVE  LastIs(ch', i, Stops) \/ (Silent(ch', i) /\ (Joined' => ~view'.live))
<1>1. ch \in Seq(Event) /\ ch # <<>> /\ ch' = Tail(ch) /\ view' = Handle(view, Head(ch))
      /\ view \in View /\ Joined
  BY DEF Forward, Typed, Joined
<1>2. Head(ch) \in Event /\ Formed(Head(ch))
  BY <1>1, TailFacts DEF Typed
<1>3. CASE LastIs(ch', i, Stops)
  BY <1>3
<1>4. CASE Head(ch).type \in Stops /\ Silent(ch', i)
  <2>1. view'.live = FALSE
    BY <1>1, <1>2, <1>4, HeadQuiet, HandleFacts
  <2> QED
    BY <1>4, <2>1
<1>5. CASE Silent(ch, i + 1)
  <2>1. Silent(ch', i) /\ Head(ch).type = "queue"
    BY <1>1, <1>5, TailBefore
  <2>2. ~LastIs(ch, i + 1, Stops)
    BY <1>5 DEF Silent, LastIs, Stops
  <2>3. ~view'.live
    BY <1>1, <1>2, <2>1, <2>2, HandleFacts DEF Quiet
  <2> QED
    BY <2>1, <2>3
<1>6. LastIs(ch, i + 1, Stops) =>
        LastIs(ch', i, Stops) \/ (Head(ch).type \in Stops /\ Silent(ch', i))
  BY <1>1, TailBefore
<1> QED
  BY <1>3, <1>4, <1>5, <1>6 DEF Quiet

\* A bubble stops with the turn it shows.
LEMMA BubbleStep == ASSUME Typed, Bubble, Dead, [Next]_vars PROVE Bubble'
<1> SUFFICES ASSUME Faithful' PROVE view'.live = view'.streaming
  BY DEF Bubble
<1> USE FaithfulStep
<1>1. view \in View /\ view.live = view.streaming
  BY DEF Bubble, Typed
<1>2. CASE UNCHANGED view
  BY <1>1, <1>2
<1>3. CASE Turns
  BY <1>2, <1>3, Publications, Published DEF Turns, Take, MarkIdle, SendFails, client
<1>4. CASE SendState
  <2>1. (busy => view'.live = TRUE /\ view'.streaming = TRUE)
        /\ (~busy => view'.live = FALSE /\ view'.streaming = FALSE)
    BY <1>1, <1>4, StateFacts DEF SendState
  <2>2. CASE busy
    BY <2>1, <2>2
  <2>3. CASE ~busy
    BY <2>1, <2>3
  <2> QED
    BY <2>2, <2>3
<1>5. CASE SendQueued
  <2>1. view'.live = view.live /\ view'.streaming = view.streaming
    BY <1>1, <1>5, QueueFacts DEF SendQueued, Typed, TypeOK
  <2> QED
    BY <1>1, <2>1
<1>6. CASE Forward
  <2>1. Head(ch) \in Event /\ Formed(Head(ch)) /\ view' = Handle(view, Head(ch))
    BY <1>6, TailFacts DEF Forward, Typed
  <2> DEFINE ev == Head(ch)
  <2>2. ev = Ended(TRUE) => view.live = FALSE /\ ev.type \in Stops
    BY <1>6, HeadQuiet, EventFacts DEF Stops
  <2> HIDE DEF ev
  <2>3. ev \in Event /\ Formed(ev) /\ view' = Handle(view, ev)
    BY <2>1 DEF ev
  <2>4. /\ ev.type \in Runs => view'.live = TRUE /\ view'.streaming = TRUE
        /\ ev.type \in Stops => view'.streaming = FALSE
        /\ ev.type \in Stops /\ ev # Ended(TRUE) => view'.live = FALSE
        /\ ev = Ended(TRUE) => view'.live = view.live
        /\ ev.type = "queue" => view'.live = view.live /\ view'.streaming = view.streaming
    BY <1>1, <2>3, HandleFacts
  <2>5. ev.type \in Runs \/ ev.type \in Stops \/ ev.type = "queue"
    BY <2>3 DEF Event
  <2>6. CASE ev.type \in Stops
    BY <2>2, <2>4, <2>6
  <2> QED
    BY <1>1, <2>4, <2>5, <2>6
<1>7. CASE Subscribe \/ Disconnect \/ UNCHANGED vars
  BY <1>2, <1>7 DEF Subscribe, Disconnect, vars, client
<1> QED
  BY <1>3, <1>4, <1>5, <1>6, <1>7 DEF Next, Tab

\* An end with a reason is published after its error.
LEMMA DeadPublished ==
  ASSUME Typed, Dead, NEW ev, NEW also, Publishes(ev, also),
         ev = Ended(TRUE) /\ Faithful' => Quiet(End(ch))
  PROVE  Dead'
<1> SUFFICES ASSUME Faithful', NEW i \in DOMAIN ch', ch'[i] = Ended(TRUE) PROVE Quiet(i)'
  BY DEF Dead
<1>1. Faithful
  BY Published
<1>2. ch \in Seq(Event) /\ DOMAIN ch = 1 .. Len(ch) /\ Len(ch) \in Nat
  BY DEF Typed
<1>3. CASE i \in DOMAIN ch /\ ch[i] = Ended(TRUE)
  <2>1. Quiet(i)
    BY <1>1, <1>3 DEF Dead
  <2>2. i \in 1 .. End(ch)
    BY <1>2, <1>3 DEF End
  <2> QED
    BY <2>1, <2>2, QuietPublished
<1>4. CASE ch' = Append(ch, ev) /\ ev \in Event /\ ~(i \in DOMAIN ch)
  <2>1. DOMAIN ch' = 1 .. Len(ch) + 1 /\ ch'[Len(ch) + 1] = ev
    BY <1>2, <1>4, AppendFacts
  <2>2. i = End(ch)
    BY <1>2, <1>4, <2>1 DEF End
  <2>3. End(ch) \in 1 .. End(ch)
    BY <1>2 DEF End
  <2>4. ev = Ended(TRUE)
    BY <2>1, <2>2, Zenon DEF End
  <2> QED
    BY <2>2, <2>3, <2>4, QuietPublished
<1>5. CASE ch' = Append(ch, ev) /\ ev \in Event /\ i \in DOMAIN ch
  <2>1. ch'[i] = ch[i]
    BY <1>2, <1>5, AppendFacts
  <2> QED
    BY <1>3, <1>5, <2>1
<1>6. CASE ch' = ch
  <2>1. i \in DOMAIN ch /\ ch[i] = Ended(TRUE)
    BY <1>6
  <2> QED
    BY <1>3, <2>1
<1>7. ch' # <<>>
  OBVIOUS
<1> QED
  BY <1>4, <1>5, <1>6, <1>7, Published

\* An end with a reason finds no bubble, also after a new connection: a snapshot
\* that comes before one is stale.
LEMMA DeadStep == ASSUME Typed, Bubble, Dead, Over, [Next]_vars PROVE Dead'
<1>1. ASSUME NEW ev, NEW also, Publishes(ev, also), ev # Ended(TRUE) PROVE Dead'
  BY <1>1, DeadPublished
<1>2. CASE Start \/ TurnDelta \/ TurnFailed \/ QueueChange
           \/ \E tool \in BOOLEAN : TurnPart(tool)
  <2>1. \E ev, also : Publishes(ev, also) /\ ev.type # "ended"
    <3>1. /\ \A type \in {"started", "text", "tool", "failed"} : Ev(type).type # "ended"
          /\ \A text : Delta(text).type # "ended"
          /\ \A n : QueueIs(n).type # "ended"
      BY DEF Ev, Delta, QueueIs
    <3> QED
      BY <1>2, <3>1, Publications
  <2> QED
    BY <1>1, <2>1, EventFacts
<1>3. CASE TurnEnded
  <2>1. PICK reason \in {FALSE, turn = "erred"} : Publishes(Ended(reason), note)
    BY <1>3, Publications
  <2>2. CASE turn = "erred"
    BY <2>1, <2>2, Published, DeadPublished DEF Over, Closing
  <2>3. CASE turn # "erred"
    <3>1. reason = FALSE
      BY <2>1, <2>3
    <3> QED
      BY <1>1, <2>1, <3>1, EventFacts
  <2> QED
    BY <2>2, <2>3
<1>4. CASE FailPublish
  <2> DEFINE ev == IF failing = "failed" THEN Ev("failed") ELSE Ended(TRUE)
  <2>1. PICK also \in Notes : Publishes(ev, also)
    BY <1>4, Publications
  <2>2. CASE failing = "failed"
    <3>1. ev # Ended(TRUE)
      BY <2>2 DEF Ev, Ended
    <3> HIDE DEF ev
    <3> QED
      BY <1>1, <2>1, <3>1
  <2>3. CASE failing = "ended"
    <3>1. failing' # failing
      BY <1>4 DEF FailPublish
    <3> HIDE DEF ev
    <3>2. Faithful' => Quiet(End(ch))
      BY <2>1, <2>3, <3>1, Published DEF Over, Closing
    <3> QED
      BY <2>1, <3>2, DeadPublished
  <2> QED
    BY <1>4, <2>2, <2>3 DEF FailPublish, Typed, TypeOK
<1>5. CASE Take \/ MarkIdle \/ SendFails \/ UNCHANGED vars
  BY <1>5 DEF Take, MarkIdle, SendFails, vars, client, Dead, Faithful, Quiet, Joined
<1>6. CASE Subscribe
  <2>1. ch' = <<>> \/ ch' = <<Delta(preview.text)>>
    BY <1>6 DEF Subscribe, SeedEvents
  <2>2. Delta(preview.text) # Ended(TRUE)
    BY DEF Delta, Ended, Ev
  <2>3. ASSUME NEW i \in DOMAIN ch' PROVE ch'[i] # Ended(TRUE)
    <3>1. CASE ch' = <<>>
      BY <2>3, <3>1
    <3>2. CASE ch' = <<Delta(preview.text)>>
      <4>1. ch'[i] = Delta(preview.text)
        BY <2>3, <3>2
      <4> QED
        BY <2>2, <4>1
    <3> QED
      BY <2>1, <3>1, <3>2
  <2> QED
    BY <2>3 DEF Dead
<1>7. CASE SendState
  <2>1. note' = [note EXCEPT !.late = @ \/ Stale] /\ ch' = ch
    BY <1>7 DEF SendState
  <2>2. Faithful' => ~Stale
    BY <2>1 DEF Faithful, Typed, Notes
  <2> QED
    BY <2>1, <2>2 DEF Dead, Stale
<1>8. CASE SendQueued
  <2>1. view'.live = view.live /\ ch' = ch /\ note' = note /\ Joined /\ Joined'
    BY <1>8, QueueFacts DEF SendQueued, Joined, Typed, TypeOK
  <2> QED
    BY <2>1 DEF Dead, Quiet, Faithful
<1>9. CASE Forward
  <2> SUFFICES ASSUME Faithful', NEW i \in DOMAIN ch', ch'[i] = Ended(TRUE) PROVE Quiet(i)'
    BY DEF Dead
  <2>1. ch \in Seq(Event) /\ ch # <<>> /\ ch' = Tail(ch)
    BY <1>9 DEF Forward, Typed
  <2>2. /\ DOMAIN ch = 1 .. Len(ch) /\ DOMAIN ch' = 1 .. Len(ch) - 1
        /\ Len(ch) \in Nat \ {0} /\ Len(ch') = Len(ch) - 1
        /\ \A k \in 1 .. Len(ch) - 1 : ch'[k] = ch[k + 1]
    BY <2>1, TailFacts
  <2>3. i + 1 \in DOMAIN ch /\ i \in 1 .. End(ch') /\ i \in 1 .. Len(ch) - 1
    BY <2>2 DEF End
  <2>4. ch[i + 1] = Ended(TRUE)
    BY <2>2, <2>3, Zenon
  <2>5. Faithful
    BY FaithfulStep
  <2>6. Quiet(i + 1)
    BY <2>3, <2>4, <2>5 DEF Dead
  <2> QED
    BY <1>9, <2>3, <2>5, <2>6, QuietForward DEF Quiet
<1>10. CASE Disconnect
  BY <1>10 DEF Disconnect, Dead
<1> QED
  BY <1>2, <1>3, <1>4, <1>5, <1>6, <1>7, <1>8, <1>9, <1>10 DEF Next, Turns, Tab

\* A turn that is over leaves no bubble, unless the tab missed that.
LEMMA OverStep == ASSUME Typed, Bubble, Dead, Over, [Next]_vars PROVE Over'
<1> SUFFICES ASSUME Faithful', Closing' PROVE Quiet(End(ch))'
  BY DEF Over
<1>1. Faithful
  BY FaithfulStep
<1>2. Len(ch) \in Nat /\ ch \in Seq(Event)
  BY DEF Typed
<1>3. CASE Take \/ Start \/ TurnDelta \/ \E tool \in BOOLEAN : TurnPart(tool)
  BY <1>3 DEF Take, Start, TurnDelta, TurnPart, Closing
<1>4. CASE TurnFailed
  <2>1. Publishes(Ev("failed"), note) /\ Ev("failed").type = "failed"
    BY <1>4, Publications DEF Ev
  <2> QED
    BY <2>1, EndPublished DEF Missed, Stops
<1>5. CASE TurnEnded
  <2>1. PICK reason \in {FALSE, turn = "erred"} : Publishes(Ended(reason), note)
    BY <1>5, Publications
  <2>2. Ended(reason).type = "ended"
    BY DEF Ended, Ev
  <2>3. failing = "ended"
    BY <1>5 DEF TurnEnded, Closing
  <2>4. Missed(Ended(reason))
    BY <2>2, <2>3 DEF Missed
  <2> QED
    BY <2>1, <2>2, <2>4, EndPublished DEF Stops
<1>6. CASE MarkIdle
  <2>1. Closing
    BY <1>6 DEF MarkIdle, Closing
  <2> QED
    BY <1>1, <1>6, <2>1 DEF MarkIdle, client, Over, Quiet, Joined
<1>7. CASE SendFails
  BY <1>7 DEF SendFails, Closing
<1>8. CASE FailPublish
  <2> DEFINE ev == IF failing = "failed" THEN Ev("failed") ELSE Ended(TRUE)
  <2>1. PICK also \in Notes : Publishes(ev, also)
    BY <1>8, Publications
  <2>2. CASE failing = "failed"
    <3>1. ev.type = "failed"
      BY <2>2 DEF Ev
    <3> HIDE DEF ev
    <3> QED
      BY <2>1, <3>1, EndPublished DEF Missed, Stops
  <2>3. CASE failing # "failed"
    <3>1. failing' = "none" /\ failing' # failing /\ turn' = turn
      BY <1>8, <2>3 DEF FailPublish
    <3> HIDE DEF ev
    <3>2. turn = "none"
      BY <2>1, <3>1, Published
    <3> QED
      BY <3>1, <3>2 DEF Closing
  <2> QED
    BY <2>2, <2>3
<1>9. CASE QueueChange
  <2>1. Publishes(QueueIs(queued'), note) /\ QueueIs(queued').type = "queue"
    BY <1>9, Publications DEF QueueIs, Ev
  <2>2. Quiet(End(ch))
    BY <1>1, <1>9 DEF QueueChange, Closing, Over
  <2> QED
    BY <2>1, <2>2, EndPublished
<1>10. CASE Subscribe
  <2>1. turn # "running" /\ conn' = "subscribed"
    BY <1>10 DEF Subscribe, server, Closing
  <2>2. ch' = <<>>
    BY <1>10, <2>1 DEF Subscribe, SeedEvents, Typed, NoPreview
  <2>3. Silent(ch', End(ch'))
    BY <2>2, EmptySays
  <2> QED
    BY <2>1, <2>3 DEF Quiet, Joined
<1>11. CASE SendState
  <2>1. /\ note' = [note EXCEPT !.late = @ \/ Stale] /\ ch' = ch
        /\ conn = "subscribed" /\ UNCHANGED server
    BY <1>11 DEF SendState
  <2>2. ~Stale
    BY <2>1 DEF Faithful, Typed, Notes
  <2>3. turn = "none" /\ Closing
    BY <2>1, <2>2 DEF Stale, server, Closing
  <2>4. view'.live = FALSE
    BY <1>1, <1>11, <2>3, StateFacts DEF SendState, Typed, Bubble
  <2> QED
    BY <1>1, <2>1, <2>3, <2>4 DEF Over, Quiet
<1>12. CASE SendQueued
  <2>1. view'.live = view.live /\ ch' = ch /\ Joined /\ UNCHANGED server
    BY <1>12, QueueFacts DEF SendQueued, Joined, Typed, TypeOK
  <2> QED
    BY <1>1, <2>1 DEF Over, Quiet, Closing, server
<1>13. CASE Forward
  <2>1. ch # <<>> /\ ch' = Tail(ch) /\ UNCHANGED server
    BY <1>13 DEF Forward
  <2>2. Len(ch') = Len(ch) - 1 /\ Len(ch) \in Nat \ {0}
    BY <1>2, <2>1, TailFacts
  <2>3. End(ch') \in 1 .. End(ch') /\ End(ch') + 1 = End(ch)
    BY <2>2 DEF End
  <2>4. Quiet(End(ch') + 1)
    BY <1>1, <2>1, <2>3 DEF Over, Closing, server
  <2>5. LastIs(ch', End(ch'), Stops) \/ (Silent(ch', End(ch')) /\ (Joined' => ~view'.live))
    BY <1>1, <1>13, <2>3, <2>4, QuietForward
  <2> QED
    BY <2>5 DEF Quiet
<1>14. CASE Disconnect
  <2>1. Silent(ch', End(ch')) /\ conn' = "off"
    BY <1>14, EmptySays DEF Disconnect
  <2> QED
    BY <2>1 DEF Quiet, Joined
<1>15. CASE UNCHANGED vars
  BY <1>1, <1>15 DEF vars, server, client, Over, Closing, Quiet, Joined
<1> QED
  BY <1>3, <1>4, <1>5, <1>6, <1>7, <1>8, <1>9, <1>10, <1>11, <1>12, <1>13, <1>14, <1>15
  DEF Next, Turns, Tab

\* What a publication says of the turn.
LEMMA ToldPublished ==
  ASSUME Typed, Told, NEW ev, NEW also, Publishes(ev, also),
         ev.type \in Runs => turn' = "running",
         ev.type \in Stops /\ Faithful' => turn' # "running",
         ev.type = "queue" => turn' = turn /\ failing' = failing
  PROVE  Told'
<1> SUFFICES ASSUME Faithful', ~note'.lost
             PROVE  /\ LastIs(ch', End(ch'), Runs) => turn' = "running"
                    /\ LastIs(ch', End(ch'), Stops) => turn' # "running"
                    /\ Silent(ch', End(ch')) /\ Joined' =>
                         /\ turn' = "running" => view'.streaming
                         /\ view'.streaming => turn' \in {"taken", "running"} \/ failing' = "failed"
  BY DEF Told
<1>1. Faithful /\ ~note.lost /\ view' = view /\ (Joined' <=> Joined)
  BY Published
<1>2. CASE conn = "off" /\ ch' = <<>>
  BY <1>1, <1>2, EmptySays DEF Joined
<1>3. CASE ch' = Append(ch, ev) /\ ch \in Seq(Event) /\ ev \in Event
  <2>1. "queue" \notin Stops /\ "queue" \notin Runs /\ Runs \intersect Stops = {}
    BY DEF Stops, Runs
  <2>2. ev.type \in Runs \/ ev.type \in Stops \/ ev.type = "queue"
    BY <1>3 DEF Event
  <2>3. /\ ev.type = "queue" =>
             /\ Silent(ch', End(ch')) <=> Silent(ch, End(ch))
             /\ LastIs(ch', End(ch'), Stops) <=> LastIs(ch, End(ch), Stops)
             /\ LastIs(ch', End(ch'), Runs) <=> LastIs(ch, End(ch), Runs)
        /\ ev.type # "queue" =>
             /\ ~Silent(ch', End(ch'))
             /\ LastIs(ch', End(ch'), Stops) <=> ev.type \in Stops
             /\ LastIs(ch', End(ch'), Runs) <=> ev.type \in Runs
    BY <1>3, <2>1, AppendEnd
  <2>4. CASE ev.type = "queue"
    BY <1>1, <2>3, <2>4 DEF Told
  <2>5. CASE ev.type # "queue"
    BY <2>1, <2>2, <2>3, <2>5
  <2> QED
    BY <2>4, <2>5
<1> QED
  BY <1>2, <1>3, Published

\* What the tab is told of the turn is so.
LEMMA ToldStep == ASSUME Typed, Bubble, Told, [Next]_vars PROVE Told'
<1>1. CASE Take \/ MarkIdle \/ SendFails
  BY <1>1 DEF Take, MarkIdle, SendFails, client, Told, Faithful, Joined
<1>2. CASE Start
  BY <1>2, Publications, ToldPublished DEF Start, Ev, Stops
<1>3. CASE TurnDelta
  BY <1>3, Publications, ToldPublished DEF TurnDelta, Delta, Ev, Stops
<1>4. CASE \E tool \in BOOLEAN : TurnPart(tool)
  <2>1. PICK type \in {"tool", "text"}, also \in Notes : Publishes(Ev(type), also)
    BY <1>4, Publications
  <2>2. Ev(type).type \in {"tool", "text"}
    BY DEF Ev
  <2>3. turn' = "running"
    BY <1>4 DEF TurnPart
  <2> QED
    BY <2>1, <2>2, <2>3, ToldPublished DEF Stops
<1>5. CASE TurnFailed
  BY <1>5, Publications, ToldPublished DEF TurnFailed, Ev, Runs
<1>6. CASE TurnEnded
  <2>1. PICK reason \in {FALSE, turn = "erred"} : Publishes(Ended(reason), note)
    BY <1>6, Publications
  <2>2. Ended(reason).type = "ended" /\ turn' = "ended"
    BY <1>6 DEF TurnEnded, Ended, Ev
  <2> QED
    BY <2>1, <2>2, ToldPublished DEF Runs
<1>7. CASE FailPublish
  <2> DEFINE ev == IF failing = "failed" THEN Ev("failed") ELSE Ended(TRUE)
  <2>1. PICK also \in Notes : Publishes(ev, also)
    BY <1>7, Publications
  <2>2. ev.type \in {"failed", "ended"} /\ turn' = turn /\ failing' # failing
    BY <1>7 DEF FailPublish, Ev, Ended
  <2> HIDE DEF ev
  <2>3. Faithful' => turn = "none"
    BY <2>1, <2>2, Published
  <2> QED
    BY <2>1, <2>2, <2>3, ToldPublished DEF Runs
<1>8. CASE QueueChange
  BY <1>8, Publications, ToldPublished DEF QueueChange, QueueIs, Ev, Runs, Stops
<1>9. CASE Subscribe
  <2>1. /\ ch' = SeedEvents /\ conn' = "subscribed" /\ turn' = turn
    BY <1>9 DEF Subscribe, server
  <2>2. CASE preview.text = <<>>
    <3>1. ch' = <<>>
      BY <2>1, <2>2 DEF SeedEvents
    <3> QED
      BY <2>1, <3>1, EmptySays DEF Told, Joined
  <2>3. CASE preview.text # <<>>
    <3> DEFINE ev == Delta(preview.text)
    <3>1. ev.type = "delta"
      BY DEF Delta, Ev
    <3> HIDE DEF ev
    <3>2. ch' = <<ev>> /\ turn = "running"
      BY <2>1, <2>3 DEF SeedEvents, Typed, NoPreview, ev
    <3>3. ~LastIs(ch', End(ch'), Stops)
      BY <3>1, <3>2 DEF LastIs, Stops
    <3> QED
      BY <2>1, <3>2, <3>3 DEF Told, Joined
  <2> QED
    BY <2>2, <2>3
<1>10. CASE SendState
  <2> SUFFICES ASSUME Faithful', ~note'.lost, Told
               PROVE  /\ turn' = "running" => view'.streaming
                      /\ view'.streaming => turn' \in {"taken", "running"} \/ failing' = "failed"
    BY <1>10, FaithfulStep DEF SendState, server, Told, Typed, Notes
  <2>1. /\ note' = [note EXCEPT !.late = @ \/ Stale] /\ UNCHANGED server
    BY <1>10 DEF SendState
  <2>2. ~Stale
    BY <2>1 DEF Faithful, Typed, Notes
  <2>3. turn \in {"none", "taken", "running"} /\ (busy <=> turn # "none")
    BY <2>2 DEF Stale, Typed, TypeOK
  <2>4. (busy => view'.streaming = TRUE) /\ (~busy => view'.streaming = FALSE)
    BY <1>10, FaithfulStep, StateFacts DEF SendState, Typed, Bubble
  <2> QED
    BY <2>1, <2>3, <2>4 DEF server
<1>11. CASE SendQueued
  <2>1. /\ view'.streaming = view.streaming /\ ch' = ch /\ Joined /\ UNCHANGED server
        /\ note' = note
    BY <1>11, QueueFacts DEF SendQueued, Joined, Typed, TypeOK
  <2> QED
    BY <2>1 DEF Told, Faithful, server
<1>12. CASE Forward
  <2> SUFFICES ASSUME Faithful', ~note'.lost
               PROVE  /\ LastIs(ch', End(ch'), Runs) => turn' = "running"
                      /\ LastIs(ch', End(ch'), Stops) => turn' # "running"
                      /\ Silent(ch', End(ch')) =>
                           /\ turn' = "running" => view'.streaming
                           /\ view'.streaming => turn' \in {"taken", "running"} \/ failing' = "failed"
    BY DEF Told
  <2> DEFINE ev == Head(ch)
             e == End(ch')
  <2>1. /\ ch \in Seq(Event) /\ ch # <<>> /\ ch' = Tail(ch) /\ UNCHANGED server /\ Joined
        /\ ~note.lost /\ Faithful /\ view.live = view.streaming /\ view \in View
    BY <1>12, FaithfulStep DEF Forward, Typed, Joined, Bubble
  <2>2. ev \in Event /\ Formed(ev) /\ view' = Handle(view, ev)
    BY <1>12, <2>1, TailFacts DEF Forward, Typed
  <2>3. e \in 1 .. End(ch') /\ e + 1 = End(ch)
    <3>1. Len(ch') = Len(ch) - 1 /\ Len(ch) \in Nat \ {0}
      BY <2>1, TailFacts
    <3> QED
      BY <3>1 DEF End
  <2> HIDE DEF e, ev
  <2>4. /\ LastIs(ch', e, Runs) => LastIs(ch, End(ch), Runs)
        /\ Silent(ch', e) => IF ev.type = "queue" THEN Silent(ch, End(ch))
                             ELSE ev.type \in Runs => LastIs(ch, End(ch), Runs)
    <3>1. /\ LastIs(ch', e, Runs) => LastIs(ch, e + 1, Runs)
          /\ Silent(ch', e) => IF Head(ch).type = "queue" THEN Silent(ch, e + 1)
                               ELSE Head(ch).type \in Runs => LastIs(ch, e + 1, Runs)
      BY <2>1, <2>3, TailBefore
    <3> QED
      BY <2>3, <3>1 DEF ev
  <2>5. /\ LastIs(ch', e, Stops) => LastIs(ch, End(ch), Stops)
        /\ Silent(ch', e) => IF ev.type = "queue" THEN Silent(ch, End(ch))
                             ELSE ev.type \in Stops => LastIs(ch, End(ch), Stops)
    <3>1. /\ LastIs(ch', e, Stops) => LastIs(ch, e + 1, Stops)
          /\ Silent(ch', e) => IF Head(ch).type = "queue" THEN Silent(ch, e + 1)
                               ELSE Head(ch).type \in Stops => LastIs(ch, e + 1, Stops)
      BY <2>1, <2>3, TailBefore
    <3> QED
      BY <2>3, <3>1 DEF ev
  <2>6. /\ ev.type \in Runs => view'.streaming = TRUE
        /\ ev.type \in Stops => view'.streaming = FALSE
        /\ ev.type = "queue" => view'.streaming = view.streaming
    BY <2>1, <2>2, HandleFacts
  <2>7. /\ LastIs(ch, End(ch), Runs) => turn = "running"
        /\ LastIs(ch, End(ch), Stops) => turn # "running"
        /\ Silent(ch, End(ch)) =>
             /\ turn = "running" => view.streaming
             /\ view.streaming => turn \in {"taken", "running"} \/ failing = "failed"
    BY <2>1 DEF Told
  <2>8. ev.type \in Runs \/ ev.type \in Stops \/ ev.type = "queue"
    BY <2>2 DEF Event
  <2>9. turn' = turn /\ failing' = failing
    BY <2>1 DEF server
  <2>10. ASSUME Silent(ch', e)
         PROVE  /\ turn = "running" => view'.streaming
                /\ view'.streaming => turn \in {"taken", "running"} \/ failing = "failed"
    <3>1. CASE ev.type = "queue"
      BY <2>4, <2>6, <2>7, <2>10, <3>1
    <3>2. CASE ev.type \in Runs /\ ev.type # "queue"
      BY <2>4, <2>6, <2>7, <2>10, <3>2
    <3>3. CASE ev.type \in Stops /\ ev.type # "queue"
      BY <2>5, <2>6, <2>7, <2>10, <3>3
    <3> QED
      BY <2>8, <3>1, <3>2, <3>3
  <2> QED
    BY <2>4, <2>5, <2>7, <2>9, <2>10 DEF e
<1>13. CASE Disconnect
  <2>1. ch' = <<>> /\ conn' = "off"
    BY <1>13 DEF Disconnect
  <2> QED
    BY <2>1, EmptySays DEF Told, Joined
<1>14. CASE UNCHANGED vars
  BY <1>14 DEF vars, server, client, Told, Faithful, Joined
<1> QED
  BY <1>1, <1>2, <1>3, <1>4, <1>5, <1>6, <1>7, <1>8, <1>9, <1>10, <1>11, <1>12, <1>13, <1>14
  DEF Next, Turns, Tab

\* An event about the queue is the newest; any other changes nothing of it.
LEMMA AppendQueue ==
  ASSUME NEW s \in Seq(Event), NEW ev \in Event, NEW t, t = Append(s, ev), NEW n
  PROVE  /\ ev.type = "queue" /\ ev.n = n => Newest(t, n)
         /\ ev.type # "queue" => (Newest(s, n) => Newest(t, n)) /\ (Unqueued(s) => Unqueued(t))
<1> USE AppendFacts
<1>1. ASSUME ev.type = "queue", ev.n = n PROVE Newest(t, n)
  <2>1. Len(s) + 1 \in DOMAIN t /\ t[Len(s) + 1] = ev
    OBVIOUS
  <2>2. \A j \in DOMAIN t : ~(Len(s) + 1 < j)
    OBVIOUS
  <2> QED
    BY <1>1, <2>1, <2>2 DEF Newest
<1>2. ASSUME ev.type # "queue", Newest(s, n) PROVE Newest(t, n)
  <2>1. PICK i \in DOMAIN s : /\ s[i].type = "queue" /\ s[i].n = n
                              /\ \A j \in DOMAIN s : i < j => s[j].type # "queue"
    BY <1>2 DEF Newest
  <2>2. i \in DOMAIN t /\ t[i] = s[i]
    BY <2>1
  <2>3. ASSUME NEW j \in DOMAIN t, i < j PROVE t[j].type # "queue"
    <3>1. CASE j \in DOMAIN s
      BY <2>1, <2>3, <3>1
    <3>2. CASE j = Len(s) + 1
      BY <1>2, <3>2
    <3> QED
      BY <3>1, <3>2
  <2> QED
    BY <2>1, <2>2, <2>3 DEF Newest
<1>3. ASSUME ev.type # "queue", Unqueued(s) PROVE Unqueued(t)
  BY <1>3 DEF Unqueued
<1> QED
  BY <1>1, <1>2, <1>3

LEMMA TailQueue ==
  ASSUME NEW s \in Seq(Event), s # <<>>, NEW t, t = Tail(s), NEW n
  PROVE  /\ Newest(s, n) =>
              Newest(t, n) \/ (Unqueued(t) /\ Head(s).type = "queue" /\ Head(s).n = n)
         /\ Unqueued(s) => Unqueued(t) /\ Head(s).type # "queue"
<1> USE TailFacts
<1>1. ASSUME Newest(s, n)
      PROVE  Newest(t, n) \/ (Unqueued(t) /\ Head(s).type = "queue" /\ Head(s).n = n)
  <2>1. PICK i \in DOMAIN s : /\ s[i].type = "queue" /\ s[i].n = n
                              /\ \A j \in DOMAIN s : i < j => s[j].type # "queue"
    BY <1>1 DEF Newest
  <2>2. ASSUME NEW j \in DOMAIN t, i - 1 < j PROVE t[j].type # "queue"
    <3>1. j + 1 \in DOMAIN s /\ i < j + 1 /\ t[j] = s[j + 1]
      BY <2>1, <2>2
    <3> QED
      BY <2>1, <3>1
  <2>3. CASE i = 1
    <3>1. Unqueued(t)
      BY <2>2, <2>3 DEF Unqueued
    <3> QED
      BY <2>1, <2>3, <3>1
  <2>4. CASE i # 1
    <3>1. i - 1 \in DOMAIN t /\ t[i - 1] = s[i]
      BY <2>1, <2>4
    <3> QED
      BY <2>1, <2>2, <3>1 DEF Newest
  <2> QED
    BY <2>3, <2>4
<1>2. ASSUME Unqueued(s) PROVE Unqueued(t) /\ Head(s).type # "queue"
  BY <1>2 DEF Unqueued
<1> QED
  BY <1>1, <1>2

\* What the tab is told of the queue is so.
LEMMA QueuePublished ==
  ASSUME Typed, Queue, NEW ev, NEW also, Publishes(ev, also),
         \/ ev.type = "queue" /\ ev.n = queued'
         \/ ev.type # "queue" /\ queued' = queued
  PROVE  Queue'
<1> SUFFICES ASSUME ~note'.lost
             PROVE  \/ Newest(ch', queued')
                    \/ Unqueued(ch') /\ (conn' = "streaming" => view'.queue = queued')
  BY DEF Queue
<1>1. ~note.lost /\ conn' = conn /\ view' = view
  BY Published
<1>2. CASE conn = "off" /\ ch' = <<>>
  <2>1. Unqueued(ch')
    BY <1>2 DEF Unqueued
  <2> QED
    BY <1>1, <1>2, <2>1
<1>3. CASE ch' = Append(ch, ev) /\ ch \in Seq(Event) /\ ev \in Event
  <2>1. /\ ev.type = "queue" /\ ev.n = queued' => Newest(ch', queued')
        /\ ev.type # "queue" => /\ Newest(ch, queued') => Newest(ch', queued')
                                /\ Unqueued(ch) => Unqueued(ch')
    BY <1>3, AppendQueue
  <2> QED
    BY <1>1, <2>1 DEF Queue
<1> QED
  BY <1>2, <1>3, Published

LEMMA QueueStep == ASSUME Typed, Queue, [Next]_vars PROVE Queue'
<1>1. CASE Start
  BY <1>1, Publications, QueuePublished DEF Start, Ev
<1>2. CASE TurnDelta
  BY <1>2, Publications, QueuePublished DEF TurnDelta, Delta, Ev
<1>3. CASE \E tool \in BOOLEAN : TurnPart(tool)
  <2>1. PICK type \in {"tool", "text"}, also \in Notes : Publishes(Ev(type), also)
    BY <1>3, Publications
  <2>2. Ev(type).type # "queue" /\ queued' = queued
    BY <1>3 DEF Ev, TurnPart
  <2> QED
    BY <2>1, <2>2, QueuePublished
<1>4. CASE TurnFailed
  BY <1>4, Publications, QueuePublished DEF TurnFailed, Ev
<1>5. CASE TurnEnded
  <2>1. PICK reason \in {FALSE, turn = "erred"} : Publishes(Ended(reason), note)
    BY <1>5, Publications
  <2>2. Ended(reason).type = "ended" /\ queued' = queued
    BY <1>5 DEF TurnEnded, Ended, Ev
  <2> QED
    BY <2>1, <2>2, QueuePublished
<1>6. CASE FailPublish
  <2> DEFINE ev == IF failing = "failed" THEN Ev("failed") ELSE Ended(TRUE)
  <2>1. PICK also \in Notes : Publishes(ev, also)
    BY <1>6, Publications
  <2>2. ev.type # "queue" /\ queued' = queued
    BY <1>6 DEF FailPublish, Ev, Ended
  <2> HIDE DEF ev
  <2> QED
    BY <2>1, <2>2, QueuePublished
<1>7. CASE QueueChange
  BY <1>7, Publications, QueuePublished DEF QueueIs, Ev
<1>8. CASE Subscribe
  <2>1. ch' = <<>> \/ ch' = <<Delta(preview.text)>>
    BY <1>8 DEF Subscribe, SeedEvents
  <2>2. Delta(preview.text).type # "queue"
    BY DEF Delta, Ev
  <2>3. Unqueued(ch')
    BY <2>1, <2>2 DEF Unqueued
  <2> QED
    BY <1>8, <2>3 DEF Subscribe, Queue
<1>9. CASE SendState
  <2>1. note'.lost = note.lost
    BY <1>9 DEF SendState, Typed, Notes
  <2> QED
    BY <1>9, <2>1 DEF SendState, server, Queue
<1>10. CASE SendQueued
  <2>1. view'.queue = queued /\ ch' = ch /\ note' = note /\ queued' = queued
    BY <1>10, QueueFacts DEF SendQueued, server, Typed, TypeOK
  <2> QED
    BY <2>1 DEF Queue
<1>11. CASE Forward
  <2>1. /\ ch \in Seq(Event) /\ ch # <<>> /\ ch' = Tail(ch) /\ note' = note /\ queued' = queued
        /\ conn = "streaming" /\ conn' = "streaming" /\ view \in View
    BY <1>11 DEF Forward, Typed, server
  <2>2. Head(ch) \in Event /\ Formed(Head(ch)) /\ view' = Handle(view, Head(ch))
    BY <1>11, <2>1, TailFacts DEF Forward, Typed
  <2>3. /\ Head(ch).type = "queue" => view'.queue = Head(ch).n
        /\ Head(ch).type # "queue" => view'.queue = view.queue
    BY <2>1, <2>2, HandleFacts
  <2>4. /\ Newest(ch, queued) =>
             \/ Newest(ch', queued)
             \/ Unqueued(ch') /\ Head(ch).type = "queue" /\ Head(ch).n = queued
        /\ Unqueued(ch) => Unqueued(ch') /\ Head(ch).type # "queue"
    BY <2>1, TailQueue
  <2> QED
    BY <2>1, <2>3, <2>4 DEF Queue
<1>12. CASE Disconnect
  <2>1. ch' = <<>> /\ conn' = "off"
    BY <1>12 DEF Disconnect
  <2>2. Unqueued(ch')
    BY <2>1 DEF Unqueued
  <2> QED
    BY <2>1, <2>2 DEF Queue
<1>13. CASE Take \/ MarkIdle \/ SendFails
  BY <1>13 DEF Take, MarkIdle, SendFails, client, Queue
<1>14. CASE UNCHANGED vars
  BY <1>14 DEF vars, server, client, Queue
<1> QED
  BY <1>1, <1>2, <1>3, <1>4, <1>5, <1>6, <1>7, <1>8, <1>9, <1>10, <1>11, <1>12, <1>13, <1>14
  DEF Next, Turns, Tab

(***************************************************************************)
(* The text.                                                               *)
(***************************************************************************)

\* A bubble that stands up is empty; one that stands stays.
LEMMA BeginFacts ==
  ASSUME NEW v \in View
  PROVE  /\ Begin(v) \in View /\ Begin(v).live = TRUE
         /\ v.live => Begin(v) = v
         /\ ~v.live => Begin(v).text = <<>> /\ Begin(v).accept = TRUE
                       /\ Begin(v).streaming = TRUE
<1>1. <<>> \in Texts /\ v.live \in BOOLEAN
  BY DEF Texts, View
<1>2. CASE v.live
  <2>1. Begin(v) = v /\ v.live = TRUE
    BY <1>1, <1>2 DEF Begin
  <2> QED
    BY <1>2, <2>1
<1>3. CASE ~v.live
  BY <1>1, <1>3 DEF Begin, View
<1> QED
  BY <1>2, <1>3

\* One event more, or the first one handled.
LEMMA ShowsEmpty ==
  /\ \A v \in View : Shows(<<>>, v, v)
  /\ \A v, f \in View : Shows(<<>>, v, f) => Like(f, v)
<1>1. ASSUME NEW v \in View PROVE Shows(<<>>, v, v)
  <2> DEFINE tab == [i \in 1 .. 1 |-> v]
  <2>1. tab \in [1 .. Len(<<>>) + 1 -> View] /\ Like(tab[1], v) /\ tab[Len(<<>>) + 1] = v
    BY DEF Like
  <2>2. \A i \in 1 .. Len(<<>>) : FALSE
    OBVIOUS
  <2> HIDE DEF tab
  <2> QED
    BY <2>1, <2>2 DEF Shows
<1>2. ASSUME NEW v \in View, NEW f \in View, Shows(<<>>, v, f) PROVE Like(f, v)
  BY <1>2 DEF Shows
<1> QED
  BY <1>1, <1>2

LEMMA ShowsAppend ==
  ASSUME NEW s \in Seq(Event), NEW ev \in Event, Formed(ev), NEW t, t = Append(s, ev),
         NEW v, NEW f \in View, Shows(s, v, f)
  PROVE  Handle(f, ev) \in View /\ Shows(t, v, Handle(f, ev))
<1>1. PICK tab \in [1 .. Len(s) + 1 -> View] :
        /\ Like(tab[1], v) /\ tab[Len(s) + 1] = f
        /\ \A i \in 1 .. Len(s) : Like(tab[i + 1], Handle(tab[i], s[i]))
  BY DEF Shows
<1>2. /\ Len(s) \in Nat /\ Len(t) = Len(s) + 1 /\ t[Len(s) + 1] = ev
      /\ \A i \in 1 .. Len(s) : t[i] = s[i]
  BY AppendFacts
<1>3. Handle(f, ev) \in View
  BY HandleFacts
<1> DEFINE g == Handle(f, ev)
           new == [i \in 1 .. Len(s) + 2 |-> IF i = Len(s) + 2 THEN g ELSE tab[i]]
<1> HIDE DEF g
<1>4. new \in [1 .. Len(t) + 1 -> View]
  BY <1>1, <1>2, <1>3 DEF g
<1>5. Like(new[1], v) /\ new[Len(t) + 1] = g
  BY <1>1, <1>2
<1>6. ASSUME NEW i \in 1 .. Len(t) PROVE Like(new[i + 1], Handle(new[i], t[i]))
  <2>1. CASE i = Len(s) + 1
    <3>1. new[i + 1] = g /\ new[i] = f /\ t[i] = ev
      BY <1>1, <1>2, <2>1
    <3> QED
      BY <3>1 DEF g, Like
  <2>2. CASE i # Len(s) + 1
    <3>1. i \in 1 .. Len(s) /\ new[i + 1] = tab[i + 1] /\ new[i] = tab[i] /\ t[i] = s[i]
      BY <1>2, <1>6, <2>2
    <3> QED
      BY <1>1, <3>1
  <2> QED
    BY <2>1, <2>2
<1> HIDE DEF new
<1> QED
  BY <1>3, <1>4, <1>5, <1>6 DEF Shows, g

\* What the tab shows of a turn does not depend on its queue.
LEMMA HandleLike ==
  ASSUME NEW v \in View, NEW w \in View, Like(v, w), NEW ev \in Event
  PROVE  Like(Handle(v, ev), Handle(w, ev))
<1>1. /\ Begin(v) \in View /\ Begin(w) \in View /\ Like(Begin(v), Begin(w))
  <2>1. Begin(v) \in View /\ Begin(w) \in View
    BY BeginFacts
  <2>2. CASE v.live
    <3>1. Begin(v) = v /\ Begin(w) = w
      BY <2>2, BeginFacts DEF Like
    <3> QED
      BY <2>1, <3>1
  <2>3. CASE ~v.live
    <3>1. ~w.live
      BY <2>3 DEF Like
    <3>2. /\ Begin(v).live = TRUE /\ Begin(w).live = TRUE
          /\ Begin(v).text = <<>> /\ Begin(w).text = <<>>
          /\ Begin(v).accept = TRUE /\ Begin(w).accept = TRUE
          /\ Begin(v).streaming = TRUE /\ Begin(w).streaming = TRUE
      BY <2>3, <3>1, BeginFacts
    <3> QED
      BY <2>1, <3>2 DEF Like
  <2> QED
    BY <2>1, <2>2, <2>3
<1>2. Like(Finish(v), Finish(w))
  BY DEF Finish, View, Like
<1>3. CASE ev.type = "started"
  BY <1>1, <1>3 DEF Handle
<1>4. CASE ev.type = "delta"
  <2>1. ASSUME NEW a \in View, NEW b \in View, Like(a, b)
        PROVE  Like(Grow(a, ev.text), Grow(b, ev.text))
    BY <2>1 DEF Grow, View, Like
  <2> QED
    BY <1>1, <1>4, <2>1 DEF Handle
<1>5. CASE ev.type = "text"
  <2>1. /\ Handle(v, ev) = [Begin(v) EXCEPT !.text = <<>>, !.accept = FALSE]
        /\ Handle(w, ev) = [Begin(w) EXCEPT !.text = <<>>, !.accept = FALSE]
    BY <1>5 DEF Handle
  <2> QED
    BY <1>1, <2>1 DEF View, Like
<1>6. CASE ev.type = "tool"
  <2>1. /\ Handle(v, ev) = [Begin(v) EXCEPT !.accept = TRUE]
        /\ Handle(w, ev) = [Begin(w) EXCEPT !.accept = TRUE]
    BY <1>6 DEF Handle
  <2> QED
    BY <1>1, <2>1 DEF View, Like
<1>7. CASE ev.type = "failed"
  BY <1>2, <1>7 DEF Handle
<1>8. CASE ev.type = "ended"
  <2>1. CASE ev.n = 1
    <3>1. /\ Handle(v, ev) = [v EXCEPT !.streaming = FALSE]
          /\ Handle(w, ev) = [w EXCEPT !.streaming = FALSE]
      BY <1>8, <2>1 DEF Handle
    <3> QED
      BY <3>1 DEF View, Like
  <2>2. CASE ev.n # 1
    BY <1>2, <1>8, <2>2 DEF Handle
  <2> QED
    BY <2>1, <2>2
<1>9. CASE ev.type = "queue"
  <2>1. /\ Handle(v, ev) = [v EXCEPT !.queue = ev.n]
        /\ Handle(w, ev) = [w EXCEPT !.queue = ev.n]
    BY <1>9 DEF Handle
  <2> QED
    BY <2>1 DEF View, Like
<1> QED
  BY <1>3, <1>4, <1>5, <1>6, <1>7, <1>8, <1>9 DEF Event, Runs, Stops

LEMMA ShowsTail ==
  ASSUME NEW s \in Seq(Event), s # <<>>, NEW t, t = Tail(s),
         NEW v \in View, NEW f \in View, Shows(s, v, f), Handle(v, Head(s)) \in View
  PROVE  Shows(t, Handle(v, Head(s)), f)
<1>1. PICK tab \in [1 .. Len(s) + 1 -> View] :
        /\ Like(tab[1], v) /\ tab[Len(s) + 1] = f
        /\ \A i \in 1 .. Len(s) : Like(tab[i + 1], Handle(tab[i], s[i]))
  BY DEF Shows
<1>2. /\ Len(s) \in Nat \ {0} /\ Len(t) = Len(s) - 1 /\ Head(s) = s[1]
      /\ \A i \in 1 .. Len(s) - 1 : t[i] = s[i + 1]
  BY TailFacts
<1> DEFINE new == [i \in 1 .. Len(t) + 1 |-> tab[i + 1]]
<1>3. new \in [1 .. Len(t) + 1 -> View]
  BY <1>1, <1>2
<1>4. new[1] = tab[2] /\ new[Len(t) + 1] = f
  BY <1>1, <1>2
<1>5. Like(tab[2], Handle(v, Head(s)))
  <2>1. 1 \in 1 .. Len(s) /\ 1 + 1 = 2
    BY <1>2
  <2>2. Like(tab[2], Handle(tab[1], Head(s)))
    BY <1>1, <1>2, <2>1
  <2>3. Like(Handle(tab[1], Head(s)), Handle(v, Head(s)))
    <3>1. tab[1] \in View /\ Head(s) \in Event /\ Like(tab[1], v)
      BY <1>1, <1>2, TailFacts
    <3> QED
      BY <3>1, HandleLike
  <2> QED
    BY <2>2, <2>3 DEF Like
<1>6. ASSUME NEW i \in 1 .. Len(t) PROVE Like(new[i + 1], Handle(new[i], t[i]))
  <2>1. i + 1 \in 1 .. Len(s) /\ i \in 1 .. Len(s) - 1
    BY <1>2
  <2>2. new[i + 1] = tab[(i + 1) + 1] /\ new[i] = tab[i + 1] /\ t[i] = s[i + 1]
    BY <1>2, <2>1
  <2> QED
    BY <1>1, <2>1, <2>2
<1> HIDE DEF new
<1> QED
  BY <1>3, <1>4, <1>5, <1>6 DEF Shows

\* Each event does to the tab what it did to the preview.
LEMMA RightStart ==
  ASSUME NEW f \in View, NEW up, Blank(f)
  PROVE  Right("running", NoPreview, up, Handle(f, Ev("started")))
<1>1. Handle(f, Ev("started")) = Begin(f)
  BY DEF Handle, Ev
<1>2. Begin(f).live = TRUE /\ Begin(f).text = <<>> /\ Begin(f).accept = TRUE
  BY DEF Begin, View, Blank
<1> QED
  BY <1>1, <1>2 DEF Right, NoPreview

LEMMA RightDelta ==
  ASSUME NEW f \in View, NEW up, NEW text \in [text : Texts, closed : BOOLEAN],
         NEW d \in 1 .. MaxDeltas, Right("running", text, up, f)
  PROVE  Right("running", IF text.closed THEN text ELSE [text EXCEPT !.text = Append(@, d)],
               up, Handle(f, Delta(<<d>>)))
<1> DEFINE g == Begin(f)
           more == IF text.closed THEN text ELSE [text EXCEPT !.text = Append(@, d)]
<1>1. Handle(f, Delta(<<d>>)) = Grow(g, <<d>>)
  BY DEF Handle, Ev, Delta
<1>2. g \in View /\ g.live = TRUE /\ g.text = text.text /\ (g.accept <=> ~text.closed)
  <2>1. CASE f.live
    BY <2>1 DEF Right, Begin, View
  <2>2. CASE ~f.live
    <3>1. text = NoPreview
      BY <2>2 DEF Right
    <3> QED
      BY <2>2, <3>1 DEF Begin, View, NoPreview, Texts
  <2> QED
    BY <2>1, <2>2
<1>3. text.text \in Seq(1 .. MaxDeltas) /\ text.text \o <<d>> = Append(text.text, d)
  BY DEF Texts
<1> HIDE DEF g
<1>4. CASE text.closed
  <2>1. Grow(g, <<d>>) = g /\ more = text
    BY <1>2, <1>4 DEF Grow
  <2> QED
    BY <1>1, <1>2, <2>1 DEF Right
<1>5. CASE ~text.closed
  <2>1. Grow(g, <<d>>) = [g EXCEPT !.text = @ \o <<d>>]
    BY <1>2, <1>5 DEF Grow
  <2>2. /\ Grow(g, <<d>>).live = TRUE /\ Grow(g, <<d>>).text = Append(text.text, d)
        /\ Grow(g, <<d>>).accept = g.accept
    BY <1>2, <1>3, <2>1 DEF View
  <2>3. more.text = Append(text.text, d) /\ more.closed = text.closed
    BY <1>5
  <2> HIDE DEF more
  <2>4. Right("running", more, up, Grow(g, <<d>>))
    BY <1>2, <2>2, <2>3 DEF Right
  <2> QED
    BY <1>1, <2>4 DEF more
<1> QED
  BY <1>4, <1>5

LEMMA RightPart ==
  ASSUME NEW f \in View, NEW up, NEW text, Right("running", text, up, f),
         NEW tool \in BOOLEAN, tool => text.text = <<>>
  PROVE  Right("running", IF tool THEN NoPreview ELSE AfterText, up,
               Handle(f, Ev(IF tool THEN "tool" ELSE "text")))
<1>1. /\ Begin(f) \in View /\ Begin(f).live = TRUE
      /\ f.live => Begin(f).text = f.text
      /\ ~f.live => Begin(f).text = <<>>
  BY BeginFacts
<1>2. CASE tool
  <2>1. Handle(f, Ev("tool")) = [Begin(f) EXCEPT !.accept = TRUE]
    BY DEF Handle, Ev
  <2>2. Begin(f).text = <<>>
    BY <1>1, <1>2 DEF Right
  <2>3. /\ Handle(f, Ev("tool")).live = TRUE /\ Handle(f, Ev("tool")).text = <<>>
        /\ Handle(f, Ev("tool")).accept = TRUE
    BY <1>1, <2>1, <2>2 DEF View
  <2> QED
    BY <1>2, <2>3 DEF Right, NoPreview
<1>3. CASE ~tool
  <2>1. Handle(f, Ev("text")) = [Begin(f) EXCEPT !.text = <<>>, !.accept = FALSE]
    BY DEF Handle, Ev
  <2>2. /\ Handle(f, Ev("text")).live = TRUE /\ Handle(f, Ev("text")).text = <<>>
        /\ Handle(f, Ev("text")).accept = FALSE
    BY <1>1, <2>1 DEF View
  <2> QED
    BY <1>3, <2>2 DEF Right, AfterText
<1> QED
  BY <1>2, <1>3

LEMMA RightOver ==
  ASSUME NEW f \in View
  PROVE  /\ Blank(Handle(f, Ev("failed"))) /\ Blank(Handle(f, Ended(FALSE)))
         /\ Blank(f) => Blank(Handle(f, Ended(TRUE)))
<1>1. Finish(f).live = FALSE
  BY DEF Finish, View
<1>2. Handle(f, Ev("failed")) = Finish(f)
  BY DEF Handle, Ev
<1>3. Handle(f, Ended(FALSE)) = Finish(f)
  BY DEF Handle, Ended, Ev
<1>4. Handle(f, Ended(TRUE)) = [f EXCEPT !.streaming = FALSE]
  BY DEF Handle, Ended, Ev
<1>5. /\ Handle(f, Ended(TRUE)).live = f.live /\ Handle(f, Ended(TRUE)).text = f.text
      /\ Handle(f, Ended(TRUE)).accept = f.accept
  BY <1>4 DEF View
<1> QED
  BY <1>1, <1>2, <1>3, <1>5 DEF Blank

LEMMA RightQueue ==
  ASSUME NEW f \in View, NEW n, NEW stage, NEW text, NEW up, Right(stage, text, up, f)
  PROVE  Right(stage, text, up, Handle(f, QueueIs(n)))
<1>1. Handle(f, QueueIs(n)) = [f EXCEPT !.queue = n]
  BY DEF Handle, QueueIs, Ev
<1>2. /\ Handle(f, QueueIs(n)).live = f.live /\ Handle(f, QueueIs(n)).text = f.text
      /\ Handle(f, QueueIs(n)).accept = f.accept
  BY <1>1 DEF View
<1> QED
  BY <1>2 DEF Right, Blank

\* A publication that does to the tab what the step did to the preview.
LEMMA MirrorPublished ==
  ASSUME Typed, Mirror, NEW ev, NEW also, Publishes(ev, also),
         ~note'.jumped /\ ~note'.crossed =>
           \A f \in View, up \in BOOLEAN :
             Right(turn, preview, up, f) => Right(turn', preview', up, Handle(f, ev))
  PROVE  Mirror'
<1>1. also \in Notes /\ also.synced = note.synced /\ (note.jumped => also.jumped)
      /\ (note.crossed => also.crossed) /\ ev \in Event /\ Formed(ev)
  BY DEF Publishes
<1>2. /\ conn' = conn /\ view' = view /\ (Joined' <=> Joined)
      /\ \/ conn = "off" /\ note' = also
         \/ note'.synced = FALSE
         \/ conn # "off" /\ ch' = Append(ch, ev) /\ note' = also
  BY PublishCases, Published DEF Publishes
<1>3. CASE note'.synced = FALSE
  BY <1>3 DEF Mirror
<1>4. CASE conn = "off" /\ note' = also
  <2>1. ~note'.synced
    BY <1>1, <1>4 DEF Mirror
  <2> QED
    BY <2>1 DEF Mirror
<1>5. CASE conn # "off" /\ ch' = Append(ch, ev) /\ note' = also
  <2> SUFFICES ASSUME note'.synced, ~note'.jumped, ~note'.crossed PROVE Mirror'
    BY <1>1, <1>2, <1>5 DEF Mirror
  <2>1. note.synced /\ ~note.jumped /\ ~note.crossed /\ ch \in Seq(Event) /\ view \in View
        /\ (conn = "subscribed" => ~view.live)
    BY <1>1, <1>5 DEF Typed, Mirror
  <2>2. ASSUME NEW v \in View, NEW f \in View, NEW up \in BOOLEAN,
               Shows(ch, v, f), Right(turn, preview, up, f)
        PROVE  \E g \in View : Shows(ch', v, g) /\ Right(turn', preview', up, g)
    <3>1. Handle(f, ev) \in View /\ Shows(ch', v, Handle(f, ev))
      BY <1>1, <1>5, <2>1, <2>2, ShowsAppend
    <3>2. Right(turn', preview', up, Handle(f, ev))
      BY <2>2
    <3> QED
      BY <3>1, <3>2
  <2>3. ASSUME conn = "subscribed", NEW v \in View, Blank(v)
        PROVE  \E g \in View : Shows(ch', v, g) /\ Right(turn', preview', v.live, g)
    <3>1. PICK f \in View : Shows(ch, v, f) /\ Right(turn, preview, v.live, f)
      BY <2>1, <2>3 DEF Mirror
    <3>2. v.live \in BOOLEAN
      BY DEF View
    <3> QED
      BY <2>2, <3>1, <3>2
  <2>4. ASSUME Joined
        PROVE  \E g \in View : Shows(ch', view, g) /\ Right(turn', preview', TRUE, g)
    <3>1. PICK f \in View : Shows(ch, view, f) /\ Right(turn, preview, TRUE, f)
      BY <2>1, <2>4 DEF Mirror
    <3> QED
      BY <2>1, <2>2, <3>1
  <2> QED
    BY <1>2, <1>5, <2>1, <2>3, <2>4 DEF Mirror
<1> QED
  BY <1>2, <1>3, <1>4, <1>5

\* A snapshot leaves a tab without a bubble, or with one that is empty.
LEMMA StateBlank ==
  ASSUME NEW v \in View, ~v.live, NEW w,
         w = Handle(IF v.streaming THEN [v EXCEPT !.text = <<>>] ELSE v,
                    Ev(IF busy THEN "active" ELSE "idle"))
  PROVE  Blank(w) /\ (busy => w.live = TRUE)
<1> DEFINE u == IF v.streaming THEN [v EXCEPT !.text = <<>>] ELSE v
<1>1. u \in View /\ u.live = FALSE
  <2>1. <<>> \in Texts
    BY DEF Texts
  <2> QED
    BY <2>1 DEF View
<1>2. CASE busy
  <2>1. w = Begin(u)
    BY <1>2 DEF Handle, Ev
  <2> HIDE DEF u
  <2> QED
    BY <1>1, <2>1 DEF Begin, View, Blank
<1>3. CASE ~busy
  <2>1. w = IF u.streaming THEN Finish(u) ELSE u
    BY <1>3 DEF Handle, Ev
  <2> HIDE DEF u
  <2>2. w.live = FALSE
    BY <1>1, <2>1 DEF Finish, View
  <2> QED
    BY <1>3, <2>2 DEF Blank
<1> QED
  BY <1>2, <1>3

\* The tab's text follows the server's.
LEMMA MirrorStep == ASSUME Typed, Bubble, Mirror, [Next]_vars PROVE Mirror'
<1>1. CASE Take \/ MarkIdle \/ SendFails
  <2>1. UNCHANGED <<conn, ch, view, note, preview>> /\ turn # "running" /\ turn' # "running"
    BY <1>1 DEF Take, MarkIdle, SendFails, client
  <2>2. \A up, f : Right(turn, preview, up, f) => Right(turn', preview', up, f)
    BY <2>1 DEF Right
  <2>3. Joined' <=> Joined
    BY <2>1 DEF Joined
  <2> QED
    BY <2>1, <2>2, <2>3 DEF Mirror
<1>2. CASE Start
  <2>1. Publishes(Ev("started"), note)
    BY <1>2, Publications
  <2>2. turn = "taken" /\ turn' = "running" /\ preview' = NoPreview
    BY <1>2 DEF Start
  <2>3. ASSUME NEW f \in View, NEW up \in BOOLEAN, Right(turn, preview, up, f)
        PROVE  Right(turn', preview', up, Handle(f, Ev("started")))
    BY <2>2, <2>3, RightStart DEF Right
  <2> QED
    BY <2>1, <2>3, MirrorPublished
<1>3. CASE TurnDelta
  <2> DEFINE d == count.deltas + 1
  <2>1. Publishes(Delta(<<d>>), note)
    BY <1>3, Publications
  <2>2. /\ turn = "running" /\ turn' = "running" /\ d \in 1 .. MaxDeltas
        /\ preview' = IF preview.closed THEN preview ELSE [preview EXCEPT !.text = Append(@, d)]
        /\ preview \in [text : Texts, closed : BOOLEAN]
    BY <1>3, LiveViewAssumption DEF TurnDelta, Typed, TypeOK, Counts, LiveViewAssumption
  <2> HIDE DEF d
  <2>3. ASSUME NEW f \in View, NEW up \in BOOLEAN, Right(turn, preview, up, f)
        PROVE  Right(turn', preview', up, Handle(f, Delta(<<d>>)))
    BY <2>2, <2>3, RightDelta
  <2> QED
    BY <2>1, <2>3, MirrorPublished
<1>4. CASE \E tool \in BOOLEAN : TurnPart(tool)
  <2>1. PICK tool \in BOOLEAN : TurnPart(tool)
    BY <1>4
  <2> DEFINE type == IF tool THEN "tool" ELSE "text"
  <2>2. PICK also \in Notes : /\ Publishes(Ev(type), also)
                              /\ tool /\ preview.text # <<>> => also.jumped
    BY <2>1, Publications
  <2>3. /\ turn = "running" /\ turn' = "running"
        /\ preview' = IF tool THEN NoPreview ELSE AfterText
    BY <2>1 DEF TurnPart
  <2>4. ~note'.jumped => ~also.jumped \/ note'.synced = FALSE
    BY <2>2, PublishCases DEF Publishes
  <2>5. ASSUME ~also.jumped, NEW f \in View, NEW up \in BOOLEAN, Right(turn, preview, up, f)
        PROVE  Right(turn', preview', up, Handle(f, Ev(type)))
    <3>1. Right("running", preview, up, f) /\ (tool => preview.text = <<>>)
      BY <2>2, <2>3, <2>5
    <3> QED
      BY <2>3, <3>1, RightPart
  <2>6. CASE ~note'.jumped /\ also.jumped
    BY <2>4, <2>6 DEF Mirror
  <2>7. CASE note'.jumped \/ ~also.jumped
    BY <2>2, <2>5, <2>7, MirrorPublished
  <2> QED
    BY <2>6, <2>7
<1>5. CASE TurnFailed
  <2>1. Publishes(Ev("failed"), note)
    BY <1>5, Publications
  <2>2. turn' = "erred"
    BY <1>5 DEF TurnFailed
  <2>3. ASSUME NEW f \in View, NEW up \in BOOLEAN
        PROVE  Right(turn', preview', up, Handle(f, Ev("failed")))
    BY <2>2, RightOver DEF Right
  <2> QED
    BY <2>1, <2>3, MirrorPublished
<1>6. CASE TurnEnded
  <2>1. PICK reason \in {FALSE, turn = "erred"} : Publishes(Ended(reason), note)
    BY <1>6, Publications
  <2>2. turn' = "ended"
    BY <1>6 DEF TurnEnded
  <2>3. CASE reason = FALSE
    <3>1. Publishes(Ended(FALSE), note)
      BY <2>1, <2>3
    <3>2. ASSUME NEW f \in View, NEW up \in BOOLEAN
          PROVE  Right(turn', preview', up, Handle(f, Ended(FALSE)))
      BY <2>2, RightOver DEF Right
    <3> QED
      BY <3>1, <3>2, MirrorPublished
  <2>4. CASE reason = TRUE
    <3>1. Publishes(Ended(TRUE), note)
      BY <2>1, <2>4
    <3>2. turn = "erred"
      BY <2>1, <2>4
    <3>3. ASSUME NEW f \in View, NEW up \in BOOLEAN, Right(turn, preview, up, f)
          PROVE  Right(turn', preview', up, Handle(f, Ended(TRUE)))
      BY <2>2, <3>2, <3>3, RightOver DEF Right
    <3> QED
      BY <3>1, <3>3, MirrorPublished
  <2> QED
    BY <2>1, <2>3, <2>4
<1>7. CASE FailPublish
  <2> DEFINE ev == IF failing = "failed" THEN Ev("failed") ELSE Ended(TRUE)
  <2>1. PICK also \in Notes : Publishes(ev, also)
    BY <1>7, Publications
  <2>2. turn' = turn /\ preview' = preview /\ failing' # failing
    BY <1>7 DEF FailPublish
  <2>3. ~note'.crossed => turn = "none"
    BY <2>1, <2>2, PublishCases DEF Publishes
  <2>4. ASSUME turn = "none", NEW f \in View, NEW up \in BOOLEAN, Right(turn, preview, up, f)
        PROVE  Right(turn', preview', up, Handle(f, ev))
    <3>1. Blank(f)
      BY <2>4 DEF Right
    <3>2. Blank(Handle(f, ev))
      BY <3>1, RightOver
    <3> HIDE DEF ev
    <3> QED
      BY <2>2, <2>4, <3>2 DEF Right
  <2> HIDE DEF ev
  <2> QED
    BY <2>1, <2>3, <2>4, MirrorPublished
<1>8. CASE QueueChange
  <2>1. Publishes(QueueIs(queued'), note)
    BY <1>8, Publications
  <2>2. turn' = turn /\ preview' = preview
    BY <1>8 DEF QueueChange
  <2>3. ASSUME NEW f \in View, NEW up \in BOOLEAN, Right(turn, preview, up, f)
        PROVE  Right(turn', preview', up, Handle(f, QueueIs(queued')))
    BY <2>2, <2>3, RightQueue
  <2> QED
    BY <2>1, <2>3, MirrorPublished
<1>9. CASE Subscribe
  <2>1. /\ ch' = SeedEvents /\ conn' = "subscribed" /\ view' = view
        /\ turn' = turn /\ preview' = preview
        /\ note'.synced = (~view.live /\ ~preview.closed)
    BY <1>9 DEF Subscribe, server, Typed, Notes
  <2> SUFFICES ASSUME ~view.live, ~preview.closed, NEW v \in View, Blank(v)
               PROVE  \E f \in View : Shows(ch', v, f) /\ Right(turn, preview, v.live, f)
    BY <2>1 DEF Mirror, Joined
  <2>2. preview \in [text : Texts, closed : BOOLEAN] /\ (preview # NoPreview => turn = "running")
    BY DEF Typed, TypeOK
  <2>3. CASE preview.text = <<>>
    <3>1. preview = NoPreview
      BY <2>2, <2>3 DEF NoPreview
    <3>2. ch' = <<>> /\ Shows(ch', v, v)
      BY <2>1, <2>3, ShowsEmpty DEF SeedEvents
    <3>3. Right(turn, preview, v.live, v)
      BY <3>1 DEF Right, Blank, NoPreview, View
    <3> QED
      BY <3>2, <3>3
  <2>4. CASE preview.text # <<>>
    <3> DEFINE ev == Delta(preview.text)
               none == <<>>
    <3>1. ev \in Event /\ Formed(ev)
      BY <2>2, EventFacts DEF Formed, Delta, Ev
    <3>2. turn = "running"
      BY <2>2, <2>4 DEF NoPreview
    <3>3. Handle(v, ev) = Grow(Begin(v), preview.text)
      BY DEF Handle, Delta, Ev
    <3>4. Begin(v) \in View /\ Begin(v).live = TRUE /\ Begin(v).text = <<>>
          /\ Begin(v).accept = TRUE
      BY BeginFacts DEF Blank
    <3>5. <<>> \o preview.text = preview.text
      BY <2>2 DEF Texts
    <3>6. /\ Handle(v, ev).live = TRUE /\ Handle(v, ev).text = preview.text
          /\ Handle(v, ev).accept = TRUE
      BY <3>3, <3>4, <3>5 DEF Grow, View
    <3>7. ch' = <<ev>>
      BY <2>1, <2>4 DEF SeedEvents
    <3> HIDE DEF ev
    <3>8. none \in Seq(Event) /\ ch' = Append(none, ev)
      BY <3>1, <3>7
    <3>9. Shows(none, v, v)
      BY ShowsEmpty
    <3> HIDE DEF none
    <3>10. Handle(v, ev) \in View /\ Shows(ch', v, Handle(v, ev))
      BY <3>1, <3>8, <3>9, ShowsAppend
    <3>11. Right(turn, preview, v.live, Handle(v, ev))
      BY <3>2, <3>6 DEF Right
    <3> QED
      BY <3>10, <3>11
  <2> QED
    BY <2>3, <2>4
<1>10. CASE SendState
  <2>1. /\ conn = "subscribed" /\ conn' = "stated" /\ ch' = ch
        /\ turn' = turn /\ preview' = preview /\ view' \in View
        /\ note'.synced = note.synced /\ note'.jumped = note.jumped
        /\ note'.crossed = note.crossed
    BY <1>10, TypeStep DEF SendState, server, Typed, Notes
  <2> SUFFICES ASSUME note.synced, ~note.jumped, ~note.crossed
               PROVE  \E f \in View : Shows(ch, view', f) /\ Right(turn, preview, TRUE, f)
    BY <2>1 DEF Mirror, Joined
  <2>2. view \in View /\ ~view.live /\ (busy <=> turn # "none")
    BY <2>1 DEF Typed, Mirror
  <2>3. Blank(view') /\ (busy => view'.live = TRUE)
    BY <1>10, <2>2, StateBlank DEF SendState
  <2>4. PICK f \in View : Shows(ch, view', f) /\ Right(turn, preview, view'.live, f)
    BY <2>1, <2>3 DEF Mirror
  <2>5. Right(turn, preview, TRUE, f)
    <3>1. CASE turn = "running"
      BY <2>2, <2>3, <2>4, <3>1
    <3>2. CASE turn # "running"
      BY <2>4, <3>2 DEF Right
    <3> QED
      BY <3>1, <3>2
  <2> QED
    BY <2>4, <2>5
<1>11. CASE SendQueued
  <2>1. /\ conn = "stated" /\ conn' = "streaming" /\ ch' = ch /\ note' = note
        /\ turn' = turn /\ preview' = preview /\ view' = Handle(view, QueueIs(queued))
    BY <1>11 DEF SendQueued, server
  <2> SUFFICES ASSUME note.synced, ~note.jumped, ~note.crossed
               PROVE  \E f \in View : Shows(ch, view', f) /\ Right(turn, preview, TRUE, f)
    BY <2>1 DEF Mirror, Joined
  <2>2. PICK f \in View : Shows(ch, view, f) /\ Right(turn, preview, TRUE, f)
    BY <2>1 DEF Mirror, Joined
  <2>3. view' = [view EXCEPT !.queue = queued] /\ view \in View /\ queued \in 0 .. MaxQueue
    BY <2>1 DEF Handle, QueueIs, Ev, Typed, TypeOK
  <2>4. Like(view, view')
    BY <2>3 DEF View, Like
  <2>5. Shows(ch, view', f)
    BY <2>2, <2>4 DEF Shows, Like
  <2> QED
    BY <2>2, <2>5
<1>12. CASE Forward
  <2>1. /\ conn = "streaming" /\ conn' = "streaming" /\ ch # <<>> /\ ch' = Tail(ch)
        /\ note' = note /\ turn' = turn /\ preview' = preview
        /\ view' = Handle(view, Head(ch)) /\ view' \in View
        /\ ch \in Seq(Event) /\ view \in View
    BY <1>12, TypeStep DEF Forward, server, Typed
  <2> SUFFICES ASSUME note.synced, ~note.jumped, ~note.crossed
               PROVE  \E f \in View : Shows(ch', view', f) /\ Right(turn, preview, TRUE, f)
    BY <2>1 DEF Mirror, Joined
  <2>2. PICK f \in View : Shows(ch, view, f) /\ Right(turn, preview, TRUE, f)
    BY <2>1 DEF Mirror, Joined
  <2>3. Shows(ch', view', f)
    BY <2>1, <2>2, ShowsTail
  <2> QED
    BY <2>2, <2>3
<1>13. CASE Disconnect
  <2>1. note'.synced = FALSE
    BY <1>13 DEF Disconnect, Typed, Notes
  <2> QED
    BY <2>1 DEF Mirror
<1>14. CASE UNCHANGED vars
  BY <1>14 DEF vars, server, client, Mirror, Joined
<1> QED
  BY <1>1, <1>2, <1>3, <1>4, <1>5, <1>6, <1>7, <1>8, <1>9, <1>10, <1>11, <1>12, <1>13, <1>14
  DEF Next, Turns, Tab

\* The strengthening is inductive.
LEMMA InitIInv == Init => IInv
<1> SUFFICES ASSUME Init PROVE IInv
  OBVIOUS
<1>1. /\ turn = "none" /\ failing = "none" /\ conn = "off" /\ ch = <<>> /\ queued = 0
      /\ view = [live |-> FALSE, text |-> <<>>, accept |-> TRUE, streaming |-> FALSE, queue |-> 0]
  BY DEF Init
<1>2. Typed
  <2>1. 0 \in 0 .. MaxQueue /\ 0 \in 0 .. MaxDeltas /\ 0 <= Cap + 1
    BY LiveViewAssumption DEF LiveViewAssumption
  <2>2. view \in View /\ preview \in [text : Texts, closed : BOOLEAN]
    BY <2>1 DEF Init, View, NoPreview, Texts
  <2>3. count \in Counts /\ note \in Notes /\ ch \in Seq(Event) /\ Len(ch) <= Cap + 1
    BY <2>1 DEF Init, Counts, Notes
  <2>4. busy = (turn # "none") /\ preview = NoPreview
    BY DEF Init
  <2>5. TypeOK
    BY <1>1, <2>1, <2>2, <2>3 DEF Init, TypeOK, View
  <2>6. \A i \in DOMAIN ch : Formed(ch[i])
    BY <1>1
  <2> QED
    BY <1>1, <2>2, <2>3, <2>4, <2>5, <2>6 DEF Typed
<1>3. Silent(ch, End(ch)) /\ Unqueued(ch) /\ ~Joined /\ view.live = view.streaming
  BY <1>1, EmptySays DEF Unqueued, Joined
<1>4. ~LastIs(ch, End(ch), Runs) /\ ~LastIs(ch, End(ch), Stops)
  BY <1>1, EmptySays
<1>5. Mirror
  BY DEF Init, Mirror
<1> QED
  BY <1>1, <1>2, <1>3, <1>4, <1>5 DEF IInv, Bubble, Dead, Over, Told, Queue, Quiet

LEMMA IInvStep == ASSUME IInv, [Next]_vars PROVE IInv'
BY TypeStep, BubbleStep, DeadStep, OverStep, ToldStep, QueueStep, MirrorStep DEF IInv

(***************************************************************************)
(* Theorems.                                                               *)
(***************************************************************************)

\* Every reachable state satisfies the strengthening.
THEOREM LiveInv == Spec => []IInv
<1>1. IInv /\ [Next]_vars => IInv'
  BY IInvStep
<1> QED
  BY <1>1, InitIInv, PTL DEF Spec

\* A tab that is connected and has been sent all there was shows a turn that runs and
\* the queue as it is, whenever it connected (pkg/api/events.go:133).
THEOREM StateShown == Spec => []ShowsState
<1>1. IInv => ShowsState
  <2> SUFFICES ASSUME IInv PROVE ShowsState
    OBVIOUS
  <2>1. ASSUME UpToDate PROVE Silent(ch, End(ch)) /\ Joined /\ ~Newest(ch, queued)
    BY <2>1, EmptySays DEF UpToDate, Joined, Newest
  <2>2. ShowsQueue
    BY <2>1 DEF ShowsQueue, UpToDate, IInv, Queue
  <2>3. ShowsRunning
    BY <2>1 DEF ShowsRunning, Clean, UpToDate, IInv, Told, Faithful
  <2> QED
    BY <2>2, <2>3 DEF ShowsState, IInv, Typed
<1> QED
  BY <1>1, LiveInv, PTL

\* The tab's text is the text streamed so far: the seed and what follows it neither
\* overlap nor leave a gap (pkg/router/router.go:1688).
THEOREM TextMirrored == Spec => []MirrorsPreview
<1>1. IInv => MirrorsPreview
  <2> SUFFICES ASSUME IInv, Clean, turn = "running", note.synced, ~note.jumped
               PROVE  view.text = preview.text
    BY DEF MirrorsPreview
  <2>1. ch = <<>> /\ Joined /\ ~note.crossed /\ view \in View
    BY DEF Clean, UpToDate, Joined, IInv, Typed
  <2>2. PICK f \in View : Shows(ch, view, f) /\ Right(turn, preview, TRUE, f)
    BY <2>1 DEF IInv, Mirror
  <2>3. Like(f, view)
    BY <2>1, <2>2, ShowsEmpty
  <2> QED
    BY <2>2, <2>3 DEF Right, Like
<1> QED
  BY <1>1, LiveInv, PTL
=============================================================================
