----------------------------- MODULE Interaction ------------------------------
(****************************************************************************)
(* The questions backends put to the user, and the answers that settle      *)
(* them (pkg/interaction/interaction.go), for one session: Submit and its   *)
(* dedup by tool use, QuickDecide and SetApproval under the session's       *)
(* approval, Respond, and the subscribers told of each new question         *)
(* (notifyPending; handleEvents of pkg/api/events.go subscribes and lists). *)
(*                                                                          *)
(* Each action is one critical section of a mutex, one channel operation,   *)
(* or one step between them.  The approvals other than full all ask.  A     *)
(* Respond that its own checks refuse (scope "always" where the backend     *)
(* did not offer it) changes nothing and is left out.  A subscriber's 64    *)
(* slots do not fill here.  A send on a closed channel ends the server, as  *)
(* it does from the goroutines in which claude and codex call Submit.       *)
(****************************************************************************)
EXTENDS Naturals

CONSTANTS
  Requests,     \* the calls of Submit
  Keys, NoKey,  \* tool uses; some requests carry none
  Asks,         \* what the calls may ask: for each its kind and its tool use
  Users,        \* clients that call Respond
  Setters,      \* clients that call SetApproval
  Watchers,     \* subscribers of SubscribePending
  NoRequest

ASSUME InteractionAssumption ==
  /\ NoKey \notin Keys
  /\ Asks \subseteq [Requests -> [kind : {"permission", "choice"}, key : Keys \union {NoKey}]]
  /\ NoRequest \notin Requests

VARIABLES
  ask,        \* what each call of Submit asks, never changed
  approval,   \* the stored approval
  dedup,      \* for each tool use, the request that asks for it
  lead,       \* for each submitted request, the one whose answer it gets
  st,         \* where each call of Submit is
  pending,    \* the pending map
  box,        \* each pending entry's response channel, of one slot
  ctxDone,    \* requests whose context was cancelled
  result,     \* what Submit returned
  user,       \* for each Respond in progress, the entry it looked up
  setter,     \* each SetApproval in progress, and the entries left to allow
  subs,       \* the subscribers registered
  watch,      \* where each subscriber is
  notify,     \* for each request, the channels notifyPending has yet to try
  told,       \* the open questions each subscriber was told of, by notice or List
  underFull,  \* history: permissions asked while full was granted (Granting)
  panicked    \* a send on a closed channel

askVars == <<dedup, lead, st, pending, ctxDone, result>>
watchVars == <<subs, watch, notify, told, panicked>>
vars == <<ask, approval, askVars, box, user, setter, watchVars, underFull>>

Modes == {"ask", "full"}

\* The user's answer, whatever it says, and the allow of Reason "approval: full".
Answers == {"answer", "full"}

IdleSetter == [pc |-> "idle", todo |-> {}]

KeyOf(r) == ask[r].key

\* A bare allow can settle a permission; a question needs the user's choice.
Permissions == {r \in Requests : ask[r].kind = "permission"}

TypeOK ==
  /\ ask \in Asks
  /\ approval \in Modes
  /\ dedup \in [Keys -> Requests \union {NoRequest}]
  /\ lead \in [Requests -> Requests \union {NoRequest}]
  /\ st \in [Requests -> {"new", "decide", "asked", "registered", "waiting",
                          "leaving", "following", "done"}]
  /\ pending = {r \in Requests : st[r] \in {"registered", "waiting", "leaving"}}
  /\ box \in [Requests -> Answers \union {"none"}]
  /\ ctxDone \subseteq Requests
  /\ result \in [Requests -> Answers \union {"none", "cancelled"}]
  /\ user \in [Users -> Requests \union {NoRequest}]
  /\ setter \in [Setters -> [pc : {"idle", "written", "entered", "allowing"},
                             todo : SUBSET Requests]]
  /\ subs \subseteq Watchers
  /\ watch \in [Watchers -> {"off", "subscribed", "listed", "closed"}]
  /\ notify \in [Requests -> SUBSET Watchers]
  /\ told \in [Watchers -> SUBSET Requests]
  /\ underFull \subseteq Requests
  /\ panicked \in BOOLEAN

Init ==
  /\ ask \in Asks
  /\ approval \in Modes
  /\ dedup = [k \in Keys |-> NoRequest]
  /\ lead = [r \in Requests |-> NoRequest]
  /\ st = [r \in Requests |-> "new"]
  /\ pending = {} /\ box = [r \in Requests |-> "none"]
  /\ ctxDone = {} /\ result = [r \in Requests |-> "none"]
  /\ user = [u \in Users |-> NoRequest]
  /\ setter = [x \in Setters |-> IdleSetter]
  /\ subs = {} /\ watch = [w \in Watchers |-> "off"]
  /\ notify = [r \in Requests |-> {}] /\ told = [w \in Watchers |-> {}]
  /\ underFull = {}
  /\ panicked = FALSE

\* A call of Submit that asks, and does not follow another's question.
Asking == {r \in Requests : st[r] \in {"decide", "asked", "registered", "waiting", "leaving"}}

\* The approval is full, or a SetApproval that found it full is still at work.
Granting == approval = "full" \/ \E x \in Setters : setter[x].pc \in {"entered", "allowing"}

Goto(r, stage) == st' = [st EXCEPT ![r] = stage]

\* Submit returned: what a request's caller gets.
Return(r, res) == result' = [result EXCEPT ![r] = res]

-----------------------------------------------------------------------------
(* Submit.                                                                 *)

\* Mutant: the tool use is not looked up before asking.
SubmitAlways(r) ==
  /\ st[r] = "new" /\ r \notin ctxDone
  /\ Goto(r, "decide") /\ lead' = [lead EXCEPT ![r] = r]
  /\ dedup' = [k \in Keys |-> IF k = KeyOf(r) THEN r ELSE dedup[k]]
  /\ UNCHANGED <<approval, pending, box, ctxDone, result, user, setter, watchVars>>

\* The first request of a tool use asks; the others wait for its answer.
Submit(r) ==
  /\ st[r] = "new" /\ r \notin ctxDone
  /\ \/ /\ KeyOf(r) = NoKey
        /\ Goto(r, "decide") /\ lead' = [lead EXCEPT ![r] = r] /\ UNCHANGED dedup
     \/ /\ KeyOf(r) # NoKey /\ dedup[KeyOf(r)] = NoRequest
        /\ Goto(r, "decide") /\ lead' = [lead EXCEPT ![r] = r]
        /\ dedup' = [dedup EXCEPT ![KeyOf(r)] = r]
     \/ /\ KeyOf(r) # NoKey /\ dedup[KeyOf(r)] # NoRequest
        /\ Goto(r, "following") /\ lead' = [lead EXCEPT ![r] = dedup[KeyOf(r)]]
        /\ UNCHANGED dedup
  /\ UNCHANGED <<approval, pending, box, ctxDone, result, user, setter, watchVars>>

\* QuickDecide: full settles a permission without the user.
QuickDecide(r) ==
  /\ st[r] = "decide"
  /\ \/ /\ r \in Permissions /\ approval = "full"
        /\ Return(r, "full") /\ Goto(r, "done")
     \/ /\ r \notin Permissions \/ approval # "full"
        /\ Goto(r, "asked") /\ UNCHANGED result
  /\ UNCHANGED <<approval, dedup, lead, pending, box, ctxDone, user, setter, watchVars>>

\* The entry becomes visible to Respond, List and SetApproval.
Register(r) ==
  /\ st[r] = "asked"
  /\ pending' = pending \union {r} /\ Goto(r, "registered")
  /\ UNCHANGED <<approval, dedup, lead, box, ctxDone, result, user, setter, watchVars>>

\* notifyPending copies the channels under subMu and sends after unlocking.
NotifyCopy(r) ==
  /\ st[r] = "registered"
  /\ notify' = [notify EXCEPT ![r] = subs] /\ Goto(r, "waiting")
  /\ UNCHANGED <<approval, dedup, lead, pending, box, ctxDone, result, user, setter, subs,
                 watch, told, panicked>>

NotifySend(r, w) ==
  /\ w \in notify[r]
  /\ notify' = [notify EXCEPT ![r] = @ \ {w}]
  /\ IF watch[w] = "closed"
       THEN panicked' = TRUE /\ UNCHANGED told
       ELSE told' = [told EXCEPT ![w] = @ \union {r}] /\ UNCHANGED panicked
  /\ UNCHANGED <<approval, askVars, box, user, setter, subs, watch>>

\* The notices are out and the request waits.
Waiting(r) == st[r] = "waiting" /\ notify[r] = {}

\* Mutant: only the context ends the wait.
AwaitIgnoresAnswer(r) ==
  /\ Waiting(r) /\ r \in ctxDone
  /\ Return(r, "cancelled") /\ UNCHANGED box
  /\ Goto(r, "leaving")
  /\ UNCHANGED <<approval, dedup, lead, pending, ctxDone, user, setter, watchVars>>

\* The select: an answer, or the context; either may win when both are ready.
Await(r) ==
  /\ Waiting(r)
  /\ \/ /\ box[r] # "none"
        /\ Return(r, box[r]) /\ box' = [box EXCEPT ![r] = "none"]
     \/ /\ r \in ctxDone
        /\ Return(r, "cancelled") /\ UNCHANGED box
  /\ Goto(r, "leaving")
  /\ UNCHANGED <<approval, dedup, lead, pending, ctxDone, user, setter, watchVars>>

\* Mutant: the entry is left in the map.
LeaveListed(r) ==
  /\ st[r] = "leaving" /\ Goto(r, "done")
  /\ UNCHANGED <<approval, dedup, lead, pending, box, ctxDone, result, user, setter,
                 watchVars>>

\* The deferred removal, the channel with the entry; then the followers go on.
Leave(r) ==
  /\ st[r] = "leaving"
  /\ pending' = pending \ {r} /\ Goto(r, "done")
  /\ box' = [box EXCEPT ![r] = "none"]
  /\ told' = [w \in Watchers |-> told[w] \ {r}]
  /\ UNCHANGED <<approval, dedup, lead, ctxDone, result, user, setter, subs, watch, notify,
                 panicked>>

\* A duplicate gets the leader's answer, whatever it was, or its own context.
Follow(r) ==
  /\ st[r] = "following"
  /\ \/ st[lead[r]] = "done" /\ Return(r, result[lead[r]])
     \/ r \in ctxDone /\ Return(r, "cancelled")
  /\ Goto(r, "done")
  /\ UNCHANGED <<approval, dedup, lead, pending, box, ctxDone, user, setter, watchVars>>

\* A minute after the answer the tool use is forgotten.
Forget(k) ==
  /\ dedup[k] # NoRequest /\ st[dedup[k]] = "done"
  /\ dedup' = [dedup EXCEPT ![k] = NoRequest]
  /\ UNCHANGED <<approval, lead, st, pending, box, ctxDone, result, user, setter, watchVars>>

\* The backend gives the call up: the turn was cancelled, the process exited.
CtxCancel(r) ==
  /\ st[r] \notin {"new", "done"} /\ r \notin ctxDone
  /\ ctxDone' = ctxDone \union {r}
  /\ UNCHANGED <<approval, dedup, lead, st, pending, box, result, user, setter, watchVars>>

-----------------------------------------------------------------------------
(* Respond: look the entry up, then try its channel.                       *)

RespondFind(u, r) ==
  /\ user[u] = NoRequest /\ r \in pending
  /\ user' = [user EXCEPT ![u] = r]
  /\ UNCHANGED <<approval, askVars, box, setter, watchVars>>

\* An answer to a full channel is refused; one to an entry that has left is lost.
RespondSend(u) ==
  /\ user[u] # NoRequest
  /\ LET r == user[u] IN
       box' = IF box[r] = "none" /\ st[r] # "done" THEN [box EXCEPT ![r] = "answer"] ELSE box
  /\ user' = [user EXCEPT ![u] = NoRequest]
  /\ UNCHANGED <<approval, askVars, setter, watchVars>>

-----------------------------------------------------------------------------
(* SetApproval: store it, and if it is full allow what is waiting.          *)

SetWrite(x, mode) ==
  /\ setter[x].pc = "idle"
  /\ approval' = mode
  /\ setter' = [setter EXCEPT ![x] = [pc |-> "written", todo |-> {}]]
  /\ UNCHANGED <<askVars, box, user, watchVars>>

\* The approval is read again, under its own lock.
SetCheck(x) ==
  /\ setter[x].pc = "written"
  /\ setter' = [setter EXCEPT ![x] =
       IF approval = "full" THEN [pc |-> "entered", todo |-> {}] ELSE IdleSetter]
  /\ UNCHANGED <<approval, askVars, box, user, watchVars>>

\* Mutant: whatever is waiting is allowed, questions included.
SetCollectAll(x) ==
  /\ setter[x].pc = "entered"
  /\ setter' = [setter EXCEPT ![x] = [pc |-> "allowing", todo |-> pending]]
  /\ UNCHANGED <<approval, askVars, box, user, watchVars>>

SetCollect(x) ==
  /\ setter[x].pc = "entered"
  /\ setter' = [setter EXCEPT ![x] = [pc |-> "allowing", todo |-> pending \intersect Permissions]]
  /\ UNCHANGED <<approval, askVars, box, user, watchVars>>

\* Another SetApproval beside the setters', to less than full (retireRouter,
\* observeMode): it writes, and returns on what it reads back.
SetLess ==
  /\ approval = "full" /\ approval' = "ask"
  /\ UNCHANGED <<askVars, box, user, setter, watchVars>>

SetAllow(x) ==
  /\ setter[x].pc = "allowing"
  /\ \/ \E r \in setter[x].todo :
          /\ box' = IF box[r] = "none" /\ st[r] # "done" THEN [box EXCEPT ![r] = "full"] ELSE box
          /\ setter' = [setter EXCEPT ![x].todo = @ \ {r}]
     \/ /\ setter[x].todo = {} /\ UNCHANGED box
        /\ setter' = [setter EXCEPT ![x] = IdleSetter]
  /\ UNCHANGED <<approval, askVars, user, watchVars>>

-----------------------------------------------------------------------------
(* Subscribers, and the client that subscribes before it lists.             *)

\* Mutant: the client lists first and subscribes to what comes after.
SubscribeLate(w) ==
  /\ watch[w] = "off"
  /\ \/ told[w] = {} /\ told' = [told EXCEPT ![w] = pending] /\ UNCHANGED <<subs, watch>>
     \/ /\ UNCHANGED told
        /\ subs' = subs \union {w} /\ watch' = [watch EXCEPT ![w] = "listed"]
  /\ UNCHANGED <<approval, askVars, box, user, setter, notify, panicked>>

Subscribe(w) ==
  /\ watch[w] = "off"
  /\ subs' = subs \union {w} /\ watch' = [watch EXCEPT ![w] = "subscribed"]
  /\ UNCHANGED <<approval, askVars, box, user, setter, notify, told, panicked>>

List(w) ==
  /\ watch[w] = "subscribed"
  /\ told' = [told EXCEPT ![w] = @ \union pending] /\ watch' = [watch EXCEPT ![w] = "listed"]
  /\ UNCHANGED <<approval, askVars, box, user, setter, subs, notify, panicked>>

\* cancel: out of the map under subMu, then the channel is closed; a send that
\* comes between the two is one that came before both.
Unsubscribe(w) ==
  /\ watch[w] \in {"subscribed", "listed"}
  /\ subs' = subs \ {w} /\ watch' = [watch EXCEPT ![w] = "closed"]
  /\ told' = [told EXCEPT ![w] = {}]
  /\ UNCHANGED <<approval, askVars, box, user, setter, notify, panicked>>

-----------------------------------------------------------------------------
Submitted(r) ==
  \/ QuickDecide(r) \/ Register(r) \/ NotifyCopy(r)
  \/ Await(r) \/ Leave(r) \/ Follow(r)
  \/ \E w \in Watchers : NotifySend(r, w)

Responding(u) == RespondSend(u) \/ \E r \in Requests : RespondFind(u, r)

Setting(x) ==
  SetCheck(x) \/ SetCollect(x) \/ SetAllow(x) \/ \E mode \in Modes : SetWrite(x, mode)

Watching(w) == Subscribe(w) \/ List(w) \/ Unsubscribe(w)

\* What is asked never changes; the history is kept up.
Remember ==
  /\ UNCHANGED ask
  /\ underFull' = underFull \union IF Granting' THEN Asking' \intersect Permissions ELSE {}

Next ==
  /\ ~panicked
  /\ \/ \E r \in Requests : Submit(r) \/ Submitted(r) \/ CtxCancel(r)
     \/ \E k \in Keys : Forget(k)
     \/ \E u \in Users : Responding(u)
     \/ SetLess \/ \E x \in Setters : Setting(x)
     \/ \E w \in Watchers : Watching(w)
  /\ Remember

\* The goroutine of a Submit under way runs on; nobody has to answer it.
Fairness == \A r \in Requests : WF_vars(~panicked /\ Submitted(r) /\ Remember)

Spec == Init /\ [][Next]_vars /\ Fairness

-----------------------------------------------------------------------------
(* Properties.                                                             *)

\* Two calls for one tool use never put the same question twice: the second
\* follows the first until a minute after its answer (Submit's dedup).
OneQuestionPerTool ==
  \A r, s \in pending : KeyOf(r) = KeyOf(s) /\ KeyOf(r) # NoKey => r = s

\* An allow nobody gave is a permission's, asked while the approval was full or a
\* SetApproval that had found it full was still at work: QuickDecide and the sends
\* of SetApproval never answer a question, nor a request that came afterwards.
AllowIsGranted ==
  \A r \in Requests : result[r] = "full" => lead[r] \in Permissions \intersect underFull

\* A client that subscribed and then listed knows of every question that waits
\* (handleEvents subscribes before it lists, Submit registers before it notifies).
WatcherInformed ==
  \A w \in Watchers, r \in Requests :
    watch[w] = "listed" /\ Waiting(r) => r \in told[w]

\* A request with an answer in its channel, or whose context is done, returns,
\* and so does every duplicate that waits for it, unless a notice panicked.
AnswersArrive ==
  \A r \in Requests :
    (st[r] # "new" /\ (box[lead[r]] # "none" \/ {r, lead[r]} \intersect ctxDone # {}))
      ~> (st[r] = "done" \/ panicked)

\* What the broker's Publish says of the same design: a cancel "can't close a
\* channel mid-send".
NoSendOnClosed == ~panicked

\* The tables agree with each other, a tool call has one question in them, and
\* who subscribed and then listed knows of it
\* (pkg/interaction/interaction.go:220,312).
OneQuestion == TypeOK /\ OneQuestionPerTool /\ WatcherInformed
=============================================================================
