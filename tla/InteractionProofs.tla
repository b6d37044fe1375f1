-------------------------- MODULE InteractionProofs ---------------------------
(***************************************************************************)
(* Proofs about Interaction, for every set of calls, tool uses, users,     *)
(* setters and subscribers: two calls for one tool use never put one       *)
(* question twice, an allow nobody gave is a permission's that was asked   *)
(* under a grant, and who subscribes and then lists misses no question.    *)
(***************************************************************************)
EXTENDS Interaction, TLAPS

(***************************************************************************)
(* The strengthening.                                                      *)
(***************************************************************************)

\* A call that asks leads itself and holds its tool use's slot of dedup.
Owned ==
  \A r \in Asking :
    lead[r] = r /\ (KeyOf(r) # NoKey => dedup[KeyOf(r)] = r)

\* Whom another call follows is its own lead; a new call alone has none.
Led ==
  /\ \A r \in Requests : st[r] = "new" <=> lead[r] = NoRequest
  /\ \A r \in Requests : lead[r] # NoRequest => lead[lead[r]] = lead[r]
  /\ \A k \in Keys : dedup[k] # NoRequest => lead[dedup[k]] = dedup[k]

\* What may be allowed without the user.
Grantable == Permissions \intersect underFull

\* A permission asked while full is granted, one that SetApproval is about to
\* allow and one whose channel holds the allow are all remembered.
Granted ==
  /\ Granting => Asking \intersect Permissions \subseteq underFull
  /\ \A x \in Setters : setter[x].todo \subseteq Grantable
  /\ \A r \in Requests : box[r] = "full" => r \in Grantable

\* Who subscribed and listed was told of a question that waits, or has its
\* notice under way.
Noticed ==
  /\ subs = {w \in Watchers : watch[w] \in {"subscribed", "listed"}}
  /\ \A w \in Watchers, r \in Requests :
       watch[w] = "listed" /\ st[r] = "waiting" => r \in told[w] \/ w \in notify[r]

IInv == TypeOK /\ Owned /\ Led /\ Granted /\ AllowIsGranted /\ Noticed

(***************************************************************************)
(* The steps.                                                              *)
(***************************************************************************)
Stages == {"new", "decide", "asked", "registered", "waiting", "leaving", "following", "done"}

\* The pending map holds what is between Register and Leave.
LEMMA PendingStep ==
  ASSUME TypeOK, NEW r \in Requests, NEW stage \in Stages, Goto(r, stage),
         pending' = IF stage \in {"registered", "waiting", "leaving"}
                      THEN pending \union {r} ELSE pending \ {r}
  PROVE  /\ st' \in [Requests -> Stages]
         /\ pending' = {s \in Requests : st'[s] \in {"registered", "waiting", "leaving"}}
BY DEF TypeOK, Goto, Stages

\* The variables keep their types.
LEMMA TypeStep ==
  ASSUME TypeOK, Led, [Next]_vars
  PROVE  TypeOK'
<1> USE InteractionAssumption DEF TypeOK
<1>1. CASE Next
  <2>0. ask' \in Asks /\ underFull' \subseteq Requests
    BY <1>1 DEF Next, Remember, Asking
  <2>1. ASSUME NEW r \in Requests, Submit(r) PROVE TypeOK'
    <3>1. KeyOf(r) # NoKey => KeyOf(r) \in Keys
      BY DEF KeyOf
    <3>2. PICK stage \in {"decide", "following"} : Goto(r, stage)
      BY <2>1 DEF Submit
    <3>3. pending' = pending \ {r}
      BY <2>1 DEF Submit
    <3>4. /\ st' \in [Requests -> Stages]
          /\ pending' = {s \in Requests : st'[s] \in {"registered", "waiting", "leaving"}}
      BY <3>2, <3>3, PendingStep DEF Stages
    <3>5. lead' \in [Requests -> Requests \union {NoRequest}]
      BY <2>1, <3>1 DEF Submit
    <3>6. dedup' \in [Keys -> Requests \union {NoRequest}]
      <4>1. dedup' = dedup \/ (KeyOf(r) \in Keys /\ dedup' = [dedup EXCEPT ![KeyOf(r)] = r])
        BY <2>1, <3>1 DEF Submit
      <4> QED
        BY <4>1
    <3>7. UNCHANGED <<approval, box, ctxDone, result, user, setter, watchVars>>
      BY <2>1 DEF Submit
    <3> QED
      BY <2>0, <3>4, <3>5, <3>6, <3>7 DEF Stages, watchVars
  <2>2. ASSUME NEW r \in Requests, QuickDecide(r) \/ Follow(r) PROVE TypeOK'
    <3>1. PICK stage \in {"asked", "done"} : Goto(r, stage)
      BY <2>2 DEF QuickDecide, Follow
    <3>2. pending' = pending \ {r}
      BY <2>2 DEF QuickDecide, Follow
    <3>3. /\ st' \in [Requests -> Stages]
          /\ pending' = {s \in Requests : st'[s] \in {"registered", "waiting", "leaving"}}
      BY <3>1, <3>2, PendingStep DEF Stages
    <3>4. result' \in [Requests -> Answers \union {"none", "cancelled"}]
      <4>1. CASE QuickDecide(r)
        BY <4>1 DEF QuickDecide, Return, Answers
      <4>2. CASE Follow(r)
        BY <4>2 DEF Follow, Return, Led
      <4> QED
        BY <2>2, <4>1, <4>2
    <3> QED
      BY <2>0, <2>2, <3>3, <3>4 DEF QuickDecide, Follow, Stages, watchVars
  <2>3. ASSUME NEW r \in Requests, Register(r) \/ NotifyCopy(r) \/ Await(r) \/ Leave(r)
        PROVE  TypeOK'
    <3>1. PICK stage \in {"registered", "waiting", "leaving", "done"} :
            /\ Goto(r, stage)
            /\ pending' = IF stage \in {"registered", "waiting", "leaving"}
                            THEN pending \union {r} ELSE pending \ {r}
      BY <2>3 DEF Register, NotifyCopy, Await, Leave, Waiting
    <3>2. /\ st' \in [Requests -> Stages]
          /\ pending' = {s \in Requests : st'[s] \in {"registered", "waiting", "leaving"}}
      BY <3>1, PendingStep DEF Stages
    <3>3. /\ box' \in [Requests -> Answers \union {"none"}]
          /\ result' \in [Requests -> Answers \union {"none", "cancelled"}]
      BY <2>3 DEF Register, NotifyCopy, Await, Leave, Return
    <3>4. notify' \in [Requests -> SUBSET Watchers] /\ told' \in [Watchers -> SUBSET Requests]
      BY <2>3 DEF Register, NotifyCopy, Await, Leave, watchVars
    <3> QED
      BY <2>0, <2>3, <3>2, <3>3, <3>4
      DEF Register, NotifyCopy, Await, Leave, Stages, watchVars
  <2>4. ASSUME NEW r \in Requests, NEW w \in Watchers, NotifySend(r, w) PROVE TypeOK'
    <3>1. told' \in [Watchers -> SUBSET Requests] /\ panicked' \in BOOLEAN
      <4>1. \/ panicked' = TRUE /\ told' = told
            \/ panicked' = panicked /\ told' = [told EXCEPT ![w] = @ \union {r}]
        BY <2>4 DEF NotifySend
      <4>2. told' \in [Watchers -> SUBSET Requests]
        <5>1. told[w] \union {r} \in SUBSET Requests
          OBVIOUS
        <5> QED
          BY <4>1, <5>1
      <4>3. panicked' \in BOOLEAN
        BY <4>1
      <4> QED
        BY <4>2, <4>3
    <3>2. notify' \in [Requests -> SUBSET Watchers]
      BY <2>4 DEF NotifySend
    <3> QED
      BY <2>0, <2>4, <3>1, <3>2 DEF NotifySend, askVars
  <2>5. ASSUME NEW r \in Requests, CtxCancel(r) PROVE TypeOK'
    BY <2>0, <2>5 DEF CtxCancel, watchVars
  <2>6. ASSUME NEW k \in Keys, Forget(k) PROVE TypeOK'
    BY <2>0, <2>6 DEF Forget, watchVars
  <2>7. ASSUME NEW u \in Users, Responding(u) PROVE TypeOK'
    <3>1. CASE RespondSend(u)
      BY <2>0, <3>1 DEF RespondSend, askVars, watchVars, Answers
    <3>2. ASSUME NEW r \in Requests, RespondFind(u, r) PROVE TypeOK'
      BY <2>0, <3>2 DEF RespondFind, askVars, watchVars
    <3> QED
      BY <2>7, <3>1, <3>2 DEF Responding
  <2>8. ASSUME NEW x \in Setters, Setting(x) PROVE TypeOK'
    <3>1. ASSUME NEW mode \in Modes, SetWrite(x, mode) PROVE TypeOK'
      BY <2>0, <3>1 DEF SetWrite, askVars, watchVars
    <3>2. CASE SetCheck(x)
      BY <2>0, <3>2 DEF SetCheck, IdleSetter, askVars, watchVars
    <3>3. CASE SetCollect(x)
      BY <2>0, <3>3 DEF SetCollect, askVars, watchVars
    <3>4. CASE SetAllow(x)
      <4> DEFINE S == [pc : {"idle", "written", "entered", "allowing"}, todo : SUBSET Requests]
      <4>1. setter' \in [Setters -> S]
        <5>1. IdleSetter \in S
          BY DEF IdleSetter
        <5>2. \/ setter' = [setter EXCEPT ![x] = IdleSetter]
              \/ \E r \in Requests : setter' = [setter EXCEPT ![x].todo = @ \ {r}]
          BY <3>4 DEF SetAllow
        <5>3. ASSUME NEW r \in Requests, setter' = [setter EXCEPT ![x].todo = @ \ {r}]
              PROVE  \E v \in S : setter' = [setter EXCEPT ![x] = v]
          <6>1. setter[x] \in S
            OBVIOUS
          <6>2. [setter[x] EXCEPT !.todo = @ \ {r}] \in S
            BY <6>1
          <6> QED
            BY <5>3, <6>2
        <5>4. setter \in [Setters -> S]
          OBVIOUS
        <5> HIDE DEF S
        <5>5. PICK v \in S : setter' = [setter EXCEPT ![x] = v]
          BY <5>1, <5>2, <5>3
        <5> QED
          BY <5>4, <5>5
      <4>2. box' \in [Requests -> Answers \union {"none"}]
        BY <3>4 DEF SetAllow, Answers
      <4> QED
        BY <2>0, <3>4, <4>1, <4>2 DEF SetAllow, askVars, watchVars
    <3> QED
      BY <2>8, <3>1, <3>2, <3>3, <3>4 DEF Setting
  <2>9. CASE SetLess
    BY <2>0, <2>9 DEF SetLess, Modes, askVars, watchVars
  <2>10. ASSUME NEW w \in Watchers, Watching(w) PROVE TypeOK'
    <3>1. UNCHANGED <<approval, askVars, box, user, setter, notify, panicked>>
      BY <2>10 DEF Watching, Subscribe, List, Unsubscribe
    <3>2. subs' \subseteq Watchers
      BY <2>10 DEF Watching, Subscribe, List, Unsubscribe
    <3>3. watch' \in [Watchers -> {"off", "subscribed", "listed", "closed"}]
      <4>1. PICK at \in {"subscribed", "listed", "closed"} : watch' = [watch EXCEPT ![w] = at]
        BY <2>10 DEF Watching, Subscribe, List, Unsubscribe
      <4> QED
        BY <4>1
    <3>4. told' \in [Watchers -> SUBSET Requests]
      <4>1. pending \subseteq Requests
        OBVIOUS
      <4> QED
        BY <2>10, <4>1 DEF Watching, Subscribe, List, Unsubscribe
    <3> QED
      BY <2>0, <3>1, <3>2, <3>3, <3>4 DEF askVars
  <2> QED
    BY <1>1, <2>1, <2>2, <2>3, <2>4, <2>5, <2>6, <2>7, <2>8, <2>9, <2>10
    DEF Next, Submitted
<1>2. CASE UNCHANGED vars
  BY <1>2 DEF vars, askVars, watchVars
<1> QED
  BY <1>1, <1>2

\* Dedup gives a tool use to one call, until the call is done.
LEMMA OwnedStep ==
  ASSUME TypeOK, Led, Owned, [Next]_vars
  PROVE  Owned'
<1>0. CASE UNCHANGED vars
  BY <1>0 DEF vars, askVars, Owned, Asking, KeyOf
<1> SUFFICES ASSUME Next, NEW s \in Requests, st'[s] \in
                      {"decide", "asked", "registered", "waiting", "leaving"}
             PROVE  lead'[s] = s /\ (KeyOf(s) # NoKey => dedup'[KeyOf(s)] = s)
  BY <1>0 DEF Owned, Asking, KeyOf, Next, Remember
<1> USE InteractionAssumption DEF TypeOK
<1>1. KeyOf(s) # NoKey => KeyOf(s) \in Keys
  BY DEF KeyOf
<1>3. ASSUME NEW r \in Requests, Submit(r)
      PROVE  lead'[s] = s /\ (KeyOf(s) # NoKey => dedup'[KeyOf(s)] = s)
  <2>1. CASE r = s
    BY <1>1, <1>3, <2>1 DEF Submit, Goto
  <2>2. CASE r # s
    <3>1. s \in Asking /\ lead'[s] = lead[s]
      BY <1>3, <2>2 DEF Submit, Goto, Asking
    <3>2. KeyOf(s) # NoKey => dedup'[KeyOf(s)] = dedup[KeyOf(s)]
      BY <1>1, <1>3, <3>1 DEF Submit, Owned
    <3> QED
      BY <3>1, <3>2 DEF Owned
  <2> QED
    BY <2>1, <2>2
<1>4. ASSUME NEW k \in Keys, Forget(k)
      PROVE  lead'[s] = s /\ (KeyOf(s) # NoKey => dedup'[KeyOf(s)] = s)
  <2>1. s \in Asking /\ lead' = lead
    BY <1>4 DEF Forget, Asking
  <2>2. KeyOf(s) # k \/ KeyOf(s) = NoKey
    BY <1>4, <2>1 DEF Forget, Owned, Asking
  <2> QED
    BY <1>1, <1>4, <2>1, <2>2 DEF Forget, Owned
<1>5. ASSUME UNCHANGED <<lead, dedup>>, st[s] \in
               {"decide", "asked", "registered", "waiting", "leaving"}
      PROVE  lead'[s] = s /\ (KeyOf(s) # NoKey => dedup'[KeyOf(s)] = s)
  BY <1>5 DEF Owned, Asking
<1>6. ASSUME NEW r \in Requests, Submitted(r) \/ CtxCancel(r)
      PROVE  UNCHANGED <<lead, dedup>> /\ st[s] \in
               {"decide", "asked", "registered", "waiting", "leaving"}
  <2>1. CASE \/ QuickDecide(r) \/ Register(r) \/ NotifyCopy(r) \/ Await(r) \/ Leave(r)
             \/ Follow(r)
    <3>1. /\ UNCHANGED <<lead, dedup>>
          /\ \E stage \in {"asked", "registered", "waiting", "leaving", "done"} :
               Goto(r, stage)
          /\ st[r] \in {"decide", "asked", "registered", "waiting", "leaving"}
             \/ Goto(r, "done")
      BY <2>1 DEF QuickDecide, Register, NotifyCopy, Await, Waiting, Leave, Follow
    <3>2. CASE s = r
      BY <3>1, <3>2 DEF Goto
    <3>3. CASE s # r
      BY <3>1, <3>3 DEF Goto
    <3> QED
      BY <3>1, <3>2, <3>3
  <2>2. CASE CtxCancel(r) \/ \E w \in Watchers : NotifySend(r, w)
    BY <2>2 DEF CtxCancel, NotifySend, askVars
  <2> QED
    BY <1>6, <2>1, <2>2 DEF Submitted
<1>7. ASSUME \/ SetLess
             \/ \E u \in Users : Responding(u)
             \/ \E x \in Setters : Setting(x)
             \/ \E w \in Watchers : Watching(w)
      PROVE  UNCHANGED <<lead, dedup, st>>
  BY <1>7
  DEF Responding, RespondSend, RespondFind, SetLess, Setting, SetWrite, SetCheck, SetCollect,
      SetAllow, Watching, Subscribe, List, Unsubscribe, askVars
<1> QED
  BY <1>3, <1>4, <1>5, <1>6, <1>7 DEF Next

\* Leads do not change.
LEMMA LedStep ==
  ASSUME TypeOK, Led, [Next]_vars
  PROVE  Led'
<1> USE InteractionAssumption DEF TypeOK
<1>1. ASSUME NEW r \in Requests, Submit(r) PROVE Led'
  <2>1. \A k \in Keys : lead[r] = NoRequest /\ dedup[k] # r
    <3>1. lead[r] = NoRequest /\ r # NoRequest
      BY <1>1 DEF Submit, Led
    <3> QED
      BY <3>1 DEF Led
  <2>2. KeyOf(r) # NoKey => KeyOf(r) \in Keys
    BY DEF KeyOf
  <2>3. \A s \in Requests : s # r => lead'[s] = lead[s] /\ st'[s] = st[s] /\ lead[s] # r
    BY <1>1 DEF Submit, Goto, Led
  <2>4. CASE lead'[r] = r
    <3>1. \A k \in Keys : dedup'[k] = dedup[k] \/ dedup'[k] = r
      BY <1>1, <2>2 DEF Submit
    <3>2. st'[r] # "new" /\ lead'[r] = r
      BY <1>1, <2>4 DEF Submit, Goto
    <3>3. \A s \in Requests : st'[s] = "new" <=> lead'[s] = NoRequest
      BY <2>3, <3>2 DEF Led
    <3>4. \A s \in Requests : lead'[s] # NoRequest => lead'[lead'[s]] = lead'[s]
      BY <2>3, <3>2 DEF Led
    <3>5. ASSUME NEW k \in Keys, dedup'[k] # NoRequest PROVE lead'[dedup'[k]] = dedup'[k]
      <4>1. CASE dedup'[k] = r
        BY <3>2, <4>1
      <4>2. CASE dedup'[k] = dedup[k]
        BY <2>1, <2>3, <3>5, <4>2 DEF Led
      <4> QED
        BY <3>1, <4>1, <4>2
    <3> QED
      BY <3>3, <3>4, <3>5 DEF Led
  <2>5. CASE lead'[r] # r
    <3>1. /\ st'[r] # "new" /\ KeyOf(r) \in Keys /\ dedup' = dedup
          /\ lead'[r] = dedup[KeyOf(r)] /\ dedup[KeyOf(r)] # NoRequest
      BY <1>1, <2>2, <2>5 DEF Submit, Goto
    <3>2. lead'[r] \in Requests /\ lead'[r] # r /\ lead[lead'[r]] = lead'[r]
      BY <2>1, <3>1 DEF Led
    <3>3. \A s \in Requests : st'[s] = "new" <=> lead'[s] = NoRequest
      BY <2>3, <3>1, <3>2 DEF Led
    <3>4. \A s \in Requests : lead'[s] # NoRequest => lead'[lead'[s]] = lead'[s]
      BY <2>3, <3>2 DEF Led
    <3>5. \A k \in Keys : dedup'[k] # NoRequest => lead'[dedup'[k]] = dedup'[k]
      BY <2>1, <2>3, <3>1 DEF Led
    <3> QED
      BY <3>3, <3>4, <3>5 DEF Led
  <2> QED
    BY <2>4, <2>5
<1>2. ASSUME NEW k \in Keys, Forget(k) PROVE Led'
  BY <1>2 DEF Forget, Led
<1>3. ASSUME NEW r \in Requests, Submitted(r) \/ CtxCancel(r) PROVE Led'
  <2>1. UNCHANGED <<lead, dedup>> /\ \A s \in Requests : st'[s] = "new" <=> st[s] = "new"
    BY <1>3
    DEF Submitted, QuickDecide, Register, NotifyCopy, NotifySend, Await, Waiting, Leave,
        Follow, CtxCancel, Goto, askVars
  <2> QED
    BY <2>1 DEF Led
<1>4. ASSUME UNCHANGED <<lead, dedup, st>> PROVE Led'
  BY <1>4 DEF Led
<1>5. ASSUME \/ SetLess
             \/ \E u \in Users : Responding(u)
             \/ \E x \in Setters : Setting(x)
             \/ \E w \in Watchers : Watching(w)
             \/ UNCHANGED vars
      PROVE  UNCHANGED <<lead, dedup, st>>
  BY <1>5
  DEF Responding, RespondSend, RespondFind, SetLess, Setting, SetWrite, SetCheck, SetCollect,
      SetAllow, Watching, Subscribe, List, Unsubscribe, askVars, vars
<1> QED
  BY <1>1, <1>2, <1>3, <1>4, <1>5 DEF Next

\* The history only grows, and holds what is asked while full is granted.
LEMMA Remembered ==
  ASSUME TypeOK, Granted, [Next]_vars
  PROVE  /\ Grantable \subseteq Grantable' /\ Permissions' = Permissions
         /\ Granting' => Asking' \intersect Permissions \subseteq Grantable'
<1>1. CASE Next
  <2>1. Permissions' = Permissions
    BY <1>1 DEF Next, Remember, Permissions
  <2>2. underFull \subseteq underFull'
    BY <1>1 DEF Next, Remember
  <2>3. Granting' => Asking' \intersect Permissions \subseteq underFull'
    BY <1>1 DEF Next, Remember
  <2> QED
    BY <2>1, <2>2, <2>3 DEF Grantable
<1>2. CASE UNCHANGED vars
  <2>1. UNCHANGED <<Permissions, Grantable, Asking, Granting>>
    BY <1>2 DEF vars, askVars, Permissions, Grantable, Asking, Granting
  <2> QED
    BY <2>1 DEF Granted, Grantable
<1> QED
  BY <1>1, <1>2

\* Only permissions asked under a grant are collected and allowed.
LEMMA GrantedStep ==
  ASSUME TypeOK, Granted, [Next]_vars
  PROVE  Granted'
<1> USE DEF TypeOK
<1>1. /\ Grantable \subseteq Grantable'
      /\ Granting' => Asking' \intersect Permissions' \subseteq underFull'
  BY Remembered DEF Grantable
<1>2. \A x \in Setters : setter'[x].todo \subseteq Grantable'
  <2>1. ASSUME UNCHANGED setter PROVE \A x \in Setters : setter'[x].todo \subseteq Grantable'
    BY <1>1, <2>1 DEF Granted
  <2>2. ASSUME NEW x \in Setters, Setting(x)
        PROVE  \A y \in Setters : setter'[y].todo \subseteq Grantable'
    <3>1. \A y \in Setters : y # x => setter'[y] = setter[y]
      BY <2>2 DEF Setting, SetWrite, SetCheck, SetCollect, SetAllow
    <3>2. setter'[x].todo \subseteq Grantable'
      <4>1. CASE SetCollect(x)
        <5>1. pending \subseteq Asking /\ Granting
          BY <4>1 DEF SetCollect, Asking, Granting
        <5>2. setter'[x].todo = pending \intersect Permissions
          BY <4>1 DEF SetCollect
        <5> QED
          BY <1>1, <5>1, <5>2 DEF Granted, Grantable
      <4>2. CASE ~SetCollect(x)
        <5>1. setter'[x].todo \subseteq setter[x].todo
          BY <2>2, <4>2 DEF Setting, SetWrite, SetCheck, SetAllow, IdleSetter
        <5> QED
          BY <1>1, <5>1 DEF Granted
      <4> QED
        BY <4>1, <4>2
    <3> QED
      BY <1>1, <3>1, <3>2 DEF Granted
  <2> QED
    BY <2>1, <2>2
    DEF Next, vars, Submit, Submitted, QuickDecide, Register, NotifyCopy, NotifySend, Await,
        Leave, Follow, CtxCancel, Forget, Responding, RespondSend, RespondFind, SetLess,
        Watching, Subscribe, List, Unsubscribe
<1>3. \A r \in Requests : box'[r] = "full" => r \in Grantable'
  <2>1. ASSUME NEW x \in Setters, SetAllow(x)
        PROVE  \A r \in Requests : box'[r] = "full" => box[r] = "full" \/ r \in setter[x].todo
    <3>1. \/ UNCHANGED box
          \/ \E r \in setter[x].todo : box' = [box EXCEPT ![r] = "full"]
      BY <2>1 DEF SetAllow
    <3> QED
      BY <3>1
  <2>2. ASSUME NEW r \in Requests, Await(r) \/ Leave(r)
        PROVE  \A s \in Requests : box'[s] = "full" => box[s] = "full"
    BY <2>2 DEF Await, Leave
  <2>3. ASSUME NEW u \in Users, RespondSend(u)
        PROVE  \A r \in Requests : box'[r] = "full" => box[r] = "full"
    BY <2>3 DEF RespondSend
  <2>4. ASSUME UNCHANGED box PROVE \A r \in Requests : box'[r] = "full" => box[r] = "full"
    BY <2>4
  <2>5. \/ \A r \in Requests : box'[r] = "full" => box[r] = "full"
        \/ \E x \in Setters : \A r \in Requests :
             box'[r] = "full" => box[r] = "full" \/ r \in setter[x].todo
    BY <2>1, <2>2, <2>3, <2>4
    DEF Next, vars, Submit, Submitted, QuickDecide, Register, NotifyCopy, NotifySend,
        Follow, CtxCancel, Forget, Responding, RespondFind, SetLess, Setting, SetWrite,
        SetCheck, SetCollect, Watching, Subscribe, List, Unsubscribe
  <2> QED
    BY <1>1, <2>5 DEF Granted
<1> QED
  BY <1>1, <1>2, <1>3 DEF Granted

\* An allow is returned to a permission asked under a grant, and to its followers.
LEMMA AllowStep ==
  ASSUME TypeOK, Owned, Led, Granted, AllowIsGranted, [Next]_vars
  PROVE  AllowIsGranted'
<1> USE InteractionAssumption DEF TypeOK
<1>1. Grantable \subseteq Grantable'
  BY Remembered
<1>2. AllowIsGranted' <=> \A s \in Requests : result'[s] = "full" => lead'[s] \in Grantable'
  BY DEF AllowIsGranted, Grantable
<1>3. ASSUME UNCHANGED <<lead, result>> PROVE AllowIsGranted'
  BY <1>1, <1>2, <1>3 DEF AllowIsGranted, Grantable
<1>4. ASSUME NEW r \in Requests, Submit(r) PROVE AllowIsGranted'
  <2>1. lead[r] = NoRequest /\ NoRequest \notin Grantable
    BY <1>4 DEF Submit, Led, Grantable, Permissions
  <2>2. UNCHANGED result /\ \A s \in Requests : s # r => lead'[s] = lead[s]
    BY <1>4 DEF Submit
  <2>3. \A s \in Requests : result[s] = "full" => lead[s] \in Grantable
    BY DEF AllowIsGranted, Grantable
  <2>4. result'[r] # "full"
    BY <2>1, <2>2, <2>3
  <2> QED
    BY <1>1, <1>2, <2>2, <2>3, <2>4
<1>5. ASSUME NEW r \in Requests, QuickDecide(r) \/ Await(r) \/ Follow(r) PROVE AllowIsGranted'
  <2>1. lead' = lead /\ \A s \in Requests : s # r => result'[s] = result[s]
    BY <1>5 DEF QuickDecide, Await, Follow, Return
  <2>2. ASSUME result'[r] = "full" PROVE lead[r] \in Grantable'
    <3>1. CASE QuickDecide(r) /\ result'[r] # result[r]
      <4>1. r \in Asking /\ r \in Permissions /\ Granting
        BY <3>1 DEF QuickDecide, Asking, Granting
      <4>2. lead[r] = r
        BY <4>1 DEF Owned
      <4> QED
        BY <1>1, <4>1, <4>2 DEF Granted, Grantable
    <3>2. CASE Await(r)
      <4>1. r \in Asking /\ box[r] = "full"
        BY <2>2, <3>2 DEF Await, Waiting, Asking, Return
      <4> QED
        BY <1>1, <4>1 DEF Owned, Granted
    <3>3. CASE Follow(r)
      <4>1. lead[r] # NoRequest /\ result[lead[r]] = "full"
        BY <2>2, <3>3 DEF Follow, Led, Return
      <4>2. lead[lead[r]] \in Grantable /\ lead[lead[r]] = lead[r]
        BY <4>1 DEF AllowIsGranted, Led, Grantable
      <4> QED
        BY <1>1, <4>2
    <3>4. CASE result'[r] = result[r]
      BY <1>1, <2>2, <3>4 DEF AllowIsGranted, Grantable
    <3> QED
      BY <1>5, <3>1, <3>2, <3>3, <3>4
  <2>3. \A s \in Requests : result[s] = "full" => lead[s] \in Grantable
    BY DEF AllowIsGranted, Grantable
  <2> QED
    BY <1>1, <1>2, <2>1, <2>2, <2>3
<1> QED
  BY <1>3, <1>4, <1>5
  DEF Next, vars, askVars, Submitted, Register, NotifyCopy, NotifySend, Leave, CtxCancel,
      Forget, Responding, RespondSend, RespondFind, SetLess, Setting, SetWrite, SetCheck,
      SetCollect, SetAllow, Watching, Subscribe, List, Unsubscribe

\* A question that waits was told of, or its notice is still to be sent.
LEMMA NoticedStep ==
  ASSUME TypeOK, Noticed, [Next]_vars
  PROVE  Noticed'
<1> USE DEF TypeOK
<1>1. ASSUME UNCHANGED <<subs, watch, notify, told>>,
             \A r \in Requests : st'[r] = "waiting" => st[r] = "waiting"
      PROVE  Noticed'
  BY <1>1 DEF Noticed
<1>2. ASSUME NEW r \in Requests, NotifyCopy(r) PROVE Noticed'
  <2>1. /\ UNCHANGED <<subs, watch, told>> /\ notify'[r] = subs
        /\ \A s \in Requests : s # r => st'[s] = st[s] /\ notify'[s] = notify[s]
    BY <1>2 DEF NotifyCopy, Goto
  <2> QED
    BY <2>1 DEF Noticed
<1>3. ASSUME NEW r \in Requests, NEW w \in Watchers, NotifySend(r, w) PROVE Noticed'
  <2>1. UNCHANGED <<subs, watch, st>>
    BY <1>3 DEF NotifySend, askVars
  <2>2. \A s \in Requests, v \in Watchers :
          v \in notify[s] => v \in notify'[s] \/ (s = r /\ v = w)
    BY <1>3 DEF NotifySend
  <2>3. \A s \in Requests, v \in Watchers : s \in told[v] => s \in told'[v]
    <3>1. told' = told \/ told' = [told EXCEPT ![w] = @ \union {r}]
      BY <1>3 DEF NotifySend
    <3> QED
      BY <3>1
  <2>4. watch[w] = "listed" => r \in told'[w]
    <3>1. watch[w] = "listed" => told' = [told EXCEPT ![w] = @ \union {r}]
      BY <1>3 DEF NotifySend
    <3> QED
      BY <3>1
  <2> QED
    BY <2>1, <2>2, <2>3, <2>4 DEF Noticed
<1>4. ASSUME NEW r \in Requests, Leave(r) PROVE Noticed'
  <2>1. UNCHANGED <<subs, watch, notify>> /\ st'[r] = "done"
    BY <1>4 DEF Leave, Goto
  <2>2. \A s \in Requests : s # r =>
          st'[s] = st[s] /\ \A w \in Watchers : s \in told[w] => s \in told'[w]
    BY <1>4 DEF Leave, Goto
  <2> QED
    BY <2>1, <2>2 DEF Noticed
<1>5. ASSUME NEW w \in Watchers, Watching(w) PROVE Noticed'
  <2>1. UNCHANGED <<st, notify>> /\ \A v \in Watchers : v # w =>
          watch'[v] = watch[v] /\ told'[v] = told[v]
    BY <1>5 DEF Watching, Subscribe, List, Unsubscribe, askVars
  <2>2. subs' = {v \in Watchers : watch'[v] \in {"subscribed", "listed"}}
    BY <1>5 DEF Watching, Subscribe, List, Unsubscribe, Noticed
  <2>3. watch'[w] = "listed" => \A r \in Requests : st[r] = "waiting" => r \in told'[w]
    BY <1>5 DEF Watching, Subscribe, List, Unsubscribe
  <2> QED
    BY <2>1, <2>2, <2>3 DEF Noticed
<1>6. ASSUME NEW r \in Requests,
             \/ Submit(r) \/ CtxCancel(r) \/ QuickDecide(r) \/ Register(r) \/ Await(r)
             \/ Follow(r)
      PROVE  /\ UNCHANGED <<subs, watch, notify, told>>
             /\ \A s \in Requests : st'[s] = "waiting" => st[s] = "waiting"
  BY <1>6 DEF Submit, CtxCancel, QuickDecide, Register, Await, Follow, Goto, watchVars
<1>7. ASSUME \/ SetLess
             \/ \E k \in Keys : Forget(k)
             \/ \E u \in Users : Responding(u)
             \/ \E x \in Setters : Setting(x)
             \/ UNCHANGED vars
      PROVE  UNCHANGED <<subs, watch, notify, told, st>>
  BY <1>7
  DEF Forget, Responding, RespondSend, RespondFind, SetLess, Setting, SetWrite, SetCheck,
      SetCollect, SetAllow, vars, askVars, watchVars
<1> QED
  BY <1>1, <1>2, <1>3, <1>4, <1>5, <1>6, <1>7 DEF Next, Submitted

(***************************************************************************)
(* Theorems.                                                               *)
(***************************************************************************)

\* Nothing was asked, stored or subscribed.
LEMMA InitIInv == Init => IInv
<1> SUFFICES ASSUME Init PROVE IInv
  OBVIOUS
<1> USE InteractionAssumption
<1>1. TypeOK
  BY DEF Init, TypeOK, IdleSetter, Answers
<1>2. Asking = {} /\ \A x \in Setters : setter[x] = IdleSetter
  BY DEF Init, Asking
<1>3. Owned /\ Led
  BY <1>2 DEF Init, Owned, Led
<1>4. Granted /\ AllowIsGranted /\ Noticed
  BY <1>2 DEF Init, Granted, IdleSetter, AllowIsGranted, Noticed
<1> QED
  BY <1>1, <1>3, <1>4 DEF IInv

\* Every reachable state satisfies the strengthening.
THEOREM AskedInv == Spec => []IInv
<1>1. Init => IInv
  BY InitIInv
<1>2. IInv /\ [Next]_vars => IInv'
  BY TypeStep, OwnedStep, LedStep, GrantedStep, AllowStep, NoticedStep DEF IInv
<1> QED
  BY <1>1, <1>2, PTL DEF Spec

\* Two calls for one tool use never put its question twice, and a client that
\* subscribed before it listed knows of every question that waits, however
\* submissions, answers, cancellations and subscriptions meet
\* (pkg/interaction/interaction.go:222,317).
THEOREM QuestionsInv == Spec => []OneQuestion
<1>1. ASSUME IInv PROVE OneQuestion
  <2>1. pending \subseteq Asking
    BY <1>1 DEF IInv, TypeOK, Asking
  <2>2. OneQuestionPerTool
    BY <1>1, <2>1 DEF IInv, Owned, OneQuestionPerTool
  <2>3. WatcherInformed
    BY <1>1 DEF IInv, Noticed, WatcherInformed, Waiting
  <2> QED
    BY <1>1, <2>2, <2>3 DEF IInv, OneQuestion
<1> QED
  BY <1>1, AskedInv, PTL

\* An allow nobody gave is a permission's, and was asked while the approval was
\* full or a SetApproval that found it full was at work, however many run at once
\* (QuickDecide, SetApproval).
THEOREM AllowsInv == Spec => []AllowIsGranted
<1>1. IInv => AllowIsGranted
  BY DEF IInv
<1> QED
  BY <1>1, AskedInv, PTL
=============================================================================
