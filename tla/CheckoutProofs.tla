--------------------------- MODULE CheckoutProofs ---------------------------
(***************************************************************************)
(* Theorems about Checkout: its rows stay well formed, an account never    *)
(* holds two sessions it could pay, for any number of requests, webhook    *)
(* handlers, attempts, changes and faults, and the subscription row        *)
(* follows Stripe as long as webhooks are handled one at a time.           *)
(***************************************************************************)
EXTENDS Checkout, TLAPS

-----------------------------------------------------------------------------
(* Rows                                                                     *)

\* An event is about an attempt's session or subscription.
LEMMA EventFields ==
    ASSUME NEW e \in Events
    PROVE  /\ e.obj \in Attempts
           /\ e.kind \in {"completed", "expired", "subscription"}
  BY DEF Events

\* The fields of a request's record.
LEMMA CallFields ==
    ASSUME NEW c \in CallRow
    PROVE  /\ c.plan \in Plans \cup {Nil} /\ c.id \in 0..MaxAttempts
           /\ c.late \in SUBSET Attempts
           /\ c.pc \in {"call", "record", "fail"} => c.id \in Attempts
  BY DEF CallRow

\* A request that ends.
LEMMA IdleCallType == IdleCall \in CallRow
  BY SMTT(60), ConstantsAssumption DEF CallRow, IdleCall, Attempts

\* A request that goes on: each of its moves gives a record in shape.
LEMMA CallType ==
    ASSUME NEW c \in CallRow
    PROVE  /\ \A plan \in Plans, late \in SUBSET Attempts :
                 [c EXCEPT !.pc = "look", !.plan = plan, !.late = late] \in CallRow
           /\ \A id \in 0..MaxAttempts :
                 [c EXCEPT !.pc = "reserve", !.id = id, !.late = {}] \in CallRow
           /\ \A id \in Attempts :
                 /\ [c EXCEPT !.pc = "call", !.id = id, !.late = {}] \in CallRow
                 /\ [c EXCEPT !.pc = "call", !.id = id] \in CallRow
           /\ c.id \in Attempts =>
                 /\ [c EXCEPT !.pc = "record"] \in CallRow
                 /\ [c EXCEPT !.pc = "fail"] \in CallRow
<1>0. Attempts \subseteq 0..MaxAttempts
  BY ConstantsAssumption DEF Attempts
<1>1. ASSUME NEW plan \in Plans, NEW late \in SUBSET Attempts
      PROVE  [c EXCEPT !.pc = "look", !.plan = plan, !.late = late] \in CallRow
  BY DEF CallRow
<1>2. ASSUME NEW id \in 0..MaxAttempts
      PROVE  [c EXCEPT !.pc = "reserve", !.id = id, !.late = {}] \in CallRow
  BY DEF CallRow
<1>3. ASSUME NEW id \in Attempts
      PROVE  [c EXCEPT !.pc = "call", !.id = id, !.late = {}] \in CallRow
  BY <1>0 DEF CallRow
<1>4. ASSUME NEW id \in Attempts
      PROVE  [c EXCEPT !.pc = "call", !.id = id] \in CallRow
  BY <1>0 DEF CallRow
<1>5. c.id \in Attempts => [c EXCEPT !.pc = "record"] \in CallRow
  BY DEF CallRow
<1>6. c.id \in Attempts => [c EXCEPT !.pc = "fail"] \in CallRow
  BY DEF CallRow
<1> QED BY <1>1, <1>2, <1>3, <1>4, <1>5, <1>6

\* The fields of a webhook's record.
LEMMA HookFields ==
    ASSUME NEW v \in HookRow
    PROVE  /\ v.status \in Statuses /\ v.closes \in BOOLEAN
           /\ v.pc # "idle" => v.event \in Events
           /\ v.closes => v.pc # "idle" /\ v.event.kind \in {"completed", "expired"}
  BY DEF HookRow

\* The records a webhook goes through.
LEMMA HookType ==
    /\ IdleHook \in HookRow
    /\ \A pc \in {"sync", "write"}, e \in Events, status \in Statuses, closes \in BOOLEAN :
          (closes => e.kind \in {"completed", "expired"}) =>
              [pc |-> pc, event |-> e, status |-> status, todo |-> "nothing",
               closes |-> closes] \in HookRow
    /\ \A v \in HookRow, todo \in {"nothing", "insert", "replace", "update"} :
          v.pc # "idle" => [v EXCEPT !.pc = "write", !.todo = todo] \in HookRow
  BY ZenonT(60) DEF HookRow, IdleHook, Statuses

\* The attempt row, as it is inserted, closed and recorded.
LEMMA AttemptType ==
    /\ NoAttempt \in AttemptRow
    /\ \A id \in 0..MaxAttempts, plan \in Plans \cup {Nil} :
          [id |-> id, plan |-> plan, session |-> 0, status |-> "creating"] \in AttemptRow
    /\ \A a \in AttemptRow, s \in TerminalAttempt : [a EXCEPT !.status = s] \in AttemptRow
    /\ \A a \in AttemptRow, i \in Attempts :
          [a EXCEPT !.session = i, !.status = "open"] \in AttemptRow
<1>0. 0 \in 0..MaxAttempts /\ Attempts \subseteq 0..MaxAttempts
  BY ConstantsAssumption DEF Attempts
<1>1. NoAttempt \in AttemptRow
  BY <1>0 DEF AttemptRow, NoAttempt
<1>2. \A id \in 0..MaxAttempts, plan \in Plans \cup {Nil} :
         [id |-> id, plan |-> plan, session |-> 0, status |-> "creating"] \in AttemptRow
  BY <1>0 DEF AttemptRow
<1>3. ASSUME NEW a \in AttemptRow, NEW s \in TerminalAttempt
      PROVE  [a EXCEPT !.status = s] \in AttemptRow
  BY DEF AttemptRow
<1>4. ASSUME NEW a \in AttemptRow, NEW i \in Attempts
      PROVE  [a EXCEPT !.session = i, !.status = "open"] \in AttemptRow
  BY <1>0 DEF AttemptRow
<1> QED BY <1>1, <1>2, <1>3, <1>4

-----------------------------------------------------------------------------
(* Type correctness                                                         *)

\* The initial rows are well formed.
LEMMA TypeInit == Init => TypeOK
<1> SUFFICES ASSUME Init PROVE TypeOK
  OBVIOUS
<1>1. stored \in StoredRow
  BY ConstantsAssumption DEF Init, NoSubscription, StoredRow, Statuses
<1>2. att \in AttemptRow /\ call \in [Requests -> CallRow] /\ hook \in [Handlers -> HookRow]
  BY AttemptType, IdleCallType, HookType DEF Init
<1>3. subs \in [Attempts -> [status : Statuses, ver : 0..(MaxChanges + 1)]]
  BY ConstantsAssumption DEF Init, Statuses
<1> QED BY <1>1, <1>2, <1>3, ConstantsAssumption DEF Init, TypeOK

\* A fault is counted.
LEMMA FaultType == ASSUME faults \in Nat, Fault PROVE faults' \in Nat
  BY DEF Fault

\* A request changes its own record, the attempt, the ids drawn and a session.
LEMMA TypeRequest ==
    ASSUME TypeOK, NEW r \in Requests, RequestStep(r)
    PROVE  TypeOK'
<1> DEFINE c == call[r]
<1>0. c \in CallRow
  BY DEF TypeOK
<1>1. ASSUME NEW plan \in Plans, CheckSubscription(r, plan) PROVE TypeOK'
  <2>1. call' \in [Requests -> CallRow]
    BY <1>0, <1>1, CallType DEF CheckSubscription, TypeOK
  <2> QED BY <1>1, <2>1 DEF CheckSubscription, TypeOK, stripe
<1>2. CASE LookAtAttempt(r)
  <2>1. att.id \in 0..MaxAttempts /\ (att.id # 0 => att.id \in Attempts)
    BY DEF TypeOK, AttemptRow, Attempts
  <2>2. CASE att.id \in Attempts
             /\ call' = [call EXCEPT ![r] = [@ EXCEPT !.pc = "call", !.id = att.id, !.late = {}]]
    BY <1>0, <1>2, <2>2, CallType DEF LookAtAttempt, TypeOK, stripe
  <2>3. CASE Return(r)
    BY <1>2, <2>3, IdleCallType DEF LookAtAttempt, Return, TypeOK, stripe
  <2>4. CASE call' = [call EXCEPT ![r] = [@ EXCEPT !.pc = "reserve", !.id = att.id, !.late = {}]]
    BY <1>0, <1>2, <2>1, <2>4, CallType DEF LookAtAttempt, TypeOK, stripe
  <2> QED BY <1>2, <2>1, <2>2, <2>3, <2>4 DEF LookAtAttempt, IsOpenAttempt
<1>3. CASE Reserve(r)
  <2>1. CASE drawn < MaxAttempts /\ drawn' = drawn + 1
             /\ att' = [id |-> drawn + 1, plan |-> c.plan, session |-> 0, status |-> "creating"]
             /\ call' = [call EXCEPT ![r] = [@ EXCEPT !.pc = "call", !.id = drawn + 1]]
    <3>1. drawn' \in 0..MaxAttempts /\ drawn' \in Attempts
      BY <2>1, ConstantsAssumption DEF TypeOK, Attempts
    <3>2. att' \in AttemptRow
      BY <1>0, <2>1, <3>1, AttemptType, CallFields
    <3>3. call' \in [Requests -> CallRow]
      BY <1>0, <2>1, <3>1, CallType DEF TypeOK
    <3> QED BY <1>3, <3>1, <3>2, <3>3 DEF Reserve, TypeOK, stripe
  <2>2. CASE Return(r) /\ UNCHANGED <<att, drawn>>
    BY <1>3, <2>2, IdleCallType DEF Reserve, Return, TypeOK, stripe
  <2> QED BY <1>3, <2>1, <2>2 DEF Reserve
<1>4. CASE CreateSession(r)
  <2>1. c.id \in Attempts
    BY <1>0, <1>4, CallFields DEF CreateSession
  <2>2. call' \in [Requests -> CallRow]
    BY <1>0, <1>4, <2>1, CallType, IdleCallType DEF CreateSession, Goto, Return, TypeOK
  <2>3. session' \in [Attempts -> {"none", "refused", "open", "payable", "complete", "expired"}]
    BY <1>4, <2>1 DEF CreateSession, TypeOK
  <2>4. faults' \in Nat
    BY <1>4, FaultType DEF CreateSession, TypeOK
  <2> QED BY <1>4, <2>2, <2>3, <2>4 DEF CreateSession, TypeOK
<1>5. CASE RejectSession(r)
  <2>1. c.id \in Attempts
    BY <1>0, <1>5, CallFields DEF RejectSession
  <2>2. call' \in [Requests -> CallRow]
    BY <1>0, <1>5, <2>1, CallType DEF RejectSession, Goto, TypeOK
  <2>3. session' \in [Attempts -> {"none", "refused", "open", "payable", "complete", "expired"}]
    BY <1>5, <2>1 DEF RejectSession, TypeOK
  <2>4. faults' \in Nat
    BY <1>5, FaultType DEF RejectSession, TypeOK
  <2> QED BY <1>5, <2>2, <2>3, <2>4 DEF RejectSession, TypeOK
<1>6. CASE FailAttempt(r)
  <2>1. att' \in AttemptRow /\ call' \in [Requests -> CallRow]
    BY <1>6, AttemptType, IdleCallType DEF FailAttempt, Return, TypeOK, TerminalAttempt
  <2> QED BY <1>6, <2>1 DEF FailAttempt, TypeOK, stripe
<1>7. CASE RecordSession(r)
  <2>1. c.id \in Attempts
    BY <1>0, <1>7, CallFields DEF RecordSession
  <2>2. att' \in AttemptRow /\ call' \in [Requests -> CallRow]
    BY <1>7, <2>1, AttemptType, IdleCallType DEF RecordSession, Return, TypeOK
  <2>3. session' \in [Attempts -> {"none", "refused", "open", "payable", "complete", "expired"}]
    BY <1>7, <2>1 DEF RecordSession, TypeOK
  <2> QED BY <1>7, <2>2, <2>3 DEF RecordSession, TypeOK
<1>8. CASE RequestCrashes(r)
  BY <1>8, IdleCallType, FaultType DEF RequestCrashes, Return, TypeOK, stripe
<1> QED BY <1>1, <1>2, <1>3, <1>4, <1>5, <1>6, <1>7, <1>8 DEF RequestStep

\* Stripe's clock and the times of its events are natural numbers.
LEMMA TypeEmit ==
    ASSUME TypeOK, NEW new, NEW later \in {0, 1}, Emit(new, later)
    PROVE  clock' \in Nat /\ emitted' \in [Events -> Nat]
  BY DEF Emit, TypeOK

\* Stripe changes sessions, subscriptions, events and the deadlines passed.
LEMMA TypeStripe ==
    ASSUME TypeOK, NEW i \in Attempts, StripeStep(i)
    PROVE  TypeOK'
<1>1. ASSUME NEW later \in {0, 1}, Pay(i, later) PROVE TypeOK'
  <2>1. subs' \in [Attempts -> [status : Statuses, ver : 0..(MaxChanges + 1)]]
    BY <1>1, ConstantsAssumption DEF Pay, TypeOK, Statuses
  <2> QED BY <1>1, <2>1, TypeEmit DEF Pay, TypeOK
<1>2. ASSUME NEW status \in {"active", "past_due", "canceled"}, NEW later \in {0, 1},
             SubscriptionChanges(i, status, later)
      PROVE  TypeOK'
  <2>1. subs' \in [Attempts -> [status : Statuses, ver : 0..(MaxChanges + 1)]]
    BY <1>2, ConstantsAssumption DEF SubscriptionChanges, TypeOK, Statuses
  <2> QED BY <1>2, <2>1, TypeEmit DEF SubscriptionChanges, TypeOK
<1>3. CASE DeadlinePasses(i)
  <2>1. clock' \in Nat /\ emitted' \in [Events -> Nat]
    BY <1>3, TypeEmit DEF DeadlinePasses, TypeOK
  <2> QED BY <1>3, <2>1 DEF DeadlinePasses, TypeOK
<1> QED BY <1>1, <1>2, <1>3 DEF StripeStep

\* A webhook starts.
LEMMA TypeFetch ==
    ASSUME TypeOK, NEW h \in Handlers, NEW e \in Events, FetchSubscription(h, e)
    PROVE  TypeOK'
<1>1. /\ subs[e.obj].status \in Statuses /\ Closes(e) \in BOOLEAN
      /\ Closes(e) => e.kind \in {"completed", "expired"}
  BY EventFields DEF Closes, TypeOK
<1>2. hook' \in [Handlers -> HookRow]
  BY <1>1, HookType DEF FetchSubscription, Fetched, TypeOK
<1> QED BY <1>2 DEF FetchSubscription, TypeOK, stripe

\* A webhook goes on: it reads, writes and commits, or is rolled back.
LEMMA TypeHook ==
    ASSUME TypeOK, NEW h \in Handlers, HookStep(h)
    PROVE  TypeOK'
<1>0. hook[h] \in HookRow
  BY DEF TypeOK
<1>1. CASE ReadStored(h)
  <2>1. hook' \in [Handlers -> HookRow]
    BY <1>0, <1>1, HookType DEF ReadStored, TypeOK
  <2> QED BY <1>1, <2>1 DEF ReadStored, TypeOK, stripe
<1>2. CASE WriteAndCommit(h)
  <2>1. hook[h].event \in Events /\ hook' \in [Handlers -> HookRow]
    BY <1>0, <1>2, HookFields, HookType DEF WriteAndCommit, TypeOK
  <2>2. stored' \in StoredRow
    BY <1>0, <1>2, <2>1, HookFields, EventFields, ConstantsAssumption
    DEF WriteAndCommit, StoredRow, TypeOK, Attempts
  <2>3. att' \in AttemptRow
    BY <1>0, <1>2, HookFields, AttemptType DEF WriteAndCommit, TypeOK, TerminalAttempt
  <2> QED BY <1>2, <2>1, <2>2, <2>3 DEF WriteAndCommit, TypeOK, stripe
<1>3. CASE RollBack(h)
  BY <1>3, HookType, FaultType DEF RollBack, TypeOK, stripe
<1> QED BY <1>1, <1>2, <1>3 DEF HookStep

\* The rows of requests, webhooks, the attempt and the subscription, and
\* Stripe's objects, are well formed in every reachable state.
THEOREM TypeCorrect == Spec => []TypeOK
<1>1. TypeOK /\ [Next]_vars => TypeOK'
  <2> SUFFICES ASSUME TypeOK, [Next]_vars PROVE TypeOK'
    OBVIOUS
  <2>1. CASE UNCHANGED vars
    BY <2>1 DEF TypeOK, vars, stripe
  <2> QED BY <2>1, TypeRequest, TypeStripe, TypeFetch, TypeHook DEF Next
<1> QED BY <1>1, TypeInit, PTL DEF Spec

-----------------------------------------------------------------------------
(* Which attempt may still be paid                                          *)

Over == {"refused", "complete", "expired"}

\* What has ended at Stripe or passed its deadline stays so in this step.
EndsStay ==
    /\ over \subseteq over'
    /\ \A i \in Attempts : session[i] \in Over => session'[i] = session[i]

\* An attempt that is gone stays gone.
LEMMA GoneStays ==
    ASSUME EndsStay, NEW i \in Attempts, Gone(i)
    PROVE  Gone(i)'
  BY DEF EndsStay, Gone, Over

\* A request that does not move keeps its standing.
LEMMA CallKept ==
    ASSUME TypeOK, EndsStay, drawn' \in Nat, drawn <= drawn',
           NEW r \in Requests, CallStands(r), call'[r] = call[r]
    PROVE  CallStands(r)'
<1>1. call[r] \in CallRow /\ call[r].id \in 0..MaxAttempts
      /\ (call[r].id # 0 => call[r].id \in Attempts)
      /\ (call[r].pc = "fail" => call[r].id \in Attempts)
  BY CallFields DEF TypeOK, Attempts
<1>2. call[r].pc = "reserve" /\ call[r].id # 0 => Gone(call[r].id)'
  BY <1>1, GoneStays DEF CallStands
<1>3. call[r].pc = "fail" => session'[call[r].id] = "refused"
  BY <1>1 DEF CallStands, EndsStay, Over
<1>4. call[r].late \subseteq over'
  BY DEF CallStands, EndsStay
<1>5. call[r].pc \in {"call", "record", "fail"} => call[r].id <= drawn'
  BY <1>1, ConstantsAssumption DEF CallStands, TypeOK
<1> QED BY <1>2, <1>3, <1>4, <1>5 DEF CallStands, Gone

\* A request that ends has nothing to stand for.
LEMMA IdleStands ==
    ASSUME NEW r \in Requests, call'[r] = IdleCall
    PROVE  CallStands(r)'
  BY DEF CallStands, IdleCall

\* A webhook that does not move keeps its standing while the attempt's session
\* id does.
LEMMA HookKept ==
    ASSUME TypeOK, EndsStay, NEW h \in Handlers, HookStands(h), hook'[h] = hook[h],
           hook[h].closes => att'.session = att.session
    PROVE  HookStands(h)'
<1>1. hook[h].closes => hook[h].event.obj \in Attempts
  BY HookFields, EventFields DEF TypeOK
<1> QED BY <1>1 DEF HookStands, EndsStay, Over

\* Without an attempt and a session nothing can disagree.
LEMMA PlacesInit == Init => PlacesStand
<1> SUFFICES ASSUME Init PROVE PlacesStand
  OBVIOUS
<1>1. \A i \in Attempts : SessionStands(i)
  BY ConstantsAssumption DEF Init, SessionStands, Attempts
<1>2. \A r \in Requests : CallStands(r)
  BY DEF Init, CallStands, IdleCall
<1>3. \A h \in Handlers : HookStands(h)
  BY DEF Init, HookStands, IdleHook
<1> QED BY <1>1, <1>2, <1>3 DEF Init, PlacesStand, NoAttempt

\* A step of a request that leaves the attempt, the ids drawn and Stripe alone.
LEMMA CallMoves ==
    ASSUME TypeOK, PlacesStand, NEW r \in Requests,
           UNCHANGED <<att, drawn, over, hook, session, emitted>>,
           \A q \in Requests \ {r} : call'[q] = call[q], CallStands(r)'
    PROVE  PlacesStand'
<1>1. EndsStay /\ drawn' \in Nat /\ drawn <= drawn'
  BY DEF EndsStay, TypeOK
<1>2. \A q \in Requests : CallStands(q)'
  BY <1>1, CallKept DEF PlacesStand
<1>3. \A h \in Handlers : HookStands(h)'
  BY <1>1, HookKept DEF PlacesStand
<1> QED BY <1>2, <1>3 DEF PlacesStand, SessionStands, Gone

\* Reserve: an attempt is drawn only in place of one that is gone.
LEMMA PlacesReserve ==
    ASSUME TypeOK, PlacesStand, NEW r \in Requests, Reserve(r)
    PROVE  PlacesStand'
<1> DEFINE c == call[r]
<1>0. c \in CallRow /\ c.pc = "reserve" /\ CallStands(r)
  BY DEF Reserve, TypeOK, PlacesStand
<1>1. CASE ~StillThere(r)
  <2>1. CallStands(r)' /\ \A q \in Requests \ {r} : call'[q] = call[q]
    BY <1>1, IdleStands DEF Reserve, Return, TypeOK
  <2> QED BY <1>1, <2>1, CallMoves DEF Reserve, stripe
<1>2. CASE StillThere(r)
  <2>1. /\ drawn < MaxAttempts /\ drawn' = drawn + 1
        /\ att'.id = drawn + 1 /\ att'.session = 0 /\ att'.status = "creating"
        /\ call'[r].pc = "call" /\ call'[r].id = drawn + 1 /\ call'[r].late = c.late
        /\ \A q \in Requests \ {r} : call'[q] = call[q]
        /\ UNCHANGED <<over, hook, session, emitted>>
        /\ ~Locked
    <3>1. /\ drawn < MaxAttempts /\ drawn' = drawn + 1
          /\ att' = [id |-> drawn + 1, plan |-> c.plan, session |-> 0, status |-> "creating"]
          /\ call' = [call EXCEPT ![r] = [c EXCEPT !.pc = "call", !.id = drawn + 1]]
          /\ UNCHANGED <<over, hook, session, emitted>> /\ ~Locked
      BY <1>2 DEF Reserve, stripe
    <3>2. call'[r] = [c EXCEPT !.pc = "call", !.id = drawn + 1]
          /\ \A q \in Requests \ {r} : call'[q] = call[q]
      BY <3>1 DEF TypeOK
    <3>3. /\ [c EXCEPT !.pc = "call", !.id = drawn + 1].pc = "call"
          /\ [c EXCEPT !.pc = "call", !.id = drawn + 1].id = drawn + 1
          /\ [c EXCEPT !.pc = "call", !.id = drawn + 1].late = c.late
      BY <1>0 DEF CallRow
    <3> QED BY <3>1, <3>2, <3>3
  <2>2. EndsStay /\ drawn \in Nat /\ drawn' \in Nat /\ drawn <= drawn'
    BY <2>1 DEF EndsStay, TypeOK
  <2>3. drawn # 0 => Gone(drawn)
    BY <1>0, <1>2 DEF StillThere, CallStands, PlacesStand
  <2>4. ASSUME NEW i \in Attempts PROVE SessionStands(i)'
    <3>1. i \in Nat \ {0} /\ SessionStands(i)
      BY DEF PlacesStand, Attempts
    <3>2. i < drawn + 1 => Gone(i)
      BY <2>2, <2>3, <3>1 DEF SessionStands
    <3> QED BY <2>1, <2>2, <3>1, <3>2 DEF SessionStands, Gone
  <2>5. ASSUME NEW q \in Requests PROVE CallStands(q)'
    <3>1. CASE q = r
      BY <1>0, <2>1, <2>2, <3>1 DEF CallStands
    <3> QED BY <2>1, <2>2, <3>1, CallKept DEF PlacesStand
  <2>6. ASSUME NEW h \in Handlers PROVE HookStands(h)'
    BY <2>1 DEF Locked, HookStands
  <2> QED BY <2>1, <2>2, <2>4, <2>5, <2>6 DEF PlacesStand, TerminalAttempt
<1> QED BY <1>1, <1>2

\* A step of a request that only changes the session of its own attempt.
LEMMA SessionMoves ==
    ASSUME TypeOK, PlacesStand, NEW r \in Requests, NEW i \in Attempts, i <= drawn,
           UNCHANGED <<att, drawn, over, hook, emitted>>, EndsStay,
           NEW s, session' = [session EXCEPT ![i] = s],
           s \in {"open", "payable"} => i \notin over,
           session[i] \in {"complete", "expired"} => s = session[i],
           \A q \in Requests \ {r} : call'[q] = call[q], CallStands(r)'
    PROVE  PlacesStand'
<1>1. drawn' \in Nat /\ drawn <= drawn'
  BY DEF TypeOK
<1>2. \A q \in Requests : CallStands(q)'
  BY <1>1, CallKept DEF PlacesStand
<1>3. \A h \in Handlers : HookStands(h)'
  BY HookKept DEF PlacesStand
<1>4. ASSUME NEW j \in Attempts PROVE SessionStands(j)'
  <2>1. SessionStands(j) /\ (Gone(j) => Gone(j)')
    BY GoneStays DEF PlacesStand
  <2>2. j > drawn => session'[j] = session[j]
    BY DEF TypeOK, Attempts
  <2> QED BY <2>1, <2>2 DEF SessionStands, TypeOK
<1>5. ASSUME NEW e \in Events, emitted[e] > 0, e.kind \in {"completed", "expired"}
      PROVE  session'[e.obj] \in {"complete", "expired"}
  BY <1>5, EventFields DEF PlacesStand, TypeOK
<1>6. att.id # 0 /\ att.status \in TerminalAttempt => Gone(att.id)'
  BY GoneStays DEF PlacesStand, TypeOK, AttemptRow, Attempts
<1> QED BY <1>2, <1>3, <1>4, <1>5, <1>6 DEF PlacesStand, Gone

\* Moving a request on changes its position only.
LEMMA GotoFields ==
    ASSUME TypeOK, NEW r \in Requests, NEW pc, Goto(r, pc)
    PROVE  /\ call'[r].pc = pc /\ call'[r].id = call[r].id /\ call'[r].late = call[r].late
           /\ \A q \in Requests \ {r} : call'[q] = call[q]
<1>1. call[r] \in CallRow
  BY DEF TypeOK
<1>2. call'[r] = [call[r] EXCEPT !.pc = pc] /\ \A q \in Requests \ {r} : call'[q] = call[q]
  BY DEF Goto, TypeOK
<1>3. /\ [call[r] EXCEPT !.pc = pc].pc = pc
      /\ [call[r] EXCEPT !.pc = pc].id = call[r].id
      /\ [call[r] EXCEPT !.pc = pc].late = call[r].late
  BY <1>1 DEF CallRow
<1> QED BY <1>2, <1>3

\* A request that returns.
LEMMA ReturnStands ==
    ASSUME TypeOK, NEW r \in Requests, Return(r)
    PROVE  CallStands(r)' /\ \A q \in Requests \ {r} : call'[q] = call[q]
  BY IdleStands DEF Return, TypeOK

\* LookAtAttempt: the request goes on with the attempt of the row.
LEMMA PlacesLook ==
    ASSUME TypeOK, PlacesStand, NEW r \in Requests, LookAtAttempt(r)
    PROVE  PlacesStand'
<1> DEFINE c == call[r]
<1>0. c \in CallRow /\ att.id \in 0..MaxAttempts /\ att.id = drawn /\ CallStands(r)
  BY DEF TypeOK, AttemptRow, PlacesStand
<1>1. UNCHANGED <<att, drawn, over, hook, session, emitted>>
  BY DEF LookAtAttempt, stripe
<1>2. CASE call' = [call EXCEPT ![r] = [c EXCEPT !.pc = "call", !.id = att.id, !.late = {}]]
  <2>1. /\ [c EXCEPT !.pc = "call", !.id = att.id, !.late = {}].pc = "call"
        /\ [c EXCEPT !.pc = "call", !.id = att.id, !.late = {}].id = att.id
        /\ [c EXCEPT !.pc = "call", !.id = att.id, !.late = {}].late = {}
    BY <1>0 DEF CallRow
  <2>2. CallStands(r)' /\ \A q \in Requests \ {r} : call'[q] = call[q]
    BY <1>0, <1>1, <1>2, <2>1 DEF CallStands, TypeOK
  <2> QED BY <1>1, <2>2, CallMoves
<1>3. CASE Return(r)
  BY <1>1, <1>3, ReturnStands, CallMoves
<1>4. CASE /\ ~IsOpenAttempt(r)
           /\ call' = [call EXCEPT ![r] = [c EXCEPT !.pc = "reserve", !.id = att.id, !.late = {}]]
  <2>1. /\ [c EXCEPT !.pc = "reserve", !.id = att.id, !.late = {}].pc = "reserve"
        /\ [c EXCEPT !.pc = "reserve", !.id = att.id, !.late = {}].id = att.id
        /\ [c EXCEPT !.pc = "reserve", !.id = att.id, !.late = {}].late = {}
    BY <1>0 DEF CallRow
  <2>2. att.id # 0 => Gone(att.id)
    BY <1>0, <1>4 DEF IsOpenAttempt, CallStands, PlacesStand, Gone
  <2>3. CallStands(r)' /\ \A q \in Requests \ {r} : call'[q] = call[q]
    BY <1>0, <1>1, <1>4, <2>1, <2>2 DEF CallStands, TypeOK, Gone
  <2> QED BY <1>1, <2>3, CallMoves
<1> QED BY <1>2, <1>3, <1>4 DEF LookAtAttempt

\* Stripe creates the session of an attempt, or refuses its key.
LEMMA PlacesCreate ==
    ASSUME TypeOK, PlacesStand, NEW r \in Requests, CreateSession(r) \/ RejectSession(r)
    PROVE  PlacesStand'
<1> DEFINE c == call[r]
           i == c.id
<1>0. /\ c \in CallRow /\ c.pc = "call" /\ i \in Attempts /\ CallStands(r)
      /\ i <= drawn
  BY CallFields DEF CreateSession, RejectSession, TypeOK, PlacesStand, CallStands
<1>1. UNCHANGED <<att, drawn, over, hook, emitted>>
  BY DEF CreateSession, RejectSession
<1>2. CASE CreateSession(r)
  <2>1. CallStands(r)' /\ \A q \in Requests \ {r} : call'[q] = call[q]
    <3>1. CASE Goto(r, "record")
      BY <1>0, <1>1, <3>1, GotoFields DEF CallStands
    <3>2. CASE Return(r)
      BY <3>2, ReturnStands
    <3> QED BY <1>2, <3>1, <3>2 DEF CreateSession
  <2>2. CASE session[i] = "none" /\ i \notin over
    <3>1. session' = [session EXCEPT ![i] = "open"]
      BY <1>2, <2>2 DEF CreateSession
    <3>2. EndsStay
      BY <1>0, <1>1, <2>2, <3>1 DEF EndsStay, Over, TypeOK
    <3> QED BY <1>0, <1>1, <2>1, <2>2, <3>1, <3>2, SessionMoves
  <2>3. CASE ~(session[i] = "none" /\ i \notin over)
    BY <1>1, <1>2, <2>1, <2>3, CallMoves DEF CreateSession
  <2> QED BY <2>2, <2>3
<1>3. CASE RejectSession(r)
  <2>1. session' = [session EXCEPT ![i] = "refused"] /\ session[i] \in {"none", "refused"}
    BY <1>3 DEF RejectSession
  <2>2. CallStands(r)' /\ \A q \in Requests \ {r} : call'[q] = call[q]
    BY <1>0, <1>1, <1>3, <2>1, GotoFields DEF RejectSession, CallStands, TypeOK
  <2>3. EndsStay
    BY <1>0, <1>1, <2>1 DEF EndsStay, Over, TypeOK
  <2> QED BY <1>0, <1>1, <2>1, <2>2, <2>3, SessionMoves
<1> QED BY <1>2, <1>3

\* Only a refused attempt is freed.
LEMMA PlacesFail ==
    ASSUME TypeOK, PlacesStand, NEW r \in Requests, FailAttempt(r)
    PROVE  PlacesStand'
<1>1. UNCHANGED <<drawn, over, hook, session, emitted>> /\ Return(r)
  BY DEF FailAttempt, stripe
<1>2. EndsStay /\ drawn' \in Nat /\ drawn <= drawn'
  BY <1>1 DEF EndsStay, TypeOK
<1>3. /\ att'.id = att.id /\ att'.session = att.session
      /\ att'.status # att.status => Gone(att.id)
  BY DEF FailAttempt, MayFail, PlacesStand, CallStands, Gone, TypeOK, AttemptRow
<1>4. \A q \in Requests : CallStands(q)'
  BY <1>1, <1>2, CallKept, ReturnStands DEF PlacesStand
<1>5. \A h \in Handlers : HookStands(h)'
  BY <1>1, <1>2, <1>3, HookKept DEF PlacesStand
<1> QED BY <1>1, <1>3, <1>4, <1>5 DEF PlacesStand, SessionStands, Gone

\* RecordSession: the row of the attempt takes its session, or not.
LEMMA PlacesRecord ==
    ASSUME TypeOK, PlacesStand, NEW r \in Requests, RecordSession(r)
    PROVE  PlacesStand'
<1> DEFINE i == call[r].id
           s == IF session[i] = "open" THEN "payable" ELSE session[i]
<1>0. i \in Attempts /\ i <= drawn
  BY CallFields DEF RecordSession, TypeOK, PlacesStand, CallStands
<1>1. /\ UNCHANGED <<drawn, over, hook, emitted>> /\ Return(r) /\ ~Locked
      /\ session' = [session EXCEPT ![i] = s]
  BY DEF RecordSession
<1>2. EndsStay /\ drawn' \in Nat /\ drawn <= drawn'
  BY <1>0, <1>1 DEF EndsStay, TypeOK, Over
<1>3. /\ att'.id = att.id /\ att'.session \in {0, att.id}
      /\ att'.status # att.status => att'.status = "open"
  BY DEF RecordSession, PlacesStand, TypeOK, AttemptRow
<1>4. \A q \in Requests : CallStands(q)'
  BY <1>1, <1>2, CallKept, ReturnStands DEF PlacesStand
<1>5. \A h \in Handlers : HookStands(h)'
  BY <1>1 DEF Locked, HookStands
<1>6. ASSUME NEW j \in Attempts PROVE SessionStands(j)'
  <2>1. SessionStands(j) /\ (Gone(j) => Gone(j)')
    BY <1>2, GoneStays DEF PlacesStand
  <2> QED BY <1>0, <1>1, <2>1 DEF SessionStands, TypeOK
<1>7. ASSUME NEW e \in Events, emitted[e] > 0, e.kind \in {"completed", "expired"}
      PROVE  session'[e.obj] \in {"complete", "expired"}
  BY <1>1, <1>7, EventFields DEF PlacesStand, TypeOK
<1>8. att'.id # 0 /\ att'.status \in TerminalAttempt => Gone(att.id)'
  BY <1>2, <1>3, GoneStays DEF PlacesStand, TypeOK, AttemptRow, Attempts, TerminalAttempt
<1> QED BY <1>1, <1>3, <1>4, <1>5, <1>6, <1>7, <1>8 DEF PlacesStand, Gone

\* Every step of a checkout request.
LEMMA PlacesRequest ==
    ASSUME TypeOK, PlacesStand, NEW r \in Requests, RequestStep(r)
    PROVE  PlacesStand'
<1>1. ASSUME NEW plan \in Plans, CheckSubscription(r, plan) PROVE PlacesStand'
  <2>1. call[r] \in CallRow
    BY DEF TypeOK
  <2>2. /\ [call[r] EXCEPT !.pc = "look", !.plan = plan, !.late = over].pc = "look"
        /\ [call[r] EXCEPT !.pc = "look", !.plan = plan, !.late = over].late = over
    BY <2>1 DEF CallRow
  <2>3. CallStands(r)' /\ \A q \in Requests \ {r} : call'[q] = call[q]
    BY <1>1, <2>2 DEF CheckSubscription, CallStands, TypeOK
  <2> QED BY <1>1, <2>3, CallMoves DEF CheckSubscription, stripe
<1>2. CASE RequestCrashes(r)
  BY <1>2, ReturnStands, CallMoves DEF RequestCrashes, stripe
<1> QED BY <1>1, <1>2, PlacesLook, PlacesReserve, PlacesCreate, PlacesFail, PlacesRecord
        DEF RequestStep

\* Stripe ends sessions that were open and announces what ended.
LEMMA PlacesStripe ==
    ASSUME TypeOK, PlacesStand, NEW i \in Attempts, StripeStep(i)
    PROVE  PlacesStand'
<1> DEFINE Announced(e) == emitted'[e] > 0 /\ e.kind \in {"completed", "expired"}
           Ends == /\ over \subseteq over'
                   /\ \A j \in Attempts :
                         /\ session'[j] # session[j] => /\ session[j] \in {"open", "payable"}
                                                       /\ session'[j] \in {"complete", "expired"}
                         /\ j \in over' => j \in over \/ session'[j] \notin {"open", "payable"}
           Announces == \A e \in Events : Announced(e) =>
                           emitted[e] > 0 \/ session'[e.obj] \in {"complete", "expired"}
<1>0. UNCHANGED <<att, drawn, call, hook>> /\ drawn' \in Nat /\ drawn <= drawn'
  BY DEF StripeStep, Pay, SubscriptionChanges, DeadlinePasses, TypeOK
<1>1. Ends /\ Announces
  <2>1. ASSUME NEW later \in {0, 1}, Pay(i, later) PROVE Ends /\ Announces
    BY <2>1 DEF Pay, Emit, Event, TypeOK
  <2>2. ASSUME NEW status \in {"active", "past_due", "canceled"}, NEW later \in {0, 1},
               SubscriptionChanges(i, status, later)
        PROVE  Ends /\ Announces
    BY <2>2 DEF SubscriptionChanges, Emit, Event, TypeOK
  <2>3. CASE DeadlinePasses(i)
    BY <2>3 DEF DeadlinePasses, Emit, Event, TypeOK
  <2> QED BY <2>1, <2>2, <2>3 DEF StripeStep
<1>2. EndsStay
  BY <1>1 DEF EndsStay, Over
<1>3. \A r \in Requests : CallStands(r)'
  BY <1>0, <1>2, CallKept DEF PlacesStand
<1>4. \A h \in Handlers : HookStands(h)'
  BY <1>0, <1>2, HookKept DEF PlacesStand
<1>5. ASSUME NEW j \in Attempts PROVE SessionStands(j)'
  <2>1. SessionStands(j) /\ (Gone(j) => Gone(j)')
    BY <1>2, GoneStays DEF PlacesStand
  <2> QED BY <1>0, <1>1, <2>1 DEF SessionStands
<1>6. ASSUME NEW e \in Events, Announced(e) PROVE session'[e.obj] \in {"complete", "expired"}
  BY <1>1, <1>2, <1>6, EventFields DEF PlacesStand, EndsStay, Over
<1>7. att.id # 0 /\ att.status \in TerminalAttempt => Gone(att.id)'
  BY <1>0, <1>2, GoneStays DEF PlacesStand, TypeOK, AttemptRow, Attempts
<1> QED BY <1>0, <1>3, <1>4, <1>5, <1>6, <1>7 DEF PlacesStand, Gone

\* A step of a webhook that leaves the attempt alone.
LEMMA HookMoves ==
    ASSUME TypeOK, PlacesStand, NEW h \in Handlers,
           UNCHANGED <<drawn, over, call, session, emitted>>,
           att'.id = att.id, att'.session = att.session,
           att'.id # 0 /\ att'.status \in TerminalAttempt => Gone(att.id),
           \A g \in Handlers \ {h} : hook'[g] = hook[g], HookStands(h)'
    PROVE  PlacesStand'
<1>1. EndsStay /\ drawn' \in Nat /\ drawn <= drawn'
  BY DEF EndsStay, TypeOK
<1>2. \A r \in Requests : CallStands(r)'
  BY <1>1, CallKept DEF PlacesStand
<1>3. \A g \in Handlers : HookStands(g)'
  BY <1>1, HookKept DEF PlacesStand
<1> QED BY <1>2, <1>3 DEF PlacesStand, SessionStands, Gone

\* FetchSubscription: a webhook takes up an event Stripe emitted.
LEMMA PlacesFetch ==
    ASSUME TypeOK, PlacesStand, NEW h \in Handlers, NEW e \in Events, FetchSubscription(h, e)
    PROVE  PlacesStand'
<1>1. /\ UNCHANGED <<att, drawn, over, call, session, emitted>>
      /\ hook'[h].event = e /\ hook'[h].closes = Closes(e)
      /\ \A g \in Handlers \ {h} : hook'[g] = hook[g]
      /\ emitted[e] > 0
  BY DEF FetchSubscription, TypeOK, stripe
<1>2. HookStands(h)'
  BY <1>1 DEF HookStands, Closes, PlacesStand
<1> QED BY <1>1, <1>2, HookMoves DEF PlacesStand

\* Every step of a webhook handler.
LEMMA PlacesHook ==
    ASSUME TypeOK, PlacesStand, NEW h \in Handlers, HookStep(h)
    PROVE  PlacesStand'
<1>0. hook[h] \in HookRow /\ HookStands(h) /\ att \in AttemptRow
  BY DEF TypeOK, PlacesStand
<1>1. CASE ReadStored(h)
  <2>1. PICK todo :
           hook' = [hook EXCEPT ![h] = [hook[h] EXCEPT !.pc = "write", !.todo = todo]]
    BY <1>1, Zenon DEF ReadStored
  <2>2. /\ [hook[h] EXCEPT !.pc = "write", !.todo = todo].event = hook[h].event
        /\ [hook[h] EXCEPT !.pc = "write", !.todo = todo].closes = hook[h].closes
    BY <1>0 DEF HookRow
  <2>3. /\ hook'[h].event = hook[h].event /\ hook'[h].closes = hook[h].closes
        /\ \A g \in Handlers \ {h} : hook'[g] = hook[g]
    BY <2>1, <2>2 DEF TypeOK
  <2>4. UNCHANGED <<att, drawn, over, call, session, emitted>>
    BY <1>1 DEF ReadStored, stripe
  <2>5. HookStands(h)'
    BY <1>0, <2>3, <2>4 DEF HookStands
  <2> QED BY <2>3, <2>4, <2>5, HookMoves DEF PlacesStand
<1>2. CASE WriteAndCommit(h)
  <2>1. /\ UNCHANGED <<drawn, over, call, session, emitted>>
        /\ hook'[h] = IdleHook /\ \A g \in Handlers \ {h} : hook'[g] = hook[g]
        /\ att' = IF hook[h].closes THEN [att EXCEPT !.status = hook[h].event.kind] ELSE att
    BY <1>2 DEF WriteAndCommit, TypeOK, stripe
  <2>2. att'.id = att.id /\ att'.session = att.session
    BY <1>0, <2>1 DEF AttemptRow
  <2>3. hook[h].closes => Gone(att.id)
    <3>1. hook[h].closes => hook[h].event.obj \in Attempts
      BY <1>0, HookFields, EventFields
    <3>2. hook[h].closes => att.session # 0
      BY <1>0, <3>1 DEF HookStands, Attempts
    <3> QED BY <1>0, <3>2 DEF HookStands, PlacesStand, Gone
  <2>4. att'.id # 0 /\ att'.status \in TerminalAttempt => Gone(att.id)
    BY <2>1, <2>2, <2>3 DEF PlacesStand
  <2>5. HookStands(h)'
    BY <2>1 DEF HookStands, IdleHook
  <2> QED BY <2>1, <2>2, <2>4, <2>5, HookMoves
<1>3. CASE RollBack(h)
  <2>1. /\ UNCHANGED <<att, drawn, over, call, session, emitted>>
        /\ hook'[h] = IdleHook /\ \A g \in Handlers \ {h} : hook'[g] = hook[g]
    BY <1>3 DEF RollBack, TypeOK, stripe
  <2>2. HookStands(h)'
    BY <2>1 DEF HookStands, IdleHook
  <2> QED BY <2>1, <2>2, HookMoves DEF PlacesStand
<1> QED BY <1>1, <1>2, <1>3 DEF HookStep

\* However requests and webhooks of an account overlap, crash or come late,
\* the attempt row, the requests, the webhooks and Stripe agree on which
\* attempt may still be paid.
THEOREM PlacesAlwaysStand == Spec => []PlacesStand
<1>1. TypeOK /\ PlacesStand /\ [Next]_vars => PlacesStand'
  <2> SUFFICES ASSUME TypeOK, PlacesStand, [Next]_vars PROVE PlacesStand'
    OBVIOUS
  <2>1. CASE UNCHANGED vars
    BY <2>1 DEF PlacesStand, SessionStands, CallStands, HookStands, Gone, vars, stripe
  <2> QED BY <2>1, PlacesRequest, PlacesStripe, PlacesFetch, PlacesHook DEF Next
<1> QED BY <1>1, PlacesInit, TypeCorrect, PTL DEF Spec

\* The reservation of attempts.py keeps its word: an account never has two
\* sessions it could pay.
THEOREM OneSessionToPay == Spec => []OnePayableSession
<1>1. TypeOK /\ PlacesStand => OnePayableSession
  <2> SUFFICES ASSUME TypeOK, PlacesStand, NEW i \in Attempts, session[i] = "payable"
               PROVE  i = drawn
    BY DEF OnePayableSession
  <2>1. SessionStands(i) /\ ~Gone(i)
    BY DEF PlacesStand, SessionStands, Gone
  <2> QED BY <2>1 DEF SessionStands, TypeOK, Attempts
<1> QED BY <1>1, PlacesAlwaysStand, TypeCorrect, PTL

-----------------------------------------------------------------------------
(* What the subscription row says.  A webhook writes what it fetched, not    *)
(* what its event announced, so the row may be ahead of its event and behind *)
(* Stripe; the event of the subscription's latest version is what is still   *)
(* to come as long as the row is behind.                                     *)

\* Webhooks are handled one at a time.
OneHandler == \A g, h \in Handlers : g = h

\* The event of the version Stripe has now.
Latest(i) == Event("subscription", i, subs[i].ver)

\* Stripe announces every version, and the latest one last.
StripeSays ==
    /\ clock > 0
    /\ \A i \in Attempts : /\ subs[i].ver = 0 <=> subs[i].status = "none"
                           /\ subs[i].ver # 0 => session[i] = "complete"
    /\ \A e \in Events :
          /\ emitted[e] <= clock
          /\ e.kind = "subscription" => (emitted[e] > 0 <=> e.ver <= subs[e.obj].ver)
          /\ e.kind = "completed" /\ emitted[e] > 0 => subs[e.obj].ver # 0
          /\ e.kind # "expired" /\ emitted[e] > 0 => emitted[e] <= emitted[Latest(e.obj)]
    /\ \A e \in processed : emitted[e] > 0

\* A row that is behind has the latest event to come.
RowFollows ==
    stored.id # 0 =>
    /\ subs[stored.id].ver # 0 /\ stored.status # "none"
    /\ stored.seen <= emitted[Latest(stored.id)]
    /\ stored.status = subs[stored.id].status \/ Latest(stored.id) \notin processed
    /\ stored.status = "canceled" => subs[stored.id].status = "canceled"

\* So has a webhook that fetched before the last change; it leaves its own
\* subscription's row as it is just when that was written for a later event.
Follows(h) ==
    LET v == hook[h]
        i == v.event.obj
    IN  v.pc # "idle" =>
        /\ emitted[v.event] > 0
        /\ v.event.kind = "expired" => v.pc = "write" /\ v.todo = "nothing"
        /\ v.event.kind # "expired" =>
              /\ v.status # "none"
              /\ v.status = subs[i].status \/ Latest(i) \notin processed \cup {v.event}
              /\ v.status = "canceled" => subs[i].status = "canceled"
              /\ stored.id = i /\ stored.status = "canceled" => v.status = "canceled"
              /\ v.pc = "write" /\ stored.id = i =>
                    (v.todo = "nothing" <=> emitted[v.event] < stored.seen)

SyncInv == StripeSays /\ RowFollows /\ \A h \in Handlers : Follows(h)

\* Events are told apart by their fields, and the latest is one of them.
LEMMA EventIs ==
    /\ \A e \in Events : e.kind = "subscription" =>
          /\ e = Event("subscription", e.obj, e.ver) /\ e.ver \in 1..(MaxChanges + 1)
    /\ \A i \in Attempts, n \in 1..(MaxChanges + 1) :
          /\ Event("subscription", i, n) \in Events
          /\ Event("subscription", i, n).kind = "subscription"
          /\ Event("subscription", i, n).obj = i /\ Event("subscription", i, n).ver = n
    /\ \A i \in Attempts, k \in {"completed", "expired"} :
          /\ Event(k, i, 0) \in Events /\ Event(k, i, 0).kind = k /\ Event(k, i, 0).obj = i
BY DEF Events, Event

\* The latest event of a subscription that exists.
LEMMA LatestIs ==
    ASSUME TypeOK, NEW i \in Attempts, subs[i].ver # 0
    PROVE  /\ Latest(i) \in Events /\ Latest(i).kind = "subscription"
           /\ Latest(i).obj = i /\ Latest(i).ver = subs[i].ver
<1>1. subs[i].ver \in 1..(MaxChanges + 1)
  BY ConstantsAssumption DEF TypeOK
<1> QED BY <1>1, EventIs DEF Latest

\* Nothing is announced and nothing written yet.
LEMMA SyncInit == Init => SyncInv
<1> SUFFICES ASSUME Init PROVE SyncInv
  OBVIOUS
<1>1. StripeSays
  <2>1. /\ clock = 1 /\ \A i \in Attempts : subs[i].ver = 0 /\ subs[i].status = "none"
        /\ \A e \in Events : emitted[e] = 0 /\ processed = {}
    BY DEF Init
  <2>2. \A e \in Events : e.kind = "subscription" => ~(e.ver <= 0)
    BY EventIs, ConstantsAssumption
  <2> QED BY <2>1, <2>2, EventFields DEF Init, StripeSays
<1>2. RowFollows /\ \A h \in Handlers : Follows(h)
  BY DEF Init, RowFollows, Follows, NoSubscription, IdleHook
<1> QED BY <1>1, <1>2 DEF SyncInv

\* Subscription i has a new version, which its new latest event announces.
Announced(i) ==
    /\ session'[i] = "complete" /\ \A j \in Attempts \ {i} : session'[j] = session[j]
    /\ subs'[i].ver = subs[i].ver + 1 /\ subs[i].ver <= MaxChanges
    /\ subs'[i].status # "none" /\ subs[i].status # "canceled"
    /\ \A j \in Attempts \ {i} : subs'[j] = subs[j]
    /\ clock' \in Nat /\ clock' >= clock
    /\ \A e \in Events :
          IF e = Latest(i)' THEN emitted'[e] = clock'
          ELSE \/ emitted'[e] = emitted[e]
               \/ emitted'[e] = clock' /\ e.kind = "completed" /\ e.obj = i /\ subs[i].ver = 0

\* A payment and a change are of this kind.
LEMMA StripeAnnounces ==
    ASSUME TypeOK, SyncInv, NEW i \in Attempts, NEW later \in {0, 1},
           \/ Pay(i, later)
           \/ \E status \in {"active", "past_due", "canceled"} :
                 SubscriptionChanges(i, status, later)
    PROVE  Announced(i)
<1>0. /\ subs[i] \in [status : Statuses, ver : 0..(MaxChanges + 1)] /\ clock \in Nat
      /\ session \in [Attempts -> {"none", "refused", "open", "payable", "complete", "expired"}]
      /\ subs \in [Attempts -> [status : Statuses, ver : 0..(MaxChanges + 1)]]
      /\ emitted \in [Events -> Nat]
  BY DEF TypeOK
<1>1. CASE Pay(i, later)
  <2>1. subs[i].ver = 0 /\ subs[i].status = "none"
    BY <1>1 DEF Pay, SyncInv, StripeSays
  <2>2. /\ subs'[i].ver = 1 /\ subs'[i].status = "active"
        /\ \A j \in Attempts \ {i} : subs'[j] = subs[j]
        /\ session'[i] = "complete" /\ \A j \in Attempts \ {i} : session'[j] = session[j]
    BY <1>0, <1>1 DEF Pay
  <2>3. Latest(i)' = Event("subscription", i, 1)
    BY <2>2 DEF Latest
  <2>4. /\ clock' = clock + later
        /\ emitted' = [e \in Events |->
              IF e \in {Event("completed", i, 0), Latest(i)'} THEN clock + later ELSE emitted[e]]
    BY <1>1, <2>3 DEF Pay, Emit
  <2>5. Event("completed", i, 0).kind = "completed" /\ Event("completed", i, 0).obj = i
    BY EventIs
  <2> QED BY <1>0, <2>1, <2>2, <2>4, <2>5, ConstantsAssumption DEF Announced
<1>2. ASSUME NEW status \in {"active", "past_due", "canceled"},
             SubscriptionChanges(i, status, later)
      PROVE  Announced(i)
  <2>1. /\ subs'[i].ver = subs[i].ver + 1 /\ subs'[i].status = status
        /\ \A j \in Attempts \ {i} : subs'[j] = subs[j]
        /\ subs[i].ver <= MaxChanges /\ subs[i].status \in {"active", "past_due"}
        /\ session' = session
    BY <1>0, <1>2 DEF SubscriptionChanges
  <2>2. session[i] = "complete"
    BY <2>1 DEF SyncInv, StripeSays
  <2>3. Latest(i)' = Event("subscription", i, subs[i].ver + 1)
    BY <2>1 DEF Latest
  <2>4. /\ clock' = clock + later
        /\ emitted' = [e \in Events |-> IF e \in {Latest(i)'} THEN clock + later ELSE emitted[e]]
    BY <1>2, <2>3 DEF SubscriptionChanges, Emit
  <2> QED BY <1>0, <2>1, <2>2, <2>4 DEF Announced
<1> QED BY <1>1, <1>2

\* A new version leaves a row and a webhook behind, with its event to come.
LEMMA SyncAnnounced ==
    ASSUME TypeOK, TypeOK', SyncInv, NEW i \in Attempts, Announced(i),
           UNCHANGED <<stored, processed, hook>>
    PROVE  SyncInv'
<1>0. /\ StripeSays /\ RowFollows /\ clock \in Nat /\ clock' \in Nat
      /\ \A j \in Attempts : subs[j].ver \in Nat /\ subs'[j].ver \in Nat
      /\ \A e \in Events : emitted[e] \in Nat /\ emitted'[e] \in Nat
      /\ \A e \in Events : e.obj \in Attempts
      /\ processed \subseteq Events
  BY EventFields, ConstantsAssumption DEF SyncInv, TypeOK
<1>1. /\ Latest(i)' \in Events /\ Latest(i)'.kind = "subscription" /\ Latest(i)'.obj = i
      /\ Latest(i)'.ver = subs[i].ver + 1
  <2>1. subs[i].ver + 1 \in 1..(MaxChanges + 1)
    BY <1>0, ConstantsAssumption DEF Announced
  <2>2. Latest(i)' = Event("subscription", i, subs[i].ver + 1)
    BY DEF Latest, Announced
  <2> QED BY <2>1, <2>2, EventIs
<1>2. emitted[Latest(i)'] = 0 /\ Latest(i)' \notin processed
  BY <1>0, <1>1 DEF StripeSays
<1>3. \A j \in Attempts \ {i} : Latest(j)' = Latest(j)
  BY DEF Latest, Announced
<1>4. \A e \in Events : /\ emitted[e] > 0 => emitted'[e] > 0
                        /\ e.obj # i \/ e.kind = "expired" => emitted'[e] = emitted[e]
                        /\ emitted'[e] <= clock'
  BY <1>0, <1>1 DEF Announced, StripeSays
<1>5. StripeSays'
  <2>1. clock' > 0
    BY <1>0 DEF StripeSays, Announced
  <2>2. ASSUME NEW j \in Attempts
        PROVE  /\ (subs[j].ver = 0)' <=> (subs[j].status = "none")'
               /\ (subs[j].ver # 0 => session[j] = "complete")'
    BY <1>0 DEF StripeSays, Announced
  <2>3. ASSUME NEW e \in Events, e.kind = "subscription"
        PROVE  emitted'[e] > 0 <=> e.ver <= subs'[e.obj].ver
    <3>0. e.ver \in Nat /\ e = Event("subscription", e.obj, e.ver)
      BY <2>3, EventIs, ConstantsAssumption
    <3>1. CASE e.obj # i
      BY <1>0, <1>4, <2>3, <3>1 DEF StripeSays, Announced
    <3>2. CASE e.obj = i /\ e.ver = subs[i].ver + 1
      <4>1. e = Latest(i)'
        BY <3>0, <3>2 DEF Latest, Announced
      <4>2. emitted'[e] = clock'
        BY <4>1 DEF Announced
      <4> QED BY <1>0, <2>1, <3>0, <3>2, <4>2 DEF Announced
    <3>3. CASE e.obj = i /\ e.ver # subs[i].ver + 1
      <4>1. emitted'[e] = emitted[e]
        BY <1>1, <2>3, <3>3 DEF Announced
      <4> QED BY <1>0, <2>3, <3>0, <3>3, <4>1 DEF StripeSays, Announced
    <3> QED BY <3>1, <3>2, <3>3
  <2>4. ASSUME NEW e \in Events, e.kind # "expired", emitted'[e] > 0
        PROVE  subs'[e.obj].ver # 0 /\ emitted'[e] <= emitted'[Latest(e.obj)']
    <3>1. CASE e.obj = i
      BY <1>0, <1>1, <1>4, <3>1 DEF Announced
    <3>2. CASE e.obj # i
      <4>1. emitted'[e] = emitted[e] /\ Latest(e.obj)' = Latest(e.obj) /\ subs'[e.obj] = subs[e.obj]
        BY <1>0, <1>3, <1>4, <3>2 DEF Announced
      <4>2. subs[e.obj].ver # 0
        <5>1. e.kind = "subscription" => e.ver \in Nat \ {0}
          BY EventIs, ConstantsAssumption
        <5> QED BY <1>0, <2>4, <4>1, <5>1, EventFields DEF StripeSays
      <4>3. Latest(e.obj) \in Events /\ Latest(e.obj).obj = e.obj
        BY <1>0, <4>2, LatestIs
      <4>4. emitted'[Latest(e.obj)] = emitted[Latest(e.obj)]
        BY <1>4, <3>2, <4>3
      <4> QED BY <1>0, <2>4, <4>1, <4>2, <4>4 DEF StripeSays
    <3> QED BY <3>1, <3>2
  <2>5. \A e \in processed' : emitted'[e] > 0
    BY <1>0, <1>4 DEF StripeSays
  <2> QED BY <1>4, <2>1, <2>2, <2>3, <2>4, <2>5 DEF StripeSays
<1>6. RowFollows'
  <2> SUFFICES ASSUME stored.id # 0 PROVE RowFollows'
    BY DEF RowFollows
  <2>0. stored.id \in Attempts /\ subs[stored.id].ver # 0 /\ stored.seen \in Nat
    BY <1>0, ConstantsAssumption DEF RowFollows, TypeOK, StoredRow, Attempts
  <2>1. Latest(stored.id) \in Events /\ Latest(stored.id).obj = stored.id
    BY <2>0, LatestIs
  <2>2. CASE stored.id = i
    <3>1. stored.seen <= emitted'[Latest(i)']
      <4>1. stored.seen <= emitted[Latest(i)] /\ emitted[Latest(i)] <= clock
        BY <1>0, <2>0, <2>1, <2>2 DEF RowFollows, StripeSays
      <4>2. emitted'[Latest(i)'] = clock' /\ clock' >= clock
        BY <1>1 DEF Announced
      <4> QED BY <1>0, <2>0, <2>1, <2>2, <4>1, <4>2
    <3> QED BY <1>0, <1>2, <2>0, <2>2, <3>1 DEF RowFollows, Announced
  <2>3. CASE stored.id # i
    <3>1. /\ Latest(stored.id)' = Latest(stored.id) /\ subs'[stored.id] = subs[stored.id]
          /\ emitted'[Latest(stored.id)] = emitted[Latest(stored.id)]
      BY <1>3, <1>4, <2>0, <2>1, <2>3 DEF Announced
    <3> QED BY <1>0, <2>0, <3>1 DEF RowFollows
  <2> QED BY <2>2, <2>3
<1>7. ASSUME NEW h \in Handlers PROVE Follows(h)'
  <2> SUFFICES ASSUME hook[h].pc # "idle" PROVE Follows(h)'
    BY DEF Follows
  <2> DEFINE e == hook[h].event
  <2>0. Follows(h) /\ e \in Events /\ e.obj \in Attempts /\ emitted[e] > 0
    BY HookFields, EventFields DEF SyncInv, TypeOK, Follows
  <2>1. emitted'[e] > 0 /\ e # Latest(i)'
    BY <1>0, <1>2, <1>4, <2>0
  <2>2. CASE e.kind = "expired"
    BY <2>0, <2>1, <2>2 DEF Follows
  <2>3. CASE e.kind # "expired" /\ e.obj # i
    <3>1. Latest(e.obj)' = Latest(e.obj) /\ subs'[e.obj] = subs[e.obj] /\ emitted'[e] = emitted[e]
      BY <1>3, <1>4, <2>0, <2>3 DEF Announced
    <3> QED BY <2>0, <2>1, <2>3, <3>1 DEF Follows
  <2>4. CASE e.kind # "expired" /\ e.obj = i
    <3>1. emitted'[e] = emitted[e]
      <4>1. e.kind = "completed" => subs[i].ver # 0
        BY <1>0, <2>0, <2>4 DEF StripeSays
      <4> QED BY <2>0, <2>1, <2>4, <4>1 DEF Announced
    <3> QED BY <1>2, <2>0, <2>1, <2>4, <3>1 DEF Follows, Announced
  <2> QED BY <2>2, <2>3, <2>4
<1> QED BY <1>5, <1>6, <1>7 DEF SyncInv

\* A step that changes neither subscriptions, rows nor webhooks, and announces
\* at most that a session expired.
LEMMA SyncQuiet ==
    ASSUME TypeOK, TypeOK', SyncInv, UNCHANGED <<stored, processed, hook, subs>>,
           \A i \in Attempts : session[i] = "complete" => session'[i] = "complete",
           clock' >= clock,
           \A e \in Events : \/ emitted'[e] = emitted[e]
                             \/ e.kind = "expired" /\ emitted'[e] = clock'
    PROVE  SyncInv'
<1>0. /\ StripeSays /\ RowFollows /\ clock \in Nat /\ clock' \in Nat /\ clock' > 0
      /\ \A e \in Events : emitted[e] \in Nat /\ emitted'[e] \in Nat
      /\ \A e \in Events : e.obj \in Attempts
      /\ processed \subseteq Events
  BY EventFields DEF SyncInv, TypeOK, StripeSays
<1>1. \A i \in Attempts : Latest(i)' = Latest(i)
  BY DEF Latest
<1>2. \A e \in Events : emitted[e] > 0 => emitted'[e] > 0
  BY <1>0
<1>3. \A i \in Attempts : subs[i].ver # 0 => emitted'[Latest(i)] = emitted[Latest(i)]
  BY LatestIs
<1>4. StripeSays'
  <2>1. ASSUME NEW e \in Events
        PROVE  /\ emitted'[e] <= clock'
               /\ e.kind = "subscription" => (emitted'[e] > 0 <=> e.ver <= subs[e.obj].ver)
               /\ e.kind = "completed" /\ emitted'[e] > 0 => subs[e.obj].ver # 0
    BY <1>0 DEF StripeSays
  <2>2. ASSUME NEW e \in Events, e.kind # "expired", emitted'[e] > 0
        PROVE  emitted'[e] <= emitted'[Latest(e.obj)']
    <3>1. emitted'[e] = emitted[e]
      BY <2>2
    <3>2. subs[e.obj].ver # 0
      <4>1. e.kind = "subscription" => e.ver \in Nat \ {0}
        BY EventIs, ConstantsAssumption
      <4>2. subs[e.obj].ver \in Nat
        BY <1>0, ConstantsAssumption DEF TypeOK
      <4> QED BY <1>0, <2>2, <3>1, <4>1, <4>2, EventFields DEF StripeSays
    <3> QED BY <1>0, <1>1, <1>3, <2>2, <3>1, <3>2 DEF StripeSays
  <2> QED BY <1>0, <1>2, <2>1, <2>2 DEF StripeSays
<1>5. RowFollows'
  <2>1. stored.id # 0 => stored.id \in Attempts
    BY ConstantsAssumption DEF TypeOK, StoredRow, Attempts
  <2> QED BY <1>0, <1>1, <1>3, <2>1 DEF RowFollows
<1>6. ASSUME NEW h \in Handlers PROVE Follows(h)'
  <2> SUFFICES ASSUME hook[h].pc # "idle" PROVE Follows(h)'
    BY DEF Follows
  <2> DEFINE e == hook[h].event
  <2>0. Follows(h) /\ e \in Events /\ e.obj \in Attempts /\ emitted[e] > 0
    BY HookFields, EventFields DEF SyncInv, TypeOK, Follows
  <2>1. /\ emitted'[e] > 0 /\ Latest(e.obj)' = Latest(e.obj)
        /\ e.kind # "expired" => emitted'[e] = emitted[e]
    BY <1>1, <1>2, <2>0
  <2> QED BY <2>0, <2>1 DEF Follows
<1> QED BY <1>4, <1>5, <1>6 DEF SyncInv

\* Checkout requests change no subscription.
LEMMA SyncRequest ==
    ASSUME TypeOK, TypeOK', SyncInv, NEW r \in Requests, RequestStep(r)
    PROVE  SyncInv'
<1>1. UNCHANGED <<stored, processed, hook, subs, emitted, clock>>
  BY DEF RequestStep, CheckSubscription, LookAtAttempt, Reserve, CreateSession, RejectSession,
     FailAttempt, RecordSession, RequestCrashes, stripe
<1>2. \A i \in Attempts : session[i] = "complete" => session'[i] = "complete"
  BY DEF RequestStep, CheckSubscription, LookAtAttempt, Reserve, CreateSession, RejectSession,
     FailAttempt, RecordSession, RequestCrashes, stripe, TypeOK
<1>3. clock \in Nat
  BY DEF TypeOK
<1> QED BY <1>1, <1>2, <1>3, SyncQuiet

\* Stripe's steps.
LEMMA SyncStripe ==
    ASSUME TypeOK, TypeOK', SyncInv, NEW i \in Attempts, StripeStep(i)
    PROVE  SyncInv'
<1>1. CASE DeadlinePasses(i)
  <2>1. UNCHANGED <<stored, processed, hook, subs>> /\ clock \in Nat /\ clock' >= clock
    BY <1>1 DEF DeadlinePasses, Emit, TypeOK
  <2>2. \A j \in Attempts : session[j] = "complete" => session'[j] = "complete"
    BY <1>1 DEF DeadlinePasses, TypeOK
  <2>3. \A e \in Events : emitted'[e] = emitted[e] \/ (e.kind = "expired" /\ emitted'[e] = clock')
    BY <1>1, EventIs DEF DeadlinePasses, Emit
  <2> QED BY <2>1, <2>2, <2>3, SyncQuiet
<1>2. CASE ~DeadlinePasses(i)
  <2>1. PICK later \in {0, 1} :
           \/ Pay(i, later)
           \/ \E status \in {"active", "past_due", "canceled"} :
                 SubscriptionChanges(i, status, later)
    BY <1>2 DEF StripeStep
  <2>2. UNCHANGED <<stored, processed, hook>>
    BY <2>1 DEF Pay, SubscriptionChanges
  <2>3. Announced(i)
    BY <2>1, StripeAnnounces
  <2> QED BY <2>2, <2>3, SyncAnnounced
<1> QED BY <1>1, <1>2

\* A subscription whose end, payment or version was announced exists.
LEMMA AnnouncedExists ==
    ASSUME TypeOK, SyncInv, NEW e \in Events, e.kind # "expired", emitted[e] > 0
    PROVE  subs[e.obj].ver # 0 /\ e.obj \in Attempts /\ emitted[e] <= emitted[Latest(e.obj)]
<1>1. e.kind = "subscription" => e.ver \in Nat \ {0}
  BY EventIs, ConstantsAssumption
<1>2. subs[e.obj].ver \in Nat /\ e.obj \in Attempts
  BY EventFields, ConstantsAssumption DEF TypeOK
<1> QED BY <1>1, <1>2, EventFields DEF SyncInv, StripeSays

\* A webhook takes up an event: what it fetches is Stripe's state of now.
LEMMA SyncFetch ==
    ASSUME TypeOK, TypeOK', SyncInv, NEW h \in Handlers, NEW e \in Events, FetchSubscription(h, e)
    PROVE  SyncInv'
<1>1. UNCHANGED <<stored, processed, session, subs, emitted, clock>> /\ emitted[e] > 0
  BY DEF FetchSubscription, stripe
<1>2. /\ hook'[h].pc = (IF e.kind = "expired" THEN "write" ELSE "sync") /\ hook'[h].event = e
      /\ hook'[h].status = subs[e.obj].status /\ hook'[h].todo = "nothing"
      /\ \A g \in Handlers \ {h} : hook'[g] = hook[g]
  BY DEF FetchSubscription, Fetched, TypeOK
<1>3. StripeSays' /\ RowFollows'
  BY <1>1 DEF SyncInv, StripeSays, RowFollows, Latest
<1>4. Follows(h)'
  <2>1. CASE e.kind = "expired"
    BY <1>1, <1>2, <2>1 DEF Follows
  <2>2. CASE e.kind # "expired"
    <3>1. subs[e.obj].status # "none"
      BY <1>1, <2>2, AnnouncedExists DEF SyncInv, StripeSays
    <3>2. stored.id = e.obj /\ stored.status = "canceled" => subs[e.obj].status = "canceled"
      <4>1. e.obj # 0
        BY EventFields DEF Attempts
      <4> QED BY <4>1 DEF SyncInv, RowFollows
    <3> QED BY <1>1, <1>2, <2>2, <3>1, <3>2 DEF Follows
  <2> QED BY <2>1, <2>2
<1>5. \A g \in Handlers \ {h} : Follows(g)'
  BY <1>1, <1>2 DEF SyncInv, Follows, Latest
<1> QED BY <1>3, <1>4, <1>5 DEF SyncInv

\* A webhook reads the row, writes and commits, or is rolled back.
LEMMA SyncHook ==
    ASSUME OneHandler, TypeOK, TypeOK', SyncInv, NEW h \in Handlers, HookStep(h)
    PROVE  SyncInv'
<1>0. /\ StripeSays /\ RowFollows /\ Follows(h)
      /\ hook[h] \in HookRow /\ hook \in [Handlers -> HookRow]
      /\ \A g \in Handlers : g = h
  BY DEF SyncInv, TypeOK, OneHandler
<1>s. UNCHANGED <<session, subs, emitted, clock>> /\ \A i : Latest(i)' = Latest(i)
  BY DEF HookStep, ReadStored, WriteAndCommit, RollBack, stripe, Latest
<1> DEFINE e == hook[h].event
<1>1. CASE ReadStored(h)
  <2>0. /\ hook[h].pc = "sync" /\ UNCHANGED <<stored, processed>> /\ e \in Events
        /\ e.kind # "expired"
    BY <1>0, <1>1, HookFields DEF ReadStored, Follows
  <2>1. PICK todo \in {"nothing", "insert", "replace", "update"} :
           /\ hook' = [hook EXCEPT ![h] = [hook[h] EXCEPT !.pc = "write", !.todo = todo]]
           /\ stored.id = e.obj => (todo = "nothing" <=> Stale(e))
    <3>1. e.obj # 0
      BY <2>0, EventFields DEF Attempts
    <3> QED BY <1>1, <3>1 DEF ReadStored
  <2>2. /\ hook'[h].pc = "write" /\ hook'[h].todo = todo /\ hook'[h].event = e
        /\ hook'[h].status = hook[h].status
    <3> DEFINE w == [hook[h] EXCEPT !.pc = "write", !.todo = todo]
    <3>1. w.pc = "write" /\ w.todo = todo /\ w.event = e /\ w.status = hook[h].status
      BY <1>0 DEF HookRow
    <3>2. hook'[h] = w
      BY <1>0, <2>1
    <3> QED BY <3>1, <3>2
  <2>3. StripeSays' /\ RowFollows'
    BY <1>0, <1>s, <2>0 DEF StripeSays, RowFollows, Latest
  <2>4. Follows(h)'
    BY <1>0, <1>s, <2>0, <2>1, <2>2 DEF Follows, Stale
  <2> QED BY <1>0, <2>3, <2>4 DEF SyncInv
<1>2. CASE RollBack(h)
  <2>1. hook'[h].pc = "idle" /\ UNCHANGED <<stored, processed>>
    BY <1>0, <1>2 DEF RollBack, IdleHook
  <2> QED BY <1>0, <1>s, <2>1 DEF SyncInv, StripeSays, RowFollows, Follows, Latest
<1>3. CASE WriteAndCommit(h)
  <2>0. /\ hook'[h].pc = "idle" /\ processed' = processed \cup {e} /\ hook[h].pc = "write"
        /\ stored' = IF hook[h].todo = "nothing" THEN stored
                     ELSE [id |-> e.obj, status |-> hook[h].status, seen |-> emitted[e]]
    BY <1>0, <1>3 DEF WriteAndCommit, IdleHook
  <2>1. e \in Events /\ emitted[e] > 0 /\ e.obj \in Attempts
    BY <1>0, <2>0, HookFields, EventFields DEF Follows
  <2>2. StripeSays'
    BY <1>0, <1>s, <2>0, <2>1 DEF StripeSays, Latest
  <2>3. Follows(h)'
    BY <2>0 DEF Follows
  <2>4. RowFollows'
    <3>1. CASE hook[h].todo = "nothing"
      <4> SUFFICES ASSUME stored.id # 0, e = Latest(stored.id),
                          stored.status # subs[stored.id].status
                   PROVE  FALSE
        BY <1>0, <1>s, <2>0, <3>1 DEF RowFollows
      <4>1. stored.id \in Attempts /\ stored.seen \in Nat /\ emitted[e] \in Nat
        BY SMTT(60), <2>1, ConstantsAssumption DEF TypeOK, StoredRow, Attempts
      <4>2. e.obj = stored.id /\ e.kind = "subscription"
        BY <1>0, <4>1, LatestIs DEF RowFollows
      <4>3. emitted[e] < stored.seen
        BY <1>0, <2>0, <3>1, <4>2 DEF Follows
      <4> QED BY <1>0, <4>1, <4>3 DEF RowFollows
    <3>2. CASE hook[h].todo # "nothing"
      <4>1. e.kind # "expired" /\ stored'.id = e.obj /\ stored'.status = hook[h].status
            /\ stored'.seen = emitted[e]
        BY <1>0, <2>0, <3>2 DEF Follows
      <4>2. subs[e.obj].ver # 0 /\ emitted[e] <= emitted[Latest(e.obj)]
        BY <2>1, <4>1, AnnouncedExists
      <4> QED BY <1>0, <1>s, <2>0, <4>1, <4>2 DEF RowFollows, Follows
    <3> QED BY <3>1, <3>2
  <2> QED BY <1>0, <2>2, <2>3, <2>4 DEF SyncInv
<1> QED BY <1>1, <1>2, <1>3 DEF HookStep

\* The invariant holds as long as webhooks are handled one at a time.
LEMMA SyncAlways ==
    ASSUME OneHandler
    PROVE  Spec => []SyncInv
<1>1. TypeOK /\ TypeOK' /\ SyncInv /\ [Next]_vars => SyncInv'
  <2> SUFFICES ASSUME TypeOK, TypeOK', SyncInv, [Next]_vars PROVE SyncInv'
    OBVIOUS
  <2>1. CASE UNCHANGED vars
    BY <2>1 DEF SyncInv, StripeSays, RowFollows, Follows, Latest, vars, stripe
  <2> QED BY <2>1, SyncRequest, SyncStripe, SyncFetch, SyncHook DEF Next
<1> QED BY <1>1, SyncInit, TypeCorrect, PTL DEF Spec

\* The row is written by the commit of a webhook alone.
LEMMA OnlyCommitsWrite ==
    ASSUME Next, stored' # stored
    PROVE  \E h \in Handlers : /\ hook[h].pc = "write" /\ hook[h].todo # "nothing"
                              /\ stored' = [id |-> hook[h].event.obj, status |-> hook[h].status,
                                            seen |-> emitted[hook[h].event]]
<1>1. PICK h \in Handlers : WriteAndCommit(h)
  BY DEF Next, RequestStep, CheckSubscription, LookAtAttempt, Reserve, CreateSession,
     RejectSession, FailAttempt, RecordSession, RequestCrashes, StripeStep, Pay,
     SubscriptionChanges, DeadlinePasses, FetchSubscription, HookStep, ReadStored, RollBack
<1> QED BY ZenonT(60), <1>1 DEF WriteAndCommit

\* If webhooks are handled one at a time, then once the events of a subscription
\* are all processed its row says what Stripe says, in whatever order they came
\* and however often they were rolled back.
THEOREM RowCatchesUp ==
    ASSUME OneHandler
    PROVE  Spec => []SyncedWhenQuiet
<1>1. TypeOK /\ SyncInv => SyncedWhenQuiet
  <2> SUFFICES ASSUME TypeOK, SyncInv, NEW i \in Attempts, stored.id = i,
                      \A e \in Events : e.obj = i /\ emitted[e] > 0 => e \in processed
               PROVE  stored.status = subs[i].status
    BY DEF SyncedWhenQuiet
  <2>1. RowFollows /\ StripeSays /\ i # 0 /\ subs[i].ver \in Nat
    BY ConstantsAssumption DEF SyncInv, Attempts, TypeOK
  <2>2. subs[i].ver # 0
    BY <2>1 DEF RowFollows
  <2>3. Latest(i) \in Events /\ Latest(i).kind = "subscription" /\ Latest(i).obj = i
        /\ Latest(i).ver = subs[i].ver
    BY <2>2, LatestIs
  <2>4. emitted[Latest(i)] > 0
    BY <2>1, <2>3 DEF StripeSays
  <2> QED BY <2>1, <2>3, <2>4 DEF RowFollows
<1> QED BY <1>1, SyncAlways, TypeCorrect, PTL

\* If webhooks are handled one at a time, the row of an ended subscription is
\* never shown as open again by a late, repeated or overtaken webhook.
THEOREM EndedIsNotRevived ==
    ASSUME OneHandler
    PROVE  Spec => EndedStaysEnded
<1>1. TypeOK /\ SyncInv /\ [Next]_vars =>
         [stored.id # 0 /\ ~IsOpen(stored.status) /\ stored'.id = stored.id
             => ~IsOpen(stored'.status)]_vars
  <2> SUFFICES ASSUME TypeOK, SyncInv, Next, stored.id # 0, ~IsOpen(stored.status),
                      stored'.id = stored.id
               PROVE  ~IsOpen(stored'.status)
    OBVIOUS
  <2>1. stored.status = "canceled"
    BY DEF SyncInv, RowFollows, IsOpen, Terminal
  <2>2. CASE stored' = stored
    BY <2>2
  <2>3. CASE stored' # stored
    <3>1. PICK h \in Handlers :
             /\ hook[h].pc = "write" /\ hook[h].todo # "nothing"
             /\ stored' = [id |-> hook[h].event.obj, status |-> hook[h].status,
                           seen |-> emitted[hook[h].event]]
      BY <2>3, OnlyCommitsWrite
    <3>2. stored'.id = hook[h].event.obj /\ stored'.status = hook[h].status
      BY <3>1
    <3>3. hook[h].status = "canceled"
      BY <2>1, <3>1, <3>2 DEF SyncInv, Follows
    <3> QED BY <3>2, <3>3 DEF IsOpen, Terminal
  <2> QED BY <2>2, <2>3
<1> QED BY <1>1, SyncAlways, TypeCorrect, PTL DEF Spec, EndedStaysEnded

\* If webhooks are handled one at a time, a row is never written for an event
\* older than the one it was last written for: what synchronize_subscription
\* says of itself fails only where two webhooks overlap.
THEOREM NoOlderEventAlone ==
    ASSUME OneHandler
    PROVE  Spec => NeverAnOlderEvent
<1>1. TypeOK /\ SyncInv /\ [Next]_vars =>
         [stored'.id = stored.id => stored'.seen >= stored.seen]_vars
  <2> SUFFICES ASSUME TypeOK, SyncInv, Next, stored'.id = stored.id
               PROVE  stored'.seen >= stored.seen
    OBVIOUS
  <2>0. stored.seen \in Nat
    BY DEF TypeOK, StoredRow
  <2>1. CASE stored' = stored
    BY <2>0, <2>1
  <2>2. CASE stored' # stored
    <3>1. PICK h \in Handlers :
             /\ hook[h].pc = "write" /\ hook[h].todo # "nothing"
             /\ stored' = [id |-> hook[h].event.obj, status |-> hook[h].status,
                           seen |-> emitted[hook[h].event]]
      BY <2>2, OnlyCommitsWrite
    <3>2. stored.id = hook[h].event.obj /\ stored'.seen = emitted[hook[h].event]
      BY <3>1
    <3>3. ~(emitted[hook[h].event] < stored.seen)
      BY <3>1, <3>2 DEF SyncInv, Follows
    <3>4. emitted[hook[h].event] \in Nat
      BY <3>1, HookFields DEF TypeOK
    <3> QED BY <2>0, <3>2, <3>3, <3>4
  <2> QED BY <2>1, <2>2
<1> QED BY <1>1, SyncAlways, TypeCorrect, PTL DEF Spec, NeverAnOlderEvent
=============================================================================
