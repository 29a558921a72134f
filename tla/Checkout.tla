------------------------------ MODULE Checkout ------------------------------
(***************************************************************************)
(* Buying a subscription (src/signals/billing): the attempt row that       *)
(* reserves an account's place before Stripe is called (attempts.py,       *)
(* checkout.py, the route of routes_billing.py), and the Stripe webhooks   *)
(* that close the attempt and synchronise the subscription row             *)
(* (webhooks.py, service.py).                                              *)
(*                                                                         *)
(* Every row is keyed by its account, so one account is modelled.  Calls   *)
(* to Stripe separate the statements of a transaction, and READ COMMITTED  *)
(* lets another transaction commit between any two of them: a request is   *)
(* its subscription check, its look at the attempt, its conditional write, *)
(* its call to Stripe and its second transaction; a webhook is its fetch,  *)
(* its read of the stored row and its write.                               *)
(*                                                                         *)
(* Stripe is external: one session per idempotency key, a refused key      *)
(* stays refused, a session ends at the deadline Kivou gave it (one clock  *)
(* for both sides), and events are delivered until they are acknowledged,  *)
(* in any order, possibly several at a time and more than once.            *)
(***************************************************************************)
EXTENDS Naturals, FiniteSets

CONSTANTS
    Requests,     \* concurrent POST /billing/checkout calls
    Handlers,     \* API processes: each runs one webhook at a time
    Plans,        \* purchasable plans (with their currency)
    Nil,          \* SQL NULL
    MaxAttempts,  \* bound: attempt ids ever drawn
    MaxChanges,   \* bound: changes of subscriptions at Stripe
    MaxSeconds,   \* bound: seconds a payment or a change moves the clock to
    MaxFaults     \* bound: crashes and lost answers

ASSUME ConstantsAssumption ==
    /\ Nil \notin Plans /\ Plans # {}
    /\ MaxAttempts \in Nat /\ MaxChanges \in Nat /\ MaxSeconds \in Nat
    /\ MaxFaults \in Nat

VARIABLES
    att,        \* the billing_checkout_attempt row
    drawn,      \* attempt ids drawn so far
    over,       \* attempts whose expires_at has passed
    stored,     \* the billing_subscription row
    processed,  \* stripe_webhook_event: events recorded as processed
    call,       \* checkout requests: position in the code and what they read
    hook,       \* webhook handlers: position in the code and what they read
    session,    \* Stripe: the checkout session of each attempt's key
    subs,       \* Stripe: the subscription each session gave rise to
    emitted,    \* Stripe: `created' of every event, 0 before it exists
    clock,      \* Stripe: the current second
    faults      \* faults so far

stripe == <<session, subs, emitted, clock>>
vars == <<att, drawn, over, stored, processed, call, hook, stripe, faults>>

-----------------------------------------------------------------------------
Attempts == 1..MaxAttempts

NoAttempt == [id |-> 0, plan |-> Nil, session |-> 0, status |-> "none"]
NoSubscription == [id |-> 0, status |-> "none", seen |-> 0]
IdleCall == [pc |-> "idle", plan |-> Nil, id |-> 0, late |-> {}]
IdleHook == [pc |-> "idle", event |-> Nil, status |-> "none", todo |-> "nothing",
             closes |-> FALSE]

\* A session's end, and each version of a subscription, is announced by an
\* event of its own.
Events ==
    [kind : {"completed", "expired"}, obj : Attempts, ver : {0}]
        \cup [kind : {"subscription"}, obj : Attempts, ver : 1..(MaxChanges + 1)]

Init ==
    /\ att = NoAttempt
    /\ drawn = 0
    /\ over = {}
    /\ stored = NoSubscription
    /\ processed = {}
    /\ call = [r \in Requests |-> IdleCall]
    /\ hook = [h \in Handlers |-> IdleHook]
    /\ session = [i \in Attempts |-> "none"]
    /\ subs = [i \in Attempts |-> [status |-> "none", ver |-> 0]]
    /\ emitted = [e \in Events |-> 0]
    /\ clock = 1
    /\ faults = 0

Fault == faults < MaxFaults /\ faults' = faults + 1

TerminalAttempt == {"completed", "expired", "failed"}
Terminal == {"none", "canceled"}        \* no row, or an ended subscription

\* is_open_subscription, for the row that is read.
IsOpen(status) == status \notin Terminal

\* is_open_attempt: neither ended nor, when the request came in, past its
\* deadline.
IsOpenAttempt(r) ==
    att.id # 0 /\ att.status \notin TerminalAttempt /\ att.id \notin call[r].late

\* A webhook that has closed the attempt holds its row until it commits.
Locked == \E h \in Handlers : hook[h].closes

-----------------------------------------------------------------------------
(* POST /billing/checkout                                                   *)

Goto(r, pc) == call' = [call EXCEPT ![r].pc = pc]
Return(r) == call' = [call EXCEPT ![r] = IdleCall]

\* prepare_checkout up to its subscription check.  expire_stale either is
\* rolled back with the refusal or precedes the overwriting of the same row.
CheckSubscription(r, plan) ==
    /\ call[r].pc = "idle"
    /\ ~IsOpen(stored.status)
    /\ call' = [call EXCEPT ![r] = [@ EXCEPT !.pc = "look", !.plan = plan, !.late = over]]
    /\ UNCHANGED <<att, drawn, over, stored, processed, hook, stripe, faults>>

\* reserve: an attempt Stripe may already have answered is taken up again.
MayResume(r) == att.status = "creating" /\ att.plan = call[r].plan

\* reserve, its read of the current attempt.
LookAtAttempt(r) ==
    /\ call[r].pc = "look"
    /\ \/ /\ IsOpenAttempt(r) /\ MayResume(r)
          /\ call' = [call EXCEPT ![r] = [@ EXCEPT !.pc = "call", !.id = att.id, !.late = {}]]
       \/ /\ IsOpenAttempt(r) /\ ~MayResume(r)
          /\ Return(r)
       \/ /\ ~IsOpenAttempt(r)
          /\ call' = [call EXCEPT ![r] = [@ EXCEPT !.pc = "reserve", !.id = att.id, !.late = {}]]
    /\ UNCHANGED <<att, drawn, over, stored, processed, hook, stripe, faults>>

\* The primary key and the WHERE of the update: the row is the one read.
StillThere(r) == att.id = call[r].id

\* reserve, its insert or update; a lost race is checkout_in_progress.
Reserve(r) ==
    /\ call[r].pc = "reserve"
    /\ ~Locked
    /\ \/ /\ StillThere(r)
          /\ drawn < MaxAttempts
          /\ drawn' = drawn + 1
          /\ att' = [id |-> drawn + 1, plan |-> call[r].plan, session |-> 0,
                     status |-> "creating"]
          /\ call' = [call EXCEPT ![r] = [@ EXCEPT !.pc = "call", !.id = drawn + 1]]
       \/ /\ ~StillThere(r)
          /\ Return(r)
          /\ UNCHANGED <<att, drawn>>
    /\ UNCHANGED <<over, stored, processed, hook, stripe, faults>>

\* open_checkout_session: Stripe creates the session of the key or returns
\* the one it has; the answer may be lost (CheckoutSessionUncertain).
CreateSession(r) ==
    LET i == call[r].id
        opens == session[i] = "none" /\ i \notin over
    IN  /\ call[r].pc = "call"
        /\ opens \/ session[i] \notin {"none", "refused"}
        /\ session' = IF opens THEN [session EXCEPT ![i] = "open"] ELSE session
        /\ \/ Goto(r, "record") /\ UNCHANGED faults
           \/ Return(r) /\ Fault
        /\ UNCHANGED <<att, drawn, over, stored, processed, hook, subs, emitted, clock>>

\* CheckoutSessionRejected: a request Stripe does not accept, or one whose
\* deadline has passed.
RejectSession(r) ==
    LET i == call[r].id
    IN  /\ call[r].pc = "call"
        /\ session[i] \in {"none", "refused"}
        /\ IF session[i] = "none" /\ i \notin over THEN Fault ELSE UNCHANGED faults
        /\ session' = [session EXCEPT ![i] = "refused"]
        /\ Goto(r, "fail")
        /\ UNCHANGED <<att, drawn, over, stored, processed, hook, subs, emitted, clock>>

\* Mutant of MayFail: the attempt that is current is closed, whichever it is.
MayFailCurrent(r) == att.status = "creating"

\* fail_attempt: this very attempt, and only before a session is recorded.
MayFail(r) == att.id = call[r].id /\ att.status = "creating"

FailAttempt(r) ==
    /\ call[r].pc = "fail"
    /\ ~Locked
    /\ att' = IF MayFail(r) THEN [att EXCEPT !.status = "failed"] ELSE att
    /\ Return(r)
    /\ UNCHANGED <<drawn, over, stored, processed, hook, stripe, faults>>

\* record_session, and the answer that gives the customer the URL.
RecordSession(r) ==
    LET i == call[r].id
    IN  /\ call[r].pc = "record"
        /\ ~Locked
        /\ att' = IF att.id = i THEN [att EXCEPT !.session = i, !.status = "open"] ELSE att
        /\ session' = [session EXCEPT ![i] = IF @ = "open" THEN "payable" ELSE @]
        /\ Return(r)
        /\ UNCHANGED <<drawn, over, stored, processed, hook, subs, emitted, clock, faults>>

\* The process dies, or its call is lost before Stripe sees it.
RequestCrashes(r) ==
    /\ call[r].pc # "idle"
    /\ Return(r) /\ Fault
    /\ UNCHANGED <<att, drawn, over, stored, processed, hook, stripe>>

-----------------------------------------------------------------------------
(* Stripe                                                                   *)

\* An event created `later' seconds after the previous one.
Emit(new, later) ==
    /\ clock' = clock + later
    /\ emitted' = [e \in Events |-> IF e \in new THEN clock + later ELSE emitted[e]]

Event(kind, i, ver) == [kind |-> kind, obj |-> i, ver |-> ver]

\* The customer pays: the session completes and the subscription is active.
Pay(i, later) ==
    /\ session[i] = "payable"
    /\ later = 0 \/ clock < MaxSeconds
    /\ session' = [session EXCEPT ![i] = "complete"]
    /\ subs' = [subs EXCEPT ![i] = [status |-> "active", ver |-> 1]]
    /\ Emit({Event("completed", i, 0), Event("subscription", i, 1)}, later)
    /\ UNCHANGED <<att, drawn, over, stored, processed, call, hook, faults>>

\* A payment fails or is recovered, or the subscription ends for good.
SubscriptionChanges(i, status, later) ==
    /\ subs[i].status \in {"active", "past_due"} \ {status}
    /\ subs[i].ver <= MaxChanges
    /\ later = 0 \/ clock < MaxSeconds
    /\ Cardinality({e \in Events : e.ver > 1 /\ emitted[e] > 0}) < MaxChanges
    /\ subs' = [subs EXCEPT ![i] = [status |-> status, ver |-> @.ver + 1]]
    /\ Emit({Event("subscription", i, subs[i].ver + 1)}, later)
    /\ UNCHANGED <<att, drawn, over, stored, processed, call, hook, session, faults>>

\* expires_at passes, for the attempt here and its session there.
DeadlinePasses(i) ==
    /\ i <= drawn /\ i \notin over
    /\ over' = over \cup {i}
    /\ IF session[i] \in {"open", "payable"}
       THEN /\ session' = [session EXCEPT ![i] = "expired"]
            /\ Emit({Event("expired", i, 0)}, 1)
       ELSE UNCHANGED <<session, emitted, clock>>
    /\ UNCHANGED <<att, drawn, stored, processed, call, hook, subs, faults>>

-----------------------------------------------------------------------------
(* POST /webhooks/stripe (handle_event)                                     *)

\* Mutant of Closes: the type of the event is not looked at.
EveryEventCloses(e) == att.session = e.obj

\* close_attempt, for the attempt the ended session is recorded in.
Closes(e) == e.kind \in {"completed", "expired"} /\ att.session = e.obj

\* Mutant of Fetched: a completed session is taken for an active subscription.
CompletedMeansActive(e) == IF e.kind = "completed" THEN "active" ELSE subs[e.obj].status

\* fetch_subscription: the subscription as Stripe has it now.
Fetched(e) == subs[e.obj].status

\* already_processed, close_attempt and the call to Stripe.
FetchSubscription(h, e) ==
    /\ hook[h].pc = "idle"
    /\ emitted[e] > 0 /\ e \notin processed
    /\ Closes(e) => ~Locked
    /\ hook' = [hook EXCEPT ![h] =
          [pc |-> IF e.kind = "expired" THEN "write" ELSE "sync", event |-> e,
           status |-> Fetched(e), todo |-> "nothing", closes |-> Closes(e)]]
    /\ UNCHANGED <<att, drawn, over, stored, processed, call, stripe, faults>>

\* Mutant of Stale: an event of the same second counts as older.
NotNewer(e) == emitted[e] <= stored.seen

\* An event older than the one the row was written for.
Stale(e) == emitted[e] < stored.seen

\* Mutant of Conflicts: an ended subscription is in the way like an open one.
AnyRowConflicts == TRUE

\* A stored subscription that another one may not replace.
Conflicts == IsOpen(stored.status)

\* synchronize_subscription, its read of the stored row: a second subscription
\* is a conflict while the first is open, and replaces it afterwards.
ReadStored(h) ==
    LET e == hook[h].event
        todo == CASE stored.id = 0 -> "insert"
                  [] stored.id = e.obj -> IF Stale(e) THEN "nothing" ELSE "update"
                  [] OTHER -> IF Conflicts THEN "nothing" ELSE "replace"
    IN  /\ hook[h].pc = "sync"
        /\ hook' = [hook EXCEPT ![h] = [@ EXCEPT !.pc = "write", !.todo = todo]]
        /\ UNCHANGED <<att, drawn, over, stored, processed, call, stripe, faults>>

\* What a concurrent webhook can make this one run into: the event is recorded
\* already, the account has a row (which the delete of a replacement only
\* removes when it has ended), or the row to update is gone.
WriteConflict(h) ==
    LET v == hook[h]
    IN  \/ v.event \in processed
        \/ v.todo = "insert" /\ stored.id # 0
        \/ v.todo = "replace" /\ IsOpen(stored.status)
        \/ v.todo = "update" /\ stored.id # v.event.obj

\* The delete of an ended row and the insert, or the update; the attempt that
\* was closed; _record; and the commit.
WriteAndCommit(h) ==
    LET v == hook[h]
    IN  /\ v.pc = "write" /\ ~WriteConflict(h)
        /\ stored' = IF v.todo = "nothing" THEN stored
                     ELSE [id |-> v.event.obj, status |-> v.status, seen |-> emitted[v.event]]
        /\ att' = IF v.closes THEN [att EXCEPT !.status = v.event.kind] ELSE att
        /\ processed' = processed \cup {v.event}
        /\ hook' = [hook EXCEPT ![h] = IdleHook]
        /\ UNCHANGED <<drawn, over, call, stripe, faults>>

\* The transaction rolls back and Stripe delivers the event again.
RollBack(h) ==
    /\ hook[h].pc # "idle"
    /\ IF hook[h].pc = "write" /\ WriteConflict(h) THEN UNCHANGED faults ELSE Fault
    /\ hook' = [hook EXCEPT ![h] = IdleHook]
    /\ UNCHANGED <<att, drawn, over, stored, processed, call, stripe>>

-----------------------------------------------------------------------------
RequestStep(r) ==
    \/ \E plan \in Plans : CheckSubscription(r, plan)
    \/ LookAtAttempt(r) \/ Reserve(r)
    \/ CreateSession(r) \/ RejectSession(r)
    \/ FailAttempt(r) \/ RecordSession(r) \/ RequestCrashes(r)

StripeStep(i) ==
    \/ \E later \in {0, 1} : Pay(i, later)
    \/ \E status \in {"active", "past_due", "canceled"}, later \in {0, 1} :
          SubscriptionChanges(i, status, later)
    \/ DeadlinePasses(i)

HookStep(h) == ReadStored(h) \/ WriteAndCommit(h) \/ RollBack(h)

Next ==
    \/ \E r \in Requests : RequestStep(r)
    \/ \E i \in Attempts : StripeStep(i)
    \/ \E h \in Handlers, e \in Events : FetchSubscription(h, e)
    \/ \E h \in Handlers : HookStep(h)

Spec == Init /\ [][Next]_vars

\* A started webhook runs on, and Stripe goes on delivering while an event is
\* not acknowledged.
Fairness ==
    /\ \A h \in Handlers : WF_vars(HookStep(h))
    /\ WF_vars(\E h \in Handlers, e \in Events : FetchSubscription(h, e))

FairSpec == Spec /\ Fairness

-----------------------------------------------------------------------------
(* Properties                                                               *)

Statuses == {"none", "active", "past_due", "canceled"}

AttemptRow ==
    [id : 0..MaxAttempts, plan : Plans \cup {Nil}, session : 0..MaxAttempts,
     status : {"none", "creating", "open"} \cup TerminalAttempt]
StoredRow == [id : 0..MaxAttempts, status : Statuses, seen : Nat]
CallRow ==
    {c \in [pc : {"idle", "look", "reserve", "call", "record", "fail"},
            plan : Plans \cup {Nil}, id : 0..MaxAttempts, late : SUBSET Attempts] :
        c.pc \in {"call", "record", "fail"} => c.id \in Attempts}
HookRow ==
    {v \in [pc : {"idle", "sync", "write"}, event : Events \cup {Nil}, status : Statuses,
            todo : {"nothing", "insert", "replace", "update"}, closes : BOOLEAN] :
        /\ v.pc # "idle" => v.event \in Events
        /\ v.closes => v.pc # "idle" /\ v.event.kind \in {"completed", "expired"}}

\* Every row, request, webhook and Stripe object is well formed; a request
\* that calls Stripe has an attempt, a webhook past its fetch an event, and
\* one that closes an attempt the end of a session.
TypeOK ==
    /\ att \in AttemptRow /\ stored \in StoredRow
    /\ drawn \in 0..MaxAttempts /\ over \in SUBSET Attempts
    /\ processed \in SUBSET Events
    /\ call \in [Requests -> CallRow]
    /\ hook \in [Handlers -> HookRow]
    /\ session \in [Attempts -> {"none", "refused", "open", "payable", "complete", "expired"}]
    /\ subs \in [Attempts -> [status : Statuses, ver : 0..(MaxChanges + 1)]]
    /\ emitted \in [Events -> Nat]
    /\ clock \in Nat /\ faults \in Nat

\* However requests overlap, crash and lose answers, the account never holds
\* two sessions it could pay.
OnePayableSession ==
    \A i, j \in Attempts : session[i] = "payable" /\ session[j] = "payable" => i = j

\* An attempt that can no longer be paid.
Gone(i) == i \in over \/ session[i] \in {"refused", "complete", "expired"}

\* What a request knows: it judges deadlines by an earlier time, replaces only
\* an attempt that is gone, and frees only one that Stripe refused.
CallStands(r) ==
    LET c == call[r]
    IN  /\ c.late \subseteq over
        /\ c.pc \in {"call", "record", "fail"} => c.id <= drawn
        /\ c.pc = "reserve" /\ c.id # 0 => Gone(c.id)
        /\ c.pc = "fail" => session[c.id] = "refused"

\* A webhook that closes holds the current attempt, whose session has ended.
HookStands(h) ==
    hook[h].closes => /\ att.session = hook[h].event.obj
                      /\ session[hook[h].event.obj] \in {"complete", "expired"}

\* An attempt's place at Stripe: open before its deadline only, gone once the
\* attempt is replaced, and untouched before it is drawn.
SessionStands(i) ==
    /\ session[i] \in {"open", "payable"} => i \notin over
    /\ i < drawn => Gone(i)
    /\ i > drawn => session[i] = "none"

\* Rows, requests, webhooks and Stripe agree on which attempt may still be
\* paid: at most the current one, and not once its row is closed.
PlacesStand ==
    /\ att.id = drawn /\ att.session \in {0, att.id}
    /\ att.id # 0 /\ att.status \in TerminalAttempt => Gone(att.id)
    /\ \A i \in Attempts : SessionStands(i)
    /\ \A e \in Events : emitted[e] > 0 /\ e.kind \in {"completed", "expired"} =>
                             session[e.obj] \in {"complete", "expired"}
    /\ \A r \in Requests : CallStands(r)
    /\ \A h \in Handlers : HookStands(h)

\* An ended subscription is never shown as open again: a late, repeated or
\* overtaken webhook does not bring back the state of the past.
EndedStaysEnded ==
    [][stored.id # 0 /\ ~IsOpen(stored.status) /\ stored'.id = stored.id
          => ~IsOpen(stored'.status)]_vars

\* The row of a subscription is never written for an event older than the one
\* it was last written for (synchronize_subscription's own statement).
NeverAnOlderEvent ==
    [][stored'.id = stored.id => stored'.seen >= stored.seen]_vars

\* Once the events of a subscription are all processed, its row says what
\* Stripe says, in whatever order they came.
SyncedWhenQuiet ==
    \A i \in Attempts :
        /\ stored.id = i
        /\ \A e \in Events : e.obj = i /\ emitted[e] > 0 => e \in processed
        /\ \A h \in Handlers : hook[h].pc = "idle"
        => stored.status = subs[i].status

\* A customer whose payment, or whose recovered payment, Stripe announces gets
\* access, unless the subscription ends or another one of the account is open.
PaidLeadsToAccess ==
    \A i \in Attempts :
        /\ subs[i].status = "active"
        /\ Event("subscription", i, subs[i].ver) \notin processed
        ~>  \/ stored.id = i /\ stored.status = "active"
            \/ subs[i].status # "active"
            \/ stored.id # i /\ IsOpen(stored.status)

\* An account is never billed for two subscriptions.
NoSecondBill ==
    \A i, j \in Attempts : IsOpen(subs[i].status) /\ IsOpen(subs[j].status) => i = j
=============================================================================
