---------------------------- MODULE ProspectSend ----------------------------
(***************************************************************************)
(* The assisted-prospection send queue of src/signals/prospection_actions: *)
(* founder actions on prospect targets (service.py), the atomic            *)
(* reservation of a batch (queue.py), and the worker that turns a reserved *)
(* batch into one Instantly campaign with one lead per target (worker.py,  *)
(* delivery.py).                                                           *)
(*                                                                         *)
(* Each transaction of the code is one action.  A `_mutation_guard' block  *)
(* holds the request, item and target rows across its provider call, so    *)
(* the block, its call and its commit are one step; the ways it can be cut *)
(* short (call refused, call landed but answered with an error, process    *)
(* killed after the call and before the commit) are alternatives of that   *)
(* step.  Everything between two guards is an interleaving point.          *)
(***************************************************************************)
EXTENDS Naturals, FiniteSets, Sequences, Functions

CONSTANTS
    Requests,    \* request ids the console may submit (all on one day)
    Targets,     \* prospect_target rows
    Workers,     \* worker processes
    Emails,      \* mailbox addresses
    EmailOf,     \* the address of each target
    Nil,         \* SQL NULL
    Cap,         \* daily cap on reservations (25 in the code)
    MaxVersion,  \* bound: founder edits stop at this row version
    MaxFaults    \* bound: crashes, provider errors, leases that expire under
                 \* their claimant, and uses of the kill switch

ASSUME ConstantsAssumption ==
    /\ Nil \notin Requests \cup Targets \cup Workers \cup {"completed", "partial", "failed"}
    /\ Nil \notin [camp : Requests, tgt : Targets]
    /\ IsFiniteSet(Requests) /\ IsFiniteSet(Targets)
    /\ "create" \notin Targets /\ "activate" \notin Targets
    /\ EmailOf \in [Targets -> Emails]
    /\ Cap \in Nat /\ MaxVersion \in Nat /\ MaxFaults \in Nat

VARIABLES
    tgt,        \* prospect_target rows
    req,        \* prospect_send_request rows
    item,       \* prospect_send_item rows, by request and target
    queue,      \* per request, its items by (next_attempt_at, position)
    ledger,     \* result["accounting"]: declared POST attempts, by operation
    confirmed,  \* result["accounting"]: imports whose credit was booked
    campaigns,  \* provider: campaigns carrying the request's name
    leads,      \* provider: leads imported for a target in a request's campaign
    mails,      \* provider: the mail revision the last such import carried
    verdict,    \* provider: verification status of that lead
    active,     \* provider: campaigns that are sending
    wk,         \* worker processes: position in the code and claim snapshot
    kill,       \* the acquisition kill-switch file exists
    faults      \* faults so far

rows == <<tgt, req, item, queue, ledger, confirmed>>
provider == <<campaigns, leads, mails, verdict, active>>
vars == <<rows, provider, wk, kill, faults>>

-----------------------------------------------------------------------------
Lead == [camp : Requests, tgt : Targets]     \* a lead id: campaign and owner
Terminal == {"sent", "failed"}
Ended == {"completed", "partial", "failed"}
Live == {"queued", "running", "waiting"}
Operations == {"create", "activate"} \cup Targets  \* a target names its import

NoItem == [status |-> "none", version |-> 0, lead |-> Nil, cause |-> "none"]
NoRequest == [status |-> "none", camp |-> Nil, lease |-> Nil, live |-> FALSE,
              blocked |-> FALSE, activated |-> FALSE, reserved |-> 0, sent |-> 0]
Idle == [pc |-> "idle", req |-> Nil, tgt |-> Nil, camp |-> Nil, lead |-> Nil,
         mail |-> 0, op |-> Nil, permits |-> {}]

\* A freshly prepared target: reviewed by nobody, mail contract passed.
Prepared == [status |-> "pending_review", version |-> 1, req |-> Nil,
             camp |-> Nil, lead |-> Nil, mail |-> 1, contract |-> "passed",
             credits |-> 0]

Init ==
    /\ tgt = [t \in Targets |-> Prepared]
    /\ req = [r \in Requests |-> NoRequest]
    /\ item = [r \in Requests |-> [t \in Targets |-> NoItem]]
    /\ queue = [r \in Requests |-> <<>>]
    /\ ledger = [r \in Requests |-> [o \in Operations |-> 0]]
    /\ confirmed = [r \in Requests |-> {}]
    /\ campaigns = [r \in Requests |-> 0]
    /\ leads = [r \in Requests |-> [t \in Targets |-> 0]]
    /\ mails = [r \in Requests |-> [t \in Targets |-> 0]]
    /\ verdict = [r \in Requests |-> [t \in Targets |-> "pending"]]
    /\ active = {}
    /\ wk = [w \in Workers |-> Idle]
    /\ kill = FALSE
    /\ faults = 0

-----------------------------------------------------------------------------
\* One more disturbance out of the MaxFaults that are explored.
Fault == faults < MaxFaults /\ faults' = faults + 1

(* Founder actions (service.py).  Row locks are taken NOWAIT: an action     *)
(* that meets a worker's guard is refused and changes nothing.              *)

\* Mutant of Unbound: the binding is blanked, not nulled.
BlankedBinding(row) == [row EXCEPT !.camp = "", !.lead = ""]

\* Columns every edit of the mail resets: _INVALIDATED_PROVIDER_BINDING.
Unbound(row) == [row EXCEPT !.camp = Nil, !.lead = Nil]

AsApproved(row) == [row EXCEPT !.status = "approved", !.version = @ + 1]
AsRejected(row) == [Unbound(row) EXCEPT !.status = "rejected", !.version = @ + 1]
AsRendered(row, contract) ==
    [Unbound(row) EXCEPT !.version = @ + 1, !.mail = @ + 1, !.contract = contract]
AsPending(row) == [row EXCEPT !.status = "pending_review"]
AsReserved(row, r) == [Unbound(row) EXCEPT !.req = r, !.mail = @ + 1]

Approve(t) ==
    /\ tgt[t].version < MaxVersion
    /\ tgt[t].status = "pending_review"
    /\ tgt[t].contract = "passed"
    /\ tgt' = [tgt EXCEPT ![t] = AsApproved(@)]
    /\ UNCHANGED <<req, item, queue, ledger, confirmed, provider, wk, kill, faults>>

\* The corrected mail is rendered again; a mail that no longer meets its
\* contract sends the target back to review.  send_request_id is kept.
Correct(t, contract) ==
    /\ tgt[t].version < MaxVersion
    /\ tgt[t].status # "sent"
    /\ tgt' = [tgt EXCEPT ![t] =
          IF contract = "failed" THEN AsPending(AsRendered(@, contract))
                                 ELSE AsRendered(@, contract)]
    /\ UNCHANGED <<req, item, queue, ledger, confirmed, provider, wk, kill, faults>>

Reject(t) ==
    /\ tgt[t].version < MaxVersion
    /\ tgt[t].status \in {"pending_review", "approved"}
    /\ tgt' = [tgt EXCEPT ![t] = AsRejected(@)]
    /\ UNCHANGED <<req, item, queue, ledger, confirmed, provider, wk, kill, faults>>

\* Every target that is not rejected or sent gets a new mail in one
\* transaction; `broken' are those whose new mail fails the contract.
RegeneratePendingMail(broken) ==
    LET open == {t \in Targets : tgt[t].status \in {"pending_review", "approved"}}
    IN  /\ open # {} /\ broken \subseteq open
        /\ \A t \in open : tgt[t].version < MaxVersion
        /\ tgt' = [t \in Targets |->
              IF t \notin open THEN tgt[t]
              ELSE AsRendered(tgt[t], IF t \in broken THEN "failed" ELSE "passed")]
        /\ UNCHANGED <<req, item, queue, ledger, confirmed, provider, wk, kill, faults>>

\* Mutant of ReservedToday: batches that still run count for what they sent.
ReservedTodaySent ==
    SumFunctionOnSet([r \in Requests |-> req[r].sent], Requests)

\* What the day has used: whole batches while they run, acceptances after.
ReservedToday ==
    SumFunctionOnSet([r \in Requests |->
        IF req[r].status \in Live THEN req[r].reserved ELSE req[r].sent], Requests)

NewRequest(n) == [NoRequest EXCEPT !.status = "queued", !.reserved = n]
NewItem(version) == [NoItem EXCEPT !.status = "queued", !.version = version]

\* enqueue_send / reserve_send: all of the batch or none of it.  `order' is
\* the batch in payload order.  The mail is rendered again with a new link.
EnqueueSend(r, order) ==
    LET batch == {order[i] : i \in DOMAIN order}
    IN  /\ req[r].status = "none"
        /\ ~kill
        /\ ReservedToday + Len(order) <= Cap
        /\ \A t \in batch : /\ tgt[t].status = "approved"
                            /\ tgt[t].req = Nil
                            /\ tgt[t].contract = "passed"
        /\ req' = [req EXCEPT ![r] = NewRequest(Len(order))]
        /\ item' = [item EXCEPT ![r] = [t \in Targets |->
              IF t \in batch THEN NewItem(tgt[t].version) ELSE NoItem]]
        /\ queue' = [queue EXCEPT ![r] = order]
        /\ tgt' = [t \in Targets |->
              IF t \in batch THEN AsReserved(tgt[t], r) ELSE tgt[t]]
        /\ UNCHANGED <<ledger, confirmed, provider, wk, kill, faults>>

\* The kill-switch file appears or goes.
ToggleKillSwitch ==
    /\ kill' = ~kill
    /\ IF kill THEN UNCHANGED faults ELSE Fault
    /\ UNCHANGED <<rows, provider, wk>>

\* Instantly finishes verifying an imported lead.
ProviderVerifies(r, t, v) ==
    /\ leads[r][t] > 0
    /\ verdict[r][t] = "pending"
    /\ verdict' = [verdict EXCEPT ![r][t] = v]
    /\ UNCHANGED <<rows, campaigns, leads, mails, active, wk, kill, faults>>

-----------------------------------------------------------------------------
(* The worker (worker.py).  One claim at a time; `wk[w].pc' is the guard or  *)
(* read the process reaches next.                                           *)

\* _counts: the status of a request whose items are `its', Nil until the
\* last one is terminal.
FinalStatus(its) ==
    LET has(s) == \E t \in Targets : its[t].status = s
    IN  IF \E t \in Targets : its[t].status \notin Terminal \cup {"none"} THEN Nil
        ELSE IF ~has("failed") THEN "completed"
        ELSE IF has("sent") THEN "partial" ELSE "failed"

\* _release_with_counts: give the lease back with fresh counters.
Released(row, its, status) ==
    [row EXCEPT !.status = status, !.lease = Nil, !.live = FALSE,
                !.sent = Cardinality({t \in Targets : its[t].status = "sent"})]

Claimed(row, w) == [row EXCEPT !.status = "running", !.lease = w, !.live = TRUE]
Renewed(row, camp) == [row EXCEPT !.live = TRUE, !.camp = camp]
Settled(it, status, lead, cause) ==
    [it EXCEPT !.status = status, !.lead = lead, !.cause = cause]

Reclaimable(r) ==
    \/ req[r].status \in {"queued", "waiting"}
    \/ req[r].status = "running" /\ ~req[r].live

\* Mutant of Due: no carrier retries a failed activation.
DueWithoutCarrier(r, t) ==
    \/ item[r][t].status \in {"queued", "verification_pending"}
    \/ item[r][t].status = "running" /\ req[r].status = "running" /\ ~req[r].live

\* A terminal item is due only as the carrier of a late activation.
Due(r, t) ==
    \/ item[r][t].status \in {"queued", "verification_pending"}
    \/ item[r][t].status = "running" /\ req[r].status = "running" /\ ~req[r].live
    \/ item[r][t].status \in Terminal /\ FinalStatus(item[r]) # Nil

\* Mutant of FirstDue: the candidate query has no ORDER BY.
AnyDue(r, t) == Due(r, t)

\* The candidate query orders by next_attempt_at, then position.
FirstDue(r, t) ==
    \E i \in DOMAIN queue[r] :
        /\ queue[r][i] = t /\ Due(r, t)
        /\ \A j \in DOMAIN queue[r] : Due(r, queue[r][j]) => i <= j

NewClaim(r, t) == [Idle EXCEPT !.pc = "process", !.req = r, !.tgt = t]

Claim(w, r) ==
    /\ wk[w].pc = "idle"
    /\ Reclaimable(r)
    /\ \E t \in Targets :
          /\ FirstDue(r, t)
          /\ req' = [req EXCEPT ![r] = Claimed(@, w)]
          /\ item' = [item EXCEPT ![r][t] =
                IF @.status \in Terminal THEN @
                ELSE Settled(@, "running", @.lead, @.cause)]
          /\ wk' = [wk EXCEPT ![w] = NewClaim(r, t)]
    /\ UNCHANGED <<tgt, queue, ledger, confirmed, provider, kill, faults>>

-----------------------------------------------------------------------------
\* _mutation_guard: the claim still owns the running request and its item.
Guarded(w) ==
    LET r == wk[w].req
        t == wk[w].tgt
    IN  /\ req[r].status = "running" /\ req[r].lease = w
        /\ item[r][t].status \in {"running"} \cup Terminal

\* Mutant of CheckTarget: the row version is not compared.
CheckTargetStatusOnly(r, t) ==
    LET row == tgt[t]
        it  == item[r][t]
    IN  CASE it.status \in Terminal -> "ok"
          [] it.status = "running" /\ row.status = "sent" -> "already_sent"
          [] it.status = "running" /\ row.status # "sent"
             /\ (row.status # "approved" \/ row.req # r) -> "target_changed"
          [] OTHER -> "ok"

\* _check_target, run by every guard: does the target still stand as it was
\* reserved, and do the local bindings agree?
CheckTarget(r, t) ==
    LET row == tgt[t]
        it  == item[r][t]
    IN  CASE it.status \in Terminal -> "ok"
          [] it.status = "running" /\ row.status = "sent" -> "already_sent"
          [] it.status = "running" /\ row.status # "sent"
             /\ (\/ row.status # "approved" \/ row.req # r
                 \/ row.version # it.version) -> "target_changed"
          [] OTHER ->
             IF \/ it.lead # Nil /\ row.lead # Nil /\ it.lead # row.lead
                \/ row.lead # Nil /\ row.camp = Nil
                \/ req[r].camp # Nil /\ row.camp # Nil /\ req[r].camp # row.camp
             THEN "binding_conflict" ELSE "ok"

\* Worker w stands at a guard, the guard opens and the target stands.
At(w, pc) ==
    /\ wk[w].pc = pc
    /\ Guarded(w)
    /\ CheckTarget(wk[w].req, wk[w].tgt) = "ok"

GuardPoints == {"process", "campaign", "lead", "verify", "declare",
                "accepted", "failed", "pending", "errored", "finalize"}

GoneTo(c, pc) == [c EXCEPT !.pc = pc]
Goto(w, pc) == wk' = [wk EXCEPT ![w] = GoneTo(@, pc)]
Return(w) == wk' = [wk EXCEPT ![w] = Idle]
RenewedLease(r) == [req EXCEPT ![r] = Renewed(@, @.camp)]

\* The guard finds another owner: the process drops its claim ("lost").
Lost(w) ==
    /\ wk[w].pc \in GuardPoints
    /\ ~Guarded(w)
    /\ Return(w)
    /\ UNCHANGED <<rows, provider, kill, faults>>

\* Mutant of Exposed: a declared import without an answer is not evidence.
ExposedByRecord(r, t) == req[r].camp # Nil /\ item[r][t].lead # Nil

\* An import that may have reached the provider: a recorded lead, or a
\* declared attempt whose answer never came.
Exposed(r, t) == req[r].camp # Nil /\ (item[r][t].lead # Nil \/ ledger[r][t] > 0)

Freed(row) == [row EXCEPT !.req = Nil]
Blocked(row, held) == [row EXCEPT !.blocked = held]

\* Mutant of RejectChangedTarget: the reservation is freed, the item is not
\* settled.
FreeChangedTarget(w) ==
    LET r == wk[w].req
        t == wk[w].tgt
        its == [item[r] EXCEPT ![t] = Settled(@, "queued", @.lead, @.cause)]
    IN  /\ item' = [item EXCEPT ![r] = its]
        /\ tgt' = [tgt EXCEPT ![t] = Freed(@)]
        /\ req' = [req EXCEPT ![r] = Released(@, its, "waiting")]
        /\ Return(w)
        /\ UNCHANGED <<queue, ledger, confirmed, provider, kill, faults>>

\* _reject_changed_target: fail the item, free the target, and hold the
\* campaign for good if the cancelled mail may already sit in it.
RejectChangedTarget(w) ==
    LET r == wk[w].req
        t == wk[w].tgt
        its == [item[r] EXCEPT ![t] = Settled(@, "failed", @.lead, "changed")]
        held == req[r].blocked \/ Exposed(r, t)
        final == FinalStatus(its)
        activationDue == /\ \E u \in Targets : its[u].status = "sent"
                         /\ req[r].camp # Nil /\ ~req[r].activated
    IN  /\ item' = [item EXCEPT ![r] = its]
        /\ tgt' = [tgt EXCEPT ![t] =
                      IF @.req = r /\ @.status # "sent" THEN Freed(@) ELSE @]
        /\ req' = [req EXCEPT ![r] = Released(Blocked(@, held), its,
                      IF final = Nil \/ held \/ activationDue
                      THEN "waiting" ELSE final)]
        /\ Return(w)
        /\ UNCHANGED <<queue, ledger, confirmed, provider, kill, faults>>

\* _finish_already_sent: the target was accepted elsewhere.
FinishAlreadySent(w) ==
    LET r == wk[w].req
        t == wk[w].tgt
        its == [item[r] EXCEPT ![t] = Settled(@, "sent",
                   IF tgt[t].lead # Nil THEN tgt[t].lead ELSE @.lead, "none")]
        final == FinalStatus(its)
        activationDue == req[r].camp # Nil /\ ~req[r].activated
    IN  /\ item' = [item EXCEPT ![r] = its]
        /\ req' = [req EXCEPT ![r] = Released(@, its,
                      IF final = Nil \/ activationDue THEN "waiting" ELSE final)]
        /\ Return(w)
        /\ UNCHANGED <<tgt, queue, ledger, confirmed, provider, kill, faults>>

\* Any guard may find that the target no longer stands.
CheckEndsClaim(w) ==
    /\ wk[w].pc \in GuardPoints
    /\ Guarded(w)
    /\ LET check == CheckTarget(wk[w].req, wk[w].tgt)
       IN  /\ check # "ok"
           /\ IF check = "already_sent" THEN FinishAlreadySent(w)
                                        ELSE RejectChangedTarget(w)

\* A later next_attempt_at puts an item behind its siblings.
MovedLast(s, t) ==
    LET p == CHOOSE i \in DOMAIN s : s[i] = t
    IN  [i \in 1..Len(s) |->
            IF i < p THEN s[i] ELSE IF i < Len(s) THEN s[i + 1] ELSE t]

\* Mutant of Wait: a deferred activation reopens its carrier.
WaitReopening(w, status) ==
    LET r == wk[w].req
        t == wk[w].tgt
        its == [item[r] EXCEPT ![t] = Settled(@, status, @.lead, @.cause)]
    IN  /\ item' = [item EXCEPT ![r] = its]
        /\ req' = [req EXCEPT ![r] = Released(@, its, "waiting")]
        /\ queue' = [queue EXCEPT ![r] = MovedLast(@, t)]
        /\ Return(w)
        /\ UNCHANGED <<tgt, ledger, confirmed>>

\* _wait: put the item back with a later next_attempt_at and release.  A
\* terminal item keeps its outcome and only carries the activation retry.
Wait(w, status) ==
    LET r == wk[w].req
        t == wk[w].tgt
        its == [item[r] EXCEPT ![t] = Settled(@,
                   IF @.status \in Terminal THEN @.status ELSE status,
                   IF status = "verification_pending" THEN wk[w].lead ELSE @.lead,
                   @.cause)]
    IN  /\ item' = [item EXCEPT ![r] = its]
        /\ req' = [req EXCEPT ![r] = Released(@, its, "waiting")]
        /\ queue' = [queue EXCEPT ![r] = MovedLast(@, t)]
        /\ Return(w)
        /\ UNCHANGED <<tgt, ledger, confirmed>>

-----------------------------------------------------------------------------
Snapshot(c, pc, camp, lead, mail) ==
    [c EXCEPT !.pc = pc, !.camp = camp, !.lead = lead, !.mail = mail]

\* First guard of _process: refresh the snapshot, adopt bindings the target
\* already carries, and find the next thing to do.
Process(w) ==
    LET r == wk[w].req
        t == wk[w].tgt
        open == item[r][t].status \notin Terminal
        camp == IF req[r].camp # Nil THEN req[r].camp ELSE tgt[t].camp
        lead == IF item[r][t].lead # Nil THEN item[r][t].lead ELSE tgt[t].lead
    IN  /\ At(w, "process")
        /\ req' = [req EXCEPT ![r] = Renewed(@, IF open THEN camp ELSE @.camp)]
        /\ item' = [item EXCEPT ![r][t] =
              Settled(@, @.status, IF open THEN lead ELSE @.lead, @.cause)]
        /\ IF ~open /\ FinalStatus(item[r]) = Nil THEN Return(w)
           ELSE wk' = [wk EXCEPT ![w] = Snapshot(@,
                   IF ~open THEN "finalize"
                   ELSE IF camp = Nil THEN "campaign"
                   ELSE IF lead = Nil THEN "lead" ELSE "verify",
                   camp, lead, tgt[t].mail)]
        /\ UNCHANGED <<tgt, queue, ledger, confirmed, provider, kill, faults>>

\* Mutant of Matches: only leads whose verification succeeded are listed.
VerifiedMatches(r, t) ==
    {u \in Targets : EmailOf[u] = EmailOf[t] /\ leads[r][u] > 0 /\ verdict[r][u] = "valid"}

\* The leads a scan of the request's campaign finds under the target's address.
Matches(r, t) == {u \in Targets : EmailOf[u] = EmailOf[t] /\ leads[r][u] > 0}

\* The three POSTs and the guards that make them.
OperationAt(w) ==
    CASE wk[w].pc = "campaign" -> "create"
      [] wk[w].pc = "lead"     -> wk[w].tgt
      [] wk[w].pc = "finalize" -> "activate"

\* _finalize reaches its provider calls: nothing holds the activation and
\* some item was accepted.
MayActivate(r) ==
    /\ ~req[r].blocked /\ req[r].camp # Nil /\ ~req[r].activated
    /\ FinalStatus(item[r]) \in {"completed", "partial"}

\* The reconciliation read shows that the operation has not happened yet.
Absent(w) ==
    LET r == wk[w].req
    IN  \/ At(w, "campaign") /\ campaigns[r] = 0
        \/ At(w, "lead") /\ Matches(r, wk[w].tgt) = {}
        \/ At(w, "finalize") /\ MayActivate(r) /\ r \notin active

\* No POST while the kill switch is on.
KillSwitchHolds(w) ==
    /\ Absent(w)
    /\ kill
    /\ Wait(w, "queued")
    /\ UNCHANGED <<provider, kill, faults>>

Declaring(c, o) == [c EXCEPT !.pc = "declare", !.op = o]
Permitted(c) == [c EXCEPT !.pc = "process", !.op = Nil, !.permits = @ \cup {c.op}]

\* _require_mutation without a permit rolls the guard back ...
NeedsDeclaration(w) ==
    /\ Absent(w)
    /\ ~kill
    /\ OperationAt(w) \notin wk[w].permits
    /\ wk' = [wk EXCEPT ![w] = Declaring(@, OperationAt(w))]
    /\ UNCHANGED <<rows, provider, kill, faults>>

\* Mutant of DeclareOperation: the permit is granted, the attempt not recorded.
PermitOperation(w) ==
    LET r == wk[w].req
    IN  /\ At(w, "declare")
        /\ req' = RenewedLease(r)
        /\ wk' = [wk EXCEPT ![w] = Permitted(@)]
        /\ UNCHANGED <<tgt, item, queue, ledger, confirmed, provider, kill, faults>>

\* ... and _declare_operation records the attempt before _process restarts.
DeclareOperation(w) ==
    LET r == wk[w].req
        o == wk[w].op
    IN  /\ At(w, "declare")
        /\ ledger' = [ledger EXCEPT ![r][o] = @ + 1]
        /\ req' = RenewedLease(r)
        /\ wk' = [wk EXCEPT ![w] = Permitted(@)]
        /\ UNCHANGED <<tgt, item, queue, confirmed, provider, kill, faults>>

\* What a POST that lands does at the provider.
Lands(w) ==
    LET r == wk[w].req
        t == wk[w].tgt
        is(pc) == wk[w].pc = pc
    IN  /\ campaigns' = [campaigns EXCEPT ![r] = IF is("campaign") THEN @ + 1 ELSE @]
        /\ leads' = [leads EXCEPT ![r][t] = IF is("lead") THEN @ + 1 ELSE @]
        /\ mails' = [mails EXCEPT ![r][t] = IF is("lead") THEN wk[w].mail ELSE @]
        /\ active' = IF is("finalize") THEN active \cup {r} ELSE active
        /\ UNCHANGED verdict

\* Mutant of MayPost: a declared operation is posted whatever the kill switch.
MayPostDeclared(w) == Absent(w) /\ OperationAt(w) \in wk[w].permits

MayPost(w) == Absent(w) /\ ~kill /\ OperationAt(w) \in wk[w].permits

\* The POST is refused, or lands and is answered by an error or a timeout.
PostFails(w) ==
    /\ MayPost(w)
    /\ Lands(w) \/ UNCHANGED provider
    /\ Wait(w, "queued")
    /\ Fault
    /\ UNCHANGED kill

\* The POST lands and the process dies before the guard commits.
PostThenCrash(w) ==
    /\ MayPost(w)
    /\ Lands(w)
    /\ Return(w)
    /\ Fault
    /\ UNCHANGED <<rows, kill>>

BoundTo(row, camp, lead, credits) ==
    [row EXCEPT !.camp = camp, !.lead = lead, !.credits = credits]
Posted(c, pc, camp, lead, o) ==
    [c EXCEPT !.pc = pc, !.camp = camp, !.lead = lead, !.permits = @ \ {o}]

\* _persist_campaign, on a campaign just created or found by its name.
PersistCampaign(w) ==
    LET r == wk[w].req
        t == wk[w].tgt
    IN  /\ req' = [req EXCEPT ![r] = Renewed(@, r)]
        /\ tgt' = [tgt EXCEPT ![t] =
              IF @.req = r THEN BoundTo(@, r, @.lead, @.credits) ELSE @]
        /\ wk' = [wk EXCEPT ![w] = Posted(@,
              IF @.lead = Nil THEN "lead" ELSE "verify", r, @.lead, "create")]
        /\ UNCHANGED <<item, queue, ledger, confirmed, kill, faults>>

CreateCampaign(w) ==
    /\ wk[w].pc = "campaign"
    /\ MayPost(w)
    /\ Lands(w)
    /\ PersistCampaign(w)

FindCampaign(w) ==
    /\ At(w, "campaign")
    /\ campaigns[wk[w].req] = 1
    /\ PersistCampaign(w)
    /\ UNCHANGED provider

\* _persist_lead and _confirm_import: bind the lead to item and target, and
\* book the credit of a declared import once.
PersistLead(w, lead) ==
    LET r == wk[w].req
        t == wk[w].tgt
        credited == ledger[r][t] > 0 /\ t \notin confirmed[r]
        mine == tgt[t].req = r
    IN  /\ item' = [item EXCEPT ![r][t] = Settled(@, @.status, lead, @.cause)]
        /\ tgt' = [tgt EXCEPT ![t] = BoundTo(@,
              IF mine THEN wk[w].camp ELSE @.camp,
              IF mine THEN lead ELSE @.lead,
              IF credited THEN @.credits + 1 ELSE @.credits)]
        /\ confirmed' = [confirmed EXCEPT ![r] = IF credited THEN @ \cup {t} ELSE @]
        /\ req' = RenewedLease(r)
        /\ wk' = [wk EXCEPT ![w] = Posted(@, "verify", @.camp, lead, t)]
        /\ UNCHANGED <<queue, ledger, kill, faults>>

ImportLead(w) ==
    /\ wk[w].pc = "lead"
    /\ MayPost(w)
    /\ Lands(w)
    /\ PersistLead(w, [camp |-> wk[w].req, tgt |-> wk[w].tgt])

FindLead(w) ==
    /\ At(w, "lead")
    /\ \E u \in Targets :
          /\ Matches(wk[w].req, wk[w].tgt) = {u}
          /\ leads[wk[w].req][u] = 1
          /\ PersistLead(w, [camp |-> wk[w].req, tgt |-> u])
    /\ UNCHANGED provider

\* A scan that fails, or that finds several campaigns or leads, is never
\* guessed around: ReconciliationRequired, then a durable retry.
ReconciliationRequired(w) ==
    LET r == wk[w].req
        ambiguous ==
            \/ At(w, "campaign") /\ campaigns[r] > 1
            \/ At(w, "lead") /\ \E u \in Matches(r, wk[w].tgt) :
                   leads[r][u] > 1 \/ Matches(r, wk[w].tgt) # {u}
    IN  /\ \/ ambiguous /\ UNCHANGED faults
           \/ /\ \/ At(w, "campaign") \/ At(w, "lead")
                 \/ At(w, "finalize") /\ MayActivate(r)
              /\ Fault
        /\ Wait(w, "queued")
        /\ UNCHANGED <<provider, kill>>

-----------------------------------------------------------------------------
\* The guard that declares the verification read ...
Verify(w) ==
    /\ At(w, "verify")
    /\ req' = RenewedLease(wk[w].req)
    /\ Goto(w, "get")
    /\ UNCHANGED <<tgt, item, queue, ledger, confirmed, provider, kill, faults>>

\* ... and the read itself, made with no row locked.
GetVerification(w) ==
    /\ wk[w].pc = "get"
    /\ \/ /\ Goto(w, CASE verdict[wk[w].lead.camp][wk[w].lead.tgt] = "valid" -> "accepted"
                       [] verdict[wk[w].lead.camp][wk[w].lead.tgt] = "invalid" -> "failed"
                       [] OTHER -> "pending")
          /\ UNCHANGED faults
       \/ Goto(w, "errored") /\ Fault
    /\ UNCHANGED <<rows, provider, kill>>

VerificationPending(w) ==
    /\ At(w, "pending")
    /\ Wait(w, "verification_pending")
    /\ UNCHANGED <<provider, kill, faults>>

VerificationErrored(w) ==
    /\ At(w, "errored")
    /\ Wait(w, "queued")
    /\ UNCHANGED <<provider, kill, faults>>

\* The common tail of _accepted and _failed: go on to _finalize under the
\* same lease after the last item, release the request otherwise.
Settle(w, its) ==
    LET r == wk[w].req
    IN  /\ item' = [item EXCEPT ![r] = its]
        /\ IF FinalStatus(its) = Nil
           THEN /\ req' = [req EXCEPT ![r] = Released(@, its, "waiting")]
                /\ Return(w)
           ELSE /\ req' = RenewedLease(r)
                /\ Goto(w, "finalize")
        /\ UNCHANGED <<queue, ledger, confirmed, provider, kill, faults>>

\* The target row after an outcome: version and binding move with it.
Outcome(row, status, r, camp, lead) ==
    [row EXCEPT !.status = status, !.version = @ + 1, !.req = r,
                !.camp = camp, !.lead = lead]

\* Mutant of Accepted: the acceptance frees the target like a failure does.
AcceptedAndFreed(w) ==
    LET r == wk[w].req
        t == wk[w].tgt
    IN  /\ At(w, "accepted")
        /\ tgt' = [tgt EXCEPT ![t] = Outcome(@, "approved", Nil, @.camp, @.lead)]
        /\ Settle(w, [item[r] EXCEPT ![t] = Settled(@, "sent", wk[w].lead, "none")])

Accepted(w) ==
    LET r == wk[w].req
        t == wk[w].tgt
    IN  /\ At(w, "accepted")
        /\ tgt' = [tgt EXCEPT ![t] =
              IF @.req # r THEN @
              ELSE Outcome(@, "sent", @.req, wk[w].camp, wk[w].lead)]
        /\ Settle(w, [item[r] EXCEPT ![t] = Settled(@, "sent", wk[w].lead, "none")])

Failed(w) ==
    LET r == wk[w].req
        t == wk[w].tgt
    IN  /\ At(w, "failed")
        /\ tgt' = [tgt EXCEPT ![t] =
              IF @.req # r THEN @
              ELSE Outcome(@, "approved", Nil, wk[w].camp, wk[w].lead)]
        /\ Settle(w, [item[r] EXCEPT ![t] = Settled(@, "failed", wk[w].lead, "invalid")])

\* _finalize while a cancelled lead may sit in the campaign, or without one.
ActivationHeld(w) ==
    LET r == wk[w].req
    IN  /\ At(w, "finalize")
        /\ \/ req[r].blocked
           \/ /\ FinalStatus(item[r]) # "failed"
              /\ ~req[r].activated /\ req[r].camp = Nil
        /\ Wait(w, "queued")
        /\ UNCHANGED <<provider, kill, faults>>

Activated(row, b) == [row EXCEPT !.activated = b]

\* _finalize once nothing remains to activate: the request ends.
EndRequest(w, activated) ==
    LET r == wk[w].req
    IN  /\ req' = [req EXCEPT ![r] = Released(Activated(@, activated), item[r],
                                             FinalStatus(item[r]))]
        /\ Return(w)
        /\ UNCHANGED <<tgt, item, queue, ledger, confirmed, kill, faults>>

Activate(w) ==
    /\ wk[w].pc = "finalize"
    /\ MayPost(w)
    /\ Lands(w)
    /\ EndRequest(w, TRUE)

FinalizeWithoutPost(w) ==
    LET r == wk[w].req
    IN  /\ At(w, "finalize")
        /\ ~req[r].blocked
        /\ \/ FinalStatus(item[r]) = "failed" /\ EndRequest(w, req[r].activated)
           \/ /\ FinalStatus(item[r]) \in {"completed", "partial"}
              /\ req[r].activated \/ (req[r].camp # Nil /\ r \in active)
              /\ EndRequest(w, TRUE)
        /\ UNCHANGED provider

-----------------------------------------------------------------------------
\* The process is killed; its claim is forgotten, its lease stays.
Crash(w) ==
    /\ wk[w].pc # "idle"
    /\ Return(w)
    /\ Fault
    /\ UNCHANGED <<rows, provider, kill>>

Expired(row) == [row EXCEPT !.live = FALSE]

\* lease_expires_at passes.  It is a fault while the claimant still runs.
LeaseExpires(r) ==
    /\ req[r].live
    /\ IF \E w \in Workers : req[r].lease = w /\ wk[w].req = r
       THEN Fault ELSE UNCHANGED faults
    /\ req' = [req EXCEPT ![r] = Expired(@)]
    /\ UNCHANGED <<tgt, item, queue, ledger, confirmed, provider, wk, kill>>

WorkerStep(w) ==
    \/ Lost(w) \/ CheckEndsClaim(w) \/ Process(w)
    \/ KillSwitchHolds(w) \/ NeedsDeclaration(w) \/ DeclareOperation(w)
    \/ PostFails(w) \/ ReconciliationRequired(w)
    \/ CreateCampaign(w) \/ FindCampaign(w)
    \/ ImportLead(w) \/ FindLead(w)
    \/ Verify(w) \/ GetVerification(w)
    \/ VerificationPending(w) \/ VerificationErrored(w)
    \/ Accepted(w) \/ Failed(w)
    \/ ActivationHeld(w) \/ Activate(w) \/ FinalizeWithoutPost(w)

Batches == {s \in UNION {[1..n -> Targets] : n \in 1..Cardinality(Targets)} :
               \A i, j \in DOMAIN s : s[i] = s[j] => i = j}

FounderStep ==
    \/ \E t \in Targets : \/ Approve(t) \/ Reject(t)
                          \/ \E c \in {"passed", "failed"} : Correct(t, c)
    \/ \E broken \in SUBSET Targets : RegeneratePendingMail(broken)
    \/ \E r \in Requests, order \in Batches : EnqueueSend(r, order)
    \/ ToggleKillSwitch

Next ==
    \/ FounderStep
    \/ \E r \in Requests, t \in Targets, v \in {"valid", "invalid"} :
          ProviderVerifies(r, t, v)
    \/ \E w \in Workers, r \in Requests : Claim(w, r)
    \/ \E w \in Workers : WorkerStep(w) \/ PostThenCrash(w) \/ Crash(w)
    \/ \E r \in Requests : LeaseExpires(r)

Spec == Init /\ [][Next]_vars

\* The systemd timer keeps starting workers, the candidate query is ordered by
\* next_attempt_at (so no due request is passed over for ever), a started
\* worker runs on, leases run out, and Instantly ends each verification.
Fairness ==
    /\ \A w \in Workers : WF_vars(WorkerStep(w))
    /\ \A r \in Requests : SF_vars(\E w \in Workers : Claim(w, r))
    /\ \A r \in Requests : WF_vars(LeaseExpires(r))
    /\ \A r \in Requests, t \in Targets :
          WF_vars(\E v \in {"valid", "invalid"} : ProviderVerifies(r, t, v))

FairSpec == Spec /\ Fairness

-----------------------------------------------------------------------------
(* Properties                                                               *)

TargetRow ==
    [status : {"pending_review", "approved", "rejected", "sent"}, version : Nat,
     req : Requests \cup {Nil}, camp : Requests \cup {Nil}, lead : Lead \cup {Nil},
     mail : Nat, contract : {"passed", "failed"}, credits : Nat]
RequestRow ==
    [status : {"none"} \cup Live \cup Ended, camp : Requests \cup {Nil},
     lease : Workers \cup {Nil}, live : BOOLEAN, blocked : BOOLEAN,
     activated : BOOLEAN, reserved : Nat, sent : Nat]
ItemRow ==
    [status : {"none", "queued", "running", "verification_pending"} \cup Terminal,
     version : Nat, lead : Lead \cup {Nil}, cause : {"none", "changed", "invalid"}]

\* A claim names a request and a target; it has a lead once verification is
\* in reach, and an operation while one is to be declared.
Verifying == {"verify", "get", "accepted", "failed", "pending", "errored"}
ClaimRow ==
    {c \in [pc : GuardPoints \cup {"get"}, req : Requests, tgt : Targets,
            camp : Requests \cup {Nil}, lead : Lead \cup {Nil}, mail : Nat,
            op : Operations \cup {Nil}, permits : SUBSET Operations] :
        /\ c.pc \in Verifying => c.lead \in Lead
        /\ c.pc = "declare" => c.op \in Operations}

\* Every row and every claim is well formed; a claim past its import has a
\* lead to verify.
TypeOK ==
    /\ tgt \in [Targets -> TargetRow]
    /\ req \in [Requests -> RequestRow]
    /\ item \in [Requests -> [Targets -> ItemRow]]
    /\ queue \in [Requests -> Seq(Targets)]
    /\ ledger \in [Requests -> [Operations -> Nat]]
    /\ confirmed \in [Requests -> SUBSET Targets]
    /\ campaigns \in [Requests -> Nat]
    /\ leads \in [Requests -> [Targets -> Nat]]
    /\ mails \in [Requests -> [Targets -> Nat]]
    /\ verdict \in [Requests -> [Targets -> {"pending", "valid", "invalid"}]]
    /\ active \in SUBSET Requests
    /\ wk \in [Workers -> {Idle} \cup ClaimRow]
    /\ kill \in BOOLEAN
    /\ faults \in Nat

\* Instantly has no idempotency key: whatever crashes, timeouts, expired
\* leases and retries happen, a request creates one campaign and imports
\* each of its targets at most once.
NoDuplicateAtProvider ==
    \A r \in Requests : /\ campaigns[r] <= 1
                         /\ \A t \in Targets : leads[r][t] <= 1

\* An item is `running' only while its request is, and never two at once: the
\* candidate query could not find it again otherwise (it is due only through
\* the expired lease of a running request).
NoStrandedItem ==
    \A r \in Requests, t \in Targets :
        item[r][t].status = "running" =>
            /\ req[r].status = "running"
            /\ \A u \in Targets : item[r][u].status = "running" => u = t

\* A target is held by exactly the request that still has to settle it.
ReservationHeld ==
    \A r \in Requests, t \in Targets :
        item[r][t].status \in {"queued", "running", "verification_pending"} =>
            tgt[t].req = r /\ tgt[t].status # "sent"

\* What a sending campaign contains: leads of accepted items, or leads the
\* provider itself refused.  A mail its founder corrected, rejected or
\* regenerated never goes out, even when the import had already landed.
ActiveOnlyResolved ==
    \A r \in active, t \in Targets :
        leads[r][t] > 0 =>
            \/ item[r][t].status = "sent"
            \/ item[r][t].status = "failed" /\ item[r][t].cause = "invalid"

\* The process whose lease the request carries.
Owner(w) ==
    /\ wk[w].pc # "idle"
    /\ req[wk[w].req].status = "running" /\ req[wk[w].req].lease = w

\* What the owner's position in the code says of the rows it holds: before an
\* outcome its item is still running, an import is only declared or made in a
\* recorded campaign, and every permit was declared.
ClaimStands(w) ==
    LET c == wk[w]
        importing == c.pc = "lead" \/ (c.pc = "declare" /\ c.op = c.tgt)
    IN  /\ \A o \in c.permits : ledger[c.req][o] > 0
        /\ c.pc = "declare" => c.op \in {"create", "activate", c.tgt}
        /\ Owner(w) /\ (importing \/ c.pc = "campaign" \/ c.pc \in Verifying) =>
              item[c.req][c.tgt].status = "running"
        /\ Owner(w) /\ importing => req[c.req].camp # Nil

\* What the rows say of the provider: a lead was declared, a declared lead has
\* a campaign and an item, a cancelled one holds the campaign, and a sending
\* campaign has nothing left to settle.
RequestStands(r) ==
    /\ \A t \in Targets : leads[r][t] > 0 => ledger[r][t] > 0
    /\ \A t \in Targets : ledger[r][t] > 0 =>
          /\ req[r].camp # Nil
          /\ item[r][t].status # "none"
          /\ item[r][t].status = "failed" /\ item[r][t].cause # "invalid" => req[r].blocked
    /\ req[r].status = "none" => \A t \in Targets : item[r][t].status = "none"
    /\ r \in active => /\ req[r].status # "none" /\ ~req[r].blocked
                       /\ \A t \in Targets : item[r][t].status \in Terminal \cup {"none"}

\* Claims, rows and provider agree wherever crashes, expired leases and edits
\* cut the worker short.
SendStands ==
    /\ \A w \in Workers : ClaimStands(w)
    /\ \A r \in Requests : RequestStands(r)

\* The mail that an accepted target's lead carries is the one the console
\* shows, and the lead is its own.
SentMailIsCurrent ==
    \A r \in Requests, t \in Targets :
        item[r][t].status = "sent" =>
            /\ tgt[t].status = "sent"
            /\ leads[r][t] = 1 /\ verdict[r][t] = "valid"
            /\ mails[r][t] = tgt[t].mail

\* No prospect is mailed twice, by one request or by two.
MailedOnce ==
    \A t \in Targets :
        Cardinality({r \in active : leads[r][t] > 0 /\ verdict[r][t] = "valid"}) <= 1

\* Whatever runs at once, is given back or fails, the day's acceptances stay
\* within the daily cap.
CapKept ==
    Cardinality({p \in Requests \X Targets : item[p[1]][p[2]].status = "sent"}) <= Cap

\* Nothing reaches the provider that the ledger did not announce, and a
\* target is charged for no more imports than landed.
LedgerCoversProvider ==
    \A r \in Requests :
        /\ campaigns[r] <= ledger[r]["create"]
        /\ r \in active => ledger[r]["activate"] > 0
        /\ \A t \in Targets : leads[r][t] <= ledger[r][t]
        /\ \A t \in confirmed[r] : leads[r][t] > 0

\* An outcome is final: a terminal item keeps it and a sent target stays sent.
OutcomesAreFinal ==
    [][/\ \A r \in Requests, t \in Targets :
             item[r][t].status \in Terminal =>
                 item'[r][t].status = item[r][t].status
       /\ \A t \in Targets : tgt[t].status = "sent" => tgt'[t].status = "sent"
       /\ \A r \in Requests :
             req[r].status \in Ended => req'[r] = req[r]]_vars

\* No campaign, lead or activation is posted while the kill switch is on.
KillSwitchStopsPosts ==
    [][kill => UNCHANGED <<campaigns, leads, active>>]_vars

\* Once the kill switch stays off, every reserved batch settles: each item
\* reaches an outcome, and the request ends unless a cancelled lead holds its
\* campaign.
SendSettles ==
    <>[]~kill =>
        \A r \in Requests :
            req[r].status = "queued" ~>
                /\ FinalStatus(item[r]) # Nil
                /\ req[r].status \in Ended \/ req[r].blocked

=============================================================================
