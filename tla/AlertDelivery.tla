---------------------------- MODULE AlertDelivery ----------------------------
(***************************************************************************)
(* The transactional alert job of src/signals/alerts: the cross-process    *)
(* job lease (lease.py), the cycle over the accounts (job.py) and the      *)
(* durable batches with their attempts, leases and retries (delivery.py).  *)
(*                                                                         *)
(* A cycle reads an account, decides in the same transaction and, when     *)
(* there is something to send, commits the attempt, submits the mail with  *)
(* no transaction open and records the result in a second one.  Cycles may *)
(* overlap: the job lease is taken once, never renewed, and nothing but    *)
(* the rows themselves stops a cycle that has outlived it.                 *)
(*                                                                         *)
(* Time is abstracted to what the code asks of it: whether a lease or a    *)
(* backoff is over (`due') and whether an account's interval since its     *)
(* last digest has elapsed.  Either may happen at any moment, so whatever  *)
(* holds here holds for every `now', lease length, backoff and cadence.    *)
(***************************************************************************)
EXTENDS Naturals, FiniteSets, FiniteSetsExt

CONSTANTS
    NAccounts,    \* accounts are visited in order 1..NAccounts
    Signals,      \* signal keys
    Cycles,       \* job processes
    Contexts,     \* recipient contexts: what the fingerprint hashes
    Nil,          \* SQL NULL
    MaxSignals,   \* signals per mail (10 in the code, 1 for a discovery plan)
    MaxAttempts,  \* attempts per batch (5 by default)
    MaxChanges,   \* bound: changes of plan, preferences and signals
    MaxFaults,    \* bound: crashes, SMTP and database errors, outrun leases
    MaxDisturbances \* bound: changes and faults together

ASSUME ConstantsAssumption ==
    /\ NAccounts \in Nat \ {0}
    /\ IsFiniteSet(Signals) /\ IsFiniteSet(Cycles)
    /\ Nil \notin Cycles \cup Contexts /\ Contexts # {}
    /\ MaxAttempts \in Nat \ {0} /\ MaxSignals \in Nat \ {0}
    /\ MaxChanges \in Nat /\ MaxFaults \in Nat /\ MaxDisturbances \in Nat

VARIABLES
    acct,     \* what the job reads of an account
    row,      \* signal_alert_delivery rows, by account and signal
    digests,  \* mails recorded as sent since the account's interval elapsed
    job,      \* the signal_alert_job_lease row
    cy,       \* job processes: position in the code and what they read
    copies,   \* copies of a signal that reached the customer's mail server
    url,      \* public_app_url is configured
    changes,  \* changes so far
    faults    \* faults so far

env == <<acct, url, changes>>
vars == <<acct, row, digests, job, cy, copies, url, changes, faults>>

-----------------------------------------------------------------------------
Accounts == 1..NAccounts

\* The batch key and the Message-ID are hashes of the account and the set of
\* signals: the set stands for both, and the empty set for NULL.
NoRow == [status |-> "none", batch |-> {}, ctx |-> Nil, attempts |-> 0,
          retry |-> FALSE, due |-> FALSE, refused |-> FALSE]

QueuedRow(batch, ctx) == [NoRow EXCEPT !.status = "queued", !.batch = batch, !.ctx = ctx]

\* Rows older releases left: queued without a batch, or in a batch without a
\* recipient context.
LegacyRows(s) == {NoRow, QueuedRow({}, Nil), QueuedRow({s}, Nil)}

Idle == [pc |-> "idle", acct |-> 0, entitled |-> FALSE, notify |-> FALSE, ctx |-> Nil,
         keys |-> {}, batch |-> {}, bctx |-> Nil, attempts |-> 0, status |-> "none"]

Init ==
    /\ acct \in [Accounts -> [entitled : {TRUE}, notify : {TRUE}, ctx : Contexts,
                              open : SUBSET Signals]]
    /\ row \in {r \in [Accounts -> [Signals -> UNION {LegacyRows(s) : s \in Signals}]] :
                   \A a \in Accounts, s \in Signals : r[a][s] \in LegacyRows(s)}
    /\ digests = [a \in Accounts |-> 0]
    /\ job = [owner |-> Nil, live |-> FALSE]
    /\ cy = [c \in Cycles |-> Idle]
    /\ copies = [a \in Accounts |-> [s \in Signals |-> 0]]
    /\ url = TRUE
    /\ changes = 0
    /\ faults = 0

Undisturbed == faults + changes < MaxDisturbances
Fault == faults < MaxFaults /\ Undisturbed /\ faults' = faults + 1
Change == changes < MaxChanges /\ Undisturbed /\ changes' = changes + 1

-----------------------------------------------------------------------------
(* The world around the job.                                                *)

\* The plan or the preferences change.  Switching notifications touches the
\* preference's version, and with it the context.
ChangeAccount(a, entitled, notify, ctx) ==
    /\ Change
    /\ notify # acct[a].notify => ctx # acct[a].ctx
    /\ acct' = [acct EXCEPT ![a] =
          [@ EXCEPT !.entitled = entitled, !.notify = notify, !.ctx = ctx]]
    /\ UNCHANGED <<row, digests, job, cy, copies, url, faults>>

\* A signal enters the account's feed, or leaves it.
ToggleSignal(a, s) ==
    /\ Change
    /\ acct' = [acct EXCEPT ![a].open = (@ \ {s}) \cup ({s} \ @)]
    /\ UNCHANGED <<row, digests, job, cy, copies, url, faults>>

\* The service is deployed without its public URL, or with it again.
ToggleUrl ==
    /\ url' = ~url
    /\ IF url THEN Change ELSE UNCHANGED changes
    /\ UNCHANGED <<acct, row, digests, job, cy, copies, faults>>

\* The minimum interval of the cadence has passed since the last digest.
IntervalElapses(a) ==
    /\ digests[a] > 0
    /\ digests' = [digests EXCEPT ![a] = 0]
    /\ UNCHANGED <<env, row, job, cy, copies, faults>>

Timed(x) ==
    /\ ~x.due
    /\ x.status = "sending" \/ (x.status \in {"failed", "unknown"} /\ x.retry)

\* c has an attempt of account a under way.
InFlight(c, a) == cy[c].acct = a /\ cy[c].pc \notin {"idle", "read", "decide", "release"}

\* lease_expires_at or next_attempt_at of a batch passes.  It is a fault while
\* the cycle that took the lease still runs.
BatchComesDue(a, s) ==
    LET x == row[a][s]
    IN  /\ Timed(x)
        /\ IF x.status = "sending" /\ \E c \in Cycles : InFlight(c, a) /\ s \in cy[c].keys
           THEN Fault ELSE UNCHANGED faults
        /\ row' = [row EXCEPT ![a] = [k \in Signals |->
              IF row[a][k].batch = x.batch /\ Timed(row[a][k])
              THEN [row[a][k] EXCEPT !.due = TRUE] ELSE row[a][k]]]
        /\ UNCHANGED <<env, digests, job, cy, copies>>

JobLeaseExpires ==
    /\ job.live
    /\ IF cy[job.owner].pc # "idle" THEN Fault ELSE UNCHANGED faults
    /\ job' = [job EXCEPT !.live = FALSE]
    /\ UNCHANGED <<env, row, digests, cy, copies>>

-----------------------------------------------------------------------------
(* The cycle (run_alert_cycle).                                             *)

Visiting(a) == [Idle EXCEPT !.pc = "read", !.acct = a]

\* lease.acquire: reclaim an expired lease or insert a new one.
Start(c) ==
    /\ cy[c].pc = "idle"
    /\ ~job.live
    /\ job' = [owner |-> c, live |-> TRUE]
    /\ cy' = [cy EXCEPT ![c] = Visiting(1)]
    /\ UNCHANGED <<env, row, digests, copies, faults>>

\* Mutant of NextAccount: one account too many.
NextAccountPastEnd(c) ==
    cy' = [cy EXCEPT ![c] = IF @.acct <= NAccounts THEN Visiting(@.acct + 1)
                            ELSE [Idle EXCEPT !.pc = "release"]]

NextAccount(c) ==
    cy' = [cy EXCEPT ![c] = IF @.acct < NAccounts THEN Visiting(@.acct + 1)
                            ELSE [Idle EXCEPT !.pc = "release"]]

\* An exception leaves the account loop: `finally' releases the lease.
AbortCycle(c) == cy' = [cy EXCEPT ![c] = [Idle EXCEPT !.pc = "release"]]

\* lease.release: only a lease that is still this invocation's.
Release(c) ==
    /\ cy[c].pc = "release"
    /\ job' = IF job.owner = c THEN [owner |-> Nil, live |-> FALSE] ELSE job
    /\ cy' = [cy EXCEPT ![c] = Idle]
    /\ UNCHANGED <<env, row, digests, copies, faults>>

\* The process dies where it stands.
Crash(c) ==
    /\ cy[c].pc # "idle"
    /\ Fault
    /\ cy' = [cy EXCEPT ![c] = Idle]
    /\ UNCHANGED <<env, row, digests, job, copies>>

-----------------------------------------------------------------------------
(* _run_for_account: the first transaction.                                 *)

\* Mutant of Due: the lease of a dead attempt is never reclaimed.
DueUnlessSending(x) ==
    /\ x.batch # {}
    /\ x.status = "queued" \/ (x.status \in {"failed", "unknown"} /\ x.retry /\ x.due)

\* _due, with the batch key next_due_batch asks for.
Due(x) ==
    /\ x.batch # {}
    /\ \/ x.status = "queued"
       \/ x.status \in {"failed", "unknown"} /\ x.retry /\ x.due
       \/ x.status = "sending" /\ x.due

\* The due rows of the batch that signal s belongs to.
DueWith(a, s) == {k \in Signals : Due(row[a][k]) /\ row[a][k].batch = row[a][s].batch}

\* Rows of one batch that next_due_batch reads as one.
Agree(a, keys) ==
    \A j, k \in keys : row[a][j].status = row[a][k].status /\ row[a][j].ctx = row[a][k].ctx

\* What a cycle that has read batch `keys' of account a carries on.
Snapshot(v, a, keys, k) ==
    [v EXCEPT !.pc = "decide", !.keys = keys,
              !.entitled = acct[a].entitled, !.notify = acct[a].notify, !.ctx = acct[a].ctx,
              !.batch = row[a][k].batch, !.bctx = row[a][k].ctx, !.status = row[a][k].status,
              !.attempts = Max({row[a][j].attempts : j \in keys})]

NoBatch(v, a) ==
    [v EXCEPT !.pc = "decide", !.entitled = acct[a].entitled,
              !.notify = acct[a].notify, !.ctx = acct[a].ctx]

\* billing_state, next_due_batch and preference.  The oldest due batch is
\* taken; which of them is oldest is left open.
Read(c) ==
    LET a == cy[c].acct
    IN  /\ cy[c].pc = "read"
        /\ \/ /\ \A s \in Signals : ~Due(row[a][s])
              /\ cy' = [cy EXCEPT ![c] = NoBatch(@, a)]
           \/ \E s \in Signals :
                /\ Due(row[a][s])
                /\ IF Agree(a, DueWith(a, s))
                   THEN cy' = [cy EXCEPT ![c] = Snapshot(@, a, DueWith(a, s), s)]
                   ELSE AbortCycle(c)
        /\ UNCHANGED <<env, row, digests, job, copies, faults>>

\* _owned_rows: every row of keys is still in the batch and context read.
Owned(c, keys) ==
    \A k \in keys : /\ row[cy[c].acct][k].batch = cy[c].batch
                    /\ row[cy[c].acct][k].ctx = cy[c].bctx

\* A row that no cycle will take up again.
Closed(x, status) == [x EXCEPT !.status = status, !.retry = FALSE, !.due = FALSE]

\* Mutant of Sending: the attempt is counted with its result, not before it.
SendingUncounted(x) == [x EXCEPT !.status = "sending", !.retry = FALSE, !.due = FALSE]

\* mark_sending: the attempt is counted and leased before it is made.
Sending(x) ==
    [x EXCEPT !.status = "sending", !.attempts = @ + 1, !.retry = FALSE, !.due = FALSE]

\* mark_suppressed succeeds on these keys.
MaySuppress(c, keys) ==
    Owned(c, keys) /\ \A k \in keys : row[cy[c].acct][k].status # "sent"

\* Mutant of Withdrawn: the batch is not compared with the current context.
WithdrawnByRights(v) == v.keys # {} /\ (~v.entitled \/ ~v.notify)

\* The batch lost its entitlement, its notifications or its context.
Withdrawn(v) == v.keys # {} /\ (~v.entitled \/ ~v.notify \/ v.bctx # v.ctx)

SuppressBatch(c) ==
    LET v == cy[c]
    IN  /\ v.pc = "decide" /\ Withdrawn(v)
        /\ MaySuppress(c, v.keys)
        /\ row' = [row EXCEPT ![v.acct] = [k \in Signals |->
              IF k \in v.keys THEN Closed(row[v.acct][k], "suppressed") ELSE row[v.acct][k]]]
        /\ NextAccount(c)
        /\ UNCHANGED <<env, digests, job, copies, faults>>

\* eligible_signals: what the feed shows and no batch or history has taken.
Eligible(a) ==
    {s \in acct[a].open : \/ row[a][s].status = "none"
                          \/ row[a][s].status = "queued" /\ row[a][s].batch = {}}

\* has_permanent_recipient_refusal, for the context the cycle read.
RefusedBefore(a, ctx) ==
    \E s \in Signals : LET x == row[a][s]
                       IN  x.ctx = ctx /\ x.status = "failed" /\ ~x.retry /\ x.refused

MayOpenBatch(v) ==
    /\ v.keys = {} /\ v.entitled /\ v.notify
    /\ digests[v.acct] = 0
    /\ ~RefusedBefore(v.acct, v.ctx)

NothingToDo(c) ==
    LET v == cy[c]
    IN  /\ v.pc = "decide" /\ v.keys = {}
        /\ ~MayOpenBatch(v) \/ Eligible(v.acct) = {}
        /\ NextAccount(c)
        /\ UNCHANGED <<env, row, digests, job, copies, faults>>

\* queue_batch, and in the same transaction the first attempt of the batch.
\* `fresh' are the first signals of the feed, up to the plan's limit.
QueueBatch(c, fresh) ==
    LET v == cy[c]
        queued == QueuedRow(fresh, v.ctx)
    IN  /\ v.pc = "decide" /\ MayOpenBatch(v)
        /\ fresh # {} /\ fresh \subseteq Eligible(v.acct)
        /\ Cardinality(fresh) <= MaxSignals
        /\ row' = [row EXCEPT ![v.acct] = [k \in Signals |->
              IF k \notin fresh THEN row[v.acct][k]
              ELSE IF url THEN Sending(queued) ELSE queued]]
        /\ IF url THEN cy' = [cy EXCEPT ![c] = [@ EXCEPT !.pc = "send", !.keys = fresh,
                                 !.batch = fresh, !.bctx = v.ctx, !.attempts = 1]]
                  ELSE NextAccount(c)
        /\ UNCHANGED <<env, digests, job, copies, faults>>

\* A batch that stands, and the signals of it the account may still see.
Retrying(c) == cy[c].pc = "decide" /\ cy[c].keys # {} /\ ~Withdrawn(cy[c])
Left(c) == cy[c].keys \cap acct[cy[c].acct].open
Gone(c) == cy[c].keys \ acct[cy[c].acct].open

Blocked(c) ==
    /\ Retrying(c) /\ ~url
    /\ NextAccount(c)
    /\ UNCHANGED <<env, row, digests, job, copies, faults>>

\* Mutant of WithoutGone: signals that left the feed stay in the batch as they are.
KeepingGone(c) == row[cy[c].acct]

\* The rows once the signals that left the feed are suppressed.
WithoutGone(c) ==
    [k \in Signals |-> IF k \in Gone(c) THEN Closed(row[cy[c].acct][k], "suppressed")
                                        ELSE row[cy[c].acct][k]]

AllGone(c) ==
    /\ Retrying(c) /\ url
    /\ Left(c) = {} /\ MaySuppress(c, Gone(c))
    /\ row' = [row EXCEPT ![cy[c].acct] = WithoutGone(c)]
    /\ NextAccount(c)
    /\ UNCHANGED <<env, digests, job, copies, faults>>

\* mark_attempt_budget_exhausted succeeds on what is left of the batch.
MayExhaust(c) ==
    LET a == cy[c].acct
    IN  /\ cy[c].status # "queued"
        /\ Owned(c, Left(c))
        /\ \A k \in Left(c) : Due(row[a][k]) /\ row[a][k].attempts >= MaxAttempts

Exhaust(c) ==
    LET a == cy[c].acct
        status == IF cy[c].status = "sending" THEN "unknown" ELSE cy[c].status
        kept == WithoutGone(c)
    IN  /\ Retrying(c) /\ url
        /\ Left(c) # {} /\ MaySuppress(c, Gone(c))
        /\ cy[c].attempts >= MaxAttempts /\ MayExhaust(c)
        /\ row' = [row EXCEPT ![a] = [k \in Signals |->
              IF k \in Left(c) THEN [Closed(kept[k], status) EXCEPT
                                        !.refused = @ /\ cy[c].status # "sending"]
                               ELSE kept[k]]]
        /\ NextAccount(c)
        /\ UNCHANGED <<env, digests, job, copies, faults>>

\* mark_sending succeeds on what is left of the batch.
MaySend(c) ==
    LET a == cy[c].acct
    IN  /\ Owned(c, Left(c))
        /\ \A k \in Left(c) : Due(row[a][k]) /\ row[a][k].attempts < MaxAttempts

RetryBatch(c) ==
    LET a == cy[c].acct
        kept == WithoutGone(c)
    IN  /\ Retrying(c) /\ url
        /\ Left(c) # {} /\ MaySuppress(c, Gone(c))
        /\ cy[c].attempts < MaxAttempts /\ MaySend(c)
        /\ row' = [row EXCEPT ![a] = [k \in Signals |->
              IF k \in Left(c) THEN Sending(kept[k]) ELSE kept[k]]]
        /\ cy' = [cy EXCEPT ![c] = [@ EXCEPT !.pc = "send", !.keys = Left(c),
                                             !.attempts = cy[c].attempts + 1]]
        /\ UNCHANGED <<env, digests, job, copies, faults>>

\* DeliveryStateConflict: another cycle moved the rows since they were read.
\* The transaction rolls back and the cycle ends.
StateConflict(c) ==
    /\ cy[c].pc = "decide" /\ cy[c].keys # {}
    /\ IF Withdrawn(cy[c]) THEN ~MaySuppress(c, cy[c].keys)
       ELSE /\ url
            /\ \/ ~MaySuppress(c, Gone(c))
               \/ /\ Left(c) # {}
                  /\ IF cy[c].attempts >= MaxAttempts THEN ~MayExhaust(c) ELSE ~MaySend(c)
    /\ AbortCycle(c)
    /\ UNCHANGED <<env, row, digests, job, copies, faults>>

-----------------------------------------------------------------------------
(* _run_for_account: the submission and the second transaction.             *)

Answered(c, pc) == cy' = [cy EXCEPT ![c] = [@ EXCEPT !.pc = pc]]
Delivered(c) ==
    copies' = [copies EXCEPT ![cy[c].acct] = [k \in Signals |->
        IF k \in cy[c].keys THEN copies[cy[c].acct][k] + 1 ELSE copies[cy[c].acct][k]]]

\* gateway.send: accepted; refused for good by the recipient's server; refused
\* for good otherwise (authentication, TLS, 5xx); refused for now; cut off
\* with the outcome unknown; or an exception the caller does not expect.
SmtpSend(c) ==
    /\ cy[c].pc = "send"
    /\ \/ Answered(c, "accepted") /\ Delivered(c) /\ UNCHANGED faults
       \/ /\ Fault
          /\ \/ \E pc \in {"refused", "rejected", "transient", "uncertain"} :
                   Answered(c, pc) /\ UNCHANGED copies
             \/ Answered(c, "uncertain") /\ Delivered(c)
             \/ AbortCycle(c) /\ UNCHANGED copies
    /\ UNCHANGED <<env, row, digests, job>>

\* mark_sent, mark_failed and mark_unknown apply to rows that are `sending',
\* whichever attempt put them there.
MayRecord(c) ==
    Owned(c, cy[c].keys) /\ \A k \in cy[c].keys : row[cy[c].acct][k].status = "sending"

MarkSent(c) ==
    LET v == cy[c]
    IN  /\ v.pc = "accepted" /\ MayRecord(c)
        /\ row' = [row EXCEPT ![v.acct] = [k \in Signals |->
              IF k \in v.keys THEN [Closed(row[v.acct][k], "sent") EXCEPT !.refused = FALSE]
                              ELSE row[v.acct][k]]]
        /\ digests' = [digests EXCEPT ![v.acct] = @ + 1]
        /\ NextAccount(c)
        /\ UNCHANGED <<env, job, copies, faults>>

\* _mark_unsuccessful
MarkUnsuccessful(c) ==
    LET v == cy[c]
        status == IF v.pc = "uncertain" THEN "unknown" ELSE "failed"
        again == v.pc \in {"transient", "uncertain"} /\ v.attempts < MaxAttempts
    IN  /\ v.pc \in {"refused", "rejected", "transient", "uncertain"} /\ MayRecord(c)
        /\ row' = [row EXCEPT ![v.acct] = [k \in Signals |->
              IF k \in v.keys THEN [Closed(row[v.acct][k], status) EXCEPT
                                       !.retry = again, !.refused = (v.pc = "refused")]
                              ELSE row[v.acct][k]]]
        /\ NextAccount(c)
        /\ UNCHANGED <<env, digests, job, copies, faults>>

\* The result cannot be recorded: the rows moved on, or the database is away.
PersistenceFails(c) ==
    /\ cy[c].pc \in {"accepted", "refused", "rejected", "transient", "uncertain"}
    /\ IF MayRecord(c) THEN Fault ELSE UNCHANGED faults
    /\ NextAccount(c)
    /\ UNCHANGED <<env, row, digests, job, copies>>

CycleStep(c) ==
    \/ Read(c) \/ SuppressBatch(c) \/ NothingToDo(c)
    \/ \E fresh \in SUBSET Signals : QueueBatch(c, fresh)
    \/ Blocked(c) \/ AllGone(c) \/ Exhaust(c) \/ RetryBatch(c) \/ StateConflict(c)
    \/ SmtpSend(c) \/ MarkSent(c) \/ MarkUnsuccessful(c) \/ PersistenceFails(c)
    \/ Release(c)

Next ==
    \/ \E c \in Cycles : Start(c) \/ CycleStep(c) \/ Crash(c)
    \/ \E a \in Accounts : IntervalElapses(a)
    \/ \E a \in Accounts, s \in Signals : ToggleSignal(a, s) \/ BatchComesDue(a, s)
    \/ \E a \in Accounts, e, n \in BOOLEAN, x \in Contexts : ChangeAccount(a, e, n, x)
    \/ JobLeaseExpires \/ ToggleUrl

Spec == Init /\ [][Next]_vars

\* The hourly timer keeps starting the job, a started cycle runs on, leases
\* and backoffs run out.
Fairness ==
    /\ SF_vars(\E c \in Cycles : Start(c))
    /\ \A c \in Cycles : WF_vars(CycleStep(c))
    /\ \A a \in Accounts, s \in Signals : WF_vars(BatchComesDue(a, s))
    /\ WF_vars(JobLeaseExpires)

FairSpec == Spec /\ Fairness

-----------------------------------------------------------------------------
(* Properties                                                               *)

Statuses == {"none", "queued", "sending", "sent", "failed", "unknown", "suppressed"}
Answers == {"accepted", "refused", "rejected", "transient", "uncertain"}

\* Every row, account and process is well formed, and a process past its read
\* carries a batch of its account.
TypeOK ==
    /\ acct \in [Accounts -> [entitled : BOOLEAN, notify : BOOLEAN, ctx : Contexts,
                              open : SUBSET Signals]]
    /\ row \in [Accounts -> [Signals ->
          [status : Statuses, batch : SUBSET Signals, ctx : Contexts \cup {Nil},
           attempts : 0..MaxAttempts, retry : BOOLEAN, due : BOOLEAN, refused : BOOLEAN]]]
    /\ digests \in [Accounts -> Nat]
    /\ job \in [owner : Cycles \cup {Nil}, live : BOOLEAN]
    /\ job.live => job.owner # Nil
    /\ cy \in [Cycles -> [pc : {"idle", "read", "decide", "send", "release"} \cup Answers,
          acct : 0..NAccounts, entitled : BOOLEAN, notify : BOOLEAN,
          ctx : Contexts \cup {Nil}, keys : SUBSET Signals, batch : SUBSET Signals,
          bctx : Contexts \cup {Nil}, attempts : 0..MaxAttempts, status : Statuses]]
    /\ \A c \in Cycles : /\ cy[c].pc \notin {"idle", "release"} => cy[c].acct \in Accounts
                         /\ cy[c].pc \in {"send"} \cup Answers => cy[c].keys # {}
    /\ copies \in [Accounts -> [Signals -> Nat]]
    /\ url \in BOOLEAN /\ changes \in Nat /\ faults \in Nat

\* next_due_batch raises on a batch whose rows disagree, and the accounts that
\* follow in the cycle are then never visited again: whatever overlaps,
\* crashes and suppressions happen, the rows of a batch that are not
\* suppressed agree.
NoPoisonBatch ==
    \A a \in Accounts, j, k \in Signals :
        LET x == row[a][j]
            y == row[a][k]
        IN  x.batch # {} /\ x.batch = y.batch /\ "suppressed" \notin {x.status, y.status} =>
                x = y

\* A mail under way goes to the recipient, plan and preferences its signals
\* were queued for, never to an address or a plan adopted since.
MailedUnderItsContext ==
    \A c \in Cycles :
        cy[c].pc \in {"send"} \cup Answers =>
            \A k \in cy[c].keys : row[cy[c].acct][k].ctx = cy[c].ctx

\* The abstract promise, with a row's status read as a phase.
Phase(x) ==
    CASE x.status = "none" -> "new"
      [] x.status = "sent" -> "sent"
      [] x.status = "suppressed" \/ (x.status \in {"failed", "unknown"} /\ ~x.retry) -> "closed"
      [] OTHER -> "live"

Promise == INSTANCE AlertPromise WITH
    phase <- [a \in Accounts |-> [s \in Signals |-> Phase(row[a][s])]],
    tries <- [a \in Accounts |-> [s \in Signals |-> row[a][s].attempts]]

\* Through crashes, lost answers, overlapping cycles and late results, every
\* signal is tried at most MaxAttempts times, no more copies go out than were
\* tried, and a signal that is sent, suppressed or given up stays so.
KeepsPromise == Promise!Spec

\* Once the public URL stays configured, a queued batch is settled: sent,
\* suppressed, or given up after its attempts.
AlertSettles ==
    <>[]url =>
        \A a \in Accounts, s \in Signals :
            Phase(row[a][s]) = "live" /\ row[a][s].batch # {} ~>
                Phase(row[a][s]) \in {"sent", "closed"}
=============================================================================
