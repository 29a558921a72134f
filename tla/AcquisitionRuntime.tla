------------------------- MODULE AcquisitionRuntime -------------------------
(***************************************************************************)
(* The acquisition runtime (signals/acquisition_runtime): run_once takes   *)
(* the one durable lease, resumes the first unfinished cycle and walks its *)
(* stages.  Each stage is begun, its cost envelope reserved, a proposal    *)
(* bound, the business action executed under the lease row's lock, and its *)
(* result recorded.  A paid stage (suppliers, contact, company) buys one   *)
(* provider run per attempt, with one durable replay when a run was cut    *)
(* short after it was started.  Runs crash, are interrupted, lose their    *)
(* lease and overlap; an operator may abandon a cycle at any moment.       *)
(*                                                                         *)
(* Every run draws a fresh owner reference, so a lease row holds a run's   *)
(* reference exactly when it is held at that run's generation (its token). *)
(* The domain actions report no observed cost, hence spent = reserved.     *)
(***************************************************************************)
EXTENDS Integers, Sequences, FiniteSets, Functions

CONSTANTS
    Nil,            \* no stage, no run
    NKeys,          \* opportunity keys 1..NKeys, in the configured order
    NStages,        \* stages 1..NStages, in the order of the closed list
    Paid,           \* stages that buy a provider run
    Handoff,        \* stages that mutate the provider and need authorization
    CallCost,       \* provider units of one call; the envelope covers two
    MaxCost,        \* maximum_cycle_cost
    Runs,           \* processes that execute run_once, again and again
    MaxGeneration,  \* bound: lease acquisitions
    MaxRunFaults       \* bound: crashes, interrupts and abandonments

ASSUME RuntimeAssumption ==
    /\ NKeys \in Nat \ {0} /\ NStages \in Nat \ {0}
    /\ Paid \subseteq 1..NStages /\ Handoff \subseteq 1..NStages \ Paid
    /\ CallCost \in Nat \ {0} /\ MaxCost \in Nat
    /\ MaxGeneration \in Nat /\ MaxRunFaults \in Nat
    /\ Nil \notin Nat /\ Nil \notin Runs

Keys == 1..NKeys
Stages == 1..NStages

VARIABLES
    lease,      \* acquisition_runtime_lease: held, generation, live (unexpired)
    guard,      \* the run whose open transaction locks the lease row, or Nil
    cycle,      \* acquisition_runtime_cycle, per key
    stage,      \* acquisition_runtime_stage, per key and stage
    attempt,    \* acquisition_runtime_stage_attempt, per key, stage and count
    provider,   \* the provider run of each attempt: status and replays
    truth,      \* the domain already holds the stage's result
    run,        \* the runs under way
    faults,     \* crashes, interrupts and abandonments so far
    calls,      \* history: provider calls made, per key, stage and attempt
    abandoned   \* history: the keys whose cycle an operator abandoned

runtimeVars == <<lease, guard, cycle, stage, attempt, provider, truth, run, faults,
          calls, abandoned>>

Envelope(s) == IF s \in Paid THEN 2 * CallCost ELSE 0

Terminal == {"SUCCEEDED", "SUPPRESSED"}
StageOutcomes == Terminal \union {"WAITING", "BLOCKED", "FAILED"}

\* A result: its status, whether it waits for a later retry_at, and whether
\* the same attempt is to be replayed.
Result(status, later, replay) ==
    [status |-> status, later |-> later, replay |-> replay]
Done == Result("SUCCEEDED", FALSE, FALSE)
Failure == Result("FAILED", FALSE, FALSE)
Blocked == Result("BLOCKED", FALSE, FALSE)
Suppressed == Result("SUPPRESSED", FALSE, FALSE)
Waiting == Result("WAITING", FALSE, FALSE)

Interrupted == Result("WAITING", TRUE, TRUE)

IdleRun == [pc |-> "idle", token |-> 0, auth |-> FALSE, key |-> Nil, at |-> Nil,
         result |-> Failure]

NoRun == [status |-> "NONE", replays |-> 0]
NewStageAttempt == [status |-> "NONE", reserved |-> 0, proposed |-> FALSE]
NewStage == [status |-> "PENDING", due |-> TRUE, replay |-> FALSE]
NewCycle == [status |-> "PENDING", next |-> 1, spent |-> 0]
NoCycle == [status |-> "NONE", next |-> Nil, spent |-> 0]

RuntimeInit ==
    /\ lease = [held |-> FALSE, generation |-> 0, live |-> FALSE]
    /\ guard = Nil
    /\ cycle = [k \in Keys |-> NoCycle]
    /\ stage = [k \in Keys |-> [s \in Stages |-> NewStage]]
    /\ attempt = [k \in Keys |-> [s \in Stages |-> <<>>]]
    /\ provider = [k \in Keys |-> [s \in Stages |-> <<>>]]
    /\ truth = [k \in Keys |-> [s \in Stages |-> FALSE]]
    /\ run = [r \in Runs |-> IdleRun]
    /\ faults = 0
    /\ calls = [k \in Keys |-> [s \in Stages |-> <<>>]]
    /\ abandoned = {}

-----------------------------------------------------------------------------
(* The lease.                                                              *)

\* Mutant of LeaseRowFree: the lease row is read without FOR UPDATE.
ReadUnlocked == TRUE

\* The lease row is locked only by a guarded business action.
LeaseRowFree == guard = Nil

Owns(r) == lease.held /\ lease.generation = run[r].token
Active(r) == Owns(r) /\ lease.live

RunGoto(r, pc) == run' = [run EXCEPT ![r].pc = pc]
FinishWith(r, result) ==
    run' = [run EXCEPT ![r].pc = "finish", ![r].result = result]

AcquireLease(r, auth) ==
    /\ run[r].pc = "idle"
    /\ LeaseRowFree
    /\ lease.generation < MaxGeneration
    /\ ~lease.held \/ ~lease.live
    /\ lease' = [held |-> TRUE, generation |-> lease.generation + 1,
                 live |-> TRUE]
    /\ run' = [run EXCEPT ![r] = [IdleRun EXCEPT !.pc = "started", !.auth = auth,
                                              !.token = lease'.generation]]
    /\ UNCHANGED <<guard, cycle, stage, attempt, provider, truth, faults,
                   calls, abandoned>>

\* A dependency is not ready: the run returns before it touches a cycle.
DependencyNotReady(r) ==
    /\ run[r].pc = "started"
    /\ RunGoto(r, "release")
    /\ UNCHANGED <<lease, guard, cycle, stage, attempt, provider, truth,
                   faults, calls, abandoned>>

\* finally: clear the row if it still names this run.
Release(r) ==
    /\ LeaseRowFree
    /\ lease' = IF Owns(r) THEN [lease EXCEPT !.held = FALSE, !.live = FALSE]
                           ELSE lease
    /\ run' = [run EXCEPT ![r] = IdleRun]

ReleaseLease(r) ==
    /\ run[r].pc = "release"
    /\ Release(r)
    /\ UNCHANGED <<guard, cycle, stage, attempt, provider, truth, faults,
                   calls, abandoned>>

\* The places where a run is about to enter a transaction that requires the
\* active lease.  Without it the transaction raises, the exception handler's
\* own transactions raise again, and only the release is left.
StorePcs == {"started", "stage", "reserve", "propose", "execute", "starting",
             "finish", "stop", "complete"}

LoseLease(r) ==
    /\ run[r].pc \in StorePcs
    /\ ~Active(r)
    /\ Release(r)
    /\ UNCHANGED <<guard, cycle, stage, attempt, provider, truth, faults,
                   calls, abandoned>>

\* A transaction of run r on the lease row.
Transacts(r, pc) == run[r].pc = pc /\ LeaseRowFree /\ Active(r)

-----------------------------------------------------------------------------
(* Cycles.                                                                 *)

Smallest(S) == CHOOSE k \in S : \A j \in S : k <= j

\* The first unfinished cycle in key order, else the first key without one,
\* else the first key's finished cycle.
SelectedKey ==
    LET open == {k \in Keys : cycle[k].status \notin Terminal \union {"NONE"}}
        new == {k \in Keys : cycle[k].status = "NONE"}
    IN  IF open # {} THEN Smallest(open)
        ELSE IF new # {} THEN Smallest(new)
        ELSE 1

\* Mutant of StartAt: an unfinished cycle is walked from its first stage.
StartAtFirst(c) == IF c.next = Nil THEN Nil ELSE 1

StartAt(c) == c.next

ResumeOrCreateCycle(r) ==
    /\ Transacts(r, "started")
    /\ LET k == SelectedKey
           c == IF cycle[k].status = "NONE" THEN NewCycle ELSE cycle[k]
       IN  /\ cycle' = [cycle EXCEPT ![k] = c]
           /\ run' = [run EXCEPT
                  ![r].key = k, ![r].at = StartAt(c),
                  ![r].pc = IF c.next # Nil THEN "stage"
                            ELSE IF c.status \in Terminal THEN "release"
                            ELSE "complete"]
    /\ UNCHANGED <<lease, guard, stage, attempt, provider, truth, faults,
                   calls, abandoned>>

\* finish_cycle: a terminal status clears the next stage, any other keeps it.
FinishCycle(k, status) ==
    cycle' = [cycle EXCEPT ![k].status = status,
                           ![k].next = IF status \in Terminal THEN Nil
                                        ELSE cycle[k].next]

TimeBudgetReached(r) ==
    /\ Transacts(r, "stage")
    /\ FinishCycle(run[r].key, "WAITING")
    /\ RunGoto(r, "release")
    /\ UNCHANGED <<lease, guard, stage, attempt, provider, truth, faults,
                   calls, abandoned>>

StopCycle(r) ==
    /\ Transacts(r, "stop")
    /\ FinishCycle(run[r].key, run[r].result.status)
    /\ RunGoto(r, "release")
    /\ UNCHANGED <<lease, guard, stage, attempt, provider, truth, faults,
                   calls, abandoned>>

CompleteCycle(r) ==
    /\ Transacts(r, "complete")
    /\ cycle[run[r].key].next = Nil
    /\ FinishCycle(run[r].key, "SUCCEEDED")
    /\ RunGoto(r, "release")
    /\ UNCHANGED <<lease, guard, stage, attempt, provider, truth, faults,
                   calls, abandoned>>

\* The abandon command: no lease, only the cycle's own row.
AbandonCycle(k) ==
    /\ faults < MaxRunFaults
    /\ cycle[k].status \notin Terminal \union {"NONE"}
    /\ cycle' = [cycle EXCEPT ![k].status = "SUPPRESSED", ![k].next = Nil]
    /\ faults' = faults + 1
    /\ abandoned' = abandoned \union {k}
    /\ UNCHANGED <<lease, guard, stage, attempt, provider, truth, run, calls>>

-----------------------------------------------------------------------------
(* Stages.  begin_stage never looks at the cycle's status.                 *)

\* Where a begun stage goes: an unauthorized handoff waits at once.
Begun(r) ==
    IF run[r].at \in Handoff /\ ~run[r].auth
      THEN FinishWith(r, Waiting)
      ELSE RunGoto(r, "reserve")

RetryNotDue(r) ==
    /\ Transacts(r, "stage")
    /\ ~stage[run[r].key][run[r].at].due
    /\ RunGoto(r, "release")
    /\ UNCHANGED <<lease, guard, cycle, stage, attempt, provider, truth,
                   faults, calls, abandoned>>

\* A stage a dead run left RUNNING keeps its attempt.
ResumeRunningStage(r) ==
    /\ Transacts(r, "stage")
    /\ stage[run[r].key][run[r].at].status = "RUNNING"
    /\ Begun(r)
    /\ UNCHANGED <<lease, guard, cycle, stage, attempt, provider, truth,
                   faults, calls, abandoned>>

ReplayAttempt(r) ==
    LET k == run[r].key
        s == run[r].at
    IN  /\ Transacts(r, "stage")
        /\ stage[k][s].status = "WAITING" /\ stage[k][s].due
        /\ stage[k][s].replay
        /\ attempt' = [attempt EXCEPT ![k][s][Len(attempt[k][s])].status = "RUNNING"]
        /\ stage' = [stage EXCEPT ![k][s] = [NewStage EXCEPT !.status = "RUNNING"]]
        /\ cycle' = [cycle EXCEPT ![k].status = "RUNNING"]
        /\ Begun(r)
        /\ UNCHANGED <<lease, guard, provider, truth, faults, calls, abandoned>>

BeginAttempt(r) ==
    LET k == run[r].key
        s == run[r].at
    IN  /\ Transacts(r, "stage")
        /\ stage[k][s].status \notin Terminal \union {"RUNNING"}
        /\ stage[k][s].due /\ ~stage[k][s].replay
        /\ stage' = [stage EXCEPT ![k][s] = [NewStage EXCEPT !.status = "RUNNING"]]
        /\ attempt' = [attempt EXCEPT ![k][s] = Append(attempt[k][s], NewStageAttempt)]
        /\ provider' = [provider EXCEPT ![k][s] = Append(provider[k][s], NoRun)]
        /\ calls' = [calls EXCEPT ![k][s] = Append(calls[k][s], 0)]
        /\ cycle' = [cycle EXCEPT ![k].status = "RUNNING", ![k].next = s]
        /\ Begun(r)
        /\ UNCHANGED <<lease, guard, truth, faults, abandoned>>

\* _spent_cost: every attempt of the cycle keeps what it reserved.
StageCost(rows) ==
    SumFunctionOnSet([n \in DOMAIN rows |-> rows[n].reserved], DOMAIN rows)
SpentOf(a) == SumFunctionOnSet([s \in Stages |-> StageCost(a[s])], Stages)

Current(r) == attempt[run[r].key][run[r].at][Len(attempt[run[r].key][run[r].at])]

\* Mutant of Unreserved: a row the interrupt inserted counts as reserved.
NoRowYet(row, s) == row.status = "NONE"

\* No row yet, or one an interrupt inserted before anything was reserved.
Unreserved(row, s) ==
    \/ row.status = "NONE"
    \/ row.reserved = 0 /\ Envelope(s) > 0 /\ ~row.proposed

ReserveStageCost(r) ==
    LET k == run[r].key
        s == run[r].at
        n == Len(attempt[k][s])
        row == Current(r)
        fresh == Unreserved(row, s)
    IN  /\ Transacts(r, "reserve")
        /\ \/ /\ ~fresh
              /\ RunGoto(r, IF row.proposed THEN "execute" ELSE "propose")
              /\ UNCHANGED <<cycle, attempt>>
           \/ /\ fresh
              /\ SpentOf(attempt[k]) + Envelope(s) > MaxCost
              /\ FinishWith(r, Blocked)
              /\ UNCHANGED <<cycle, attempt>>
           \/ /\ fresh
              /\ SpentOf(attempt[k]) + Envelope(s) <= MaxCost
              /\ attempt' = [attempt EXCEPT ![k][s][n] =
                     [row EXCEPT !.status = "RUNNING", !.reserved = Envelope(s)]]
              /\ cycle' = [cycle EXCEPT ![k].spent = SpentOf(attempt'[k])]
              /\ RunGoto(r, "propose")
        /\ UNCHANGED <<lease, guard, stage, provider, truth, faults, calls,
                       abandoned>>

BindStageProposal(r) ==
    LET k == run[r].key
        s == run[r].at
    IN  /\ Transacts(r, "propose")
        /\ attempt' = [attempt EXCEPT ![k][s][Len(attempt[k][s])].proposed = TRUE]
        /\ RunGoto(r, "execute")
        /\ UNCHANGED <<lease, guard, cycle, stage, provider, truth, faults,
                       calls, abandoned>>

\* The supervisor refuses or is unavailable, or the action raises: the
\* exception handler records a technical failure.
TechnicalFailure(r) ==
    /\ run[r].pc \in {"propose", "execute", "starting", "calling", "called"}
    /\ guard' = IF guard = r THEN Nil ELSE guard
    /\ FinishWith(r, Failure)
    /\ UNCHANGED <<lease, cycle, stage, attempt, provider, truth, faults,
                   calls, abandoned>>

\* Mutant of NextStageAfter: a waiting stage is taken for a finished one.
NextStageAfterAnyWait(s, result) ==
    IF result.status = "SUPPRESSED" THEN Nil
    ELSE IF result.status \notin {"SUCCEEDED", "WAITING"} THEN s
    ELSE IF s < NStages THEN s + 1
    ELSE Nil

NextStageAfter(s, result) ==
    IF result.status = "SUPPRESSED" THEN Nil
    ELSE IF result # Done THEN s
    ELSE IF s < NStages THEN s + 1
    ELSE Nil

\* finish_stage, after the heartbeat that extends the lease.
FinishStage(r) ==
    LET k == run[r].key
        s == run[r].at
        n == Len(attempt[k][s])
        result == run[r].result
    IN  /\ Transacts(r, "finish")
        /\ stage[k][s].status = "RUNNING"
        /\ stage' = [stage EXCEPT ![k][s] = [status |-> result.status,
                                             due |-> ~result.later,
                                             replay |-> result.replay]]
        /\ attempt' = [attempt EXCEPT ![k][s][n].status = result.status]
        /\ cycle' = [cycle EXCEPT ![k] =
               [status |-> IF result = Done THEN "RUNNING" ELSE result.status,
                next |-> NextStageAfter(s, result),
                spent |-> SpentOf(attempt'[k])]]
        /\ run' = [run EXCEPT
               ![r].at = IF result = Done /\ s < NStages THEN s + 1 ELSE s,
               ![r].result = IF result = Done THEN Failure ELSE result,
               ![r].pc = IF result # Done THEN "stop"
                         ELSE IF s < NStages THEN "stage"
                         ELSE "complete"]
        /\ UNCHANGED <<lease, guard, provider, truth, faults, calls, abandoned>>

-----------------------------------------------------------------------------
(* Business actions.  A guarded action holds the lease row's lock, and     *)
(* extends the lease, from before its first side effect until it returns.  *)

\* The stage's result is already in the domain: nothing is executed.
AlreadyDone(r) ==
    /\ run[r].pc = "execute"
    /\ truth[run[r].key][run[r].at]
    /\ FinishWith(r, Done)
    /\ UNCHANGED <<lease, guard, cycle, stage, attempt, provider, truth,
                   faults, calls, abandoned>>

\* An action that buys nothing: its own transaction either leaves the
\* stage's result behind or it does not.
UnpaidAction(r) ==
    /\ Transacts(r, "execute")
    /\ run[r].at \notin Paid /\ ~truth[run[r].key][run[r].at]
    /\ \/ /\ truth' = [truth EXCEPT ![run[r].key][run[r].at] = TRUE]
          /\ FinishWith(r, Done)
       \/ /\ \E result \in {Waiting, Blocked, Suppressed} :
                FinishWith(r, result)
          /\ UNCHANGED truth
    /\ UNCHANGED <<lease, guard, cycle, stage, attempt, provider, faults,
                   calls, abandoned>>

\* What the runtime makes of a provider run that is over.  A call that timed
\* out or was refused for the moment ("lost") waits, for a new attempt; a
\* search too broad is blocked; the next run starts both anew.
ResultOf(status) ==
    CASE status = "found"     -> Done
      [] status = "none"      -> Suppressed
      [] status = "lost"      -> Waiting
      [] status = "too_broad" -> Blocked

RunStatuses == {"found", "none", "lost", "too_broad"}

\* Mutant of ClaimsRecovery: any run of the attempt is replayed once.
ClaimsAnyRun(row) == row.status # "NONE" /\ row.replays = 0

\* claim_recovery: the single replay of a run that was cut short.
ClaimsRecovery(row) == row.status = "STARTED" /\ row.replays = 0

\* resume_started under the first guard: no run of this attempt, a finished
\* one, one whose single replay is spent, or one to replay now.
ResumeStarted(r) ==
    LET k == run[r].key
        s == run[r].at
        n == Len(attempt[k][s])
        row == provider[k][s][n]
    IN  /\ Transacts(r, "execute")
        /\ s \in Paid /\ ~truth[k][s]
        /\ \/ /\ row.status = "NONE"
              /\ RunGoto(r, "starting")
              /\ UNCHANGED <<guard, provider>>
           \/ /\ row.status \in RunStatuses
              /\ FinishWith(r, ResultOf(row.status))
              /\ UNCHANGED <<guard, provider>>
           \/ /\ row.status = "STARTED"         \* recovery no longer authorized
              /\ FinishWith(r, Blocked)
              /\ UNCHANGED <<guard, provider>>
           \/ /\ row.status = "STARTED" /\ row.replays = 1
              /\ FinishWith(r, Interrupted)     \* indeterminate: same attempt
              /\ UNCHANGED <<guard, provider>>
           \/ /\ ClaimsRecovery(row)
              /\ provider' = [provider EXCEPT ![k][s][n].replays = 1]
              /\ guard' = r
              /\ RunGoto(r, "calling")
        /\ UNCHANGED <<lease, cycle, stage, attempt, truth, faults, calls,
                       abandoned>>

\* The second guard: approvals and policy, then start_run.
StartRun(r) ==
    LET k == run[r].key
        s == run[r].at
        n == Len(attempt[k][s])
    IN  /\ Transacts(r, "starting")
        /\ \/ /\ \E result \in {Waiting, Blocked} : FinishWith(r, result)
              /\ UNCHANGED <<guard, provider>>
           \/ /\ provider' = [provider EXCEPT ![k][s][n].status = "STARTED"]
              /\ guard' = r
              /\ RunGoto(r, "calling")
        /\ UNCHANGED <<lease, cycle, stage, attempt, truth, faults, calls,
                       abandoned>>

\* The provider answers, refuses or is not heard; the units are spent.
CallProvider(r) ==
    LET k == run[r].key
        s == run[r].at
        n == Len(attempt[k][s])
    IN  /\ run[r].pc = "calling"
        /\ calls' = [calls EXCEPT ![k][s][n] = calls[k][s][n] + 1]
        /\ RunGoto(r, "called")
        /\ UNCHANGED <<lease, guard, cycle, stage, attempt, provider, truth,
                       faults, abandoned>>

\* finish_run, with the domain's result in the same transaction.
FinishRun(r) ==
    LET k == run[r].key
        s == run[r].at
        n == Len(attempt[k][s])
    IN  /\ run[r].pc = "called"
        /\ \E status \in RunStatuses :
              /\ provider' = [provider EXCEPT ![k][s][n].status = status]
              /\ truth' = [truth EXCEPT ![k][s] = status = "found"]
              /\ FinishWith(r, ResultOf(status))
        /\ guard' = Nil
        /\ UNCHANGED <<lease, cycle, stage, attempt, faults, calls, abandoned>>

-----------------------------------------------------------------------------
(* Time and faults.                                                        *)

\* The lease's expiry passes, also while its row is locked.
LeaseExpires ==
    /\ lease.held /\ lease.live
    /\ lease' = [lease EXCEPT !.live = FALSE]
    /\ UNCHANGED <<guard, cycle, stage, attempt, provider, truth, run, faults,
                   calls, abandoned>>

RetryDue(k, s) ==
    /\ ~stage[k][s].due
    /\ stage' = [stage EXCEPT ![k][s].due = TRUE]
    /\ UNCHANGED <<lease, guard, cycle, attempt, provider, truth, run, faults,
                   calls, abandoned>>

\* SIGTERM: a stage under way is checkpointed for a replay of its attempt;
\* before and after one, only the lease is released.
InterruptRun(r) ==
    /\ faults < MaxRunFaults
    /\ run[r].pc \notin {"idle", "release"}
    /\ guard' = IF guard = r THEN Nil ELSE guard
    /\ IF run[r].pc \in {"started", "stage", "stop", "complete"}
         THEN RunGoto(r, "release")
         ELSE FinishWith(r, Interrupted)
    /\ faults' = faults + 1
    /\ UNCHANGED <<lease, cycle, stage, attempt, provider, truth, calls,
                   abandoned>>

\* The process dies: its locks go, its lease stays until it expires.
CrashRun(r) ==
    /\ faults < MaxRunFaults
    /\ run[r].pc # "idle"
    /\ guard' = IF guard = r THEN Nil ELSE guard
    /\ run' = [run EXCEPT ![r] = IdleRun]
    /\ faults' = faults + 1
    /\ UNCHANGED <<lease, cycle, stage, attempt, provider, truth, calls,
                   abandoned>>

RunStep(r) ==
    \/ DependencyNotReady(r) \/ ReleaseLease(r) \/ LoseLease(r)
    \/ ResumeOrCreateCycle(r)
    \/ TimeBudgetReached(r) \/ StopCycle(r) \/ CompleteCycle(r)
    \/ RetryNotDue(r) \/ ResumeRunningStage(r) \/ ReplayAttempt(r)
    \/ BeginAttempt(r) \/ ReserveStageCost(r) \/ BindStageProposal(r)
    \/ TechnicalFailure(r) \/ FinishStage(r)
    \/ AlreadyDone(r) \/ UnpaidAction(r)
    \/ ResumeStarted(r) \/ StartRun(r) \/ CallProvider(r) \/ FinishRun(r)

RuntimeNext ==
    \/ \E r \in Runs :
          \/ \E auth \in BOOLEAN : AcquireLease(r, auth)
          \/ RunStep(r) \/ InterruptRun(r) \/ CrashRun(r)
    \/ LeaseExpires
    \/ \E k \in Keys : AbandonCycle(k) \/ \E s \in Stages : RetryDue(k, s)

RuntimeSpec == RuntimeInit /\ [][RuntimeNext]_runtimeVars

-----------------------------------------------------------------------------
(* Properties.                                                             *)

\* The units a provider has really been asked for, replays included, are
\* covered by the attempt's reserved envelope.
EnvelopeCovers ==
    \A k \in Keys, s \in Stages : \A n \in DOMAIN calls[k][s] :
        calls[k][s][n] * CallCost <= attempt[k][s][n].reserved

\* Whatever is interrupted, replayed or taken over, the envelopes cover the
\* calls, the cycle's ledger is the sum of the envelopes, and it stays within
\* maximum_cycle_cost.
CallsCovered ==
    /\ EnvelopeCovers
    /\ \A k \in Keys : /\ cycle[k].spent = SpentOf(attempt[k])
                       /\ cycle[k].spent <= MaxCost

\* The fence: a run between the start of a provider run and its end still
\* owns the lease, however late it is; a second run cannot have taken over.
FencedCalls ==
    \A r \in Runs : run[r].pc \in {"calling", "called"} => guard = r /\ Owns(r)

\* The checkpoint is exact: the stages before next_stage are the ones that
\* succeeded, and a cycle without next stage is through or was suppressed by
\* its last stage -- as long as no operator abandoned it.
CheckpointExact ==
    \A k \in Keys \ abandoned :
        LET c == cycle[k]
            done == {s \in Stages : stage[k][s].status = "SUCCEEDED"}
        IN  CASE c.status = "NONE" -> done = {}
              [] c.next # Nil -> done = 1..(c.next - 1)
              [] c.status = "SUPPRESSED" -> \E s \in Stages :
                     done = 1..(s - 1) /\ stage[k][s].status = "SUPPRESSED"
              [] OTHER -> done = Stages

\* begin_stage's "terminal runtime stage cannot restart" is never raised: the
\* run that owns the lease does not stand before a finished stage, not even
\* in a cycle abandoned under it.
NoTerminalRestart ==
    \A r \in Runs : Owns(r) /\ run[r].pc = "stage" =>
        stage[run[r].key][run[r].at].status \notin Terminal

\* A result is never bought again: no call is made for a stage whose result
\* the domain holds, or whose provider run of this attempt is over.
BoughtOnce ==
    [][\A k \in Keys, s \in Stages :
          calls[k][s] # calls'[k][s] /\ Len(calls[k][s]) = Len(calls'[k][s])
             => /\ ~truth[k][s]
                /\ provider[k][s][Len(provider[k][s])].status = "STARTED"]_runtimeVars
=============================================================================
