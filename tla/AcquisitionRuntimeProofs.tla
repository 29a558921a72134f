---------------------- MODULE AcquisitionRuntimeProofs ----------------------
(***************************************************************************)
(* What the acquisition runtime promises, for every number of runs, keys,  *)
(* stages, generations and faults.                                         *)
(*                                                                         *)
(* Only the run that owns the lease changes what is stored, so the         *)
(* invariant says of the store alone how far each cycle is (Frontier,      *)
(* CycleOK, Money), and of the owner alone where it stands relative to it  *)
(* (Fits).  A run that lost the lease never owns it again: its token is    *)
(* older than the generation.                                              *)
(* What a cycle has spent is the sum of the envelopes of its attempts      *)
(* (Ledger), which only a reservation raises.                              *)
(***************************************************************************)
EXTENDS AcquisitionRuntime, FoldLemmas, SequenceTheorems, TLAPS

-----------------------------------------------------------------------------
(* The inductive invariant.                                                *)

Results == {Done, Failure, Blocked, Suppressed, Waiting, Interrupted}

Walk == {"stage", "reserve", "propose", "execute", "starting", "calling", "called",
         "finish"}
Working == Walk \union {"stop", "complete"}

RunRecord == [pc : Working \union {"idle", "started", "release"}, token : Nat,
              auth : BOOLEAN, key : Keys \union {Nil}, at : Stages \union {Nil},
              result : Results]

StageRecord == [status : StageOutcomes \union {"PENDING", "RUNNING"},
                due : BOOLEAN, replay : BOOLEAN]

AttemptRecord == [status : StageOutcomes \union {"NONE", "RUNNING"},
                  reserved : Nat, proposed : BOOLEAN]

ProviderRecord == [status : RunStatuses \union {"NONE", "STARTED"}, replays : 0..1]

\* A cycle's spent is a sum, of which Ledger speaks below.
IsCycle(c) ==
    c \in [status : StageOutcomes \union {"NONE", "PENDING", "RUNNING"},
          next : Stages \union {Nil}, spent : {c.spent}]

RunsOK ==
    /\ lease \in [held : BOOLEAN, generation : Nat, live : BOOLEAN]
    /\ run \in [Runs -> RunRecord]

\* The tokens of the runs differ, and none is of a later generation.
Tokens ==
    /\ lease.held => lease.generation # 0
    /\ \A r \in Runs : run[r].token <= lease.generation
    /\ \A r, q \in Runs : run[r].token = run[q].token /\ run[r].token # 0 => r = q

StoreOK ==
    /\ cycle = [k \in Keys |-> cycle[k]]
    /\ \A k \in Keys : IsCycle(cycle[k])
    /\ stage \in [Keys -> [Stages -> StageRecord]]
    /\ truth \in [Keys -> [Stages -> BOOLEAN]]
    /\ attempt \in [Keys -> [Stages -> Seq(AttemptRecord)]]
    /\ provider \in [Keys -> [Stages -> Seq(ProviderRecord)]]
    /\ calls \in [Keys -> [Stages -> Seq(Nat)]]

\* Rows of an attempt are added together; a stage that was begun has one.
RowsOK(k, s) ==
    /\ Len(provider[k][s]) = Len(attempt[k][s])
    /\ Len(calls[k][s]) = Len(attempt[k][s])
    /\ stage[k][s].status # "PENDING" => Len(attempt[k][s]) >= 1

\* A call was started or replayed under the attempt's envelope.
Money(k, s) == \A n \in 1..Len(attempt[k][s]) :
    /\ attempt[k][s][n].reserved \in {0, Envelope(s)}
    /\ attempt[k][s][n].proposed => attempt[k][s][n].reserved = Envelope(s)
    /\ IF provider[k][s][n].status = "NONE"
         THEN calls[k][s][n] = 0
         ELSE s \in Paid /\ attempt[k][s][n].reserved = Envelope(s)
    /\ calls[k][s][n] <= 1 + provider[k][s][n].replays

\* The stages before s have succeeded, the ones after it were never begun.
At(k, s) == \A i \in Stages :
    /\ i < s <=> stage[k][i].status = "SUCCEEDED"
    /\ i > s => stage[k][i].status = "PENDING"

CycleOK(k) ==
    /\ cycle[k].status = "SUPPRESSED" => cycle[k].next = Nil
    /\ cycle[k].status = "NONE" =>
          cycle[k].next = Nil /\ \A s \in Stages : stage[k][s].status = "PENDING"
    /\ cycle[k].next # Nil =>
          At(k, cycle[k].next) /\ stage[k][cycle[k].next].status # "SUPPRESSED"
    /\ cycle[k].status # "NONE" /\ cycle[k].next = Nil /\ k \notin abandoned =>
          IF cycle[k].status = "SUPPRESSED"
            THEN \E s \in Stages : At(k, s) /\ stage[k][s].status = "SUPPRESSED"
            ELSE At(k, NStages + 1)

Reserved(w) == attempt[w.key][w.at][Len(attempt[w.key][w.at])].reserved
ProviderRun(w) == provider[w.key][w.at][Len(attempt[w.key][w.at])]
CallsMade(w) == calls[w.key][w.at][Len(attempt[w.key][w.at])]
StageAt(w) == stage[w.key][w.at].status
Points(w) == w.key \notin abandoned => cycle[w.key].next = w.at

\* Where the owner stands in its cycle.
Stands(w) ==
    /\ w.pc \in Working => w.key \in Keys /\ cycle[w.key].status # "NONE"
    /\ w.pc \in Walk \union {"stop"} => w.at \in Stages /\ At(w.key, w.at)
    /\ w.pc \in Walk => StageAt(w) # "SUPPRESSED" /\ Points(w)
    /\ w.pc \in Walk \ {"stage"} => StageAt(w) = "RUNNING"
    /\ w.pc = "stop" => /\ w.result.status # "SUCCEEDED"
                        /\ IF w.result.status = "SUPPRESSED"
                             THEN StageAt(w) = "SUPPRESSED" ELSE Points(w)
    /\ w.pc = "complete" /\ w.key \notin abandoned => At(w.key, NStages + 1)

\* What it has paid for.
Pays(w) ==
    /\ w.pc \in {"propose", "execute", "starting", "calling", "called"} =>
          Reserved(w) = Envelope(w.at)
    /\ w.pc = "starting" => /\ w.at \in Paid /\ ~truth[w.key][w.at]
                            /\ ProviderRun(w).status = "NONE"
    /\ w.pc = "calling" => /\ ~truth[w.key][w.at]
                           /\ ProviderRun(w).status = "STARTED"
                           /\ CallsMade(w) <= ProviderRun(w).replays
    /\ w.pc = "called" => ProviderRun(w).status = "STARTED"

Fits(w) == Stands(w) /\ Pays(w)

Frontier(k) == \E s \in 1..(NStages + 1) : At(k, s)

StoreInv ==
    /\ StoreOK
    /\ \A k \in Keys : CycleOK(k) /\ Frontier(k)
    /\ \A k \in Keys, s \in Stages : RowsOK(k, s) /\ Money(k, s)

RuntimeInv ==
    /\ RunsOK /\ Tokens /\ FencedCalls /\ StoreInv
    /\ \A r \in Runs : Owns(r) => Fits(run[r])

storeVars == <<cycle, stage, attempt, provider, truth, calls, abandoned>>

-----------------------------------------------------------------------------
(* Steps of one run.                                                       *)

\* A step of r: it keeps its token or drops it, takes or frees the lock on
\* the lease row, and calls only under both.
Moves(r) ==
    /\ run' \in [Runs -> RunRecord]
    /\ \A q \in Runs \ {r} : run'[q] = run[q]
    /\ run'[r].token \in {run[r].token, 0}
    /\ lease' = lease
    /\ \/ guard' = guard
       \/ guard = r /\ guard' = Nil
       \/ guard = Nil /\ guard' = r
    /\ run'[r].pc \in {"calling", "called"} =>
          guard' = r /\ Owns(r) /\ run'[r].token = run[r].token

\* Such a step keeps the fence, and makes nobody the owner.
LEMMA MoveKeeps ==
    ASSUME RuntimeInv, NEW r \in Runs, Moves(r)
    PROVE  /\ RunsOK' /\ Tokens' /\ FencedCalls'
           /\ \A q \in Runs : Owns(q)' => Owns(q) /\ run'[q].token = run[q].token
           /\ Owns(r) => \A q \in Runs \ {r} : ~Owns(q)'
<1> USE DEF RuntimeInv
<1>1. RunsOK' /\ \A q \in Runs : run[q] \in RunRecord /\ run'[q] \in RunRecord
  BY DEF RunsOK, Moves
<1>2. \A q \in Runs : run[q].token \in Nat /\ run'[q].token \in Nat
                      /\ lease.generation \in Nat
  BY <1>1 DEF RunRecord, RunsOK
<1>3. Tokens'
  BY <1>2 DEF Tokens, Moves
<1>4. FencedCalls'
  <2> SUFFICES ASSUME NEW q \in Runs, run'[q].pc \in {"calling", "called"}
               PROVE  guard' = q /\ Owns(q)'
    BY DEF FencedCalls
  <2>1. CASE q = r
    BY <2>1 DEF Moves, Owns
  <2>2. CASE q # r
    BY <2>2, RuntimeAssumption DEF Moves, Owns, FencedCalls
  <2> QED
    BY <2>1, <2>2
<1>5. \A q \in Runs : Owns(q)' => Owns(q) /\ run'[q].token = run[q].token
  BY <1>2 DEF Owns, Moves, Tokens
<1>6. Owns(r) => \A q \in Runs \ {r} : ~Owns(q)'
  BY <1>2, <1>5 DEF Owns, Tokens
<1> QED
  BY <1>1, <1>3, <1>4, <1>5, <1>6

\* What an unchanged store makes of a run's place.
LEMMA FitsFrame ==
    ASSUME UNCHANGED storeVars, NEW r \in Runs, run'[r] = run[r], Fits(run[r])
    PROVE  Fits(run[r])'
  BY ZenonT(60) DEF storeVars, Fits, Stands, Pays, At, StageAt, Points, Reserved, ProviderRun,
         CallsMade

\* An unchanged store stands.
LEMMA StoreFrame ==
    ASSUME StoreInv, UNCHANGED storeVars
    PROVE  StoreInv'
  BY DEF storeVars, StoreInv, StoreOK, CycleOK, Frontier, At, RowsOK, Money

\* A step of r that leaves the store alone.
LEMMA LocalStep ==
    ASSUME RuntimeInv, NEW r \in Runs, Moves(r), UNCHANGED storeVars,
           Owns(r) => Fits(run[r])'
    PROVE  RuntimeInv'
<1>1. /\ RunsOK' /\ Tokens' /\ FencedCalls'
      /\ \A q \in Runs : Owns(q)' => Owns(q)
  BY MoveKeeps
<1>2. StoreInv'
  BY StoreFrame DEF RuntimeInv
<1>3. ASSUME NEW q \in Runs, Owns(q)'
      PROVE  Fits(run[q])'
  <2>1. Owns(q)
    BY <1>1, <1>3
  <2>2. CASE q = r
    BY <2>1, <2>2
  <2>3. CASE q # r
    <3>1. run'[q] = run[q] /\ Fits(run[q])
      BY <2>1, <2>3 DEF Moves, RuntimeInv
    <3> QED
      BY <3>1, FitsFrame
  <2> QED
    BY <2>2, <2>3
<1> QED
  BY <1>1, <1>2, <1>3 DEF RuntimeInv

\* A step of the owner.
LEMMA OwnerStep ==
    ASSUME RuntimeInv, NEW r \in Runs, Owns(r), Moves(r), StoreInv', Fits(run[r])'
    PROVE  RuntimeInv'
<1>1. /\ RunsOK' /\ Tokens' /\ FencedCalls'
      /\ \A q \in Runs \ {r} : ~Owns(q)'
  BY MoveKeeps
<1> QED
  BY <1>1 DEF RuntimeInv

\* The run's record after RunGoto and FinishWith.
Went(r, pc, result) ==
    /\ run' \in [Runs -> RunRecord]
    /\ \A q \in Runs \ {r} : run'[q] = run[q]
    /\ run'[r].pc = pc /\ run'[r].result = result
    /\ run'[r].token = run[r].token /\ run'[r].auth = run[r].auth
    /\ run'[r].key = run[r].key /\ run'[r].at = run[r].at

\* RunGoto changes where the run is.
LEMMA GotoWent ==
    ASSUME RunsOK, NEW r \in Runs,
           NEW pc \in Working \union {"idle", "started", "release"}, RunGoto(r, pc)
    PROVE  Went(r, pc, run[r].result)
<1>1. run \in [Runs -> RunRecord] /\ run[r] \in RunRecord
  BY DEF RunsOK
<1> DEFINE new == [run[r] EXCEPT !.pc = pc]
<1>2. /\ new \in RunRecord /\ new.pc = pc /\ new.result = run[r].result
      /\ new.token = run[r].token /\ new.auth = run[r].auth
      /\ new.key = run[r].key /\ new.at = run[r].at
  BY <1>1 DEF RunRecord
<1>3. run' = [run EXCEPT ![r] = new]
  BY DEF RunGoto
<1> HIDE DEF new
<1>4. run' \in [Runs -> RunRecord] /\ run'[r] = new
      /\ \A q \in Runs \ {r} : run'[q] = run[q]
  BY <1>1, <1>2, <1>3
<1> QED
  BY <1>2, <1>4 DEF Went

\* FinishWith changes where the run is and what it will record.
LEMMA FinishWent ==
    ASSUME RunsOK, NEW r \in Runs, NEW result \in Results, FinishWith(r, result)
    PROVE  Went(r, "finish", result)
<1>1. run \in [Runs -> RunRecord] /\ run[r] \in RunRecord
  BY DEF RunsOK
<1> DEFINE new == [run[r] EXCEPT !.pc = "finish", !.result = result]
<1>2. /\ new \in RunRecord /\ new.pc = "finish" /\ new.result = result
      /\ new.token = run[r].token /\ new.auth = run[r].auth
      /\ new.key = run[r].key /\ new.at = run[r].at
  BY <1>1 DEF RunRecord, Working, Walk
<1>3. run' = [run EXCEPT ![r] = new]
  BY DEF FinishWith
<1> HIDE DEF new
<1>4. run' \in [Runs -> RunRecord] /\ run'[r] = new
      /\ \A q \in Runs \ {r} : run'[q] = run[q]
  BY <1>1, <1>2, <1>3
<1> QED
  BY <1>2, <1>4 DEF Went

\* The owner may go from where it is to pc without touching the store.
Ready(r, pc) ==
    /\ run[r].pc \in Walk /\ StageAt(run[r]) = "RUNNING"
    /\ pc \in {"propose", "execute", "starting"} => Reserved(run[r]) = Envelope(run[r].at)
    /\ pc = "starting" => /\ run[r].at \in Paid /\ ~truth[run[r].key][run[r].at]
                          /\ ProviderRun(run[r]).status = "NONE"

\* The lock is kept, or freed by its holder.
Unlocks(r) == guard' = guard \/ (guard = r /\ guard' = Nil)

\* A run that only moves, to a place it is ready for, keeps the invariant.
LEMMA LocalMove ==
    ASSUME RuntimeInv, NEW r \in Runs, NEW pc, NEW result, Went(r, pc, result),
           lease' = lease, Unlocks(r), UNCHANGED storeVars,
           \/ pc = "release"
           \/ /\ pc \in {"reserve", "propose", "execute", "starting", "finish"}
              /\ Owns(r) => Ready(r, pc)
    PROVE  RuntimeInv'
<1>1. Moves(r)
  BY DEF Moves, Went, Unlocks
<1>2. ASSUME Owns(r)
      PROVE  Fits(run[r])'
  <2>1. Fits(run[r])
    BY <1>2 DEF RuntimeInv
  <2>2. CASE pc = "release"
    BY <2>2 DEF Went, Fits, Stands, Pays, Working, Walk
  <2>3. CASE pc \in {"reserve", "propose", "execute", "starting", "finish"}
    <3>1. Ready(r, pc)
      BY <1>2, <2>3
    <3>2. Stands(run[r])'
      BY <2>1, <2>3, <3>1
      DEF Went, Fits, Stands, Working, Walk, Ready, StageAt, Points, At, storeVars
    <3>3. Pays(run[r])'
      BY Zenon, <2>3, <3>1 DEF Went, Pays, Ready, Reserved, ProviderRun, storeVars
    <3> QED
      BY <3>2, <3>3 DEF Fits
  <2> QED
    BY <2>2, <2>3
<1> QED
  BY <1>1, <1>2, LocalStep

\* Wherever the owner works on a stage, the stage runs.
LEMMA WalkRuns ==
    ASSUME RuntimeInv, NEW r \in Runs, Owns(r), run[r].pc \in Walk \ {"stage"}
    PROVE  StageAt(run[r]) = "RUNNING"
  BY DEF RuntimeInv, Fits, Stands

\* DependencyNotReady, RetryNotDue: nothing is left but the release.
LEMMA StepGiveUp ==
    ASSUME RuntimeInv, NEW r \in Runs, DependencyNotReady(r) \/ RetryNotDue(r)
    PROVE  RuntimeInv'
<1>1. RunGoto(r, "release") /\ UNCHANGED <<lease, guard, storeVars>>
  BY DEF DependencyNotReady, RetryNotDue, storeVars
<1>2. Went(r, "release", run[r].result)
  BY <1>1, GotoWent DEF RuntimeInv
<1> QED
  BY <1>1, <1>2, LocalMove DEF Unlocks

\* TechnicalFailure, AlreadyDone: the stage is to be finished.
LEMMA StepToFinish ==
    ASSUME RuntimeInv, NEW r \in Runs, TechnicalFailure(r) \/ AlreadyDone(r)
    PROVE  RuntimeInv'
<1>1. PICK result \in Results :
         FinishWith(r, result) /\ UNCHANGED <<lease, storeVars>> /\ Unlocks(r)
         /\ run[r].pc \in Walk \ {"stage"}
  BY DEF TechnicalFailure, AlreadyDone, storeVars, Unlocks, Results, Walk
<1>2. Went(r, "finish", result)
  BY <1>1, FinishWent DEF RuntimeInv
<1>3. Owns(r) => Ready(r, "finish")
  BY <1>1, WalkRuns DEF Ready
<1> QED
  BY <1>1, <1>2, <1>3, LocalMove

\* SIGTERM.
LEMMA StepInterrupt ==
    ASSUME RuntimeInv, NEW r \in Runs, InterruptRun(r)
    PROVE  RuntimeInv'
<1>1. UNCHANGED <<lease, storeVars>> /\ Unlocks(r)
  BY DEF InterruptRun, storeVars, Unlocks
<1>2. CASE run[r].pc \in {"started", "stage", "stop", "complete"}
  <2>1. RunGoto(r, "release")
    BY <1>2 DEF InterruptRun
  <2>2. Went(r, "release", run[r].result)
    BY <2>1, GotoWent DEF RuntimeInv
  <2> QED
    BY <1>1, <2>2, LocalMove
<1>3. CASE run[r].pc \notin {"started", "stage", "stop", "complete"}
  <2>1. FinishWith(r, Interrupted) /\ Interrupted \in Results
    BY <1>3 DEF InterruptRun, Results
  <2>2. Went(r, "finish", Interrupted)
    BY <2>1, FinishWent DEF RuntimeInv
  <2>3. run[r] \in RunRecord
    BY DEF RuntimeInv, RunsOK
  <2>4. run[r].pc \in Walk \ {"stage"}
    BY <1>3, <2>3 DEF InterruptRun, RunRecord, Working, Walk
  <2>5. Owns(r) => Ready(r, "finish")
    BY <2>4, WalkRuns DEF Ready
  <2> QED
    BY <1>1, <2>2, <2>5, LocalMove
<1> QED
  BY <1>2, <1>3

\* An idle run has no place and no token.
LEMMA IdleRunRecord ==
    /\ IdleRun \in RunRecord
    /\ IdleRun.token = 0 /\ IdleRun.pc = "idle"
  BY DEF IdleRun, RunRecord, Results

\* The process dies.
LEMMA StepCrash ==
    ASSUME RuntimeInv, NEW r \in Runs, CrashRun(r)
    PROVE  RuntimeInv'
<1>1. /\ UNCHANGED <<lease, storeVars>> /\ Unlocks(r)
      /\ run' = [run EXCEPT ![r] = IdleRun]
  BY DEF CrashRun, storeVars, Unlocks
<1>2. run' \in [Runs -> RunRecord] /\ run'[r] = IdleRun
      /\ \A q \in Runs \ {r} : run'[q] = run[q]
  BY <1>1, IdleRunRecord DEF RuntimeInv, RunsOK
<1>3. Moves(r)
  BY <1>1, <1>2, IdleRunRecord DEF Moves, Unlocks
<1>4. Fits(run[r])'
  BY <1>2, IdleRunRecord DEF Fits, Stands, Pays, Working, Walk
<1> QED
  BY <1>1, <1>3, <1>4, LocalStep

-----------------------------------------------------------------------------
(* The lease.                                                              *)

\* While nobody holds the lock, nobody calls.
LEMMA NobodyCalls ==
    ASSUME RuntimeInv, guard = Nil
    PROVE  \A q \in Runs : run[q].pc \notin {"calling", "called"}
  BY RuntimeAssumption DEF RuntimeInv, FencedCalls

\* ReleaseLease, LoseLease: a run that no longer owns the lease leaves it.
LEMMA StepRelease ==
    ASSUME RuntimeInv, NEW r \in Runs, ReleaseLease(r) \/ LoseLease(r)
    PROVE  RuntimeInv'
<1>1. /\ Release(r) /\ UNCHANGED <<guard, storeVars>> /\ guard = Nil
  BY DEF ReleaseLease, LoseLease, storeVars, Release, LeaseRowFree
<1>2. /\ run' \in [Runs -> RunRecord] /\ run'[r] = IdleRun
      /\ \A q \in Runs \ {r} : run'[q] = run[q]
  BY <1>1, IdleRunRecord DEF RuntimeInv, RunsOK, Release
<1>3. /\ lease \in [held : BOOLEAN, generation : Nat, live : BOOLEAN]
      /\ lease' \in [held : BOOLEAN, generation : Nat, live : BOOLEAN]
      /\ lease'.generation = lease.generation
      /\ lease'.held => lease' = lease /\ ~Owns(r)
  BY <1>1 DEF RuntimeInv, RunsOK, Release, Owns
<1>4. RunsOK'
  BY <1>2, <1>3 DEF RunsOK
<1>5. \A q \in Runs : run[q].token \in Nat
  BY DEF RuntimeInv, RunsOK, RunRecord
<1>6. Tokens'
  BY <1>2, <1>3, <1>5, IdleRunRecord DEF RuntimeInv, Tokens
<1>7. FencedCalls'
  BY <1>1, <1>2, NobodyCalls, IdleRunRecord DEF FencedCalls
<1>8. StoreInv'
  BY <1>1, StoreFrame DEF RuntimeInv
<1>9. ASSUME NEW q \in Runs, Owns(q)'
      PROVE  Fits(run[q])'
  <2>1. q # r
    BY <1>2, <1>3, <1>9, IdleRunRecord DEF Owns, RuntimeInv, Tokens
  <2>2. run'[q] = run[q] /\ Owns(q)
    BY <1>2, <1>3, <1>9, <2>1 DEF Owns
  <2> QED
    BY <1>1, <2>2, FitsFrame DEF RuntimeInv
<1> QED
  BY <1>4, <1>6, <1>7, <1>8, <1>9 DEF RuntimeInv

\* A new generation: whoever owned the lease does so no longer.
LEMMA StepAcquire ==
    ASSUME RuntimeInv, NEW r \in Runs, NEW auth \in BOOLEAN, AcquireLease(r, auth)
    PROVE  RuntimeInv'
<1> DEFINE g == lease.generation + 1
           new == [IdleRun EXCEPT !.pc = "started", !.auth = auth, !.token = g]
<1>1. /\ lease' = [held |-> TRUE, generation |-> g, live |-> TRUE]
      /\ run' = [run EXCEPT ![r] = new]
      /\ UNCHANGED <<guard, storeVars>> /\ guard = Nil
  BY DEF AcquireLease, storeVars, LeaseRowFree
<1>2. lease.generation \in Nat /\ g \in Nat /\ g > lease.generation /\ g # 0
  BY DEF RuntimeInv, RunsOK
<1>3. new \in RunRecord /\ new.pc = "started" /\ new.token = g
  BY <1>2 DEF IdleRun, RunRecord, Results
<1> HIDE DEF new
<1>4. /\ run' \in [Runs -> RunRecord] /\ run'[r] = new
      /\ \A q \in Runs \ {r} : run'[q] = run[q]
  BY <1>1, <1>3 DEF RuntimeInv, RunsOK
<1>5. RunsOK' /\ lease'.generation = g /\ lease'.held
  BY <1>1, <1>2, <1>4 DEF RunsOK
<1>6. \A q \in Runs : run[q].token \in Nat /\ run[q].token < g
  BY <1>2 DEF RuntimeInv, RunsOK, RunRecord, Tokens
<1>7. Tokens'
  BY <1>2, <1>3, <1>4, <1>5, <1>6 DEF RuntimeInv, Tokens
<1>8. FencedCalls'
  BY <1>1, <1>3, <1>4, NobodyCalls DEF FencedCalls
<1>9. StoreInv'
  BY <1>1, StoreFrame DEF RuntimeInv
<1>10. ASSUME NEW q \in Runs, Owns(q)'
       PROVE  Fits(run[q])'
  <2>1. q = r
    BY <1>4, <1>5, <1>6, <1>10 DEF Owns
  <2> QED
    BY <1>3, <1>4, <2>1 DEF Fits, Stands, Pays, Working, Walk
<1> QED
  BY <1>5, <1>7, <1>8, <1>9, <1>10 DEF RuntimeInv

\* The lease's expiry changes no owner.
LEMMA StepExpire ==
    ASSUME RuntimeInv, LeaseExpires
    PROVE  RuntimeInv'
<1>1. UNCHANGED <<guard, run, storeVars>>
  BY DEF LeaseExpires, storeVars
<1>2. /\ lease' \in [held : BOOLEAN, generation : Nat, live : BOOLEAN]
      /\ lease'.generation = lease.generation /\ lease'.held = lease.held
  BY DEF RuntimeInv, RunsOK, LeaseExpires
<1>3. RunsOK' /\ Tokens' /\ FencedCalls'
  BY <1>1, <1>2 DEF RuntimeInv, RunsOK, Tokens, FencedCalls, Owns
<1>4. StoreInv'
  BY <1>1, StoreFrame DEF RuntimeInv
<1>5. ASSUME NEW q \in Runs, Owns(q)'
      PROVE  Fits(run[q])'
  <2>1. Owns(q)
    BY <1>1, <1>2, <1>5 DEF Owns
  <2> QED
    BY <1>1, <2>1, FitsFrame DEF RuntimeInv
<1> QED
  BY <1>3, <1>4, <1>5 DEF RuntimeInv

-----------------------------------------------------------------------------
(* The cycle's row alone.                                                  *)

\* A row of one cycle is written; the stages and attempts are not.
CycleWritten(k) ==
    /\ cycle' = [j \in Keys |-> cycle'[j]] /\ IsCycle(cycle'[k])
    /\ \A j \in Keys \ {k} : cycle'[j] = cycle[j]
    /\ UNCHANGED <<stage, attempt, provider, truth, calls>>

\* One row of cycle is replaced by a well-formed one.
LEMMA CycleRow ==
    ASSUME StoreOK, NEW k \in Keys, NEW c, IsCycle(c),
           cycle' = [cycle EXCEPT ![k] = c],
           UNCHANGED <<stage, attempt, provider, truth, calls>>
    PROVE  CycleWritten(k) /\ cycle'[k] = c
<1>1. cycle'[k] = c /\ \A j \in Keys \ {k} : cycle'[j] = cycle[j]
  BY DEF StoreOK
<1>2. DOMAIN cycle' = Keys
  BY DEF StoreOK
<1>3. cycle' = [j \in Keys |-> cycle'[j]]
  BY <1>2
<1> QED
  BY <1>1, <1>3 DEF CycleWritten

\* The rest of the store is as it was.
LEMMA CycleStore ==
    ASSUME StoreInv, NEW k \in Keys, CycleWritten(k), CycleOK(k)',
           \A j \in Keys \ {k} : j \in abandoned <=> j \in abandoned'
    PROVE  StoreInv'
<1>1. StoreOK'
  BY DEF StoreInv, StoreOK, CycleWritten
<1>2. \A j \in Keys : CycleOK(j)'
  <2> SUFFICES ASSUME NEW j \in Keys, j # k
               PROVE  CycleOK(j)'
    OBVIOUS
  <2>1. cycle'[j] = cycle[j] /\ stage' = stage
    BY DEF CycleWritten
  <2> QED
    BY <2>1 DEF StoreInv, CycleOK, At
<1>3. \A j \in Keys : Frontier(j)'
  BY DEF StoreInv, CycleWritten, Frontier, At
<1>4. \A j \in Keys, s \in Stages : RowsOK(j, s)' /\ Money(j, s)'
  BY DEF StoreInv, CycleWritten, RowsOK, Money
<1> QED
  BY <1>1, <1>2, <1>3, <1>4 DEF StoreInv

\* The stage before which a cycle stands is one.
LEMMA AtUnique ==
    ASSUME NEW k \in Keys, NEW s \in 1..(NStages + 1), NEW t \in 1..(NStages + 1),
           At(k, s), At(k, t)
    PROVE  s = t
<1>1. ASSUME NEW a \in 1..(NStages + 1), NEW b \in 1..(NStages + 1), At(k, a), At(k, b),
             a < b
      PROVE  FALSE
  <2>1. a \in Stages
    BY <1>1, RuntimeAssumption DEF Stages
  <2> QED
    BY <1>1, <2>1 DEF At
<1> QED
  BY <1>1

\* The key a run selects is one of the configured keys.
LEMMA SmallestIn ==
    ASSUME NEW S, S \subseteq Nat, S # {}
    PROVE  Smallest(S) \in S
BY LeastNat DEF Smallest

\* The selected key is a key.
LEMMA SelectedIn == SelectedKey \in Keys
<1> DEFINE open == {k \in Keys : cycle[k].status \notin Terminal \union {"NONE"}}
           new == {k \in Keys : cycle[k].status = "NONE"}
<1>1. open \subseteq Keys /\ new \subseteq Keys /\ Keys \subseteq Nat /\ 1 \in Keys
  BY RuntimeAssumption DEF Keys
<1>2. SelectedKey = IF open # {} THEN Smallest(open)
                    ELSE IF new # {} THEN Smallest(new) ELSE 1
  BY DEF SelectedKey
<1> HIDE DEF open, new
<1>3. open # {} => Smallest(open) \in open
  BY <1>1, SmallestIn
<1>4. new # {} => Smallest(new) \in new
  BY <1>1, SmallestIn
<1> QED
  BY <1>1, <1>2, <1>3, <1>4

\* finish_cycle on the row of the owner's key.
LEMMA FinishCycleRow ==
    ASSUME StoreOK, NEW k \in Keys, NEW status \in StageOutcomes,
           FinishCycle(k, status), UNCHANGED <<stage, attempt, provider, truth, calls>>
    PROVE  /\ CycleWritten(k)
           /\ cycle'[k].status = status
           /\ cycle'[k].next = IF status \in Terminal THEN Nil ELSE cycle[k].next
<1> DEFINE next == IF status \in Terminal THEN Nil ELSE cycle[k].next
           c == [cycle[k] EXCEPT !.status = status, !.next = next]
<1>1. IsCycle(cycle[k]) /\ next \in Stages \union {Nil}
  BY DEF StoreOK, IsCycle
<1>3. cycle' = [cycle EXCEPT ![k] = c]
  BY DEF FinishCycle
<1>4. IsCycle(c) /\ c.status = status /\ c.next = next
  <2>1. PICK d : d = cycle[k].spent
    OBVIOUS
  <2>2. cycle[k] \in [status : StageOutcomes \union {"NONE", "PENDING", "RUNNING"},
                      next : Stages \union {Nil}, spent : {d}]
    BY <1>1, <2>1 DEF IsCycle
  <2> HIDE DEF next
  <2>3. /\ c \in [status : StageOutcomes \union {"NONE", "PENDING", "RUNNING"},
                 next : Stages \union {Nil}, spent : {d}]
        /\ c.spent = d /\ c.status = status /\ c.next = next
    BY <1>1, <2>2
  <2> HIDE DEF c
  <2> QED
    BY <2>3 DEF IsCycle
<1> HIDE DEF c
<1>5. CycleWritten(k) /\ cycle'[k] = c
  BY <1>3, <1>4, CycleRow
<1> QED
  BY <1>4, <1>5

\* TimeBudgetReached, StopCycle, CompleteCycle: the owner closes the cycle's
\* row the way its stages stand, and goes.
LEMMA StepCloseCycle ==
    ASSUME RuntimeInv, NEW r \in Runs,
           TimeBudgetReached(r) \/ StopCycle(r) \/ CompleteCycle(r)
    PROVE  RuntimeInv'
<1> PICK k, s : k = run[r].key /\ s = run[r].at
  OBVIOUS
<1>1. /\ Owns(r) /\ RunGoto(r, "release")
      /\ UNCHANGED <<lease, guard, stage, attempt, provider, truth, calls, abandoned>>
  BY DEF TimeBudgetReached, StopCycle, CompleteCycle, Transacts, Active
<1>2. Went(r, "release", run[r].result)
  BY <1>1, GotoWent DEF RuntimeInv
<1>3. Moves(r)
  BY <1>1, <1>2 DEF Moves, Went
<1>4. Fits(run[r])'
  BY <1>2 DEF Went, Fits, Stands, Pays, Working, Walk
<1>5. Stands(run[r]) /\ StoreInv /\ StoreOK /\ run[r] \in RunRecord
  BY <1>1 DEF RuntimeInv, Fits, StoreInv, RunsOK
<1>6. k \in Keys /\ cycle[k].status # "NONE" /\ CycleOK(k)
  BY <1>5 DEF Stands, Working, Walk, TimeBudgetReached, StopCycle, CompleteCycle,
              Transacts, StoreInv
<1>7. CASE TimeBudgetReached(r)
  <2>1. /\ CycleWritten(k) /\ cycle'[k].status = "WAITING"
        /\ cycle'[k].next = cycle[k].next
    <3>1. FinishCycle(k, "WAITING") /\ "WAITING" \in StageOutcomes /\ "WAITING" \notin Terminal
      BY <1>7 DEF TimeBudgetReached, StageOutcomes, Terminal
    <3> QED
      BY <1>1, <1>5, <1>6, <3>1, FinishCycleRow
  <2>2. Points(run[r]) /\ s \in Stages
    BY ZenonT(60), <1>5, <1>7 DEF Stands, Walk, TimeBudgetReached, Transacts
  <2>3. CycleOK(k)'
    BY <1>1, <1>6, <2>1, <2>2, RuntimeAssumption DEF CycleOK, At, Points, Stages
  <2>4. StoreInv'
    BY <1>1, <1>5, <1>6, <2>1, <2>3, CycleStore
  <2> QED
    BY <1>1, <1>3, <1>4, <2>4, OwnerStep
<1>8. CASE StopCycle(r)
  <2> DEFINE status == run[r].result.status
  <2>1. /\ status \in StageOutcomes /\ status # "SUCCEEDED" /\ s \in Stages /\ At(k, s)
        /\ IF status = "SUPPRESSED" THEN StageAt(run[r]) = "SUPPRESSED" ELSE Points(run[r])
    BY <1>5, <1>8 DEF Stands, StopCycle, Transacts, RunRecord, Results, Done, Failure,
       Blocked, Suppressed, Waiting, Interrupted, Result, StageOutcomes, Terminal
  <2>2. /\ CycleWritten(k) /\ cycle'[k].status = status
        /\ cycle'[k].next = IF status \in Terminal THEN Nil ELSE cycle[k].next
    BY <1>1, <1>5, <1>6, <1>8, <2>1, FinishCycleRow DEF StopCycle
  <2> HIDE DEF status
  <2>3. CycleOK(k)'
    <3>1. CASE status = "SUPPRESSED"
      BY ZenonT(60), <1>1, <1>6, <2>1, <2>2, <3>1 DEF CycleOK, At, StageAt, Terminal
    <3>2. CASE status # "SUPPRESSED"
      <4>1. status \notin Terminal /\ status # "NONE" /\ cycle'[k].next = cycle[k].next
        BY <2>1, <2>2, <3>2 DEF Terminal, StageOutcomes
      <4> QED
        BY <1>1, <1>6, <2>1, <2>2, <3>2, <4>1, RuntimeAssumption
        DEF CycleOK, At, Points, Stages
    <3> QED
      BY <3>1, <3>2
  <2>4. StoreInv'
    BY <1>1, <1>5, <1>6, <2>2, <2>3, CycleStore
  <2> QED
    BY <1>1, <1>3, <1>4, <2>4, OwnerStep
<1>9. CASE CompleteCycle(r)
  <2>1. /\ CycleWritten(k) /\ cycle'[k].status = "SUCCEEDED"
        /\ cycle'[k].next = Nil
    <3>1. FinishCycle(k, "SUCCEEDED") /\ "SUCCEEDED" \in StageOutcomes
          /\ "SUCCEEDED" \in Terminal
      BY <1>9 DEF CompleteCycle, StageOutcomes, Terminal
    <3> QED
      BY <1>1, <1>5, <1>6, <3>1, FinishCycleRow
  <2>2. k \notin abandoned => At(k, NStages + 1)
    BY <1>5, <1>9 DEF Stands, CompleteCycle, Transacts
  <2>3. CycleOK(k)'
    BY <1>1, <2>1, <2>2 DEF CycleOK, At
  <2>4. StoreInv'
    BY <1>1, <1>5, <1>6, <2>1, <2>3, CycleStore
  <2> QED
    BY <1>1, <1>3, <1>4, <2>4, OwnerStep
<1> QED
  BY <1>7, <1>8, <1>9

\* The operator's abandonment: the run that works on the cycle goes on, and
\* nothing is said of the row's next stage any more.
LEMMA StepAbandon ==
    ASSUME RuntimeInv, NEW k \in Keys, AbandonCycle(k)
    PROVE  RuntimeInv'
<1> DEFINE c == [cycle[k] EXCEPT !.status = "SUPPRESSED", !.next = Nil]
<1>1. /\ cycle' = [cycle EXCEPT ![k] = c] /\ abandoned' = abandoned \union {k}
      /\ UNCHANGED <<lease, guard, run, stage, attempt, provider, truth, calls>>
  BY DEF AbandonCycle
<1>2. StoreOK /\ StoreInv /\ IsCycle(cycle[k])
  BY DEF RuntimeInv, StoreInv, StoreOK
<1>3. IsCycle(c) /\ c.status = "SUPPRESSED" /\ c.next = Nil
  <2>1. PICK d : d = cycle[k].spent
    OBVIOUS
  <2>2. /\ c \in [status : StageOutcomes \union {"NONE", "PENDING", "RUNNING"},
                  next : Stages \union {Nil}, spent : {d}]
        /\ c.spent = d /\ c.status = "SUPPRESSED" /\ c.next = Nil
    BY <1>2, <2>1 DEF IsCycle, StageOutcomes, Terminal
  <2> HIDE DEF c
  <2> QED
    BY <2>2 DEF IsCycle
<1> HIDE DEF c
<1>4. CycleWritten(k) /\ cycle'[k] = c
  BY <1>1, <1>2, <1>3, CycleRow
<1>5. CycleOK(k)'
  BY <1>1, <1>3, <1>4 DEF CycleOK
<1>6. StoreInv'
  BY <1>1, <1>2, <1>4, <1>5, CycleStore
<1>7. RunsOK' /\ Tokens' /\ FencedCalls'
  BY <1>1 DEF RuntimeInv, RunsOK, Tokens, FencedCalls, Owns
<1>8. ASSUME NEW q \in Runs, Owns(q)'
      PROVE  Fits(run[q])'
  <2>1. Fits(run[q])
    BY <1>1, <1>8 DEF RuntimeInv, Owns
  <2>2. PICK w : w = run[q] /\ w = run'[q]
    BY <1>1
  <2>3. Fits(w)
    BY <2>1, <2>2
  <2>4. Pays(w)'
    BY Zenon, <1>1, <2>3 DEF Fits, Pays, Reserved, ProviderRun, CallsMade
  <2>5. Stands(w)'
    <3>1. CASE w.key = k
      BY <1>1, <1>3, <1>4, <2>3, <3>1 DEF Fits, Stands, At, StageAt, Points
    <3>2. CASE w.key # k
      <4>1. w.key \in Keys => cycle'[w.key] = cycle[w.key]
        BY <1>4, <3>2 DEF CycleWritten
      <4>2. w.key \in abandoned' <=> w.key \in abandoned
        BY <1>1, <3>2
      <4> QED
        BY <1>1, <2>3, <4>1, <4>2
        DEF Fits, Stands, At, StageAt, Points, Working, Walk
    <3> QED
      BY <3>1, <3>2
  <2> QED
    BY <2>2, <2>4, <2>5 DEF Fits
<1> QED
  BY <1>6, <1>7, <1>8 DEF RuntimeInv

\* A run resumes the cycle at its next stage, or creates it.
LEMMA StepResume ==
    ASSUME RuntimeInv, NEW r \in Runs, ResumeOrCreateCycle(r)
    PROVE  RuntimeInv'
<1> PICK k : k = SelectedKey
  OBVIOUS
<1> PICK c : c = IF cycle[k].status = "NONE" THEN NewCycle ELSE cycle[k]
  OBVIOUS
<1> PICK pc : pc = IF c.next # Nil THEN "stage"
                   ELSE IF c.status \in Terminal THEN "release" ELSE "complete"
  OBVIOUS
<1>1. /\ Owns(r) /\ cycle' = [cycle EXCEPT ![k] = c]
      /\ run' = [run EXCEPT ![r].key = k, ![r].at = c.next, ![r].pc = pc]
      /\ UNCHANGED <<lease, guard, stage, attempt, provider, truth, calls, abandoned>>
  BY DEF ResumeOrCreateCycle, Transacts, Active, StartAt
<1>2. k \in Keys
  BY SelectedIn
<1>3. StoreOK /\ StoreInv /\ IsCycle(cycle[k]) /\ CycleOK(k)
  BY <1>2 DEF RuntimeInv, StoreInv, StoreOK
<1>4. IsCycle(c) /\ c.status # "NONE" /\ c.next \in Stages \union {Nil}
  <2>1. CASE cycle[k].status = "NONE"
    <3>1. c = NewCycle /\ 1 \in Stages
      BY <2>1, RuntimeAssumption DEF Stages
    <3> QED
      BY <3>1 DEF NewCycle, IsCycle
  <2>2. CASE cycle[k].status # "NONE"
    BY <1>3, <2>2 DEF IsCycle
  <2> QED
    BY <2>1, <2>2
<1>5. CycleWritten(k) /\ cycle'[k] = c
  BY <1>1, <1>2, <1>3, <1>4, CycleRow
<1>6. CycleOK(k)'
  <2>1. CASE cycle[k].status = "NONE"
    <3>1. c.next = 1 /\ 1 \in Stages /\ \A i \in Stages : stage[k][i].status = "PENDING"
                                                         /\ ~(i < 1)
      BY <1>3, <2>1, RuntimeAssumption DEF NewCycle, Stages, CycleOK
    <3>2. At(k, 1)'
      BY <1>1, <3>1 DEF At
    <3>3. 1 # Nil
      BY RuntimeAssumption
    <3> QED
      BY <1>1, <1>4, <1>5, <2>1, <3>1, <3>2, <3>3 DEF CycleOK, NewCycle
  <2>2. CASE cycle[k].status # "NONE"
    BY <1>1, <1>3, <1>5, <2>2 DEF CycleOK, At
  <2> QED
    BY <2>1, <2>2
<1>7. StoreInv'
  BY <1>1, <1>2, <1>3, <1>5, <1>6, CycleStore
<1> DEFINE new == [run[r] EXCEPT !.key = k, !.at = c.next, !.pc = pc]
<1>8. /\ new \in RunRecord /\ new.key = k /\ new.at = c.next /\ new.pc = pc
      /\ new.token = run[r].token
  <2>1. run[r] \in RunRecord /\ pc \in Working \union {"idle", "started", "release"}
    BY DEF RuntimeInv, RunsOK, Working, Walk
  <2> QED
    BY ZenonT(60), <1>2, <1>4, <2>1 DEF RunRecord
<1>9. run' = [run EXCEPT ![r] = new]
  BY <1>1
<1> HIDE DEF new
<1>10. /\ run' \in [Runs -> RunRecord] /\ run'[r] = new
       /\ \A q \in Runs \ {r} : run'[q] = run[q]
  BY <1>8, <1>9 DEF RuntimeInv, RunsOK
<1>11. Moves(r)
  BY <1>1, <1>8, <1>10 DEF Moves
<1>12. Fits(run[r])'
  <2>1. /\ run'[r].key = k /\ run'[r].at = c.next /\ run'[r].pc = pc
    BY <1>8, <1>10
  <2>2. CASE c.next # Nil
    BY <1>2, <1>4, <1>5, <1>6, <2>1, <2>2
    DEF Fits, Stands, Pays, Working, Walk, CycleOK, StageAt, Points
  <2>3. CASE c.next = Nil /\ c.status \in Terminal
    BY <2>1, <2>3 DEF Fits, Stands, Pays, Working, Walk
  <2>4. CASE c.next = Nil /\ c.status \notin Terminal
    BY <1>2, <1>4, <1>5, <1>6, <2>1, <2>4
    DEF Fits, Stands, Pays, Working, Walk, CycleOK, Terminal
  <2> QED
    BY <2>2, <2>3, <2>4
<1> QED
  BY <1>1, <1>7, <1>11, <1>12, OwnerStep

-----------------------------------------------------------------------------
(* Stages.                                                                 *)

\* The time of a retry comes: no status changes.
LEMMA StepRetryDue ==
    ASSUME RuntimeInv, NEW k \in Keys, NEW s \in Stages, RetryDue(k, s)
    PROVE  RuntimeInv'
<1> DEFINE new == [stage[k][s] EXCEPT !.due = TRUE]
<1>1. /\ stage' = [stage EXCEPT ![k][s] = new]
      /\ UNCHANGED <<lease, guard, run, cycle, attempt, provider, truth, calls, abandoned>>
  BY DEF RetryDue
<1>2. StoreInv /\ stage \in [Keys -> [Stages -> StageRecord]]
  BY DEF RuntimeInv, StoreInv, StoreOK
<1>3. new \in StageRecord /\ new.status = stage[k][s].status
  <2>1. stage[k][s] \in StageRecord
    BY <1>2
  <2> QED
    BY <2>1 DEF StageRecord
<1> HIDE DEF new
<1>4. /\ stage' \in [Keys -> [Stages -> StageRecord]]
      /\ \A j \in Keys, i \in Stages : stage'[j][i].status = stage[j][i].status
  BY <1>1, <1>2, <1>3
<1>5. \A j \in Keys : \A t : At(j, t)' <=> At(j, t)
  BY <1>4 DEF At
<1>6. StoreInv'
  <2>1. StoreOK'
    BY <1>1, <1>4 DEF StoreInv, StoreOK, RuntimeInv
  <2>2. \A j \in Keys : CycleOK(j)'
    <3> SUFFICES ASSUME NEW j \in Keys
                 PROVE  CycleOK(j)'
      OBVIOUS
    <3>1. CycleOK(j) /\ cycle'[j] = cycle[j] /\ cycle[j].next \in Stages \union {Nil}
      BY <1>1, <1>2 DEF StoreInv, StoreOK, IsCycle
    <3> QED
      BY <1>1, <1>4, <1>5, <3>1 DEF CycleOK
  <2>3. \A j \in Keys : Frontier(j)'
    BY <1>2, <1>5 DEF StoreInv, Frontier
  <2>4. \A j \in Keys, i \in Stages : RowsOK(j, i)' /\ Money(j, i)'
    BY <1>1, <1>2, <1>4 DEF StoreInv, RowsOK, Money
  <2> QED
    BY <2>1, <2>2, <2>3, <2>4 DEF StoreInv
<1>7. RunsOK' /\ Tokens' /\ FencedCalls'
  BY <1>1 DEF RuntimeInv, RunsOK, Tokens, FencedCalls, Owns
<1>8. ASSUME NEW q \in Runs, Owns(q)'
      PROVE  Fits(run[q])'
  <2>1. Fits(run[q])
    BY <1>1, <1>8 DEF RuntimeInv, Owns
  <2>2. PICK w : w = run[q] /\ w = run'[q]
    BY <1>1
  <2>3. Fits(w)
    BY <2>1, <2>2
  <2>4. Pays(w)'
    BY Zenon, <1>1, <2>3 DEF Fits, Pays, Reserved, ProviderRun, CallsMade
  <2>5. Stands(w)'
    BY <1>1, <1>4, <1>5, <2>3 DEF Fits, Stands, StageAt, Points, Working, Walk
  <2> QED
    BY <2>2, <2>4, <2>5 DEF Fits
<1> QED
  BY <1>6, <1>7, <1>8 DEF RuntimeInv

\* Only the rows of stage s of key k change.
Elsewhere(k, s) == \A j \in Keys, i \in Stages : j # k \/ i # s =>
    /\ stage'[j][i] = stage[j][i] /\ attempt'[j][i] = attempt[j][i]
    /\ provider'[j][i] = provider[j][i] /\ calls'[j][i] = calls[j][i]

\* The rows of every other stage are as they were.
LEMMA ElsewhereRows ==
    ASSUME StoreInv, NEW k \in Keys, NEW s \in Stages, Elsewhere(k, s),
           RowsOK(k, s)', Money(k, s)'
    PROVE  \A j \in Keys, i \in Stages : RowsOK(j, i)' /\ Money(j, i)'
<1> SUFFICES ASSUME NEW j \in Keys, NEW i \in Stages, j # k \/ i # s
             PROVE  RowsOK(j, i)' /\ Money(j, i)'
  OBVIOUS
<1>1. /\ stage'[j][i] = stage[j][i] /\ attempt'[j][i] = attempt[j][i]
      /\ provider'[j][i] = provider[j][i] /\ calls'[j][i] = calls[j][i]
  BY DEF Elsewhere
<1>2. RowsOK(j, i) /\ Money(j, i)
  BY DEF StoreInv
<1>3. RowsOK(j, i)'
  BY <1>1, <1>2 DEF RowsOK
<1>4. Money(j, i)'
  BY <1>1, <1>2 DEF Money
<1> QED
  BY <1>3, <1>4

\* The other cycles and stages are as they were.
LEMMA SpotStore ==
    ASSUME StoreInv, NEW k \in Keys, NEW s \in Stages, StoreOK', Elsewhere(k, s),
           RowsOK(k, s)', Money(k, s)', CycleOK(k)', Frontier(k)',
           \A j \in Keys \ {k} : cycle'[j] = cycle[j], abandoned' = abandoned
    PROVE  StoreInv'
<1>1. \A j \in Keys, i \in Stages : RowsOK(j, i)' /\ Money(j, i)'
  BY ElsewhereRows
<1>2. \A j \in Keys : CycleOK(j)' /\ Frontier(j)'
  <2> SUFFICES ASSUME NEW j \in Keys, j # k
               PROVE  CycleOK(j)' /\ Frontier(j)'
    OBVIOUS
  <2>1. \A i \in Stages : stage'[j][i] = stage[j][i]
    BY DEF Elsewhere
  <2>2. \A t : At(j, t)' <=> At(j, t)
    BY <2>1 DEF At
  <2>3. CycleOK(j) /\ Frontier(j) /\ cycle[j].next \in Stages \union {Nil}
        /\ cycle'[j] = cycle[j]
    BY DEF StoreInv, StoreOK, IsCycle
  <2> QED
    BY <2>1, <2>2, <2>3 DEF CycleOK, Frontier
<1> QED
  BY <1>1, <1>2 DEF StoreInv

\* No status changes.
LEMMA MoneyStore ==
    ASSUME StoreInv, NEW k \in Keys, NEW s \in Stages, StoreOK', Elsewhere(k, s),
           RowsOK(k, s)', Money(k, s)', stage' = stage, abandoned' = abandoned,
           \A j \in Keys : cycle'[j].status = cycle[j].status
                           /\ cycle'[j].next = cycle[j].next
    PROVE  StoreInv'
<1>1. \A j \in Keys, i \in Stages : RowsOK(j, i)' /\ Money(j, i)'
  BY ElsewhereRows
<1>2. \A j \in Keys : CycleOK(j)' /\ Frontier(j)'
  BY DEF StoreInv, CycleOK, Frontier, At
<1> QED
  BY <1>1, <1>2 DEF StoreInv

\* One element of one row is replaced.
LEMMA SpotExcept ==
    ASSUME NEW V, NEW f \in [Keys -> [Stages -> Seq(V)]], NEW k \in Keys, NEW s \in Stages,
           NEW n \in 1..Len(f[k][s]), NEW v \in V, NEW g, g = [f EXCEPT ![k][s][n] = v]
    PROVE  /\ g \in [Keys -> [Stages -> Seq(V)]]
           /\ Len(g[k][s]) = Len(f[k][s])
           /\ g[k][s][n] = v
           /\ \A i \in 1..Len(f[k][s]) : i # n => g[k][s][i] = f[k][s][i]
           /\ \A j \in Keys, i \in Stages : j # k \/ i # s => g[j][i] = f[j][i]
<1> DEFINE row == [f[k][s] EXCEPT ![n] = v]
<1>1. f[k][s] \in Seq(V)
  OBVIOUS
<1>2. row \in Seq(V) /\ Len(row) = Len(f[k][s])
      /\ \A i \in 1..Len(f[k][s]) : row[i] = IF i = n THEN v ELSE f[k][s][i]
  BY <1>1, ExceptSeq
<1>3. g = [f EXCEPT ![k][s] = row]
  OBVIOUS
<1> HIDE DEF row
<1>4. g[k][s] = row /\ g \in [Keys -> [Stages -> Seq(V)]]
      /\ \A j \in Keys, i \in Stages : j # k \/ i # s => g[j][i] = f[j][i]
  BY <1>2, <1>3
<1> QED
  BY <1>2, <1>4

\* An element is appended to one row.
LEMMA SpotAppend ==
    ASSUME NEW V, NEW f \in [Keys -> [Stages -> Seq(V)]], NEW k \in Keys, NEW s \in Stages,
           NEW v \in V, NEW g, g = [f EXCEPT ![k][s] = Append(f[k][s], v)]
    PROVE  /\ g \in [Keys -> [Stages -> Seq(V)]]
           /\ Len(f[k][s]) \in Nat /\ Len(g[k][s]) = Len(f[k][s]) + 1
           /\ g[k][s][Len(f[k][s]) + 1] = v
           /\ \A i \in 1..Len(f[k][s]) : g[k][s][i] = f[k][s][i]
           /\ \A j \in Keys, i \in Stages : j # k \/ i # s => g[j][i] = f[j][i]
<1> DEFINE row == Append(f[k][s], v)
<1>1. f[k][s] \in Seq(V)
  OBVIOUS
<1>2. /\ row \in Seq(V) /\ Len(f[k][s]) \in Nat /\ Len(row) = Len(f[k][s]) + 1
      /\ row[Len(f[k][s]) + 1] = v
      /\ \A i \in 1..Len(f[k][s]) : row[i] = f[k][s][i]
  BY <1>1
<1>3. g = [f EXCEPT ![k][s] = row]
  OBVIOUS
<1> HIDE DEF row
<1>4. g[k][s] = row /\ g \in [Keys -> [Stages -> Seq(V)]]
      /\ \A j \in Keys, i \in Stages : j # k \/ i # s => g[j][i] = f[j][i]
  BY SMTT(60), <1>2, <1>3
<1> QED
  BY <1>2, <1>4

\* What is known of the rows the owner works on.
LEMMA OwnerRows ==
    ASSUME RuntimeInv, NEW r \in Runs, Owns(r), run[r].pc \in Walk,
           NEW k, NEW s, k = run[r].key, s = run[r].at
    PROVE  /\ k \in Keys /\ s \in Stages
           /\ StoreOK /\ StoreInv /\ Stands(run[r]) /\ Pays(run[r])
           /\ RowsOK(k, s) /\ Money(k, s) /\ CycleOK(k) /\ At(k, s)
           /\ attempt[k][s] \in Seq(AttemptRecord) /\ provider[k][s] \in Seq(ProviderRecord)
           /\ calls[k][s] \in Seq(Nat) /\ Len(attempt[k][s]) \in Nat
           /\ \A n \in 1..Len(attempt[k][s]) :
                 /\ attempt[k][s][n] \in AttemptRecord
                 /\ provider[k][s][n] \in ProviderRecord
                 /\ calls[k][s][n] \in Nat
           /\ stage[k][s] \in StageRecord
           /\ stage[k][s].status # "PENDING" =>
                 Len(attempt[k][s]) \in 1..Len(attempt[k][s])
<1>1. /\ StoreOK /\ StoreInv /\ Stands(run[r]) /\ Pays(run[r])
  BY DEF RuntimeInv, Fits, StoreInv
<1>2. k \in Keys /\ s \in Stages /\ At(k, s)
  BY <1>1 DEF Stands, Working
<1>3. RowsOK(k, s) /\ Money(k, s) /\ CycleOK(k)
  BY <1>1, <1>2 DEF StoreInv
<1>4. /\ attempt[k][s] \in Seq(AttemptRecord) /\ provider[k][s] \in Seq(ProviderRecord)
      /\ calls[k][s] \in Seq(Nat) /\ stage[k][s] \in StageRecord
  BY <1>1, <1>2 DEF StoreOK
<1>5. Len(attempt[k][s]) \in Nat
  BY <1>4, LenProperties
<1>6. \A n \in 1..Len(attempt[k][s]) : attempt[k][s][n] \in AttemptRecord
  BY <1>4, ElementOfSeq
<1>7. \A n \in 1..Len(attempt[k][s]) : provider[k][s][n] \in ProviderRecord
  BY <1>3, <1>4, ElementOfSeq DEF RowsOK
<1>8. \A n \in 1..Len(attempt[k][s]) : calls[k][s][n] \in Nat
  BY <1>3, <1>4, ElementOfSeq DEF RowsOK
<1>9. stage[k][s].status # "PENDING" =>
         Len(attempt[k][s]) \in 1..Len(attempt[k][s])
  BY <1>3, <1>5 DEF RowsOK
<1> QED
  BY <1>1, <1>2, <1>3, <1>4, <1>5, <1>6, <1>7, <1>8, <1>9

\* The owner's place while no status changes.
SameStatus ==
    /\ stage' = stage /\ abandoned' = abandoned
    /\ \A j \in Keys : cycle'[j].status = cycle[j].status /\ cycle'[j].next = cycle[j].next

\* The owner moves on within a stage that runs.
LEMMA StandsOn ==
    ASSUME NEW r \in Runs, Stands(run[r]), run[r].pc \in Walk,
           StageAt(run[r]) = "RUNNING", SameStatus,
           NEW pc \in Walk \ {"stage"}, NEW result, Went(r, pc, result)
    PROVE  Stands(run[r])'
  BY DEF Stands, Went, SameStatus, Working, Walk, StageAt, Points, At

\* UnpaidAction: the result is in the domain, or the stage waits.
LEMMA StepUnpaid ==
    ASSUME RuntimeInv, NEW r \in Runs, UnpaidAction(r)
    PROVE  RuntimeInv'
<1> PICK k, s : k = run[r].key /\ s = run[r].at
  OBVIOUS
<1>1. /\ Owns(r) /\ run[r].pc = "execute" /\ run[r].pc \in Walk \ {"stage"}
      /\ UNCHANGED <<lease, guard, cycle, stage, attempt, provider, calls, abandoned>>
  BY DEF UnpaidAction, Transacts, Active, Walk
<1>2. PICK result \in Results : FinishWith(r, result)
  BY DEF UnpaidAction, Results
<1>3. Went(r, "finish", result)
  BY <1>2, FinishWent DEF RuntimeInv
<1>4. k \in Keys /\ s \in Stages /\ StoreOK /\ StoreInv /\ Stands(run[r])
  BY <1>1, OwnerRows
<1>5. truth' \in [Keys -> [Stages -> BOOLEAN]]
  <2>1. truth \in [Keys -> [Stages -> BOOLEAN]]
    BY <1>4 DEF StoreOK
  <2>2. truth' = truth \/ truth' = [truth EXCEPT ![k][s] = TRUE]
    BY DEF UnpaidAction
  <2>3. [truth EXCEPT ![k][s] = TRUE] \in [Keys -> [Stages -> BOOLEAN]]
    BY ONLY <1>4, <2>1
  <2> QED
    BY ONLY <2>1, <2>2, <2>3
<1>6. StoreInv'
  BY <1>1, <1>4, <1>5 DEF StoreInv, StoreOK, CycleOK, Frontier, At, RowsOK, Money
<1>7. Moves(r)
  BY <1>1, <1>3 DEF Moves, Went
<1>8. Stands(run[r])'
  <2>1. StageAt(run[r]) = "RUNNING" /\ SameStatus /\ "finish" \in Walk \ {"stage"}
        /\ run[r].pc \in Walk
    BY <1>1, WalkRuns DEF SameStatus, Walk
  <2> QED
    BY <1>3, <1>4, <2>1, StandsOn
<1>9. Fits(run[r])'
  BY <1>3, <1>8 DEF Fits, Pays, Went
<1> QED
  BY <1>1, <1>6, <1>7, <1>9, OwnerStep

\* ResumeRunningStage: the attempt of a dead run goes on.
LEMMA StepResumeStage ==
    ASSUME RuntimeInv, NEW r \in Runs, ResumeRunningStage(r)
    PROVE  RuntimeInv'
<1>1. /\ UNCHANGED <<lease, storeVars>> /\ Unlocks(r) /\ run[r].pc \in Walk
      /\ StageAt(run[r]) = "RUNNING" /\ Begun(r)
  BY DEF ResumeRunningStage, Transacts, storeVars, Unlocks, Walk, StageAt
<1>2. Ready(r, "finish") /\ Ready(r, "reserve")
  BY <1>1 DEF Ready
<1>3. CASE FinishWith(r, Waiting)
  <2>1. Went(r, "finish", Waiting)
    BY <1>3, FinishWent DEF RuntimeInv, Results
  <2> QED
    BY <1>1, <1>2, <2>1, LocalMove
<1>4. CASE RunGoto(r, "reserve")
  <2>1. Went(r, "reserve", run[r].result)
    BY <1>4, GotoWent DEF RuntimeInv, Working, Walk
  <2> QED
    BY <1>1, <1>2, <2>1, LocalMove
<1> QED
  BY <1>1, <1>3, <1>4 DEF Begun

\* The provider's rows alone change, of the owner's attempt.
WritesRun(r, k, s, n, row) ==
    /\ Owns(r) /\ run[r].pc \in Walk \ {"stage"}
    /\ k = run[r].key /\ s = run[r].at /\ n = Len(attempt[k][s])
    /\ row \in ProviderRecord /\ row.status # "NONE"
    /\ provider' = [provider EXCEPT ![k][s][n] = row]
    /\ calls[k][s][n] <= 1 + row.replays
    /\ Reserved(run[r]) = Envelope(s) /\ s \in Paid
    /\ UNCHANGED <<cycle, stage, attempt, calls, abandoned>>
    /\ truth' \in [Keys -> [Stages -> BOOLEAN]]

\* Such a write leaves the store in order.
LEMMA ProviderWritten ==
    ASSUME RuntimeInv, NEW r \in Runs, NEW k, NEW s, NEW n, NEW row,
           WritesRun(r, k, s, n, row)
    PROVE  StoreInv' /\ SameStatus /\ provider'[k][s][n] = row
<1>. USE DEF WritesRun
<1>1. /\ k \in Keys /\ s \in Stages /\ StoreOK /\ StoreInv /\ RowsOK(k, s) /\ Money(k, s)
      /\ StageAt(run[r]) = "RUNNING" /\ run[r].pc \in Walk
  BY OwnerRows, WalkRuns
<1>2. n \in 1..Len(provider[k][s]) /\ n \in 1..Len(attempt[k][s])
      /\ provider \in [Keys -> [Stages -> Seq(ProviderRecord)]]
  <2>1. stage[k][s].status # "PENDING"
    BY <1>1 DEF StageAt
  <2> QED
    BY ZenonT(60), <1>1, <2>1, OwnerRows DEF RowsOK, StoreOK
<1>3. /\ provider' \in [Keys -> [Stages -> Seq(ProviderRecord)]]
      /\ Len(provider'[k][s]) = Len(provider[k][s])
      /\ provider'[k][s][n] = row
      /\ \A i \in 1..Len(provider[k][s]) : i # n => provider'[k][s][i] = provider[k][s][i]
      /\ \A j \in Keys, i \in Stages : j # k \/ i # s => provider'[j][i] = provider[j][i]
  <2>1. k \in Keys /\ s \in Stages /\ row \in ProviderRecord
        /\ provider' = [provider EXCEPT ![k][s][n] = row]
    BY <1>1
  <2> QED
    BY ONLY SMTT(60), <1>2, <2>1, SpotExcept
<1>4. StoreOK'
  BY Zenon, <1>1, <1>3 DEF StoreOK
<1>5. RowsOK(k, s)'
  BY Zenon, <1>1, <1>3 DEF RowsOK
<1>6. Money(k, s)'
  <2> SUFFICES ASSUME NEW i \in 1..Len(attempt[k][s])
               PROVE  /\ attempt[k][s][i].reserved \in {0, Envelope(s)}
                      /\ attempt[k][s][i].proposed => attempt[k][s][i].reserved = Envelope(s)
                      /\ IF provider'[k][s][i].status = "NONE"
                           THEN calls[k][s][i] = 0
                           ELSE s \in Paid /\ attempt[k][s][i].reserved = Envelope(s)
                      /\ calls[k][s][i] <= 1 + provider'[k][s][i].replays
    BY Zenon DEF Money
  <2>1. CASE i = n
    BY Zenon, <1>1, <1>3, <2>1 DEF Money, Reserved
  <2>2. CASE i # n
    <3>1. provider'[k][s][i] = provider[k][s][i]
      BY Zenon, <1>1, <1>3, <2>2 DEF RowsOK
    <3> QED
      BY Zenon, <1>1, <3>1 DEF Money
  <2> QED
    BY Zenon, <2>1, <2>2
<1>7. Elsewhere(k, s)
  BY ZenonT(60), <1>3 DEF Elsewhere
<1>8. SameStatus
  BY DEF SameStatus
<1> QED
  BY ZenonT(60), <1>1, <1>3, <1>4, <1>5, <1>6, <1>7, <1>8, MoneyStore DEF SameStatus

\* What a finished provider run amounts to is a result.
LEMMA ResultOfRun ==
    ASSUME NEW status \in RunStatuses
    PROVE  ResultOf(status) \in Results
  BY DEF RunStatuses, ResultOf, Results

\* A provider run's row, with its status or its replay written.
LEMMA RunRow ==
    ASSUME NEW row \in ProviderRecord
    PROVE  /\ row.replays \in Nat /\ row.replays <= 1
           /\ [row EXCEPT !.replays = 1] \in ProviderRecord
           /\ [row EXCEPT !.replays = 1].status = row.status
           /\ [row EXCEPT !.replays = 1].replays = 1
           /\ \A v \in RunStatuses \union {"STARTED"} :
                 /\ [row EXCEPT !.status = v] \in ProviderRecord
                 /\ [row EXCEPT !.status = v].status = v
                 /\ [row EXCEPT !.status = v].replays = row.replays
<1>1. 1 \in 0..1
  OBVIOUS
<1>2. row.replays \in 0..1
  BY DEF ProviderRecord
<1> QED
  BY <1>1, <1>2 DEF ProviderRecord

\* What the ledgers say of one attempt.
LEMMA MoneyAt ==
    ASSUME NEW k, NEW s, Money(k, s), NEW n \in 1..Len(attempt[k][s])
    PROVE  /\ attempt[k][s][n].reserved \in {0, Envelope(s)}
           /\ attempt[k][s][n].proposed => attempt[k][s][n].reserved = Envelope(s)
           /\ provider[k][s][n].status = "NONE" => calls[k][s][n] = 0
           /\ provider[k][s][n].status # "NONE" =>
                 s \in Paid /\ attempt[k][s][n].reserved = Envelope(s)
           /\ calls[k][s][n] <= 1 + provider[k][s][n].replays
  BY DEF Money

\* resume_started: the owner learns what became of the attempt's run, and
\* replays it once if it was cut short.
LEMMA StepResumeStarted ==
    ASSUME RuntimeInv, NEW r \in Runs, ResumeStarted(r)
    PROVE  RuntimeInv'
<1> PICK k, s : k = run[r].key /\ s = run[r].at
  OBVIOUS
<1> PICK n : n = Len(attempt[k][s])
  OBVIOUS
<1> PICK row : row = provider[k][s][n]
  OBVIOUS
<1>1. /\ Owns(r) /\ run[r].pc = "execute" /\ guard = Nil /\ s \in Paid /\ ~truth[k][s]
      /\ UNCHANGED <<lease, cycle, stage, attempt, truth, calls, abandoned>>
      /\ run[r].pc \in Walk /\ run[r].pc \in Walk \ {"stage"}
  BY Zenon DEF ResumeStarted, Transacts, Active, LeaseRowFree, Walk
<1>2. /\ k \in Keys /\ s \in Stages /\ StoreOK /\ Stands(run[r]) /\ Pays(run[r])
      /\ Money(k, s) /\ StageAt(run[r]) = "RUNNING"
  BY <1>1, OwnerRows, WalkRuns
<1>3. Reserved(run[r]) = Envelope(s) /\ row = ProviderRun(run[r])
  BY ZenonT(60), <1>1, <1>2 DEF Pays, ProviderRun
<1>4. n \in 1..Len(attempt[k][s]) /\ row \in ProviderRecord /\ calls[k][s][n] \in Nat
  <2>1. stage[k][s].status # "PENDING"
    BY <1>2 DEF StageAt
  <2> QED
    BY <1>1, <2>1, OwnerRows
<1>5. CASE row.status = "NONE" /\ RunGoto(r, "starting") /\ UNCHANGED <<guard, provider>>
  <2>1. Went(r, "starting", run[r].result)
    BY <1>5, GotoWent DEF RuntimeInv, Working, Walk
  <2>2. Ready(r, "starting")
    BY ZenonT(60), <1>1, <1>2, <1>3, <1>5 DEF Ready
  <2>3. UNCHANGED storeVars /\ Unlocks(r)
    BY <1>1, <1>5 DEF storeVars, Unlocks
  <2> QED
    BY ZenonT(60), <1>1, <2>1, <2>2, <2>3, LocalMove
<1>6. ASSUME NEW result \in Results, FinishWith(r, result), UNCHANGED <<guard, provider>>
      PROVE  RuntimeInv'
  <2>1. Went(r, "finish", result)
    BY <1>6, FinishWent DEF RuntimeInv
  <2>2. Ready(r, "finish")
    BY <1>1, <1>2 DEF Ready
  <2>3. UNCHANGED storeVars /\ Unlocks(r)
    BY <1>1, <1>6 DEF storeVars, Unlocks
  <2> QED
    BY <1>1, <2>1, <2>2, <2>3, LocalMove
<1>7. CASE /\ ClaimsRecovery(row) /\ provider' = [provider EXCEPT ![k][s][n].replays = 1]
           /\ guard' = r /\ RunGoto(r, "calling")
  <2> DEFINE new == [row EXCEPT !.replays = 1]
  <2>1. /\ new \in ProviderRecord /\ new.status = "STARTED" /\ new.replays = 1
        /\ row.replays = 0 /\ row.status = "STARTED"
    BY ZenonT(60), <1>4, <1>7, RunRow DEF ClaimsRecovery
  <2>2. provider' = [provider EXCEPT ![k][s][n] = new]
    BY Zenon, <1>7
  <2>3. calls[k][s][n] <= 1
    <3>1. calls[k][s][n] <= 1 + row.replays
      BY ZenonT(60), <1>2, <1>4, MoneyAt
    <3>2. PICK c \in Nat : c = calls[k][s][n]
      BY ZenonT(60), <1>4
    <3>3. c <= 1 + 0
      BY Zenon, <2>1, <3>1, <3>2
    <3>4. c <= 1
      BY ONLY <3>3, c \in Nat
    <3> QED
      BY <3>2, <3>4
  <2> HIDE DEF new
  <2>4. new.status # "NONE" /\ calls[k][s][n] <= 1 + new.replays
    <3>1. PICK c \in Nat : c = calls[k][s][n]
      BY <1>4
    <3>2. c <= 1
      BY Zenon, <2>3, <3>1
    <3>3. c <= 1 + 1
      BY ONLY <3>2, c \in Nat
    <3>4. calls[k][s][n] <= 1 + new.replays
      BY Zenon, <2>1, <3>1, <3>3
    <3>5. new.status # "NONE"
      BY ONLY <2>1
    <3> QED
      BY <3>4, <3>5
  <2>5. truth' \in [Keys -> [Stages -> BOOLEAN]]
    BY <1>1, <1>2 DEF StoreOK
  <2>6. StoreInv' /\ SameStatus /\ provider'[k][s][n] = new
    <3>1. WritesRun(r, k, s, n, new)
      BY <1>1, <1>3, <2>1, <2>2, <2>4, <2>5 DEF WritesRun
    <3> QED
      BY SMTT(60), <3>1, ProviderWritten
  <2>7. Went(r, "calling", run[r].result)
    BY Zenon, <1>7, GotoWent DEF RuntimeInv, Working, Walk
  <2>8. Moves(r)
    BY Zenon, <1>1, <1>7, <2>7 DEF Moves, Went
  <2>9. Stands(run[r])'
    <3>1. "calling" \in Walk \ {"stage"}
      BY DEF Walk
    <3> QED
      BY <1>1, <1>2, <2>6, <2>7, <3>1, StandsOn
  <2>10. Pays(run[r])'
    BY ZenonT(60), <1>1, <1>3, <2>1, <2>3, <2>6, <2>7
    DEF Pays, Went, Reserved, ProviderRun, CallsMade
  <2> QED
    BY <1>1, <2>6, <2>8, <2>9, <2>10, OwnerStep DEF Fits
<1>8. row.status \in RunStatuses => ResultOf(row.status) \in Results
  BY ResultOfRun
<1>9. Blocked \in Results /\ Interrupted \in Results
  BY DEF Results
<1> QED
  BY Zenon, <1>5, <1>6, <1>7, <1>8, <1>9 DEF ResumeStarted

\* start_run, under the second guard.
LEMMA StepStartRun ==
    ASSUME RuntimeInv, NEW r \in Runs, StartRun(r)
    PROVE  RuntimeInv'
<1> PICK k, s : k = run[r].key /\ s = run[r].at
  OBVIOUS
<1> PICK n : n = Len(attempt[k][s])
  OBVIOUS
<1> PICK row : row = provider[k][s][n]
  OBVIOUS
<1>1. /\ Owns(r) /\ run[r].pc = "starting" /\ guard = Nil
      /\ UNCHANGED <<lease, cycle, stage, attempt, truth, calls, abandoned>>
      /\ run[r].pc \in Walk /\ run[r].pc \in Walk \ {"stage"}
  BY Zenon DEF StartRun, Transacts, Active, LeaseRowFree, Walk
<1>2. /\ k \in Keys /\ s \in Stages /\ StoreOK /\ Stands(run[r]) /\ Pays(run[r])
      /\ Money(k, s) /\ StageAt(run[r]) = "RUNNING"
  BY ZenonT(60), <1>1, OwnerRows, WalkRuns
<1>3. /\ Reserved(run[r]) = Envelope(s) /\ s \in Paid /\ ~truth[k][s]
      /\ row.status = "NONE"
  BY <1>1, <1>2 DEF Pays, ProviderRun
<1>4. n \in 1..Len(attempt[k][s]) /\ row \in ProviderRecord
  <2>1. stage[k][s].status # "PENDING"
    BY <1>2 DEF StageAt
  <2> QED
    BY <1>1, <2>1, OwnerRows
<1>5. ASSUME NEW result \in Results, FinishWith(r, result), UNCHANGED <<guard, provider>>
      PROVE  RuntimeInv'
  <2>1. Went(r, "finish", result)
    BY <1>5, FinishWent DEF RuntimeInv
  <2>2. Ready(r, "finish")
    BY <1>1, <1>2 DEF Ready
  <2>3. UNCHANGED storeVars /\ Unlocks(r)
    BY <1>1, <1>5 DEF storeVars, Unlocks
  <2> QED
    BY <1>1, <2>1, <2>2, <2>3, LocalMove
<1>6. CASE /\ provider' = [provider EXCEPT ![k][s][n].status = "STARTED"]
           /\ guard' = r /\ RunGoto(r, "calling")
  <2> DEFINE new == [row EXCEPT !.status = "STARTED"]
  <2>1. /\ new \in ProviderRecord /\ new.status = "STARTED" /\ new.replays = row.replays
        /\ row.replays \in Nat
    <3>1. row \in ProviderRecord /\ "STARTED" \in RunStatuses \union {"STARTED"}
      BY <1>4
    <3> QED
      BY ONLY <3>1, RunRow
  <2>2. provider' = [provider EXCEPT ![k][s][n] = new]
    BY ZenonT(60), <1>6
  <2>3. calls[k][s][n] = 0
    BY SMTT(60), <1>2, <1>3, <1>4, MoneyAt
  <2> HIDE DEF new
  <2>4. new.status # "NONE" /\ calls[k][s][n] <= 1 + new.replays
        /\ calls[k][s][n] <= new.replays
    <3>1. PICK i \in Nat : i = row.replays
      BY Zenon, <2>1
    <3>2. 0 <= i /\ 0 <= 1 + i
      BY ONLY i \in Nat
    <3> QED
      BY Zenon, <2>1, <2>3, <3>1, <3>2
  <2>5. truth' \in [Keys -> [Stages -> BOOLEAN]]
    BY <1>1, <1>2 DEF StoreOK
  <2>6. StoreInv' /\ SameStatus /\ provider'[k][s][n] = new
    <3>1. WritesRun(r, k, s, n, new)
      BY Zenon, <1>1, <1>3, <2>1, <2>2, <2>4, <2>5 DEF WritesRun
    <3> QED
      BY <3>1, ProviderWritten
  <2>7. Went(r, "calling", run[r].result)
    BY Zenon, <1>6, GotoWent DEF RuntimeInv, Working, Walk
  <2>8. Moves(r)
    BY Zenon, <1>1, <1>6, <2>7 DEF Moves, Went
  <2>9. Stands(run[r])'
    <3>1. "calling" \in Walk \ {"stage"}
      BY DEF Walk
    <3> QED
      BY <1>1, <1>2, <2>6, <2>7, <3>1, StandsOn
  <2>10. Pays(run[r])'
    BY ZenonT(60), <1>1, <1>3, <2>1, <2>4, <2>6, <2>7
    DEF Pays, Went, Reserved, ProviderRun, CallsMade
  <2> QED
    BY <1>1, <2>6, <2>8, <2>9, <2>10, OwnerStep DEF Fits
<1>7. Waiting \in Results /\ Blocked \in Results
  BY DEF Results
<1> QED
  BY Zenon, <1>5, <1>6, <1>7 DEF StartRun

\* The provider is called, by the owner alone.
LEMMA StepCall ==
    ASSUME RuntimeInv, NEW r \in Runs, CallProvider(r)
    PROVE  RuntimeInv'
<1> PICK k, s : k = run[r].key /\ s = run[r].at
  OBVIOUS
<1> PICK n : n = Len(attempt[k][s])
  OBVIOUS
<1>1. /\ run[r].pc = "calling" /\ RunGoto(r, "called")
      /\ calls' = [calls EXCEPT ![k][s][n] = calls[k][s][n] + 1]
      /\ UNCHANGED <<lease, guard, cycle, stage, attempt, provider, truth, abandoned>>
      /\ run[r].pc \in Walk /\ run[r].pc \in Walk \ {"stage"}
  BY ZenonT(60) DEF CallProvider, Walk
<1>2. guard = r /\ Owns(r)
  BY ZenonT(60), <1>1 DEF RuntimeInv, FencedCalls
<1>3. /\ k \in Keys /\ s \in Stages /\ StoreOK /\ StoreInv /\ Stands(run[r])
      /\ Pays(run[r]) /\ RowsOK(k, s) /\ Money(k, s) /\ StageAt(run[r]) = "RUNNING"
  BY <1>1, <1>2, OwnerRows, WalkRuns
<1>4. /\ n \in 1..Len(attempt[k][s]) /\ calls[k][s][n] \in Nat
      /\ provider[k][s][n] \in ProviderRecord
  <2>1. stage[k][s].status # "PENDING"
    BY <1>3 DEF StageAt
  <2> QED
    BY Zenon, <1>1, <1>2, <2>1, OwnerRows
<1>5. /\ Reserved(run[r]) = Envelope(s) /\ provider[k][s][n].status = "STARTED"
      /\ calls[k][s][n] <= provider[k][s][n].replays
  BY Zenon, <1>1, <1>3 DEF Pays, ProviderRun, CallsMade
<1>6. /\ calls' \in [Keys -> [Stages -> Seq(Nat)]]
      /\ Len(calls'[k][s]) = Len(calls[k][s])
      /\ calls'[k][s][n] = calls[k][s][n] + 1
      /\ \A i \in 1..Len(calls[k][s]) : i # n => calls'[k][s][i] = calls[k][s][i]
      /\ \A j \in Keys, i \in Stages : j # k \/ i # s => calls'[j][i] = calls[j][i]
  <2>1. /\ calls \in [Keys -> [Stages -> Seq(Nat)]] /\ k \in Keys /\ s \in Stages
        /\ n \in 1..Len(calls[k][s]) /\ calls[k][s][n] + 1 \in Nat
        /\ calls' = [calls EXCEPT ![k][s][n] = calls[k][s][n] + 1]
    <3>1. Len(calls[k][s]) = Len(attempt[k][s])
      BY ZenonT(60), <1>3 DEF RowsOK
    <3>2. calls[k][s][n] + 1 \in Nat
      <4>1. PICK c \in Nat : c = calls[k][s][n]
        BY <1>4
      <4>2. c + 1 \in Nat
        BY ONLY c \in Nat
      <4> QED
        BY <4>1, <4>2
    <3> QED
      BY Zenon, <1>1, <1>3, <1>4, <3>1, <3>2 DEF StoreOK
  <2> QED
    BY ONLY <2>1, SpotExcept
<1>7. StoreOK' /\ RowsOK(k, s)' /\ Elsewhere(k, s) /\ SameStatus
  BY ZenonT(60), <1>1, <1>3, <1>6 DEF StoreOK, RowsOK, Elsewhere, SameStatus
<1>8. Money(k, s)'
  <2> SUFFICES ASSUME NEW i \in 1..Len(attempt[k][s])
               PROVE  /\ attempt[k][s][i].reserved \in {0, Envelope(s)}
                      /\ attempt[k][s][i].proposed => attempt[k][s][i].reserved = Envelope(s)
                      /\ IF provider[k][s][i].status = "NONE"
                           THEN calls'[k][s][i] = 0
                           ELSE s \in Paid /\ attempt[k][s][i].reserved = Envelope(s)
                      /\ calls'[k][s][i] <= 1 + provider[k][s][i].replays
    BY ZenonT(60), <1>1 DEF Money
  <2>1. CASE i = n
    <3>1. calls'[k][s][n] <= 1 + provider[k][s][n].replays
      <4>1. provider[k][s][n].replays \in Nat
        BY <1>4, RunRow
      <4>2. PICK c \in Nat : c = calls[k][s][n]
        BY ZenonT(60), <1>4
      <4>3. PICK m \in Nat : m = provider[k][s][n].replays
        BY <4>1
      <4>4. c <= m
        BY Zenon, <1>5, <4>2, <4>3
      <4>5. c + 1 <= 1 + m
        BY ONLY <4>4, c \in Nat, m \in Nat
      <4> QED
        BY Zenon, <1>6, <4>2, <4>3, <4>5
    <3> QED
      BY Zenon, <1>3, <1>5, <2>1, <3>1 DEF Money
  <2>2. CASE i # n
    <3>1. calls'[k][s][i] = calls[k][s][i]
      BY Zenon, <1>3, <1>6, <2>2 DEF RowsOK
    <3> QED
      BY Zenon, <1>3, <3>1 DEF Money
  <2> QED
    BY <2>1, <2>2
<1>9. StoreInv'
  BY ZenonT(60), <1>3, <1>7, <1>8, MoneyStore DEF SameStatus
<1>10. Went(r, "called", run[r].result)
  BY ZenonT(60), <1>1, GotoWent DEF RuntimeInv, Working, Walk
<1>11. Moves(r)
  BY ZenonT(60), <1>1, <1>2, <1>10 DEF Moves, Went
<1>12. Stands(run[r])'
  <2>1. "called" \in Walk \ {"stage"}
    BY DEF Walk
  <2> QED
    BY <1>1, <1>3, <1>7, <1>10, <2>1, StandsOn
<1>13. Pays(run[r])'
  BY Zenon, <1>1, <1>5, <1>10 DEF Pays, Went, Reserved, ProviderRun
<1> QED
  BY <1>2, <1>9, <1>11, <1>12, <1>13, OwnerStep DEF Fits

\* finish_run: the run is over, and its result is in the domain.
LEMMA StepFinishRun ==
    ASSUME RuntimeInv, NEW r \in Runs, FinishRun(r)
    PROVE  RuntimeInv'
<1> PICK k, s : k = run[r].key /\ s = run[r].at
  OBVIOUS
<1> PICK n : n = Len(attempt[k][s])
  OBVIOUS
<1> PICK row : row = provider[k][s][n]
  OBVIOUS
<1>1. /\ run[r].pc = "called" /\ guard' = Nil
      /\ UNCHANGED <<lease, cycle, stage, attempt, calls, abandoned>>
      /\ run[r].pc \in Walk /\ run[r].pc \in Walk \ {"stage"}
  BY Zenon DEF FinishRun, Walk
<1>2. PICK status \in RunStatuses :
         /\ provider' = [provider EXCEPT ![k][s][n].status = status]
         /\ truth' = [truth EXCEPT ![k][s] = status = "found"]
         /\ FinishWith(r, ResultOf(status))
  BY Zenon DEF FinishRun
<1>3. guard = r /\ Owns(r)
  BY <1>1 DEF RuntimeInv, FencedCalls
<1>4. /\ k \in Keys /\ s \in Stages /\ StoreOK /\ Stands(run[r]) /\ Pays(run[r])
      /\ Money(k, s) /\ StageAt(run[r]) = "RUNNING"
  BY <1>1, <1>3, OwnerRows, WalkRuns
<1>5. n \in 1..Len(attempt[k][s]) /\ row \in ProviderRecord
  <2>1. stage[k][s].status # "PENDING"
    BY <1>4 DEF StageAt
  <2> QED
    BY <1>1, <1>3, <2>1, OwnerRows
<1>6. Reserved(run[r]) = Envelope(s) /\ row.status # "NONE"
  BY Zenon, <1>1, <1>4 DEF Pays, ProviderRun
<1>7. s \in Paid /\ calls[k][s][n] <= 1 + row.replays
  BY ZenonT(60), <1>4, <1>5, <1>6, MoneyAt
<1> DEFINE new == [row EXCEPT !.status = status]
<1>8. new \in ProviderRecord /\ new.status = status /\ new.replays = row.replays
  BY ONLY <1>5, status \in RunStatuses, RunRow
<1>9. provider' = [provider EXCEPT ![k][s][n] = new]
  BY Zenon, <1>2
<1> HIDE DEF new
<1>10. truth' \in [Keys -> [Stages -> BOOLEAN]]
  <2>1. truth \in [Keys -> [Stages -> BOOLEAN]] /\ k \in Keys /\ s \in Stages
    BY <1>4 DEF StoreOK
  <2>2. (status = "found") \in BOOLEAN
    OBVIOUS
  <2>3. [truth EXCEPT ![k][s] = status = "found"] \in [Keys -> [Stages -> BOOLEAN]]
    BY ONLY <2>1, <2>2
  <2> QED
    BY ONLY <1>2, <2>3
<1>11. status # "NONE"
  BY DEF RunStatuses
<1>12. WritesRun(r, k, s, n, new)
  BY Zenon, <1>1, <1>3, <1>6, <1>7, <1>8, <1>9, <1>10, <1>11 DEF WritesRun
<1>13. StoreInv' /\ SameStatus
  BY <1>12, ProviderWritten
<1>14. Went(r, "finish", ResultOf(status))
  BY Zenon, <1>2, ResultOfRun, FinishWent DEF RuntimeInv
<1>15. Moves(r)
  BY <1>1, <1>3, <1>14 DEF Moves, Went
<1>16. Stands(run[r])'
  <2>1. "finish" \in Walk \ {"stage"}
    BY DEF Walk
  <2> QED
    BY <1>1, <1>4, <1>13, <1>14, <2>1, StandsOn
<1>17. Pays(run[r])'
  BY <1>14 DEF Pays, Went
<1> QED
  BY <1>3, <1>13, <1>15, <1>16, <1>17, OwnerStep DEF Fits

-----------------------------------------------------------------------------
(* The envelope.                                                           *)

\* The owner's attempt is rewritten: its envelope is the stage's, and a run of
\* the provider that was started had one already.
WritesAttempt(r, k, s, n, row) ==
    /\ Owns(r) /\ run[r].pc \in Walk \ {"stage"}
    /\ k = run[r].key /\ s = run[r].at /\ n = Len(attempt[k][s])
    /\ row \in AttemptRecord
    /\ row.reserved = Envelope(s)
    /\ attempt' = [attempt EXCEPT ![k][s][n] = row]
    /\ cycle' = [j \in Keys |-> cycle'[j]] /\ \A j \in Keys : IsCycle(cycle'[j])
    /\ SameStatus
    /\ UNCHANGED <<provider, calls, truth>>

\* Such a write leaves the store in order.
LEMMA AttemptWritten ==
    ASSUME RuntimeInv, NEW r \in Runs, NEW k, NEW s, NEW n, NEW row,
           WritesAttempt(r, k, s, n, row)
    PROVE  StoreInv' /\ Len(attempt'[k][s]) = n /\ attempt'[k][s][n] = row
<1>. USE DEF WritesAttempt
<1>1. /\ k \in Keys /\ s \in Stages /\ StoreOK /\ StoreInv /\ RowsOK(k, s) /\ Money(k, s)
      /\ StageAt(run[r]) = "RUNNING" /\ run[r].pc \in Walk
  BY OwnerRows, WalkRuns
<1>2. n \in 1..Len(attempt[k][s])
      /\ attempt \in [Keys -> [Stages -> Seq(AttemptRecord)]]
  <2>1. stage[k][s].status # "PENDING"
    BY <1>1 DEF StageAt
  <2> QED
    BY <1>1, <2>1, OwnerRows DEF StoreOK
<1>3. /\ attempt' \in [Keys -> [Stages -> Seq(AttemptRecord)]]
      /\ Len(attempt'[k][s]) = Len(attempt[k][s])
      /\ attempt'[k][s][n] = row
      /\ \A i \in 1..Len(attempt[k][s]) : i # n => attempt'[k][s][i] = attempt[k][s][i]
      /\ \A j \in Keys, i \in Stages : j # k \/ i # s => attempt'[j][i] = attempt[j][i]
  <2>1. k \in Keys /\ s \in Stages /\ row \in AttemptRecord
        /\ attempt' = [attempt EXCEPT ![k][s][n] = row]
    BY <1>1
  <2> QED
    BY ONLY <1>2, <2>1, SpotExcept
<1>4. StoreOK'
  BY Zenon, <1>1, <1>3 DEF StoreOK, SameStatus
<1>5. RowsOK(k, s)'
  BY Zenon, <1>1, <1>3 DEF RowsOK, SameStatus
<1>6. Money(k, s)'
  <2> SUFFICES ASSUME NEW i \in 1..Len(attempt[k][s])
               PROVE  /\ attempt'[k][s][i].reserved \in {0, Envelope(s)}
                      /\ attempt'[k][s][i].proposed =>
                            attempt'[k][s][i].reserved = Envelope(s)
                      /\ IF provider[k][s][i].status = "NONE"
                           THEN calls[k][s][i] = 0
                           ELSE s \in Paid /\ attempt'[k][s][i].reserved = Envelope(s)
                      /\ calls[k][s][i] <= 1 + provider[k][s][i].replays
    BY Zenon, <1>3 DEF Money
  <2>0. /\ attempt[k][s][i].reserved \in {0, Envelope(s)}
        /\ attempt[k][s][i].proposed => attempt[k][s][i].reserved = Envelope(s)
        /\ provider[k][s][i].status = "NONE" => calls[k][s][i] = 0
        /\ provider[k][s][i].status # "NONE" =>
              s \in Paid /\ attempt[k][s][i].reserved = Envelope(s)
        /\ calls[k][s][i] <= 1 + provider[k][s][i].replays
    BY ONLY <1>1, i \in 1..Len(attempt[k][s]), MoneyAt
  <2>1. CASE i = n
    <3>1. attempt'[k][s][i].reserved = Envelope(s)
      BY Zenon, <1>3, <2>1
    <3> QED
      BY ONLY <2>0, <3>1
  <2>2. CASE i # n
    <3>1. attempt'[k][s][i] = attempt[k][s][i]
      BY Zenon, <1>3, <2>2
    <3> QED
      BY ONLY <2>0, <3>1
  <2> QED
    BY Zenon, <2>1, <2>2
<1>7. Elsewhere(k, s)
  BY Zenon, <1>3 DEF Elsewhere, SameStatus
<1> QED
  BY Zenon, <1>1, <1>3, <1>4, <1>5, <1>6, <1>7, MoneyStore DEF SameStatus

\* A cycle's row with another sum.
LEMMA SpentRow ==
    ASSUME StoreOK, NEW k \in Keys, NEW x, cycle' = [cycle EXCEPT ![k].spent = x]
    PROVE  /\ cycle' = [j \in Keys |-> cycle'[j]] /\ \A j \in Keys : IsCycle(cycle'[j])
           /\ \A j \in Keys : /\ cycle'[j].status = cycle[j].status
                              /\ cycle'[j].next = cycle[j].next
<1> DEFINE c == [cycle[k] EXCEPT !.spent = x]
<1>1. cycle' = [cycle EXCEPT ![k] = c]
  OBVIOUS
<1>2. IsCycle(c) /\ c.status = cycle[k].status /\ c.next = cycle[k].next
  <2>1. PICK d : d = cycle[k].spent
    OBVIOUS
  <2>2. cycle[k] \in [status : StageOutcomes \union {"NONE", "PENDING", "RUNNING"},
                      next : Stages \union {Nil}, spent : {d}]
    BY <2>1 DEF IsCycle, StoreOK
  <2>3. /\ c \in [status : StageOutcomes \union {"NONE", "PENDING", "RUNNING"},
                 next : Stages \union {Nil}, spent : {x}]
        /\ c.spent = x /\ c.status = cycle[k].status /\ c.next = cycle[k].next
    BY <2>2
  <2> HIDE DEF c
  <2> QED
    BY <2>3 DEF IsCycle
<1> HIDE DEF c
<1>3. cycle'[k] = c /\ \A j \in Keys \ {k} : cycle'[j] = cycle[j]
  BY <1>1 DEF StoreOK
<1>4. DOMAIN cycle' = Keys
  BY <1>1 DEF StoreOK
<1>5. cycle' = [j \in Keys |-> cycle'[j]]
  BY <1>1, <1>4
<1>6. \A j \in Keys : IsCycle(cycle'[j])
  BY Zenon, <1>2, <1>3 DEF StoreOK
<1> QED
  BY <1>2, <1>3, <1>5, <1>6

\* reserve_stage_cost: an attempt that needs none has its envelope already.
LEMMA StepReserve ==
    ASSUME RuntimeInv, NEW r \in Runs, ReserveStageCost(r)
    PROVE  RuntimeInv'
<1> PICK k, s : k = run[r].key /\ s = run[r].at
  OBVIOUS
<1> PICK n : n = Len(attempt[k][s])
  OBVIOUS
<1> PICK row : row = attempt[k][s][n]
  BY ZenonT(60)
<1>1. /\ Owns(r) /\ run[r].pc = "reserve"
      /\ UNCHANGED <<lease, guard, stage, provider, truth, calls, abandoned>>
      /\ run[r].pc \in Walk /\ run[r].pc \in Walk \ {"stage"}
  BY DEF ReserveStageCost, Transacts, Active, Walk
<1>2. /\ k \in Keys /\ s \in Stages /\ StoreOK /\ Stands(run[r])
      /\ Money(k, s) /\ StageAt(run[r]) = "RUNNING"
  BY <1>1, OwnerRows, WalkRuns
<1>3. n \in 1..Len(attempt[k][s]) /\ row \in AttemptRecord
  <2>1. stage[k][s].status # "PENDING"
    BY <1>2 DEF StageAt
  <2> QED
    BY <1>1, <2>1, OwnerRows
<1>4. Envelope(s) \in Nat
  BY ONLY RuntimeAssumption DEF Envelope
<1>5. /\ row.reserved \in {0, Envelope(s)}
      /\ row.proposed => row.reserved = Envelope(s)
  BY SMTT(60), <1>2, <1>3, MoneyAt
<1>6. ASSUME ~Unreserved(row, s),
             RunGoto(r, IF row.proposed THEN "execute" ELSE "propose"),
             UNCHANGED <<cycle, attempt>>
      PROVE  RuntimeInv'
  <2>1. PICK pc \in {"execute", "propose"} : RunGoto(r, pc)
    BY <1>6
  <2>2. Went(r, pc, run[r].result)
    BY <2>1, GotoWent DEF RuntimeInv, Working, Walk
  <2>3. row.reserved = Envelope(s)
    <3>1. Envelope(s) = 0 \/ Envelope(s) > 0
      BY ONLY <1>4
    <3> QED
      BY ONLY <1>5, <1>6, <3>1 DEF Unreserved
  <2>4. Ready(r, pc)
    BY ZenonT(60), <1>1, <1>2, <2>1, <2>3 DEF Ready, Reserved
  <2>5. UNCHANGED storeVars /\ Unlocks(r)
    BY <1>1, <1>6 DEF storeVars, Unlocks
  <2> QED
    BY <1>1, <2>2, <2>4, <2>5, LocalMove
<1>7. ASSUME FinishWith(r, Blocked), UNCHANGED <<cycle, attempt>>
      PROVE  RuntimeInv'
  <2>1. Went(r, "finish", Blocked)
    BY <1>7, FinishWent DEF RuntimeInv, Results
  <2>2. Ready(r, "finish")
    BY <1>1, <1>2 DEF Ready
  <2>3. UNCHANGED storeVars /\ Unlocks(r)
    BY <1>1, <1>7 DEF storeVars, Unlocks
  <2> QED
    BY <1>1, <2>1, <2>2, <2>3, LocalMove
<1> DEFINE new == [row EXCEPT !.status = "RUNNING", !.reserved = Envelope(s)]
<1>8. ASSUME NEW x, attempt' = [attempt EXCEPT ![k][s][n] = new],
             cycle' = [cycle EXCEPT ![k].spent = x], RunGoto(r, "propose")
      PROVE  RuntimeInv'
  <2>1. new \in AttemptRecord /\ new.reserved = Envelope(s)
    BY ONLY <1>3, <1>4 DEF AttemptRecord
  <2> HIDE DEF new
  <2>2. /\ cycle' = [j \in Keys |-> cycle'[j]] /\ \A j \in Keys : IsCycle(cycle'[j])
        /\ \A j \in Keys : /\ cycle'[j].status = cycle[j].status
                           /\ cycle'[j].next = cycle[j].next
    BY <1>2, <1>8, SpentRow
  <2>3. SameStatus
    BY <1>1, <2>2 DEF SameStatus
  <2>4. WritesAttempt(r, k, s, n, new)
    BY <1>1, <1>8, <2>1, <2>2, <2>3 DEF WritesAttempt
  <2>5. StoreInv' /\ Len(attempt'[k][s]) = n /\ attempt'[k][s][n] = new
    BY <2>4, AttemptWritten
  <2>6. Went(r, "propose", run[r].result)
    BY <1>8, GotoWent DEF RuntimeInv, Working, Walk
  <2>7. Moves(r)
    BY <1>1, <2>6 DEF Moves, Went
  <2>8. Stands(run[r])'
    <3>1. "propose" \in Walk \ {"stage"}
      BY DEF Walk
    <3> QED
      BY <1>1, <1>2, <2>3, <2>6, <3>1, StandsOn
  <2>9. Pays(run[r])'
    BY <2>1, <2>5, <2>6 DEF Pays, Went, Reserved
  <2> QED
    BY <1>1, <2>5, <2>7, <2>8, <2>9, OwnerStep DEF Fits
<1>9. \/ /\ ~Unreserved(row, s)
         /\ RunGoto(r, IF row.proposed THEN "execute" ELSE "propose")
         /\ UNCHANGED <<cycle, attempt>>
      \/ FinishWith(r, Blocked) /\ UNCHANGED <<cycle, attempt>>
      \/ /\ attempt' = [attempt EXCEPT ![k][s][n] = new]
         /\ cycle' = [cycle EXCEPT ![k].spent = SpentOf(attempt'[k])]
         /\ RunGoto(r, "propose")
  BY Zenon DEF ReserveStageCost, Current
<1> HIDE DEF new
<1> QED
  BY Zenon, <1>6, <1>7, <1>8, <1>9

\* bind_stage_proposal: the attempt whose envelope was reserved is proposed.
LEMMA StepBind ==
    ASSUME RuntimeInv, NEW r \in Runs, BindStageProposal(r)
    PROVE  RuntimeInv'
<1> PICK k, s : k = run[r].key /\ s = run[r].at
  OBVIOUS
<1> PICK n : n = Len(attempt[k][s])
  OBVIOUS
<1> PICK row : row = attempt[k][s][n]
  OBVIOUS
<1> DEFINE new == [row EXCEPT !.proposed = TRUE]
<1>1. /\ Owns(r) /\ run[r].pc = "propose"
      /\ attempt' = [attempt EXCEPT ![k][s][n] = new]
      /\ RunGoto(r, "execute")
      /\ UNCHANGED <<lease, guard, cycle, stage, provider, truth, calls, abandoned>>
      /\ run[r].pc \in Walk /\ run[r].pc \in Walk \ {"stage"}
  BY DEF BindStageProposal, Transacts, Active, Walk
<1>2. /\ k \in Keys /\ s \in Stages /\ StoreOK /\ Stands(run[r]) /\ Pays(run[r])
      /\ StageAt(run[r]) = "RUNNING"
  BY Zenon, <1>1, OwnerRows, WalkRuns
<1>3. n \in 1..Len(attempt[k][s]) /\ row \in AttemptRecord
  <2>1. stage[k][s].status # "PENDING"
    BY <1>2 DEF StageAt
  <2> QED
    BY Zenon, <1>1, <2>1, OwnerRows
<1>4. row.reserved = Envelope(s)
  BY Zenon, <1>1, <1>2 DEF Pays, Reserved
<1>5. new \in AttemptRecord /\ new.reserved = Envelope(s)
  BY ONLY <1>3, <1>4 DEF AttemptRecord
<1> HIDE DEF new
<1>6. SameStatus
  BY <1>1 DEF SameStatus
<1>7. /\ cycle' = [j \in Keys |-> cycle'[j]] /\ \A j \in Keys : IsCycle(cycle'[j])
  BY <1>1, <1>2 DEF StoreOK
<1>8. WritesAttempt(r, k, s, n, new)
  BY <1>1, <1>5, <1>6, <1>7 DEF WritesAttempt
<1>9. StoreInv' /\ Len(attempt'[k][s]) = n /\ attempt'[k][s][n] = new
  BY <1>8, AttemptWritten
<1>10. Went(r, "execute", run[r].result)
  BY <1>1, GotoWent DEF RuntimeInv, Working, Walk
<1>11. Moves(r)
  BY <1>1, <1>10 DEF Moves, Went
<1>12. Stands(run[r])'
  <2>1. "execute" \in Walk \ {"stage"}
    BY DEF Walk
  <2> QED
    BY <1>1, <1>2, <1>6, <1>10, <2>1, StandsOn
<1>13. Pays(run[r])'
  BY <1>5, <1>9, <1>10 DEF Pays, Went, Reserved
<1> QED
  BY <1>1, <1>9, <1>11, <1>12, <1>13, OwnerStep DEF Fits

-----------------------------------------------------------------------------
(* A stage is begun.                                                       *)

\* The cycle's row as a stage begins.
LEMMA RunningRow ==
    ASSUME StoreOK, NEW k \in Keys, NEW s \in Stages,
           \/ cycle' = [cycle EXCEPT ![k].status = "RUNNING"]
           \/ cycle' = [cycle EXCEPT ![k].status = "RUNNING", ![k].next = s]
    PROVE  /\ cycle' = [j \in Keys |-> cycle'[j]] /\ \A j \in Keys : IsCycle(cycle'[j])
           /\ \A j \in Keys \ {k} : cycle'[j] = cycle[j]
           /\ cycle'[k].status = "RUNNING" /\ cycle'[k].next \in {cycle[k].next, s}
<1>1. PICK d : d = cycle[k].spent
  OBVIOUS
<1>2. cycle[k] \in [status : StageOutcomes \union {"NONE", "PENDING", "RUNNING"},
                    next : Stages \union {Nil}, spent : {d}]
  BY <1>1 DEF IsCycle, StoreOK
<1>3. PICK c : c = [cycle[k] EXCEPT !.status = "RUNNING"]
  OBVIOUS
<1>4. PICK e : e = [cycle[k] EXCEPT !.status = "RUNNING", !.next = s]
  OBVIOUS
<1>5. /\ c \in [status : StageOutcomes \union {"NONE", "PENDING", "RUNNING"},
               next : Stages \union {Nil}, spent : {d}]
      /\ c.status = "RUNNING" /\ c.next = cycle[k].next /\ c.spent = d
  BY ONLY <1>2, <1>3
<1>6. /\ e \in [status : StageOutcomes \union {"NONE", "PENDING", "RUNNING"},
               next : Stages \union {Nil}, spent : {d}]
      /\ e.status = "RUNNING" /\ e.next = s /\ e.spent = d
  BY ONLY <1>2, <1>4, s \in Stages
<1>7. cycle' = [cycle EXCEPT ![k] = c] \/ cycle' = [cycle EXCEPT ![k] = e]
  BY <1>3, <1>4
<1>8. PICK new \in {c, e} : cycle' = [cycle EXCEPT ![k] = new]
  BY <1>7
<1>9. IsCycle(new) /\ new.status = "RUNNING" /\ new.next \in {cycle[k].next, s}
  BY <1>5, <1>6 DEF IsCycle
<1>10. cycle'[k] = new /\ \A j \in Keys \ {k} : cycle'[j] = cycle[j]
  BY <1>8 DEF StoreOK
<1>11. DOMAIN cycle' = Keys
  BY <1>8 DEF StoreOK
<1>12. cycle' = [j \in Keys |-> cycle'[j]]
  BY <1>8, <1>11
<1>13. \A j \in Keys : IsCycle(cycle'[j])
  BY <1>9, <1>10 DEF StoreOK
<1> QED
  BY <1>9, <1>10, <1>12, <1>13

\* The stage's row as it begins.
LEMMA BegunRow ==
    ASSUME StoreOK, NEW k \in Keys, NEW s \in Stages,
           stage' = [stage EXCEPT ![k][s] = [NewStage EXCEPT !.status = "RUNNING"]]
    PROVE  /\ stage' \in [Keys -> [Stages -> StageRecord]]
           /\ stage'[k][s].status = "RUNNING"
           /\ \A j \in Keys, i \in Stages : j # k \/ i # s => stage'[j][i] = stage[j][i]
<1>1. PICK new : new = [NewStage EXCEPT !.status = "RUNNING"]
  OBVIOUS
<1>2. new \in StageRecord /\ new.status = "RUNNING"
  BY ONLY <1>1 DEF NewStage, StageRecord
<1>3. stage \in [Keys -> [Stages -> StageRecord]] /\ stage' = [stage EXCEPT ![k][s] = new]
  BY <1>1 DEF StoreOK
<1> QED
  BY ONLY <1>2, <1>3, k \in Keys, s \in Stages

\* The owner begins the stage it stands before.
Begins(r, k, s) ==
    /\ Owns(r) /\ run[r].pc = "stage" /\ k = run[r].key /\ s = run[r].at
    /\ stage'[k][s].status = "RUNNING"
    /\ cycle'[k].status = "RUNNING" /\ cycle'[k].next \in {cycle[k].next, s}
    /\ \A j \in Keys \ {k} : cycle'[j] = cycle[j]
    /\ StoreOK' /\ Elsewhere(k, s) /\ RowsOK(k, s)' /\ Money(k, s)'
    /\ UNCHANGED <<lease, guard, abandoned>>
    /\ Begun(r)

\* Beginning the stage keeps the invariant.
LEMMA BeginsStep ==
    ASSUME RuntimeInv, NEW r \in Runs, NEW k, NEW s, Begins(r, k, s)
    PROVE  RuntimeInv'
<1> USE DEF Begins
<1>1. run[r].pc \in Walk
  BY DEF Walk
<1>2. /\ k \in Keys /\ s \in Stages /\ StoreInv /\ Stands(run[r]) /\ CycleOK(k) /\ At(k, s)
      /\ Points(run[r])
  BY <1>1, OwnerRows DEF Stands
<1>3. s \in 1..(NStages + 1) /\ s # Nil /\ s \in Nat
  BY <1>2, RuntimeAssumption DEF Stages
<1>4. \A i \in Stages : i # s => stage'[k][i] = stage[k][i]
  BY <1>2 DEF Elsewhere
<1>5. At(k, s)'
  <2> SUFFICES ASSUME NEW i \in Stages
               PROVE  /\ i < s <=> stage'[k][i].status = "SUCCEEDED"
                      /\ i > s => stage'[k][i].status = "PENDING"
    BY DEF At
  <2>1. CASE i = s
    BY <1>3, <2>1
  <2>2. CASE i # s
    BY <1>2, <1>4, <2>2 DEF At
  <2> QED
    BY <2>1, <2>2
<1>6. cycle'[k].next = s \/ (cycle'[k].next = Nil /\ k \in abandoned)
  <2>1. CASE cycle'[k].next = s
    BY <2>1
  <2>2. CASE cycle'[k].next = cycle[k].next /\ k \notin abandoned
    BY <1>2, <2>2 DEF Points
  <2>3. CASE cycle'[k].next = cycle[k].next /\ cycle[k].next # Nil
    <3>1. cycle[k].next \in Stages
      BY <1>2, <2>3 DEF StoreInv, StoreOK, IsCycle
    <3>2. cycle[k].next \in 1..(NStages + 1)
      BY <3>1, RuntimeAssumption DEF Stages
    <3>3. At(k, cycle[k].next)
      BY <1>2, <2>3 DEF CycleOK
    <3> QED
      BY <1>2, <1>3, <2>3, <3>2, <3>3, AtUnique
  <2> QED
    BY <2>1, <2>2, <2>3
<1>7. CycleOK(k)'
  BY <1>3, <1>5, <1>6 DEF CycleOK
<1>8. Frontier(k)'
  BY <1>3, <1>5 DEF Frontier
<1>9. StoreInv'
  BY <1>2, <1>7, <1>8, SpotStore
<1>10. PICK pc \in {"finish", "reserve"}, result \in Results : Went(r, pc, result)
  <2>1. CASE FinishWith(r, Waiting)
    <3>1. Went(r, "finish", Waiting)
      BY <2>1, FinishWent DEF RuntimeInv, Results
    <3> QED
      BY <3>1 DEF Results
  <2>2. CASE RunGoto(r, "reserve")
    <3>1. Went(r, "reserve", run[r].result)
      BY <2>2, GotoWent DEF RuntimeInv, Working, Walk
    <3>2. run[r].result \in Results
      BY DEF RuntimeInv, RunsOK, RunRecord
    <3> QED
      BY <3>1, <3>2
  <2> QED
    BY <2>1, <2>2 DEF Begun
<1>11. Moves(r)
  BY <1>10 DEF Moves, Went
<1>12. run'[r].key = k /\ run'[r].at = s /\ run'[r].pc = pc
  BY <1>10 DEF Went
<1>13. Stands(run[r])'
  BY <1>2, <1>5, <1>6, <1>12 DEF Stands, StageAt, Points, Working, Walk
<1>14. Pays(run[r])'
  BY <1>12 DEF Pays
<1> QED
  BY <1>9, <1>11, <1>13, <1>14, OwnerStep DEF Fits

\* An attempt's status is written: its envelope and the rows beside it stay.
LEMMA AttemptStatus ==
    ASSUME StoreOK, NEW k \in Keys, NEW s \in Stages, RowsOK(k, s), Money(k, s),
           NEW n \in 1..Len(attempt[k][s]), NEW v \in StageOutcomes \union {"RUNNING"},
           attempt' = [attempt EXCEPT ![k][s][n].status = v],
           UNCHANGED <<provider, calls>>
    PROVE  /\ attempt' \in [Keys -> [Stages -> Seq(AttemptRecord)]]
           /\ \A j \in Keys, i \in Stages : j # k \/ i # s => attempt'[j][i] = attempt[j][i]
           /\ Len(attempt'[k][s]) = Len(attempt[k][s]) /\ Len(attempt[k][s]) >= 1
           /\ Money(k, s)' /\ RowsOK(k, s)'
<1>1. PICK row : row = attempt[k][s][n]
  OBVIOUS
<1>2. PICK new : new = [row EXCEPT !.status = v]
  OBVIOUS
<1>3. attempt[k][s] \in Seq(AttemptRecord)
      /\ attempt \in [Keys -> [Stages -> Seq(AttemptRecord)]]
  BY DEF StoreOK
<1>4. row \in AttemptRecord
  BY <1>1, <1>3, ElementOfSeq
<1>5. new \in AttemptRecord /\ new.reserved = row.reserved /\ new.proposed = row.proposed
  BY ONLY <1>2, <1>4, v \in StageOutcomes \union {"RUNNING"} DEF AttemptRecord
<1>6. attempt' = [attempt EXCEPT ![k][s][n] = new]
  BY <1>1, <1>2
<1>7. /\ attempt' \in [Keys -> [Stages -> Seq(AttemptRecord)]]
      /\ Len(attempt'[k][s]) = Len(attempt[k][s])
      /\ attempt'[k][s][n] = new
      /\ \A i \in 1..Len(attempt[k][s]) : i # n => attempt'[k][s][i] = attempt[k][s][i]
      /\ \A j \in Keys, i \in Stages : j # k \/ i # s => attempt'[j][i] = attempt[j][i]
  BY ONLY <1>3, <1>5, <1>6, k \in Keys, s \in Stages, n \in 1..Len(attempt[k][s]), SpotExcept
<1>8. Len(attempt[k][s]) >= 1
  BY <1>3, LenProperties
<1>9. RowsOK(k, s)'
  BY <1>7, <1>8 DEF RowsOK
<1>10. Money(k, s)'
  <2> SUFFICES ASSUME NEW i \in 1..Len(attempt[k][s])
               PROVE  /\ attempt'[k][s][i].reserved \in {0, Envelope(s)}
                      /\ attempt'[k][s][i].proposed =>
                            attempt'[k][s][i].reserved = Envelope(s)
                      /\ IF provider[k][s][i].status = "NONE"
                           THEN calls[k][s][i] = 0
                           ELSE s \in Paid /\ attempt'[k][s][i].reserved = Envelope(s)
                      /\ calls[k][s][i] <= 1 + provider[k][s][i].replays
    BY <1>7 DEF Money
  <2>1. /\ attempt[k][s][i].reserved \in {0, Envelope(s)}
        /\ attempt[k][s][i].proposed => attempt[k][s][i].reserved = Envelope(s)
        /\ provider[k][s][i].status = "NONE" => calls[k][s][i] = 0
        /\ provider[k][s][i].status # "NONE" =>
              s \in Paid /\ attempt[k][s][i].reserved = Envelope(s)
        /\ calls[k][s][i] <= 1 + provider[k][s][i].replays
    BY MoneyAt
  <2>2. /\ attempt'[k][s][i].reserved = attempt[k][s][i].reserved
        /\ attempt'[k][s][i].proposed = attempt[k][s][i].proposed
    BY <1>1, <1>5, <1>7
  <2> QED
    BY ONLY <2>1, <2>2
<1> QED
  BY <1>7, <1>8, <1>9, <1>10

\* The attempt an interrupt left is resumed once its retry is due.
LEMMA StepReplay ==
    ASSUME RuntimeInv, NEW r \in Runs, ReplayAttempt(r)
    PROVE  RuntimeInv'
<1> PICK k, s : k = run[r].key /\ s = run[r].at
  OBVIOUS
<1> PICK n : n = Len(attempt[k][s])
  OBVIOUS
<1>1. /\ Owns(r) /\ run[r].pc = "stage" /\ run[r].pc \in Walk
      /\ stage[k][s].status = "WAITING"
      /\ attempt' = [attempt EXCEPT ![k][s][n].status = "RUNNING"]
      /\ stage' = [stage EXCEPT ![k][s] = [NewStage EXCEPT !.status = "RUNNING"]]
      /\ cycle' = [cycle EXCEPT ![k].status = "RUNNING"]
      /\ Begun(r)
      /\ UNCHANGED <<lease, guard, provider, truth, calls, abandoned>>
  BY ZenonT(60) DEF ReplayAttempt, Transacts, Active, Walk
<1>2. /\ k \in Keys /\ s \in Stages /\ StoreOK /\ RowsOK(k, s) /\ Money(k, s)
      /\ n \in 1..Len(attempt[k][s])
  BY <1>1, OwnerRows
<1>3. /\ attempt' \in [Keys -> [Stages -> Seq(AttemptRecord)]]
      /\ \A j \in Keys, i \in Stages : j # k \/ i # s => attempt'[j][i] = attempt[j][i]
      /\ Money(k, s)' /\ RowsOK(k, s)'
  <2>1. /\ attempt' = [attempt EXCEPT ![k][s][n].status = "RUNNING"]
        /\ UNCHANGED <<provider, calls>>
        /\ "RUNNING" \in StageOutcomes \union {"RUNNING"}
    BY Zenon, <1>1
  <2> QED
    BY ONLY ZenonT(60), <1>2, <2>1, AttemptStatus
<1>4. /\ cycle' = [j \in Keys |-> cycle'[j]] /\ \A j \in Keys : IsCycle(cycle'[j])
      /\ \A j \in Keys \ {k} : cycle'[j] = cycle[j]
      /\ cycle'[k].status = "RUNNING" /\ cycle'[k].next \in {cycle[k].next, s}
  BY Zenon, <1>1, <1>2, RunningRow
<1>5. /\ stage' \in [Keys -> [Stages -> StageRecord]]
      /\ stage'[k][s].status = "RUNNING"
      /\ \A j \in Keys, i \in Stages : j # k \/ i # s => stage'[j][i] = stage[j][i]
  <2>1. stage' = [stage EXCEPT ![k][s] = [NewStage EXCEPT !.status = "RUNNING"]]
    BY <1>1
  <2> QED
    BY ONLY ZenonT(60), <1>2, <2>1, BegunRow
<1>6. StoreOK'
  BY Zenon, <1>1, <1>2, <1>3, <1>4, <1>5 DEF StoreOK
<1>7. Elsewhere(k, s)
  BY ZenonT(60), <1>1, <1>3, <1>5 DEF Elsewhere
<1>8. Begins(r, k, s)
  BY Zenon, <1>1, <1>3, <1>4, <1>5, <1>6, <1>7 DEF Begins
<1> QED
  BY <1>8, BeginsStep

\* A new attempt, with the rows of its provider run and of its calls.
LEMMA StepBegin ==
    ASSUME RuntimeInv, NEW r \in Runs, BeginAttempt(r)
    PROVE  RuntimeInv'
<1> PICK k, s : k = run[r].key /\ s = run[r].at
  OBVIOUS
<1>1. /\ Owns(r) /\ run[r].pc = "stage" /\ run[r].pc \in Walk
      /\ attempt' = [attempt EXCEPT ![k][s] = Append(attempt[k][s], NewStageAttempt)]
      /\ provider' = [provider EXCEPT ![k][s] = Append(provider[k][s], NoRun)]
      /\ calls' = [calls EXCEPT ![k][s] = Append(calls[k][s], 0)]
      /\ stage' = [stage EXCEPT ![k][s] = [NewStage EXCEPT !.status = "RUNNING"]]
      /\ cycle' = [cycle EXCEPT ![k].status = "RUNNING", ![k].next = s]
      /\ Begun(r)
      /\ UNCHANGED <<lease, guard, truth, abandoned>>
  BY DEF BeginAttempt, Transacts, Active, Walk
<1>2. /\ k \in Keys /\ s \in Stages /\ StoreOK /\ RowsOK(k, s) /\ Money(k, s)
  BY <1>1, OwnerRows
<1>3. PICK n : n = Len(attempt[k][s])
  OBVIOUS
<1>4. n = Len(provider[k][s]) /\ n = Len(calls[k][s])
  BY <1>2, <1>3 DEF RowsOK
<1>5. /\ NewStageAttempt \in AttemptRecord /\ NewStageAttempt.reserved = 0
      /\ NewStageAttempt.proposed = FALSE
  BY DEF NewStageAttempt, AttemptRecord
<1>6. NoRun \in ProviderRecord /\ NoRun.status = "NONE" /\ NoRun.replays = 0
  BY DEF NoRun, ProviderRecord
<1>7. /\ attempt' \in [Keys -> [Stages -> Seq(AttemptRecord)]]
      /\ n \in Nat /\ Len(attempt'[k][s]) = n + 1 /\ attempt'[k][s][n + 1] = NewStageAttempt
      /\ \A i \in 1..n : attempt'[k][s][i] = attempt[k][s][i]
      /\ \A j \in Keys, i \in Stages : j # k \/ i # s => attempt'[j][i] = attempt[j][i]
  <2>1. attempt \in [Keys -> [Stages -> Seq(AttemptRecord)]]
    BY <1>2 DEF StoreOK
  <2> QED
    BY ONLY <1>1, <1>2, <1>3, <1>5, <2>1, SpotAppend
<1>8. /\ provider' \in [Keys -> [Stages -> Seq(ProviderRecord)]]
      /\ Len(provider'[k][s]) = n + 1 /\ provider'[k][s][n + 1] = NoRun
      /\ \A i \in 1..n : provider'[k][s][i] = provider[k][s][i]
      /\ \A j \in Keys, i \in Stages : j # k \/ i # s => provider'[j][i] = provider[j][i]
  <2>1. provider \in [Keys -> [Stages -> Seq(ProviderRecord)]]
        /\ provider' = [provider EXCEPT ![k][s] = Append(provider[k][s], NoRun)]
    BY <1>1, <1>2 DEF StoreOK
  <2>2. k \in Keys /\ s \in Stages /\ NoRun \in ProviderRecord
    BY <1>2, <1>6
  <2> QED
    <3>1. PICK f, g, v : f = provider /\ g = provider' /\ v = NoRun
      OBVIOUS
    <3>2. /\ f \in [Keys -> [Stages -> Seq(ProviderRecord)]] /\ v \in ProviderRecord
          /\ g = [f EXCEPT ![k][s] = Append(f[k][s], v)] /\ k \in Keys /\ s \in Stages
      BY ONLY <2>1, <2>2, <3>1
    <3>3. /\ g \in [Keys -> [Stages -> Seq(ProviderRecord)]]
          /\ Len(g[k][s]) = Len(f[k][s]) + 1 /\ g[k][s][Len(f[k][s]) + 1] = v
          /\ \A i \in 1..Len(f[k][s]) : g[k][s][i] = f[k][s][i]
          /\ \A j \in Keys, i \in Stages : j # k \/ i # s => g[j][i] = f[j][i]
      BY ONLY <3>2, SpotAppend
    <3> QED
      BY ONLY <1>4, <3>1, <3>3
<1>9. /\ calls' \in [Keys -> [Stages -> Seq(Nat)]]
      /\ Len(calls'[k][s]) = n + 1 /\ calls'[k][s][n + 1] = 0
      /\ \A i \in 1..n : calls'[k][s][i] = calls[k][s][i]
      /\ \A j \in Keys, i \in Stages : j # k \/ i # s => calls'[j][i] = calls[j][i]
  <2>1. calls \in [Keys -> [Stages -> Seq(Nat)]] /\ 0 \in Nat
    BY <1>2 DEF StoreOK
  <2> QED
    BY ONLY <1>1, <1>2, <1>4, <2>1, SpotAppend
<1>10. n + 1 >= 1 /\ \A i \in 1..(n + 1) : i \in 1..n \/ i = n + 1
  BY ONLY <1>7
<1>11. RowsOK(k, s)'
  BY ONLY ZenonT(60), <1>7, <1>8, <1>9, <1>10 DEF RowsOK
<1>12. Money(k, s)'
  <2> SUFFICES ASSUME NEW i \in 1..(n + 1)
               PROVE  /\ attempt'[k][s][i].reserved \in {0, Envelope(s)}
                      /\ attempt'[k][s][i].proposed =>
                            attempt'[k][s][i].reserved = Envelope(s)
                      /\ IF provider'[k][s][i].status = "NONE"
                           THEN calls'[k][s][i] = 0
                           ELSE s \in Paid /\ attempt'[k][s][i].reserved = Envelope(s)
                      /\ calls'[k][s][i] <= 1 + provider'[k][s][i].replays
    BY <1>7 DEF Money
  <2>1. CASE i = n + 1
    <3>1. attempt'[k][s][i] = NewStageAttempt /\ provider'[k][s][i] = NoRun
          /\ calls'[k][s][i] = 0
      BY <1>7, <1>8, <1>9, <2>1
    <3>2. calls'[k][s][i] <= 1 + provider'[k][s][i].replays
      BY <1>6, <3>1
    <3> QED
      BY ONLY ZenonT(60), <1>5, <1>6, <3>1, <3>2
  <2>2. CASE i \in 1..n
    <3>1. /\ attempt[k][s][i].reserved \in {0, Envelope(s)}
          /\ attempt[k][s][i].proposed => attempt[k][s][i].reserved = Envelope(s)
          /\ provider[k][s][i].status = "NONE" => calls[k][s][i] = 0
          /\ provider[k][s][i].status # "NONE" =>
                s \in Paid /\ attempt[k][s][i].reserved = Envelope(s)
          /\ calls[k][s][i] <= 1 + provider[k][s][i].replays
      BY ONLY ZenonT(60), <1>2, <1>3, <2>2, MoneyAt
    <3>2. /\ attempt'[k][s][i] = attempt[k][s][i] /\ provider'[k][s][i] = provider[k][s][i]
          /\ calls'[k][s][i] = calls[k][s][i]
      BY <1>7, <1>8, <1>9, <2>2
    <3> QED
      BY ONLY <3>1, <3>2
  <2> QED
    BY ZenonT(60), <1>10, <2>1, <2>2
<1>13. /\ cycle' = [j \in Keys |-> cycle'[j]] /\ \A j \in Keys : IsCycle(cycle'[j])
       /\ \A j \in Keys \ {k} : cycle'[j] = cycle[j]
       /\ cycle'[k].status = "RUNNING" /\ cycle'[k].next \in {cycle[k].next, s}
  BY ONLY <1>1, <1>2, RunningRow
<1>14. /\ stage' \in [Keys -> [Stages -> StageRecord]]
       /\ stage'[k][s].status = "RUNNING"
       /\ \A j \in Keys, i \in Stages : j # k \/ i # s => stage'[j][i] = stage[j][i]
  BY ONLY ZenonT(60), <1>1, <1>2, BegunRow
<1>15. StoreOK'
  BY Zenon, <1>1, <1>2, <1>7, <1>8, <1>9, <1>13, <1>14 DEF StoreOK
<1>16. Elsewhere(k, s)
  BY <1>7, <1>8, <1>9, <1>14 DEF Elsewhere
<1>17. Begins(r, k, s)
  BY Zenon, <1>1, <1>11, <1>12, <1>13, <1>14, <1>15, <1>16 DEF Begins
<1> QED
  BY <1>17, BeginsStep

-----------------------------------------------------------------------------
(* A stage is finished.                                                    *)

\* What a result consists of; the one that succeeds is Done.
LEMMA ResultFields ==
    ASSUME NEW x \in Results
    PROVE  /\ x.status \in StageOutcomes /\ x.later \in BOOLEAN /\ x.replay \in BOOLEAN
           /\ Done \in Results /\ Failure \in Results
           /\ Done.status = "SUCCEEDED"
           /\ x # Done => x.status # "SUCCEEDED"
<1> DEFINE Fields(y) == y.status \in StageOutcomes /\ y.later \in BOOLEAN
                        /\ y.replay \in BOOLEAN
<1>1. Fields(Done) /\ Done.status = "SUCCEEDED"
  BY DEF Result, Done, StageOutcomes, Terminal
<1>2. Fields(Failure) /\ Failure.status # "SUCCEEDED"
  BY DEF Result, Failure, StageOutcomes, Terminal
<1>3. Fields(Blocked) /\ Blocked.status # "SUCCEEDED"
  BY DEF Result, Blocked, StageOutcomes, Terminal
<1>4. Fields(Suppressed) /\ Suppressed.status # "SUCCEEDED"
  BY DEF Result, Suppressed, StageOutcomes, Terminal
<1>5. Fields(Waiting) /\ Waiting.status # "SUCCEEDED"
  BY DEF Result, Waiting, StageOutcomes, Terminal
<1>6. Fields(Interrupted) /\ Interrupted.status # "SUCCEEDED"
  BY DEF Result, Interrupted, StageOutcomes, Terminal
<1> HIDE DEF Fields
<1>7. Fields(x) /\ (x # Done => x.status # "SUCCEEDED")
  BY <1>1, <1>2, <1>3, <1>4, <1>5, <1>6 DEF Results
<1> QED
  BY <1>1, <1>7 DEF Fields, Results

\* The row of one cycle is c.
CycleRowOf(k, c) ==
    /\ cycle' = [j \in Keys |-> cycle'[j]] /\ \A j \in Keys : IsCycle(cycle'[j])
    /\ cycle'[k] = c /\ \A j \in Keys \ {k} : cycle'[j] = cycle[j]

\* After the stage s of key k was finished with a result: how far the stages
\* are, and what the cycle's row says.
Finished(k, s, result) ==
    /\ stage'[k][s].status = result.status
    /\ \A i \in Stages : i # s => stage'[k][i] = stage[k][i]
    /\ cycle'[k].status = IF result = Done THEN "RUNNING" ELSE result.status
    /\ cycle'[k].next = NextStageAfter(s, result)
    /\ abandoned' = abandoned

\* After a success the cycle stands before the next stage, or is through.
LEMMA FinishedDone ==
    ASSUME NEW k \in Keys, NEW s \in Stages, At(k, s), NEW result, result = Done,
           Finished(k, s, result)
    PROVE  /\ s + 1 \in 1..(NStages + 1) /\ At(k, s + 1)' /\ CycleOK(k)'
           /\ s < NStages => /\ s + 1 \in Stages /\ cycle'[k].next = s + 1
                             /\ stage'[k][s + 1].status = "PENDING"
           /\ ~(s < NStages) => s = NStages
<1>1. /\ s \in Nat /\ s + 1 \in 1..(NStages + 1) /\ s + 1 \in Nat
      /\ s < NStages => s + 1 \in Stages /\ s + 1 > s /\ s + 1 # s /\ s + 1 # Nil
      /\ ~(s < NStages) => s = NStages
  BY RuntimeAssumption DEF Stages
<1>2. stage'[k][s].status = "SUCCEEDED"
  BY ResultFields DEF Finished, Results
<1>3. At(k, s + 1)'
  <2> SUFFICES ASSUME NEW i \in Stages
               PROVE  /\ i < s + 1 <=> stage'[k][i].status = "SUCCEEDED"
                      /\ i > s + 1 => stage'[k][i].status = "PENDING"
    BY DEF At
  <2>1. i \in Nat
    BY DEF Stages
  <2>2. CASE i = s
    BY <1>1, <1>2, <2>2
  <2>3. CASE i # s
    <3>1. stage'[k][i] = stage[k][i]
      BY <2>3 DEF Finished
    <3>2. (i < s + 1 <=> i < s) /\ (i > s + 1 => i > s)
      BY ONLY <1>1, <2>1, <2>3
    <3>3. /\ i < s <=> stage[k][i].status = "SUCCEEDED"
          /\ i > s => stage[k][i].status = "PENDING"
      BY DEF At
    <3> QED
      BY ONLY <3>1, <3>2, <3>3
  <2> QED
    BY <2>2, <2>3
<1>4. CASE s < NStages
  <2>1. stage'[k][s + 1] = stage[k][s + 1]
    BY <1>1, <1>4 DEF Finished
  <2>2. stage[k][s + 1].status = "PENDING"
    BY <1>1, <1>4 DEF At
  <2>3. cycle'[k].next = s + 1 /\ cycle'[k].status = "RUNNING"
    BY <1>4 DEF Finished, NextStageAfter, Done, Result
  <2>4. CycleOK(k)'
    BY <1>1, <1>3, <1>4, <2>1, <2>2, <2>3 DEF CycleOK
  <2> QED
    BY <1>1, <1>3, <1>4, <2>1, <2>2, <2>3, <2>4
<1>5. CASE ~(s < NStages)
  <2>1. cycle'[k].next = Nil /\ cycle'[k].status = "RUNNING"
    BY <1>5 DEF Finished, NextStageAfter, Done, Result
  <2>2. CycleOK(k)'
    BY <1>1, <1>3, <1>5, <2>1 DEF CycleOK
  <2> QED
    BY <1>1, <1>3, <1>5, <2>2
<1> QED
  BY <1>4, <1>5

\* After any other result it stands where it was, or is suppressed there.
LEMMA FinishedOther ==
    ASSUME NEW k \in Keys, NEW s \in Stages, At(k, s), NEW result \in Results,
           result # Done, Finished(k, s, result)
    PROVE  /\ s \in 1..(NStages + 1) /\ At(k, s)' /\ CycleOK(k)'
           /\ result.status # "SUPPRESSED" => cycle'[k].next = s
<1>1. s \in Nat /\ s \in 1..(NStages + 1) /\ s # Nil
  BY RuntimeAssumption DEF Stages
<1>2. result.status # "SUCCEEDED" /\ result.status \in StageOutcomes
  BY ResultFields
<1>3. At(k, s)'
  <2> SUFFICES ASSUME NEW i \in Stages
               PROVE  /\ i < s <=> stage'[k][i].status = "SUCCEEDED"
                      /\ i > s => stage'[k][i].status = "PENDING"
    BY DEF At
  <2>1. CASE i = s
    BY <1>1, <1>2, <2>1 DEF Finished
  <2>2. CASE i # s
    BY <2>2 DEF At, Finished
  <2> QED
    BY <2>1, <2>2
<1>4. /\ cycle'[k].status = result.status /\ cycle'[k].status # "NONE"
      /\ cycle'[k].next = IF result.status = "SUPPRESSED" THEN Nil ELSE s
  BY <1>2 DEF Finished, NextStageAfter, StageOutcomes, Terminal
<1>5. CycleOK(k)'
  BY <1>1, <1>3, <1>4 DEF CycleOK, Finished
<1> QED
  BY <1>1, <1>3, <1>4, <1>5

\* finish_stage: the owner records the result and goes on, stops or completes.
LEMMA StepFinishStage ==
    ASSUME RuntimeInv, NEW r \in Runs, FinishStage(r)
    PROVE  RuntimeInv'
<1> PICK k, s : k = run[r].key /\ s = run[r].at
  OBVIOUS
<1> PICK n : n = Len(attempt[k][s])
  OBVIOUS
<1> PICK result : result = run[r].result
  OBVIOUS
<1> PICK at, left, pc :
       /\ at = IF result = Done /\ s < NStages THEN s + 1 ELSE s
       /\ left = IF result = Done THEN Failure ELSE result
       /\ pc = IF result # Done THEN "stop" ELSE IF s < NStages THEN "stage" ELSE "complete"
  OBVIOUS
<1> PICK c : c = [status |-> IF result = Done THEN "RUNNING" ELSE result.status,
                  next |-> NextStageAfter(s, result), spent |-> SpentOf(attempt'[k])]
  OBVIOUS
<1> PICK row : row = [status |-> result.status, due |-> ~result.later,
                      replay |-> result.replay]
  OBVIOUS
<1>1. /\ Owns(r) /\ run[r].pc = "finish" /\ run[r].pc \in Walk
      /\ stage[k][s].status = "RUNNING"
      /\ stage' = [stage EXCEPT ![k][s] = row]
      /\ attempt' = [attempt EXCEPT ![k][s][n].status = result.status]
      /\ cycle' = [cycle EXCEPT ![k] = c]
      /\ run' = [run EXCEPT ![r].at = at, ![r].result = left, ![r].pc = pc]
      /\ UNCHANGED <<lease, guard, provider, truth, calls, abandoned>>
  BY Zenon DEF FinishStage, Transacts, Active, Walk
<1>2. /\ k \in Keys /\ s \in Stages /\ StoreOK /\ StoreInv /\ RowsOK(k, s) /\ Money(k, s)
      /\ n \in 1..Len(attempt[k][s]) /\ At(k, s)
  BY Zenon, <1>1, OwnerRows
<1>3. run \in [Runs -> RunRecord] /\ run[r] \in RunRecord /\ result \in Results
  <2>1. run \in [Runs -> RunRecord] /\ run[r] \in RunRecord
    BY DEF RuntimeInv, RunsOK
  <2> QED
    BY <2>1 DEF RunRecord
<1>4. result.status \in StageOutcomes /\ result.later \in BOOLEAN /\ result.replay \in BOOLEAN
  BY ONLY <1>3, ResultFields
<1>5. /\ attempt' \in [Keys -> [Stages -> Seq(AttemptRecord)]]
      /\ \A j \in Keys, i \in Stages : j # k \/ i # s => attempt'[j][i] = attempt[j][i]
      /\ Money(k, s)' /\ RowsOK(k, s)'
  <2>1. /\ attempt' = [attempt EXCEPT ![k][s][n].status = result.status]
        /\ UNCHANGED <<provider, calls>>
        /\ result.status \in StageOutcomes \union {"RUNNING"}
    BY Zenon, <1>1, <1>4
  <2> QED
    BY ONLY ZenonT(60), <1>2, <2>1, AttemptStatus
<1>6. row \in StageRecord /\ row.status = result.status
  <2>1. (~result.later) \in BOOLEAN
    BY <1>4
  <2>2. row = [status |-> result.status, due |-> ~result.later, replay |-> result.replay]
    OBVIOUS
  <2> QED
    BY ONLY <1>4, <2>1, <2>2 DEF StageRecord
<1>7. /\ stage' \in [Keys -> [Stages -> StageRecord]]
      /\ stage'[k][s].status = result.status
      /\ \A j \in Keys, i \in Stages : j # k \/ i # s => stage'[j][i] = stage[j][i]
  <2>1. stage \in [Keys -> [Stages -> StageRecord]] /\ stage' = [stage EXCEPT ![k][s] = row]
        /\ k \in Keys /\ s \in Stages
    BY Zenon, <1>1, <1>2 DEF StoreOK
  <2> QED
    BY ONLY <1>6, <2>1
<1>8. IsCycle(c) /\ c.status = (IF result = Done THEN "RUNNING" ELSE result.status)
      /\ c.next = NextStageAfter(s, result)
  <2>1. NextStageAfter(s, result) \in Stages \union {Nil}
    BY <1>2, RuntimeAssumption DEF NextStageAfter, Stages
  <2>2. (IF result = Done THEN "RUNNING" ELSE result.status)
           \in StageOutcomes \union {"NONE", "PENDING", "RUNNING"}
    BY <1>4
  <2> QED
    BY <2>1, <2>2 DEF IsCycle
<1>9. CycleRowOf(k, c)
  <2>1. cycle'[k] = c /\ \A j \in Keys \ {k} : cycle'[j] = cycle[j]
    BY Zenon, <1>1, <1>2 DEF StoreOK
  <2>2. DOMAIN cycle' = Keys
    BY Zenon, <1>1, <1>2 DEF StoreOK
  <2>3. cycle' = [j \in Keys |-> cycle'[j]]
    BY Zenon, <1>1, <2>2
  <2>4. \A j \in Keys : IsCycle(cycle'[j])
    BY Zenon, <1>2, <1>8, <2>1 DEF StoreOK
  <2> QED
    BY <2>1, <2>3, <2>4 DEF CycleRowOf
<1>10. StoreOK'
  BY Zenon, <1>1, <1>2, <1>5, <1>7, <1>9 DEF StoreOK, CycleRowOf
<1>11. Elsewhere(k, s)
  <2>1. provider' = provider /\ calls' = calls
    BY Zenon, <1>1
  <2> QED
    BY ONLY <1>5, <1>7, <2>1 DEF Elsewhere
<1>12. Finished(k, s, result)
  <2>1. cycle'[k] = c /\ abandoned' = abandoned
    BY Zenon, <1>1, <1>9 DEF CycleRowOf
  <2>2. \A i \in Stages : i # s => stage'[k][i] = stage[k][i]
    BY ONLY <1>2, <1>7
  <2> QED
    BY ONLY <1>7, <1>8, <2>1, <2>2 DEF Finished
<1>13. /\ run' \in [Runs -> RunRecord] /\ \A q \in Runs \ {r} : run'[q] = run[q]
       /\ run'[r].pc = pc /\ run'[r].result = left /\ run'[r].token = run[r].token
       /\ run'[r].key = k /\ run'[r].at = at
  <2> DEFINE new == [run[r] EXCEPT !.at = at, !.result = left, !.pc = pc]
  <2>1. at \in Stages /\ left \in Results /\ pc \in {"stop", "stage", "complete"}
    <3>1. Failure \in Results
      BY DEF Results
    <3>2. at \in Stages
      BY <1>2, RuntimeAssumption DEF Stages
    <3> QED
      BY <1>3, <3>1, <3>2
  <2>2. /\ new \in RunRecord /\ new.pc = pc /\ new.result = left
        /\ new.token = run[r].token /\ new.key = run[r].key /\ new.at = at
    BY ONLY Zenon, <1>3, <2>1 DEF RunRecord, Working, Walk
  <2>3. run' = [run EXCEPT ![r] = new]
    BY Zenon, <1>1
  <2> HIDE DEF new
  <2>4. run' \in [Runs -> RunRecord] /\ run'[r] = new
        /\ \A q \in Runs \ {r} : run'[q] = run[q]
    BY <1>3, <2>2, <2>3
  <2> QED
    BY <2>2, <2>4
<1>14. Moves(r)
  <2>1. run'[r].pc \notin {"calling", "called"}
    BY <1>13
  <2>2. lease' = lease /\ guard' = guard
    BY Zenon, <1>1
  <2> QED
    BY ONLY <1>13, <2>1, <2>2 DEF Moves
<1>15. cycle'[k].status # "NONE"
  BY <1>4, <1>12 DEF Finished, StageOutcomes, Terminal
<1>16. CASE result = Done
  <2>1. /\ s + 1 \in 1..(NStages + 1) /\ At(k, s + 1)' /\ CycleOK(k)'
        /\ s < NStages => /\ s + 1 \in Stages /\ cycle'[k].next = s + 1
                          /\ stage'[k][s + 1].status = "PENDING"
        /\ ~(s < NStages) => s = NStages
    BY ONLY <1>2, <1>12, <1>16, FinishedDone
  <2>2. Frontier(k)'
    BY <2>1 DEF Frontier
  <2>3. StoreInv'
    BY Zenon, <1>1, <1>2, <1>5, <1>9, <1>10, <1>11, <2>1, <2>2, SpotStore DEF CycleRowOf
  <2>4. CASE s < NStages
    <3>1. run'[r].pc = "stage" /\ run'[r].at = s + 1
      BY <1>13, <1>16, <2>4
    <3>2. Stands(run[r])'
      BY <1>2, <1>13, <1>15, <2>1, <2>4, <3>1
      DEF Stands, StageAt, Points, Working, Walk
    <3> QED
      BY Zenon, <1>1, <1>14, <2>3, <3>1, <3>2, OwnerStep DEF Fits, Pays
  <2>5. CASE ~(s < NStages)
    <3>1. run'[r].pc = "complete"
      BY <1>13, <1>16, <2>5
    <3>2. Stands(run[r])'
      BY <1>2, <1>13, <1>15, <2>1, <2>5, <3>1 DEF Stands, Working, Walk
    <3> QED
      BY Zenon, <1>1, <1>14, <2>3, <3>1, <3>2, OwnerStep DEF Fits, Pays
  <2> QED
    BY <2>4, <2>5
<1>17. CASE result # Done
  <2>1. /\ s \in 1..(NStages + 1) /\ At(k, s)' /\ CycleOK(k)'
        /\ result.status # "SUPPRESSED" => cycle'[k].next = s
    BY ONLY <1>2, <1>3, <1>12, <1>17, FinishedOther
  <2>2. Frontier(k)'
    BY <2>1 DEF Frontier
  <2>3. StoreInv'
    BY Zenon, <1>1, <1>2, <1>5, <1>9, <1>10, <1>11, <2>1, <2>2, SpotStore DEF CycleRowOf
  <2>4. run'[r].pc = "stop" /\ run'[r].at = s /\ run'[r].result = result
    BY <1>13, <1>17
  <2>5. result.status # "SUCCEEDED"
    BY ZenonT(60), <1>3, <1>17, ResultFields
  <2>6. Stands(run[r])'
    BY <1>2, <1>7, <1>13, <1>15, <2>1, <2>4, <2>5
    DEF Stands, StageAt, Points, Working, Walk
  <2> QED
    BY Zenon, <1>1, <1>14, <2>3, <2>4, <2>6, OwnerStep DEF Fits, Pays
<1> QED
  BY <1>16, <1>17

-----------------------------------------------------------------------------
(* The theorems.                                                           *)

\* Nothing is stored, nobody runs.
LEMMA RuntimeStart == RuntimeInit => RuntimeInv
<1> SUFFICES ASSUME RuntimeInit
             PROVE  RuntimeInv
  OBVIOUS
<1> USE DEF RuntimeInit
<1>1. RunsOK
  BY IdleRunRecord DEF RunsOK
<1>2. \A r \in Runs : run[r].token = 0 /\ run[r].pc = "idle"
  BY IdleRunRecord
<1>3. Tokens
  BY <1>2 DEF Tokens
<1>4. FencedCalls
  BY <1>2 DEF FencedCalls
<1>5. StoreOK
  <2>1. cycle = [k \in Keys |-> cycle[k]] /\ \A k \in Keys : IsCycle(cycle[k])
    BY DEF IsCycle, NoCycle
  <2>2. stage \in [Keys -> [Stages -> StageRecord]]
    BY DEF NewStage, StageRecord
  <2>3. truth \in [Keys -> [Stages -> BOOLEAN]]
    OBVIOUS
  <2>4. \A V : <<>> \in Seq(V)
    OBVIOUS
  <2> QED
    BY <2>1, <2>2, <2>3, <2>4 DEF StoreOK
<1>6. \A k \in Keys : CycleOK(k)
  BY DEF CycleOK, NoCycle, NewStage
<1>7. ASSUME NEW k \in Keys
      PROVE  Frontier(k)
  <2>1. 1 \in 1..(NStages + 1) /\ \A i \in Stages : ~(i < 1)
    BY RuntimeAssumption DEF Stages
  <2>2. \A i \in Stages : stage[k][i].status = "PENDING"
    BY DEF NewStage
  <2>3. At(k, 1)
    BY <2>1, <2>2 DEF At
  <2> QED
    BY <2>1, <2>3 DEF Frontier
<1>8. ASSUME NEW k \in Keys, NEW s \in Stages
      PROVE  RowsOK(k, s) /\ Money(k, s)
  <2>1. /\ Len(attempt[k][s]) = 0 /\ Len(provider[k][s]) = 0 /\ Len(calls[k][s]) = 0
        /\ stage[k][s].status = "PENDING"
    BY DEF NewStage
  <2>2. 1..0 = {}
    OBVIOUS
  <2> QED
    BY <2>1, <2>2 DEF RowsOK, Money
<1>9. \A r \in Runs : ~Owns(r)
  BY DEF Owns
<1> QED
  BY <1>1, <1>3, <1>4, <1>5, <1>6, <1>7, <1>8, <1>9 DEF RuntimeInv, StoreInv

\* Every step, and every step that changes nothing, keeps the invariant.
LEMMA RuntimeStep == RuntimeInv /\ [RuntimeNext]_runtimeVars => RuntimeInv'
<1> SUFFICES ASSUME RuntimeInv, [RuntimeNext]_runtimeVars
             PROVE  RuntimeInv'
  OBVIOUS
<1>1. CASE UNCHANGED runtimeVars
  <2>1. UNCHANGED <<lease, guard, run, storeVars>>
    BY <1>1 DEF runtimeVars, storeVars
  <2>2. RunsOK' /\ Tokens' /\ FencedCalls'
    BY <2>1 DEF RuntimeInv, RunsOK, Tokens, FencedCalls, Owns
  <2>3. StoreInv'
    BY <2>1, StoreFrame DEF RuntimeInv
  <2>4. ASSUME NEW q \in Runs, Owns(q)'
        PROVE  Fits(run[q])'
    <3>1. Owns(q)
      BY <2>1, <2>4 DEF Owns
    <3> QED
      BY <2>1, <3>1, FitsFrame DEF RuntimeInv
  <2> QED
    BY <2>2, <2>3, <2>4 DEF RuntimeInv
<1>2. ASSUME NEW r \in Runs, RunStep(r)
      PROVE  RuntimeInv'
  <2>1. CASE DependencyNotReady(r) \/ RetryNotDue(r)
    BY <2>1, StepGiveUp
  <2>2. CASE ReleaseLease(r) \/ LoseLease(r)
    BY <2>2, StepRelease
  <2>3. CASE ResumeOrCreateCycle(r)
    BY <2>3, StepResume
  <2>4. CASE TimeBudgetReached(r) \/ StopCycle(r) \/ CompleteCycle(r)
    BY <2>4, StepCloseCycle
  <2>5. CASE ResumeRunningStage(r)
    BY <2>5, StepResumeStage
  <2>6. CASE ReplayAttempt(r)
    BY <2>6, StepReplay
  <2>7. CASE BeginAttempt(r)
    BY <2>7, StepBegin
  <2>8. CASE ReserveStageCost(r)
    BY <2>8, StepReserve
  <2>9. CASE BindStageProposal(r)
    BY <2>9, StepBind
  <2>10. CASE TechnicalFailure(r) \/ AlreadyDone(r)
    BY <2>10, StepToFinish
  <2>11. CASE FinishStage(r)
    BY <2>11, StepFinishStage
  <2>12. CASE UnpaidAction(r)
    BY <2>12, StepUnpaid
  <2>13. CASE ResumeStarted(r)
    BY <2>13, StepResumeStarted
  <2>14. CASE StartRun(r)
    BY <2>14, StepStartRun
  <2>15. CASE CallProvider(r)
    BY <2>15, StepCall
  <2>16. CASE FinishRun(r)
    BY <2>16, StepFinishRun
  <2> QED
    BY <1>2, <2>1, <2>2, <2>3, <2>4, <2>5, <2>6, <2>7, <2>8, <2>9, <2>10, <2>11, <2>12,
       <2>13, <2>14, <2>15, <2>16 DEF RunStep
<1>3. CASE RuntimeNext
  BY <1>2, <1>3, StepAcquire, StepInterrupt, StepCrash, StepExpire, StepAbandon,
     StepRetryDue DEF RuntimeNext
<1> QED
  BY <1>1, <1>3

\* The invariant holds always.
LEMMA RuntimeAlways == RuntimeSpec => []RuntimeInv
  BY RuntimeStart, RuntimeStep, PTL DEF RuntimeSpec

\* The fence holds for any number of runs: between the start and the end of a
\* provider run, its run holds the lease row's lock and owns the lease.
THEOREM RuntimeFencedCalls == RuntimeSpec => []FencedCalls
<1>1. RuntimeInv => FencedCalls
  BY DEF RuntimeInv
<1> QED
  BY <1>1, RuntimeAlways, PTL

\* begin_stage never meets a finished stage.
THEOREM RuntimeNoTerminalRestart == RuntimeSpec => []NoTerminalRestart
<1>1. RuntimeInv => NoTerminalRestart
  <2> SUFFICES ASSUME RuntimeInv, NEW r \in Runs, Owns(r), run[r].pc = "stage"
               PROVE  stage[run[r].key][run[r].at].status \notin Terminal
    BY DEF NoTerminalRestart
  <2>1. PICK k, s : k = run[r].key /\ s = run[r].at
    OBVIOUS
  <2>2. k \in Keys /\ s \in Stages /\ At(k, s) /\ Stands(run[r])
    BY <2>1, OwnerRows DEF Walk
  <2>3. stage[k][s].status # "SUPPRESSED"
    BY <2>1, <2>2 DEF Stands, StageAt, Walk
  <2>4. ~(s < s)
    BY <2>2 DEF Stages
  <2>5. stage[k][s].status # "SUCCEEDED"
    BY <2>2, <2>4 DEF At
  <2> QED
    BY <2>1, <2>3, <2>5 DEF Terminal
<1> QED
  BY <1>1, RuntimeAlways, PTL

\* The stages before next_stage are those that succeeded, and a cycle without
\* one is through or was suppressed by its last stage, unless it was abandoned.
THEOREM RuntimeCheckpointExact == RuntimeSpec => []CheckpointExact
<1>1. RuntimeInv => CheckpointExact
  <2> SUFFICES ASSUME RuntimeInv, NEW k \in Keys \ abandoned
               PROVE  LET c == cycle[k]
                          done == {s \in Stages : stage[k][s].status = "SUCCEEDED"}
                      IN  CASE c.status = "NONE" -> done = {}
                            [] c.next # Nil -> done = 1..(c.next - 1)
                            [] c.status = "SUPPRESSED" -> \E s \in Stages :
                                   done = 1..(s - 1) /\ stage[k][s].status = "SUPPRESSED"
                            [] OTHER -> done = Stages
    BY DEF CheckpointExact
  <2> DEFINE done == {s \in Stages : stage[k][s].status = "SUCCEEDED"}
  <2>1. CycleOK(k) /\ IsCycle(cycle[k])
    BY DEF RuntimeInv, StoreInv, StoreOK
  <2>2. cycle[k].next \in Stages \union {Nil}
    BY <2>1 DEF IsCycle
  <2>3. ASSUME NEW s \in 1..(NStages + 1), At(k, s)
        PROVE  done = 1..(s - 1)
    <3>1. \A i \in Stages : i < s <=> stage[k][i].status = "SUCCEEDED"
      BY <2>3 DEF At
    <3>2. 1..(s - 1) = {i \in Stages : i < s}
      BY RuntimeAssumption DEF Stages
    <3> QED
      BY <3>1, <3>2
  <2>4. /\ \A s \in Stages : s \in 1..(NStages + 1)
        /\ NStages + 1 \in 1..(NStages + 1) /\ 1..((NStages + 1) - 1) = Stages
    BY RuntimeAssumption DEF Stages
  <2>5. CASE cycle[k].status = "NONE"
    BY <2>1, <2>5 DEF CycleOK
  <2>6. CASE cycle[k].status # "NONE" /\ cycle[k].next # Nil
    <3>1. At(k, cycle[k].next) /\ cycle[k].next \in 1..(NStages + 1)
      BY <2>1, <2>2, <2>4, <2>6 DEF CycleOK
    <3>2. done = 1..(cycle[k].next - 1)
      BY <2>3, <3>1
    <3>3. cycle[k].status # "SUPPRESSED"
      BY <2>1, <2>6 DEF CycleOK
    <3> QED
      BY <2>6, <3>2, <3>3
  <2>7. CASE cycle[k].status = "SUPPRESSED" /\ cycle[k].next = Nil
    <3>1. PICK s \in Stages : At(k, s) /\ stage[k][s].status = "SUPPRESSED"
      BY <2>1, <2>7 DEF CycleOK
    <3>2. done = 1..(s - 1)
      BY <2>3, <2>4, <3>1
    <3> QED
      BY <2>7, <3>1, <3>2
  <2>8. CASE cycle[k].status \notin {"NONE", "SUPPRESSED"} /\ cycle[k].next = Nil
    <3>1. At(k, NStages + 1)
      BY <2>1, <2>8 DEF CycleOK
    <3>2. done = 1..((NStages + 1) - 1)
      BY <2>3, <2>4, <3>1
    <3> QED
      BY <2>4, <2>8, <3>2
  <2> QED
    BY <2>5, <2>6, <2>7, <2>8
<1> QED
  BY <1>1, RuntimeAlways, PTL

\* Whatever is interrupted, replayed or taken over, the calls made under an
\* attempt, one and at most one replay, are covered by its envelope.
THEOREM RuntimeEnvelopeCovers == RuntimeSpec => []EnvelopeCovers
<1>1. RuntimeInv => EnvelopeCovers
  <2> SUFFICES ASSUME RuntimeInv, NEW k \in Keys, NEW s \in Stages,
                      NEW n \in DOMAIN calls[k][s]
               PROVE  calls[k][s][n] * CallCost <= attempt[k][s][n].reserved
    BY DEF EnvelopeCovers
  <2>1. /\ calls[k][s] \in Seq(Nat) /\ provider[k][s] \in Seq(ProviderRecord)
        /\ attempt[k][s] \in Seq(AttemptRecord) /\ RowsOK(k, s) /\ Money(k, s)
    BY DEF RuntimeInv, StoreInv, StoreOK
  <2>2. DOMAIN calls[k][s] = 1..Len(calls[k][s])
    BY <2>1, LenProperties
  <2>3. /\ n \in 1..Len(attempt[k][s]) /\ n \in 1..Len(provider[k][s])
        /\ n \in 1..Len(calls[k][s])
    BY <2>1, <2>2 DEF RowsOK
  <2>4. PICK c \in Nat : c = calls[k][s][n]
    BY <2>1, <2>3, ElementOfSeq
  <2>5. provider[k][s][n] \in ProviderRecord
    BY <2>1, <2>3, ElementOfSeq
  <2>6. provider[k][s][n].replays \in Nat /\ provider[k][s][n].replays <= 1
    BY <2>5, RunRow
  <2>7. PICK i \in Nat : i = provider[k][s][n].replays
    BY <2>6
  <2>8. c <= 1 + i /\ i <= 1
    BY <2>1, <2>3, <2>4, <2>6, <2>7, MoneyAt
  <2>9. CallCost \in Nat
    BY RuntimeAssumption
  <2>10. CASE provider[k][s][n].status = "NONE"
    <3>1. c = 0
      BY ZenonT(60), <2>1, <2>3, <2>4, <2>10, MoneyAt
    <3>2. PICK e : e = attempt[k][s][n].reserved
      OBVIOUS
    <3>3. e \in Nat
      <4>1. attempt[k][s][n] \in AttemptRecord
        BY <2>1, <2>3, ElementOfSeq
      <4> QED
        BY <3>2, <4>1 DEF AttemptRecord
    <3>4. 0 * CallCost <= e
      BY ONLY <2>9, <3>3
    <3> QED
      BY <2>4, <3>1, <3>2, <3>4
  <2>11. CASE provider[k][s][n].status # "NONE"
    <3>1. s \in Paid /\ attempt[k][s][n].reserved = Envelope(s)
      BY <2>1, <2>3, <2>11, MoneyAt
    <3>2. attempt[k][s][n].reserved = 2 * CallCost
      BY <3>1 DEF Envelope
    <3>3. c = 0 \/ c = 1 \/ c = 2
      BY ONLY <2>8, c \in Nat, i \in Nat
    <3>4. 0 * CallCost <= 2 * CallCost /\ 1 * CallCost <= 2 * CallCost
          /\ 2 * CallCost <= 2 * CallCost
      BY ONLY <2>9
    <3> QED
      BY ONLY <2>4, <3>2, <3>3, <3>4
  <2> QED
    BY <2>10, <2>11
<1> QED
  BY <1>1, RuntimeAlways, PTL

\* Only CallProvider changes the calls of an attempt that exists.
LEMMA OnlyCalls ==
    ASSUME RuntimeInv, RuntimeNext, NEW k \in Keys, NEW s \in Stages,
           calls'[k][s] # calls[k][s], Len(calls[k][s]) = Len(calls'[k][s])
    PROVE  \E r \in Runs : CallProvider(r) /\ k = run[r].key /\ s = run[r].at
<1>1. calls' # calls
  OBVIOUS
<1>2. PICK r \in Runs : CallProvider(r) \/ BeginAttempt(r)
  <2>1. ASSUME NEW r \in Runs, RunStep(r)
        PROVE  CallProvider(r) \/ BeginAttempt(r)
    <3>1. ~(DependencyNotReady(r) \/ ReleaseLease(r) \/ LoseLease(r))
      BY <1>1 DEF DependencyNotReady, ReleaseLease, LoseLease
    <3>2. ~(ResumeOrCreateCycle(r) \/ TimeBudgetReached(r) \/ StopCycle(r)
            \/ CompleteCycle(r))
      BY <1>1 DEF ResumeOrCreateCycle, TimeBudgetReached, StopCycle, CompleteCycle
    <3>3. ~(RetryNotDue(r) \/ ResumeRunningStage(r) \/ ReplayAttempt(r))
      BY Zenon, <1>1 DEF RetryNotDue, ResumeRunningStage, ReplayAttempt
    <3>4. ~(ReserveStageCost(r) \/ BindStageProposal(r) \/ TechnicalFailure(r)
            \/ FinishStage(r))
      BY Zenon, <1>1 DEF ReserveStageCost, BindStageProposal, TechnicalFailure, FinishStage
    <3>5. ~(AlreadyDone(r) \/ UnpaidAction(r) \/ ResumeStarted(r) \/ StartRun(r)
            \/ FinishRun(r))
      BY Zenon, <1>1 DEF AlreadyDone, UnpaidAction, ResumeStarted, StartRun, FinishRun
    <3> QED
      BY <2>1, <3>1, <3>2, <3>3, <3>4, <3>5 DEF RunStep
  <2>2. ASSUME NEW r \in Runs, NEW auth
        PROVE  ~AcquireLease(r, auth) /\ ~InterruptRun(r) /\ ~CrashRun(r)
    BY <1>1 DEF AcquireLease, InterruptRun, CrashRun
  <2>3. ~LeaseExpires
    BY <1>1 DEF LeaseExpires
  <2>4. ASSUME NEW j, NEW i
        PROVE  ~AbandonCycle(j) /\ ~RetryDue(j, i)
    BY <1>1 DEF AbandonCycle, RetryDue
  <2> QED
    BY <2>1, <2>2, <2>3, <2>4 DEF RuntimeNext
<1>3. PICK j, i : j = run[r].key /\ i = run[r].at
  OBVIOUS
<1>4. calls \in [Keys -> [Stages -> Seq(Nat)]] /\ StoreOK
  BY DEF RuntimeInv, StoreInv, StoreOK
<1>5. Len(calls[k][s]) \in Nat
  BY <1>4, LenProperties
<1>6. CASE CallProvider(r)
  <2>1. calls' = [calls EXCEPT ![j][i][Len(attempt[j][i])] =
                                  calls[j][i][Len(attempt[j][i])] + 1]
    BY Zenon, <1>3, <1>6 DEF CallProvider
  <2>2. k = j /\ s = i
    BY <1>4, <2>1
  <2> QED
    BY <1>3, <1>6, <2>2
<1>7. CASE BeginAttempt(r)
  <2>1. Owns(r) /\ run[r].pc \in Walk
        /\ calls' = [calls EXCEPT ![j][i] = Append(calls[j][i], 0)]
    BY <1>3, <1>7 DEF BeginAttempt, Transacts, Active, Walk
  <2>2. j \in Keys /\ i \in Stages
    BY <1>3, <2>1, OwnerRows
  <2>3. 0 \in Nat
    OBVIOUS
  <2>4. /\ Len(calls'[j][i]) = Len(calls[j][i]) + 1
        /\ \A a \in Keys, b \in Stages : a # j \/ b # i => calls'[a][b] = calls[a][b]
    BY ONLY <1>4, <2>1, <2>2, <2>3, SpotAppend
  <2>5. k = j /\ s = i
    BY <2>4
  <2>6. Len(calls'[k][s]) # Len(calls[k][s])
    <3>1. PICK x \in Nat : x = Len(calls[k][s])
      BY <1>5
    <3>2. x + 1 # x
      BY ONLY x \in Nat
    <3> QED
      BY <2>4, <2>5, <3>1, <3>2
  <2> QED
    BY ZenonT(60), <2>6
<1> QED
  BY <1>2, <1>6, <1>7

\* No call is made for a result the domain holds, or for a provider run of the
\* attempt that is over.
THEOREM RuntimeBoughtOnce == RuntimeSpec => BoughtOnce
<1> DEFINE Bought == \A k \in Keys, s \in Stages :
          calls[k][s] # calls'[k][s] /\ Len(calls[k][s]) = Len(calls'[k][s])
             => /\ ~truth[k][s]
                /\ provider[k][s][Len(provider[k][s])].status = "STARTED"
<1>1. RuntimeInv /\ [RuntimeNext]_runtimeVars => [Bought]_runtimeVars
  <2> SUFFICES ASSUME RuntimeInv, RuntimeNext, NEW k \in Keys, NEW s \in Stages,
                      calls[k][s] # calls'[k][s], Len(calls[k][s]) = Len(calls'[k][s])
               PROVE  /\ ~truth[k][s]
                      /\ provider[k][s][Len(provider[k][s])].status = "STARTED"
    BY DEF runtimeVars
  <2>1. PICK r \in Runs : CallProvider(r) /\ k = run[r].key /\ s = run[r].at
    BY OnlyCalls
  <2>2. run[r].pc = "calling" /\ run[r].pc \in Walk
    BY Zenon, <2>1 DEF CallProvider, Walk
  <2>3. Owns(r)
    BY <2>2 DEF RuntimeInv, FencedCalls
  <2>4. Pays(run[r]) /\ RowsOK(k, s)
    BY <2>1, <2>2, <2>3, OwnerRows
  <2> QED
    BY <2>1, <2>2, <2>4 DEF Pays, ProviderRun, RowsOK
<1> QED
  BY <1>1, RuntimeAlways, PTL DEF RuntimeSpec, BoughtOnce

-----------------------------------------------------------------------------
(* The cycle's ledger: it is the sum of the envelopes of its attempts.      *)

\* What a change of one addend does to the cost of a stage: a row is replaced,
\* or one is appended.
LEMMA CostOfRows ==
    ASSUME NEW q \in Seq(AttemptRecord)
    PROVE  /\ StageCost(q) \in Nat
           /\ IsFiniteSet(DOMAIN q) /\ DOMAIN q = 1..Len(q) /\ Len(q) \in Nat
           /\ \A n \in DOMAIN q : q[n].reserved \in Nat
<1>1. DOMAIN q = 1..Len(q) /\ Len(q) \in Nat
  BY LenProperties
<1>2. IsFiniteSet(DOMAIN q)
  BY <1>1, FS_Interval
<1>3. \A n \in DOMAIN q : q[n].reserved \in Nat
  <2>1. \A n \in 1..Len(q) : q[n] \in AttemptRecord
    BY ElementOfSeq
  <2> QED BY <1>1, <2>1 DEF AttemptRecord
<1> DEFINE f == [n \in DOMAIN q |-> q[n].reserved]
<1>4. \A n \in DOMAIN q : f[n] \in Nat
  BY <1>3
<1> HIDE DEF f
<1>5. SumFunctionOnSet(f, DOMAIN q) \in Nat
  BY <1>2, <1>4, SumNat
<1> QED BY <1>1, <1>2, <1>3, <1>5 DEF StageCost, f

LEMMA CostReplaced ==
    ASSUME NEW q \in Seq(AttemptRecord), NEW p \in Seq(AttemptRecord), Len(p) = Len(q),
           NEW n \in 1..Len(q), \A i \in 1..Len(q) : i # n => p[i] = q[i]
    PROVE  StageCost(p) = StageCost(q) + (p[n].reserved - q[n].reserved)
<1> DEFINE f == [i \in DOMAIN q |-> q[i].reserved]
           g == [i \in DOMAIN p |-> p[i].reserved]
<1>1. /\ IsFiniteSet(DOMAIN q) /\ DOMAIN q = 1..Len(q) /\ DOMAIN p = 1..Len(q)
      /\ \A i \in DOMAIN q : q[i].reserved \in Nat
      /\ \A i \in DOMAIN p : p[i].reserved \in Nat
  BY CostOfRows
<1>2. /\ \A i \in DOMAIN q : f[i] \in Int /\ g[i] \in Int
      /\ \A i \in DOMAIN q \ {n} : f[i] = g[i]
      /\ n \in DOMAIN q /\ DOMAIN p = DOMAIN q
      /\ g[n] = p[n].reserved /\ f[n] = q[n].reserved
  BY SMTT(60), <1>1
<1> HIDE DEF f, g
<1>3. SumFunctionOnSet(g, DOMAIN q) = SumFunctionOnSet(f, DOMAIN q) + (g[n] - f[n])
  BY ZenonT(60), <1>1, <1>2, SumUpdate
<1>4. StageCost(p) = SumFunctionOnSet(g, DOMAIN p) /\ StageCost(q) = SumFunctionOnSet(f, DOMAIN q)
  BY DEF StageCost, f, g
<1> QED BY <1>2, <1>3, <1>4

LEMMA CostAppended ==
    ASSUME NEW q \in Seq(AttemptRecord), NEW p \in Seq(AttemptRecord), Len(p) = Len(q) + 1,
           \A i \in 1..Len(q) : p[i] = q[i]
    PROVE  StageCost(p) = StageCost(q) + p[Len(q) + 1].reserved
<1> PICK n : n = Len(q) + 1
  OBVIOUS
<1> DEFINE f == [i \in DOMAIN q |-> q[i].reserved]
           g == [i \in DOMAIN p |-> p[i].reserved]
<1>1. /\ IsFiniteSet(DOMAIN q) /\ DOMAIN q = 1..Len(q) /\ DOMAIN p = 1..Len(p)
      /\ Len(q) \in Nat /\ StageCost(q) \in Nat
      /\ \A i \in DOMAIN p : p[i].reserved \in Nat
  BY CostOfRows
<1>2. DOMAIN p = DOMAIN q \union {n} /\ n \notin DOMAIN q /\ DOMAIN q \subseteq DOMAIN p
  BY <1>1
<1>3. /\ \A i \in DOMAIN q : f[i] = g[i]
      /\ \A i \in DOMAIN q \union {n} : g[i] \in Int
      /\ g[n] = p[n].reserved
  BY <1>1, <1>2
<1> HIDE DEF f, g
<1>4. SumFunctionOnSet(g, DOMAIN q \union {n}) = g[n] + SumFunctionOnSet(g, DOMAIN q)
  BY <1>1, <1>2, <1>3, SumAdd
<1>5. SumFunctionOnSet(g, DOMAIN q) = SumFunctionOnSet(f, DOMAIN q)
  BY <1>1, <1>3, SumCongruent
<1>6. StageCost(q) = SumFunctionOnSet(f, DOMAIN q)
  BY DEF StageCost, f
<1>7. StageCost(p) = SumFunctionOnSet(g, DOMAIN q \union {n})
  BY <1>2 DEF StageCost, g
<1>8. g[n] \in Int
  BY <1>3
<1> QED BY <1>1, <1>3, <1>4, <1>5, <1>6, <1>7, <1>8

\* The attempts of one stage change: so does the sum, by as much.
LEMMA SpentChanges ==
    ASSUME NEW a \in [Stages -> Seq(AttemptRecord)], NEW b \in [Stages -> Seq(AttemptRecord)],
           NEW s \in Stages, \A i \in Stages : i # s => a[i] = b[i]
    PROVE  /\ SpentOf(b) = SpentOf(a) + (StageCost(b[s]) - StageCost(a[s]))
           /\ SpentOf(a) \in Nat /\ StageCost(a[s]) \in Nat
           /\ SpentOf(b) \in Nat /\ StageCost(b[s]) \in Nat
<1> DEFINE f == [i \in Stages |-> StageCost(a[i])]
           g == [i \in Stages |-> StageCost(b[i])]
<1>1. IsFiniteSet(Stages)
  BY FS_Interval, RuntimeAssumption DEF Stages
<1>2. \A i \in Stages : StageCost(a[i]) \in Nat /\ StageCost(b[i]) \in Nat
  BY CostOfRows
<1>3. /\ \A i \in Stages : f[i] \in Nat /\ g[i] \in Nat
      /\ \A i \in Stages \ {s} : f[i] = g[i]
      /\ f[s] = StageCost(a[s]) /\ g[s] = StageCost(b[s])
  BY <1>2
<1>4. SpentOf(a) = SumFunctionOnSet(f, Stages) /\ SpentOf(b) = SumFunctionOnSet(g, Stages)
  BY DEF SpentOf
<1> HIDE DEF f, g
<1>5. SumFunctionOnSet(g, Stages) = SumFunctionOnSet(f, Stages) + (g[s] - f[s])
  <2>1. \A i \in Stages : f[i] \in Int /\ g[i] \in Int
    BY <1>3
  <2> QED BY <1>1, <1>3, <2>1, SumUpdate
<1>6. SumFunctionOnSet(f, Stages) \in Nat /\ SumFunctionOnSet(g, Stages) \in Nat
  BY <1>1, <1>3, SumNat
<1> QED BY <1>2, <1>3, <1>4, <1>5, <1>6

\* The ledger of a cycle: a cycle that does not exist yet has spent nothing.
Ledger(k) ==
    /\ cycle[k].spent = SpentOf(attempt[k])
    /\ cycle[k].spent <= MaxCost
    /\ cycle[k].status = "NONE" => cycle[k].spent = 0

\* No row is written that the ledger depends on.
LEMMA LedgerFrame ==
    ASSUME NEW k \in Keys, Ledger(k), SpentOf(attempt'[k]) = SpentOf(attempt[k]),
           cycle'[k].spent = cycle[k].spent,
           cycle'[k].status = "NONE" => cycle[k].status = "NONE"
    PROVE  Ledger(k)'
BY DEF Ledger

\* The rows of the owner's stage are replaced by some of the same cost, or of the
\* cost of an envelope more that the budget has room for.
LEMMA LedgerOfStage ==
    ASSUME StoreOK, StoreOK', NEW k \in Keys, NEW s \in Stages,
           \A j \in Keys : Ledger(j),
           \A j \in Keys, i \in Stages : j # k \/ i # s => attempt'[j][i] = attempt[j][i],
           \A j \in Keys \ {k} : cycle'[j] = cycle[j],
           cycle'[k].status = "NONE" => cycle[k].status = "NONE" /\ cycle'[k].spent = 0,
           \/ StageCost(attempt'[k][s]) = StageCost(attempt[k][s])
           \/ SpentOf(attempt'[k]) <= MaxCost /\ cycle[k].status # "NONE",
           \/ cycle'[k].spent = SpentOf(attempt'[k])
           \/ /\ cycle'[k].spent = cycle[k].spent
              /\ StageCost(attempt'[k][s]) = StageCost(attempt[k][s])
    PROVE  \A j \in Keys : Ledger(j)'
<1>1. attempt \in [Keys -> [Stages -> Seq(AttemptRecord)]]
      /\ attempt' \in [Keys -> [Stages -> Seq(AttemptRecord)]]
  BY DEF StoreOK
<1>2. ASSUME NEW j \in Keys, j # k PROVE Ledger(j)'
  <2>1. attempt'[j] = attempt[j] /\ cycle'[j] = cycle[j]
    BY <1>1, <1>2
  <2> QED BY <2>1, LedgerFrame
<1>3. /\ SpentOf(attempt'[k]) =
            SpentOf(attempt[k]) + (StageCost(attempt'[k][s]) - StageCost(attempt[k][s]))
      /\ SpentOf(attempt[k]) \in Nat /\ StageCost(attempt[k][s]) \in Nat
  <2> DEFINE a == attempt[k]
             b == attempt'[k]
  <2>1. /\ a \in [Stages -> Seq(AttemptRecord)] /\ b \in [Stages -> Seq(AttemptRecord)]
        /\ \A i \in Stages : i # s => a[i] = b[i]
    BY <1>1
  <2> HIDE DEF a, b
  <2>2. SpentOf(b) = SpentOf(a) + (StageCost(b[s]) - StageCost(a[s]))
        /\ SpentOf(a) \in Nat /\ StageCost(a[s]) \in Nat
    BY <2>1, SpentChanges
  <2> QED BY <2>2 DEF a, b
<1>4. StageCost(attempt'[k][s]) = StageCost(attempt[k][s]) =>
         SpentOf(attempt'[k]) = SpentOf(attempt[k])
  BY <1>3
<1>5. Ledger(k)'
  BY <1>4 DEF Ledger
<1> QED BY <1>2, <1>5

\* Neither the attempts nor what a cycle has spent change.
LEMMA LedgerUntouched ==
    ASSUME StoreOK, \A j \in Keys : Ledger(j), attempt' = attempt,
           \/ cycle' = cycle
           \/ \E k \in Keys, status \in StageOutcomes : \E next :
                 cycle' = [cycle EXCEPT ![k].status = status, ![k].next = next]
    PROVE  \A j \in Keys : Ledger(j)'
<1>1. CASE cycle' = cycle
  BY <1>1, LedgerFrame
<1>2. ASSUME NEW k \in Keys, NEW status \in StageOutcomes, NEW next,
             cycle' = [cycle EXCEPT ![k].status = status, ![k].next = next]
      PROVE  \A j \in Keys : Ledger(j)'
  <2>1. /\ cycle'[k].spent = cycle[k].spent /\ cycle'[k].status = status
        /\ \A j \in Keys \ {k} : cycle'[j] = cycle[j]
    <3>1. PICK d : /\ d = cycle[k].spent
                   /\ cycle[k] \in [status : StageOutcomes \union {"NONE", "PENDING", "RUNNING"},
                                    next : Stages \union {Nil}, spent : {d}]
      BY Zenon, StoreOK, k \in Keys DEF IsCycle, StoreOK
    <3>2. /\ [cycle[k] EXCEPT !.status = status, !.next = next].spent = d
          /\ [cycle[k] EXCEPT !.status = status, !.next = next].status = status
      BY <3>1
    <3>3. DOMAIN cycle = Keys /\ k \in Keys
      BY Zenon, StoreOK, k \in Keys DEF StoreOK
    <3> QED BY <1>2, <3>1, <3>2, <3>3
  <2>2. status # "NONE"
    BY DEF StageOutcomes, Terminal
  <2>3. ASSUME NEW j \in Keys PROVE Ledger(j)'
    <3>1. cycle'[j].spent = cycle[j].spent /\ (cycle'[j].status = "NONE" => cycle[j].status = "NONE")
      BY <2>1, <2>2
    <3> QED BY <3>1, LedgerFrame
  <2> QED BY <2>3
<1> QED BY <1>1, <1>2

\* The owner writes the status of its attempt, or that it is proposed.
LEMMA SameCost ==
    ASSUME StoreOK, NEW k \in Keys, NEW s \in Stages, NEW n \in 1..Len(attempt[k][s]),
           NEW row \in AttemptRecord, row.reserved = attempt[k][s][n].reserved,
           attempt' = [attempt EXCEPT ![k][s][n] = row]
    PROVE  /\ StageCost(attempt'[k][s]) = StageCost(attempt[k][s])
           /\ \A j \in Keys, i \in Stages : j # k \/ i # s => attempt'[j][i] = attempt[j][i]
<1>1. attempt \in [Keys -> [Stages -> Seq(AttemptRecord)]]
  BY DEF StoreOK
<1>2. /\ attempt' \in [Keys -> [Stages -> Seq(AttemptRecord)]]
      /\ Len(attempt'[k][s]) = Len(attempt[k][s])
      /\ attempt'[k][s][n] = row
      /\ \A i \in 1..Len(attempt[k][s]) : i # n => attempt'[k][s][i] = attempt[k][s][i]
      /\ \A j \in Keys, i \in Stages : j # k \/ i # s => attempt'[j][i] = attempt[j][i]
  BY ONLY <1>1, SpotExcept, k \in Keys, s \in Stages, n \in 1..Len(attempt[k][s]),
          row \in AttemptRecord, attempt' = [attempt EXCEPT ![k][s][n] = row]
<1>3. StageCost(attempt'[k][s]) =
         StageCost(attempt[k][s]) + (attempt'[k][s][n].reserved - attempt[k][s][n].reserved)
  <2> DEFINE q == attempt[k][s]
             p == attempt'[k][s]
  <2>1. /\ q \in Seq(AttemptRecord) /\ p \in Seq(AttemptRecord) /\ Len(p) = Len(q)
        /\ n \in 1..Len(q) /\ \A i \in 1..Len(q) : i # n => p[i] = q[i]
    BY <1>1, <1>2
  <2> HIDE DEF q, p
  <2>2. StageCost(p) = StageCost(q) + (p[n].reserved - q[n].reserved)
    BY <2>1, CostReplaced
  <2> QED BY <2>2 DEF q, p
<1>4. row.reserved \in Nat /\ StageCost(attempt[k][s]) \in Nat
  BY <1>1, CostOfRows DEF AttemptRecord
<1> QED BY <1>2, <1>3, <1>4

\* What the owner's attempt is: a row whose status or proposal may be written.
LEMMA OwnersRow ==
    ASSUME RuntimeInv, NEW r \in Runs, Owns(r), run[r].pc \in Walk,
           NEW k, NEW s, k = run[r].key, s = run[r].at, stage[k][s].status # "PENDING",
           NEW n, n = Len(attempt[k][s])
    PROVE  /\ k \in Keys /\ s \in Stages /\ n \in 1..Len(attempt[k][s]) /\ StoreOK
           /\ cycle[k].status # "NONE"
           /\ attempt[k][s][n] \in AttemptRecord
<1>1. /\ k \in Keys /\ s \in Stages /\ StoreOK /\ n \in 1..Len(attempt[k][s])
      /\ attempt[k][s][n] \in AttemptRecord /\ Stands(run[r])
  BY OwnerRows
<1>2. cycle[k].status # "NONE"
  BY <1>1 DEF Stands, Working
<1> QED BY <1>1, <1>2

-----------------------------------------------------------------------------
(* The steps that write an attempt or a cycle                               *)

\* A cycle is created, with nothing spent, or resumed.
LEMMA LedgerResumed ==
    ASSUME RuntimeInv, \A j \in Keys : Ledger(j), NEW r \in Runs, ResumeOrCreateCycle(r)
    PROVE  \A j \in Keys : Ledger(j)'
<1> PICK k : k = SelectedKey
  OBVIOUS
<1> DEFINE c == IF cycle[k].status = "NONE" THEN NewCycle ELSE cycle[k]
<1>1. k \in Keys /\ StoreOK
  BY SelectedIn DEF RuntimeInv, StoreInv
<1>2. cycle' = [cycle EXCEPT ![k] = c] /\ attempt' = attempt
  BY DEF ResumeOrCreateCycle
<1>3. cycle'[k] = c /\ \A j \in Keys \ {k} : cycle'[j] = cycle[j]
  BY <1>1, <1>2 DEF StoreOK
<1>4. NewCycle.spent = 0 /\ NewCycle.status = "PENDING"
  BY DEF NewCycle
<1>5. cycle'[k].spent = cycle[k].spent /\ cycle'[k].status # "NONE"
  BY <1>1, <1>3, <1>4 DEF Ledger
<1>6. ASSUME NEW j \in Keys PROVE Ledger(j)'
  <2>1. cycle'[j].spent = cycle[j].spent /\ (cycle'[j].status = "NONE" => cycle[j].status = "NONE")
    BY <1>3, <1>5
  <2> QED BY <1>2, <2>1, LedgerFrame
<1> QED BY <1>6

\* A cycle is closed or abandoned.
LEMMA LedgerClosed ==
    ASSUME RuntimeInv, \A j \in Keys : Ledger(j),
           \/ \E r \in Runs : TimeBudgetReached(r) \/ StopCycle(r) \/ CompleteCycle(r)
           \/ \E k \in Keys : AbandonCycle(k)
    PROVE  \A j \in Keys : Ledger(j)'
<1>0. StoreOK
  BY DEF RuntimeInv, StoreInv
<1>1. ASSUME NEW k \in Keys, AbandonCycle(k) PROVE \A j \in Keys : Ledger(j)'
  <2>1. /\ cycle' = [cycle EXCEPT ![k].status = "SUPPRESSED", ![k].next = Nil]
        /\ attempt' = attempt /\ "SUPPRESSED" \in StageOutcomes
    BY <1>1 DEF AbandonCycle, StageOutcomes, Terminal
  <2> QED BY <1>0, <2>1, LedgerUntouched
<1>2. ASSUME NEW r \in Runs, TimeBudgetReached(r) \/ StopCycle(r) \/ CompleteCycle(r)
      PROVE  \A j \in Keys : Ledger(j)'
  <2>1. /\ Owns(r) /\ run[r].pc \in {"stage", "stop", "complete"} /\ attempt' = attempt
        /\ TimeBudgetReached(r) => FinishCycle(run[r].key, "WAITING")
        /\ StopCycle(r) => FinishCycle(run[r].key, run[r].result.status)
        /\ CompleteCycle(r) => FinishCycle(run[r].key, "SUCCEEDED")
    BY <1>2 DEF TimeBudgetReached, StopCycle, CompleteCycle, Transacts, Active
  <2>2. run[r].key \in Keys
    <3>1. Stands(run[r])
      BY <2>1 DEF RuntimeInv, Fits
    <3> QED BY <2>1, <3>1 DEF Stands, Working, Walk
  <2>3. run[r].result.status \in StageOutcomes
    <3>1. run[r] \in RunRecord
      BY DEF RuntimeInv, RunsOK
    <3>2. run[r].result \in Results
      BY <3>1 DEF RunRecord
    <3> QED BY <3>2, ResultFields
  <2>4. PICK status \in StageOutcomes : FinishCycle(run[r].key, status)
    <3>1. "WAITING" \in StageOutcomes /\ "SUCCEEDED" \in StageOutcomes
      BY DEF StageOutcomes, Terminal
    <3> QED BY <1>2, <2>1, <2>3, <3>1
  <2>5. \E next : cycle' = [cycle EXCEPT ![run[r].key].status = status, ![run[r].key].next = next]
    BY <2>4 DEF FinishCycle
  <2> QED BY <1>0, <2>1, <2>2, <2>5, LedgerUntouched
<1> QED BY <1>1, <1>2

\* An attempt is replayed, proposed or finished: it keeps its envelope.
LEMMA LedgerKept ==
    ASSUME RuntimeInv, RuntimeInv', \A j \in Keys : Ledger(j), NEW r \in Runs,
           ReplayAttempt(r) \/ BindStageProposal(r) \/ FinishStage(r)
    PROVE  \A j \in Keys : Ledger(j)'
<1> PICK k, s : k = run[r].key /\ s = run[r].at
  OBVIOUS
<1> PICK n : n = Len(attempt[k][s])
  OBVIOUS
<1>1. Owns(r) /\ run[r].pc \in {"stage", "propose", "finish"} /\ run[r].pc \in Walk
  BY Zenon DEF ReplayAttempt, BindStageProposal, FinishStage, Transacts, Active, Walk
<1>2. stage[k][s].status # "PENDING"
  <2>1. Stands(run[r])
    BY ZenonT(60), <1>1, OwnerRows
  <2>2. BindStageProposal(r) => run[r].pc = "propose"
    BY ZenonT(60) DEF BindStageProposal, Transacts
  <2>3. ReplayAttempt(r) => stage[k][s].status = "WAITING"
    BY DEF ReplayAttempt
  <2>4. FinishStage(r) => stage[k][s].status = "RUNNING"
    BY Zenon DEF FinishStage
  <2> QED BY <2>1, <2>2, <2>3, <2>4 DEF Stands, StageAt, Walk
<1>3. /\ k \in Keys /\ s \in Stages /\ n \in 1..Len(attempt[k][s]) /\ StoreOK
      /\ cycle[k].status # "NONE" /\ attempt[k][s][n] \in AttemptRecord
  BY <1>1, <1>2, OwnersRow
<1>4. StoreOK'
  BY DEF RuntimeInv, StoreInv
<1>5. run[r].result.status \in StageOutcomes
  <2>1. run[r] \in RunRecord
    BY DEF RuntimeInv, RunsOK
  <2>2. run[r].result \in Results
    BY <2>1 DEF RunRecord
  <2> QED BY <2>2, ResultFields
<1>6. PICK row \in AttemptRecord :
        /\ row.reserved = attempt[k][s][n].reserved
        /\ attempt' = [attempt EXCEPT ![k][s][n] = row]
  <2>1. CASE ReplayAttempt(r)
    <3> DEFINE row == [attempt[k][s][n] EXCEPT !.status = "RUNNING"]
    <3>1. attempt' = [attempt EXCEPT ![k][s][n] = row]
      BY ZenonT(60), <2>1 DEF ReplayAttempt
    <3>2. row \in AttemptRecord /\ row.reserved = attempt[k][s][n].reserved
      BY ZenonT(60), <1>3 DEF AttemptRecord
    <3> QED BY ZenonT(60), <3>1, <3>2
  <2>2. CASE BindStageProposal(r)
    <3> DEFINE row == [attempt[k][s][n] EXCEPT !.proposed = TRUE]
    <3>1. attempt' = [attempt EXCEPT ![k][s][n] = row]
      BY <2>2 DEF BindStageProposal
    <3>2. row \in AttemptRecord /\ row.reserved = attempt[k][s][n].reserved
      BY Zenon, <1>3 DEF AttemptRecord
    <3> QED BY Zenon, <3>1, <3>2
  <2>3. CASE FinishStage(r)
    <3> DEFINE row == [attempt[k][s][n] EXCEPT !.status = run[r].result.status]
    <3>1. attempt' = [attempt EXCEPT ![k][s][n] = row]
      BY Zenon, <2>3 DEF FinishStage
    <3>2. row \in AttemptRecord /\ row.reserved = attempt[k][s][n].reserved
      BY Zenon, <1>3, <1>5 DEF AttemptRecord, StageOutcomes
    <3> QED BY Zenon, <3>1, <3>2
  <2> QED BY Zenon, <2>1, <2>2, <2>3
<1>7. /\ StageCost(attempt'[k][s]) = StageCost(attempt[k][s])
      /\ \A j \in Keys, i \in Stages : j # k \/ i # s => attempt'[j][i] = attempt[j][i]
  BY ONLY <1>3, <1>6, SameCost
<1>8. CASE ReplayAttempt(r)
  <2>1. cycle' = [cycle EXCEPT ![k].status = "RUNNING"]
    BY <1>8 DEF ReplayAttempt
  <2>2. /\ cycle'[k].spent = cycle[k].spent /\ cycle'[k].status = "RUNNING"
        /\ \A j \in Keys \ {k} : cycle'[j] = cycle[j]
    <3>1. PICK d : /\ d = cycle[k].spent
                   /\ cycle[k] \in [status : StageOutcomes \union {"NONE", "PENDING", "RUNNING"},
                                    next : Stages \union {Nil}, spent : {d}]
      BY <1>3 DEF IsCycle, StoreOK
    <3>2. /\ [cycle[k] EXCEPT !.status = "RUNNING"].spent = d
          /\ [cycle[k] EXCEPT !.status = "RUNNING"].status = "RUNNING"
      BY <3>1
    <3>3. DOMAIN cycle = Keys /\ k \in Keys
      BY <1>3 DEF StoreOK
    <3> QED BY <2>1, <3>1, <3>2, <3>3
  <2> QED BY <1>3, <1>4, <1>7, <2>2, LedgerOfStage
<1>9. CASE BindStageProposal(r)
  <2>1. cycle' = cycle
    BY <1>9 DEF BindStageProposal
  <2> QED BY ZenonT(60), <1>3, <1>4, <1>7, <2>1, LedgerOfStage
<1>10. CASE FinishStage(r)
  <2> DEFINE status == IF run[r].result = Done THEN "RUNNING" ELSE run[r].result.status
             c == [status |-> status, next |-> NextStageAfter(s, run[r].result),
                   spent |-> SpentOf(attempt'[k])]
  <2>1. cycle' = [cycle EXCEPT ![k] = c]
    BY Zenon, <1>10 DEF FinishStage
  <2>2. c.spent = SpentOf(attempt'[k]) /\ c.status = status /\ status # "NONE"
    BY <1>5 DEF StageOutcomes, Terminal
  <2> HIDE DEF c
  <2>3. cycle'[k] = c /\ \A j \in Keys \ {k} : cycle'[j] = cycle[j]
    BY <1>3, <2>1 DEF StoreOK
  <2> QED BY <1>3, <1>4, <1>7, <2>2, <2>3, LedgerOfStage
<1> QED BY <1>8, <1>9, <1>10

\* A new attempt has reserved nothing yet.
LEMMA LedgerBegun ==
    ASSUME RuntimeInv, RuntimeInv', \A j \in Keys : Ledger(j), NEW r \in Runs, BeginAttempt(r)
    PROVE  \A j \in Keys : Ledger(j)'
<1> PICK k, s : k = run[r].key /\ s = run[r].at
  OBVIOUS
<1>1. /\ Owns(r) /\ run[r].pc \in Walk
      /\ attempt' = [attempt EXCEPT ![k][s] = Append(attempt[k][s], NewStageAttempt)]
      /\ cycle' = [cycle EXCEPT ![k].status = "RUNNING", ![k].next = s]
  BY DEF BeginAttempt, Transacts, Active, Walk
<1>2. k \in Keys /\ s \in Stages /\ StoreOK /\ StoreOK'
  BY <1>1, OwnerRows DEF RuntimeInv, StoreInv
<1>3. NewStageAttempt \in AttemptRecord /\ NewStageAttempt.reserved = 0
  BY DEF NewStageAttempt, AttemptRecord
<1>4. attempt \in [Keys -> [Stages -> Seq(AttemptRecord)]]
      /\ attempt' \in [Keys -> [Stages -> Seq(AttemptRecord)]]
  BY <1>2 DEF StoreOK
<1>5. /\ Len(attempt[k][s]) \in Nat /\ Len(attempt'[k][s]) = Len(attempt[k][s]) + 1
      /\ attempt'[k][s][Len(attempt[k][s]) + 1] = NewStageAttempt
      /\ \A i \in 1..Len(attempt[k][s]) : attempt'[k][s][i] = attempt[k][s][i]
      /\ \A j \in Keys, i \in Stages : j # k \/ i # s => attempt'[j][i] = attempt[j][i]
  BY ONLY <1>1, <1>2, <1>3, <1>4, SpotAppend
<1>6. StageCost(attempt'[k][s]) = StageCost(attempt[k][s])
  <2> DEFINE q == attempt[k][s]
             p == attempt'[k][s]
  <2>1. /\ q \in Seq(AttemptRecord) /\ p \in Seq(AttemptRecord) /\ Len(p) = Len(q) + 1
        /\ \A i \in 1..Len(q) : p[i] = q[i]
        /\ p[Len(q) + 1].reserved = 0
    BY <1>2, <1>3, <1>4, <1>5
  <2> HIDE DEF q, p
  <2>2. StageCost(p) = StageCost(q) + 0 /\ StageCost(q) \in Nat
    BY <2>1, CostAppended, CostOfRows
  <2>3. StageCost(p) = StageCost(q)
    BY ONLY <2>2
  <2> QED BY <2>3 DEF q, p
<1>7. /\ cycle'[k].spent = cycle[k].spent /\ cycle'[k].status = "RUNNING"
      /\ \A j \in Keys \ {k} : cycle'[j] = cycle[j]
  <2>1. PICK d : /\ d = cycle[k].spent
                 /\ cycle[k] \in [status : StageOutcomes \union {"NONE", "PENDING", "RUNNING"},
                                  next : Stages \union {Nil}, spent : {d}]
    BY <1>2 DEF IsCycle, StoreOK
  <2>2. /\ [cycle[k] EXCEPT !.status = "RUNNING", !.next = s].spent = d
        /\ [cycle[k] EXCEPT !.status = "RUNNING", !.next = s].status = "RUNNING"
    BY <2>1
  <2>3. DOMAIN cycle = Keys /\ k \in Keys
    BY <1>2 DEF StoreOK
  <2> QED BY <1>1, <2>1, <2>2, <2>3
<1> QED BY ZenonT(60), <1>2, <1>5, <1>6, <1>7, LedgerOfStage

\* An envelope is reserved only if the budget has room for it.
LEMMA LedgerReserved ==
    ASSUME RuntimeInv, RuntimeInv', \A j \in Keys : Ledger(j), NEW r \in Runs,
           ReserveStageCost(r)
    PROVE  \A j \in Keys : Ledger(j)'
<1> PICK k, s : k = run[r].key /\ s = run[r].at
  OBVIOUS
<1> PICK n : n = Len(attempt[k][s])
  OBVIOUS
<1> PICK row : row = attempt[k][s][n]
  OBVIOUS
<1> DEFINE new == [row EXCEPT !.status = "RUNNING", !.reserved = Envelope(s)]
<1>0. StoreOK /\ StoreOK'
  BY DEF RuntimeInv, StoreInv
<1>1. CASE UNCHANGED <<cycle, attempt>>
  BY ZenonT(60), <1>0, <1>1, LedgerUntouched
<1>2. ASSUME SpentOf(attempt[k]) + Envelope(s) <= MaxCost,
             attempt' = [attempt EXCEPT ![k][s][n] = new],
             cycle' = [cycle EXCEPT ![k].spent = SpentOf(attempt'[k])]
      PROVE  \A j \in Keys : Ledger(j)'
  <2>1. Owns(r) /\ run[r].pc \in Walk /\ run[r].pc = "reserve"
    BY DEF ReserveStageCost, Transacts, Active, Walk
  <2>2. stage[k][s].status # "PENDING"
    <3>1. Stands(run[r])
      BY <2>1, OwnerRows
    <3> QED BY <2>1, <3>1 DEF Stands, StageAt, Walk
  <2>3. /\ k \in Keys /\ s \in Stages /\ n \in 1..Len(attempt[k][s])
        /\ cycle[k].status # "NONE" /\ row \in AttemptRecord
    BY ZenonT(60), <2>1, <2>2, OwnersRow
  <2>4. new \in AttemptRecord /\ new.reserved = Envelope(s) /\ Envelope(s) \in Nat
        /\ row.reserved \in Nat
    <3>1. Envelope(s) \in Nat
      BY RuntimeAssumption DEF Envelope
    <3> QED BY <2>3, <3>1 DEF AttemptRecord
  <2> HIDE DEF new
  <2>5. attempt \in [Keys -> [Stages -> Seq(AttemptRecord)]]
    BY <1>0 DEF StoreOK
  <2>6. /\ attempt' \in [Keys -> [Stages -> Seq(AttemptRecord)]]
        /\ Len(attempt'[k][s]) = Len(attempt[k][s])
        /\ attempt'[k][s][n] = new
        /\ \A i \in 1..Len(attempt[k][s]) : i # n => attempt'[k][s][i] = attempt[k][s][i]
        /\ \A j \in Keys, i \in Stages : j # k \/ i # s => attempt'[j][i] = attempt[j][i]
    BY ONLY <1>2, <2>3, <2>4, <2>5, SpotExcept
  <2>7. StageCost(attempt'[k][s]) = StageCost(attempt[k][s]) + (Envelope(s) - row.reserved)
    <3> DEFINE q == attempt[k][s]
               p == attempt'[k][s]
    <3>1. /\ q \in Seq(AttemptRecord) /\ p \in Seq(AttemptRecord) /\ Len(p) = Len(q)
          /\ n \in 1..Len(q) /\ \A i \in 1..Len(q) : i # n => p[i] = q[i]
          /\ p[n].reserved = Envelope(s) /\ q[n].reserved = row.reserved
      BY ZenonT(60), <2>3, <2>4, <2>5, <2>6
    <3> HIDE DEF q, p
    <3>2. StageCost(p) = StageCost(q) + (p[n].reserved - q[n].reserved)
      BY <3>1, CostReplaced
    <3>3. StageCost(p) = StageCost(q) + (Envelope(s) - row.reserved)
      BY Zenon, <3>1, <3>2
    <3> QED BY ZenonT(60), <3>3 DEF q, p
  <2>8. SpentOf(attempt'[k]) <= MaxCost
    <3> DEFINE a == attempt[k]
               b == attempt'[k]
    <3>1. /\ a \in [Stages -> Seq(AttemptRecord)] /\ b \in [Stages -> Seq(AttemptRecord)]
          /\ \A i \in Stages : i # s => a[i] = b[i]
      BY <2>3, <2>5, <2>6
    <3>2. StageCost(b[s]) = StageCost(a[s]) + (Envelope(s) - row.reserved)
      BY <2>7
    <3> HIDE DEF a, b
    <3>3. SpentOf(b) = SpentOf(a) + (StageCost(b[s]) - StageCost(a[s]))
          /\ SpentOf(a) \in Nat /\ StageCost(a[s]) \in Nat /\ StageCost(b[s]) \in Nat
      BY <2>3, <3>1, SpentChanges
    <3>4. SpentOf(a) + Envelope(s) <= MaxCost
      BY <1>2 DEF a
    <3>5. SpentOf(b) <= MaxCost
      <4> PICK x, y, u, v, e, w, m :
            /\ x = SpentOf(a) /\ y = SpentOf(b) /\ u = StageCost(a[s]) /\ v = StageCost(b[s])
            /\ e = Envelope(s) /\ w = row.reserved /\ m = MaxCost
        OBVIOUS
      <4>1. /\ x \in Nat /\ u \in Nat /\ v \in Nat /\ e \in Nat /\ w \in Nat /\ m \in Nat
            /\ y = x + (v - u) /\ v = u + (e - w) /\ x + e <= m
        BY Zenon, <2>4, <3>2, <3>3, <3>4, RuntimeAssumption
      <4>2. y <= m
        BY ONLY <4>1
      <4> QED BY <4>2
    <3> QED BY <3>5 DEF b
  <2>9. /\ cycle'[k].spent = SpentOf(attempt'[k]) /\ cycle'[k].status = cycle[k].status
        /\ \A j \in Keys \ {k} : cycle'[j] = cycle[j]
    <3> PICK x : x = SpentOf(attempt'[k])
      OBVIOUS
    <3>1. PICK d : d = cycle[k].spent
      OBVIOUS
    <3>2. cycle[k] \in [status : StageOutcomes \union {"NONE", "PENDING", "RUNNING"},
                        next : Stages \union {Nil}, spent : {d}]
      BY <1>0, <2>3, <3>1 DEF IsCycle, StoreOK
    <3>3. /\ [cycle[k] EXCEPT !.spent = x].spent = x
          /\ [cycle[k] EXCEPT !.spent = x].status = cycle[k].status
      BY ZenonT(60), <3>2
    <3>4. cycle' = [cycle EXCEPT ![k] = [cycle[k] EXCEPT !.spent = x]]
      BY <1>2
    <3>5. k \in DOMAIN cycle /\ DOMAIN cycle = Keys
      BY <1>0, <2>3 DEF StoreOK
    <3> QED BY <3>3, <3>4, <3>5
  <2> QED BY <1>0, <2>3, <2>6, <2>8, <2>9, LedgerOfStage
<1>3. \/ UNCHANGED <<cycle, attempt>>
      \/ /\ SpentOf(attempt[k]) + Envelope(s) <= MaxCost
         /\ attempt' = [attempt EXCEPT ![k][s][n] = new]
         /\ cycle' = [cycle EXCEPT ![k].spent = SpentOf(attempt'[k])]
  BY Zenon DEF ReserveStageCost, Current
<1> HIDE DEF new
<1> QED BY <1>1, <1>2, <1>3

\* Every step keeps the ledgers.
LEMMA LedgerStep ==
    ASSUME RuntimeInv, RuntimeInv', \A j \in Keys : Ledger(j), [RuntimeNext]_runtimeVars
    PROVE  \A j \in Keys : Ledger(j)'
<1>0. StoreOK
  BY DEF RuntimeInv, StoreInv
<1>1. CASE UNCHANGED <<cycle, attempt>>
  BY <1>0, <1>1, LedgerUntouched
<1>2. ASSUME NEW r \in Runs, RunStep(r)
      PROVE  \A j \in Keys : Ledger(j)'
  <2>1. CASE ResumeOrCreateCycle(r)
    BY <2>1, LedgerResumed
  <2>2. CASE TimeBudgetReached(r) \/ StopCycle(r) \/ CompleteCycle(r)
    BY <2>2, LedgerClosed
  <2>3. CASE ReplayAttempt(r) \/ BindStageProposal(r) \/ FinishStage(r)
    BY <2>3, LedgerKept
  <2>4. CASE BeginAttempt(r)
    BY <2>4, LedgerBegun
  <2>5. CASE ReserveStageCost(r)
    BY <2>5, LedgerReserved
  <2>6. CASE \/ DependencyNotReady(r) \/ ReleaseLease(r) \/ LoseLease(r)
             \/ RetryNotDue(r) \/ ResumeRunningStage(r) \/ TechnicalFailure(r)
             \/ AlreadyDone(r) \/ UnpaidAction(r) \/ ResumeStarted(r) \/ StartRun(r)
             \/ CallProvider(r) \/ FinishRun(r)
    <3>1. UNCHANGED <<cycle, attempt>>
      BY Zenon, <2>6 DEF DependencyNotReady, ReleaseLease, LoseLease, RetryNotDue,
                  ResumeRunningStage, TechnicalFailure, AlreadyDone, UnpaidAction,
                  ResumeStarted, StartRun, CallProvider, FinishRun
    <3> QED BY <1>1, <3>1
  <2> QED BY <1>2, <2>1, <2>2, <2>3, <2>4, <2>5, <2>6 DEF RunStep
<1>3. CASE \/ \E r \in Runs : \/ \E auth \in BOOLEAN : AcquireLease(r, auth)
                             \/ InterruptRun(r) \/ CrashRun(r)
           \/ LeaseExpires \/ UNCHANGED runtimeVars
           \/ \E k \in Keys, s \in Stages : RetryDue(k, s)
  <2>1. UNCHANGED <<cycle, attempt>>
    BY Zenon, <1>3 DEF AcquireLease, InterruptRun, CrashRun, LeaseExpires, RetryDue, runtimeVars
  <2> QED BY <1>1, <2>1
<1>4. CASE \E k \in Keys : AbandonCycle(k)
  BY <1>4, LedgerClosed
<1> QED BY <1>2, <1>3, <1>4 DEF RuntimeNext

\* Nothing has been spent.
LEMMA LedgerStart == RuntimeInit => \A k \in Keys : Ledger(k)
<1> SUFFICES ASSUME RuntimeInit, NEW k \in Keys PROVE Ledger(k)
  OBVIOUS
<1>1. cycle[k] = NoCycle /\ attempt[k] = [s \in Stages |-> <<>>]
  BY DEF RuntimeInit
<1>2. cycle[k].spent = 0
  BY <1>1 DEF NoCycle
<1>3. StageCost(<<>>) = 0
  <2> DEFINE f == [n \in DOMAIN <<>> |-> <<>>[n].reserved]
  <2>1. DOMAIN <<>> = {}
    OBVIOUS
  <2>2. SumFunctionOnSet(f, {}) = 0
    BY SumEmpty
  <2>3. StageCost(<<>>) = SumFunctionOnSet(f, DOMAIN <<>>)
    BY DEF StageCost
  <2> HIDE DEF f
  <2> QED BY <2>1, <2>2, <2>3
<1> DEFINE g == [s \in Stages |-> StageCost(attempt[k][s])]
<1>4. \A s \in Stages : g[s] = 0
  BY <1>1, <1>3
<1>5. SpentOf(attempt[k]) = SumFunctionOnSet(g, Stages)
  BY DEF SpentOf
<1>6. IsFiniteSet(Stages)
  BY FS_Interval, RuntimeAssumption DEF Stages
<1> HIDE DEF g
<1>7. SumFunctionOnSet(g, Stages) = 0
  BY <1>4, <1>6, SumZero
<1> QED BY <1>2, <1>5, <1>7, RuntimeAssumption DEF Ledger

\* Whatever is interrupted, replayed or taken over, the envelopes cover the calls,
\* the ledger of a cycle is the sum of its envelopes, and it stays within the
\* maximum cost of a cycle, for any number of stages, attempts and runs.
THEOREM RuntimeCallsCovered == RuntimeSpec => []CallsCovered
<1> DEFINE Ledgers == \A k \in Keys : Ledger(k)
<1>1. RuntimeInv /\ Ledgers /\ [RuntimeNext]_runtimeVars => Ledgers'
  BY RuntimeStep, LedgerStep
<1>2. RuntimeInit => Ledgers
  BY LedgerStart
<1>3. EnvelopeCovers /\ Ledgers => CallsCovered
  BY DEF CallsCovered, Ledger
<1> HIDE DEF Ledgers
<1> QED BY <1>1, <1>2, <1>3, RuntimeAlways, RuntimeEnvelopeCovers, PTL DEF RuntimeSpec
=============================================================================
