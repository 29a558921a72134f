---------------------------- MODULE LedgerProofs ----------------------------
(***************************************************************************)
(* Ledgers kept beside what they account for: the effects of a reply, the  *)
(* day's model budget, the stream of an opportunity and the row of a mail, *)
(* for any number of workers, calls, days, events and faults.              *)
(***************************************************************************)
EXTENDS DeliveryProjection, ResponseEvaluation, ModelBudget, OpportunityStream,
        FoldLemmas, SequenceTheorems, TLAPS

-----------------------------------------------------------------------------
(* Responses: the invariant is EffectsMatchVerdict itself, with the types   *)
(* and the fact that a worker past its classification carries a verdict.    *)

EvaluationRow ==
    [state : {"none", "PLANNED", "RETRY_WAIT", "IN_FLIGHT", "FINALIZED"},
     owner : Evaluators \cup {"none"}, leased : BOOLEAN, due : BOOLEAN, attempt : Nat,
     verdict : Verdicts \cup {NoVerdict}]

EvaluatorRow ==
    [pc : {"idle", "resolving", "finalizing", "writing"}, reply : Replies \cup {"none"},
     verdict : Verdicts \cup {NoVerdict}]

EvaluatorsOK ==
    /\ evaluator \in [Evaluators -> EvaluatorRow]
    /\ \A w \in Evaluators :
          /\ evaluator[w].pc # "idle" => evaluator[w].reply \in Replies
          /\ evaluator[w].pc \in {"finalizing", "writing"} => evaluator[w].verdict \in Verdicts

EvaluationsOK ==
    /\ evaluation \in [Replies -> EvaluationRow]
    /\ reported \in [Replies -> Verdicts \cup {NoVerdict}]
    /\ optOuts \subseteq Replies

ResponseInv == EvaluatorsOK /\ EvaluationsOK /\ EffectsMatchVerdict

\* A step that rewrites one evaluation leaves its verdict alone.
LEMMA RowStep ==
    ASSUME ResponseInv, NEW e \in Replies, NEW x \in EvaluationRow,
           UNCHANGED <<reported, optOuts>>,
           evaluation' = [evaluation EXCEPT ![e] = x], x.verdict = evaluation[e].verdict,
           x.state = "FINALIZED" <=> evaluation[e].state = "FINALIZED"
    PROVE  EffectsMatchVerdict' /\ EvaluationsOK'
BY DEF ResponseInv, EvaluationsOK, EffectsMatchVerdict

\* A step that touches no row and no mark.
LEMMA RowsStay ==
    ASSUME ResponseInv, UNCHANGED <<evaluation, reported, optOuts>>
    PROVE  EffectsMatchVerdict' /\ EvaluationsOK'
BY DEF ResponseInv, EvaluationsOK, EffectsMatchVerdict

\* A verdict is written with its effects to a row that had none.
LEMMA SettledStep ==
    ASSUME ResponseInv, NEW e \in Replies, NEW v \in Verdicts, NEW x \in EvaluationRow,
           evaluation[e].state # "FINALIZED", Effects(e, v),
           evaluation' = [evaluation EXCEPT ![e] = x],
           x.state = "FINALIZED", x.verdict = v
    PROVE  EffectsMatchVerdict' /\ EvaluationsOK'
<1>1. /\ evaluation \in [Replies -> EvaluationRow] /\ optOuts \subseteq Replies
      /\ reported \in [Replies -> Verdicts \cup {NoVerdict}]
  BY DEF ResponseInv, EvaluationsOK
<1>2. reported' = [reported EXCEPT ![e] = v] /\ v # NoVerdict
  BY VerdictsAssumption DEF Effects
<1>3. e \notin optOuts
  BY DEF ResponseInv, EffectsMatchVerdict
<1>4. e \in optOuts' <=> v.optOut
  BY <1>3, Zenon DEF Effects
<1>5. optOuts' \subseteq Replies /\ \A d \in Replies \ {e} : d \in optOuts' <=> d \in optOuts
  BY <1>1 DEF Effects
<1>6. EvaluationsOK'
  BY <1>1, <1>2, <1>5 DEF EvaluationsOK
<1>7. ASSUME NEW d \in Replies
      PROVE  /\ reported'[d] = evaluation'[d].verdict
             /\ evaluation'[d].state = "FINALIZED" <=> reported'[d] # NoVerdict
             /\ d \in optOuts' <=>
                   evaluation'[d].state = "FINALIZED" /\ evaluation'[d].verdict.optOut
  <2>1. CASE d = e
    BY <1>1, <1>2, <1>4, <2>1
  <2>2. CASE d # e
    <3>1. evaluation'[d] = evaluation[d] /\ reported'[d] = reported[d]
      BY <1>1, <1>2, <2>2
    <3>2. d \in optOuts' <=> d \in optOuts
      BY <1>5, <2>2
    <3> QED BY <3>1, <3>2 DEF ResponseInv, EffectsMatchVerdict
  <2> QED BY <2>1, <2>2
<1> QED BY <1>6, <1>7 DEF EffectsMatchVerdict

\* What Settled returns.
LEMMA SettledFields ==
    ASSUME NEW x \in EvaluationRow, NEW v \in Verdicts
    PROVE  /\ Settled(x, v) \in EvaluationRow /\ Settled(x, v).state = "FINALIZED"
           /\ Settled(x, v).verdict = v
BY DEF Settled, EvaluationRow

\* An evaluator past its classification keeps a reply and a verdict.
LEMMA EvaluatorMoves ==
    ASSUME EvaluatorsOK, NEW w \in Evaluators
    PROVE  /\ EvaluationEnds(w) => EvaluatorsOK'
           /\ \A x \in EvaluatorRow :
                 /\ evaluator' = [evaluator EXCEPT ![w] = x]
                 /\ x.pc # "idle" => x.reply \in Replies
                 /\ x.pc \in {"finalizing", "writing"} => x.verdict \in Verdicts
                 => EvaluatorsOK'
<1>1. OffDuty \in EvaluatorRow /\ OffDuty.pc = "idle"
  BY DEF OffDuty, EvaluatorRow
<1> QED BY <1>1 DEF EvaluatorsOK, EvaluationEnds

\* Nothing is reserved and nobody evaluates.
LEMMA ResponseInit1 == ASSUME ResponseInit PROVE ResponseInv
<1>1. NotReserved \in EvaluationRow /\ NotReserved.state = "none"
      /\ NotReserved.verdict = NoVerdict
  BY DEF NotReserved, EvaluationRow
<1>2. OffDuty \in EvaluatorRow /\ OffDuty.pc = "idle"
  BY DEF OffDuty, EvaluatorRow
<1> QED BY <1>1, <1>2 DEF ResponseInit, ResponseInv, EvaluatorsOK, EvaluationsOK,
      EffectsMatchVerdict

\* Every step keeps the invariant.
LEMMA ResponseStep == ASSUME ResponseInv, [ResponseNext]_responseVars PROVE ResponseInv'
<1>0. EvaluatorsOK /\ EvaluationsOK
  BY DEF ResponseInv
<1>1. CASE SentIsRecorded \/ UNCHANGED responseVars
  <2>1. UNCHANGED <<evaluation, evaluator, reported, optOuts>>
    BY <1>1 DEF SentIsRecorded, responseVars
  <2> QED BY <1>0, <2>1, RowsStay DEF ResponseInv, EvaluatorsOK
<1>2. ASSUME NEW e \in Replies,
             ReserveReply(e) \/ EvaluationLeaseExpires(e) \/ EvaluationRetryDue(e)
      PROVE  ResponseInv'
  <2>1. evaluation[e] \in EvaluationRow
    BY <1>0 DEF EvaluationsOK
  <2>2. PICK x \in EvaluationRow :
           /\ x.verdict = evaluation[e].verdict
           /\ x.state = "FINALIZED" <=> evaluation[e].state = "FINALIZED"
           /\ evaluation' = [evaluation EXCEPT ![e] = x]
    <3>1. CASE ReserveReply(e)
      <4> DEFINE x == [evaluation[e] EXCEPT !.state = "PLANNED"]
      <4>1. x \in EvaluationRow /\ x.verdict = evaluation[e].verdict /\ x.state = "PLANNED"
        BY <2>1 DEF EvaluationRow
      <4>2. evaluation' = [evaluation EXCEPT ![e] = x] /\ evaluation[e].state = "none"
        BY <3>1 DEF ReserveReply, NotReserved
      <4> QED BY <4>1, <4>2
    <3>2. CASE EvaluationLeaseExpires(e)
      <4> DEFINE x == [evaluation[e] EXCEPT !.leased = FALSE]
      <4>1. x \in EvaluationRow /\ x.verdict = evaluation[e].verdict
            /\ x.state = evaluation[e].state
        BY <2>1 DEF EvaluationRow
      <4>2. evaluation' = [evaluation EXCEPT ![e] = x]
        BY <3>2 DEF EvaluationLeaseExpires
      <4> QED BY <4>1, <4>2
    <3>3. CASE EvaluationRetryDue(e)
      <4> DEFINE x == [evaluation[e] EXCEPT !.due = TRUE]
      <4>1. x \in EvaluationRow /\ x.verdict = evaluation[e].verdict
            /\ x.state = evaluation[e].state
        BY <2>1 DEF EvaluationRow
      <4>2. evaluation' = [evaluation EXCEPT ![e] = x]
        BY <3>3 DEF EvaluationRetryDue
      <4> QED BY <4>1, <4>2
    <3> QED BY <1>2, <3>1, <3>2, <3>3
  <2>3. UNCHANGED <<evaluator, reported, optOuts>>
    BY <1>2 DEF ReserveReply, EvaluationLeaseExpires, EvaluationRetryDue
  <2> QED BY <1>0, <2>2, <2>3, RowStep DEF ResponseInv, EvaluatorsOK
<1>3. ASSUME NEW e \in Replies, NEW v \in Verdicts, SettleAtWebhook(e, v)
      PROVE  ResponseInv'
  <2> DEFINE y == [evaluation[e] EXCEPT !.attempt = 1]
             x == Settled(y, v)
  <2>1. evaluation[e] \in EvaluationRow /\ evaluation[e].state # "FINALIZED"
    <3>1. evaluation[e] = NotReserved
      BY <1>3 DEF SettleAtWebhook
    <3>2. NotReserved.state = "none"
      BY DEF NotReserved
    <3> QED BY <1>0, <3>1, <3>2 DEF EvaluationsOK
  <2>2. y \in EvaluationRow
    BY <2>1 DEF EvaluationRow
  <2>3. evaluation' = [evaluation EXCEPT ![e] = x] /\ Effects(e, v) /\ UNCHANGED evaluator
    BY <1>3 DEF SettleAtWebhook
  <2> HIDE DEF y
  <2>4. x \in EvaluationRow /\ x.state = "FINALIZED" /\ x.verdict = v
    BY <2>2, SettledFields
  <2> HIDE DEF x
  <2> QED BY <1>0, <2>1, <2>3, <2>4, SettledStep DEF ResponseInv, EvaluatorsOK
<1>4. ASSUME NEW w \in Evaluators, NEW e \in Replies, ClaimEvaluation(w, e)
      PROVE  ResponseInv'
  <2> DEFINE x == [evaluation[e] EXCEPT !.state = "IN_FLIGHT", !.owner = w, !.leased = TRUE,
                                        !.due = FALSE, !.attempt = evaluation[e].attempt + 1]
             z == [pc |-> "resolving", reply |-> e, verdict |-> NoVerdict]
  <2>1. /\ evaluation' = [evaluation EXCEPT ![e] = x]
        /\ evaluator' = [evaluator EXCEPT ![w] = z] /\ UNCHANGED <<reported, optOuts>>
    BY <1>4 DEF ClaimEvaluation
  <2>6. evaluation[e].state # "FINALIZED"
    BY <1>4 DEF ClaimEvaluation, Claimable
  <2>2. evaluation[e] \in EvaluationRow
    BY <1>0 DEF EvaluationsOK
  <2>3. /\ x \in EvaluationRow /\ x.verdict = evaluation[e].verdict
        /\ x.state = "IN_FLIGHT"
    <3>1. evaluation[e].attempt + 1 \in Nat
      BY <2>2 DEF EvaluationRow
    <3> QED BY <2>2, <3>1 DEF EvaluationRow
  <2>4. z \in EvaluatorRow /\ z.pc = "resolving" /\ z.reply \in Replies
    BY DEF EvaluatorRow
  <2> HIDE DEF x, z
  <2>5. EvaluatorsOK'
    BY <1>0, <2>1, <2>4, EvaluatorMoves
  <2> QED BY <2>1, <2>3, <2>5, <2>6, RowStep DEF ResponseInv
<1>5. ASSUME NEW w \in Evaluators, ResolutionRetries(w) PROVE ResponseInv'
  <2> DEFINE e == evaluator[w].reply
             x == [evaluation[e] EXCEPT !.state = "RETRY_WAIT", !.owner = "none",
                                        !.leased = FALSE]
  <2>1. /\ e \in Replies /\ evaluation[e] \in EvaluationRow /\ EvaluationEnds(w)
        /\ UNCHANGED <<reported, optOuts>>
    BY <1>0, <1>5 DEF EvaluatorsOK, EvaluationsOK, ResolutionRetries, Resolving
  <2>2. EvaluatorsOK'
    BY <1>0, <2>1, EvaluatorMoves
  <2>3. /\ x \in EvaluationRow /\ x.verdict = evaluation[e].verdict /\ x.state = "RETRY_WAIT"
    BY <2>1 DEF EvaluationRow
  <2>4. CASE Holds(w)
    <3>1. evaluation' = [evaluation EXCEPT ![e] = x] /\ evaluation[e].state # "FINALIZED"
      BY <1>5, <2>4 DEF ResolutionRetries, Holds
    <3> HIDE DEF x
    <3> QED BY <2>1, <2>2, <2>3, <3>1, RowStep DEF ResponseInv
  <2>5. CASE ~Holds(w)
    BY <1>5, <2>2, <2>5, RowsStay DEF ResolutionRetries, ResponseInv
  <2> QED BY <2>4, <2>5
<1>6. ASSUME NEW w \in Evaluators, NEW v \in Verdicts, Classify(w, v) PROVE ResponseInv'
  <2> DEFINE z == [evaluator[w] EXCEPT !.pc = "finalizing", !.verdict = v]
  <2>1. evaluator[w] \in EvaluatorRow /\ evaluator[w].reply \in Replies
    BY <1>0, <1>6 DEF EvaluatorsOK, Classify, Resolving
  <2>2. /\ z \in EvaluatorRow /\ z.reply \in Replies /\ z.verdict = v /\ z.pc = "finalizing"
        /\ evaluator' = [evaluator EXCEPT ![w] = z]
    BY <1>6, <2>1 DEF Classify, EvaluatorRow
  <2> HIDE DEF z
  <2>3. EvaluatorsOK'
    BY <1>0, <2>2, EvaluatorMoves
  <2> QED BY <1>6, <2>3, RowsStay DEF Classify, ResponseInv
<1>7. ASSUME NEW w \in Evaluators, FinalizeReads(w) PROVE ResponseInv'
  <2> DEFINE z == [evaluator[w] EXCEPT !.pc = "writing"]
  <2>1. CASE Holds(w)
    <3>1. evaluator[w] \in EvaluatorRow /\ evaluator[w].reply \in Replies
          /\ evaluator[w].verdict \in Verdicts
      BY <1>0, <1>7 DEF EvaluatorsOK, FinalizeReads
    <3>2. /\ z \in EvaluatorRow /\ z.reply \in Replies /\ z.verdict \in Verdicts
          /\ evaluator' = [evaluator EXCEPT ![w] = z]
      BY <1>7, <2>1, <3>1 DEF FinalizeReads, EvaluatorRow
    <3> HIDE DEF z
    <3>3. EvaluatorsOK'
      BY <1>0, <3>2, EvaluatorMoves
    <3> QED BY <1>7, <3>3, RowsStay DEF FinalizeReads, ResponseInv
  <2>2. CASE ~Holds(w)
    BY <1>0, <1>7, <2>2, RowsStay, EvaluatorMoves DEF FinalizeReads, ResponseInv
  <2> QED BY <2>1, <2>2
<1>8. ASSUME NEW w \in Evaluators, FinalizeWrites(w) PROVE ResponseInv'
  <2> DEFINE e == evaluator[w].reply
             v == evaluator[w].verdict
             x == Settled(evaluation[e], v)
  <2>1. e \in Replies /\ v \in Verdicts /\ EvaluationEnds(w) /\ evaluation[e] \in EvaluationRow
    BY <1>0, <1>8 DEF EvaluatorsOK, EvaluationsOK, FinalizeWrites
  <2>2. EvaluatorsOK'
    BY <1>0, <2>1, EvaluatorMoves
  <2>3. CASE Commits(w)
    <3>1. /\ Effects(e, v) /\ evaluation' = [evaluation EXCEPT ![e] = x]
          /\ evaluation[e].state # "FINALIZED"
      BY <1>8, <2>3 DEF FinalizeWrites, Commits, Holds
    <3>2. x \in EvaluationRow /\ x.state = "FINALIZED" /\ x.verdict = v
      BY <2>1, SettledFields
    <3> HIDE DEF x, e, v
    <3> QED BY <2>1, <2>2, <3>1, <3>2, SettledStep DEF ResponseInv
  <2>4. CASE ~Commits(w)
    BY <1>8, <2>2, <2>4, RowsStay DEF FinalizeWrites, ResponseInv
  <2> QED BY <2>3, <2>4
<1>9. ASSUME NEW w \in Evaluators, ResolutionRefused(w) \/ EvaluatorDies(w) PROVE ResponseInv'
  BY <1>0, <1>9, RowsStay, EvaluatorMoves DEF ResolutionRefused, EvaluatorDies, ResponseInv
<1> QED BY <1>1, <1>2, <1>3, <1>4, <1>5, <1>6, <1>7, <1>8, <1>9 DEF ResponseNext

\* The opt-outs and events a reply leaves are exactly those of the verdict on
\* record (responses/store.py, _finalize), for any number of replies and of
\* workers that hold them in turn.
THEOREM ResponsesMatchVerdict == ResponseSpec => []EffectsMatchVerdict
<1>1. ResponseInit => ResponseInv
  BY ResponseInit1
<1>2. ResponseInv /\ [ResponseNext]_responseVars => ResponseInv'
  BY ResponseStep
<1>3. ResponseInv => EffectsMatchVerdict
  BY DEF ResponseInv
<1> QED BY <1>1, <1>2, <1>3, PTL DEF ResponseSpec

-----------------------------------------------------------------------------
(* The model budget: the counter of a day is locked while it is read and    *)
(* written, so what was read still stands; journal and counter then change  *)
(* by the same amount, and a call is billed no more than it reserved.       *)

JournalRow ==
    [status : {"none", "reserved", "rejected_budget", "succeeded", "failed"},
     day : Nat, reserved : Nat, actual : Nat]

CallerRow ==
    [pc : {"new", "reserving", "calling", "succeed", "succeeding", "fail",
           "failing", "done"},
     day : Nat, amount : Nat, read : [reserved : Int, actual : Int]]

BudgetTypes ==
    /\ counter \in [Days -> [reserved : Int, actual : Int]]
    /\ journal \in [Calls -> JournalRow]
    /\ caller \in [Calls -> CallerRow]
    /\ day \in Days
    /\ billed \in [Calls -> Nat]

\* Who is in a transaction read the counter as it is, and is alone.
CountersLocked ==
    \A k \in Calls : caller[k].pc \in InTransaction =>
        /\ caller[k].day \in Days
        /\ caller[k].read = counter[caller[k].day]
        /\ \A l \in Calls : caller[l].pc \in InTransaction /\ caller[l].day = caller[k].day
                                => l = k

\* Where the caller is, and what its row says.
CallersMatch ==
    \A k \in Calls :
        /\ caller[k].pc \in {"new", "reserving"} => journal[k] = NoEntry
        /\ caller[k].pc \in {"calling", "succeed", "succeeding", "failing"} =>
              journal[k].status = "reserved"
        /\ caller[k].pc \in {"succeeding", "failing"} => caller[k].day = journal[k].day
        /\ caller[k].pc = "succeeding" => caller[k].amount = billed[k]
        /\ caller[k].pc = "failing" => caller[k].amount = 0
        /\ journal[k].status = "reserved" => journal[k].day \in Days

\* What a call was billed.
BilledAsReserved ==
    \A k \in Calls :
        /\ billed[k] <= journal[k].reserved
        /\ journal[k].status = "succeeded" => journal[k].actual = billed[k]

WithinBudget ==
    \A d \in Days : counter[d].reserved + counter[d].actual <= DailyBudget

BudgetInv ==
    /\ BudgetTypes
    /\ CountersLocked
    /\ CallersMatch
    /\ BilledAsReserved
    /\ WithinBudget
    /\ CounterExact

\* The calls of a day in a given state, and the two columns, in a journal j.
CallsIn(j, d, status) == {k \in Calls : j[k].day = d /\ j[k].status = status}
ReservedIn(j, d) ==
    SumFunctionOnSet([k \in Calls |-> j[k].reserved], CallsIn(j, d, "reserved"))
ActualIn(j, d) ==
    SumFunctionOnSet([k \in Calls |-> j[k].actual], CallsIn(j, d, "succeeded"))

\* CounterExact, in those terms.
LEMMA CounterExactIs ==
    CounterExact <=> \A d \in Days : /\ counter[d].reserved = ReservedIn(journal, d)
                                     /\ counter[d].actual = ActualIn(journal, d)
  BY DEF CounterExact, ReservedIn, ActualIn, CallsIn, Of

\* What one row of the journal contributes to the columns of a day.
ReservedShare(row, d) == IF row.day = d /\ row.status = "reserved" THEN row.reserved ELSE 0
ActualShare(row, d) == IF row.day = d /\ row.status = "succeeded" THEN row.actual ELSE 0

\* A change of one row changes the columns of a day by its shares.
LEMMA JournalChanges ==
    ASSUME NEW j \in [Calls -> JournalRow], NEW i \in [Calls -> JournalRow],
           NEW k \in Calls, \A l \in Calls \ {k} : i[l] = j[l], NEW d
    PROVE  /\ ReservedIn(i, d) =
                 ReservedIn(j, d) + (ReservedShare(i[k], d) - ReservedShare(j[k], d))
           /\ ActualIn(i, d) = ActualIn(j, d) + (ActualShare(i[k], d) - ActualShare(j[k], d))
           /\ ReservedIn(j, d) \in Int /\ ActualIn(j, d) \in Int
<1>1. /\ ReservedIn(i, d) =
            ReservedIn(j, d) + (ReservedShare(i[k], d) - ReservedShare(j[k], d))
      /\ ReservedIn(j, d) \in Int
  <2> DEFINE f == [l \in Calls |-> j[l].reserved]
             g == [l \in Calls |-> i[l].reserved]
             S == CallsIn(j, d, "reserved")
             T == CallsIn(i, d, "reserved")
  <2>1. IsFiniteSet(S) /\ IsFiniteSet(T)
    <3>1. S \in SUBSET Calls /\ T \in SUBSET Calls
      BY DEF CallsIn
    <3> QED
      BY <3>1, FS_Subset, BudgetAssumption
  <2>2. (\A x \in S : f[x] \in Int) /\ (\A x \in T : g[x] \in Int)
    BY DEF CallsIn, JournalRow
  <2>3. S \ {k} = T \ {k} /\ \A x \in S \ {k} : f[x] = g[x]
    BY DEF CallsIn
  <2>4. Share(f, S, k) = ReservedShare(j[k], d) /\ Share(g, T, k) = ReservedShare(i[k], d)
    BY DEF Share, ReservedShare, CallsIn
  <2>5. /\ SumFunctionOnSet(g, T) =
              SumFunctionOnSet(f, S) + (Share(g, T, k) - Share(f, S, k))
        /\ SumFunctionOnSet(f, S) \in Int
    <3> HIDE DEF f, g, S, T
    <3> QED
      BY <2>1, <2>2, <2>3, SumChanges, SumType
  <2> QED
    BY <2>4, <2>5 DEF ReservedIn
<1>2. /\ ActualIn(i, d) = ActualIn(j, d) + (ActualShare(i[k], d) - ActualShare(j[k], d))
      /\ ActualIn(j, d) \in Int
  <2> DEFINE f == [l \in Calls |-> j[l].actual]
             g == [l \in Calls |-> i[l].actual]
             S == CallsIn(j, d, "succeeded")
             T == CallsIn(i, d, "succeeded")
  <2>1. IsFiniteSet(S) /\ IsFiniteSet(T)
    <3>1. S \in SUBSET Calls /\ T \in SUBSET Calls
      BY DEF CallsIn
    <3> QED
      BY <3>1, FS_Subset, BudgetAssumption
  <2>2. (\A x \in S : f[x] \in Int) /\ (\A x \in T : g[x] \in Int)
    BY DEF CallsIn, JournalRow
  <2>3. S \ {k} = T \ {k} /\ \A x \in S \ {k} : f[x] = g[x]
    BY DEF CallsIn
  <2>4. Share(f, S, k) = ActualShare(j[k], d) /\ Share(g, T, k) = ActualShare(i[k], d)
    BY DEF Share, ActualShare, CallsIn
  <2>5. /\ SumFunctionOnSet(g, T) =
              SumFunctionOnSet(f, S) + (Share(g, T, k) - Share(f, S, k))
        /\ SumFunctionOnSet(f, S) \in Int
    <3> HIDE DEF f, g, S, T
    <3> QED
      BY <2>1, <2>2, <2>3, SumChanges, SumType
  <2> QED
    BY <2>4, <2>5 DEF ActualIn
<1> QED
  BY <1>1, <1>2

\* The invariant holds at the start.
LEMMA BudgetInitInv == BudgetInit => BudgetInv
<1> USE DEF BudgetInv
<1> SUFFICES ASSUME BudgetInit PROVE BudgetInv
  OBVIOUS
<1>1. BudgetTypes
  BY BudgetAssumption DEF BudgetInit, BudgetTypes, JournalRow, CallerRow, Days, NoEntry, Fresh
<1>2. CountersLocked /\ CallersMatch /\ BilledAsReserved
  BY DEF BudgetInit, CountersLocked, CallersMatch, BilledAsReserved, Fresh, NoEntry, InTransaction
<1>3. WithinBudget
  BY BudgetAssumption DEF BudgetInit, WithinBudget
<1>4. CounterExact
  <2> SUFFICES ASSUME NEW d \in Days
               PROVE  ReservedIn(journal, d) = 0 /\ ActualIn(journal, d) = 0
    BY CounterExactIs DEF BudgetInit
  <2>1. CallsIn(journal, d, "reserved") = {} /\ CallsIn(journal, d, "succeeded") = {}
    BY DEF BudgetInit, NoEntry, CallsIn
  <2> QED
    BY <2>1, SumEmpty DEF ReservedIn, ActualIn
<1> QED
  BY <1>1, <1>2, <1>3, <1>4

\* Steps that touch neither counter nor journal.
LEMMA LedgerSame ==
    ASSUME BudgetInv, UNCHANGED <<counter, journal>>
    PROVE  CounterExact' /\ WithinBudget'
  BY DEF BudgetInv, CounterExact, WithinBudget, Of

\* A caller that leaves a transaction or waits, the rows being as they are.
LEMMA CallerGoes ==
    ASSUME BudgetInv, NEW k \in Calls, UNCHANGED <<counter, journal, day, billed>>,
           NEW pc \in {"fail", "done"}, caller[k].pc \notin {"new", "done"}, Goes(k, pc)
    PROVE  BudgetInv'
<1> USE DEF BudgetInv
<1> USE DEF Goes, Fresh
<1>1. BudgetTypes'
  BY DEF BudgetTypes, CallerRow
<1>2. CountersLocked'
  BY DEF CountersLocked, InTransaction, BudgetTypes, CallerRow
<1>3. CallersMatch'
  BY DEF CallersMatch, BudgetTypes, CallerRow
<1>4. BilledAsReserved'
  BY DEF BilledAsReserved
<1> QED
  BY <1>1, <1>2, <1>3, <1>4, LedgerSame

\* A caller that locks the counter of a day.
LEMMA CallerLocks ==
    ASSUME BudgetInv, NEW k \in Calls, UNCHANGED <<counter, journal, day, billed>>,
           NEW pc \in InTransaction, NEW d \in Days, NEW amount \in Nat,
           Locks(k, pc, d, amount),
           pc = "reserving" => caller[k].pc = "new",
           pc \in {"succeeding", "failing"} => ActiveCall(k) /\ d = journal[k].day,
           pc = "succeeding" => amount = billed[k],
           pc = "failing" => amount = 0
    PROVE  BudgetInv'
<1> USE DEF BudgetInv
<1> USE DEF Locks
<1>0. d \in Nat /\ counter[d] \in [reserved : Int, actual : Int]
  BY DEF Days, BudgetTypes
<1>1. BudgetTypes'
  BY <1>0 DEF BudgetTypes, CallerRow, InTransaction
<1>2. CountersLocked'
  BY DEF CountersLocked, InTransaction, BudgetTypes, CallerRow, CounterFree
<1>3. CallersMatch'
  BY DEF CallersMatch, BudgetTypes, CallerRow, InTransaction, ActiveCall
<1>4. BilledAsReserved'
  BY DEF BilledAsReserved
<1> QED
  BY <1>1, <1>2, <1>3, <1>4, LedgerSame

\* A reservation reads the counter of the day.
LEMMA ReserveReadsInv ==
    ASSUME BudgetInv, NEW k \in Calls, NEW estimate \in 1..MaxEstimate,
           ReserveReads(k, estimate)
    PROVE  BudgetInv'
<1> USE DEF BudgetInv
<1>1. estimate \in Nat /\ day \in Days /\ "reserving" \in InTransaction
  BY BudgetAssumption DEF BudgetTypes, InTransaction
<1> QED
  BY <1>1, CallerLocks DEF ReserveReads

\* A settlement reads the counter of the call's day.
LEMMA SettleReadsInv ==
    ASSUME BudgetInv, NEW k \in Calls, SettleReads(k)
    PROVE  BudgetInv'
<1> USE DEF BudgetInv
<1>1. journal[k].day \in Days
  BY DEF SettleReads, ActiveCall, CallersMatch
<1>2. billed[k] \in Nat /\ {"succeeding", "failing"} \subseteq InTransaction
  BY DEF BudgetTypes, InTransaction
<1> QED
  BY <1>1, <1>2, CallerLocks DEF SettleReads, ActiveCall

\* The model answers or not, and bills.
LEMMA AnsweredInv ==
    ASSUME BudgetInv, NEW k \in Calls, Answered(k)
    PROVE  BudgetInv'
<1> USE DEF BudgetInv
<1>1. PICK cost \in 0..journal[k].reserved :
         /\ billed' = [billed EXCEPT ![k] = cost]
         /\ Goes(k, "succeed") \/ Goes(k, "fail")
  BY DEF Answered
<1>2. cost \in Nat /\ cost <= journal[k].reserved
  BY DEF BudgetTypes, JournalRow
<1> USE DEF Goes, Fresh, Answered
<1>3. BudgetTypes'
  <2>1. billed' \in [Calls -> Nat]
    BY <1>1, <1>2 DEF BudgetTypes
  <2>2. caller' \in [Calls -> CallerRow]
    BY <1>1 DEF BudgetTypes, CallerRow
  <2> QED
    BY <2>1, <2>2 DEF BudgetTypes
<1>4. CountersLocked'
  <2>1. counter' = counter
    OBVIOUS
  <2>2. \A l \in Calls : caller'[l].pc \in InTransaction => caller'[l] = caller[l]
    BY <1>1 DEF InTransaction, BudgetTypes
  <2>3. CountersLocked
    OBVIOUS
  <2> QED
    BY ONLY <2>1, <2>2, <2>3 DEF CountersLocked
<1>5. CallersMatch'
  BY <1>1 DEF CallersMatch, BudgetTypes, CallerRow
<1>6. BilledAsReserved'
  BY <1>1, <1>2 DEF BilledAsReserved, CallersMatch, BudgetTypes
<1> QED
  BY <1>3, <1>4, <1>5, <1>6, LedgerSame

\* A rejected call is in the journal and in no counter.
LEMMA RejectedInv ==
    ASSUME BudgetInv, NEW k \in Calls, ReserveWrites(k), Exhausted(caller[k])
    PROVE  BudgetInv'
<1> USE DEF BudgetInv
<1> DEFINE entry == [status |-> "rejected_budget", day |-> caller[k].day,
                     reserved |-> caller[k].amount, actual |-> 0]
<1>0. /\ caller[k].pc = "reserving" /\ Goes(k, "done") /\ UNCHANGED <<counter, day, billed>>
      /\ journal' = [journal EXCEPT ![k] = entry]
  BY DEF ReserveWrites
<1>1. entry \in JournalRow /\ journal[k] = NoEntry
  BY <1>0 DEF BudgetTypes, CallerRow, JournalRow, CallersMatch
<1> USE DEF Goes, Fresh
<1>2. BudgetTypes'
  BY <1>0, <1>1 DEF BudgetTypes, CallerRow
<1>3. CountersLocked'
  BY <1>0 DEF CountersLocked, InTransaction, BudgetTypes, CallerRow
<1>4. CallersMatch'
  BY <1>0 DEF CallersMatch, BudgetTypes, CallerRow
<1>5. BilledAsReserved'
  BY <1>0, <1>1 DEF BilledAsReserved, BudgetTypes, CallerRow, NoEntry
<1>6. WithinBudget'
  BY <1>0 DEF WithinBudget
<1>7. CounterExact'
  <2>1. journal \in [Calls -> JournalRow] /\ journal' \in [Calls -> JournalRow]
    BY <1>2 DEF BudgetTypes
  <2>2. \A l \in Calls \ {k} : journal'[l] = journal[l]
    BY <1>0 DEF BudgetTypes
  <2>3. \A d \in Days :
           /\ ReservedShare(journal'[k], d) = 0 /\ ReservedShare(journal[k], d) = 0
           /\ ActualShare(journal'[k], d) = 0 /\ ActualShare(journal[k], d) = 0
    BY <1>0, <1>1, <2>1 DEF ReservedShare, ActualShare, NoEntry
  <2>4. \A d \in Days : /\ ReservedIn(journal', d) = ReservedIn(journal, d)
                         /\ ActualIn(journal', d) = ActualIn(journal, d)
    BY <2>1, <2>2, <2>3, JournalChanges
  <2>5. \A d \in Days : /\ counter'[d].reserved = ReservedIn(journal', d)
                         /\ counter'[d].actual = ActualIn(journal', d)
    BY <1>0, <2>4, CounterExactIs
  <2> QED
    BY <2>5 DEF CounterExact, ReservedIn, ActualIn, CallsIn, Of
<1> QED
  BY <1>2, <1>3, <1>4, <1>5, <1>6, <1>7

\* A reservation enters the journal and the counter, if the budget allows.
LEMMA ReservedInv ==
    ASSUME BudgetInv, NEW k \in Calls, ReserveWrites(k), ~Exhausted(caller[k])
    PROVE  BudgetInv'
<1> USE DEF BudgetInv
<1> DEFINE c == caller[k]
           entry == [status |-> "reserved", day |-> c.day,
                     reserved |-> c.amount, actual |-> 0]
<1>0. /\ c.pc = "reserving" /\ Goes(k, "calling") /\ UNCHANGED <<day, billed>>
      /\ journal' = [journal EXCEPT ![k] = entry]
      /\ counter' = [counter EXCEPT ![c.day].reserved = c.read.reserved + c.amount]
  BY DEF ReserveWrites
<1>1. entry \in JournalRow /\ journal[k] = NoEntry
  BY <1>0 DEF BudgetTypes, CallerRow, JournalRow, CallersMatch
<1>2. c.day \in Days /\ c.read = counter[c.day] /\ c.amount \in Nat
  BY <1>0 DEF CountersLocked, InTransaction, BudgetTypes, CallerRow
<1>3. /\ counter[c.day].reserved \in Int /\ counter[c.day].actual \in Int
      /\ \A d \in Days : /\ counter'[d].actual = counter[d].actual
                         /\ counter'[d].reserved = counter[d].reserved
                               + (IF d = c.day THEN c.amount ELSE 0)
  BY <1>0, <1>2 DEF BudgetTypes
<1> USE DEF Goes, Fresh
<1>4. BudgetTypes'
  BY SMTT(60), <1>0, <1>1, <1>2 DEF BudgetTypes, CallerRow
<1>5. CountersLocked'
  BY <1>0, <1>2 DEF CountersLocked, InTransaction, BudgetTypes, CallerRow
<1>6. CallersMatch'
  BY <1>0, <1>2 DEF CallersMatch, BudgetTypes, CallerRow
<1>7. BilledAsReserved'
  BY <1>0, <1>1 DEF BilledAsReserved, BudgetTypes, CallerRow, NoEntry
<1>8. WithinBudget'
  <2>1. c.read.actual + c.read.reserved + c.amount <= DailyBudget
    BY <1>2, <1>3, BudgetAssumption DEF Exhausted
  <2> QED
    BY <1>2, <1>3, <2>1, BudgetAssumption DEF WithinBudget, BudgetTypes
<1>9. CounterExact'
  <2>1. journal \in [Calls -> JournalRow] /\ journal' \in [Calls -> JournalRow]
    BY <1>4 DEF BudgetTypes
  <2>2. \A l \in Calls \ {k} : journal'[l] = journal[l]
    BY <1>0 DEF BudgetTypes
  <2>3. \A d \in Days :
           /\ ReservedShare(journal'[k], d) = IF d = c.day THEN c.amount ELSE 0
           /\ ReservedShare(journal[k], d) = 0
           /\ ActualShare(journal'[k], d) = 0 /\ ActualShare(journal[k], d) = 0
    BY <1>0, <1>1, <2>1 DEF ReservedShare, ActualShare, NoEntry
  <2>4. \A d \in Days : /\ ReservedIn(journal', d) = ReservedIn(journal, d)
                                  + ((IF d = c.day THEN c.amount ELSE 0) - 0)
                         /\ ActualIn(journal', d) = ActualIn(journal, d)
    BY <2>1, <2>2, <2>3, JournalChanges
  <2>5. \A d \in Days : /\ counter'[d].reserved = ReservedIn(journal', d)
                         /\ counter'[d].actual = ActualIn(journal', d)
    BY <1>2, <1>3, <2>4, CounterExactIs
  <2> QED
    BY <2>5 DEF CounterExact, ReservedIn, ActualIn, CallsIn, Of
<1> QED
  BY <1>4, <1>5, <1>6, <1>7, <1>8, <1>9

\* A settlement moves the reservation of its day to the actual cost, or
\* releases it.
LEMMA SettleWritesInv ==
    ASSUME BudgetInv, NEW k \in Calls, SettleWrites(k)
    PROVE  BudgetInv'
<1> USE DEF BudgetInv
<1> DEFINE c == caller[k]
           d0 == c.day
           status == IF c.pc = "succeeding" THEN "succeeded" ELSE "failed"
<1>0. /\ c.pc \in {"succeeding", "failing"} /\ UNCHANGED <<day, billed>>
      /\ counter' = [counter EXCEPT ![d0] =
               [reserved |-> c.read.reserved - journal[k].reserved,
                actual |-> c.read.actual + c.amount]]
      /\ journal' = [journal EXCEPT ![k].actual = c.amount, ![k].status = status]
      /\ Goes(k, "done") \/ Goes(k, "fail")
  BY DEF SettleWrites
<1>1. /\ d0 \in Days /\ c.read = counter[d0] /\ c.amount \in Nat
      /\ journal[k].status = "reserved" /\ journal[k].day = d0
      /\ journal[k].reserved \in Nat /\ c.amount <= journal[k].reserved
      /\ c.pc = "succeeding" => c.amount = billed[k]
      /\ c.pc = "failing" => c.amount = 0
  <2>1. journal[k].reserved \in Nat /\ c.amount \in Nat /\ journal[k].status = "reserved"
    BY <1>0 DEF BudgetTypes, CallerRow, JournalRow, CallersMatch
  <2>2. billed[k] <= journal[k].reserved
    BY DEF BilledAsReserved
  <2> QED
    BY <1>0, <2>1, <2>2 DEF CountersLocked, InTransaction, CallersMatch
<1>2. \A d \in Days :
         /\ counter[d].reserved \in Int /\ counter[d].actual \in Int
         /\ counter'[d].reserved = counter[d].reserved
               + (IF d = d0 THEN 0 - journal[k].reserved ELSE 0)
         /\ counter'[d].actual = counter[d].actual + (IF d = d0 THEN c.amount ELSE 0)
  BY <1>0, <1>1 DEF BudgetTypes
<1>3. journal'[k] \in JournalRow /\ journal'[k].day = d0 /\ journal'[k].status = status
      /\ journal'[k].reserved = journal[k].reserved /\ journal'[k].actual = c.amount
  BY <1>0, <1>1 DEF BudgetTypes, JournalRow
<1>4. BudgetTypes'
  <2>1. counter' \in [Days -> [reserved : Int, actual : Int]]
    BY <1>0, <1>1, <1>2 DEF BudgetTypes
  <2>2. journal' \in [Calls -> JournalRow]
    BY <1>0, <1>3 DEF BudgetTypes
  <2>3. caller' \in [Calls -> CallerRow]
    BY SMTT(60), <1>0 DEF BudgetTypes, CallerRow, Goes, Fresh
  <2> QED
    BY <1>0, <2>1, <2>2, <2>3 DEF BudgetTypes
<1>5. CountersLocked'
  <2>1. /\ caller'[k].pc \notin InTransaction
        /\ \A l \in Calls \ {k} : caller'[l] = caller[l]
    BY <1>0 DEF InTransaction, BudgetTypes, Goes, Fresh
  <2>2. \A d \in Days \ {d0} : counter'[d] = counter[d]
    BY <1>0 DEF BudgetTypes
  <2>3. \A l \in Calls \ {k} : caller[l].pc \in InTransaction =>
           caller[l].day \in Days \ {d0}
    BY <1>0 DEF CountersLocked, InTransaction
  <2> QED
    BY <2>1, <2>2, <2>3 DEF CountersLocked
<1>6. CallersMatch'
  BY <1>0, <1>3 DEF CallersMatch, BudgetTypes, CallerRow, Goes, Fresh
<1>7. BilledAsReserved'
  BY <1>0, <1>1, <1>3 DEF BilledAsReserved, BudgetTypes
<1>8. WithinBudget'
  BY <1>1, <1>2, BudgetAssumption DEF WithinBudget
<1>9. CounterExact'
  <2>1. journal \in [Calls -> JournalRow] /\ journal' \in [Calls -> JournalRow]
    BY <1>4 DEF BudgetTypes
  <2>2. \A l \in Calls \ {k} : journal'[l] = journal[l]
    BY <1>0 DEF BudgetTypes
  <2>3. \A d \in Days :
           /\ ReservedShare(journal'[k], d) = 0
           /\ ReservedShare(journal[k], d) = IF d = d0 THEN journal[k].reserved ELSE 0
           /\ ActualShare(journal'[k], d) = IF d = d0 THEN c.amount ELSE 0
           /\ ActualShare(journal[k], d) = 0
    BY <1>0, <1>1, <1>3 DEF ReservedShare, ActualShare
  <2>4. \A d \in Days :
           /\ ReservedIn(journal', d) = ReservedIn(journal, d)
                 + (0 - (IF d = d0 THEN journal[k].reserved ELSE 0))
           /\ ActualIn(journal', d) = ActualIn(journal, d)
                 + ((IF d = d0 THEN c.amount ELSE 0) - 0)
    BY <2>1, <2>2, <2>3, JournalChanges
  <2>5. \A d \in Days : /\ counter'[d].reserved = ReservedIn(journal', d)
                         /\ counter'[d].actual = ActualIn(journal', d)
    BY <1>1, <1>2, <2>4, CounterExactIs
  <2> QED
    BY <2>5 DEF CounterExact, ReservedIn, ActualIn, CallsIn, Of
<1> QED
  BY <1>4, <1>5, <1>6, <1>7, <1>8, <1>9

\* Every step keeps the invariant.
LEMMA BudgetStep == BudgetInv /\ [BudgetNext]_budgetVars => BudgetInv'
<1> USE DEF BudgetInv
<1> SUFFICES ASSUME BudgetInv, [BudgetNext]_budgetVars PROVE BudgetInv'
  OBVIOUS
<1>1. ASSUME NEW k \in Calls, NEW estimate \in 1..MaxEstimate, ReserveReads(k, estimate)
      PROVE  BudgetInv'
  BY <1>1, ReserveReadsInv
<1>2. ASSUME NEW k \in Calls, ReserveWrites(k) PROVE BudgetInv'
  BY <1>2, RejectedInv, ReservedInv
<1>3. ASSUME NEW k \in Calls, Answered(k) PROVE BudgetInv'
  BY <1>3, AnsweredInv
<1>4. ASSUME NEW k \in Calls, SettleReads(k) PROVE BudgetInv'
  BY <1>4, SettleReadsInv
<1>5. ASSUME NEW k \in Calls, SettleRefused(k) PROVE BudgetInv'
  BY <1>5, CallerGoes DEF SettleRefused
<1>6. ASSUME NEW k \in Calls, SettleWrites(k) PROVE BudgetInv'
  BY <1>6, SettleWritesInv
<1>7. ASSUME NEW k \in Calls, BudgetRollback(k) PROVE BudgetInv'
  BY <1>7, CallerGoes DEF BudgetRollback, InTransaction
<1>8. ASSUME NEW k \in Calls, CallerDies(k) PROVE BudgetInv'
  BY <1>8, CallerGoes DEF CallerDies
<1>9. CASE Midnight
  <2>1. day' \in Days
    BY <1>9, BudgetAssumption DEF Midnight, Days, BudgetTypes
  <2>2. UNCHANGED <<counter, journal, caller, billed>>
    BY <1>9 DEF Midnight
  <2>3. BudgetTypes'
    BY <2>1, <2>2 DEF BudgetTypes
  <2>4. CountersLocked' /\ CallersMatch' /\ BilledAsReserved'
    BY <2>2 DEF CountersLocked, CallersMatch, BilledAsReserved
  <2> QED
    BY <2>2, <2>3, <2>4, LedgerSame
<1>10. CASE UNCHANGED budgetVars
  <2>1. UNCHANGED <<counter, journal, caller, day, billed>>
    BY <1>10 DEF budgetVars
  <2>2. BudgetTypes' /\ CountersLocked' /\ CallersMatch' /\ BilledAsReserved'
    BY <2>1 DEF BudgetTypes, CountersLocked, CallersMatch, BilledAsReserved
  <2> QED
    BY <2>1, <2>2, LedgerSame
<1> QED
  BY <1>1, <1>2, <1>3, <1>4, <1>5, <1>6, <1>7, <1>8, <1>9, <1>10 DEF BudgetNext

\* Open reservations cover the bills of open calls, the actual column those
\* of settled ones.
LEMMA BilledFits == BudgetInv => BilledWithinBudget
<1> USE DEF BudgetInv
<1> SUFFICES ASSUME BudgetInv, NEW d \in Days
             PROVE  SumFunctionOnSet(billed, Of(d, "reserved") \union Of(d, "succeeded"))
                       <= DailyBudget
  BY DEF BilledWithinBudget
<1> DEFINE R == Of(d, "reserved")
           A == Of(d, "succeeded")
           U == R \union A
           f == [k \in Calls |-> journal[k].reserved]
           g == [k \in Calls |-> journal[k].actual]
<1>1. R \in SUBSET Calls /\ A \in SUBSET Calls /\ R \in SUBSET U /\ U \ R = A /\ U \in SUBSET Calls
  BY DEF Of
<1>2. IsFiniteSet(R) /\ IsFiniteSet(A) /\ IsFiniteSet(U)
  BY <1>1, FS_Subset, BudgetAssumption
<1>3. \A k \in Calls : billed[k] \in Int /\ f[k] \in Int /\ g[k] \in Int
  BY DEF BudgetTypes, JournalRow
<1>4. SumFunctionOnSet(billed, R) <= SumFunctionOnSet(f, R)
  <2>1. \A k \in R : billed[k] \in Int /\ f[k] \in Int /\ billed[k] <= f[k]
    BY <1>1, <1>3 DEF BilledAsReserved
  <2> HIDE DEF f, R
  <2> QED
    BY <1>2, <2>1, SumMonotonic
<1>5. SumFunctionOnSet(billed, A) = SumFunctionOnSet(g, A)
  <2>1. \A k \in A : billed[k] = g[k]
    BY <1>1 DEF BilledAsReserved, Of
  <2> HIDE DEF g, A
  <2> QED
    BY <1>2, <2>1, SumCongruent
<1>6. SumFunctionOnSet(billed, U) = SumFunctionOnSet(billed, R) + SumFunctionOnSet(billed, A)
  <2>1. SumFunctionOnSet(billed, U) = SumFunctionOnSet(billed, R) + SumFunctionOnSet(billed, U \ R)
    <3> HIDE DEF R, U
    <3> QED
      BY <1>1, <1>2, <1>3, SumDisjoint
  <2> QED
    BY <1>1, <2>1
<1>7. /\ counter[d].reserved = SumFunctionOnSet(f, R)
      /\ counter[d].actual = SumFunctionOnSet(g, A)
  BY DEF CounterExact
<1>8. SumFunctionOnSet(billed, R) \in Int /\ SumFunctionOnSet(billed, A) \in Int
  <2> HIDE DEF R, A
  <2> QED
    BY <1>1, <1>2, <1>3, SumType
<1>9. /\ counter[d].reserved \in Int /\ counter[d].actual \in Int
      /\ counter[d].reserved + counter[d].actual <= DailyBudget
  BY DEF BudgetTypes, WithinBudget
<1>10. SumFunctionOnSet(billed, U) <= DailyBudget
  <2> HIDE DEF R, A, U, f, g
  <2> QED
    BY <1>4, <1>5, <1>6, <1>7, <1>8, <1>9, BudgetAssumption
<1> QED
  BY <1>10

\* The counter of a day is what its journal adds up to, and what the provider
\* bills for the calls of a day stays within its budget, whatever the calls,
\* their estimates, their days and the processes that die.
THEOREM ModelBudgetKept == BudgetSpec => []BudgetKept
<1>1. BudgetInv => BudgetKept
  BY BilledFits DEF BudgetKept, BudgetInv
<1> QED
  BY BudgetInitInv, BudgetStep, <1>1, PTL DEF BudgetSpec

-----------------------------------------------------------------------------
(* Opportunities: the replay of a stream, by induction on its length.       *)

\* The row after each of the first n events.
ReplaysTo(g, events, n) ==
    g = [i \in 0..n |->
            IF i = 0 THEN NoOpportunity ELSE Reduce(g[i - 1], events[i])]

\* There is a function of that kind for every n.
LEMMA ReplayExists ==
    ASSUME NEW events, NEW n \in Nat
    PROVE  \E g : ReplaysTo(g, events, n)
<1> DEFINE P == {m \in Nat : \E g : ReplaysTo(g, events, m)}
<1>1. 0 \in P
  <2> DEFINE g == [i \in 0..0 |-> NoOpportunity]
  <2>1. ReplaysTo(g, events, 0)
    BY DEF ReplaysTo
  <2> QED
    BY <2>1
<1>2. ASSUME NEW m \in Nat, m \in P PROVE m + 1 \in P
  <2>1. PICK g : ReplaysTo(g, events, m)
    BY <1>2
  <2> DEFINE next(i) == IF i = 0 THEN NoOpportunity ELSE Reduce(g[i - 1], events[i])
             h == [i \in 0..(m + 1) |-> next(i)]
  <2>2. \A i \in 0..m : i \in 0..(m + 1) /\ h[i] = g[i]
    <3>1. \A i \in 0..m : g[i] = next(i)
      BY <2>1 DEF ReplaysTo
    <3> HIDE DEF next
    <3> QED
      BY <3>1
  <2>3. \A i \in 0..(m + 1) : i # 0 => i - 1 \in 0..m
    OBVIOUS
  <2>4. \A i \in 0..(m + 1) :
           next(i) = IF i = 0 THEN NoOpportunity ELSE Reduce(h[i - 1], events[i])
    <3> HIDE DEF h
    <3> QED
      BY <2>2, <2>3
  <2>5. ReplaysTo(h, events, m + 1)
    <3> HIDE DEF next
    <3> QED
      BY <2>4 DEF ReplaysTo
  <2> QED
    BY <2>5
<1>3. Nat \subseteq P
  <2> HIDE DEF P
  <2> QED
    BY <1>1, <1>2, NatInductive
<1> QED
  BY <1>3

\* Streams with the same beginning have the same rows there.
LEMMA ReplayUnique ==
    ASSUME NEW s, NEW t, NEW m \in Nat, NEW n \in Nat, n <= m,
           \A i \in 1..n : s[i] = t[i],
           NEW g, ReplaysTo(g, s, m), NEW h, ReplaysTo(h, t, n)
    PROVE  g[n] = h[n]
<1> DEFINE P == {i \in Nat : i <= n => g[i] = h[i]}
<1>1. 0 \in P
  BY DEF ReplaysTo
<1>2. ASSUME NEW i \in Nat, i \in P PROVE i + 1 \in P
  <2> SUFFICES ASSUME i + 1 <= n PROVE g[i + 1] = h[i + 1]
    OBVIOUS
  <2>1. g[i] = h[i] /\ s[i + 1] = t[i + 1]
    BY <1>2
  <2>2. g[i + 1] = Reduce(g[i], s[i + 1])
    BY DEF ReplaysTo
  <2>3. h[i + 1] = Reduce(h[i], t[i + 1])
    BY DEF ReplaysTo
  <2> QED
    BY <2>1, <2>2, <2>3
<1>3. Nat \subseteq P
  <2> HIDE DEF P
  <2> QED
    BY <1>1, <1>2, NatInductive
<1> QED
  BY <1>3

\* The replay of an empty stream, and of a stream with one event more.
LEMMA ReplayStep ==
    /\ Replay(<<>>) = NoOpportunity
    /\ \A s \in Seq(Mutations \union {Creation}) : \A m \in Mutations \union {Creation} :
          Replay(Append(s, m)) = Reduce(Replay(s), m)
<1> DEFINE G(s) == CHOOSE g : ReplaysTo(g, s, Len(s))
<1>0. \A s : Replay(s) = G(s)[Len(s)]
  BY DEF Replay, ReplaysTo
<1>1. \A s : Len(s) \in Nat => ReplaysTo(G(s), s, Len(s))
  BY ReplayExists
<1> HIDE DEF G
<1>2. Replay(<<>>) = NoOpportunity
  <2>1. Len(<<>>) = 0
    OBVIOUS
  <2>2. ReplaysTo(G(<<>>), <<>>, 0)
    BY <1>1, <2>1
  <2> QED
    BY <1>0, <2>1, <2>2 DEF ReplaysTo
<1>3. ASSUME NEW s \in Seq(Mutations \union {Creation}), NEW m \in Mutations \union {Creation}
      PROVE  Replay(Append(s, m)) = Reduce(Replay(s), m)
  <2> DEFINE t == Append(s, m)
             n == Len(s)
  <2>1. n \in Nat /\ Len(t) = n + 1 /\ t[n + 1] = m /\ \A i \in 1..n : t[i] = s[i]
    OBVIOUS
  <2> HIDE DEF t
  <2>2. ReplaysTo(G(s), s, n) /\ ReplaysTo(G(t), t, n + 1)
    <3>1. ReplaysTo(G(t), t, Len(t))
      BY <1>1, <2>1
    <3>2. ReplaysTo(G(s), s, Len(s))
      BY <1>1, <2>1
    <3> QED
      BY <2>1, <3>1, <3>2
  <2> HIDE DEF n
  <2>3. G(t)[n] = G(s)[n]
    BY <2>1, <2>2, ReplayUnique
  <2>4. G(t)[n + 1] = Reduce(G(t)[n], t[n + 1])
    BY <2>1, <2>2 DEF ReplaysTo
  <2>5. Replay(t) = G(t)[n + 1] /\ Replay(s) = G(s)[n]
    BY <1>0, <2>1 DEF n
  <2> QED
    BY <2>1, <2>3, <2>4, <2>5 DEF t
<1> QED
  BY <1>2, <1>3

-----------------------------------------------------------------------------
(* Opportunities: row and stream agree, and a transaction whose expected    *)
(* version still stands read the row and the stream as they are.            *)

StreamEvents == Mutations \union {Creation}

StreamTypes ==
    /\ opp \in OpportunityRow \union {NoOpportunity}
    /\ stream \in Seq(StreamEvents)
    /\ append \in [Writers -> [mutation : Mutations, row : OpportunityRow] \union {NoAppend}]
    /\ opp = NoOpportunity <=> stream = <<>>

\* What a writer has read is the present or the past.
AppendsStand ==
    \A w \in Writers : append[w] # NoAppend =>
        /\ opp # NoOpportunity
        /\ append[w].row.version <= opp.version
        /\ append[w].row.version = opp.version =>
              /\ append[w].row = opp
              /\ ~Known(append[w].mutation)
              /\ Accepts(opp, append[w].mutation)

StreamInv ==
    /\ StreamTypes
    /\ AppendsStand
    /\ StreamSound

\* A mutation is what its type says.
LEMMA MutationFields ==
    ASSUME NEW m \in Mutations
    PROVE  /\ m.type \in {"STATE_TRANSITIONED", "DECISION_RECORDED", "OUTCOME_RECORDED",
                          "CONTACT_SELECTED", "NOTED"}
           /\ m.to \in States \union {"-"}
           /\ m.type = "OUTCOME_RECORDED" => m.to \in Ranked
  BY StreamAssumption DEF Mutations

\* The states that are left by transitions, and those with a rank.
LEMMA StateFacts ==
    /\ DOMAIN Transitions \subseteq States /\ Ranked \subseteq States
    /\ "DISCOVERED" \in States \ Ranked /\ "NO_SEND" \in States \ Ranked
    /\ "NO_SEND" \notin DOMAIN Transitions
    /\ \A s \in Ranked : OutcomeRank[s] \in Nat
    /\ \A s \in DOMAIN Transitions : \A t \in Transitions[s] :
          /\ t \in States
          /\ s \in Ranked => t \in Ranked /\ OutcomeRank[t] >= OutcomeRank[s]
          /\ s \notin Ranked /\ t \in Ranked => t = "SEND"
<1> USE DEF Transitions, Ranked, OutcomeRank, States
<1>1. DOMAIN Transitions \subseteq States /\ Ranked \subseteq States
  OBVIOUS
<1>2. "DISCOVERED" \in States \ Ranked /\ "NO_SEND" \in States \ Ranked
  OBVIOUS
<1>3. "NO_SEND" \notin DOMAIN Transitions
  OBVIOUS
<1>4. \A s \in Ranked : OutcomeRank[s] \in Nat
  OBVIOUS
<1>5. \A s \in DOMAIN Transitions : \A t \in Transitions[s] : t \in States
  OBVIOUS
<1>6. \A s \in DOMAIN Transitions : \A t \in Transitions[s] :
         s \in Ranked => t \in Ranked /\ OutcomeRank[t] >= OutcomeRank[s]
  OBVIOUS
<1>7. \A s \in DOMAIN Transitions : \A t \in Transitions[s] :
         s \notin Ranked /\ t \in Ranked => t = "SEND"
  OBVIOUS
<1> QED
  BY <1>1, <1>2, <1>3, <1>4, <1>5, <1>6, <1>7

\* What a reducer does to a row that accepts the event: one version more, no
\* lower rank, NO_SEND stays, and a first rank comes from a SEND.
LEMMA ReduceFacts ==
    ASSUME NEW row \in OpportunityRow, NEW m \in Mutations, Accepts(row, m)
    PROVE  LET new == Reduce(row, m)
           IN  /\ new \in OpportunityRow
               /\ new.version = row.version + 1
               /\ RankOf(new.state) >= RankOf(row.state)
               /\ row.state = "NO_SEND" => new.state = "NO_SEND"
               /\ new.state \in Ranked =>
                     row.state \in Ranked \/ (m.to = "SEND" /\ m.type # "OUTCOME_RECORDED")
<1> DEFINE new == Reduce(row, m)
<1>0. /\ row.state \in States /\ row.version \in Nat /\ row.contact \in BOOLEAN
      /\ RankOf(row.state) \in Int
  BY StateFacts DEF OpportunityRow, RankOf
<1>1. CASE m.type \in {"STATE_TRANSITIONED", "DECISION_RECORDED"}
  <2>1. row.state \in DOMAIN Transitions /\ m.to \in Transitions[row.state]
    BY <1>1 DEF Accepts
  <2>2. new = [state |-> m.to, version |-> row.version + 1, contact |-> row.contact]
    BY <1>1 DEF Reduce, OpportunityRow
  <2>3. new.state = m.to /\ new.version = row.version + 1 /\ new.contact = row.contact
    BY <1>0, <2>2
  <2>4. m.to \in States /\ new \in OpportunityRow
    BY <1>0, <2>1, <2>2, StateFacts DEF OpportunityRow
  <2>5. RankOf(m.to) >= RankOf(row.state)
    BY <1>0, <2>1, <2>4, StateFacts DEF RankOf
  <2> QED
    BY <1>1, <2>1, <2>3, <2>4, <2>5, StateFacts
<1>2. CASE m.type = "OUTCOME_RECORDED"
  <2>1. row.state \in Ranked
    BY <1>2 DEF Accepts, OutcomeApplies
  <2>2. new = [state |-> Advanced(row.state, m.to), version |-> row.version + 1,
               contact |-> row.contact]
    BY <1>2 DEF Reduce, OpportunityRow
  <2>3. m.to \in Ranked
    BY <1>2, MutationFields
  <2>4. /\ Advanced(row.state, m.to) \in Ranked
        /\ RankOf(Advanced(row.state, m.to)) >= RankOf(row.state)
    BY <2>1, <2>3, StateFacts DEF Advanced, RankOf
  <2>5. new \in OpportunityRow /\ new.version = row.version + 1
        /\ new.state = Advanced(row.state, m.to)
    BY <1>0, <2>2, <2>4, StateFacts DEF OpportunityRow
  <2> QED
    BY <2>1, <2>4, <2>5, StateFacts
<1>3. CASE m.type \in {"CONTACT_SELECTED", "NOTED"}
  <2>1. \E c \in BOOLEAN :
           new = [state |-> row.state, version |-> row.version + 1, contact |-> c]
    BY <1>0, <1>3 DEF Reduce, OpportunityRow
  <2>2. new \in OpportunityRow /\ new.version = row.version + 1 /\ new.state = row.state
    BY <1>0, <2>1 DEF OpportunityRow
  <2> QED
    BY <1>0, <2>2
<1> QED
  BY <1>1, <1>2, <1>3, MutationFields

\* An event that the row accepts and the stream does not know keeps the
\* stream sound.
LEMMA AppendSound ==
    ASSUME StreamTypes, StreamSound, opp # NoOpportunity, NEW m \in Mutations,
           Accepts(opp, m), ~Known(m),
           opp' = Reduce(opp, m), stream' = Append(stream, m)
    PROVE  StreamSound' /\ opp' \in OpportunityRow /\ stream' \in Seq(StreamEvents)
<1> DEFINE n == Len(stream)
<1>0. /\ opp \in OpportunityRow /\ stream \in Seq(StreamEvents) /\ stream # <<>> /\ m \in StreamEvents
      /\ n \in Nat \ {0}
  BY DEF StreamTypes, StreamEvents
<1>1. /\ Len(stream') = n + 1 /\ DOMAIN stream = 1..n /\ DOMAIN stream' = 1..(n + 1)
      /\ stream'[n + 1] = m /\ \A i \in 1..n : stream'[i] = stream[i]
      /\ stream' \in Seq(StreamEvents)
  BY <1>0
<1>2. /\ opp' \in OpportunityRow /\ opp'.version = opp.version + 1
      /\ opp'.state \in Ranked =>
            opp.state \in Ranked \/ (m.to = "SEND" /\ m.type # "OUTCOME_RECORDED")
  BY <1>0, ReduceFacts
<1>3. ProjectionIsReplay'
  <2>1. opp' = Replay(stream')
    BY <1>0, ReplayStep DEF StreamSound, ProjectionIsReplay, StreamEvents
  <2>2. opp'.version = Len(stream')
    BY <1>1, <1>2 DEF StreamSound, ProjectionIsReplay
  <2>3. ASSUME NEW i \in 2..(n + 1)
        PROVE  Accepts(Replay(SubSeq(stream', 1, i - 1)), stream'[i])
    <3>1. CASE i \in 2..n
      <4>1. SubSeq(stream', 1, i - 1) = SubSeq(stream, 1, i - 1)
        BY <1>0, <1>1, <3>1
      <4>2. Accepts(Replay(SubSeq(stream, 1, i - 1)), stream[i])
        BY <3>1 DEF StreamSound, ProjectionIsReplay
      <4>3. stream'[i] = stream[i]
        BY <1>1, <3>1
      <4> QED
        BY <4>1, <4>2, <4>3
    <3>2. CASE i = n + 1
      <4>1. SubSeq(stream', 1, i - 1) = stream
        BY <1>0, <1>1, <3>2
      <4>2. opp = Replay(stream)
        BY DEF StreamSound, ProjectionIsReplay
      <4> QED
        BY <1>1, <3>2, <4>1, <4>2
    <3> QED
      BY <1>0, <2>3, <3>1, <3>2
  <2> QED
    BY <1>1, <2>1, <2>2, <2>3 DEF ProjectionIsReplay
<1>4. AppendedOnce'
  <2>1. \A i \in 1..n : stream[i] # m
    BY <1>1 DEF Known
  <2>2. \A i, j \in 1..n : stream[i] = stream[j] => i = j
    BY <1>1 DEF StreamSound, AppendedOnce
  <2> QED
    BY <1>0, <1>1, <2>1, <2>2 DEF AppendedOnce
<1>5. SendComesFirst'
  <2> SUFFICES ASSUME opp'.state \in Ranked
               PROVE  \E i \in 1..(n + 1) : stream'[i].to = "SEND"
                                         /\ stream'[i].type # "OUTCOME_RECORDED"
    BY <1>1 DEF SendComesFirst
  <2>1. CASE opp.state \in Ranked
    <3>1. PICK i \in 1..n : stream[i].to = "SEND" /\ stream[i].type # "OUTCOME_RECORDED"
      BY <1>1, <2>1 DEF StreamSound, SendComesFirst
    <3> QED
      BY <1>0, <1>1, <3>1
  <2>2. CASE m.to = "SEND" /\ m.type # "OUTCOME_RECORDED"
    BY <1>0, <1>1, <2>2
  <2> QED
    BY <1>2, <2>1, <2>2
<1> QED
  BY <1>1, <1>2, <1>3, <1>4, <1>5 DEF StreamSound

\* The invariant holds at the start.
LEMMA StreamInitInv == StreamInit => StreamInv
<1> SUFFICES ASSUME StreamInit PROVE StreamInv
  OBVIOUS
<1> USE DEF StreamInit
<1>1. StreamTypes
  BY DEF StreamTypes
<1>2. AppendsStand
  BY DEF AppendsStand
<1>3. StreamSound
  BY ReplayStep DEF StreamSound, ProjectionIsReplay, AppendedOnce, SendComesFirst
<1> QED
  BY <1>1, <1>2, <1>3 DEF StreamInv

\* create_opportunity_in_transaction.
LEMMA CreateInv ==
    ASSUME StreamInv, CreateOpportunity
    PROVE  StreamInv'
<1>1. opp' = [state |-> "DISCOVERED", version |-> 1, contact |-> FALSE]
  BY DEF Reduce, Creation, CreateOpportunity
<1>2. opp' \in OpportunityRow /\ opp' # NoOpportunity
  <2>1. "DISCOVERED" \in States
    BY StateFacts
  <2>2. opp' \in OpportunityRow
    BY <1>1, <2>1 DEF OpportunityRow
  <2> QED
    BY <2>2, StreamAssumption
<1> USE DEF CreateOpportunity
<1>3. stream' \in Seq(StreamEvents) /\ Len(stream') = 1 /\ stream' # <<>> /\ DOMAIN stream' = {1}
  BY DEF StreamEvents
<1>4. StreamTypes'
  BY <1>2, <1>3 DEF StreamInv, StreamTypes
<1>5. AppendsStand'
  <2>1. \A w \in Writers : append[w] = NoAppend
    BY DEF StreamInv, AppendsStand
  <2> QED
    BY <2>1 DEF AppendsStand
<1>6. ProjectionIsReplay'
  <2>1. stream' = Append(<<>>, Creation)
    OBVIOUS
  <2>2. <<>> \in Seq(Mutations \union {Creation}) /\ Creation \in Mutations \union {Creation}
    OBVIOUS
  <2>3. Replay(Append(<<>>, Creation)) = Reduce(NoOpportunity, Creation)
    BY <2>2, ReplayStep
  <2> QED
    BY <1>1, <1>3, <2>1, <2>3 DEF ProjectionIsReplay
<1>7. AppendedOnce' /\ SendComesFirst'
  BY <1>1, <1>3, StateFacts DEF AppendedOnce, SendComesFirst
<1> QED
  BY <1>4, <1>5, <1>6, <1>7 DEF StreamInv, StreamSound

\* A writer reads the row and the stream.
LEMMA AppendReadsInv ==
    ASSUME StreamInv, NEW w \in Writers, NEW m \in Mutations, AppendReads(w, m)
    PROVE  StreamInv'
<1> USE DEF AppendReads
<1>1. opp \in OpportunityRow
  BY DEF StreamInv, StreamTypes
<1>2. StreamTypes'
  BY <1>1 DEF StreamInv, StreamTypes
<1>3. AppendsStand'
  BY <1>1 DEF StreamInv, StreamTypes, AppendsStand, Known, OpportunityRow
<1>4. StreamSound'
  BY DEF StreamInv, StreamSound, ProjectionIsReplay, AppendedOnce, SendComesFirst
<1> QED
  BY <1>2, <1>3, <1>4 DEF StreamInv

\* The transaction ends without a change of the row: rolled back, or the
\* version is another.
LEMMA AppendEndsInv ==
    ASSUME StreamInv, NEW w \in Writers, UNCHANGED <<opp, stream>>,
           append' = [append EXCEPT ![w] = NoAppend]
    PROVE  StreamInv'
<1>1. StreamTypes'
  BY DEF StreamInv, StreamTypes
<1>2. AppendsStand'
  BY DEF StreamInv, StreamTypes, AppendsStand, Known
<1>3. StreamSound'
  BY DEF StreamInv, StreamSound, ProjectionIsReplay, AppendedOnce, SendComesFirst
<1> QED
  BY <1>1, <1>2, <1>3 DEF StreamInv

\* The conditional update finds the expected version: what the writer read
\* is the row, and the event fits it.
LEMMA AppendedEvent ==
    ASSUME StreamInv, NEW w \in Writers, AppendWrites(w), SameVersion(w)
    PROVE  /\ opp \in OpportunityRow /\ opp # NoOpportunity
           /\ append[w].mutation \in Mutations
           /\ Accepts(opp, append[w].mutation) /\ ~Known(append[w].mutation)
           /\ opp' = Reduce(opp, append[w].mutation)
           /\ stream' = Append(stream, append[w].mutation)
<1>1. append[w] # NoAppend /\ append[w].row.version = opp.version
  BY DEF AppendWrites, SameVersion
<1>2. /\ opp # NoOpportunity /\ append[w].row = opp
      /\ ~Known(append[w].mutation) /\ Accepts(opp, append[w].mutation)
  BY <1>1 DEF StreamInv, AppendsStand
<1>3. append[w].mutation \in Mutations /\ opp \in OpportunityRow
  BY <1>1, <1>2 DEF StreamInv, StreamTypes
<1> QED
  BY <1>2, <1>3 DEF AppendWrites

\* The append is written, or finds another version.
LEMMA AppendWritesInv ==
    ASSUME StreamInv, NEW w \in Writers, AppendWrites(w)
    PROVE  StreamInv'
<1>1. CASE ~SameVersion(w)
  BY <1>1, AppendEndsInv DEF AppendWrites
<1>2. CASE SameVersion(w)
  <2> DEFINE m == append[w].mutation
  <2>1. /\ opp \in OpportunityRow /\ opp # NoOpportunity /\ m \in Mutations
        /\ Accepts(opp, m) /\ ~Known(m)
        /\ opp' = Reduce(opp, m) /\ stream' = Append(stream, m)
    BY <1>2, AppendedEvent
  <2>2. append' = [append EXCEPT ![w] = NoAppend]
    BY DEF AppendWrites
  <2> HIDE DEF m
  <2>3. StreamSound' /\ opp' \in OpportunityRow /\ stream' \in Seq(StreamEvents)
    BY <2>1, AppendSound DEF StreamInv
  <2>4. opp' # NoOpportunity /\ stream' # <<>>
    BY <2>1, <2>3, StreamAssumption DEF StreamInv, StreamTypes, StreamEvents
  <2>5. StreamTypes'
    BY <2>2, <2>3, <2>4 DEF StreamInv, StreamTypes
  <2>6. opp'.version = opp.version + 1 /\ opp.version \in Nat
    BY <2>1, ReduceFacts DEF OpportunityRow
  <2>7. AppendsStand'
    <3> SUFFICES ASSUME NEW v \in Writers, append'[v] # NoAppend
                 PROVE  append'[v].row.version <= opp.version
      BY <2>4, <2>6, <2>5 DEF AppendsStand, StreamTypes, OpportunityRow
    <3>1. append'[v] = append[v]
      BY <2>2 DEF StreamInv, StreamTypes
    <3> QED
      BY <3>1 DEF StreamInv, AppendsStand
  <2> QED
    BY <2>3, <2>5, <2>7 DEF StreamInv
<1> QED
  BY <1>1, <1>2

\* Every step keeps the invariant.
LEMMA StreamStep == StreamInv /\ [StreamNext]_streamVars => StreamInv'
<1> SUFFICES ASSUME StreamInv, [StreamNext]_streamVars PROVE StreamInv'
  OBVIOUS
<1>1. CASE CreateOpportunity
  BY <1>1, CreateInv
<1>2. ASSUME UNCHANGED <<opp, stream, append>> PROVE StreamInv'
  BY <1>2 DEF StreamInv, StreamTypes, AppendsStand, Known, StreamSound, ProjectionIsReplay,
              AppendedOnce, SendComesFirst
<1>3. CASE RebuildProjection
  <2>1. UNCHANGED <<opp, stream, append>>
    BY <1>3 DEF RebuildProjection, StreamInv, StreamSound, ProjectionIsReplay
  <2> QED
    BY <1>2, <2>1
<1>4. ASSUME NEW w \in Writers, NEW m \in Mutations, AppendReads(w, m) PROVE StreamInv'
  BY <1>4, AppendReadsInv
<1>5. ASSUME NEW w \in Writers, AppendWrites(w) PROVE StreamInv'
  BY <1>5, AppendWritesInv
<1>6. ASSUME NEW w \in Writers, AppendDies(w) PROVE StreamInv'
  BY <1>6, AppendEndsInv DEF AppendDies
<1>7. CASE UNCHANGED streamVars
  BY <1>2, <1>7 DEF streamVars
<1> QED
  BY <1>1, <1>3, <1>4, <1>5, <1>6, <1>7 DEF StreamNext

\* The row is what its stream replays to, every event was possible where it
\* stands and is there once, and nothing is earned before a SEND, for any
\* number of processes that append, repeat themselves and die.
THEOREM OpportunityStreamSound == StreamSpec => []StreamSound
<1>1. StreamInv => StreamSound
  BY DEF StreamInv
<1> QED
  BY StreamInitInv, StreamStep, <1>1, PTL DEF StreamSpec

\* No append or rebuild takes an outcome back or leaves a NO_SEND.
THEOREM OpportunityOutcomesStand == StreamSpec => OutcomesStand
<1>1. ASSUME StreamInv, [StreamNext]_streamVars, opp # NoOpportunity
      PROVE  /\ RankOf(opp'.state) >= RankOf(opp.state)
             /\ opp.state = "NO_SEND" => opp'.state = "NO_SEND"
  <2>1. RankOf(opp.state) \in Int
    BY <1>1, StateFacts DEF RankOf
  <2>2. CASE UNCHANGED opp
    BY <2>1, <2>2
  <2>3. ASSUME NEW w \in Writers, AppendWrites(w), SameVersion(w)
        PROVE  /\ RankOf(opp'.state) >= RankOf(opp.state)
               /\ opp.state = "NO_SEND" => opp'.state = "NO_SEND"
    BY <1>1, <2>3, AppendedEvent, ReduceFacts
  <2>4. ASSUME RebuildProjection PROVE UNCHANGED opp
    BY <1>1, <2>4 DEF RebuildProjection, StreamInv, StreamSound, ProjectionIsReplay
  <2> QED
    BY <1>1, <2>2, <2>3, <2>4 DEF StreamNext, streamVars, CreateOpportunity, AppendReads,
                                  AppendWrites, AppendDies
<1>2. StreamInv /\ [StreamNext]_streamVars =>
        [opp # NoOpportunity =>
            /\ RankOf(opp'.state) >= RankOf(opp.state)
            /\ opp.state = "NO_SEND" => opp'.state = "NO_SEND"]_streamVars
  BY <1>1
<1> QED
  BY StreamInitInv, StreamStep, <1>2, PTL DEF StreamSpec, OutcomesStand

-----------------------------------------------------------------------------
(* What became of a mail: the events are totally ordered, and folded.      *)

Events == [kind : EventKinds, at : 1..MaxTime]

TargetRow ==
    [status : Statuses, at : [Marks -> 1..Never],
     reply : {"none", "human_reply", "auto_reply"}]

LEMMA ProjectionIs ==
    /\ DOMAIN Projection =
          {"EMAIL_SENT", "EMAIL_OPENED", "LINK_CLICKED", "REPLY_RECEIVED",
           "AUTO_REPLY_RECEIVED", "EMAIL_BOUNCED", "LEAD_UNSUBSCRIBED"}
    /\ Statuses = {"not_sent", "delivered", "opened", "clicked", "replied", "bounced",
                   "unsubscribed"}
    /\ \A k \in EventKinds : Projection[k] \in Marks
    /\ \A m \in Statuses : Precedence[m] \in 0..6
    /\ Marks \subseteq Statuses
    /\ Precedence["not_sent"] = 0 /\ Precedence["unsubscribed"] = 6
    /\ \A m \in Marks : Precedence[m] >= 1
    /\ \A m \in Statuses : Precedence[m] = 6 => m = "unsubscribed"
    /\ "clicked" \in Marks /\ "unsubscribed" \in Marks /\ "not_sent" \in Statuses
    /\ \A k \in EventKinds : Projection[k] = "unsubscribed" <=> k = "LEAD_UNSUBSCRIBED"
    /\ \A k \in EventKinds : Projection[k] = "replied" <=>
          k \in {"REPLY_RECEIVED", "AUTO_REPLY_RECEIVED"}
    /\ "click" \notin EventKinds /\ "unsubscribe" \notin EventKinds
<1>1. DOMAIN Projection =
          {"EMAIL_SENT", "EMAIL_OPENED", "LINK_CLICKED", "REPLY_RECEIVED",
           "AUTO_REPLY_RECEIVED", "EMAIL_BOUNCED", "LEAD_UNSUBSCRIBED"}
  BY DEF Projection
<1>2. Statuses = {"not_sent", "delivered", "opened", "clicked", "replied", "bounced",
                   "unsubscribed"}
  BY DEF Precedence, Statuses
<1>3. /\ Precedence["not_sent"] = 0 /\ Precedence["delivered"] = 1 /\ Precedence["opened"] = 2
      /\ Precedence["clicked"] = 3 /\ Precedence["replied"] = 4 /\ Precedence["bounced"] = 5
      /\ Precedence["unsubscribed"] = 6
  BY DEF Precedence
<1>4. /\ Projection["EMAIL_SENT"] = "delivered" /\ Projection["EMAIL_OPENED"] = "opened"
      /\ Projection["LINK_CLICKED"] = "clicked" /\ Projection["REPLY_RECEIVED"] = "replied"
      /\ Projection["AUTO_REPLY_RECEIVED"] = "replied" /\ Projection["EMAIL_BOUNCED"] = "bounced"
      /\ Projection["LEAD_UNSUBSCRIBED"] = "unsubscribed"
  BY DEF Projection
<1>5. EventKinds \subseteq DOMAIN Projection
  BY DeliveryAssumption
<1> QED BY <1>1, <1>2, <1>3, <1>4, <1>5 DEF Marks

\* The fingerprints order the kinds of events.
LEMMA FingerprintsDiffer ==
    /\ FingerprintOrder \in [EventKinds -> 1..Cardinality(EventKinds)]
    /\ \A k, l \in EventKinds : FingerprintOrder[k] = FingerprintOrder[l] => k = l
    /\ \A k \in EventKinds : FingerprintOrder[k] \in Int
<1>1. IsFiniteSet(EventKinds)
  <2> DEFINE S == {"EMAIL_SENT", "EMAIL_OPENED", "LINK_CLICKED", "REPLY_RECEIVED",
                   "AUTO_REPLY_RECEIVED", "EMAIL_BOUNCED", "LEAD_UNSUBSCRIBED"}
             f == [k \in S |-> CASE k = "EMAIL_SENT" -> 1 [] k = "EMAIL_OPENED" -> 2
                                 [] k = "LINK_CLICKED" -> 3 [] k = "REPLY_RECEIVED" -> 4
                                 [] k = "AUTO_REPLY_RECEIVED" -> 5 [] k = "EMAIL_BOUNCED" -> 6
                                 [] OTHER -> 7]
  <2> PICK n \in Nat : n = 7
    OBVIOUS
  <2>1. f \in Injection(S, 1..n)
    <3>1. f \in [S -> 1..n] /\ \A k, l \in S : f[k] = f[l] => k = l
      OBVIOUS
    <3> HIDE DEF f, S
    <3> QED BY <3>1 DEF Injection, IsInjective
  <2> HIDE DEF f
  <2>2. IsFiniteSet(1..n)
    BY ONLY n \in Nat, FS_Interval
  <2>3. IsFiniteSet(S)
    BY <2>1, <2>2, FS_Injection
  <2>4. EventKinds \subseteq S
    BY DeliveryAssumption, ProjectionIs
  <2> HIDE DEF S
  <2> QED BY <2>3, <2>4, FS_Subset
<1>2. PICK n \in Nat : n = Cardinality(EventKinds)
  BY <1>1, FS_CardinalityType
<1>3. IsFiniteSet(1..n) /\ Cardinality(1..n) = n
  BY FS_Interval
<1>4. ExistsBijection(EventKinds, 1..n)
  BY <1>1, <1>2, <1>3, FS_SameCardinalityBij
<1>5. PICK f : f \in Bijection(EventKinds, 1..n)
  BY <1>4 DEF ExistsBijection
<1>6. f \in [EventKinds -> 1..n] /\ \A k, l \in EventKinds : f[k] = f[l] => k = l
  BY <1>5 DEF Bijection, Injection, IsInjective
<1>7. /\ FingerprintOrder \in [EventKinds -> 1..n]
      /\ \A k, l \in EventKinds : FingerprintOrder[k] = FingerprintOrder[l] => k = l
  BY <1>2, <1>6 DEF FingerprintOrder
<1> QED BY <1>2, <1>7

\* Two events come one before the other, and so do all of a set.
LEMMA EventsOrdered ==
    /\ \A d, e \in Events : d = e \/ Before(d, e) \/ Before(e, d)
    /\ \A d, e \in Events : ~(Before(d, e) /\ Before(e, d)) /\ ~Before(e, e)
    /\ \A c, d, e \in Events : Before(c, d) /\ Before(d, e) => Before(c, e)
<1>1. \A e \in Events : /\ e.at \in Int /\ e.kind \in EventKinds
                        /\ FingerprintOrder[e.kind] \in Int
                        /\ e = [kind |-> e.kind, at |-> e.at]
  BY FingerprintsDiffer DEF Events
<1>2. \A d, e \in Events : FingerprintOrder[d.kind] = FingerprintOrder[e.kind] => d.kind = e.kind
  BY <1>1, FingerprintsDiffer
<1>3. ASSUME NEW d \in Events, NEW e \in Events PROVE d = e \/ Before(d, e) \/ Before(e, d)
  <2>1. d.at = e.at /\ d.kind = e.kind => d = e
    BY <1>1
  <2> QED BY <1>1, <1>2, <2>1 DEF Before
<1>4. \A d, e \in Events : ~(Before(d, e) /\ Before(e, d)) /\ ~Before(e, e)
  BY <1>1 DEF Before
<1>5. \A c, d, e \in Events : Before(c, d) /\ Before(d, e) => Before(c, e)
  BY <1>1 DEF Before
<1> QED BY <1>3, <1>4, <1>5

\* A set of events that is not empty has a last one.
LEMMA LastExists ==
    ASSUME NEW S \in SUBSET Events, IsFiniteSet(S), NEW E \in SUBSET S, E # {}
    PROVE  LastOf(E) \in E /\ \A d \in E : d = LastOf(E) \/ Before(d, LastOf(E))
<1> DEFINE F == {T \in SUBSET S : T # {} => \E e \in T : \A d \in T : d = e \/ Before(d, e)}
<1>1. {} \in F
  OBVIOUS
<1>2. ASSUME NEW T \in SUBSET S, T # {}
      PROVE  \E x \in T : T \ {x} \in F => T \in F
  <2> PICK x \in T : TRUE
    BY <1>2
  <2>1. ASSUME T \ {x} \in F PROVE T \in F
    <3>1. CASE T \ {x} = {}
      BY <3>1
    <3>2. CASE T \ {x} # {}
      <4>1. PICK e \in T \ {x} : \A d \in T \ {x} : d = e \/ Before(d, e)
        BY <2>1, <3>2
      <4>2. CASE Before(x, e)
        BY <4>1, <4>2
      <4>3. CASE Before(e, x)
        <5>1. \A d \in T : d = x \/ Before(d, x)
          BY <4>1, <4>3, EventsOrdered
        <5> QED BY <5>1
      <4> QED BY <4>1, <4>2, <4>3, EventsOrdered
    <3> QED BY <3>1, <3>2
  <2> QED BY <2>1
<1>3. E \in F
  <2> HIDE DEF F
  <2> QED BY <1>1, <1>2, FiniteInductive
<1>4. \E e \in E : \A d \in E : d = e \/ Before(d, e)
  BY <1>3
<1> QED BY <1>4 DEF LastOf

-----------------------------------------------------------------------------
(* The recursion of TargetValues                                           *)

ProjectedRound(g, row, E) ==
    IF E = {} THEN row ELSE ApplyEvent(g[E \ {LastOf(E)}], LastOf(E))

\* There is a function that obeys it: what is projected from a set is defined
\* without its last event first.
LEMMA ProjectedExists ==
    ASSUME NEW S \in SUBSET Events, IsFiniteSet(S), NEW row
    PROVE  \E g : g = [E \in SUBSET S |-> ProjectedRound(g, row, E)]
<1> DEFINE F == {T \in SUBSET S : \E g : g = [E \in SUBSET T |-> ProjectedRound(g, row, E)]}
<1>1. {} \in F
  <2> DEFINE g == [E \in SUBSET {} |-> row]
  <2>1. g = [E \in SUBSET {} |-> ProjectedRound(g, row, E)]
    BY DEF ProjectedRound
  <2> QED BY <2>1
<1>2. ASSUME NEW T \in SUBSET S, T # {}
      PROVE  \E x \in T : T \ {x} \in F => T \in F
  <2> DEFINE x == LastOf(T)
  <2>1. x \in T /\ \A d \in T : d = x \/ Before(d, x)
    BY <1>2, LastExists
  <2>2. ASSUME T \ {x} \in F PROVE T \in F
    <3>1. PICK g : g = [E \in SUBSET (T \ {x}) |-> ProjectedRound(g, row, E)]
      BY <2>2
    <3> DEFINE h == [E \in SUBSET T |-> ProjectedRound(g, row, E)]
    <3>2. \A E \in SUBSET (T \ {x}) : h[E] = g[E]
      BY <3>1
    <3>3. ASSUME NEW E \in SUBSET T, E # {} PROVE E \ {LastOf(E)} \in SUBSET (T \ {x})
      <4>1. LastOf(E) \in E /\ \A d \in E : d = LastOf(E) \/ Before(d, LastOf(E))
        BY <3>3, LastExists
      <4>2. x \in E => LastOf(E) = x
        BY <2>1, <4>1, EventsOrdered
      <4> QED BY <4>2
    <3> HIDE DEF h, x
    <3>4. \A E \in SUBSET T : ProjectedRound(g, row, E) = ProjectedRound(h, row, E)
      BY <3>2, <3>3 DEF ProjectedRound
    <3>5. h = [E \in SUBSET T |-> ProjectedRound(h, row, E)]
      BY <3>4 DEF h
    <3> QED BY <3>5
  <2> QED BY <2>1, <2>2
<1>3. S \in F
  <2> HIDE DEF F
  <2> QED BY <1>1, <1>2, FiniteInductive
<1> QED BY <1>3

LEMMA ProjectedIs ==
    ASSUME NEW S \in SUBSET Events, IsFiniteSet(S), NEW row
    PROVE  \E g : /\ g = [E \in SUBSET S |-> ProjectedRound(g, row, E)]
                  /\ TargetValues(row, S) = g[S]
<1> DEFINE g == CHOOSE g : g = [E \in SUBSET S |-> ProjectedRound(g, row, E)]
<1>1. g = [E \in SUBSET S |-> ProjectedRound(g, row, E)]
  BY ProjectedExists
<1>2. TargetValues(row, S) = g[S]
  BY DEF TargetValues, ProjectedRound
<1> HIDE DEF g
<1> QED BY <1>1, <1>2

\* One round: the mark of the event is put no later, the status is raised, and
\* a reply says which it was.
LEMMA RoundOfEvent ==
    ASSUME NEW row \in TargetRow, NEW e \in Events, NEW new, new = ApplyEvent(row, e),
           NEW mark, mark = Projection[e.kind]
    PROVE  /\ new \in TargetRow /\ mark \in Marks
           /\ \A m \in Marks \ {mark} : new.at[m] = row.at[m]
           /\ new.at[mark] = Earlier(row.at[mark], e.at)
           /\ new.status = Raised(row, mark)
           /\ e.kind = "REPLY_RECEIVED" => new.reply = "human_reply"
           /\ e.kind = "AUTO_REPLY_RECEIVED" => new.reply = "auto_reply"
           /\ e.kind \notin {"REPLY_RECEIVED", "AUTO_REPLY_RECEIVED"} => new.reply = row.reply
<1>1. e.kind \in EventKinds /\ e.at \in 1..MaxTime /\ mark \in Marks /\ mark \in Statuses
  BY ProjectionIs DEF Events
<1>2. /\ row.status \in Statuses /\ row.at \in [Marks -> 1..Never]
      /\ row.reply \in {"none", "human_reply", "auto_reply"}
  BY DEF TargetRow
<1>3. PICK at : at = [row.at EXCEPT ![mark] = Earlier(row.at[mark], e.at)]
  OBVIOUS
<1>4. e.at \in 1..Never
  BY <1>1, DeliveryAssumption DEF Never
<1>5. Earlier(row.at[mark], e.at) \in 1..Never
  BY <1>1, <1>2, <1>4 DEF Earlier
<1>6. /\ at \in [Marks -> 1..Never] /\ at[mark] = Earlier(row.at[mark], e.at)
      /\ \A m \in Marks \ {mark} : at[m] = row.at[m]
  BY <1>1, <1>2, <1>3, <1>5
<1>7. PICK reply : reply = CASE e.kind = "REPLY_RECEIVED" -> "human_reply"
                             [] e.kind = "AUTO_REPLY_RECEIVED" -> "auto_reply"
                             [] OTHER -> row.reply
  OBVIOUS
<1>8. /\ reply \in {"none", "human_reply", "auto_reply"}
      /\ e.kind = "REPLY_RECEIVED" => reply = "human_reply"
      /\ e.kind = "AUTO_REPLY_RECEIVED" => reply = "auto_reply"
      /\ e.kind \notin {"REPLY_RECEIVED", "AUTO_REPLY_RECEIVED"} => reply = row.reply
  BY <1>2, <1>7
<1>9. Raised(row, mark) \in Statuses
  BY <1>1, <1>2 DEF Raised
<1>10. new = [status |-> Raised(row, mark), at |-> at, reply |-> reply]
  BY <1>3, <1>7 DEF ApplyEvent
<1> QED BY <1>1, <1>6, <1>8, <1>9, <1>10 DEF TargetRow

\* What a row says after the events of E were applied to it.
Projected(row, E, new) ==
    /\ new \in TargetRow
    /\ \A m \in Marks :
          /\ new.at[m] <= row.at[m]
          /\ \A e \in E : Projection[e.kind] = m => new.at[m] <= e.at
          /\ \/ new.at[m] = row.at[m]
             \/ \E e \in E : Projection[e.kind] = m /\ new.at[m] = e.at
    /\ Precedence[row.status] <= Precedence[new.status]
    /\ \A e \in E : Precedence[Projection[e.kind]] <= Precedence[new.status]
    /\ \/ new.status = row.status
       \/ \E e \in E : Projection[e.kind] = new.status
    /\ \A e \in E : /\ Projection[e.kind] = "replied"
                    /\ \A d \in E : Projection[d.kind] = "replied" => d = e \/ Before(d, e)
                    => (new.reply = "human_reply") = (e.kind = "REPLY_RECEIVED")

LEMMA ProjectedStep ==
    ASSUME NEW row \in TargetRow, NEW E \in SUBSET Events, NEW e \in E,
           \A d \in E : d = e \/ Before(d, e),
           NEW old, Projected(row, E \ {e}, old), NEW new, new = ApplyEvent(old, e)
    PROVE  Projected(row, E, new)
<1> PICK mark : mark = Projection[e.kind]
  OBVIOUS
<1>1. old \in TargetRow
  BY DEF Projected
<1>2. /\ new \in TargetRow /\ mark \in Marks
      /\ \A m \in Marks \ {mark} : new.at[m] = old.at[m]
      /\ new.at[mark] = Earlier(old.at[mark], e.at)
      /\ new.status = Raised(old, mark)
      /\ e.kind = "REPLY_RECEIVED" => new.reply = "human_reply"
      /\ e.kind = "AUTO_REPLY_RECEIVED" => new.reply = "auto_reply"
      /\ e.kind \notin {"REPLY_RECEIVED", "AUTO_REPLY_RECEIVED"} => new.reply = old.reply
  BY <1>1, RoundOfEvent
<1>3. /\ \A d \in E : d.at \in Int /\ Projection[d.kind] \in Marks /\ d.kind \in EventKinds
      /\ \A m \in Marks : /\ row.at[m] \in Int /\ old.at[m] \in Int /\ new.at[m] \in Int
                          /\ Precedence[m] \in Int
      /\ Precedence[row.status] \in Int /\ Precedence[old.status] \in Int
      /\ Precedence[new.status] \in Int
  BY <1>1, <1>2, ProjectionIs DEF Events, TargetRow, Never
<1>4. ASSUME NEW m \in Marks
      PROVE  /\ new.at[m] <= row.at[m]
             /\ \A d \in E : Projection[d.kind] = m => new.at[m] <= d.at
             /\ \/ new.at[m] = row.at[m]
                \/ \E d \in E : Projection[d.kind] = m /\ new.at[m] = d.at
  <2>1. /\ old.at[m] <= row.at[m]
        /\ \A d \in E \ {e} : Projection[d.kind] = m => old.at[m] <= d.at
        /\ \/ old.at[m] = row.at[m]
           \/ \E d \in E \ {e} : Projection[d.kind] = m /\ old.at[m] = d.at
    BY DEF Projected
  <2>2. new.at[m] <= old.at[m]
    BY <1>2, <1>3 DEF Earlier
  <2>3. mark = m => new.at[m] <= e.at
    BY <1>2, <1>3 DEF Earlier
  <2>4. new.at[m] = old.at[m] \/ (mark = m /\ new.at[m] = e.at)
    BY <1>2, <1>3 DEF Earlier
  <2>5. new.at[m] <= row.at[m]
    BY <1>3, <2>1, <2>2
  <2>6. ASSUME NEW d \in E, Projection[d.kind] = m PROVE new.at[m] <= d.at
    BY <1>3, <2>1, <2>2, <2>3, <2>6
  <2> QED BY <2>1, <2>4, <2>5, <2>6
<1>5. /\ Precedence[row.status] <= Precedence[new.status]
      /\ \A d \in E : Precedence[Projection[d.kind]] <= Precedence[new.status]
      /\ \/ new.status = row.status
         \/ \E d \in E : Projection[d.kind] = new.status
  <2>1. /\ Precedence[row.status] <= Precedence[old.status]
        /\ \A d \in E \ {e} : Precedence[Projection[d.kind]] <= Precedence[old.status]
        /\ \/ old.status = row.status
           \/ \E d \in E \ {e} : Projection[d.kind] = old.status
    BY DEF Projected
  <2>2. /\ Precedence[old.status] <= Precedence[new.status]
        /\ Precedence[mark] <= Precedence[new.status]
        /\ new.status \in {mark, old.status}
    BY <1>2, <1>3 DEF Raised
  <2>3. ASSUME NEW d \in E PROVE Precedence[Projection[d.kind]] <= Precedence[new.status]
    BY <1>3, <2>1, <2>2
  <2>4. Precedence[row.status] <= Precedence[new.status]
    BY <1>3, <2>1, <2>2
  <2> QED BY <2>1, <2>2, <2>3, <2>4
<1>6. ASSUME NEW d \in E, Projection[d.kind] = "replied",
             \A c \in E : Projection[c.kind] = "replied" => c = d \/ Before(c, d)
      PROVE  (new.reply = "human_reply") = (d.kind = "REPLY_RECEIVED")
  <2>1. CASE mark = "replied"
    <3>1. d = e
      BY <1>6, <2>1, EventsOrdered
    <3>2. e.kind \in {"REPLY_RECEIVED", "AUTO_REPLY_RECEIVED"}
      BY <1>3, <2>1, ProjectionIs
    <3> QED BY <1>2, <3>1, <3>2
  <2>2. CASE mark # "replied"
    <3>1. e.kind \notin {"REPLY_RECEIVED", "AUTO_REPLY_RECEIVED"}
      BY <1>3, <2>2, ProjectionIs
    <3>2. d \in E \ {e}
      BY <1>6, <2>2
    <3>3. (old.reply = "human_reply") = (d.kind = "REPLY_RECEIVED")
      BY <1>6, <3>2 DEF Projected
    <3> QED BY <1>2, <3>1, <3>3
  <2> QED BY <2>1, <2>2
<1> QED BY <1>2, <1>4, <1>5, <1>6 DEF Projected

LEMMA TargetValuesProjected ==
    ASSUME NEW S \in SUBSET Events, IsFiniteSet(S), NEW row \in TargetRow
    PROVE  Projected(row, S, TargetValues(row, S))
<1>1. PICK g : /\ g = [E \in SUBSET S |-> ProjectedRound(g, row, E)]
               /\ TargetValues(row, S) = g[S]
  BY ProjectedIs
<1>2. \A E \in SUBSET S : g[E] = ProjectedRound(g, row, E)
  BY <1>1
<1> DEFINE F == {E \in SUBSET S : Projected(row, E, g[E])}
<1>3. {} \in F
  <2>1. g[{}] = row
    BY <1>2 DEF ProjectedRound
  <2>2. /\ \A m \in Marks : row.at[m] \in Int
        /\ Precedence[row.status] \in Int
    BY ProjectionIs DEF TargetRow
  <2> QED BY <2>1, <2>2 DEF Projected
<1>4. ASSUME NEW E \in SUBSET S, E # {}
      PROVE  \E x \in E : E \ {x} \in F => E \in F
  <2> PICK x : x = LastOf(E)
    OBVIOUS
  <2>1. x \in E /\ \A d \in E : d = x \/ Before(d, x)
    BY <1>4, LastExists
  <2>2. ASSUME E \ {x} \in F PROVE E \in F
    <3>1. g[E] = ApplyEvent(g[E \ {x}], x)
      BY <1>2, <1>4 DEF ProjectedRound
    <3>2. Projected(row, E \ {x}, g[E \ {x}])
      BY <2>2
    <3> PICK old, new : old = g[E \ {x}] /\ new = g[E]
      OBVIOUS
    <3>3. Projected(row, E, new)
      BY <2>1, <3>1, <3>2, ProjectedStep
    <3> QED BY <3>3
  <2> QED BY <2>1, <2>2
<1>5. S \in F
  <2> HIDE DEF F
  <2> QED BY <1>3, <1>4, FiniteInductive
<1> QED BY <1>1, <1>5

-----------------------------------------------------------------------------
(* The invariant: the row is exact even while a transaction is open, for    *)
(* the transaction holds it and has read what it still says.                *)

DeliveryTypes ==
    /\ instant \in 1..MaxTime
    /\ \A e \in occurred : e \in Events /\ e.at <= instant
    /\ stored \subseteq occurred /\ IsFiniteSet(stored)
    /\ target \in TargetRow
    /\ linkClick \in 1..Never /\ linkUnsub \in 1..Never
    /\ optedOut \in BOOLEAN
    /\ DOMAIN job = Clients

Past(row, t) == \A m \in Marks : row.at[m] # Never => row.at[m] <= t

\* A request has read the row as it is, and knows no later time than its own.
JobOK(j) ==
    /\ j.row = target
    /\ \/ j.what \in occurred
       \/ /\ j.what.kind \in {"click", "unsubscribe"} /\ j.what.at \in 1..MaxTime
          /\ j.what.at <= instant /\ Past(target, j.what.at)

RowLocked ==
    /\ \A c \in Clients : job[c] # NoJob => JobOK(job[c])
    /\ \A c, d \in Clients : job[c] # NoJob /\ job[d] # NoJob => c = d

Shown(m, t) ==
    \/ t = Never
    \/ \E e \in stored : Projection[e.kind] = m /\ e.at = t
    \/ m = "clicked" /\ t = linkClick
    \/ m = "unsubscribed" /\ t = linkUnsub

MarksExact == \A m \in Marks : /\ Shown(m, target.at[m])
                               /\ \A t \in 1..Never : Shown(m, t) => target.at[m] <= t

StatusExact ==
    /\ target.status # "not_sent" => target.at[target.status] # Never
    /\ \A m \in Marks : target.at[m] # Never => Precedence[m] <= Precedence[target.status]

ReplyExact ==
    \A e \in RepliesKept : (\A d \in RepliesKept : d = e \/ Before(d, e)) =>
        (target.reply = "human_reply") = (e.kind = "REPLY_RECEIVED")

OptOutKept ==
    /\ \A e \in stored : e.kind = "LEAD_UNSUBSCRIBED" => optedOut
    /\ linkUnsub # Never => optedOut

RowExact == MarksExact /\ StatusExact /\ ReplyExact /\ OptOutKept

DeliveryInv == DeliveryTypes /\ Past(target, instant) /\ RowLocked /\ RowExact

\* Nothing the row depends on is written.
LEMMA RowUntouched ==
    ASSUME RowExact, UNCHANGED <<target, stored, optedOut, linkClick, linkUnsub>>
    PROVE  RowExact'
<1>1. \A m, t : Shown(m, t)' <=> Shown(m, t)
  BY DEF Shown
<1> QED BY <1>1 DEF RowExact, MarksExact, StatusExact, ReplyExact, OptOutKept, RepliesKept

\* The transaction ends, and with it the lock.
LEMMA LockReleased ==
    ASSUME RowLocked, DOMAIN job = Clients, NEW c \in Clients, job[c] # NoJob, Ended(c)
    PROVE  RowLocked' /\ DOMAIN job' = Clients /\ \A d \in Clients : job'[d] = NoJob
<1>1. job' = [job EXCEPT ![c] = NoJob]
  BY DEF Ended
<1>2. \A d \in Clients : job'[d] = NoJob
  BY <1>1 DEF RowLocked
<1> QED BY <1>1, <1>2 DEF RowLocked

\* A request begins: it waits for the lock, and reads.
LEMMA RequestBegins ==
    ASSUME DeliveryInv, NEW c \in Clients, NEW what, Begins(c, what),
           \/ what \in occurred
           \/ what = [kind |-> "click", at |-> instant]
           \/ what = [kind |-> "unsubscribe", at |-> instant],
           UNCHANGED <<target, stored, occurred, optedOut, linkClick, linkUnsub, instant>>
    PROVE  DeliveryInv'
<1> PICK j : j = [what |-> what, row |-> target]
  OBVIOUS
<1>1. job' = [job EXCEPT ![c] = j] /\ \A d \in Clients : job[d] = NoJob
  BY DEF Begins, RowFree
<1>2. j.what = what /\ j.row = target
  OBVIOUS
<1>3. DOMAIN job = Clients /\ instant \in 1..MaxTime /\ instant <= instant
  BY DEF DeliveryInv, DeliveryTypes
<1>4. JobOK(j)'
  <2>1. CASE what \in occurred
    BY <1>2, <2>1 DEF JobOK
  <2>2. CASE what.kind \in {"click", "unsubscribe"} /\ what.at = instant
    BY <1>2, <1>3, <2>2 DEF JobOK, DeliveryInv, Past
  <2> QED BY <2>1, <2>2
<1>5. job'[c] = j /\ \A d \in Clients \ {c} : job'[d] = NoJob
  BY <1>1, <1>3
<1>6. RowLocked'
  BY <1>4, <1>5 DEF RowLocked
<1>7. DOMAIN job' = Clients
  BY <1>1, <1>3
<1>8. RowExact'
  BY RowUntouched DEF DeliveryInv
<1> QED BY <1>6, <1>7, <1>8 DEF DeliveryInv, DeliveryTypes, Past

\* An event is stored and all of them are projected.
LEMMA IngestExact ==
    ASSUME DeliveryInv, NEW c \in Clients, CommitIngest(c)
    PROVE  DeliveryInv'
<1> PICK e : e = job[c].what
  OBVIOUS
<1>1. /\ job[c] # NoJob /\ e.kind \in EventKinds /\ stored' = stored \union {e}
      /\ target' = TargetValues(job[c].row, stored')
      /\ optedOut' = (optedOut \/ (e \notin stored /\ e.kind = "LEAD_UNSUBSCRIBED"))
      /\ Ended(c) /\ UNCHANGED <<occurred, linkClick, linkUnsub, instant>>
  BY DEF CommitIngest
<1>2. job[c].row = target /\ e \in occurred
  BY <1>1, ProjectionIs DEF DeliveryInv, RowLocked, JobOK
<1>3. /\ stored' \subseteq occurred' /\ IsFiniteSet(stored') /\ stored' \in SUBSET Events
      /\ target \in TargetRow /\ \A d \in stored' : d \in Events /\ d.at <= instant
  BY <1>1, <1>2, FS_AddElement DEF DeliveryInv, DeliveryTypes
<1>4. Projected(target, stored', target')
  BY <1>1, <1>2, <1>3, TargetValuesProjected
<1>5. RowLocked' /\ DOMAIN job' = Clients
  BY <1>1, LockReleased DEF DeliveryInv, DeliveryTypes
<1>6. target' \in TargetRow
  BY <1>4 DEF Projected
<1>7. DeliveryTypes'
  BY <1>1, <1>3, <1>5, <1>6 DEF DeliveryInv, DeliveryTypes
<1>8. /\ MaxTime \in Nat /\ Never \in Nat /\ MaxTime < Never
      /\ \A m \in Marks : target.at[m] \in 1..Never /\ target'.at[m] \in 1..Never
      /\ \A d \in stored' : /\ d.at \in 1..MaxTime /\ d.at \in 1..Never
                            /\ d.kind \in EventKinds /\ Projection[d.kind] \in Marks
      /\ target.status \in Statuses /\ target'.status \in Statuses
      /\ Precedence[target.status] \in Int /\ Precedence[target'.status] \in Int
      /\ \A m \in Marks : Precedence[m] \in Int
  BY <1>3, <1>6, DeliveryAssumption, ProjectionIs DEF TargetRow, Never, Events
<1>9. Past(target', instant)
  <2> SUFFICES ASSUME NEW m \in Marks, target'.at[m] # Never PROVE target'.at[m] <= instant
    BY DEF Past
  <2>1. \/ target'.at[m] = target.at[m]
        \/ \E d \in stored' : target'.at[m] = d.at
    BY <1>4 DEF Projected
  <2> QED BY <1>3, <2>1 DEF DeliveryInv, Past
<1>10. MarksExact'
  <2> SUFFICES ASSUME NEW m \in Marks
               PROVE  /\ Shown(m, target.at[m])'
                      /\ \A t \in 1..Never : Shown(m, t)' => target'.at[m] <= t
    BY DEF MarksExact, Never
  <2>1. Shown(m, target.at[m]) /\ \A t \in 1..Never : Shown(m, t) => target.at[m] <= t
    BY DEF DeliveryInv, RowExact, MarksExact
  <2>2. /\ target'.at[m] <= target.at[m]
        /\ \A d \in stored' : Projection[d.kind] = m => target'.at[m] <= d.at
        /\ \/ target'.at[m] = target.at[m]
           \/ \E d \in stored' : Projection[d.kind] = m /\ target'.at[m] = d.at
    BY <1>4 DEF Projected
  <2>3. \A t : Shown(m, t) => Shown(m, t)'
    BY <1>1 DEF Shown, Never
  <2>4. Shown(m, target.at[m])'
    <3>1. CASE target'.at[m] = target.at[m]
      BY <2>1, <2>3, <3>1
    <3>2. CASE \E d \in stored' : Projection[d.kind] = m /\ target'.at[m] = d.at
      BY <3>2 DEF Shown
    <3> QED BY <2>2, <3>1, <3>2
  <2>5. ASSUME NEW t \in 1..Never, Shown(m, t)' PROVE target'.at[m] <= t
    <3>1. Shown(m, t) \/ \E d \in stored' : Projection[d.kind] = m /\ d.at = t
      BY <1>1, <2>5 DEF Shown, Never
    <3>2. CASE Shown(m, t)
      BY <1>8, <2>1, <2>2, <3>2
    <3>3. CASE \E d \in stored' : Projection[d.kind] = m /\ d.at = t
      BY <2>2, <3>3
    <3> QED BY <3>1, <3>2, <3>3
  <2> QED BY <2>4, <2>5
<1>11. StatusExact'
  <2>1. /\ target.status # "not_sent" => target.at[target.status] # Never
        /\ \A m \in Marks : target.at[m] # Never => Precedence[m] <= Precedence[target.status]
    BY DEF DeliveryInv, RowExact, StatusExact
  <2>2. ASSUME target'.status # "not_sent" PROVE target'.at[target'.status] # Never
    <3>1. target'.status \in Marks
      BY <1>8, <2>2 DEF Marks
    <3>2. CASE target'.status = target.status
      <4>1. target.at[target'.status] # Never /\ target'.at[target'.status] <= target.at[target'.status]
        BY <1>4, <2>1, <2>2, <3>1, <3>2 DEF Projected
      <4> QED BY <1>8, <3>1, <4>1
    <3>3. ASSUME NEW d \in stored', Projection[d.kind] = target'.status
          PROVE  target'.at[target'.status] # Never
      <4>1. target'.at[target'.status] <= d.at
        BY <1>4, <3>1, <3>3 DEF Projected
      <4> QED BY <1>8, <3>1, <4>1
    <3> QED BY <1>4, <3>2, <3>3 DEF Projected
  <2>3. ASSUME NEW m \in Marks, target'.at[m] # Never
        PROVE  Precedence[m] <= Precedence[target'.status]
    <3>1. \/ target'.at[m] = target.at[m]
          \/ \E d \in stored' : Projection[d.kind] = m
      BY <1>4 DEF Projected
    <3>2. CASE target'.at[m] = target.at[m]
      <4>1. Precedence[m] <= Precedence[target.status]
        BY <2>1, <2>3, <3>2
      <4>2. Precedence[target.status] <= Precedence[target'.status]
        BY <1>4 DEF Projected
      <4> QED BY <1>8, <4>1, <4>2
    <3>3. CASE \E d \in stored' : Projection[d.kind] = m
      BY <1>4, <3>3 DEF Projected
    <3> QED BY <3>1, <3>2, <3>3
  <2> QED BY <2>2, <2>3 DEF StatusExact, Never
<1>12. ReplyExact'
  BY <1>4 DEF ReplyExact, RepliesKept, Projected
<1>13. OptOutKept'
  BY <1>1 DEF DeliveryInv, RowExact, OptOutKept, Never
<1> QED BY <1>1, <1>5, <1>7, <1>9, <1>10, <1>11, <1>12, <1>13 DEF DeliveryInv, RowExact, Past, Never

\* The writers of one mark: the tracked link and the unsubscribe link.
LEMMA MarkWritten ==
    ASSUME NEW row \in TargetRow, NEW mark \in Marks, NEW status \in Statuses,
           NEW t \in 1..Never, NEW at, at = [row.at EXCEPT ![mark] = t],
           NEW new, new = [status |-> status, at |-> at, reply |-> row.reply]
    PROVE  /\ new \in TargetRow /\ new.status = status
           /\ new.at[mark] = t /\ new.reply = row.reply
           /\ \A m \in Marks \ {mark} : new.at[m] = row.at[m]
<1>1. /\ at \in [Marks -> 1..Never] /\ at[mark] = t
      /\ \A m \in Marks \ {mark} : at[m] = row.at[m]
  BY DEF TargetRow
<1>2. row.reply \in {"none", "human_reply", "auto_reply"}
  BY DEF TargetRow
<1>3. new.status = status /\ new.at = at /\ new.reply = row.reply
  OBVIOUS
<1>4. new \in TargetRow
  BY <1>1, <1>2 DEF TargetRow
<1> QED BY <1>1, <1>3, <1>4

\* The first click of the link is put beside what the events say.
LEMMA ClickExact ==
    ASSUME DeliveryInv, NEW c \in Clients, CommitClick(c)
    PROVE  DeliveryInv'
<1> PICK at : at = job[c].what.at
  OBVIOUS
<1>1. /\ job[c] # NoJob /\ job[c].what.kind = "click" /\ linkClick = Never /\ linkClick' = at
      /\ target' = [target EXCEPT
                        !.status = Raised(job[c].row, "clicked"),
                        !.at["clicked"] = Earlier(job[c].row.at["clicked"], at)]
      /\ Ended(c) /\ UNCHANGED <<stored, occurred, optedOut, linkUnsub, instant>>
  BY DEF CommitClick
<1>2. /\ job[c].row = target /\ at \in 1..MaxTime /\ at <= instant
  BY <1>1, ProjectionIs DEF DeliveryInv, RowLocked, JobOK, DeliveryTypes, Events
<1>3. /\ MaxTime \in Nat /\ Never \in Nat /\ MaxTime < Never /\ at \in 1..Never /\ at # Never
      /\ target.status \in Statuses /\ \A m \in Marks : target.at[m] \in 1..Never
      /\ \A m \in Statuses : Precedence[m] \in Int
      /\ "clicked" \in Marks /\ "clicked" \in Statuses /\ Marks \subseteq Statuses
  BY <1>2, DeliveryAssumption, ProjectionIs DEF Never, DeliveryInv, DeliveryTypes, TargetRow
<1> PICK status, t : status = Raised(target, "clicked") /\ t = Earlier(target.at["clicked"], at)
  OBVIOUS
<1>4. /\ status \in Statuses /\ t \in 1..Never /\ t <= at /\ t <= target.at["clicked"]
      /\ t \in {at, target.at["clicked"]}
      /\ status \in {"clicked", target.status}
      /\ Precedence["clicked"] <= Precedence[status]
      /\ Precedence[target.status] <= Precedence[status]
  BY <1>3 DEF Raised, Earlier
<1>5. /\ target' \in TargetRow /\ target'.status = status
      /\ target'.at["clicked"] = t /\ target'.reply = target.reply
      /\ \A m \in Marks \ {"clicked"} : target'.at[m] = target.at[m]
  <2>1. target' = [target EXCEPT !.status = status, !.at["clicked"] = t]
    BY <1>1, <1>2
  <2> PICK x : x = [target.at EXCEPT !["clicked"] = t]
    OBVIOUS
  <2>2. target \in TargetRow
    BY DEF DeliveryInv, DeliveryTypes
  <2>3. target' = [status |-> status, at |-> x, reply |-> target.reply]
    BY <2>1, <2>2 DEF TargetRow
  <2> QED BY <1>3, <1>4, <2>2, <2>3, MarkWritten
<1>6. RowLocked' /\ DOMAIN job' = Clients
  BY <1>1, LockReleased DEF DeliveryInv, DeliveryTypes
<1>7. DeliveryTypes'
  BY <1>1, <1>3, <1>5, <1>6 DEF DeliveryInv, DeliveryTypes, Never
<1>8. Past(target', instant)
  <2>1. instant \in Int
    BY DEF DeliveryInv, DeliveryTypes
  <2> QED BY <1>2, <1>3, <1>4, <1>5, <2>1 DEF DeliveryInv, Past
<1>9. MarksExact'
  <2>0. \A m \in Marks : /\ Shown(m, target.at[m])
                         /\ \A u \in 1..Never : Shown(m, u) => target.at[m] <= u
    BY DEF DeliveryInv, RowExact, MarksExact
  <2>1. \A m, u : Shown(m, u)' <=> Shown(m, u) \/ (m = "clicked" /\ u = at)
    BY <1>1 DEF Shown, Never
  <2>2. ASSUME NEW m \in Marks
        PROVE  /\ Shown(m, target.at[m])'
               /\ \A u \in 1..Never : Shown(m, u)' => target'.at[m] <= u
    <3>1. CASE m # "clicked"
      BY <1>5, <2>0, <2>1, <3>1
    <3>2. CASE m = "clicked"
      <4>1. target'.at[m] \in {at, target.at[m]}
        BY <1>4, <1>5, <3>2
      <4>2. Shown(m, target.at[m])'
        BY <2>0, <2>1, <3>2, <4>1
      <4>3. ASSUME NEW u \in 1..Never, Shown(m, u)' PROVE target'.at[m] <= u
        BY <1>3, <1>4, <1>5, <2>0, <2>1, <3>2, <4>3
      <4> QED BY <4>2, <4>3
    <3> QED BY <3>1, <3>2
  <2> QED BY <2>2 DEF MarksExact, Never
<1>10. StatusExact'
  <2>1. /\ target.status # "not_sent" => target.at[target.status] # Never
        /\ \A m \in Marks : target.at[m] # Never => Precedence[m] <= Precedence[target.status]
    BY DEF DeliveryInv, RowExact, StatusExact
  <2>2. target'.at["clicked"] # Never
    BY <1>3, <1>4, <1>5
  <2>3. ASSUME status # "not_sent" PROVE target'.at[status] # Never
    <3>1. status \in Marks
      BY <1>4, <2>3 DEF Marks
    <3> QED BY <1>4, <1>5, <2>1, <2>2, <2>3, <3>1
  <2>4. ASSUME NEW m \in Marks, target'.at[m] # Never PROVE Precedence[m] <= Precedence[status]
    <3>1. CASE m = "clicked"
      BY <1>4, <3>1
    <3>2. CASE m # "clicked"
      <4>1. Precedence[m] <= Precedence[target.status]
        BY <1>5, <2>1, <2>4, <3>2
      <4> PICK x, y, z : x = Precedence[m] /\ y = Precedence[target.status] /\ z = Precedence[status]
        OBVIOUS
      <4>2. x \in Int /\ y \in Int /\ z \in Int /\ x <= y /\ y <= z
        BY <1>3, <1>4, <4>1
      <4>3. x <= z
        BY ONLY <4>2
      <4> QED BY <4>3
    <3> QED BY <3>1, <3>2
  <2> QED BY <1>5, <2>3, <2>4 DEF StatusExact, Never
<1>11. ReplyExact' /\ OptOutKept'
  BY <1>1, <1>5 DEF DeliveryInv, RowExact, ReplyExact, RepliesKept, OptOutKept, Never
<1> QED BY <1>1, <1>6, <1>7, <1>8, <1>9, <1>10, <1>11 DEF DeliveryInv, RowExact, Past, Never

\* The unsubscribe link is used: again, or for the first time.
LEMMA UnsubscribeExact ==
    ASSUME DeliveryInv, NEW c \in Clients, CommitUnsubscribe(c)
    PROVE  DeliveryInv'
<1> PICK at : at = job[c].what.at
  OBVIOUS
<1> DEFINE un == "unsubscribed"
<1>1. /\ job[c] # NoJob /\ job[c].what.kind = "unsubscribe"
      /\ linkUnsub' = Earlier(linkUnsub, at)
      /\ Ended(c) /\ UNCHANGED <<stored, occurred, linkClick, instant>>
  BY DEF CommitUnsubscribe
<1>2. /\ job[c].row = target /\ at \in 1..MaxTime /\ at <= instant /\ Past(target, at)
  BY <1>1, ProjectionIs DEF DeliveryInv, RowLocked, JobOK, DeliveryTypes, Events
<1>3. /\ MaxTime \in Nat /\ Never \in Nat /\ MaxTime < Never /\ at \in 1..Never /\ at # Never
      /\ target.status \in Statuses /\ \A m \in Marks : target.at[m] \in 1..Never
      /\ \A m \in Statuses : Precedence[m] \in Int /\ Precedence[m] <= Precedence[un]
      /\ un \in Marks /\ un \in Statuses /\ Marks \subseteq Statuses
      /\ linkUnsub \in 1..Never
  BY <1>2, DeliveryAssumption, ProjectionIs DEF Never, DeliveryInv, DeliveryTypes, TargetRow
<1>4. /\ linkUnsub' \in 1..Never /\ linkUnsub' # Never /\ linkUnsub' \in {at, linkUnsub}
      /\ linkUnsub' <= at /\ linkUnsub' <= linkUnsub
  BY <1>1, <1>3 DEF Earlier
<1>5. RowLocked' /\ DOMAIN job' = Clients
  BY <1>1, LockReleased DEF DeliveryInv, DeliveryTypes
<1>6. \A m \in Marks : /\ Shown(m, target.at[m])
                       /\ \A u \in 1..Never : Shown(m, u) => target.at[m] <= u
  BY DEF DeliveryInv, RowExact, MarksExact
<1>7. Shown(un, linkUnsub) /\ target.at[un] <= linkUnsub
  BY <1>3, <1>6 DEF Shown
<1>8. \A m, u : Shown(m, u)' =>
         Shown(m, u) \/ (m = un /\ u = at)
  BY <1>1, <1>4 DEF Shown, Never
<1>9. \A m, u : Shown(m, u) => Shown(m, u)' \/ (m = un /\ u = linkUnsub)
  BY <1>1 DEF Shown, Never
<1>10. Shown(un, linkUnsub)'
  BY DEF Shown
<1>11. CASE target.at[un] = Never
  <2>1. target' = [target EXCEPT !.status = un, !.at[un] = at] /\ optedOut' = TRUE
    BY <1>1, <1>2, <1>11 DEF CommitUnsubscribe
  <2>2. /\ target' \in TargetRow /\ target'.status = un
        /\ target'.at[un] = at /\ target'.reply = target.reply
        /\ \A m \in Marks \ {un} : target'.at[m] = target.at[m]
    <3> PICK x : x = [target.at EXCEPT ![un] = at]
      OBVIOUS
    <3>1. target \in TargetRow
      BY DEF DeliveryInv, DeliveryTypes
    <3>2. target' = [status |-> un, at |-> x, reply |-> target.reply]
      BY <2>1, <3>1 DEF TargetRow
    <3> QED BY <1>3, <3>1, <3>2, MarkWritten
  <2>3. linkUnsub = Never /\ linkUnsub' = at
    BY <1>1, <1>3, <1>7, <1>11 DEF Earlier
  <2>4. DeliveryTypes'
    BY <1>1, <1>4, <1>5, <2>1, <2>2 DEF DeliveryInv, DeliveryTypes, Never
  <2>5. Past(target', instant)
    BY <1>2, <2>2 DEF DeliveryInv, Past
  <2>6. MarksExact'
    <3>1. ASSUME NEW m \in Marks
          PROVE  /\ Shown(m, target.at[m])'
                 /\ \A u \in 1..Never : Shown(m, u)' => target'.at[m] <= u
      <4>1. CASE m # un
        BY <1>6, <1>8, <1>9, <2>2, <4>1
      <4>2. CASE m = un
        <5>1. Shown(m, target.at[m])'
          BY <1>10, <2>2, <2>3, <4>2
        <5>2. ASSUME NEW u \in 1..Never, Shown(m, u)' PROVE target'.at[m] <= u
          <6>1. CASE Shown(m, u)
            <7>1. Never <= u
              BY <1>3, <1>6, <1>11, <4>2, <6>1
            <7> QED BY <1>3, <2>2, <4>2, <7>1
          <6>2. CASE u = at
            BY <1>3, <2>2, <4>2, <6>2
          <6> QED BY <1>8, <5>2, <6>1, <6>2
        <5> QED BY <5>1, <5>2
      <4> QED BY <4>1, <4>2
    <3> QED BY <3>1 DEF MarksExact, Never
  <2>7. StatusExact'
    BY <1>3, <2>2 DEF StatusExact, Never
  <2>8. ReplyExact' /\ OptOutKept'
    BY <1>1, <2>1, <2>2 DEF DeliveryInv, RowExact, ReplyExact, RepliesKept, OptOutKept
  <2> QED BY <1>1, <1>5, <2>4, <2>5, <2>6, <2>7, <2>8 DEF DeliveryInv, RowExact, Past, Never
<1>12. CASE target.at[un] # Never
  <2>1. target' = target /\ optedOut' = optedOut
    BY <1>1, <1>2, <1>12 DEF CommitUnsubscribe
  <2>2. DeliveryTypes' /\ Past(target', instant)
    BY <1>1, <1>4, <1>5, <2>1 DEF DeliveryInv, DeliveryTypes, Past, Never
  <2>3. target.at[un] <= at
    BY <1>2, <1>3, <1>12 DEF Past
  <2>4. MarksExact'
    <3>1. ASSUME NEW m \in Marks
          PROVE  /\ Shown(m, target.at[m])'
                 /\ \A u \in 1..Never : Shown(m, u)' => target'.at[m] <= u
      <4>1. \A u \in 1..Never : Shown(m, u)' => target'.at[m] <= u
        BY <1>6, <1>8, <2>1, <2>3
      <4>2. Shown(m, target.at[m])'
        <5>1. CASE m = un /\ target.at[m] = linkUnsub
          <6>1. linkUnsub' = linkUnsub
            BY <1>1, <1>3, <2>3, <5>1 DEF Earlier
          <6> QED BY <1>10, <2>1, <5>1, <6>1
        <5>2. CASE ~(m = un /\ target.at[m] = linkUnsub)
          BY <1>6, <1>9, <2>1, <5>2
        <5> QED BY <5>1, <5>2
      <4> QED BY <4>1, <4>2
    <3> QED BY <3>1 DEF MarksExact, Never
  <2>5. optedOut
    <3>1. Shown(un, target.at[un])
      BY <1>3, <1>6
    <3>2. CASE \E e \in stored : Projection[e.kind] = un
      <4>1. \A e \in stored : e.kind \in EventKinds
        BY DEF DeliveryInv, DeliveryTypes, Events
      <4> QED BY <3>2, <4>1, ProjectionIs DEF DeliveryInv, RowExact, OptOutKept
    <3>3. CASE linkUnsub # Never
      BY <3>3 DEF DeliveryInv, RowExact, OptOutKept
    <3> QED BY <1>12, <3>1, <3>2, <3>3 DEF Shown
  <2>6. StatusExact' /\ ReplyExact' /\ OptOutKept'
    BY <1>1, <2>1, <2>5
       DEF DeliveryInv, RowExact, StatusExact, ReplyExact, RepliesKept, OptOutKept, Never
  <2> QED BY <1>1, <1>5, <2>1, <2>2, <2>4, <2>6 DEF DeliveryInv, RowExact, Past, Never
<1> QED BY <1>11, <1>12

\* Nothing has been received.
LEMMA DeliveryStart == DeliveryInit => DeliveryInv
<1> SUFFICES ASSUME DeliveryInit PROVE DeliveryInv
  OBVIOUS
<1>1. /\ target = [status |-> "not_sent", at |-> [m \in Marks |-> Never], reply |-> "none"]
      /\ stored = {} /\ occurred = {} /\ job = [c \in Clients |-> NoJob]
      /\ optedOut = FALSE /\ linkClick = Never /\ linkUnsub = Never /\ instant = 1
  BY DEF DeliveryInit
<1>2. Never \in 1..Never /\ 1 \in 1..MaxTime
  BY DeliveryAssumption DEF Never
<1>3. target \in TargetRow /\ \A m \in Marks : target.at[m] = Never
  BY <1>1, <1>2, ProjectionIs DEF TargetRow
<1>4. DeliveryTypes
  BY <1>1, <1>2, <1>3, FS_EmptySet DEF DeliveryTypes
<1>5. RowExact
  <2>1. \A m : \A t : Shown(m, t) <=> t = Never
    BY <1>1 DEF Shown
  <2>2. Never <= Never
    BY <1>2
  <2>3. MarksExact
    BY <1>3, <2>1, <2>2 DEF MarksExact
  <2>4. StatusExact /\ ReplyExact /\ OptOutKept
    BY <1>1, <1>3 DEF StatusExact, ReplyExact, RepliesKept, OptOutKept
  <2> QED BY <2>3, <2>4 DEF RowExact
<1> QED BY <1>1, <1>3, <1>4, <1>5 DEF DeliveryInv, RowLocked, Past

LEMMA DeliveryStep == DeliveryInv /\ [DeliveryNext]_deliveryVars => DeliveryInv'
<1> SUFFICES ASSUME DeliveryInv, [DeliveryNext]_deliveryVars PROVE DeliveryInv'
  OBVIOUS
<1>1. ASSUME NEW c \in Clients, NEW e \in occurred, BeginIngest(c, e) PROVE DeliveryInv'
  BY <1>1, RequestBegins DEF BeginIngest
<1>2. ASSUME NEW c \in Clients, BeginClick(c) \/ BeginUnsubscribe(c) PROVE DeliveryInv'
  <2>1. PICK what : /\ Begins(c, what)
                    /\ \/ what = [kind |-> "click", at |-> instant]
                       \/ what = [kind |-> "unsubscribe", at |-> instant]
    BY <1>2 DEF BeginClick, BeginUnsubscribe
  <2> QED BY <1>2, <2>1, RequestBegins DEF BeginClick, BeginUnsubscribe
<1>3. ASSUME NEW c \in Clients, CommitIngest(c) PROVE DeliveryInv'
  BY <1>3, IngestExact
<1>4. ASSUME NEW c \in Clients, CommitClick(c) PROVE DeliveryInv'
  BY <1>4, ClickExact
<1>5. ASSUME NEW c \in Clients, CommitUnsubscribe(c) PROVE DeliveryInv'
  BY <1>5, UnsubscribeExact
<1>6. ASSUME NEW c \in Clients, Rollback(c) PROVE DeliveryInv'
  <2>1. RowLocked' /\ DOMAIN job' = Clients
    BY <1>6, LockReleased DEF Rollback, DeliveryInv, DeliveryTypes
  <2>2. RowExact'
    BY <1>6, RowUntouched DEF Rollback, DeliveryInv
  <2> QED BY <1>6, <2>1, <2>2 DEF Rollback, DeliveryInv, DeliveryTypes, Past
<1>7. ASSUME NEW kind \in EventKinds, EventOccurs(kind) PROVE DeliveryInv'
  <2>1. /\ occurred' = occurred \union {[kind |-> kind, at |-> instant]}
        /\ UNCHANGED <<target, stored, job, optedOut, linkClick, linkUnsub, instant>>
    BY <1>7 DEF EventOccurs
  <2>2. RowExact'
    BY <2>1, RowUntouched DEF DeliveryInv
  <2>3. DeliveryTypes'
    BY <2>1 DEF DeliveryInv, DeliveryTypes, Events
  <2>4. \A j : JobOK(j) => JobOK(j)'
    BY <2>1 DEF JobOK, Past
  <2>5. RowLocked'
    BY <2>1, <2>4 DEF DeliveryInv, RowLocked
  <2> QED BY <2>1, <2>2, <2>3, <2>5 DEF DeliveryInv, Past
<1>8. CASE InstantPasses
  <2>1. /\ instant < MaxTime /\ instant' = instant + 1
        /\ UNCHANGED <<target, stored, occurred, job, optedOut, linkClick, linkUnsub>>
    BY <1>8 DEF InstantPasses
  <2>2. RowExact'
    BY <2>1, RowUntouched DEF DeliveryInv
  <2>3. /\ \A e \in occurred : e.at \in Int
        /\ instant \in Int /\ MaxTime \in Int
        /\ \A m \in Marks : target.at[m] \in Int
    BY DeliveryAssumption DEF DeliveryInv, DeliveryTypes, Events, TargetRow
  <2>4. DeliveryTypes'
    BY <2>1, <2>3 DEF DeliveryInv, DeliveryTypes
  <2>5. \A j : JobOK(j) => JobOK(j)'
    BY <2>1, <2>3 DEF JobOK, Past
  <2>6. RowLocked'
    BY <2>1, <2>5 DEF DeliveryInv, RowLocked
  <2>7. Past(target', instant')
    BY <2>1, <2>3 DEF DeliveryInv, Past
  <2> QED BY <2>1, <2>2, <2>4, <2>6, <2>7 DEF DeliveryInv, Past
<1>9. CASE UNCHANGED deliveryVars
  <2>1. UNCHANGED <<target, stored, occurred, job, optedOut, linkClick, linkUnsub, instant>>
    BY <1>9 DEF deliveryVars
  <2>2. RowExact'
    BY <2>1, RowUntouched DEF DeliveryInv
  <2> QED BY <2>1, <2>2 DEF DeliveryInv, DeliveryTypes, RowLocked, JobOK, Past
<1> QED BY <1>1, <1>2, <1>3, <1>4, <1>5, <1>6, <1>7, <1>8, <1>9 DEF DeliveryNext

\* What the invariant says is what the row is to say.
LEMMA ExactSays == DeliveryInv => ProjectionExact
<1> SUFFICES ASSUME DeliveryInv PROVE ProjectionExact
  OBVIOUS
<1>1. /\ target \in TargetRow /\ \A m \in Marks : target.at[m] \in 1..Never
      /\ \A e \in stored : e.at \in 1..Never
      /\ linkClick \in 1..Never /\ linkUnsub \in 1..Never /\ Never \in 1..Never
      /\ target.status \in Statuses
  BY DeliveryAssumption DEF DeliveryInv, DeliveryTypes, TargetRow, Events, Never
<1>2. ASSUME NEW m \in Marks PROVE target.at[m] = Earliest(Received(m))
  <2>1. \A t : t \in Received(m) <=> Shown(m, t)
    BY DEF Received, Shown
  <2>2. \A t \in Received(m) : t \in 1..Never
    BY <1>1 DEF Received
  <2>3. target.at[m] \in Received(m) /\ \A u \in Received(m) : target.at[m] <= u
    BY <2>1, <2>2 DEF DeliveryInv, RowExact, MarksExact
  <2>4. Earliest(Received(m)) \in Received(m)
        /\ \A u \in Received(m) : Earliest(Received(m)) <= u
    BY <2>3 DEF Earliest
  <2> QED BY <2>2, <2>3, <2>4
<1>3. \A m \in Marks : m \in Seen <=> target.at[m] # Never
  BY <1>2 DEF Seen
<1>4. target.status \in Seen \union {"not_sent"}
  BY <1>1, <1>3 DEF DeliveryInv, RowExact, StatusExact, Marks
<1>5. \A m \in Seen : Precedence[m] <= Precedence[target.status]
  BY <1>3 DEF DeliveryInv, RowExact, StatusExact, Seen
<1>6. ASSUME target.status = "unsubscribed" PROVE optedOut
  <2>1. target.at["unsubscribed"] # Never /\ Shown("unsubscribed", target.at["unsubscribed"])
    BY <1>6, ProjectionIs DEF DeliveryInv, RowExact, StatusExact, MarksExact
  <2>2. \A e \in stored : e.kind \in EventKinds
    BY DEF DeliveryInv, DeliveryTypes, Events
  <2>3. CASE \E e \in stored : Projection[e.kind] = "unsubscribed"
    BY <2>2, <2>3, ProjectionIs DEF DeliveryInv, RowExact, OptOutKept
  <2>4. CASE linkUnsub # Never
    BY <2>4 DEF DeliveryInv, RowExact, OptOutKept
  <2> QED BY <2>1, <2>3, <2>4 DEF Shown
<1> QED BY <1>2, <1>4, <1>5, <1>6 DEF ProjectionExact, DeliveryInv, RowExact, ReplyExact

\* Whatever the order, the repetitions and the interleaving in which the events of
\* a mail, the clicks of its link and the uses of its unsubscribe link are written,
\* the row says what was received, for any number of requests and events.
THEOREM DeliveryProjectionExact == DeliverySpec => []ProjectionExact
<1>1. DeliveryInit => DeliveryInv
  BY DeliveryStart
<1>2. DeliveryInv /\ [DeliveryNext]_deliveryVars => DeliveryInv'
  BY DeliveryStep
<1>3. DeliveryInv => ProjectionExact
  BY ExactSays
<1> QED BY <1>1, <1>2, <1>3, PTL DEF DeliverySpec
=============================================================================
