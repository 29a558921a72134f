------------------------- MODULE ResponseEvaluation -------------------------
(***************************************************************************)
(* Replies to prospect mails (signals/responses).  The webhook reserves an *)
(* evaluation per reply, and settles it at once when the text decides by   *)
(* itself; else a worker claims it under a lease, fetches the mail at      *)
(* Instantly, has it classified and finalises it: the verdict, the opt-out,*)
(* the REPLIED outcome and the next action, in one transaction.            *)
(*                                                                         *)
(* A verdict is what it causes: whether a person replied, and whether the  *)
(* contact must be suppressed.  The classifier may answer differently each *)
(* time.  The finalising transaction is split between its read of the row, *)
(* which takes no lock, and its writes.  The campaign member of a reply is *)
(* stopped by the webhook (CampaignOperations); finalising stops it again, *)
(* which changes nothing.                                                  *)
(***************************************************************************)
EXTENDS Naturals, FiniteSets

CONSTANTS
    Replies,           \* replies of one contact, each an evaluation
    Evaluators,        \* concurrent calls of ResponseWorker.process
    ResolutionLimit,   \* attempts the resolver accepts (3 in the code)
    MaxEvaluations,    \* bound: claims of one evaluation
    NoVerdict

VARIABLES
    evaluation,   \* acquisition_response_evaluation
    evaluator,    \* the workers: position, reply and verdict
    reported,     \* the verdict the opportunity's events of a reply state
    optOuts,      \* replies that recorded a suppression
    mailed        \* the opportunity has its SENT outcome

responseVars == <<evaluation, evaluator, reported, optOuts, mailed>>

Verdicts == [replied : BOOLEAN, optOut : BOOLEAN]

ASSUME VerdictsAssumption == NoVerdict \notin Verdicts

NotReserved == [state |-> "none", owner |-> "none", leased |-> FALSE,
               due |-> FALSE, attempt |-> 0, verdict |-> NoVerdict]
OffDuty == [pc |-> "idle", reply |-> "none", verdict |-> NoVerdict]

ResponseInit ==
    /\ evaluation = [e \in Replies |-> NotReserved]
    /\ evaluator = [w \in Evaluators |-> OffDuty]
    /\ reported = [e \in Replies |-> NoVerdict]
    /\ optOuts = {}
    /\ mailed = FALSE

-----------------------------------------------------------------------------
\* What a verdict writes beside the evaluation: the opt-out and the events.
Effects(e, v) ==
    /\ reported' = [reported EXCEPT ![e] = v]
    /\ optOuts' = IF v.optOut THEN optOuts \cup {e} ELSE optOuts

\* An outcome needs a stream that was sent, and a known key a stream that
\* says the same: else the append raises and the transaction is rolled back.
Appends(e, v) ==
    /\ v.replied => mailed
    /\ reported[e] \in {NoVerdict, v}

Settled(row, v) ==
    [row EXCEPT !.state = "FINALIZED", !.owner = "none", !.leased = FALSE,
                !.due = FALSE, !.verdict = v]

\* ResponseWebhookIngress.reserve_in_transaction: a text without a clear sign
\* is left to the workers.
ReserveReply(e) ==
    /\ evaluation[e] = NotReserved
    /\ evaluation' = [evaluation EXCEPT ![e].state = "PLANNED"]
    /\ UNCHANGED <<evaluator, reported, optOuts, mailed>>

\* Opt-outs, automatic replies and empty mails are settled by the webhook.
SettleAtWebhook(e, v) ==
    /\ evaluation[e] = NotReserved
    /\ v.replied => v.optOut
    /\ Appends(e, v)
    /\ Effects(e, v)
    /\ evaluation' = [evaluation EXCEPT ![e] = Settled([@ EXCEPT !.attempt = 1], v)]
    /\ UNCHANGED <<evaluator, mailed>>

\* The EMAIL_SENT event may arrive after the reply to it.
SentIsRecorded ==
    /\ ~mailed
    /\ mailed' = TRUE
    /\ UNCHANGED <<evaluation, evaluator, reported, optOuts>>

-----------------------------------------------------------------------------
\* ResponseStore.claim
Claimable(row) ==
    \/ row.state = "PLANNED"
    \/ row.state = "RETRY_WAIT" /\ row.due
    \/ row.state = "IN_FLIGHT" /\ ~row.leased

ClaimEvaluation(w, e) ==
    /\ evaluator[w] = OffDuty
    /\ Claimable(evaluation[e]) /\ evaluation[e].attempt < MaxEvaluations
    /\ evaluation' = [evaluation EXCEPT ![e] =
            [@ EXCEPT !.state = "IN_FLIGHT", !.owner = w, !.leased = TRUE,
                      !.due = FALSE, !.attempt = evaluation[e].attempt + 1]]
    /\ evaluator' = [evaluator EXCEPT ![w] =
            [pc |-> "resolving", reply |-> e, verdict |-> NoVerdict]]
    /\ UNCHANGED <<reported, optOuts, mailed>>

\* The evaluation is still this worker's.
Holds(w) ==
    LET row == evaluation[evaluator[w].reply]
    IN  row.state = "IN_FLIGHT" /\ row.owner = w

Resolving(w) ==
    /\ evaluator[w].pc = "resolving"
    /\ evaluation[evaluator[w].reply].attempt <= ResolutionLimit

EvaluationEnds(w) == evaluator' = [evaluator EXCEPT ![w] = OffDuty]

\* A rate limit, an error or a mail that is not there yet: mark_retry, which
\* raises when the evaluation was taken over.
ResolutionRetries(w) ==
    /\ Resolving(w)
    /\ evaluation' = IF Holds(w)
         THEN [evaluation EXCEPT ![evaluator[w].reply] =
                  [@ EXCEPT !.state = "RETRY_WAIT", !.owner = "none",
                            !.leased = FALSE]]
         ELSE evaluation
    /\ EvaluationEnds(w)
    /\ UNCHANGED <<reported, optOuts, mailed>>

\* Found and classified, or given up as ambiguous: a verdict in memory.
Classify(w, v) ==
    /\ Resolving(w)
    /\ evaluator' = [evaluator EXCEPT ![w].pc = "finalizing", ![w].verdict = v]
    /\ UNCHANGED <<evaluation, reported, optOuts, mailed>>

\* resolve refuses the attempts after the limit: process raises.
ResolutionRefused(w) ==
    /\ evaluator[w].pc = "resolving" /\ ~Resolving(w)
    /\ EvaluationEnds(w)
    /\ UNCHANGED <<evaluation, reported, optOuts, mailed>>

\* _finalize reads the row: finalised is a replay, somebody else's a conflict.
FinalizeReads(w) ==
    /\ evaluator[w].pc = "finalizing"
    /\ IF Holds(w)
         THEN evaluator' = [evaluator EXCEPT ![w].pc = "writing"]
         ELSE EvaluationEnds(w)
    /\ UNCHANGED <<evaluation, reported, optOuts, mailed>>

\* Mutant of Commits: no conflict when the update finds no row.
CommitsAnyway(w) == Appends(evaluator[w].reply, evaluator[w].verdict)

\* Everything is written and the conditional update found its row.
Commits(w) ==
    /\ Holds(w)
    /\ Appends(evaluator[w].reply, evaluator[w].verdict)

FinalizeWrites(w) ==
    LET e == evaluator[w].reply
        v == evaluator[w].verdict
    IN  /\ evaluator[w].pc = "writing"
        /\ IF Commits(w)
             THEN /\ Effects(e, v)
                  /\ evaluation' = IF Holds(w)
                        THEN [evaluation EXCEPT ![e] = Settled(@, v)]
                        ELSE evaluation
             ELSE UNCHANGED <<evaluation, reported, optOuts>>
        /\ EvaluationEnds(w)
        /\ UNCHANGED mailed

EvaluatorDies(w) ==
    /\ evaluator[w] # OffDuty
    /\ EvaluationEnds(w)
    /\ UNCHANGED <<evaluation, reported, optOuts, mailed>>

EvaluationLeaseExpires(e) ==
    /\ evaluation[e].leased
    /\ evaluation' = [evaluation EXCEPT ![e].leased = FALSE]
    /\ UNCHANGED <<evaluator, reported, optOuts, mailed>>

EvaluationRetryDue(e) ==
    /\ evaluation[e].state = "RETRY_WAIT" /\ ~evaluation[e].due
    /\ evaluation' = [evaluation EXCEPT ![e].due = TRUE]
    /\ UNCHANGED <<evaluator, reported, optOuts, mailed>>

ResponseNext ==
    \/ SentIsRecorded
    \/ \E e \in Replies :
          \/ ReserveReply(e) \/ EvaluationLeaseExpires(e) \/ EvaluationRetryDue(e)
          \/ \E v \in Verdicts : SettleAtWebhook(e, v)
          \/ \E w \in Evaluators : ClaimEvaluation(w, e)
    \/ \E w \in Evaluators :
          \/ ResolutionRetries(w) \/ ResolutionRefused(w) \/ FinalizeReads(w)
          \/ FinalizeWrites(w) \/ EvaluatorDies(w)
          \/ \E v \in Verdicts : Classify(w, v)

ResponseSpec == ResponseInit /\ [][ResponseNext]_responseVars

-----------------------------------------------------------------------------
\* The opt-out and the events are exactly those of the verdict that is on
\* record, and there are none before one is: of two workers that hold the
\* same reply in turn and judge it differently, one leaves its marks.
EffectsMatchVerdict ==
    \A e \in Replies :
        /\ reported[e] = evaluation[e].verdict
        /\ evaluation[e].state = "FINALIZED" <=> reported[e] # NoVerdict
        /\ e \in optOuts <=>
              evaluation[e].state = "FINALIZED" /\ evaluation[e].verdict.optOut

\* A reply whose resolution attempts are used up was finalised, with a verdict
\* or for review: none is claimed once more than the resolver accepts.
ExhaustedIsFinal ==
    \A e \in Replies :
        evaluation[e].attempt > ResolutionLimit => evaluation[e].state = "FINALIZED"
=============================================================================
