-------------------------- MODULE OpportunityStream --------------------------
(***************************************************************************)
(* Acquisition opportunities (signals/acquisition): an append-only stream  *)
(* of events and the row projected from it, written by several processes   *)
(* with an expected version and an idempotency key.                        *)
(*                                                                         *)
(* One opportunity.  An append is a transaction in two steps, the reads    *)
(* (without a lock) and the conditional update with the insert and commit. *)
(* A mutation stands for its idempotency key and its fingerprint together; *)
(* `repeat' tells apart mutations that ask for the same again.  Events     *)
(* that change no column a reducer reads (next action, retry, plan, policy)*)
(* are one kind, NOTED.                                                    *)
(***************************************************************************)
EXTENDS Integers, Sequences, FiniteSets

CONSTANTS
    NoOpportunity, NoAppend,
    Writers,
    Outcomes,    \* outcome states that are reported
    Repeats,     \* bound: times the same is asked for under new keys
    MaxEventsInStream   \* bound: length of the stream

\* TRANSITIONS; a state that is not listed is left by outcomes only.
Transitions ==
    [DISCOVERED |-> {"ENRICHING"},
     ENRICHING |-> {"READY_FOR_DECISION"},
     READY_FOR_DECISION |-> {"ENRICHING", "HOLD", "NO_SEND", "REVIEW", "SEND"},
     HOLD |-> {"ENRICHING", "READY_FOR_DECISION", "REVIEW", "NO_SEND"},
     REVIEW |-> {"ENRICHING", "HOLD", "READY_FOR_DECISION", "NO_SEND", "SEND"},
     SEND |-> {"QUEUED"},
     QUEUED |-> {"SENT"}]

DecisionStates == {"ENRICHING", "HOLD", "NO_SEND", "REVIEW", "SEND"}

OutcomeRank ==
    [SEND |-> 0, QUEUED |-> 1, SENT |-> 2, REPLIED |-> 3, ACTIVATED |-> 4,
     PAID |-> 5, RETAINED |-> 6, CHURNED |-> 7]

Ranked == DOMAIN OutcomeRank
States == DOMAIN Transitions \union Ranked \union {"NO_SEND"}

Mutations ==
    {m \in [type : {"STATE_TRANSITIONED", "DECISION_RECORDED", "OUTCOME_RECORDED",
                    "CONTACT_SELECTED", "NOTED"},
            to : States \union {"-"}, repeat : 1..Repeats] :
        CASE m.type = "STATE_TRANSITIONED" -> m.to \in UNION {Transitions[s] :
                                                 s \in DOMAIN Transitions}
          [] m.type = "DECISION_RECORDED" -> m.to \in DecisionStates
          [] m.type = "OUTCOME_RECORDED" -> m.to \in Outcomes
          [] OTHER -> m.to = "-"}

OpportunityRow == [state : States, version : Nat, contact : BOOLEAN]

ASSUME StreamAssumption ==
    /\ Outcomes \subseteq Ranked
    /\ NoOpportunity \notin OpportunityRow
    /\ NoAppend \notin [mutation : Mutations, row : OpportunityRow]

Creation == [type |-> "OPPORTUNITY_CREATED", to |-> "DISCOVERED", repeat |-> 1]

VARIABLES
    opp,      \* acquisition_opportunity: state, version, contact
    stream,   \* acquisition_event
    append    \* the writers' transactions: the mutation, the row they read

streamVars == <<opp, stream, append>>

StreamInit ==
    /\ opp = NoOpportunity
    /\ stream = <<>>
    /\ append = [w \in Writers |-> NoAppend]

-----------------------------------------------------------------------------
OutcomeApplies(state) == state \in Ranked

\* The conditions of the reducers.
Accepts(row, m) ==
    CASE m.type \in {"STATE_TRANSITIONED", "DECISION_RECORDED"} ->
              row.state \in DOMAIN Transitions /\ m.to \in Transitions[row.state]
      [] m.type = "OUTCOME_RECORDED" -> OutcomeApplies(row.state)
      [] m.type = "CONTACT_SELECTED" -> row.state = "DISCOVERED" /\ ~row.contact
      [] OTHER -> TRUE

RankOf(state) == IF state \in Ranked THEN OutcomeRank[state] ELSE -1

\* Mutant of Advanced: the outcome that is reported last.
AdvancedToLast(state, outcome) == outcome

\* _outcome_recorded: only a higher rank moves the state.
Advanced(state, outcome) ==
    IF OutcomeRank[outcome] > RankOf(state) THEN outcome ELSE state

\* reduce_event
Reduce(row, m) ==
    CASE m.type = "OPPORTUNITY_CREATED" ->
              [state |-> "DISCOVERED", version |-> 1, contact |-> FALSE]
      [] m.type \in {"STATE_TRANSITIONED", "DECISION_RECORDED"} ->
              [row EXCEPT !.state = m.to, !.version = @ + 1]
      [] m.type = "OUTCOME_RECORDED" ->
              [row EXCEPT !.version = @ + 1, !.state = Advanced(@, m.to)]
      [] m.type = "CONTACT_SELECTED" ->
              [row EXCEPT !.contact = TRUE, !.version = @ + 1]
      [] OTHER -> [row EXCEPT !.version = @ + 1]

\* The row after all the events, reduced one after the other.
Replay(events) ==
    LET row[i \in 0..Len(events)] ==
            IF i = 0 THEN NoOpportunity ELSE Reduce(row[i - 1], events[i])
    IN  row[Len(events)]

-----------------------------------------------------------------------------
\* create_opportunity_in_transaction: the insert decides who creates.
CreateOpportunity ==
    /\ opp = NoOpportunity
    /\ opp' = Reduce(NoOpportunity, Creation)
    /\ stream' = <<Creation>>
    /\ UNCHANGED append

Known(m) == \E i \in DOMAIN stream : stream[i] = m

\* _append: a known key is answered from the stream, a row of another version
\* than expected or an impossible event raises: no step.  So the version that
\* is expected is the one that is read.
AppendReads(w, m) ==
    /\ append[w] = NoAppend /\ opp # NoOpportunity
    /\ Len(stream) < MaxEventsInStream
    /\ ~Known(m) /\ Accepts(opp, m)
    /\ append' = [append EXCEPT ![w] = [mutation |-> m, row |-> opp]]
    /\ UNCHANGED <<opp, stream>>

\* Mutant of SameVersion: the update names the row only.
SameVersionUnchecked(w) == TRUE

\* UPDATE ... WHERE stream_version = expected_version
SameVersion(w) == opp.version = append[w].row.version

AppendWrites(w) ==
    /\ append[w] # NoAppend
    /\ IF SameVersion(w)
         THEN /\ opp' = Reduce(append[w].row, append[w].mutation)
              /\ stream' = Append(stream, append[w].mutation)
         ELSE UNCHANGED <<opp, stream>>
    /\ append' = [append EXCEPT ![w] = NoAppend]

AppendDies(w) ==
    /\ append[w] # NoAppend
    /\ append' = [append EXCEPT ![w] = NoAppend]
    /\ UNCHANGED <<opp, stream>>

RebuildProjection ==
    /\ opp # NoOpportunity
    /\ opp' = Replay(stream)
    /\ UNCHANGED <<stream, append>>

StreamNext ==
    \/ CreateOpportunity \/ RebuildProjection
    \/ \E w \in Writers :
          \/ \E m \in Mutations : AppendReads(w, m)
          \/ AppendWrites(w) \/ AppendDies(w)

StreamSpec == StreamInit /\ [][StreamNext]_streamVars

-----------------------------------------------------------------------------
\* The row is what the stream replays to (verify_projection), its version the
\* stream's length, and every event was possible where it stands: two
\* processes that read the same row cannot both append.
ProjectionIsReplay ==
    /\ opp = Replay(stream)
    /\ opp # NoOpportunity => opp.version = Len(stream)
    /\ \A i \in 2..Len(stream) : Accepts(Replay(SubSeq(stream, 1, i - 1)), stream[i])

\* A mutation that is sent again, by the same process or another, is in the
\* stream once.
AppendedOnce ==
    \A i, j \in DOMAIN stream : stream[i] = stream[j] => i = j

\* Whatever was queued, sent or earned has a SEND before it in its stream.
SendComesFirst ==
    opp # NoOpportunity /\ opp.state \in Ranked =>
        \E i \in DOMAIN stream : stream[i].to = "SEND" /\ stream[i].type #
                                                             "OUTCOME_RECORDED"

\* The stream is sound: row and events agree, nothing is in it twice, and no
\* outcome comes before the decision to send.
StreamSound == ProjectionIsReplay /\ AppendedOnce /\ SendComesFirst

\* An outcome is never taken back, and a NO_SEND is never left.
OutcomesStand ==
    [][opp # NoOpportunity =>
          /\ RankOf(opp'.state) >= RankOf(opp.state)
          /\ opp.state = "NO_SEND" => opp'.state = "NO_SEND"]_streamVars
=============================================================================
