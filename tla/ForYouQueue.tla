----------------------------- MODULE ForYouQueue -----------------------------
(***************************************************************************)
(* The queue of "Pour vous" sentences (signals/personalization).  A signal *)
(* is materialised with a fallback sentence and a pending row; workers     *)
(* purge the rows nobody will see, claim a batch under a lease, generate   *)
(* outside any transaction and write the whole batch at the end.           *)
(*                                                                         *)
(* Claims are serialised by a table lock.  What a claim prefers (priority, *)
(* date) is left open: any rows, as many as the batch takes.               *)
(***************************************************************************)
EXTENDS Naturals, FiniteSets, FiniteSetsExt

CONSTANTS
    Sentences,       \* for_you_id: fingerprint of signal, profile and policy
    Generators,      \* worker processes
    BatchLimit,      \* rows of one claim
    MaxRetirements   \* bound: signals that are withdrawn or come back

VARIABLES
    sentence,    \* for_you_sentence
    generator,   \* the rows each running worker claimed
    current,     \* sentences of an active profile, a valid and recent signal
    retirements

forYouVars == <<sentence, generator, current, retirements>>

NoSentence == [state |-> "none", leased |-> FALSE, text |-> "none"]
Fallback == [state |-> "pending", leased |-> FALSE, text |-> "fallback"]

ForYouInit ==
    /\ sentence = [s \in Sentences |-> NoSentence]
    /\ generator = [g \in Generators |-> {}]
    /\ current = Sentences
    /\ retirements = 0

-----------------------------------------------------------------------------
\* _persist: nothing when the identity is known.
EnqueueSentence(s) ==
    /\ sentence[s] = NoSentence /\ s \in current
    /\ sentence' = [sentence EXCEPT ![s] = Fallback]
    /\ UNCHANGED <<generator, current, retirements>>

\* _reclaimable
Reclaimable ==
    {s \in Sentences : \/ sentence[s].state = "pending"
                       \/ sentence[s].state = "running" /\ ~sentence[s].leased}

\* audit_and_purge_queue
Doomed == Reclaimable \ current

\* _claim: the purge and the claim are one transaction.
ClaimSentences(g) ==
    LET kept == Reclaimable \ Doomed
        size == Min({BatchLimit, Cardinality(kept)})
    IN  /\ generator[g] = {}
        /\ Reclaimable # {}
        /\ \E batch \in kSubset(size, kept) :
              /\ generator' = [generator EXCEPT ![g] = batch]
              /\ sentence' = [s \in Sentences |->
                    IF s \in Doomed THEN NoSentence
                    ELSE IF s \in batch
                      THEN [sentence[s] EXCEPT !.state = "running", !.leased = TRUE]
                      ELSE sentence[s]]
        /\ UNCHANGED <<current, retirements>>

Outcome == {"accepted", "refused", "requeued"}

\* Mutant of Written: the fallback replaces the sentence when none came.
WrittenAlways(row, outcome) ==
    IF row = NoSentence THEN row
    ELSE [state |-> IF outcome = "requeued" THEN "pending" ELSE "completed",
          leased |-> FALSE,
          text |-> IF outcome = "accepted" THEN "generated" ELSE "fallback"]

\* The last transaction of run: by identity alone, whoever holds the lease.
\* A deleted row is not brought back; without a sentence the text stays.
Written(row, outcome) ==
    IF row = NoSentence THEN row
    ELSE [state |-> IF outcome = "requeued" THEN "pending" ELSE "completed",
          leased |-> FALSE,
          text |-> IF outcome = "accepted" THEN "generated" ELSE row.text]

\* Generation accepted; refused, unavailable or not fitting; or the model's
\* budget is used up, which puts rows back.
FinishBatch(g) ==
    /\ generator[g] # {}
    /\ \E outcome \in [generator[g] -> Outcome] :
          sentence' = [s \in Sentences |->
              IF s \in generator[g] THEN Written(sentence[s], outcome[s])
                                    ELSE sentence[s]]
    /\ generator' = [generator EXCEPT ![g] = {}]
    /\ UNCHANGED <<current, retirements>>

GeneratorDies(g) ==
    /\ generator[g] # {}
    /\ generator' = [generator EXCEPT ![g] = {}]
    /\ UNCHANGED <<sentence, current, retirements>>

SentenceLeaseExpires(s) ==
    /\ sentence[s].leased
    /\ sentence' = [sentence EXCEPT ![s].leased = FALSE]
    /\ UNCHANGED <<generator, current, retirements>>

\* The signal is invalidated or ages, the profile changes or is paused; or
\* the profile is active again.
Retire(s) ==
    /\ retirements < MaxRetirements
    /\ retirements' = retirements + 1
    /\ current' = IF s \in current THEN current \ {s} ELSE current \cup {s}
    /\ UNCHANGED <<sentence, generator>>

ForYouNext ==
    \/ \E s \in Sentences : EnqueueSentence(s) \/ SentenceLeaseExpires(s) \/ Retire(s)
    \/ \E g \in Generators : ClaimSentences(g) \/ FinishBatch(g) \/ GeneratorDies(g)

ForYouSpec == ForYouInit /\ [][ForYouNext]_forYouVars

-----------------------------------------------------------------------------
\* A sentence that was generated for a client stays on screen as long as its
\* signal is current, whatever workers come late, fail on the same row, put
\* it back or purge around it.
GeneratedStays ==
    [][\A s \in current :
          sentence[s].text = "generated" => sentence'[s].text = "generated"]_forYouVars
=============================================================================
