------------------------- MODULE DeliveryProjection -------------------------
(***************************************************************************)
(* What became of a mail (signals/prospection_actions/webhook.py): events  *)
(* of Instantly arrive late, twice and in any order, and are folded into   *)
(* one row of prospect_target, which the tracked link                      *)
(* (conversion/service.py) and the unsubscribe link (unsubscribe.py) write *)
(* as well.                                                                *)
(*                                                                         *)
(* One target.  A request is a transaction in two steps, the locking read  *)
(* and the write with its commit; it may roll back in between, and         *)
(* Instantly may deliver again.  Campaign-wide events, which project       *)
(* nothing, and the directory's columns are left out.                      *)
(***************************************************************************)
EXTENDS Integers, FiniteSets

CONSTANTS
    NoJob,
    Clients,     \* concurrent requests
    EventKinds,  \* the event types that occur
    MaxTime,     \* bound: moments that are told apart
    MaxEvents    \* bound: events of this target

\* _EVENT_DELIVERY_PROJECTIONS, with the sent event.
Projection ==
    [EMAIL_SENT |-> "delivered", EMAIL_OPENED |-> "opened",
     LINK_CLICKED |-> "clicked", REPLY_RECEIVED |-> "replied",
     AUTO_REPLY_RECEIVED |-> "replied", EMAIL_BOUNCED |-> "bounced",
     LEAD_UNSUBSCRIBED |-> "unsubscribed"]

Precedence ==
    [not_sent |-> 0, delivered |-> 1, opened |-> 2, clicked |-> 3,
     replied |-> 4, bounced |-> 5, unsubscribed |-> 6]

Statuses == DOMAIN Precedence
Marks == Statuses \ {"not_sent"}    \* one timestamp column for each
Never == MaxTime + 1

ASSUME DeliveryAssumption ==
    EventKinds \subseteq DOMAIN Projection /\ MaxTime \in Nat \ {0} /\ MaxEvents \in Nat

VARIABLES
    target,     \* prospect_target: status, timestamps, reply_classification
    stored,     \* prospect_delivery_event
    occurred,   \* Instantly: the events, to be delivered any number of times
    job,        \* the clients' transactions: what they do, the row they read
    optedOut,   \* the mailbox is in acquisition_contact_suppression
    linkClick,  \* acquisition_conversion_event: when the link was clicked
    linkUnsub,  \* history: when the unsubscribe link was first used
    instant

deliveryVars == <<target, stored, occurred, job, optedOut, linkClick,
                  linkUnsub, instant>>

DeliveryInit ==
    /\ target = [status |-> "not_sent", at |-> [m \in Marks |-> Never],
                 reply |-> "none"]
    /\ stored = {} /\ occurred = {}
    /\ job = [c \in Clients |-> NoJob]
    /\ optedOut = FALSE
    /\ linkClick = Never /\ linkUnsub = Never
    /\ instant = 1

-----------------------------------------------------------------------------
Earlier(a, b) == IF a < b THEN a ELSE b

Raised(row, status) ==
    IF Precedence[status] > Precedence[row.status] THEN status ELSE row.status

\* One round of the loop of _target_values.
ApplyEvent(row, e) ==
    LET mark == Projection[e.kind]
    IN  [status |-> Raised(row, mark),
         at |-> [row.at EXCEPT ![mark] = Earlier(@, e.at)],
         reply |-> CASE e.kind = "REPLY_RECEIVED" -> "human_reply"
                     [] e.kind = "AUTO_REPLY_RECEIVED" -> "auto_reply"
                     [] OTHER -> row.reply]

\* The order of the fingerprints, whatever it is.
FingerprintOrder ==
    CHOOSE f \in [EventKinds -> 1..Cardinality(EventKinds)] :
        \A k, l \in EventKinds : f[k] = f[l] => k = l

Before(a, b) ==
    \/ a.at < b.at
    \/ a.at = b.at /\ FingerprintOrder[a.kind] < FingerprintOrder[b.kind]

LastOf(events) == CHOOSE e \in events : \A d \in events : d = e \/ Before(d, e)

\* The events are applied one after the other, in that order.
TargetValues(row, events) ==
    LET projected[E \in SUBSET events] ==
            IF E = {} THEN row
            ELSE ApplyEvent(projected[E \ {LastOf(E)}], LastOf(E))
    IN  projected[events]

-----------------------------------------------------------------------------
\* Mutant of RowFree: the row is read without FOR UPDATE.
RowReadable == TRUE

\* SELECT ... FOR UPDATE waits for the transaction that holds the row.
RowFree == \A c \in Clients : job[c] = NoJob

Begins(c, what) ==
    /\ job[c] = NoJob /\ RowFree
    /\ job' = [job EXCEPT ![c] = [what |-> what, row |-> target]]

BeginIngest(c, e) ==
    /\ Begins(c, e)
    /\ UNCHANGED <<target, stored, occurred, optedOut, linkClick, linkUnsub,
                   instant>>

\* record_click_in_transaction: the token's first click.
BeginClick(c) ==
    /\ linkClick = Never
    /\ Begins(c, [kind |-> "click", at |-> instant])
    /\ UNCHANGED <<target, stored, occurred, optedOut, linkClick, linkUnsub,
                   instant>>

BeginUnsubscribe(c) ==
    /\ Begins(c, [kind |-> "unsubscribe", at |-> instant])
    /\ UNCHANGED <<target, stored, occurred, optedOut, linkClick, linkUnsub,
                   instant>>

Ended(c) == job' = [job EXCEPT ![c] = NoJob]

\* ingest_payload: a known fingerprint is not stored again, the row is
\* projected in any case.
CommitIngest(c) ==
    LET e == job[c].what
    IN  /\ job[c] # NoJob /\ e.kind \in EventKinds
        /\ stored' = stored \union {e}
        /\ target' = TargetValues(job[c].row, stored')
        /\ optedOut' = (optedOut \/ (e \notin stored /\ e.kind = "LEAD_UNSUBSCRIBED"))
        /\ Ended(c)
        /\ UNCHANGED <<occurred, linkClick, linkUnsub, instant>>

CommitClick(c) ==
    LET row == job[c].row
        at == job[c].what.at
    IN  /\ job[c] # NoJob /\ job[c].what.kind = "click" /\ linkClick = Never
        /\ linkClick' = at
        /\ target' = [target EXCEPT
                          !.status = Raised(row, "clicked"),
                          !.at["clicked"] = Earlier(row.at["clicked"], at)]
        /\ Ended(c)
        /\ UNCHANGED <<stored, occurred, optedOut, linkUnsub, instant>>

CommitUnsubscribe(c) ==
    LET at == job[c].what.at
    IN  /\ job[c] # NoJob /\ job[c].what.kind = "unsubscribe"
        /\ IF job[c].row.at["unsubscribed"] = Never
             THEN /\ optedOut' = TRUE
                  /\ target' = [target EXCEPT !.status = "unsubscribed",
                                              !.at["unsubscribed"] = at]
             ELSE UNCHANGED <<optedOut, target>>
        /\ linkUnsub' = Earlier(linkUnsub, at)
        /\ Ended(c)
        /\ UNCHANGED <<stored, occurred, linkClick, instant>>

\* An error or the end of the process; the provider gets no answer.
Rollback(c) ==
    /\ job[c] # NoJob
    /\ Ended(c)
    /\ UNCHANGED <<target, stored, occurred, optedOut, linkClick, linkUnsub,
                   instant>>

EventOccurs(kind) ==
    LET e == [kind |-> kind, at |-> instant]
    IN  /\ e \notin occurred /\ Cardinality(occurred) < MaxEvents
        /\ occurred' = occurred \union {e}
        /\ UNCHANGED <<target, stored, job, optedOut, linkClick, linkUnsub,
                       instant>>

InstantPasses ==
    /\ instant < MaxTime
    /\ instant' = instant + 1
    /\ UNCHANGED <<target, stored, occurred, job, optedOut, linkClick, linkUnsub>>

DeliveryNext ==
    \/ \E c \in Clients :
          \/ \E e \in occurred : BeginIngest(c, e)
          \/ BeginClick(c) \/ BeginUnsubscribe(c)
          \/ CommitIngest(c) \/ CommitClick(c) \/ CommitUnsubscribe(c)
          \/ Rollback(c)
    \/ \E kind \in EventKinds : EventOccurs(kind)
    \/ InstantPasses

DeliverySpec == DeliveryInit /\ [][DeliveryNext]_deliveryVars

-----------------------------------------------------------------------------
Received(mark) ==
    {e.at : e \in {d \in stored : Projection[d.kind] = mark}}
    \union (IF mark = "clicked" THEN {linkClick} ELSE {})
    \union (IF mark = "unsubscribed" THEN {linkUnsub} ELSE {})
    \union {Never}

Earliest(S) == CHOOSE t \in S : \A u \in S : t <= u
Seen == {mark \in Marks : Earliest(Received(mark)) # Never}
RepliesKept == {e \in stored : Projection[e.kind] = "replied"}

\* Between transactions the row says what was received, whatever the order,
\* the repetitions and the other writers: the strongest status, the earliest
\* time of each mark, the kind of the latest reply -- and nobody whose opt-out
\* it shows is missing from the suppressions.
ProjectionExact ==
    (\A c \in Clients : job[c] = NoJob) =>
        /\ \A mark \in Marks : target.at[mark] = Earliest(Received(mark))
        /\ target.status \in Seen \union {"not_sent"}
        /\ \A mark \in Seen : Precedence[mark] <= Precedence[target.status]
        /\ \A e \in RepliesKept : (\A d \in RepliesKept : d = e \/ Before(d, e)) =>
              (target.reply = "human_reply") = (e.kind = "REPLY_RECEIVED")
        /\ target.status = "unsubscribed" => optedOut
=============================================================================
