---------------------------- MODULE ContactLookup ----------------------------
(***************************************************************************)
(* The paid contact lookup (signals/client_value/contact_lookup.py): a     *)
(* request reserves an attempt of the month's quota, records every call to *)
(* Apollo before it makes it, and stores what it found for one company of  *)
(* one account.  Meanwhile the directory may bind the company to another   *)
(* organisation or suppress it, and a database trigger (migration 0054)    *)
(* ends the running attempts and deletes the stored result.                *)
(*                                                                         *)
(* The transactions that race are split at their row locks: the change of  *)
(* the directory row, the trigger's attempts, its commit; _finish's        *)
(* attempt, its cache row with the commit; view's three statements.        *)
(* An organisation that is not resolved is NoOrg; a refusal of _reserve    *)
(* rolls back, its purges included, so it is no step.                      *)
(***************************************************************************)
EXTENDS Integers, Sequences, FiniteSets

CONSTANTS
    NoRow, NoOrg, Nobody,
    Requests,
    Orgs,          \* organisations of Apollo
    Quota,         \* the plan's monthly quota
    Matches,       \* people enriched in a lookup, at most
    Months,        \* bound: months that pass
    MaxRebinds     \* bound: changes of the directory row

ASSUME LookupAssumption ==
    /\ IsFiniteSet(Requests) /\ Orgs # {}
    /\ Quota \in Nat /\ Matches \in Nat
    /\ Months \in Nat \ {0} /\ MaxRebinds \in Nat

VARIABLES
    directory,  \* supplier_directory: organisation, suppressed
    change,     \* the transaction that changes it
    cache,      \* company_contact_lookup
    attempts,   \* company_contact_lookup_attempt
    req,        \* the requests in research
    view,       \* a request in view
    month, rebinds,
    spent,      \* Apollo: credits taken, per month of the attempt
    late        \* history: calls made after the reservation was lost

lookupVars == <<directory, change, cache, attempts, req, view, month, rebinds,
                spent, late>>

NewAttempt(org) ==
    [status |-> "running", org |-> org, month |-> month, units |-> 0]
NoRequest == [pc |-> "idle", att |-> 0, org |-> NoOrg, step |-> 0, ok |-> TRUE]

LookupInit ==
    /\ directory = [org |-> CHOOSE o \in Orgs : TRUE, suppressed |-> FALSE]
    /\ change = Nobody
    /\ cache = NoRow
    /\ attempts = <<>>
    /\ req = [q \in Requests |-> NoRequest]
    /\ view = Nobody
    /\ month = 1 /\ rebinds = 0
    /\ spent = [m \in 1..Months |-> 0]
    /\ late = [q \in Requests |-> 0]

-----------------------------------------------------------------------------
(* Row locks.                                                              *)

Running(a) == attempts[a].status = "running"

\* An attempt is locked by a _finish that took it and by the trigger.
AttemptLocked(a) ==
    \/ \E q \in Requests : req[q].pc = "finishing" /\ req[q].att = a
    \/ change # Nobody /\ change.pc = "attempts" /\ Running(a)

EndAttempts(S) ==
    [a \in DOMAIN attempts |-> IF a \in S /\ Running(a)
        THEN [attempts[a] EXCEPT !.status = "ended"] ELSE attempts[a]]

-----------------------------------------------------------------------------
(* research.                                                               *)

Matching(row, dir) == ~dir.suppressed /\ row.org = dir.org

\* Mutant of UsedThisMonth: only the lookups that came to an end.
UsedThisMonthDone ==
    Cardinality({a \in DOMAIN attempts : /\ attempts[a].month = month
                                         /\ attempts[a].status = "done"})

UsedThisMonth ==
    Cardinality({a \in DOMAIN attempts : attempts[a].month = month})

\* _reserve, under the account's and the company's advisory locks and the
\* lock on the directory row.  A row of another organisation is purged, one
\* that is fresh or being worked on is returned.
Reserve(q) ==
    LET row == IF cache # NoRow /\ Matching(cache, directory) THEN cache ELSE NoRow
        a == Len(attempts) + 1
    IN  /\ req[q].pc = "idle" /\ change = Nobody
        /\ ~directory.suppressed /\ directory.org # NoOrg
        /\ row # NoRow => ~row.current
        /\ cache # NoRow /\ cache.status = "running" => ~AttemptLocked(cache.lease)
        /\ UsedThisMonth < Quota
        /\ attempts' = Append(IF cache # NoRow /\ cache.status = "running"
                                THEN EndAttempts({cache.lease}) ELSE attempts,
                              NewAttempt(directory.org))
        /\ cache' = [org |-> directory.org, status |-> "running", lease |-> a,
                     data |-> NoOrg, current |-> TRUE]
        /\ req' = [req EXCEPT ![q] = [pc |-> "record", att |-> a,
                                      org |-> directory.org, step |-> 1, ok |-> TRUE]]
        /\ late' = [late EXCEPT ![q] = 0]
        /\ UNCHANGED <<directory, change, view, month, rebinds, spent>>

\* The row still carries the reservation, and the directory its organisation.
ValidLease(q) ==
    /\ cache # NoRow /\ cache.status = "running" /\ cache.lease = req[q].att
    /\ cache.org = req[q].org
    /\ directory.org = req[q].org /\ ~directory.suppressed

\* Steps: the organisation, the search (free), the people.
Steps == 2 + Matches
Credits(step) == IF step = 2 THEN 0 ELSE 1

\* Mutant of MayRecord: the attempt's own row decides.
MayRecordAttempt(q) == Running(req[q].att)

MayRecord(q) == Running(req[q].att) /\ ValidLease(q)

RecordRequest(q) ==
    LET a == req[q].att
    IN  /\ req[q].pc = "record" /\ ~AttemptLocked(a)
        /\ IF MayRecord(q)
             THEN /\ attempts' = [attempts EXCEPT ![a].units =
                                      attempts[a].units + Credits(req[q].step)]
                  /\ req' = [req EXCEPT ![q].pc = "call"]
             ELSE /\ req' = [req EXCEPT ![q] = NoRequest]
                  /\ UNCHANGED attempts
        /\ UNCHANGED <<directory, change, cache, view, month, rebinds, spent, late>>

\* Apollo answers, perhaps with an error or for another organisation; fewer
\* people than Matches end the lookup early.
CallApollo(q) ==
    /\ req[q].pc = "call"
    /\ spent' = [spent EXCEPT ![attempts[req[q].att].month] =
                     @ + Credits(req[q].step)]
    /\ late' = [late EXCEPT ![q] = IF Running(req[q].att) /\ ValidLease(q)
                                     THEN late[q] ELSE late[q] + 1]
    /\ \/ /\ req[q].step < Steps
          /\ req' = [req EXCEPT ![q].pc = "record",
                                    ![q].step = req[q].step + 1]
       \/ /\ req[q].step >= 2
          /\ req' = [req EXCEPT ![q].pc = "finish"]
       \/ req' = [req EXCEPT ![q].pc = "finish", ![q].ok = FALSE]
    /\ UNCHANGED <<directory, change, cache, attempts, view, month, rebinds>>

\* _finish: the attempt first, as the trigger does.
FinishAttempt(q) ==
    /\ req[q].pc = "finish" /\ ~AttemptLocked(req[q].att)
    /\ req' = [req EXCEPT ![q] = IF Running(req[q].att)
                                   THEN [req[q] EXCEPT !.pc = "finishing"]
                                   ELSE NoRequest]
    /\ UNCHANGED <<directory, change, cache, attempts, view, month, rebinds,
                   spent, late>>

\* Then the row; a lost reservation rolls both back.
FinishCache(q) ==
    /\ req[q].pc = "finishing"
    /\ IF ValidLease(q)
         THEN /\ attempts' = [attempts EXCEPT ![req[q].att].status = "done"]
              /\ cache' = IF req[q].ok
                   THEN [cache EXCEPT !.status = "ready", !.lease = 0,
                                      !.data = req[q].org, !.current = TRUE]
                   ELSE [cache EXCEPT !.status = "failed", !.lease = 0,
                                      !.current = FALSE]
         ELSE UNCHANGED <<attempts, cache>>
    /\ req' = [req EXCEPT ![q] = NoRequest]
    /\ UNCHANGED <<directory, change, view, month, rebinds, spent, late>>

\* The process ends; an open transaction rolls back.
RequestDies(q) ==
    /\ req[q].pc # "idle"
    /\ req' = [req EXCEPT ![q] = NoRequest]
    /\ UNCHANGED <<directory, change, cache, attempts, view, month, rebinds,
                   spent, late>>

-----------------------------------------------------------------------------
(* view: three statements without a lock on the directory row.             *)

ViewDirectory ==
    /\ view = Nobody
    /\ view' = IF directory.suppressed THEN [pc |-> "purge", lease |-> 0]
                                       ELSE [pc |-> "row", dir |-> directory]
    /\ UNCHANGED <<directory, change, cache, attempts, req, month, rebinds,
                   spent, late>>

ViewRow ==
    /\ view # Nobody /\ view.pc = "row"
    /\ view' = IF cache = NoRow \/ Matching(cache, view.dir) THEN Nobody
               ELSE [pc |-> "purge",
                     lease |-> IF cache.status = "running" THEN cache.lease ELSE 0]
    /\ UNCHANGED <<directory, change, cache, attempts, req, month, rebinds,
                   spent, late>>

\* _purge_cache, _purge_company_cache: whatever row is there by then.
ViewPurge ==
    /\ view # Nobody /\ view.pc = "purge"
    /\ view.lease # 0 => ~AttemptLocked(view.lease)
    /\ attempts' = EndAttempts({view.lease})
    /\ cache' = NoRow
    /\ view' = Nobody
    /\ UNCHANGED <<directory, change, req, month, rebinds, spent, late>>

-----------------------------------------------------------------------------
(* The directory and its trigger; time.                                    *)

UpdateDirectory(to) ==
    /\ change = Nobody /\ to # directory /\ rebinds < MaxRebinds
    /\ rebinds' = rebinds + 1
    /\ change' = [pc |-> "directory", to |-> to]
    /\ UNCHANGED <<directory, cache, attempts, req, view, month, spent, late>>

\* Mutant of Purges: a company bound anew keeps its result.
PurgesSuppressed(to) == to.suppressed

\* The trigger's condition.
Purges(to) == to.suppressed \/ to.org # directory.org

TriggerAttempts ==
    /\ change # Nobody /\ change.pc = "directory" /\ Purges(change.to)
    /\ \A a \in DOMAIN attempts : Running(a) => ~AttemptLocked(a)
    /\ change' = [change EXCEPT !.pc = "attempts"]
    /\ UNCHANGED <<directory, cache, attempts, req, view, month, rebinds,
                   spent, late>>

\* The trigger's deletion, and the commit.
CommitDirectory ==
    /\ change # Nobody
    /\ Purges(change.to) => change.pc = "attempts"
    /\ directory' = change.to
    /\ change' = Nobody
    /\ IF Purges(change.to)
         THEN attempts' = EndAttempts(DOMAIN attempts) /\ cache' = NoRow
         ELSE UNCHANGED <<attempts, cache>>
    /\ UNCHANGED <<req, view, month, rebinds, spent, late>>

\* RUN_LEASE or REFRESH_AFTER is over.
RowAges ==
    /\ cache # NoRow /\ cache.current
    /\ cache' = [cache EXCEPT !.current = FALSE]
    /\ UNCHANGED <<directory, change, attempts, req, view, month, rebinds,
                   spent, late>>

MonthEnds ==
    /\ month < Months
    /\ month' = month + 1
    /\ UNCHANGED <<directory, change, cache, attempts, req, view, rebinds,
                   spent, late>>

LookupNext ==
    \/ \E q \in Requests :
          \/ Reserve(q) \/ RecordRequest(q) \/ CallApollo(q)
          \/ FinishAttempt(q) \/ FinishCache(q) \/ RequestDies(q)
    \/ ViewDirectory \/ ViewRow \/ ViewPurge
    \/ \E to \in [org : Orgs \union {NoOrg}, suppressed : BOOLEAN] :
          UpdateDirectory(to)
    \/ TriggerAttempts \/ CommitDirectory \/ RowAges \/ MonthEnds

LookupSpec == LookupInit /\ [][LookupNext]_lookupVars

-----------------------------------------------------------------------------
\* A stored result is about the organisation the directory names today, and
\* nothing is stored of a suppressed company: whichever of a slow request, a
\* purge and the trigger comes last.
ResultsBelong ==
    cache # NoRow /\ cache.status = "ready" =>
        /\ cache.data = directory.org /\ cache.org = directory.org
        /\ ~directory.suppressed

\* A request whose reservation is lost -- the company was suppressed or bound
\* anew, its lease taken over, its row purged -- makes at most the call it had
\* recorded already, and no other.
OneLateCall == \A q \in Requests : late[q] <= 1

\* What Apollo takes for the attempts of a month stays within the quota,
\* lookups that failed, died or were superseded included.
SpentWithinQuota == \A m \in 1..Months : spent[m] <= Quota * (1 + Matches)
=============================================================================
