----------------------------- MODULE LeaseProofs -----------------------------
(***************************************************************************)
(* What the components that work under a lease promise, for every number   *)
(* of requests, workers, organisations and months.                         *)
(*                                                                         *)
(* Contact lookup.  A reservation is the row of the cache that names the   *)
(* attempt; a later reservation names a later one, so a reservation that   *)
(* was lost never comes back.  The credits of a month are counted by the   *)
(* units its attempts have recorded: a unit is a pair of an attempt and a  *)
(* number, so the units are a set and a sum is its cardinality.            *)
(*                                                                         *)
(* The sentence queue.  A row is written over only by what replaces its    *)
(* text with a generated one, or after it left the screen.                 *)
(*                                                                         *)
(* Ingestion.  A day is settled when nothing that could still appear on it *)
(* is missing; what is due was planned on a settled day, and the cursor of *)
(* a cycle says behind which place of the source's list the rest stands.   *)
(* Places only grow, and a list with the same total is the same list.      *)
(***************************************************************************)
EXTENDS FoldLemmas, IngestionCycles, ContactLookup, ForYouQueue, SequenceTheorems, FiniteSetTheorems, TLAPS

-----------------------------------------------------------------------------
(* Contact lookup: the inductive invariants.                               *)

Org == Orgs \union {NoOrg}
Directory == [org : Org, suppressed : BOOLEAN]
Attempt == [status : {"running", "ended", "done"}, org : Org, month : 1..Months,
            units : Nat]
Row == [org : Org, status : {"running", "ready", "failed"}, lease : Nat,
        data : Org, current : BOOLEAN]
Request == [pc : {"idle", "record", "call", "finish", "finishing"}, att : Nat,
            org : Org, step : Nat, ok : BOOLEAN]

Busy(q) == req[q].pc # "idle"

LookupOK ==
    /\ directory \in Directory
    /\ change \in {Nobody} \union [pc : {"directory", "attempts"}, to : Directory]
    /\ cache \in {NoRow} \union Row
    /\ attempts \in Seq(Attempt)
    /\ req \in [Requests -> Request]
    /\ month \in 1..Months
    /\ spent \in [1..Months -> Nat]
    /\ late \in [Requests -> Nat]
    /\ \A q \in Requests : Busy(q) => /\ req[q].att \in 1..Len(attempts)
                                      /\ req[q].step \in 1..Steps

\* Whatever its status, a row is about the organisation of the directory, and
\* so is the result it holds.
RowBelongs ==
    cache # NoRow =>
        /\ cache.org = directory.org /\ ~directory.suppressed
        /\ cache.status = "ready" => cache.data = cache.org

Held(q) == Running(req[q].att) /\ ValidLease(q)

\* A request that made a call without its reservation lost it for good, and
\* one that is about to call has made none.
LateOnlyLost ==
    \A q \in Requests :
        /\ late[q] <= 1
        /\ Busy(q) /\ late[q] # 0 => ~Held(q)
        /\ req[q].pc = "call" => late[q] = 0

\* An attempt is worked on by one request.
OneWorker ==
    \A q, r \in Requests : Busy(q) /\ Busy(r) /\ req[q].att = req[r].att => q = r

AttemptsOf(m) == {a \in DOMAIN attempts : attempts[a].month = m}

\* The units recorded before a step.
UnitsBefore(step) == IF step = 1 THEN 0 ELSE IF step = 2 THEN 1 ELSE step - 2

UnitsBounded ==
    /\ \A a \in DOMAIN attempts : attempts[a].units <= 1 + Matches
    /\ \A q \in Requests :
          /\ req[q].pc = "record" => attempts[req[q].att].units <= UnitsBefore(req[q].step)
          /\ req[q].pc = "call" => attempts[req[q].att].units <= UnitsBefore(req[q].step + 1)

Units(m) == {u \in (1..Len(attempts)) \X (1..(1 + Matches)) :
                attempts[u[1]].month = m /\ u[2] <= attempts[u[1]].units}

\* The requests about to spend a credit of the month.
Spenders(m) == {q \in Requests : /\ req[q].pc = "call" /\ req[q].step # 2
                                 /\ attempts[req[q].att].month = m}

\* What was spent, or is about to be, was recorded before.
Recorded == \A m \in 1..Months :
    spent[m] + Cardinality(Spenders(m)) <= Cardinality(Units(m))

QuotaKept == \A m \in 1..Months : Cardinality(AttemptsOf(m)) <= Quota

LookupInv ==
    /\ LookupOK /\ RowBelongs /\ LateOnlyLost /\ OneWorker /\ UnitsBounded
    /\ Recorded /\ QuotaKept

-----------------------------------------------------------------------------
(* Contact lookup: a step that records, calls and reserves nothing.        *)

\* No attempt is added, gains a unit, changes its month or runs again.
SameUnits ==
    /\ attempts' \in Seq(Attempt)
    /\ Len(attempts') = Len(attempts)
    /\ \A a \in 1..Len(attempts) :
          /\ attempts'[a].month = attempts[a].month
          /\ attempts'[a].units = attempts[a].units
          /\ attempts'[a].status = "running" => attempts[a].status = "running"

\* A request stays where it is, goes to its end or is over.
ReqQuiet ==
    /\ req' \in [Requests -> Request]
    /\ \A q \in Requests : req'[q].pc # "idle" =>
          /\ req[q].pc # "idle"
          /\ req'[q].att = req[q].att /\ req'[q].step = req[q].step
          /\ req'[q].pc \in {"record", "call"} => req'[q].pc = req[q].pc

\* A reservation that is lost stays lost.
NoneRegained == \A q \in Requests : req'[q].pc # "idle" /\ Held(q)' => Held(q)

Quiet == SameUnits /\ ReqQuiet /\ NoneRegained /\ spent' = spent /\ late' = late

\* Ending attempts changes nothing but their status.
LEMMA EndAttemptsKeeps ==
    ASSUME attempts \in Seq(Attempt), NEW S
    PROVE  /\ EndAttempts(S) \in Seq(Attempt)
           /\ Len(EndAttempts(S)) = Len(attempts)
           /\ \A a \in 1..Len(attempts) :
                 /\ EndAttempts(S)[a].month = attempts[a].month
                 /\ EndAttempts(S)[a].units = attempts[a].units
                 /\ EndAttempts(S)[a].org = attempts[a].org
                 /\ EndAttempts(S)[a].status = "running" =>
                       attempts[a].status = "running"
<1>1. /\ Len(attempts) \in Nat /\ DOMAIN attempts = 1..Len(attempts)
      /\ \A a \in 1..Len(attempts) : attempts[a] \in Attempt
  BY LenProperties, ElementOfSeq
<1> DEFINE E == EndAttempts(S)
<1>2. E = [a \in 1..Len(attempts) |-> IF a \in S /\ Running(a)
              THEN [attempts[a] EXCEPT !.status = "ended"] ELSE attempts[a]]
  BY <1>1 DEF EndAttempts
<1>3. \A a \in 1..Len(attempts) :
         /\ E[a] \in Attempt
         /\ E[a].month = attempts[a].month /\ E[a].units = attempts[a].units
         /\ E[a].org = attempts[a].org
         /\ E[a].status = "running" => attempts[a].status = "running"
  <2> HIDE DEF E
  <2> TAKE a \in 1..Len(attempts)
  <2>1. attempts[a] \in Attempt
    BY <1>1
  <2>2. CASE a \in S /\ Running(a)
    <3> DEFINE new == [attempts[a] EXCEPT !.status = "ended"]
    <3>1. E[a] = new
      BY <1>2, <2>2
    <3>2. /\ new \in Attempt /\ new.month = attempts[a].month
          /\ new.units = attempts[a].units /\ new.org = attempts[a].org
          /\ new.status = "ended"
      BY <2>1 DEF Attempt
    <3> QED
      BY <3>1, <3>2
  <2>3. CASE ~(a \in S /\ Running(a))
    BY <1>2, <2>1, <2>3
  <2> QED
    BY <2>2, <2>3
<1>4. E \in [1..Len(attempts) -> Attempt]
  BY <1>2, <1>3
<1>5. E \in Seq(Attempt) /\ DOMAIN E = 1..Len(attempts)
  BY <1>1, <1>4, SeqDef
<1>6. Len(E) = Len(attempts)
  BY <1>1, <1>5, LenProperties
<1> QED
  BY <1>3, <1>5, <1>6

\* The sets the counting uses are finite.
LEMMA CountsFinite ==
    ASSUME LookupOK, NEW m
    PROVE  /\ IsFiniteSet(AttemptsOf(m)) /\ IsFiniteSet(Units(m))
           /\ IsFiniteSet(Spenders(m))
           /\ Cardinality(AttemptsOf(m)) \in Nat /\ Cardinality(Units(m)) \in Nat
           /\ Cardinality(Spenders(m)) \in Nat
<1>1. Len(attempts) \in Nat /\ DOMAIN attempts = 1..Len(attempts)
  BY LenProperties DEF LookupOK
<1>2. IsFiniteSet(1..Len(attempts)) /\ IsFiniteSet(1..(1 + Matches))
  BY <1>1, FS_Interval, LookupAssumption
<1>3. IsFiniteSet((1..Len(attempts)) \X (1..(1 + Matches)))
  BY <1>2, FS_Product
<1>4. /\ AttemptsOf(m) \in SUBSET (1..Len(attempts))
      /\ Units(m) \in SUBSET ((1..Len(attempts)) \X (1..(1 + Matches)))
      /\ Spenders(m) \in SUBSET Requests
  BY <1>1 DEF AttemptsOf, Units, Spenders
<1>5. /\ IsFiniteSet(AttemptsOf(m)) /\ IsFiniteSet(Units(m))
      /\ IsFiniteSet(Spenders(m))
  <2>1. IsFiniteSet(AttemptsOf(m))
    BY <1>2, <1>4, FS_Subset
  <2>2. IsFiniteSet(Units(m))
    <3> DEFINE all == (1..Len(attempts)) \X (1..(1 + Matches))
    <3>1. IsFiniteSet(all) /\ Units(m) \in SUBSET all
      BY <1>3, <1>4
    <3> HIDE DEF all
    <3> QED
      BY <3>1, FS_Subset
  <2>3. IsFiniteSet(Spenders(m))
    <3>1. IsFiniteSet(Requests) /\ Spenders(m) \in SUBSET Requests
      BY <1>4, LookupAssumption
    <3> QED
      BY ONLY <3>1, FS_Subset
  <2> QED
    BY <2>1, <2>2, <2>3
<1> QED
  BY <1>5, FS_CardinalityType

\* A quiet step keeps every count and every lost reservation.
LEMMA QuietStep ==
    ASSUME LookupInv, Quiet
    PROVE  /\ LateOnlyLost' /\ OneWorker' /\ UnitsBounded' /\ Recorded' /\ QuotaKept'
           /\ \A q \in Requests : Busy(q)' => /\ req'[q].att \in 1..Len(attempts')
                                              /\ req'[q].step \in 1..Steps
<1> USE DEF LookupInv, Quiet
<1>1. /\ Len(attempts) \in Nat /\ DOMAIN attempts = 1..Len(attempts)
      /\ DOMAIN attempts' = 1..Len(attempts)
  BY LenProperties DEF LookupOK, SameUnits
<1>2. \A q \in Requests : req'[q].pc # "idle" =>
         /\ req'[q].att = req[q].att /\ req[q].att \in 1..Len(attempts)
         /\ req'[q].step = req[q].step /\ req[q].step \in 1..Steps
  BY DEF ReqQuiet, LookupOK, Busy
<1>3. LateOnlyLost'
  BY <1>2 DEF LateOnlyLost, Busy, ReqQuiet, NoneRegained
<1>4. OneWorker'
  BY <1>2 DEF OneWorker, Busy, ReqQuiet
<1>5. UnitsBounded'
  <2>1. \A a \in DOMAIN attempts' : attempts'[a].units <= 1 + Matches
    BY <1>1 DEF SameUnits, UnitsBounded
  <2>2. \A q \in Requests : req'[q].pc \in {"record", "call"} =>
           attempts'[req'[q].att].units = attempts[req[q].att].units
    BY <1>2 DEF SameUnits
  <2> QED
    BY <2>1, <2>2, <1>2 DEF UnitsBounded, ReqQuiet
<1>6. Recorded' /\ QuotaKept'
  <2> SUFFICES ASSUME NEW m \in 1..Months
               PROVE  /\ spent'[m] + Cardinality(Spenders(m)') <= Cardinality(Units(m)')
                      /\ Cardinality(AttemptsOf(m)') <= Quota
    BY DEF Recorded, QuotaKept
  <2>1. Units(m)' = Units(m) /\ AttemptsOf(m)' = AttemptsOf(m)
    BY <1>1 DEF Units, AttemptsOf, SameUnits
  <2>2. Spenders(m)' \in SUBSET Spenders(m)
    <3> SUFFICES ASSUME NEW q \in Requests, req'[q].pc = "call", req'[q].step # 2,
                        attempts'[req'[q].att].month = m
                 PROVE  req[q].pc = "call" /\ req[q].step # 2
                        /\ attempts[req[q].att].month = m
      BY DEF Spenders
    <3> QED
      BY <1>2 DEF ReqQuiet, SameUnits
  <2>3. IsFiniteSet(Spenders(m)) /\ Cardinality(Spenders(m)) \in Nat
        /\ Cardinality(Units(m)) \in Nat
    BY CountsFinite
  <2>4. Cardinality(Spenders(m)') <= Cardinality(Spenders(m))
        /\ Cardinality(Spenders(m)') \in Nat
    BY <2>2, <2>3, FS_Subset, FS_CardinalityType
  <2>5. spent[m] \in Nat /\ spent[m] + Cardinality(Spenders(m)) <= Cardinality(Units(m))
        /\ Cardinality(AttemptsOf(m)) <= Quota
    BY DEF LookupOK, Recorded, QuotaKept
  <2> QED
    BY <2>1, <2>3, <2>4, <2>5
<1> QED
  BY <1>2, <1>3, <1>4, <1>5, <1>6 DEF Busy, SameUnits

\* A reservation depends on its row, its attempt and the directory alone.
LEMMA HeldFrame ==
    ASSUME LookupInv, SameUnits, ReqQuiet,
           \A q \in Requests : req'[q].pc # "idle" => req'[q].org = req[q].org,
           \/ cache' = NoRow
           \/ /\ cache' = cache
              /\ directory' = directory
           \/ /\ cache # NoRow => /\ cache'.status = "running" => cache.status = "running"
                                  /\ cache'.lease = cache.lease
                                  /\ cache'.org = cache.org
              /\ cache = NoRow => cache' = NoRow
    PROVE  NoneRegained
<1> SUFFICES ASSUME NEW q \in Requests, req'[q].pc # "idle", Held(q)'
             PROVE  Held(q)
  BY DEF NoneRegained
<1>1. /\ req[q].pc # "idle" /\ req'[q].att = req[q].att /\ req'[q].org = req[q].org
      /\ req[q].att \in 1..Len(attempts)
  BY DEF ReqQuiet, LookupInv, LookupOK, Busy
<1>2. Running(req[q].att)
  BY <1>1 DEF Held, Running, SameUnits
<1>3. cache' # NoRow /\ cache'.status = "running" /\ cache'.lease = req[q].att
      /\ cache'.org = req[q].org
  BY <1>1 DEF Held, ValidLease
<1>4. cache # NoRow /\ cache.status = "running" /\ cache.lease = req[q].att
      /\ cache.org = req[q].org
  BY <1>3
<1>5. directory.org = req[q].org /\ ~directory.suppressed
  BY <1>4 DEF LookupInv, RowBelongs
<1> QED
  BY <1>2, <1>4, <1>5 DEF Held, ValidLease

\* The attempts of a step that leaves them alone, or that only ends some.
LEMMA SameUnitsWhen ==
    ASSUME LookupOK, attempts' = attempts \/ \E S : attempts' = EndAttempts(S)
    PROVE  SameUnits
<1>1. attempts \in Seq(Attempt)
  BY DEF LookupOK
<1>2. CASE attempts' = attempts
  BY <1>1, <1>2 DEF SameUnits
<1>3. CASE \E S : attempts' = EndAttempts(S)
  <2> PICK S : attempts' = EndAttempts(S)
    BY <1>3
  <2> QED
    BY <1>1, EndAttemptsKeeps DEF SameUnits
<1> QED
  BY <1>2, <1>3

\* A request ends.
LEMMA ReqQuietWhen ==
    ASSUME LookupOK,
           req' = req \/ \E q \in Requests : req' = [req EXCEPT ![q] = NoRequest]
    PROVE  /\ ReqQuiet
           /\ \A q \in Requests : req'[q].pc # "idle" => req'[q].org = req[q].org
<1>1. req \in [Requests -> Request] /\ NoRequest \in Request
  BY DEF LookupOK, Request, NoRequest, Org
<1>2. NoRequest.pc = "idle"
  BY DEF NoRequest
<1>3. \A q \in Requests : req'[q] = req[q] \/ req'[q] = NoRequest
  BY <1>1
<1>4. req' \in [Requests -> Request]
  BY <1>1
<1> QED
  BY <1>2, <1>3, <1>4 DEF ReqQuiet

\* Views, the trigger, ageing, the end of a month and of a process.
LEMMA LookupQuietActions ==
    ASSUME LookupInv,
           \/ \E q \in Requests : RequestDies(q)
           \/ ViewDirectory \/ ViewRow \/ ViewPurge
           \/ \E to \in [org : Orgs \union {NoOrg}, suppressed : BOOLEAN] :
                 UpdateDirectory(to)
           \/ TriggerAttempts \/ CommitDirectory \/ RowAges \/ MonthEnds
    PROVE  LookupInv'
<1>0. LookupOK /\ RowBelongs
  BY DEF LookupInv
<1>1. \/ cache' = NoRow
      \/ cache' = cache /\ directory' = directory
      \/ cache' = cache /\ cache # NoRow /\ ~Purges(change.to) /\ directory' = change.to
      \/ cache' = cache /\ cache = NoRow
      \/ /\ cache # NoRow /\ cache' = [cache EXCEPT !.current = FALSE]
         /\ directory' = directory
  BY DEF RequestDies, ViewDirectory, ViewRow, ViewPurge, UpdateDirectory,
         TriggerAttempts, CommitDirectory, RowAges, MonthEnds
<1>2. SameUnits
  <2>1. attempts' = attempts \/ \E S : attempts' = EndAttempts(S)
    BY DEF RequestDies, ViewDirectory, ViewRow, ViewPurge, UpdateDirectory,
           TriggerAttempts, CommitDirectory, RowAges, MonthEnds
  <2> QED
    BY <1>0, <2>1, SameUnitsWhen
<1>3. /\ ReqQuiet
      /\ \A r \in Requests : req'[r].pc # "idle" => req'[r].org = req[r].org
  <2>1. req' = req \/ \E r \in Requests : req' = [req EXCEPT ![r] = NoRequest]
    BY DEF RequestDies, ViewDirectory, ViewRow, ViewPurge, UpdateDirectory,
           TriggerAttempts, CommitDirectory, RowAges, MonthEnds
  <2> QED
    BY <1>0, <2>1, ReqQuietWhen
<1>4. spent' = spent /\ late' = late /\ month' \in 1..Months
  BY <1>0, LookupAssumption
  DEF RequestDies, ViewDirectory, ViewRow, ViewPurge, UpdateDirectory,
      TriggerAttempts, CommitDirectory, RowAges, MonthEnds, LookupOK
<1>5. cache # NoRow => cache \in Row
  BY <1>0 DEF LookupOK
<1>6. /\ cache' \in {NoRow} \union Row
      /\ cache' = NoRow \/ (cache # NoRow /\ cache'.org = cache.org
                            /\ cache'.status = cache.status
                            /\ cache'.data = cache.data
                            /\ cache'.lease = cache.lease)
  BY <1>1, <1>5 DEF Row
<1>7. RowBelongs'
  BY <1>0, <1>1, <1>6 DEF RowBelongs, Purges
<1>8. NoneRegained
  BY <1>2, <1>3, <1>6, HeldFrame
<1>9. directory' \in Directory
      /\ change' \in {Nobody} \union [pc : {"directory", "attempts"}, to : Directory]
  <2>1. CASE UNCHANGED <<directory, change>>
    BY <1>0, <2>1 DEF LookupOK
  <2>2. CASE \E to \in [org : Orgs \union {NoOrg}, suppressed : BOOLEAN] :
                UpdateDirectory(to)
    BY <1>0, <2>2 DEF LookupOK, UpdateDirectory, Directory, Org
  <2>3. CASE TriggerAttempts
    BY <1>0, <2>3 DEF LookupOK, TriggerAttempts
  <2>4. CASE CommitDirectory
    BY <1>0, <2>4 DEF LookupOK, CommitDirectory
  <2> QED
    BY <2>1, <2>2, <2>3, <2>4
    DEF RequestDies, ViewDirectory, ViewRow, ViewPurge, RowAges, MonthEnds
<1>10. Quiet
  BY <1>2, <1>3, <1>4, <1>8 DEF Quiet
<1>11. /\ LateOnlyLost' /\ OneWorker' /\ UnitsBounded' /\ Recorded' /\ QuotaKept'
       /\ \A r \in Requests : Busy(r)' => /\ req'[r].att \in 1..Len(attempts')
                                          /\ req'[r].step \in 1..Steps
  BY <1>10, QuietStep
<1>12. LookupOK'
  BY <1>0, <1>2, <1>3, <1>4, <1>6, <1>9, <1>11 DEF LookupOK, SameUnits, ReqQuiet
<1> QED
  BY <1>7, <1>11, <1>12 DEF LookupInv

\* What a step that changes neither the directory nor its transaction leaves
\* to prove.
LEMMA QuietInv ==
    ASSUME LookupInv, Quiet, RowBelongs', cache' \in {NoRow} \union Row,
           UNCHANGED <<directory, change, month>>
    PROVE  LookupInv'
<1>1. /\ LateOnlyLost' /\ OneWorker' /\ UnitsBounded' /\ Recorded' /\ QuotaKept'
      /\ \A r \in Requests : Busy(r)' => /\ req'[r].att \in 1..Len(attempts')
                                         /\ req'[r].step \in 1..Steps
  BY QuietStep
<1>2. LookupOK
  BY DEF LookupInv
<1>3. LookupOK'
  BY <1>1, <1>2 DEF LookupOK, Quiet, SameUnits, ReqQuiet
<1> QED
  BY <1>1, <1>3 DEF LookupInv

\* _finish takes its attempt, or finds it ended.
LEMMA LookupFinishAttempt ==
    ASSUME LookupInv, NEW q \in Requests, FinishAttempt(q)
    PROVE  LookupInv'
<1> DEFINE new == IF Running(req[q].att) THEN [req[q] EXCEPT !.pc = "finishing"]
                                         ELSE NoRequest
<1>1. LookupOK /\ RowBelongs
  BY DEF LookupInv
<1>2. req \in [Requests -> Request] /\ req[q] \in Request /\ req[q].pc = "finish"
  BY <1>1 DEF LookupOK, FinishAttempt
<1>3. /\ new \in Request
      /\ new.pc # "idle" => /\ new.pc = "finishing" /\ new.att = req[q].att
                            /\ new.step = req[q].step /\ new.org = req[q].org
  BY <1>2 DEF Request, NoRequest, Org
<1>4. req' = [req EXCEPT ![q] = new]
  BY DEF FinishAttempt
<1> HIDE DEF new
<1>5. req' \in [Requests -> Request] /\ req'[q] = new
      /\ \A r \in Requests \ {q} : req'[r] = req[r]
  BY <1>2, <1>3, <1>4
<1>6. /\ ReqQuiet
      /\ \A r \in Requests : req'[r].pc # "idle" => req'[r].org = req[r].org
  BY <1>2, <1>3, <1>5 DEF ReqQuiet
<1>7. SameUnits
  BY <1>1, SameUnitsWhen DEF FinishAttempt
<1>8. NoneRegained
  BY <1>6, <1>7, HeldFrame DEF FinishAttempt
<1>9. Quiet
  BY <1>6, <1>7, <1>8 DEF Quiet, FinishAttempt
<1> QED
  BY <1>1, <1>9, QuietInv DEF FinishAttempt, RowBelongs, LookupOK

\* _finish stores what it found, or nothing when its reservation is lost.
LEMMA LookupFinishCache ==
    ASSUME LookupInv, NEW q \in Requests, FinishCache(q)
    PROVE  LookupInv'
<1> DEFINE a == req[q].att
           new == [attempts[a] EXCEPT !.status = "done"]
           row == IF req[q].ok
                    THEN [cache EXCEPT !.status = "ready", !.lease = 0,
                                       !.data = req[q].org, !.current = TRUE]
                    ELSE [cache EXCEPT !.status = "failed", !.lease = 0,
                                       !.current = FALSE]
<1>1. LookupOK /\ RowBelongs
  BY DEF LookupInv
<1>2. /\ attempts \in Seq(Attempt) /\ req[q] \in Request /\ a \in 1..Len(attempts)
  BY <1>1 DEF LookupOK, FinishCache, Busy
<1>3. attempts[a] \in Attempt
  BY <1>2, ElementOfSeq
<1>4. new \in Attempt /\ new.month = attempts[a].month /\ new.units = attempts[a].units
      /\ new.status = "done"
  BY <1>3 DEF Attempt
<1>5. ReqQuiet /\ \A r \in Requests : req'[r].pc # "idle" => req'[r].org = req[r].org
  BY <1>1, ReqQuietWhen DEF FinishCache
<1>6. CASE ~ValidLease(q)
  <2>1. attempts' = attempts /\ cache' = cache
    BY <1>6 DEF FinishCache
  <2>2. SameUnits
    BY <1>1, <2>1, SameUnitsWhen
  <2>3. NoneRegained
    BY <1>5, <2>1, <2>2, HeldFrame DEF FinishCache
  <2>4. Quiet
    BY <1>5, <2>2, <2>3 DEF Quiet, FinishCache
  <2> QED
    BY <1>1, <2>1, <2>4, QuietInv DEF FinishCache, RowBelongs, LookupOK
<1>7. CASE ValidLease(q)
  <2>1. attempts' = [attempts EXCEPT ![a] = new] /\ cache' = row
    BY <1>7 DEF FinishCache
  <2>2. cache # NoRow /\ cache \in Row
    BY <1>1, <1>7 DEF LookupOK, ValidLease
  <2>3. /\ row \in Row /\ row.status # "running" /\ row.org = cache.org
        /\ row.status = "ready" => row.data = cache.org
    BY <1>2, <1>7, <2>2 DEF Row, Request, ValidLease
  <2> HIDE DEF new, row
  <2>4. SameUnits
    <3>1. /\ attempts' \in Seq(Attempt) /\ Len(attempts') = Len(attempts)
          /\ \A i \in 1..Len(attempts) :
                attempts'[i] = IF i = a THEN new ELSE attempts[i]
      BY <1>2, <1>4, <2>1, ExceptSeq
    <3> QED
      BY <1>4, <3>1 DEF SameUnits
  <2>5. NoneRegained
    <3>1. \A r \in Requests : ~Held(r)'
      BY <2>1, <2>3 DEF Held, ValidLease
    <3> QED
      BY <3>1 DEF NoneRegained
  <2>6. Quiet
    BY <1>5, <2>4, <2>5 DEF Quiet, FinishCache
  <2>7. RowBelongs'
    BY <1>1, <2>1, <2>2, <2>3 DEF RowBelongs, FinishCache
  <2> QED
    BY <2>1, <2>3, <2>6, <2>7, QuietInv DEF FinishCache
<1> QED
  BY <1>6, <1>7

\* The units a step may have recorded when it is taken.
LEMMA BeforeNext ==
    ASSUME NEW step \in 1..Steps
    PROVE  /\ Credits(step) \in Nat /\ UnitsBefore(step) \in Nat
           /\ UnitsBefore(step + 1) = UnitsBefore(step) + Credits(step)
           /\ UnitsBefore(step + 1) <= 1 + Matches
  BY LookupAssumption DEF Steps, Credits, UnitsBefore

\* _record_request: the unit is recorded under the reservation, before the
\* call; without it the request is over.
LEMMA LookupRecord ==
    ASSUME LookupInv, NEW q \in Requests, RecordRequest(q)
    PROVE  LookupInv'
<1> DEFINE a == req[q].att
           step == req[q].step
           new == [attempts[a] EXCEPT !.units = attempts[a].units + Credits(step)]
           went == [req[q] EXCEPT !.pc = "call"]
<1>1. /\ LookupOK /\ RowBelongs /\ LateOnlyLost /\ OneWorker /\ UnitsBounded
      /\ Recorded /\ QuotaKept
  BY DEF LookupInv
<1>2. /\ attempts \in Seq(Attempt) /\ req \in [Requests -> Request]
      /\ req[q] \in Request /\ a \in 1..Len(attempts) /\ step \in 1..Steps
      /\ req[q].pc = "record" /\ Len(attempts) \in Nat
      /\ DOMAIN attempts = 1..Len(attempts)
  BY <1>1, LenProperties DEF LookupOK, RecordRequest, Busy
<1>3. CASE ~MayRecord(q)
  <2>1. attempts' = attempts /\ req' = [req EXCEPT ![q] = NoRequest]
    BY <1>3 DEF RecordRequest
  <2>2. SameUnits
    BY <1>1, <2>1, SameUnitsWhen
  <2>3. ReqQuiet /\ \A r \in Requests : req'[r].pc # "idle" => req'[r].org = req[r].org
    BY <1>1, <2>1, ReqQuietWhen
  <2>4. NoneRegained
    BY <2>2, <2>3, HeldFrame DEF RecordRequest
  <2>5. Quiet
    BY <2>2, <2>3, <2>4 DEF Quiet, RecordRequest
  <2> QED
    BY <1>1, <2>5, QuietInv DEF RecordRequest, RowBelongs, LookupOK
<1>4. CASE MayRecord(q)
  <2>1. /\ attempts' = [attempts EXCEPT ![a] = new]
        /\ req' = [req EXCEPT ![q] = went]
        /\ UNCHANGED <<directory, change, cache, month, spent, late>>
    BY <1>4 DEF RecordRequest
  <2>2. attempts[a] \in Attempt
    BY <1>2, ElementOfSeq
  <2>3. /\ Credits(step) \in Nat /\ UnitsBefore(step) \in Nat
        /\ UnitsBefore(step + 1) = UnitsBefore(step) + Credits(step)
        /\ UnitsBefore(step + 1) <= 1 + Matches
    BY <1>2, BeforeNext
  <2>4. attempts[a].units \in Nat /\ attempts[a].units + Credits(step) \in Nat
        /\ attempts[a].units <= UnitsBefore(step)
    BY SMTT(60), <1>1, <1>2, <2>2, <2>3 DEF Attempt, UnitsBounded
  <2>5. /\ new \in Attempt /\ new.month = attempts[a].month
        /\ new.status = attempts[a].status
        /\ new.units = attempts[a].units + Credits(step)
    BY <2>2, <2>4 DEF Attempt
  <2>6. /\ went \in Request /\ went.pc = "call" /\ went.att = a /\ went.step = step
        /\ went.org = req[q].org
    BY <1>2 DEF Request
  <2> HIDE DEF new, went
  <2>7. /\ attempts' \in Seq(Attempt) /\ Len(attempts') = Len(attempts)
        /\ DOMAIN attempts' = 1..Len(attempts)
        /\ \A i \in 1..Len(attempts) :
              attempts'[i] = IF i = a THEN new ELSE attempts[i]
    BY <1>2, <2>1, <2>5, ExceptSeq, LenProperties
  <2>8. /\ req' \in [Requests -> Request] /\ req'[q] = went
        /\ \A r \in Requests \ {q} : req'[r] = req[r]
    BY <1>2, <2>1, <2>6
  <2>9. \A r \in Requests \ {q} : Busy(r) => req[r].att # a
    BY <1>1, <1>2 DEF OneWorker, Busy
  <2>10. LookupOK'
    BY <1>1, <1>2, <2>1, <2>6, <2>7, <2>8 DEF LookupOK, Busy
  <2>11. RowBelongs' /\ OneWorker'
    BY <1>1, <1>2, <2>1, <2>6, <2>8 DEF RowBelongs, OneWorker, Busy
  <2>12. \A r \in Requests : Busy(r) => (Held(r)' <=> Held(r))
    <3> SUFFICES ASSUME NEW r \in Requests, Busy(r)
                 PROVE  Held(r)' <=> Held(r)
      OBVIOUS
    <3>1. req'[r].att = req[r].att /\ req'[r].org = req[r].org
          /\ req[r].att \in 1..Len(attempts)
      BY <1>1, <2>6, <2>8 DEF LookupOK
    <3>2. attempts'[req[r].att].status = attempts[req[r].att].status
      BY <2>5, <2>7, <3>1
    <3> QED
      BY <2>1, <3>1, <3>2 DEF Held, ValidLease, Running
  <2>13. LateOnlyLost'
    <3>1. Held(q) /\ Busy(q)
      BY <1>2, <1>4 DEF MayRecord, Held, Busy
    <3>2. late[q] = 0
      BY <1>1, <3>1 DEF LateOnlyLost
    <3>3. \A r \in Requests : Busy(r)' <=> Busy(r)
      BY <1>2, <2>6, <2>8 DEF Busy
    <3> QED
      BY <1>1, <2>1, <2>8, <2>12, <3>1, <3>2, <3>3 DEF LateOnlyLost
  <2>14. UnitsBounded'
    <3>1. \A i \in DOMAIN attempts' : attempts'[i].units <= 1 + Matches
      <4>1. new.units <= 1 + Matches
        BY <2>3, <2>4, <2>5, LookupAssumption
      <4> QED
        BY <1>1, <1>2, <2>7, <4>1 DEF UnitsBounded
    <3>2. req'[q].pc = "call" /\ attempts'[req'[q].att].units <= UnitsBefore(req'[q].step + 1)
      BY <1>2, <2>3, <2>4, <2>5, <2>6, <2>7, <2>8
    <3>3. \A r \in Requests \ {q} : req'[r].pc \in {"record", "call"} =>
             attempts'[req'[r].att] = attempts[req[r].att]
      BY <1>1, <2>7, <2>8, <2>9 DEF Busy, LookupOK
    <3> QED
      BY <1>1, <2>8, <3>1, <3>2, <3>3 DEF UnitsBounded
  <2>15. Recorded' /\ QuotaKept'
    <3> SUFFICES ASSUME NEW m \in 1..Months
                 PROVE  /\ spent'[m] + Cardinality(Spenders(m)') <= Cardinality(Units(m)')
                        /\ Cardinality(AttemptsOf(m)') <= Quota
      BY DEF Recorded, QuotaKept
    <3>1. AttemptsOf(m)' = AttemptsOf(m)
      BY <1>2, <2>5, <2>7 DEF AttemptsOf
    <3>2. /\ IsFiniteSet(Units(m)) /\ IsFiniteSet(Spenders(m))
          /\ Cardinality(Units(m)) \in Nat /\ Cardinality(Spenders(m)) \in Nat
      BY <1>1, CountsFinite
    <3>3. /\ spent[m] \in Nat
          /\ spent[m] + Cardinality(Spenders(m)) <= Cardinality(Units(m))
          /\ Cardinality(AttemptsOf(m)) <= Quota
      BY <1>1 DEF LookupOK, Recorded, QuotaKept
    <3>4. \A r \in Requests \ {q} : r \in Spenders(m)' <=> r \in Spenders(m)
      <4>1. \A r \in Requests \ {q} : req[r].pc = "call" =>
                attempts'[req[r].att] = attempts[req[r].att]
        BY <1>1, <2>7, <2>9 DEF Busy, LookupOK
      <4> QED
        BY <2>8, <4>1 DEF Spenders
    <3>5. q \notin Spenders(m) /\ (q \in Spenders(m)' <=> step # 2 /\ attempts[a].month = m)
      BY <1>2, <2>5, <2>6, <2>7, <2>8 DEF Spenders
    <3>6. CASE step # 2 /\ attempts[a].month = m
      <4> DEFINE u == <<a, attempts[a].units + 1>>
      <4>1. Credits(step) = 1 /\ new.units = attempts[a].units + 1
            /\ attempts[a].units + 1 \in 1..(1 + Matches)
        BY <2>3, <2>4, <2>5, <3>6, LookupAssumption DEF Credits
      <4>2. u \in (1..Len(attempts)) \X (1..(1 + Matches)) /\ u \notin Units(m)
        BY SMTT(60), <1>2, <2>4, <4>1 DEF Units
      <4>3. Units(m)' = Units(m) \union {u}
        <5>1. ASSUME NEW i \in 1..Len(attempts), NEW n \in 1..(1 + Matches)
              PROVE  <<i, n>> \in Units(m)' <=> <<i, n>> \in Units(m) \/ <<i, n>> = u
          BY SMTT(60), <2>4, <2>5, <2>7, <3>6, <4>1 DEF Units
        <5> QED
          BY <2>7, <4>2, <5>1 DEF Units
      <4>4. Spenders(m)' = Spenders(m) \union {q}
        BY <3>4, <3>5, <3>6 DEF Spenders
      <4>5. Cardinality(Units(m)') = Cardinality(Units(m)) + 1
        BY <3>2, <4>2, <4>3, FS_AddElement
      <4>6. Cardinality(Spenders(m)') = Cardinality(Spenders(m)) + 1
        BY <3>2, <3>5, <4>4, FS_AddElement
      <4> QED
        BY <2>1, <3>1, <3>2, <3>3, <4>5, <4>6
    <3>7. CASE ~(step # 2 /\ attempts[a].month = m)
      <4>1. Spenders(m)' = Spenders(m)
        BY <3>4, <3>5, <3>7 DEF Spenders
      <4>2. Units(m)' = Units(m)
        <5>1. attempts[a].month = m => new.units = attempts[a].units
          BY <2>4, <2>5, <3>7 DEF Credits
        <5> QED
          BY <2>5, <2>7, <5>1 DEF Units
      <4> QED
        BY <2>1, <3>1, <3>3, <4>1, <4>2
    <3> QED
      BY <3>6, <3>7
  <2> QED
    BY <2>10, <2>11, <2>13, <2>14, <2>15 DEF LookupInv
<1> QED
  BY <1>3, <1>4

\* Apollo is called: the credit was recorded, and a call without the
\* reservation is the only one.
LEMMA LookupCall ==
    ASSUME LookupInv, NEW q \in Requests, CallApollo(q)
    PROVE  LookupInv'
<1> DEFINE a == req[q].att
           step == req[q].step
           mon == attempts[a].month
<1>1. /\ LookupOK /\ RowBelongs /\ LateOnlyLost /\ OneWorker /\ UnitsBounded
      /\ Recorded /\ QuotaKept
  BY DEF LookupInv
<1>2. /\ attempts \in Seq(Attempt) /\ req \in [Requests -> Request]
      /\ req[q] \in Request /\ a \in 1..Len(attempts) /\ step \in 1..Steps
      /\ req[q].pc = "call" /\ late \in [Requests -> Nat]
      /\ spent \in [1..Months -> Nat]
  BY <1>1 DEF LookupOK, CallApollo, Busy
<1>3. attempts[a] \in Attempt /\ mon \in 1..Months
  <2>1. attempts[a] \in Attempt
    BY <1>2, ElementOfSeq
  <2> QED
    BY <2>1 DEF Attempt
<1>4. PICK new \in Request :
         /\ req' = [req EXCEPT ![q] = new]
         /\ new.att = a /\ new.org = req[q].org
         /\ \/ new.pc = "finish" /\ new.step = step
            \/ new.pc = "record" /\ new.step = step + 1 /\ step < Steps
  <2>1. step + 1 \in Nat
    BY <1>2, LookupAssumption DEF Steps
  <2>2. CASE step < Steps /\ req' = [req EXCEPT ![q].pc = "record", ![q].step = step + 1]
    <3> DEFINE n == [req[q] EXCEPT !.pc = "record", !.step = step + 1]
    <3>1. n \in Request /\ n.att = a /\ n.org = req[q].org /\ n.pc = "record"
          /\ n.step = step + 1
      BY <1>2, <2>1 DEF Request
    <3>2. req' = [req EXCEPT ![q] = n]
      BY <2>2
    <3> QED
      BY <2>2, <3>1, <3>2
  <2>3. CASE req' = [req EXCEPT ![q].pc = "finish"]
    <3> DEFINE n == [req[q] EXCEPT !.pc = "finish"]
    <3>1. n \in Request /\ n.att = a /\ n.org = req[q].org /\ n.pc = "finish"
          /\ n.step = step
      BY <1>2 DEF Request
    <3>2. req' = [req EXCEPT ![q] = n]
      BY <2>3
    <3> QED
      BY <3>1, <3>2
  <2>4. CASE req' = [req EXCEPT ![q].pc = "finish", ![q].ok = FALSE]
    <3> DEFINE n == [req[q] EXCEPT !.pc = "finish", !.ok = FALSE]
    <3>1. n \in Request /\ n.att = a /\ n.org = req[q].org /\ n.pc = "finish"
          /\ n.step = step
      BY <1>2 DEF Request
    <3>2. req' = [req EXCEPT ![q] = n]
      BY <2>4
    <3> QED
      BY <3>1, <3>2
  <2> QED
    BY <2>2, <2>3, <2>4 DEF CallApollo
<1>5. /\ req' \in [Requests -> Request] /\ req'[q] = new
      /\ \A r \in Requests \ {q} : req'[r] = req[r]
  BY <1>2, <1>4
<1>6. /\ UNCHANGED <<directory, change, cache, attempts, month>>
      /\ spent' = [spent EXCEPT ![mon] = spent[mon] + Credits(step)]
      /\ late' = [late EXCEPT ![q] = IF Held(q) THEN late[q] ELSE late[q] + 1]
  BY DEF CallApollo, Held
<1>7. late[q] = 0
  BY <1>1, <1>2 DEF LateOnlyLost
<1>8. late' \in [Requests -> Nat] /\ late'[q] = (IF Held(q) THEN 0 ELSE 1)
      /\ \A r \in Requests \ {q} : late'[r] = late[r]
  BY <1>2, <1>6, <1>7
<1>9. Credits(step) \in Nat /\ spent[mon] + Credits(step) \in Nat
  BY <1>2, <1>3 DEF Credits
<1>10. /\ spent' \in [1..Months -> Nat]
       /\ \A m \in 1..Months :
             spent'[m] = IF m = mon THEN spent[mon] + Credits(step) ELSE spent[m]
  BY <1>2, <1>3, <1>6, <1>9
<1>11. \A r \in Requests : /\ req'[r].att = req[r].att
                           /\ req'[r].org = req[r].org
                           /\ Busy(r)' <=> Busy(r)
  BY <1>2, <1>4, <1>5 DEF Busy
<1>12. LookupOK'
  <2>1. new.step \in 1..Steps
    BY <1>2, <1>4, LookupAssumption DEF Steps
  <2> QED
    BY <1>1, <1>2, <1>4, <1>5, <1>6, <1>8, <1>10, <2>1 DEF LookupOK, Busy
<1>13. RowBelongs' /\ OneWorker'
  BY <1>1, <1>6, <1>11 DEF RowBelongs, OneWorker
<1>14. \A r \in Requests : Held(r)' <=> Held(r)
  BY <1>6, <1>11 DEF Held, ValidLease, Running
<1>15. LateOnlyLost'
  BY <1>1, <1>4, <1>5, <1>8, <1>11, <1>14 DEF LateOnlyLost
<1>16. UnitsBounded'
  <2>1. req'[q].pc # "call"
        /\ (req'[q].pc = "record" => attempts'[req'[q].att].units <= UnitsBefore(req'[q].step))
    BY <1>1, <1>2, <1>4, <1>5, <1>6 DEF UnitsBounded
  <2> QED
    BY <1>1, <1>5, <1>6, <2>1 DEF UnitsBounded
<1>17. Recorded' /\ QuotaKept'
  <2> SUFFICES ASSUME NEW m \in 1..Months
               PROVE  /\ spent'[m] + Cardinality(Spenders(m)') <= Cardinality(Units(m)')
                      /\ Cardinality(AttemptsOf(m)') <= Quota
    BY DEF Recorded, QuotaKept
  <2>1. AttemptsOf(m)' = AttemptsOf(m) /\ Units(m)' = Units(m)
    BY <1>6 DEF AttemptsOf, Units
  <2>2. /\ IsFiniteSet(Spenders(m)) /\ Cardinality(Units(m)) \in Nat
        /\ Cardinality(Spenders(m)) \in Nat
    BY <1>1, CountsFinite
  <2>3. /\ spent[m] \in Nat
        /\ spent[m] + Cardinality(Spenders(m)) <= Cardinality(Units(m))
        /\ Cardinality(AttemptsOf(m)) <= Quota
    BY <1>1 DEF LookupOK, Recorded, QuotaKept
  <2>4. Spenders(m)' = Spenders(m) \ {q}
    BY <1>4, <1>5, <1>6 DEF Spenders
  <2>5. Cardinality(Spenders(m)') = IF q \in Spenders(m)
                                      THEN Cardinality(Spenders(m)) - 1
                                      ELSE Cardinality(Spenders(m))
    BY <2>2, <2>4, FS_RemoveElement
  <2>6. q \in Spenders(m) <=> step # 2 /\ mon = m
    BY <1>2 DEF Spenders
  <2>7. spent'[m] = IF m = mon /\ step # 2 THEN spent[m] + 1 ELSE spent[m]
    BY <1>2, <1>10, <2>3 DEF Credits
  <2> QED
    BY <2>1, <2>2, <2>3, <2>5, <2>6, <2>7
<1> QED
  BY <1>12, <1>13, <1>15, <1>16, <1>17 DEF LookupInv

\* _reserve: the new attempt is the latest, so the reservation it takes over
\* is lost for good.
LEMMA LookupReserve ==
    ASSUME LookupInv, NEW q \in Requests, Reserve(q)
    PROVE  LookupInv'
<1> DEFINE a == Len(attempts) + 1
           ended == IF cache # NoRow /\ cache.status = "running"
                      THEN EndAttempts({cache.lease}) ELSE attempts
           fresh == NewAttempt(directory.org)
           new == [pc |-> "record", att |-> a, org |-> directory.org, step |-> 1,
                   ok |-> TRUE]
           row == [org |-> directory.org, status |-> "running", lease |-> a,
                   data |-> NoOrg, current |-> TRUE]
<1>1. /\ LookupOK /\ RowBelongs /\ LateOnlyLost /\ OneWorker /\ UnitsBounded
      /\ Recorded /\ QuotaKept
  BY DEF LookupInv
<1>2. /\ attempts \in Seq(Attempt) /\ req \in [Requests -> Request]
      /\ req[q].pc = "idle" /\ late \in [Requests -> Nat]
      /\ directory \in Directory /\ directory.org \in Org /\ ~directory.suppressed
      /\ Len(attempts) \in Nat /\ DOMAIN attempts = 1..Len(attempts)
      /\ a \in Nat /\ month \in 1..Months
  BY <1>1, LenProperties DEF LookupOK, Reserve, Directory
<1>3. /\ attempts' = Append(ended, fresh)
      /\ cache' = row /\ req' = [req EXCEPT ![q] = new]
      /\ late' = [late EXCEPT ![q] = 0]
      /\ UNCHANGED <<directory, change, month, spent>>
      /\ UsedThisMonth < Quota
  BY DEF Reserve
<1>4. /\ ended \in Seq(Attempt) /\ Len(ended) = Len(attempts)
      /\ \A i \in 1..Len(attempts) : /\ ended[i].month = attempts[i].month
                                     /\ ended[i].units = attempts[i].units
  BY <1>2, EndAttemptsKeeps
<1>5. fresh \in Attempt /\ fresh.month = month /\ fresh.units = 0
  BY <1>2 DEF NewAttempt, Attempt
<1>6. new \in Request /\ row \in Row
  BY <1>2, LookupAssumption DEF Request, Row, Org, Steps
<1> HIDE DEF ended, fresh
<1>7. /\ attempts' \in Seq(Attempt) /\ Len(attempts') = a
      /\ DOMAIN attempts' = 1..a
      /\ \A i \in 1..Len(attempts) : /\ attempts'[i].month = attempts[i].month
                                     /\ attempts'[i].units = attempts[i].units
      /\ attempts'[a] = fresh
  <2>1. /\ attempts' \in Seq(Attempt) /\ Len(attempts') = a
        /\ \A i \in 1..Len(attempts) : attempts'[i] = ended[i]
        /\ attempts'[a] = fresh
    BY <1>2, <1>3, <1>4, <1>5
  <2> QED
    BY <1>4, <2>1, LenProperties
<1>8. /\ req' \in [Requests -> Request] /\ req'[q] = new
      /\ \A r \in Requests \ {q} : req'[r] = req[r]
  BY <1>2, <1>3, <1>6
<1>9. \A r \in Requests \ {q} : Busy(r)' => /\ Busy(r) /\ req'[r].att = req[r].att
                                            /\ req[r].att \in 1..Len(attempts)
                                            /\ req[r].step \in 1..Steps
  BY <1>1, <1>8 DEF LookupOK, Busy
<1>10. LookupOK'
  <2>1. \A r \in Requests : Busy(r)' => /\ req'[r].att \in 1..Len(attempts')
                                        /\ req'[r].step \in 1..Steps
    <3>1. a \in 1..a /\ 1 \in 1..Steps /\ 1..Len(attempts) \subseteq 1..a
      BY <1>2, LookupAssumption DEF Steps
    <3> QED
      BY <1>7, <1>8, <1>9, <3>1
  <2>2. late' \in [Requests -> Nat]
    BY <1>2, <1>3
  <2> QED
    BY <1>1, <1>3, <1>6, <1>7, <1>8, <2>1, <2>2 DEF LookupOK
<1>11. RowBelongs'
  BY <1>2, <1>3 DEF RowBelongs
<1>12. OneWorker'
  BY <1>1, <1>2, <1>8, <1>9 DEF OneWorker, Busy
<1>13. LateOnlyLost'
  <2>1. late'[q] = 0 /\ \A r \in Requests \ {q} : late'[r] = late[r]
    BY <1>2, <1>3
  <2>2. \A r \in Requests \ {q} : Busy(r)' => ~Held(r)'
    BY <1>2, <1>3, <1>9 DEF Held, ValidLease
  <2> QED
    BY <1>1, <1>8, <2>1, <2>2 DEF LateOnlyLost
<1>14. UnitsBounded'
  <2>1. \A i \in DOMAIN attempts' : attempts'[i].units <= 1 + Matches
    BY <1>1, <1>2, <1>5, <1>7, LookupAssumption DEF UnitsBounded
  <2>2. \A r \in Requests \ {q} : req'[r].pc # "idle" =>
           attempts'[req'[r].att].units = attempts[req[r].att].units
    BY <1>7, <1>9 DEF Busy
  <2>3. req'[q].pc = "record" /\ attempts'[req'[q].att].units <= UnitsBefore(req'[q].step)
    BY <1>5, <1>7, <1>8 DEF UnitsBefore
  <2> QED
    BY <1>1, <1>8, <2>1, <2>2, <2>3 DEF UnitsBounded
<1>15. Recorded' /\ QuotaKept'
  <2> SUFFICES ASSUME NEW m \in 1..Months
               PROVE  /\ spent'[m] + Cardinality(Spenders(m)') <= Cardinality(Units(m)')
                      /\ Cardinality(AttemptsOf(m)') <= Quota
    BY DEF Recorded, QuotaKept
  <2>1. /\ IsFiniteSet(AttemptsOf(m)) /\ Cardinality(AttemptsOf(m)) \in Nat
    BY <1>1, CountsFinite
  <2>2. Units(m)' = Units(m)
    <3>1. \A i \in 1..a, n \in 1..(1 + Matches) :
             <<i, n>> \in Units(m)' <=> <<i, n>> \in Units(m)
      <4> TAKE i \in 1..a, n \in 1..(1 + Matches)
      <4>1. CASE i = a
        <5>1. attempts'[i].units = 0 /\ i \notin 1..Len(attempts) /\ ~(n <= 0)
          BY <1>2, <1>5, <1>7, <4>1, LookupAssumption
        <5> QED
          BY <5>1 DEF Units
      <4>2. CASE i # a
        <5>1. i \in 1..Len(attempts)
          BY <1>2, <4>2
        <5> QED
          BY <1>7, <5>1 DEF Units
      <4> QED
        BY <4>1, <4>2
    <3>2. /\ Units(m)' \subseteq (1..a) \X (1..(1 + Matches))
          /\ Units(m) \subseteq (1..a) \X (1..(1 + Matches))
      BY <1>2, <1>7 DEF Units
    <3> DEFINE U == Units(m)
               V == Units(m)'
    <3>3. \A w \in (1..a) \X (1..(1 + Matches)) : w \in V <=> w \in U
      <4> HIDE DEF U, V
      <4> SUFFICES ASSUME NEW w \in (1..a) \X (1..(1 + Matches))
                   PROVE  w \in V <=> w \in U
        OBVIOUS
      <4>1. w = <<w[1], w[2]>> /\ w[1] \in 1..a /\ w[2] \in 1..(1 + Matches)
        OBVIOUS
      <4> QED
        BY <3>1, <4>1 DEF U, V
    <3> HIDE DEF U, V
    <3> QED
      BY <3>2, <3>3 DEF U, V
  <2>3. Spenders(m)' = Spenders(m)
    <3>1. \A r \in Requests \ {q} : req[r].pc = "call" =>
             attempts'[req[r].att].month = attempts[req[r].att].month
      BY <1>7, <1>8, <1>9 DEF Busy
    <3> QED
      BY SMTT(60), <1>2, <1>8, <3>1 DEF Spenders
  <2>4. spent'[m] + Cardinality(Spenders(m)') <= Cardinality(Units(m)')
    BY <1>1, <1>3, <2>2, <2>3 DEF Recorded
  <2>5. CASE m = month
    <3>1. AttemptsOf(m)' = AttemptsOf(m) \union {a} /\ a \notin AttemptsOf(m)
      BY <1>2, <1>5, <1>7, <2>5 DEF AttemptsOf
    <3>2. Cardinality(AttemptsOf(m)') = Cardinality(AttemptsOf(m)) + 1
      BY <2>1, <3>1, FS_AddElement
    <3>3. Cardinality(AttemptsOf(m)) < Quota
      BY <1>3, <2>5 DEF UsedThisMonth, AttemptsOf
    <3> QED
      BY <2>1, <2>4, <3>2, <3>3, LookupAssumption
  <2>6. CASE m # month
    <3>1. AttemptsOf(m)' = AttemptsOf(m)
      BY <1>2, <1>5, <1>7, <2>6 DEF AttemptsOf
    <3> QED
      BY <1>1, <2>4, <3>1 DEF QuotaKept
  <2> QED
    BY <2>5, <2>6
<1> QED
  BY <1>10, <1>11, <1>12, <1>13, <1>14, <1>15 DEF LookupInv

\* The invariant holds at the start and is kept by every step.
LEMMA LookupInitInv == LookupInit => LookupInv
<1> SUFFICES ASSUME LookupInit
             PROVE  LookupInv
  OBVIOUS
<1> USE DEF LookupInit
<1>1. (CHOOSE o \in Orgs : TRUE) \in Orgs
  BY LookupAssumption
<1>2. /\ attempts \in Seq(Attempt) /\ Len(attempts) = 0 /\ DOMAIN attempts = {}
  BY EmptySeq
<1>3. /\ req \in [Requests -> Request]
      /\ \A q \in Requests : req[q].pc = "idle"
  BY DEF Request, NoRequest, Org
<1>4. LookupOK
  <2>1. directory \in Directory
    BY <1>1 DEF Directory, Org
  <2> QED
    BY <1>2, <1>3, <2>1, LookupAssumption DEF LookupOK, Busy
<1>5. RowBelongs /\ LateOnlyLost /\ OneWorker /\ UnitsBounded
  BY <1>2, <1>3 DEF RowBelongs, LateOnlyLost, OneWorker, UnitsBounded, Busy
<1>6. Recorded /\ QuotaKept
  <2> SUFFICES ASSUME NEW m \in 1..Months
               PROVE  /\ spent[m] + Cardinality(Spenders(m)) <= Cardinality(Units(m))
                      /\ Cardinality(AttemptsOf(m)) <= Quota
    BY DEF Recorded, QuotaKept
  <2>1. Spenders(m) = {} /\ AttemptsOf(m) = {}
    BY <1>2, <1>3 DEF Spenders, AttemptsOf
  <2>2. Cardinality(Units(m)) \in Nat
    BY <1>4, CountsFinite
  <2> QED
    BY <2>1, <2>2, FS_EmptySet, LookupAssumption
<1> QED
  BY <1>4, <1>5, <1>6 DEF LookupInv

\* Every step keeps the invariant.
LEMMA LookupStep == LookupInv /\ [LookupNext]_lookupVars => LookupInv'
<1> SUFFICES ASSUME LookupInv, [LookupNext]_lookupVars
             PROVE  LookupInv'
  OBVIOUS
<1>1. CASE UNCHANGED lookupVars
  BY <1>1
  DEF lookupVars, LookupInv, LookupOK, RowBelongs, LateOnlyLost, OneWorker,
      UnitsBounded, Recorded, QuotaKept, Busy, Held, ValidLease, Running, Spenders,
      Units, AttemptsOf
<1>2. ASSUME NEW q \in Requests, Reserve(q)
      PROVE  LookupInv'
  BY <1>2, LookupReserve
<1>3. ASSUME NEW q \in Requests, RecordRequest(q)
      PROVE  LookupInv'
  BY <1>3, LookupRecord
<1>4. ASSUME NEW q \in Requests, CallApollo(q)
      PROVE  LookupInv'
  BY <1>4, LookupCall
<1>5. ASSUME NEW q \in Requests, FinishAttempt(q)
      PROVE  LookupInv'
  BY <1>5, LookupFinishAttempt
<1>6. ASSUME NEW q \in Requests, FinishCache(q)
      PROVE  LookupInv'
  BY <1>6, LookupFinishCache
<1>7. ASSUME NEW q \in Requests, RequestDies(q)
      PROVE  LookupInv'
  BY <1>7, LookupQuietActions
<1>8. CASE \/ ViewDirectory \/ ViewRow \/ ViewPurge
           \/ \E to \in [org : Orgs \union {NoOrg}, suppressed : BOOLEAN] :
                 UpdateDirectory(to)
           \/ TriggerAttempts \/ CommitDirectory \/ RowAges \/ MonthEnds
  BY <1>8, LookupQuietActions
<1> QED
  BY <1>1, <1>2, <1>3, <1>4, <1>5, <1>6, <1>7, <1>8 DEF LookupNext

\* The invariant holds always.
LEMMA LookupAlways == LookupSpec => []LookupInv
  BY LookupInitInv, LookupStep, PTL DEF LookupSpec

(***************************************************************************)
(* However the requests, the views and the directory's trigger interleave, *)
(* a stored result is about the organisation the directory names.          *)
(***************************************************************************)
THEOREM LookupResultsBelong == LookupSpec => []ResultsBelong
<1>1. LookupInv => ResultsBelong
  BY DEF LookupInv, RowBelongs, ResultsBelong
<1> QED
  BY <1>1, LookupAlways, PTL

(***************************************************************************)
(* A request that lost its reservation makes at most the one call it had   *)
(* recorded: the reservation never comes back to it.                       *)
(***************************************************************************)
THEOREM LookupOneLateCall == LookupSpec => []OneLateCall
<1>1. LookupInv => OneLateCall
  BY DEF LookupInv, LateOnlyLost, OneLateCall
<1> QED
  BY <1>1, LookupAlways, PTL

(***************************************************************************)
(* Apollo never takes more for a month's attempts than the quota pays for. *)
(* A credit that is spent is one of the recorded units, and those lie in   *)
(* the product of the month's attempts and the units of one attempt.       *)
(***************************************************************************)
THEOREM LookupSpentWithinQuota == LookupSpec => []SpentWithinQuota
<1>1. LookupInv => SpentWithinQuota
  <2> SUFFICES ASSUME LookupInv, NEW m \in 1..Months
               PROVE  spent[m] <= Quota * (1 + Matches)
    BY DEF SpentWithinQuota
  <2>1. LookupOK /\ Recorded /\ QuotaKept
    BY DEF LookupInv
  <2>2. /\ IsFiniteSet(AttemptsOf(m)) /\ Cardinality(AttemptsOf(m)) \in Nat
        /\ Cardinality(Units(m)) \in Nat /\ Cardinality(Spenders(m)) \in Nat
    BY <2>1, CountsFinite
  <2>3. spent[m] \in Nat /\ spent[m] <= Cardinality(Units(m))
    BY SMTT(60), <2>1, <2>2 DEF LookupOK, Recorded
  <2> DEFINE per == 1..(1 + Matches)
  <2>4. IsFiniteSet(per) /\ Cardinality(per) = 1 + Matches
    BY FS_Interval, LookupAssumption
  <2>5. Units(m) \in SUBSET (AttemptsOf(m) \X per)
    <3>1. DOMAIN attempts = 1..Len(attempts)
      BY <2>1, LenProperties DEF LookupOK
    <3> QED
      BY <3>1 DEF Units, AttemptsOf
  <2> HIDE DEF per
  <2>6. /\ IsFiniteSet(AttemptsOf(m) \X per)
        /\ Cardinality(AttemptsOf(m) \X per) = Cardinality(AttemptsOf(m)) * Cardinality(per)
    BY <2>2, <2>4, FS_Product
  <2> DEFINE all == AttemptsOf(m) \X per
  <2>7. Cardinality(Units(m)) <= Cardinality(AttemptsOf(m)) * (1 + Matches)
    <3>1. IsFiniteSet(all) /\ Units(m) \in SUBSET all
          /\ Cardinality(all) = Cardinality(AttemptsOf(m)) * (1 + Matches)
      BY <2>4, <2>5, <2>6
    <3> HIDE DEF all
    <3>2. Cardinality(Units(m)) <= Cardinality(all)
      BY <3>1, FS_Subset
    <3> QED
      BY <3>1, <3>2
  <2>8. Cardinality(AttemptsOf(m)) <= Quota
    BY <2>1 DEF QuotaKept
  <2>9. Cardinality(AttemptsOf(m)) * (1 + Matches) <= Quota * (1 + Matches)
    BY <2>2, <2>8, LookupAssumption
  <2>10. /\ Cardinality(AttemptsOf(m)) * (1 + Matches) \in Nat
         /\ Quota * (1 + Matches) \in Nat
    BY <2>2, LookupAssumption
  <2> QED
    BY <2>2, <2>3, <2>7, <2>9, <2>10
<1> QED
  BY <1>1, LookupAlways, PTL

-----------------------------------------------------------------------------
(* The queue of sentences.                                                 *)

SentenceRow == [state : {"none", "pending", "running", "completed"},
                leased : BOOLEAN, text : {"none", "fallback", "generated"}]

QueueOK == sentence \in [Sentences -> SentenceRow] /\ current \subseteq Sentences

\* The texts a step may leave behind: a row on screen keeps a generated text.
TextKept == \A s \in current :
    sentence[s].text = "generated" => sentence'[s].text = "generated"

\* A new row has no text to lose, and the end of a lease leaves it alone.
LEMMA QueueRowSteps ==
    ASSUME QueueOK, NEW s \in Sentences,
           EnqueueSentence(s) \/ SentenceLeaseExpires(s) \/ Retire(s)
    PROVE  QueueOK' /\ TextKept
<1>1. sentence[s] \in SentenceRow
  BY DEF QueueOK
<1>2. CASE EnqueueSentence(s)
  <2>1. Fallback \in SentenceRow /\ sentence[s].text = "none"
    BY <1>2 DEF Fallback, SentenceRow, EnqueueSentence, NoSentence
  <2> QED
    BY <1>2, <2>1 DEF EnqueueSentence, QueueOK, TextKept
<1>3. CASE SentenceLeaseExpires(s)
  <2> DEFINE new == [sentence[s] EXCEPT !.leased = FALSE]
  <2>1. new \in SentenceRow /\ new.text = sentence[s].text
    BY <1>1 DEF SentenceRow
  <2>2. sentence' = [sentence EXCEPT ![s] = new] /\ current' = current
    BY <1>3 DEF SentenceLeaseExpires
  <2> HIDE DEF new
  <2> QED
    BY <2>1, <2>2 DEF QueueOK, TextKept
<1>4. CASE Retire(s)
  BY <1>4 DEF Retire, QueueOK, TextKept
<1> QED
  BY <1>2, <1>3, <1>4

\* The purge of a claim takes no row that is current, and the claim no text.
LEMMA QueueClaim ==
    ASSUME QueueOK, NEW g \in Generators, ClaimSentences(g)
    PROVE  QueueOK' /\ TextKept
<1>1. PICK batch :
         sentence' = [s \in Sentences |->
             IF s \in Doomed THEN NoSentence
             ELSE IF s \in batch
               THEN [sentence[s] EXCEPT !.state = "running", !.leased = TRUE]
               ELSE sentence[s]]
  BY DEF ClaimSentences
<1>2. \A s \in Sentences :
         /\ sentence'[s] \in SentenceRow
         /\ s \notin Doomed => sentence'[s].text = sentence[s].text
  <2> TAKE s \in Sentences
  <2> DEFINE new == [sentence[s] EXCEPT !.state = "running", !.leased = TRUE]
  <2>1. sentence[s] \in SentenceRow /\ NoSentence \in SentenceRow
    BY DEF QueueOK, SentenceRow, NoSentence
  <2>2. new \in SentenceRow /\ new.text = sentence[s].text
    BY <2>1 DEF SentenceRow
  <2>3. sentence'[s] = IF s \in Doomed THEN NoSentence
                       ELSE IF s \in batch THEN new ELSE sentence[s]
    BY <1>1
  <2> HIDE DEF new
  <2> QED
    BY <2>1, <2>2, <2>3
<1>3. sentence' \in [Sentences -> SentenceRow] /\ current' = current
  BY <1>1, <1>2 DEF ClaimSentences
<1>4. \A s \in current : s \notin Doomed
  BY DEF Doomed
<1> QED
  BY <1>2, <1>3, <1>4 DEF QueueOK, TextKept

\* A batch that ends writes a generated text or leaves the text as it is, and
\* brings no deleted row back.
LEMMA QueueFinish ==
    ASSUME QueueOK, NEW g \in Generators, FinishBatch(g)
    PROVE  QueueOK' /\ TextKept
<1>1. PICK outcome \in [generator[g] -> Outcome] :
         sentence' = [s \in Sentences |->
              IF s \in generator[g] THEN Written(sentence[s], outcome[s])
                                    ELSE sentence[s]]
  BY DEF FinishBatch
<1>2. \A s \in Sentences :
         /\ sentence'[s] \in SentenceRow
         /\ sentence[s].text = "generated" => sentence'[s].text = "generated"
  <2> TAKE s \in Sentences
  <2>1. sentence[s] \in SentenceRow
    BY DEF QueueOK
  <2>2. /\ Written(sentence[s], outcome[s]) \in SentenceRow
        /\ Written(sentence[s], outcome[s]).text \in {"generated", sentence[s].text}
    BY <2>1 DEF Written, SentenceRow
  <2> QED
    BY <1>1, <2>1, <2>2
<1>3. sentence' \in [Sentences -> SentenceRow] /\ current' = current
  BY <1>1, <1>2 DEF FinishBatch
<1> QED
  BY <1>2, <1>3 DEF QueueOK, TextKept

\* Every step keeps the rows well formed and the generated texts on screen.
LEMMA QueueStep == QueueOK /\ [ForYouNext]_forYouVars =>
                       QueueOK' /\ (TextKept \/ UNCHANGED forYouVars)
<1> SUFFICES ASSUME QueueOK, [ForYouNext]_forYouVars
             PROVE  QueueOK' /\ (TextKept \/ UNCHANGED forYouVars)
  OBVIOUS
<1>1. CASE UNCHANGED forYouVars
  BY <1>1 DEF forYouVars, QueueOK
<1>2. ASSUME NEW s \in Sentences,
             EnqueueSentence(s) \/ SentenceLeaseExpires(s) \/ Retire(s)
      PROVE  QueueOK' /\ TextKept
  BY <1>2, QueueRowSteps
<1>3. ASSUME NEW g \in Generators, ClaimSentences(g)
      PROVE  QueueOK' /\ TextKept
  BY <1>3, QueueClaim
<1>4. ASSUME NEW g \in Generators, FinishBatch(g)
      PROVE  QueueOK' /\ TextKept
  BY <1>4, QueueFinish
<1>5. ASSUME NEW g \in Generators, GeneratorDies(g)
      PROVE  QueueOK' /\ TextKept
  BY <1>5 DEF GeneratorDies, QueueOK, TextKept
<1> QED
  BY <1>1, <1>2, <1>3, <1>4, <1>5 DEF ForYouNext

(***************************************************************************)
(* A generated sentence stays on screen while its signal is current: no    *)
(* late worker, failure, requeue or purge takes it away.                   *)
(***************************************************************************)
THEOREM QueueGeneratedStays == ForYouSpec => GeneratedStays
<1>1. ForYouInit => QueueOK
  BY DEF ForYouInit, QueueOK, SentenceRow, NoSentence
<1>2. QueueOK /\ [ForYouNext]_forYouVars =>
         [\A s \in current :
             sentence[s].text = "generated" => sentence'[s].text = "generated"]_forYouVars
  BY QueueStep DEF TextKept
<1>3. QueueOK /\ [ForYouNext]_forYouVars => QueueOK'
  BY QueueStep
<1> QED
  BY <1>1, <1>2, <1>3, PTL DEF ForYouSpec, GeneratedStays

-----------------------------------------------------------------------------
(* Ingestion: the invariant.                                                *)

IngestionTypes ==
    /\ source \in {"window", "decp", "ted"}
    /\ today \in Nat /\ floor \in Int
    /\ visible \subseteq Notices /\ \A n \in visible : DateOf(n) <= today
    /\ due \subseteq visible
    /\ checkpoint = [end |-> checkpoint.end, cursor |-> checkpoint.cursor]
    /\ checkpoint.end \in Int
    /\ ingest = [pc |-> ingest.pc, until |-> ingest.until, previous |-> ingest.previous,
                 cursor |-> ingest.cursor, after |-> ingest.after,
                 batch |-> ingest.batch, broken |-> ingest.broken]
    /\ ingest.pc \in {"idle", "acquire", "process"}

\* Nothing that can be public no more before the day x is missing.
Settled(x) ==
    /\ x <= today
    /\ \A n \in visible : DateOf(n) >= floor /\ DateOf(n) + Overlap < x => n \in stored

\* What is due was planned on the day x.
Planned(x) ==
    /\ x <= today
    /\ \A n \in due : DateOf(n) <= x
    /\ \A n \in visible : DateOf(n) >= floor /\ DateOf(n) + Overlap < x => n \in due

DecpCursor == [kind : {"decp"}, end : Int, next : Int, offset : Nat, total : Int]

TedCursor == [kind : {"ted"}, since : Int, until : Int, page : Nat \ {0},
              pending : Seq(Notices), more : BOOLEAN, complete : BOOLEAN]

\* The days before next are done, and of that day the batches before offset, if it
\* still is what it was.
DecpProgress(c, S) ==
    /\ c \in DecpCursor /\ Planned(c.end)
    /\ \A n \in due : DateOf(n) < c.next => n \in S
    /\ c.total = Null => c.offset = 0
    /\ c.total # Null => c.total <= Cardinality(Found(c.next, c.next))
    /\ LET found == Found(c.next, c.next)
       IN  c.total = Cardinality(found) =>
              \A n \in found : OldestFirst(found)[n] <= c.offset => n \in S

Pending(c) == {c.pending[i] : i \in 1..Len(c.pending)}

\* What is neither done nor pending is behind the pages that were read.
TedProgress(c, S) ==
    /\ c \in TedCursor /\ Planned(c.until) /\ (c.complete => c.pending = <<>>)
    /\ \A n \in due \ (S \union Pending(c)) :
          /\ DateOf(n) >= c.since
          /\ ~c.complete
          /\ c.pending = <<>> \/ c.more
          /\ LET found == Found(c.since, c.until)
             IN  NewestFirst(found)[n] >
                    (IF c.pending = <<>> THEN c.page - 1 ELSE c.page) * PageSize

Progress(c, S) ==
    CASE source = "decp" -> DecpProgress(c, S)
      [] source = "ted" -> TedProgress(c, S)
      [] OTHER -> TRUE

\* Where a run stands.
RunProgress(j) == j.pc # "idle" =>
    /\ j.previous \in Int /\ j.until \in Int /\ j.broken \in BOOLEAN
    /\ Settled(j.previous)
    /\ source # "window" => checkpoint.cursor # NoCursor /\ j.cursor = checkpoint.cursor
    /\ source = "window" => Planned(j.until)
    /\ j.pc = "acquire" /\ source = "window" =>
          /\ j.cursor.since \in Int
          /\ \A n \in due : n \in stored \/ DateOf(n) >= j.cursor.since
    /\ j.pc = "process" =>
          /\ ~j.broken => Progress(j.after, stored \union j.batch)
          /\ ~j.broken /\ source = "window" => due \subseteq stored \union j.batch
          /\ source = "decp" => /\ j.cursor.next <= j.cursor.end
                                /\ j.after.end = j.cursor.end
                                /\ j.after.next \in {j.cursor.next, j.cursor.next + 1}
          /\ source = "ted" => j.after.until = j.cursor.until

IngestInv ==
    /\ IngestionTypes
    /\ Settled(checkpoint.end)
    /\ checkpoint.cursor # NoCursor => Progress(checkpoint.cursor, stored)
    /\ RunProgress(ingest)
    /\ NothingSkipped

-----------------------------------------------------------------------------
(* Lists of notices                                                         *)

LEMMA NoticesOrdered ==
    /\ \A n \in Notices : DateOf(n) \in Nat /\ DateOf(n) >= 1
    /\ \A m, n \in Notices : m = n \/ Before(m, n) \/ Before(n, m)
    /\ \A m, n \in Notices : ~(Before(m, n) /\ Before(n, m)) /\ ~Before(n, n)
    /\ \A l, m, n \in Notices : Before(l, m) /\ Before(m, n) => Before(l, n)
<1>1. \A n \in Notices : n = <<n[1], n[2]>> /\ n[1] \in 1..LastDate /\ n[2] \in 1..PerDay
  BY DEF Notices, Dates
<1>2. \A n \in Notices : n[1] \in Nat /\ n[2] \in Nat /\ n[1] >= 1
  BY <1>1, IngestionAssumption
<1>3. \A m, n \in Notices : m[1] = n[1] /\ m[2] = n[2] => m = n
  BY <1>1
<1>4. \A m, n \in Notices : m = n \/ Before(m, n) \/ Before(n, m)
  BY <1>2, <1>3 DEF Before
<1>5. \A m, n \in Notices : ~(Before(m, n) /\ Before(n, m)) /\ ~Before(n, n)
  BY <1>2 DEF Before
<1>6. \A l, m, n \in Notices : Before(l, m) /\ Before(m, n) => Before(l, n)
  BY <1>2 DEF Before
<1> QED BY <1>2, <1>4, <1>5, <1>6 DEF DateOf

LEMMA NoticesFinite ==
    ASSUME NEW rows \in SUBSET Notices
    PROVE  IsFiniteSet(rows) /\ Cardinality(rows) \in Nat
<1>1. IsFiniteSet(Dates) /\ IsFiniteSet(1..PerDay)
  BY FS_Interval, IngestionAssumption DEF Dates
<1>2. IsFiniteSet(Notices)
  BY <1>1, FS_Product DEF Notices
<1> QED BY <1>2, FS_Subset, FS_CardinalityType

\* The places are those of a list, each of one notice.
LEMMA PlacesOfList ==
    ASSUME NEW rows \in SUBSET Notices, NEW below \in [rows -> SUBSET rows],
           \A m, n \in rows : m = n \/ m \in below[n] \/ n \in below[m],
           \A n \in rows : n \notin below[n],
           \A m, n \in rows : m \in below[n] => below[m] \subseteq below[n],
           NEW place, place = [n \in rows |-> 1 + Cardinality(below[n])]
    PROVE  /\ \A n \in rows : place[n] \in 1..Cardinality(rows)
           /\ \A m, n \in rows : place[m] = place[n] => m = n
           /\ Listed(rows, place) \in Seq(Notices)
           /\ Len(Listed(rows, place)) = Cardinality(rows)
           /\ \A n \in rows : Listed(rows, place)[place[n]] = n
<1> PICK k : k = Cardinality(rows)
  OBVIOUS
<1>1. /\ IsFiniteSet(rows) /\ k \in Nat
      /\ \A S \in SUBSET rows : IsFiniteSet(S) /\ Cardinality(S) \in Nat
  BY NoticesFinite
<1>2. ASSUME NEW m \in rows, NEW n \in rows, m \in below[n]
      PROVE  Cardinality(below[m]) < Cardinality(below[n])
  <2>1. below[m] \subseteq below[n] /\ below[m] # below[n] /\ IsFiniteSet(below[n])
    BY <1>1, <1>2
  <2> PICK S, T : S = below[m] /\ T = below[n]
    OBVIOUS
  <2>2. Cardinality(S) <= Cardinality(T) /\ (Cardinality(S) = Cardinality(T) => S = T)
    BY <2>1, FS_Subset
  <2>3. Cardinality(S) \in Nat /\ Cardinality(T) \in Nat
    BY <1>1
  <2> QED BY <2>1, <2>2, <2>3
<1>3. ASSUME NEW n \in rows PROVE place[n] \in 1..k
  <2> PICK S : S = below[n]
    OBVIOUS
  <2>1. S \in SUBSET rows /\ S # rows
    OBVIOUS
  <2>2. Cardinality(S) <= k /\ (Cardinality(S) = k => S = rows)
    BY <1>1, <2>1, FS_Subset
  <2>3. Cardinality(S) \in Nat
    BY <1>1
  <2> QED BY <1>1, <2>1, <2>2, <2>3
<1>4. ASSUME NEW m \in rows, NEW n \in rows, place[m] = place[n] PROVE m = n
  <2>1. Cardinality(below[m]) \in Nat /\ Cardinality(below[n]) \in Nat
    BY <1>1
  <2> QED BY <1>2, <1>4, <2>1
<1>5. place \in Injection(rows, 1..k)
  BY <1>3, <1>4 DEF Injection, IsInjective
<1>6. IsFiniteSet(1..k) /\ Cardinality(1..k) = k
  BY <1>1, FS_Interval
<1>7. place \in Surjection(rows, 1..k)
  BY <1>5, <1>6, FS_Injection
<1>8. \A i \in 1..k : \E n \in rows : place[n] = i
  BY <1>7 DEF Surjection
<1> DEFINE list == [i \in 1..k |-> CHOOSE n \in rows : place[n] = i]
<1>9. \A i \in 1..k : list[i] \in rows /\ place[list[i]] = i
  BY <1>8
<1>10. list \in [1..k -> Notices] /\ \A n \in rows : list[place[n]] = n
  BY <1>3, <1>4, <1>9
<1>11. list = Listed(rows, place)
  BY DEF Listed
<1> HIDE DEF list
<1>12. list \in Seq(Notices) /\ Len(list) = k
  <2>1. list \in Seq(Notices)
    BY <1>1, <1>10, SeqDef
  <2> QED BY <1>1, <1>10, <2>1, LenProperties
<1> QED BY <1>3, <1>4, <1>10, <1>11, <1>12

LEMMA OldestFirstPlaces ==
    ASSUME NEW rows \in SUBSET Notices, NEW place, place = OldestFirst(rows)
    PROVE  /\ \A n \in rows : place[n] \in 1..Cardinality(rows)
           /\ Listed(rows, place) \in Seq(Notices)
           /\ Len(Listed(rows, place)) = Cardinality(rows)
           /\ \A n \in rows : Listed(rows, place)[place[n]] = n
<1> DEFINE below == [n \in rows |-> {m \in rows : Before(m, n)}]
<1>1. /\ below \in [rows -> SUBSET rows]
      /\ \A m, n \in rows : m = n \/ m \in below[n] \/ n \in below[m]
      /\ \A n \in rows : n \notin below[n]
      /\ \A m, n \in rows : m \in below[n] => below[m] \subseteq below[n]
  BY NoticesOrdered
<1>2. place = [n \in rows |-> 1 + Cardinality(below[n])]
  BY DEF OldestFirst
<1> HIDE DEF below
<1> QED BY SMTT(60), <1>1, <1>2, PlacesOfList

LEMMA NewestFirstPlaces ==
    ASSUME NEW rows \in SUBSET Notices, NEW place, place = NewestFirst(rows)
    PROVE  /\ \A n \in rows : place[n] \in 1..Cardinality(rows)
           /\ Listed(rows, place) \in Seq(Notices)
           /\ Len(Listed(rows, place)) = Cardinality(rows)
           /\ \A n \in rows : Listed(rows, place)[place[n]] = n
<1> DEFINE below == [n \in rows |-> {m \in rows : Before(n, m)}]
<1>1. /\ below \in [rows -> SUBSET rows]
      /\ \A m, n \in rows : m = n \/ m \in below[n] \/ n \in below[m]
      /\ \A n \in rows : n \notin below[n]
      /\ \A m, n \in rows : m \in below[n] => below[m] \subseteq below[n]
  BY NoticesOrdered
<1>2. place = [n \in rows |-> 1 + Cardinality(below[n])]
  BY DEF NewestFirst
<1> HIDE DEF below
<1> QED BY SMTT(60), <1>1, <1>2, PlacesOfList

\* Notices that appear only push others to later places.
LEMMA PlacesGrow ==
    ASSUME NEW rows \in SUBSET Notices, NEW more \in SUBSET Notices, rows \subseteq more,
           NEW n \in rows
    PROVE  /\ NewestFirst(rows)[n] \in Nat /\ NewestFirst(more)[n] \in Nat
           /\ NewestFirst(rows)[n] <= NewestFirst(more)[n]
<1> PICK S, T : S = {m \in rows : Before(n, m)} /\ T = {m \in more : Before(n, m)}
  OBVIOUS
<1>1. S \subseteq T /\ IsFiniteSet(T) /\ IsFiniteSet(S)
  BY NoticesFinite
<1>2. Cardinality(S) <= Cardinality(T) /\ Cardinality(S) \in Nat /\ Cardinality(T) \in Nat
  BY <1>1, FS_Subset, FS_CardinalityType
<1>3. NewestFirst(rows)[n] = 1 + Cardinality(S) /\ NewestFirst(more)[n] = 1 + Cardinality(T)
  BY DEF NewestFirst
<1> QED BY <1>2, <1>3

\* A set of notices that grows and has not become larger is the same.
LEMMA SameFound ==
    ASSUME NEW rows \in SUBSET Notices, NEW more \in SUBSET Notices, rows \subseteq more
    PROVE  /\ Cardinality(rows) \in Nat /\ Cardinality(more) \in Nat
           /\ Cardinality(rows) <= Cardinality(more)
           /\ Cardinality(rows) = Cardinality(more) => rows = more
<1>1. IsFiniteSet(more) /\ Cardinality(rows) \in Nat /\ Cardinality(more) \in Nat
  BY NoticesFinite
<1> QED BY <1>1, FS_Subset

-----------------------------------------------------------------------------
(* What a step does not undo                                                *)

\* Days pass, notices appear and notices are stored: what was settled, planned or
\* done stays so.
LEMMA Grows ==
    ASSUME IngestionTypes, UNCHANGED <<source, due, floor>>, today' \in Nat, today <= today',
           stored \subseteq stored', visible \subseteq visible', visible' \subseteq Notices,
           \A n \in visible' \ visible : DateOf(n) + Overlap >= today
    PROVE  /\ \A x \in Int : Settled(x) => Settled(x)'
           /\ \A x \in Int : Planned(x) => Planned(x)'
           /\ \A c, S : Progress(c, S) => Progress(c, S)'
<1>1. /\ today \in Nat /\ visible \subseteq Notices /\ due \subseteq visible /\ Overlap \in Nat
      /\ \A n \in Notices : DateOf(n) \in Nat
  BY NoticesOrdered, IngestionAssumption DEF IngestionTypes
<1>2. ASSUME NEW x \in Int, Settled(x) PROVE Settled(x)'
  BY <1>1, <1>2 DEF Settled
<1>3. ASSUME NEW x \in Int, Planned(x) PROVE Planned(x)'
  BY <1>1, <1>3 DEF Planned
<1>4. \A a, b : /\ Found(a, b) \in SUBSET Notices /\ Found(a, b)' \in SUBSET Notices
                /\ Found(a, b) \subseteq Found(a, b)'
  BY <1>1 DEF Found
<1>5. ASSUME NEW c, NEW S, DecpProgress(c, S) PROVE DecpProgress(c, S)'
  <2>1. /\ c \in DecpCursor /\ Planned(c.end) /\ c.end \in Int /\ c.total \in Int
    BY <1>5 DEF DecpProgress, DecpCursor
  <2>2. Planned(c.end)'
    BY <1>3, <2>1
  <2> PICK f, g : f = Found(c.next, c.next) /\ g = Found(c.next, c.next)'
    OBVIOUS
  <2>3. /\ f \in SUBSET Notices /\ g \in SUBSET Notices /\ f \subseteq g
    BY <1>4
  <2>4. /\ Cardinality(f) \in Nat /\ Cardinality(g) \in Nat /\ Cardinality(f) <= Cardinality(g)
        /\ Cardinality(f) = Cardinality(g) => f = g
    BY <2>3, SameFound
  <2>5. /\ \A n \in due : DateOf(n) < c.next => n \in S
        /\ c.total = Null => c.offset = 0
        /\ c.total # Null => c.total <= Cardinality(f)
        /\ c.total = Cardinality(f) => \A n \in f : OldestFirst(f)[n] <= c.offset => n \in S
    BY <1>5 DEF DecpProgress
  <2>6. c.total = Cardinality(g) => c.total # Null
    BY <2>4 DEF Null
  <2>7. c.total # Null => c.total <= Cardinality(g)
    BY <2>1, <2>4, <2>5
  <2>8. c.total = Cardinality(g) => f = g
    BY <2>1, <2>4, <2>5, <2>6
  <2>9. c.total = Cardinality(g) => \A n \in g : OldestFirst(g)[n] <= c.offset => n \in S
    BY <2>5, <2>8
  <2> QED BY <2>1, <2>2, <2>5, <2>7, <2>9 DEF DecpProgress
<1>6. ASSUME NEW c, NEW S, TedProgress(c, S) PROVE TedProgress(c, S)'
  <2>1. c \in TedCursor /\ Planned(c.until) /\ c.until \in Int /\ c.page \in Nat /\ c.since \in Int
        /\ (c.complete => c.pending = <<>>)
    BY <1>6 DEF TedProgress, TedCursor
  <2>2. Planned(c.until)'
    BY <1>3, <2>1
  <2> PICK f, g : f = Found(c.since, c.until) /\ g = Found(c.since, c.until)'
    OBVIOUS
  <2>3. /\ f \in SUBSET Notices /\ g \in SUBSET Notices /\ f \subseteq g
    BY <1>4
  <2> PICK b : b = (IF c.pending = <<>> THEN c.page - 1 ELSE c.page) * PageSize
    OBVIOUS
  <2>4. b \in Int
    <3>1. PageSize \in Int
      BY IngestionAssumption
    <3> QED BY <2>1, <3>1
  <2>5. ASSUME NEW n \in due \ (S \union Pending(c))
        PROVE  /\ DateOf(n) >= c.since /\ ~c.complete /\ (c.pending = <<>> \/ c.more)
               /\ NewestFirst(g)[n] > b
    <3>1. /\ DateOf(n) >= c.since /\ ~c.complete /\ (c.pending = <<>> \/ c.more)
          /\ NewestFirst(f)[n] > b
      BY <1>6 DEF TedProgress
    <3>2. n \in f
      BY <1>1, <2>1, <3>1 DEF Planned, Found
    <3>3. /\ NewestFirst(f)[n] \in Nat /\ NewestFirst(g)[n] \in Nat
          /\ NewestFirst(f)[n] <= NewestFirst(g)[n]
      BY <2>3, <3>2, PlacesGrow
    <3> QED BY <2>4, <3>1, <3>3
  <2> QED BY <2>1, <2>2, <2>5 DEF TedProgress
<1>7. ASSUME NEW c, NEW S, Progress(c, S) PROVE Progress(c, S)'
  BY <1>5, <1>6, <1>7 DEF Progress
<1> QED BY <1>2, <1>3, <1>7

\* The more is stored, the more is done.
LEMMA ProgressStays ==
    ASSUME NEW c, NEW S, NEW T, S \subseteq T, Progress(c, S)
    PROVE  Progress(c, T)
<1>1. DecpProgress(c, S) => DecpProgress(c, T)
  BY DEF DecpProgress
<1>2. TedProgress(c, S) => TedProgress(c, T)
  BY DEF TedProgress
<1> QED BY <1>1, <1>2 DEF Progress

\* So a step that writes neither the checkpoint nor the run keeps the invariant,
\* and one that only writes the run keeps the rest of it.
LEMMA CheckpointStays ==
    ASSUME IngestInv, UNCHANGED <<source, due, floor, checkpoint, promised>>,
           today' \in Nat, today <= today',
           stored \subseteq stored', visible \subseteq visible', visible' \subseteq Notices,
           \A n \in visible' \ visible : DateOf(n) + Overlap >= today
    PROVE  /\ Settled(checkpoint.end)'
           /\ checkpoint'.cursor # NoCursor => Progress(checkpoint.cursor, stored)'
           /\ NothingSkipped'
           /\ \A x \in Int : Settled(x) => Settled(x)'
           /\ \A x \in Int : Planned(x) => Planned(x)'
           /\ \A c, S : Progress(c, S) => Progress(c, S)'
<1>1. /\ \A x \in Int : Settled(x) => Settled(x)'
      /\ \A x \in Int : Planned(x) => Planned(x)'
      /\ \A c, S : Progress(c, S) => Progress(c, S)'
  BY Grows DEF IngestInv
<1> PICK x, c, S, T : x = checkpoint.end /\ c = checkpoint.cursor /\ S = stored /\ T = stored'
  OBVIOUS
<1>2. x \in Int /\ Settled(x) /\ (c # NoCursor => Progress(c, S))
  BY DEF IngestInv, IngestionTypes
<1>3. Settled(x)' /\ x = checkpoint'.end
  BY <1>1, <1>2
<1>4. c # NoCursor => Progress(c, T)'
  <2>1. c # NoCursor => Progress(c, T)
    BY <1>2, ProgressStays
  <2> QED BY <1>1, <2>1
<1>5. NothingSkipped'
  BY DEF IngestInv, NothingSkipped
<1>6. Settled(checkpoint.end)'
  BY <1>3
<1>7. checkpoint'.cursor # NoCursor => Progress(checkpoint.cursor, stored)'
  BY <1>4
<1> QED BY <1>1, <1>5, <1>6, <1>7

-----------------------------------------------------------------------------
(* The steps                                                                *)

\* The calendar and the source; a notice of the batch is stored; the run ends.
LEMMA WorldStep ==
    ASSUME IngestInv, DayPasses \/ NoticeAppears \/ UNCHANGED ingestionVars
    PROVE  IngestInv'
<1>1. /\ UNCHANGED <<source, due, floor, checkpoint, promised, stored, ingest>>
      /\ today' \in Nat /\ today <= today'
      /\ visible \subseteq visible' /\ visible' \subseteq Notices
      /\ \A n \in visible' \ visible : DateOf(n) + Overlap >= today
      /\ \A n \in visible' : DateOf(n) <= today'
  <2>0. /\ today \in Nat /\ visible \subseteq Notices /\ Overlap \in Nat
        /\ \A n \in visible : DateOf(n) <= today
        /\ \A n \in Notices : DateOf(n) \in Nat
    BY NoticesOrdered, IngestionAssumption DEF IngestInv, IngestionTypes
  <2>1. CASE DayPasses
    BY <2>0, <2>1 DEF DayPasses
  <2>2. CASE NoticeAppears
    BY <2>0, <2>2 DEF NoticeAppears
  <2>3. CASE UNCHANGED ingestionVars
    BY <2>0, <2>3 DEF ingestionVars
  <2> QED BY <2>1, <2>2, <2>3
<1>2. /\ Settled(checkpoint.end)'
      /\ checkpoint'.cursor # NoCursor => Progress(checkpoint.cursor, stored)'
      /\ NothingSkipped'
      /\ \A x \in Int : Settled(x) => Settled(x)'
      /\ \A x \in Int : Planned(x) => Planned(x)'
      /\ \A c, S : Progress(c, S) => Progress(c, S)'
  BY <1>1, CheckpointStays
<1>3. IngestionTypes'
  BY <1>1 DEF IngestInv, IngestionTypes
<1>4. RunProgress(ingest)'
  <2> PICK j, S : j = ingest /\ S = stored \union ingest.batch
    OBVIOUS
  <2>1. j' = j /\ S = (stored \union ingest.batch)' /\ ingest' = j
    BY <1>1
  <2>2. RunProgress(j)
    BY DEF IngestInv
  <2>3. RunProgress(j)'
    BY <1>1, <1>2, <2>2 DEF RunProgress
  <2> QED BY <2>1, <2>3
<1> QED BY <1>2, <1>3, <1>4 DEF IngestInv

\* The run is over; nothing but the run is written.
LEMMA EndStep ==
    ASSUME IngestInv, RunEnds
    PROVE  IngestInv'
<1>1. /\ ingest' = NoIngest
      /\ UNCHANGED <<source, today, visible, checkpoint, stored, floor, due, promised>>
      /\ today' \in Nat /\ today <= today' /\ visible' \subseteq Notices
  BY DEF RunEnds, IngestInv, IngestionTypes
<1>2. /\ Settled(checkpoint.end)'
      /\ checkpoint'.cursor # NoCursor => Progress(checkpoint.cursor, stored)'
      /\ NothingSkipped'
  BY <1>1, CheckpointStays
<1>3. IngestionTypes'
  BY <1>1 DEF IngestInv, IngestionTypes, NoIngest
<1>4. RunProgress(ingest)'
  BY <1>1 DEF RunProgress, NoIngest
<1> QED BY <1>2, <1>3, <1>4 DEF IngestInv

\* A notice of the batch is stored: what is stored or in the batch is the same.
LEMMA ProcessStep ==
    ASSUME IngestInv, ProcessNotice
    PROVE  IngestInv'
<1> PICK j : j = ingest
  OBVIOUS
<1>1. PICK n \in j.batch :
        /\ j.pc = "process" /\ stored' = stored \union {n}
        /\ ingest' = [j EXCEPT !.batch = j.batch \ {n}]
        /\ UNCHANGED <<source, today, visible, checkpoint, floor, due, promised>>
  BY DEF ProcessNotice
<1>2. j = [pc |-> j.pc, until |-> j.until, previous |-> j.previous, cursor |-> j.cursor,
           after |-> j.after, batch |-> j.batch, broken |-> j.broken]
  BY DEF IngestInv, IngestionTypes
<1>3. ingest' = [pc |-> j.pc, until |-> j.until, previous |-> j.previous, cursor |-> j.cursor,
                 after |-> j.after, batch |-> j.batch \ {n}, broken |-> j.broken]
  BY <1>1, <1>2
<1> PICK i : i = ingest'
  OBVIOUS
<1>4. /\ i.pc = j.pc /\ i.until = j.until /\ i.previous = j.previous /\ i.cursor = j.cursor
      /\ i.after = j.after /\ i.batch = j.batch \ {n} /\ i.broken = j.broken
  BY <1>3
<1>5. /\ today' \in Nat /\ today <= today' /\ visible' \subseteq Notices
      /\ UNCHANGED <<source, today, visible, checkpoint, floor, due, promised>>
      /\ stored \subseteq stored'
  BY <1>1 DEF IngestInv, IngestionTypes
<1>6. /\ Settled(checkpoint.end)'
      /\ checkpoint'.cursor # NoCursor => Progress(checkpoint.cursor, stored)'
      /\ NothingSkipped'
      /\ \A x \in Int : Settled(x) => Settled(x)'
      /\ \A x \in Int : Planned(x) => Planned(x)'
      /\ \A c, S : Progress(c, S) => Progress(c, S)'
  BY <1>5, CheckpointStays
<1>7. stored' \union i.batch = stored \union j.batch
  BY <1>1, <1>4
<1>8. IngestionTypes'
  BY <1>1, <1>3, <1>4, <1>5 DEF IngestInv, IngestionTypes
<1>9. RunProgress(i)'
  <2> PICK S : S = stored \union j.batch
    OBVIOUS
  <2>1. RunProgress(j)
    BY DEF IngestInv
  <2>2. ~j.broken => Progress(i.after, stored \union i.batch)'
    <3>1. ~j.broken => Progress(j.after, S)
      BY <1>1, <2>1 DEF RunProgress
    <3>2. ~j.broken => Progress(j.after, S)'
      BY <1>6, <3>1
    <3> QED BY <1>4, <1>7, <3>2
  <2> QED BY <1>1, <1>4, <1>5, <1>6, <1>7, <2>1, <2>2 DEF RunProgress
<1> QED BY <1>6, <1>8, <1>9 DEF IngestInv

\* A unit is acquired: what the run then knows.
LEMMA AcquireStep ==
    ASSUME IngestInv, ingest.pc = "acquire", NEW batch, NEW broken \in BOOLEAN, NEW after,
           Acquired(batch, broken, after),
           ~broken => Progress(after, stored \union batch),
           ~broken /\ source = "window" => due \subseteq stored \union batch,
           source = "decp" => /\ ingest.cursor.next <= ingest.cursor.end
                              /\ after.end = ingest.cursor.end
                              /\ after.next \in {ingest.cursor.next, ingest.cursor.next + 1},
           source = "ted" => after.until = ingest.cursor.until
    PROVE  IngestInv'
<1> PICK j, i : j = ingest /\ i = ingest'
  OBVIOUS
<1>1. /\ i = [j EXCEPT !.pc = "process", !.batch = batch, !.broken = broken, !.after = after]
      /\ UNCHANGED <<source, today, visible, checkpoint, stored, floor, due, promised>>
  BY DEF Acquired
<1>2. j = [pc |-> j.pc, until |-> j.until, previous |-> j.previous, cursor |-> j.cursor,
           after |-> j.after, batch |-> j.batch, broken |-> j.broken]
  BY DEF IngestInv, IngestionTypes
<1>3. i = [pc |-> "process", until |-> j.until, previous |-> j.previous, cursor |-> j.cursor,
           after |-> after, batch |-> batch, broken |-> broken]
  BY <1>1, <1>2
<1>4. /\ i.pc = "process" /\ i.until = j.until /\ i.previous = j.previous /\ i.cursor = j.cursor
      /\ i.after = after /\ i.batch = batch /\ i.broken = broken
  BY <1>3
<1>5. today' \in Nat /\ today <= today' /\ visible' \subseteq Notices
  BY <1>1 DEF IngestInv, IngestionTypes
<1>6. /\ Settled(checkpoint.end)'
      /\ checkpoint'.cursor # NoCursor => Progress(checkpoint.cursor, stored)'
      /\ NothingSkipped'
      /\ \A x \in Int : Settled(x) => Settled(x)'
      /\ \A x \in Int : Planned(x) => Planned(x)'
      /\ \A c, S : Progress(c, S) => Progress(c, S)'
  BY <1>1, <1>5, CheckpointStays
<1>7. IngestionTypes'
  BY <1>1, <1>3, <1>4 DEF IngestInv, IngestionTypes
<1>8. RunProgress(i)'
  <2> PICK S : S = stored \union batch
    OBVIOUS
  <2>1. RunProgress(j) /\ j.pc = "acquire"
    BY DEF IngestInv
  <2>2. ~broken => Progress(i.after, stored \union i.batch)'
    <3>1. ~broken => Progress(after, S)'
      BY <1>6
    <3> QED BY <1>1, <1>4, <3>1
  <2> QED BY <1>1, <1>4, <1>6, <2>1, <2>2 DEF RunProgress
<1> QED BY <1>6, <1>7, <1>8 DEF IngestInv

\* The days of a window in one piece.
LEMMA WindowStep ==
    ASSUME IngestInv, AcquireWindow
    PROVE  IngestInv'
<1> PICK j, rows : j = ingest /\ rows = Found(ingest.cursor.since, ingest.until)
  OBVIOUS
<1>1. source = "window" /\ j.pc = "acquire" /\ Acquires(rows, j.cursor)
  BY DEF AcquireWindow
<1>2. /\ Planned(j.until) /\ \A n \in due : n \in stored \/ DateOf(n) >= j.cursor.since
      /\ j.until \in Int /\ j.cursor.since \in Int
  BY <1>1 DEF IngestInv, RunProgress
<1>3. due \subseteq stored \union rows
  <2> SUFFICES ASSUME NEW n \in due, n \notin stored PROVE n \in rows
    OBVIOUS
  <2>1. n \in visible /\ DateOf(n) \in Int
    BY NoticesOrdered DEF IngestInv, IngestionTypes
  <2>2. DateOf(n) >= j.cursor.since /\ DateOf(n) <= j.until
    BY <1>2 DEF Planned
  <2> QED BY <1>2, <2>1, <2>2 DEF Found
<1>4. \A c, S : Progress(c, S)
  BY <1>1 DEF Progress
<1>5. CASE Acquired(rows, FALSE, j.cursor)
  BY <1>1, <1>3, <1>4, <1>5, AcquireStep
<1>6. ASSUME NEW part, Acquired(part, TRUE, j.cursor) PROVE IngestInv'
  BY <1>1, <1>6, AcquireStep
<1> QED BY <1>1, <1>5, <1>6 DEF Acquires

\* What a run that acquires knows of its cycle.
LEMMA CursorKnown ==
    ASSUME IngestInv, ingest.pc = "acquire"
    PROVE  /\ source = "decp" => DecpProgress(ingest.cursor, stored)
           /\ source = "ted" => TedProgress(ingest.cursor, stored)
BY DEF IngestInv, RunProgress, Progress

\* The next batch of a day: from the first of the day that is not known to be done.
LEMMA BatchStep ==
    ASSUME IngestInv, AcquireBatch
    PROVE  IngestInv'
<1> PICK c : c = ingest.cursor
  OBVIOUS
<1> PICK found : found = Found(c.next, c.next)
  OBVIOUS
<1> PICK place : place = OldestFirst(found)
  OBVIOUS
<1> PICK rows : rows = Listed(found, place)
  OBVIOUS
<1> PICK total : total = Cardinality(found)
  OBVIOUS
<1> PICK offset : offset = IF c.total \in {Null, total} THEN c.offset ELSE 0
  OBVIOUS
<1> PICK next : next = Smaller(offset + PageSize, total)
  OBVIOUS
<1> PICK batch : batch = {rows[i] : i \in (offset + 1)..next}
  OBVIOUS
<1> PICK after : after = AdvanceDecpBatch(c, next, total)
  OBVIOUS
<1>1. /\ source = "decp" /\ ingest.pc = "acquire" /\ ~DecpComplete(c)
      /\ Acquires(batch, after)
  BY DEF AcquireBatch
<1>2. DecpProgress(c, stored) /\ c \in DecpCursor /\ Planned(c.end)
  BY <1>1, CursorKnown DEF DecpProgress
<1>3. /\ c.end \in Int /\ c.next \in Int /\ c.offset \in Nat /\ c.total \in Int
      /\ c.kind = "decp"
  BY <1>2 DEF DecpCursor
<1>4. c.next <= c.end
  BY <1>1, <1>3 DEF DecpComplete
<1>5. found \in SUBSET Notices /\ total \in Nat /\ visible \subseteq Notices /\ due \subseteq visible
  BY NoticesFinite DEF Found, IngestInv, IngestionTypes
<1>6. /\ \A n \in found : place[n] \in 1..total
      /\ \A n \in found : rows[place[n]] = n
  BY <1>5, OldestFirstPlaces
<1>7. offset \in Nat /\ next \in Nat /\ next <= total
  BY <1>3, <1>5, IngestionAssumption DEF Smaller
<1>8. \A n \in found : place[n] <= offset => n \in stored
  <2>1. /\ c.total = Null => c.offset = 0
        /\ c.total = total => \A n \in found : place[n] <= c.offset => n \in stored
    BY <1>2 DEF DecpProgress
  <2>2. \A n \in found : ~(place[n] <= 0)
    BY <1>5, <1>6
  <2> QED BY <2>1, <2>2
<1>9. \A n \in found : place[n] <= next => n \in stored \union batch
  <2> SUFFICES ASSUME NEW n \in found, place[n] <= next, n \notin stored PROVE n \in batch
    OBVIOUS
  <2>1. place[n] \in (offset + 1)..next
    <3>1. ~(place[n] <= offset) /\ place[n] \in 1..total /\ place[n] <= next
      BY <1>6, <1>8
    <3>2. offset \in Nat /\ next \in Nat /\ total \in Nat
      BY <1>5, <1>7
    <3> PICK i : i = place[n]
      OBVIOUS
    <3>3. ~(i <= offset) /\ i \in 1..total /\ i <= next
      BY Zenon, <3>1
    <3>4. i \in (offset + 1)..next
      BY ONLY <3>2, <3>3
    <3> QED BY Zenon, <3>4
  <2> QED BY <1>6, <2>1
<1>10. /\ after \in DecpCursor /\ after.end = c.end
       /\ IF next = total
            THEN after.next = c.next + 1 /\ after.offset = 0 /\ after.total = Null
            ELSE after.next = c.next /\ after.offset = next /\ after.total = total
  <2>1. CASE next = total
    <3>1. after = [c EXCEPT !.next = c.next + 1, !.offset = 0, !.total = Null]
      BY <2>1 DEF AdvanceDecpBatch
    <3>2. Null \in Int /\ c.next + 1 \in Int
      BY <1>3 DEF Null
    <3>3. /\ after \in DecpCursor /\ after.end = c.end
          /\ after.next = c.next + 1 /\ after.offset = 0 /\ after.total = Null
      BY ONLY <1>2, <3>1, <3>2 DEF DecpCursor
    <3> QED BY <2>1, <3>3
  <2>2. CASE next # total
    <3>1. after = [c EXCEPT !.offset = next, !.total = total]
      BY <2>2 DEF AdvanceDecpBatch
    <3>2. /\ after \in DecpCursor /\ after.end = c.end
          /\ after.next = c.next /\ after.offset = next /\ after.total = total
      <4>1. c \in DecpCursor
        BY <1>2
      <4>2. next \in Nat
        BY <1>7
      <4>3. total \in Int
        BY <1>5
      <4> QED BY ONLY <3>1, <4>1, <4>2, <4>3 DEF DecpCursor
    <3> QED BY <2>2, <3>2
  <2> QED BY ZenonT(60), <2>1, <2>2
<1>11. \A n \in due : DateOf(n) < c.next => n \in stored
  BY <1>2 DEF DecpProgress
<1>12. DecpProgress(after, stored \union batch)
  <2>1. CASE next = total
    <3>1. ASSUME NEW n \in due, DateOf(n) < after.next PROVE n \in stored \union batch
      <4>1. DateOf(n) \in Int
        BY <1>5, NoticesOrdered
      <4>2. CASE DateOf(n) < c.next
        BY ZenonT(60), <1>11, <4>2
      <4>3. CASE DateOf(n) = c.next
        <5>1. n \in found
          BY <1>3, <1>5, <4>3 DEF Found
        <5> QED BY <1>6, <1>5, <1>9, <2>1, <5>1
      <4> QED BY <1>3, <1>10, <2>1, <3>1, <4>1, <4>2, <4>3
    <3>2. Cardinality(Found(after.next, after.next)) \in Nat
      <4>1. Found(after.next, after.next) \in SUBSET Notices
        BY <1>5 DEF Found
      <4> QED BY <4>1, NoticesFinite
    <3>3. Cardinality(Found(after.next, after.next)) # Null
      BY ONLY <3>2 DEF Null
    <3> QED BY ZenonT(60), <1>2, <1>10, <2>1, <3>1, <3>3 DEF DecpProgress
  <2>2. CASE next # total
    <3>1. \A n \in due : DateOf(n) < after.next => n \in stored \union batch
      BY <1>10, <1>11, <2>2
    <3>2. after.total # Null /\ after.total <= Cardinality(Found(after.next, after.next))
      BY <1>5, <1>10, <2>2 DEF Null
    <3>3. LET f == Found(after.next, after.next)
          IN  \A n \in f : OldestFirst(f)[n] <= after.offset => n \in stored \union batch
      <4>1. /\ Found(after.next, after.next) = found /\ OldestFirst(found) = place
            /\ after.offset = next
        BY <1>10, <2>2
      <4> QED BY ONLY <1>9, <4>1
    <3> QED BY ZenonT(60), <1>2, <1>10, <3>1, <3>2, <3>3 DEF DecpProgress
  <2> QED BY ZenonT(60), <2>1, <2>2
<1>13. after.next \in {c.next, c.next + 1}
  BY ZenonT(60), <1>10
<1>14. Progress(after, stored \union batch)
  BY ZenonT(60), <1>1, <1>12 DEF Progress
<1>15. CASE Acquired(batch, FALSE, after)
  BY ZenonT(60), <1>1, <1>4, <1>10, <1>13, <1>14, <1>15, AcquireStep
<1>16. ASSUME NEW part, Acquired(part, TRUE, after) PROVE IngestInv'
  BY <1>1, <1>4, <1>10, <1>13, <1>16, AcquireStep
<1> QED BY <1>1, <1>15, <1>16 DEF Acquires

\* The next page ends PageSize places further on.
LEMMA NextPage ==
    ASSUME NEW p \in Nat \ {0}
    PROVE  /\ (p - 1) * PageSize \in Nat /\ p * PageSize \in Nat
           /\ p * PageSize = (p - 1) * PageSize + PageSize
           /\ (p - 1) * PageSize < p * PageSize
<1> PICK q \in Nat : q = p - 1
  OBVIOUS
<1>1. PageSize \in Nat /\ PageSize >= 1 /\ p = q + 1
  BY IngestionAssumption
<1>2. q * PageSize \in Nat /\ (q + 1) * PageSize = q * PageSize + PageSize
  BY <1>1
<1> QED BY <1>1, <1>2

\* A search page, behind the pages that were read.
LEMMA PageStep ==
    ASSUME IngestInv, AcquireUnit, ingest.cursor.pending = <<>>
    PROVE  IngestInv'
<1> PICK c : c = ingest.cursor
  OBVIOUS
<1> PICK found : found = Found(c.since, c.until)
  OBVIOUS
<1> PICK place : place = NewestFirst(found)
  OBVIOUS
<1> PICK rows : rows = Listed(found, place)
  OBVIOUS
<1> PICK total : total = Cardinality(found)
  OBVIOUS
<1> PICK a, b : a = (c.page - 1) * PageSize /\ b = c.page * PageSize
  OBVIOUS
<1> PICK page : page = SubSeq(rows, a + 1, Smaller(b, total))
  OBVIOUS
<1> PICK after : after = RecordTedSearchPage(c, page, total)
  OBVIOUS
<1>1. /\ source = "ted" /\ ingest.pc = "acquire" /\ ~c.complete /\ c.pending = <<>>
      /\ Acquired({}, FALSE, after)
  BY DEF AcquireUnit
<1>2. TedProgress(c, stored) /\ c \in TedCursor /\ Planned(c.until)
  BY <1>1, CursorKnown DEF TedProgress
<1>3. c.since \in Int /\ c.until \in Int /\ c.page \in Nat \ {0}
  BY <1>2 DEF TedCursor
<1>4. found \in SUBSET Notices /\ total \in Nat /\ visible \subseteq Notices /\ due \subseteq visible
  BY NoticesFinite DEF Found, IngestInv, IngestionTypes
<1>5. /\ \A n \in found : place[n] \in 1..total
      /\ \A n \in found : rows[place[n]] = n
      /\ rows \in Seq(Notices) /\ Len(rows) = total
  BY <1>4, NewestFirstPlaces
<1>6. a \in Nat /\ b \in Nat /\ a < b
  BY <1>3, NextPage
<1>7. /\ page \in Seq(Notices) /\ (page = <<>> => total <= a)
      /\ \A k \in 1..total : a < k /\ k <= b => \E i \in 1..Len(page) : page[i] = rows[k]
  <2>mz. PICK m, z : m = a + 1 /\ z = Smaller(b, total)
    OBVIOUS
  <2>0. rows \in Seq(Notices) /\ Len(rows) = total /\ a \in Nat /\ b \in Nat /\ a < b
    BY <1>5, <1>6
  <2>1. total \in Nat /\ \A i \in 1..total : rows[i] \in Notices
    BY <1>4, <2>0, ElementOfSeq
  <2>2. z \in Int /\ z <= total /\ z <= b /\ (z = b \/ z = total) /\ m \in Int /\ m = a + 1
    <3>1. total \in Nat /\ a \in Nat /\ b \in Nat
      BY <2>0, <2>1
    <3> QED BY ONLY <2>mz, <3>1 DEF Smaller
  <2>3. \A i \in m..z : rows[i] \in Notices
    BY ONLY <2>0, <2>1, <2>2
  <2>4. page = SubSeq(rows, m, z)
    BY <2>mz
  <2>5. /\ page \in Seq(Notices)
        /\ Len(page) = IF m <= z THEN z - m + 1 ELSE 0
        /\ \A i \in 1..(z - m + 1) : page[i] = rows[m + i - 1]
    <3>1. m \in Int /\ z \in Int
      BY <2>2
    <3> QED BY ONLY <2>3, <2>4, <3>1, SubSeqProperties
  <2>6. ASSUME page = <<>> PROVE total <= a
    <3>1. Len(page) = 0
      BY ONLY <2>6
    <3>2. ~(m <= z)
      BY ONLY <2>2, <2>5, <3>1
    <3> QED BY ONLY <2>0, <2>1, <2>2, <3>2
  <2>7. ASSUME NEW k \in 1..total, a < k, k <= b
        PROVE  \E i \in 1..Len(page) : page[i] = rows[k]
    <3>1. PICK i : i = k - a
      OBVIOUS
    <3>2. m <= z /\ i \in 1..(z - m + 1) /\ m + i - 1 = k
      BY ONLY <2>0, <2>1, <2>2, <2>7, <3>1
    <3>3. Len(page) = z - m + 1 /\ page[i] = rows[m + i - 1]
      BY ONLY <2>5, <3>2
    <3> QED BY ONLY <3>2, <3>3
  <2> QED BY ONLY <2>5, <2>6, <2>7
<1>9. ASSUME NEW n \in due, n \notin stored
      PROVE  n \in found /\ DateOf(n) >= c.since /\ place[n] > a /\ place[n] \in 1..total
  <2>1. n \notin Pending(c)
    BY <1>1 DEF Pending
  <2>2. DateOf(n) >= c.since /\ place[n] > a
    BY <1>1, <1>2, <1>9, <2>1 DEF TedProgress
  <2>3. DateOf(n) <= c.until /\ DateOf(n) \in Int /\ n \in visible
    BY <1>2, <1>4, NoticesOrdered DEF Planned
  <2>4. n \in found
    <3>1. DateOf(n) \in c.since..c.until
      BY ONLY <1>3, <2>2, <2>3
    <3> QED BY ONLY <2>3, <3>1, found = Found(c.since, c.until) DEF Found
  <2> QED BY <1>5, <2>2, <2>4
<1>10. CASE page = <<>>
  <2>1. after = [c EXCEPT !.more = FALSE, !.complete = TRUE]
    BY <1>10 DEF RecordTedSearchPage
  <2>2. after \in TedCursor /\ after.until = c.until /\ after.pending = <<>> /\ after.complete
    BY <1>1, <1>2, <2>1 DEF TedCursor
  <2>3. total <= a
    BY <1>7, <1>10
  <2>4. due \subseteq stored
    <3>1. \A i \in 1..total : ~(i > a)
      BY ONLY <1>4, <1>6, <2>3
    <3> QED BY ONLY <1>9, <3>1
  <2>5. TedProgress(after, stored \union {})
    BY ZenonT(60), <1>2, <2>2, <2>4 DEF TedProgress
  <2>6. Progress(after, stored \union {})
    BY <1>1, <2>5 DEF Progress
  <2> QED BY <1>1, <2>2, <2>6, AcquireStep
<1>11. CASE page # <<>>
  <2>1. after = [c EXCEPT !.pending = page, !.more = b < total]
    BY <1>11 DEF RecordTedSearchPage
  <2>2. /\ after \in TedCursor /\ after.until = c.until /\ after.since = c.since
        /\ after.pending = page /\ after.page = c.page /\ after.complete = c.complete
        /\ after.more = (b < total)
    <3> PICK flag : flag = (b < total)
      OBVIOUS
    <3>1. flag \in BOOLEAN
      BY <1>4, <1>6
    <3>2. c \in TedCursor
      BY ZenonT(60), <1>2
    <3>3. page \in Seq(Notices)
      BY <1>7
    <3>4. after = [c EXCEPT !.pending = page, !.more = flag]
      BY <2>1
    <3>5. /\ after \in TedCursor /\ after.until = c.until /\ after.since = c.since
          /\ after.pending = page /\ after.page = c.page /\ after.complete = c.complete
          /\ after.more = flag
      BY ONLY <3>1, <3>2, <3>3, <3>4 DEF TedCursor
    <3> QED BY <3>5
  <2>3. ASSUME NEW n \in due, n \notin stored, n \notin Pending(after)
        PROVE  place[n] > b /\ b < total /\ DateOf(n) >= c.since
    <3>1. n \in found /\ DateOf(n) >= c.since /\ place[n] > a /\ place[n] \in 1..total
      BY ZenonT(60), <1>9, <2>3
    <3>2. ASSUME place[n] <= b PROVE FALSE
      <4>1. PICK k \in 1..total : k = place[n]
        BY <3>1
      <4>2. a < k /\ k <= b
        BY <1>4, <1>6, <3>1, <3>2, <4>1
      <4>3. PICK i \in 1..Len(page) : page[i] = rows[k]
        BY ONLY ZenonT(60), <1>7, <4>1, <4>2
      <4>4. page[i] = n
        BY <1>5, <3>1, <4>1, <4>3
      <4> QED BY ZenonT(60), <2>2, <2>3, <4>3, <4>4 DEF Pending
    <3> QED BY <1>4, <1>6, <3>1, <3>2
  <2>4. TedProgress(after, stored \union {})
    <3>1. ASSUME NEW n \in due \ ((stored \union {}) \union Pending(after))
          PROVE  /\ DateOf(n) >= after.since /\ ~after.complete
                 /\ after.pending = <<>> \/ after.more
                 /\ NewestFirst(Found(after.since, after.until))[n] >
                       (IF after.pending = <<>> THEN after.page - 1 ELSE after.page) * PageSize
      <4>1. n \in due /\ n \notin stored /\ n \notin Pending(after)
        OBVIOUS
      <4>2. place[n] > b /\ b < total /\ DateOf(n) >= c.since
        BY ZenonT(60), <2>3, <4>1
      <4>3. /\ NewestFirst(Found(after.since, after.until)) = place
            /\ (IF after.pending = <<>> THEN after.page - 1 ELSE after.page) * PageSize = b
        BY ZenonT(60), <1>11, <2>2
      <4>4. ~c.complete
        BY <1>1
      <4> QED BY ONLY <2>2, <4>2, <4>3, <4>4
    <3>2. ~after.complete /\ Planned(after.until)
      BY <1>1, <1>2, <2>2
    <3> QED BY ONLY <2>2, <3>1, <3>2 DEF TedProgress
  <2>5. Progress(after, stored \union {})
    BY <1>1, <2>4 DEF Progress
  <2> QED BY ZenonT(60), <1>1, <2>2, <2>5, AcquireStep
<1> QED BY <1>10, <1>11

\* The next notice of the page.
LEMMA NoticeStep ==
    ASSUME IngestInv, AcquireUnit, ingest.cursor.pending # <<>>
    PROVE  IngestInv'
<1> PICK c : c = ingest.cursor
  OBVIOUS
<1> PICK h, t : h = Head(c.pending) /\ t = Tail(c.pending)
  OBVIOUS
<1> PICK after : after = AdvanceTedNotice(c)
  OBVIOUS
<1>1. /\ source = "ted" /\ ingest.pc = "acquire" /\ ~c.complete /\ c.pending # <<>>
      /\ Acquired({h}, FALSE, after)
  BY DEF AcquireUnit
<1>2. TedProgress(c, stored) /\ c \in TedCursor /\ Planned(c.until)
  BY <1>1, CursorKnown DEF TedProgress
<1>3. c.pending \in Seq(Notices) /\ c.page \in Nat \ {0}
  BY <1>2 DEF TedCursor
<1>4. /\ t \in Seq(Notices) /\ Len(t) = Len(c.pending) - 1 /\ Len(c.pending) \in Nat
      /\ \A i \in 1..Len(t) : t[i] = c.pending[i + 1]
      /\ h = c.pending[1]
  BY <1>1, <1>3, HeadTailProperties, LenProperties
<1>5. \A n \in Pending(c) : n = h \/ \E i \in 1..Len(t) : t[i] = n
  <2>1. ASSUME NEW k \in 1..Len(c.pending), c.pending[k] # h
        PROVE  \E i \in 1..Len(t) : t[i] = c.pending[k]
    <3>1. k # 1
      BY ONLY <1>4, <2>1
    <3>2. k - 1 \in 1..Len(t) /\ (k - 1) + 1 = k
      BY ONLY <1>4, <3>1, k \in 1..Len(c.pending)
    <3> QED BY ONLY <1>4, <3>2
  <2> QED BY ONLY <2>1 DEF Pending
<1>6. CASE Len(c.pending) > 1
  <2>1. after = [c EXCEPT !.pending = t]
    BY <1>6 DEF AdvanceTedNotice
  <2>2. /\ after \in TedCursor /\ after.until = c.until /\ after.since = c.since
        /\ after.pending = t /\ after.page = c.page /\ after.complete = c.complete
        /\ after.more = c.more
    BY <1>2, <1>4, <2>1 DEF TedCursor
  <2>3. t # <<>>
    <3>1. Len(t) # 0
      BY <1>4, <1>6
    <3> QED BY <3>1
  <2>4. \A n \in due \ ((stored \union {h}) \union Pending(after)) :
           n \in due \ (stored \union Pending(c))
    <3>1. Pending(after) = {t[i] : i \in 1..Len(t)}
      BY <2>2 DEF Pending
    <3> QED BY ONLY <1>5, <3>1
  <2>5. TedProgress(after, stored \union {h})
    BY <1>1, <1>2, <2>2, <2>3, <2>4 DEF TedProgress
  <2>6. Progress(after, stored \union {h})
    BY <1>1, <2>5 DEF Progress
  <2> QED BY <1>1, <2>2, <2>6, AcquireStep
<1>7. CASE ~(Len(c.pending) > 1)
  <2>0. Pending(c) \subseteq {h}
    <3>1. Len(t) \in Int /\ Len(t) <= 0
      BY <1>4, <1>7
    <3> QED BY <1>5, <3>1
  <2>1. CASE c.more
    <3>1. after = [c EXCEPT !.page = c.page + 1, !.pending = <<>>]
      BY <1>7, <2>1 DEF AdvanceTedNotice
    <3>2. c.page + 1 \in Nat \ {0} /\ (c.page + 1) - 1 = c.page /\ <<>> \in Seq(Notices)
      BY <1>3
    <3>3. /\ after \in TedCursor /\ after.until = c.until /\ after.since = c.since
          /\ after.pending = <<>> /\ after.page = c.page + 1 /\ after.complete = c.complete
      BY <1>2, <3>1, <3>2 DEF TedCursor
    <3>4. \A n \in due \ ((stored \union {h}) \union Pending(after)) :
             n \in due \ (stored \union Pending(c))
      BY <2>0
    <3>5. TedProgress(after, stored \union {h})
      BY <1>1, <1>2, <3>2, <3>3, <3>4 DEF TedProgress
    <3>6. Progress(after, stored \union {h})
      BY <1>1, <3>5 DEF Progress
    <3> QED BY <1>1, <3>3, <3>6, AcquireStep
  <2>2. CASE ~c.more
    <3>1. after = [c EXCEPT !.pending = <<>>, !.complete = TRUE]
      BY <1>7, <2>2 DEF AdvanceTedNotice
    <3>2. <<>> \in Seq(Notices)
      OBVIOUS
    <3>3. after \in TedCursor /\ after.until = c.until /\ after.pending = <<>>
      BY <1>2, <3>1, <3>2 DEF TedCursor
    <3>4. due \subseteq stored \union {h}
      BY <1>1, <1>2, <2>0, <2>2 DEF TedProgress
    <3>5. TedProgress(after, stored \union {h})
      BY <1>2, <3>3, <3>4 DEF TedProgress
    <3>6. Progress(after, stored \union {h})
      BY <1>1, <3>5 DEF Progress
    <3> QED BY <1>1, <3>3, <3>6, AcquireStep
  <2> QED BY <2>1, <2>2
<1> QED BY <1>6, <1>7


-----------------------------------------------------------------------------
(* The start and the end of a cycle                                         *)

\* What a fresh cycle knows: it looks where anything due can be missing.
LEMMA FreshCycle ==
    ASSUME IngestInv, PlansFresh, UNCHANGED <<source, today, visible, stored, promised>>,
           checkpoint'.end = checkpoint.end
    PROVE  /\ floor' \in Int /\ due' \subseteq visible /\ Since \in Int
           /\ Planned(today)' /\ Settled(checkpoint.end)'
           /\ \A n \in due' : DateOf(n) < Since => n \in stored
<1> PICK s, e : s = Since /\ e = checkpoint.end
  OBVIOUS
<1>1. /\ today \in Nat /\ e \in Int /\ floor \in Int /\ visible \subseteq Notices
      /\ \A n \in visible : DateOf(n) \in Nat /\ DateOf(n) <= today
      /\ Overlap \in Nat /\ Lookback \in Nat /\ Settled(e)
  BY NoticesOrdered, IngestionAssumption DEF IngestInv, IngestionTypes
<1>2. s \in Int /\ (e # Null => s = e - Overlap)
  BY <1>1 DEF Since
<1>3. /\ floor' = IF e = Null THEN s ELSE floor
      /\ due' = {n \in visible : DateOf(n) >= floor'}
  BY DEF PlansFresh
<1>4. floor' \in Int
  BY <1>1, <1>2, <1>3
<1>5. Planned(today)'
  BY <1>1, <1>3, <1>4 DEF Planned
<1>6. CASE e = Null
  <2>1. \A n \in visible : ~(DateOf(n) + Overlap < e)
    BY <1>1, <1>6 DEF Null
  <2>2. Settled(e)'
    BY <1>1, <1>6, <2>1 DEF Settled
  <2>3. \A n \in due' : ~(DateOf(n) < s)
    BY <1>1, <1>2, <1>3, <1>6
  <2>4. Settled(checkpoint.end)'
    BY <2>2
  <2> QED BY <1>2, <1>3, <1>4, <1>5, <2>3, <2>4
<1>7. CASE e # Null
  <2>1. floor' = floor
    BY <1>3, <1>7
  <2>2. Settled(e)'
    BY <1>1, <2>1 DEF Settled
  <2>3. Settled(checkpoint.end)'
    BY <2>2
  <2>4. ASSUME NEW n \in due', DateOf(n) < s PROVE n \in stored
    <3>1. n \in visible /\ DateOf(n) >= floor
      BY <1>3, <2>1
    <3>2. DateOf(n) + Overlap < e
      BY <1>1, <1>2, <1>7, <2>4, <3>1
    <3> QED BY <1>1, <3>1, <3>2 DEF Settled
  <2> QED BY <1>2, <1>3, <1>4, <1>5, <2>3, <2>4
<1> QED BY <1>6, <1>7

\* A run begins, on what is known of its cycle.
LEMMA BeginStep ==
    ASSUME IngestInv, NEW c, Begin(c), floor' \in Int, due' \subseteq visible,
           Settled(checkpoint.end)', checkpoint'.end = checkpoint.end,
           checkpoint' = [end |-> checkpoint'.end, cursor |-> checkpoint'.cursor],
           checkpoint'.cursor # NoCursor => Progress(checkpoint.cursor, stored)',
           source # "window" => c # NoCursor /\ checkpoint'.cursor = c,
           source = "window" => /\ Planned(today)' /\ c.since \in Int
                                /\ \A n \in due' : n \in stored \/ DateOf(n) >= c.since
    PROVE  IngestInv'
<1> PICK i, e : i = ingest' /\ e = checkpoint.end
  OBVIOUS
<1>1. /\ i = [pc |-> "acquire", until |-> today, previous |-> e, cursor |-> c,
              after |-> NoCursor, batch |-> {}, broken |-> FALSE]
      /\ UNCHANGED <<source, today, visible, stored, promised>>
  BY DEF Begin, NoIngest
<1>2. i.pc = "acquire" /\ i.until = today /\ i.previous = e /\ i.cursor = c /\ i.broken = FALSE
  BY <1>1
<1>3. IngestionTypes'
  BY <1>1, <1>2 DEF IngestInv, IngestionTypes
<1>4. NothingSkipped'
  BY <1>1 DEF IngestInv, NothingSkipped
<1>5. today \in Int /\ e \in Int /\ Settled(e)'
  BY <1>1 DEF IngestInv, IngestionTypes
<1>6. source = "window" => Planned(i.until)'
  <2>1. source = "window" => Planned(today)'
    OBVIOUS
  <2> QED BY <1>1, <1>2, <2>1 DEF Planned
<1>7. Settled(i.previous)'
  BY <1>2, <1>5
<1>8. RunProgress(i)'
  BY <1>1, <1>2, <1>5, <1>6, <1>7 DEF RunProgress
<1> QED BY <1>3, <1>4, <1>8 DEF IngestInv

\* A run that resumes knows what is known of the cycle it resumes.
LEMMA ResumedCycle ==
    ASSUME IngestInv, NEW c, c = checkpoint.cursor, c # NoCursor, Begin(c), Resumes,
           checkpoint' = [checkpoint EXCEPT !.cursor = c], source # "window"
    PROVE  IngestInv'
<1>1. /\ UNCHANGED <<source, today, visible, stored, promised, floor, due>>
      /\ today' \in Nat /\ today <= today' /\ visible' \subseteq Notices
      /\ floor' \in Int /\ due' \subseteq visible
  BY DEF Begin, Resumes, IngestInv, IngestionTypes
<1>2. /\ \A x \in Int : Settled(x) => Settled(x)'
      /\ \A d, S : Progress(d, S) => Progress(d, S)'
  BY <1>1, Grows DEF IngestInv
<1> PICK e, S : e = checkpoint.end /\ S = stored
  OBVIOUS
<1>3. /\ checkpoint = [end |-> e, cursor |-> c] /\ e \in Int /\ Settled(e) /\ Progress(c, S)
  BY DEF IngestInv, IngestionTypes
<1>4. checkpoint' = [end |-> e, cursor |-> c]
  BY <1>3
<1>5. checkpoint'.end = e /\ checkpoint'.cursor = c /\ Settled(e)' /\ Progress(c, S)'
  BY <1>2, <1>3, <1>4
<1>6. Settled(checkpoint.end)'
  BY <1>5
<1>7. Progress(checkpoint.cursor, stored)'
  BY <1>1, <1>5
<1>8. /\ checkpoint'.end = checkpoint.end
      /\ checkpoint' = [end |-> checkpoint'.end, cursor |-> checkpoint'.cursor]
  BY <1>4, <1>5
<1> QED BY <1>1, <1>5, <1>6, <1>7, <1>8, BeginStep

\* A run that plans a cycle, and knows it under c.
LEMMA PlannedCycle ==
    ASSUME IngestInv, NEW c, c # NoCursor, Begin(c), PlansFresh,
           checkpoint' = [checkpoint EXCEPT !.cursor = c], source # "window",
           Progress(c, stored)'
    PROVE  IngestInv'
<1> PICK e : e = checkpoint.end
  OBVIOUS
<1>1. checkpoint' = [end |-> e, cursor |-> c]
  <2>1. checkpoint = [end |-> e, cursor |-> checkpoint.cursor]
    BY DEF IngestInv, IngestionTypes
  <2> QED BY <2>1
<1>2. checkpoint'.end = checkpoint.end /\ checkpoint'.cursor = c
  BY <1>1
<1>3. UNCHANGED <<source, today, visible, stored, promised>>
  BY DEF Begin
<1>4. floor' \in Int /\ due' \subseteq visible /\ Settled(checkpoint.end)'
  BY <1>2, <1>3, FreshCycle
<1>5. Progress(checkpoint.cursor, stored)'
  BY <1>2
<1>6. checkpoint' = [end |-> checkpoint'.end, cursor |-> checkpoint'.cursor]
  BY <1>1, <1>2
<1> QED BY <1>2, <1>4, <1>5, <1>6, BeginStep

LEMMA StartWindowStep ==
    ASSUME IngestInv, StartWindow
    PROVE  IngestInv'
<1> PICK c : c = [kind |-> "window", since |-> Since]
  OBVIOUS
<1>1. /\ source = "window" /\ Begin(c) /\ PlansFresh /\ checkpoint' = checkpoint
      /\ UNCHANGED <<source, today, visible, stored, promised>>
  BY DEF StartWindow, Begin
<1>2. /\ floor' \in Int /\ due' \subseteq visible /\ Since \in Int
      /\ Planned(today)' /\ Settled(checkpoint.end)'
      /\ \A n \in due' : DateOf(n) < Since => n \in stored
  BY <1>1, FreshCycle
<1>3. c.since = Since
  OBVIOUS
<1>4. \A n \in due' : n \in stored \/ DateOf(n) >= c.since
  <2>1. \A n \in due' : DateOf(n) \in Int
    BY <1>2, NoticesOrdered DEF IngestInv, IngestionTypes
  <2> QED BY <1>2, <1>3, <2>1
<1>5. checkpoint = [end |-> checkpoint.end, cursor |-> checkpoint.cursor]
  BY DEF IngestInv, IngestionTypes
<1>6. Progress(checkpoint.cursor, stored)'
  BY <1>1 DEF Progress
<1> QED BY <1>1, <1>2, <1>3, <1>4, <1>5, <1>6, BeginStep

LEMMA StartDecpStep ==
    ASSUME IngestInv, StartDecp
    PROVE  IngestInv'
<1> PICK kept : kept = checkpoint.cursor
  OBVIOUS
<1> PICK c : c = [kind |-> "decp", end |-> today, next |-> Since, offset |-> 0, total |-> Null]
  OBVIOUS
<1>1. source = "decp"
  BY DEF StartDecp
<1>2. CASE kept # NoCursor /\ (~DecpComplete(kept) \/ today <= kept.end)
  <2>1. Begin(kept) /\ Resumes /\ checkpoint' = [checkpoint EXCEPT !.cursor = kept]
    BY <1>2 DEF StartDecp
  <2> QED BY <1>1, <1>2, <2>1, ResumedCycle
<1>3. CASE ~(kept # NoCursor /\ (~DecpComplete(kept) \/ today <= kept.end))
  <2>1. Begin(c) /\ PlansFresh /\ checkpoint' = [checkpoint EXCEPT !.cursor = c]
    BY <1>3 DEF StartDecp
  <2>2. /\ UNCHANGED <<source, today, visible, stored, promised>>
        /\ checkpoint'.end = checkpoint.end
    BY <2>1 DEF Begin, IngestInv, IngestionTypes
  <2>3. /\ due' \subseteq visible /\ Since \in Int /\ Planned(today)'
        /\ \A n \in due' : DateOf(n) < Since => n \in stored
    BY <2>1, <2>2, FreshCycle
  <2>4. today \in Int /\ visible \subseteq Notices
    BY DEF IngestInv, IngestionTypes
  <2>5. /\ c \in DecpCursor /\ c.end = today /\ c.next = Since /\ c.offset = 0 /\ c.total = Null
        /\ c.kind = "decp"
    BY <2>3, <2>4 DEF DecpCursor, Null
  <2>6. c # NoCursor
    BY <2>5 DEF NoCursor
  <2>7. Cardinality(Found(c.next, c.next)') # Null
    <3>1. Found(c.next, c.next)' \in SUBSET Notices
      BY <2>2, <2>4 DEF Found
    <3>2. Cardinality(Found(c.next, c.next)') \in Nat
      BY <3>1, NoticesFinite
    <3> QED BY <3>2 DEF Null
  <2>8. Planned(c.end)'
    <3>1. PICK d : d = today
      OBVIOUS
    <3>2. Planned(d)'
      BY <2>2, <2>3, <3>1 DEF Planned
    <3> QED BY <2>5, <3>1, <3>2
  <2>9. DecpProgress(c, stored)'
    BY <2>2, <2>3, <2>5, <2>7, <2>8 DEF DecpProgress
  <2>10. Progress(c, stored)'
    BY <1>1, <2>2, <2>9 DEF Progress
  <2> QED BY <1>1, <2>1, <2>6, <2>10, PlannedCycle
<1> QED BY <1>2, <1>3

LEMMA StartTedStep ==
    ASSUME IngestInv, StartTed
    PROVE  IngestInv'
<1> PICK kept : kept = checkpoint.cursor
  OBVIOUS
<1> PICK c : c = [kind |-> "ted", since |-> Since, until |-> today, page |-> 1,
                  pending |-> <<>>, more |-> TRUE, complete |-> FALSE]
  OBVIOUS
<1>1. source = "ted"
  BY DEF StartTed
<1>2. CASE kept # NoCursor /\ ~kept.complete
  <2>1. Begin(kept) /\ Resumes /\ checkpoint' = [checkpoint EXCEPT !.cursor = kept]
    BY <1>2 DEF StartTed
  <2> QED BY <1>1, <1>2, <2>1, ResumedCycle
<1>3. CASE ~(kept # NoCursor /\ ~kept.complete)
  <2>1. Begin(c) /\ PlansFresh /\ checkpoint' = [checkpoint EXCEPT !.cursor = c]
    BY <1>3 DEF StartTed
  <2>2. /\ UNCHANGED <<source, today, visible, stored, promised>>
        /\ checkpoint'.end = checkpoint.end
    BY <2>1 DEF Begin, IngestInv, IngestionTypes
  <2>3. /\ due' \subseteq visible /\ Since \in Int /\ Planned(today)'
        /\ \A n \in due' : DateOf(n) < Since => n \in stored
    BY <2>1, <2>2, FreshCycle
  <2>4. today \in Int /\ visible \subseteq Notices
    BY DEF IngestInv, IngestionTypes
  <2>5. /\ c \in TedCursor /\ c.until = today /\ c.since = Since /\ c.page = 1
        /\ c.pending = <<>> /\ ~c.complete /\ c.kind = "ted"
    BY <2>3, <2>4 DEF TedCursor
  <2>6. c # NoCursor
    BY <2>5 DEF NoCursor
  <2>8. Planned(c.until)'
    <3>1. PICK d : d = today
      OBVIOUS
    <3>2. Planned(d)'
      BY <2>2, <2>3, <3>1 DEF Planned
    <3> QED BY <2>5, <3>1, <3>2
  <2>7. ASSUME NEW n \in due', n \notin stored
        PROVE  /\ DateOf(n) >= c.since
               /\ NewestFirst(Found(c.since, c.until))[n]' >
                     (IF c.pending = <<>> THEN c.page - 1 ELSE c.page) * PageSize
    <3> PICK f : f = Found(c.since, c.until)'
      OBVIOUS
    <3>1. DateOf(n) \in Int /\ n \in visible' /\ DateOf(n) <= c.until
      BY <2>2, <2>3, <2>4, <2>8, NoticesOrdered DEF Planned
    <3>2. DateOf(n) >= c.since
      BY <2>3, <2>5, <2>7, <3>1
    <3>3. n \in f /\ f \in SUBSET Notices
      BY <2>2, <2>3, <2>4, <2>5, <3>1, <3>2 DEF Found
    <3>4. NewestFirst(f)[n] \in 1..Cardinality(f) /\ Cardinality(f) \in Nat
      BY <3>3, NewestFirstPlaces, NoticesFinite
    <3>5. (IF c.pending = <<>> THEN c.page - 1 ELSE c.page) * PageSize = 0
      BY <2>5, IngestionAssumption
    <3>6. NewestFirst(Found(c.since, c.until))[n]' = NewestFirst(f)[n]
      BY DEF NewestFirst
    <3> QED BY <3>2, <3>4, <3>5, <3>6
  <2>9. TedProgress(c, stored)'
    BY <2>2, <2>5, <2>7, <2>8 DEF TedProgress
  <2>10. Progress(c, stored)'
    BY <1>1, <2>2, <2>9 DEF Progress
  <2> QED BY <1>1, <2>1, <2>6, <2>10, PlannedCycle
<1> QED BY <1>2, <1>3

\* Where all that is due is stored, the day it was planned on is settled.
LEMMA DueStored ==
    ASSUME NEW x, Planned(x), due \subseteq stored
    PROVE  Settled(x)
BY DEF Planned, Settled

LEMMA LargerSettled ==
    ASSUME NEW x, NEW y, Settled(x), Settled(y)
    PROVE  Settled(Larger(x, y))
BY DEF Larger

\* A unit is recorded: a finished window, or a cursor moved on.
LEMMA RecordStep ==
    ASSUME IngestInv, RecordUnit
    PROVE  IngestInv'
<1> PICK j, c, after, end, S : /\ j = ingest /\ c = ingest.cursor /\ after = ingest.after
                               /\ end = NewEnd /\ S = stored
  OBVIOUS
<1>1. /\ j.pc = "process" /\ j.batch = {} /\ ~j.broken
      /\ UNCHANGED <<source, today, visible, stored, floor, due>>
      /\ promised' = IF CycleOver THEN due ELSE promised
  BY DEF RecordUnit
<1>2. /\ checkpoint' = [end |-> end, cursor |-> IF source = "window" THEN NoCursor ELSE after]
      /\ ingest' = IF source = "window" THEN NoIngest
                   ELSE [j EXCEPT !.pc = "acquire", !.cursor = after, !.after = NoCursor]
  BY DEF RecordUnit
<1>3. /\ today \in Nat /\ today' \in Nat /\ today <= today' /\ visible' \subseteq Notices
      /\ visible \subseteq Notices /\ due \subseteq visible /\ Overlap \in Nat
      /\ \A n \in Notices : DateOf(n) \in Nat
  BY <1>1, NoticesOrdered, IngestionAssumption DEF IngestInv, IngestionTypes
<1>4. /\ \A x \in Int : Settled(x) => Settled(x)'
      /\ \A x \in Int : Planned(x) => Planned(x)'
      /\ \A d, T : Progress(d, T) => Progress(d, T)'
  BY <1>1, <1>3, Grows DEF IngestInv
<1>5. /\ j.previous \in Int /\ j.until \in Int /\ Settled(j.previous)
      /\ Progress(after, S)
      /\ source = "window" => Planned(j.until) /\ due \subseteq stored
      /\ source # "window" => checkpoint.cursor # NoCursor /\ c = checkpoint.cursor
      /\ source = "decp" => c.next <= c.end /\ after.end = c.end
                            /\ after.next \in {c.next, c.next + 1}
      /\ source = "ted" => after.until = c.until
  <2>1. RunProgress(j)
    BY DEF IngestInv
  <2>2. stored \union j.batch = S
    BY <1>1
  <2> QED BY <1>1, <2>1, <2>2 DEF RunProgress
<1>6. source # "window" => Progress(c, S)
  BY <1>5 DEF IngestInv
<1>7. checkpoint.end \in Int /\ Settled(checkpoint.end)
  BY DEF IngestInv, IngestionTypes
<1>8. source \in {"window", "decp", "ted"}
  BY DEF IngestInv, IngestionTypes
<1>9. /\ end \in Int /\ Settled(end)
      /\ CycleOver => due \subseteq stored
      /\ source # "window" => after # NoCursor
  <2>1. CASE source = "window"
    <3>1. end = j.until
      BY <2>1 DEF NewEnd
    <3> QED BY <1>5, <2>1, <3>1, DueStored
  <2>2. CASE source = "decp"
    <3>1. DecpProgress(after, S) /\ DecpProgress(c, S)
      BY <1>5, <1>6, <2>2 DEF Progress
    <3>2. /\ after.kind = "decp" /\ after.next \in Int /\ after.end \in Int
          /\ c.next \in Int /\ c.end \in Int
          /\ Planned(c.end) /\ Planned(after.end)
          /\ \A n \in due : DateOf(n) < after.next => n \in stored
      BY <3>1 DEF DecpProgress, DecpCursor
    <3>3. CycleOver => due \subseteq stored
      <4>1. CycleOver => after.next > after.end
        BY <2>2 DEF CycleOver, DecpComplete
      <4> QED BY <1>3, <3>2, <4>1 DEF Planned
    <3>4. after # NoCursor
      BY <3>2 DEF NoCursor
    <3>5. CASE after.next # c.next
      <4>1. end = Larger(j.previous, c.next)
        BY <2>2, <3>5 DEF NewEnd, WindowEnd
      <4>2. Settled(c.next)
        <5>1. after.next = c.next + 1 /\ c.next <= c.end
          BY <1>5, <2>2, <3>5
        <5>2. c.next <= today
          BY <1>3, <3>2, <5>1 DEF Planned
        <5>3. ASSUME NEW n \in visible, DateOf(n) >= floor, DateOf(n) + Overlap < c.next
              PROVE  n \in stored
          <6>1. DateOf(n) \in Int /\ DateOf(n) + Overlap < c.end /\ DateOf(n) < after.next
            BY <1>3, <3>2, <5>1, <5>3
          <6>2. n \in due
            BY <3>2, <5>3, <6>1 DEF Planned
          <6> QED BY <3>2, <6>1, <6>2
        <5> QED BY <5>2, <5>3 DEF Settled
      <4>3. Settled(end)
        BY <1>5, <4>1, <4>2, LargerSettled
      <4>4. end \in Int
        BY <1>5, <3>2, <4>1 DEF Larger
      <4> QED BY <3>3, <3>4, <4>3, <4>4
    <3>6. CASE after.next = c.next
      <4>1. end = checkpoint.end
        BY <2>2, <3>6 DEF NewEnd
      <4> QED BY <1>7, <3>3, <3>4, <4>1
    <3> QED BY <3>5, <3>6
  <2>3. CASE source = "ted"
    <3>1. TedProgress(after, S)
      BY <1>5, <2>3 DEF Progress
    <3>2. /\ after.kind = "ted" /\ after.until \in Int /\ Planned(after.until)
      BY <3>1 DEF TedProgress, TedCursor
    <3>3. CycleOver = after.complete
      BY <2>3 DEF CycleOver
    <3>4. after.complete => due \subseteq stored
      <4>1. after.pending = <<>> => Pending(after) = {}
        BY DEF Pending
      <4> QED BY <3>1, <4>1 DEF TedProgress
    <3>5. after # NoCursor
      BY <3>2 DEF NoCursor
    <3>6. CASE after.complete
      <4>1. end = Larger(j.previous, c.until)
        BY <2>3, <3>3, <3>6 DEF NewEnd, WindowEnd
      <4>2. Settled(after.until) /\ c.until = after.until
        BY <1>5, <2>3, <3>2, <3>4, <3>6, DueStored
      <4>3. Settled(end)
        BY <1>5, <4>1, <4>2, LargerSettled
      <4>4. end \in Int
        BY <1>5, <3>2, <4>1, <4>2 DEF Larger
      <4> QED BY <3>3, <3>4, <3>5, <4>3, <4>4
    <3>7. CASE ~after.complete
      <4>1. end = checkpoint.end
        BY <2>3, <3>3, <3>7 DEF NewEnd
      <4> QED BY <1>7, <3>3, <3>5, <3>7, <4>1
    <3> QED BY <3>6, <3>7
  <2> QED BY <1>8, <2>1, <2>2, <2>3
<1>10. NothingSkipped'
  BY <1>1, <1>9 DEF IngestInv, NothingSkipped
<1>11. /\ checkpoint'.end = end
       /\ checkpoint'.cursor = IF source = "window" THEN NoCursor ELSE after
       /\ checkpoint' = [end |-> checkpoint'.end, cursor |-> checkpoint'.cursor]
  BY <1>2
<1>12. Settled(checkpoint.end)'
  <2>1. Settled(end)'
    BY <1>4, <1>9
  <2> QED BY <1>11, <2>1
<1>13. checkpoint'.cursor # NoCursor => Progress(checkpoint.cursor, stored)'
  <2>1. Progress(after, S)'
    BY <1>4, <1>5
  <2> QED BY <1>1, <1>11, <2>1
<1>14. CASE source = "window"
  <2>1. ingest' = NoIngest
    BY <1>2, <1>14
  <2>2. IngestionTypes'
    BY <1>1, <1>9, <1>11, <2>1 DEF IngestInv, IngestionTypes, NoIngest
  <2>3. RunProgress(ingest)'
    BY <2>1 DEF RunProgress, NoIngest
  <2> QED BY <1>10, <1>12, <1>13, <2>2, <2>3 DEF IngestInv
<1>15. CASE source # "window"
  <2> PICK i : i = ingest'
    OBVIOUS
  <2>1. j = [pc |-> j.pc, until |-> j.until, previous |-> j.previous, cursor |-> j.cursor,
             after |-> j.after, batch |-> j.batch, broken |-> j.broken]
    BY DEF IngestInv, IngestionTypes
  <2>2. i = [pc |-> "acquire", until |-> j.until, previous |-> j.previous, cursor |-> after,
             after |-> NoCursor, batch |-> j.batch, broken |-> j.broken]
    BY <1>2, <1>15, <2>1
  <2>3. /\ i.pc = "acquire" /\ i.until = j.until /\ i.previous = j.previous
        /\ i.cursor = after /\ i.broken = j.broken
    BY <2>2
  <2>4. IngestionTypes'
    BY <1>1, <1>9, <1>11, <2>2, <2>3 DEF IngestInv, IngestionTypes
  <2>5. Settled(i.previous)'
    BY <1>4, <1>5, <2>3
  <2>6. i.broken \in BOOLEAN
    BY <1>1, <2>3 DEF IngestInv, RunProgress
  <2>7. RunProgress(i)'
    BY <1>1, <1>5, <1>9, <1>11, <1>15, <2>3, <2>5, <2>6 DEF RunProgress
  <2> QED BY <1>10, <1>12, <1>13, <2>4, <2>7 DEF IngestInv
<1> QED BY <1>14, <1>15

LEMMA IngestStart == IngestionInit => IngestInv
<1> SUFFICES ASSUME IngestionInit PROVE IngestInv
  OBVIOUS
<1>1. IngestionTypes
  BY DEF IngestionInit, IngestionTypes, NoIngest, Null
<1>2. Settled(checkpoint.end) /\ checkpoint.cursor = NoCursor
  BY DEF IngestionInit, Settled, Null
<1>3. RunProgress(ingest)
  BY DEF IngestionInit, RunProgress, NoIngest
<1>4. NothingSkipped
  BY DEF IngestionInit, NothingSkipped
<1> QED BY <1>1, <1>2, <1>3, <1>4 DEF IngestInv

LEMMA IngestStep == IngestInv /\ [IngestionNext]_ingestionVars => IngestInv'
<1> SUFFICES ASSUME IngestInv, [IngestionNext]_ingestionVars PROVE IngestInv'
  OBVIOUS
<1>1. CASE DayPasses \/ NoticeAppears \/ UNCHANGED ingestionVars
  BY <1>1, WorldStep
<1>2. CASE StartWindow
  BY <1>2, StartWindowStep
<1>3. CASE StartDecp
  BY <1>3, StartDecpStep
<1>4. CASE StartTed
  BY <1>4, StartTedStep
<1>5. CASE AcquireWindow
  BY <1>5, WindowStep
<1>6. CASE AcquireBatch
  BY <1>6, BatchStep
<1>7. CASE AcquireUnit
  BY <1>7, PageStep, NoticeStep
<1>8. CASE ProcessNotice
  BY <1>8, ProcessStep
<1>9. CASE RecordUnit
  BY <1>9, RecordStep
<1>10. CASE RunEnds
  BY <1>10, EndStep
<1> QED BY <1>1, <1>2, <1>3, <1>4, <1>5, <1>6, <1>7, <1>8, <1>9, <1>10 DEF IngestionNext

\* Ingestion of any of the three kinds, over any calendar, overlap, lookback and page size:
\* once a cycle is over, every notice that was public when it was planned is stored.
\* Neither the DECP offset, the TED page nor the checkpoint's window end steps over one,
\* whichever runs died and whatever appeared in between (NothingSkipped).
THEOREM IngestionNothingSkipped == IngestionSpec => []NothingSkipped
<1>1. IngestInv => NothingSkipped
  BY DEF IngestInv
<1> QED BY IngestStart, IngestStep, <1>1, PTL DEF IngestionSpec
=============================================================================
