------------------------- MODULE ProspectSendProofs -------------------------
(***************************************************************************)
(* Proofs about ProspectSend, for any number of requests, targets and      *)
(* workers, any number of faults and any number of edits: its types; that  *)
(* no cancelled mail goes out (SendStands is inductive, and implies        *)
(* ActiveOnlyResolved); that no item is stranded, a reservation is held by *)
(* the request that has to settle it, and outcomes are final (HeldInv);    *)
(* and, if no two targets share a mailbox, that an accepted target's lead  *)
(* is its own and carries the mail the console shows, a target is mailed   *)
(* by one request, and the ledger covers the provider (MailInv); and that  *)
(* the daily cap is kept (CapInv).                                         *)
(***************************************************************************)
EXTENDS ProspectSend, FoldLemmas, FiniteSetTheorems, TLAPS

-----------------------------------------------------------------------------
(* Type correctness                                                         *)

\* _counts answers Nil or a final status.
LEMMA FinalStatusType ==
    ASSUME NEW its PROVE FinalStatus(its) \in Ended \cup {Nil}
BY DEF FinalStatus, Ended

\* Releasing the lease keeps a request row well formed.
LEMMA ReleasedType ==
    ASSUME NEW row \in RequestRow, NEW its,
           NEW status \in {"none"} \cup Live \cup Ended
    PROVE  Released(row, its, status) \in RequestRow
<1> DEFINE sent == {t \in Targets : its[t].status = "sent"}
<1>1. Cardinality(sent) \in Nat
  <2>1. IsFiniteSet(sent)
    BY FS_Subset, ConstantsAssumption
  <2> QED BY <2>1, FS_CardinalityType
<1>2. Released(row, its, status) =
        [row EXCEPT !.status = status, !.lease = Nil, !.live = FALSE,
                    !.sent = Cardinality(sent)]
  BY DEF Released
<1> HIDE DEF sent
<1> QED BY <1>1, <1>2 DEF RequestRow

\* Counters of a target row can be incremented.
LEMMA TargetRowType ==
    ASSUME NEW row \in TargetRow
    PROVE  /\ row.version + 1 \in Nat /\ row.mail + 1 \in Nat /\ row.credits + 1 \in Nat
           /\ row.version \in Nat /\ row.mail \in Nat
           /\ row.camp \in Requests \cup {Nil} /\ row.lead \in Lead \cup {Nil}
           /\ row.req \in Requests \cup {Nil} /\ row.credits \in Nat
BY DEF TargetRow

\* Clearing the provider binding keeps a target row well formed.
LEMMA UnboundType ==
    ASSUME NEW row \in TargetRow
    PROVE  Unbound(row) \in TargetRow
BY DEF Unbound, TargetRow

\* Approval, rejection and a founder's return to review.
LEMMA ReviewedType ==
    ASSUME NEW row \in TargetRow
    PROVE  /\ AsApproved(row) \in TargetRow
           /\ AsRejected(row) \in TargetRow
           /\ AsPending(row) \in TargetRow
           /\ Freed(row) \in TargetRow
<1> DEFINE u == Unbound(row)
<1>1. row.version + 1 \in Nat /\ u \in TargetRow /\ u.version + 1 \in Nat
  BY UnboundType, TargetRowType
<1>2. AsRejected(row) = [u EXCEPT !.status = "rejected", !.version = u.version + 1]
  BY DEF AsRejected
<1> HIDE DEF u
<1>3. AsRejected(row) \in TargetRow
  BY <1>1, <1>2 DEF TargetRow
<1>4. AsApproved(row) \in TargetRow
  BY <1>1 DEF TargetRow, AsApproved
<1>5. AsPending(row) \in TargetRow
  BY DEF TargetRow, AsPending
<1>6. Freed(row) \in TargetRow
  BY DEF TargetRow, Freed
<1> QED BY <1>3, <1>4, <1>5, <1>6

\* A mail rendered by a correction or a regeneration.
LEMMA RenderedType ==
    ASSUME NEW row \in TargetRow, NEW c \in {"passed", "failed"}
    PROVE  AsRendered(row, c) \in TargetRow
<1> DEFINE u == Unbound(row)
<1>1. u \in TargetRow /\ u.version + 1 \in Nat /\ u.mail + 1 \in Nat
  BY UnboundType, TargetRowType
<1>2. AsRendered(row, c) =
        [u EXCEPT !.version = u.version + 1, !.mail = u.mail + 1, !.contract = c]
  BY DEF AsRendered
<1> HIDE DEF u
<1> QED BY <1>1, <1>2 DEF TargetRow

\* A mail rendered by a reservation.
LEMMA ReservedType ==
    ASSUME NEW row \in TargetRow, NEW r \in Requests
    PROVE  AsReserved(row, r) \in TargetRow
<1> DEFINE u == Unbound(row)
<1>1. u \in TargetRow /\ u.mail + 1 \in Nat
  BY UnboundType, TargetRowType
<1>2. AsReserved(row, r) = [u EXCEPT !.req = r, !.mail = u.mail + 1]
  BY DEF AsReserved
<1> HIDE DEF u
<1> QED BY <1>1, <1>2 DEF TargetRow

\* A provider binding, with or without a booked credit.
LEMMA BoundType ==
    ASSUME NEW row \in TargetRow, NEW camp \in Requests \cup {Nil},
           NEW lead \in Lead \cup {Nil}, NEW credits \in Nat
    PROVE  BoundTo(row, camp, lead, credits) \in TargetRow
BY DEF TargetRow, BoundTo

\* The outcome a worker writes on a target.
LEMMA OutcomeType ==
    ASSUME NEW row \in TargetRow, NEW status \in {"approved", "sent"},
           NEW r \in Requests \cup {Nil}, NEW camp \in Requests \cup {Nil},
           NEW lead \in Lead \cup {Nil}
    PROVE  Outcome(row, status, r, camp, lead) \in TargetRow
<1>1. row.version + 1 \in Nat
  BY TargetRowType
<1> QED BY <1>1 DEF TargetRow, Outcome

\* A new request and its items.
LEMMA NewRowsType ==
    ASSUME NEW n \in Nat
    PROVE  NewRequest(n) \in RequestRow /\ NewItem(n) \in ItemRow /\ NoItem \in ItemRow
BY DEF NewRequest, NewItem, NoRequest, NoItem, RequestRow, ItemRow, Live

\* What the worker writes on a request row.
LEMMA RequestRowType ==
    ASSUME NEW row \in RequestRow
    PROVE  /\ \A w \in Workers : Claimed(row, w) \in RequestRow
           /\ \A camp \in Requests \cup {Nil} : Renewed(row, camp) \in RequestRow
           /\ \A b \in BOOLEAN : Blocked(row, b) \in RequestRow /\ Activated(row, b) \in RequestRow
           /\ Expired(row) \in RequestRow
           /\ row.camp \in Requests \cup {Nil}
           /\ row.blocked \in BOOLEAN /\ row.activated \in BOOLEAN
<1>1. ASSUME NEW w \in Workers PROVE Claimed(row, w) \in RequestRow
  BY DEF RequestRow, Claimed, Live
<1>2. ASSUME NEW camp \in Requests \cup {Nil} PROVE Renewed(row, camp) \in RequestRow
  BY DEF RequestRow, Renewed
<1>3. ASSUME NEW b \in BOOLEAN
      PROVE Blocked(row, b) \in RequestRow /\ Activated(row, b) \in RequestRow
  BY DEF RequestRow, Blocked, Activated
<1>4. Expired(row) \in RequestRow
  BY DEF RequestRow, Expired
<1>5. /\ row.camp \in Requests \cup {Nil}
      /\ row.blocked \in BOOLEAN /\ row.activated \in BOOLEAN
  BY DEF RequestRow
<1> QED BY <1>1, <1>2, <1>3, <1>4, <1>5

\* What the worker writes on an item row.
LEMMA SettledType ==
    ASSUME NEW it \in ItemRow,
           NEW status \in {"none", "queued", "running", "verification_pending"} \cup Terminal,
           NEW lead \in Lead \cup {Nil}, NEW cause \in {"none", "changed", "invalid"}
    PROVE  Settled(it, status, lead, cause) \in ItemRow
BY DEF ItemRow, Settled

\* The columns of an item row.
LEMMA ItemRowType ==
    ASSUME NEW it \in ItemRow
    PROVE  /\ it.status \in {"none", "queued", "running", "verification_pending"} \cup Terminal
           /\ it.lead \in Lead \cup {Nil}
           /\ it.cause \in {"none", "changed", "invalid"}
           /\ it.version \in Nat
BY DEF ItemRow

\* A process that is not idle holds a well-formed claim.
LEMMA ClaimType ==
    ASSUME TypeOK, NEW w \in Workers, wk[w].pc # "idle"
    PROVE  /\ wk[w] \in ClaimRow
           /\ wk[w].req \in Requests /\ wk[w].tgt \in Targets
           /\ item[wk[w].req] \in [Targets -> ItemRow]
           /\ req[wk[w].req] \in RequestRow
           /\ tgt[wk[w].tgt] \in TargetRow
           /\ Idle \in {Idle} \cup ClaimRow
BY DEF TypeOK, Idle, ClaimRow

\* The initial state is well formed.
LEMMA TypeInit == Init => TypeOK
<1> SUFFICES ASSUME Init PROVE TypeOK
  OBVIOUS
<1>1. tgt \in [Targets -> TargetRow]
  BY DEF Init, Prepared, TargetRow
<1>2. req \in [Requests -> RequestRow]
  BY DEF Init, NoRequest, RequestRow
<1>3. item \in [Requests -> [Targets -> ItemRow]]
  BY DEF Init, NoItem, ItemRow
<1>4. queue \in [Requests -> Seq(Targets)]
  BY DEF Init
<1> QED BY <1>1, <1>2, <1>3, <1>4 DEF Init, TypeOK

\* Founder actions and the provider's verification keep rows well formed.
LEMMA TypeFounder ==
    ASSUME TypeOK,
           \/ FounderStep
           \/ \E r \in Requests, t \in Targets, v \in {"valid", "invalid"} :
                  ProviderVerifies(r, t, v)
    PROVE  TypeOK'
<1>1. ASSUME NEW t \in Targets, Approve(t) PROVE TypeOK'
  <2>1. AsApproved(tgt[t]) \in TargetRow
    BY ReviewedType DEF TypeOK
  <2> QED BY <1>1, <2>1 DEF TypeOK, Approve, provider
<1>2. ASSUME NEW t \in Targets, Reject(t) PROVE TypeOK'
  <2>1. AsRejected(tgt[t]) \in TargetRow
    BY ReviewedType DEF TypeOK
  <2> QED BY <1>2, <2>1 DEF TypeOK, Reject, provider
<1>3. ASSUME NEW t \in Targets, NEW c \in {"passed", "failed"}, Correct(t, c)
      PROVE TypeOK'
  <2>1. AsRendered(tgt[t], c) \in TargetRow
    BY RenderedType DEF TypeOK
  <2>2. AsPending(AsRendered(tgt[t], c)) \in TargetRow
    BY <2>1, ReviewedType
  <2> QED BY <1>3, <2>1, <2>2 DEF TypeOK, Correct, provider
<1>4. ASSUME NEW broken \in SUBSET Targets, RegeneratePendingMail(broken)
      PROVE TypeOK'
  <2>1. \A t \in Targets, c \in {"passed", "failed"} : AsRendered(tgt[t], c) \in TargetRow
    BY RenderedType DEF TypeOK
  <2> QED BY <1>4, <2>1 DEF TypeOK, RegeneratePendingMail, provider
<1>5. ASSUME NEW r \in Requests, NEW order \in Batches, EnqueueSend(r, order)
      PROVE TypeOK'
  <2>1. order \in Seq(Targets) /\ Len(order) \in Nat
    BY FS_CardinalityType, ConstantsAssumption DEF Batches
  <2>2. tgt' \in [Targets -> TargetRow]
    <3>1. \A t \in Targets : AsReserved(tgt[t], r) \in TargetRow
      BY ReservedType DEF TypeOK
    <3> QED BY <1>5, <3>1 DEF TypeOK, EnqueueSend
  <2>3. req' \in [Requests -> RequestRow]
    BY <1>5, <2>1, NewRowsType DEF TypeOK, EnqueueSend
  <2>4. item' \in [Requests -> [Targets -> ItemRow]]
    <3>1. \A t \in Targets : NewItem(tgt[t].version) \in ItemRow /\ NoItem \in ItemRow
      BY NewRowsType, TargetRowType DEF TypeOK
    <3> QED BY <1>5, <3>1 DEF TypeOK, EnqueueSend
  <2>5. queue' \in [Requests -> Seq(Targets)]
    BY <1>5, <2>1 DEF TypeOK, EnqueueSend
  <2> QED BY <1>5, <2>2, <2>3, <2>4, <2>5 DEF TypeOK, EnqueueSend, provider
<1>6. ASSUME ToggleKillSwitch PROVE TypeOK'
  BY <1>6 DEF TypeOK, ToggleKillSwitch, Fault, rows, provider
<1>7. ASSUME NEW r \in Requests, NEW t \in Targets, NEW v \in {"valid", "invalid"},
             ProviderVerifies(r, t, v)
      PROVE TypeOK'
  BY <1>7 DEF TypeOK, ProviderVerifies, rows
<1> QED BY <1>1, <1>2, <1>3, <1>4, <1>5, <1>6, <1>7 DEF FounderStep

-----------------------------------------------------------------------------
\* A request's queue after one of its items was moved to the end.
LEMMA MovedType ==
    ASSUME NEW s \in Seq(Targets), NEW t \in Targets
    PROVE  MovedLast(s, t) \in Seq(Targets)
BY DEF MovedLast

\* The snapshots a process goes through are well formed.
LEMMA SnapshotType ==
    ASSUME NEW c \in ClaimRow
    PROVE  /\ \A pc \in GuardPoints \cup {"get"} :
                 /\ pc \notin Verifying /\ pc # "declare" => GoneTo(c, pc) \in ClaimRow
                 /\ pc # "declare" /\ c.lead \in Lead => GoneTo(c, pc) \in ClaimRow
           /\ \A o \in Operations : Declaring(c, o) \in ClaimRow
           /\ c.pc = "declare" => Permitted(c) \in ClaimRow
           /\ \A pc \in GuardPoints, camp \in Requests \cup {Nil}, lead \in Lead \cup {Nil} :
                 pc # "declare" /\ (pc \in Verifying => lead \in Lead) =>
                    /\ \A mail \in Nat : Snapshot(c, pc, camp, lead, mail) \in ClaimRow
                    /\ \A o : Posted(c, pc, camp, lead, o) \in ClaimRow
<1> DEFINE Base == [pc : GuardPoints \cup {"get"}, req : Requests, tgt : Targets,
                    camp : Requests \cup {Nil}, lead : Lead \cup {Nil}, mail : Nat,
                    op : Operations \cup {Nil}, permits : SUBSET Operations]
<1>0. /\ c \in Base
      /\ c.pc \in Verifying => c.lead \in Lead
      /\ c.pc = "declare" => c.op \in Operations
  BY DEF ClaimRow
<1>a. \A x : x \in Base /\ (x.pc \in Verifying => x.lead \in Lead)
                        /\ (x.pc = "declare" => x.op \in Operations) => x \in ClaimRow
  BY DEF ClaimRow
<1>b. "process" \in GuardPoints /\ "declare" \in GuardPoints
      /\ "process" \notin Verifying /\ "declare" \notin Verifying
  BY DEF GuardPoints, Verifying
<1>1. ASSUME NEW pc \in GuardPoints \cup {"get"}
      PROVE  GoneTo(c, pc) \in Base /\ GoneTo(c, pc).pc = pc
             /\ GoneTo(c, pc).lead = c.lead
  BY <1>0 DEF GoneTo
<1>2. ASSUME NEW o \in Operations
      PROVE  /\ Declaring(c, o) \in Base /\ Declaring(c, o).pc = "declare"
             /\ Declaring(c, o).op = o
  BY <1>0, <1>b DEF Declaring
<1>3. ASSUME c.pc = "declare"
      PROVE  Permitted(c) \in Base /\ Permitted(c).pc = "process"
  BY <1>0, <1>b, <1>3 DEF Permitted
<1>4. ASSUME NEW pc \in GuardPoints, NEW camp \in Requests \cup {Nil},
             NEW lead \in Lead \cup {Nil}, NEW mail \in Nat
      PROVE  /\ Snapshot(c, pc, camp, lead, mail) \in Base
             /\ Snapshot(c, pc, camp, lead, mail).pc = pc
             /\ Snapshot(c, pc, camp, lead, mail).lead = lead
  BY <1>0 DEF Snapshot
<1>5. ASSUME NEW pc \in GuardPoints, NEW camp \in Requests \cup {Nil},
             NEW lead \in Lead \cup {Nil}, NEW o
      PROVE  /\ Posted(c, pc, camp, lead, o) \in Base
             /\ Posted(c, pc, camp, lead, o).pc = pc
             /\ Posted(c, pc, camp, lead, o).lead = lead
  <2>1. c.permits \ {o} \in SUBSET Operations
    BY <1>0
  <2> QED BY <1>0, <2>1 DEF Posted
<1> HIDE DEF Base
<1>6. ASSUME NEW pc \in GuardPoints \cup {"get"}, pc # "declare",
             pc \in Verifying => c.lead \in Lead
      PROVE  GoneTo(c, pc) \in ClaimRow
  BY <1>a, <1>1, <1>6
<1>7. ASSUME NEW o \in Operations PROVE Declaring(c, o) \in ClaimRow
  BY <1>a, <1>b, <1>2
<1>8. c.pc = "declare" => Permitted(c) \in ClaimRow
  BY <1>a, <1>b, <1>3
<1>9. ASSUME NEW pc \in GuardPoints, NEW camp \in Requests \cup {Nil},
             NEW lead \in Lead \cup {Nil}, pc # "declare",
             pc \in Verifying => lead \in Lead
      PROVE  /\ \A mail \in Nat : Snapshot(c, pc, camp, lead, mail) \in ClaimRow
             /\ \A o : Posted(c, pc, camp, lead, o) \in ClaimRow
  BY <1>a, <1>4, <1>5, <1>9
<1> QED BY <1>6, <1>7, <1>8, <1>9

\* The parts of TypeOK that a step of the worker and the provider change.
RowsOK ==
    /\ tgt \in [Targets -> TargetRow]
    /\ req \in [Requests -> RequestRow]
    /\ item \in [Requests -> [Targets -> ItemRow]]
    /\ queue \in [Requests -> Seq(Targets)]
    /\ ledger \in [Requests -> [Operations -> Nat]]
    /\ confirmed \in [Requests -> SUBSET Targets]
    /\ wk \in [Workers -> {Idle} \cup ClaimRow]
ProviderOK ==
    /\ campaigns \in [Requests -> Nat]
    /\ leads \in [Requests -> [Targets -> Nat]]
    /\ mails \in [Requests -> [Targets -> Nat]]
    /\ verdict \in [Requests -> [Targets -> {"pending", "valid", "invalid"}]]
    /\ active \in SUBSET Requests

\* The parts make the whole.
LEMMA TypeParts ==
    /\ TypeOK => RowsOK /\ ProviderOK /\ kill \in BOOLEAN /\ faults \in Nat
    /\ RowsOK' /\ ProviderOK' /\ kill' \in BOOLEAN /\ faults' \in Nat => TypeOK'
BY DEF TypeOK, RowsOK, ProviderOK

\* A step that leaves the provider, or the rows, alone leaves them well formed.
LEMMA TypeUnchanged ==
    /\ ProviderOK /\ UNCHANGED provider => ProviderOK'
    /\ RowsOK /\ UNCHANGED <<rows, wk>> => RowsOK'
    /\ faults \in Nat /\ (Fault \/ UNCHANGED faults) => faults' \in Nat
BY DEF ProviderOK, RowsOK, provider, rows, Fault

\* A POST that lands keeps the provider's state well formed.
LEMMA TypeLands ==
    ASSUME TypeOK, NEW w \in Workers, wk[w].pc # "idle", Lands(w)
    PROVE  ProviderOK'
<1> DEFINE r == wk[w].req
           t == wk[w].tgt
<1>1. r \in Requests /\ t \in Targets /\ wk[w].mail \in Nat
  BY ClaimType DEF ClaimRow
<1>2. campaigns[r] + 1 \in Nat /\ leads[r][t] + 1 \in Nat /\ leads[r] \in [Targets -> Nat]
      /\ campaigns[r] \in Nat /\ leads[r][t] \in Nat /\ mails[r][t] \in Nat
  BY SMTT(60), <1>1 DEF TypeOK
<1>3. campaigns' \in [Requests -> Nat]
  BY <1>1, <1>2 DEF TypeOK, Lands
<1>4. leads' \in [Requests -> [Targets -> Nat]]
  BY <1>1, <1>2 DEF TypeOK, Lands
<1>5. mails' \in [Requests -> [Targets -> Nat]]
  BY <1>1, <1>2 DEF TypeOK, Lands
<1>6. active' \in SUBSET Requests /\ verdict' = verdict
  BY <1>1 DEF TypeOK, Lands
<1> QED BY <1>3, <1>4, <1>5, <1>6 DEF TypeOK, ProviderOK

\* Putting an item back keeps the rows well formed.
LEMMA TypeWait ==
    ASSUME TypeOK, NEW w \in Workers, wk[w].pc # "idle",
           NEW status \in {"queued", "verification_pending"}, Wait(w, status)
    PROVE  RowsOK'
<1> DEFINE r == wk[w].req
           t == wk[w].tgt
           it == item[r][t]
           new == Settled(it, IF it.status \in Terminal THEN it.status ELSE status,
                          IF status = "verification_pending" THEN wk[w].lead ELSE it.lead,
                          it.cause)
           its == [item[r] EXCEPT ![t] = new]
<1>1. /\ r \in Requests /\ t \in Targets /\ wk[w].lead \in Lead \cup {Nil}
      /\ item[r] \in [Targets -> ItemRow] /\ it \in ItemRow /\ req[r] \in RequestRow
      /\ queue[r] \in Seq(Targets)
  BY ClaimType DEF ClaimRow, TypeOK
<1>2. new \in ItemRow
  BY <1>1, SettledType, ItemRowType
<1>3. Released(req[r], its, "waiting") \in RequestRow
  BY <1>1, ReleasedType DEF Live
<1>4. MovedLast(queue[r], t) \in Seq(Targets)
  BY <1>1, MovedType
<1>5. /\ item' = [item EXCEPT ![r] = its]
      /\ req' = [req EXCEPT ![r] = Released(req[r], its, "waiting")]
      /\ queue' = [queue EXCEPT ![r] = MovedLast(queue[r], t)]
      /\ wk' = [wk EXCEPT ![w] = Idle]
      /\ UNCHANGED <<tgt, ledger, confirmed>>
  BY <1>1 DEF Wait, Return, TypeOK
<1> HIDE DEF new, r, t
<1>6. its \in [Targets -> ItemRow]
  BY <1>1, <1>2
<1> HIDE DEF its
<1> QED BY <1>1, <1>3, <1>4, <1>5, <1>6 DEF TypeOK, RowsOK

\* So does an outcome that is written under the lease.
LEMMA TypeSettle ==
    ASSUME TypeOK, NEW w \in Workers, wk[w].pc # "idle",
           NEW its \in [Targets -> ItemRow], Settle(w, its),
           tgt' \in [Targets -> TargetRow]
    PROVE  RowsOK' /\ UNCHANGED <<provider, kill, faults>>
<1> DEFINE r == wk[w].req
<1>1. /\ r \in Requests /\ req[r] \in RequestRow /\ wk[w] \in ClaimRow
      /\ req[r].camp \in Requests \cup {Nil}
  BY ClaimType, RequestRowType DEF TypeOK
<1>2. Released(req[r], its, "waiting") \in RequestRow
  BY <1>1, ReleasedType DEF Live
<1>3. Renewed(req[r], req[r].camp) \in RequestRow
  BY <1>1, RequestRowType
<1>4. GoneTo(wk[w], "finalize") \in ClaimRow
  BY <1>1, SnapshotType DEF GuardPoints, Verifying
<1>5. /\ item' = [item EXCEPT ![r] = its]
      /\ \/ /\ req' = [req EXCEPT ![r] = Released(req[r], its, "waiting")]
            /\ wk' = [wk EXCEPT ![w] = Idle]
         \/ /\ req' = [req EXCEPT ![r] = Renewed(req[r], req[r].camp)]
            /\ wk' = [wk EXCEPT ![w] = GoneTo(wk[w], "finalize")]
      /\ UNCHANGED <<queue, ledger, confirmed, provider, kill, faults>>
  BY <1>1 DEF Settle, Return, Goto, RenewedLease, TypeOK
<1> HIDE DEF r
<1>6. req' \in [Requests -> RequestRow]
  BY <1>1, <1>2, <1>3, <1>5 DEF TypeOK
<1>7. wk' \in [Workers -> {Idle} \cup ClaimRow]
  BY ZenonT(60), <1>4, <1>5 DEF TypeOK
<1> QED BY <1>1, <1>5, <1>6, <1>7 DEF TypeOK, RowsOK

\* A guard that ends the claim keeps the rows well formed.
LEMMA TypeCheckEndsClaim ==
    ASSUME TypeOK, NEW w \in Workers, wk[w].pc # "idle",
           RejectChangedTarget(w) \/ FinishAlreadySent(w)
    PROVE  TypeOK'
<1> DEFINE r == wk[w].req
           t == wk[w].tgt
<1>1. /\ r \in Requests /\ t \in Targets
      /\ item[r] \in [Targets -> ItemRow] /\ item[r][t] \in ItemRow
      /\ req[r] \in RequestRow /\ tgt[t] \in TargetRow
  BY ClaimType DEF TypeOK
<1>2. CASE RejectChangedTarget(w)
  <2> DEFINE new == Settled(item[r][t], "failed", item[r][t].lead, "changed")
             its == [item[r] EXCEPT ![t] = new]
             held == req[r].blocked \/ Exposed(r, t)
             due == /\ \E u \in Targets : its[u].status = "sent"
                    /\ req[r].camp # Nil /\ ~req[r].activated
             status == IF FinalStatus(its) = Nil \/ held \/ due
                       THEN "waiting" ELSE FinalStatus(its)
  <2>1. new \in ItemRow
    BY <1>1, SettledType, ItemRowType DEF Terminal
  <2>2. status \in {"none"} \cup Live \cup Ended
    BY FinalStatusType DEF Live
  <2>3. Blocked(req[r], held) \in RequestRow
    BY <1>1, RequestRowType
  <2>4. Released(Blocked(req[r], held), its, status) \in RequestRow
    BY <2>2, <2>3, ReleasedType
  <2>5. Freed(tgt[t]) \in TargetRow
    BY <1>1, ReviewedType
  <2>6. /\ item' = [item EXCEPT ![r] = its]
        /\ req' = [req EXCEPT ![r] = Released(Blocked(req[r], held), its, status)]
        /\ tgt' = [tgt EXCEPT ![t] =
                     IF tgt[t].req = r /\ tgt[t].status # "sent" THEN Freed(tgt[t]) ELSE tgt[t]]
        /\ wk' = [wk EXCEPT ![w] = Idle]
        /\ UNCHANGED <<queue, ledger, confirmed, provider, kill, faults>>
    BY <1>1, <1>2 DEF RejectChangedTarget, Return, TypeOK
  <2> HIDE DEF new, status, held, r, t
  <2>7. its \in [Targets -> ItemRow]
    BY <1>1, <2>1
  <2> HIDE DEF its
  <2>8. /\ req' \in [Requests -> RequestRow] /\ tgt' \in [Targets -> TargetRow]
        /\ item' \in [Requests -> [Targets -> ItemRow]]
        /\ wk' \in [Workers -> {Idle} \cup ClaimRow]
    BY <1>1, <2>4, <2>5, <2>6, <2>7 DEF TypeOK
  <2> QED BY <2>6, <2>8 DEF TypeOK, provider
<1>3. CASE FinishAlreadySent(w)
  <2> DEFINE new == Settled(item[r][t], "sent",
                       IF tgt[t].lead # Nil THEN tgt[t].lead ELSE item[r][t].lead, "none")
             its == [item[r] EXCEPT ![t] = new]
             due == req[r].camp # Nil /\ ~req[r].activated
             status == IF FinalStatus(its) = Nil \/ due THEN "waiting" ELSE FinalStatus(its)
  <2>1. new \in ItemRow
    BY <1>1, SettledType, ItemRowType, TargetRowType DEF Terminal
  <2>2. status \in {"none"} \cup Live \cup Ended
    BY FinalStatusType DEF Live
  <2>3. Released(req[r], its, status) \in RequestRow
    BY <1>1, <2>2, ReleasedType
  <2>4. /\ item' = [item EXCEPT ![r] = its]
        /\ req' = [req EXCEPT ![r] = Released(req[r], its, status)]
        /\ wk' = [wk EXCEPT ![w] = Idle]
        /\ UNCHANGED <<tgt, queue, ledger, confirmed, provider, kill, faults>>
    BY <1>1, <1>3 DEF FinishAlreadySent, Return, TypeOK
  <2> HIDE DEF new, status, r, t
  <2>5. its \in [Targets -> ItemRow]
    BY <1>1, <2>1
  <2> HIDE DEF its
  <2>6. /\ req' \in [Requests -> RequestRow]
        /\ item' \in [Requests -> [Targets -> ItemRow]]
        /\ wk' \in [Workers -> {Idle} \cup ClaimRow]
    BY <1>1, <2>3, <2>4, <2>5 DEF TypeOK
  <2> QED BY <2>4, <2>6 DEF TypeOK, provider
<1> QED BY <1>2, <1>3

\* Taking a claim keeps the rows well formed.
LEMMA TypeClaim ==
    ASSUME TypeOK, NEW w \in Workers, NEW r \in Requests, Claim(w, r)
    PROVE  TypeOK'
<1>1. PICK t \in Targets :
        /\ req' = [req EXCEPT ![r] = Claimed(@, w)]
        /\ item' = [item EXCEPT ![r][t] =
              IF @.status \in Terminal THEN @
              ELSE Settled(@, "running", @.lead, @.cause)]
        /\ wk' = [wk EXCEPT ![w] = NewClaim(r, t)]
  BY DEF Claim
<1>2. Claimed(req[r], w) \in RequestRow
  BY RequestRowType DEF TypeOK
<1>3. item[r][t] \in ItemRow
  BY DEF TypeOK
<1>4. Settled(item[r][t], "running", item[r][t].lead, item[r][t].cause) \in ItemRow
  BY <1>3, SettledType, ItemRowType
<1>5. NewClaim(r, t) \in ClaimRow
  BY DEF NewClaim, Idle, ClaimRow, GuardPoints, Verifying
<1>6. item' \in [Requests -> [Targets -> ItemRow]]
  BY <1>1, <1>3, <1>4 DEF TypeOK
<1>7. req' \in [Requests -> RequestRow] /\ wk' \in [Workers -> {Idle} \cup ClaimRow]
  BY <1>1, <1>2, <1>5 DEF TypeOK
<1> QED BY <1>6, <1>7 DEF TypeOK, Claim, provider

\* ... and so does the first guard of _process.
LEMMA TypeProcess ==
    ASSUME TypeOK, NEW w \in Workers, wk[w].pc # "idle", Process(w)
    PROVE  TypeOK'
<1> DEFINE r == wk[w].req
           t == wk[w].tgt
           open == item[r][t].status \notin Terminal
           camp == IF req[r].camp # Nil THEN req[r].camp ELSE tgt[t].camp
           lead == IF item[r][t].lead # Nil THEN item[r][t].lead ELSE tgt[t].lead
           pc == IF ~open THEN "finalize"
                 ELSE IF camp = Nil THEN "campaign"
                 ELSE IF lead = Nil THEN "lead" ELSE "verify"
<1>1. /\ r \in Requests /\ t \in Targets /\ wk[w] \in ClaimRow
      /\ item[r] \in [Targets -> ItemRow] /\ item[r][t] \in ItemRow
      /\ req[r] \in RequestRow /\ tgt[t] \in TargetRow
  BY ClaimType DEF TypeOK
<1>2. /\ camp \in Requests \cup {Nil} /\ lead \in Lead \cup {Nil}
      /\ req[r].camp \in Requests \cup {Nil} /\ tgt[t].mail \in Nat
  BY <1>1, RequestRowType, ItemRowType, TargetRowType
<1>3. pc \in GuardPoints /\ pc # "declare" /\ (pc \in Verifying => lead \in Lead)
  BY <1>2 DEF GuardPoints, Verifying
<1>4. Renewed(req[r], IF open THEN camp ELSE req[r].camp) \in RequestRow
  BY <1>1, <1>2, RequestRowType
<1>5. Settled(item[r][t], item[r][t].status, IF open THEN lead ELSE item[r][t].lead,
              item[r][t].cause) \in ItemRow
  BY <1>1, <1>2, SettledType, ItemRowType
<1>6. Snapshot(wk[w], pc, camp, lead, tgt[t].mail) \in ClaimRow
  BY ZenonT(60), <1>1, <1>2, <1>3, SnapshotType
<1>7. /\ req' = [req EXCEPT ![r] = Renewed(req[r], IF open THEN camp ELSE req[r].camp)]
      /\ item' = [item EXCEPT ![r] = [item[r] EXCEPT ![t] = Settled(item[r][t],
            item[r][t].status, IF open THEN lead ELSE item[r][t].lead, item[r][t].cause)]]
      /\ \/ wk' = [wk EXCEPT ![w] = Idle]
         \/ wk' = [wk EXCEPT ![w] = Snapshot(wk[w], pc, camp, lead, tgt[t].mail)]
      /\ UNCHANGED <<tgt, queue, ledger, confirmed, provider, kill, faults>>
  BY <1>1 DEF Process, Return, TypeOK
<1> HIDE DEF r, t, open, camp, lead, pc
<1>8. item' \in [Requests -> [Targets -> ItemRow]]
  BY <1>1, <1>5, <1>7 DEF TypeOK
<1>9. req' \in [Requests -> RequestRow] /\ wk' \in [Workers -> {Idle} \cup ClaimRow]
  BY <1>1, <1>4, <1>6, <1>7 DEF TypeOK
<1> QED BY <1>7, <1>8, <1>9 DEF TypeOK, provider

\* Declaring an operation, and the two guards that record a provider answer.
LEMMA TypeDeclare ==
    ASSUME TypeOK, NEW w \in Workers, wk[w].pc # "idle",
           NeedsDeclaration(w) \/ DeclareOperation(w)
    PROVE  TypeOK'
<1> DEFINE r == wk[w].req
           o == wk[w].op
<1>1. /\ r \in Requests /\ wk[w].tgt \in Targets /\ wk[w] \in ClaimRow
      /\ req[r] \in RequestRow
  BY ClaimType DEF TypeOK
<1>2. CASE NeedsDeclaration(w)
  <2>1. wk[w].pc \in {"campaign", "lead", "finalize"}
    BY <1>2 DEF NeedsDeclaration, Absent, At
  <2>2. OperationAt(w) \in Operations
    BY <1>1, <2>1 DEF OperationAt, Operations
  <2>3. Declaring(wk[w], OperationAt(w)) \in ClaimRow
    BY <1>1, <2>2, SnapshotType
  <2> QED BY <1>2, <2>3 DEF NeedsDeclaration, TypeOK, rows, provider
<1>3. CASE DeclareOperation(w)
  <2>1. wk[w].pc = "declare" /\ o \in Operations
    BY <1>1, <1>3 DEF DeclareOperation, At, ClaimRow
  <2>2. Permitted(wk[w]) \in ClaimRow
    BY <1>1, <2>1, SnapshotType
  <2>3. Renewed(req[r], req[r].camp) \in RequestRow
    BY <1>1, RequestRowType
  <2>4. ledger[r] \in [Operations -> Nat] /\ ledger[r][o] + 1 \in Nat
    BY <1>1, <2>1 DEF TypeOK
  <2>5. ledger' \in [Requests -> [Operations -> Nat]]
    BY <1>1, <1>3, <2>4 DEF DeclareOperation, TypeOK
  <2>6. req' \in [Requests -> RequestRow]
    BY <1>1, <1>3, <2>3 DEF DeclareOperation, RenewedLease, TypeOK
  <2>7. wk' \in [Workers -> {Idle} \cup ClaimRow]
    BY <1>3, <2>2 DEF DeclareOperation, TypeOK
  <2> QED BY <1>3, <2>5, <2>6, <2>7 DEF DeclareOperation, TypeOK, provider
<1> QED BY <1>2, <1>3

\* Recording a campaign keeps the rows well formed.
LEMMA TypePersistCampaign ==
    ASSUME TypeOK, NEW w \in Workers, wk[w].pc # "idle", PersistCampaign(w)
    PROVE  RowsOK' /\ UNCHANGED <<kill, faults>>
<1> DEFINE r == wk[w].req
           t == wk[w].tgt
           pc == IF wk[w].lead = Nil THEN "lead" ELSE "verify"
<1>1. /\ r \in Requests /\ t \in Targets /\ wk[w] \in ClaimRow
      /\ wk[w].lead \in Lead \cup {Nil}
      /\ req[r] \in RequestRow /\ tgt[t] \in TargetRow
  BY ClaimType DEF TypeOK, ClaimRow
<1>2. pc \in GuardPoints /\ pc # "declare" /\ (pc \in Verifying => wk[w].lead \in Lead)
  BY <1>1 DEF GuardPoints, Verifying
<1>3. Renewed(req[r], r) \in RequestRow
  BY <1>1, RequestRowType
<1>4. BoundTo(tgt[t], r, tgt[t].lead, tgt[t].credits) \in TargetRow
  BY <1>1, BoundType, TargetRowType
<1>5. Posted(wk[w], pc, r, wk[w].lead, "create") \in ClaimRow
  BY <1>1, <1>2, SnapshotType
<1>6. /\ req' = [req EXCEPT ![r] = Renewed(req[r], r)]
      /\ tgt' = [tgt EXCEPT ![t] =
            IF tgt[t].req = r THEN BoundTo(tgt[t], r, tgt[t].lead, tgt[t].credits) ELSE tgt[t]]
      /\ wk' = [wk EXCEPT ![w] = Posted(wk[w], pc, r, wk[w].lead, "create")]
      /\ UNCHANGED <<item, queue, ledger, confirmed, kill, faults>>
  BY <1>1 DEF PersistCampaign, TypeOK
<1> HIDE DEF r, t, pc
<1> QED BY <1>1, <1>3, <1>4, <1>5, <1>6 DEF TypeOK, RowsOK

\* Recording a lead keeps the rows well formed.
LEMMA TypePersistLead ==
    ASSUME TypeOK, NEW w \in Workers, wk[w].pc # "idle", NEW lead \in Lead,
           PersistLead(w, lead)
    PROVE  RowsOK' /\ UNCHANGED <<kill, faults>>
<1> DEFINE r == wk[w].req
           t == wk[w].tgt
           credited == ledger[r][t] > 0 /\ t \notin confirmed[r]
           mine == tgt[t].req = r
           row == BoundTo(tgt[t], IF mine THEN wk[w].camp ELSE tgt[t].camp,
                          IF mine THEN lead ELSE tgt[t].lead,
                          IF credited THEN tgt[t].credits + 1 ELSE tgt[t].credits)
           it == Settled(item[r][t], item[r][t].status, lead, item[r][t].cause)
<1>1. /\ r \in Requests /\ t \in Targets /\ wk[w] \in ClaimRow
      /\ wk[w].camp \in Requests \cup {Nil}
      /\ req[r] \in RequestRow /\ tgt[t] \in TargetRow
      /\ item[r] \in [Targets -> ItemRow] /\ item[r][t] \in ItemRow
      /\ confirmed[r] \in SUBSET Targets
  BY ClaimType DEF TypeOK, ClaimRow
<1>2. Renewed(req[r], req[r].camp) \in RequestRow
  BY <1>1, RequestRowType
<1>3. row \in TargetRow
  BY <1>1, BoundType, TargetRowType
<1>4. it \in ItemRow
  BY <1>1, SettledType, ItemRowType
<1>5. Posted(wk[w], "verify", wk[w].camp, lead, t) \in ClaimRow
  BY <1>1, SnapshotType DEF GuardPoints
<1>6. /\ item' = [item EXCEPT ![r] = [item[r] EXCEPT ![t] = it]]
      /\ tgt' = [tgt EXCEPT ![t] = row]
      /\ confirmed' = [confirmed EXCEPT ![r] =
                          IF credited THEN confirmed[r] \cup {t} ELSE confirmed[r]]
      /\ req' = [req EXCEPT ![r] = Renewed(req[r], req[r].camp)]
      /\ wk' = [wk EXCEPT ![w] = Posted(wk[w], "verify", wk[w].camp, lead, t)]
      /\ UNCHANGED <<queue, ledger, kill, faults>>
  BY <1>1 DEF PersistLead, RenewedLease, TypeOK
<1> HIDE DEF r, t, row, it, credited, mine
<1>7. item' \in [Requests -> [Targets -> ItemRow]]
  BY <1>1, <1>4, <1>6 DEF TypeOK
<1> QED BY <1>1, <1>2, <1>3, <1>5, <1>6, <1>7 DEF TypeOK, RowsOK

\* Accepting or failing a target keeps the rows well formed.
LEMMA TypeOutcome ==
    ASSUME TypeOK, NEW w \in Workers, Accepted(w) \/ Failed(w)
    PROVE  TypeOK'
<1> DEFINE r == wk[w].req
           t == wk[w].tgt
<1>0. wk[w].pc \in {"accepted", "failed"}
  BY DEF Accepted, Failed, At
<1>1. /\ r \in Requests /\ t \in Targets /\ wk[w] \in ClaimRow
      /\ wk[w].camp \in Requests \cup {Nil} /\ wk[w].lead \in Lead
      /\ tgt[t] \in TargetRow
      /\ item[r] \in [Targets -> ItemRow] /\ item[r][t] \in ItemRow
  BY <1>0, ClaimType DEF TypeOK, ClaimRow, Verifying
<1>2. /\ Outcome(tgt[t], "sent", tgt[t].req, wk[w].camp, wk[w].lead) \in TargetRow
      /\ Outcome(tgt[t], "approved", Nil, wk[w].camp, wk[w].lead) \in TargetRow
  BY <1>1, OutcomeType, TargetRowType
<1>3. /\ Settled(item[r][t], "sent", wk[w].lead, "none") \in ItemRow
      /\ Settled(item[r][t], "failed", wk[w].lead, "invalid") \in ItemRow
  BY <1>1, SettledType DEF Terminal
<1>4. tgt' \in [Targets -> TargetRow]
  BY <1>1, <1>2 DEF Accepted, Failed, TypeOK
<1>5. \E its \in [Targets -> ItemRow] : Settle(w, its)
  BY <1>1, <1>3 DEF Accepted, Failed
<1>6. RowsOK' /\ UNCHANGED <<provider, kill, faults>>
  BY <1>0, <1>4, <1>5, TypeSettle
<1> QED BY <1>6, TypeParts, TypeUnchanged

\* Ending a request keeps the rows well formed.
LEMMA TypeEndRequest ==
    ASSUME TypeOK, NEW w \in Workers, wk[w].pc # "idle", NEW b \in BOOLEAN,
           FinalStatus(item[wk[w].req]) # Nil, EndRequest(w, b)
    PROVE  RowsOK' /\ UNCHANGED <<kill, faults>>
<1> DEFINE r == wk[w].req
           new == Released(Activated(req[r], b), item[r], FinalStatus(item[r]))
<1>1. r \in Requests /\ req[r] \in RequestRow
  BY ClaimType
<1>2. new \in RequestRow
  BY <1>1, ReleasedType, RequestRowType, FinalStatusType
<1>3. /\ req' = [req EXCEPT ![r] = new]
      /\ wk' = [wk EXCEPT ![w] = Idle]
      /\ UNCHANGED <<tgt, item, queue, ledger, confirmed, kill, faults>>
  BY <1>1 DEF EndRequest, Return, TypeOK
<1> HIDE DEF r, new
<1> QED BY <1>1, <1>2, <1>3 DEF TypeOK, RowsOK

\* Every step of a worker keeps the state well formed.
LEMMA TypeWorker ==
    ASSUME TypeOK, NEW w \in Workers, WorkerStep(w) \/ PostThenCrash(w) \/ Crash(w)
    PROVE  TypeOK'
<1>0. RowsOK /\ ProviderOK /\ kill \in BOOLEAN /\ faults \in Nat
  BY ZenonT(60), TypeParts
<1>a. wk[w].pc # "idle"
  BY DEF WorkerStep, Lost, CheckEndsClaim, Process, KillSwitchHolds, NeedsDeclaration,
         DeclareOperation, PostFails, ReconciliationRequired, CreateCampaign,
         FindCampaign, ImportLead, FindLead, Verify, GetVerification,
         VerificationPending, VerificationErrored, Accepted, Failed, ActivationHeld,
         Activate, FinalizeWithoutPost, PostThenCrash, Crash, MayPost, Absent, At,
         GuardPoints
<1>b. [wk EXCEPT ![w] = Idle] \in [Workers -> {Idle} \cup ClaimRow]
  BY DEF TypeOK
<1>c. /\ wk[w] \in ClaimRow /\ wk[w].req \in Requests /\ wk[w].tgt \in Targets
      /\ req[wk[w].req] \in RequestRow
  BY <1>a, ClaimType
<1>1. CASE Lost(w)
  BY <1>1, <1>b DEF Lost, Return, TypeOK, rows, provider
<1>2. CASE CheckEndsClaim(w)
  BY <1>a, <1>2, TypeCheckEndsClaim DEF CheckEndsClaim
<1>3. CASE Process(w)
  BY <1>a, <1>3, TypeProcess
<1>4. CASE NeedsDeclaration(w) \/ DeclareOperation(w)
  BY <1>a, <1>4, TypeDeclare
<1>5. CASE \/ KillSwitchHolds(w) \/ VerificationPending(w)
           \/ VerificationErrored(w) \/ ActivationHeld(w)
  <2>1. \E status \in {"queued", "verification_pending"} : Wait(w, status)
    BY <1>5 DEF KillSwitchHolds, VerificationPending, VerificationErrored, ActivationHeld
  <2>2. UNCHANGED <<provider, kill, faults>>
    BY <1>5 DEF KillSwitchHolds, VerificationPending, VerificationErrored, ActivationHeld
  <2> QED BY <1>0, <1>a, <2>1, <2>2, TypeWait, TypeParts, TypeUnchanged
<1>6. CASE PostFails(w)
  <2>1. RowsOK'
    BY <1>a, <1>6, TypeWait DEF PostFails
  <2>2. ProviderOK'
    BY <1>0, <1>a, <1>6, TypeLands, TypeUnchanged DEF PostFails
  <2> QED BY <1>0, <1>6, <2>1, <2>2, TypeParts, TypeUnchanged DEF PostFails
<1>7. CASE ReconciliationRequired(w)
  <2>1. Wait(w, "queued") /\ UNCHANGED <<provider, kill>> /\ (Fault \/ UNCHANGED faults)
    BY <1>7 DEF ReconciliationRequired
  <2> QED BY <1>0, <1>a, <2>1, TypeWait, TypeParts, TypeUnchanged
<1>8. CASE CreateCampaign(w) \/ FindCampaign(w)
  <2>1. RowsOK' /\ UNCHANGED <<kill, faults>>
    BY <1>a, <1>8, TypePersistCampaign DEF CreateCampaign, FindCampaign
  <2>2. ProviderOK'
    BY <1>0, <1>a, <1>8, TypeLands, TypeUnchanged DEF CreateCampaign, FindCampaign
  <2> QED BY <1>0, <2>1, <2>2, TypeParts
<1>9. CASE ImportLead(w) \/ FindLead(w)
  <2>1. \E lead \in Lead : PersistLead(w, lead)
    BY <1>c, <1>9 DEF ImportLead, FindLead, Lead
  <2>2. RowsOK' /\ UNCHANGED <<kill, faults>>
    BY <1>a, <2>1, TypePersistLead
  <2>3. ProviderOK'
    BY <1>0, <1>a, <1>9, TypeLands, TypeUnchanged DEF ImportLead, FindLead
  <2> QED BY <1>0, <2>2, <2>3, TypeParts
<1>10. CASE Verify(w)
  <2>1. wk[w].lead \in Lead
    BY <1>c, <1>10 DEF Verify, At, ClaimRow, Verifying
  <2>2. GoneTo(wk[w], "get") \in ClaimRow
    BY <1>c, <2>1, SnapshotType
  <2>3. Renewed(req[wk[w].req], req[wk[w].req].camp) \in RequestRow
    BY <1>c, RequestRowType
  <2>4. req' \in [Requests -> RequestRow]
    BY <1>10, <1>c, <2>3 DEF Verify, RenewedLease, TypeOK
  <2>5. wk' \in [Workers -> {Idle} \cup ClaimRow]
    BY <1>10, <2>2 DEF Verify, Goto, TypeOK
  <2> QED BY <1>10, <2>4, <2>5 DEF Verify, TypeOK, provider
<1>11. CASE GetVerification(w)
  <2>1. wk[w].lead \in Lead
    BY <1>c, <1>11 DEF GetVerification, ClaimRow, Verifying
  <2>2. \A pc \in {"accepted", "failed", "pending", "errored"} : GoneTo(wk[w], pc) \in ClaimRow
    BY <1>c, <2>1, SnapshotType DEF GuardPoints
  <2>3. \E pc \in {"accepted", "failed", "pending", "errored"} :
            wk' = [wk EXCEPT ![w] = GoneTo(wk[w], pc)]
    BY <1>11 DEF GetVerification, Goto
  <2>4. wk' \in [Workers -> {Idle} \cup ClaimRow]
    BY <2>2, <2>3 DEF TypeOK
  <2>5. UNCHANGED <<rows, provider, kill>> /\ (Fault \/ UNCHANGED faults)
    BY <1>11 DEF GetVerification
  <2> QED BY <1>0, <2>4, <2>5, TypeUnchanged DEF TypeOK, rows, provider
<1>12. CASE Accepted(w) \/ Failed(w)
  BY <1>12, TypeOutcome
<1>13. CASE Activate(w)
  <2>1. FinalStatus(item[wk[w].req]) # Nil
    BY <1>13, ConstantsAssumption DEF Activate, MayPost, Absent, At, MayActivate
  <2>2. RowsOK' /\ UNCHANGED <<kill, faults>>
    BY <1>a, <1>13, <2>1, TypeEndRequest DEF Activate
  <2>3. ProviderOK'
    BY <1>a, <1>13, TypeLands DEF Activate
  <2> QED BY <1>0, <2>2, <2>3, TypeParts
<1>14. CASE FinalizeWithoutPost(w)
  <2>1. FinalStatus(item[wk[w].req]) # Nil
    BY <1>14, ConstantsAssumption DEF FinalizeWithoutPost
  <2>2. \E b \in BOOLEAN : EndRequest(w, b)
    BY <1>14, <1>c, RequestRowType DEF FinalizeWithoutPost
  <2>3. RowsOK' /\ UNCHANGED <<kill, faults>>
    BY <1>a, <2>1, <2>2, TypeEndRequest
  <2>4. ProviderOK'
    BY <1>0, <1>14, TypeUnchanged DEF FinalizeWithoutPost
  <2> QED BY <1>0, <2>3, <2>4, TypeParts
<1>15. CASE PostThenCrash(w)
  <2>1. ProviderOK' /\ faults' \in Nat
    BY <1>0, <1>a, <1>15, TypeLands, TypeUnchanged DEF PostThenCrash
  <2>2. wk' \in [Workers -> {Idle} \cup ClaimRow]
    BY <1>15, <1>b DEF PostThenCrash, Return
  <2>3. RowsOK'
    BY <1>0, <1>15, <2>2 DEF PostThenCrash, RowsOK, rows
  <2> QED BY <1>0, <1>15, <2>1, <2>3, TypeParts DEF PostThenCrash
<1>16. CASE Crash(w)
  BY <1>0, <1>16, <1>b, TypeUnchanged DEF Crash, Return, TypeOK, rows, provider
<1> QED BY <1>1, <1>2, <1>3, <1>4, <1>5, <1>6, <1>7, <1>8, <1>9, <1>10, <1>11, <1>12,
           <1>13, <1>14, <1>15, <1>16 DEF WorkerStep

\* An expired lease keeps the rows well formed.
LEMMA TypeLeaseExpires ==
    ASSUME TypeOK, NEW r \in Requests, LeaseExpires(r)
    PROVE  TypeOK'
<1>1. Expired(req[r]) \in RequestRow
  BY RequestRowType DEF TypeOK
<1>2. faults' \in Nat
  BY TypeUnchanged DEF LeaseExpires, TypeOK
<1> QED BY <1>1, <1>2 DEF LeaseExpires, TypeOK, provider

\* Every step keeps the state well formed.
LEMMA TypeNext == TypeOK /\ [Next]_vars => TypeOK'
<1> SUFFICES ASSUME TypeOK, [Next]_vars PROVE TypeOK'
  OBVIOUS
<1>1. CASE UNCHANGED vars
  BY <1>1 DEF vars, rows, provider, TypeOK
<1>2. CASE Next
  BY <1>2, TypeFounder, TypeClaim, TypeWorker, TypeLeaseExpires DEF Next
<1> QED BY <1>1, <1>2

\* Every row, every provider record and every claim stays well formed: no
\* verification is read without a lead, no operation declared without a name,
\* whatever the number of workers, batches and faults.
THEOREM TypeCorrect == Spec => []TypeOK
<1> QED BY TypeInit, TypeNext, PTL DEF Spec

-----------------------------------------------------------------------------
(* What the row operators leave in the columns the invariant reads          *)

\* Request rows.
LEMMA RequestFields ==
    ASSUME NEW row \in RequestRow
    PROVE  /\ \A its, s : /\ Released(row, its, s).status = s
                          /\ Released(row, its, s).lease = Nil
                          /\ Released(row, its, s).camp = row.camp
                          /\ Released(row, its, s).blocked = row.blocked
           /\ \A w : /\ Claimed(row, w).status = "running"
                     /\ Claimed(row, w).lease = w
                     /\ Claimed(row, w).camp = row.camp
                     /\ Claimed(row, w).blocked = row.blocked
           /\ \A camp : /\ Renewed(row, camp).status = row.status
                        /\ Renewed(row, camp).lease = row.lease
                        /\ Renewed(row, camp).camp = camp
                        /\ Renewed(row, camp).blocked = row.blocked
           /\ \A b : /\ Blocked(row, b).camp = row.camp
                     /\ Blocked(row, b).blocked = b
                     /\ Activated(row, b).camp = row.camp
                     /\ Activated(row, b).blocked = row.blocked
           /\ Expired(row).status = row.status
           /\ Expired(row).lease = row.lease
           /\ Expired(row).camp = row.camp
           /\ Expired(row).blocked = row.blocked
<1>1. ASSUME NEW its, NEW s
      PROVE  /\ Released(row, its, s).status = s
             /\ Released(row, its, s).lease = Nil
             /\ Released(row, its, s).camp = row.camp
             /\ Released(row, its, s).blocked = row.blocked
  BY DEF RequestRow, Released
<1>2. ASSUME NEW w
      PROVE  /\ Claimed(row, w).status = "running"
             /\ Claimed(row, w).lease = w
             /\ Claimed(row, w).camp = row.camp
             /\ Claimed(row, w).blocked = row.blocked
  BY DEF RequestRow, Claimed
<1>3. ASSUME NEW camp
      PROVE  /\ Renewed(row, camp).status = row.status
             /\ Renewed(row, camp).lease = row.lease
             /\ Renewed(row, camp).camp = camp
             /\ Renewed(row, camp).blocked = row.blocked
  BY DEF RequestRow, Renewed
<1>4. ASSUME NEW b
      PROVE  /\ Blocked(row, b).camp = row.camp
             /\ Blocked(row, b).blocked = b
             /\ Activated(row, b).camp = row.camp
             /\ Activated(row, b).blocked = row.blocked
  BY DEF RequestRow, Blocked, Activated
<1>5. /\ Expired(row).status = row.status
      /\ Expired(row).lease = row.lease
      /\ Expired(row).camp = row.camp
      /\ Expired(row).blocked = row.blocked
  BY DEF RequestRow, Expired
<1> QED BY <1>1, <1>2, <1>3, <1>4, <1>5

\* Item rows.
LEMMA ItemFields ==
    ASSUME NEW it \in ItemRow, NEW status, NEW lead, NEW cause
    PROVE  /\ Settled(it, status, lead, cause).status = status
           /\ Settled(it, status, lead, cause).cause = cause
BY DEF ItemRow, Settled

\* New rows.
LEMMA NewFields ==
    ASSUME NEW n
    PROVE  /\ NewRequest(n).status = "queued"
           /\ NewItem(n).status = "queued"
           /\ NoItem.status = "none"
BY DEF NewRequest, NewItem, NoRequest, NoItem

\* Claims.
LEMMA ClaimFields ==
    ASSUME NEW c \in ClaimRow
    PROVE  /\ \A pc : /\ GoneTo(c, pc).pc = pc
                      /\ GoneTo(c, pc).req = c.req
                      /\ GoneTo(c, pc).tgt = c.tgt
                      /\ GoneTo(c, pc).permits = c.permits
           /\ \A o : /\ Declaring(c, o).pc = "declare"
                     /\ Declaring(c, o).req = c.req
                     /\ Declaring(c, o).tgt = c.tgt
                     /\ Declaring(c, o).op = o
                     /\ Declaring(c, o).permits = c.permits
           /\ /\ Permitted(c).pc = "process"
              /\ Permitted(c).req = c.req
              /\ Permitted(c).tgt = c.tgt
              /\ Permitted(c).permits = c.permits \cup {c.op}
           /\ \A pc, camp, lead, mail :
                 /\ Snapshot(c, pc, camp, lead, mail).pc = pc
                 /\ Snapshot(c, pc, camp, lead, mail).req = c.req
                 /\ Snapshot(c, pc, camp, lead, mail).tgt = c.tgt
                 /\ Snapshot(c, pc, camp, lead, mail).permits = c.permits
           /\ \A pc, camp, lead, o :
                 /\ Posted(c, pc, camp, lead, o).pc = pc
                 /\ Posted(c, pc, camp, lead, o).req = c.req
                 /\ Posted(c, pc, camp, lead, o).tgt = c.tgt
                 /\ Posted(c, pc, camp, lead, o).permits \subseteq c.permits
<1>1. ASSUME NEW pc
      PROVE  /\ GoneTo(c, pc).pc = pc /\ GoneTo(c, pc).req = c.req
             /\ GoneTo(c, pc).tgt = c.tgt /\ GoneTo(c, pc).permits = c.permits
  BY DEF ClaimRow, GoneTo
<1>2. ASSUME NEW o
      PROVE  /\ Declaring(c, o).pc = "declare" /\ Declaring(c, o).req = c.req
             /\ Declaring(c, o).tgt = c.tgt /\ Declaring(c, o).op = o
             /\ Declaring(c, o).permits = c.permits
  BY DEF ClaimRow, Declaring
<1>3. /\ Permitted(c).pc = "process" /\ Permitted(c).req = c.req
      /\ Permitted(c).tgt = c.tgt /\ Permitted(c).permits = c.permits \cup {c.op}
  BY DEF ClaimRow, Permitted
<1>4. ASSUME NEW pc, NEW camp, NEW lead, NEW mail
      PROVE  /\ Snapshot(c, pc, camp, lead, mail).pc = pc
             /\ Snapshot(c, pc, camp, lead, mail).req = c.req
             /\ Snapshot(c, pc, camp, lead, mail).tgt = c.tgt
             /\ Snapshot(c, pc, camp, lead, mail).permits = c.permits
  BY DEF ClaimRow, Snapshot
<1>5. ASSUME NEW pc, NEW camp, NEW lead, NEW o
      PROVE  /\ Posted(c, pc, camp, lead, o).pc = pc
             /\ Posted(c, pc, camp, lead, o).req = c.req
             /\ Posted(c, pc, camp, lead, o).tgt = c.tgt
             /\ Posted(c, pc, camp, lead, o).permits \subseteq c.permits
  BY DEF ClaimRow, Posted
<1> QED BY <1>1, <1>2, <1>3, <1>4, <1>5

\* A process without a claim has no duties, and neither has a new claim.
LEMMA IdleFields ==
    /\ Idle.pc = "idle" /\ Idle.permits = {}
    /\ \A r, t : NewClaim(r, t).pc = "process" /\ NewClaim(r, t).permits = {}
BY DEF Idle, NewClaim

-----------------------------------------------------------------------------
(* Two ways a step leaves the invariant alone                               *)

\* A step of worker w on request r touches no other request, no other claim,
\* and leaves r's lease to w or to nobody unless it leaves r's rows alone.
Local(w, r) ==
    /\ \A q \in Requests \ {r} :
          /\ req'[q] = req[q] /\ item'[q] = item[q] /\ ledger'[q] = ledger[q]
          /\ leads'[q] = leads[q] /\ (q \in active' <=> q \in active)
    /\ \A o \in Operations : ledger[r][o] > 0 => ledger'[r][o] > 0
    /\ \/ req'[r].lease \in {w, Nil}
       \/ req'[r] = req[r] /\ item'[r] = item[r]
    /\ \A x \in Workers \ {w} : wk'[x] = wk[x]

\* It leaves the other claims and requests standing.
LEMMA LocalStands ==
    ASSUME TypeOK, SendStands, NEW w \in Workers, NEW r \in Requests, Local(w, r)
    PROVE  /\ \A x \in Workers \ {w} : ClaimStands(x)'
           /\ \A q \in Requests \ {r} : RequestStands(q)'
<1>1. ASSUME NEW q \in Requests \ {r} PROVE RequestStands(q)'
  <2>1. RequestStands(q)
    BY DEF SendStands
  <2> QED BY <2>1 DEF RequestStands, Local
<1>2. ASSUME NEW x \in Workers \ {w} PROVE ClaimStands(x)'
  <2>1. ClaimStands(x) /\ wk'[x] = wk[x] /\ x # Nil
    BY ConstantsAssumption DEF SendStands, Local
  <2>2. CASE wk[x].pc = "idle"
    <3>1. wk[x] = Idle
      BY <2>2 DEF TypeOK, ClaimRow, GuardPoints
    <3> QED BY <2>1, <3>1, IdleFields DEF ClaimStands, Owner, Verifying
  <2>3. CASE wk[x].pc # "idle"
    <3>1. wk[x] \in ClaimRow /\ wk[x].req \in Requests /\ wk[x].permits \in SUBSET Operations
      BY <2>3, ClaimType DEF ClaimRow
    <3>2. \A o \in wk[x].permits : ledger'[wk[x].req][o] > 0
      <4> SUFFICES ASSUME NEW o \in wk[x].permits PROVE ledger'[wk[x].req][o] > 0
        OBVIOUS
      <4>1. ledger[wk[x].req][o] > 0 /\ o \in Operations
        BY <2>1, <3>1 DEF ClaimStands
      <4>2. CASE wk[x].req # r
        BY <3>1, <4>1, <4>2 DEF Local
      <4>3. CASE wk[x].req = r
        BY <3>1, <4>1, <4>3 DEF Local, TypeOK
      <4> QED BY <4>2, <4>3
    <3>3. CASE wk[x].req # r \/ (req'[r] = req[r] /\ item'[r] = item[r])
      <4>1. req'[wk[x].req] = req[wk[x].req] /\ item'[wk[x].req] = item[wk[x].req]
        BY <3>1, <3>3 DEF Local
      <4> QED BY <2>1, <3>2, <4>1 DEF ClaimStands, Owner
    <3>4. CASE wk[x].req = r /\ req'[r].lease \in {w, Nil}
      <4>1. ~Owner(x)'
        BY <2>1, <3>4 DEF Owner
      <4> QED BY <2>1, <3>2, <4>1 DEF ClaimStands
    <3> QED BY <3>3, <3>4 DEF Local
  <2> QED BY <2>2, <2>3
<1> QED BY <1>1, <1>2

\* The rows of request r after a step that settles, defers or leaves item t.
Kept(r, t) ==
    /\ ledger'[r] = ledger[r]
    /\ \A u \in Targets : leads'[r][u] > 0 => ledger[r][u] > 0
    /\ r \in active' =>
          r \in active \/ ( /\ ~req[r].blocked /\ req[r].status # "none"
                            /\ \A u \in Targets : item[r][u].status \in Terminal \cup {"none"})
    /\ req[r].camp # Nil => req'[r].camp # Nil
    /\ req[r].status # "none" /\ req'[r].status # "none"
    /\ \A u \in Targets \ {t} : item'[r][u] = item[r][u]
    /\ \/ /\ item'[r][t].status = item[r][t].status
          /\ item'[r][t].cause = item[r][t].cause
          /\ req'[r].blocked = req[r].blocked
       \/ /\ item[r][t].status \notin Terminal \cup {"none"}
          /\ item'[r][t].status # "none"
          /\ req[r].blocked => req'[r].blocked
          /\ item'[r][t].status = "failed" /\ item'[r][t].cause # "invalid"
             /\ ledger[r][t] > 0 => req'[r].blocked

\* Such a step keeps its request standing.
LEMMA KeptStands ==
    ASSUME TypeOK, SendStands, NEW r \in Requests, NEW t \in Targets, Kept(r, t)
    PROVE  RequestStands(r)'
<1>1. RequestStands(r)
  BY DEF SendStands
<1>2. \A u \in Targets : leads'[r][u] > 0 => ledger'[r][u] > 0
  BY <1>1 DEF RequestStands, Kept
<1>3. ASSUME NEW u \in Targets, ledger'[r][u] > 0
      PROVE  /\ req'[r].camp # Nil
             /\ item'[r][u].status # "none"
             /\ item'[r][u].status = "failed" /\ item'[r][u].cause # "invalid" => req'[r].blocked
  <2>1. /\ ledger[r][u] > 0 /\ req[r].camp # Nil /\ item[r][u].status # "none"
        /\ item[r][u].status = "failed" /\ item[r][u].cause # "invalid" => req[r].blocked
    BY <1>1, <1>3 DEF RequestStands, Kept
  <2>2. CASE u # t
    BY <2>1, <2>2 DEF Kept
  <2>3. CASE u = t
    BY <2>1, <2>3 DEF Kept
  <2> QED BY <2>2, <2>3
<1>4. ASSUME r \in active'
      PROVE  /\ req'[r].status # "none" /\ ~req'[r].blocked
             /\ \A u \in Targets : item'[r][u].status \in Terminal \cup {"none"}
  <2>1. /\ ~req[r].blocked
        /\ \A u \in Targets : item[r][u].status \in Terminal \cup {"none"}
    BY <1>1, <1>4 DEF RequestStands, Kept
  <2>2. /\ item'[r][t].status = item[r][t].status
        /\ req'[r].blocked = req[r].blocked
    BY <2>1 DEF Kept
  <2> QED BY <2>1, <2>2 DEF Kept
<1>5. req'[r].status # "none"
  BY DEF Kept
<1> QED BY <1>2, <1>3, <1>4, <1>5 DEF RequestStands

-----------------------------------------------------------------------------
(* The steps of a worker                                                    *)

\* A process at a guard that opens owns its request; what that gives.
LEMMA OwnerFacts ==
    ASSUME TypeOK, SendStands, NEW w \in Workers, wk[w].pc # "idle", Guarded(w)
    PROVE  /\ Owner(w) /\ ClaimStands(w) /\ RequestStands(wk[w].req)
           /\ req[wk[w].req].status = "running" /\ req[wk[w].req].lease = w
           /\ item[wk[w].req][wk[w].tgt].status \in {"running"} \cup Terminal
BY ClaimType DEF Guarded, Owner, SendStands

\* SendStands, put together for a step of worker w on request r.
LEMMA Together ==
    ASSUME TypeOK, SendStands, NEW w \in Workers, NEW r \in Requests,
           Local(w, r), ClaimStands(w)', RequestStands(r)'
    PROVE  SendStands'
BY LocalStands DEF SendStands

\* A process that drops its claim has no duties left.
LEMMA ReturnStands ==
    ASSUME TypeOK, NEW w \in Workers, Return(w)
    PROVE  ClaimStands(w)'
<1>1. wk'[w] = Idle
  BY DEF Return, TypeOK
<1> QED BY <1>1, IdleFields DEF ClaimStands, Owner, Verifying

\* A step that changes no row leaves a request standing unless a POST landed.
LEMMA SameRowsStand ==
    ASSUME TypeOK, SendStands, NEW w \in Workers, wk[w].pc # "idle",
           UNCHANGED <<req, item, ledger, leads, active>>,
           \A x \in Workers \ {w} : wk'[x] = wk[x], ClaimStands(w)'
    PROVE  SendStands'
<1>1. PICK r \in Requests : r = wk[w].req
  BY ClaimType
<1>2. Local(w, r)
  BY DEF Local
<1>3. RequestStands(r)
  BY DEF SendStands
<1>4. RequestStands(r)'
  BY <1>3 DEF RequestStands
<1> QED BY <1>2, <1>4, Together

\* What a permitted POST may leave at the provider: a declared lead, or an
\* activation of a request whose items are settled and that nothing holds.
LEMMA LandsFacts ==
    ASSUME TypeOK, SendStands, NEW w \in Workers, MayPost(w), Lands(w)
    PROVE  LET r == wk[w].req
           IN  /\ wk[w].pc # "idle" /\ Guarded(w)
               /\ \A q \in Requests \ {r} :
                     leads'[q] = leads[q] /\ (q \in active' <=> q \in active)
               /\ \A u \in Targets : leads'[r][u] > 0 => ledger[r][u] > 0
               /\ r \in active' =>
                     r \in active \/ ( /\ ~req[r].blocked /\ req[r].status # "none"
                                       /\ \A u \in Targets :
                                             item[r][u].status \in Terminal \cup {"none"})
<1> DEFINE r == wk[w].req
           t == wk[w].tgt
<1>1. /\ wk[w].pc \in {"campaign", "lead", "finalize"} /\ wk[w].pc # "idle" /\ Guarded(w)
      /\ OperationAt(w) \in wk[w].permits
  BY DEF MayPost, Absent, At
<1>2. r \in Requests /\ t \in Targets
  BY <1>1, ClaimType
<1>3. RequestStands(r) /\ ClaimStands(w) /\ req[r].status = "running"
  BY <1>1, OwnerFacts
<1>4. \A q \in Requests \ {r} : leads'[q] = leads[q] /\ (q \in active' <=> q \in active)
  BY <1>2 DEF Lands, TypeOK
<1>5. ASSUME NEW u \in Targets, leads'[r][u] > 0 PROVE ledger[r][u] > 0
  <2>1. CASE wk[w].pc = "lead" /\ u = t
    BY <1>1, <1>3, <2>1 DEF OperationAt, ClaimStands
  <2>2. CASE ~(wk[w].pc = "lead" /\ u = t)
    <3>1. leads'[r][u] = leads[r][u]
      BY <1>2, <2>2 DEF Lands, TypeOK
    <3> QED BY <1>3, <1>5, <3>1 DEF RequestStands
  <2> QED BY <2>1, <2>2
<1>6. ASSUME r \in active', r \notin active
      PROVE  /\ ~req[r].blocked /\ req[r].status # "none"
             /\ \A u \in Targets : item[r][u].status \in Terminal \cup {"none"}
  <2>1. wk[w].pc = "finalize" /\ MayActivate(r)
    BY <1>6 DEF Lands, MayPost, Absent, At
  <2>2. FinalStatus(item[r]) # Nil
    BY <2>1, ConstantsAssumption DEF MayActivate
  <2> QED BY <1>3, <2>1, <2>2 DEF MayActivate, FinalStatus
<1> QED BY <1>1, <1>4, <1>5, <1>6

\* Provider state that satisfies what LandsFacts says.
ProviderKept(r) ==
    /\ \A q \in Requests \ {r} : leads'[q] = leads[q] /\ (q \in active' <=> q \in active)
    /\ \A u \in Targets : leads'[r][u] > 0 => ledger[r][u] > 0
    /\ r \in active' =>
          r \in active \/ ( /\ ~req[r].blocked /\ req[r].status # "none"
                            /\ \A u \in Targets : item[r][u].status \in Terminal \cup {"none"})

\* A step without a POST, or with a permitted one, keeps the provider so.
LEMMA ProviderKeptFacts ==
    ASSUME TypeOK, SendStands, NEW w \in Workers, wk[w].pc # "idle",
           UNCHANGED provider \/ (MayPost(w) /\ Lands(w))
    PROVE  ProviderKept(wk[w].req)
<1>1. wk[w].req \in Requests
  BY ClaimType
<1>2. CASE UNCHANGED provider
  <2>1. RequestStands(wk[w].req)
    BY <1>1 DEF SendStands
  <2> QED BY <1>2, <2>1 DEF ProviderKept, provider, RequestStands
<1>3. CASE MayPost(w) /\ Lands(w)
  BY <1>3, LandsFacts DEF ProviderKept
<1> QED BY <1>2, <1>3

\* Putting an item back.
LEMMA WaitStands ==
    ASSUME TypeOK, SendStands, NEW w \in Workers, wk[w].pc # "idle", Guarded(w),
           NEW status \in {"queued", "verification_pending"}, Wait(w, status),
           ProviderKept(wk[w].req)
    PROVE  SendStands'
<1> DEFINE r == wk[w].req
           t == wk[w].tgt
           it == item[r][t]
           new == Settled(it, IF it.status \in Terminal THEN it.status ELSE status,
                          IF status = "verification_pending" THEN wk[w].lead ELSE it.lead,
                          it.cause)
           its == [item[r] EXCEPT ![t] = new]
           row == Released(req[r], its, "waiting")
<1>1. /\ r \in Requests /\ t \in Targets
      /\ item[r] \in [Targets -> ItemRow] /\ it \in ItemRow /\ req[r] \in RequestRow
  BY ClaimType DEF TypeOK
<1>2. it.status \in {"running"} \cup Terminal /\ req[r].status = "running"
  BY OwnerFacts
<1>3. /\ item' = [item EXCEPT ![r] = its]
      /\ req' = [req EXCEPT ![r] = row]
      /\ wk' = [wk EXCEPT ![w] = Idle]
      /\ UNCHANGED ledger /\ Return(w)
  BY ZenonT(60), <1>1 DEF Wait, Return, TypeOK
<1>4. /\ row.status = "waiting" /\ row.lease = Nil /\ row.camp = req[r].camp
      /\ row.blocked = req[r].blocked
  BY SMTT(60), <1>1, RequestFields
<1>5. /\ new.status = IF it.status \in Terminal THEN it.status ELSE status
      /\ new.cause = it.cause
  BY <1>1, ItemFields
<1> HIDE DEF new, row, r, t
<1>6. /\ its[t] = new /\ \A u \in Targets \ {t} : its[u] = item[r][u]
  BY <1>1
<1> HIDE DEF its
<1>7. /\ item'[r] = its /\ req'[r] = row
      /\ \A q \in Requests \ {r} : item'[q] = item[q] /\ req'[q] = req[q]
      /\ \A x \in Workers \ {w} : wk'[x] = wk[x]
  BY <1>1, <1>3 DEF TypeOK
<1>8. Local(w, r)
  BY ZenonT(60), <1>3, <1>4, <1>7 DEF Local, ProviderKept, r
<1>9. Kept(r, t)
  BY <1>1, <1>2, <1>3, <1>4, <1>5, <1>6, <1>7 DEF Kept, ProviderKept, r, t, Terminal
<1> QED BY <1>1, <1>3, <1>8, <1>9, ReturnStands, KeptStands, Together

\* The step changes no request but r and no item of r but t.
Touches(w, r, t) ==
    /\ \A q \in Requests \ {r} : req'[q] = req[q] /\ item'[q] = item[q]
    /\ \A u \in Targets \ {t} : item'[r][u] = item[r][u]
    /\ \A x \in Workers \ {w} : wk'[x] = wk[x]
    /\ UNCHANGED ledger
    /\ ProviderKept(r)

\* A worker that records what it found on its own rows and keeps the claim:
\* item t keeps its outcome, request r its hold on the campaign.
LEMMA RecordStands ==
    ASSUME TypeOK, SendStands, NEW w \in Workers, wk[w].pc # "idle", Guarded(w),
           NEW r \in Requests, r = wk[w].req, NEW t \in Targets, t = wk[w].tgt,
           Touches(w, r, t),
           req'[r].status = req[r].status, req'[r].lease = req[r].lease,
           req'[r].blocked = req[r].blocked, req[r].camp # Nil => req'[r].camp # Nil,
           item'[r][t].status = item[r][t].status, item'[r][t].cause = item[r][t].cause,
           wk'[w].pc # "declare", wk'[w].req = r, wk'[w].tgt = t,
           wk'[w].permits \subseteq wk[w].permits,
           wk'[w].pc \in {"campaign", "lead"} \cup Verifying => item[r][t].status = "running",
           wk'[w].pc = "lead" => req'[r].camp # Nil
    PROVE  SendStands'
<1>1. req[r].status = "running" /\ req[r].lease = w /\ ClaimStands(w)
  BY OwnerFacts
<1>2. Local(w, r)
  BY ZenonT(60), <1>1 DEF Local, ProviderKept, Touches
<1>3. Kept(r, t)
  BY <1>1 DEF Kept, ProviderKept, Touches
<1>4. ClaimStands(w)'
  BY <1>1 DEF ClaimStands, Touches
<1> QED BY ZenonT(60), <1>2, <1>3, <1>4, KeptStands, Together

\* A worker that settles item t, or leaves it alone.
LEMMA EndStands ==
    ASSUME TypeOK, SendStands, NEW w \in Workers, wk[w].pc # "idle", Guarded(w),
           NEW r \in Requests, r = wk[w].req, NEW t \in Targets,
           Touches(w, r, t), ClaimStands(w)',
           req'[r].status # "none", req'[r].lease \in {w, Nil}, req'[r].camp = req[r].camp,
           \/ /\ item'[r][t].status = item[r][t].status
              /\ item'[r][t].cause = item[r][t].cause
              /\ req'[r].blocked = req[r].blocked
           \/ /\ item[r][t].status = "running" /\ item'[r][t].status \in Terminal
              /\ req[r].blocked => req'[r].blocked
              /\ item'[r][t].status = "failed" /\ item'[r][t].cause # "invalid"
                 /\ ledger[r][t] > 0 => req'[r].blocked
    PROVE  SendStands'
<1>1. req[r].status = "running"
  BY ZenonT(60), OwnerFacts
<1>2. Local(w, r)
  BY ZenonT(60) DEF Local, ProviderKept, Touches
<1>3. Kept(r, t)
  BY <1>1 DEF Kept, ProviderKept, Touches, Terminal
<1> QED BY ZenonT(60), <1>2, <1>3, KeptStands, Together

\* _reject_changed_target: a declared import has a campaign, so cancelling it
\* holds the campaign.  _finish_already_sent settles its item as sent.
LEMMA CheckEndsClaimStands ==
    ASSUME TypeOK, SendStands, NEW w \in Workers, CheckEndsClaim(w)
    PROVE  SendStands'
<1>0. wk[w].pc # "idle" /\ Guarded(w)
  BY DEF CheckEndsClaim, GuardPoints
<1>1. PICK r \in Requests, t \in Targets : r = wk[w].req /\ t = wk[w].tgt
  BY <1>0, ClaimType
<1>2. /\ item[r] \in [Targets -> ItemRow] /\ item[r][t] \in ItemRow
      /\ req[r] \in RequestRow
  BY DEF TypeOK
<1>3. RequestStands(r) /\ item[r][t].status \in {"running"} \cup Terminal
  BY ZenonT(60), <1>0, <1>1, OwnerFacts
<1>4. item[r][t].status = "running"
  BY <1>1, <1>3 DEF CheckEndsClaim, CheckTarget
<1>5. CASE RejectChangedTarget(w)
  <2> DEFINE new == Settled(item[r][t], "failed", item[r][t].lead, "changed")
             its == [item[r] EXCEPT ![t] = new]
             held == req[r].blocked \/ Exposed(r, t)
             due == /\ \E u \in Targets : its[u].status = "sent"
                    /\ req[r].camp # Nil /\ ~req[r].activated
             status == IF FinalStatus(its) = Nil \/ held \/ due
                       THEN "waiting" ELSE FinalStatus(its)
             row == Released(Blocked(req[r], held), its, status)
  <2>1. status # "none" /\ held \in BOOLEAN
    BY FinalStatusType DEF Ended
  <2>2. new.status = "failed"
    BY <1>2, ItemFields
  <2>3. Blocked(req[r], held) \in RequestRow
    BY <1>2, <2>1, RequestRowType
  <2>4. /\ row.status = status /\ row.lease = Nil
        /\ row.camp = req[r].camp /\ row.blocked = held
    BY <1>2, <2>3, RequestFields
  <2>5. ledger[r][t] > 0 => held
    BY <1>3 DEF RequestStands, Exposed
  <2>6. req[r].blocked => held
    OBVIOUS
  <2>7. /\ item' = [item EXCEPT ![r] = its]
        /\ req' = [req EXCEPT ![r] = row]
        /\ UNCHANGED <<ledger, provider>> /\ Return(w)
        /\ \A x \in Workers \ {w} : wk'[x] = wk[x]
    BY <1>1, <1>2, <1>5 DEF RejectChangedTarget, Return, TypeOK
  <2> HIDE DEF new, held, status, row
  <2>8. its[t] = new /\ \A u \in Targets \ {t} : its[u] = item[r][u]
    BY <1>2
  <2> HIDE DEF its
  <2>9. ProviderKept(r) /\ ClaimStands(w)'
    BY <1>0, <1>1, <2>7, ProviderKeptFacts, ReturnStands
  <2>10. req'[r] = row /\ item'[r][t] = new /\ Touches(w, r, t)
    BY <2>7, <2>8, <2>9 DEF Touches, TypeOK
  <2> QED BY <1>0, <1>1, <1>4, <2>1, <2>2, <2>4, <2>5, <2>6, <2>9, <2>10, EndStands
          DEF Terminal
<1>6. CASE FinishAlreadySent(w)
  <2> DEFINE new == Settled(item[r][t], "sent",
                       IF tgt[t].lead # Nil THEN tgt[t].lead ELSE item[r][t].lead, "none")
             its == [item[r] EXCEPT ![t] = new]
             due == req[r].camp # Nil /\ ~req[r].activated
             status == IF FinalStatus(its) = Nil \/ due THEN "waiting" ELSE FinalStatus(its)
             row == Released(req[r], its, status)
  <2>1. status # "none"
    BY FinalStatusType DEF Ended
  <2>2. new.status = "sent"
    BY <1>2, ItemFields
  <2>3. /\ row.status = status /\ row.lease = Nil
        /\ row.camp = req[r].camp /\ row.blocked = req[r].blocked
    BY <1>2, RequestFields
  <2>4. /\ item' = [item EXCEPT ![r] = its]
        /\ req' = [req EXCEPT ![r] = row]
        /\ UNCHANGED <<ledger, provider>> /\ Return(w)
        /\ \A x \in Workers \ {w} : wk'[x] = wk[x]
    BY <1>1, <1>2, <1>6 DEF FinishAlreadySent, Return, TypeOK
  <2> HIDE DEF new, status, row
  <2>5. its[t] = new /\ \A u \in Targets \ {t} : its[u] = item[r][u]
    BY <1>2
  <2> HIDE DEF its
  <2>6. ProviderKept(r) /\ ClaimStands(w)'
    BY <1>0, <1>1, <2>4, ProviderKeptFacts, ReturnStands
  <2>7. req'[r] = row /\ item'[r][t] = new /\ Touches(w, r, t)
    BY <2>4, <2>5, <2>6 DEF Touches, TypeOK
  <2> QED BY <1>0, <1>1, <1>4, <2>1, <2>2, <2>3, <2>6, <2>7, EndStands DEF Terminal
<1> QED BY <1>5, <1>6 DEF CheckEndsClaim

\* The first guard of _process.
LEMMA ProcessStands ==
    ASSUME TypeOK, SendStands, NEW w \in Workers, Process(w)
    PROVE  SendStands'
<1>0. wk[w].pc = "process" /\ wk[w].pc # "idle" /\ Guarded(w)
  BY DEF Process, At
<1>1. PICK r \in Requests, t \in Targets : r = wk[w].req /\ t = wk[w].tgt
  BY <1>0, ClaimType
<1> DEFINE open == item[r][t].status \notin Terminal
           camp == IF req[r].camp # Nil THEN req[r].camp ELSE tgt[t].camp
           lead == IF item[r][t].lead # Nil THEN item[r][t].lead ELSE tgt[t].lead
           pc == IF ~open THEN "finalize"
                 ELSE IF camp = Nil THEN "campaign"
                 ELSE IF lead = Nil THEN "lead" ELSE "verify"
           row == Renewed(req[r], IF open THEN camp ELSE req[r].camp)
           it == Settled(item[r][t], item[r][t].status,
                         IF open THEN lead ELSE item[r][t].lead, item[r][t].cause)
           c == Snapshot(wk[w], pc, camp, lead, tgt[t].mail)
<1>2. /\ item[r] \in [Targets -> ItemRow] /\ item[r][t] \in ItemRow
      /\ req[r] \in RequestRow /\ wk[w] \in ClaimRow
  BY <1>0, ClaimType DEF TypeOK
<1>3. item[r][t].status \in {"running"} \cup Terminal
  BY ZenonT(60), <1>0, <1>1, OwnerFacts
<1>4. /\ req' = [req EXCEPT ![r] = row]
      /\ item' = [item EXCEPT ![r] = [item[r] EXCEPT ![t] = it]]
      /\ Return(w) \/ wk' = [wk EXCEPT ![w] = c]
      /\ UNCHANGED <<ledger, provider>>
  BY <1>1, <1>2 DEF Process, TypeOK
<1> HIDE DEF pc, camp, lead
<1>5. /\ row.status = req[r].status /\ row.lease = req[r].lease
      /\ row.blocked = req[r].blocked /\ row.camp = IF open THEN camp ELSE req[r].camp
  BY <1>2, RequestFields
<1>6. it.status = item[r][t].status /\ it.cause = item[r][t].cause
  BY <1>2, ItemFields
<1>7. /\ c.pc = pc /\ c.req = r /\ c.tgt = t /\ c.permits = wk[w].permits
  BY <1>1, <1>2, ClaimFields
<1> HIDE DEF row, it, c
<1>8. /\ req[r].camp # Nil => row.camp # Nil
      /\ pc # "declare" /\ (pc = "lead" => row.camp # Nil)
      /\ pc \in {"campaign", "lead"} \cup Verifying => item[r][t].status = "running"
  BY <1>3, <1>5 DEF Verifying, pc, camp
<1>9. ProviderKept(r)
  BY <1>0, <1>1, <1>4, ProviderKeptFacts
<1>10. \A x \in Workers \ {w} : wk'[x] = wk[x]
  BY <1>4 DEF Return, TypeOK
<1>11. req'[r] = row /\ item'[r][t] = it /\ Touches(w, r, t)
  BY <1>2, <1>4, <1>9, <1>10 DEF Touches, TypeOK
<1>12. CASE wk' = [wk EXCEPT ![w] = c]
  <2>1. wk'[w] = c
    BY <1>12 DEF TypeOK
  <2> QED BY <1>0, <1>1, <1>5, <1>6, <1>7, <1>8, <1>11, <2>1, RecordStands
<1>13. CASE Return(w)
  <2>1. ClaimStands(w)' /\ req[r].lease = w /\ req[r].status = "running"
    BY <1>0, <1>1, <1>13, ReturnStands, OwnerFacts
  <2>2. Local(w, r)
    BY <1>5, <1>11, <2>1 DEF Local, ProviderKept, Touches
  <2>3. Kept(r, t)
    BY <1>5, <1>6, <1>8, <1>11, <2>1 DEF Kept, ProviderKept, Touches
  <2> QED BY <2>1, <2>2, <2>3, KeptStands, Together
<1> QED BY ZenonT(60), <1>4, <1>12, <1>13

\* Declarations: an import is declared only by the owner of a running item in
\* a recorded campaign, and a permit is never ahead of the ledger.
LEMMA DeclareStands ==
    ASSUME TypeOK, SendStands, NEW w \in Workers, NeedsDeclaration(w) \/ DeclareOperation(w)
    PROVE  SendStands'
<1>0. /\ wk[w].pc \in {"campaign", "lead", "finalize", "declare"} /\ wk[w].pc # "idle"
      /\ Guarded(w)
  BY DEF NeedsDeclaration, DeclareOperation, Absent, At
<1>1. PICK r \in Requests, t \in Targets : r = wk[w].req /\ t = wk[w].tgt
  BY <1>0, ClaimType
<1>2. /\ wk[w] \in ClaimRow /\ req[r] \in RequestRow
      /\ t # "create" /\ t # "activate"
  BY <1>0, ClaimType, ConstantsAssumption DEF TypeOK
<1>3. Owner(w) /\ ClaimStands(w) /\ RequestStands(r) /\ req[r].lease = w
      /\ req[r].status = "running"
  BY <1>0, <1>1, OwnerFacts
<1>4. CASE NeedsDeclaration(w)
  <2>1. /\ wk'[w] = Declaring(wk[w], OperationAt(w))
        /\ \A x \in Workers \ {w} : wk'[x] = wk[x]
        /\ UNCHANGED <<req, item, ledger, leads, active>>
    BY <1>4 DEF NeedsDeclaration, TypeOK, rows, provider
  <2>2. /\ OperationAt(w) \in {"create", "activate", t}
        /\ OperationAt(w) = t => wk[w].pc = "lead"
    BY <1>1, <1>2, <1>4 DEF NeedsDeclaration, Absent, At, OperationAt
  <2>3. /\ wk'[w].pc = "declare" /\ wk'[w].op = OperationAt(w)
        /\ wk'[w].req = r /\ wk'[w].tgt = t /\ wk'[w].permits = wk[w].permits
    BY <1>1, <1>2, <2>1, ClaimFields
  <2>4. ClaimStands(w)'
    BY <1>1, <1>3, <2>1, <2>2, <2>3 DEF ClaimStands, Owner, Verifying
  <2> QED BY <1>0, <2>1, <2>4, SameRowsStand
<1>5. CASE DeclareOperation(w)
  <2> DEFINE o == wk[w].op
             row == Renewed(req[r], req[r].camp)
             c == Permitted(wk[w])
  <2>1. wk[w].pc = "declare" /\ o \in Operations /\ o \in {"create", "activate", t}
    BY <1>1, <1>2, <1>3, <1>5 DEF DeclareOperation, At, ClaimRow, ClaimStands
  <2>2. /\ row.status = "running" /\ row.lease = w
        /\ row.blocked = req[r].blocked /\ row.camp = req[r].camp
    BY <1>2, <1>3, RequestFields
  <2>3. /\ c.pc = "process" /\ c.req = r /\ c.permits = wk[w].permits \cup {o}
    BY <1>1, <1>2, ClaimFields
  <2>4. /\ ledger' = [ledger EXCEPT ![r] = [ledger[r] EXCEPT ![o] = ledger[r][o] + 1]]
        /\ req' = [req EXCEPT ![r] = row] /\ wk' = [wk EXCEPT ![w] = c]
        /\ UNCHANGED <<item, leads, active>>
    BY <1>1, <1>5, <2>1 DEF DeclareOperation, RenewedLease, provider, TypeOK
  <2> HIDE DEF o, row, c
  <2>5. /\ ledger[r] \in [Operations -> Nat] /\ ledger[r][o] + 1 > 0
    BY <2>1 DEF TypeOK
  <2>6. /\ req'[r] = row /\ wk'[w] = c
        /\ ledger'[r] = [ledger[r] EXCEPT ![o] = ledger[r][o] + 1]
        /\ \A q \in Requests \ {r} : ledger'[q] = ledger[q] /\ req'[q] = req[q]
        /\ \A x \in Workers \ {w} : wk'[x] = wk[x]
    BY <2>4 DEF TypeOK
  <2>7. \A p \in Operations : /\ p # o => ledger'[r][p] = ledger[r][p]
                              /\ ledger[r][p] > 0 => ledger'[r][p] > 0
    BY <2>1, <2>5, <2>6
  <2>8. ledger'[r][o] > 0
    BY <2>1, <2>5, <2>6
  <2>9. Local(w, r)
    BY <2>2, <2>4, <2>6, <2>7 DEF Local
  <2>10. wk[w].permits \in SUBSET Operations
    BY <1>2 DEF ClaimRow
  <2>11. ClaimStands(w)'
    BY <1>1, <1>3, <2>3, <2>6, <2>7, <2>8, <2>10 DEF ClaimStands, Verifying
  <2>12. o = t => item[r][t].status = "running" /\ req[r].camp # Nil
    BY <1>1, <1>3, <2>1 DEF ClaimStands, o
  <2>13. \A u \in Targets : u \in Operations /\ (u = o => u = t)
    BY <2>1, ConstantsAssumption DEF Operations
  <2>14. RequestStands(r)'
    BY <1>3, <2>2, <2>4, <2>6, <2>7, <2>12, <2>13 DEF RequestStands
  <2> QED BY <2>9, <2>11, <2>14, Together
<1> QED BY <1>4, <1>5

\* A campaign, or a lead, is recorded.
LEMMA PersistStands ==
    ASSUME TypeOK, SendStands, NEW w \in Workers,
           \/ CreateCampaign(w) \/ FindCampaign(w) \/ ImportLead(w) \/ FindLead(w)
    PROVE  SendStands'
<1>0. wk[w].pc \in {"campaign", "lead"} /\ wk[w].pc # "idle" /\ Guarded(w)
  BY DEF CreateCampaign, FindCampaign, ImportLead, FindLead, MayPost, Absent, At
<1>1. PICK r \in Requests, t \in Targets : r = wk[w].req /\ t = wk[w].tgt
  BY <1>0, ClaimType
<1>2. /\ item[r] \in [Targets -> ItemRow] /\ item[r][t] \in ItemRow
      /\ req[r] \in RequestRow /\ wk[w] \in ClaimRow /\ r # Nil
  BY <1>0, ClaimType, ConstantsAssumption DEF TypeOK
<1>3. item[r][t].status = "running"
  BY <1>0, <1>1, OwnerFacts DEF ClaimStands
<1>4. ProviderKept(r)
  BY <1>0, <1>1, ProviderKeptFacts DEF CreateCampaign, FindCampaign, ImportLead, FindLead
<1>5. CASE CreateCampaign(w) \/ FindCampaign(w)
  <2> DEFINE pc == IF wk[w].lead = Nil THEN "lead" ELSE "verify"
             row == Renewed(req[r], r)
             c == Posted(wk[w], pc, r, wk[w].lead, "create")
  <2>1. PersistCampaign(w)
    BY <1>5 DEF CreateCampaign, FindCampaign
  <2>2. /\ req' = [req EXCEPT ![r] = row]
        /\ wk' = [wk EXCEPT ![w] = c]
        /\ UNCHANGED <<item, ledger>>
    BY <1>1, <2>1 DEF PersistCampaign, TypeOK
  <2> HIDE DEF pc
  <2>3. /\ row.status = req[r].status /\ row.lease = req[r].lease
        /\ row.blocked = req[r].blocked /\ row.camp = r
    BY <1>2, RequestFields
  <2>4. c.pc = pc /\ c.req = r /\ c.tgt = t /\ c.permits \subseteq wk[w].permits
    BY <1>1, <1>2, ClaimFields
  <2> HIDE DEF row, c
  <2>5. req'[r] = row /\ wk'[w] = c /\ Touches(w, r, t)
    BY <1>4, <2>2 DEF Touches, TypeOK
  <2>6. pc # "declare"
    BY DEF pc
  <2> QED BY <1>0, <1>1, <1>2, <1>3, <2>2, <2>3, <2>4, <2>5, <2>6, RecordStands
<1>6. CASE ImportLead(w) \/ FindLead(w)
  <2>1. PICK lead : PersistLead(w, lead)
    BY <1>6 DEF ImportLead, FindLead
  <2> DEFINE it == Settled(item[r][t], item[r][t].status, lead, item[r][t].cause)
             row == Renewed(req[r], req[r].camp)
             c == Posted(wk[w], "verify", wk[w].camp, lead, t)
  <2>2. /\ item' = [item EXCEPT ![r] = [item[r] EXCEPT ![t] = it]]
        /\ req' = [req EXCEPT ![r] = row]
        /\ wk' = [wk EXCEPT ![w] = c]
        /\ UNCHANGED ledger
    BY <1>1, <1>2, <2>1 DEF PersistLead, RenewedLease, TypeOK
  <2>3. it.status = item[r][t].status /\ it.cause = item[r][t].cause
    BY <1>2, ItemFields
  <2>4. /\ row.status = req[r].status /\ row.lease = req[r].lease
        /\ row.blocked = req[r].blocked /\ row.camp = req[r].camp
    BY <1>2, RequestFields
  <2>5. c.pc = "verify" /\ c.req = r /\ c.tgt = t /\ c.permits \subseteq wk[w].permits
    BY <1>1, <1>2, ClaimFields
  <2> HIDE DEF it, row, c
  <2>6. req'[r] = row /\ item'[r][t] = it /\ wk'[w] = c /\ Touches(w, r, t)
    BY <1>2, <1>4, <2>2 DEF Touches, TypeOK
  <2> QED BY <1>0, <1>1, <1>3, <2>3, <2>4, <2>5, <2>6, RecordStands
<1> QED BY <1>5, <1>6

\* The verification read and its declaration.
LEMMA VerifyStands ==
    ASSUME TypeOK, SendStands, NEW w \in Workers, Verify(w) \/ GetVerification(w)
    PROVE  SendStands'
<1>0. wk[w].pc \in {"verify", "get"} /\ wk[w].pc # "idle"
  BY DEF Verify, GetVerification, At
<1>1. PICK r \in Requests, t \in Targets : r = wk[w].req /\ t = wk[w].tgt
  BY <1>0, ClaimType
<1>2. /\ item[r] \in [Targets -> ItemRow] /\ req[r] \in RequestRow /\ wk[w] \in ClaimRow
      /\ ClaimStands(w)
  BY <1>0, ClaimType DEF TypeOK, SendStands
<1>3. CASE Verify(w)
  <2> DEFINE row == Renewed(req[r], req[r].camp)
             c == GoneTo(wk[w], "get")
  <2>0. Guarded(w) /\ UNCHANGED provider
    BY <1>3 DEF Verify, At
  <2>1. /\ req' = [req EXCEPT ![r] = row]
        /\ wk' = [wk EXCEPT ![w] = c]
        /\ UNCHANGED <<item, ledger>>
    BY <1>1, <1>3 DEF Verify, Goto, RenewedLease, TypeOK
  <2>2. /\ row.status = req[r].status /\ row.lease = req[r].lease
        /\ row.blocked = req[r].blocked /\ row.camp = req[r].camp
    BY <1>2, RequestFields
  <2>3. c.pc = "get" /\ c.req = r /\ c.tgt = t /\ c.permits = wk[w].permits
    BY <1>1, <1>2, ClaimFields
  <2>4. item[r][t].status = "running"
    BY <1>0, <1>1, <2>0, OwnerFacts DEF ClaimStands, Verifying
  <2>5. ProviderKept(r)
    BY <1>0, <1>1, <2>0, ProviderKeptFacts
  <2> HIDE DEF row, c
  <2>6. req'[r] = row /\ wk'[w] = c /\ Touches(w, r, t)
    BY <2>1, <2>5 DEF Touches, TypeOK
  <2> QED BY <1>0, <1>1, <2>0, <2>1, <2>2, <2>3, <2>4, <2>6, RecordStands
<1>4. CASE GetVerification(w)
  <2>1. PICK pc \in {"accepted", "failed", "pending", "errored"} :
            wk' = [wk EXCEPT ![w] = GoneTo(wk[w], pc)]
    BY <1>4 DEF GetVerification, Goto
  <2>2. /\ UNCHANGED <<req, item, ledger, leads, active>>
        /\ wk[w].pc = "get"
    BY <1>4 DEF GetVerification, rows, provider
  <2>3. /\ wk'[w] = GoneTo(wk[w], pc)
        /\ \A x \in Workers \ {w} : wk'[x] = wk[x]
    BY <2>1 DEF TypeOK
  <2>4. /\ wk'[w].pc = pc /\ wk'[w].req = r /\ wk'[w].tgt = t
        /\ wk'[w].permits = wk[w].permits
    BY <1>1, <1>2, <2>3, ClaimFields
  <2>5. ClaimStands(w)'
    BY <1>1, <1>2, <2>2, <2>4 DEF ClaimStands, Owner, Verifying
  <2> QED BY <1>0, <2>2, <2>3, <2>5, SameRowsStand
<1> QED BY <1>3, <1>4

\* An item is accepted, or failed on the provider's verdict.
LEMMA OutcomeStands ==
    ASSUME TypeOK, SendStands, NEW w \in Workers, Accepted(w) \/ Failed(w)
    PROVE  SendStands'
<1>0. wk[w].pc \in {"accepted", "failed"} /\ wk[w].pc # "idle" /\ Guarded(w)
  BY DEF Accepted, Failed, At
<1>1. PICK r \in Requests, t \in Targets : r = wk[w].req /\ t = wk[w].tgt
  BY <1>0, ClaimType
<1>2. /\ item[r] \in [Targets -> ItemRow] /\ item[r][t] \in ItemRow
      /\ req[r] \in RequestRow /\ wk[w] \in ClaimRow
  BY <1>0, ClaimType DEF TypeOK
<1>3. /\ item[r][t].status = "running" /\ req[r].status = "running" /\ req[r].lease = w
      /\ ClaimStands(w)
  BY <1>0, <1>1, OwnerFacts DEF ClaimStands, Verifying
<1>4. PICK new :
        /\ new.status \in Terminal /\ (new.status = "failed" => new.cause = "invalid")
        /\ Settle(w, [item[r] EXCEPT ![t] = new])
  <2>1. CASE Accepted(w)
    <3>1. Settled(item[r][t], "sent", wk[w].lead, "none").status = "sent"
      BY <1>2, ItemFields
    <3> QED BY <1>1, <2>1, <3>1 DEF Accepted, Terminal
  <2>2. CASE Failed(w)
    <3>1. /\ Settled(item[r][t], "failed", wk[w].lead, "invalid").status = "failed"
          /\ Settled(item[r][t], "failed", wk[w].lead, "invalid").cause = "invalid"
      BY <1>2, ItemFields
    <3> QED BY <1>1, <2>2, <3>1 DEF Failed, Terminal
  <2> QED BY <2>1, <2>2
<1> DEFINE its == [item[r] EXCEPT ![t] = new]
           c == GoneTo(wk[w], "finalize")
           out == Released(req[r], its, "waiting")
           on == Renewed(req[r], req[r].camp)
<1>5. /\ item' = [item EXCEPT ![r] = its]
      /\ \/ req' = [req EXCEPT ![r] = out] /\ Return(w)
         \/ req' = [req EXCEPT ![r] = on] /\ wk' = [wk EXCEPT ![w] = c]
      /\ UNCHANGED <<ledger, provider>>
  BY <1>1, <1>4 DEF Settle, Goto, RenewedLease, TypeOK
<1>6. /\ out.status = "waiting" /\ out.lease = Nil
      /\ out.camp = req[r].camp /\ out.blocked = req[r].blocked
      /\ on.status = "running" /\ on.lease = w
      /\ on.camp = req[r].camp /\ on.blocked = req[r].blocked
  BY <1>2, <1>3, RequestFields
<1>7. c.pc = "finalize" /\ c.req = r /\ c.permits = wk[w].permits
  BY <1>1, <1>2, ClaimFields
<1> HIDE DEF c, out, on
<1>8. its[t] = new /\ \A u \in Targets \ {t} : its[u] = item[r][u]
  BY <1>2
<1> HIDE DEF its
<1>9. ProviderKept(r)
  BY <1>0, <1>1, <1>5, ProviderKeptFacts
<1>10. \A x \in Workers \ {w} : wk'[x] = wk[x]
  BY <1>5 DEF Return, TypeOK
<1>11. item'[r][t] = new /\ Touches(w, r, t) /\ req'[r] \in {out, on}
  BY <1>5, <1>8, <1>9, <1>10 DEF Touches, TypeOK
<1>12. ClaimStands(w)'
  <2>1. CASE Return(w)
    BY <2>1, ReturnStands
  <2>2. CASE wk' = [wk EXCEPT ![w] = c]
    <3>1. wk'[w] = c /\ ledger' = ledger
      BY <1>5, <2>2 DEF TypeOK
    <3> QED BY <1>1, <1>3, <1>7, <3>1 DEF ClaimStands, Verifying
  <2> QED BY <1>5, <2>1, <2>2
<1> QED BY <1>0, <1>1, <1>3, <1>4, <1>6, <1>11, <1>12, EndStands

\* The request ends, activated or not.
LEMMA EndRequestStands ==
    ASSUME TypeOK, SendStands, NEW w \in Workers, Activate(w) \/ FinalizeWithoutPost(w)
    PROVE  SendStands'
<1>0. wk[w].pc # "idle" /\ Guarded(w)
  BY DEF Activate, FinalizeWithoutPost, MayPost, Absent, At
<1>1. PICK r \in Requests, t \in Targets : r = wk[w].req /\ t = wk[w].tgt
  BY <1>0, ClaimType
<1>2. req[r] \in RequestRow
  BY DEF TypeOK
<1>3. PICK b \in BOOLEAN : EndRequest(w, b)
  BY <1>1, <1>2, RequestRowType DEF Activate, FinalizeWithoutPost
<1>4. FinalStatus(item[r]) \in Ended
  <2>1. FinalStatus(item[r]) # Nil
    BY <1>1, ConstantsAssumption DEF Activate, FinalizeWithoutPost, MayPost, Absent, At, MayActivate
  <2> QED BY <2>1, FinalStatusType
<1> DEFINE row == Released(Activated(req[r], b), item[r], FinalStatus(item[r]))
<1>5. /\ req' = [req EXCEPT ![r] = row]
      /\ UNCHANGED <<item, ledger>> /\ Return(w)
  BY <1>1, <1>3 DEF EndRequest, TypeOK
<1>6. /\ row.status # "none" /\ row.lease = Nil
      /\ row.camp = req[r].camp /\ row.blocked = req[r].blocked
  <2>1. Activated(req[r], b) \in RequestRow
    BY <1>2, RequestRowType
  <2> QED BY <1>2, <1>4, <2>1, RequestFields DEF Ended
<1>7. ProviderKept(r)
  BY <1>0, <1>1, ProviderKeptFacts DEF Activate, FinalizeWithoutPost
<1>8. ClaimStands(w)' /\ \A x \in Workers \ {w} : wk'[x] = wk[x]
  BY <1>5, ReturnStands DEF Return, TypeOK
<1> HIDE DEF row
<1>9. req'[r] = row /\ Touches(w, r, t)
  BY <1>5, <1>7, <1>8 DEF Touches, TypeOK
<1> QED BY <1>0, <1>1, <1>5, <1>6, <1>8, <1>9, EndStands

\* Every step of a worker.
LEMMA WorkerStands ==
    ASSUME TypeOK, SendStands, NEW w \in Workers,
           WorkerStep(w) \/ PostThenCrash(w) \/ Crash(w)
    PROVE  SendStands'
<1>1. CASE Lost(w) \/ Crash(w)
  <2>1. /\ wk[w].pc # "idle" /\ Return(w)
        /\ UNCHANGED <<req, item, ledger, leads, active>>
    BY <1>1 DEF Lost, Crash, GuardPoints, rows, provider
  <2>2. \A x \in Workers \ {w} : wk'[x] = wk[x]
    BY <2>1 DEF Return, TypeOK
  <2> QED BY <2>1, <2>2, ReturnStands, SameRowsStand
<1>2. CASE \/ KillSwitchHolds(w) \/ VerificationPending(w) \/ VerificationErrored(w)
           \/ ActivationHeld(w) \/ ReconciliationRequired(w) \/ PostFails(w)
  <2>1. wk[w].pc # "idle" /\ Guarded(w)
    BY <1>2 DEF KillSwitchHolds, VerificationPending, VerificationErrored,
                ActivationHeld, ReconciliationRequired, PostFails, MayPost, Absent, At
  <2>2. \E status \in {"queued", "verification_pending"} : Wait(w, status)
    BY <1>2 DEF KillSwitchHolds, VerificationPending, VerificationErrored,
                ActivationHeld, ReconciliationRequired, PostFails
  <2>3. UNCHANGED provider \/ (MayPost(w) /\ Lands(w))
    BY <1>2 DEF KillSwitchHolds, VerificationPending, VerificationErrored,
                ActivationHeld, ReconciliationRequired, PostFails
  <2> QED BY <2>1, <2>2, <2>3, ProviderKeptFacts, WaitStands
<1>3. CASE PostThenCrash(w)
  <2>1. /\ wk[w].pc # "idle" /\ Guarded(w) /\ Return(w)
        /\ UNCHANGED <<req, item, ledger>> /\ MayPost(w) /\ Lands(w)
    BY <1>3 DEF PostThenCrash, MayPost, Absent, At, rows
  <2>2. PICK r \in Requests, t \in Targets : r = wk[w].req /\ t = wk[w].tgt
    BY <2>1, ClaimType
  <2>3. /\ ProviderKept(r) /\ ClaimStands(w)'
        /\ req[r].status = "running" /\ req[r].lease = w
    BY <2>1, <2>2, ProviderKeptFacts, ReturnStands, OwnerFacts
  <2>4. \A x \in Workers \ {w} : wk'[x] = wk[x]
    BY <2>1 DEF Return, TypeOK
  <2>5. Touches(w, r, t)
    BY <2>1, <2>3, <2>4 DEF Touches
  <2> QED BY <2>1, <2>2, <2>3, <2>5, EndStands
<1>4. CASE CheckEndsClaim(w)
  BY <1>4, CheckEndsClaimStands
<1>5. CASE Process(w)
  BY <1>5, ProcessStands
<1>6. CASE NeedsDeclaration(w) \/ DeclareOperation(w)
  BY <1>6, DeclareStands
<1>7. CASE CreateCampaign(w) \/ FindCampaign(w) \/ ImportLead(w) \/ FindLead(w)
  BY <1>7, PersistStands
<1>8. CASE Verify(w) \/ GetVerification(w)
  BY <1>8, VerifyStands
<1>9. CASE Accepted(w) \/ Failed(w)
  BY <1>9, OutcomeStands
<1>10. CASE Activate(w) \/ FinalizeWithoutPost(w)
  BY <1>10, EndRequestStands
<1> QED BY <1>1, <1>2, <1>3, <1>4, <1>5, <1>6, <1>7, <1>8, <1>9, <1>10 DEF WorkerStep

\* A claim: a due item is not `none', and a settled one keeps its outcome.
LEMMA ClaimKeepsStanding ==
    ASSUME TypeOK, SendStands, NEW w \in Workers, NEW r \in Requests, Claim(w, r)
    PROVE  SendStands'
<1>1. PICK t \in Targets :
        /\ Due(r, t)
        /\ req' = [req EXCEPT ![r] = Claimed(@, w)]
        /\ item' = [item EXCEPT ![r][t] =
              IF @.status \in Terminal THEN @
              ELSE Settled(@, "running", @.lead, @.cause)]
        /\ wk' = [wk EXCEPT ![w] = NewClaim(r, t)]
  BY DEF Claim, FirstDue
<1> DEFINE it == Settled(item[r][t], "running", item[r][t].lead, item[r][t].cause)
           row == Claimed(req[r], w)
<1>2. item[r] \in [Targets -> ItemRow] /\ item[r][t] \in ItemRow /\ req[r] \in RequestRow
  BY DEF TypeOK
<1>3. it.status = "running" /\ it.cause = item[r][t].cause
  BY <1>2, ItemFields
<1>4. /\ row.status = "running" /\ row.lease = w
      /\ row.camp = req[r].camp /\ row.blocked = req[r].blocked
  BY <1>2, RequestFields
<1>5. /\ req'[r] = row /\ wk'[w] = NewClaim(r, t)
      /\ item'[r][t] = IF item[r][t].status \in Terminal THEN item[r][t] ELSE it
      /\ \A u \in Targets \ {t} : item'[r][u] = item[r][u]
      /\ \A q \in Requests \ {r} : req'[q] = req[q] /\ item'[q] = item[q]
      /\ \A x \in Workers \ {w} : wk'[x] = wk[x]
  BY <1>1, <1>2 DEF TypeOK
<1>6. UNCHANGED <<ledger, leads, active>> /\ Reclaimable(r)
  BY DEF Claim, provider
<1>7. item[r][t].status # "none" /\ req[r].status # "none"
  BY <1>1, <1>6 DEF Due, Reclaimable, Terminal
<1> HIDE DEF it, row
<1>8. ClaimStands(w)'
  BY <1>5, IdleFields DEF ClaimStands, Verifying
<1>9. Local(w, r)
  BY <1>4, <1>5, <1>6 DEF Local
<1>10. RequestStands(r)
  BY DEF SendStands
<1>11. Kept(r, t)
  BY <1>3, <1>4, <1>5, <1>6, <1>7, <1>10 DEF Kept, Terminal, RequestStands
<1> QED BY <1>8, <1>9, <1>11, KeptStands, Together

\* A reservation starts from a request that has nothing at the provider.
LEMMA EnqueueStands ==
    ASSUME TypeOK, SendStands, NEW r \in Requests, NEW order \in Batches,
           EnqueueSend(r, order)
    PROVE  SendStands'
<1>1. /\ req[r].status = "none" /\ req' = [req EXCEPT ![r] = NewRequest(Len(order))]
      /\ UNCHANGED <<ledger, leads, active, wk>>
      /\ \A q \in Requests \ {r} : item'[q] = item[q]
  BY DEF EnqueueSend, TypeOK, provider
<1>2. /\ req'[r].status = "queued"
      /\ \A q \in Requests \ {r} : req'[q] = req[q]
  BY <1>1, NewFields DEF TypeOK
<1>3. ASSUME NEW q \in Requests PROVE RequestStands(q)'
  <2>1. RequestStands(q)
    BY DEF SendStands
  <2>2. CASE q # r
    BY <1>1, <1>2, <2>1, <2>2 DEF RequestStands
  <2>3. CASE q = r
    <3>1. /\ \A t \in Targets : ~(ledger[r][t] > 0) /\ ~(leads[r][t] > 0)
          /\ r \notin active
      BY <1>1, <2>1, <2>3 DEF RequestStands
    <3> QED BY <1>1, <1>2, <2>3, <3>1 DEF RequestStands
  <2> QED BY <2>2, <2>3
<1>4. ASSUME NEW x \in Workers PROVE ClaimStands(x)'
  <2>1. ClaimStands(x) /\ wk'[x] = wk[x] /\ ledger' = ledger
    BY <1>1 DEF SendStands
  <2>2. CASE wk[x].req \in Requests \ {r}
    <3>1. req'[wk[x].req] = req[wk[x].req] /\ item'[wk[x].req] = item[wk[x].req]
      BY <1>1, <1>2, <2>2
    <3> QED BY <2>1, <3>1 DEF ClaimStands, Owner
  <2>3. CASE wk[x].req \notin Requests \ {r}
    <3>1. wk[x].pc # "idle" => wk[x].req = r
      BY <2>3, ClaimType
    <3>2. ~Owner(x)'
      BY <1>2, <2>1, <3>1 DEF Owner
    <3> QED BY <2>1, <3>2 DEF ClaimStands
  <2> QED BY <2>2, <2>3
<1> QED BY <1>3, <1>4 DEF SendStands

\* A step that leaves requests, items, ledger, leads, campaigns and claims alone.
LEMMA UnchangedStands ==
    ASSUME SendStands, UNCHANGED <<req, item, ledger, leads, active, wk>>
    PROVE  SendStands'
BY DEF SendStands, ClaimStands, RequestStands, Owner

\* A lease that runs out changes neither its holder nor the rows.
LEMMA LeaseExpiresStands ==
    ASSUME TypeOK, SendStands, NEW r \in Requests, LeaseExpires(r)
    PROVE  SendStands'
<1>1. /\ req' = [req EXCEPT ![r] = Expired(@)]
      /\ UNCHANGED <<item, ledger, leads, active, wk>>
  BY DEF LeaseExpires, provider
<1>2. \A q \in Requests : /\ req'[q].status = req[q].status /\ req'[q].lease = req[q].lease
                          /\ req'[q].camp = req[q].camp /\ req'[q].blocked = req[q].blocked
  <2> TAKE q \in Requests
  <2>1. req[r] \in RequestRow
    BY DEF TypeOK
  <2>2. req'[q] = IF q = r THEN Expired(req[r]) ELSE req[q]
    BY <1>1 DEF TypeOK
  <2> QED BY <2>1, <2>2, RequestFields
<1>3. ASSUME NEW q \in Requests PROVE RequestStands(q)'
  <2>1. RequestStands(q)
    BY DEF SendStands
  <2> QED BY <1>1, <1>2, <2>1 DEF RequestStands
<1>4. ASSUME NEW x \in Workers PROVE ClaimStands(x)'
  <2>1. ClaimStands(x) /\ (wk[x].pc # "idle" => wk[x].req \in Requests)
    BY ClaimType DEF SendStands
  <2>2. CASE wk[x].pc = "idle"
    BY <1>1, <2>1, <2>2 DEF ClaimStands, Owner, Verifying
  <2>3. CASE wk[x].pc # "idle"
    BY <1>1, <1>2, <2>1, <2>3 DEF ClaimStands, Owner
  <2> QED BY <2>2, <2>3
<1> QED BY <1>3, <1>4 DEF SendStands

\* Nothing is claimed, declared or imported in the initial state.
LEMMA InitStands == Init => SendStands
<1> SUFFICES ASSUME Init PROVE SendStands
  OBVIOUS
<1>1. ASSUME NEW w \in Workers PROVE ClaimStands(w)
  BY IdleFields DEF Init, ClaimStands, Owner, Verifying
<1>2. ASSUME NEW r \in Requests PROVE RequestStands(r)
  BY NewFields DEF Init, RequestStands, Operations, NoItem
<1> QED BY <1>1, <1>2 DEF SendStands

\* SendStands is inductive.
LEMMA NextStands == TypeOK /\ SendStands /\ [Next]_vars => SendStands'
<1> SUFFICES ASSUME TypeOK, SendStands, [Next]_vars PROVE SendStands'
  OBVIOUS
<1>1. CASE UNCHANGED vars
  BY <1>1, UnchangedStands DEF vars, rows, provider
<1>2. CASE FounderStep
  <2>1. CASE \E r \in Requests, order \in Batches : EnqueueSend(r, order)
    BY <2>1, EnqueueStands
  <2>2. CASE ~ \E r \in Requests, order \in Batches : EnqueueSend(r, order)
    BY <1>2, <2>2, UnchangedStands
       DEF FounderStep, Approve, Reject, Correct, RegeneratePendingMail, ToggleKillSwitch,
           rows, provider
  <2> QED BY <2>1, <2>2
<1>3. CASE \E r \in Requests, t \in Targets, v \in {"valid", "invalid"} :
              ProviderVerifies(r, t, v)
  BY <1>3, UnchangedStands DEF ProviderVerifies, rows
<1>4. CASE \E w \in Workers, r \in Requests : Claim(w, r)
  BY <1>4, ClaimKeepsStanding
<1>5. CASE \E w \in Workers : WorkerStep(w) \/ PostThenCrash(w) \/ Crash(w)
  BY <1>5, WorkerStands
<1>6. CASE \E r \in Requests : LeaseExpires(r)
  BY <1>6, LeaseExpiresStands
<1> QED BY <1>1, <1>2, <1>3, <1>4, <1>5, <1>6 DEF Next

\* Claims, rows and provider agree in every reachable state, wherever a crash,
\* an expired lease or an edit cut a worker short.
THEOREM SendStandsAlways == Spec => []SendStands
<1>1. TypeOK /\ SendStands /\ [Next]_vars => TypeOK' /\ SendStands'
  BY TypeNext, NextStands
<1> QED BY <1>1, TypeInit, InitStands, PTL DEF Spec

\* A mail its founder corrected, rejected or regenerated is never in a sending
\* campaign, even when its import had landed before the worker could know.
THEOREM NoCancelledMailGoesOut == Spec => []ActiveOnlyResolved
<1>1. TypeOK /\ SendStands => ActiveOnlyResolved
  <2> SUFFICES ASSUME TypeOK, SendStands, NEW r \in active, NEW t \in Targets,
                      leads[r][t] > 0
               PROVE  \/ item[r][t].status = "sent"
                      \/ item[r][t].status = "failed" /\ item[r][t].cause = "invalid"
    BY DEF ActiveOnlyResolved
  <2>1. RequestStands(r)
    BY DEF TypeOK, SendStands
  <2> QED BY <2>1 DEF RequestStands, Terminal
<1> QED BY <1>1, TypeCorrect, SendStandsAlways, PTL

-----------------------------------------------------------------------------
(* The provider                                                             *)

\* Campaigns, leads and activations come from permitted POSTs alone.
LEMMA OnlyPosts ==
    ASSUME [Next]_vars
    PROVE  \/ UNCHANGED <<campaigns, leads, active>>
           \/ \E w \in Workers : MayPost(w) /\ Lands(w)
<1>1. CASE UNCHANGED vars
  BY <1>1 DEF vars, provider
<1>2. CASE FounderStep
  BY <1>2 DEF FounderStep, Approve, Reject, Correct, RegeneratePendingMail, EnqueueSend,
              ToggleKillSwitch, provider
<1>3. CASE \E r \in Requests, t \in Targets, v \in {"valid", "invalid"} :
              ProviderVerifies(r, t, v)
  BY <1>3 DEF ProviderVerifies
<1>4. CASE \E w \in Workers, r \in Requests : Claim(w, r)
  BY ZenonT(60), <1>4 DEF Claim, provider
<1>5. ASSUME NEW w \in Workers, WorkerStep(w) \/ PostThenCrash(w) \/ Crash(w)
      PROVE  UNCHANGED provider \/ (MayPost(w) /\ Lands(w))
  BY <1>5 DEF WorkerStep, Lost, CheckEndsClaim, RejectChangedTarget, FinishAlreadySent,
         Process, KillSwitchHolds, NeedsDeclaration, DeclareOperation, PostFails,
         ReconciliationRequired, CreateCampaign, FindCampaign, ImportLead, FindLead,
         Verify, GetVerification, VerificationPending, VerificationErrored, Accepted,
         Failed, Settle, ActivationHeld, Activate, FinalizeWithoutPost, PostThenCrash, Crash
<1>6. CASE \E r \in Requests : LeaseExpires(r)
  BY <1>6 DEF LeaseExpires, provider
<1> QED BY <1>1, <1>2, <1>3, <1>4, <1>5, <1>6 DEF Next, provider

\* A POST adds one, and only to what the reconciliation read found absent.
LEMMA PostAddsOne ==
    ASSUME TypeOK, NEW w \in Workers, MayPost(w), Lands(w), NEW r \in Requests
    PROVE  /\ campaigns'[r] = campaigns[r] \/ (campaigns[r] = 0 /\ campaigns'[r] = 1)
           /\ \A t \in Targets :
                 leads'[r][t] = leads[r][t] \/ (leads[r][t] = 0 /\ leads'[r][t] = 1)
<1>1. wk[w].pc # "idle" /\ Absent(w)
  BY DEF MayPost, Absent, At
<1>2. PICK q \in Requests, u \in Targets : q = wk[w].req /\ u = wk[w].tgt
  BY <1>1, ClaimType
<1>3. wk[w].pc = "campaign" => campaigns[q] = 0
  BY <1>1, <1>2 DEF Absent, At
<1>4. wk[w].pc = "lead" => leads[q][u] = 0
  <2>1. wk[w].pc = "lead" => Matches(q, u) = {}
    BY <1>1, <1>2 DEF Absent, At
  <2>2. leads[q][u] \in Nat
    BY DEF TypeOK
  <2> QED BY <2>1, <2>2 DEF Matches
<1>5. campaigns'[r] = IF r = q /\ wk[w].pc = "campaign" THEN campaigns[r] + 1 ELSE campaigns[r]
  BY <1>2 DEF Lands, TypeOK
<1>6. \A t \in Targets : leads'[r][t] =
          IF r = q /\ t = u /\ wk[w].pc = "lead" THEN leads[r][t] + 1 ELSE leads[r][t]
  BY <1>2 DEF Lands, TypeOK
<1> QED BY <1>3, <1>4, <1>5, <1>6

\* Instantly has no idempotency key, and yet no crash, timeout, expired lease
\* or retry makes a second campaign for a request or a second lead for a target.
THEOREM NoDuplicates == Spec => []NoDuplicateAtProvider
<1>1. Init => NoDuplicateAtProvider
  BY DEF Init, NoDuplicateAtProvider
<1>2. TypeOK /\ NoDuplicateAtProvider /\ [Next]_vars => NoDuplicateAtProvider'
  <2> SUFFICES ASSUME TypeOK, NoDuplicateAtProvider, [Next]_vars, NEW r \in Requests
               PROVE  campaigns'[r] <= 1 /\ \A t \in Targets : leads'[r][t] <= 1
    BY DEF NoDuplicateAtProvider
  <2>1. CASE UNCHANGED <<campaigns, leads, active>>
    BY <2>1 DEF NoDuplicateAtProvider
  <2>2. CASE \E w \in Workers : MayPost(w) /\ Lands(w)
    BY <2>2, PostAddsOne DEF NoDuplicateAtProvider
  <2> QED BY <2>1, <2>2, OnlyPosts
<1> QED BY <1>1, <1>2, TypeCorrect, PTL DEF Spec

\* While the kill switch is on no campaign, lead or activation is posted,
\* whatever was declared before.
THEOREM KillSwitchHonoured == Spec => KillSwitchStopsPosts
<1>1. [Next]_vars => [kill => UNCHANGED <<campaigns, leads, active>>]_vars
  BY OnlyPosts DEF MayPost
<1> QED BY <1>1, PTL DEF Spec, KillSwitchStopsPosts

-----------------------------------------------------------------------------
(* The inductive invariants.                                                *)

\* The items a request still has to settle.
Open == {"queued", "running", "verification_pending"}

\* Only a running request has a live lease.
LiveRuns == \A r \in Requests : req[r].live => req[r].status = "running"

\* The item that runs under a claim is the claimed one.
OwnerHolds(w) ==
    Owner(w) => \A u \in Targets : item[wk[w].req][u].status = "running" => u = wk[w].tgt

\* Every item is in the queue, and nothing before the running one is open: the
\* candidate query finds it again after its lease ran out.
Queued(r) ==
    /\ \A t \in Targets : item[r][t].status # "none" =>
          \E i \in DOMAIN queue[r] : queue[r][i] = t
    /\ \A t \in Targets : item[r][t].status = "running" =>
          \E i \in DOMAIN queue[r] :
              /\ queue[r][i] = t
              /\ \A j \in DOMAIN queue[r] : j < i => item[r][queue[r][j]].status \notin Open

HeldInv ==
    /\ NoStrandedItem /\ ReservationHeld /\ LiveRuns
    /\ \A w \in Workers : OwnerHolds(w)
    /\ \A r \in Requests : Queued(r)

\* No two targets share a mailbox.
OwnMailboxes == \A t, u \in Targets : EmailOf[t] = EmailOf[u] => t = u

OwnLead(r, t) == [camp |-> r, tgt |-> t]

\* A lead id on record for target t in request r is that of its own lead.
Belongs(lead, r, t) == lead = Nil \/ (lead = OwnLead(r, t) /\ leads[r][t] > 0)

\* Bindings are of the request that holds the target, an item's version is never
\* ahead of the target's, and as long as they agree the imported mail is the
\* target's; it still is once the item is sent.
ItemMail(r, t) ==
    /\ Belongs(item[r][t].lead, r, t)
    /\ item[r][t].version <= tgt[t].version
    /\ tgt[t].req = r => tgt[t].camp \in {Nil, r} /\ Belongs(tgt[t].lead, r, t)
    /\ item[r][t].status \in Open /\ item[r][t].version = tgt[t].version
       /\ leads[r][t] > 0 => mails[r][t] = tgt[t].mail
    /\ item[r][t].status = "sent" =>
          /\ tgt[t].status = "sent" /\ tgt[t].req = r
          /\ leads[r][t] > 0 /\ verdict[r][t] = "valid" /\ mails[r][t] = tgt[t].mail
    /\ item[r][t].status = "failed" /\ item[r][t].cause = "invalid" =>
          verdict[r][t] = "invalid"
    /\ t \in confirmed[r] => leads[r][t] > 0

\* A request's campaign is its own, and what is at the provider was declared.
RequestMail(r) ==
    /\ req[r].camp \in {Nil, r}
    /\ campaigns[r] > 0 => ledger[r]["create"] > 0
    /\ r \in active => ledger[r]["activate"] > 0

\* What a claim carries from one guard to the next: its own campaign and lead,
\* the verdict it read, and the mail of the version that was reserved.
ClaimMail(w) ==
    LET c == wk[w]
    IN  /\ c.pc \in {"campaign"} \cup Verifying => Belongs(c.lead, c.req, c.tgt)
        /\ c.pc \in {"lead"} \cup Verifying => c.camp = c.req
        /\ c.pc = "accepted" => verdict[c.req][c.tgt] = "valid"
        /\ c.pc = "failed" => verdict[c.req][c.tgt] = "invalid"
        /\ Owner(w) /\ c.pc \in {"campaign", "lead"} \cup Verifying
           /\ item[c.req][c.tgt].version = tgt[c.tgt].version => c.mail = tgt[c.tgt].mail

MailInv ==
    /\ \A r \in Requests : RequestMail(r)
    /\ \A r \in Requests, t \in Targets : ItemMail(r, t)
    /\ \A w \in Workers : ClaimMail(w)

-----------------------------------------------------------------------------
(* What the row operators leave in the columns the invariants read          *)

\* The lease of a request is live while it is held.
LEMMA LiveFields ==
    ASSUME NEW row \in RequestRow
    PROVE  /\ \A its, s : ~Released(row, its, s).live
           /\ ~Expired(row).live
           /\ \A n : ~NewRequest(n).live /\ NewRequest(n).camp = Nil
<1>1. ASSUME NEW its, NEW s PROVE ~Released(row, its, s).live
  BY DEF RequestRow, Released
<1>2. ~Expired(row).live
  BY DEF RequestRow, Expired
<1>3. ASSUME NEW n PROVE ~NewRequest(n).live /\ NewRequest(n).camp = Nil
  BY DEF NewRequest, NoRequest
<1> QED BY <1>1, <1>2, <1>3

\* An item keeps its version and gets the lead it is given.
LEMMA ItemColumns ==
    ASSUME NEW it \in ItemRow, NEW status, NEW lead, NEW cause
    PROVE  /\ Settled(it, status, lead, cause).version = it.version
           /\ Settled(it, status, lead, cause).lead = lead
BY DEF ItemRow, Settled

\* A new item has the version of its target and no lead.
LEMMA NewColumns ==
    ASSUME NEW v
    PROVE  /\ NewItem(v).version = v /\ NewItem(v).lead = Nil /\ NewItem(v).cause = "none"
           /\ NoItem.version = 0 /\ NoItem.lead = Nil
BY DEF NewItem, NoItem

\* What claims keep of what they carry.
LEMMA ClaimColumns ==
    ASSUME NEW c \in ClaimRow
    PROVE  /\ \A pc : /\ GoneTo(c, pc).camp = c.camp /\ GoneTo(c, pc).lead = c.lead
                      /\ GoneTo(c, pc).mail = c.mail
           /\ \A pc, camp, lead, mail :
                 /\ Snapshot(c, pc, camp, lead, mail).camp = camp
                 /\ Snapshot(c, pc, camp, lead, mail).lead = lead
                 /\ Snapshot(c, pc, camp, lead, mail).mail = mail
           /\ \A pc, camp, lead, o :
                 /\ Posted(c, pc, camp, lead, o).camp = camp
                 /\ Posted(c, pc, camp, lead, o).lead = lead
                 /\ Posted(c, pc, camp, lead, o).mail = c.mail
<1>1. ASSUME NEW pc
      PROVE  /\ GoneTo(c, pc).camp = c.camp /\ GoneTo(c, pc).lead = c.lead
             /\ GoneTo(c, pc).mail = c.mail
  BY DEF ClaimRow, GoneTo
<1>2. ASSUME NEW pc, NEW camp, NEW lead, NEW mail
      PROVE  /\ Snapshot(c, pc, camp, lead, mail).camp = camp
             /\ Snapshot(c, pc, camp, lead, mail).lead = lead
             /\ Snapshot(c, pc, camp, lead, mail).mail = mail
  BY DEF ClaimRow, Snapshot
<1>3. ASSUME NEW pc, NEW camp, NEW lead, NEW o
      PROVE  /\ Posted(c, pc, camp, lead, o).camp = camp
             /\ Posted(c, pc, camp, lead, o).lead = lead
             /\ Posted(c, pc, camp, lead, o).mail = c.mail
  BY DEF ClaimRow, Posted
<1> QED BY <1>1, <1>2, <1>3

\* The columns of a target that the invariants read are the same.
SameColumns(x, y) ==
    /\ x.status = y.status /\ x.version = y.version /\ x.req = y.req
    /\ x.camp = y.camp /\ x.lead = y.lead /\ x.mail = y.mail

\* A founder's edit: never of a sent target, it makes a new version, and it
\* keeps the binding and the mail or drops both.
Edited(x, y) ==
    /\ y.status # "sent" /\ x.status # "sent"
    /\ x.version = y.version + 1 /\ x.req = y.req
    /\ \/ x.camp = y.camp /\ x.lead = y.lead
       \/ x.camp = Nil /\ x.lead = Nil

\* Approval, rejection and rendering are such edits.
LEMMA EditedRows ==
    ASSUME NEW row \in TargetRow, row.status # "sent"
    PROVE  /\ Edited(AsApproved(row), row) /\ Edited(AsRejected(row), row)
           /\ \A c \in {"passed", "failed"} :
                 /\ Edited(AsRendered(row, c), row)
                 /\ Edited(AsPending(AsRendered(row, c)), row)
<1>0. row.version + 1 \in Nat /\ row.mail + 1 \in Nat
  BY DEF TargetRow
<1>1. Edited(AsApproved(row), row)
  BY <1>0 DEF Edited, AsApproved, TargetRow
<1> DEFINE u == Unbound(row)
<1>2. /\ u \in TargetRow /\ u.status = row.status /\ u.version = row.version
      /\ u.req = row.req /\ u.camp = Nil /\ u.lead = Nil /\ u.mail = row.mail
  BY DEF Unbound, TargetRow
<1>3. /\ AsRejected(row) = [u EXCEPT !.status = "rejected", !.version = u.version + 1]
      /\ \A c : AsRendered(row, c) = [u EXCEPT !.version = u.version + 1,
                                               !.mail = u.mail + 1, !.contract = c]
  BY DEF AsRejected, AsRendered
<1> HIDE DEF u
<1>4. Edited(AsRejected(row), row)
  BY ZenonT(60), <1>0, <1>2, <1>3 DEF Edited, TargetRow
<1>5. ASSUME NEW c \in {"passed", "failed"}
      PROVE  Edited(AsRendered(row, c), row) /\ AsRendered(row, c) \in TargetRow
  <2>1. AsRendered(row, c) \in TargetRow
    BY RenderedType
  <2> DEFINE x == [u EXCEPT !.version = u.version + 1, !.mail = u.mail + 1, !.contract = c]
  <2>2. /\ x.status = row.status /\ x.version = row.version + 1 /\ x.req = row.req
        /\ x.camp = Nil /\ x.lead = Nil
    BY <1>0, <1>2 DEF TargetRow
  <2> QED BY <1>3, <2>1, <2>2 DEF Edited
<1>6. ASSUME NEW c \in {"passed", "failed"}
      PROVE  Edited(AsPending(AsRendered(row, c)), row)
  <2>1. PICK x \in TargetRow : x = AsRendered(row, c)
    BY <1>5
  <2>2. /\ AsPending(x).status = "pending_review" /\ AsPending(x).version = x.version
        /\ AsPending(x).req = x.req /\ AsPending(x).camp = x.camp /\ AsPending(x).lead = x.lead
    BY DEF AsPending, TargetRow
  <2> QED BY <1>5, <2>1, <2>2 DEF Edited
<1> QED BY <1>1, <1>4, <1>5, <1>6

\* What a reservation and a worker write on a target.
LEMMA TargetColumns ==
    ASSUME NEW row \in TargetRow
    PROVE  /\ \A r \in Requests :
                 /\ AsReserved(row, r).status = row.status
                 /\ AsReserved(row, r).version = row.version
                 /\ AsReserved(row, r).req = r
                 /\ AsReserved(row, r).camp = Nil /\ AsReserved(row, r).lead = Nil
           /\ Freed(row).status = row.status /\ Freed(row).version = row.version
           /\ Freed(row).req = Nil /\ Freed(row).mail = row.mail
           /\ \A camp, lead, credits :
                 /\ BoundTo(row, camp, lead, credits).status = row.status
                 /\ BoundTo(row, camp, lead, credits).version = row.version
                 /\ BoundTo(row, camp, lead, credits).req = row.req
                 /\ BoundTo(row, camp, lead, credits).mail = row.mail
                 /\ BoundTo(row, camp, lead, credits).camp = camp
                 /\ BoundTo(row, camp, lead, credits).lead = lead
           /\ \A status, r, camp, lead :
                 /\ Outcome(row, status, r, camp, lead).status = status
                 /\ Outcome(row, status, r, camp, lead).version = row.version + 1
                 /\ Outcome(row, status, r, camp, lead).req = r
                 /\ Outcome(row, status, r, camp, lead).mail = row.mail
                 /\ Outcome(row, status, r, camp, lead).camp = camp
                 /\ Outcome(row, status, r, camp, lead).lead = lead
<1>1. ASSUME NEW r \in Requests
      PROVE  /\ AsReserved(row, r).status = row.status
             /\ AsReserved(row, r).version = row.version /\ AsReserved(row, r).req = r
             /\ AsReserved(row, r).camp = Nil /\ AsReserved(row, r).lead = Nil
  <2> DEFINE u == Unbound(row)
  <2>1. /\ u \in TargetRow /\ u.status = row.status /\ u.version = row.version
        /\ u.camp = Nil /\ u.lead = Nil
    BY DEF Unbound, TargetRow
  <2>2. AsReserved(row, r) = [u EXCEPT !.req = r, !.mail = u.mail + 1]
    BY DEF AsReserved
  <2> HIDE DEF u
  <2> QED BY <2>1, <2>2 DEF TargetRow
<1>2. /\ Freed(row).status = row.status /\ Freed(row).version = row.version
      /\ Freed(row).req = Nil /\ Freed(row).mail = row.mail
  BY DEF Freed, TargetRow
<1>3. ASSUME NEW camp, NEW lead, NEW credits
      PROVE  /\ BoundTo(row, camp, lead, credits).status = row.status
             /\ BoundTo(row, camp, lead, credits).version = row.version
             /\ BoundTo(row, camp, lead, credits).req = row.req
             /\ BoundTo(row, camp, lead, credits).mail = row.mail
             /\ BoundTo(row, camp, lead, credits).camp = camp
             /\ BoundTo(row, camp, lead, credits).lead = lead
  BY DEF BoundTo, TargetRow
<1>4. ASSUME NEW status, NEW r, NEW camp, NEW lead
      PROVE  /\ Outcome(row, status, r, camp, lead).status = status
             /\ Outcome(row, status, r, camp, lead).version = row.version + 1
             /\ Outcome(row, status, r, camp, lead).req = r
             /\ Outcome(row, status, r, camp, lead).mail = row.mail
             /\ Outcome(row, status, r, camp, lead).camp = camp
             /\ Outcome(row, status, r, camp, lead).lead = lead
  BY DEF Outcome, TargetRow
<1> QED BY <1>1, <1>2, <1>3, <1>4

\* Moving an item to the end loses none.
LEMMA MovedKeeps ==
    ASSUME NEW s \in Seq(Targets), NEW t, NEW k \in DOMAIN s, s[k] = t,
           NEW i \in DOMAIN s
    PROVE  \E j \in DOMAIN MovedLast(s, t) : MovedLast(s, t)[j] = s[i]
<1> DEFINE p == CHOOSE j \in DOMAIN s : s[j] = t
<1>1. p \in DOMAIN s /\ s[p] = t
  OBVIOUS
<1>2. MovedLast(s, t) = [j \in 1..Len(s) |->
          IF j < p THEN s[j] ELSE IF j < Len(s) THEN s[j + 1] ELSE t]
  BY DEF MovedLast
<1> HIDE DEF p
<1>3. Len(s) \in Nat /\ DOMAIN s = 1..Len(s)
  OBVIOUS
<1>4. CASE i < p
  BY <1>1, <1>2, <1>3, <1>4
<1>5. CASE i = p
  <2>1. Len(s) \in 1..Len(s) /\ ~(Len(s) < p)
    BY <1>1, <1>3
  <2> QED BY <1>1, <1>2, <1>3, <1>5, <2>1
<1>6. CASE i > p
  <2>1. i - 1 \in 1..Len(s) /\ ~(i - 1 < p) /\ i - 1 < Len(s) /\ (i - 1) + 1 = i
    BY <1>1, <1>3, <1>6
  <2> QED BY <1>2, <2>1
<1> QED BY <1>1, <1>3, <1>4, <1>5, <1>6

-----------------------------------------------------------------------------
(* The step of a worker on its own request and target                       *)

\* It touches the rows of its request r and target t alone; an item that was
\* settled stays so, a target that r does not hold or that was sent is left
\* alone, and a lead that is there is not imported again.
Works(w, r, t) ==
    /\ \A q \in Requests \ {r} :
          /\ req'[q] = req[q] /\ item'[q] = item[q] /\ queue'[q] = queue[q]
          /\ ledger'[q] = ledger[q] /\ confirmed'[q] = confirmed[q]
          /\ campaigns'[q] = campaigns[q] /\ leads'[q] = leads[q] /\ mails'[q] = mails[q]
          /\ (q \in active' <=> q \in active)
    /\ \A u \in Targets \ {t} :
          /\ item'[r][u] = item[r][u] /\ tgt'[u] = tgt[u]
          /\ leads'[r][u] = leads[r][u] /\ mails'[r][u] = mails[r][u]
          /\ (u \in confirmed'[r] <=> u \in confirmed[r])
    /\ verdict' = verdict
    /\ \A x \in Workers \ {w} : wk'[x] = wk[x]
    /\ wk'[w] = Idle \/ (wk'[w].req = r /\ wk'[w].tgt = t)
    /\ req'[r].lease \in {w, Nil}
    /\ req'[r].live => req'[r].status = "running"
    /\ item'[r][t].status = "running" => req'[r].status = "running"
    /\ item'[r][t].status = item[r][t].status \/ item[r][t].status = "running"
    /\ \/ queue'[r] = queue[r]
       \/ queue'[r] = MovedLast(queue[r], t) /\ item'[r][t].status # "running"
    /\ item'[r][t].version = item[r][t].version
    /\ tgt[t].version <= tgt'[t].version /\ tgt'[t].req \in {tgt[t].req, Nil}
    /\ tgt[t].req # r \/ tgt[t].status = "sent" => SameColumns(tgt'[t], tgt[t])
    /\ item'[r][t].status \in Open =>
          tgt'[t].req = tgt[t].req /\ tgt'[t].status = tgt[t].status
    /\ leads[r][t] > 0 => leads'[r][t] = leads[r][t] /\ mails'[r][t] = mails[r][t]
    /\ leads'[r][t] >= leads[r][t]

\* The claim w makes its step under: it owns the running request.
Holds(w, r, t) ==
    /\ w \in Workers /\ r \in Requests /\ t \in Targets
    /\ wk[w].pc # "idle" /\ wk[w].req = r /\ wk[w].tgt = t /\ wk[w] \in ClaimRow
    /\ req[r].status = "running" /\ req[r].lease = w
    /\ item[r][t].status \in {"running"} \cup Terminal

\* Such a step strands no item and gives no reservation away.
LEMMA WorksHeld ==
    ASSUME TypeOK, HeldInv, NEW w, NEW r, NEW t, Holds(w, r, t), Works(w, r, t)
    PROVE  HeldInv'
<1>0. w \in Workers /\ r \in Requests /\ t \in Targets
  BY DEF Holds
<1>1. \A u \in Targets : item[r][u].status = "running" => u = t
  BY <1>0 DEF HeldInv, OwnerHolds, Owner, Holds
<1>2. \A u \in Targets : item'[r][u].status = "running" =>
         u = t /\ item[r][t].status = "running" /\ req'[r].status = "running"
  BY <1>0, <1>1 DEF Works
<1>3. NoStrandedItem'
  <2> SUFFICES ASSUME NEW q \in Requests, NEW u \in Targets, item'[q][u].status = "running"
               PROVE  /\ req'[q].status = "running"
                      /\ \A v \in Targets : item'[q][v].status = "running" => v = u
    BY DEF NoStrandedItem
  <2>1. CASE q = r
    BY <1>2, <2>1
  <2>2. CASE q # r
    BY <2>2 DEF HeldInv, NoStrandedItem, Works
  <2> QED BY <2>1, <2>2
<1>4. ReservationHeld'
  <2> SUFFICES ASSUME NEW q \in Requests, NEW u \in Targets, item'[q][u].status \in Open
               PROVE  tgt'[u].req = q /\ tgt'[u].status # "sent"
    BY DEF ReservationHeld, Open
  <2>1. item[q][u].status \in Open
    BY <1>0 DEF Works, Open
  <2>2. tgt[u].req = q /\ tgt[u].status # "sent"
    BY <2>1 DEF HeldInv, ReservationHeld, Open
  <2>3. CASE u # t
    BY <2>2, <2>3 DEF Works
  <2>4. CASE u = t /\ q = r
    BY <2>2, <2>4 DEF Works
  <2>5. CASE u = t /\ q # r
    BY <2>2, <2>5 DEF Works, SameColumns
  <2> QED BY <2>3, <2>4, <2>5
<1>5. LiveRuns'
  <2> SUFFICES ASSUME NEW q \in Requests, req'[q].live PROVE req'[q].status = "running"
    BY DEF LiveRuns
  <2> QED BY DEF HeldInv, LiveRuns, Works
<1>6. ASSUME NEW x \in Workers PROVE OwnerHolds(x)'
  <2> SUFFICES ASSUME Owner(x)', NEW u \in Targets, item'[wk'[x].req][u].status = "running"
               PROVE  u = wk'[x].tgt
    BY DEF OwnerHolds
  <2>1. CASE x = w
    <3>1. wk'[w].req = r /\ wk'[w].tgt = t
      BY <2>1, IdleFields DEF Works, Owner
    <3> QED BY <1>2, <2>1, <3>1
  <2>2. CASE x # w
    <3>1. wk'[x] = wk[x] /\ wk[x].pc # "idle" /\ x # Nil
      BY <2>2, ConstantsAssumption DEF Works, Owner
    <3>2. wk[x].req \in Requests
      BY <3>1, ClaimType
    <3>3. wk[x].req # r
      BY <2>2, <3>1 DEF Works, Owner
    <3>4. req'[wk[x].req] = req[wk[x].req] /\ item'[wk[x].req] = item[wk[x].req]
      BY <3>2, <3>3 DEF Works
    <3>5. Owner(x)
      BY <3>1, <3>4 DEF Owner
    <3> QED BY <3>1, <3>4, <3>5 DEF HeldInv, OwnerHolds
  <2> QED BY <2>1, <2>2
<1>7. ASSUME NEW q \in Requests PROVE Queued(q)'
  <2>0. Queued(q)
    BY DEF HeldInv
  <2>1. CASE q # r
    <3>1. item'[q] = item[q] /\ queue'[q] = queue[q]
      BY <2>1 DEF Works
    <3> QED BY <2>0, <3>1 DEF Queued
  <2>2. CASE q = r
    <3>1. \A u \in Targets : item'[r][u].status # "none" => item[r][u].status # "none"
      BY <1>0 DEF Works
    <3>2. CASE queue'[r] = queue[r]
      <4>1. ASSUME NEW u \in Targets, item'[r][u].status = "running"
            PROVE  \E i \in DOMAIN queue[r] :
                      /\ queue[r][i] = u
                      /\ \A j \in DOMAIN queue[r] : j < i => item'[r][queue[r][j]].status \notin Open
        <5>1. u = t /\ item[r][t].status = "running"
          BY <1>2, <4>1
        <5>2. PICK i \in DOMAIN queue[r] :
                 /\ queue[r][i] = t
                 /\ \A j \in DOMAIN queue[r] : j < i => item[r][queue[r][j]].status \notin Open
          BY <2>0, <2>2, <5>1 DEF Queued
        <5>3. ASSUME NEW j \in DOMAIN queue[r], j < i
              PROVE  item'[r][queue[r][j]].status \notin Open
          <6>1. queue[r][j] \in Targets /\ queue[r][j] # t
            BY SMTT(60), <1>0, <5>1, <5>2, <5>3 DEF TypeOK, Open
          <6> QED BY <5>2, <5>3, <6>1 DEF Works
        <5> QED BY <5>1, <5>2, <5>3
      <4> QED BY <2>0, <2>2, <3>1, <3>2, <4>1 DEF Queued
    <3>3. CASE queue'[r] = MovedLast(queue[r], t) /\ item'[r][t].status # "running"
      <4>1. queue[r] \in Seq(Targets) /\ item[r][t].status # "none"
        BY <1>0 DEF TypeOK, Holds, Terminal
      <4>2. PICK k \in DOMAIN queue[r] : queue[r][k] = t
        BY <1>0, <2>0, <2>2, <4>1 DEF Queued
      <4>3. ASSUME NEW u \in Targets, item'[r][u].status # "none"
            PROVE  \E i \in DOMAIN queue'[r] : queue'[r][i] = u
        <5>1. PICK i \in DOMAIN queue[r] : queue[r][i] = u
          BY <2>0, <2>2, <3>1, <4>3 DEF Queued
        <5> QED BY <3>3, <4>1, <4>2, <5>1, MovedKeeps
      <4>4. \A u \in Targets : item'[r][u].status # "running"
        BY <1>2, <3>3
      <4> QED BY <2>2, <4>3, <4>4 DEF Queued
    <3> QED BY <3>2, <3>3 DEF Works
  <2> QED BY <2>1, <2>2
<1> QED BY <1>3, <1>4, <1>5, <1>6, <1>7 DEF HeldInv

\* It leaves the other rows and claims as the mail invariant wants them.
LEMMA WorksMail ==
    ASSUME TypeOK, TypeOK', SendStands, HeldInv, MailInv,
           NEW w, NEW r, NEW t, Holds(w, r, t), Works(w, r, t),
           RequestMail(r)', ItemMail(r, t)', ClaimMail(w)'
    PROVE  MailInv'
<1>0. w \in Workers /\ r \in Requests /\ t \in Targets
  BY DEF Holds
<1>1. ASSUME NEW q \in Requests PROVE RequestMail(q)'
  <2>1. RequestMail(q)
    BY DEF MailInv
  <2>2. CASE q # r
    BY <2>1, <2>2 DEF RequestMail, Works
  <2> QED BY <2>2
<1>2. ASSUME NEW q \in Requests, NEW u \in Targets, leads[q][u] > 0
      PROVE  leads'[q][u] > 0
  BY <1>2, <1>0 DEF Works
<1>3. ASSUME NEW q \in Requests, NEW u \in Targets PROVE ItemMail(q, u)'
  <2>1. ItemMail(q, u)
    BY DEF MailInv
  <2>2. CASE q = r /\ u = t
    BY <2>2
  <2>3. CASE u # t
    <3>1. /\ item'[q][u] = item[q][u] /\ tgt'[u] = tgt[u] /\ leads'[q][u] = leads[q][u]
          /\ mails'[q][u] = mails[q][u] /\ verdict' = verdict
          /\ (u \in confirmed'[q] <=> u \in confirmed[q])
      BY <1>0, <2>3 DEF Works
    <3> QED BY <2>1, <3>1 DEF ItemMail, Belongs
  <2>4. CASE q # r /\ u = t
    <3>1. /\ item'[q][u] = item[q][u] /\ leads'[q][u] = leads[q][u]
          /\ mails'[q][u] = mails[q][u] /\ verdict' = verdict
          /\ (u \in confirmed'[q] <=> u \in confirmed[q])
      BY <2>4 DEF Works
    <3>2. /\ tgt'[u].req = q => tgt[u].req = q
          /\ tgt[u].req = q => SameColumns(tgt'[u], tgt[u])
      BY <2>4, ConstantsAssumption DEF Works
    <3>3. item[q][u].version <= tgt'[u].version
      <4>1. /\ item[q][u].version \in Nat /\ tgt[u].version \in Nat /\ tgt'[u].version \in Nat
        BY SMTT(60) DEF TypeOK, ItemRow, TargetRow
      <4>2. tgt[u].version <= tgt'[u].version /\ item[q][u].version <= tgt[u].version
        BY <2>1, <2>4 DEF Works, ItemMail
      <4> QED BY <4>1, <4>2
    <3>4. item[q][u].status \in Open => tgt[u].req = q
      BY DEF HeldInv, ReservationHeld, Open
    <3> QED BY <2>1, <3>1, <3>2, <3>3, <3>4 DEF ItemMail, Belongs, SameColumns
  <2> QED BY <2>2, <2>3, <2>4
<1>4. ASSUME NEW x \in Workers PROVE ClaimMail(x)'
  <2>1. CASE x = w
    BY <2>1
  <2>2. CASE x # w /\ wk[x].pc = "idle"
    BY <2>2 DEF ClaimMail, Works, Verifying
  <2>3. CASE x # w /\ wk[x].pc # "idle"
    <3>1. PICK q \in Requests, u \in Targets : q = wk[x].req /\ u = wk[x].tgt
      BY <2>3, ClaimType
    <3>2. ClaimMail(x) /\ ClaimStands(x) /\ wk'[x] = wk[x] /\ verdict' = verdict /\ x # Nil
      BY <2>3, ConstantsAssumption DEF MailInv, SendStands, Works
    <3>3. ASSUME Owner(x)', wk[x].pc \in {"campaign", "lead"} \cup Verifying
          PROVE  /\ Owner(x) /\ item'[q][u] = item[q][u]
                 /\ tgt'[u].version = tgt[u].version /\ tgt'[u].mail = tgt[u].mail
      <4>1. q # r
        BY <2>3, <3>1, <3>2, <3>3 DEF Owner, Works
      <4>2. req'[q] = req[q] /\ item'[q] = item[q]
        BY <4>1 DEF Works
      <4>3. Owner(x)
        BY <3>1, <3>2, <3>3, <4>2 DEF Owner
      <4>4. item[q][u].status = "running"
        BY <3>1, <3>2, <3>3, <4>3 DEF ClaimStands
      <4>5. tgt[u].req = q
        BY <4>4 DEF HeldInv, ReservationHeld
      <4> QED BY <1>0, <4>1, <4>2, <4>3, <4>5 DEF Works, SameColumns
    <3>4. Belongs(wk[x].lead, q, u) => Belongs(wk[x].lead, q, u)'
      BY <1>2, <3>2 DEF Belongs
    <3> QED BY <3>1, <3>2, <3>3, <3>4 DEF ClaimMail
  <2> QED BY <2>1, <2>2, <2>3
<1> QED BY <1>1, <1>3, <1>4 DEF MailInv

-----------------------------------------------------------------------------
(* The actions of a worker, one by one                                      *)

\* What is to be shown of a guarded step.
Sound(w) ==
    \E r \in Requests, t \in Targets :
        /\ Holds(w, r, t) /\ Works(w, r, t)
        /\ OwnMailboxes /\ MailInv => RequestMail(r)' /\ ItemMail(r, t)' /\ ClaimMail(w)'

\* A guard that opens is held by the owner of the request.
LEMMA GuardHolds ==
    ASSUME TypeOK, NEW w \in Workers, wk[w].pc # "idle", Guarded(w)
    PROVE  Holds(w, wk[w].req, wk[w].tgt)
BY ClaimType DEF Guarded, Holds

\* The check that a running item passes: its target is approved, held by the
\* request, and of the version that was reserved.
LEMMA CheckedTarget ==
    ASSUME NEW r, NEW t, CheckTarget(r, t) = "ok", item[r][t].status = "running"
    PROVE  tgt[t].status = "approved" /\ tgt[t].req = r /\ tgt[t].version = item[r][t].version
BY DEF CheckTarget, Terminal

\* What a step without a POST, or with a permitted one, does at the provider.
Posts(w, r, t) ==
    /\ \A q \in Requests \ {r} :
          /\ campaigns'[q] = campaigns[q] /\ leads'[q] = leads[q] /\ mails'[q] = mails[q]
          /\ (q \in active' <=> q \in active)
    /\ \A u \in Targets \ {t} : leads'[r][u] = leads[r][u] /\ mails'[r][u] = mails[r][u]
    /\ verdict' = verdict
    /\ leads[r][t] > 0 => leads'[r][t] = leads[r][t] /\ mails'[r][t] = mails[r][t]
    /\ leads'[r][t] >= leads[r][t]
    /\ leads'[r][t] > leads[r][t] => /\ wk[w].pc = "lead" /\ CheckTarget(r, t) = "ok"
                                     /\ mails'[r][t] = wk[w].mail
    /\ campaigns'[r] > 0 => campaigns[r] > 0 \/ ledger[r]["create"] > 0
    /\ r \in active' => r \in active \/ ledger[r]["activate"] > 0

\* Nothing is posted without a declaration, and no lead twice.
LEMMA PostsFacts ==
    ASSUME TypeOK, SendStands, NEW w, NEW r, NEW t, Holds(w, r, t),
           UNCHANGED provider \/ (MayPost(w) /\ Lands(w))
    PROVE  Posts(w, r, t)
<1>0. /\ w \in Workers /\ r \in Requests /\ t \in Targets
      /\ wk[w].req = r /\ wk[w].tgt = t /\ wk[w].pc # "idle"
      /\ leads[r][t] \in Nat /\ campaigns[r] \in Nat
  BY DEF Holds, TypeOK
<1>1. CASE UNCHANGED provider
  BY <1>0, <1>1 DEF Posts, provider
<1>2. CASE MayPost(w) /\ Lands(w)
  <2>1. ClaimStands(w)
    BY <1>0 DEF SendStands
  <2>2. /\ OperationAt(w) \in wk[w].permits
        /\ \/ wk[w].pc = "campaign"
           \/ wk[w].pc = "lead" /\ CheckTarget(r, t) = "ok" /\ Matches(r, t) = {}
           \/ wk[w].pc = "finalize"
    BY <1>0, <1>2 DEF MayPost, Absent, At
  <2>3. /\ wk[w].pc = "campaign" => ledger[r]["create"] > 0
        /\ wk[w].pc = "finalize" => ledger[r]["activate"] > 0
    BY <1>0, <2>1, <2>2 DEF ClaimStands, OperationAt
  <2>4. wk[w].pc = "lead" => ~(leads[r][t] > 0)
    BY <1>0, <2>2 DEF Matches
  <2>5. /\ \A q \in Requests \ {r} :
              campaigns'[q] = campaigns[q] /\ leads'[q] = leads[q] /\ mails'[q] = mails[q]
        /\ \A u \in Targets \ {t} : leads'[r][u] = leads[r][u] /\ mails'[r][u] = mails[r][u]
        /\ campaigns'[r] = IF wk[w].pc = "campaign" THEN campaigns[r] + 1 ELSE campaigns[r]
        /\ leads'[r][t] = IF wk[w].pc = "lead" THEN leads[r][t] + 1 ELSE leads[r][t]
        /\ mails'[r][t] = IF wk[w].pc = "lead" THEN wk[w].mail ELSE mails[r][t]
    BY <1>0, <1>2 DEF Lands, TypeOK
  <2>6. /\ active' = IF wk[w].pc = "finalize" THEN active \cup {r} ELSE active
        /\ verdict' = verdict
    BY <1>0, <1>2 DEF Lands
  <2> QED BY <1>0, <2>2, <2>3, <2>4, <2>5, <2>6 DEF Posts
<1> QED BY <1>1, <1>2

\* As long as the item's version is the target's, the lead carries its mail.
LEMMA MailStands ==
    ASSUME TypeOK, MailInv, NEW w, NEW r, NEW t, Holds(w, r, t), Posts(w, r, t),
           item[r][t].status = "running", item[r][t].version = tgt[t].version,
           leads'[r][t] > 0
    PROVE  mails'[r][t] = tgt[t].mail
<1>0. /\ w \in Workers /\ r \in Requests /\ t \in Targets
      /\ wk[w].req = r /\ wk[w].tgt = t /\ Owner(w)
      /\ leads[r][t] \in Nat
  BY DEF Holds, TypeOK, Owner
<1>1. ItemMail(r, t) /\ ClaimMail(w)
  BY <1>0 DEF MailInv
<1>2. CASE leads[r][t] > 0
  BY <1>1, <1>2 DEF ItemMail, Posts, Open
<1>3. CASE ~(leads[r][t] > 0)
  <2>1. leads'[r][t] > leads[r][t]
    BY <1>0, <1>3
  <2>2. wk[w].pc = "lead" /\ mails'[r][t] = wk[w].mail
    BY <2>1 DEF Posts
  <2> QED BY <1>0, <1>1, <2>2 DEF ClaimMail
<1> QED BY <1>2, <1>3

\* The parts of ItemMail for the target of the step.
LEMMA OwnItem ==
    ASSUME TypeOK, TypeOK', MailInv, NEW w, NEW r, NEW t, Holds(w, r, t), Works(w, r, t),
           Posts(w, r, t),
           Belongs(item[r][t].lead, r, t)',
           tgt'[t].req = r => tgt'[t].camp \in {Nil, r} /\ Belongs(tgt[t].lead, r, t)',
           item'[r][t].status \in Open =>
              /\ item[r][t].status \in Open
              /\ tgt'[t].version = tgt[t].version /\ tgt'[t].mail = tgt[t].mail,
           \/ item'[r][t].status # "sent"
           \/ item[r][t].status = "sent" /\ SameColumns(tgt'[t], tgt[t])
           \/ /\ tgt'[t].status = "sent" /\ tgt'[t].req = r
              /\ leads'[r][t] > 0 /\ verdict[r][t] = "valid" /\ mails'[r][t] = tgt'[t].mail,
           item'[r][t].status = "failed" /\ item'[r][t].cause = "invalid" =>
              \/ item[r][t].status = "failed" /\ item[r][t].cause = "invalid"
              \/ verdict[r][t] = "invalid",
           t \in confirmed'[r] => t \in confirmed[r] \/ leads'[r][t] > 0
    PROVE  ItemMail(r, t)'
<1>0. /\ w \in Workers /\ r \in Requests /\ t \in Targets
      /\ item[r][t].status \in {"running"} \cup Terminal
  BY DEF Holds
<1>1. ItemMail(r, t)
  BY <1>0 DEF MailInv
<1>2. item'[r][t].version <= tgt'[t].version
  <2>1. /\ item[r][t].version \in Nat /\ tgt[t].version \in Nat /\ tgt'[t].version \in Nat
    BY SMTT(60), <1>0 DEF TypeOK, ItemRow, TargetRow
  <2>2. /\ tgt[t].version <= tgt'[t].version /\ item[r][t].version <= tgt[t].version
        /\ item'[r][t].version = item[r][t].version
    BY <1>1 DEF Works, ItemMail
  <2> QED BY <2>1, <2>2
<1>3. item'[r][t].status \in Open /\ item'[r][t].version = tgt'[t].version
      /\ leads'[r][t] > 0 => mails'[r][t] = tgt'[t].mail
  <2> SUFFICES ASSUME item'[r][t].status \in Open, item'[r][t].version = tgt'[t].version,
                      leads'[r][t] > 0
               PROVE  mails'[r][t] = tgt'[t].mail
    OBVIOUS
  <2>1. item[r][t].status = "running" /\ item[r][t].version = tgt[t].version
    BY <1>0 DEF Works, Open, Terminal
  <2> QED BY <2>1, MailStands
<1>4. item'[r][t].status = "sent" =>
          /\ tgt'[t].status = "sent" /\ tgt'[t].req = r
          /\ leads'[r][t] > 0 /\ verdict[r][t] = "valid" /\ mails'[r][t] = tgt'[t].mail
  BY <1>1 DEF ItemMail, Works, SameColumns
<1>5. verdict' = verdict /\ (leads[r][t] > 0 => leads'[r][t] > 0)
  BY DEF Works
<1> QED BY <1>1, <1>2, <1>3, <1>4, <1>5 DEF ItemMail

\* The request of the step keeps its own campaign and its declarations.
LEMMA OwnRequest ==
    ASSUME MailInv, NEW w, NEW r \in Requests, NEW t, Posts(w, r, t),
           req'[r].camp \in {req[r].camp, r, Nil},
           \A o \in {"create", "activate"} : ledger[r][o] > 0 => ledger'[r][o] > 0
    PROVE  RequestMail(r)'
<1>1. RequestMail(r)
  BY DEF MailInv
<1> QED BY <1>1 DEF RequestMail, Posts

\* A process without a claim carries nothing.
LEMMA IdleMail == ASSUME NEW w, wk'[w] = Idle PROVE ClaimMail(w)'
BY IdleFields DEF ClaimMail, Verifying

\* A lead that belongs goes on to.
LEMMA BelongsStays ==
    ASSUME NEW w, NEW r, NEW t, Posts(w, r, t), leads[r][t] \in Nat, leads'[r][t] \in Nat,
           NEW lead, Belongs(lead, r, t)
    PROVE  lead = Nil \/ (lead = OwnLead(r, t) /\ leads'[r][t] > 0)
BY DEF Belongs, Posts

\* _wait.
LEMMA WaitSound ==
    ASSUME TypeOK, TypeOK', SendStands, NEW w \in Workers, wk[w].pc # "idle", Guarded(w),
           NEW status \in {"queued", "verification_pending"}, Wait(w, status),
           status = "verification_pending" => wk[w].pc = "pending",
           UNCHANGED provider \/ (MayPost(w) /\ Lands(w))
    PROVE  Sound(w)
<1>1. PICK r \in Requests, t \in Targets : r = wk[w].req /\ t = wk[w].tgt
  BY ClaimType
<1>2. Holds(w, r, t) /\ Posts(w, r, t)
  BY <1>1, GuardHolds, PostsFacts
<1> DEFINE it == item[r][t]
           new == Settled(it, IF it.status \in Terminal THEN it.status ELSE status,
                          IF status = "verification_pending" THEN wk[w].lead ELSE it.lead,
                          it.cause)
           its == [item[r] EXCEPT ![t] = new]
           row == Released(req[r], its, "waiting")
<1>3. /\ item[r] \in [Targets -> ItemRow] /\ it \in ItemRow /\ req[r] \in RequestRow
      /\ tgt[t] \in TargetRow /\ leads[r][t] \in Nat /\ leads'[r][t] \in Nat
  BY SMTT(60) DEF TypeOK
<1>4. /\ item' = [item EXCEPT ![r] = its]
      /\ req' = [req EXCEPT ![r] = row]
      /\ queue' = [queue EXCEPT ![r] = MovedLast(queue[r], t)]
      /\ wk' = [wk EXCEPT ![w] = Idle]
      /\ UNCHANGED <<tgt, ledger, confirmed>>
  BY <1>1, <1>3 DEF Wait, Return, TypeOK
<1>5. row.lease = Nil /\ ~row.live /\ row.camp = req[r].camp
  BY <1>3, RequestFields, LiveFields
<1>6. /\ new.status = IF it.status \in Terminal THEN it.status ELSE status
      /\ new.cause = it.cause /\ new.version = it.version
      /\ new.lead = IF status = "verification_pending" THEN wk[w].lead ELSE it.lead
  BY <1>3, ItemFields, ItemColumns
<1> HIDE DEF new, row
<1>7. /\ its[t] = new /\ \A u \in Targets \ {t} : its[u] = item[r][u]
  BY <1>3
<1> HIDE DEF its
<1>8. /\ item'[r] = its /\ req'[r] = row /\ wk'[w] = Idle
      /\ queue'[r] = MovedLast(queue[r], t)
      /\ \A q \in Requests \ {r} :
            item'[q] = item[q] /\ req'[q] = req[q] /\ queue'[q] = queue[q]
      /\ \A x \in Workers \ {w} : wk'[x] = wk[x]
  BY <1>4 DEF TypeOK
<1>9. it.status \in {"running"} \cup Terminal
  BY <1>2 DEF Holds
<1>10. Works(w, r, t)
  <2>1. item'[r][t] = new /\ new.status # "running"
    BY <1>6, <1>7, <1>8, <1>9 DEF Terminal
  <2>2. new.status = it.status \/ it.status = "running"
    BY <1>6, <1>9
  <2>3. tgt[t].version <= tgt'[t].version
    BY <1>3, <1>4 DEF TargetRow
  <2> QED BY <1>2, <1>4, <1>5, <1>6, <1>7, <1>8, <2>1, <2>2, <2>3
          DEF Works, Posts, SameColumns
<1>11. ASSUME OwnMailboxes, MailInv
       PROVE  RequestMail(r)' /\ ItemMail(r, t)' /\ ClaimMail(w)'
  <2>1. RequestMail(r)' /\ ClaimMail(w)'
    BY <1>2, <1>4, <1>5, <1>8, <1>11, OwnRequest, IdleMail
  <2>2. ItemMail(r, t) /\ ClaimMail(w)
    BY <1>11 DEF MailInv
  <2>3. Belongs(item[r][t].lead, r, t)'
    <3>1. Belongs(new.lead, r, t)
      BY <1>1, <1>6, <2>2 DEF ItemMail, ClaimMail, Verifying
    <3> QED BY ZenonT(60), <1>2, <1>3, <1>7, <1>8, <3>1, BelongsStays DEF Belongs
  <2>4. tgt'[t].req = r => tgt'[t].camp \in {Nil, r} /\ Belongs(tgt[t].lead, r, t)'
    <3>1. tgt[t].req = r => tgt[t].camp \in {Nil, r} /\ Belongs(tgt[t].lead, r, t)
      BY <2>2 DEF ItemMail
    <3> QED BY <1>2, <1>3, <1>4, <3>1, BelongsStays DEF Belongs
  <2>5. /\ item'[r][t] = new /\ SameColumns(tgt'[t], tgt[t])
        /\ new.status \in Open => it.status \in Open
    BY <1>4, <1>6, <1>7, <1>8, <1>9 DEF SameColumns, Open
  <2>6. new.status \in Terminal => new.status = it.status
    BY <1>6 DEF Terminal
  <2> HIDE DEF it
  <2>7. ItemMail(r, t)'
    BY <1>2, <1>4, <1>6, <1>10, <1>11, <2>3, <2>4, <2>5, <2>6, OwnItem
       DEF SameColumns, Terminal, it
  <2> QED BY <2>1, <2>7
<1> QED BY <1>2, <1>10, <1>11 DEF Sound

\* A step that records something on its own rows: the item keeps its outcome,
\* the target all but its binding.
Records(w, r, t) ==
    /\ \A q \in Requests \ {r} :
          /\ req'[q] = req[q] /\ item'[q] = item[q] /\ ledger'[q] = ledger[q]
          /\ confirmed'[q] = confirmed[q]
    /\ \A u \in Targets \ {t} :
          /\ item'[r][u] = item[r][u] /\ tgt'[u] = tgt[u]
          /\ (u \in confirmed'[r] <=> u \in confirmed[r])
    /\ \A x \in Workers \ {w} : wk'[x] = wk[x]
    /\ queue' = queue
    /\ wk'[w] = Idle \/ (wk'[w].req = r /\ wk'[w].tgt = t)
    /\ req'[r].lease \in {w, Nil}
    /\ req'[r].live => req'[r].status = "running"
    /\ item[r][t].status = "running" => req'[r].status = "running"
    /\ \A o \in {"create", "activate"} : ledger[r][o] > 0 => ledger'[r][o] > 0
    /\ item'[r][t].status = item[r][t].status /\ item'[r][t].cause = item[r][t].cause
    /\ item'[r][t].version = item[r][t].version
    /\ tgt'[t].status = tgt[t].status /\ tgt'[t].version = tgt[t].version
    /\ tgt'[t].req = tgt[t].req /\ tgt'[t].mail = tgt[t].mail
    /\ \/ SameColumns(tgt'[t], tgt[t])
       \/ tgt[t].req = r /\ tgt[t].status = "approved" /\ item[r][t].status = "running"

\* Such a step is sound if what it records belongs to its target.
LEMMA RecordSound ==
    ASSUME TypeOK, TypeOK', NEW w, NEW r, NEW t, Holds(w, r, t), Posts(w, r, t),
           Records(w, r, t),
           OwnMailboxes /\ MailInv =>
              /\ req'[r].camp \in {req[r].camp, r, Nil}
              /\ Belongs(item[r][t].lead, r, t)'
              /\ tgt[t].req = r => tgt'[t].camp \in {Nil, r} /\ Belongs(tgt[t].lead, r, t)'
              /\ t \in confirmed'[r] => t \in confirmed[r] \/ leads'[r][t] > 0
              /\ ClaimMail(w)'
    PROVE  Sound(w)
<1>0. /\ w \in Workers /\ r \in Requests /\ t \in Targets /\ tgt[t] \in TargetRow
      /\ item[r][t].status \in {"running"} \cup Terminal
  BY DEF Holds, TypeOK
<1>1. Works(w, r, t)
  <2>1. tgt[t].version <= tgt'[t].version
    BY <1>0 DEF Records, TargetRow
  <2> QED BY <1>0, <2>1 DEF Works, Posts, Records, SameColumns, Open, Terminal
<1>2. ASSUME OwnMailboxes, MailInv
      PROVE  RequestMail(r)' /\ ItemMail(r, t)' /\ ClaimMail(w)'
  <2>1. RequestMail(r)'
    BY <1>0, <1>2, OwnRequest DEF Records
  <2>2. /\ item'[r][t].status = item[r][t].status /\ item'[r][t].cause = item[r][t].cause
        /\ tgt'[t].version = tgt[t].version /\ tgt'[t].mail = tgt[t].mail
        /\ tgt'[t].req = tgt[t].req
        /\ item[r][t].status = "sent" => SameColumns(tgt'[t], tgt[t])
    BY DEF Records
  <2>3. ItemMail(r, t)'
    BY <1>1, <1>2, <2>2, OwnItem
  <2> QED BY <1>2, <2>1, <2>3
<1> QED BY <1>0, <1>1, <1>2 DEF Sound

\* What is on record of the target belongs to it, also after the step.
LEMMA BindingStays ==
    ASSUME TypeOK, TypeOK', MailInv, NEW w, NEW r \in Requests, NEW t \in Targets, Posts(w, r, t)
    PROVE  /\ Belongs(item[r][t].lead, r, t)
           /\ item'[r][t].lead = item[r][t].lead => Belongs(item[r][t].lead, r, t)'
           /\ tgt[t].req = r => tgt[t].camp \in {Nil, r} /\ Belongs(tgt[t].lead, r, t)
           /\ tgt'[t].lead = tgt[t].lead /\ tgt[t].req = r => Belongs(tgt[t].lead, r, t)'
           /\ req[r].camp \in {Nil, r}
<1>1. ItemMail(r, t) /\ RequestMail(r) /\ leads[r][t] \in Nat /\ leads'[r][t] \in Nat
  BY DEF MailInv, TypeOK
<1>2. \A lead : Belongs(lead, r, t) => lead = Nil \/ (lead = OwnLead(r, t) /\ leads'[r][t] > 0)
  BY <1>1, BelongsStays
<1> QED BY <1>1, <1>2 DEF ItemMail, RequestMail, Belongs

\* A process that is killed after its POST leaves the rows as they are.
LEMMA CrashSound ==
    ASSUME TypeOK, TypeOK', SendStands, NEW w \in Workers, PostThenCrash(w)
    PROVE  Sound(w)
<1>1. /\ wk[w].pc # "idle" /\ Guarded(w) /\ MayPost(w) /\ Lands(w)
      /\ UNCHANGED <<tgt, req, item, queue, ledger, confirmed>> /\ Return(w)
  BY DEF PostThenCrash, MayPost, Absent, At, rows
<1>2. PICK r \in Requests, t \in Targets : r = wk[w].req /\ t = wk[w].tgt
  BY <1>1, ClaimType
<1>3. Holds(w, r, t) /\ Posts(w, r, t)
  BY <1>1, <1>2, GuardHolds, PostsFacts
<1>4. wk'[w] = Idle /\ \A x \in Workers \ {w} : wk'[x] = wk[x]
  BY <1>1 DEF Return, TypeOK
<1>5. Records(w, r, t)
  BY <1>1, <1>3, <1>4 DEF Records, Holds, SameColumns
<1> QED BY <1>1, <1>3, <1>4, <1>5, RecordSound, BindingStays, IdleMail

\* The first guard of _process: the snapshot is of the target that was reserved,
\* and the bindings it adopts are the request's own.
LEMMA ProcessSound ==
    ASSUME TypeOK, TypeOK', SendStands, NEW w \in Workers, Process(w)
    PROVE  Sound(w)
<1>0. wk[w].pc = "process" /\ wk[w].pc # "idle" /\ Guarded(w)
      /\ CheckTarget(wk[w].req, wk[w].tgt) = "ok"
  BY DEF Process, At
<1>1. PICK r \in Requests, t \in Targets : r = wk[w].req /\ t = wk[w].tgt
  BY <1>0, ClaimType
<1> DEFINE open == item[r][t].status \notin Terminal
           camp == IF req[r].camp # Nil THEN req[r].camp ELSE tgt[t].camp
           lead == IF item[r][t].lead # Nil THEN item[r][t].lead ELSE tgt[t].lead
           pc == IF ~open THEN "finalize"
                 ELSE IF camp = Nil THEN "campaign"
                 ELSE IF lead = Nil THEN "lead" ELSE "verify"
           row == Renewed(req[r], IF open THEN camp ELSE req[r].camp)
           it == Settled(item[r][t], item[r][t].status,
                         IF open THEN lead ELSE item[r][t].lead, item[r][t].cause)
           c == Snapshot(wk[w], pc, camp, lead, tgt[t].mail)
<1>2. /\ item[r] \in [Targets -> ItemRow] /\ item[r][t] \in ItemRow
      /\ req[r] \in RequestRow /\ wk[w] \in ClaimRow
      /\ leads[r][t] \in Nat /\ leads'[r][t] \in Nat
  BY SMTT(60), <1>0, ClaimType DEF TypeOK
<1>3. /\ req' = [req EXCEPT ![r] = row]
      /\ item' = [item EXCEPT ![r] = [item[r] EXCEPT ![t] = it]]
      /\ Return(w) \/ wk' = [wk EXCEPT ![w] = c]
      /\ UNCHANGED <<tgt, queue, ledger, confirmed, provider>>
  BY ZenonT(60), <1>1, <1>2 DEF Process, TypeOK
<1>4. Holds(w, r, t) /\ Posts(w, r, t)
  BY <1>0, <1>1, <1>3, GuardHolds, PostsFacts
<1>5. /\ open => item[r][t].status = "running" /\ tgt[t].req = r
      /\ item[r][t].status = "running" => open
  BY <1>0, <1>1, <1>4, CheckedTarget DEF Holds, Terminal
<1> HIDE DEF pc, camp, lead, open
<1>6. /\ row.status = req[r].status /\ row.lease = req[r].lease
      /\ row.camp = IF open THEN camp ELSE req[r].camp
  BY <1>2, RequestFields
<1>7. /\ it.status = item[r][t].status /\ it.cause = item[r][t].cause
      /\ it.version = item[r][t].version /\ it.lead = IF open THEN lead ELSE item[r][t].lead
  BY <1>2, ItemFields, ItemColumns
<1>8. /\ c.pc = pc /\ c.req = r /\ c.tgt = t /\ c.camp = camp /\ c.lead = lead
      /\ c.mail = tgt[t].mail
  BY <1>1, <1>2, ClaimFields, ClaimColumns
<1> HIDE DEF row, it, c
<1>9. /\ wk'[w] = Idle \/ wk'[w] = c
      /\ \A x \in Workers \ {w} : wk'[x] = wk[x]
  BY <1>3 DEF Return, TypeOK
<1>10. /\ req'[r] = row /\ item'[r][t] = it /\ tgt'[t] = tgt[t]
       /\ \A q \in Requests \ {r} : req'[q] = req[q] /\ item'[q] = item[q]
       /\ \A u \in Targets \ {t} : item'[r][u] = item[r][u]
  BY <1>2, <1>3 DEF TypeOK
<1>11. ASSUME OwnMailboxes, MailInv
       PROVE  /\ Belongs(item[r][t].lead, r, t)'
              /\ tgt[t].req = r => tgt'[t].camp \in {Nil, r} /\ Belongs(tgt[t].lead, r, t)'
              /\ open => camp \in {Nil, r}
              /\ ClaimMail(w)'
  <2>1. /\ Belongs(item[r][t].lead, r, t) /\ req[r].camp \in {Nil, r}
        /\ tgt[t].req = r => /\ tgt[t].camp \in {Nil, r} /\ Belongs(tgt[t].lead, r, t)
                             /\ Belongs(tgt[t].lead, r, t)'
    BY <1>4, <1>10, <1>11, BindingStays
  <2>2. open => camp \in {Nil, r} /\ Belongs(lead, r, t)
    BY <1>5, <2>1 DEF camp, lead
  <2>3. open => lead = Nil \/ (lead = OwnLead(r, t) /\ leads'[r][t] > 0)
    BY <1>2, <1>4, <2>2, BelongsStays
  <2>4. item[r][t].lead = Nil \/ (item[r][t].lead = OwnLead(r, t) /\ leads'[r][t] > 0)
    BY <1>2, <1>4, <2>1, BelongsStays
  <2>5. Belongs(item[r][t].lead, r, t)'
    BY <1>7, <1>10, <2>3, <2>4 DEF Belongs
  <2>6. ClaimMail(w)'
    <3>1. CASE wk'[w] = Idle
      BY <3>1, IdleMail
    <3>2. CASE wk'[w] = c
      <4>1. /\ pc \in {"lead"} \cup Verifying => camp = r
            /\ pc \in {"campaign"} \cup Verifying => open
        BY <2>2 DEF pc, Verifying
      <4>2. pc \notin {"accepted", "failed"}
        BY DEF pc
      <4> QED BY <1>8, <1>10, <2>3, <3>2, <4>1, <4>2 DEF ClaimMail, Belongs
    <3> QED BY <1>9, <3>1, <3>2
  <2> QED BY <1>10, <2>1, <2>2, <2>5, <2>6
<1>12. req[r].status = "running" /\ req[r].lease = w
  BY <1>4 DEF Holds
<1>13. Records(w, r, t)
  BY <1>3, <1>6, <1>7, <1>8, <1>9, <1>10, <1>12 DEF Records, SameColumns
<1> QED BY ZenonT(60), <1>3, <1>4, <1>6, <1>10, <1>11, <1>13, RecordSound

\* A declaration is recorded, and the verification read is begun.
LEMMA DeclareSound ==
    ASSUME TypeOK, TypeOK', SendStands, NEW w \in Workers, DeclareOperation(w) \/ Verify(w)
    PROVE  Sound(w)
<1>0. wk[w].pc \in {"declare", "verify"} /\ wk[w].pc # "idle" /\ Guarded(w)
      /\ CheckTarget(wk[w].req, wk[w].tgt) = "ok"
  BY DEF DeclareOperation, Verify, At
<1>1. PICK r \in Requests, t \in Targets : r = wk[w].req /\ t = wk[w].tgt
  BY <1>0, ClaimType
<1> DEFINE row == Renewed(req[r], req[r].camp)
           o == wk[w].op
           c == IF wk[w].pc = "declare" THEN Permitted(wk[w]) ELSE GoneTo(wk[w], "get")
<1>2. /\ req[r] \in RequestRow /\ wk[w] \in ClaimRow
      /\ wk[w].pc = "declare" => o \in Operations
  BY <1>0, ClaimType DEF TypeOK, ClaimRow
<1>3. /\ req' = [req EXCEPT ![r] = row] /\ wk' = [wk EXCEPT ![w] = c]
      /\ \/ UNCHANGED ledger
         \/ /\ o \in Operations
            /\ ledger' = [ledger EXCEPT ![r] = [ledger[r] EXCEPT ![o] = ledger[r][o] + 1]]
      /\ UNCHANGED <<tgt, item, queue, confirmed, provider>>
  <2>1. CASE DeclareOperation(w)
    <3>1. wk[w].pc = "declare"
      BY <2>1 DEF DeclareOperation, At
    <3> QED BY <1>1, <1>2, <2>1, <3>1, ClaimType DEF DeclareOperation, RenewedLease, TypeOK, ClaimRow
  <2>2. CASE Verify(w)
    <3>1. wk[w].pc = "verify"
      BY <2>2 DEF Verify, At
    <3> QED BY <1>1, <2>2, <3>1 DEF Verify, Goto, RenewedLease, TypeOK
  <2> QED BY <2>1, <2>2
<1>4. Holds(w, r, t) /\ Posts(w, r, t)
  BY <1>0, <1>1, <1>3, GuardHolds, PostsFacts
<1>5. row.status = req[r].status /\ row.lease = req[r].lease /\ row.camp = req[r].camp
  BY ClaimType, <1>0, <1>1, RequestFields
<1>6. /\ c.req = r /\ c.tgt = t
      /\ \/ c.pc = "process"
         \/ /\ c.pc = "get" /\ c.camp = wk[w].camp /\ c.lead = wk[w].lead /\ c.mail = wk[w].mail
            /\ wk[w].pc = "verify"
  BY <1>0, <1>1, ClaimType, ClaimFields, ClaimColumns
<1> HIDE DEF row, c, o
<1>7. /\ req'[r] = row /\ wk'[w] = c
      /\ \A q \in Requests \ {r} : req'[q] = req[q] /\ ledger'[q] = ledger[q]
      /\ \A x \in Workers \ {w} : wk'[x] = wk[x]
  BY ZenonT(60), <1>3 DEF TypeOK
<1>8. \A p \in {"create", "activate"} : ledger[r][p] > 0 => ledger'[r][p] > 0
  <2> SUFFICES ASSUME NEW p \in {"create", "activate"}, ledger[r][p] > 0, ledger' # ledger
               PROVE  ledger'[r][p] > 0
    OBVIOUS
  <2>1. /\ o \in Operations /\ p \in Operations /\ ledger[r] \in [Operations -> Nat]
        /\ ledger'[r] = [ledger[r] EXCEPT ![o] = ledger[r][o] + 1]
    BY <1>3 DEF TypeOK, Operations
  <2> QED BY <2>1
<1>9. Records(w, r, t)
  BY <1>3, <1>4, <1>5, <1>6, <1>7, <1>8 DEF Records, SameColumns, Holds
<1>10. ASSUME OwnMailboxes, MailInv PROVE ClaimMail(w)'
  <2>1. CASE c.pc = "process"
    BY <1>7, <2>1 DEF ClaimMail, Verifying
  <2>2. CASE c.pc = "get" /\ wk[w].pc = "verify" /\ c.camp = wk[w].camp /\ c.lead = wk[w].lead
             /\ c.mail = wk[w].mail
    <3>1. ClaimMail(w) /\ Owner(w)
      BY <1>4, <1>10 DEF MailInv, Holds, Owner
    <3>2. UNCHANGED <<leads, verdict, tgt, item>>
      BY <1>3 DEF provider
    <3> QED BY <1>1, <1>6, <1>7, <2>2, <3>1, <3>2 DEF ClaimMail, Verifying, Belongs
  <2> QED BY <1>6, <2>1, <2>2
<1>11. item' = item /\ tgt' = tgt /\ confirmed' = confirmed /\ req'[r].camp = req[r].camp
  BY <1>3, <1>5, <1>7
<1> QED BY <1>4, <1>9, <1>10, <1>11, RecordSound, BindingStays

\* The campaign that was created or found is the request's own.
LEMMA CampaignSound ==
    ASSUME TypeOK, TypeOK', SendStands, NEW w \in Workers,
           CreateCampaign(w) \/ FindCampaign(w)
    PROVE  Sound(w)
<1>0. wk[w].pc = "campaign" /\ wk[w].pc # "idle" /\ Guarded(w)
      /\ CheckTarget(wk[w].req, wk[w].tgt) = "ok"
      /\ (UNCHANGED provider \/ (MayPost(w) /\ Lands(w))) /\ PersistCampaign(w)
  BY DEF CreateCampaign, FindCampaign, MayPost, Absent, At
<1>1. PICK r \in Requests, t \in Targets : r = wk[w].req /\ t = wk[w].tgt
  BY <1>0, ClaimType
<1> DEFINE row == Renewed(req[r], r)
           pc == IF wk[w].lead = Nil THEN "lead" ELSE "verify"
           c == Posted(wk[w], pc, r, wk[w].lead, "create")
           x == BoundTo(tgt[t], r, tgt[t].lead, tgt[t].credits)
<1>2. req[r] \in RequestRow /\ wk[w] \in ClaimRow /\ tgt[t] \in TargetRow
      /\ leads[r][t] \in Nat /\ leads'[r][t] \in Nat
  BY <1>0, ClaimType DEF TypeOK
<1>3. Holds(w, r, t) /\ Posts(w, r, t)
  BY <1>0, <1>1, GuardHolds, PostsFacts
<1>4. item[r][t].status = "running"
  BY <1>0, <1>1, OwnerFacts DEF ClaimStands
<1>5. tgt[t].status = "approved" /\ tgt[t].req = r /\ tgt[t].version = item[r][t].version
  BY <1>0, <1>1, <1>4, CheckedTarget
<1>6. /\ req' = [req EXCEPT ![r] = row] /\ wk' = [wk EXCEPT ![w] = c]
      /\ tgt' = [tgt EXCEPT ![t] = x]
      /\ UNCHANGED <<item, queue, ledger, confirmed>>
  BY <1>0, <1>1, <1>5 DEF PersistCampaign, TypeOK
<1>7. /\ row.status = req[r].status /\ row.lease = req[r].lease /\ row.camp = r
  BY <1>2, RequestFields
<1> HIDE DEF pc
<1>8. /\ c.pc = pc /\ c.req = r /\ c.tgt = t /\ c.camp = r /\ c.lead = wk[w].lead
      /\ c.mail = wk[w].mail
  BY <1>1, <1>2, ClaimFields, ClaimColumns
<1>9. /\ x.status = tgt[t].status /\ x.version = tgt[t].version /\ x.req = tgt[t].req
      /\ x.mail = tgt[t].mail /\ x.camp = r /\ x.lead = tgt[t].lead
  BY <1>2, TargetColumns
<1> HIDE DEF row, c, x
<1>10. /\ req'[r] = row /\ wk'[w] = c /\ tgt'[t] = x
       /\ \A q \in Requests \ {r} : req'[q] = req[q]
       /\ \A u \in Targets \ {t} : tgt'[u] = tgt[u]
       /\ \A y \in Workers \ {w} : wk'[y] = wk[y]
  BY <1>6 DEF TypeOK
<1>11. Records(w, r, t)
  BY <1>3, <1>4, <1>5, <1>6, <1>7, <1>8, <1>9, <1>10 DEF Records, Holds
<1>12. ASSUME OwnMailboxes, MailInv
       PROVE  Belongs(item[r][t].lead, r, t)' /\ Belongs(tgt[t].lead, r, t)' /\ ClaimMail(w)'
  <2>1. Belongs(item[r][t].lead, r, t)' /\ Belongs(tgt[t].lead, r, t)'
    BY <1>3, <1>5, <1>6, <1>9, <1>10, <1>12, BindingStays
  <2>2. ClaimMail(w) /\ Owner(w)
    BY <1>3, <1>12 DEF MailInv, Holds, Owner
  <2>3. Belongs(wk[w].lead, r, t)
    BY <1>0, <1>1, <2>2 DEF ClaimMail
  <2>4. wk[w].lead = Nil \/ (wk[w].lead = OwnLead(r, t) /\ leads'[r][t] > 0)
    BY <1>2, <1>3, <2>3, BelongsStays
  <2>5. wk[w].mail = tgt[t].mail
    BY <1>0, <1>1, <1>5, <2>2 DEF ClaimMail
  <2>6. pc \in {"lead", "verify"}
    BY DEF pc
  <2> QED BY <1>8, <1>9, <1>10, <2>1, <2>4, <2>5, <2>6 DEF ClaimMail, Verifying, Belongs
<1> QED BY <1>3, <1>6, <1>7, <1>9, <1>10, <1>11, <1>12, RecordSound

\* The lead that was imported or found is, in a mailbox of its own, the target's.
LEMMA LeadSound ==
    ASSUME TypeOK, TypeOK', SendStands, NEW w \in Workers, ImportLead(w) \/ FindLead(w)
    PROVE  Sound(w)
<1>0. wk[w].pc = "lead" /\ wk[w].pc # "idle" /\ Guarded(w)
      /\ CheckTarget(wk[w].req, wk[w].tgt) = "ok"
      /\ (UNCHANGED provider \/ (MayPost(w) /\ Lands(w)))
  BY DEF ImportLead, FindLead, MayPost, Absent, At
<1>1. PICK r \in Requests, t \in Targets : r = wk[w].req /\ t = wk[w].tgt
  BY <1>0, ClaimType
<1>2. PICK u \in Targets :
        PersistLead(w, OwnLead(r, u)) /\ (OwnMailboxes => u = t /\ leads'[r][t] > 0)
  <2>1. CASE ImportLead(w)
    <3>1. leads'[r][t] = leads[r][t] + 1 /\ leads[r][t] \in Nat
      BY <1>0, <1>1, <2>1 DEF ImportLead, Lands, TypeOK
    <3>2. leads'[r][t] > 0
      BY <3>1
    <3> QED BY <1>1, <2>1, <3>2 DEF ImportLead, OwnLead
  <2>2. CASE FindLead(w)
    <3>1. PICK u \in Targets : /\ Matches(r, t) = {u} /\ leads[r][u] = 1
                               /\ PersistLead(w, OwnLead(r, u)) /\ leads' = leads
      BY <1>1, <2>2 DEF FindLead, OwnLead, provider
    <3>2. EmailOf[u] = EmailOf[t]
      BY <3>1 DEF Matches
    <3> QED BY <3>1, <3>2 DEF OwnMailboxes
  <2> QED BY <2>1, <2>2
<1> DEFINE lead == OwnLead(r, u)
           row == Renewed(req[r], req[r].camp)
           it == Settled(item[r][t], item[r][t].status, lead, item[r][t].cause)
           c == Posted(wk[w], "verify", wk[w].camp, lead, t)
           credited == ledger[r][t] > 0 /\ t \notin confirmed[r]
           x == BoundTo(tgt[t], wk[w].camp, lead,
                        IF credited THEN tgt[t].credits + 1 ELSE tgt[t].credits)
<1>3. /\ req[r] \in RequestRow /\ wk[w] \in ClaimRow /\ tgt[t] \in TargetRow
      /\ item[r] \in [Targets -> ItemRow] /\ item[r][t] \in ItemRow
  BY <1>0, ClaimType DEF TypeOK
<1>4. Holds(w, r, t) /\ Posts(w, r, t)
  BY <1>0, <1>1, GuardHolds, PostsFacts
<1>5. item[r][t].status = "running"
  BY <1>0, <1>1, OwnerFacts DEF ClaimStands
<1>6. tgt[t].status = "approved" /\ tgt[t].req = r /\ tgt[t].version = item[r][t].version
  BY SMTT(60), <1>0, <1>1, <1>5, CheckedTarget
<1> HIDE DEF lead
<1>7. /\ req' = [req EXCEPT ![r] = row] /\ wk' = [wk EXCEPT ![w] = c]
      /\ item' = [item EXCEPT ![r] = [item[r] EXCEPT ![t] = it]]
      /\ tgt' = [tgt EXCEPT ![t] = x]
      /\ confirmed' = [confirmed EXCEPT ![r] =
            IF credited THEN confirmed[r] \cup {t} ELSE confirmed[r]]
      /\ UNCHANGED <<queue, ledger>>
  <2>1. PersistLead(w, lead)
    BY <1>2 DEF lead
  <2> QED BY <1>1, <1>3, <1>6, <2>1 DEF PersistLead, RenewedLease, TypeOK
<1>8. row.status = req[r].status /\ row.lease = req[r].lease /\ row.camp = req[r].camp
  BY <1>3, RequestFields
<1>9. /\ c.pc = "verify" /\ c.req = r /\ c.tgt = t /\ c.camp = wk[w].camp /\ c.lead = lead
      /\ c.mail = wk[w].mail
  BY <1>1, <1>3, ClaimFields, ClaimColumns
<1>10. /\ it.status = item[r][t].status /\ it.cause = item[r][t].cause
       /\ it.version = item[r][t].version /\ it.lead = lead
  BY <1>3, ItemFields, ItemColumns
<1>11. /\ x.status = tgt[t].status /\ x.version = tgt[t].version /\ x.req = tgt[t].req
       /\ x.mail = tgt[t].mail /\ x.camp = wk[w].camp /\ x.lead = lead
  BY <1>3, TargetColumns
<1> HIDE DEF row, it, c, x
<1>12. /\ req'[r] = row /\ wk'[w] = c /\ tgt'[t] = x /\ item'[r][t] = it
       /\ \A q \in Requests \ {r} : req'[q] = req[q] /\ item'[q] = item[q]
                                    /\ confirmed'[q] = confirmed[q]
       /\ \A v \in Targets \ {t} : /\ tgt'[v] = tgt[v] /\ item'[r][v] = item[r][v]
                                   /\ (v \in confirmed'[r] <=> v \in confirmed[r])
       /\ \A y \in Workers \ {w} : wk'[y] = wk[y]
  BY SMTT(60), <1>3, <1>7 DEF TypeOK
<1>13. Records(w, r, t)
  BY <1>4, <1>5, <1>6, <1>7, <1>8, <1>9, <1>10, <1>11, <1>12 DEF Records, Holds
<1>14. ASSUME OwnMailboxes, MailInv
       PROVE  /\ Belongs(item[r][t].lead, r, t)' /\ Belongs(tgt[t].lead, r, t)'
              /\ tgt'[t].camp = r /\ leads'[r][t] > 0 /\ ClaimMail(w)'
  <2>1. lead = OwnLead(r, t) /\ leads'[r][t] > 0
    BY <1>2, <1>14 DEF lead
  <2>2. ClaimMail(w) /\ Owner(w)
    BY <1>4, <1>14 DEF MailInv, Holds, Owner
  <2>3. wk[w].mail = tgt[t].mail /\ wk[w].camp = r
    BY <1>0, <1>1, <1>6, <2>2 DEF ClaimMail
  <2>4. Belongs(item[r][t].lead, r, t)' /\ Belongs(tgt[t].lead, r, t)' /\ tgt'[t].camp = r
    BY <1>10, <1>11, <1>12, <2>1, <2>3 DEF Belongs
  <2> QED BY <1>9, <1>11, <1>12, <2>1, <2>3, <2>4 DEF ClaimMail, Verifying, Belongs
<1> QED BY <1>4, <1>6, <1>8, <1>12, <1>13, <1>14, RecordSound

\* What a guarded step that settles its item writes: a new item row, a new target
\* row that is no older, and a request that is given back or kept.
Settles(w, r, t, it, x) ==
    /\ item' = [item EXCEPT ![r] = [item[r] EXCEPT ![t] = it]]
    /\ tgt' = [tgt EXCEPT ![t] = x]
    /\ \E row : /\ req' = [req EXCEPT ![r] = row]
                /\ row.lease \in {w, Nil} /\ row.camp = req[r].camp
                /\ row.live => row.status = "running"
    /\ \E c : /\ wk' = [wk EXCEPT ![w] = c]
              /\ c = Idle \/ (c.pc = "finalize" /\ c.req = r /\ c.tgt = t)
    /\ UNCHANGED <<queue, ledger, confirmed, provider>>
    /\ it.status \in Terminal /\ it.version = item[r][t].version
    /\ tgt[t].version <= x.version /\ x.req \in {tgt[t].req, Nil}
    /\ tgt[t].req # r \/ tgt[t].status = "sent" => SameColumns(x, tgt[t])

\* Such a step is sound if the outcome is the one the provider gave.
LEMMA SettleSound ==
    ASSUME TypeOK, TypeOK', SendStands, NEW w, NEW r, NEW t, Holds(w, r, t),
           item[r][t].status = "running", NEW it, NEW x, Settles(w, r, t, it, x),
           OwnMailboxes /\ MailInv =>
              /\ Belongs(it.lead, r, t)
              /\ x.req = r => x.camp \in {Nil, r} /\ Belongs(x.lead, r, t)
              /\ it.status = "sent" =>
                    /\ x.status = "sent" /\ x.req = r /\ x.mail = tgt[t].mail
                    /\ tgt[t].version = item[r][t].version
                    /\ leads[r][t] > 0 /\ verdict[r][t] = "valid"
              /\ it.status = "failed" /\ it.cause = "invalid" => verdict[r][t] = "invalid"
    PROVE  Sound(w)
<1>0. /\ w \in Workers /\ r \in Requests /\ t \in Targets
      /\ item[r] \in [Targets -> ItemRow] /\ wk \in [Workers -> {Idle} \cup ClaimRow]
  BY DEF Holds, TypeOK
<1>1. PICK row, c :
        /\ req' = [req EXCEPT ![r] = row] /\ wk' = [wk EXCEPT ![w] = c]
        /\ row.lease \in {w, Nil} /\ row.camp = req[r].camp
        /\ row.live => row.status = "running"
        /\ c = Idle \/ (c.pc = "finalize" /\ c.req = r /\ c.tgt = t)
  BY ZenonT(60) DEF Settles
<1>2. Posts(w, r, t)
  BY PostsFacts DEF Settles
<1>3. /\ req'[r] = row /\ wk'[w] = c /\ item'[r][t] = it /\ tgt'[t] = x
      /\ \A q \in Requests \ {r} : req'[q] = req[q] /\ item'[q] = item[q]
      /\ \A u \in Targets \ {t} : tgt'[u] = tgt[u] /\ item'[r][u] = item[r][u]
      /\ \A y \in Workers \ {w} : wk'[y] = wk[y]
  BY <1>0, <1>1 DEF Settles, TypeOK
<1>4. UNCHANGED <<queue, ledger, confirmed, provider>> /\ leads' = leads /\ verdict' = verdict
      /\ mails' = mails
  BY DEF Settles, provider
<1>5. /\ it.status \in Terminal /\ it.version = item[r][t].version
      /\ tgt[t].version <= x.version /\ x.req \in {tgt[t].req, Nil}
      /\ tgt[t].req # r \/ tgt[t].status = "sent" => SameColumns(x, tgt[t])
  BY DEF Settles
<1>6. it.status \notin Open /\ it.status # "running"
  BY <1>5 DEF Terminal, Open
<1>7. Works(w, r, t)
  BY <1>0, <1>1, <1>2, <1>3, <1>4, <1>5, <1>6 DEF Works, Posts
<1>8. ASSUME OwnMailboxes, MailInv
      PROVE  RequestMail(r)' /\ ItemMail(r, t)' /\ ClaimMail(w)'
  <2>1. RequestMail(r)'
    BY <1>0, <1>1, <1>2, <1>3, <1>4, <1>8, OwnRequest
  <2>2. ClaimMail(w)'
    BY <1>1, <1>3, IdleMail DEF ClaimMail, Verifying
  <2>3. /\ Belongs(item[r][t].lead, r, t)'
        /\ tgt'[t].req = r => tgt'[t].camp \in {Nil, r} /\ Belongs(tgt[t].lead, r, t)'
    BY <1>3, <1>4, <1>8 DEF Belongs
  <2>4. it.status = "sent" => /\ tgt'[t].status = "sent" /\ tgt'[t].req = r
                              /\ leads'[r][t] > 0 /\ verdict[r][t] = "valid"
                              /\ mails'[r][t] = tgt'[t].mail
    BY <1>2, <1>3, <1>4, <1>8, MailStands
  <2>5. item'[r][t].status \notin Open /\ confirmed' = confirmed
    BY <1>3, <1>4, <1>6
  <2>6. ItemMail(r, t)'
    BY <1>2, <1>3, <1>7, <1>8, <2>3, <2>4, <2>5, OwnItem
  <2> QED BY <2>1, <2>2, <2>6
<1> QED BY <1>0, <1>7, <1>8 DEF Sound

\* The verdict that settles an item is the one of its own lead, and the lead
\* carries the mail of the version that was checked.
LEMMA OutcomeSound ==
    ASSUME TypeOK, TypeOK', SendStands, NEW w \in Workers, Accepted(w) \/ Failed(w)
    PROVE  Sound(w)
<1>0. wk[w].pc \in {"accepted", "failed"} /\ wk[w].pc # "idle" /\ Guarded(w)
      /\ CheckTarget(wk[w].req, wk[w].tgt) = "ok"
      /\ (Accepted(w) => wk[w].pc = "accepted") /\ (Failed(w) => wk[w].pc = "failed")
  BY DEF Accepted, Failed, At
<1>1. PICK r \in Requests, t \in Targets : r = wk[w].req /\ t = wk[w].tgt
  BY <1>0, ClaimType
<1>2. /\ req[r] \in RequestRow /\ wk[w] \in ClaimRow /\ tgt[t] \in TargetRow
      /\ item[r] \in [Targets -> ItemRow] /\ item[r][t] \in ItemRow
  BY <1>0, ClaimType DEF TypeOK
<1>3. Holds(w, r, t) /\ Owner(w)
  BY <1>0, <1>1, GuardHolds DEF Holds, Owner
<1>4. item[r][t].status = "running"
  BY <1>0, <1>1, OwnerFacts DEF ClaimStands, Verifying
<1>5. tgt[t].status = "approved" /\ tgt[t].req = r /\ tgt[t].version = item[r][t].version
  BY <1>0, <1>1, <1>4, CheckedTarget
<1>6. ASSUME NEW it, Settle(w, [item[r] EXCEPT ![t] = it])
      PROVE  /\ item' = [item EXCEPT ![r] = [item[r] EXCEPT ![t] = it]]
             /\ \E row : /\ req' = [req EXCEPT ![r] = row]
                         /\ row.lease \in {w, Nil} /\ row.camp = req[r].camp
                         /\ row.live => row.status = "running"
             /\ \E c : /\ wk' = [wk EXCEPT ![w] = c]
                       /\ c = Idle \/ (c.pc = "finalize" /\ c.req = r /\ c.tgt = t)
             /\ UNCHANGED <<queue, ledger, confirmed, provider>>
  <2> DEFINE its == [item[r] EXCEPT ![t] = it]
             c == GoneTo(wk[w], "finalize")
             out == Released(req[r], its, "waiting")
             on == Renewed(req[r], req[r].camp)
  <2>1. /\ item' = [item EXCEPT ![r] = its]
        /\ \/ req' = [req EXCEPT ![r] = out] /\ wk' = [wk EXCEPT ![w] = Idle]
           \/ req' = [req EXCEPT ![r] = on] /\ wk' = [wk EXCEPT ![w] = c]
        /\ UNCHANGED <<queue, ledger, confirmed, provider>>
    BY <1>1, <1>6 DEF Settle, Goto, Return, RenewedLease, TypeOK
  <2>2. /\ out.lease = Nil /\ out.camp = req[r].camp /\ ~out.live
        /\ on.status = "running" /\ on.lease = w /\ on.camp = req[r].camp
    BY <1>2, <1>3, RequestFields, LiveFields DEF Holds
  <2>3. c.pc = "finalize" /\ c.req = r /\ c.tgt = t
    BY <1>1, <1>2, ClaimFields
  <2> HIDE DEF c, out, on
  <2> QED BY <2>1, <2>2, <2>3
<1>7. ASSUME OwnMailboxes, MailInv
      PROVE  /\ Belongs(wk[w].lead, r, t) /\ leads[r][t] > 0 /\ wk[w].camp = r
             /\ Accepted(w) => verdict[r][t] = "valid"
             /\ Failed(w) => verdict[r][t] = "invalid"
  <2>1. ClaimMail(w) /\ wk[w].pc \in Verifying
    BY <1>0, <1>7 DEF MailInv, Verifying
  <2>2. wk[w].lead # Nil
    BY <1>2, <2>1, ConstantsAssumption DEF ClaimRow, Lead
  <2> QED BY <1>0, <1>1, <2>1, <2>2 DEF ClaimMail, Belongs
<1>8. tgt[t].version <= tgt[t].version + 1
  BY <1>2 DEF TargetRow
<1>9. CASE Accepted(w)
  <2> DEFINE it == Settled(item[r][t], "sent", wk[w].lead, "none")
             x == Outcome(tgt[t], "sent", tgt[t].req, wk[w].camp, wk[w].lead)
  <2>1. tgt' = [tgt EXCEPT ![t] = x] /\ Settle(w, [item[r] EXCEPT ![t] = it])
    BY <1>1, <1>2, <1>5, <1>9 DEF Accepted, TypeOK
  <2>2. it.status = "sent" /\ it.version = item[r][t].version /\ it.lead = wk[w].lead
    BY <1>2, ItemFields, ItemColumns
  <2>3. /\ x.status = "sent" /\ x.version = tgt[t].version + 1 /\ x.req = r
        /\ x.mail = tgt[t].mail /\ x.camp = wk[w].camp /\ x.lead = wk[w].lead
    BY <1>2, <1>5, TargetColumns
  <2> HIDE DEF it, x
  <2>4. Settles(w, r, t, it, x)
    BY <1>5, <1>6, <1>8, <2>1, <2>2, <2>3 DEF Settles, Terminal
  <2> QED BY <1>3, <1>4, <1>5, <1>7, <1>9, <2>2, <2>3, <2>4, SettleSound
<1>10. CASE Failed(w)
  <2> DEFINE it == Settled(item[r][t], "failed", wk[w].lead, "invalid")
             x == Outcome(tgt[t], "approved", Nil, wk[w].camp, wk[w].lead)
  <2>1. tgt' = [tgt EXCEPT ![t] = x] /\ Settle(w, [item[r] EXCEPT ![t] = it])
    BY <1>1, <1>2, <1>5, <1>10 DEF Failed, TypeOK
  <2>2. it.status = "failed" /\ it.version = item[r][t].version /\ it.lead = wk[w].lead
    BY <1>2, ItemFields, ItemColumns
  <2>3. x.version = tgt[t].version + 1 /\ x.req = Nil
    BY <1>2, TargetColumns
  <2>4. r # Nil
    BY ConstantsAssumption
  <2> HIDE DEF it, x
  <2>5. Settles(w, r, t, it, x)
    BY <1>5, <1>6, <1>8, <2>1, <2>2, <2>3 DEF Settles, Terminal
  <2> QED BY <1>3, <1>4, <1>7, <1>10, <2>2, <2>3, <2>4, <2>5, SettleSound
<1> QED BY <1>9, <1>10

\* A target that changed gives its item up.  No running item's target was sent
\* elsewhere, because its reservation is held.
LEMMA CheckEndsSound ==
    ASSUME TypeOK, TypeOK', SendStands, HeldInv, NEW w \in Workers, CheckEndsClaim(w)
    PROVE  Sound(w)
<1>0. wk[w].pc # "idle" /\ Guarded(w)
  BY DEF CheckEndsClaim, GuardPoints
<1>1. PICK r \in Requests, t \in Targets : r = wk[w].req /\ t = wk[w].tgt
  BY <1>0, ClaimType
<1>2. /\ req[r] \in RequestRow /\ tgt[t] \in TargetRow
      /\ item[r] \in [Targets -> ItemRow] /\ item[r][t] \in ItemRow
  BY DEF TypeOK
<1>3. Holds(w, r, t)
  BY ZenonT(60), <1>0, <1>1, GuardHolds
<1>4. item[r][t].status = "running"
  BY <1>1, <1>3 DEF CheckEndsClaim, CheckTarget, Holds
<1>5. tgt[t].req = r /\ tgt[t].status # "sent"
  BY <1>4 DEF HeldInv, ReservationHeld
<1>6. RejectChangedTarget(w)
  BY <1>1, <1>4, <1>5 DEF CheckEndsClaim, CheckTarget, Terminal
<1> DEFINE it == Settled(item[r][t], "failed", item[r][t].lead, "changed")
           its == [item[r] EXCEPT ![t] = it]
           x == Freed(tgt[t])
           held == req[r].blocked \/ Exposed(r, t)
           due == /\ \E u \in Targets : its[u].status = "sent"
                  /\ req[r].camp # Nil /\ ~req[r].activated
           status == IF FinalStatus(its) = Nil \/ held \/ due
                     THEN "waiting" ELSE FinalStatus(its)
           row == Released(Blocked(req[r], held), its, status)
<1>7. /\ item' = [item EXCEPT ![r] = its] /\ tgt' = [tgt EXCEPT ![t] = x]
      /\ req' = [req EXCEPT ![r] = row] /\ wk' = [wk EXCEPT ![w] = Idle]
      /\ UNCHANGED <<queue, ledger, confirmed, provider>>
  <2>1. /\ item' = [item EXCEPT ![r] = its] /\ req' = [req EXCEPT ![r] = row]
        /\ UNCHANGED <<queue, ledger, confirmed, provider>> /\ wk' = [wk EXCEPT ![w] = Idle]
    BY ZenonT(60), <1>1, <1>2, <1>6 DEF RejectChangedTarget, Return, TypeOK
  <2>2. tgt' = [tgt EXCEPT ![t] = x]
    BY <1>1, <1>5, <1>6 DEF RejectChangedTarget, TypeOK
  <2> QED BY ZenonT(60), <2>1, <2>2
<1>8. row.lease = Nil /\ row.camp = req[r].camp /\ ~row.live
  <2>1. held \in BOOLEAN
    OBVIOUS
  <2> HIDE DEF held, status, its
  <2>2. Blocked(req[r], held) \in RequestRow
    BY <1>2, <2>1, RequestRowType
  <2>3. Blocked(req[r], held).camp = req[r].camp
    BY <1>2, RequestFields
  <2> QED BY <2>2, <2>3, RequestFields, LiveFields
<1>9. /\ it.status = "failed" /\ it.cause = "changed"
      /\ it.version = item[r][t].version /\ it.lead = item[r][t].lead
  BY <1>2, ItemFields, ItemColumns
<1>10. x.version = tgt[t].version /\ x.req = Nil /\ tgt[t].version <= tgt[t].version /\ r # Nil
  BY <1>2, TargetColumns, ConstantsAssumption DEF TargetRow
<1> HIDE DEF row, x, it
<1>11. Settles(w, r, t, it, x)
  BY <1>5, <1>7, <1>8, <1>9, <1>10 DEF Settles, Terminal
<1>12. MailInv => Belongs(it.lead, r, t)
  BY <1>9 DEF MailInv, ItemMail
<1> QED BY <1>3, <1>4, <1>9, <1>10, <1>11, <1>12, SettleSound

\* A request ends when none of its items is open.
LEMMA EndSound ==
    ASSUME TypeOK, TypeOK', SendStands, NEW w \in Workers,
           Activate(w) \/ FinalizeWithoutPost(w)
    PROVE  Sound(w)
<1>0. /\ wk[w].pc # "idle" /\ Guarded(w)
      /\ UNCHANGED provider \/ (MayPost(w) /\ Lands(w))
  BY DEF Activate, FinalizeWithoutPost, MayPost, Absent, At
<1>1. PICK r \in Requests, t \in Targets : r = wk[w].req /\ t = wk[w].tgt
  BY <1>0, ClaimType
<1>2. req[r] \in RequestRow
  BY DEF TypeOK
<1>3. PICK b \in BOOLEAN : EndRequest(w, b)
  BY <1>1, <1>2, RequestRowType DEF Activate, FinalizeWithoutPost
<1>4. FinalStatus(item[r]) # Nil
  BY <1>1, ConstantsAssumption DEF Activate, FinalizeWithoutPost, MayPost, Absent, At, MayActivate
<1>5. item[r][t].status # "running"
  BY <1>4 DEF FinalStatus, Terminal
<1> DEFINE row == Released(Activated(req[r], b), item[r], FinalStatus(item[r]))
<1>6. /\ req' = [req EXCEPT ![r] = row] /\ wk' = [wk EXCEPT ![w] = Idle]
      /\ UNCHANGED <<tgt, item, queue, ledger, confirmed>>
  BY <1>1, <1>3 DEF EndRequest, Return, TypeOK
<1>7. row.lease = Nil /\ row.camp = req[r].camp /\ ~row.live
  <2>1. Activated(req[r], b) \in RequestRow /\ Activated(req[r], b).camp = req[r].camp
    BY ZenonT(60), <1>2, RequestRowType, RequestFields
  <2> QED BY <2>1, RequestFields, LiveFields
<1> HIDE DEF row
<1>8. Holds(w, r, t) /\ Posts(w, r, t)
  BY <1>0, <1>1, GuardHolds, PostsFacts
<1>9. /\ req'[r] = row /\ wk'[w] = Idle
      /\ \A q \in Requests \ {r} : req'[q] = req[q]
      /\ \A y \in Workers \ {w} : wk'[y] = wk[y]
  BY <1>6 DEF TypeOK
<1>10. Records(w, r, t)
  BY <1>5, <1>6, <1>7, <1>8, <1>9 DEF Records, Holds, SameColumns
<1> QED BY <1>6, <1>7, <1>8, <1>9, <1>10, RecordSound, BindingStays, IdleMail

\* Every guarded step of a worker that writes a row or posts.
LEMMA WorkerSound ==
    ASSUME TypeOK, TypeOK', SendStands, HeldInv, NEW w \in Workers,
           WorkerStep(w) \/ PostThenCrash(w) \/ Crash(w)
    PROVE  \/ Sound(w)
           \/ Lost(w) \/ Crash(w) \/ NeedsDeclaration(w) \/ GetVerification(w)
<1>1. CASE \/ KillSwitchHolds(w) \/ VerificationPending(w) \/ VerificationErrored(w)
           \/ ActivationHeld(w) \/ ReconciliationRequired(w) \/ PostFails(w)
  <2>1. wk[w].pc # "idle" /\ Guarded(w)
    BY <1>1 DEF KillSwitchHolds, VerificationPending, VerificationErrored,
                ActivationHeld, ReconciliationRequired, PostFails, MayPost, Absent, At
  <2>2. \E status \in {"queued", "verification_pending"} :
           Wait(w, status) /\ (status = "verification_pending" => wk[w].pc = "pending")
    BY <1>1 DEF KillSwitchHolds, VerificationPending, VerificationErrored,
                ActivationHeld, ReconciliationRequired, PostFails, At
  <2>3. UNCHANGED provider \/ (MayPost(w) /\ Lands(w))
    BY <1>1 DEF KillSwitchHolds, VerificationPending, VerificationErrored,
                ActivationHeld, ReconciliationRequired, PostFails
  <2> QED BY <2>1, <2>2, <2>3, WaitSound
<1>2. CASE PostThenCrash(w)
  BY <1>2, CrashSound
<1>3. CASE CheckEndsClaim(w)
  BY <1>3, CheckEndsSound
<1>4. CASE Process(w)
  BY <1>4, ProcessSound
<1>5. CASE DeclareOperation(w) \/ Verify(w)
  BY <1>5, DeclareSound
<1>6. CASE CreateCampaign(w) \/ FindCampaign(w)
  BY <1>6, CampaignSound
<1>7. CASE ImportLead(w) \/ FindLead(w)
  BY <1>7, LeadSound
<1>8. CASE Accepted(w) \/ Failed(w)
  BY <1>8, OutcomeSound
<1>9. CASE Activate(w) \/ FinalizeWithoutPost(w)
  BY <1>9, EndSound
<1> QED BY <1>1, <1>2, <1>3, <1>4, <1>5, <1>6, <1>7, <1>8, <1>9 DEF WorkerStep

-----------------------------------------------------------------------------
(* One step of anything                                                     *)

\* What OutcomesAreFinal says of a step.
StaysFinal ==
    /\ \A r \in Requests, t \in Targets :
          item[r][t].status \in Terminal => item'[r][t].status = item[r][t].status
    /\ \A t \in Targets : tgt[t].status = "sent" => tgt'[t].status = "sent"
    /\ \A r \in Requests : req[r].status \in Ended => req'[r] = req[r]

\* What is to be shown of every step.
Keeps == HeldInv' /\ StaysFinal /\ (OwnMailboxes /\ MailInv => MailInv')

\* A guarded step.
LEMMA SoundKeeps ==
    ASSUME TypeOK, TypeOK', SendStands, HeldInv, NEW w \in Workers, Sound(w)
    PROVE  Keeps
<1>1. PICK r \in Requests, t \in Targets :
        /\ Holds(w, r, t) /\ Works(w, r, t)
        /\ OwnMailboxes /\ MailInv => RequestMail(r)' /\ ItemMail(r, t)' /\ ClaimMail(w)'
  BY DEF Sound
<1>2. HeldInv' /\ (OwnMailboxes /\ MailInv => MailInv')
  BY <1>1, WorksHeld, WorksMail
<1>3. ASSUME NEW q \in Requests, NEW u \in Targets, item[q][u].status \in Terminal
      PROVE  item'[q][u].status = item[q][u].status
  BY <1>1, <1>3 DEF Works, Terminal
<1>4. ASSUME NEW u \in Targets, tgt[u].status = "sent" PROVE tgt'[u].status = "sent"
  BY <1>1, <1>4 DEF Works, SameColumns
<1>5. ASSUME NEW q \in Requests, req[q].status \in Ended PROVE req'[q] = req[q]
  BY <1>1, <1>5 DEF Works, Holds, Ended
<1> QED BY <1>2, <1>3, <1>4, <1>5 DEF Keeps, StaysFinal

\* A step that changes nothing but the claim of one process.
LEMMA ClaimOnly ==
    ASSUME TypeOK, HeldInv, NEW w \in Workers, UNCHANGED <<rows, provider>>,
           \A x \in Workers \ {w} : wk'[x] = wk[x],
           \/ wk'[w] = Idle
           \/ wk[w].pc # "idle" /\ wk'[w].req = wk[w].req /\ wk'[w].tgt = wk[w].tgt,
           MailInv => ClaimMail(w)'
    PROVE  Keeps
<1>0. UNCHANGED <<tgt, req, item, queue, ledger, confirmed, campaigns, leads, mails, verdict, active>>
  BY DEF rows, provider
<1>1. NoStrandedItem' /\ ReservationHeld' /\ LiveRuns' /\ \A r \in Requests : Queued(r)'
  BY <1>0 DEF HeldInv, NoStrandedItem, ReservationHeld, LiveRuns, Queued
<1>2. ASSUME NEW x \in Workers PROVE OwnerHolds(x)'
  <2>1. OwnerHolds(x)
    BY DEF HeldInv
  <2>2. CASE wk'[x] = wk[x]
    BY <1>0, <2>1, <2>2 DEF OwnerHolds, Owner
  <2>3. CASE x = w /\ wk'[w] = Idle
    BY <2>3, IdleFields DEF OwnerHolds, Owner
  <2>4. CASE x = w /\ wk[w].pc # "idle" /\ wk'[w].req = wk[w].req /\ wk'[w].tgt = wk[w].tgt
    BY <1>0, <2>1, <2>4 DEF OwnerHolds, Owner
  <2> QED BY <2>2, <2>3, <2>4
<1>3. HeldInv'
  BY <1>1, <1>2 DEF HeldInv
<1>4. ASSUME MailInv PROVE MailInv'
  <2>1. ASSUME NEW r \in Requests PROVE RequestMail(r)'
    BY <1>0, <1>4 DEF MailInv, RequestMail
  <2>2. ASSUME NEW r \in Requests, NEW t \in Targets PROVE ItemMail(r, t)'
    <3>1. ItemMail(r, t)
      BY <1>4 DEF MailInv
    <3> QED BY <1>0, <3>1 DEF ItemMail, Belongs
  <2>3. ASSUME NEW x \in Workers PROVE ClaimMail(x)'
    <3>1. CASE x = w
      BY <1>4, <3>1
    <3>2. CASE x # w
      <4>1. ClaimMail(x) /\ wk'[x] = wk[x]
        BY <1>4, <3>2 DEF MailInv
      <4> QED BY <1>0, <4>1 DEF ClaimMail, Belongs, Owner
    <3> QED BY <3>1, <3>2
  <2> QED BY <2>1, <2>2, <2>3 DEF MailInv
<1>5. StaysFinal
  BY <1>0 DEF StaysFinal
<1> QED BY <1>3, <1>4, <1>5 DEF Keeps

\* A claim is dropped, a declaration found missing, a verdict read.
LEMMA ClaimStepKeeps ==
    ASSUME TypeOK, HeldInv, NEW w \in Workers,
           Lost(w) \/ Crash(w) \/ NeedsDeclaration(w) \/ GetVerification(w)
    PROVE  Keeps
<1>1. CASE Lost(w) \/ Crash(w)
  <2>1. wk' = [wk EXCEPT ![w] = Idle] /\ UNCHANGED <<rows, provider>>
    BY <1>1 DEF Lost, Crash, Return
  <2>2. wk'[w] = Idle /\ \A x \in Workers \ {w} : wk'[x] = wk[x]
    BY <2>1 DEF TypeOK
  <2> QED BY <2>1, <2>2, ClaimOnly, IdleMail
<1>2. CASE NeedsDeclaration(w)
  <2>1. PICK o : wk' = [wk EXCEPT ![w] = Declaring(wk[w], o)]
    BY <1>2 DEF NeedsDeclaration
  <2>2. UNCHANGED <<rows, provider>> /\ wk[w].pc # "idle"
    BY <1>2 DEF NeedsDeclaration, Absent, At
  <2>3. /\ wk'[w].pc = "declare" /\ wk'[w].req = wk[w].req /\ wk'[w].tgt = wk[w].tgt
        /\ \A x \in Workers \ {w} : wk'[x] = wk[x]
    BY <2>1, <2>2, ClaimType, ClaimFields DEF TypeOK
  <2>4. ClaimMail(w)'
    BY <2>3 DEF ClaimMail, Verifying
  <2> QED BY <2>2, <2>3, <2>4, ClaimOnly
<1>3. CASE GetVerification(w)
  <2>0. wk[w].pc = "get" /\ wk[w].pc # "idle" /\ UNCHANGED <<rows, provider>>
    BY <1>3 DEF GetVerification
  <2>1. PICK r \in Requests, t \in Targets : r = wk[w].req /\ t = wk[w].tgt
    BY <2>0, ClaimType
  <2>2. wk[w] \in ClaimRow
    BY <2>0, ClaimType
  <2>3. PICK pc \in {"accepted", "failed", "pending", "errored"} :
          /\ wk' = [wk EXCEPT ![w] = GoneTo(wk[w], pc)]
          /\ pc = "accepted" => verdict[wk[w].lead.camp][wk[w].lead.tgt] = "valid"
          /\ pc = "failed" => verdict[wk[w].lead.camp][wk[w].lead.tgt] = "invalid"
    BY <1>3 DEF GetVerification, Goto
  <2> DEFINE c == GoneTo(wk[w], pc)
  <2>4. /\ c.pc = pc /\ c.req = wk[w].req /\ c.tgt = wk[w].tgt /\ c.camp = wk[w].camp
        /\ c.lead = wk[w].lead /\ c.mail = wk[w].mail
    BY <2>2, ClaimFields, ClaimColumns
  <2> HIDE DEF c
  <2>5. wk'[w] = c /\ \A x \in Workers \ {w} : wk'[x] = wk[x]
    BY <2>3 DEF c, TypeOK
  <2>6. UNCHANGED <<leads, verdict, tgt, item, req>>
    BY <2>0 DEF rows, provider
  <2>7. ASSUME MailInv PROVE ClaimMail(w)'
    <3>1. ClaimMail(w) /\ wk[w].pc \in Verifying
      BY <2>0, <2>7 DEF MailInv, Verifying
    <3>2. wk[w].lead # Nil
      BY <2>2, <3>1, ConstantsAssumption DEF ClaimRow, Lead
    <3>3. wk[w].lead = OwnLead(r, t)
      BY <2>1, <3>1, <3>2 DEF ClaimMail, Belongs
    <3>4. wk[w].lead.camp = r /\ wk[w].lead.tgt = t
      BY <3>3 DEF OwnLead
    <3>5. Owner(w)' => Owner(w)
      BY <2>0, <2>4, <2>5, <2>6 DEF Owner
    <3>6. /\ pc = "accepted" => verdict[r][t] = "valid"
          /\ pc = "failed" => verdict[r][t] = "invalid"
      BY <2>3, <3>4
    <3> QED BY <2>1, <2>4, <2>5, <2>6, <3>1, <3>5, <3>6 DEF ClaimMail, Belongs, Verifying
  <2> QED BY <2>0, <2>4, <2>5, <2>7, ClaimOnly
<1> QED BY <1>1, <1>2, <1>3

\* The candidate query finds the item that was left running, if there is one.
LEMMA DueFirst ==
    ASSUME TypeOK, HeldInv, NEW r \in Requests, NEW t \in Targets, Reclaimable(r), FirstDue(r, t)
    PROVE  /\ \A u \in Targets : item[r][u].status = "running" => u = t
           /\ item[r][t].status \in Open \cup Terminal
           /\ \E i \in DOMAIN queue[r] :
                 /\ queue[r][i] = t
                 /\ \A j \in DOMAIN queue[r] : j < i => item[r][queue[r][j]].status \notin Open
<1>1. PICK i \in DOMAIN queue[r] :
        /\ queue[r][i] = t /\ Due(r, t)
        /\ \A j \in DOMAIN queue[r] : Due(r, queue[r][j]) => i <= j
  BY DEF FirstDue
<1>2. DOMAIN queue[r] \subseteq Nat /\ \A j \in DOMAIN queue[r] : queue[r][j] \in Targets
  BY DEF TypeOK
<1>3. item[r][t].status \in Open \cup Terminal
  BY <1>1 DEF Due, Open
<1>4. ASSUME NEW u \in Targets, item[r][u].status = "running" PROVE u = t /\ Due(r, u)
  <2>1. req[r].status = "running"
    BY <1>4 DEF HeldInv, NoStrandedItem
  <2>2. Due(r, u)
    BY <1>4, <2>1 DEF Reclaimable, Due
  <2>3. PICK k \in DOMAIN queue[r] :
           /\ queue[r][k] = u
           /\ \A j \in DOMAIN queue[r] : j < k => item[r][queue[r][j]].status \notin Open
    BY <1>4 DEF HeldInv, Queued
  <2>4. FinalStatus(item[r]) = Nil
    BY <1>4 DEF FinalStatus, Terminal
  <2>5. item[r][t].status \in Open
    BY <1>1, <2>4 DEF Due, Open
  <2>6. i <= k /\ ~(i < k)
    BY <1>1, <2>2, <2>3, <2>5
  <2>7. i = k
    BY <1>2, <2>6
  <2> QED BY <1>1, <2>2, <2>3, <2>7
<1>5. ASSUME NEW j \in DOMAIN queue[r], j < i PROVE item[r][queue[r][j]].status \notin Open
  <2>1. ~Due(r, queue[r][j])
    BY <1>1, <1>2, <1>5
  <2> QED BY <1>2, <1>4, <2>1 DEF Due, Open
<1> QED BY <1>1, <1>3, <1>4, <1>5

\* A claim takes the item that is first due.
LEMMA ClaimKeeps ==
    ASSUME TypeOK, TypeOK', SendStands, HeldInv, NEW w \in Workers, NEW r \in Requests, Claim(w, r)
    PROVE  Keeps
<1>0. PICK t \in Targets :
        /\ FirstDue(r, t)
        /\ req' = [req EXCEPT ![r] = Claimed(@, w)]
        /\ item' = [item EXCEPT ![r][t] =
              IF @.status \in Terminal THEN @
              ELSE Settled(@, "running", @.lead, @.cause)]
        /\ wk' = [wk EXCEPT ![w] = NewClaim(r, t)]
  BY DEF Claim
<1>1. /\ UNCHANGED <<tgt, queue, ledger, confirmed, campaigns, leads, mails, verdict, active>>
      /\ Reclaimable(r)
  BY DEF Claim, provider
<1>2. /\ \A u \in Targets : item[r][u].status = "running" => u = t
      /\ item[r][t].status \in Open \cup Terminal
      /\ \E i \in DOMAIN queue[r] :
            /\ queue[r][i] = t
            /\ \A j \in DOMAIN queue[r] : j < i => item[r][queue[r][j]].status \notin Open
  BY <1>0, <1>1, DueFirst
<1> DEFINE it == IF item[r][t].status \in Terminal THEN item[r][t]
                 ELSE Settled(item[r][t], "running", item[r][t].lead, item[r][t].cause)
           row == Claimed(req[r], w)
           c == NewClaim(r, t)
<1>3. item[r] \in [Targets -> ItemRow] /\ item[r][t] \in ItemRow /\ req[r] \in RequestRow
  BY DEF TypeOK
<1>4. /\ it.version = item[r][t].version /\ it.lead = item[r][t].lead
      /\ it.cause = item[r][t].cause
      /\ it.status = IF item[r][t].status \in Terminal THEN item[r][t].status ELSE "running"
  BY <1>3, ItemFields, ItemColumns
<1>5. row.status = "running" /\ row.lease = w /\ row.camp = req[r].camp
  BY <1>3, RequestFields
<1>6. c.pc = "process" /\ c.req = r /\ c.tgt = t
  BY DEF NewClaim, Idle
<1>7. /\ req'[r] = row /\ wk'[w] = c /\ item'[r][t] = it
      /\ \A u \in Targets \ {t} : item'[r][u] = item[r][u]
      /\ \A q \in Requests \ {r} : req'[q] = req[q] /\ item'[q] = item[q]
      /\ \A x \in Workers \ {w} : wk'[x] = wk[x]
  BY <1>0, <1>3 DEF TypeOK
<1> HIDE DEF it, row, c
<1>8. \A u \in Targets : item'[r][u].status = "running" => u = t
  BY <1>2, <1>7
<1>9. \A q \in Requests, u \in Targets :
        /\ item'[q][u].version = item[q][u].version /\ item'[q][u].lead = item[q][u].lead
        /\ item'[q][u].cause = item[q][u].cause
        /\ item'[q][u].status = item[q][u].status
           \/ (item[q][u].status \in Open /\ item'[q][u].status = "running")
  BY <1>2, <1>4, <1>7
<1>10. ASSUME NEW x \in Workers \ {w}, Owner(x)' PROVE Owner(x) /\ wk[x].req # r
  BY <1>5, <1>7, <1>10, ClaimType DEF Owner
<1>11. HeldInv'
  <2>1. NoStrandedItem'
    <3> SUFFICES ASSUME NEW q \in Requests, NEW u \in Targets, item'[q][u].status = "running"
                 PROVE  /\ req'[q].status = "running"
                        /\ \A v \in Targets : item'[q][v].status = "running" => v = u
      BY DEF NoStrandedItem
    <3>1. CASE q = r
      BY <1>5, <1>7, <1>8, <3>1
    <3>2. CASE q # r
      BY <1>7, <3>2 DEF HeldInv, NoStrandedItem
    <3> QED BY <3>1, <3>2
  <2>2. ReservationHeld'
    BY <1>1, <1>9 DEF HeldInv, ReservationHeld, Open
  <2>3. LiveRuns'
    BY <1>5, <1>7 DEF HeldInv, LiveRuns
  <2>4. ASSUME NEW x \in Workers PROVE OwnerHolds(x)'
    <3>1. CASE x = w
      BY <1>6, <1>7, <1>8, <3>1 DEF OwnerHolds
    <3>2. CASE x # w
      <4> SUFFICES ASSUME Owner(x)' PROVE OwnerHolds(x)'
        BY DEF OwnerHolds
      <4>1. Owner(x) /\ wk[x].req # r /\ wk'[x] = wk[x]
        BY <1>7, <1>10, <3>2
      <4>2. item'[wk[x].req] = item[wk[x].req]
        BY <1>7, <4>1, ClaimType DEF Owner
      <4> QED BY <4>1, <4>2 DEF HeldInv, OwnerHolds
    <3> QED BY <3>1, <3>2
  <2>5. ASSUME NEW q \in Requests PROVE Queued(q)'
    <3>0. Queued(q) /\ queue' = queue
      BY <1>1 DEF HeldInv
    <3>1. \A u \in Targets : item'[q][u].status # "none" =>
             \E i \in DOMAIN queue[q] : queue[q][i] = u
      BY <1>9, <3>0 DEF Queued, Open
    <3>2. CASE q # r
      <4>1. item'[q] = item[q]
        BY <1>7, <3>2
      <4> QED BY <3>0, <4>1 DEF Queued
    <3>3. CASE q = r
      <4>1. PICK i \in DOMAIN queue[r] :
              /\ queue[r][i] = t
              /\ \A j \in DOMAIN queue[r] : j < i => item[r][queue[r][j]].status \notin Open
        BY <1>2
      <4>2. ASSUME NEW j \in DOMAIN queue[r], j < i
            PROVE  item'[r][queue[r][j]].status \notin Open
        <5>1. queue[r][j] \in Targets /\ item[r][queue[r][j]].status \notin Open
          BY SMTT(60), <4>1, <4>2 DEF TypeOK
        <5> QED BY <1>9, <5>1
      <4> QED BY <1>8, <3>0, <3>1, <3>3, <4>1, <4>2 DEF Queued
    <3> QED BY <3>2, <3>3
  <2> QED BY <2>1, <2>2, <2>3, <2>4, <2>5 DEF HeldInv
<1>12. ASSUME MailInv PROVE MailInv'
  <2>1. ASSUME NEW q \in Requests PROVE RequestMail(q)'
    <3>1. RequestMail(q) /\ req'[q].camp = req[q].camp
      BY <1>5, <1>7, <1>12 DEF MailInv
    <3> QED BY <1>1, <3>1 DEF RequestMail
  <2>2. ASSUME NEW q \in Requests, NEW u \in Targets PROVE ItemMail(q, u)'
    <3>1. ItemMail(q, u)
      BY <1>12 DEF MailInv
    <3>2. item'[q][u].status \in Terminal => item'[q][u].status = item[q][u].status
      BY <1>9 DEF Terminal
    <3>3. item'[q][u].status \in Open => item[q][u].status \in Open
      BY <1>9
    <3> QED BY <1>1, <1>9, <3>1, <3>2, <3>3 DEF ItemMail, Belongs, Terminal
  <2>3. ASSUME NEW x \in Workers PROVE ClaimMail(x)'
    <3>1. CASE x = w
      BY <1>6, <1>7, <3>1 DEF ClaimMail, Verifying
    <3>2. CASE x # w
      <4>1. ClaimMail(x) /\ wk'[x] = wk[x] /\ (Owner(x)' => Owner(x))
        BY <1>7, <1>10, <1>12, <3>2 DEF MailInv
      <4>2. Owner(x) => item'[wk[x].req][wk[x].tgt].version = item[wk[x].req][wk[x].tgt].version
        BY <1>9, ClaimType DEF Owner
      <4> QED BY <1>1, <4>1, <4>2 DEF ClaimMail, Belongs
    <3> QED BY <3>1, <3>2
  <2> QED BY <2>1, <2>2, <2>3 DEF MailInv
<1>13. StaysFinal
  <2>1. req[r].status \notin Ended
    BY <1>1 DEF Reclaimable, Ended
  <2>2. \A q \in Requests, u \in Targets : item[q][u].status \in Terminal =>
           item'[q][u].status = item[q][u].status
    BY <1>9 DEF Terminal, Open
  <2> QED BY <1>1, <1>7, <2>1, <2>2 DEF StaysFinal
<1> QED BY <1>11, <1>12, <1>13 DEF Keeps

\* A reservation takes targets that nobody holds, for a request that is new.
LEMMA EnqueueKeeps ==
    ASSUME TypeOK, TypeOK', SendStands, HeldInv, NEW r \in Requests, NEW order \in Batches,
           EnqueueSend(r, order)
    PROVE  Keeps
<1> DEFINE batch == {order[i] : i \in DOMAIN order}
<1>1. /\ req[r].status = "none" /\ req' = [req EXCEPT ![r] = NewRequest(Len(order))]
      /\ \A t \in batch : tgt[t].status = "approved" /\ tgt[t].req = Nil
      /\ item' = [item EXCEPT ![r] = [t \in Targets |->
            IF t \in batch THEN NewItem(tgt[t].version) ELSE NoItem]]
      /\ queue' = [queue EXCEPT ![r] = order]
      /\ tgt' = [t \in Targets |-> IF t \in batch THEN AsReserved(tgt[t], r) ELSE tgt[t]]
      /\ UNCHANGED <<ledger, confirmed, campaigns, leads, mails, verdict, active, wk>>
  BY DEF EnqueueSend, provider
<1>2. \A t \in batch : \E i \in DOMAIN order : order[i] = t
  OBVIOUS
<1> HIDE DEF batch
<1>3. /\ req'[r].status = "queued" /\ ~req'[r].live /\ req'[r].camp = Nil
      /\ \A q \in Requests \ {r} : req'[q] = req[q]
  <2>1. req[r] \in RequestRow /\ req'[r] = NewRequest(Len(order))
    BY <1>1 DEF TypeOK
  <2> QED BY <1>1, <2>1, NewFields, LiveFields DEF TypeOK
<1>4. \A q \in Requests \ {r} : item'[q] = item[q] /\ queue'[q] = queue[q]
  BY <1>1 DEF TypeOK
<1>5. queue'[r] = order
  BY <1>1 DEF TypeOK
<1>6. ASSUME NEW t \in Targets
      PROVE  /\ item'[r][t].status = IF t \in batch THEN "queued" ELSE "none"
             /\ item'[r][t].lead = Nil
             /\ item'[r][t].version = IF t \in batch THEN tgt[t].version ELSE 0
             /\ t \notin batch => tgt'[t] = tgt[t]
             /\ t \in batch => /\ tgt'[t].status = "approved" /\ tgt'[t].req = r
                               /\ tgt'[t].version = tgt[t].version
                               /\ tgt'[t].camp = Nil /\ tgt'[t].lead = Nil
  <2>1. /\ item'[r][t] = IF t \in batch THEN NewItem(tgt[t].version) ELSE NoItem
        /\ tgt'[t] = IF t \in batch THEN AsReserved(tgt[t], r) ELSE tgt[t]
        /\ tgt[t] \in TargetRow
    BY <1>1 DEF TypeOK
  <2>2. t \in batch => tgt[t].status = "approved"
    BY <1>1
  <2> QED BY <2>1, <2>2, NewFields, NewColumns, TargetColumns
<1>7. /\ r # Nil /\ \A t \in Targets : item[r][t].status = "none" /\ ~(leads[r][t] > 0)
  <2>1. RequestStands(r)
    BY DEF SendStands
  <2> QED BY <1>1, <2>1, ConstantsAssumption DEF RequestStands
<1>8. ASSUME NEW q \in Requests, NEW t \in Targets, t \in batch
      PROVE  item[q][t].status \notin Open /\ tgt[t].req # q
  <2>1. tgt[t].req = Nil /\ q # Nil
    BY <1>1, <1>8, ConstantsAssumption
  <2> QED BY <2>1 DEF HeldInv, ReservationHeld, Open
<1>9. ASSUME NEW x \in Workers, Owner(x)' PROVE Owner(x) /\ wk[x].req \in Requests \ {r}
  BY <1>1, <1>3, <1>9, ClaimType DEF Owner
<1>10. HeldInv'
  <2>1. NoStrandedItem'
    <3> SUFFICES ASSUME NEW q \in Requests, NEW u \in Targets, item'[q][u].status = "running"
                 PROVE  /\ req'[q].status = "running"
                        /\ \A v \in Targets : item'[q][v].status = "running" => v = u
      BY DEF NoStrandedItem
    <3>1. q # r
      BY <1>6
    <3> QED BY <1>3, <1>4, <3>1 DEF HeldInv, NoStrandedItem
  <2>2. ReservationHeld'
    <3> SUFFICES ASSUME NEW q \in Requests, NEW u \in Targets, item'[q][u].status \in Open
                 PROVE  tgt'[u].req = q /\ tgt'[u].status # "sent"
      BY DEF ReservationHeld, Open
    <3>1. CASE q = r
      BY <1>6, <3>1 DEF Open
    <3>2. CASE q # r
      <4>1. item[q][u].status \in Open /\ u \notin batch
        BY <1>4, <1>8, <3>2
      <4> QED BY <1>6, <4>1 DEF HeldInv, ReservationHeld, Open
    <3> QED BY <3>1, <3>2
  <2>3. LiveRuns'
    BY <1>3 DEF HeldInv, LiveRuns
  <2>4. ASSUME NEW x \in Workers PROVE OwnerHolds(x)'
    <3> SUFFICES ASSUME Owner(x)' PROVE OwnerHolds(x)'
      BY DEF OwnerHolds
    <3>1. Owner(x) /\ item'[wk[x].req] = item[wk[x].req] /\ wk' = wk
      BY <1>1, <1>4, <1>9
    <3> QED BY <3>1 DEF HeldInv, OwnerHolds
  <2>5. ASSUME NEW q \in Requests PROVE Queued(q)'
    <3>1. CASE q # r
      <4>1. Queued(q) /\ item'[q] = item[q] /\ queue'[q] = queue[q]
        BY <1>4, <3>1 DEF HeldInv
      <4> QED BY <4>1 DEF Queued
    <3>2. CASE q = r
      <4>1. \A u \in Targets : item'[r][u].status # "running"
                               /\ (item'[r][u].status # "none" => u \in batch)
        BY <1>6
      <4> QED BY <1>2, <1>5, <3>2, <4>1 DEF Queued
    <3> QED BY <3>1, <3>2
  <2> QED BY <2>1, <2>2, <2>3, <2>4, <2>5 DEF HeldInv
<1>11. ASSUME MailInv PROVE MailInv'
  <2>1. ASSUME NEW q \in Requests PROVE RequestMail(q)'
    <3>1. RequestMail(q) /\ req'[q].camp \in {req[q].camp, Nil}
      BY <1>3, <1>11 DEF MailInv
    <3> QED BY <1>1, <3>1 DEF RequestMail
  <2>2. ASSUME NEW q \in Requests, NEW u \in Targets PROVE ItemMail(q, u)'
    <3>1. ItemMail(q, u)
      BY <1>11 DEF MailInv
    <3>2. CASE q = r
      <4>1. tgt[u].version \in Nat
        BY DEF TypeOK, TargetRow
      <4>2. item'[r][u].version <= tgt'[u].version
        BY <1>6, <4>1
      <4>3. /\ item'[r][u].lead = Nil /\ item'[r][u].status \in {"queued", "none"}
            /\ ~(leads'[r][u] > 0) /\ u \notin confirmed'[r]
        BY <1>1, <1>6, <1>7, <3>1, <3>2 DEF ItemMail
      <4>4. tgt'[u].req = r => tgt'[u].camp \in {Nil, r} /\ Belongs(tgt[u].lead, r, u)'
        BY <1>1, <1>6, <3>1, <3>2 DEF ItemMail, Belongs
      <4> QED BY <3>2, <4>2, <4>3, <4>4 DEF ItemMail, Belongs
    <3>3. CASE q # r /\ u \notin batch
      <4>1. item'[q] = item[q] /\ tgt'[u] = tgt[u]
        BY <1>4, <1>6, <3>3
      <4> QED BY <1>1, <3>1, <4>1 DEF ItemMail, Belongs
    <3>4. CASE q # r /\ u \in batch
      <4>1. /\ item'[q] = item[q] /\ tgt'[u].version = tgt[u].version /\ tgt'[u].req # q
            /\ item[q][u].status \notin Open /\ tgt[u].req # q
        BY <1>4, <1>6, <1>8, <3>4
      <4> QED BY <1>1, <3>1, <4>1 DEF ItemMail, Belongs
    <3> QED BY <3>2, <3>3, <3>4
  <2>3. ASSUME NEW x \in Workers PROVE ClaimMail(x)'
    <3>1. ClaimMail(x) /\ ClaimStands(x) /\ wk' = wk
      BY <1>1, <1>11 DEF MailInv, SendStands
    <3>2. ASSUME Owner(x)', wk[x].pc \in {"campaign", "lead"} \cup Verifying
          PROVE  /\ Owner(x) /\ item'[wk[x].req] = item[wk[x].req]
                 /\ tgt'[wk[x].tgt] = tgt[wk[x].tgt]
      <4>1. Owner(x) /\ wk[x].req \in Requests \ {r} /\ wk[x].tgt \in Targets
        BY <1>9, <3>2, ClaimType DEF Owner
      <4>2. item[wk[x].req][wk[x].tgt].status = "running"
        BY <3>1, <3>2, <4>1 DEF ClaimStands
      <4>3. wk[x].tgt \notin batch
        BY <1>8, <4>1, <4>2 DEF Open
      <4> QED BY <1>4, <1>6, <4>1, <4>3
    <3> QED BY <1>1, <3>1, <3>2 DEF ClaimMail, Belongs
  <2> QED BY <2>1, <2>2, <2>3 DEF MailInv
<1>12. StaysFinal
  <2>1. ASSUME NEW q \in Requests, NEW u \in Targets, item[q][u].status \in Terminal
        PROVE  item'[q][u].status = item[q][u].status
    BY <1>4, <1>7, <2>1 DEF Terminal
  <2>2. ASSUME NEW u \in Targets, tgt[u].status = "sent" PROVE tgt'[u].status = "sent"
    BY <1>1, <1>6, <2>2
  <2>3. ASSUME NEW q \in Requests, req[q].status \in Ended PROVE req'[q] = req[q]
    BY <1>1, <1>3, <2>3 DEF Ended
  <2> QED BY <2>1, <2>2, <2>3 DEF StaysFinal
<1> QED BY <1>10, <1>11, <1>12 DEF Keeps

\* A founder's edits leave the other rows and the claims alone, never touch a
\* sent target, and outdate the version that was reserved.
LEMMA EditKeeps ==
    ASSUME TypeOK, TypeOK', HeldInv,
           \A t \in Targets : tgt'[t] = tgt[t] \/ Edited(tgt'[t], tgt[t]),
           UNCHANGED <<req, item, queue, ledger, confirmed, provider, wk>>
    PROVE  Keeps
<1>0. UNCHANGED <<campaigns, leads, mails, verdict, active>>
  BY DEF provider
<1>1. ReservationHeld'
  BY DEF HeldInv, ReservationHeld, Edited
<1>2. HeldInv'
  BY <1>1 DEF HeldInv, NoStrandedItem, LiveRuns, OwnerHolds, Owner, Queued
<1>3. ASSUME MailInv PROVE MailInv'
  <2>1. ASSUME NEW r \in Requests PROVE RequestMail(r)'
    BY <1>0, <1>3 DEF MailInv, RequestMail
  <2>2. ASSUME NEW r \in Requests, NEW t \in Targets, Edited(tgt'[t], tgt[t])
        PROVE  item[r][t].version < tgt'[t].version
    <3>1. item[r][t].version \in Nat /\ tgt[t].version \in Nat
      BY DEF TypeOK, ItemRow, TargetRow
    <3>2. item[r][t].version <= tgt[t].version /\ tgt'[t].version = tgt[t].version + 1
      BY <1>3, <2>2 DEF MailInv, ItemMail, Edited
    <3> QED BY <3>1, <3>2
  <2>3. ASSUME NEW r \in Requests, NEW t \in Targets PROVE ItemMail(r, t)'
    <3>0. ItemMail(r, t)
      BY <1>3 DEF MailInv
    <3>1. CASE tgt'[t] = tgt[t]
      BY <1>0, <3>0, <3>1 DEF ItemMail, Belongs
    <3>2. CASE Edited(tgt'[t], tgt[t])
      <4>1. item[r][t].version \in Nat /\ tgt'[t].version \in Nat
        BY DEF TypeOK, ItemRow, TargetRow
      <4>2. item[r][t].version <= tgt'[t].version /\ item[r][t].version # tgt'[t].version
        BY <2>2, <3>2, <4>1
      <4>3. item[r][t].status # "sent"
        BY <3>0, <3>2 DEF ItemMail, Edited
      <4>4. tgt'[t].req = r => tgt'[t].camp \in {Nil, r} /\ Belongs(tgt'[t].lead, r, t)
        BY <3>0, <3>2 DEF ItemMail, Edited, Belongs
      <4> QED BY <1>0, <3>0, <4>2, <4>3, <4>4 DEF ItemMail, Belongs
    <3> QED BY <3>1, <3>2
  <2>4. ASSUME NEW x \in Workers PROVE ClaimMail(x)'
    <3>0. ClaimMail(x) /\ (Owner(x)' => Owner(x))
      BY <1>3 DEF MailInv, Owner
    <3>1. CASE wk[x].pc = "idle"
      BY <3>1 DEF ClaimMail, Verifying
    <3>2. CASE wk[x].pc # "idle"
      <4>1. PICK r \in Requests, t \in Targets : r = wk[x].req /\ t = wk[x].tgt
        BY <3>2, ClaimType
      <4>2. CASE tgt'[t] = tgt[t]
        BY <1>0, <3>0, <4>1, <4>2 DEF ClaimMail, Belongs
      <4>3. CASE Edited(tgt'[t], tgt[t])
        <5>1. item[r][t].version \in Nat /\ tgt'[t].version \in Nat
          BY DEF TypeOK, ItemRow, TargetRow
        <5>2. item[r][t].version # tgt'[t].version
          BY <2>2, <4>3, <5>1
        <5> QED BY <1>0, <3>0, <4>1, <5>2 DEF ClaimMail, Belongs
      <4> QED BY <4>2, <4>3
    <3> QED BY <3>1, <3>2
  <2> QED BY <2>1, <2>3, <2>4 DEF MailInv
<1>4. StaysFinal
  BY DEF StaysFinal, Edited
<1> QED BY <1>2, <1>3, <1>4 DEF Keeps

\* A step that leaves the rows, the claims and the provider alone, but for the
\* verdict of a lead that had none.
LEMMA VerdictKeeps ==
    ASSUME HeldInv, UNCHANGED <<rows, campaigns, leads, mails, active, wk>>,
           \A r \in Requests, t \in Targets :
              verdict[r][t] = "pending" \/ verdict'[r][t] = verdict[r][t], TypeOK
    PROVE  Keeps
<1>0. UNCHANGED <<tgt, req, item, queue, ledger, confirmed>>
  BY DEF rows
<1>1. HeldInv'
  BY <1>0 DEF HeldInv, NoStrandedItem, ReservationHeld, LiveRuns, OwnerHolds, Owner, Queued
<1>2. ASSUME MailInv PROVE MailInv'
  <2>1. ASSUME NEW r \in Requests PROVE RequestMail(r)'
    BY <1>0, <1>2 DEF MailInv, RequestMail
  <2>2. ASSUME NEW r \in Requests, NEW t \in Targets PROVE ItemMail(r, t)'
    <3>1. ItemMail(r, t)
      BY <1>2 DEF MailInv
    <3> QED BY <1>0, <3>1 DEF ItemMail, Belongs
  <2>3. ASSUME NEW x \in Workers PROVE ClaimMail(x)'
    <3>1. ClaimMail(x)
      BY <1>2 DEF MailInv
    <3>2. CASE wk[x].pc = "idle"
      BY <3>2 DEF ClaimMail, Verifying
    <3>3. CASE wk[x].pc # "idle"
      <4>1. wk[x].req \in Requests /\ wk[x].tgt \in Targets
        BY <3>3, ClaimType
      <4> QED BY <1>0, <3>1, <4>1 DEF ClaimMail, Belongs, Owner
    <3> QED BY <3>2, <3>3
  <2> QED BY <2>1, <2>2, <2>3 DEF MailInv
<1>3. StaysFinal
  BY <1>0 DEF StaysFinal
<1> QED BY <1>1, <1>2, <1>3 DEF Keeps

\* A lease runs out under a running request only.
LEMMA ExpiryKeeps ==
    ASSUME TypeOK, HeldInv, NEW r \in Requests, LeaseExpires(r)
    PROVE  Keeps
<1>1. /\ req[r].live /\ req' = [req EXCEPT ![r] = Expired(@)]
      /\ UNCHANGED <<tgt, item, queue, ledger, confirmed, campaigns, leads, mails, verdict,
                     active, wk>>
  BY DEF LeaseExpires, provider
<1>2. ASSUME NEW q \in Requests
      PROVE  /\ req'[q].status = req[q].status /\ req'[q].lease = req[q].lease
             /\ req'[q].camp = req[q].camp /\ (req'[q].live => req[q].live)
             /\ q # r => req'[q] = req[q]
  <2>1. req[r] \in RequestRow /\ req'[q] = IF q = r THEN Expired(req[r]) ELSE req[q]
    BY <1>1 DEF TypeOK
  <2> QED BY <2>1, RequestFields, LiveFields
<1>3. \A x \in Workers : Owner(x)' => Owner(x)
  <2> SUFFICES ASSUME NEW x \in Workers, Owner(x)' PROVE Owner(x)
    OBVIOUS
  <2>1. wk[x].pc # "idle" /\ wk' = wk
    BY <1>1 DEF Owner
  <2>2. wk[x].req \in Requests
    BY <2>1, ClaimType
  <2> QED BY <1>2, <2>1, <2>2 DEF Owner
<1>4. HeldInv'
  <2>1. NoStrandedItem' /\ ReservationHeld' /\ LiveRuns' /\ \A q \in Requests : Queued(q)'
    BY <1>1, <1>2 DEF HeldInv, NoStrandedItem, ReservationHeld, LiveRuns, Queued
  <2>2. ASSUME NEW x \in Workers PROVE OwnerHolds(x)'
    BY <1>1, <1>3 DEF HeldInv, OwnerHolds
  <2> QED BY <2>1, <2>2 DEF HeldInv
<1>5. ASSUME MailInv PROVE MailInv'
  <2>1. ASSUME NEW q \in Requests PROVE RequestMail(q)'
    BY <1>1, <1>2, <1>5 DEF MailInv, RequestMail
  <2>2. ASSUME NEW q \in Requests, NEW t \in Targets PROVE ItemMail(q, t)'
    <3>1. ItemMail(q, t)
      BY <1>5 DEF MailInv
    <3> QED BY <1>1, <3>1 DEF ItemMail, Belongs
  <2>3. ASSUME NEW x \in Workers PROVE ClaimMail(x)'
    <3>1. ClaimMail(x)
      BY <1>5 DEF MailInv
    <3> QED BY <1>1, <1>3, <3>1 DEF ClaimMail, Belongs
  <2> QED BY <2>1, <2>2, <2>3 DEF MailInv
<1>6. StaysFinal
  <2>1. req[r].status = "running"
    BY <1>1 DEF HeldInv, LiveRuns
  <2> QED BY <1>1, <1>2, <2>1 DEF StaysFinal, Ended
<1> QED BY <1>4, <1>5, <1>6 DEF Keeps

\* A founder's step that is no reservation.
LEMMA FounderKeeps ==
    ASSUME TypeOK, TypeOK', HeldInv, FounderStep,
           ~ \E r \in Requests, order \in Batches : EnqueueSend(r, order)
    PROVE  Keeps
<1>0. tgt \in [Targets -> TargetRow]
  BY DEF TypeOK
<1>1. CASE ToggleKillSwitch
  BY <1>1, VerdictKeeps DEF ToggleKillSwitch, provider
<1>2. ASSUME NEW t \in Targets, Approve(t) \/ Reject(t) \/ \E c \in {"passed", "failed"} : Correct(t, c)
      PROVE  Keeps
  <2>0. tgt[t] \in TargetRow /\ tgt[t].status # "sent"
        /\ UNCHANGED <<req, item, queue, ledger, confirmed, provider, wk>>
    BY <1>0, <1>2 DEF Approve, Reject, Correct
  <2>1. /\ Edited(AsApproved(tgt[t]), tgt[t]) /\ Edited(AsRejected(tgt[t]), tgt[t])
        /\ \A c \in {"passed", "failed"} :
              /\ Edited(AsRendered(tgt[t], c), tgt[t])
              /\ Edited(AsPending(AsRendered(tgt[t], c)), tgt[t])
    BY <2>0, EditedRows
  <2>2. PICK x : tgt' = [tgt EXCEPT ![t] = x] /\ Edited(x, tgt[t])
    <3>1. CASE Approve(t)
      BY <2>1, <3>1 DEF Approve
    <3>2. CASE Reject(t)
      BY <2>1, <3>2 DEF Reject
    <3>3. ASSUME NEW c \in {"passed", "failed"}, Correct(t, c)
          PROVE  \E x : tgt' = [tgt EXCEPT ![t] = x] /\ Edited(x, tgt[t])
      <4> DEFINE x == IF c = "failed" THEN AsPending(AsRendered(tgt[t], c))
                      ELSE AsRendered(tgt[t], c)
      <4>1. tgt' = [tgt EXCEPT ![t] = x]
        BY <3>3 DEF Correct
      <4>2. Edited(x, tgt[t])
        BY <2>1
      <4> QED BY <4>1, <4>2
    <3> QED BY <1>2, <3>1, <3>2, <3>3
  <2>3. \A u \in Targets : tgt'[u] = tgt[u] \/ Edited(tgt'[u], tgt[u])
    BY <1>0, <2>2
  <2> QED BY <2>0, <2>3, EditKeeps
<1>3. ASSUME NEW broken \in SUBSET Targets, RegeneratePendingMail(broken)
      PROVE  Keeps
  <2>1. UNCHANGED <<req, item, queue, ledger, confirmed, provider, wk>>
    BY <1>3 DEF RegeneratePendingMail
  <2>2. ASSUME NEW t \in Targets PROVE tgt'[t] = tgt[t] \/ Edited(tgt'[t], tgt[t])
    <3>1. CASE tgt[t].status \in {"pending_review", "approved"}
      <4>1. \E c \in {"passed", "failed"} : tgt'[t] = AsRendered(tgt[t], c)
        BY <1>3, <3>1 DEF RegeneratePendingMail
      <4>2. tgt[t] \in TargetRow /\ tgt[t].status # "sent"
        BY <1>0, <3>1
      <4> QED BY <4>1, <4>2, EditedRows
    <3>2. CASE tgt[t].status \notin {"pending_review", "approved"}
      BY <1>3, <3>2 DEF RegeneratePendingMail
    <3> QED BY <3>1, <3>2
  <2> QED BY <2>1, <2>2, EditKeeps
<1> QED BY <1>1, <1>2, <1>3 DEF FounderStep

\* Every step.
LEMMA NextKeeps ==
    ASSUME TypeOK, TypeOK', SendStands, HeldInv, [Next]_vars
    PROVE  Keeps
<1>1. CASE UNCHANGED vars
  BY <1>1, VerdictKeeps DEF vars, provider
<1>2. CASE FounderStep
  <2>1. CASE \E r \in Requests, order \in Batches : EnqueueSend(r, order)
    BY <2>1, EnqueueKeeps
  <2>2. CASE ~ \E r \in Requests, order \in Batches : EnqueueSend(r, order)
    BY <1>2, <2>2, FounderKeeps
  <2> QED BY <2>1, <2>2
<1>3. ASSUME NEW r \in Requests, NEW t \in Targets, NEW v \in {"valid", "invalid"},
             ProviderVerifies(r, t, v)
      PROVE  Keeps
  <2>1. /\ verdict[r][t] = "pending" /\ verdict' = [verdict EXCEPT ![r][t] = v]
        /\ UNCHANGED <<rows, campaigns, leads, mails, active, wk>>
    BY <1>3 DEF ProviderVerifies
  <2>2. \A q \in Requests, u \in Targets :
           verdict[q][u] = "pending" \/ verdict'[q][u] = verdict[q][u]
    BY <2>1 DEF TypeOK
  <2> QED BY <2>1, <2>2, VerdictKeeps
<1>4. CASE \E w \in Workers, r \in Requests : Claim(w, r)
  BY <1>4, ClaimKeeps
<1>5. CASE \E w \in Workers : WorkerStep(w) \/ PostThenCrash(w) \/ Crash(w)
  BY <1>5, WorkerSound, SoundKeeps, ClaimStepKeeps
<1>6. CASE \E r \in Requests : LeaseExpires(r)
  BY <1>6, ExpiryKeeps
<1> QED BY <1>1, <1>2, <1>3, <1>4, <1>5, <1>6 DEF Next

\* Nothing is queued, held or mailed in the initial state.
LEMMA InitKeeps == Init => HeldInv /\ MailInv
<1> SUFFICES ASSUME Init PROVE HeldInv /\ MailInv
  OBVIOUS
<1>1. /\ \A r \in Requests, t \in Targets :
            /\ item[r][t] = NoItem /\ leads[r][t] = 0 /\ verdict[r][t] = "pending"
      /\ \A r \in Requests : req[r] = NoRequest /\ confirmed[r] = {} /\ campaigns[r] = 0
      /\ \A t \in Targets : tgt[t] = Prepared
      /\ \A w \in Workers : wk[w] = Idle
      /\ active = {}
  BY DEF Init
<1>2. /\ NoItem.status = "none" /\ NoItem.version = 0 /\ NoItem.lead = Nil
      /\ ~NoRequest.live /\ NoRequest.camp = Nil
      /\ Prepared.version = 1 /\ Prepared.req = Nil
      /\ Idle.pc = "idle"
  BY DEF NoItem, NoRequest, Prepared, Idle
<1>3. HeldInv
  <2>1. NoStrandedItem /\ ReservationHeld /\ LiveRuns
    BY <1>1, <1>2 DEF NoStrandedItem, ReservationHeld, LiveRuns
  <2>2. ASSUME NEW w \in Workers PROVE OwnerHolds(w)
    BY <1>1, <1>2 DEF OwnerHolds, Owner
  <2>3. ASSUME NEW r \in Requests PROVE Queued(r)
    BY <1>1, <1>2 DEF Queued
  <2> QED BY <2>1, <2>2, <2>3 DEF HeldInv
<1>4. MailInv
  <2>1. ASSUME NEW r \in Requests PROVE RequestMail(r)
    BY <1>1, <1>2 DEF RequestMail
  <2>2. ASSUME NEW r \in Requests, NEW t \in Targets PROVE ItemMail(r, t)
    <3>1. r # Nil
      BY ConstantsAssumption
    <3> QED BY <1>1, <1>2, <3>1 DEF ItemMail, Belongs, Open
  <2>3. ASSUME NEW w \in Workers PROVE ClaimMail(w)
    BY <1>1, <1>2 DEF ClaimMail, Verifying
  <2> QED BY <2>1, <2>2, <2>3 DEF MailInv
<1> QED BY <1>3, <1>4

-----------------------------------------------------------------------------
(* The theorems                                                             *)

\* HeldInv is inductive.
LEMMA HeldAlways == Spec => [](TypeOK /\ SendStands /\ HeldInv)
<1>1. TypeOK /\ SendStands /\ HeldInv /\ [Next]_vars => TypeOK' /\ SendStands' /\ HeldInv'
  BY TypeNext, NextStands, NextKeeps DEF Keeps
<1> QED BY <1>1, TypeInit, InitStands, InitKeeps, PTL DEF Spec

\* Whatever crashes, leases that run out or edits cut a worker short, an item is
\* running only while its request is, and no two items of a request are.
THEOREM NoItemIsStranded == Spec => []NoStrandedItem
<1>1. HeldInv => NoStrandedItem
  BY DEF HeldInv
<1> QED BY <1>1, HeldAlways, PTL

\* Until a request settled its item, its target stays reserved for it and is not
\* sent by another: no edit, failure or retry gives the reservation away.
THEOREM ReservationsAreHeld == Spec => []ReservationHeld
<1>1. HeldInv => ReservationHeld
  BY DEF HeldInv
<1> QED BY <1>1, HeldAlways, PTL

\* No step of a founder, a worker, a lease or the provider takes an outcome back:
\* settled items, sent targets and ended requests stay as they are.
THEOREM OutcomesStay == Spec => OutcomesAreFinal
<1>1. TypeOK /\ TypeOK' /\ SendStands /\ HeldInv /\ [Next]_vars => [StaysFinal]_vars
  BY NextKeeps DEF Keeps
<1>2. [StaysFinal]_vars <=>
        [/\ \A r \in Requests, t \in Targets :
               item[r][t].status \in Terminal =>
                   item'[r][t].status = item[r][t].status
         /\ \A t \in Targets : tgt[t].status = "sent" => tgt'[t].status = "sent"
         /\ \A r \in Requests :
               req[r].status \in Ended => req'[r] = req[r]]_vars
  BY DEF StaysFinal
<1> QED BY <1>1, <1>2, HeldAlways, PTL DEF Spec, OutcomesAreFinal

\* If no two targets share a mailbox, MailInv is inductive.
LEMMA MailAlways ==
    ASSUME OwnMailboxes
    PROVE  Spec => [](TypeOK /\ SendStands /\ HeldInv /\ MailInv)
<1>1. /\ TypeOK /\ SendStands /\ HeldInv /\ MailInv /\ [Next]_vars
      => TypeOK' /\ SendStands' /\ HeldInv' /\ MailInv'
  BY TypeNext, NextStands, NextKeeps DEF Keeps
<1> QED BY <1>1, TypeInit, InitStands, InitKeeps, PTL DEF Spec

\* If no two targets share a mailbox, an accepted target is sent, its own lead was
\* found valid, and the lead carries the mail the console shows.
THEOREM SentMailStaysCurrent ==
    ASSUME OwnMailboxes
    PROVE  Spec => []SentMailIsCurrent
<1>1. TypeOK /\ MailInv /\ NoDuplicateAtProvider => SentMailIsCurrent
  <2> SUFFICES ASSUME TypeOK, MailInv, NoDuplicateAtProvider, NEW r \in Requests,
                      NEW t \in Targets, item[r][t].status = "sent"
               PROVE  /\ tgt[t].status = "sent"
                      /\ leads[r][t] = 1 /\ verdict[r][t] = "valid"
                      /\ mails[r][t] = tgt[t].mail
    BY DEF SentMailIsCurrent
  <2>1. ItemMail(r, t)
    BY DEF MailInv
  <2>2. leads[r][t] \in Nat /\ leads[r][t] <= 1
    BY DEF TypeOK, NoDuplicateAtProvider
  <2> QED BY <2>1, <2>2 DEF ItemMail
<1> QED BY <1>1, MailAlways, NoDuplicates, PTL

\* If no two targets share a mailbox, nothing is at the provider that the ledger
\* did not announce, and a target is charged only for an import that landed.
THEOREM LedgerCovers ==
    ASSUME OwnMailboxes
    PROVE  Spec => []LedgerCoversProvider
<1>1. TypeOK /\ SendStands /\ MailInv /\ NoDuplicateAtProvider => LedgerCoversProvider
  <2> SUFFICES ASSUME TypeOK, SendStands, MailInv, NoDuplicateAtProvider, NEW r \in Requests
               PROVE  /\ campaigns[r] <= ledger[r]["create"]
                      /\ r \in active => ledger[r]["activate"] > 0
                      /\ \A t \in Targets : leads[r][t] <= ledger[r][t]
                      /\ \A t \in confirmed[r] : leads[r][t] > 0
    BY DEF LedgerCoversProvider
  <2>1. RequestMail(r) /\ RequestStands(r) /\ ledger[r] \in [Operations -> Nat]
    BY DEF MailInv, SendStands, TypeOK
  <2>2. campaigns[r] <= ledger[r]["create"]
    <3>1. campaigns[r] \in Nat /\ ledger[r]["create"] \in Nat /\ campaigns[r] <= 1
      BY <2>1 DEF TypeOK, Operations, NoDuplicateAtProvider
    <3>2. campaigns[r] > 0 => ledger[r]["create"] > 0
      BY <2>1 DEF RequestMail
    <3> QED BY <3>1, <3>2
  <2>3. ASSUME NEW t \in Targets PROVE leads[r][t] <= ledger[r][t]
    <3>1. leads[r][t] \in Nat /\ ledger[r][t] \in Nat /\ leads[r][t] <= 1
      BY <2>1 DEF TypeOK, Operations, NoDuplicateAtProvider
    <3>2. leads[r][t] > 0 => ledger[r][t] > 0
      BY <2>1 DEF RequestStands
    <3> QED BY <3>1, <3>2
  <2>4. ASSUME NEW t \in confirmed[r] PROVE leads[r][t] > 0
    BY DEF TypeOK, MailInv, ItemMail
  <2> QED BY <2>1, <2>2, <2>3, <2>4 DEF RequestMail
<1> QED BY <1>1, MailAlways, NoDuplicates, PTL

\* If no two targets share a mailbox, no target has a valid lead in the sending
\* campaigns of two requests.
THEOREM NobodyIsMailedTwice ==
    ASSUME OwnMailboxes
    PROVE  Spec => []MailedOnce
<1>1. TypeOK /\ MailInv /\ ActiveOnlyResolved => MailedOnce
  <2> SUFFICES ASSUME TypeOK, MailInv, ActiveOnlyResolved, NEW t \in Targets
               PROVE  Cardinality({r \in active : leads[r][t] > 0 /\ verdict[r][t] = "valid"}) <= 1
    BY DEF MailedOnce
  <2> DEFINE S == {r \in active : leads[r][t] > 0 /\ verdict[r][t] = "valid"}
  <2>1. ASSUME NEW r \in S PROVE tgt[t].req = r
    <3>1. ItemMail(r, t) /\ r \in active
      BY DEF MailInv, TypeOK
    <3>2. item[r][t].status = "sent"
      BY <3>1 DEF ActiveOnlyResolved, ItemMail
    <3> QED BY <3>1, <3>2 DEF ItemMail
  <2> HIDE DEF S
  <2>2. S = {} \/ S = {tgt[t].req}
    BY <2>1
  <2>3. Cardinality(S) <= 1
    BY SMTT(60), <2>2, FS_EmptySet, FS_Singleton
  <2> QED BY <2>3 DEF S
<1> QED BY <1>1, MailAlways, NoCancelledMailGoesOut, PTL

-----------------------------------------------------------------------------
(* The daily cap: a batch never has more items than it reserved, an ended   *)
(* request counts its acceptances, and nothing but an enqueued batch makes  *)
(* the day use more.                                                        *)

\* The items of a request, and those that were accepted.
ItemsOf(its) == {t \in Targets : its[t].status # "none"}
SentOf(its) == {t \in Targets : its[t].status = "sent"}

\* What a request uses of the day.
Used == [r \in Requests |-> IF req[r].status \in Live THEN req[r].reserved ELSE req[r].sent]

\* The counters of a request cover its items.
Sized(r) ==
    /\ Cardinality(ItemsOf(item[r])) <= req[r].reserved
    /\ req[r].status \in Ended => req[r].sent = Cardinality(SentOf(item[r]))
    /\ req[r].status = "none" => req[r].sent = 0

CapInv ==
    /\ \A r \in Requests : Sized(r)
    /\ SumFunctionOnSet(Used, Requests) <= Cap

LEMMA TodayIsUsed == ReservedToday = SumFunctionOnSet(Used, Requests)
BY DEF ReservedToday, Used

\* The counters in what the row operators write.
LEMMA CapFields ==
    ASSUME NEW row \in RequestRow
    PROVE  /\ \A its, s : /\ Released(row, its, s).status = s
                          /\ Released(row, its, s).reserved = row.reserved
                          /\ Released(row, its, s).sent = Cardinality(SentOf(its))
           /\ \A w : Claimed(row, w).reserved = row.reserved
           /\ \A camp : Renewed(row, camp).reserved = row.reserved
           /\ \A b : Blocked(row, b).reserved = row.reserved
                     /\ Activated(row, b).reserved = row.reserved
           /\ Expired(row).reserved = row.reserved /\ Expired(row).sent = row.sent
<1>1. ASSUME NEW its, NEW s
      PROVE  /\ Released(row, its, s).status = s
             /\ Released(row, its, s).reserved = row.reserved
             /\ Released(row, its, s).sent = Cardinality(SentOf(its))
  BY DEF RequestRow, Released, SentOf
<1>2. \A w : Claimed(row, w).reserved = row.reserved
  BY DEF RequestRow, Claimed
<1>3. \A camp : Renewed(row, camp).reserved = row.reserved
  BY DEF RequestRow, Renewed
<1>4. \A b : Blocked(row, b).reserved = row.reserved /\ Activated(row, b).reserved = row.reserved
  BY DEF RequestRow, Blocked, Activated
<1>5. Expired(row).reserved = row.reserved /\ Expired(row).sent = row.sent
  BY DEF RequestRow, Expired
<1> QED BY <1>1, <1>2, <1>3, <1>4, <1>5

LEMMA NewCounters ==
    ASSUME NEW n PROVE NewRequest(n).reserved = n
BY DEF NewRequest, NoRequest

\* A step on a live request: it keeps its items and its reservation, and if it
\* ends, it counts its acceptances.
Moves(r, its, row) ==
    /\ req[r].status \in Live
    /\ item' = [item EXCEPT ![r] = its]
    /\ req' = [req EXCEPT ![r] = row]
    /\ row.reserved = req[r].reserved
    /\ \A t \in Targets : its[t].status = "none" <=> item[r][t].status = "none"
    /\ \/ row.status \in Live
       \/ row.status \in Ended /\ row.sent = Cardinality(SentOf(its))

\* What is to be shown of every step but the reservation of a batch.
Frugal ==
    \/ UNCHANGED <<req, item>>
    \/ \E r \in Requests : \E its, row : Moves(r, its, row)

\* Such a step does not use more of the day.
LEMMA FrugalKeepsCap ==
    ASSUME TypeOK, TypeOK', CapInv, Frugal
    PROVE  CapInv'
<1>1. CASE UNCHANGED <<req, item>>
  <2>1. ASSUME NEW r \in Requests PROVE Sized(r)'
    BY <1>1 DEF CapInv, Sized, ItemsOf, SentOf
  <2>2. Used' = Used
    BY <1>1 DEF Used
  <2> QED BY <2>1, <2>2 DEF CapInv
<1>2. ASSUME NEW r \in Requests, NEW its, NEW row, Moves(r, its, row)
      PROVE  CapInv'
  <2>0. /\ req \in [Requests -> RequestRow] /\ item \in [Requests -> [Targets -> ItemRow]]
        /\ req' \in [Requests -> RequestRow]
    BY DEF TypeOK
  <2>1. /\ item'[r] = its /\ req'[r] = row
        /\ \A q \in Requests \ {r} : item'[q] = item[q] /\ req'[q] = req[q]
    BY <1>2, <2>0 DEF Moves
  <2>2. ItemsOf(its) = ItemsOf(item[r])
    BY <1>2 DEF Moves, ItemsOf
  <2>3. /\ SentOf(its) \subseteq ItemsOf(its) /\ IsFiniteSet(ItemsOf(its))
        /\ Cardinality(SentOf(its)) <= Cardinality(ItemsOf(its))
        /\ Cardinality(SentOf(its)) \in Nat /\ Cardinality(ItemsOf(its)) \in Nat
    <3>1. SentOf(its) \subseteq ItemsOf(its) /\ ItemsOf(its) \subseteq Targets
      BY DEF SentOf, ItemsOf
    <3>2. IsFiniteSet(ItemsOf(its)) /\ IsFiniteSet(SentOf(its))
      BY <3>1, FS_Subset, ConstantsAssumption
    <3> QED BY <3>1, <3>2, FS_Subset, FS_CardinalityType
  <2>4. Sized(r)
    BY DEF CapInv
  <2>5. Sized(r)'
    <3>1. Cardinality(ItemsOf(its)) <= row.reserved
      BY <1>2, <2>2, <2>4 DEF Sized, Moves
    <3>2. row.status # "none"
      BY <1>2 DEF Moves, Live, Ended
    <3>3. row.status \in Ended => row.sent = Cardinality(SentOf(its))
      BY <1>2 DEF Moves, Live, Ended
    <3>4. ItemsOf(item[r])' = ItemsOf(its) /\ SentOf(item[r])' = SentOf(its)
      BY <2>1 DEF ItemsOf, SentOf
    <3> QED BY <2>1, <3>1, <3>2, <3>3, <3>4 DEF Sized
  <2>6. ASSUME NEW q \in Requests PROVE Sized(q)'
    <3>1. CASE q = r
      BY <2>5, <3>1
    <3>2. CASE q # r
      <4>1. Sized(q) /\ item'[q] = item[q] /\ req'[q] = req[q]
        BY <2>1, <3>2 DEF CapInv
      <4> QED BY <4>1 DEF Sized, ItemsOf, SentOf
    <3> QED BY <3>1, <3>2
  <2>7. ASSUME NEW q \in Requests
        PROVE  Used[q] \in Int /\ Used'[q] \in Int /\ Used'[q] <= Used[q]
    <3>1. /\ req[q].reserved \in Nat /\ req[q].sent \in Nat
          /\ req'[q].reserved \in Nat /\ req'[q].sent \in Nat
      BY <2>0 DEF RequestRow
    <3>2. CASE q = r
      <4>1. Used[q] = req[r].reserved
        BY <1>2, <3>2 DEF Used, Moves
      <4>2. \/ Used'[q] = row.reserved
            \/ Used'[q] = row.sent /\ row.sent = Cardinality(SentOf(its))
        BY <1>2, <2>1, <3>2 DEF Used, Moves
      <4>3. row.reserved = req[r].reserved /\ Cardinality(SentOf(its)) <= req[r].reserved
        BY <1>2, <2>2, <2>3, <2>4, <3>1, <3>2 DEF Moves, Sized
      <4>4. row.reserved \in Nat /\ row.sent \in Nat /\ req[r].reserved \in Nat
        BY <2>1, <3>1, <3>2
      <4>5. CASE Used'[q] = row.reserved
        BY <4>1, <4>3, <4>4, <4>5
      <4>6. CASE Used'[q] = row.sent /\ row.sent = Cardinality(SentOf(its))
        BY <4>1, <4>3, <4>4, <4>6
      <4> QED BY <4>2, <4>5, <4>6
    <3>3. CASE q # r
      <4>1. req'[q] = req[q]
        BY <2>1, <3>3
      <4> QED BY <3>1, <4>1 DEF Used
    <3> QED BY <3>2, <3>3
  <2>8. IsFiniteSet(Requests) /\ Cap \in Nat
    BY ConstantsAssumption
  <2>9. SumFunctionOnSet(Used', Requests) <= SumFunctionOnSet(Used, Requests)
    BY <2>7, <2>8, SumMonotonic
  <2>10. SumFunctionOnSet(Used', Requests) \in Int /\ SumFunctionOnSet(Used, Requests) \in Int
    BY <2>7, <2>8, SumType
  <2>11. SumFunctionOnSet(Used', Requests) <= Cap
    BY <2>8, <2>9, <2>10 DEF CapInv
  <2> QED BY <2>6, <2>11 DEF CapInv
<1> QED BY <1>1, <1>2 DEF Frugal

-----------------------------------------------------------------------------
(* The steps of the worker, of a claim and of a lease are frugal            *)

\* A guard renews the lease: the request runs on, and its item keeps its status.
LEMMA RenewMoves ==
    ASSUME TypeOK, NEW r \in Requests, req[r].status = "running", NEW t \in Targets,
           NEW camp, NEW it, it.status = item[r][t].status,
           item' = [item EXCEPT ![r] = [item[r] EXCEPT ![t] = it]],
           req' = [req EXCEPT ![r] = Renewed(req[r], camp)]
    PROVE  Frugal
<1> DEFINE its == [item[r] EXCEPT ![t] = it]
           row == Renewed(req[r], camp)
<1>1. req[r] \in RequestRow /\ item[r] \in [Targets -> ItemRow]
  BY DEF TypeOK
<1>2. row.status = "running" /\ row.reserved = req[r].reserved
  BY <1>1, RequestFields, CapFields
<1>3. \A u \in Targets : its[u].status = "none" <=> item[r][u].status = "none"
  BY <1>1
<1> HIDE DEF its, row
<1>4. Moves(r, its, row)
  BY <1>2, <1>3 DEF Moves, Live, its, row
<1> QED BY <1>4 DEF Frugal

\* A request is given back with fresh counters.
LEMMA ReleaseMoves ==
    ASSUME TypeOK, NEW r \in Requests, req[r].status = "running", NEW t \in Targets,
           item[r][t].status # "none", NEW it, it.status # "none",
           NEW old \in RequestRow, old.reserved = req[r].reserved,
           NEW status \in {"waiting"} \cup Ended,
           item' = [item EXCEPT ![r] = [item[r] EXCEPT ![t] = it]],
           req' = [req EXCEPT ![r] = Released(old, [item[r] EXCEPT ![t] = it], status)]
    PROVE  Frugal
<1> DEFINE its == [item[r] EXCEPT ![t] = it]
           row == Released(old, its, status)
<1>1. item[r] \in [Targets -> ItemRow]
  BY DEF TypeOK
<1>2. \A u \in Targets : its[u].status = "none" <=> item[r][u].status = "none"
  BY <1>1
<1> HIDE DEF its
<1>3. /\ row.status = status /\ row.reserved = req[r].reserved
      /\ row.sent = Cardinality(SentOf(its))
  BY CapFields
<1> HIDE DEF row
<1>4. Moves(r, its, row)
  BY <1>2, <1>3 DEF Moves, Live, its, row
<1> QED BY <1>4 DEF Frugal

\* The item a worker holds.
LEMMA HeldItem ==
    ASSUME TypeOK, NEW w \in Workers, wk[w].pc # "idle", Guarded(w),
           NEW r, r = wk[w].req, NEW t, t = wk[w].tgt
    PROVE  /\ r \in Requests /\ t \in Targets
           /\ req[r].status = "running" /\ item[r][t].status # "none"
           /\ req[r] \in RequestRow /\ item[r] \in [Targets -> ItemRow]
           /\ item[r][t] \in ItemRow
           /\ item = [item EXCEPT ![r] = [item[r] EXCEPT ![t] = item[r][t]]]
<1>1. Holds(w, r, t)
  BY GuardHolds
<1>2. /\ r \in Requests /\ t \in Targets
      /\ req[r].status = "running" /\ item[r][t].status # "none"
  BY <1>1 DEF Holds, Terminal
<1>3. /\ req[r] \in RequestRow /\ item[r] \in [Targets -> ItemRow]
      /\ item[r][t] \in ItemRow
  BY <1>2 DEF TypeOK
<1>4. [item[r] EXCEPT ![t] = item[r][t]] = item[r]
  BY <1>2, <1>3
<1>5. item \in [Requests -> [Targets -> ItemRow]]
  BY DEF TypeOK
<1>6. [item EXCEPT ![r] = item[r]] = item
  BY <1>2, <1>5
<1> QED BY <1>2, <1>3, <1>4, <1>6

\* _counts ends a request or leaves it open.
LEMMA FinalIsEnded ==
    ASSUME NEW its, FinalStatus(its) # Nil PROVE FinalStatus(its) \in Ended
BY FinalStatusType

\* The item goes back to the queue, or keeps its outcome.
LEMMA WaitFrugal ==
    ASSUME TypeOK, NEW w \in Workers, wk[w].pc # "idle", Guarded(w),
           NEW status \in {"queued", "verification_pending"}, Wait(w, status)
    PROVE  Frugal
<1> DEFINE r == wk[w].req
           t == wk[w].tgt
           s == IF item[r][t].status \in Terminal THEN item[r][t].status ELSE status
           lead == IF status = "verification_pending" THEN wk[w].lead ELSE item[r][t].lead
           it == Settled(item[r][t], s, lead, item[r][t].cause)
<1>1. /\ r \in Requests /\ t \in Targets /\ req[r].status = "running"
      /\ item[r][t].status # "none" /\ req[r] \in RequestRow /\ item[r][t] \in ItemRow
      /\ item[r] \in [Targets -> ItemRow]
  BY HeldItem
<1>2. /\ item' = [item EXCEPT ![r] = [item[r] EXCEPT ![t] = it]]
      /\ req' = [req EXCEPT ![r] = Released(req[r], [item[r] EXCEPT ![t] = it], "waiting")]
  BY <1>1 DEF Wait, TypeOK
<1>3. it.status # "none"
  BY <1>1, ItemFields
<1> HIDE DEF it, r, t
<1> QED BY <1>1, <1>2, <1>3, ReleaseMoves

\* A target that does not stand settles its item.
LEMMA CheckEndsFrugal ==
    ASSUME TypeOK, NEW w \in Workers, CheckEndsClaim(w)
    PROVE  Frugal
<1> DEFINE r == wk[w].req
           t == wk[w].tgt
<1>0. wk[w].pc # "idle" /\ Guarded(w)
  BY DEF CheckEndsClaim, GuardPoints
<1>1. /\ r \in Requests /\ t \in Targets /\ req[r].status = "running"
      /\ item[r][t].status # "none" /\ req[r] \in RequestRow /\ item[r][t] \in ItemRow
      /\ item[r] \in [Targets -> ItemRow]
  BY <1>0, HeldItem
<1>2. CASE RejectChangedTarget(w)
  <2> DEFINE it == Settled(item[r][t], "failed", item[r][t].lead, "changed")
             its == [item[r] EXCEPT ![t] = it]
             held == req[r].blocked \/ Exposed(r, t)
             due == /\ \E u \in Targets : its[u].status = "sent"
                    /\ req[r].camp # Nil /\ ~req[r].activated
             status == IF FinalStatus(its) = Nil \/ held \/ due
                       THEN "waiting" ELSE FinalStatus(its)
             old == Blocked(req[r], held)
  <2>1. /\ item' = [item EXCEPT ![r] = its]
        /\ req' = [req EXCEPT ![r] = Released(old, its, status)]
    BY <1>1, <1>2 DEF RejectChangedTarget, TypeOK
  <2>2. it.status # "none"
    BY <1>1, ItemFields
  <2>3. status \in {"waiting"} \cup Ended
    BY FinalIsEnded
  <2>4. held \in BOOLEAN
    OBVIOUS
  <2> HIDE DEF held
  <2>5. old \in RequestRow /\ old.reserved = req[r].reserved
    BY <1>1, <2>4, RequestRowType, CapFields
  <2> HIDE DEF it, old, status, r, t
  <2> QED BY <1>1, <2>1, <2>2, <2>3, <2>5, ReleaseMoves
<1>3. CASE FinishAlreadySent(w)
  <2> DEFINE lead == IF tgt[t].lead # Nil THEN tgt[t].lead ELSE item[r][t].lead
             it == Settled(item[r][t], "sent", lead, "none")
             its == [item[r] EXCEPT ![t] = it]
             status == IF FinalStatus(its) = Nil \/ (req[r].camp # Nil /\ ~req[r].activated)
                       THEN "waiting" ELSE FinalStatus(its)
  <2>1. /\ item' = [item EXCEPT ![r] = its]
        /\ req' = [req EXCEPT ![r] = Released(req[r], its, status)]
    BY <1>1, <1>3 DEF FinishAlreadySent, TypeOK
  <2>2. it.status # "none"
    BY <1>1, ItemFields
  <2>3. status \in {"waiting"} \cup Ended
    BY FinalIsEnded
  <2> HIDE DEF it, status, r, t
  <2> QED BY <1>1, <2>1, <2>2, <2>3, ReleaseMoves
<1> QED BY <1>2, <1>3 DEF CheckEndsClaim

\* A verdict settles the item.
LEMMA OutcomeFrugal ==
    ASSUME TypeOK, NEW w \in Workers, Accepted(w) \/ Failed(w)
    PROVE  Frugal
<1> DEFINE r == wk[w].req
           t == wk[w].tgt
           good == Settled(item[r][t], "sent", wk[w].lead, "none")
           bad == Settled(item[r][t], "failed", wk[w].lead, "invalid")
<1>0. wk[w].pc # "idle" /\ Guarded(w)
  BY DEF Accepted, Failed, At
<1>1. /\ r \in Requests /\ t \in Targets /\ req[r].status = "running"
      /\ item[r][t].status # "none" /\ req[r] \in RequestRow /\ item[r][t] \in ItemRow
      /\ item[r] \in [Targets -> ItemRow]
  BY <1>0, HeldItem
<1>2. PICK it \in {good, bad} : Settle(w, [item[r] EXCEPT ![t] = it])
  BY DEF Accepted, Failed
<1>3. it.status # "none"
  BY <1>1, <1>2, ItemFields
<1> DEFINE its == [item[r] EXCEPT ![t] = it]
<1>4. item' = [item EXCEPT ![r] = its]
  BY <1>2 DEF Settle
<1>5. CASE req' = [req EXCEPT ![r] = Released(req[r], its, "waiting")]
  <2> HIDE DEF r, t
  <2> QED BY <1>1, <1>3, <1>4, <1>5, ReleaseMoves
<1>6. CASE req' = [req EXCEPT ![r] = Renewed(req[r], req[r].camp)]
  <2>1. Renewed(req[r], req[r].camp).status = "running"
        /\ Renewed(req[r], req[r].camp).reserved = req[r].reserved
    BY <1>1, RequestFields, CapFields
  <2>2. \A u \in Targets : its[u].status = "none" <=> item[r][u].status = "none"
    BY <1>1, <1>3
  <2> HIDE DEF its
  <2>3. Moves(r, its, Renewed(req[r], req[r].camp))
    BY <1>1, <1>4, <1>6, <2>1, <2>2 DEF Moves, Live
  <2> QED BY <1>1, <2>3 DEF Frugal
<1> QED BY <1>1, <1>2, <1>5, <1>6 DEF Settle, RenewedLease, TypeOK

\* The request ends with the outcome of its items.
LEMMA EndFrugal ==
    ASSUME TypeOK, NEW w \in Workers, Activate(w) \/ FinalizeWithoutPost(w)
    PROVE  Frugal
<1> DEFINE r == wk[w].req
           t == wk[w].tgt
<1>0. wk[w].pc # "idle" /\ Guarded(w)
  BY DEF Activate, FinalizeWithoutPost, MayPost, Absent, At
<1>1. /\ r \in Requests /\ t \in Targets /\ req[r].status = "running"
      /\ item[r][t].status # "none" /\ req[r] \in RequestRow /\ item[r][t] \in ItemRow
      /\ item[r] \in [Targets -> ItemRow]
      /\ item = [item EXCEPT ![r] = [item[r] EXCEPT ![t] = item[r][t]]]
  BY <1>0, HeldItem
<1>2. PICK b \in BOOLEAN : EndRequest(w, b)
  BY <1>1, RequestRowType DEF Activate, FinalizeWithoutPost
<1>3. FinalStatus(item[r]) # Nil
  BY <1>1, ConstantsAssumption DEF Activate, FinalizeWithoutPost, MayPost, Absent, At, MayActivate
<1>4. FinalStatus(item[r]) \in Ended
  BY <1>3, FinalIsEnded
<1> DEFINE old == Activated(req[r], b)
<1>5. /\ req' = [req EXCEPT ![r] = Released(old, item[r], FinalStatus(item[r]))]
      /\ item' = item
  BY <1>1, <1>2 DEF EndRequest, TypeOK
<1>6. old \in RequestRow /\ old.reserved = req[r].reserved
  BY <1>1, RequestRowType, CapFields
<1> DEFINE row == Released(old, item[r], FinalStatus(item[r]))
<1> HIDE DEF old
<1>7. /\ row.status \in Ended /\ row.reserved = req[r].reserved
      /\ row.sent = Cardinality(SentOf(item[r]))
  BY <1>4, <1>6, CapFields
<1> HIDE DEF row
<1>8. item' = [item EXCEPT ![r] = item[r]]
  BY <1>1, <1>5 DEF TypeOK
<1>9. Moves(r, item[r], row)
  BY <1>1, <1>5, <1>7, <1>8 DEF Moves, Live, row
<1> QED BY <1>1, <1>9 DEF Frugal

\* Every step of a worker.
LEMMA WorkerFrugal ==
    ASSUME TypeOK, NEW w \in Workers, WorkerStep(w) \/ PostThenCrash(w) \/ Crash(w)
    PROVE  Frugal
<1> DEFINE r == wk[w].req
           t == wk[w].tgt
<1>1. CASE \/ KillSwitchHolds(w) \/ VerificationPending(w) \/ VerificationErrored(w)
           \/ ActivationHeld(w) \/ ReconciliationRequired(w) \/ PostFails(w)
  <2>1. wk[w].pc # "idle" /\ Guarded(w)
    BY <1>1 DEF KillSwitchHolds, VerificationPending, VerificationErrored,
                ActivationHeld, ReconciliationRequired, PostFails, MayPost, Absent, At
  <2>2. \E status \in {"queued", "verification_pending"} : Wait(w, status)
    BY <1>1 DEF KillSwitchHolds, VerificationPending, VerificationErrored,
                ActivationHeld, ReconciliationRequired, PostFails
  <2> QED BY <2>1, <2>2, WaitFrugal
<1>2. CASE \/ PostThenCrash(w) \/ Crash(w) \/ Lost(w) \/ NeedsDeclaration(w)
           \/ GetVerification(w)
  BY <1>2 DEF PostThenCrash, Crash, Lost, NeedsDeclaration, GetVerification, rows, Frugal
<1>3. CASE CheckEndsClaim(w)
  BY <1>3, CheckEndsFrugal
<1>4. CASE \/ Process(w) \/ DeclareOperation(w) \/ Verify(w) \/ CreateCampaign(w)
           \/ FindCampaign(w) \/ ImportLead(w) \/ FindLead(w)
  <2>0. wk[w].pc # "idle" /\ Guarded(w)
    BY <1>4 DEF Process, DeclareOperation, Verify, CreateCampaign, FindCampaign,
                ImportLead, FindLead, MayPost, Absent, At
  <2>1. /\ r \in Requests /\ t \in Targets /\ req[r].status = "running"
        /\ item[r][t].status # "none" /\ req[r] \in RequestRow /\ item[r][t] \in ItemRow
        /\ item[r] \in [Targets -> ItemRow]
        /\ item = [item EXCEPT ![r] = [item[r] EXCEPT ![t] = item[r][t]]]
    BY <2>0, HeldItem
  <2>2. CASE Process(w)
    <3> DEFINE open == item[r][t].status \notin Terminal
               camp == IF req[r].camp # Nil THEN req[r].camp ELSE tgt[t].camp
               lead == IF item[r][t].lead # Nil THEN item[r][t].lead ELSE tgt[t].lead
               it == Settled(item[r][t], item[r][t].status,
                             IF open THEN lead ELSE item[r][t].lead, item[r][t].cause)
               c == IF open THEN camp ELSE req[r].camp
    <3>1. /\ item' = [item EXCEPT ![r] = [item[r] EXCEPT ![t] = it]]
          /\ req' = [req EXCEPT ![r] = Renewed(req[r], c)]
      BY <2>1, <2>2 DEF Process, TypeOK
    <3>2. it.status = item[r][t].status
      BY <2>1, ItemFields
    <3> HIDE DEF it, c, r, t
    <3> QED BY <2>1, <3>1, <3>2, RenewMoves
  <2>3. CASE DeclareOperation(w) \/ Verify(w)
    <3>1. item' = item /\ req' = [req EXCEPT ![r] = Renewed(req[r], req[r].camp)]
      BY <2>1, <2>3 DEF DeclareOperation, Verify, RenewedLease, TypeOK
    <3> HIDE DEF r, t
    <3> QED BY <2>1, <3>1, RenewMoves
  <2>4. CASE CreateCampaign(w) \/ FindCampaign(w)
    <3>1. item' = item /\ req' = [req EXCEPT ![r] = Renewed(req[r], r)]
      BY <2>1, <2>4 DEF CreateCampaign, FindCampaign, PersistCampaign, TypeOK
    <3> HIDE DEF r, t
    <3> QED BY <2>1, <3>1, RenewMoves
  <2>5. CASE ImportLead(w) \/ FindLead(w)
    <3>1. PICK lead : PersistLead(w, lead)
      BY <2>5 DEF ImportLead, FindLead
    <3> DEFINE it == Settled(item[r][t], item[r][t].status, lead, item[r][t].cause)
    <3>2. /\ item' = [item EXCEPT ![r] = [item[r] EXCEPT ![t] = it]]
          /\ req' = [req EXCEPT ![r] = Renewed(req[r], req[r].camp)]
      BY <2>1, <3>1 DEF PersistLead, RenewedLease, TypeOK
    <3>3. it.status = item[r][t].status
      BY <2>1, ItemFields
    <3> HIDE DEF it, r, t
    <3> QED BY <2>1, <3>2, <3>3, RenewMoves
  <2> QED BY ZenonT(60), <1>4, <2>2, <2>3, <2>4, <2>5
<1>5. CASE Accepted(w) \/ Failed(w)
  BY <1>5, OutcomeFrugal
<1>6. CASE Activate(w) \/ FinalizeWithoutPost(w)
  BY <1>6, EndFrugal
<1> QED BY <1>1, <1>2, <1>3, <1>4, <1>5, <1>6 DEF WorkerStep

\* A claim runs a due item.
LEMMA ClaimFrugal ==
    ASSUME TypeOK, NEW w \in Workers, NEW r \in Requests, Claim(w, r)
    PROVE  Frugal
<1>1. PICK t \in Targets :
        /\ FirstDue(r, t)
        /\ req' = [req EXCEPT ![r] = Claimed(@, w)]
        /\ item' = [item EXCEPT ![r][t] =
              IF @.status \in Terminal THEN @
              ELSE Settled(@, "running", @.lead, @.cause)]
  BY DEF Claim
<1>2. /\ req[r] \in RequestRow /\ item[r] \in [Targets -> ItemRow] /\ item[r][t] \in ItemRow
      /\ req \in [Requests -> RequestRow] /\ item \in [Requests -> [Targets -> ItemRow]]
  BY DEF TypeOK
<1> DEFINE it == IF item[r][t].status \in Terminal THEN item[r][t]
                 ELSE Settled(item[r][t], "running", item[r][t].lead, item[r][t].cause)
           its == [item[r] EXCEPT ![t] = it]
           row == Claimed(req[r], w)
<1>3. item' = [item EXCEPT ![r] = its] /\ req' = [req EXCEPT ![r] = row]
  BY <1>1, <1>2
<1>4. item[r][t].status # "none"
  BY <1>1 DEF FirstDue, Due, Terminal
<1>5. it.status # "none"
  BY <1>2, <1>4, ItemFields
<1>6. row.status = "running" /\ row.reserved = req[r].reserved
  BY <1>2, RequestFields, CapFields
<1> HIDE DEF it, row
<1>7. \A u \in Targets : its[u].status = "none" <=> item[r][u].status = "none"
  BY <1>2, <1>4, <1>5
<1>8. req[r].status \in Live
  BY DEF Claim, Reclaimable, Live
<1> HIDE DEF its
<1>9. Moves(r, its, row)
  BY <1>3, <1>6, <1>7, <1>8 DEF Moves, Live
<1> QED BY <1>9 DEF Frugal

\* Only a running request has a lease to lose.
LEMMA ExpiryFrugal ==
    ASSUME TypeOK, HeldInv, NEW r \in Requests, LeaseExpires(r)
    PROVE  Frugal
<1>1. /\ req[r] \in RequestRow /\ req \in [Requests -> RequestRow]
      /\ item \in [Requests -> [Targets -> ItemRow]]
  BY DEF TypeOK
<1> DEFINE row == Expired(req[r])
<1>2. req[r].status = "running"
  BY DEF HeldInv, LiveRuns, LeaseExpires
<1>3. row.status = "running" /\ row.reserved = req[r].reserved
  BY <1>1, <1>2, RequestFields, CapFields
<1>4. req' = [req EXCEPT ![r] = row] /\ item' = [item EXCEPT ![r] = item[r]]
  BY <1>1 DEF LeaseExpires
<1> HIDE DEF row
<1>5. Moves(r, item[r], row)
  BY <1>2, <1>3, <1>4 DEF Moves, Live
<1> QED BY <1>5 DEF Frugal

-----------------------------------------------------------------------------
(* The reservation of a batch, and the theorem                              *)

\* A batch is reserved only if the cap has room for all of it.
LEMMA EnqueueKeepsCap ==
    ASSUME TypeOK, TypeOK', SendStands, CapInv,
           NEW r \in Requests, NEW order \in Batches, EnqueueSend(r, order)
    PROVE  CapInv'
<1> DEFINE batch == {order[i] : i \in DOMAIN order}
           n == Len(order)
<1>0. /\ req \in [Requests -> RequestRow] /\ item \in [Requests -> [Targets -> ItemRow]]
      /\ req' \in [Requests -> RequestRow]
  BY DEF TypeOK
<1>1. PICK m \in 1..Cardinality(Targets) : order \in [1..m -> Targets]
  BY DEF Batches
<1>2. m \in Nat /\ n = m /\ DOMAIN order = 1..m
  <2>1. Cardinality(Targets) \in Nat
    BY ConstantsAssumption, FS_CardinalityType
  <2> QED BY <1>1, <2>1
<1>3. /\ req[r].status = "none" /\ ReservedToday + n <= Cap
      /\ req' = [req EXCEPT ![r] = NewRequest(n)]
      /\ item' = [item EXCEPT ![r] = [t \in Targets |->
            IF t \in batch THEN NewItem(tgt[t].version) ELSE NoItem]]
  BY DEF EnqueueSend
<1>4. /\ req'[r] = NewRequest(n)
      /\ \A q \in Requests \ {r} : item'[q] = item[q] /\ req'[q] = req[q]
      /\ \A t \in Targets : item'[r][t] = IF t \in batch THEN NewItem(tgt[t].version) ELSE NoItem
  BY <1>0, <1>3
<1>5. req'[r].status = "queued" /\ req'[r].reserved = n
  BY <1>4, NewFields, NewCounters
<1>6. ItemsOf(item[r])' \subseteq batch
  BY <1>4, NewFields DEF ItemsOf
<1>7. IsFiniteSet(batch) /\ Cardinality(batch) <= n /\ Cardinality(batch) \in Nat
  <2>1. IsFiniteSet(1..m) /\ Cardinality(1..m) = m
    BY <1>2, FS_Interval
  <2> DEFINE img == {order[i] : i \in 1..m}
  <2>2. IsFiniteSet(img) /\ Cardinality(img) <= Cardinality(1..m)
    <3>1. order \in [1..m -> img]
      BY <1>1
    <3>2. order \in Surjection(1..m, img)
      BY <3>1 DEF Surjection
    <3> HIDE DEF img
    <3> QED BY <2>1, <3>2, FS_Surjection
  <2>3. batch = img
    BY <1>2
  <2> HIDE DEF batch, img, n
  <2> QED BY <1>2, <2>1, <2>2, <2>3, FS_CardinalityType
<1>8. Sized(r)'
  <2>1. Cardinality(ItemsOf(item[r])') <= n
    <3> HIDE DEF batch, n
    <3>1. /\ Cardinality(ItemsOf(item[r])') <= Cardinality(batch)
          /\ Cardinality(ItemsOf(item[r])') \in Nat
      BY <1>6, <1>7, FS_Subset, FS_CardinalityType
    <3>2. n \in Nat
      BY <1>2
    <3> QED BY <1>7, <3>1, <3>2
  <2> QED BY <1>5, <2>1 DEF Sized, Ended
<1>9. ASSUME NEW q \in Requests PROVE Sized(q)'
  <2>1. CASE q = r
    BY <1>8, <2>1
  <2>2. CASE q # r
    <3>1. Sized(q) /\ item'[q] = item[q] /\ req'[q] = req[q]
      BY <1>4, <2>2 DEF CapInv
    <3> QED BY <3>1 DEF Sized, ItemsOf, SentOf
  <2> QED BY <2>1, <2>2
<1>10. /\ \A q \in Requests : Used[q] \in Int /\ Used'[q] \in Int
       /\ \A q \in Requests \ {r} : Used[q] = Used'[q]
       /\ Used'[r] = n /\ Used[r] = 0
  <2>1. ASSUME NEW q \in Requests PROVE Used[q] \in Int /\ Used'[q] \in Int
    <3>1. /\ req[q].reserved \in Nat /\ req[q].sent \in Nat
          /\ req'[q].reserved \in Nat /\ req'[q].sent \in Nat
      BY <1>0 DEF RequestRow
    <3> QED BY <3>1 DEF Used
  <2>2. ASSUME NEW q \in Requests \ {r} PROVE Used[q] = Used'[q]
    BY <1>4 DEF Used
  <2>3. Used'[r] = n
    BY <1>5 DEF Used, Live
  <2>4. Sized(r)
    BY DEF CapInv
  <2>5. Used[r] = 0
    BY <1>3, <2>4 DEF Used, Live, Sized
  <2> QED BY <2>1, <2>2, <2>3, <2>5
<1>11. IsFiniteSet(Requests) /\ Cap \in Nat
  BY ConstantsAssumption
<1> HIDE DEF n, batch
<1>12. SumFunctionOnSet(Used', Requests) = SumFunctionOnSet(Used, Requests) + (Used'[r] - Used[r])
  BY <1>10, <1>11, SumUpdate
<1>13. SumFunctionOnSet(Used, Requests) \in Int /\ n \in Nat
  BY <1>2, <1>10, <1>11, SumType
<1>14. SumFunctionOnSet(Used', Requests) <= Cap
  BY <1>3, <1>10, <1>11, <1>12, <1>13, TodayIsUsed
<1> QED BY <1>9, <1>14 DEF CapInv

\* Nothing is reserved in the initial state.
LEMMA InitCap == Init => CapInv
<1> SUFFICES ASSUME Init PROVE CapInv
  OBVIOUS
<1>1. /\ \A r \in Requests : req[r] = NoRequest
      /\ \A r \in Requests, t \in Targets : item[r][t] = NoItem
  BY DEF Init
<1>2. /\ NoRequest.status = "none" /\ NoRequest.reserved = 0 /\ NoRequest.sent = 0
      /\ NoItem.status = "none"
  BY DEF NoRequest, NoItem
<1>3. ASSUME NEW r \in Requests PROVE Sized(r)
  <2>1. ItemsOf(item[r]) = {}
    BY <1>1, <1>2 DEF ItemsOf
  <2>2. Cardinality({}) = 0
    BY FS_EmptySet
  <2>3. Cardinality(ItemsOf(item[r])) = 0
    BY <2>1, <2>2
  <2> QED BY <1>1, <1>2, <2>3 DEF Sized, Ended
<1>4. \A r \in Requests : Used[r] = 0
  BY <1>1, <1>2 DEF Used, Live
<1>5. SumFunctionOnSet(Used, Requests) <= Cap
  <2> DEFINE zero == [r \in Requests |-> 0]
             F == {T \in SUBSET Requests : SumFunctionOnSet(zero, T) = 0}
  <2>0. IsFiniteSet(Requests) /\ Cap \in Nat
    BY ConstantsAssumption
  <2>1. {} \in F
    BY SumEmpty
  <2>2. ASSUME NEW T \in SUBSET Requests, T # {}
        PROVE  \E x \in T : T \ {x} \in F => T \in F
    <3>1. PICK x \in T : TRUE
      BY <2>2
    <3>2. IsFiniteSet(T) /\ \A y \in T : zero[y] \in Int
      BY <2>0, FS_Subset
    <3>3. zero[x] = 0
      OBVIOUS
    <3> HIDE DEF zero
    <3>4. SumFunctionOnSet(zero, T) = zero[x] + SumFunctionOnSet(zero, T \ {x})
      BY <3>2, SumRemove
    <3> QED BY <3>3, <3>4
  <2>3. Requests \in F
    <3> HIDE DEF F
    <3> QED BY SMTT(60), <2>0, <2>1, <2>2, FiniteInductive
  <2>4. \A r \in Requests : Used[r] = zero[r]
    BY <1>4
  <2>5. SumFunctionOnSet(zero, Requests) = 0
    BY <2>3
  <2> HIDE DEF zero
  <2>6. SumFunctionOnSet(Used, Requests) = SumFunctionOnSet(zero, Requests)
    BY <2>0, <2>4, SumCongruent
  <2> QED BY <2>0, <2>5, <2>6
<1> QED BY <1>3, <1>5 DEF CapInv

\* Every step keeps the cap.
LEMMA NextKeepsCap ==
    ASSUME TypeOK, TypeOK', SendStands, HeldInv, CapInv, [Next]_vars
    PROVE  CapInv'
<1>1. CASE \E r \in Requests, order \in Batches : EnqueueSend(r, order)
  BY <1>1, EnqueueKeepsCap
<1>2. CASE \/ UNCHANGED vars
           \/ FounderStep /\ ~ \E r \in Requests, order \in Batches : EnqueueSend(r, order)
           \/ \E r \in Requests, t \in Targets, v \in {"valid", "invalid"} :
                 ProviderVerifies(r, t, v)
  <2>1. UNCHANGED <<req, item>>
    BY <1>2 DEF vars, rows, FounderStep, Approve, Reject, Correct, RegeneratePendingMail,
                ToggleKillSwitch, ProviderVerifies
  <2> QED BY <2>1, FrugalKeepsCap DEF Frugal
<1>3. CASE \E w \in Workers, r \in Requests : Claim(w, r)
  BY <1>3, ClaimFrugal, FrugalKeepsCap
<1>4. CASE \E w \in Workers : WorkerStep(w) \/ PostThenCrash(w) \/ Crash(w)
  BY <1>4, WorkerFrugal, FrugalKeepsCap
<1>5. CASE \E r \in Requests : LeaseExpires(r)
  BY <1>5, ExpiryFrugal, FrugalKeepsCap
<1> QED BY <1>1, <1>2, <1>3, <1>4, <1>5 DEF Next

\* The accepted items of all requests, counted request by request, are covered
\* by what the day has used.
LEMMA CapCovers ==
    ASSUME TypeOK, SendStands, CapInv
    PROVE  CapKept
<1> DEFINE P == {p \in Requests \X Targets : item[p[1]][p[2]].status = "sent"}
           g == [r \in Requests |-> SentOf(item[r])]
           f == [r \in Requests |-> Cardinality(SentOf(item[r]))]
<1>0. IsFiniteSet(Requests) /\ IsFiniteSet(Targets) /\ Cap \in Nat
  BY ConstantsAssumption
<1>1. /\ P \in SUBSET (Requests \X Targets)
      /\ \A r \in Requests : g[r] \in SUBSET Targets
      /\ \A r \in Requests : \A t \in Targets : t \in g[r] <=> <<r, t>> \in P
      /\ \A r \in Requests : f[r] = Cardinality(g[r])
  BY DEF SentOf
<1>2. ASSUME NEW r \in Requests
      PROVE  f[r] \in Int /\ Used[r] \in Int /\ f[r] <= Used[r]
  <2>0. req[r].reserved \in Nat /\ req[r].sent \in Nat /\ req[r] \in RequestRow
    BY DEF TypeOK, RequestRow
  <2>1. Sized(r) /\ RequestStands(r)
    BY DEF CapInv, SendStands
  <2>2. /\ Cardinality(SentOf(item[r])) <= Cardinality(ItemsOf(item[r]))
        /\ Cardinality(SentOf(item[r])) \in Nat /\ Cardinality(ItemsOf(item[r])) \in Nat
    <3>1. SentOf(item[r]) \subseteq ItemsOf(item[r]) /\ ItemsOf(item[r]) \subseteq Targets
      BY DEF SentOf, ItemsOf
    <3>2. IsFiniteSet(ItemsOf(item[r])) /\ IsFiniteSet(SentOf(item[r]))
      BY <1>0, <3>1, FS_Subset
    <3> QED BY <3>1, <3>2, FS_Subset, FS_CardinalityType
  <2>3. CASE req[r].status \in Live
    BY <2>0, <2>1, <2>2, <2>3 DEF Sized, Used
  <2>4. CASE req[r].status \in Ended
    BY <2>0, <2>1, <2>2, <2>4 DEF Sized, Used, Live, Ended
  <2>5. CASE req[r].status = "none"
    <3>1. SentOf(item[r]) = {}
      BY <2>1, <2>5 DEF RequestStands, SentOf
    <3>2. Cardinality(SentOf(item[r])) = Cardinality({}) /\ Cardinality({}) = 0
      BY <3>1, FS_EmptySet
    <3> QED BY <2>0, <2>1, <2>5, <3>2 DEF Sized, Used, Live
  <2> QED BY <2>0, <2>3, <2>4, <2>5 DEF RequestRow
<1> HIDE DEF P, f, g
<1>4. Cardinality(P) = SumFunctionOnSet(f, Requests)
  BY <1>0, <1>1, SumCounts
<1>5. SumFunctionOnSet(f, Requests) <= SumFunctionOnSet(Used, Requests)
  BY <1>0, <1>2, SumMonotonic
<1>6. SumFunctionOnSet(f, Requests) \in Int /\ SumFunctionOnSet(Used, Requests) \in Int
  BY <1>0, <1>2, SumType
<1>7. Cardinality(P) <= Cap
  BY <1>0, <1>4, <1>5, <1>6 DEF CapInv
<1> QED BY <1>7 DEF P, CapKept

\* However batches overlap, fail and free their places, no more mails are
\* accepted in a day than the cap allows, for any number of requests.
THEOREM CapIsKept == Spec => []CapKept
<1>1. /\ TypeOK /\ SendStands /\ HeldInv /\ CapInv /\ [Next]_vars
      => TypeOK' /\ SendStands' /\ HeldInv' /\ CapInv'
  BY TypeNext, NextStands, NextKeeps, NextKeepsCap DEF Keeps
<1>2. TypeOK /\ SendStands /\ CapInv => CapKept
  BY CapCovers
<1> QED BY <1>1, <1>2, TypeInit, InitStands, InitKeeps, InitCap, PTL DEF Spec
=============================================================================
