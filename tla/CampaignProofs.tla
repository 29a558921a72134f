--------------------------- MODULE CampaignProofs ---------------------------
(***************************************************************************)
(* The rows of a campaign agree with Instantly, for any number of members, *)
(* operations and faults: a creation is never repeated blindly, a stop     *)
(* holds at the provider, and a confirmation is true.                      *)
(***************************************************************************)
EXTENDS CampaignOperations, SequenceTheorems, TLAPS

-----------------------------------------------------------------------------
(* Campaign operations: a creation is never repeated blindly.  As long as   *)
(* the creation may still be called, no more campaigns exist than           *)
(* read-backs were refused.                                                 *)

OpStates == {"NONE", "PLANNED", "IN_FLIGHT", "RECONCILE_REQUIRED", "RETRYABLE_FAILED",
             "TERMINAL_FAILED", "CONFIRMED"}
OpRow == [state : OpStates, attempt : Nat]

Positions == {"claimed", "call", "read", "bind", "confirm"}
RemoteStates == {"draft", "active", "paused"}

\* The operation a worker is at is in flight, and nobody else's.
WorkerOK ==
    /\ DOMAIN wk = {"pc", "op", "id", "at"}
    /\ wk.pc \in Positions \cup {"idle"}
    /\ wk.pc # "idle" => wk.op \in Ops /\ op[wk.op].state = "IN_FLIGHT"

CampaignOK ==
    /\ op \in [Ops -> OpRow]
    /\ WorkerOK
    /\ remote \in Seq(RemoteStates)
    /\ limited \in Nat

\* The creation may still be called.
MayCreate ==
    \/ op[Create].state \in {"NONE", "PLANNED", "RETRYABLE_FAILED"}
    \/ wk.pc \in {"claimed", "call"} /\ wk.op = Create

CreationInv ==
    /\ CampaignOK
    /\ NoBlindRepeat
    /\ MayCreate => Len(remote) <= limited

\* The operation keys differ.
LEMMA Keys ==
    /\ Create \in Ops /\ Configure \in Ops /\ Create # Configure
    /\ \A m \in Members : AddLead(m) \in Ops /\ PauseLead(m) \in Ops
    /\ Create \notin Adds \cup LeadPauses \cup Activations \cup Pauses
    /\ Adds \cup LeadPauses \cup Activations \cup Pauses \subseteq Ops
BY DEF Ops, Create, Configure, Adds, LeadPauses, Activations, Pauses, AddLead, PauseLead,
   Activate, Pause

\* Planning touches rows that are not there yet, and makes them PLANNED.
Plans(table, next) ==
    /\ next \in [Ops -> OpRow]
    /\ \A o \in Ops : next[o] = table[o] \/ (table[o].state = "NONE" /\ next[o].state = "PLANNED")

\* Planning touches only operations that do not exist yet.
LEMMA PlannedPlans ==
    ASSUME NEW table \in [Ops -> OpRow], NEW S
    PROVE  Plans(table, Planned(table, S))
BY DEF Plans, Planned, NoOp, OpRow, OpStates

\* A table plans itself.
LEMMA PlansSame == ASSUME NEW table \in [Ops -> OpRow] PROVE Plans(table, table)
BY DEF Plans

\* So do the live checks.
LEMMA ReleasePlans ==
    ASSUME CampaignOK, NEW at, NEW d \in ReleaseCheck(at)
    PROVE  Plans(op, d.op)
<1>a. /\ \A v, r, S : Plans(op, Verdict(v, r, Planned(op, S)).op)
      /\ \A v : Plans(op, Same(v).op)
  <2>1. op \in [Ops -> OpRow]
    BY DEF CampaignOK
  <2> QED BY <2>1, PlansSame, PlannedPlans DEF Same, Verdict
<1> DEFINE waiting == {m \in Members : mem[m].seq = "WAITING_STEP2"}
           Stopped(S) == [m \in Members |-> IF m \in S
                            THEN [mem[m] EXCEPT !.seq = "STOPPED"] ELSE mem[m]]
           ForKill == Verdict("blocked", Stopped(waiting), Planned(op, {Pause("config")}))
           ForOne(m) == Verdict("blocked", Stopped({m}),
                                Planned(op, {PauseLead(n) : n \in Bound({m})}))
           ForNow == Verdict("blocked", mem, Planned(op, {Pause("config")}))
<1>1. Plans(op, ForKill.op) /\ Plans(op, ForNow.op) /\ \A m : Plans(op, ForOne(m).op)
  BY <1>a
<1>2. \/ d = Same("blocked") \/ d = Same("ok") \/ d = ForKill \/ d = ForNow
      \/ \E m \in waiting \ valid : d = ForOne(m)
  BY DEF ReleaseCheck
<1> HIDE DEF ForKill, ForOne, ForNow
<1> QED BY <1>a, <1>1, <1>2

\* The live checks only plan follow-up operations.
LEMMA CheckPlans ==
    ASSUME CampaignOK, NEW o, NEW c \in LiveCheck(o)
    PROVE  Plans(op, c.op)
<1>0. op \in [Ops -> OpRow]
  BY DEF CampaignOK
<1>1. ASSUME NEW d \in MutationCheck(o) PROVE Plans(op, d.op)
  BY <1>0, <1>1, PlansSame DEF MutationCheck, Same, Verdict
<1>a. /\ \A v, r, S : Plans(op, Verdict(v, r, Planned(op, S)).op)
      /\ \A v : Plans(op, Same(v).op)
  BY <1>0, PlansSame, PlannedPlans DEF Same, Verdict
<1>2. ASSUME NEW at, NEW d \in ActivationCheck(at) PROVE Plans(op, d.op)
  <2> DEFINE retained == {m \in Members : mem[m].exec = "QUEUED"}
             StopThem(v, S) == Verdict(v, StopRows(S),
                                       Planned(op, {PauseLead(m) : m \in Bound(S)}))
  <2>1. \A v, S : Plans(op, StopThem(v, S).op)
    BY <1>a
  <2>2. \/ d = Same("changed") \/ d = Same("ok") \/ d = StopThem("blocked", Reserved)
        \/ \E m \in retained \ valid : d = StopThem("changed", {m})
    BY <1>2 DEF ActivationCheck
  <2> HIDE DEF StopThem
  <2> QED BY <1>a, <2>1, <2>2
<1>3. ASSUME NEW at, NEW d \in ReleaseCheck(at) PROVE Plans(op, d.op)
  BY <1>3, ReleasePlans
<1>4. ASSUME NEW d \in {Same("ok")} PROVE Plans(op, d.op)
  BY <1>a
<1> QED BY <1>1, <1>2, <1>3, <1>4 DEF LiveCheck

\* Operation o goes to state st; others are planned at most.
Sets(o, st) ==
    /\ op' \in [Ops -> OpRow] /\ op'[o].state = st
    /\ \A p \in Ops \ {o} :
          op'[p] = op[p] \/ (op[p].state = "NONE" /\ op'[p].state = "PLANNED")

\* One operation is set to a state, the others stay.
LEMMA InFields ==
    ASSUME NEW table \in [Ops -> OpRow], NEW o \in Ops, NEW st \in OpStates
    PROVE  /\ In(table, o, st) \in [Ops -> OpRow] /\ In(table, o, st)[o].state = st
           /\ \A p \in Ops \ {o} : In(table, o, st)[p] = table[p]
BY DEF In, OpRow

\* Setting a state, before or after planning, sets that operation alone.
LEMMA InSets ==
    ASSUME NEW o \in Ops, NEW st \in OpStates \ {"NONE"}, NEW table, Plans(op, table),
           op' = In(table, o, st) \/ Plans(In(table, o, st), op')
    PROVE  Sets(o, st)
<1>1. table \in [Ops -> OpRow]
  BY DEF Plans
<1>2. /\ In(table, o, st) \in [Ops -> OpRow] /\ In(table, o, st)[o].state = st
      /\ \A p \in Ops \ {o} : In(table, o, st)[p] = table[p]
  BY <1>1, InFields
<1> DEFINE t == In(table, o, st)
<1>3. Plans(t, op')
  BY <1>2, PlansSame
<1> HIDE DEF t
<1>4. op' \in [Ops -> OpRow] /\ op'[o].state = st
  BY <1>2, <1>3 DEF Plans, t
<1>5. ASSUME NEW p \in Ops \ {o}
      PROVE  op'[p] = op[p] \/ (op[p].state = "NONE" /\ op'[p].state = "PLANNED")
  <2>1. t[p] = table[p]
    BY <1>2 DEF t
  <2>2. op'[p] = t[p] \/ (t[p].state = "NONE" /\ op'[p].state = "PLANNED")
    BY <1>3 DEF Plans
  <2>3. table[p] = op[p] \/ (op[p].state = "NONE" /\ table[p].state = "PLANNED")
    BY DEF Plans
  <2> QED BY <2>1, <2>2, <2>3
<1> QED BY <1>4, <1>5 DEF Sets

\* What an operation does at Instantly, in number of campaigns.
LEMMA EffectLen ==
    ASSUME CampaignOK, NEW o \in Ops, Effect(o)
    PROVE  /\ remote' \in Seq(RemoteStates)
           /\ Len(remote') = IF o = Create THEN Len(remote) + 1 ELSE Len(remote)
<1>1. remote \in Seq(RemoteStates) /\ Len(remote) \in Nat
  BY DEF CampaignOK
<1>2. ASSUME NEW i, NEW x \in RemoteStates, remote' = [remote EXCEPT ![i] = x]
      PROVE  remote' \in Seq(RemoteStates) /\ Len(remote') = Len(remote)
  <2>1. DOMAIN remote = 1..Len(remote) /\ remote \in [1..Len(remote) -> RemoteStates]
    BY <1>1
  <2>2. remote' \in [1..Len(remote) -> RemoteStates]
    BY <1>2, <2>1
  <2> QED BY <1>1, <2>2
<1>3. CASE o = Create
  BY <1>1, <1>3 DEF Effect, RemoteStates
<1>4. CASE o # Create
  BY <1>1, <1>2, <1>4 DEF Effect, RemoteStates
<1> QED BY <1>3, <1>4

\* An operation ends, or is taken up by nobody.
LEMMA EndsInv ==
    ASSUME CreationInv, NEW o \in Ops, NEW st \in OpStates \ {"NONE"}, Sets(o, st),
           wk.pc = "idle" \/ wk.op = o,
           wk' = Idle \/ (wk.pc = "idle" /\ wk' = wk),
           remote' \in Seq(RemoteStates), limited' \in Nat,
           Len(remote') <= 1 + limited',
           o = Create /\ st \in {"PLANNED", "RETRYABLE_FAILED"} => Len(remote') <= limited',
           o # Create => Len(remote') = Len(remote) /\ limited' >= limited
    PROVE  CreationInv'
<1>1. WorkerOK' /\ wk'.pc = "idle"
  BY DEF CreationInv, CampaignOK, WorkerOK, Idle
<1>2. CampaignOK'
  BY <1>1 DEF CampaignOK, Sets
<1>3. ASSUME MayCreate' PROVE Len(remote') <= limited'
  <2>1. op'[Create].state \in {"NONE", "PLANNED", "RETRYABLE_FAILED"}
    BY <1>1, <1>3 DEF MayCreate
  <2>2. CASE o = Create
    BY <2>1, <2>2 DEF Sets
  <2>3. CASE o # Create
    <3>1. op[Create].state \in {"NONE", "PLANNED", "RETRYABLE_FAILED"}
      BY <2>1, <2>3, Keys DEF Sets
    <3>2. Len(remote) <= limited /\ limited \in Nat /\ Len(remote) \in Nat
      BY <3>1 DEF CreationInv, MayCreate, CampaignOK
    <3> QED BY <2>3, <3>2
  <2> QED BY <2>2, <2>3
<1> QED BY <1>2, <1>3 DEF CreationInv, NoBlindRepeat

\* The worker goes on with its operation; it calls at most once.
LEMMA GoesInv ==
    ASSUME CreationInv, wk.pc # "idle", Plans(op, op'), UNCHANGED limited,
           DOMAIN wk' = DOMAIN wk, wk'.op = wk.op, wk'.pc \in Positions,
           remote' \in Seq(RemoteStates),
           \/ /\ Len(remote') = Len(remote)
              /\ wk'.pc \in {"claimed", "call"} => wk.pc \in {"claimed", "call"}
           \/ /\ Len(remote') = Len(remote) + 1 /\ wk.op = Create
              /\ wk.pc = "call" /\ wk'.pc \notin {"claimed", "call"}
    PROVE  CreationInv'
<1>1. /\ wk.op \in Ops /\ op[wk.op].state = "IN_FLIGHT" /\ limited \in Nat
      /\ remote \in Seq(RemoteStates) /\ Len(remote) \in Nat /\ Len(remote) <= 1 + limited
      /\ MayCreate => Len(remote) <= limited
  BY DEF CreationInv, CampaignOK, WorkerOK, NoBlindRepeat
<1>2. op'[wk.op].state = "IN_FLIGHT" /\ op' \in [Ops -> OpRow]
  BY <1>1 DEF Plans
<1>3. CampaignOK'
  BY <1>1, <1>2 DEF CreationInv, CampaignOK, WorkerOK
<1>4. op'[Create].state \in {"NONE", "PLANNED", "RETRYABLE_FAILED"} =>
         op[Create].state \in {"NONE", "PLANNED", "RETRYABLE_FAILED"}
  BY Keys DEF Plans
<1>5. CASE Len(remote') = Len(remote) /\
           (wk'.pc \in {"claimed", "call"} => wk.pc \in {"claimed", "call"})
  <2>1. MayCreate' => MayCreate
    BY <1>4, <1>5 DEF MayCreate
  <2> QED BY <1>1, <1>3, <1>5, <2>1 DEF CreationInv, NoBlindRepeat
<1>6. CASE /\ Len(remote') = Len(remote) + 1 /\ wk.op = Create
           /\ wk.pc = "call" /\ wk'.pc \notin {"claimed", "call"}
  <2>1. MayCreate
    BY <1>6 DEF MayCreate
  <2>2. ~MayCreate'
    BY <1>2, <1>6 DEF MayCreate
  <2> QED BY <1>1, <1>3, <1>6, <2>1, <2>2 DEF CreationInv, NoBlindRepeat
<1> QED BY <1>5, <1>6

\* Rows are planned at most, and nothing is called.
LEMMA PlansInv ==
    ASSUME CreationInv, Plans(op, op'), UNCHANGED <<wk, remote, limited>>
    PROVE  CreationInv'
<1>1. op' \in [Ops -> OpRow] /\ (wk.pc # "idle" => op'[wk.op].state = "IN_FLIGHT")
  BY DEF Plans, CreationInv, CampaignOK, WorkerOK
<1>2. CampaignOK'
  BY <1>1 DEF CreationInv, CampaignOK, WorkerOK
<1>3. MayCreate' => MayCreate
  BY Keys DEF MayCreate, Plans
<1> QED BY <1>2, <1>3 DEF CreationInv, NoBlindRepeat

\* Everything around the worker plans at most.
LEMMA AroundPlans ==
    ASSUME CampaignOK,
           \/ \E m \in Members : \/ ReserveMember(m) \/ ProviderSends(m)
                                 \/ RecipientStops(m) \/ Withdraw(m)
           \/ CloseDueBatches \/ QueueAndSeal \/ PlanStep2Release
           \/ \E e \in events : EmailSent(e) \/ StopMember(e)
           \/ ExpireAuthorizationWindows \/ TimePasses \/ ActivateKillSwitch
           \/ UNCHANGED campaignVars
    PROVE  Plans(op, op')
<1>0. op \in [Ops -> OpRow]
  BY DEF CampaignOK
<1>2. CASE PlanStep2Release
  <2>1. PICK c \in ReleaseCheck(clock) :
           op' = IF c.verdict = "ok" /\ remote[camp.id] = "paused"
                   THEN Planned(c.op, {Activate("release")}) ELSE c.op
    BY <1>2 DEF PlanStep2Release
  <2>2. Plans(op, c.op)
    BY <1>0, ReleasePlans
  <2>3. c.op \in [Ops -> OpRow]
    BY <2>2 DEF Plans
  <2>4. Plans(c.op, op')
    BY <2>1, <2>3, PlannedPlans, PlansSame
  <2> QED BY <2>2, <2>4 DEF Plans
<1>3. CASE \/ \E m \in Members : ReserveMember(m)
           \/ QueueAndSeal \/ ExpireAuthorizationWindows
           \/ \E e \in events : EmailSent(e) \/ StopMember(e)
  <2>1. op' = op \/ \E S : op' = Planned(op, S)
    BY <1>3 DEF ReserveMember, QueueAndSeal, ExpireAuthorizationWindows, EmailSent, StopMember
  <2> QED BY ZenonT(60), <1>0, <2>1, PlansSame, PlannedPlans
<1>4. CASE \/ \E m \in Members : ProviderSends(m) \/ RecipientStops(m) \/ Withdraw(m)
           \/ CloseDueBatches \/ TimePasses \/ ActivateKillSwitch \/ UNCHANGED campaignVars
  <2>1. op' = op
    BY <1>4 DEF ProviderSends, RecipientStops, Withdraw, CloseDueBatches, TimePasses,
       ActivateKillSwitch, campaignVars, rows
  <2> QED BY <1>0, <2>1, PlansSame
<1> QED BY <1>2, <1>3, <1>4

\* Nothing around the worker comes nearer to a second creation.
LEMMA StepAround ==
    ASSUME CreationInv,
           \/ \E m \in Members : \/ ReserveMember(m) \/ ProviderSends(m)
                                 \/ RecipientStops(m) \/ Withdraw(m)
           \/ CloseDueBatches \/ QueueAndSeal \/ PlanStep2Release
           \/ \E e \in events : EmailSent(e) \/ StopMember(e)
           \/ ExpireAuthorizationWindows \/ TimePasses \/ ActivateKillSwitch
           \/ UNCHANGED campaignVars
    PROVE  CreationInv'
<1>1. UNCHANGED <<wk, remote, limited>>
  BY DEF ReserveMember, ProviderSends, RecipientStops, Withdraw, CloseDueBatches, QueueAndSeal,
     PlanStep2Release, EmailSent, StopMember, ExpireAuthorizationWindows, TimePasses,
     ActivateKillSwitch, campaignVars, instantly
<1>2. Plans(op, op')
  BY AroundPlans DEF CreationInv
<1> QED BY ZenonT(60), <1>1, <1>2, PlansInv

\* The worker's operation ends without a call.
LEMMA EndsQuietly ==
    ASSUME CreationInv, wk.pc # "idle", NEW st \in OpStates \ {"NONE"}, NEW table,
           Plans(op, table), op' = In(table, wk.op, st) \/ Plans(In(table, wk.op, st), op'),
           Leave, UNCHANGED <<remote, limited>>,
           st \in {"PLANNED", "RETRYABLE_FAILED"} => wk.pc \in {"claimed", "call"}
    PROVE  CreationInv'
<1>1. wk.op \in Ops /\ limited \in Nat /\ Len(remote) \in Nat /\ remote \in Seq(RemoteStates)
  BY DEF CreationInv, CampaignOK, WorkerOK
<1>2. Sets(wk.op, st)
  BY <1>1, InSets
<1>3. wk.op = Create /\ st \in {"PLANNED", "RETRYABLE_FAILED"} => Len(remote) <= limited
  BY DEF CreationInv, MayCreate
<1>4. wk' = Idle /\ Len(remote) <= 1 + limited
  BY DEF Leave, CreationInv, NoBlindRepeat
<1> QED BY <1>1, <1>2, <1>3, <1>4, EndsInv

\* Claim: the operation is taken, sent to reconciliation or given up.
LEMMA StepClaim == ASSUME CreationInv, NEW o \in Ops, Claim(o) PROVE CreationInv'
<1>0. /\ op \in [Ops -> OpRow] /\ limited \in Nat /\ remote \in Seq(RemoteStates)
      /\ wk.pc = "idle" /\ UNCHANGED <<remote, limited>> /\ Len(remote) <= 1 + limited
      /\ Plans(op, op) /\ Len(remote) \in Nat
  BY PlansSame DEF CreationInv, CampaignOK, NoBlindRepeat, Claim, instantly
<1>1. ASSUME NEW st \in {"RECONCILE_REQUIRED", "TERMINAL_FAILED"},
             op' = In(op, o, st), UNCHANGED wk
      PROVE  CreationInv'
  <2>1. Sets(o, st) /\ st \in OpStates \ {"NONE"}
    BY <1>0, <1>1, InSets DEF OpStates
  <2> QED BY <1>0, <1>1, <2>1, EndsInv
<1>2. ASSUME op[o].state \in {"PLANNED", "RETRYABLE_FAILED"},
             op' = [op EXCEPT ![o].state = "IN_FLIGHT",
                              ![o].attempt = IF @ < MaxAttempts THEN @ + 1 ELSE @],
             wk' = [pc |-> "claimed", op |-> o, id |-> None,
                    at |-> IF o \in Activations THEN clock ELSE 0]
      PROVE  CreationInv'
  <2> DEFINE n == IF op[o].attempt < MaxAttempts THEN op[o].attempt + 1 ELSE op[o].attempt
             x == [op[o] EXCEPT !.state = "IN_FLIGHT", !.attempt = n]
  <2>a. op[o] \in OpRow /\ n \in Nat
    BY <1>0, CampaignAssumption DEF OpRow
  <2>b. op' = [op EXCEPT ![o] = x]
    BY <1>0, <1>2, <2>a DEF OpRow
  <2> HIDE DEF n
  <2>c. x \in OpRow /\ x.state = "IN_FLIGHT"
    BY <2>a DEF OpRow, OpStates
  <2> HIDE DEF x
  <2>1. op' \in [Ops -> OpRow] /\ op'[o].state = "IN_FLIGHT"
        /\ \A p \in Ops \ {o} : op'[p] = op[p]
    BY <1>0, <2>b, <2>c
  <2>2. wk'.pc = "claimed" /\ wk'.op = o /\ DOMAIN wk' = {"pc", "op", "id", "at"}
    BY <1>2
  <2>3. CampaignOK'
    BY <1>0, <2>1, <2>2 DEF CampaignOK, WorkerOK, Positions
  <2>4. MayCreate' => MayCreate
    BY <1>2, <2>1, <2>2, Keys DEF MayCreate
  <2> QED BY <1>0, <2>3, <2>4 DEF CreationInv, NoBlindRepeat
<1> QED BY <1>1, <1>2 DEF Claim

\* The worker between its claim and the end of the operation.
LEMMA StepWorker ==
    ASSUME CreationInv,
           \/ DependencyNotConfirmed \/ BeforeCall \/ BeforeCallFails \/ CallRefused
           \/ PauseLeadRefused \/ ReadBackFails \/ AfterCall \/ Bind \/ Confirm
    PROVE  CreationInv'
<1>0. /\ op \in [Ops -> OpRow] /\ limited \in Nat /\ remote \in Seq(RemoteStates)
      /\ Plans(op, op) /\ CampaignOK
      /\ Len(remote) <= 1 + limited /\ Len(remote) \in Nat
  BY PlansSame DEF CreationInv, CampaignOK, NoBlindRepeat
<1>a. /\ wk.pc # "idle" /\ wk.op \in Ops /\ UNCHANGED remote
  BY <1>0 DEF DependencyNotConfirmed, BeforeCall, BeforeCallFails, CallRefused,
     PauseLeadRefused, ReadBackFails, AfterCall, Bind, Confirm, CampaignOK, WorkerOK, NoEffect,
     instantly
<1>b. ASSUME NEW st \in OpStates \ {"NONE"}, Ends(st), UNCHANGED limited,
             st \in {"PLANNED", "RETRYABLE_FAILED"} => wk.pc \in {"claimed", "call"}
      PROVE  CreationInv'
  BY <1>0, <1>a, <1>b, EndsQuietly DEF Ends
<1>c. ASSUME NEW pc \in Positions, Goto(pc), Plans(op, op'), UNCHANGED limited,
             pc \in {"claimed", "call"} => wk.pc \in {"claimed", "call"}
      PROVE  CreationInv'
  <2>1. DOMAIN wk' = DOMAIN wk /\ wk'.op = wk.op /\ wk'.pc = pc
    BY <1>0, <1>c DEF Goto, CampaignOK, WorkerOK
  <2> QED BY <1>0, <1>a, <1>c, <2>1, GoesInv
<1>1. CASE DependencyNotConfirmed
  <2>1. Ends("PLANNED") /\ wk.pc = "claimed" /\ UNCHANGED limited
    BY <1>1 DEF DependencyNotConfirmed
  <2> QED BY <1>b, <2>1 DEF OpStates
<1>2. CASE BeforeCall
  <2>1. PICK c \in LiveCheck(wk.op) :
           \/ Leave /\ op' = In(c.op, wk.op, "TERMINAL_FAILED")
           \/ Goto("call") /\ op' = c.op
    BY <1>2 DEF BeforeCall
  <2>2. Plans(op, c.op)
    BY ZenonT(60), <1>0, CheckPlans
  <2>3. wk.pc = "claimed" /\ UNCHANGED limited
    BY <1>2 DEF BeforeCall
  <2>4. CASE Leave /\ op' = In(c.op, wk.op, "TERMINAL_FAILED")
    BY <1>a, <2>2, <2>3, <2>4, EndsQuietly DEF OpStates
  <2>5. CASE Goto("call") /\ op' = c.op
    BY <1>c, <2>2, <2>3, <2>5 DEF Positions
  <2> QED BY ZenonT(60), <2>1, <2>4, <2>5
<1>3. CASE BeforeCallFails \/ CallRefused
  <2>1. PICK st \in {"TERMINAL_FAILED", "RETRYABLE_FAILED"} : Ends(st)
    BY <1>3 DEF BeforeCallFails, CallRefused
  <2>2. wk.pc \in {"claimed", "call"} /\ UNCHANGED limited
    BY <1>3 DEF BeforeCallFails, CallRefused
  <2>3. st \in OpStates \ {"NONE"}
    BY DEF OpStates
  <2> QED BY <1>b, <2>1, <2>2, <2>3
<1>4. CASE PauseLeadRefused
  <2>1. Ends("TERMINAL_FAILED") /\ UNCHANGED limited
    BY <1>4 DEF PauseLeadRefused
  <2> QED BY <1>b, <2>1 DEF OpStates
<1>5. CASE ReadBackFails
  <2>1. PICK st \in {AfterUnknown, "RETRYABLE_FAILED", "TERMINAL_FAILED"} :
           /\ Ends(st)
           /\ limited' = IF st # "RECONCILE_REQUIRED" THEN limited + 1 ELSE limited
    BY <1>5 DEF ReadBackFails
  <2>2. CASE st = "RECONCILE_REQUIRED"
    BY <1>b, <2>1, <2>2 DEF OpStates
  <2>3. CASE st # "RECONCILE_REQUIRED"
    <3>1. st \in OpStates \ {"NONE"}
      BY DEF OpStates, AfterUnknown
    <3>2. Sets(wk.op, st)
      BY <1>0, <1>a, <2>1, <3>1, InSets DEF Ends
    <3>3. wk' = Idle /\ limited' = limited + 1
      BY <2>1, <2>3 DEF Ends, Leave
    <3>4. /\ remote' \in Seq(RemoteStates) /\ limited' \in Nat
          /\ Len(remote') <= limited' /\ Len(remote') <= 1 + limited'
          /\ Len(remote') = Len(remote) /\ limited' >= limited
      BY <1>0, <1>a, <3>3
    <3> QED BY <1>a, <3>1, <3>2, <3>3, <3>4, EndsInv
  <2> QED BY <2>2, <2>3
<1>6. CASE AfterCall
  <2>0. wk.pc = "read" /\ UNCHANGED limited
    BY <1>6 DEF AfterCall
  <2>1. PICK c \in LiveCheck(wk.op) :
           \/ Goto("bind") /\ op' = c.op
           \/ Goto("confirm") /\ \E S : op' = Planned(op, S)
           \/ Leave /\ \E S : op' = Planned(In(c.op, wk.op, "RECONCILE_REQUIRED"), S)
           \/ Leave /\ op' = In(c.op, wk.op, "RECONCILE_REQUIRED")
    BY <1>6 DEF AfterCall, Exposed
  <2>2. Plans(op, c.op)
    BY <1>0, CheckPlans
  <2>3. CASE Goto("bind") /\ op' = c.op
    BY <1>c, <2>0, <2>2, <2>3 DEF Positions
  <2>4. CASE Goto("confirm") /\ \E S : op' = Planned(op, S)
    <3>1. Plans(op, op')
      BY <1>0, <2>4, PlannedPlans
    <3> QED BY <1>c, <2>0, <2>4, <3>1 DEF Positions
  <2>5. CASE Leave /\ \E S : op' = Planned(In(c.op, wk.op, "RECONCILE_REQUIRED"), S)
    <3>1. In(c.op, wk.op, "RECONCILE_REQUIRED") \in [Ops -> OpRow]
      BY <1>a, <2>2, InFields DEF Plans, OpStates
    <3>2. Plans(In(c.op, wk.op, "RECONCILE_REQUIRED"), op')
      BY <2>5, <3>1, PlannedPlans
    <3> QED BY <1>a, <2>0, <2>2, <2>5, <3>2, EndsQuietly DEF OpStates
  <2>6. CASE Leave /\ op' = In(c.op, wk.op, "RECONCILE_REQUIRED")
    BY <1>a, <2>0, <2>2, <2>6, EndsQuietly DEF OpStates
  <2> QED BY <2>1, <2>3, <2>4, <2>5, <2>6
<1>7. CASE Bind
  <2>0. wk.pc = "bind" /\ UNCHANGED limited
        /\ (Ends("RECONCILE_REQUIRED") \/ (Goto("confirm") /\ op' = op))
    BY <1>7 DEF Bind
  <2>1. CASE Ends("RECONCILE_REQUIRED")
    BY <1>b, <2>0, <2>1 DEF OpStates
  <2>2. CASE Goto("confirm") /\ op' = op
    BY <1>0, <1>c, <2>0, <2>2 DEF Positions
  <2> QED BY <2>0, <2>1, <2>2
<1>8. CASE Confirm
  <2>1. Ends("CONFIRMED") /\ UNCHANGED limited
    BY <1>8 DEF Confirm
  <2> QED BY <1>b, <2>1 DEF OpStates
<1> QED BY <1>1, <1>2, <1>3, <1>4, <1>5, <1>6, <1>7, <1>8

\* The call: it has its effect and is answered, or not.
LEMMA StepCall ==
    ASSUME CreationInv, Call \/ CallUnknown \/ Crash
    PROVE  CreationInv'
<1>0. /\ op \in [Ops -> OpRow] /\ limited \in Nat /\ remote \in Seq(RemoteStates)
      /\ Plans(op, op) /\ CampaignOK
      /\ Len(remote) <= 1 + limited /\ Len(remote) \in Nat
  BY PlansSame DEF CreationInv, CampaignOK, NoBlindRepeat
<1>a. /\ wk.pc # "idle" /\ wk.op \in Ops /\ op[wk.op].state = "IN_FLIGHT" /\ UNCHANGED limited
  BY <1>0 DEF Call, CallUnknown, Crash, CampaignOK, WorkerOK
<1>b. wk.pc = "call" /\ wk.op = Create => Len(remote) <= limited
  BY DEF CreationInv, MayCreate
\* Called or not, an operation that ends here is not one that may be repeated.
<1>c. ASSUME NEW st \in {"IN_FLIGHT", "RECONCILE_REQUIRED"}, Sets(wk.op, st), wk' = Idle,
             UNCHANGED remote \/ (wk.pc = "call" /\ Effect(wk.op))
      PROVE  CreationInv'
  <2>1. /\ remote' \in Seq(RemoteStates) /\ limited' \in Nat /\ Len(remote') <= 1 + limited'
        /\ wk.op # Create => Len(remote') = Len(remote) /\ limited' >= limited
    <3>1. CASE UNCHANGED remote
      BY <1>0, <1>a, <3>1
    <3>2. CASE wk.pc = "call" /\ Effect(wk.op)
      BY <1>0, <1>a, <1>b, <3>2, EffectLen
    <3> QED BY <1>c, <3>1, <3>2
  <2>2. st \in OpStates \ {"NONE"} /\ st \notin {"PLANNED", "RETRYABLE_FAILED"}
    BY DEF OpStates
  <2> QED BY <1>a, <1>c, <2>1, <2>2, EndsInv
<1>1. CASE Crash
  <2>1. wk' = Idle /\ op' = op /\ (UNCHANGED remote \/ (wk.pc = "call" /\ Effect(wk.op)))
    BY <1>1 DEF Crash, Leave, NoEffect, instantly, rows
  <2>2. Sets(wk.op, "IN_FLIGHT")
    BY <1>0, <1>a, <2>1 DEF Sets
  <2> QED BY <1>c, <2>1, <2>2
<1>2. CASE CallUnknown
  <2>1. /\ wk.pc = "call" /\ wk' = Idle /\ op' = In(op, wk.op, "RECONCILE_REQUIRED")
        /\ UNCHANGED remote \/ Effect(wk.op)
    BY <1>2 DEF CallUnknown, Ends, Leave, AfterUnknown, NoEffect, instantly
  <2>2. Sets(wk.op, "RECONCILE_REQUIRED")
    BY <1>0, <1>a, <2>1, InSets DEF OpStates
  <2> QED BY <1>c, <2>1, <2>2
<1>3. CASE Call
  <2>0. wk.pc = "call" /\ Effect(wk.op)
    BY <1>3 DEF Call
  <2>1. CASE Ends("RECONCILE_REQUIRED")
    <3>1. Sets(wk.op, "RECONCILE_REQUIRED") /\ wk' = Idle
      BY <1>0, <1>a, <2>1, InSets DEF OpStates, Ends, Leave
    <3> QED BY <1>c, <2>0, <3>1
  <2>2. CASE ~Ends("RECONCILE_REQUIRED")
    <3>1. /\ op' = op
          /\ wk' = [wk EXCEPT !.pc = "read", !.id = IF wk.op = Create THEN Len(remote')
                                                                     ELSE camp.id]
      BY <1>3, <2>2 DEF Call
    <3>2. DOMAIN wk' = DOMAIN wk /\ wk'.op = wk.op /\ wk'.pc = "read"
      BY <1>0, <3>1 DEF CampaignOK, WorkerOK
    <3>3. /\ remote' \in Seq(RemoteStates)
          /\ Len(remote') = IF wk.op = Create THEN Len(remote) + 1 ELSE Len(remote)
      BY <1>0, <1>a, <2>0, EffectLen
    <3>4. Plans(op, op') /\ wk'.pc \in Positions
      BY <1>0, <3>1, <3>2 DEF Positions
    <3> QED BY <1>a, <2>0, <3>2, <3>3, <3>4, GoesInv
  <2> QED BY <2>1, <2>2
<1> QED BY <1>1, <1>2, <1>3

\* A creation is tried again only when no campaign of its name is found.
LEMMA StepReconcile ==
    ASSUME CreationInv, ReconcileCreate \/ \E o \in Ops : Reconcile(o)
    PROVE  CreationInv'
<1>0. /\ op \in [Ops -> OpRow] /\ limited \in Nat /\ remote \in Seq(RemoteStates)
      /\ Plans(op, op) /\ CampaignOK /\ Create \in Ops
      /\ Len(remote) <= 1 + limited /\ Len(remote) \in Nat
  BY PlansSame, Keys DEF CreationInv, CampaignOK, NoBlindRepeat
<1>1. wk.pc = "idle" /\ UNCHANGED <<wk, remote, limited>>
  BY DEF ReconcileCreate, Reconcile, instantly
<1>2. CASE ReconcileCreate
  <2>1. PICK st \in {"CONFIRMED", "RETRYABLE_FAILED", "RECONCILE_REQUIRED", "TERMINAL_FAILED"} :
           op' = In(op, Create, st) /\ (st = "RETRYABLE_FAILED" => remote = <<>>)
    BY <1>2 DEF ReconcileCreate
  <2>2. Sets(Create, st) /\ st \in OpStates \ {"NONE"}
    BY <1>0, <2>1, InSets DEF OpStates
  <2>3. st \in {"PLANNED", "RETRYABLE_FAILED"} => Len(remote) <= limited
    BY <1>0, <2>1
  <2> QED BY <1>0, <1>1, <2>2, <2>3, EndsInv
<1>3. ASSUME NEW o \in Ops, Reconcile(o) PROVE CreationInv'
  <2>1. o # Create
    BY <1>3 DEF Reconcile
  <2>2. PICK st \in {"CONFIRMED", "RETRYABLE_FAILED"} :
           op' = In(op, o, st) \/ \E S : op' = Planned(In(op, o, st), S)
    BY <1>3 DEF Reconcile, Exposed
  <2>3. st \in OpStates \ {"NONE"} /\ In(op, o, st) \in [Ops -> OpRow]
    BY <1>0, InFields DEF OpStates
  <2>4. op' = In(op, o, st) \/ Plans(In(op, o, st), op')
    BY <2>2, <2>3, PlannedPlans
  <2>5. Sets(o, st)
    BY <1>0, <2>3, <2>4, InSets
  <2> QED BY <1>0, <1>1, <2>1, <2>3, <2>5, EndsInv
<1> QED BY <1>2, <1>3

\* A remote campaign is created twice only if a read-back after a creation was
\* refused (campaigns/worker.py): no lost answer, crash or expired lease, in
\* any order with webhooks, checks and controls, repeats the creation.
THEOREM CampaignNoBlindRepeat == CampaignSpec => []NoBlindRepeat
<1>1. CampaignInit => CreationInv
  <2> SUFFICES ASSUME CampaignInit PROVE CreationInv
    OBVIOUS
  <2>1. NoOp \in OpRow
    BY DEF NoOp, OpRow, OpStates
  <2>2. CampaignOK
    BY <2>1 DEF CampaignInit, CampaignOK, WorkerOK, Idle
  <2>3. Len(remote) = 0 /\ limited = 0
    BY DEF CampaignInit
  <2> QED BY <2>2, <2>3 DEF CreationInv, NoBlindRepeat
<1>2. CreationInv /\ [CampaignNext]_campaignVars => CreationInv'
  BY StepAround, StepClaim, StepWorker, StepCall, StepReconcile DEF CampaignNext
<1>3. CreationInv => NoBlindRepeat
  BY DEF CreationInv
<1> QED BY <1>1, <1>2, <1>3, PTL DEF CampaignSpec

-----------------------------------------------------------------------------
(* Campaign operations: a stop holds at Instantly, and a confirmation is    *)
(* true.  The invariant follows a lead from its import to the activation:   *)
(* what is known of the campaign, what is settled once it may send, where a *)
(* lead and its row agree, what the worker has seen, and what holds as long *)
(* as no pause is planned.                                                  *)

MemRow ==
    [exec : {"NONE", "RESERVED", "ENROLLED", "QUEUED", "SENT", "STOPPED", "FAILED"},
     seq : {"NONE", "PENDING_STEP1", "WAITING_STEP2", "COMPLETED", "STOPPED", "FAILED"},
     lead : Nat \cup {None}]

RowsOK ==
    /\ mem \in [Members -> MemRow]
    /\ leads \in [Members -> Nat] /\ mails \in [Members -> Nat]
    /\ DOMAIN camp = {"lifecycle", "closed", "id", "configured"}
    /\ \A e \in events : e.of \in Members
    /\ kill \in BOOLEAN

\* The stored id is the id of a campaign at Instantly.
Known == camp.id \in 1..Len(remote)

Called == {"read", "bind", "confirm"}

\* Leads and settings come after the campaign, pauses too.
KnownInv ==
    /\ camp.id # None => Known
    /\ op[Create].state = "CONFIRMED" => Known
    /\ \A o \in {Configure} \cup Adds :
          op[o].state \notin {"NONE", "PLANNED"} => op[Create].state = "CONFIRMED"
    /\ wk.op = Create /\ wk.pc \in {"read", "bind"} => wk.id \in 1..Len(remote)
    /\ wk.op = Create /\ wk.pc = "confirm" => Known
    /\ PausePlanned => Known

\* The batch is closed for good: nobody's import is open.
Sealed ==
    /\ camp.lifecycle # "BUILDING" /\ camp.id # None
    /\ \A m \in Members : mem[m].exec # "RESERVED"

\* Nothing is sent, or about to be, from a campaign that is not sealed.
SealInv ==
    /\ camp.lifecycle = "SEALED" => Sealed
    /\ \A i \in 1..Len(remote) : Sending(i) => Sealed
    /\ \A m \in Members : mem[m].exec = "QUEUED" \/ mem[m].seq = "WAITING_STEP2" \/ mails[m] > 0
                          => Sealed
    /\ events # {} => Sealed
    /\ \A o \in Activations : op[o].state # "NONE" => Sealed

\* The import of m's lead is under way and has landed.
Landed(m) ==
    /\ op[AddLead(m)].state \in {"IN_FLIGHT", "RECONCILE_REQUIRED"}
    /\ ~(wk.op = AddLead(m) /\ wk.pc \in {"claimed", "call"})

\* A lead and its row: until its import is settled the row is RESERVED, and
\* then, if no read-back was refused, it knows the lead.
LeadInvOf(m) ==
    /\ leads[m] # 0 => /\ leads[m] = camp.id /\ mem[m].exec # "NONE"
                       /\ op[Create].state = "CONFIRMED"
    /\ mem[m].lead # None => mem[m].lead = camp.id
    /\ wk.op = AddLead(m) =>
          /\ wk.pc \in {"call", "read", "bind"} => mem[m].exec = "RESERVED"
          /\ wk.pc \in Called => leads[m] = camp.id
          /\ wk.pc \in {"read", "bind"} => wk.id = camp.id
          /\ wk.pc = "confirm" => mem[m].lead = camp.id /\ mem[m].exec \notin {"NONE", "RESERVED"}
    /\ mem[m].exec \in {"NONE", "RESERVED"} => op[AddLead(m)].state # "CONFIRMED"
    /\ limited = 0 /\ leads[m] # 0 =>
          IF mem[m].exec = "RESERVED" THEN Landed(m) ELSE mem[m].lead = leads[m]

LeadInv == \A m \in Members : LeadInvOf(m)

\* What the worker has asked for is there; a lead is never paused by a call.
CalledInv ==
    /\ wk.op \in Activations /\ wk.pc \in Called => remote[camp.id] = "active"
    /\ wk.op \in Pauses /\ wk.pc \in Called => remote[camp.id] = "paused"
    /\ wk.op = Configure /\ wk.pc = "confirm" => camp.configured = TRUE
    /\ wk.op \in LeadPauses => wk.pc \notin Called
    /\ \A m \in Members : op[PauseLead(m)].state = "CONFIRMED" => m \in over

StoppedBound(m) ==
    mem[m].exec \in {"STOPPED", "FAILED"} /\ mem[m].lead # None /\ m \notin over

\* As long as no pause is planned: the one activation is not tried again while
\* the campaign sends, and nobody stopped is in the way of a sending campaign
\* or of the call that makes it one.
UnplannedInv ==
    ~PausePlanned =>
    /\ camp.lifecycle # "PAUSED" /\ op[Activate("release")].state = "NONE"
    /\ Known /\ Sending(camp.id) =>
          /\ op[Activate("config")].state \in {"IN_FLIGHT", "RECONCILE_REQUIRED", "CONFIRMED"}
          /\ ~(wk.op = Activate("config") /\ wk.pc \in {"claimed", "call"})
    /\ /\ kill = FALSE
       /\ \/ Known /\ Sending(camp.id)
          \/ wk.op \in Activations /\ wk.pc = "call"
       => \A m \in Members : ~StoppedBound(m)

StopInv ==
    /\ CampaignOK /\ RowsOK
    /\ KnownInv /\ SealInv /\ LeadInv /\ CalledInv /\ UnplannedInv

\* The invariant says that stops hold.
LEMMA StopInvImplies == ASSUME StopInv PROVE StopsHold
<1>1. ASSUME NEW m \in Members, mem[m].exec = "STOPPED", leads[m] # 0, limited = 0
      PROVE  mem[m].lead = leads[m]
  BY <1>1 DEF StopInv, LeadInv, LeadInvOf
<1>2. ASSUME NEW m \in Members, StoppedButMailable(m), ~kill
      PROVE  PausePlanned
  <2>1. leads[m] = camp.id /\ Known
    BY <1>2 DEF StopInv, LeadInv, LeadInvOf, StoppedButMailable, KnownInv
  <2>2. StoppedBound(m) /\ Sending(camp.id)
    <3>1. leads[m] \in Nat
      BY DEF StopInv, RowsOK
    <3> QED BY <1>2, <2>1, <3>1, CampaignAssumption DEF StoppedButMailable, StoppedBound
  <2>3. kill = FALSE
    BY <1>2 DEF StopInv, RowsOK
  <2> QED BY <2>1, <2>2, <2>3 DEF StopInv, UnplannedInv
<1>3. kill \in BOOLEAN
  BY DEF StopInv, RowsOK
<1> QED BY <1>1, <1>2, <1>3 DEF StopsHold, StoppedUnexposed, StopReachesProvider

\* The kinds of operations.
LEMMA Kinds ==
    /\ \A m \in Members : AddLead(m) \in Adds /\ PauseLead(m) \in LeadPauses
    /\ \A m \in Members : AddLead(m)[2] = m /\ PauseLead(m)[2] = m
    /\ \A o \in Adds : o[2] \in Members /\ o = AddLead(o[2])
    /\ \A o \in LeadPauses : o[2] \in Members /\ o = PauseLead(o[2])
    /\ Activations = {Activate("config"), Activate("release")}
    /\ Activate("config") # Activate("release")
    /\ Pause("config") \in Pauses /\ Pause("hold") \in Pauses /\ Pause("stop") \in Pauses
    /\ Adds \cap (LeadPauses \cup Activations \cup Pauses \cup {Create, Configure}) = {}
    /\ LeadPauses \cap (Activations \cup Pauses \cup {Create, Configure}) = {}
    /\ Activations \cap (Pauses \cup {Create, Configure}) = {}
    /\ Pauses \cap {Create, Configure} = {}
    /\ Ops = {Create, Configure} \cup Adds \cup LeadPauses \cup Activations \cup Pauses
BY DEF Ops, Create, Configure, Adds, LeadPauses, Activations, Pauses, AddLead, PauseLead,
   Activate, Pause

\* Everything around the worker leaves the worker, Instantly's campaigns and
\* leads, and the bindings alone.
Around ==
    /\ UNCHANGED <<wk, remote, leads, limited>>
    /\ Plans(op, op') /\ RowsOK'
    /\ camp'.id = camp.id /\ camp'.configured = camp.configured
    /\ over \subseteq over' /\ (kill' = FALSE => kill = FALSE)
    /\ \A m \in Members : mem'[m].lead = mem[m].lead

\* A row is reserved while the batch is open, and stays so until its import is
\* settled.
RowsAround ==
    \A m \in Members :
       /\ mem'[m].exec = "RESERVED" =>
             mem[m].exec = "RESERVED" \/ (mem[m].exec = "NONE" /\ camp.lifecycle = "BUILDING")
       /\ mem[m].exec = "RESERVED" => mem'[m].exec = "RESERVED"
       /\ mem'[m].exec = "NONE" => mem[m].exec = "NONE"

\* The batch is sealed, or its lifecycle stays.
LifeAround ==
    \/ camp'.lifecycle = camp.lifecycle
    \/ camp.lifecycle = "BUILDING" /\ camp'.lifecycle \in {"SEALED", "FAILED"} /\ Sealed'

\* Only a sealed campaign comes nearer to a mail.
MailAround ==
    /\ \A m \in Members :
          mem'[m].exec = "QUEUED" \/ mem'[m].seq = "WAITING_STEP2" \/ mails'[m] > 0 => Sealed'
    /\ events' # {} => Sealed'
    /\ \A o \in Activations : op'[o].state # "NONE" => Sealed'

\* A stop beside the worker comes with a pause, or before anything is sent.
StopsAround ==
    /\ PausePlanned' => Known
    /\ ~PausePlanned' => op'[Activate("release")].state = "NONE"
    /\ \A m \in Members : StoppedBound(m)' /\ ~PausePlanned' =>
          StoppedBound(m) \/ camp.lifecycle = "BUILDING"

\* A row that is there stays; nothing planned comes nearer to confirmation.
LEMMA PlansKeep ==
    ASSUME CampaignOK, Plans(op, op')
    PROVE  /\ \A o \in Ops : op[o].state # "NONE" => op'[o] = op[o]
           /\ \A o \in Ops : op'[o].state \notin {"NONE", "PLANNED"} => op'[o] = op[o]
           /\ PausePlanned => PausePlanned'
<1>1. /\ \A o \in Ops : op[o].state # "NONE" => op'[o] = op[o]
      /\ \A o \in Ops : op'[o].state \notin {"NONE", "PLANNED"} => op'[o] = op[o]
  BY DEF Plans
<1>2. PausePlanned => PausePlanned'
  BY <1>1, Keys DEF PausePlanned
<1> QED BY <1>1, <1>2

\* Steps around the worker keep the invariant.
LEMMA AroundKeeps ==
    ASSUME StopInv, Around, RowsAround, LifeAround, MailAround, StopsAround
    PROVE  StopInv'
<1>0. CampaignOK /\ RowsOK /\ KnownInv /\ SealInv /\ LeadInv /\ CalledInv /\ UnplannedInv
  BY DEF StopInv
<1>a. /\ \A o \in Ops : op[o].state # "NONE" => op'[o] = op[o]
      /\ \A o \in Ops : op'[o].state \notin {"NONE", "PLANNED"} => op'[o] = op[o]
      /\ PausePlanned => PausePlanned'
  BY <1>0, PlansKeep DEF Around
<1>b. /\ wk' = wk /\ remote' = remote /\ leads' = leads /\ limited' = limited
      /\ camp'.id = camp.id /\ camp'.configured = camp.configured
      /\ over \subseteq over' /\ (kill' = FALSE => kill = FALSE)
      /\ \A m \in Members : mem'[m].lead = mem[m].lead
      /\ op' \in [Ops -> OpRow] /\ RowsOK'
  BY DEF Around, Plans
<1>1. CampaignOK'
  BY <1>0, <1>a, <1>b DEF CampaignOK, WorkerOK
<1>k. Known' <=> Known
  BY <1>b DEF Known
<1>s. Sealed => Sealed'
  BY <1>b DEF Sealed, RowsAround, LifeAround
<1>2. KnownInv'
  <2>1. \A o \in {Configure} \cup Adds :
           op'[o].state \notin {"NONE", "PLANNED"} => op'[Create].state = "CONFIRMED"
    BY <1>0, <1>a, Keys DEF KnownInv
  <2>2. op'[Create].state = "CONFIRMED" => op[Create].state = "CONFIRMED"
    BY <1>a, Keys
  <2> QED BY <1>0, <1>b, <1>k, <2>1, <2>2 DEF KnownInv, StopsAround
<1>3. SealInv'
  <2>1. camp'.lifecycle = "SEALED" => Sealed'
    BY <1>0, <1>s DEF SealInv, LifeAround
  <2>2. \A i \in 1..Len(remote') : Sending(i)' => Sealed'
    BY <1>0, <1>b, <1>s DEF SealInv, Sending
  <2> QED BY <2>1, <2>2 DEF SealInv, MailAround
<1>4. ASSUME NEW m \in Members PROVE LeadInvOf(m)'
  <2>0. LeadInvOf(m) /\ AddLead(m) \in Ops /\ Create \in Ops
    BY <1>0, Keys DEF LeadInv
  <2>1. /\ mem'[m].lead = mem[m].lead /\ leads'[m] = leads[m]
        /\ mem'[m].exec = "NONE" => mem[m].exec = "NONE"
        /\ mem[m].exec = "RESERVED" => mem'[m].exec = "RESERVED"
        /\ mem'[m].exec = "RESERVED" => mem[m].exec \in {"RESERVED", "NONE"}
    BY <1>b DEF RowsAround
  <2>2. mem'[m].exec = "RESERVED" => mem[m].exec = "RESERVED" \/ leads[m] = 0
    BY <2>0, <2>1 DEF LeadInvOf
  <2>3. op[Create].state = "CONFIRMED" => op'[Create].state = "CONFIRMED"
    BY <1>a, <2>0
  <2>4. mem'[m].exec \in {"NONE", "RESERVED"} => op'[AddLead(m)].state # "CONFIRMED"
    BY <1>a, <2>0, <2>1 DEF LeadInvOf
  <2>5. Landed(m) => Landed(m)'
    BY <1>a, <1>b, <2>0 DEF Landed
  <2>6. /\ wk' = wk /\ limited' = limited /\ camp'.id = camp.id
    BY <1>b
  <2> QED BY <2>0, <2>1, <2>2, <2>3, <2>4, <2>5, <2>6 DEF LeadInvOf
<1>5. CalledInv'
  <2>1. \A m \in Members : op'[PauseLead(m)].state = "CONFIRMED" => m \in over'
    BY <1>0, <1>a, <1>b, Keys DEF CalledInv
  <2> QED BY <1>0, <1>b, <2>1 DEF CalledInv
<1>6. UnplannedInv'
  <2> SUFFICES ASSUME ~PausePlanned' PROVE UnplannedInv'
    BY DEF UnplannedInv
  <2>0. ~PausePlanned
    BY <1>a
  <2>1. camp'.lifecycle # "PAUSED" /\ op'[Activate("release")].state = "NONE"
    BY <1>0, <2>0 DEF UnplannedInv, LifeAround, StopsAround
  <2>2. Known' /\ Sending(camp.id)' =>
          /\ op'[Activate("config")].state \in {"IN_FLIGHT", "RECONCILE_REQUIRED", "CONFIRMED"}
          /\ ~(wk'.op = Activate("config") /\ wk'.pc \in {"claimed", "call"})
    <3>1. Activate("config") \in Ops
      BY Kinds
    <3> QED BY <1>0, <1>a, <1>b, <1>k, <2>0, <3>1 DEF UnplannedInv, Sending
  <2>3. ASSUME kill' = FALSE,
               \/ Known' /\ Sending(camp.id)'
               \/ wk'.op \in Activations /\ wk'.pc = "call"
        PROVE  \A m \in Members : ~StoppedBound(m)'
    <3>1. kill = FALSE /\ ((Known /\ Sending(camp.id)) \/ (wk.op \in Activations /\ wk.pc = "call"))
      BY <1>b, <1>k, <2>3 DEF Sending
    <3>2. camp.lifecycle # "BUILDING"
      BY <1>0, <3>1 DEF SealInv, Known, Sealed, CampaignOK, WorkerOK
    <3> QED BY <1>0, <2>0, <3>1, <3>2 DEF UnplannedInv, StopsAround
  <2> QED BY <2>1, <2>2, <2>3 DEF UnplannedInv
<1> QED BY <1>1, <1>2, <1>3, <1>4, <1>5, <1>6, <1>b DEF StopInv, LeadInv

\* Planning leaves what it is not asked for.
LEMMA PlannedOnly ==
    ASSUME NEW table \in [Ops -> OpRow], NEW S
    PROVE  /\ \A o \in Ops \ S : Planned(table, S)[o] = table[o]
           /\ \A o \in Ops \cap S : Planned(table, S)[o].state # "NONE"
BY DEF Planned, NoOp

\* The check before the second step: it stops sequences, and plans only when
\* the campaign is paused.
LEMMA ReleaseFacts ==
    ASSUME RowsOK, CampaignOK, NEW at, NEW d \in ReleaseCheck(at)
    PROVE  /\ d.mem \in [Members -> MemRow]
           /\ \A o \in Activations : d.op[o] = op[o]
           /\ \A m \in Members : /\ d.mem[m].lead = mem[m].lead /\ d.mem[m].exec = mem[m].exec
                                 /\ d.mem[m].seq = "WAITING_STEP2" => mem[m].seq = "WAITING_STEP2"
           /\ camp.lifecycle # "PAUSED" => d.op = op
           /\ d.verdict \in {"ok", "blocked"}
           /\ d.verdict = "ok" =>
                 /\ d.mem = mem /\ d.op = op /\ camp.lifecycle = "PAUSED"
                 /\ \E m \in Members : mem[m].seq = "WAITING_STEP2"
<1> DEFINE waiting == {m \in Members : mem[m].seq = "WAITING_STEP2"}
           Stopped(S) == [m \in Members |-> IF m \in S
                            THEN [mem[m] EXCEPT !.seq = "STOPPED"] ELSE mem[m]]
           ForKill == Verdict("blocked", Stopped(waiting), Planned(op, {Pause("config")}))
           ForOne(m) == Verdict("blocked", Stopped({m}),
                                Planned(op, {PauseLead(n) : n \in Bound({m})}))
           ForNow == Verdict("blocked", mem, Planned(op, {Pause("config")}))
<1>0. mem \in [Members -> MemRow]
  BY DEF RowsOK
<1>1. ASSUME NEW S
      PROVE  /\ Stopped(S) \in [Members -> MemRow]
             /\ \A m \in Members : /\ Stopped(S)[m].lead = mem[m].lead
                                   /\ Stopped(S)[m].exec = mem[m].exec
                                   /\ Stopped(S)[m].seq = "WAITING_STEP2" =>
                                         mem[m].seq = "WAITING_STEP2"
  BY <1>0 DEF MemRow
<1>2. \/ d = Same("blocked")
      \/ /\ camp.lifecycle = "PAUSED" /\ waiting # {}
         /\ \/ d = Same("ok") \/ d = ForKill \/ d = ForNow
            \/ \E m \in waiting \ valid : d = ForOne(m)
  BY DEF ReleaseCheck
<1>a. \A v, r, t : /\ Verdict(v, r, t).verdict = v /\ Verdict(v, r, t).mem = r
                   /\ Verdict(v, r, t).op = t
  BY DEF Verdict
<1>b. /\ \A a \in Activations : Planned(op, {Pause("config")})[a] = op[a]
      /\ \A m : \A a \in Activations :
            Planned(op, {PauseLead(n) : n \in Bound({m})})[a] = op[a]
  <2>1. op \in [Ops -> OpRow] /\ Activations \subseteq Ops
    BY Kinds DEF CampaignOK
  <2>2. Activations \cap {Pause("config")} = {}
    BY Kinds
  <2>3. ASSUME NEW m PROVE Activations \cap {PauseLead(n) : n \in Bound({m})} = {}
    <3>1. \A n : PauseLead(n) \notin Activations
      BY DEF PauseLead, Activations, Activate
    <3> QED BY <3>1
  <2>4. \A S : Activations \cap S = {} => \A a \in Activations : Planned(op, S)[a] = op[a]
    BY <2>1, PlannedOnly
  <2> QED BY <2>2, <2>3, <2>4
<1> HIDE DEF Stopped
<1>3. CASE d = Same("blocked")
  BY <1>0, <1>3, <1>a DEF Same
<1>4. CASE d = Same("ok") /\ camp.lifecycle = "PAUSED" /\ waiting # {}
  BY <1>0, <1>4, <1>a DEF Same
<1>5. ASSUME NEW r, NEW t, d = Verdict("blocked", r, t), r = mem \/ \E S : r = Stopped(S),
             camp.lifecycle = "PAUSED", \A a \in Activations : t[a] = op[a]
      PROVE  /\ d.mem \in [Members -> MemRow] /\ d.verdict = "blocked"
             /\ \A a \in Activations : d.op[a] = op[a]
             /\ \A m \in Members : /\ d.mem[m].lead = mem[m].lead /\ d.mem[m].exec = mem[m].exec
                                   /\ d.mem[m].seq = "WAITING_STEP2" =>
                                         mem[m].seq = "WAITING_STEP2"
  <2>1. d.mem = r /\ d.verdict = "blocked" /\ d.op = t
    BY <1>5 DEF Verdict
  <2>2. CASE r = mem
    BY <1>0, <1>5, <2>1, <2>2
  <2>3. CASE \E S : r = Stopped(S)
    BY <1>1, <1>5, <2>1, <2>3
  <2> QED BY <1>5, <2>2, <2>3, <2>1
<1>6. CASE /\ camp.lifecycle = "PAUSED"
           /\ d = ForKill \/ d = ForNow \/ \E m \in waiting \ valid : d = ForOne(m)
  <2>1. \E r, t : /\ d = Verdict("blocked", r, t) /\ (r = mem \/ \E S : r = Stopped(S))
                  /\ \A a \in Activations : t[a] = op[a]
    <3>1. CASE d = ForKill
      BY <1>b, <3>1, Zenon
    <3>2. CASE d = ForNow
      BY <1>b, <3>2, Zenon
    <3>3. CASE \E m \in waiting \ valid : d = ForOne(m)
      <4>1. PICK m : d = ForOne(m)
        BY <3>3
      <4> DEFINE r == Stopped({m})
                 t == Planned(op, {PauseLead(n) : n \in Bound({m})})
      <4>2. d = Verdict("blocked", r, t) /\ \A a \in Activations : t[a] = op[a]
        BY <1>b, <4>1
      <4>3. \E S : r = Stopped(S)
        OBVIOUS
      <4> HIDE DEF r, t
      <4> QED BY <4>2, <4>3
    <3> QED BY <1>6, <3>1, <3>2, <3>3
  <2> QED BY <1>5, <1>6, <2>1
<1> QED BY <1>2, <1>3, <1>4, <1>6

\* Steps that touch neither rows nor operations.
LEMMA StopsOutside ==
    ASSUME StopInv,
           \/ \E m \in Members : ProviderSends(m) \/ RecipientStops(m) \/ Withdraw(m)
           \/ TimePasses \/ ActivateKillSwitch \/ UNCHANGED campaignVars
    PROVE  StopInv'
<1>0. CampaignOK /\ RowsOK /\ KnownInv /\ SealInv /\ LeadInv /\ UnplannedInv
  BY DEF StopInv
<1>1. UNCHANGED <<camp, mem, op, wk, remote, leads, limited>>
  BY DEF ProviderSends, RecipientStops, Withdraw, TimePasses, ActivateKillSwitch, campaignVars,
     rows, instantly
<1>2. /\ mails' \in [Members -> Nat] /\ kill' \in BOOLEAN /\ (kill' = FALSE => kill = FALSE)
      /\ over \subseteq over' /\ \A e \in events' : e.of \in Members
      /\ \A m \in Members : mails'[m] > 0 => mails[m] > 0 \/ Sealed
      /\ events' # {} => events # {} \/ Sealed
  <2>1. CASE \E m \in Members : ProviderSends(m)
    <3>1. PICK m \in Members : ProviderSends(m)
      BY <2>1
    <3>2. leads[m] = camp.id /\ Known /\ Sending(leads[m])
      BY <1>0, <3>1 DEF ProviderSends, LeadInv, LeadInvOf, KnownInv
    <3>3. Sealed
      BY <1>0, <3>2 DEF SealInv, Known
    <3>4. mails' \in [Members -> Nat] /\ \A e \in events' : e.of \in Members
      BY <1>0, <3>1 DEF ProviderSends, RowsOK
    <3> QED BY <1>0, <3>1, <3>3, <3>4 DEF ProviderSends, RowsOK, world
  <2>2. CASE \E m \in Members : RecipientStops(m)
    BY <1>0, <2>2 DEF RecipientStops, RowsOK, SealInv
  <2>3. CASE \/ \E m \in Members : Withdraw(m)
             \/ TimePasses \/ ActivateKillSwitch \/ UNCHANGED campaignVars
    BY <1>0, <2>3 DEF Withdraw, TimePasses, ActivateKillSwitch, campaignVars, RowsOK, instantly
  <2> QED BY <2>1, <2>2, <2>3
<1>3. Sealed' <=> Sealed
  BY <1>1 DEF Sealed
<1>4. Plans(op, op')
  BY <1>0, <1>1, PlansSame DEF CampaignOK
<1>5. RowsOK' /\ Around
  BY <1>0, <1>1, <1>2, <1>4 DEF RowsOK, Around
<1>6. RowsAround /\ LifeAround
  BY <1>1 DEF RowsAround, LifeAround
<1>7. MailAround
  BY <1>0, <1>1, <1>2, <1>3 DEF MailAround, SealInv
<1>8. StopsAround
  <2>1. (PausePlanned' <=> PausePlanned) /\ \A m \in Members : StoppedBound(m)' => StoppedBound(m)
    BY <1>1, <1>2 DEF PausePlanned, StoppedBound
  <2> QED BY <1>0, <1>1, <2>1 DEF StopsAround, KnownInv, UnplannedInv
<1> QED BY <1>5, <1>6, <1>7, <1>8, AroundKeeps

\* What planning a set of operations means for the pauses.
LEMMA PlannedPauses ==
    ASSUME CampaignOK, NEW S, op' = Planned(op, S)
    PROVE  /\ Plans(op, op')
           /\ S \cap Pauses = {} => (PausePlanned' <=> PausePlanned)
           /\ S \cap Pauses # {} => PausePlanned'
           /\ \A o \in Ops \ S : op'[o] = op[o]
<1>1. op \in [Ops -> OpRow]
  BY DEF CampaignOK
<1>2. Plans(op, op')
  BY <1>1, PlannedPlans
<1>3. /\ \A o \in Ops \ S : op'[o] = op[o]
      /\ \A o \in Ops \cap S : op'[o].state # "NONE"
  BY <1>1, PlannedOnly
<1>4. Pauses \subseteq Ops
  BY Kinds
<1> QED BY <1>2, <1>3, <1>4 DEF PausePlanned

\* A member is reserved, or the batch closed.
LEMMA StopsReserve ==
    ASSUME StopInv, CloseDueBatches \/ \E m \in Members : ReserveMember(m)
    PROVE  StopInv'
<1>0. CampaignOK /\ RowsOK /\ KnownInv /\ SealInv /\ LeadInv /\ UnplannedInv
  BY DEF StopInv
<1>1. /\ UNCHANGED <<wk, remote, leads, limited, over, mails, events, kill>>
      /\ camp.lifecycle = "BUILDING"
      /\ camp'.lifecycle = camp.lifecycle /\ camp'.id = camp.id
      /\ camp'.configured = camp.configured /\ DOMAIN camp' = DOMAIN camp
  BY ZenonT(60), <1>0 DEF CloseDueBatches, ReserveMember, RowsOK, instantly, world
<1>2. /\ mem' \in [Members -> MemRow]
      /\ \A m \in Members : \/ mem'[m] = mem[m]
                            \/ /\ mem[m].exec = "NONE" /\ mem'[m].exec = "RESERVED"
                               /\ mem'[m].lead = mem[m].lead /\ mem'[m].seq = "PENDING_STEP1"
  <2>1. CASE CloseDueBatches
    BY <1>0, <2>1 DEF CloseDueBatches, RowsOK
  <2>2. ASSUME NEW m \in Members, ReserveMember(m) PROVE <1>2!1 /\ <1>2!2
    <3>1. mem[m].exec = "NONE" /\ mem[m] \in MemRow /\ mem \in [Members -> MemRow]
      BY <1>0, <2>2 DEF ReserveMember, RowsOK
    <3>2. mem' = [mem EXCEPT ![m] = [mem[m] EXCEPT !.exec = "RESERVED", !.seq = "PENDING_STEP1"]]
      BY <2>2, <3>1 DEF ReserveMember, MemRow
    <3> QED BY <3>1, <3>2 DEF MemRow
  <2> QED BY <2>1, <2>2
<1>3. /\ Plans(op, op') /\ (PausePlanned' <=> PausePlanned)
      /\ \A o \in Activations : op'[o] = op[o]
  <2>1. CASE CloseDueBatches
    <3>1. op' = op /\ op \in [Ops -> OpRow]
      BY <1>0, <2>1 DEF CloseDueBatches, CampaignOK
    <3> QED BY <3>1, PlansSame DEF PausePlanned
  <2>2. ASSUME NEW m \in Members, ReserveMember(m) PROVE <1>3!1 /\ <1>3!2
    <3>1. op' = Planned(op, {Create, Configure, AddLead(m)})
      BY <2>2 DEF ReserveMember
    <3>2. /\ {Create, Configure, AddLead(m)} \cap Pauses = {}
          /\ Activations \subseteq Ops \ {Create, Configure, AddLead(m)}
      BY Kinds
    <3> QED BY <1>0, <3>1, <3>2, PlannedPauses
  <2> QED BY <2>1, <2>2
<1>4. ~Sealed /\ (Sealed' <=> FALSE)
  BY <1>1 DEF Sealed
<1>5. Around
  BY <1>0, <1>1, <1>2, <1>3 DEF Around, RowsOK
<1>6. RowsAround /\ LifeAround
  BY <1>1, <1>2 DEF RowsAround, LifeAround
<1>7. MailAround
  BY <1>0, <1>1, <1>2, <1>3, <1>4 DEF MailAround, SealInv
<1>8. StopsAround
  BY <1>0, <1>1, <1>3, Kinds DEF StopsAround, KnownInv, UnplannedInv
<1> QED BY <1>5, <1>6, <1>7, <1>8, AroundKeeps

\* The batch is sealed.
LEMMA StopsSeal == ASSUME StopInv, QueueAndSeal PROVE StopInv'
<1>0. CampaignOK /\ RowsOK /\ KnownInv /\ SealInv /\ LeadInv /\ UnplannedInv
  BY DEF StopInv
<1> DEFINE enrolled == {m \in Members : mem[m].exec = "ENROLLED"}
           retained == enrolled \intersect valid
           rejected == enrolled \ valid
<1>1. /\ UNCHANGED <<wk, remote, leads, limited, over, mails, events, kill>>
      /\ camp.lifecycle = "BUILDING" /\ camp.id # None
      /\ \A m \in Members : mem[m].exec # "RESERVED"
  BY DEF QueueAndSeal, ReadyToSeal, instantly, world
<1>2. /\ camp'.lifecycle \in {"SEALED", "FAILED"} /\ camp'.id = camp.id
      /\ camp'.configured = camp.configured /\ DOMAIN camp' = DOMAIN camp
  BY <1>0 DEF QueueAndSeal, RowsOK
<1>3. /\ mem' \in [Members -> MemRow]
      /\ \A m \in Members : \/ mem'[m] = mem[m]
                            \/ /\ mem'[m].exec \in {"QUEUED", "STOPPED"}
                               /\ mem'[m].lead = mem[m].lead
  <2>1. mem \in [Members -> MemRow]
    BY <1>0 DEF RowsOK
  <2>2. mem' = [m \in Members |->
               IF m \in retained THEN [mem[m] EXCEPT !.exec = "QUEUED"]
               ELSE IF m \in rejected
                 THEN [mem[m] EXCEPT !.exec = "STOPPED", !.seq = "STOPPED"]
               ELSE mem[m]]
    BY DEF QueueAndSeal
  <2> HIDE DEF retained, rejected
  <2> QED BY ZenonT(60), <2>1, <2>2 DEF MemRow
<1>4. /\ Plans(op, op') /\ (PausePlanned' <=> PausePlanned)
      /\ op'[Activate("release")] = op[Activate("release")]
  <2> DEFINE S == {PauseLead(m) : m \in Bound(rejected)} \union
                  (IF retained = {} THEN {} ELSE {Activate("config")})
  <2>1. op' = Planned(op, S)
    BY DEF QueueAndSeal
  <2>2. S \subseteq LeadPauses \cup {Activate("config")}
    BY DEF Bound, LeadPauses
  <2> HIDE DEF S
  <2>3. S \cap Pauses = {} /\ Activate("release") \in Ops \ S
    BY <2>2, Kinds
  <2> QED BY <1>0, <2>1, <2>3, PlannedPauses
<1>5. Sealed'
  BY <1>1, <1>2, <1>3 DEF Sealed
<1>6. Around
  BY <1>0, <1>1, <1>2, <1>3, <1>4 DEF Around, RowsOK
<1>7. RowsAround /\ LifeAround
  BY <1>1, <1>2, <1>3, <1>5 DEF RowsAround, LifeAround
<1>8. MailAround
  BY <1>5 DEF MailAround
<1>9. StopsAround
  BY <1>0, <1>1, <1>4 DEF StopsAround, KnownInv, UnplannedInv
<1> QED BY <1>6, <1>7, <1>8, <1>9, AroundKeeps

\* In a sealed campaign a step beside the worker may stop anybody, if it plans
\* a pause.
LEMMA StopsWhenSealed ==
    ASSUME StopInv, Sealed, UNCHANGED <<camp, wk, remote, leads, limited, over, mails, kill>>,
           mem' \in [Members -> MemRow], events' \subseteq events, Plans(op, op'),
           \A m \in Members : /\ mem'[m].lead = mem[m].lead
                              /\ mem'[m].exec \notin {"NONE", "RESERVED"} \/ mem'[m].exec = mem[m].exec,
           PausePlanned'
    PROVE  StopInv'
<1>0. CampaignOK /\ RowsOK /\ KnownInv /\ SealInv /\ LeadInv /\ UnplannedInv
  BY DEF StopInv
<1>1. Known /\ camp.lifecycle # "BUILDING"
  BY <1>0 DEF Sealed, KnownInv
<1>2. Sealed'
  BY DEF Sealed
<1>3. Around
  BY <1>0 DEF Around, RowsOK
<1>4. RowsAround /\ LifeAround
  BY DEF RowsAround, LifeAround, Sealed
<1>5. MailAround
  BY <1>2 DEF MailAround
<1>6. StopsAround
  BY <1>1 DEF StopsAround
<1> QED BY <1>3, <1>4, <1>5, <1>6, AroundKeeps

\* The webhooks.
LEMMA StopsEvents ==
    ASSUME StopInv, NEW e \in events, EmailSent(e) \/ StopMember(e)
    PROVE  StopInv'
<1>0. CampaignOK /\ RowsOK /\ SealInv
  BY DEF StopInv
<1>1. /\ UNCHANGED <<camp, wk, remote, leads, limited, over, mails, kill>>
      /\ events' \subseteq events /\ Sealed /\ e.of \in Members
      /\ mem \in [Members -> MemRow] /\ op \in [Ops -> OpRow]
  BY <1>0 DEF EmailSent, StopMember, SealInv, RowsOK, CampaignOK, world
<1>2. CASE EmailSent(e)
  <2> DEFINE m == e.of
  <2>1. PICK x \in MemRow : /\ mem' = [mem EXCEPT ![m] = x] /\ x.lead = mem[m].lead
                            /\ x.exec = "SENT" \/ x.exec = mem[m].exec
    <3>0. mem[m] \in MemRow
      BY <1>1
    <3>1. CASE e.step = 1
      <4> DEFINE q == IF mem[m].exec = "QUEUED" /\ e.timely THEN "WAITING_STEP2" ELSE "STOPPED"
                 x == [mem[m] EXCEPT !.exec = "SENT", !.seq = q]
      <4>1. mem' = [mem EXCEPT ![m] = x]
        BY <1>1, <1>2, <3>0, <3>1 DEF EmailSent, MemRow
      <4>2. x \in MemRow /\ x.lead = mem[m].lead /\ x.exec = "SENT"
        BY <3>0 DEF MemRow
      <4> QED BY <4>1, <4>2
    <3>2. CASE e.step # 1
      <4> DEFINE x == [mem[m] EXCEPT !.seq = "COMPLETED"]
      <4>1. mem' = [mem EXCEPT ![m] = x]
        BY <1>2, <3>2 DEF EmailSent, AfterStep2
      <4>2. x \in MemRow /\ x.lead = mem[m].lead /\ x.exec = mem[m].exec
        BY <3>0 DEF MemRow
      <4> QED BY <4>1, <4>2
    <3> QED BY <3>1, <3>2
  <2>2. mem' \in [Members -> MemRow]
    BY <1>1, <2>1
  <2>3. \A n \in Members : /\ mem'[n].lead = mem[n].lead
                           /\ mem'[n].exec = "SENT" \/ mem'[n].exec = mem[n].exec
    BY <1>1, <2>1
  <2>4. op' = op \/ op' = Planned(op, {Pause("hold")})
    BY <1>2 DEF EmailSent
  <2>5. Pause("hold") \in Pauses /\ Activate("release") \in Ops \ {Pause("hold")}
    BY Kinds
  <2>6. /\ Plans(op, op')
        /\ op'[Activate("release")] = op[Activate("release")]
    BY <1>0, <1>1, <2>4, <2>5, PlansSame, PlannedPauses
  <2>7. RowsOK' /\ UNCHANGED <<camp, wk, remote, leads, limited, over, mails, kill>>
    BY <1>0, <1>1, <2>2 DEF RowsOK
  <2>8. Around /\ RowsAround /\ LifeAround
    BY <1>1, <2>3, <2>6, <2>7 DEF Around, RowsAround, LifeAround, Sealed
  <2>9. Sealed'
    BY <1>1, <2>3 DEF Sealed
  <2>10. MailAround
    BY <2>9 DEF MailAround
  <2>11. StopsAround
    <3>1. Known /\ (~PausePlanned' => ~PausePlanned)
      BY <1>0, <1>1, <2>6, PlansKeep DEF StopInv, KnownInv, Sealed
    <3>2. \A n \in Members : StoppedBound(n)' => StoppedBound(n)
      BY <1>1, <2>3 DEF StoppedBound
    <3> QED BY <2>6, <3>1, <3>2 DEF StopsAround, StopInv, UnplannedInv
  <2> QED BY <2>8, <2>10, <2>11, AroundKeeps
<1>3. CASE StopMember(e)
  <2> DEFINE m == e.of
             y == IF mem[m].exec = "SENT" THEN "SENT" ELSE "STOPPED"
             x == [mem[m] EXCEPT !.exec = y, !.seq = "STOPPED"]
  <2>0. mem[m] \in MemRow
    BY <1>1
  <2>1. mem' = [mem EXCEPT ![m] = x]
    BY <1>1, <1>3, <2>0 DEF StopMember, MemRow
  <2>2. x \in MemRow /\ x.lead = mem[m].lead /\ x.exec \in {"SENT", "STOPPED"}
    BY <2>0 DEF MemRow
  <2> HIDE DEF x, y
  <2>3. /\ mem' \in [Members -> MemRow]
        /\ \A n \in Members : /\ mem'[n].lead = mem[n].lead
                              /\ mem'[n].exec \notin {"NONE", "RESERVED"} \/ mem'[n].exec = mem[n].exec
    BY <1>1, <2>1, <2>2
  <2>4. op' = Planned(op, StopPlans(m)) /\ Pause("stop") \in StopPlans(m) /\ Pause("stop") \in Pauses
    BY <1>3, Kinds DEF StopMember, StopPlans
  <2>5. Plans(op, op') /\ PausePlanned'
    BY <1>0, <2>4, PlannedPauses
  <2> QED BY <1>1, <2>3, <2>5, StopsWhenSealed
<1> QED BY <1>2, <1>3

\* The windows close.
LEMMA StopsExpire == ASSUME StopInv, ExpireAuthorizationWindows PROVE StopInv'
<1>0. CampaignOK /\ RowsOK /\ SealInv
  BY DEF StopInv
<1> DEFINE first == {m \in Members : clock > 0 /\ mem[m].exec = "QUEUED"
                                     /\ mem[m].seq = "PENDING_STEP1"}
           second == {m \in Members : clock > 1 /\ mem[m].exec = "SENT"
                                      /\ mem[m].seq = "WAITING_STEP2"}
           S == {PauseLead(m) : m \in Bound(first)} \union {Pause("config")}
<1>1. Sealed
  <2>1. PICK m \in Members : mem[m].exec = "QUEUED" \/ mem[m].seq = "WAITING_STEP2"
    BY DEF ExpireAuthorizationWindows
  <2> QED BY <1>0, <2>1 DEF SealInv
<1>2. UNCHANGED <<camp, wk, remote, leads, limited, over, mails, kill>> /\ events' = events
  BY DEF ExpireAuthorizationWindows, instantly, world
<1>3. mem' = [m \in Members |->
               IF m \in first
                 THEN [mem[m] EXCEPT !.exec = "FAILED", !.seq = "FAILED"]
               ELSE IF m \in second THEN [mem[m] EXCEPT !.seq = "FAILED"]
               ELSE mem[m]]
  BY DEF ExpireAuthorizationWindows
<1>4. op' = Planned(op, S) /\ Pause("config") \in S \cap Pauses
  BY Kinds DEF ExpireAuthorizationWindows
<1> HIDE DEF first, second, S
<1>5. /\ mem' \in [Members -> MemRow]
      /\ \A m \in Members : /\ mem'[m].lead = mem[m].lead
                            /\ mem'[m].exec \notin {"NONE", "RESERVED"} \/ mem'[m].exec = mem[m].exec
  <2>1. mem \in [Members -> MemRow]
    BY <1>0 DEF RowsOK
  <2> QED BY ZenonT(60), <1>3, <2>1 DEF MemRow
<1>6. Plans(op, op') /\ PausePlanned'
  BY <1>0, <1>4, PlannedPauses
<1> QED BY <1>1, <1>2, <1>5, <1>6, StopsWhenSealed

\* The release of the second step.
LEMMA StopsRelease == ASSUME StopInv, PlanStep2Release PROVE StopInv'
<1>0. CampaignOK /\ RowsOK /\ SealInv /\ KnownInv /\ UnplannedInv /\ op \in [Ops -> OpRow]
  BY DEF StopInv, CampaignOK
<1>1. PICK c \in ReleaseCheck(clock) :
         /\ mem' = c.mem
         /\ op' = IF c.verdict = "ok" /\ remote[camp.id] = "paused"
                    THEN Planned(c.op, {Activate("release")}) ELSE c.op
  BY DEF PlanStep2Release
<1>2. UNCHANGED <<camp, wk, remote, leads, limited, over, mails, events, kill>>
  BY DEF PlanStep2Release, instantly, world
<1>3. /\ mem' \in [Members -> MemRow]
      /\ \A m \in Members : /\ mem'[m].lead = mem[m].lead /\ mem'[m].exec = mem[m].exec
                            /\ mem'[m].seq = "WAITING_STEP2" => mem[m].seq = "WAITING_STEP2"
  BY <1>0, <1>1, ReleaseFacts
<1>4. Plans(op, op') /\ (camp.lifecycle # "PAUSED" => op' = op)
  <2>1. Plans(op, c.op) /\ c.op \in [Ops -> OpRow]
    BY <1>0, ReleasePlans DEF Plans
  <2>2. Plans(c.op, op')
    BY <1>1, <2>1, PlannedPlans, PlansSame
  <2>3. camp.lifecycle # "PAUSED" => op' = op
    BY <1>0, <1>1, ReleaseFacts
  <2> QED BY <2>1, <2>2, <2>3 DEF Plans
<1>5. (Sealed' <=> Sealed) /\ Around /\ RowsAround /\ LifeAround
  BY <1>0, <1>2, <1>3, <1>4 DEF Sealed, Around, RowsAround, LifeAround, RowsOK
<1>6. MailAround
  <2>1. \A o \in Activations : op'[o].state # "NONE" => Sealed
    <3>1. \A o \in Activations : c.op[o] = op[o]
      BY <1>0, ReleaseFacts
    <3>2. CASE c.verdict = "ok"
      BY <1>0, <3>2, ReleaseFacts DEF SealInv
    <3>3. CASE c.verdict # "ok"
      BY <1>0, <1>1, <3>1, <3>3 DEF SealInv
    <3> QED BY <3>2, <3>3
  <2> QED BY <1>0, <1>2, <1>3, <1>5, <2>1 DEF MailAround, SealInv
<1>7. StopsAround
  <2>1. \A m \in Members : StoppedBound(m)' => StoppedBound(m)
    BY <1>2, <1>3 DEF StoppedBound
  <2>2. CASE camp.lifecycle = "PAUSED"
    <3>1. PausePlanned /\ PausePlanned' /\ Known
      BY <1>0, <1>4, <2>2, PlansKeep DEF UnplannedInv, KnownInv
    <3> QED BY <2>1, <3>1 DEF StopsAround
  <2>3. CASE camp.lifecycle # "PAUSED"
    <3>1. op' = op
      BY <1>4, <2>3
    <3> QED BY <1>0, <2>1, <3>1 DEF StopsAround, PausePlanned, KnownInv, UnplannedInv
  <2> QED BY <2>2, <2>3
<1> QED BY <1>5, <1>6, <1>7, AroundKeeps

\* What a call does at Instantly.
LEMMA EffectFacts ==
    ASSUME StopInv, wk.pc = "call", Effect(wk.op)
    PROVE  /\ remote' \in Seq(RemoteStates) /\ Len(remote) \in Nat /\ Len(remote') \in Nat
           /\ Len(remote') = IF wk.op = Create THEN Len(remote) + 1 ELSE Len(remote)
           /\ \A i \in 1..Len(remote') : remote'[i] = "active" =>
                 wk.op \in Activations \/ (i \in 1..Len(remote) /\ remote[i] = "active")
           /\ Known /\ wk.op \in Activations => remote'[camp.id] = "active"
           /\ Known /\ wk.op \in Pauses => remote'[camp.id] = "paused"
           /\ leads' \in [Members -> Nat]
           /\ \A n \in Members : \/ leads'[n] = leads[n]
                                 \/ /\ wk.op = AddLead(n) /\ leads'[n] = camp.id
                                    /\ mem[n].exec = "RESERVED" /\ op[Create].state = "CONFIRMED"
           /\ \A n \in Members : wk.op = AddLead(n) /\ leads[n] = 0 => leads'[n] = camp.id
           /\ UNCHANGED <<over, mails, events>>
<1>0. /\ CampaignOK /\ RowsOK /\ KnownInv /\ LeadInv
      /\ wk.op \in Ops /\ op[wk.op].state = "IN_FLIGHT"
      /\ remote \in Seq(RemoteStates) /\ Len(remote) \in Nat
      /\ leads \in [Members -> Nat] /\ DOMAIN remote = 1..Len(remote)
  BY DEF StopInv, CampaignOK, WorkerOK, RowsOK
<1>1. /\ remote' \in Seq(RemoteStates)
      /\ Len(remote') = IF wk.op = Create THEN Len(remote) + 1 ELSE Len(remote)
  BY <1>0, EffectLen
<1>2. \A i \in 1..Len(remote') : remote'[i] = "active" =>
         wk.op \in Activations \/ (i \in 1..Len(remote) /\ remote[i] = "active")
  <2>1. CASE wk.op = Create
    <3>1. remote' = Append(remote, "draft")
      BY <2>1 DEF Effect
    <3> QED BY <1>0, <1>1, <2>1, <3>1 DEF RemoteStates
  <2>2. CASE wk.op # Create /\ wk.op \notin Activations
    <3>1. remote' = remote \/ remote' = [remote EXCEPT ![camp.id] = "paused"]
      BY <2>2 DEF Effect
    <3> QED BY <1>0, <1>1, <2>2, <3>1
  <2> QED BY <2>1, <2>2
<1>3. /\ Known /\ wk.op \in Activations => remote'[camp.id] = "active"
      /\ Known /\ wk.op \in Pauses => remote'[camp.id] = "paused"
  <2>1. /\ wk.op \in Activations => remote' = [remote EXCEPT ![camp.id] = "active"]
        /\ wk.op \in Pauses => remote' = [remote EXCEPT ![camp.id] = "paused"]
    BY Kinds DEF Effect
  <2> QED BY <1>0, <2>1 DEF Known
<1>4. CASE wk.op \notin Adds
  <2>1. leads' = leads /\ UNCHANGED <<over, mails, events>>
    BY <1>4 DEF Effect
  <2>2. \A n \in Members : wk.op # AddLead(n)
    BY <1>4, Kinds
  <2> QED BY <1>0, <1>1, <1>2, <1>3, <2>1, <2>2
<1>5. CASE wk.op \in Adds
  <2>1. PICK m \in Members : wk.op = AddLead(m) /\ wk.op[2] = m
    BY <1>5, Kinds
  <2>2. mem[m].exec = "RESERVED" /\ op[Create].state = "CONFIRMED" /\ Known /\ camp.id \in Nat
    BY <1>0, <2>1, <1>5 DEF LeadInv, LeadInvOf, KnownInv, Known
  <2>3. /\ leads' = IF leads[m] = 0 THEN [leads EXCEPT ![m] = camp.id] ELSE leads
        /\ UNCHANGED <<over, mails, events>>
    BY <1>5, <2>1 DEF Effect
  <2>4. \A n \in Members : wk.op = AddLead(n) => n = m
    BY <2>1, Kinds
  <2> QED BY <1>0, <1>1, <1>2, <1>3, <2>1, <2>2, <2>3, <2>4
<1> QED BY <1>4, <1>5

\* Operation o alone goes to state st.
Alone(o, st) ==
    op' \in [Ops -> OpRow] /\ op'[o].state = st /\ \A p \in Ops \ {o} : op'[p] = op[p]

\* The operation of the worker ends, with or without the effect of its call.
LEMMA StopsEnd ==
    ASSUME StopInv, wk.pc # "idle", wk' = Idle, NEW st \in OpStates \ {"NONE"},
           Alone(wk.op, st), UNCHANGED <<camp, mem, over, mails, events, kill>>,
           limited' \in Nat, limited' = 0 => limited = 0,
           \/ UNCHANGED <<remote, leads>>
           \/ wk.pc = "call" /\ Effect(wk.op) /\ st \in {"IN_FLIGHT", "RECONCILE_REQUIRED"},
           st = "CONFIRMED" => wk.pc = "confirm",
           wk.pc \in {"read", "bind"} => \/ st \in {"IN_FLIGHT", "RECONCILE_REQUIRED"}
                                         \/ limited' # 0 /\ wk.op \notin Activations,
           wk.pc = "confirm" => st \in {"IN_FLIGHT", "CONFIRMED"}
    PROVE  StopInv'
<1>0. /\ CampaignOK /\ RowsOK /\ KnownInv /\ SealInv /\ LeadInv /\ CalledInv /\ UnplannedInv
      /\ wk.op \in Ops /\ op[wk.op].state = "IN_FLIGHT" /\ wk.pc \in Positions
      /\ remote \in Seq(RemoteStates) /\ Len(remote) \in Nat
  BY DEF StopInv, CampaignOK, WorkerOK
<1>a. /\ wk'.pc = "idle" /\ DOMAIN wk' = {"pc", "op", "id", "at"}
      /\ camp' = camp /\ mem' = mem /\ over' = over /\ mails' = mails
      /\ events' = events /\ kill' = kill
      /\ op' \in [Ops -> OpRow] /\ op'[wk.op].state = st
      /\ \A p \in Ops \ {wk.op} : op'[p] = op[p]
  BY DEF Idle, Alone
<1>b. /\ remote' \in Seq(RemoteStates) /\ Len(remote') \in Nat /\ Len(remote') >= Len(remote)
      /\ leads' \in [Members -> Nat]
      /\ \A i \in 1..Len(remote') : remote'[i] = "active" =>
            \/ i \in 1..Len(remote) /\ remote[i] = "active"
            \/ wk.op \in Activations /\ wk.pc = "call" /\ st \in {"IN_FLIGHT", "RECONCILE_REQUIRED"}
      /\ \A n \in Members :
            \/ leads'[n] = leads[n]
            \/ /\ wk.op = AddLead(n) /\ leads'[n] = camp.id /\ mem[n].exec = "RESERVED"
               /\ op[Create].state = "CONFIRMED" /\ st \in {"IN_FLIGHT", "RECONCILE_REQUIRED"}
  <2>1. CASE UNCHANGED <<remote, leads>>
    BY <1>0, <2>1 DEF RowsOK
  <2>2. CASE wk.pc = "call" /\ Effect(wk.op) /\ st \in {"IN_FLIGHT", "RECONCILE_REQUIRED"}
    BY <1>0, <2>2, EffectFacts
  <2> QED BY <2>1, <2>2
<1>c. op[Create].state = "CONFIRMED" => op'[Create].state = "CONFIRMED"
  BY <1>0, <1>a, Keys
<1>p. PausePlanned' <=> PausePlanned
  BY <1>0, <1>a, Keys DEF PausePlanned
<1>s. Sealed' <=> Sealed
  BY <1>a DEF Sealed
<1>k. Known => Known'
  BY <1>a, <1>b, <1>0 DEF Known
<1>1. CampaignOK' /\ RowsOK'
  BY <1>0, <1>a, <1>b DEF CampaignOK, WorkerOK, RowsOK
<1>2. KnownInv'
  <2>1. op'[Create].state = "CONFIRMED" => Known
    <3>1. CASE wk.op = Create
      BY <1>0, <1>a, <3>1 DEF KnownInv
    <3>2. CASE wk.op # Create
      BY <1>0, <1>a, <3>2, Keys DEF KnownInv
    <3> QED BY <3>1, <3>2
  <2>2. \A o \in {Configure} \cup Adds :
           op'[o].state \notin {"NONE", "PLANNED"} => op[Create].state = "CONFIRMED"
    BY <1>0, <1>a, Keys DEF KnownInv
  <2> QED BY <1>0, <1>a, <1>c, <1>p, <1>k, <2>1, <2>2 DEF KnownInv
<1>3. SealInv'
  <2>1. \A i \in 1..Len(remote') : Sending(i)' => Sealed
    BY <1>0, <1>b DEF SealInv, Sending
  <2>2. \A o \in Activations : op'[o].state # "NONE" => Sealed
    BY <1>0, <1>a, Keys DEF SealInv
  <2> QED BY <1>0, <1>a, <1>s, <2>1, <2>2 DEF SealInv
<1>4. ASSUME NEW m \in Members PROVE LeadInvOf(m)'
  <2>0. LeadInvOf(m) /\ AddLead(m) \in Ops
    BY <1>0, Keys DEF LeadInv
  <2>1. leads'[m] # 0 => /\ leads'[m] = camp.id /\ mem[m].exec # "NONE"
                         /\ op'[Create].state = "CONFIRMED"
    BY <1>b, <1>c, <2>0 DEF LeadInvOf
  <2>2. mem[m].exec \in {"NONE", "RESERVED"} => op'[AddLead(m)].state # "CONFIRMED"
    BY <1>0, <1>a, <2>0 DEF LeadInvOf
  <2>3. ASSUME limited' = 0, leads'[m] # 0, mem[m].exec = "RESERVED"
        PROVE  op'[AddLead(m)].state \in {"IN_FLIGHT", "RECONCILE_REQUIRED"}
    <3>1. CASE leads'[m] # leads[m]
      BY <1>a, <1>b, <3>1
    <3>2. CASE leads'[m] = leads[m]
      <4>1. Landed(m)
        BY <2>0, <2>3, <3>2 DEF LeadInvOf
      <4>2. CASE wk.op # AddLead(m)
        BY <1>a, <2>0, <4>1, <4>2 DEF Landed
      <4>3. CASE wk.op = AddLead(m)
        <5>1. wk.pc \in {"read", "bind"}
          BY <1>0, <2>0, <2>3, <4>1, <4>3 DEF Landed, LeadInvOf, Positions
        <5> QED BY <1>a, <2>3, <4>3, <5>1
      <4> QED BY <4>2, <4>3
    <3> QED BY <3>1, <3>2
  <2>4. ASSUME limited' = 0, leads'[m] # 0, mem[m].exec # "RESERVED"
        PROVE  mem[m].lead = leads'[m]
    BY <1>b, <2>0, <2>4 DEF LeadInvOf
  <2> QED BY <1>a, <2>0, <2>1, <2>2, <2>3, <2>4 DEF LeadInvOf, Landed, Called
<1>5. CalledInv'
  <2>1. \A m \in Members : op'[PauseLead(m)].state = "CONFIRMED" => m \in over
    BY <1>0, <1>a, Keys, Kinds DEF CalledInv, Called
  <2> QED BY <1>a, <2>1 DEF CalledInv, Called
<1>6. UnplannedInv'
  <2> SUFFICES ASSUME ~PausePlanned PROVE UnplannedInv'
    BY <1>p DEF UnplannedInv
  <2>0. Activate("config") \in Ops /\ Activate("release") \in Ops
    BY Kinds
  <2>1. op[Activate("release")].state = "NONE" /\ wk.op # Activate("release")
    BY <1>0 DEF UnplannedInv
  <2>2. camp'.lifecycle # "PAUSED" /\ op'[Activate("release")].state = "NONE"
    BY <1>0, <1>a, <2>0, <2>1 DEF UnplannedInv
  <2>3. ASSUME Known', Sending(camp.id)'
        PROVE  /\ op'[Activate("config")].state \in {"IN_FLIGHT", "RECONCILE_REQUIRED", "CONFIRMED"}
               /\ kill = FALSE => \A m \in Members : ~StoppedBound(m)
    <3>1. camp.id \in 1..Len(remote') /\ remote'[camp.id] = "active"
      BY <1>a, <2>3 DEF Known, Sending
    <3>2. CASE camp.id \in 1..Len(remote) /\ remote[camp.id] = "active"
      <4>1. Known /\ Sending(camp.id)
        BY <3>2 DEF Known, Sending
      <4>2. CASE wk.op = Activate("config")
        <5>1. wk.pc \in Called /\ wk.op \in Activations
          BY <1>0, <4>1, <4>2, Kinds DEF UnplannedInv, Positions, Called
        <5> QED BY <1>0, <1>a, <4>1, <4>2, <5>1 DEF UnplannedInv, Called
      <4>3. CASE wk.op # Activate("config")
        BY <1>0, <1>a, <2>0, <4>1, <4>3 DEF UnplannedInv
      <4> QED BY <4>2, <4>3
    <3>3. CASE wk.op \in Activations /\ wk.pc = "call" /\ st \in {"IN_FLIGHT", "RECONCILE_REQUIRED"}
      <4>1. wk.op = Activate("config")
        BY <2>1, <3>3, Kinds
      <4> QED BY <1>0, <1>a, <3>3, <4>1 DEF UnplannedInv
    <3> QED BY <1>b, <3>1, <3>2, <3>3
  <2>4. \A m \in Members : StoppedBound(m)' <=> StoppedBound(m)
    BY <1>a DEF StoppedBound
  <2> QED BY <1>a, <2>2, <2>3, <2>4 DEF UnplannedInv
<1> QED BY <1>1, <1>2, <1>3, <1>4, <1>5, <1>6 DEF StopInv, LeadInv

\* An operation that ends, ends alone.
LEMMA EndsAlone ==
    ASSUME CampaignOK, NEW o \in Ops, NEW st \in OpStates, op' = In(op, o, st)
    PROVE  Alone(o, st)
BY InFields DEF CampaignOK, Alone

\* The ends of an operation that change no row.
LEMMA StopsEnding ==
    ASSUME StopInv,
           \/ DependencyNotConfirmed \/ BeforeCallFails \/ CallRefused \/ PauseLeadRefused
           \/ CallUnknown \/ ReadBackFails \/ Confirm \/ Crash
    PROVE  StopInv'
<1>0. /\ CampaignOK /\ limited \in Nat /\ wk.pc # "idle" /\ wk.op \in Ops
      /\ op[wk.op].state = "IN_FLIGHT" /\ op \in [Ops -> OpRow]
  BY DEF StopInv, CampaignOK, WorkerOK, DependencyNotConfirmed, BeforeCallFails, CallRefused,
     PauseLeadRefused, CallUnknown, ReadBackFails, Confirm, Crash
<1>1. UNCHANGED <<camp, mem, over, mails, events, kill>> /\ wk' = Idle
  BY DEF DependencyNotConfirmed, BeforeCallFails, CallRefused, PauseLeadRefused, CallUnknown,
     ReadBackFails, Confirm, Crash, Ends, Leave, NoEffect, Effect, instantly, world, rows
<1>2. CASE Crash
  <2>1. /\ op' = op /\ limited' = limited
        /\ UNCHANGED <<remote, leads>> \/ (wk.pc = "call" /\ Effect(wk.op))
    BY <1>2 DEF Crash, NoEffect, instantly, rows
  <2>2. Alone(wk.op, "IN_FLIGHT") /\ "IN_FLIGHT" \in OpStates \ {"NONE"}
    BY <1>0, <2>1 DEF Alone, OpStates
  <2> QED BY <1>0, <1>1, <2>1, <2>2, StopsEnd
<1>3. CASE CallUnknown
  <2>1. /\ op' = In(op, wk.op, "RECONCILE_REQUIRED") /\ limited' = limited /\ wk.pc = "call"
        /\ UNCHANGED <<remote, leads>> \/ Effect(wk.op)
    BY <1>3 DEF CallUnknown, Ends, AfterUnknown, NoEffect, instantly
  <2>2. Alone(wk.op, "RECONCILE_REQUIRED") /\ "RECONCILE_REQUIRED" \in OpStates \ {"NONE"}
    BY <1>0, <2>1, EndsAlone DEF OpStates
  <2> QED BY <1>0, <1>1, <2>1, <2>2, StopsEnd
<1>4. CASE ReadBackFails
  <2>1. PICK st \in {AfterUnknown, "RETRYABLE_FAILED", "TERMINAL_FAILED"} :
           /\ op' = In(op, wk.op, st)
           /\ limited' = IF st # "RECONCILE_REQUIRED" THEN limited + 1 ELSE limited
    BY <1>4 DEF ReadBackFails, Ends
  <2>2. /\ st \in OpStates \ {"NONE", "CONFIRMED"} /\ Alone(wk.op, st)
    BY <1>0, <2>1, EndsAlone DEF OpStates, AfterUnknown
  <2>3. wk.pc = "read" /\ wk.op \notin Activations /\ UNCHANGED <<remote, leads>>
    BY <1>4 DEF ReadBackFails, instantly
  <2>4. limited' \in Nat /\ (limited' = 0 => limited = 0)
        /\ (st \in {"IN_FLIGHT", "RECONCILE_REQUIRED"} \/ limited' # 0)
    BY <1>0, <2>1
  <2> QED BY <1>0, <1>1, <2>2, <2>3, <2>4, StopsEnd
<1>5. CASE Confirm
  <2>1. /\ op' = In(op, wk.op, "CONFIRMED") /\ limited' = limited /\ wk.pc = "confirm"
        /\ UNCHANGED <<remote, leads>>
    BY <1>5 DEF Confirm, Ends, instantly
  <2>2. Alone(wk.op, "CONFIRMED") /\ "CONFIRMED" \in OpStates \ {"NONE"}
    BY <1>0, <2>1, EndsAlone DEF OpStates
  <2> QED BY <1>0, <1>1, <2>1, <2>2, StopsEnd
<1>6. CASE DependencyNotConfirmed \/ BeforeCallFails \/ CallRefused \/ PauseLeadRefused
  <2>1. PICK st \in {"PLANNED", "TERMINAL_FAILED", "RETRYABLE_FAILED"} : op' = In(op, wk.op, st)
    BY <1>6 DEF DependencyNotConfirmed, BeforeCallFails, CallRefused, PauseLeadRefused, Ends
  <2>2. limited' = limited /\ wk.pc \in {"claimed", "call"} /\ UNCHANGED <<remote, leads>>
    BY <1>6 DEF DependencyNotConfirmed, BeforeCallFails, CallRefused, PauseLeadRefused, NoEffect,
       instantly
  <2>3. st \in OpStates \ {"NONE", "CONFIRMED"} /\ Alone(wk.op, st)
    BY <1>0, <2>1, EndsAlone DEF OpStates
  <2> QED BY <1>0, <1>1, <2>2, <2>3, StopsEnd
<1> QED BY <1>2, <1>3, <1>4, <1>5, <1>6

\* The call is answered.
LEMMA StopsCall == ASSUME StopInv, Call PROVE StopInv'
<1>0. /\ CampaignOK /\ RowsOK /\ KnownInv /\ SealInv /\ LeadInv /\ CalledInv /\ UnplannedInv
      /\ limited \in Nat /\ wk.pc = "call" /\ wk.op \in Ops /\ wk.op \notin LeadPauses
      /\ op[wk.op].state = "IN_FLIGHT" /\ op \in [Ops -> OpRow] /\ Effect(wk.op)
      /\ DOMAIN wk = {"pc", "op", "id", "at"}
  BY DEF StopInv, CampaignOK, WorkerOK, Call
<1>1. UNCHANGED <<camp, mem, over, mails, events, kill, limited>>
  BY <1>0, EffectFacts DEF Call, world
<1>2. CASE Ends("RECONCILE_REQUIRED")
  <2>1. Alone(wk.op, "RECONCILE_REQUIRED") /\ wk' = Idle
    BY <1>0, <1>2, EndsAlone DEF Ends, Leave, OpStates
  <2>2. "RECONCILE_REQUIRED" \in OpStates \ {"NONE"}
    BY DEF OpStates
  <2> QED BY <1>0, <1>1, <2>1, <2>2, StopsEnd
<1>3. CASE ~Ends("RECONCILE_REQUIRED")
  <2>1. /\ op' = op
        /\ wk' = [wk EXCEPT !.pc = "read", !.id = IF wk.op = Create THEN Len(remote')
                                                                   ELSE camp.id]
        /\ ~(wk.op \in Adds /\ leads[wk.op[2]] # 0)
    BY <1>3 DEF Call
  <2>2. /\ wk'.pc = "read" /\ wk'.op = wk.op /\ DOMAIN wk' = DOMAIN wk
        /\ wk'.id = IF wk.op = Create THEN Len(remote') ELSE camp.id
    BY <1>0, <2>1
  <2>3. \A m \in Members : wk.op = AddLead(m) => leads[m] = 0 /\ leads'[m] = camp.id
    BY <1>0, <2>1, Kinds, EffectFacts
  <2>4. /\ remote' \in Seq(RemoteStates) /\ Len(remote) \in Nat /\ Len(remote') \in Nat
        /\ Len(remote') = IF wk.op = Create THEN Len(remote) + 1 ELSE Len(remote)
        /\ leads' \in [Members -> Nat]
        /\ \A i \in 1..Len(remote') : remote'[i] = "active" =>
              wk.op \in Activations \/ (i \in 1..Len(remote) /\ remote[i] = "active")
        /\ Known /\ wk.op \in Activations => remote'[camp.id] = "active"
        /\ Known /\ wk.op \in Pauses => remote'[camp.id] = "paused"
        /\ \A n \in Members : \/ leads'[n] = leads[n]
                              \/ /\ wk.op = AddLead(n) /\ leads'[n] = camp.id
                                 /\ mem[n].exec = "RESERVED" /\ op[Create].state = "CONFIRMED"
    BY <1>0, EffectFacts
  <2>k. Known => Known'
    BY <1>1, <2>4 DEF Known
  <2>s. Sealed' <=> Sealed
    BY <1>1 DEF Sealed
  <2>p. PausePlanned' <=> PausePlanned
    BY <2>1 DEF PausePlanned
  <2>5. CampaignOK' /\ RowsOK'
    BY <1>0, <1>1, <2>1, <2>2, <2>4 DEF CampaignOK, WorkerOK, RowsOK, Positions
  <2>6. KnownInv'
    BY <1>0, <1>1, <2>1, <2>2, <2>4, <2>k, <2>p DEF KnownInv
  <2>7. SealInv'
    <3>1. \A i \in 1..Len(remote') : Sending(i)' => Sealed
      BY <1>0, <2>4 DEF SealInv, Sending
    <3> QED BY <1>0, <1>1, <2>1, <2>2, <2>s, <3>1 DEF SealInv
  <2>8. ASSUME NEW m \in Members PROVE LeadInvOf(m)'
    <3>0. LeadInvOf(m)
      BY <1>0 DEF LeadInv
    <3>1. CASE wk.op = AddLead(m)
      <4>1. op[AddLead(m)].state = "IN_FLIGHT" /\ mem[m].exec = "RESERVED" /\ leads'[m] = camp.id
            /\ op[Create].state = "CONFIRMED" /\ wk'.id = camp.id
        BY <1>0, <2>2, <2>3, <3>0, <3>1, Kinds DEF LeadInvOf, KnownInv
      <4> QED BY <1>1, <2>1, <2>2, <3>0, <4>1 DEF LeadInvOf, Landed
    <3>2. CASE wk.op # AddLead(m)
      BY <1>1, <2>1, <2>2, <2>4, <3>0, <3>2 DEF LeadInvOf, Landed
    <3> QED BY <3>1, <3>2
  <2>9. CalledInv'
    <3>1. wk.op \in Activations => Known
      BY <1>0 DEF SealInv, Sealed, KnownInv
    <3>2. wk.op \in Pauses => Known
      BY <1>0 DEF PausePlanned, KnownInv
    <3> QED BY <1>0, <1>1, <2>1, <2>2, <2>4, <3>1, <3>2 DEF CalledInv
  <2>10. UnplannedInv'
    <3> SUFFICES ASSUME ~PausePlanned PROVE UnplannedInv'
      BY <2>p DEF UnplannedInv
    <3>1. wk.op # Activate("release") /\ camp.lifecycle # "PAUSED"
          /\ op[Activate("release")].state = "NONE"
      BY <1>0 DEF UnplannedInv
    <3>2. ASSUME Known', Sending(camp.id)'
          PROVE  /\ op[Activate("config")].state \in {"IN_FLIGHT", "RECONCILE_REQUIRED", "CONFIRMED"}
                 /\ kill = FALSE => \A m \in Members : ~StoppedBound(m)
      <4>1. camp.id \in 1..Len(remote') /\ remote'[camp.id] = "active"
        BY <1>1, <3>2 DEF Known, Sending
      <4>2. CASE camp.id \in 1..Len(remote) /\ remote[camp.id] = "active"
        BY <1>0, <4>2 DEF UnplannedInv, Known, Sending
      <4>3. CASE wk.op \in Activations
        <5>1. wk.op = Activate("config")
          BY <3>1, <4>3, Kinds
        <5> QED BY <1>0, <4>3, <5>1 DEF UnplannedInv
      <4> QED BY <2>4, <4>1, <4>2, <4>3
    <3>3. \A m \in Members : StoppedBound(m)' <=> StoppedBound(m)
      BY <1>1 DEF StoppedBound
    <3> QED BY <1>1, <2>1, <2>2, <3>1, <3>2, <3>3 DEF UnplannedInv
  <2> QED BY <2>5, <2>6, <2>7, <2>8, <2>9, <2>10 DEF StopInv, LeadInv
<1> QED BY <1>2, <1>3

\* A step of the worker that calls nothing: the campaign becomes known, active
\* or paused at most, and nobody comes nearer to a mail.
WorkerFrame ==
    /\ UNCHANGED <<remote, leads, over, mails, events, kill, limited>>
    /\ CampaignOK' /\ mem' \in [Members -> MemRow] /\ DOMAIN camp' = DOMAIN camp
    /\ camp'.id = camp.id \/ (camp.id = None /\ camp'.id \in 1..Len(remote))
    /\ \/ camp'.lifecycle = camp.lifecycle
       \/ camp'.lifecycle = "ACTIVE" /\ Sealed
       \/ camp'.lifecycle = "PAUSED" /\ PausePlanned
    /\ \A m \in Members :
          /\ mem'[m].exec \in {"NONE", "RESERVED", "QUEUED"} => mem'[m].exec = mem[m].exec
          /\ mem'[m].seq = "WAITING_STEP2" => mem[m].seq = "WAITING_STEP2"
    /\ \A o \in Ops : op[o].state # "NONE" => op'[o].state # "NONE"
    /\ \A o \in Activations : op[o].state = "NONE" => op'[o].state = "NONE"

\* What such a step keeps.
LEMMA FrameKeeps ==
    ASSUME StopInv, WorkerFrame
    PROVE  /\ RowsOK' /\ SealInv' /\ (Sealed => Sealed') /\ (Known => Known')
           /\ PausePlanned => PausePlanned'
           /\ camp'.id # None => Known'
           /\ Known' /\ Sending(camp.id)' => Known /\ Sending(camp.id) /\ camp'.id = camp.id
           /\ ~PausePlanned' => camp'.lifecycle # "PAUSED"
<1>0. RowsOK /\ KnownInv /\ SealInv /\ UnplannedInv /\ Len(remote) \in Nat
  BY DEF StopInv, CampaignOK
<1>1. RowsOK'
  BY <1>0 DEF RowsOK, WorkerFrame
<1>2. Known => Known' /\ camp'.id = camp.id
  BY <1>0, CampaignAssumption DEF Known, WorkerFrame
<1>3. Sealed => Sealed'
  BY CampaignAssumption DEF Sealed, WorkerFrame
<1>4. PausePlanned => PausePlanned'
  BY Keys DEF PausePlanned, WorkerFrame
<1>5. camp'.id # None => Known'
  BY <1>0 DEF WorkerFrame, KnownInv, Known
<1>6. \A i \in 1..Len(remote') : Sending(i)' => Sealed /\ Sending(i)
  BY <1>0 DEF WorkerFrame, SealInv, Sending
<1>7. SealInv'
  BY <1>0, <1>3, <1>6 DEF SealInv, WorkerFrame
<1>8. Known' /\ Sending(camp.id)' => Known /\ Sending(camp.id) /\ camp'.id = camp.id
  <2> SUFFICES ASSUME Known', Sending(camp.id)' PROVE Known /\ Sending(camp.id) /\ camp'.id = camp.id
    OBVIOUS
  <2>1. Sending(camp'.id) /\ Sealed
    <3>1. camp'.id \in 1..Len(remote')
      BY DEF Known
    <3> QED BY <1>6, <3>1 DEF Sending, WorkerFrame
  <2>2. camp'.id = camp.id
    BY <2>1 DEF Sealed, WorkerFrame
  <2> QED BY <1>0, <2>1, <2>2 DEF Sealed, KnownInv
<1>9. ~PausePlanned' => camp'.lifecycle # "PAUSED"
  BY <1>0, <1>4 DEF UnplannedInv, WorkerFrame
<1> QED BY <1>1, <1>2, <1>3, <1>4, <1>5, <1>7, <1>8, <1>9

\* The worker takes an operation, or claiming it shows that it is over.
LEMMA StopsClaim == ASSUME StopInv, NEW o \in Ops, Claim(o) PROVE StopInv'
<1>0. /\ CampaignOK /\ RowsOK /\ KnownInv /\ SealInv /\ LeadInv /\ CalledInv /\ UnplannedInv
      /\ wk.pc = "idle" /\ op \in [Ops -> OpRow]
      /\ UNCHANGED <<camp, mem, remote, leads, over, mails, events, kill, limited>>
  BY DEF StopInv, CampaignOK, Claim, instantly, world
<1>1. PICK st \in {"IN_FLIGHT", "RECONCILE_REQUIRED", "TERMINAL_FAILED"} :
         /\ Alone(o, st)
         /\ \/ op[o].state = "IN_FLIGHT" /\ st = "RECONCILE_REQUIRED" /\ wk' = wk
            \/ op[o].state = "RETRYABLE_FAILED" /\ st = "TERMINAL_FAILED" /\ wk' = wk
            \/ /\ op[o].state \in {"PLANNED", "RETRYABLE_FAILED"} /\ st = "IN_FLIGHT"
               /\ wk'.pc = "claimed" /\ wk'.op = o /\ DOMAIN wk' = {"pc", "op", "id", "at"}
  <2>1. ASSUME NEW st \in {"RECONCILE_REQUIRED", "TERMINAL_FAILED"}, op' = In(op, o, st)
        PROVE  Alone(o, st)
    BY <1>0, <2>1, EndsAlone DEF OpStates
  <2>2. ASSUME op' = [op EXCEPT ![o].state = "IN_FLIGHT",
                                ![o].attempt = IF @ < MaxAttempts THEN @ + 1 ELSE @]
        PROVE  Alone(o, "IN_FLIGHT")
    <3> DEFINE n == IF op[o].attempt < MaxAttempts THEN op[o].attempt + 1 ELSE op[o].attempt
               x == [op[o] EXCEPT !.state = "IN_FLIGHT", !.attempt = n]
    <3>1. op[o] \in OpRow /\ n \in Nat
      BY <1>0, CampaignAssumption DEF OpRow
    <3>2. op' = [op EXCEPT ![o] = x]
      BY <1>0, <2>2, <3>1 DEF OpRow
    <3> HIDE DEF n
    <3>3. x \in OpRow /\ x.state = "IN_FLIGHT"
      BY <3>1 DEF OpRow, OpStates
    <3> HIDE DEF x
    <3> QED BY <1>0, <3>2, <3>3 DEF Alone
  <2>3. \/ op[o].state = "IN_FLIGHT" /\ op' = In(op, o, "RECONCILE_REQUIRED") /\ wk' = wk
        \/ op[o].state = "RETRYABLE_FAILED" /\ op' = In(op, o, "TERMINAL_FAILED") /\ wk' = wk
        \/ /\ op[o].state \in {"PLANNED", "RETRYABLE_FAILED"}
           /\ op' = [op EXCEPT ![o].state = "IN_FLIGHT",
                               ![o].attempt = IF @ < MaxAttempts THEN @ + 1 ELSE @]
           /\ wk' = [pc |-> "claimed", op |-> o, id |-> None,
                     at |-> IF o \in Activations THEN clock ELSE 0]
    BY DEF Claim
  <2>4. CASE op[o].state = "IN_FLIGHT" /\ op' = In(op, o, "RECONCILE_REQUIRED") /\ wk' = wk
    BY <2>1, <2>4
  <2>5. CASE op[o].state = "RETRYABLE_FAILED" /\ op' = In(op, o, "TERMINAL_FAILED") /\ wk' = wk
    BY <2>1, <2>5
  <2>6. CASE /\ op[o].state \in {"PLANNED", "RETRYABLE_FAILED"}
             /\ op' = [op EXCEPT ![o].state = "IN_FLIGHT",
                                 ![o].attempt = IF @ < MaxAttempts THEN @ + 1 ELSE @]
             /\ wk' = [pc |-> "claimed", op |-> o, id |-> None,
                       at |-> IF o \in Activations THEN clock ELSE 0]
    <3>1. wk'.pc = "claimed" /\ wk'.op = o /\ DOMAIN wk' = {"pc", "op", "id", "at"}
      BY <2>6
    <3> QED BY <2>2, <2>6, <3>1
  <2> QED BY <2>3, <2>4, <2>5, <2>6
<1>2. /\ op' \in [Ops -> OpRow] /\ op'[o].state = st
      /\ \A p \in Ops \ {o} : op'[p] = op[p]
      /\ wk'.pc \in {"idle", "claimed"}
  BY <1>0, <1>1 DEF Alone
<1>3. CampaignOK'
  BY <1>0, <1>1, <1>2 DEF CampaignOK, WorkerOK, Positions
<1>4. WorkerFrame
  <2>1. \A p \in Ops : op[p].state # "NONE" <=> op'[p].state # "NONE"
    BY <1>1, <1>2
  <2> QED BY <1>0, <1>2, <1>3, <2>1, Keys DEF WorkerFrame, RowsOK
<1>f. RowsOK' /\ SealInv' /\ (Known => Known') /\ (PausePlanned => PausePlanned')
      /\ (Known' /\ Sending(camp.id)' => Known /\ Sending(camp.id) /\ camp'.id = camp.id)
  BY <1>4, FrameKeeps
<1>5. KnownInv'
  <2>1. o \in {Configure} \cup Adds => op[Create].state = "CONFIRMED"
    BY Kinds DEF Claim, InOrder, DependenciesConfirmed
  <2>2. op'[Create].state = "CONFIRMED" <=> op[Create].state = "CONFIRMED"
    BY <1>1, <1>2, Keys
  <2>3. PausePlanned' => PausePlanned
    BY <1>1, <1>2, Keys DEF PausePlanned
  <2>4. \A p \in {Configure} \cup Adds :
           op'[p].state \notin {"NONE", "PLANNED"} => op'[Create].state = "CONFIRMED"
    BY <1>0, <1>2, <2>1, <2>2, Keys DEF KnownInv
  <2> QED BY <1>0, <1>2, <1>f, <2>2, <2>3, <2>4 DEF KnownInv
<1>6. ASSUME NEW m \in Members PROVE LeadInvOf(m)'
  <2>0. LeadInvOf(m) /\ AddLead(m) \in Ops
    BY <1>0, Keys DEF LeadInv
  <2>1. op[Create].state = "CONFIRMED" => op'[Create].state = "CONFIRMED"
    BY <1>1, <1>2, Keys
  <2>2. mem[m].exec \in {"NONE", "RESERVED"} => op'[AddLead(m)].state # "CONFIRMED"
    BY <1>2, <2>0 DEF LeadInvOf
  <2>3. limited = 0 /\ leads[m] # 0 /\ mem[m].exec = "RESERVED" => Landed(m)'
    <3> SUFFICES ASSUME limited = 0, leads[m] # 0, mem[m].exec = "RESERVED" PROVE Landed(m)'
      OBVIOUS
    <3>1. op[AddLead(m)].state \in {"IN_FLIGHT", "RECONCILE_REQUIRED"}
      BY <2>0 DEF LeadInvOf, Landed
    <3> QED BY <1>0, <1>1, <1>2, <2>0, <3>1 DEF Landed
  <2> QED BY <1>0, <1>2, <2>0, <2>1, <2>2, <2>3 DEF LeadInvOf, Called
<1>7. CalledInv'
  <2>1. \A m \in Members : op'[PauseLead(m)].state = "CONFIRMED" => m \in over
    BY <1>0, <1>2, Keys DEF CalledInv
  <2> QED BY <1>0, <1>2, <2>1 DEF CalledInv, Called
<1>8. UnplannedInv'
  <2> SUFFICES ASSUME ~PausePlanned' PROVE UnplannedInv'
    BY DEF UnplannedInv
  <2>0. ~PausePlanned /\ Activate("config") \in Ops /\ Activate("release") \in Ops
    BY <1>f, Kinds
  <2>1. camp.lifecycle # "PAUSED" /\ op'[Activate("release")].state = "NONE"
    BY <1>0, <1>1, <1>2, <2>0 DEF UnplannedInv
  <2>2. ASSUME Known', Sending(camp.id)'
        PROVE  /\ op'[Activate("config")].state \in {"IN_FLIGHT", "RECONCILE_REQUIRED", "CONFIRMED"}
               /\ ~(wk'.op = Activate("config") /\ wk'.pc \in {"claimed", "call"})
               /\ kill = FALSE => \A m \in Members : ~StoppedBound(m)
    <3>1. Known /\ Sending(camp.id)
      BY <1>f, <2>2
    <3> QED BY <1>0, <1>1, <1>2, <2>0, <3>1 DEF UnplannedInv
  <2>3. \A m \in Members : StoppedBound(m)' <=> StoppedBound(m)
    BY <1>0 DEF StoppedBound
  <2> QED BY <1>0, <1>2, <2>1, <2>2, <2>3 DEF UnplannedInv
<1> QED BY <1>3, <1>f, <1>5, <1>6, <1>7, <1>8 DEF StopInv, LeadInv

\* The campaign row a completed operation leaves.
LEMMA EffectedFields ==
    ASSUME RowsOK, NEW o \in Ops, NEW id
    PROVE  /\ DOMAIN Effected(o, id) = DOMAIN camp
           /\ Effected(o, id).id = IF o = Create THEN id ELSE camp.id
           /\ o = Configure => Effected(o, id).configured = TRUE
           /\ o # Configure => Effected(o, id).configured = camp.configured
           /\ Effected(o, id).lifecycle = IF o \in Activations THEN "ACTIVE"
                                          ELSE IF o \in Pauses THEN "PAUSED" ELSE camp.lifecycle
<1>1. DOMAIN camp = {"lifecycle", "closed", "id", "configured"}
  BY DEF RowsOK
<1>2. CASE o = Create
  <2>1. Effected(o, id) = [camp EXCEPT !.id = id] /\ o \notin Activations \cup Pauses \cup {Configure}
    BY <1>2, Kinds, Keys DEF Effected
  <2> QED BY <1>1, <1>2, <2>1
<1>3. CASE o = Configure
  <2>1. /\ Effected(o, id) = [camp EXCEPT !.configured = TRUE]
        /\ o \notin Activations \cup Pauses \cup {Create}
    BY <1>3, Kinds, Keys DEF Effected
  <2> QED BY <1>1, <1>3, <2>1
<1>4. CASE o \in Activations
  <2>1. /\ Effected(o, id) = [camp EXCEPT !.lifecycle = "ACTIVE"]
        /\ o \notin Pauses \cup {Create, Configure}
    BY <1>4, Kinds DEF Effected
  <2> QED BY <1>1, <1>4, <2>1
<1>5. CASE o \in Pauses
  <2>1. /\ Effected(o, id) = [camp EXCEPT !.lifecycle = "PAUSED"]
        /\ o \notin Activations \cup {Create, Configure}
    BY <1>5, Kinds DEF Effected
  <2> QED BY <1>1, <1>5, <2>1
<1>6. CASE o \notin Activations \cup Pauses \cup {Create, Configure}
  <2>1. Effected(o, id) = camp
    BY <1>6 DEF Effected
  <2> QED BY <1>6, <2>1
<1> QED BY <1>2, <1>3, <1>4, <1>5, <1>6

\* The member rows it leaves.
LEMMA EnrolledFields ==
    ASSUME RowsOK, NEW o \in Ops, NEW id, o \in Adds => id \in Nat
    PROVE  /\ Enrolled(o, id) \in [Members -> MemRow]
           /\ \A m \in Members :
                 \/ o # AddLead(m) /\ Enrolled(o, id)[m] = mem[m]
                 \/ /\ o = AddLead(m) /\ Enrolled(o, id)[m].exec = "ENROLLED"
                    /\ Enrolled(o, id)[m].lead = id /\ Enrolled(o, id)[m].seq = mem[m].seq
<1>1. mem \in [Members -> MemRow]
  BY DEF RowsOK
<1>2. CASE o \in Adds
  <2>1. PICK n \in Members : o = AddLead(n) /\ o[2] = n
    BY <1>2, Kinds
  <2> DEFINE x == [mem[n] EXCEPT !.exec = "ENROLLED", !.lead = id]
  <2>2. x \in MemRow /\ x.exec = "ENROLLED" /\ x.lead = id /\ x.seq = mem[n].seq
    BY <1>1, <1>2 DEF MemRow
  <2>3. Enrolled(o, id) = [mem EXCEPT ![n] = x]
    BY <1>1, <1>2, <2>1 DEF Enrolled, MemRow
  <2> HIDE DEF x
  <2>4. \A m \in Members : o = AddLead(m) <=> m = n
    BY <2>1, Kinds
  <2> QED BY <1>1, <2>2, <2>3, <2>4
<1>3. CASE o \notin Adds
  <2>1. \A m \in Members : o # AddLead(m)
    BY <1>3, Kinds
  <2> QED BY <1>1, <1>3, <2>1 DEF Enrolled
<1> QED BY <1>2, <1>3

\* A creation is found again, or not.
LEMMA StopsReconcileCreate == ASSUME StopInv, ReconcileCreate PROVE StopInv'
<1>0. /\ CampaignOK /\ RowsOK /\ KnownInv /\ SealInv /\ LeadInv /\ CalledInv /\ UnplannedInv
      /\ wk.pc = "idle" /\ op \in [Ops -> OpRow] /\ Create \in Ops
      /\ op[Create].state = "RECONCILE_REQUIRED"
      /\ UNCHANGED <<mem, wk, remote, leads, over, mails, events, kill, limited>>
  BY Keys DEF StopInv, CampaignOK, ReconcileCreate, instantly, world
<1>1. PICK st \in {"CONFIRMED", "RETRYABLE_FAILED", "RECONCILE_REQUIRED", "TERMINAL_FAILED"} :
         /\ op' = In(op, Create, st)
         /\ \/ camp' = camp /\ st # "CONFIRMED"
            \/ camp' = [camp EXCEPT !.id = 1] /\ camp.id \in {None, 1} /\ Len(remote) = 1
  BY DEF ReconcileCreate
<1>2. /\ op' \in [Ops -> OpRow] /\ op'[Create].state = st
      /\ \A p \in Ops \ {Create} : op'[p] = op[p]
  BY <1>0, <1>1, EndsAlone DEF Alone, OpStates
<1>3. /\ DOMAIN camp' = DOMAIN camp /\ camp'.lifecycle = camp.lifecycle
      /\ camp'.configured = camp.configured
      /\ camp'.id = camp.id \/ (camp.id = None /\ camp'.id \in 1..Len(remote))
      /\ st = "CONFIRMED" => camp'.id \in 1..Len(remote)
  <2>1. DOMAIN camp = {"lifecycle", "closed", "id", "configured"}
    BY <1>0 DEF RowsOK
  <2>2. CASE camp' = camp /\ st # "CONFIRMED"
    BY <2>2
  <2>3. CASE camp' = [camp EXCEPT !.id = 1] /\ camp.id \in {None, 1} /\ Len(remote) = 1
    <3>1. camp'.id = 1 /\ 1 \in 1..Len(remote)
      BY <2>1, <2>3
    <3> QED BY <2>1, <2>3, <3>1
  <2> QED BY <1>1, <2>2, <2>3
<1>4. CampaignOK'
  BY <1>0, <1>2 DEF CampaignOK, WorkerOK
<1>5. WorkerFrame
  <2>1. \A p \in Ops : op[p].state # "NONE" <=> op'[p].state # "NONE"
    BY <1>0, <1>2
  <2> QED BY <1>0, <1>3, <1>4, <2>1, Keys DEF WorkerFrame, RowsOK
<1>f. RowsOK' /\ SealInv' /\ (Known => Known') /\ (PausePlanned => PausePlanned')
      /\ (camp'.id # None => Known')
      /\ (Known' /\ Sending(camp.id)' => Known /\ Sending(camp.id) /\ camp'.id = camp.id)
  BY <1>5, FrameKeeps
<1>6. KnownInv'
  <2>1. PausePlanned' => PausePlanned
    BY <1>0, <1>2, Keys DEF PausePlanned
  <2>2. \A p \in {Configure} \cup Adds : op'[p].state \in {"NONE", "PLANNED"}
    BY <1>0, <1>2, Keys, Kinds DEF KnownInv
  <2>3. op'[Create].state = "CONFIRMED" => Known'
    BY <1>0, <1>2, <1>3 DEF Known
  <2> QED BY <1>0, <1>f, <2>1, <2>2, <2>3 DEF KnownInv
<1>7. ASSUME NEW m \in Members PROVE LeadInvOf(m)'
  <2>0. LeadInvOf(m) /\ AddLead(m) \in Ops /\ AddLead(m) # Create
    BY <1>0, Keys, Kinds DEF LeadInv
  <2>1. leads[m] = 0 /\ op'[AddLead(m)] = op[AddLead(m)]
    BY <1>0, <1>2, <2>0 DEF LeadInvOf
  <2>2. mem[m].lead # None => mem[m].lead = camp'.id
    BY <1>3, <2>0 DEF LeadInvOf
  <2> QED BY <1>0, <2>0, <2>1, <2>2 DEF LeadInvOf, Called
<1>8. CalledInv'
  <2>1. \A m \in Members : op'[PauseLead(m)].state = "CONFIRMED" => m \in over
    BY <1>0, <1>2, Keys, Kinds DEF CalledInv
  <2> QED BY <1>0, <2>1 DEF CalledInv, Called
<1>9. UnplannedInv'
  <2> SUFFICES ASSUME ~PausePlanned' PROVE UnplannedInv'
    BY DEF UnplannedInv
  <2>0. ~PausePlanned /\ Activate("config") \in Ops /\ Activate("release") \in Ops
        /\ Activate("config") # Create /\ Activate("release") # Create
    BY <1>f, Kinds
  <2>1. \A m \in Members : StoppedBound(m)' <=> StoppedBound(m)
    BY <1>0 DEF StoppedBound
  <2> QED BY <1>0, <1>2, <1>3, <1>f, <2>0, <2>1 DEF UnplannedInv
<1> QED BY <1>4, <1>f, <1>6, <1>7, <1>8, <1>9 DEF StopInv, LeadInv

\* A completed operation is recorded.
LEMMA StopsBind == ASSUME StopInv, Bind PROVE StopInv'
<1>0. /\ CampaignOK /\ RowsOK /\ KnownInv /\ SealInv /\ LeadInv /\ CalledInv /\ UnplannedInv
      /\ wk.pc = "bind" /\ wk.op \in Ops /\ op[wk.op].state = "IN_FLIGHT" /\ limited \in Nat
      /\ DOMAIN wk = {"pc", "op", "id", "at"} /\ op \in [Ops -> OpRow]
      /\ UNCHANGED <<remote, leads, over, mails, events, kill, limited>>
  BY DEF StopInv, CampaignOK, WorkerOK, Bind, instantly, world
<1>1. CASE Ends("RECONCILE_REQUIRED") /\ UNCHANGED <<camp, mem>>
  <2>1. Alone(wk.op, "RECONCILE_REQUIRED") /\ wk' = Idle
    BY <1>0, <1>1, EndsAlone DEF Ends, Leave, OpStates
  <2>2. "RECONCILE_REQUIRED" \in OpStates \ {"NONE"}
    BY DEF OpStates
  <2> QED BY <1>0, <1>1, <2>1, <2>2, StopsEnd
<1>2. CASE /\ Goto("confirm") /\ op' = op /\ (wk.op = Create => camp.id \in {None, wk.id})
           /\ camp' = Effected(wk.op, wk.id) /\ mem' = Enrolled(wk.op, wk.id)
  <2>1. wk'.pc = "confirm" /\ wk'.op = wk.op /\ wk'.id = wk.id /\ DOMAIN wk' = DOMAIN wk
    BY <1>0, <1>2 DEF Goto
  <2>2. /\ DOMAIN camp' = DOMAIN camp
        /\ camp'.id = IF wk.op = Create THEN wk.id ELSE camp.id
        /\ wk.op = Configure => camp'.configured = TRUE
        /\ wk.op # Configure => camp'.configured = camp.configured
        /\ camp'.lifecycle = IF wk.op \in Activations THEN "ACTIVE"
                             ELSE IF wk.op \in Pauses THEN "PAUSED" ELSE camp.lifecycle
    BY ZenonT(60), <1>0, <1>2, EffectedFields
  <2>3. \A m \in Members : wk.op = AddLead(m) =>
           /\ wk.id = camp.id /\ leads[m] = camp.id /\ camp.id \in Nat
           /\ mem[m].exec = "RESERVED" /\ camp'.id = camp.id
    <3>1. wk.op \in Adds => Known
      BY <1>0 DEF KnownInv
    <3> QED BY <1>0, <2>2, <3>1, Kinds DEF LeadInv, LeadInvOf, Known, Called
  <2>4. wk.op \in Adds => wk.id \in Nat
    BY <2>3, Kinds
  <2>5. /\ mem' \in [Members -> MemRow]
        /\ \A m \in Members : \/ wk.op # AddLead(m) /\ mem'[m] = mem[m]
                              \/ /\ wk.op = AddLead(m) /\ mem'[m].exec = "ENROLLED"
                                 /\ mem'[m].lead = wk.id /\ mem'[m].seq = mem[m].seq
    BY <1>0, <1>2, <2>4, EnrolledFields
  <2>6. CampaignOK'
    BY <1>0, <1>2, <2>1 DEF CampaignOK, WorkerOK, Positions
  <2>7. WorkerFrame
    <3>1. camp'.id = camp.id \/ (camp.id = None /\ camp'.id \in 1..Len(remote))
      BY <1>0, <1>2, <2>2 DEF KnownInv
    <3>2. \/ camp'.lifecycle = camp.lifecycle
          \/ camp'.lifecycle = "ACTIVE" /\ Sealed
          \/ camp'.lifecycle = "PAUSED" /\ PausePlanned
      BY <1>0, <2>2 DEF SealInv, PausePlanned, Called
    <3>4. \A m \in Members :
            /\ mem'[m].exec \in {"NONE", "RESERVED", "QUEUED"} => mem'[m].exec = mem[m].exec
            /\ mem'[m].seq = "WAITING_STEP2" => mem[m].seq = "WAITING_STEP2"
      BY <2>5
    <3> QED BY <1>0, <1>2, <2>2, <2>5, <2>6, <3>1, <3>2, <3>4 DEF WorkerFrame
  <2>f. RowsOK' /\ SealInv' /\ (Known => Known') /\ (camp'.id # None => Known')
        /\ (Known' /\ Sending(camp.id)' => Known /\ Sending(camp.id) /\ camp'.id = camp.id)
        /\ (~PausePlanned' => camp'.lifecycle # "PAUSED")
    BY <2>7, FrameKeeps
  <2>p. PausePlanned' <=> PausePlanned
    BY <1>2 DEF PausePlanned
  <2>8. KnownInv'
    <3>1. wk.op = Create => Known'
      BY <1>0, <2>2 DEF KnownInv, Known
    <3> QED BY <1>0, <1>2, <2>1, <2>f, <2>p, <3>1 DEF KnownInv
  <2>9. ASSUME NEW m \in Members PROVE LeadInvOf(m)'
    <3>0. LeadInvOf(m)
      BY <1>0 DEF LeadInv
    <3>1. CASE wk.op = AddLead(m)
      <4>1. mem'[m].exec = "ENROLLED" /\ mem'[m].lead = camp.id /\ camp'.id = camp.id
            /\ leads[m] = camp.id
        BY <2>3, <2>5, <3>1
      <4> QED BY <1>0, <1>2, <2>1, <3>0, <3>1, <4>1 DEF LeadInvOf, Called
    <3>2. CASE wk.op # AddLead(m)
      <4>1. mem'[m] = mem[m]
        BY <2>5, <3>2
      <4>2. wk.op = Create => leads[m] = 0 /\ (mem[m].lead # None => camp'.id = camp.id)
        BY <1>0, <1>2, <2>2, <3>0 DEF LeadInvOf
      <4> QED BY <1>0, <1>2, <2>1, <2>2, <3>0, <3>2, <4>1, <4>2 DEF LeadInvOf, Landed, Called
    <3> QED BY <3>1, <3>2
  <2>10. CalledInv'
    <3>1. wk.op \in Activations \cup Pauses => camp'.id = camp.id
      BY <2>2, Kinds
    <3> QED BY <1>0, <1>2, <2>1, <2>2, <3>1, Kinds DEF CalledInv, Called
  <2>11. UnplannedInv'
    <3> SUFFICES ASSUME ~PausePlanned PROVE UnplannedInv'
      BY <2>p DEF UnplannedInv
    <3>1. \A m \in Members : StoppedBound(m)' => StoppedBound(m)
      BY <1>0, <2>5 DEF StoppedBound
    <3> QED BY <1>0, <1>2, <2>1, <2>f, <2>p, <3>1 DEF UnplannedInv
  <2> QED BY <2>6, <2>f, <2>8, <2>9, <2>10, <2>11 DEF StopInv, LeadInv
<1> QED BY <1>1, <1>2 DEF Bind

\* A member is stopped with its lead bound and the campaign's pause planned.
LEMMA StopsExposed ==
    ASSUME StopInv, NEW m \in Members, leads[m] = camp.id,
           op[AddLead(m)].state \in {"IN_FLIGHT", "RECONCILE_REQUIRED"},
           NEW st \in {"IN_FLIGHT", "CONFIRMED"}, Sets(AddLead(m), st), PausePlanned',
           \A o \in Activations : op'[o] = op[o],
           mem' = [mem EXCEPT ![m] = [exec |-> "STOPPED", seq |-> "STOPPED", lead |-> camp.id]],
           UNCHANGED <<camp, remote, leads, over, mails, events, kill, limited>>, CampaignOK',
           \/ wk.pc = "idle" /\ wk' = wk
           \/ wk.op = AddLead(m) /\ wk'.op = wk.op /\ wk'.pc = "confirm"
    PROVE  StopInv'
<1>0. /\ CampaignOK /\ RowsOK /\ KnownInv /\ SealInv /\ LeadInv /\ CalledInv /\ UnplannedInv
      /\ mem \in [Members -> MemRow]
  BY DEF StopInv, RowsOK
<1>1. op[Create].state = "CONFIRMED" /\ Known /\ camp.id \in Nat
  BY <1>0, Kinds DEF KnownInv, Known
<1>2. /\ mem' \in [Members -> MemRow] /\ mem'[m].exec = "STOPPED" /\ mem'[m].seq = "STOPPED"
      /\ mem'[m].lead = camp.id /\ \A n \in Members \ {m} : mem'[n] = mem[n]
  <2> DEFINE x == [exec |-> "STOPPED", seq |-> "STOPPED", lead |-> camp.id]
  <2>1. x \in MemRow /\ x.exec = "STOPPED" /\ x.seq = "STOPPED" /\ x.lead = camp.id
    BY <1>1 DEF MemRow
  <2> HIDE DEF x
  <2>2. mem' = [mem EXCEPT ![m] = x]
    BY DEF x
  <2> QED BY <1>0, <2>1, <2>2
<1>3. /\ AddLead(m) \in Ops /\ op'[AddLead(m)].state = st /\ op' \in [Ops -> OpRow]
      /\ \A p \in Ops \ {AddLead(m)} :
            op'[p] = op[p] \/ (op[p].state = "NONE" /\ op'[p].state = "PLANNED")
  BY Keys DEF Sets
<1>4. WorkerFrame
  <2>2. \A o \in Ops : op[o].state # "NONE" => op'[o].state # "NONE"
    BY <1>3
  <2>3. \A n \in Members :
          /\ mem'[n].exec \in {"NONE", "RESERVED", "QUEUED"} => mem'[n].exec = mem[n].exec
          /\ mem'[n].seq = "WAITING_STEP2" => mem[n].seq = "WAITING_STEP2"
    BY <1>2
  <2> QED BY <1>2, <2>2, <2>3 DEF WorkerFrame
<1>5. RowsOK' /\ SealInv' /\ Known'
  BY <1>1, <1>4, FrameKeeps
<1>6. KnownInv'
  <2>1. op'[Create].state = "CONFIRMED"
    BY <1>1, <1>3, Keys, Kinds
  <2>2. wk'.pc = "idle" \/ wk'.op # Create
    BY Kinds, Keys
  <2> QED BY <1>5, <2>1, <2>2 DEF KnownInv
<1>7. ASSUME NEW n \in Members PROVE LeadInvOf(n)'
  <2>0. LeadInvOf(n) /\ AddLead(n) \in Ops /\ op'[Create].state = "CONFIRMED"
    BY <1>0, <1>1, <1>3, Keys, Kinds DEF LeadInv
  <2>1. CASE n = m
    BY <1>2, <2>0, <2>1 DEF LeadInvOf, Called
  <2>2. CASE n # m
    <3>1. mem'[n] = mem[n] /\ AddLead(n) # AddLead(m)
      BY <1>2, <2>2, Kinds
    <3>2. Landed(n) => Landed(n)'
      BY <1>3, <2>0, <3>1 DEF Landed
    <3>3. op'[AddLead(n)].state = "CONFIRMED" => op[AddLead(n)].state = "CONFIRMED"
      BY <1>3, <2>0, <3>1
    <3>4. wk'.op = AddLead(n) => wk'.pc = "idle"
      BY <3>1
    <3> QED BY <2>0, <3>1, <3>2, <3>3, <3>4 DEF LeadInvOf, Called
  <2> QED BY <2>1, <2>2
<1>8. CalledInv'
  <2>1. \A n \in Members : op'[PauseLead(n)].state = "CONFIRMED" => n \in over
    BY <1>0, <1>3, Keys, Kinds DEF CalledInv
  <2>2. wk'.pc = "idle" \/ (wk'.op \in Adds /\ wk'.pc = "confirm")
    BY Kinds
  <2> QED BY <2>1, <2>2, Kinds DEF CalledInv, Called
<1>9. UnplannedInv'
  BY DEF UnplannedInv
<1> QED BY <1>5, <1>6, <1>7, <1>8, <1>9 DEF StopInv, LeadInv, WorkerFrame

\* What a reconciliation reads, kind by kind.
LEMMA ShowsKinds ==
    ASSUME NEW o \in Ops
    PROVE  /\ \A m \in Members : o = AddLead(m) => (Shows(o) <=> leads[m] = camp.id)
           /\ o \in Activations => (Shows(o) <=> Sending(camp.id))
           /\ o \in Pauses => (Shows(o) <=> remote[camp.id] = "paused")
           /\ \A m \in Members : o = PauseLead(m) => (Shows(o) <=> m \in over)
<1>1. CASE o \in Adds
  BY <1>1, Kinds DEF Shows
<1>2. CASE o \in Activations
  BY <1>2, Kinds DEF Shows
<1>3. CASE o \in Pauses
  BY <1>3, Kinds DEF Shows
<1>4. CASE o \in LeadPauses
  BY <1>4, Kinds DEF Shows
<1>5. CASE o \in {Create, Configure}
  BY <1>5, Kinds, Keys
<1> QED BY <1>1, <1>2, <1>3, <1>4, <1>5, Kinds

\* A reconciliation: to be tried again, exposed, or completed.
LEMMA StopsReconcile == ASSUME StopInv, NEW o \in Ops, Reconcile(o) PROVE StopInv'
<1>0. /\ CampaignOK /\ RowsOK /\ KnownInv /\ SealInv /\ LeadInv /\ CalledInv /\ UnplannedInv
      /\ wk.pc = "idle" /\ op \in [Ops -> OpRow] /\ o # Create
      /\ op[o].state = "RECONCILE_REQUIRED"
      /\ UNCHANGED <<wk, remote, leads, over, mails, events, kill, limited>>
  BY DEF StopInv, CampaignOK, Reconcile, instantly, world
<1>1. \A m \in Members : o = AddLead(m) => op[Create].state = "CONFIRMED" /\ Known /\ camp.id \in Nat
  BY <1>0, Kinds DEF KnownInv, Known
<1>a. o = Configure => op[Create].state = "CONFIRMED"
  BY <1>0 DEF KnownInv
<1>2. CASE ~Shows(o) /\ op' = In(op, o, "RETRYABLE_FAILED") /\ UNCHANGED <<camp, mem>>
  <2>1. /\ op' \in [Ops -> OpRow] /\ op'[o].state = "RETRYABLE_FAILED"
        /\ \A p \in Ops \ {o} : op'[p] = op[p]
    BY <1>0, <1>2, EndsAlone DEF Alone, OpStates
  <2>2. CampaignOK'
    BY <1>0, <2>1 DEF CampaignOK, WorkerOK
  <2>3. WorkerFrame
    <3>1. \A p \in Ops : op[p].state # "NONE" <=> op'[p].state # "NONE"
      BY <1>0, <2>1
    <3> QED BY <1>0, <1>2, <2>2, <3>1, Keys DEF WorkerFrame, RowsOK
  <2>f. RowsOK' /\ SealInv' /\ (Known => Known') /\ (PausePlanned => PausePlanned')
        /\ (Known' /\ Sending(camp.id)' => Known /\ Sending(camp.id))
    BY <2>3, FrameKeeps
  <2>4. KnownInv'
    <3>1. PausePlanned' => PausePlanned
      BY <1>0, <2>1, Keys DEF PausePlanned
    <3>2. op'[Create] = op[Create]
      BY <1>0, <2>1, Keys
    <3>3. \A p \in {Configure} \cup Adds :
             op'[p].state \notin {"NONE", "PLANNED"} => op[Create].state = "CONFIRMED"
      BY <1>0, <2>1, Keys DEF KnownInv
    <3> QED BY <1>0, <1>2, <2>f, <3>1, <3>2, <3>3 DEF KnownInv
  <2>5. ASSUME NEW m \in Members PROVE LeadInvOf(m)'
    <3>0. LeadInvOf(m) /\ AddLead(m) \in Ops /\ op'[Create] = op[Create]
      BY <1>0, <2>1, Keys DEF LeadInv
    <3>1. CASE o = AddLead(m)
      <4>1. leads[m] = 0
        BY <1>2, <3>0, <3>1, ShowsKinds DEF LeadInvOf
      <4> QED BY <1>0, <1>2, <2>1, <3>0, <3>1, <4>1 DEF LeadInvOf, Called
    <3>2. CASE o # AddLead(m)
      BY <1>0, <1>2, <2>1, <3>0, <3>2 DEF LeadInvOf, Landed, Called
    <3> QED BY <3>1, <3>2
  <2>6. CalledInv'
    <3>1. \A m \in Members : op'[PauseLead(m)].state = "CONFIRMED" => m \in over
      BY <1>0, <2>1, Keys DEF CalledInv
    <3> QED BY <1>0, <3>1 DEF CalledInv, Called
  <2>7. UnplannedInv'
    <3> SUFFICES ASSUME ~PausePlanned' PROVE UnplannedInv'
      BY DEF UnplannedInv
    <3>0. ~PausePlanned /\ Activate("config") \in Ops /\ Activate("release") \in Ops
      BY <2>f, Kinds
    <3>1. o # Activate("release") /\ (o = Activate("config") => ~Sending(camp.id))
      BY <1>0, <1>2, <3>0, ShowsKinds, Kinds DEF UnplannedInv
    <3>2. \A m \in Members : StoppedBound(m)' <=> StoppedBound(m)
      BY <1>0, <1>2 DEF StoppedBound
    <3> QED BY <1>0, <1>2, <2>1, <2>f, <3>0, <3>1, <3>2 DEF UnplannedInv
  <2> QED BY <2>2, <2>f, <2>4, <2>5, <2>6, <2>7 DEF StopInv, LeadInv
<1>3. CASE /\ Shows(o) /\ o \in Adds /\ Exposed(In(op, o, "CONFIRMED"), o[2], camp.id)
           /\ UNCHANGED camp
  <2>1. PICK m \in Members : o = AddLead(m) /\ o[2] = m
    BY <1>3, Kinds
  <2> DEFINE t == In(op, o, "CONFIRMED")
  <2>3. t \in [Ops -> OpRow]
    BY <1>0, InFields DEF OpStates
  <2>4. /\ op' = Planned(t, {PauseLead(m), Pause("config")})
        /\ mem' = [mem EXCEPT ![m] = [exec |-> "STOPPED", seq |-> "STOPPED", lead |-> camp.id]]
    BY <1>3, <2>1 DEF Exposed
  <2> HIDE DEF t
  <2>5. Plans(t, op')
    BY <2>3, <2>4, PlannedPlans
  <2>6. Sets(o, "CONFIRMED")
    BY <1>0, <2>5, PlansSame, InSets DEF t, OpStates
  <2>7. PausePlanned'
    <3>1. Pause("config") \in Ops \cap {PauseLead(m), Pause("config")}
      BY Kinds
    <3>2. op'[Pause("config")].state # "NONE"
      BY <2>3, <2>4, <3>1, PlannedOnly
    <3> QED BY <3>2, Kinds DEF PausePlanned
  <2>8. CampaignOK'
    BY <1>0, <2>6 DEF CampaignOK, WorkerOK, Sets
  <2>9. leads[m] = camp.id
    BY <1>3, <2>1, ShowsKinds
  <2>10. \A a \in Activations : op'[a] = op[a]
    <3>1. Activations \subseteq Ops \ {PauseLead(m), Pause("config"), o}
      BY <1>3, Kinds
    <3>2. \A a \in Activations : op'[a] = t[a]
      BY <2>3, <2>4, <3>1, PlannedOnly
    <3>3. \A a \in Activations : t[a] = op[a]
      BY <1>0, <3>1, InFields DEF t, OpStates
    <3> QED BY <3>2, <3>3
  <2> QED BY <1>0, <1>3, <2>1, <2>4, <2>6, <2>7, <2>8, <2>9, <2>10, StopsExposed
<1>4. CASE /\ Shows(o) /\ op' = In(op, o, "CONFIRMED")
           /\ camp' = Effected(o, camp.id) /\ mem' = Enrolled(o, camp.id)
           /\ o \in Adds => \E c \in MutationCheck(o) : c.verdict = "ok"
  <2>1. /\ op' \in [Ops -> OpRow] /\ op'[o].state = "CONFIRMED"
        /\ \A p \in Ops \ {o} : op'[p] = op[p]
    BY <1>0, <1>4, EndsAlone DEF Alone, OpStates
  <2>2. CampaignOK'
    BY <1>0, <2>1 DEF CampaignOK, WorkerOK
  <2>3. /\ DOMAIN camp' = DOMAIN camp /\ camp'.id = camp.id
        /\ camp'.lifecycle = IF o \in Activations THEN "ACTIVE"
                             ELSE IF o \in Pauses THEN "PAUSED" ELSE camp.lifecycle
    BY ZenonT(60), <1>0, <1>4, EffectedFields
  <2>4. /\ mem' \in [Members -> MemRow]
        /\ \A m \in Members : \/ o # AddLead(m) /\ mem'[m] = mem[m]
                              \/ /\ o = AddLead(m) /\ mem'[m].exec = "ENROLLED"
                                 /\ mem'[m].lead = camp.id /\ mem'[m].seq = mem[m].seq
    <3>1. o \in Adds => camp.id \in Nat
      BY <1>1, Kinds
    <3> QED BY <1>0, <1>4, <3>1, EnrolledFields
  <2>5. WorkerFrame
    <3>1. \A p \in Ops : op[p].state # "NONE" <=> op'[p].state # "NONE"
      BY <1>0, <2>1
    <3>2. o \in Activations => Sealed
      BY <1>0 DEF SealInv
    <3>3. o \in Pauses => PausePlanned
      BY <1>0 DEF PausePlanned
    <3>4. \A m \in Members :
            /\ mem'[m].exec \in {"NONE", "RESERVED", "QUEUED"} => mem'[m].exec = mem[m].exec
            /\ mem'[m].seq = "WAITING_STEP2" => mem[m].seq = "WAITING_STEP2"
      BY <2>4
    <3> QED BY <1>0, <2>2, <2>3, <2>4, <3>1, <3>2, <3>3, <3>4, Keys DEF WorkerFrame
  <2>f. RowsOK' /\ SealInv' /\ (Known => Known') /\ (PausePlanned => PausePlanned')
        /\ (Known' /\ Sending(camp.id)' => Known /\ Sending(camp.id))
        /\ (~PausePlanned' => camp'.lifecycle # "PAUSED")
    BY <2>5, FrameKeeps
  <2>6. KnownInv'
    <3>1. PausePlanned' => PausePlanned
      BY <1>0, <2>1, Keys DEF PausePlanned
    <3>2. op'[Create] = op[Create]
      BY <1>0, <2>1, Keys
    <3>3. \A p \in {Configure} \cup Adds :
             op'[p].state \notin {"NONE", "PLANNED"} => op[Create].state = "CONFIRMED"
      BY <1>0, <2>1, Keys DEF KnownInv
    <3> QED BY <1>0, <2>3, <2>f, <3>1, <3>2, <3>3 DEF KnownInv
  <2>7. ASSUME NEW m \in Members PROVE LeadInvOf(m)'
    <3>0. LeadInvOf(m) /\ AddLead(m) \in Ops /\ op'[Create] = op[Create]
      BY <1>0, <2>1, Keys DEF LeadInv
    <3>1. CASE o = AddLead(m)
      <4>1. leads[m] = camp.id /\ mem'[m].exec = "ENROLLED" /\ mem'[m].lead = camp.id
        BY <1>4, <2>4, <3>1, ShowsKinds
      <4> QED BY <1>0, <1>1, <2>3, <3>0, <3>1, <4>1 DEF LeadInvOf, Called
    <3>2. CASE o # AddLead(m)
      BY <1>0, <2>1, <2>3, <2>4, <3>0, <3>2 DEF LeadInvOf, Landed, Called
    <3> QED BY <3>1, <3>2
  <2>8. CalledInv'
    <3>1. ASSUME NEW m \in Members, op'[PauseLead(m)].state = "CONFIRMED" PROVE m \in over
      <4>1. CASE o = PauseLead(m)
        BY <1>4, <4>1, ShowsKinds
      <4>2. CASE o # PauseLead(m)
        BY <1>0, <2>1, <3>1, <4>2, Keys DEF CalledInv
      <4> QED BY <4>1, <4>2
    <3> QED BY <1>0, <3>1 DEF CalledInv, Called
  <2>9. UnplannedInv'
    <3> SUFFICES ASSUME ~PausePlanned' PROVE UnplannedInv'
      BY DEF UnplannedInv
    <3>0. ~PausePlanned /\ Activate("config") \in Ops /\ Activate("release") \in Ops
      BY <2>f, Kinds
    <3>1. o # Activate("release")
      BY <1>0, <3>0 DEF UnplannedInv
    <3>2. \A m \in Members : StoppedBound(m)' => StoppedBound(m)
      BY <1>0, <2>4 DEF StoppedBound
    <3> QED BY <1>0, <2>1, <2>f, <3>0, <3>1, <3>2 DEF UnplannedInv
  <2> QED BY <2>2, <2>f, <2>6, <2>7, <2>8, <2>9 DEF StopInv, LeadInv
<1> QED BY <1>2, <1>3, <1>4 DEF Reconcile

\* What the live check of the worker's operation may do: an activation's stops
\* queued members, another's does nothing; none plans a pause of a campaign
\* that has none.
CheckKeeps(c) ==
    /\ c.mem \in [Members -> MemRow] /\ Plans(op, c.op)
    /\ c.verdict \in {"ok", "changed", "blocked"}
    /\ \A m \in Members :
          /\ c.mem[m].lead = mem[m].lead
          /\ c.mem[m].seq = "WAITING_STEP2" => mem[m].seq = "WAITING_STEP2"
          /\ c.mem[m].exec = mem[m].exec \/ (mem[m].exec = "QUEUED" /\ c.mem[m].exec = "STOPPED")
    /\ \A a \in Activations : c.op[a] = op[a]
    /\ ~PausePlanned => \A p \in Pauses : c.op[p] = op[p]
    /\ c.verdict = "ok" => c.mem = mem /\ c.op = op

\* Nobody stopped and bound is in the way of the activation.
LEMMA ActivationFacts ==
    ASSUME StopInv, NEW at, NEW d \in ActivationCheck(at)
    PROVE  /\ CheckKeeps(d)
           /\ kill = FALSE /\ d.verdict = "blocked" => d.mem = mem
           /\ d.verdict = "ok" => \A m \in Members : ~StoppedBound(m)
<1>0. /\ mem \in [Members -> MemRow] /\ CampaignOK /\ op \in [Ops -> OpRow] /\ kill \in BOOLEAN
      /\ CalledInv
  BY DEF StopInv, RowsOK, CampaignOK
<1> DEFINE retained == {m \in Members : mem[m].exec = "QUEUED"}
           excluded == {m \in Reserved : mem[m].exec \in {"STOPPED", "FAILED"}}
           Table(S) == Planned(op, {PauseLead(m) : m \in Bound(S)})
           StopThem(v, S) == Verdict(v, StopRows(S), Table(S))
<1>1. ASSUME NEW S
      PROVE  /\ Plans(op, Table(S))
             /\ \A o \in Activations \cup Pauses : Table(S)[o] = op[o]
  <2>1. \A n : PauseLead(n) \notin Activations \cup Pauses
    BY DEF PauseLead, Activations, Activate, Pauses, Pause
  <2>2. \A o \in Activations \cup Pauses : o \in Ops \ {PauseLead(m) : m \in Bound(S)}
    BY <2>1, Kinds
  <2> QED BY <1>0, <2>2, PlannedPlans, PlannedOnly
<1>2. ASSUME NEW S
      PROVE  /\ StopRows(S) \in [Members -> MemRow]
             /\ \A m \in Members :
                   /\ StopRows(S)[m].lead = mem[m].lead
                   /\ StopRows(S)[m].seq = "WAITING_STEP2" => mem[m].seq = "WAITING_STEP2"
                   /\ \/ StopRows(S)[m].exec = mem[m].exec
                      \/ mem[m].exec = "QUEUED" /\ StopRows(S)[m].exec = "STOPPED"
  BY <1>0 DEF StopRows, MemRow
<1>3. \/ d = Same("changed")
      \/ kill = TRUE /\ d = StopThem("blocked", Reserved)
      \/ \E m \in retained \ valid : d = StopThem("changed", {m})
      \/ /\ d = Same("ok")
         /\ \A m \in Bound(excluded) : op[PauseLead(m)].state = "CONFIRMED"
  BY <1>0 DEF ActivationCheck
<1> HIDE DEF Table
<1>4. CASE d = Same("changed")
  BY <1>0, <1>4, PlansSame DEF CheckKeeps, Same, Verdict
<1>5. ASSUME NEW v \in {"changed", "blocked"}, NEW S, d = StopThem(v, S)
      PROVE  CheckKeeps(d) /\ d.verdict = v
  <2>1. d.verdict = v /\ d.mem = StopRows(S) /\ d.op = Table(S)
    BY <1>5 DEF Verdict
  <2> QED BY <1>1, <1>2, <2>1 DEF CheckKeeps
<1>6. CASE /\ d = Same("ok")
           /\ \A m \in Bound(excluded) : op[PauseLead(m)].state = "CONFIRMED"
  <2>1. d.verdict = "ok" /\ d.mem = mem /\ d.op = op
    BY <1>6 DEF Same, Verdict
  <2>2. ASSUME NEW m \in Members, StoppedBound(m) PROVE FALSE
    <3>1. m \in Bound(excluded)
      BY <2>2 DEF Bound, StoppedBound, Reserved
    <3> QED BY <1>0, <1>6, <2>2, <3>1 DEF CalledInv, StoppedBound
  <2> QED BY <1>0, <2>1, <2>2, PlansSame DEF CheckKeeps
<1>7. d = Same("changed") => d.verdict = "changed" /\ d.mem = mem
  BY DEF Same, Verdict
<1>8. CASE kill = TRUE /\ d = StopThem("blocked", Reserved)
  BY <1>5, <1>8
<1>9. CASE \E m \in retained \ valid : d = StopThem("changed", {m})
  BY <1>5, <1>9
<1> QED BY <1>3, <1>4, <1>6, <1>7, <1>8, <1>9

\* The live checks, for whichever operation the worker is at.
LEMMA CheckFacts ==
    ASSUME StopInv, NEW o \in Ops, NEW c \in LiveCheck(o)
    PROVE  /\ CheckKeeps(c)
           /\ o \notin Activations => c.mem = mem /\ c.op = op /\ c.verdict # "blocked"
           /\ \A m \in Members : o = AddLead(m) /\ c.verdict = "ok" => mem[m].exec = "RESERVED"
           /\ ~PausePlanned /\ kill = FALSE /\ c.verdict = "blocked" => c.mem = mem
           /\ ~PausePlanned /\ c.verdict = "ok" /\ o \in Activations =>
                 \A m \in Members : ~StoppedBound(m)
<1>0. /\ mem \in [Members -> MemRow] /\ CampaignOK /\ op \in [Ops -> OpRow] /\ RowsOK
      /\ UnplannedInv
  BY DEF StopInv, RowsOK, CampaignOK
<1>1. \A v \in {"ok", "changed"} : CheckKeeps(Same(v)) /\ Same(v).verdict = v
                                   /\ Same(v).mem = mem /\ Same(v).op = op
  BY <1>0, PlansSame DEF CheckKeeps, Same, Verdict
<1>2. CASE o \in {Create, Configure} \union Adds
  <2>1. c \in MutationCheck(o)
    BY <1>2 DEF LiveCheck
  <2>2. /\ c = Same("ok") \/ c = Same("changed")
        /\ c = Same("ok") => c.verdict = "ok"
    BY <1>1, <2>1 DEF MutationCheck
  <2>3. \A m \in Members : o = AddLead(m) /\ c.verdict = "ok" => mem[m].exec = "RESERVED"
    <3>1. ASSUME NEW m \in Members, o = AddLead(m), mem[m].exec # "RESERVED" PROVE c = Same("changed")
      <4>1. o \in Adds /\ o[2] = m
        BY <3>1, Kinds
      <4> QED BY <2>1, <3>1, <4>1 DEF MutationCheck
    <3> QED BY <1>1, <3>1
  <2>4. o \notin Activations
    BY <1>2, Kinds
  <2> QED BY <1>1, <2>2, <2>3, <2>4
<1>3. CASE o \in Activations /\ camp.lifecycle = "PAUSED"
  <2>1. c \in ReleaseCheck(wk.at)
    BY <1>3, Kinds DEF LiveCheck
  <2>2. PausePlanned
    BY <1>0, <1>3 DEF UnplannedInv
  <2>3. Plans(op, c.op)
    BY <1>0, <2>1, ReleasePlans
  <2>4. CheckKeeps(c)
    BY <1>0, <2>1, <2>2, <2>3, ReleaseFacts DEF CheckKeeps
  <2>5. \A m \in Members : o # AddLead(m)
    BY <1>3, Kinds
  <2> QED BY <1>3, <2>2, <2>4, <2>5
<1>4. CASE o \in Activations /\ camp.lifecycle # "PAUSED"
  <2>1. c \in ActivationCheck(wk.at)
    BY <1>4, Kinds DEF LiveCheck
  <2>2. \A m \in Members : o # AddLead(m)
    BY <1>4, Kinds
  <2> QED BY <1>4, <2>1, <2>2, ActivationFacts
<1>5. CASE o \notin {Create, Configure} \union Adds \union Activations
  <2>1. c = Same("ok")
    BY <1>5 DEF LiveCheck
  <2>2. \A m \in Members : o # AddLead(m)
    BY <1>5, Kinds
  <2> QED BY <1>1, <1>5, <2>1, <2>2
<1> QED BY <1>2, <1>3, <1>4, <1>5

\* A live check refuses: the operation ends, and stops members on its way.
LEMMA StopsRefused ==
    ASSUME StopInv, wk.pc \in {"claimed", "read"}, wk' = Idle,
           NEW st \in {"TERMINAL_FAILED", "RECONCILE_REQUIRED"}, Sets(wk.op, st),
           wk.pc = "read" => st = "RECONCILE_REQUIRED" /\ wk.op \in Activations,
           \A a \in Activations \ {wk.op} : op'[a] = op[a],
           mem' \in [Members -> MemRow],
           \A m \in Members :
              /\ mem'[m].lead = mem[m].lead
              /\ mem'[m].seq = "WAITING_STEP2" => mem[m].seq = "WAITING_STEP2"
              /\ \/ mem'[m].exec = mem[m].exec
                 \/ /\ mem[m].exec = "RESERVED" /\ mem'[m].exec = "STOPPED"
                    /\ wk.op = AddLead(m) /\ wk.pc = "claimed"
                 \/ /\ mem[m].exec = "QUEUED" /\ mem'[m].exec = "STOPPED"
                    /\ wk.op \in Activations,
           UNCHANGED <<camp, remote, leads, over, mails, events, kill, limited>>,
           PausePlanned' => Known,
           wk.pc = "read" /\ ~PausePlanned' /\ kill = FALSE => mem' = mem
    PROVE  StopInv'
<1>0. /\ CampaignOK /\ RowsOK /\ KnownInv /\ SealInv /\ LeadInv /\ CalledInv /\ UnplannedInv
      /\ wk.op \in Ops /\ op[wk.op].state = "IN_FLIGHT"
  BY DEF StopInv, CampaignOK, WorkerOK
<1>1. /\ op' \in [Ops -> OpRow] /\ op'[wk.op].state = st
      /\ \A p \in Ops \ {wk.op} :
            op'[p] = op[p] \/ (op[p].state = "NONE" /\ op'[p].state = "PLANNED")
      /\ wk'.pc = "idle" /\ DOMAIN wk' = {"pc", "op", "id", "at"}
  BY DEF Sets, Idle
<1>2. CampaignOK'
  BY <1>0, <1>1 DEF CampaignOK, WorkerOK
<1>3. WorkerFrame
  <2>1. \A o \in Ops : op[o].state # "NONE" => op'[o].state # "NONE"
    BY <1>1
  <2>2. \A o \in Activations : op[o].state = "NONE" => op'[o].state = "NONE"
    BY <1>0, Kinds
  <2>3. \A m \in Members :
          /\ mem'[m].exec \in {"NONE", "RESERVED", "QUEUED"} => mem'[m].exec = mem[m].exec
          /\ mem'[m].seq = "WAITING_STEP2" => mem[m].seq = "WAITING_STEP2"
    OBVIOUS
  <2> QED BY <1>2, <2>1, <2>2, <2>3 DEF WorkerFrame
<1>f. /\ RowsOK' /\ SealInv' /\ (Known => Known') /\ (PausePlanned => PausePlanned')
      /\ camp'.id # None => Known'
      /\ Known' /\ Sending(camp.id)' => Known /\ Sending(camp.id)
      /\ ~PausePlanned' => camp'.lifecycle # "PAUSED"
  BY <1>3, FrameKeeps
<1>4. op[Create].state = "CONFIRMED" => op'[Create].state = "CONFIRMED"
  BY <1>0, <1>1, Keys
<1>5. KnownInv'
  <2>1. op'[Create].state = "CONFIRMED" => op[Create].state = "CONFIRMED"
    BY <1>0, <1>1, Keys
  <2>2. \A o \in {Configure} \cup Adds :
           op'[o].state \notin {"NONE", "PLANNED"} => op[Create].state = "CONFIRMED"
    BY <1>0, <1>1, Keys DEF KnownInv
  <2> QED BY <1>0, <1>1, <1>f, <1>4, <2>1, <2>2 DEF KnownInv
<1>6. ASSUME NEW m \in Members PROVE LeadInvOf(m)'
  <2>0. LeadInvOf(m) /\ AddLead(m) \in Ops
    BY <1>0, Keys DEF LeadInv
  <2>1. op'[AddLead(m)].state = "CONFIRMED" => op[AddLead(m)].state = "CONFIRMED"
    BY <1>1, <2>0
  <2>2. ASSUME limited = 0, leads[m] # 0, mem[m].exec = "RESERVED"
        PROVE  mem'[m].exec = "RESERVED" /\ Landed(m)'
    <3>1. Landed(m)
      BY <2>0, <2>2 DEF LeadInvOf
    <3>2. wk.op # AddLead(m)
      BY <3>1, Kinds DEF Landed
    <3> QED BY <1>1, <2>0, <2>2, <3>1, <3>2 DEF Landed
  <2> QED BY <1>1, <1>4, <2>0, <2>1, <2>2 DEF LeadInvOf, Called
<1>7. CalledInv'
  <2>1. \A m \in Members : op'[PauseLead(m)].state = "CONFIRMED" => m \in over
    BY <1>0, <1>1, Keys DEF CalledInv
  <2> QED BY <1>1, <2>1 DEF CalledInv, Called
<1>8. UnplannedInv'
  <2> SUFFICES ASSUME ~PausePlanned' PROVE UnplannedInv'
    BY DEF UnplannedInv
  <2>1. /\ ~PausePlanned /\ op[Activate("release")].state = "NONE"
        /\ wk.op # Activate("release") /\ op'[Activate("release")].state = "NONE"
    BY <1>0, <1>f, Kinds DEF UnplannedInv
  <2>2. ASSUME Known', Sending(camp.id)'
        PROVE  /\ op'[Activate("config")].state \in {"IN_FLIGHT", "RECONCILE_REQUIRED", "CONFIRMED"}
               /\ kill = FALSE => \A m \in Members : ~StoppedBound(m)'
    <3>1. Known /\ Sending(camp.id) /\ Sealed
      BY <1>0, <1>f, <2>2 DEF SealInv, Known
    <3>2. ~(wk.op = Activate("config") /\ wk.pc = "claimed")
      BY <1>0, <2>1, <3>1 DEF UnplannedInv
    <3>3. op'[Activate("config")].state \in {"IN_FLIGHT", "RECONCILE_REQUIRED", "CONFIRMED"}
      BY <1>0, <1>1, <2>1, <3>1, <3>2, Kinds DEF UnplannedInv
    <3>4. ASSUME kill = FALSE, NEW m \in Members PROVE ~StoppedBound(m)'
      <4>1. ~StoppedBound(m)
        BY <1>0, <2>1, <3>1, <3>4 DEF UnplannedInv
      <4>2. mem'[m].exec = mem[m].exec
        BY <2>1, <3>1, <3>2, <3>4, Kinds DEF Sealed
      <4> QED BY <4>1, <4>2 DEF StoppedBound
    <3> QED BY <3>3, <3>4
  <2> QED BY <1>1, <1>f, <2>1, <2>2 DEF UnplannedInv
<1> QED BY <1>2, <1>f, <1>5, <1>6, <1>7, <1>8 DEF StopInv, LeadInv

\* A live check allows: the worker goes on to its call or to its binding.
LEMMA StopsGoesOn ==
    ASSUME StopInv, NEW pc, wk' = [wk EXCEPT !.pc = pc],
           (wk.pc = "claimed" /\ pc = "call") \/ (wk.pc = "read" /\ pc = "bind"),
           UNCHANGED <<camp, mem, op, remote, leads, over, mails, events, kill, limited>>,
           \A m \in Members : wk.op = AddLead(m) => mem[m].exec = "RESERVED",
           ~PausePlanned /\ wk.op \in Activations => \A m \in Members : ~StoppedBound(m)
    PROVE  StopInv'
<1>0. /\ CampaignOK /\ RowsOK /\ KnownInv /\ SealInv /\ LeadInv /\ CalledInv /\ UnplannedInv
      /\ DOMAIN wk = {"pc", "op", "id", "at"}
  BY DEF StopInv, CampaignOK, WorkerOK
<1>1. /\ wk'.pc = pc /\ wk'.op = wk.op /\ wk'.id = wk.id /\ DOMAIN wk' = DOMAIN wk
  BY <1>0
<1>p. PausePlanned' <=> PausePlanned
  BY DEF PausePlanned
<1>2. CampaignOK' /\ RowsOK' /\ KnownInv'
  BY <1>0, <1>1, <1>p DEF CampaignOK, WorkerOK, RowsOK, Positions, KnownInv, Known
<1>3. SealInv'
  BY <1>0 DEF SealInv, Sealed, Sending
<1>4. ASSUME NEW m \in Members PROVE LeadInvOf(m)'
  <2>0. LeadInvOf(m)
    BY <1>0 DEF LeadInv
  <2>1. Landed(m) => Landed(m)'
    BY <1>1 DEF Landed
  <2> QED BY <1>1, <2>0, <2>1 DEF LeadInvOf, Called
<1>5. CalledInv'
  BY <1>0, <1>1 DEF CalledInv, Called
<1>6. UnplannedInv'
  <2> SUFFICES ASSUME ~PausePlanned PROVE UnplannedInv'
    BY <1>p DEF UnplannedInv
  <2>1. (Known' <=> Known) /\ (Sending(camp.id)' <=> Sending(camp.id))
        /\ \A m \in Members : StoppedBound(m)' <=> StoppedBound(m)
    BY DEF Known, Sending, StoppedBound
  <2>2. Known /\ Sending(camp.id) => ~(wk'.op = Activate("config") /\ wk'.pc \in {"claimed", "call"})
    BY <1>0, <1>1 DEF UnplannedInv
  <2> QED BY <1>0, <1>1, <1>p, <2>1, <2>2 DEF UnplannedInv
<1> QED BY <1>2, <1>3, <1>4, <1>5, <1>6 DEF StopInv, LeadInv

\* The check before the call.
LEMMA StopsBeforeCall == ASSUME StopInv, BeforeCall PROVE StopInv'
<1>0. /\ CampaignOK /\ RowsOK /\ KnownInv /\ wk.op \in Ops /\ wk.pc = "claimed"
      /\ op \in [Ops -> OpRow] /\ mem \in [Members -> MemRow]
  BY DEF StopInv, CampaignOK, WorkerOK, RowsOK, BeforeCall
<1> DEFINE Refused(c) == c.verdict = "changed" \/
                         (c.verdict = "ok" /\ wk.op \in Adds /\ Sending(camp.id))
           Halted(m) == [mem[m] EXCEPT !.exec = "STOPPED", !.seq = "STOPPED"]
           Rows(c) == [m \in Members |->
                          IF Refused(c) /\ wk.op = AddLead(m) /\ mem[m].exec = "RESERVED"
                            THEN Halted(m) ELSE c.mem[m]]
<1>1. PICK c \in LiveCheck(wk.op) :
         /\ mem' = Rows(c)
         /\ IF Refused(c) \/ c.verdict = "blocked"
              THEN Leave /\ op' = In(c.op, wk.op, "TERMINAL_FAILED")
              ELSE Goto("call") /\ op' = c.op
  BY DEF BeforeCall
<1>2. UNCHANGED <<camp, remote, leads, over, mails, events, kill, limited>>
  BY DEF BeforeCall, instantly, world
<1>3. /\ CheckKeeps(c)
      /\ \A m \in Members : wk.op = AddLead(m) /\ c.verdict = "ok" => mem[m].exec = "RESERVED"
      /\ wk.op \notin Activations => c.mem = mem
      /\ ~PausePlanned /\ c.verdict = "ok" /\ wk.op \in Activations =>
            \A m \in Members : ~StoppedBound(m)
  BY <1>0, CheckFacts
<1>4. \A m \in Members : Halted(m) \in MemRow /\ Halted(m).exec = "STOPPED"
                         /\ Halted(m).seq = "STOPPED" /\ Halted(m).lead = mem[m].lead
  BY <1>0 DEF MemRow
<1> HIDE DEF Halted
<1>5. /\ mem' \in [Members -> MemRow]
      /\ \A m \in Members :
            mem'[m] = IF Refused(c) /\ wk.op = AddLead(m) /\ mem[m].exec = "RESERVED"
                        THEN Halted(m) ELSE c.mem[m]
  BY <1>1, <1>3, <1>4 DEF CheckKeeps
<1>6. CASE Refused(c) \/ c.verdict = "blocked"
  <2>1. wk' = Idle /\ op' = In(c.op, wk.op, "TERMINAL_FAILED")
    BY <1>1, <1>6 DEF Leave
  <2>2. Sets(wk.op, "TERMINAL_FAILED") /\ c.op \in [Ops -> OpRow]
    BY <1>0, <1>3, <2>1, InSets DEF CheckKeeps, OpStates, Plans
  <2>3. \A p \in Ops \ {wk.op} : op'[p] = c.op[p]
    <3>1. "TERMINAL_FAILED" \in OpStates
      BY DEF OpStates
    <3> QED BY <1>0, <2>1, <2>2, <3>1, InFields
  <2>4. \A a \in Activations \ {wk.op} : op'[a] = op[a]
    BY <1>3, <2>3, Keys DEF CheckKeeps
  <2>5. PausePlanned' => Known
    <3>1. ASSUME PausePlanned', ~PausePlanned PROVE FALSE
      <4>1. PICK p \in Pauses : op'[p].state # "NONE"
        BY <3>1 DEF PausePlanned
      <4>2. op[p].state = "NONE" /\ p \in Ops
        BY <3>1, Keys DEF PausePlanned
      <4>3. p # wk.op
        BY <1>0, <4>2 DEF CampaignOK, WorkerOK
      <4> QED BY <1>3, <2>3, <3>1, <4>1, <4>2, <4>3 DEF CheckKeeps
    <3> QED BY <1>0, <3>1 DEF KnownInv
  <2>6. ASSUME NEW m \in Members
        PROVE  /\ mem'[m].lead = mem[m].lead
               /\ mem'[m].seq = "WAITING_STEP2" => mem[m].seq = "WAITING_STEP2"
               /\ \/ mem'[m].exec = mem[m].exec
                  \/ /\ mem[m].exec = "RESERVED" /\ mem'[m].exec = "STOPPED"
                     /\ wk.op = AddLead(m) /\ wk.pc = "claimed"
                  \/ /\ mem[m].exec = "QUEUED" /\ mem'[m].exec = "STOPPED"
                     /\ wk.op \in Activations
    <3>1. CASE Refused(c) /\ wk.op = AddLead(m) /\ mem[m].exec = "RESERVED"
      BY <1>0, <1>4, <1>5, <3>1
    <3>2. CASE ~(Refused(c) /\ wk.op = AddLead(m) /\ mem[m].exec = "RESERVED")
      <4>1. mem'[m] = c.mem[m]
        BY <1>5, <3>2
      <4> QED BY <1>3, <4>1 DEF CheckKeeps
    <3> QED BY <3>1, <3>2
  <2> QED BY <1>0, <1>2, <1>5, <2>1, <2>2, <2>4, <2>5, <2>6, StopsRefused
<1>7. CASE ~(Refused(c) \/ c.verdict = "blocked")
  <2>1. wk' = [wk EXCEPT !.pc = "call"] /\ c.verdict = "ok" /\ c.mem = mem /\ op' = op
    BY <1>1, <1>3, <1>7 DEF Goto, CheckKeeps
  <2>2. mem' = mem
    BY <1>0, <1>5, <1>7, <2>1
  <2> QED BY <1>0, <1>2, <1>3, <2>1, <2>2, StopsGoesOn
<1> QED BY <1>6, <1>7

\* The check after the call.
LEMMA StopsAfterCall == ASSUME StopInv, AfterCall PROVE StopInv'
<1>0. /\ CampaignOK /\ RowsOK /\ KnownInv /\ SealInv /\ LeadInv /\ wk.op \in Ops /\ wk.pc = "read"
      /\ op \in [Ops -> OpRow] /\ mem \in [Members -> MemRow] /\ op[wk.op].state = "IN_FLIGHT"
      /\ DOMAIN wk = {"pc", "op", "id", "at"}
  BY DEF StopInv, CampaignOK, WorkerOK, RowsOK, AfterCall
<1>1. PICK c \in LiveCheck(wk.op) :
         \/ /\ c.verdict = "ok"
            /\ Goto("bind") /\ mem' = c.mem /\ op' = c.op
         \/ /\ c.verdict = "changed" /\ wk.op \in Adds
            /\ Exposed(op, wk.op[2], wk.id) /\ Goto("confirm")
         \/ /\ c.verdict = "changed" /\ wk.op \notin Adds
            /\ Leave /\ mem' = c.mem
            /\ op' = Planned(In(c.op, wk.op, "RECONCILE_REQUIRED"), DriftPlans(wk.op))
         \/ /\ c.verdict = "blocked"
            /\ Leave /\ mem' = c.mem
            /\ op' = In(c.op, wk.op, "RECONCILE_REQUIRED")
  BY DEF AfterCall
<1>2. UNCHANGED <<camp, remote, leads, over, mails, events, kill, limited>>
  BY DEF AfterCall, instantly, world
<1>3. /\ CheckKeeps(c)
      /\ wk.op \notin Activations => c.mem = mem /\ c.op = op /\ c.verdict # "blocked"
      /\ \A m \in Members : wk.op = AddLead(m) /\ c.verdict = "ok" => mem[m].exec = "RESERVED"
      /\ ~PausePlanned /\ kill = FALSE /\ c.verdict = "blocked" => c.mem = mem
      /\ ~PausePlanned /\ c.verdict = "ok" /\ wk.op \in Activations =>
            \A m \in Members : ~StoppedBound(m)
  BY <1>0, CheckFacts
<1>4. CASE c.verdict = "ok" /\ Goto("bind") /\ mem' = c.mem /\ op' = c.op
  <2>1. wk' = [wk EXCEPT !.pc = "bind"] /\ mem' = mem /\ op' = op
    BY <1>3, <1>4 DEF Goto, CheckKeeps
  <2> QED BY <1>0, <1>2, <1>3, <1>4, <2>1, StopsGoesOn
<1>5. CASE wk.op \in Adds /\ Exposed(op, wk.op[2], wk.id) /\ Goto("confirm")
  <2>1. PICK m \in Members : wk.op = AddLead(m) /\ wk.op[2] = m
    BY <1>5, Kinds
  <2>2. leads[m] = camp.id /\ wk.id = camp.id
    BY <1>0, <2>1 DEF LeadInv, LeadInvOf, Called
  <2>3. /\ mem' = [mem EXCEPT ![m] = [exec |-> "STOPPED", seq |-> "STOPPED", lead |-> camp.id]]
        /\ op' = Planned(op, {PauseLead(m), Pause("config")})
    BY <1>5, <2>1, <2>2 DEF Exposed
  <2>4. /\ wk'.op = wk.op /\ wk'.pc = "confirm" /\ DOMAIN wk' = DOMAIN wk
    BY <1>0, <1>5 DEF Goto
  <2>5. Plans(op, op')
    BY <1>0, <2>3, PlannedPlans
  <2>6. Sets(AddLead(m), "IN_FLIGHT")
    BY <1>0, <2>1, <2>5 DEF Plans, Sets
  <2>7. PausePlanned'
    <3>1. Pause("config") \in Ops \cap {PauseLead(m), Pause("config")} /\ Pause("config") \in Pauses
      BY Kinds
    <3>2. op'[Pause("config")].state # "NONE"
      BY <1>0, <2>3, <3>1, PlannedOnly
    <3> QED BY <3>1, <3>2 DEF PausePlanned
  <2>8. \A o \in Activations : op'[o] = op[o]
    <3>1. \A o \in Activations : o \in Ops \ {PauseLead(m), Pause("config")}
      BY Kinds
    <3> QED BY <1>0, <2>3, <3>1, PlannedOnly
  <2>9. CampaignOK'
    BY <1>0, <1>2, <2>1, <2>4, <2>6 DEF CampaignOK, WorkerOK, Positions, Sets
  <2> QED BY <1>0, <1>2, <2>1, <2>2, <2>3, <2>4, <2>6, <2>7, <2>8, <2>9, StopsExposed
<1> DEFINE table == In(c.op, wk.op, "RECONCILE_REQUIRED")
<1>t. /\ table \in [Ops -> OpRow] /\ table[wk.op].state = "RECONCILE_REQUIRED"
      /\ \A p \in Ops \ {wk.op} : table[p] = c.op[p]
      /\ Plans(op, c.op)
  <2>1. Plans(op, c.op) /\ c.op \in [Ops -> OpRow] /\ "RECONCILE_REQUIRED" \in OpStates
    BY <1>3 DEF CheckKeeps, Plans, OpStates
  <2> QED BY <1>0, <2>1, InFields
<1>6. CASE /\ c.verdict = "changed" /\ wk.op \notin Adds \cup Activations
           /\ Leave /\ mem' = c.mem /\ op' = Planned(table, DriftPlans(wk.op))
  <2>1. wk' = Idle /\ mem' = mem /\ c.op = op /\ DriftPlans(wk.op) = {}
    BY <1>3, <1>6 DEF Leave, DriftPlans
  <2>2. op' \in [Ops -> OpRow] /\ \A p \in Ops : op'[p] = table[p]
    BY <1>t, <1>6, <2>1, PlannedOnly, PlannedPlans DEF Plans
  <2>3. Alone(wk.op, "RECONCILE_REQUIRED")
    BY <1>0, <1>t, <2>1, <2>2 DEF Alone
  <2>4. limited' \in Nat
    BY <1>0, <1>2 DEF CampaignOK
  <2> QED BY <1>0, <1>2, <2>1, <2>3, <2>4, StopsEnd DEF OpStates
<1>7. CASE /\ wk.op \in Activations /\ Leave /\ mem' = c.mem
           /\ \/ op' = Planned(table, DriftPlans(wk.op))
              \/ c.verdict = "blocked" /\ op' = table
  <2>1. wk' = Idle /\ DriftPlans(wk.op) = {Pause("config")}
    BY <1>7 DEF Leave, DriftPlans
  <2>2. Sets(wk.op, "RECONCILE_REQUIRED")
    BY <1>0, <1>t, <1>7, InSets, PlannedPlans DEF OpStates
  <2>3. \A a \in Activations \ {wk.op} : op'[a] = op[a]
    <3>1. \A a \in Activations \ {wk.op} : table[a] = op[a]
      BY <1>3, <1>t, Keys DEF CheckKeeps
    <3>2. \A a \in Activations : a \in Ops \ {Pause("config")}
      BY Kinds
    <3> QED BY <1>t, <1>7, <2>1, <3>1, <3>2, PlannedOnly
  <2>4. Known
    BY <1>0, <1>7 DEF SealInv, KnownInv, Sealed
  <2>5. op' = Planned(table, DriftPlans(wk.op)) => PausePlanned'
    <3>1. Pause("config") \in Ops \cap {Pause("config")} /\ Pause("config") \in Pauses
      BY Kinds
    <3>2. Planned(table, {Pause("config")})[Pause("config")].state # "NONE"
      BY <1>t, <3>1, PlannedOnly
    <3> QED BY <2>1, <3>1, <3>2 DEF PausePlanned
  <2>6. PausePlanned => PausePlanned'
    BY <2>2, Keys DEF PausePlanned, Sets
  <2>7. ~PausePlanned' /\ kill = FALSE => mem' = mem
    BY <1>3, <1>7, <2>5, <2>6
  <2>8. /\ mem' \in [Members -> MemRow]
        /\ \A m \in Members :
             /\ mem'[m].lead = mem[m].lead
             /\ mem'[m].seq = "WAITING_STEP2" => mem[m].seq = "WAITING_STEP2"
             /\ \/ mem'[m].exec = mem[m].exec
                \/ mem[m].exec = "QUEUED" /\ mem'[m].exec = "STOPPED"
    BY <1>3, <1>7 DEF CheckKeeps
  <2> QED BY <1>0, <1>2, <1>7, <2>1, <2>2, <2>3, <2>4, <2>7, <2>8, StopsRefused
<1> QED BY <1>1, <1>3, <1>4, <1>5, <1>6, <1>7

\* The invariant holds at the start: nothing is there.
LEMMA StopsInit == ASSUME CampaignInit PROVE StopInv
<1>1. NoOp \in OpRow /\ NoOp.state = "NONE"
  BY DEF NoOp, OpRow, OpStates
<1>2. /\ op = [o \in Ops |-> NoOp] /\ wk.pc = "idle" /\ DOMAIN wk = {"pc", "op", "id", "at"}
      /\ camp.id = None /\ camp.lifecycle = "BUILDING"
      /\ DOMAIN camp = {"lifecycle", "closed", "id", "configured"}
      /\ remote = <<>> /\ leads = [m \in Members |-> 0] /\ mails = [m \in Members |-> 0]
      /\ events = {} /\ kill = FALSE /\ limited = 0
  BY DEF CampaignInit, Idle
<1>3. /\ mem \in [Members -> MemRow]
      /\ \A m \in Members : mem[m].exec = "NONE" /\ mem[m].seq = "NONE" /\ mem[m].lead = None
  BY DEF CampaignInit, Absent, MemRow
<1>4. CampaignOK /\ RowsOK /\ \A o \in Ops : op[o].state = "NONE"
  <2>1. op \in [Ops -> OpRow] /\ \A o \in Ops : op[o].state = "NONE"
    <3> HIDE DEF NoOp
    <3> QED BY <1>1, <1>2
  <2>2. remote \in Seq(RemoteStates)
    BY <1>2
  <2>3. WorkerOK
    BY <1>2 DEF WorkerOK
  <2>4. RowsOK
    BY <1>2, <1>3 DEF RowsOK
  <2> QED BY <1>2, <2>1, <2>2, <2>3, <2>4 DEF CampaignOK
<1>5. ~PausePlanned /\ ~Known
  <2>1. ~PausePlanned
    BY <1>4, Keys DEF PausePlanned
  <2>2. ~Known
    BY <1>2, CampaignAssumption DEF Known
  <2> QED BY <2>1, <2>2
<1>6. KnownInv
  BY <1>2, <1>4, <1>5, Keys DEF KnownInv
<1>7. SealInv
  BY <1>2, <1>3, <1>4, Keys DEF SealInv
<1>8. ASSUME NEW m \in Members PROVE LeadInvOf(m)
  <2>1. op[AddLead(m)].state = "NONE" /\ leads[m] = 0
    BY <1>2, <1>4, Keys
  <2> QED BY <1>2, <1>3, <2>1 DEF LeadInvOf, Called
<1>9. CalledInv
  BY <1>2, <1>4, Keys DEF CalledInv, Called
<1>10. UnplannedInv
  BY <1>2, <1>4, <1>5, Keys, Kinds DEF UnplannedInv
<1> QED BY <1>4, <1>6, <1>7, <1>8, <1>9, <1>10 DEF StopInv, LeadInv

\* Every step keeps it.
LEMMA StopsStep == ASSUME StopInv, [CampaignNext]_campaignVars PROVE StopInv'
<1>1. CASE \/ \E m \in Members : ProviderSends(m) \/ RecipientStops(m) \/ Withdraw(m)
           \/ TimePasses \/ ActivateKillSwitch \/ UNCHANGED campaignVars
  BY <1>1, StopsOutside
<1>2. CASE CloseDueBatches \/ \E m \in Members : ReserveMember(m)
  BY <1>2, StopsReserve
<1>3. CASE QueueAndSeal \/ PlanStep2Release \/ ExpireAuthorizationWindows
  BY <1>3, StopsSeal, StopsRelease, StopsExpire
<1>4. CASE \E e \in events : EmailSent(e) \/ StopMember(e)
  BY <1>4, StopsEvents
<1>5. CASE ReconcileCreate \/ \E o \in Ops : Claim(o) \/ Reconcile(o)
  BY <1>5, StopsReconcileCreate, StopsClaim, StopsReconcile
<1>6. CASE \/ DependencyNotConfirmed \/ BeforeCallFails \/ CallRefused \/ PauseLeadRefused
           \/ CallUnknown \/ ReadBackFails \/ Confirm \/ Crash
  BY <1>6, StopsEnding
<1>7. CASE BeforeCall \/ Call \/ AfterCall \/ Bind
  BY <1>7, StopsBeforeCall, StopsCall, StopsAfterCall, StopsBind
<1> QED BY <1>1, <1>2, <1>3, <1>4, <1>5, <1>6, <1>7 DEF CampaignNext

\* A stop holds at Instantly too (campaigns/worker.py, store.py, webhooks.py):
\* whichever side of the import, the seal, the activation and its two checks
\* it comes from, with lost answers, crashes, closing windows and webhooks in
\* any order and for any number of members, a member stopped before it was
\* exposed has no lead, and one stopped after it has a pause on its way.
THEOREM CampaignStopsHold == CampaignSpec => []StopsHold
<1>1. CampaignInit => StopInv
  BY StopsInit
<1>2. StopInv /\ [CampaignNext]_campaignVars => StopInv'
  BY StopsStep
<1>3. StopInv => StopsHold
  BY StopInvImplies
<1> QED BY <1>1, <1>2, <1>3, PTL DEF CampaignSpec

\* A check before or after the call confirms nothing.
LEMMA ChecksConfirmNothing ==
    ASSUME StopInv, BeforeCall \/ AfterCall
    PROVE  \A p \in Ops : op'[p].state = "CONFIRMED" => op[p].state = "CONFIRMED"
<1>0. /\ CampaignOK /\ wk.op \in Ops /\ op \in [Ops -> OpRow]
      /\ {"TERMINAL_FAILED", "RECONCILE_REQUIRED"} \subseteq OpStates \ {"NONE"}
  BY DEF StopInv, CampaignOK, WorkerOK, BeforeCall, AfterCall, OpStates
<1>1. \E c \in LiveCheck(wk.op) :
         \/ op' = c.op
         \/ \E S : op' = Planned(op, S)
         \/ \E st \in {"TERMINAL_FAILED", "RECONCILE_REQUIRED"} :
               \/ op' = In(c.op, wk.op, st)
               \/ \E S : op' = Planned(In(c.op, wk.op, st), S)
  <2>1. CASE BeforeCall
    BY <2>1 DEF BeforeCall
  <2>2. CASE AfterCall
    BY <2>2 DEF AfterCall, Exposed
  <2> QED BY ZenonT(60), <2>1, <2>2
<1>2. PICK c \in LiveCheck(wk.op) :
         \/ op' = c.op
         \/ \E S : op' = Planned(op, S)
         \/ \E st \in {"TERMINAL_FAILED", "RECONCILE_REQUIRED"} :
               \/ op' = In(c.op, wk.op, st)
               \/ \E S : op' = Planned(In(c.op, wk.op, st), S)
  BY <1>1
<1>3. Plans(op, c.op) /\ c.op \in [Ops -> OpRow]
  BY <1>0, CheckPlans DEF Plans
<1>4. CASE op' = c.op \/ \E S : op' = Planned(op, S)
  <2>1. Plans(op, op')
    BY <1>0, <1>3, <1>4, PlannedPlans
  <2> QED BY <2>1 DEF Plans
<1>5. ASSUME NEW st \in {"TERMINAL_FAILED", "RECONCILE_REQUIRED"},
             \/ op' = In(c.op, wk.op, st)
             \/ \E S : op' = Planned(In(c.op, wk.op, st), S)
      PROVE  \A p \in Ops : op'[p].state = "CONFIRMED" => op[p].state = "CONFIRMED"
  <2>1. In(c.op, wk.op, st) \in [Ops -> OpRow]
    BY <1>0, <1>3, InFields
  <2>2. op' = In(c.op, wk.op, st) \/ Plans(In(c.op, wk.op, st), op')
    BY <1>5, <2>1, PlannedPlans
  <2>3. Sets(wk.op, st)
    BY <1>0, <1>3, <2>2, InSets
  <2> QED BY <1>5, <2>3 DEF Sets
<1> QED BY <1>2, <1>4, <1>5

\* Only the confirmation of a call and the reconciliations confirm.
LEMMA OthersConfirmNothing ==
    ASSUME StopInv, [CampaignNext]_campaignVars,
           ~(Confirm \/ ReconcileCreate \/ \E o \in Ops : Reconcile(o))
    PROVE  \A p \in Ops : op'[p].state = "CONFIRMED" => op[p].state = "CONFIRMED"
<1>0. CampaignOK /\ op \in [Ops -> OpRow] /\ (wk.pc # "idle" => wk.op \in Ops)
  BY DEF StopInv, CampaignOK, WorkerOK
<1> DEFINE Around1 ==
       \/ \E m \in Members : \/ ReserveMember(m) \/ ProviderSends(m)
                             \/ RecipientStops(m) \/ Withdraw(m)
       \/ CloseDueBatches \/ QueueAndSeal \/ PlanStep2Release
       \/ \E e \in events : EmailSent(e) \/ StopMember(e)
       \/ ExpireAuthorizationWindows \/ TimePasses \/ ActivateKillSwitch
       \/ UNCHANGED campaignVars
<1>1. CASE Around1
  BY <1>0, <1>1, AroundPlans DEF Plans
<1>2. ASSUME NEW o \in Ops, Claim(o)
      PROVE  \A p \in Ops : op'[p].state = "CONFIRMED" => op[p].state = "CONFIRMED"
  <2>1. \/ op' = In(op, o, "RECONCILE_REQUIRED") \/ op' = In(op, o, "TERMINAL_FAILED")
        \/ op' = [op EXCEPT ![o].state = "IN_FLIGHT",
                            ![o].attempt = IF @ < MaxAttempts THEN @ + 1 ELSE @]
    BY <1>2 DEF Claim
  <2> QED BY <1>0, <2>1 DEF In, OpRow
<1>3. CASE \/ DependencyNotConfirmed \/ BeforeCallFails \/ Call \/ CallRefused \/ PauseLeadRefused
           \/ CallUnknown \/ ReadBackFails \/ Bind \/ Crash
  <2>1. \/ op' = op
        \/ wk.pc # "idle" /\ \E st \in OpStates \ {"CONFIRMED"} : op' = In(op, wk.op, st)
    BY <1>3 DEF DependencyNotConfirmed, BeforeCallFails, Call, CallRefused, PauseLeadRefused,
       CallUnknown, ReadBackFails, Bind, Crash, Ends, rows, AfterUnknown, OpStates
  <2> QED BY <1>0, <2>1 DEF In, OpRow
<1>4. CASE BeforeCall \/ AfterCall
  BY <1>4, ChecksConfirmNothing
<1> QED BY <1>1, <1>2, <1>3, <1>4 DEF CampaignNext

\* What is confirmed is there.
LEMMA ConfirmedEffective ==
    ASSUME StopInv, [CampaignNext]_campaignVars, NEW o \in Ops,
           op[o].state # "CONFIRMED", op'[o].state = "CONFIRMED"
    PROVE  Effective(o)
<1>0. /\ CampaignOK /\ RowsOK /\ KnownInv /\ LeadInv /\ CalledInv /\ op \in [Ops -> OpRow]
      /\ "CONFIRMED" \in OpStates
  BY DEF StopInv, CampaignOK, OpStates
<1>k. Known => camp.id # None
  BY CampaignAssumption DEF Known
<1>c. o = Configure /\ op[o].state \notin {"NONE", "PLANNED"} => Known
  BY <1>0 DEF KnownInv
<1>1. CASE Confirm
  <2>1. /\ wk.pc = "confirm" /\ wk.op \in Ops /\ op' = In(op, wk.op, "CONFIRMED")
        /\ op[wk.op].state = "IN_FLIGHT"
        /\ UNCHANGED <<camp, mem, remote, leads, over>>
    BY <1>0, <1>1 DEF Confirm, Ends, instantly, CampaignOK, WorkerOK
  <2>2. o = wk.op
    BY <1>0, <2>1, InFields
  <2>3. CASE o = Create
    BY <1>0, <2>1, <2>2, <2>3, Keys DEF Effective, KnownInv, Known
  <2>4. CASE o = Configure
    <3>1. camp.id # None /\ camp.configured = TRUE
      BY <1>0, <1>k, <1>c, <2>1, <2>2, <2>4 DEF CalledInv
    <3> QED BY <2>1, <2>4, <3>1, Keys, Kinds DEF Effective
  <2>5. CASE o \in Adds
    <3>1. PICK m \in Members : o = AddLead(m) /\ o[2] = m
      BY <2>5, Kinds
    <3>2. leads[m] = camp.id /\ mem[m].lead = camp.id
      BY <1>0, <2>1, <2>2, <3>1 DEF LeadInv, LeadInvOf, Called
    <3> QED BY <2>1, <2>5, <3>1, <3>2, Kinds DEF Effective
  <2>6. CASE o \in Activations
    BY <1>0, <2>1, <2>2, <2>6, Kinds DEF Effective, CalledInv, Called
  <2>7. CASE o \in Pauses
    BY <1>0, <2>1, <2>2, <2>7, Kinds DEF Effective, CalledInv, Called
  <2>8. CASE o \in LeadPauses
    BY <1>0, <2>1, <2>2, <2>8 DEF CalledInv, Called
  <2> QED BY <2>3, <2>4, <2>5, <2>6, <2>7, <2>8, Kinds
<1>2. CASE ReconcileCreate
  <2>1. /\ Len(remote) = 1 /\ camp' = [camp EXCEPT !.id = 1] /\ o = Create
        /\ remote' = remote
    <3>1. PICK st \in OpStates : op' = In(op, Create, st)
      BY <1>2 DEF ReconcileCreate, OpStates
    <3>2. o = Create /\ st = "CONFIRMED"
      BY <1>0, <3>1, InFields, Keys
    <3>3. Len(remote) = 1 /\ camp.id \in {None, 1}
      <4>1. ASSUME ~(Len(remote) = 1 /\ camp.id \in {None, 1}) PROVE FALSE
        <5>1. \E x \in {"RETRYABLE_FAILED", "RECONCILE_REQUIRED", "TERMINAL_FAILED"} :
                 op' = In(op, Create, x)
          BY <1>2, <4>1 DEF ReconcileCreate
        <5> QED BY <1>0, <3>2, <5>1, Keys DEF In, OpRow
      <4> QED BY <4>1
    <3> QED BY <1>2, <3>2, <3>3 DEF ReconcileCreate, instantly
  <2>2. camp'.id = 1
    BY <1>0, <2>1 DEF RowsOK
  <2>3. camp'.id \in 1..Len(remote')
    BY <2>1, <2>2
  <2> QED BY <2>1, <2>3, Keys DEF Effective
<1>3. ASSUME NEW p \in Ops, Reconcile(p) PROVE Effective(o)
  <2> DEFINE confirmed == In(op, p, "CONFIRMED")
  <2>0. /\ wk.pc = "idle" /\ p # Create /\ op[p].state = "RECONCILE_REQUIRED"
        /\ UNCHANGED <<remote, leads, over>>
        /\ confirmed \in [Ops -> OpRow]
        /\ \A q \in Ops \ {p} : confirmed[q] = op[q]
    BY <1>0, <1>3, InFields DEF Reconcile, instantly
  <2>1. CASE op' = In(op, p, "RETRYABLE_FAILED")
    BY <1>0, <2>1 DEF In, OpRow
  <2>2. CASE Shows(p) /\ p \in Adds /\ Exposed(confirmed, p[2], camp.id) /\ UNCHANGED camp
    <3>1. PICK m \in Members : p = AddLead(m) /\ p[2] = m
      BY <2>2, Kinds
    <3>2. o = p
      <4>1. Plans(confirmed, op')
        BY <2>0, <2>2, PlannedPlans DEF Exposed
      <4>2. confirmed[o].state = "CONFIRMED"
        <5> HIDE DEF confirmed
        <5> QED BY <4>1 DEF Plans
      <4> QED BY <2>0, <4>2
    <3>3. mem'[m].lead = camp.id /\ leads[m] = camp.id
      BY <1>0, <2>2, <3>1, ShowsKinds DEF Exposed, RowsOK
    <3> QED BY <2>0, <2>2, <3>1, <3>2, <3>3, Kinds DEF Effective
  <2>3. CASE /\ Shows(p) /\ op' = confirmed
             /\ camp' = Effected(p, camp.id) /\ mem' = Enrolled(p, camp.id)
    <3>1. o = p
      BY <2>0, <2>3
    <3>2. camp'.id = camp.id /\ (o = Configure => camp'.configured = TRUE)
      BY ZenonT(60), <1>0, <2>0, <2>3, <3>1, EffectedFields
    <3>3. CASE o = Configure
      <4>1. camp'.id # None /\ camp'.configured = TRUE
        BY <1>k, <1>c, <2>0, <3>1, <3>2, <3>3
      <4> QED BY <3>3, <4>1, Keys, Kinds DEF Effective
    <3>4. CASE o \in Adds
      <4>1. PICK m \in Members : o = AddLead(m) /\ o[2] = m
        BY <3>4, Kinds
      <4>2. leads[m] = camp.id /\ camp.id \in Nat
        BY <1>0, <2>3, <3>1, <4>1, ShowsKinds DEF RowsOK
      <4>3. mem'[m].lead = camp.id
        BY <1>0, <2>3, <3>1, <4>1, <4>2, EnrolledFields
      <4> QED BY <2>0, <3>2, <3>4, <4>1, <4>2, <4>3, Kinds DEF Effective
    <3>5. CASE o \in Activations
      BY ZenonT(60), <2>0, <2>3, <3>1, <3>2, <3>5, ShowsKinds, Kinds DEF Effective, Sending
    <3>6. CASE o \in Pauses
      BY ZenonT(60), <2>0, <2>3, <3>1, <3>2, <3>6, ShowsKinds, Kinds DEF Effective
    <3>7. CASE o \in LeadPauses
      <4>1. PICK m \in Members : o = PauseLead(m) /\ o[2] = m
        BY <3>7, Kinds
      <4> QED BY <2>0, <2>3, <3>1, <3>7, <4>1, ShowsKinds, Kinds DEF Effective
    <3> QED BY <2>0, <3>1, <3>3, <3>4, <3>5, <3>6, <3>7, Kinds
  <2> QED BY <1>3, <2>1, <2>2, <2>3 DEF Reconcile
<1> QED BY <1>1, <1>2, <1>3, OthersConfirmNothing

\* An operation is confirmed only while its effect is to be seen at Instantly
\* and under the id that is stored (campaigns/worker.py): by the worker that
\* made the call, or by a reconciliation, with lost answers, crashes, expired
\* leases and a second campaign of the same name in between.
THEOREM CampaignConfirmationsTrue == CampaignSpec => ConfirmationsTrue
<1>1. CampaignInit => StopInv
  BY StopsInit
<1>2. StopInv /\ [CampaignNext]_campaignVars => StopInv'
  BY StopsStep
<1>3. StopInv /\ [CampaignNext]_campaignVars =>
         [\A o \in Ops : op[o].state # "CONFIRMED" /\ op'[o].state = "CONFIRMED"
                         => Effective(o)]_campaignVars
  BY ConfirmedEffective
<1> QED BY <1>1, <1>2, <1>3, PTL DEF CampaignSpec, ConfirmationsTrue

=============================================================================
