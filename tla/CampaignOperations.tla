------------------------- MODULE CampaignOperations -------------------------
(***************************************************************************)
(* Campaign operations (signals/campaigns): members are reserved into a    *)
(* batch, the batch is enrolled at Instantly, sealed and activated, and    *)
(* everything that speaks against a mail (a reply, an unsubscription, a    *)
(* withdrawn authorization, a window that closed) plans a pause.  Every    *)
(* remote effect is a row of acquisition_provider_operation under a        *)
(* deterministic key, executed by CampaignWorker.process.                  *)
(*                                                                         *)
(* One campaign.  process is called under the runtime's execution guard,   *)
(* so there is one worker at a time (AcquisitionRuntime, FencedCalls); it  *)
(* may die anywhere, and webhooks, the scheduler and the controls go on    *)
(* between its steps.  Abstractions: all reasons of a transport stop are   *)
(* one; a campaign is created with its configuration, so a read-back never *)
(* finds another; the workspace holds an address once, as the lead payload *)
(* asks (skip_if_in_workspace); webhooks are handled one at a time;        *)
(* account errors plan a pause as a transport stop does, without a member. *)
(***************************************************************************)
EXTENDS Integers, Sequences, FiniteSets

CONSTANTS
    None,
    Members,      \* the members that may be reserved
    Capacity,     \* member_capacity
    MaxAttempts,  \* PROVIDER_OPERATION_MAX_ATTEMPTS
    MaxChanges,   \* bound: withdrawals, controls, provider events
    MaxFailures     \* bound: errors, open circuits, crashes

ASSUME CampaignAssumption ==
    /\ Capacity \in Nat /\ MaxAttempts \in Nat \ {0}
    /\ MaxChanges \in Nat /\ MaxFailures \in Nat
    /\ None \notin Nat

\* The operation keys: the kind and what else the key's fingerprint holds.
Create == <<"CREATE_CAMPAIGN", "config">>
Configure == <<"CONFIGURE_CAMPAIGN", "config">>
AddLead(m) == <<"ADD_LEAD", m>>
PauseLead(m) == <<"PAUSE_LEAD", m>>
Activate(step) == <<"ACTIVATE_CAMPAIGN", step>>
Pause(why) == <<"PAUSE_CAMPAIGN", why>>

Pauses == {Pause(why) : why \in {"config", "hold", "stop"}}
Activations == {Activate("config"), Activate("release")}
Adds == {AddLead(m) : m \in Members}
LeadPauses == {PauseLead(m) : m \in Members}
Ops == {Create, Configure} \union Adds \union LeadPauses \union Activations
       \union Pauses

VARIABLES
    camp,      \* acquisition_campaign
    mem,       \* acquisition_campaign_member
    op,        \* acquisition_provider_operation
    wk,        \* the worker: position in process and its operation
    remote,    \* Instantly: the status of each campaign of this name
    leads,     \* Instantly: the campaign that holds the member's lead, or 0
    over,      \* Instantly: leads it mails no more, the recipient stopped
    mails,     \* Instantly: steps mailed, per member
    events,    \* webhooks on their way
    valid,     \* members whose policy, compliance and suppressions allow mail
    kill,      \* the live kill switch or read-only control
    clock,     \* 0: step 1 open, 1: step 2 open, 2: both windows closed
    changes, failures,
    limited    \* history: read-backs that were refused

campaignVars == <<camp, mem, op, wk, remote, leads, over, mails, events, valid, kill,
          clock, changes, failures, limited>>
rows == <<camp, mem, op>>
instantly == <<remote, leads, over, mails, events>>
world == <<valid, kill, clock, changes>>

NoOp == [state |-> "NONE", attempt |-> 0]
Absent == [exec |-> "NONE", seq |-> "NONE", lead |-> None]
Idle == [pc |-> "idle", op |-> None, id |-> None, at |-> 0]

CampaignInit ==
    /\ camp = [lifecycle |-> "BUILDING", closed |-> FALSE, id |-> None,
               configured |-> FALSE]
    /\ mem = [m \in Members |-> Absent]
    /\ op = [o \in Ops |-> NoOp]
    /\ wk = Idle
    /\ remote = <<>>
    /\ leads = [m \in Members |-> 0]
    /\ over = {}
    /\ mails = [m \in Members |-> 0]
    /\ events = {}
    /\ valid = Members
    /\ kill = FALSE
    /\ clock = 0
    /\ changes = 0 /\ failures = 0 /\ limited = 0

-----------------------------------------------------------------------------
(* Planning.                                                               *)

\* plan_operation_in_transaction: an existing row is left as it is.
Planned(table, S) ==
    [o \in Ops |-> IF o \in S /\ table[o].state = "NONE"
                     THEN [NoOp EXCEPT !.state = "PLANNED"]
                     ELSE table[o]]

Reserved == {m \in Members : mem[m].exec # "NONE"}
Bound(S) == {m \in S : mem[m].lead # None}

ReserveMember(m) ==
    /\ mem[m].exec = "NONE" /\ m \in valid
    /\ camp.lifecycle = "BUILDING" /\ ~camp.closed
    /\ Cardinality(Reserved) < Capacity
    /\ mem' = [mem EXCEPT ![m].exec = "RESERVED", ![m].seq = "PENDING_STEP1"]
    /\ camp' = [camp EXCEPT !.closed = Cardinality(Reserved) + 1 = Capacity]
    /\ op' = Planned(op, {Create, Configure, AddLead(m)})
    /\ UNCHANGED <<wk, instantly, world, failures, limited>>

CloseDueBatches ==
    /\ camp.lifecycle = "BUILDING" /\ ~camp.closed /\ Reserved # {}
    /\ camp' = [camp EXCEPT !.closed = TRUE]
    /\ UNCHANGED <<mem, op, wk, instantly, world, failures, limited>>

ReadyToSeal ==
    /\ camp.lifecycle = "BUILDING" /\ camp.closed /\ Reserved # {}
    /\ camp.id # None /\ camp.configured /\ ~kill
    /\ \A m \in Members : mem[m].exec # "RESERVED"

\* Enrolled members are queued, or stopped when they are no longer allowed;
\* the lead of a stopped one is to be paused.
QueueAndSeal ==
    LET enrolled == {m \in Members : mem[m].exec = "ENROLLED"}
        retained == enrolled \intersect valid
        rejected == enrolled \ valid
    IN  /\ ReadyToSeal
        /\ mem' = [m \in Members |->
               IF m \in retained THEN [mem[m] EXCEPT !.exec = "QUEUED"]
               ELSE IF m \in rejected
                 THEN [mem[m] EXCEPT !.exec = "STOPPED", !.seq = "STOPPED"]
               ELSE mem[m]]
        /\ camp' = [camp EXCEPT !.lifecycle =
                        IF retained = {} THEN "FAILED" ELSE "SEALED"]
        /\ op' = Planned(op, {PauseLead(m) : m \in Bound(rejected)} \union
                             (IF retained = {} THEN {}
                                               ELSE {Activate("config")}))
        /\ UNCHANGED <<wk, instantly, world, failures, limited>>

-----------------------------------------------------------------------------
(* The live checks.  A verdict is "ok", "changed" (CampaignInputChanged) or *)
(* "blocked" (any other refusal), with the member rows and operations the   *)
(* check leaves behind.                                                     *)

Verdict(v, rowsOf, table) == [verdict |-> v, mem |-> rowsOf, op |-> table]
Same(v) == Verdict(v, mem, op)

\* require_provider_mutation
MutationCheck(o) ==
    LET S == IF o \in Adds THEN {o[2]} ELSE Reserved
    IN  IF /\ camp.lifecycle = "BUILDING" /\ S # {} /\ ~kill
           /\ o \in Adds => mem[o[2]].exec = "RESERVED"
           /\ S \subseteq valid
          THEN {Same("ok")} ELSE {Same("changed")}

StopRows(S) ==
    [m \in Members |-> IF m \in S /\ mem[m].exec = "QUEUED"
        THEN [mem[m] EXCEPT !.exec = "STOPPED", !.seq = "STOPPED"] ELSE mem[m]]

\* require_activation: a hard stop stops every member, a member that is no
\* longer allowed only itself.
ActivationCheck(at) ==
    LET retained == {m \in Members : mem[m].exec = "QUEUED"}
        excluded == {m \in Reserved : mem[m].exec \in {"STOPPED", "FAILED"}}
        invalid == retained \ valid
        StopThem(v, S) ==
            Verdict(v, StopRows(S),
                    Planned(op, {PauseLead(m) : m \in Bound(S)}))
    IN  IF \/ camp.lifecycle # "SEALED" \/ retained = {}
           \/ retained \union excluded # Reserved
           \/ \E m \in Bound(excluded) : op[PauseLead(m)].state # "CONFIRMED"
           \/ at # 0
          THEN {Same("changed")}
        ELSE IF kill THEN {StopThem("blocked", Reserved)}
        ELSE IF invalid # {}
          THEN {StopThem("changed", {m}) : m \in invalid}
        ELSE {Same("ok")}

\* require_step_2_safety: the waiting members are stopped with the campaign
\* paused (hard stop) or their lead paused (suppression); a mailbox that is
\* unavailable for the moment pauses the campaign.
ReleaseCheck(at) ==
    LET waiting == {m \in Members : mem[m].seq = "WAITING_STEP2"}
        excluded == {m \in Reserved : mem[m].seq \in {"STOPPED", "FAILED"}}
        Stopped(S) == [m \in Members |-> IF m \in S
                         THEN [mem[m] EXCEPT !.seq = "STOPPED"] ELSE mem[m]]
    IN  IF \/ waiting = {} \/ camp.lifecycle # "PAUSED"
           \/ \E m \in Reserved : mem[m].seq = "PENDING_STEP1"
           \/ \E m \in excluded : \/ mem[m].lead = None
                                  \/ op[PauseLead(m)].state # "CONFIRMED"
           \/ at # 1
          THEN {Same("blocked")}
        ELSE IF kill THEN {Verdict("blocked", Stopped(waiting),
                                   Planned(op, {Pause("config")}))}
        ELSE IF ~(waiting \subseteq valid)
          THEN {Verdict("blocked", Stopped({m}),
                        Planned(op, {PauseLead(n) : n \in Bound({m})})) :
                m \in waiting \ valid}
        ELSE {Same("ok"), Verdict("blocked", mem, Planned(op, {Pause("config")}))}

LiveCheck(o) ==
    IF o \in {Create, Configure} \union Adds THEN MutationCheck(o)
    ELSE IF o \in Activations
      THEN IF camp.lifecycle = "PAUSED" THEN ReleaseCheck(wk.at)
                                        ELSE ActivationCheck(wk.at)
    ELSE {Same("ok")}

PlanStep2Release ==
    \E c \in ReleaseCheck(clock) :
        /\ Reserved # {}
        /\ mem' = c.mem
        /\ op' = IF c.verdict = "ok" /\ remote[camp.id] = "paused"
                   THEN Planned(c.op, {Activate("release")}) ELSE c.op
        /\ UNCHANGED <<camp, wk, instantly, world, failures, limited>>

-----------------------------------------------------------------------------
(* CampaignWorker.process.                                                 *)

Goto(pc) == wk' = [wk EXCEPT !.pc = pc]
Leave == wk' = Idle
In(table, o, state) == [table EXCEPT ![o].state = state]
Ends(state) == Leave /\ op' = In(op, wk.op, state)

Fault == failures < MaxFailures /\ failures' = failures + 1

Confirmed(S) == \A o \in S : op[o].state \in {"NONE", "CONFIRMED"}

DependenciesConfirmed(o) ==
    /\ o \in {Configure} \union Adds => op[Create].state = "CONFIRMED"
    /\ o \in Adds => op[Configure].state = "CONFIRMED"
    /\ o \in Activations => Confirmed(Pauses \union LeadPauses)

\* The calls of process: the runtime's hand-over goes through a batch in order
\* and ends at the first operation that is not confirmed.
InOrder(o) == o \in Activations \/ DependenciesConfirmed(o)

\* claim_operation.  An operation a dead worker left in flight is to be
\* reconciled once its lease is over; a retry has a budget.
Claim(o) ==
    /\ wk.pc = "idle" /\ InOrder(o)
    /\ \/ /\ op[o].state = "IN_FLIGHT"
          /\ op' = In(op, o, "RECONCILE_REQUIRED")
          /\ UNCHANGED wk
       \/ /\ op[o].state = "RETRYABLE_FAILED" /\ op[o].attempt >= MaxAttempts
          /\ op' = In(op, o, "TERMINAL_FAILED")
          /\ UNCHANGED wk
       \/ /\ \/ op[o].state = "PLANNED"
             \/ op[o].state = "RETRYABLE_FAILED" /\ op[o].attempt < MaxAttempts
          /\ op' = [op EXCEPT ![o].state = "IN_FLIGHT",
                              ![o].attempt = IF @ < MaxAttempts THEN @ + 1 ELSE @]
          /\ wk' = [pc |-> "claimed", op |-> o, id |-> None,
                    at |-> IF o \in Activations THEN clock ELSE 0]
    /\ UNCHANGED <<camp, mem, instantly, world, failures, limited>>

DependencyNotConfirmed ==
    /\ wk.pc = "claimed" /\ ~DependenciesConfirmed(wk.op)
    /\ Ends("PLANNED")
    /\ UNCHANGED <<camp, mem, instantly, world, failures, limited>>

\* Before the call: the live check, and for a lead that its campaign is not
\* sending.  A refusal ends the operation; a lead's member is stopped.
Sending(i) == remote[i] = "active"

BeforeCall ==
    LET o == wk.op
    IN  /\ wk.pc = "claimed" /\ DependenciesConfirmed(o)
        /\ \E c \in LiveCheck(o) :
              LET refused == c.verdict = "changed" \/
                             (c.verdict = "ok" /\ o \in Adds /\ Sending(camp.id))
              IN  /\ mem' = [m \in Members |->
                        IF refused /\ o = AddLead(m) /\ mem[m].exec = "RESERVED"
                          THEN [mem[m] EXCEPT !.exec = "STOPPED", !.seq = "STOPPED"]
                          ELSE c.mem[m]]
                  /\ IF refused \/ c.verdict = "blocked"
                       THEN Leave /\ op' = In(c.op, o, "TERMINAL_FAILED")
                       ELSE Goto("call") /\ op' = c.op
        /\ UNCHANGED <<camp, instantly, world, failures, limited>>

\* An open circuit, or a read before the call that fails: for good, or for
\* the moment.
BeforeCallFails ==
    /\ wk.pc = "claimed" /\ DependenciesConfirmed(wk.op)
    /\ wk.op \notin Pauses \union LeadPauses
    /\ Fault
    /\ \E state \in {"TERMINAL_FAILED", "RETRYABLE_FAILED"} : Ends(state)
    /\ UNCHANGED <<camp, mem, instantly, world, limited>>

\* The remote effect of an operation; a campaign that is created anew has a
\* number of its own.
Effect(o) ==
    /\ remote' = IF o = Create THEN Append(remote, "draft")
                 ELSE IF o \in Activations
                   THEN [remote EXCEPT ![camp.id] = "active"]
                 ELSE IF o \in Pauses
                   THEN [remote EXCEPT ![camp.id] = "paused"]
                 ELSE remote
    /\ leads' = IF o \in Adds /\ leads[o[2]] = 0
                  THEN [leads EXCEPT ![o[2]] = camp.id] ELSE leads
    /\ UNCHANGED <<over, mails, events>>

NoEffect == UNCHANGED instantly

\* The call is answered.  A lead that was there already is skipped, and the
\* answer without an id cannot be told from a lost one.
Call ==
    LET o == wk.op
        skipped == o \in Adds /\ leads[o[2]] # 0
    IN  /\ wk.pc = "call" /\ o \notin LeadPauses
        /\ Effect(o)
        /\ IF skipped THEN Ends("RECONCILE_REQUIRED")
           ELSE /\ wk' = [wk EXCEPT !.pc = "read",
                                    !.id = IF o = Create THEN Len(remote')
                                           ELSE camp.id]
                /\ UNCHANGED op
        /\ UNCHANGED <<camp, mem, world, failures, limited>>

\* Instantly refuses, for the moment or for good.
CallRefused ==
    /\ wk.pc = "call" /\ wk.op \notin LeadPauses
    /\ Fault
    /\ \E state \in {"TERMINAL_FAILED", "RETRYABLE_FAILED"} : Ends(state)
    /\ NoEffect
    /\ UNCHANGED <<camp, mem, world, limited>>

\* pause_lead: the client has no such request at the present API.
PauseLeadRefused ==
    /\ wk.pc = "call" /\ wk.op \in LeadPauses
    /\ Ends("TERMINAL_FAILED")
    /\ UNCHANGED <<camp, mem, instantly, world, failures, limited>>

\* Mutant of AfterUnknown: a call without an answer is an ordinary failure.
AfterUnknownRetry == "RETRYABLE_FAILED"

AfterUnknown == "RECONCILE_REQUIRED"

\* Timeout, network or server error: landed or not.
CallUnknown ==
    /\ wk.pc = "call" /\ wk.op \notin LeadPauses
    /\ Fault
    /\ Ends(AfterUnknown)
    /\ Effect(wk.op) \/ NoEffect
    /\ UNCHANGED <<camp, mem, world, limited>>

\* A read-back without an answer is to be reconciled; one refused for the
\* moment makes the whole operation an ordinary retry, one refused for good
\* ends it.
ReadBackFails ==
    /\ wk.pc = "read" /\ wk.op \notin Activations
    /\ Fault
    /\ \E state \in {AfterUnknown, "RETRYABLE_FAILED", "TERMINAL_FAILED"} :
          /\ Ends(state)
          /\ limited' = IF state # "RECONCILE_REQUIRED" THEN limited + 1
                                                        ELSE limited
    /\ UNCHANGED <<camp, mem, instantly, world>>

\* stop_after_provider_exposure, in one transaction.
Exposed(table, m, id) ==
    /\ mem' = [mem EXCEPT ![m] = [exec |-> "STOPPED", seq |-> "STOPPED",
                                  lead |-> id]]
    /\ op' = Planned(table, {PauseLead(m), Pause("config")})

\* Mutant of DriftPlans: an activation is left to its reconciliation.
DriftPlansNothing(o) == {}

\* What the refusal of the second check plans.
DriftPlans(o) == {Pause("config") : a \in {o} \intersect Activations}

\* The read-back finds what was asked for; the live check again.
AfterCall ==
    LET o == wk.op
    IN  /\ wk.pc = "read"
        /\ \E c \in LiveCheck(o) :
              \/ /\ c.verdict = "ok"
                 /\ Goto("bind") /\ mem' = c.mem /\ op' = c.op
              \/ /\ c.verdict = "changed" /\ o \in Adds
                 /\ Exposed(op, o[2], wk.id) /\ Goto("confirm")
              \/ /\ c.verdict = "changed" /\ o \notin Adds
                 /\ Leave /\ mem' = c.mem
                 /\ op' = Planned(In(c.op, o, "RECONCILE_REQUIRED"), DriftPlans(o))
              \/ /\ c.verdict = "blocked"
                 /\ Leave /\ mem' = c.mem
                 /\ op' = In(c.op, o, "RECONCILE_REQUIRED")
        /\ UNCHANGED <<camp, instantly, world, failures, limited>>

\* The campaign and the member as a completed operation leaves them.
Effected(o, id) ==
    IF o = Create THEN [camp EXCEPT !.id = id]
    ELSE IF o = Configure THEN [camp EXCEPT !.configured = TRUE]
    ELSE IF o \in Activations THEN [camp EXCEPT !.lifecycle = "ACTIVE"]
    ELSE IF o \in Pauses THEN [camp EXCEPT !.lifecycle = "PAUSED"]
    ELSE camp

Enrolled(o, id) ==
    IF o \in Adds THEN [mem EXCEPT ![o[2]].exec = "ENROLLED", ![o[2]].lead = id]
                  ELSE mem

\* bind_provider_campaign, bind_provider_lead or the new lifecycle.  A row
\* that is bound otherwise, or no longer enrollable, refuses.
Bind ==
    LET o == wk.op
        conflict ==
            \/ o = Create /\ camp.id \notin {None, wk.id}
            \/ o \in Adds /\ mem[o[2]].exec \notin {"RESERVED", "ENROLLED"}
    IN  /\ wk.pc = "bind"
        /\ \/ /\ conflict
              /\ Ends("RECONCILE_REQUIRED")
              /\ UNCHANGED <<camp, mem>>
           \/ /\ ~conflict
              /\ Goto("confirm")
              /\ camp' = Effected(o, wk.id) /\ mem' = Enrolled(o, wk.id)
              /\ UNCHANGED op
        /\ UNCHANGED <<instantly, world, failures, limited>>

Confirm ==
    /\ wk.pc = "confirm"
    /\ Ends("CONFIRMED")
    /\ UNCHANGED <<camp, mem, instantly, world, failures, limited>>

\* The process dies, in a call with or without its effect.
Crash ==
    /\ wk.pc # "idle"
    /\ Fault
    /\ Leave
    /\ NoEffect \/ (wk.pc = "call" /\ Effect(wk.op))
    /\ UNCHANGED <<rows, world, limited>>

\* Mutant of Shows: whatever is not sending counts as paused.
ShowsNotSending(o) ==
    CASE o \in Adds -> leads[o[2]] = camp.id
      [] o \in Activations -> Sending(camp.id)
      [] o \in Pauses -> ~Sending(camp.id)
      [] o \in LeadPauses -> o[2] \in over
      [] OTHER -> TRUE

\* What a reconciliation reads.
Shows(o) ==
    CASE o \in Adds -> leads[o[2]] = camp.id
      [] o \in Activations -> Sending(camp.id)
      [] o \in Pauses -> remote[camp.id] = "paused"
      [] o \in LeadPauses -> o[2] \in over
      [] OTHER -> TRUE

\* _reconcile of a creation: the campaigns of the deterministic name.
ReconcileCreate ==
    /\ wk.pc = "idle" /\ op[Create].state = "RECONCILE_REQUIRED"
    /\ IF Len(remote) = 1 /\ camp.id \in {None, 1}
         THEN /\ camp' = [camp EXCEPT !.id = 1]
              /\ op' = In(op, Create, "CONFIRMED")
         ELSE /\ op' = In(op, Create, CASE remote = <<>> -> "RETRYABLE_FAILED"
                                        [] Len(remote) = 1 -> "RECONCILE_REQUIRED"
                                        [] OTHER -> "TERMINAL_FAILED")
              /\ UNCHANGED camp
    /\ UNCHANGED <<mem, wk, instantly, world, failures, limited>>

\* _reconcile of anything else: an effect that is not there may be tried
\* again, one that is there is confirmed; a lead whose live check is refused
\* was exposed.
Reconcile(o) ==
    LET confirmed == In(op, o, "CONFIRMED")
        enroll == o \in Adds /\ ~Sending(camp.id) /\
                  \E c \in MutationCheck(o) : c.verdict = "ok"
    IN  /\ wk.pc = "idle" /\ o # Create /\ op[o].state = "RECONCILE_REQUIRED"
        /\ \/ /\ ~Shows(o)
              /\ op' = In(op, o, "RETRYABLE_FAILED")
              /\ UNCHANGED <<camp, mem>>
           \/ /\ Shows(o) /\ o \in Adds /\ ~enroll
              /\ Exposed(confirmed, o[2], camp.id)
              /\ UNCHANGED camp
           \/ /\ Shows(o) /\ (o \in Adds => enroll)
              /\ op' = confirmed
              /\ camp' = Effected(o, camp.id)
              /\ mem' = Enrolled(o, camp.id)
        /\ UNCHANGED <<wk, instantly, world, failures, limited>>

-----------------------------------------------------------------------------
(* Instantly, its webhooks, the windows and the controls.                  *)

\* An active campaign mails the next step to a lead that is not paused.
ProviderSends(m) ==
    /\ leads[m] # 0 /\ Sending(leads[m]) /\ m \notin over
    /\ mails[m] = 0 \/ (mails[m] = 1 /\ clock # 0)
    /\ mails' = [mails EXCEPT ![m] = @ + 1]
    /\ events' = events \union {[kind |-> "sent", of |-> m, step |-> mails'[m],
                                 timely |-> clock = mails[m]]}
    /\ UNCHANGED <<rows, wk, remote, leads, over, world, failures, limited>>

Change == changes < MaxChanges /\ changes' = changes + 1

\* The recipient replies, unsubscribes or cannot be reached.
RecipientStops(m) ==
    /\ Change
    /\ mails[m] > 0
    /\ events' = events \union {[kind |-> "stop", of |-> m, step |-> 0,
                                 timely |-> TRUE]}
    /\ over' = over \union {m}
    /\ UNCHANGED <<rows, wk, remote, leads, mails, valid, kill, clock,
                   failures, limited>>

AfterStep2(row) == [row EXCEPT !.seq = "COMPLETED"]

\* _email_sent: the truth of the mail is kept whatever was authorized; after
\* the last first step the campaign is to be held for the second.
EmailSent(e) ==
    LET m == e.of
        fine == mem[m].exec = "QUEUED" /\ e.timely
    IN  /\ e \in events /\ e.kind = "sent" /\ camp.id = leads[e.of]
        /\ IF e.step = 1
             THEN /\ mem' = [mem EXCEPT ![m].exec = "SENT",
                        ![m].seq = IF fine THEN "WAITING_STEP2" ELSE "STOPPED"]
                  /\ op' = IF \E n \in Members : mem'[n].seq = "PENDING_STEP1"
                             THEN op ELSE Planned(op, {Pause("hold")})
             ELSE /\ mem' = [mem EXCEPT ![m] = AfterStep2(@)]
                  /\ UNCHANGED op
        /\ events' = events \ {e}
        /\ UNCHANGED <<camp, wk, remote, leads, over, mails, world,
                       failures, limited>>

\* What a stop plans: the lead's own pause and the campaign's.
StopPlans(m) == {PauseLead(n) : n \in Bound({m})} \union {Pause("stop")}

StopMember(e) ==
    LET m == e.of
    IN  /\ e \in events /\ e.kind = "stop"
        /\ mem' = [mem EXCEPT ![m].exec = IF @ = "SENT" THEN "SENT" ELSE "STOPPED",
                              ![m].seq = "STOPPED"]
        /\ op' = Planned(op, StopPlans(m))
        /\ events' = events \ {e}
        /\ UNCHANGED <<camp, wk, remote, leads, over, mails, world,
                       failures, limited>>

\* expire_authorization_windows
ExpireAuthorizationWindows ==
    LET first == {m \in Members : clock > 0 /\ mem[m].exec = "QUEUED"
                                  /\ mem[m].seq = "PENDING_STEP1"}
        second == {m \in Members : clock > 1 /\ mem[m].exec = "SENT"
                                   /\ mem[m].seq = "WAITING_STEP2"}
    IN  /\ first \union second # {}
        /\ mem' = [m \in Members |->
               IF m \in first
                 THEN [mem[m] EXCEPT !.exec = "FAILED", !.seq = "FAILED"]
               ELSE IF m \in second THEN [mem[m] EXCEPT !.seq = "FAILED"]
               ELSE mem[m]]
        /\ op' = Planned(op, {PauseLead(m) : m \in Bound(first)}
                             \union {Pause("config")})
        /\ UNCHANGED <<camp, wk, instantly, world, failures, limited>>

TimePasses ==
    /\ clock < 2
    /\ clock' = clock + 1
    /\ UNCHANGED <<rows, wk, instantly, valid, kill, changes, failures, limited>>

Withdraw(m) ==
    /\ Change /\ m \in valid
    /\ valid' = valid \ {m}
    /\ UNCHANGED <<rows, wk, instantly, kill, clock, failures, limited>>

\* The operator's hard stop.  Releasing it is left out: what it refused has
\* ended for good, what it held back goes on as without it.
ActivateKillSwitch ==
    /\ Change /\ ~kill
    /\ kill' = TRUE
    /\ UNCHANGED <<rows, wk, instantly, valid, clock, failures, limited>>

CampaignNext ==
    \/ \E m \in Members : \/ ReserveMember(m) \/ ProviderSends(m)
                          \/ RecipientStops(m) \/ Withdraw(m)
    \/ CloseDueBatches \/ QueueAndSeal \/ PlanStep2Release
    \/ ReconcileCreate
    \/ \E o \in Ops : Claim(o) \/ Reconcile(o)
    \/ DependencyNotConfirmed \/ BeforeCall \/ BeforeCallFails
    \/ Call \/ CallRefused \/ PauseLeadRefused \/ CallUnknown \/ ReadBackFails
    \/ AfterCall \/ Bind \/ Confirm \/ Crash
    \/ \E e \in events : EmailSent(e) \/ StopMember(e)
    \/ ExpireAuthorizationWindows \/ TimePasses \/ ActivateKillSwitch

CampaignSpec == CampaignInit /\ [][CampaignNext]_campaignVars

-----------------------------------------------------------------------------
(* Properties.                                                             *)

\* A remote campaign is created twice only if a read-back after a creation
\* was refused: neither a lost answer nor a crash nor an expired lease, at
\* any moment, repeats the creation.
NoBlindRepeat == Len(remote) <= 1 + limited

\* A member that was stopped before it was exposed has no lead at Instantly:
\* the stop and a call whose answer was lost never meet (but for a read-back
\* that was refused, see NoBlindRepeat).
StoppedUnexposed ==
    \A m \in Members :
        mem[m].exec = "STOPPED" /\ leads[m] # 0 /\ limited = 0
        => mem[m].lead = leads[m]

\* The row says stopped or failed, and the lead it is bound to may be mailed.
StoppedButMailable(m) ==
    /\ leads[m] # 0 /\ Sending(leads[m]) /\ m \notin over
    /\ mem[m].exec \in {"STOPPED", "FAILED"} /\ mem[m].lead = leads[m]

PausePlanned == \E p \in Pauses : op[p].state # "NONE"

\* Whoever is stopped or failed while Instantly may still mail his lead has
\* the pause of the campaign planned, since the pause of a lead cannot work:
\* whichever of the seal, the activation and its checks, the windows and the
\* webhooks stops him, in any order, short of the kill switch.  A lead the
\* row does not know of is what StoppedUnexposed is about.
StopReachesProvider ==
    \A m \in Members : StoppedButMailable(m) /\ ~kill => PausePlanned

\* A stop holds at Instantly too, on whichever side of the import it comes:
\* no stopped member is mailed without a pause on its way, but after the kill
\* switch (KillReachesProvider) or a read-back that was refused.
StopsHold == StoppedUnexposed /\ StopReachesProvider

\* The same for the kill switch: it does not hold, its refusal after the
\* activation plans the pauses of the leads only.
KillReachesProvider ==
    \A m \in Members : StoppedButMailable(m) => PausePlanned

\* What an operation was for is there, under the ids that are stored.
Effective(o) ==
    CASE o = Create -> camp'.id \in 1..Len(remote')
      [] o = Configure -> camp'.id # None /\ camp'.configured
      [] o \in Adds -> leads'[o[2]] = camp'.id /\ mem'[o[2]].lead = camp'.id
      [] o \in Activations -> remote'[camp'.id] = "active"
      [] o \in Pauses -> remote'[camp'.id] = "paused"
      [] o \in LeadPauses -> o[2] \in over'

\* An operation is confirmed only while its effect is to be seen at Instantly
\* and, for a campaign or a lead, under the id that is stored.
ConfirmationsTrue ==
    [][\A o \in Ops : op[o].state # "CONFIRMED" /\ op'[o].state = "CONFIRMED"
                      => Effective(o)]_campaignVars
=============================================================================
