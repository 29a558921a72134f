----------------------------- MODULE ModelBudget -----------------------------
(***************************************************************************)
(* The daily model budget (signals/model_runtime): OpenRouterGateway       *)
(* reserves an estimate, calls the model and settles the reservation with  *)
(* the real cost, or releases it.  The journal keeps one row per call, the *)
(* counter one row per day and usage; a call may be settled on another day *)
(* than it was reserved, and many processes call at once.                  *)
(*                                                                         *)
(* One usage.  A transaction is split at its lock on the counter: the      *)
(* locking read, and the write with its commit.                            *)
(***************************************************************************)
EXTENDS Integers, FiniteSets, Functions

CONSTANTS
    Calls,          \* the calls, each under a fresh call_id
    DailyBudget,    \* route.daily_budget_usd
    MaxEstimate,    \* estimates are 1..MaxEstimate
    LastDay         \* bound: days that pass

ASSUME BudgetAssumption ==
    /\ IsFiniteSet(Calls)
    /\ DailyBudget \in Nat /\ MaxEstimate \in Nat /\ LastDay \in Nat \ {0}

Days == 1..LastDay

VARIABLES
    counter,   \* model_daily_budget: reserved and actual, per day
    journal,   \* model_call_journal
    caller,    \* where the caller is, and the counter it read
    day,
    billed     \* the provider's bill, per call

budgetVars == <<counter, journal, caller, day, billed>>

NoEntry == [status |-> "none", day |-> 0, reserved |-> 0, actual |-> 0]
Fresh == [pc |-> "new", day |-> 0, amount |-> 0,
          read |-> [reserved |-> 0, actual |-> 0]]

BudgetInit ==
    /\ counter = [d \in Days |-> [reserved |-> 0, actual |-> 0]]
    /\ journal = [k \in Calls |-> NoEntry]
    /\ caller = [k \in Calls |-> Fresh]
    /\ day = 1
    /\ billed = [k \in Calls |-> 0]

-----------------------------------------------------------------------------
InTransaction == {"reserving", "succeeding", "failing"}

\* SELECT ... FOR UPDATE of a day's counter.
CounterFree(d) ==
    \A k \in Calls : ~(caller[k].pc \in InTransaction /\ caller[k].day = d)

Locks(k, pc, d, amount) ==
    /\ CounterFree(d)
    /\ caller' = [caller EXCEPT ![k] = [pc |-> pc, day |-> d, amount |-> amount,
                                        read |-> counter[d]]]

\* After a transaction, or at the end.
Goes(k, pc) ==
    caller' = [caller EXCEPT ![k] = [Fresh EXCEPT !.pc = pc]]

\* reserve: the day is the one on which it was called.
ReserveReads(k, estimate) ==
    /\ caller[k].pc = "new"
    /\ Locks(k, "reserving", day, estimate)
    /\ UNCHANGED <<counter, journal, day, billed>>

\* Mutant of Exhausted: open reservations are not counted.
ExhaustedActual(c) == c.read.actual + c.amount > DailyBudget

Exhausted(c) == c.read.actual + c.read.reserved + c.amount > DailyBudget

ReserveWrites(k) ==
    LET c == caller[k]
        entry == [status |-> IF Exhausted(c) THEN "rejected_budget" ELSE "reserved",
                  day |-> c.day, reserved |-> c.amount, actual |-> 0]
    IN  /\ c.pc = "reserving"
        /\ journal' = [journal EXCEPT ![k] = entry]
        /\ IF Exhausted(c)
             THEN Goes(k, "done") /\ UNCHANGED counter
             ELSE /\ counter' = [counter EXCEPT ![c.day].reserved =
                                     c.read.reserved + c.amount]
                  /\ Goes(k, "calling")
        /\ UNCHANGED <<day, billed>>

\* The model answers, and bills at most the estimate; or the answer is lost
\* or unusable, billed or not.
Answered(k) ==
    /\ caller[k].pc = "calling"
    /\ \E cost \in 0..journal[k].reserved :
          /\ billed' = [billed EXCEPT ![k] = cost]
          /\ Goes(k, "succeed") \/ Goes(k, "fail")
    /\ UNCHANGED <<counter, journal, day>>

ActiveCall(k) == journal[k].status = "reserved"

\* succeed and fail: the call's row, then the counter of the call's day.
SettleReads(k) ==
    /\ \/ caller[k].pc = "succeed" /\ Locks(k, "succeeding", journal[k].day, billed[k])
       \/ caller[k].pc = "fail" /\ Locks(k, "failing", journal[k].day, 0)
    /\ ActiveCall(k)
    /\ UNCHANGED <<counter, journal, day, billed>>

\* _active_call raises.
SettleRefused(k) ==
    /\ caller[k].pc \in {"succeed", "fail"} /\ ~ActiveCall(k)
    /\ Goes(k, "done")
    /\ UNCHANGED <<counter, journal, day, billed>>

\* The commit; the caller of succeed may not learn of it and calls fail.
SettleWrites(k) ==
    LET c == caller[k]
    IN  /\ c.pc \in {"succeeding", "failing"}
        /\ counter' = [counter EXCEPT ![c.day] =
               [reserved |-> c.read.reserved - journal[k].reserved,
                actual |-> c.read.actual + c.amount]]
        /\ journal' = [journal EXCEPT ![k].actual = c.amount,
               ![k].status = IF c.pc = "succeeding" THEN "succeeded" ELSE "failed"]
        /\ Goes(k, "done") \/ (c.pc = "succeeding" /\ Goes(k, "fail"))
        /\ UNCHANGED <<day, billed>>

\* A transaction rolls back: reserve and fail give up, succeed goes on to fail.
BudgetRollback(k) ==
    /\ caller[k].pc \in InTransaction
    /\ Goes(k, IF caller[k].pc = "succeeding" THEN "fail" ELSE "done")
    /\ UNCHANGED <<counter, journal, day, billed>>

\* The process ends; its reservation stays.
CallerDies(k) ==
    /\ caller[k].pc \notin {"new", "done"}
    /\ Goes(k, "done")
    /\ UNCHANGED <<counter, journal, day, billed>>

Midnight ==
    /\ day < LastDay
    /\ day' = day + 1
    /\ UNCHANGED <<counter, journal, caller, billed>>

BudgetNext ==
    \/ \E k \in Calls :
          \/ \E estimate \in 1..MaxEstimate : ReserveReads(k, estimate)
          \/ ReserveWrites(k) \/ Answered(k)
          \/ SettleReads(k) \/ SettleRefused(k) \/ SettleWrites(k)
          \/ BudgetRollback(k) \/ CallerDies(k)
    \/ Midnight

BudgetSpec == BudgetInit /\ [][BudgetNext]_budgetVars

-----------------------------------------------------------------------------
Of(d, status) == {k \in Calls : journal[k].day = d /\ journal[k].status = status}

\* Each day's counter is what its journal adds up to, whenever the calls were
\* settled, by whichever process, also by one that lost its answer: nothing is
\* released twice or from another day.
CounterExact ==
    \A d \in Days :
        /\ counter[d].reserved =
              SumFunctionOnSet([k \in Calls |-> journal[k].reserved], Of(d, "reserved"))
        /\ counter[d].actual =
              SumFunctionOnSet([k \in Calls |-> journal[k].actual], Of(d, "succeeded"))

\* What the provider bills for the calls of a day stays within the budget,
\* but for calls that were billed and released because their answer was lost.
BilledWithinBudget ==
    \A d \in Days :
        SumFunctionOnSet(billed, Of(d, "reserved") \union Of(d, "succeeded")) <= DailyBudget

\* Counter, journal and bill agree, on every day and in any order of
\* reservations, settlements and releases.
BudgetKept == CounterExact /\ BilledWithinBudget
=============================================================================
