---------------------------- MODULE AlertPromise ----------------------------
(***************************************************************************)
(* What alert delivery promises for each signal of each account: it is     *)
(* tried at most MaxAttempts times, no more copies of it go out than it    *)
(* was tried, it is recorded as sent only once a copy went out, and a      *)
(* settled signal is never tried again.                                    *)
(***************************************************************************)
EXTENDS Naturals

CONSTANTS Accounts, Signals, MaxAttempts

VARIABLES phase, tries, copies

promised == <<phase, tries, copies>>

Init ==
    /\ phase \in [Accounts -> [Signals -> {"new", "live"}]]
    /\ tries = [a \in Accounts |-> [s \in Signals |-> 0]]
    /\ copies = [a \in Accounts |-> [s \in Signals |-> 0]]

\* A batch moves several signals at once, each along one of these lines.
TakenUp(a, s) ==
    /\ phase[a][s] \in {"new", "live"} /\ phase'[a][s] = "live"
    /\ tries'[a][s] \in {tries[a][s], tries[a][s] + 1}
    /\ tries'[a][s] <= MaxAttempts

Settles(a, s) ==
    /\ phase[a][s] = "live" /\ phase'[a][s] \in {"sent", "closed"}
    /\ tries'[a][s] = tries[a][s]
    /\ phase'[a][s] = "sent" => copies[a][s] > 0

LeftAlone(a, s) ==
    /\ phase'[a][s] = phase[a][s]
    /\ tries'[a][s] = tries[a][s]

\* A copy of a try that was counted may still leave after the signal settled.
Copied(a, s) ==
    /\ copies'[a][s] \in {copies[a][s], copies[a][s] + 1}
    /\ copies'[a][s] <= tries'[a][s]

Next ==
    \A a \in Accounts, s \in Signals :
        /\ TakenUp(a, s) \/ Settles(a, s) \/ LeftAlone(a, s)
        /\ Copied(a, s)

Spec == Init /\ [][Next]_promised
=============================================================================
