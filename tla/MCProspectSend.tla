--------------------------- MODULE MCProspectSend ---------------------------
(* Small instances of ProspectSend.                                         *)
EXTENDS ProspectSend, TLC

\* Every target has a mailbox of its own.
OwnMailbox == [t \in Targets |-> t]

\* An edit under a running batch and a second fault are not taken together:
\* the outcome of an item makes the third version of a target, an edit any.
EditsOrFaults ==
    \/ faults <= 1
    \/ \A t \in Targets : \/ tgt[t].version <= 2
                          \/ \E r \in Requests : item[r][t].status \in Terminal

\* Batches come in every order, so the targets may be exchanged too.
ActorSymmetry == Permutations(Workers) \union Permutations(Targets)
=============================================================================
