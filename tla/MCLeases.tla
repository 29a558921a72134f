------------------------------ MODULE MCLeases ------------------------------
(***************************************************************************)
(* Small instances of the components that work under a lease or a lock:    *)
(* acquisition runtime, contact lookup, the queue of generated sentences   *)
(* and ingestion.  The modules share no state, so a behaviour is one of    *)
(* one part, chosen in the initial state, and the others stay as they      *)
(* start.                                                                  *)
(***************************************************************************)
EXTENDS AcquisitionRuntime, ContactLookup, ForYouQueue, IngestionCycles, TLC

VARIABLE part

vars == <<part, runtimeVars, lookupVars, forYouVars, ingestionVars>>

Init ==
    /\ part \in {"runtime", "lookup", "sentences", "ingestion"}
    /\ RuntimeInit
    /\ LookupInit
    /\ ForYouInit
    /\ IngestionInit
    /\ part # "ingestion" => source = "window"

Next ==
    /\ UNCHANGED part
    /\ \/ /\ part = "runtime" /\ RuntimeNext
          /\ UNCHANGED <<lookupVars, forYouVars, ingestionVars>>
       \/ /\ part = "lookup" /\ LookupNext
          /\ UNCHANGED <<runtimeVars, forYouVars, ingestionVars>>
       \/ /\ part = "sentences" /\ ForYouNext
          /\ UNCHANGED <<runtimeVars, lookupVars, ingestionVars>>
       \/ /\ part = "ingestion" /\ IngestionNext
          /\ UNCHANGED <<runtimeVars, lookupVars, forYouVars>>

Spec == Init /\ [][Next]_vars

Symmetry == Permutations(Runs) \union Permutations(Requests)

\* The operator's abandonment of a cycle is the only disturbance of its
\* behaviour; otherwise there are up to MaxRunFaults.
AbandonedOrFaulty == abandoned = {} \/ faults <= 1
=============================================================================
