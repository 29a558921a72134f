----------------------------- MODULE MCLedgers ------------------------------
(***************************************************************************)
(* Small instances of the components whose rows record what happened at a  *)
(* provider: its operations, its delivery events, the replies, the events  *)
(* of an opportunity, the spending on models.  The modules share no state, *)
(* so a behaviour is one of one part, chosen in the initial state, and the *)
(* others stay as they start.                                              *)
(***************************************************************************)
EXTENDS CampaignOperations, DeliveryProjection, ResponseEvaluation,
        OpportunityStream, ModelBudget

VARIABLE part

vars == <<part, campaignVars, deliveryVars, responseVars, streamVars, budgetVars>>

Init ==
    /\ part \in {"campaign", "delivery", "response", "stream", "budget"}
    /\ CampaignInit
    /\ DeliveryInit
    /\ ResponseInit
    /\ StreamInit
    /\ BudgetInit

Next ==
    /\ UNCHANGED part
    /\ \/ /\ part = "campaign" /\ CampaignNext
          /\ UNCHANGED <<deliveryVars, responseVars, streamVars, budgetVars>>
       \/ /\ part = "delivery" /\ DeliveryNext
          /\ UNCHANGED <<campaignVars, responseVars, streamVars, budgetVars>>
       \/ /\ part = "response" /\ ResponseNext
          /\ UNCHANGED <<campaignVars, deliveryVars, streamVars, budgetVars>>
       \/ /\ part = "stream" /\ StreamNext
          /\ UNCHANGED <<campaignVars, deliveryVars, responseVars, budgetVars>>
       \/ /\ part = "budget" /\ BudgetNext
          /\ UNCHANGED <<campaignVars, deliveryVars, responseVars, streamVars>>

Spec == Init /\ [][Next]_vars

\* Changes of the world come before both windows of a campaign are closed.
ChangedOrClosed == clock < 2 \/ changes = 0
=============================================================================
