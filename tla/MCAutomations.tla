----------------------------- MODULE MCAutomations -----------------------------
(***************************************************************************)
(* An instance of Automations and of WebhookDelivery for TLC, side by      *)
(* side: a behaviour is one of either, so that their states add up.        *)
(***************************************************************************)
EXTENDS Automations, WebhookDelivery, TLC

CONSTANTS w1, w2

ASSUME WebhookAssumption

VARIABLE side

MCInit == Init /\ WebhookInit /\ side \in {"runs", "webhooks"}

MCNext ==
  /\ UNCHANGED side
  /\ \/ side = "runs" /\ Next /\ UNCHANGED webhookVars
     \/ side = "webhooks" /\ WebhookNext /\ UNCHANGED vars

MCSpec ==
  /\ MCInit /\ [][MCNext]_<<vars, webhookVars, side>>
  /\ side = "runs" => WF_vars(\E w \in Workers : Work(w))
  /\ side = "webhooks" => WF_webhookVars(\E w \in Posters : Deliver(w))

\* A queued run ends, and so does a pending delivery.
EverythingEnds == EveryRunEnds /\ EveryDeliveryEnds
=============================================================================
