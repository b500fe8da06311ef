------------------------- MODULE MCWebhookDelivery -------------------------
(* Instances of WebhookDelivery for TLC. *)
EXTENDS WebhookDelivery

\* One retry: an attempt that is tried again and one that is the last.
MCBackoff == <<1>>

MCOneEndpoint == [d \in Deliveries |-> CHOOSE e \in Endpoints : TRUE]
=============================================================================
