--------------------------- MODULE MCWebhookOutbox ---------------------------
(* Instances of WebhookOutbox for TLC. *)
EXTENDS WebhookOutbox, TLC

CONSTANTS e1, e2, d1, d2

TwoEvents == {e1, e2}
TwoDispatches == {d1, d2}
=============================================================================
