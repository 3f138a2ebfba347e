-------------------------- MODULE MCWebhookDelivery --------------------------
(***************************************************************************)
(* Small instances of WebhookDelivery for TLC.                             *)
(***************************************************************************)
EXTENDS WebhookDelivery, TLC

CONSTANTS e1, v1, ping, w1, w2

OneEndpoint  == {e1}
TwoEvents    == {v1, ping}
Everything   == Endpoints \X (Events \ {Ping})
TwoWorkers   == {w1, w2}

Symmetry == Permutations(Workers)

=============================================================================
