----------------------------- MODULE MCWebhooks -----------------------------
(* Two payloads that share a message, for TLC. *)
EXTENDS WebhookLedger, TLC

CONSTANTS hello, stop, read,   \* a message, an opt-out and a delivery status
          first, second        \* payloads

MCPayload == (first :> <<stop, hello>>) @@ (second :> <<hello, read>>)
MCShort == (first :> <<stop, read>>) @@ (second :> <<stop>>)

Interchangeable == Permutations(Requests)
=============================================================================
