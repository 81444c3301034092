----------------------------- MODULE MCWebhook -----------------------------
(* A receiver that waits for the end of a shot, and another one, disabled,   *)
(* that can only be tested.                                                  *)
EXTENDS Webhook

Receivers ==
    {[enabled |-> TRUE, url |-> "a", defer |-> TRUE],
     [enabled |-> FALSE, url |-> "b", defer |-> FALSE]}
=============================================================================
