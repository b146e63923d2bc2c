----------------------------- MODULE MCMessaging -----------------------------
(* One listener that stays and two that come and go.                       *)
EXTENDS Messaging

CONSTANTS p, x, y

MCListeners == {p, x, y}
MCPermanent == <<p>>

=============================================================================
