---------------------------- MODULE MCP0Delivery ----------------------------
(* Instances of P0Delivery for TLC. *)
EXTENDS P0Delivery

CONSTANTS b1, b2
=============================================================================
