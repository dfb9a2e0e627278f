--------------------------- MODULE MCPortalCalls ---------------------------
(***************************************************************************)
(* A small instance of PortalCalls: two statement names, two portal names  *)
(* with room for one portal, and one description.                          *)
(***************************************************************************)
EXTENDS PortalCalls

CONSTANTS u, s, p, x, e

=============================================================================
