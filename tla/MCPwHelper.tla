----------------------------- MODULE MCPwHelper -----------------------------
(* Values of the constants of PwHelper for TLC.                             *)
EXTENDS PwHelper

CONSTANTS n1, n2, m1

AllLookups == {"find", "default", "enumerate"}
=============================================================================
