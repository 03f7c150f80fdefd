-------------------------- MODULE MCDriverMethods --------------------------
(* Values of the constants of DriverMethods for TLC.                        *)
EXTENDS DriverMethods

AnyFailure == {"init", "connect", "paused", "memory", "manager"}
AnyHost == {"sparse", "size", "reference"}
=============================================================================
