--------------------------- MODULE MCModuleCall ----------------------------
(* Instances of ModuleCall: which calls exist and which are long.          *)
EXTENDS ModuleCall

AllCalls == Callers \X (1 .. CallsPer)
FirstCalls == Callers \X {1}
NoCalls == {}
=============================================================================
