---------------------------- MODULE MCPhotoVerify ----------------------------
(* Constant values for model checking PhotoVerify. *)
EXTENDS PhotoVerify, TLC

MCSelfScale == [success |-> 2, retry |-> 1]
MCGeminiScale == [success |-> 3, retry |-> 2]
=============================================================================
