---------------------------- MODULE MCVerification ----------------------------
(* Verification as TLC runs it: symmetric documents and admins where no      *)
(* liveness is checked.                                                      *)
EXTENDS Verification, TLC

PanelSymmetry == Permutations(Doc) \cup Permutations(Admin)
=============================================================================
