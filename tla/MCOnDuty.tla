------------------------------ MODULE MCOnDuty ------------------------------
(* OnDuty as TLC runs it.                                                    *)
EXTENDS OnDuty
=============================================================================
