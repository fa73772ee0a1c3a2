------------------------------ MODULE MCDriver ------------------------------
(* Instances of Driver for TLC.                                            *)
EXTENDS Driver

CONSTANTS public, private

TwoAuctions == 1..2
============================================================================
