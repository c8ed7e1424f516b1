---------------------------- MODULE MCCheckpoint ----------------------------
(***************************************************************************)
(* Instances of Checkpoint for TLC: two zones and two eligibility          *)
(* configurations that disagree about a change.                            *)
(***************************************************************************)
EXTENDS Checkpoint, TLC

CONSTANTS z1, z2, cA, cB

\* A leaves out the last change of z1.  B leaves out the first one, unless it
\* is also the last: then A selects nothing in z1 and B everything.
MCEligible ==
  (cA :> {w \in Work : w # <<z1, MaxChanges>>}) @@
  (cB :> {w \in Work : w # <<z1, 1>> \/ MaxChanges = 1})
=============================================================================
