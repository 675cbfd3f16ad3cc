----------------------------- MODULE MCOperator -----------------------------
(* Instances of Operator small enough for TLC.                                *)
EXTENDS Operator

\* The ControlPlane names the DataPlane from the start, and on its side the one
\* edit is the label without which nothing is provisioned: the runs of
\* ControlPlane have all the others.  Where every pass ends in a panic of the
\* process nothing else goes wrong.
MCInit == Init /\ C!DataPlaneIsSet(cp)

MCNext ==
    /\ Next
    /\ edits' = edits \/ C!AdminLabelsSecret
    /\ ca = "malformed" => UNCHANGED <<faults, dpEdits>>

MCSpec == MCInit /\ [][MCNext]_vars /\ Fairness
=============================================================================
