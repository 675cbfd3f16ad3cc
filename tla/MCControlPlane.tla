-------------------------- MODULE MCControlPlane --------------------------
(* Instances of ControlPlane small enough for TLC.                            *)
EXTENDS ControlPlaneInvariant

\* The environments users write: an empty one, which takes the defaults away.
MCUserEnvs == {NoEnv}
=============================================================================
