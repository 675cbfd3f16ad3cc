----------------------------- MODULE MCEnvVars -----------------------------
(* Instances of EnvVars small enough for TLC.                                 *)
EXTENDS EnvVars

\* What users write: a variable of their own, and managed ones against the
\* operator's wishes: a fixed namespace, an address that is out of date, and
\* one taken from elsewhere.
MCEntries ==
    { Literal("OTHER", [kind |-> "user", of |-> "a"]),
      Literal("POD_NAMESPACE", [kind |-> "user", of |-> "a"]),
      Literal("CONTROLLER_PUBLISH_SERVICE", [kind |-> "user", of |-> "a"]),
      FromField("CONTROLLER_APISIX_ADMIN_URL", "configmap") }

\* Lists of at most two of them, also the same one twice.
MCLists == BoundedSeq(MCEntries, 2)
=============================================================================
