--------------------------- MODULE MCClusterRoles ---------------------------
(* Instances of ClusterRoles small enough for TLC.                            *)
EXTENDS ClusterRoles

Plain(tag) == [form |-> "plain", tag |-> tag, version |-> Tag("none")]

\* Both sides of every bound in the table, and each form of an image.
MCRequests ==
    {Plain(Version(2, minor)) : minor \in 0..5}
    \cup {Plain(t) : t \in {Version(1, 9), Version(3, 0), [Version(2, 4) EXCEPT !.pre = TRUE],
                            Tag("none"), Tag("latest"), Tag("other")}}
    \cup {NoRequest, [Plain(Version(2, 1)) EXCEPT !.form = "ported"],
          [Plain(Tag("none")) EXCEPT !.form = "ported"],
          [Plain(Tag("none")) EXCEPT !.version = Version(2, 1)]}
=============================================================================
