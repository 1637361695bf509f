-------------------------- MODULE MCClientIdentity --------------------------
(* ClientIdentity on small instances for TLC. *)
EXTENDS ClientIdentity

CONSTANTS A, B        \* two subjects, or two sets of scopes

MCValues == {Own, A, B}

(* The organization may be left out or be another's, subject and scopes may *)
(* be left out or differ; the workspace is always declared.                 *)
AllCredentials ==
    {c \in [Claims -> MCValues \cup {None}] :
       /\ c["organization"] \in {None, Own, B} /\ c["workspace"] = Own
       /\ c["subject"] # Own /\ c["scopes"] # Own}

(* One subject, two sets of scopes. *)
TwoScopes ==
    {c \in AllCredentials :
       c["organization"] = Own /\ c["subject"] = A /\ c["scopes"] # None}
=============================================================================
