------------------------------ MODULE MCCodegen ------------------------------
(***************************************************************************)
(* A small instance of Codegen for TLC.                                    *)
(***************************************************************************)
EXTENDS Codegen, TLC

\* "a:b" and "aB" give one identifier, "b" another. Every scope occurs, and one
\* that the generator does not know.
MCEntries ==
    {[name |-> <<97, 58, 98>>, scope |-> s] : s \in {"self", "platform", "Platform"}}
    \cup {[name |-> <<97, 66>>, scope |-> "project"]}
    \cup {[name |-> <<98>>, scope |-> s] : s \in {"platform/project", "self"}}

\* "O" and "V" are two roles.
MCRoleNames == {<<79>>, <<86>>}

\* No definition tells two services or two days apart.
Symmetric == Permutations(Services) \cup Permutations(Days)
=============================================================================
