------------------------- MODULE MCAuthorizeProject -------------------------
(***************************************************************************)
(* Two teams, team tA with projects p1 and p2 and team tB with p3; one id *)
(* n1 for a project created from the page; room for one more project per *)
(* team.  One client c1 that allows u1 only; the query varies over u1/u2, *)
(* the response types "token"/"code" and a present or absent state.       *)
(***************************************************************************)
EXTENDS AuthorizeProject

CONSTANTS c1, u1, u2, tA, tB, p1, p2, p3, n1, n2

MCClients == {c1}
MCUris == {u1, u2}
MCAllowed == [c \in MCClients |-> {u1}]
MCResponseTypes == {"token", "code"}
MCStates == {NoState, "s1"}
MCTeams == {tA, tB}
MCProjects == {p1, p2, p3, n1}
MCInitialProjects == [t \in MCTeams |-> IF t = tA THEN {p1, p2} ELSE {p3}]
MCNewProjects == {n1}
\* Two ids for created projects: room for a second createProject call.
MCProjects2 == MCProjects \cup {n2}
MCNewProjects2 == {n1, n2}
=============================================================================
