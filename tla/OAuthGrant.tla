------------------------------ MODULE OAuthGrant ------------------------------
(***************************************************************************)
(* What the "authorize project" page promises the calling application and *)
(* the user, stated without the page's React state, its promises or the   *)
(* projects cache: the app asking is a fixed client; the user's teams own *)
(* projects and may gain new ones; at most one access token is granted,   *)
(* only for a project its team owns; answers reach the app only at a      *)
(* redirect URI the client allows, and an answer that carries a token     *)
(* carries a granted one.                                                  *)
(*                                                                         *)
(* AuthorizeProject implements this specification under the mapping it   *)
(* gives in GrantRefinement.                                               *)
(***************************************************************************)
EXTENDS Sequences

CONSTANTS
    Clients,          \* client ids the dashboard knows
    UnknownClient,    \* any other client id
    Allowed,          \* Allowed[c]: the redirect URIs of client c
    Uris,             \* redirect URIs
    Teams,            \* the user's teams
    Projects,         \* project ids
    InitialProjects,  \* InitialProjects[t]: the projects team t owns at start
    NoToken           \* an answer without an access token

VARIABLES
    client,   \* the app asking (fixed for the page)
    owned,    \* owned[t]: the projects of team t
    granted,  \* the access tokens granted, as [team, project] records
    answers   \* the redirects sent to the app, as [uri, token] records

Grants == [team: Teams, project: Projects]
Answers == [uri: Uris, token: Grants \cup {NoToken}]

Init ==
    /\ client \in Clients \cup {UnknownClient}
    /\ owned = InitialProjects
    /\ granted = {}
    /\ answers = << >>

(* A team gets a new project. *)
CreateProject(t, p) ==
    /\ owned' = [owned EXCEPT ![t] = @ \cup {p}]
    /\ UNCHANGED <<client, granted, answers>>

(* The one grant of the page, for a project the team owns. *)
GrantToken(g) ==
    /\ granted = {}
    /\ g.project \in owned[g.team]
    /\ granted' = {g}
    /\ UNCHANGED <<client, owned, answers>>

(* An answer to a known client at one of its redirect URIs; a token in it *)
(* has been granted.                                                       *)
Answer(a) ==
    /\ client \in Clients
    /\ a.uri \in Allowed[client]
    /\ a.token # NoToken => a.token \in granted
    /\ answers' = Append(answers, a)
    /\ UNCHANGED <<client, owned, granted>>

Next ==
    \/ \E t \in Teams, p \in Projects : CreateProject(t, p)
    \/ \E g \in Grants : GrantToken(g)
    \/ \E a \in Answers : Answer(a)

Spec == Init /\ [][Next]_<<client, owned, granted, answers>>
=============================================================================
