--------------------------- MODULE AuthorizeProject ---------------------------
(***************************************************************************)
(* The dashboard page that lets a signed-in user grant a third-party app  *)
(* access to one of their projects (AuthorizeProject in                   *)
(* dashboard/src/components/AuthorizeProject.tsx, with CreateProjectForm  *)
(* of dashboard/src/hooks/useCreateProjectModal.tsx).                     *)
(*                                                                         *)
(* Actors: the user clicking the page, the page's async continuations     *)
(* (the createTeamAccessToken and createProject promises), the big-brain  *)
(* API server that mints tokens and creates projects, the projects list   *)
(* cache (useProjects, polled every 30 s) and the browser leaving the     *)
(* page after router.replace/push to the calling application.             *)
(*                                                                         *)
(* React state updates made by one event handler are applied in one step: *)
(* the click events are discrete events, so React re-renders before the   *)
(* next one and each handler sees the state the last one left.  An await *)
(* splits a handler in two actions; the continuation sees the closure of  *)
(* the render in which the handler started.                               *)
(***************************************************************************)
EXTENDS OAuthConfig, Naturals, FiniteSets

CONSTANTS
    Teams,            \* teams of the signed-in user (teams loaded)
    Projects,         \* all project ids, existing and creatable
    InitialProjects,  \* InitialProjects[t]: the projects of team t at start
    NewProjects,      \* ids the API server may give a created project
    MaxProjects,      \* entitlements.maxProjects (same for every team)
    NoProject,        \* selectedProjectId = null
    Unloaded,         \* useProjects(team.id) still undefined
    NoRequest         \* no createTeamAccessToken call outstanding

ASSUME NewProjects \subseteq Projects
ASSUME \A t \in Teams : InitialProjects[t] \subseteq Projects \ NewProjects

VARIABLES
    query,            \* the OAuthConfig of the URL (fixed)
    team,             \* selectedTeamSlug (router query "team")
    projects,         \* API server: projects[t] = the projects of team t
    listed,           \* client cache: listed[t] = useProjects(t), or Unloaded
    selected,         \* selectedProjectId
    showProjectForm,  \* the create-project form replaces the project picker
    didCreateProject, \* a project was created from this page
    creating,         \* createProject calls outstanding: [team, id] records
    formBusy,         \* CreateProjectForm's formik isSubmitting
    submitting,       \* the authorize formik's isSubmitting
    request,          \* the createTeamAccessToken call, or NoRequest
    minted,           \* API server: access tokens minted for this page
    isRedirecting,
    nav,              \* router.replace/push calls to the calling app, in order
    unloaded          \* the browser has left the page

vars == <<query, team, projects, listed, selected, showProjectForm,
          didCreateProject, creating, formBusy, submitting, request, minted,
          isRedirecting, nav, unloaded>>

\* The validation result of the page's render (recomputed on every render;
\* its inputs never change).
validated == validateOAuthConfig(query)

\* The token string handed to the app: `project:${team}:${project}|${token}`.
Token == [team: Teams, project: Projects]

Requests == [project: Projects, team: Teams,
             phase: {"sent", "ok", "failed", "lost"}]

TypeOK ==
    /\ query \in OAuthConfigs
    /\ team \in Teams
    /\ projects \in [Teams -> SUBSET Projects]
    /\ listed \in [Teams -> SUBSET Projects \cup {Unloaded}]
    /\ selected \in Projects \cup {NoProject}
    /\ showProjectForm \in BOOLEAN /\ didCreateProject \in BOOLEAN
    /\ creating \subseteq [team: Teams, id: NewProjects]
    /\ formBusy \in BOOLEAN /\ submitting \in BOOLEAN
    /\ request \in Requests \cup {NoRequest}
    /\ minted \subseteq Token
    /\ isRedirecting \in BOOLEAN /\ unloaded \in BOOLEAN
    /\ \A i \in DOMAIN nav :
           /\ nav[i].uri \in Uris
           /\ \A j \in DOMAIN nav[i].fragment :
                  LET kv == nav[i].fragment[j]
                  IN  IF kv[1] = "access_token" THEN kv[2] \in Token
                                                ELSE kv[2] \in STRING

\* `projects` of the render: the cached list of the selected team.
Listed == listed[team]

\* canCreateMoreProjects of useProjectSelection.
canCreateMoreProjects ==
    Listed # Unloaded /\ Cardinality(Listed) < MaxProjects

\* The page is interactive: the form is rendered (no validation error) and
\* the browser is still on it.
Interactive == validated.error = NoError /\ ~unloaded

\* Issue a redirect to the calling application (router.replace/push).
Redirect(params) ==
    nav' = Append(nav, buildOAuthRedirectUrl(validated.redirectUri,
                                             [params EXCEPT !.state = validated.state]))

\* A createTeamAccessToken call the server has not handled yet.
Pending == request # NoRequest /\ request.phase = "sent"

ErrorParams(e) == [error |-> e, accessToken |-> NoToken, state |-> NoState]

Init ==
    /\ query \in OAuthConfigs
    /\ team \in Teams
    /\ projects = InitialProjects
    /\ listed = [t \in Teams |-> Unloaded]
    /\ selected = NoProject
    /\ showProjectForm = FALSE /\ didCreateProject = FALSE
    /\ creating = {} /\ formBusy = FALSE
    /\ submitting = FALSE /\ request = NoRequest
    /\ minted = {}
    /\ isRedirecting = FALSE /\ nav = << >>
    /\ unloaded = FALSE

-----------------------------------------------------------------------------
(* A variant that redirects whenever validation failed, with or without  *)
(* a redirect URI.                                                         *)
RenderErrorAnyUri ==
    /\ validated.error # NoError
    /\ ~isRedirecting
    /\ Redirect(ErrorParams(validated.error))
    /\ isRedirecting' = TRUE
    /\ UNCHANGED <<query, team, projects, listed, selected, showProjectForm,
                   didCreateProject, creating, formBusy, submitting, request,
                   minted, unloaded>>

(* The render with a validation error (lines 97-126): with a redirect URI *)
(* the error goes back to the app, without one the page shows "Invalid    *)
(* redirect_uri" and stays.                                               *)
RenderError ==
    /\ validated.error # NoError
    /\ ~isRedirecting
    /\ validated.redirectUri # NoUri
    /\ Redirect(ErrorParams(validated.error))
    /\ isRedirecting' = TRUE
    /\ UNCHANGED <<query, team, projects, listed, selected, showProjectForm,
                   didCreateProject, creating, formBusy, submitting, request,
                   minted, unloaded>>

(* useProjects(team.id, 30000) fetches or re-polls the current team's list. *)
RefreshProjects ==
    /\ ~unloaded
    /\ listed[team] # projects[team]
    /\ listed' = [listed EXCEPT ![team] = projects[team]]
    /\ UNCHANGED <<query, team, projects, selected, showProjectForm,
                   didCreateProject, creating, formBusy, submitting, request,
                   minted, isRedirecting, nav, unloaded>>

(* The team Combobox pushes ?team=slug; the page's state survives. *)
SelectTeam(t) ==
    /\ Interactive
    /\ t # team
    /\ team' = t
    /\ UNCHANGED <<query, projects, listed, selected, showProjectForm,
                   didCreateProject, creating, formBusy, submitting, request,
                   minted, isRedirecting, nav, unloaded>>

(* The project Combobox, shown when the list is loaded and not empty. *)
SelectProject(p) ==
    /\ Interactive
    /\ ~showProjectForm
    /\ Listed # Unloaded
    /\ p \in Listed
    /\ selected' = p
    /\ UNCHANGED <<query, team, projects, listed, showProjectForm,
                   didCreateProject, creating, formBusy, submitting, request,
                   minted, isRedirecting, nav, unloaded>>

(* "Create a new project": opens the form and clears the selection. *)
OpenProjectForm ==
    /\ Interactive
    /\ ~showProjectForm /\ ~didCreateProject
    /\ canCreateMoreProjects
    /\ showProjectForm' = TRUE
    /\ selected' = NoProject
    /\ UNCHANGED <<query, team, projects, listed, didCreateProject, creating,
                   formBusy, submitting, request, minted, isRedirecting, nav,
                   unloaded>>

(* The reset button next to the form: unmounts it (a new formik next time). *)
CloseProjectForm ==
    /\ Interactive
    /\ showProjectForm
    /\ showProjectForm' = FALSE
    /\ formBusy' = FALSE
    /\ UNCHANGED <<query, team, projects, listed, selected, didCreateProject,
                   creating, submitting, request, minted, isRedirecting, nav,
                   unloaded>>

(* CreateProjectForm submit: createProject({team: team.slug, ...}) is sent. *)
SubmitCreateProject(id) ==
    /\ Interactive
    /\ showProjectForm /\ ~formBusy
    /\ \A t \in Teams : id \notin projects[t]
    /\ \A c \in creating : c.id # id
    /\ formBusy' = TRUE
    /\ creating' = creating \cup {[team |-> team, id |-> id]}
    /\ UNCHANGED <<query, team, projects, listed, selected, showProjectForm,
                   didCreateProject, submitting, request, minted,
                   isRedirecting, nav, unloaded>>

(* createProject resolves: the server has created it; onSuccess selects it, *)
(* closes the form and hides "Create a new project"; onClose.              *)
CreateProjectDone(c) ==
    /\ ~unloaded
    /\ projects' = [projects EXCEPT ![c.team] = @ \cup {c.id}]
    /\ creating' = creating \ {c}
    /\ selected' = c.id
    /\ showProjectForm' = FALSE
    /\ didCreateProject' = TRUE
    /\ formBusy' = FALSE
    /\ UNCHANGED <<query, team, listed, submitting, request, minted,
                   isRedirecting, nav, unloaded>>

(* createProject rejects: formik clears isSubmitting, the form stays. *)
CreateProjectFailed(c) ==
    /\ ~unloaded
    /\ creating' = creating \ {c}
    /\ formBusy' = FALSE
    /\ UNCHANGED <<query, team, projects, listed, selected, showProjectForm,
                   didCreateProject, submitting, request, minted,
                   isRedirecting, nav, unloaded>>

-----------------------------------------------------------------------------
(***************************************************************************)
(* Plausible slips in the authorize path, used as mutants: a button that  *)
(* is not disabled while submitting, a continuation that labels the token *)
(* with the team selected now, a catch that forgets to redirect, and a    *)
(* submit that trusts the selection without looking it up in the list.    *)
(***************************************************************************)
AuthorizeWhileSubmitting ==
    /\ Interactive
    /\ selected # NoProject /\ ~isRedirecting
    /\ IF Listed # Unloaded /\ selected \in Listed
       THEN /\ submitting' = TRUE
            /\ request' = [project |-> selected, team |-> team, phase |-> "sent"]
            /\ UNCHANGED <<nav, isRedirecting>>
       ELSE /\ Redirect(ErrorParams("server_error"))
            /\ isRedirecting' = TRUE
            /\ UNCHANGED <<submitting, request>>
    /\ UNCHANGED <<query, team, projects, listed, selected, showProjectForm,
                   didCreateProject, creating, formBusy, minted, unloaded>>

TokenReplyCurrentTeam ==
    /\ ~unloaded
    /\ request # NoRequest /\ request.phase # "sent"
    /\ IF request.phase = "ok"
       THEN /\ Redirect([error |-> NoError, state |-> NoState,
                         accessToken |-> [team |-> team,
                                          project |-> request.project]])
       ELSE /\ Redirect(ErrorParams("server_error"))
    /\ isRedirecting' = TRUE
    /\ submitting' = FALSE
    /\ request' = NoRequest
    /\ UNCHANGED <<query, team, projects, listed, selected, showProjectForm,
                   didCreateProject, creating, formBusy, minted, unloaded>>

TokenReplyNoErrorRedirect ==
    /\ ~unloaded
    /\ request # NoRequest /\ request.phase # "sent"
    /\ IF request.phase = "ok"
       THEN /\ Redirect([error |-> NoError, state |-> NoState,
                         accessToken |-> [team |-> request.team,
                                          project |-> request.project]])
       ELSE
            /\ UNCHANGED nav
    /\ isRedirecting' = TRUE
    /\ submitting' = FALSE
    /\ request' = NoRequest
    /\ UNCHANGED <<query, team, projects, listed, selected, showProjectForm,
                   didCreateProject, creating, formBusy, minted, unloaded>>

AuthorizeUnchecked ==
    /\ Interactive
    /\ ~submitting /\ selected # NoProject /\ ~isRedirecting
    /\ submitting' = TRUE
    /\ request' = [project |-> selected, team |-> team, phase |-> "sent"]
    /\ UNCHANGED <<query, team, projects, listed, selected, showProjectForm,
                   didCreateProject, creating, formBusy, minted, isRedirecting,
                   nav, unloaded>>

(* "Authorize": the button is disabled while submitting, without a        *)
(* selection or while redirecting, so onSubmit's isRedirecting check      *)
(* never returns.  `projects.find(p => p.id === selectedProjectId)!` may  *)
(* be undefined; then `project.id` throws inside the try and the catch    *)
(* redirects with server_error at once.                                   *)
Authorize ==
    /\ Interactive
    /\ ~submitting /\ selected # NoProject /\ ~isRedirecting
    /\ IF Listed # Unloaded /\ selected \in Listed
       THEN /\ submitting' = TRUE
            /\ request' = [project |-> selected, team |-> team, phase |-> "sent"]
            /\ UNCHANGED <<nav, isRedirecting>>
       ELSE /\ Redirect(ErrorParams("server_error"))
            /\ isRedirecting' = TRUE
            /\ UNCHANGED <<submitting, request>>
    /\ UNCHANGED <<query, team, projects, listed, selected, showProjectForm,
                   didCreateProject, creating, formBusy, minted, unloaded>>

(* The API server handles createTeamAccessToken: it mints a token for the *)
(* project and answers, or the answer is lost on the way back.            *)
ServerMint ==
    /\ Pending
    /\ minted' = minted \cup {[team |-> request.team, project |-> request.project]}
    /\ \E ph \in {"ok", "lost"} : request' = [request EXCEPT !.phase = ph]
    /\ UNCHANGED <<query, team, projects, listed, selected, showProjectForm,
                   didCreateProject, creating, formBusy, submitting,
                   isRedirecting, nav, unloaded>>

(* ... or refuses it. *)
ServerReject ==
    /\ Pending
    /\ request' = [request EXCEPT !.phase = "failed"]
    /\ UNCHANGED <<query, team, projects, listed, selected, showProjectForm,
                   didCreateProject, creating, formBusy, submitting, minted,
                   isRedirecting, nav, unloaded>>

(* The continuation after `await createTeamAccessToken(...)`: the token   *)
(* labelled with the team and project of the closure, or server_error.    *)
(* It does not look at isRedirecting again.                               *)
TokenReply ==
    /\ ~unloaded
    /\ request # NoRequest /\ request.phase # "sent"
    /\ IF request.phase = "ok"
       THEN /\ Redirect([error |-> NoError, state |-> NoState,
                         accessToken |-> [team |-> request.team,
                                          project |-> request.project]])
       ELSE /\ Redirect(ErrorParams("server_error"))
    /\ isRedirecting' = TRUE
    /\ submitting' = FALSE
    /\ request' = NoRequest
    /\ UNCHANGED <<query, team, projects, listed, selected, showProjectForm,
                   didCreateProject, creating, formBusy, minted, unloaded>>

(* "Cancel": disabled only while redirecting, not while submitting. *)
Cancel ==
    /\ Interactive
    /\ ~isRedirecting
    /\ Redirect(ErrorParams("access_denied"))
    /\ isRedirecting' = TRUE
    /\ UNCHANGED <<query, team, projects, listed, selected, showProjectForm,
                   didCreateProject, creating, formBusy, submitting, request,
                   minted, unloaded>>

(* The browser navigates to the first redirect and the page is gone. *)
Leave ==
    /\ nav # << >> /\ ~unloaded
    /\ unloaded' = TRUE
    /\ UNCHANGED <<query, team, projects, listed, selected, showProjectForm,
                   didCreateProject, creating, formBusy, submitting, request,
                   minted, isRedirecting, nav>>

(* The page has stopped: left, or showing "Invalid redirect_uri". *)
Stopped ==
    /\ \/ unloaded /\ ~Pending
       \/ validated.error # NoError /\ validated.redirectUri = NoUri
    /\ UNCHANGED vars

Next ==
    \/ RenderError \/ RefreshProjects
    \/ \E t \in Teams : SelectTeam(t)
    \/ \E p \in Projects : SelectProject(p)
    \/ OpenProjectForm \/ CloseProjectForm
    \/ \E id \in NewProjects : SubmitCreateProject(id)
    \/ \E c \in creating : CreateProjectDone(c) \/ CreateProjectFailed(c)
    \/ Authorize \/ ServerMint \/ ServerReject \/ TokenReply
    \/ Cancel \/ Leave \/ Stopped

(* The server answers every call, the page's continuations run, and a     *)
(* page that has redirected is left.  The user is not assumed to act.     *)
Fairness ==
    /\ WF_vars(ServerMint \/ ServerReject)
    /\ WF_vars(TokenReply)
    /\ WF_vars(RenderError)
    /\ WF_vars(Leave)

Spec == Init /\ [][Next]_vars /\ Fairness
-----------------------------------------------------------------------------
(* Redirect URLs handed to the app that carry a token, and those tokens. *)
TokenAnswers == {i \in DOMAIN nav : "access_token" \in FragmentKeys(nav[i])}
Delivered == {FragmentValue(nav[i], "access_token") : i \in TokenAnswers}
IsError(i, e) ==
    "error" \in FragmentKeys(nav[i]) /\ FragmentValue(nav[i], "error") = e

(***************************************************************************)
(* validateOAuthConfig, on every query the page can be opened with,       *)
(* returns the reference's error code, and the redirect URI it lets the   *)
(* page answer to (validatedConfig.redirectUri) is the reference target:  *)
(* never a URI outside the client's allow-list (no open redirect), and    *)
(* never missing when the request could be answered.                      *)
(***************************************************************************)
ValidateMatchesReference ==
    /\ validated.error = RefError(query)
    /\ validated.redirectUri = RefTarget(query)

(***************************************************************************)
(* No open redirect: every answer the page ever sends, on the error-render *)
(* path, after Cancel, after a failed or a successful token call, goes to *)
(* a redirect URI on the calling client's allow-list.                     *)
(***************************************************************************)
RedirectsOnlyToAllowList ==
    \A i \in DOMAIN nav :
        query.clientId \in Clients /\ nav[i].uri \in Allowed[query.clientId]

(***************************************************************************)
(* A token handed to the app was minted by the server and its label       *)
(* `project:<team>:<project>` names the team that owns the project, even  *)
(* when the user switched team while createTeamAccessToken was pending:  *)
(* the continuation must use the team of the click, not the current one.  *)
(***************************************************************************)
TokenLabelMatchesOwner ==
    \A tok \in Delivered : tok \in minted /\ tok.project \in projects[tok.team]

(***************************************************************************)
(* One page grants at most one token: the Authorize button is disabled    *)
(* while the formik submission is pending and once redirecting, even     *)
(* though the user may keep changing the selected project meanwhile.     *)
(***************************************************************************)
AtMostOneTokenMinted == Cardinality(minted) <= 1

(***************************************************************************)
(* Every Authorize that reached the server is answered: the app gets a    *)
(* redirect (token, server_error or an earlier Cancel) whatever the       *)
(* server does with the call, the reply lost included.                    *)
(***************************************************************************)
AuthorizeAnswered == (request # NoRequest) ~> (nav # << >>)

(***************************************************************************)
(* RFC 6749 4.2.2.1: access_denied means the user denied the request, so  *)
(* once the app has been told so, no token of this authorization exists. *)
(* Cancel stays enabled while createTeamAccessToken is pending and does   *)
(* not abort it: the server still mints the token, which the app then    *)
(* receives after the denial or, if the page is gone, nobody receives,   *)
(* while it stays listed among the project's authorized applications.    *)
(***************************************************************************)
DeniedGrantsNoToken ==
    (\E i \in DOMAIN nav : IsError(i, "access_denied")) => minted = {}


(***************************************************************************)
(* The page never asks to create a project past the team's plan: the     *)
(* "Create a new project" button is disabled once the cached list holds   *)
(* entitlements.maxProjects projects.  The reset button unmounts the form *)
(* while createProject is pending, the cached list only learns of the new *)
(* project at the next poll, and didCreateProject is only set when the    *)
(* first call resolves, so the form can be opened and submitted again.    *)
(***************************************************************************)
CreatesWithinLimit ==
    \A t \in Teams :
        Cardinality(projects[t]) + Cardinality({c \in creating : c.team = t})
            <= MaxProjects
-----------------------------------------------------------------------------
(***************************************************************************)
(* Refinement of OAuthGrant.  The app asking is the query's client id, a  *)
(* team owns what the API server says it owns, the grants are the tokens  *)
(* the server minted, and an answer is a redirect URL read back as its    *)
(* URI and the access_token of its fragment.                              *)
(***************************************************************************)
AnswerOf(url) ==
    [uri   |-> url.uri,
     token |-> IF "access_token" \in FragmentKeys(url)
               THEN FragmentValue(url, "access_token") ELSE NoToken]

Grant == INSTANCE OAuthGrant WITH
    client  <- query.clientId,
    owned   <- projects,
    granted <- minted,
    answers <- [i \in DOMAIN nav |-> AnswerOf(nav[i])]

(***************************************************************************)
(* The page implements OAuthGrant: every step of the page, the server and *)
(* the browser is a step of the abstract grant protocol or leaves its     *)
(* state alone.  A token is only ever minted for a project that its team  *)
(* owns at that moment, although the selection survives team switches and *)
(* created projects join the cached list late; and every redirect is an  *)
(* allowed answer to a known client.                                      *)
(***************************************************************************)
GrantRefinement == Grant!Spec
=============================================================================
