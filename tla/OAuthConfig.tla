----------------------------- MODULE OAuthConfig -----------------------------
(***************************************************************************)
(* The OAuth implicit-grant request checks of the dashboard's "authorize  *)
(* project" page: validateOAuthConfig and buildOAuthRedirectUrl of         *)
(* dashboard/src/components/AuthorizeProject.tsx, as pure operators.       *)
(*                                                                         *)
(* Strings of the query are abstracted to model values: a client id is    *)
(* one of Clients or UnknownClient, a redirect_uri one of Uris or NoUri   *)
(* (absent or empty, both falsy in the code), a state one of States, where *)
(* NoState is absent and "" the empty string.  A redirect URL is a record *)
(* of its base URI and its fragment as the list of key/value pairs that    *)
(* encodeURIComponent and join("&") put there, i.e. what a client parsing  *)
(* the fragment gets back.                                                 *)
(***************************************************************************)
EXTENDS Sequences

CONSTANTS
    Clients,        \* client ids present in oauthProviderConfiguration
    UnknownClient,  \* a client id that is not
    Uris,           \* redirect URIs
    NoUri,          \* redirect_uri absent (undefined) or ""
    Allowed,        \* Allowed[c]: allowedRedirects of client c
    ResponseTypes,  \* values of response_type, "token" among them
    States,         \* values of state: NoState, "" and some others
    NoState,        \* state absent
    NoToken         \* no access token to hand over

NoError == "none"

\* The query parameters of one authorization request (OAuthConfig).
OAuthConfigs ==
    [clientId: Clients \cup {UnknownClient}, redirectUri: Uris \cup {NoUri},
     state: States, responseType: ResponseTypes]

(***************************************************************************)
(* Two slips validateOAuthConfig could make, used as mutants to show the  *)
(* checks notice them: testing the response type before the allow-list,   *)
(* and forgetting the allow-list altogether.                              *)
(***************************************************************************)
validateOAuthConfigTypeFirst(config) ==
    LET known  == config.clientId \in Clients
        result(uri, err) ==
            [known |-> known, redirectUri |-> uri, state |-> config.state,
             responseType |-> config.responseType, error |-> err]
    IN  CASE ~known                     -> [result(NoUri, "invalid_request")
                                              EXCEPT !.state = NoState]
          [] config.redirectUri = NoUri -> result(NoUri, "invalid_request")
          [] config.responseType # "token"
                 -> result(config.redirectUri, "unsupported_response_type")
          [] config.redirectUri \notin Allowed[config.clientId]
                                        -> result(NoUri, "invalid_request")
          [] OTHER                      -> result(config.redirectUri, NoError)

validateOAuthConfigNoAllowList(config) ==
    LET known  == config.clientId \in Clients
        result(uri, err) ==
            [known |-> known, redirectUri |-> uri, state |-> config.state,
             responseType |-> config.responseType, error |-> err]
    IN  CASE ~known                     -> [result(NoUri, "invalid_request")
                                              EXCEPT !.state = NoState]
          [] config.redirectUri = NoUri -> result(NoUri, "invalid_request")
          [] config.responseType # "token"
                 -> result(config.redirectUri, "unsupported_response_type")
          [] OTHER                      -> result(config.redirectUri, NoError)

(***************************************************************************)
(* validateOAuthConfig: the calling application, the validated config and *)
(* the error.  A validated config whose redirectUri is NoUri stands both   *)
(* for an undefined validatedConfig (unknown client) and for one the code  *)
(* builds without the redirectUri.                                         *)
(***************************************************************************)
validateOAuthConfig(config) ==
    LET known  == config.clientId \in Clients
        result(uri, err) ==
            [known |-> known, redirectUri |-> uri, state |-> config.state,
             responseType |-> config.responseType, error |-> err]
    IN  CASE ~known                     -> [result(NoUri, "invalid_request")
                                              EXCEPT !.state = NoState]
          [] config.redirectUri = NoUri -> result(NoUri, "invalid_request")
          [] config.redirectUri \notin Allowed[config.clientId]
                                        -> result(NoUri, "invalid_request")
          [] config.responseType # "token"
                 -> result(config.redirectUri, "unsupported_response_type")
          [] OTHER                      -> result(config.redirectUri, NoError)

\* The truthiness test `if (params.state)`: absent and "" are both falsy.
Truthy(s) == s \notin {NoState, ""}

(***************************************************************************)
(* buildOAuthRedirectUrl for a defined redirectUri (the code throws on a  *)
(* missing one; no caller reaches that, see AuthorizeProject).  params is *)
(* a record [error, accessToken, state]; the error wins over the token.   *)
(***************************************************************************)
buildOAuthRedirectUrl(redirectUri, params) ==
    LET answer ==
            IF params.error # NoError
            THEN << <<"error", params.error>> >>
            ELSE IF params.accessToken # NoToken
                 THEN << <<"access_token", params.accessToken>>,
                         <<"token_type", "bearer">> >>
                 ELSE << >>
        st == IF Truthy(params.state) THEN << <<"state", params.state>> >>
                                      ELSE << >>
    IN  [uri |-> redirectUri, fragment |-> answer \o st]

\* The keys of a redirect URL's fragment, and the value of one of them.
FragmentKeys(url) == {url.fragment[i][1] : i \in DOMAIN url.fragment}
FragmentValue(url, k) ==
    url.fragment[CHOOSE i \in DOMAIN url.fragment : url.fragment[i][1] = k][2]

(***************************************************************************)
(* Reference: the validation the design describes.  An unknown client id, *)
(* an absent redirect URI or one outside the client's allow-list fail     *)
(* with invalid_request, a response type other than "token" with          *)
(* unsupported_response_type; otherwise the request succeeds.  An answer  *)
(* may only ever be sent to a redirect URI on the client's allow-list.    *)
(***************************************************************************)
RefError(c) ==
    CASE c.clientId \notin Clients                    -> "invalid_request"
      [] c.redirectUri \notin Allowed[c.clientId]     -> "invalid_request"
      [] c.responseType # "token"                     -> "unsupported_response_type"
      [] OTHER                                        -> NoError
RefTarget(c) ==
    IF c.clientId \in Clients /\ c.redirectUri \in Allowed[c.clientId]
    THEN c.redirectUri ELSE NoUri

=============================================================================
