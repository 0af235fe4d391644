----------------------- MODULE MCAuthorizedApplications -----------------------
(* Three tokens, so that a token can leave the list from in front of an   *)
(* open dialog and the dialog still has a token to show.                  *)
EXTENDS AuthorizedApplications

CONSTANTS t1, t2, t3

MCAllTokens == <<t1, t2, t3>>
=============================================================================
