------------------------- MODULE AuthorizedApplications -------------------------
(***************************************************************************)
(* The project settings' "Authorized Applications" list (dashboard/src/    *)
(* components/projectSettings/AuthorizedApplications.tsx): the app access *)
(* tokens of a project, each row with a Revoke button, a confirmation     *)
(* dialog and an awaited deleteAppAccessTokenByName call.                  *)
(*                                                                         *)
(* The rows are rendered with key={idx}: React keeps a row's state        *)
(* (showConfirmation, isDeleting) with its position in the list, not with *)
(* the token it shows, and a row whose position disappears is unmounted.  *)
(* The list is the useProjectAppAccessTokens cache, revalidated by the    *)
(* data fetching library at times of its choosing.  The token API, and   *)
(* other tabs or team members revoking tokens, are the environment.       *)
(* ConfirmationDialog (dashboard-common) awaits onConfirm with its       *)
(* confirm button disabled, closes on success and stays open, showing the *)
(* error, when the promise rejects.                                        *)
(***************************************************************************)
EXTENDS Naturals, Sequences, SequencesExt

CONSTANTS
    AllTokens,   \* the project's tokens (by name) in the API's list order
    Unloaded,    \* projectAccessTokens === undefined
    NoToken,     \* a closed dialog has no token
    MaxCalls     \* bound on deleteAppAccessTokenByName calls

Rows == 1..Len(AllTokens)

VARIABLES
    server,       \* the names of the tokens the API still has
    list,         \* projectAccessTokens: a sequence of names, or Unloaded
    confirm,      \* confirm[i]: showConfirmation of the row at index i
    deleting,     \* deleting[i]: isDeleting of the row at index i
    openedFor,    \* openedFor[i]: the token row i showed when Revoke was clicked
    calls         \* deleteAppAccessTokenByName calls in order: [row, name, intended, phase]

vars == <<server, list, confirm, deleting, openedFor, calls>>

\* The API's list of the project's tokens.
ServerList == SelectSeq(AllTokens, LAMBDA n : n \in server)

\* The rows mounted by the render: one per entry of the list.
Mounted == IF list = Unloaded THEN {} ELSE 1..Len(list)

\* A call of row i whose promise has not settled: the dialog is submitting.
Busy(i) == \E k \in DOMAIN calls :
               calls[k].row = i /\ calls[k].phase \in {"sent", "ok", "failed"}

Init ==
    /\ server = Range(AllTokens)
    /\ list = Unloaded
    /\ confirm = [i \in Rows |-> FALSE]
    /\ deleting = [i \in Rows |-> FALSE]
    /\ openedFor = [i \in Rows |-> NoToken]
    /\ calls = << >>

(* The list is (re)fetched.  Rows past its new length unmount: their     *)
(* state is gone and a pending call's continuation sets the state of an  *)
(* unmounted component (row 0); the other rows keep their state.          *)
Refresh ==
    /\ list # ServerList
    /\ list' = ServerList
    /\ LET keep(i) == i <= Len(ServerList) IN
       /\ confirm' = [i \in Rows |-> keep(i) /\ confirm[i]]
       /\ deleting' = [i \in Rows |-> keep(i) /\ deleting[i]]
       /\ openedFor' = [i \in Rows |-> IF keep(i) THEN openedFor[i] ELSE NoToken]
       /\ calls' = [k \in DOMAIN calls |->
                        [calls[k] EXCEPT !.row = IF keep(@) THEN @ ELSE 0]]
    /\ UNCHANGED server

(* "Revoke" of row i: disabled while isDeleting; opens the dialog. *)
ClickRevoke(i) ==
    /\ i \in Mounted
    /\ ~deleting[i] /\ ~confirm[i]
    /\ confirm' = [confirm EXCEPT ![i] = TRUE]
    /\ openedFor' = [openedFor EXCEPT ![i] = list[i]]
    /\ UNCHANGED <<server, list, deleting, calls>>

(* The dialog's cancel: onClose, while it is not submitting. *)
CloseDialog(i) ==
    /\ i \in Mounted
    /\ confirm[i] /\ ~Busy(i)
    /\ confirm' = [confirm EXCEPT ![i] = FALSE]
    /\ openedFor' = [openedFor EXCEPT ![i] = NoToken]
    /\ UNCHANGED <<server, list, deleting, calls>>

(* The dialog's confirm: onConfirm of the current render sets isDeleting  *)
(* and calls deleteAppAccessTokenByName({name: token.name}) for the token *)
(* the row shows now.                                                      *)
Confirm(i) ==
    /\ i \in Mounted
    /\ confirm[i] /\ ~Busy(i)
    /\ Len(calls) < MaxCalls
    /\ deleting' = [deleting EXCEPT ![i] = TRUE]
    /\ calls' = Append(calls, [row |-> i, name |-> list[i],
                               intended |-> openedFor[i], phase |-> "sent"])
    /\ UNCHANGED <<server, list, confirm, openedFor>>

(* The API deletes the token, or fails (it is already gone, or an error). *)
ServerDelete(k) ==
    /\ k \in DOMAIN calls /\ calls[k].phase = "sent"
    /\ \/ calls[k].name \in server /\ server' = server \ {calls[k].name}
          /\ calls' = [calls EXCEPT ![k].phase = "ok"]
       \/ server' = server
          /\ calls' = [calls EXCEPT ![k].phase = "failed"]
    /\ UNCHANGED <<list, confirm, deleting, openedFor>>

(* A variant without the finally: a rejected call leaves isDeleting set. *)
SettleNoFinally(k) ==
    /\ k \in DOMAIN calls /\ calls[k].phase \in {"ok", "failed"}
    /\ calls' = [calls EXCEPT ![k].phase = "done"]
    /\ LET c == calls[k] IN
       /\ IF c.row = 0 THEN UNCHANGED <<confirm, deleting, openedFor>>
          ELSE /\ deleting' = IF c.phase = "ok"
                              THEN [deleting EXCEPT ![c.row] = FALSE] ELSE deleting
               /\ IF c.phase = "ok"
                  THEN /\ confirm' = [confirm EXCEPT ![c.row] = FALSE]
                       /\ openedFor' = [openedFor EXCEPT ![c.row] = NoToken]
                  ELSE UNCHANGED <<confirm, openedFor>>
    /\ UNCHANGED <<server, list>>

(* The promise settles: finally clears isDeleting of the row (a no-op on *)
(* an unmounted one); the dialog closes on success and stays on error.    *)
Settle(k) ==
    /\ k \in DOMAIN calls /\ calls[k].phase \in {"ok", "failed"}
    /\ calls' = [calls EXCEPT ![k].phase = "done"]
    /\ LET c == calls[k] IN
       /\ IF c.row = 0 THEN UNCHANGED <<confirm, deleting, openedFor>>
          ELSE /\ deleting' = [deleting EXCEPT ![c.row] = FALSE]
               /\ IF c.phase = "ok"
                  THEN /\ confirm' = [confirm EXCEPT ![c.row] = FALSE]
                       /\ openedFor' = [openedFor EXCEPT ![c.row] = NoToken]
                  ELSE UNCHANGED <<confirm, openedFor>>
    /\ UNCHANGED <<server, list>>

(* A token is revoked elsewhere: another tab or the third-party app. *)
RevokeElsewhere(n) ==
    /\ n \in server
    /\ server' = server \ {n}
    /\ UNCHANGED <<list, confirm, deleting, openedFor, calls>>

Next ==
    \/ Refresh
    \/ \E i \in Rows : ClickRevoke(i) \/ CloseDialog(i) \/ Confirm(i)
    \/ \E k \in DOMAIN calls : ServerDelete(k) \/ Settle(k)
    \/ \E n \in Range(AllTokens) : RevokeElsewhere(n)

(* The API answers every call and each promise settles; the user is not   *)
(* assumed to act, nor the cache of useProjectAppAccessTokens to refresh.  *)
Spec ==
    /\ Init /\ [][Next]_vars
    /\ \A k \in 1..MaxCalls : WF_vars(ServerDelete(k)) /\ WF_vars(Settle(k))
-----------------------------------------------------------------------------
(* A row's spinner goes away: every isDeleting set by a confirm is         *)
(* cleared, whether deleteAppAccessTokenByName resolves or rejects, and    *)
(* whichever token the row shows by then.                                  *)
RevokeSettles == \A i \in Rows : deleting[i] ~> ~deleting[i]

(* Confirming a dialog revokes the token for which the user opened it:    *)
(* rows are keyed by index, so when its token or an earlier one leaves  *)
(* the list, the open dialog and its onConfirm move on to the next token. *)
RevokesTokenOpened == \A k \in DOMAIN calls : calls[k].name = calls[k].intended
=============================================================================
