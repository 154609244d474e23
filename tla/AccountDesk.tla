----------------------------- MODULE AccountDesk ----------------------------
(***************************************************************************)
(* The top bar of the shell (AppTopBar.tsx): the account panel, which      *)
(* renames the user, changes the password, enrols an authenticator and     *)
(* signs out everywhere, and the workspace menu.  Each section has a busy  *)
(* flag of its own, so sections overlap; a request may be lost before or   *)
(* after the server did its work (api/auth.py).                            *)
(*                                                                         *)
(* A code is the secret it was computed from, NoSecret when it is wrong;   *)
(* secrets are numbered in the order the server makes them.                *)
(***************************************************************************)
EXTENDS Naturals

CONSTANTS Name, NoName, FirstName,
          Workspace, NoWorkspace, Created,   \* Created: the one a user may add
          MaxSecret,    \* bound: set-ups
          MaxAccountActs       \* bound: user commands

ASSUME AccountAssumption ==
    /\ FirstName \in Name /\ NoName \notin Name
    /\ Created \in Workspace /\ NoWorkspace \notin Workspace
    /\ MaxSecret \in Nat \ {0} /\ MaxAccountActs \in Nat

NoSecret == 0

VARIABLES
    account, valid, owned,         \* server: user row, is the token's session version current, companies
    user, signed,                 \* AuthContext: profile shown, an access token is held
    workspaces, activeWs, saved,     \* AuthContext; saved: activeCompanyId in localStorage
    panel,                        \* the account panel's fields
    menu,                         \* the workspace menu: closed, open, adding
    busySections, failed,                 \* sections with their busy flag up, with an error shown
    accountReqs, accountActs

account_ == <<account, valid, owned>>
authState     == <<user, signed, workspaces, activeWs, saved>>
accountVars     == <<account_, authState, panel, menu, busySections, failed, accountReqs, accountActs>>

Profile == [name |-> account.name, on |-> account.on]     \* _user_response
NoUser  == [name |-> NoName, on |-> FALSE]
Fields(n, o) == [open |-> o, name |-> n, secret |-> NoSecret, pw |-> "empty"]

AccountInit ==
    /\ account = [name |-> FirstName, on |-> FALSE, secret |-> NoSecret, made |-> 0]
    /\ valid = TRUE /\ owned = Workspace \ {Created}
    /\ user = Profile /\ signed = TRUE
    /\ workspaces = owned /\ activeWs \in owned /\ saved = activeWs
    /\ panel = Fields(NoName, FALSE) /\ menu = "closed"
    /\ busySections = {} /\ failed = {} /\ accountReqs = {} /\ accountActs = 0

AccountAct == signed /\ accountActs < MaxAccountActs /\ accountActs' = accountActs + 1

(* --------------------------------- the panel -------------------------------- *)
\* openAccount: opening drops what an earlier opening typed, was shown or was told
OpenAccount ==
    /\ AccountAct /\ ~ panel.open
    /\ panel' = Fields(user.name, TRUE) /\ failed' = failed \cap {"workspace"} /\ menu' = "closed"
    /\ UNCHANGED <<account_, authState, busySections, accountReqs>>

CloseAccount ==
    /\ AccountAct /\ panel.open /\ panel' = [panel EXCEPT !.open = FALSE]
    /\ UNCHANGED <<account_, authState, menu, busySections, failed, accountReqs>>

TypeName ==
    /\ AccountAct /\ panel.open /\ "name" \notin busySections
    /\ \E n \in Name : panel' = [panel EXCEPT !.name = n]
    /\ UNCHANGED <<account_, authState, menu, busySections, failed, accountReqs>>

\* the three password inputs: wrong current one, new one short or not repeated, or right
TypePassword ==
    /\ AccountAct /\ panel.open /\ "pw" \notin busySections
    /\ \E p \in {"wrong", "short", "right"} : panel' = [panel EXCEPT !.pw = p]
    /\ UNCHANGED <<account_, authState, menu, busySections, failed, accountReqs>>

(* ---------------------------- what is sent to auth.py ------------------------ *)
Blank(h) == [h |-> h, sec |-> "mfa", st |-> "sent", name |-> NoName, code |-> NoSecret,
             snap |-> NoUser, pw |-> "empty"]
Free(s)    == s \notin busySections                    \* if (... || xBusy) return
FreeAny(s) == TRUE                             \* (bug) the button is not disabled meanwhile
MfaFree    == Free("mfa")
MfaFreeAny == FreeAny("mfa")                   \* (bug)
MfaIdle    == MfaFree

StartRequest(s, r) == /\ busySections' = busySections \cup {s} /\ failed' = failed \ {s}
               /\ accountReqs' = accountReqs \cup {[r EXCEPT !.sec = s]}
               /\ UNCHANGED <<account_, authState>>

SaveDisplayName ==
    /\ AccountAct /\ panel.open /\ Free("name") /\ panel.name \notin {NoName, user.name}
    /\ StartRequest("name", [Blank("name") EXCEPT !.name = panel.name]) /\ UNCHANGED <<panel, menu>>

\* the checks of changePassword that need no server
PasswordRefused ==
    /\ AccountAct /\ panel.open /\ Free("pw") /\ panel.pw = "short" /\ failed' = failed \cup {"pw"}
    /\ UNCHANGED <<account_, authState, panel, menu, busySections, accountReqs>>

ChangePassword ==
    /\ AccountAct /\ panel.open /\ Free("pw") /\ panel.pw \in {"wrong", "right"}
    /\ StartRequest("pw", [Blank("pw") EXCEPT !.pw = panel.pw]) /\ UNCHANGED <<panel, menu>>

StartMfaSetup ==
    /\ AccountAct /\ panel.open /\ ~ user.on /\ MfaIdle
    /\ StartRequest("mfa", Blank("setup")) /\ UNCHANGED <<panel, menu>>

\* the code is read off the authenticator the shown secret was entered in
EnableMfa ==
    /\ AccountAct /\ panel.open /\ ~ user.on /\ panel.secret # NoSecret /\ MfaIdle
    /\ \E c \in {panel.secret, NoSecret} : StartRequest("mfa", [Blank("enable") EXCEPT !.code = c])
    /\ UNCHANGED <<panel, menu>>

DisableMfa ==
    /\ AccountAct /\ panel.open /\ user.on /\ MfaIdle
    /\ \E c \in {account.secret, NoSecret} : StartRequest("mfa", [Blank("disable") EXCEPT !.code = c])
    /\ UNCHANGED <<panel, menu>>

RevokeAllSessions ==
    /\ AccountAct /\ panel.open /\ Free("session")
    /\ StartRequest("session", Blank("session")) /\ UNCHANGED <<panel, menu>>

(* -------------------------------- the server -------------------------------- *)
ServedAs(r, h) == r.st = "sent" /\ r.h = h /\ valid
Answer(r, a) == accountReqs' = (accountReqs \ {r}) \cup {a}
Ok(r)     == Answer(r, [r EXCEPT !.st = "ok"])
Refuse(r) == Answer(r, [r EXCEPT !.st = "bad"])
ServerStep == UNCHANGED <<authState, panel, menu, busySections, failed, accountActs>>

\* mfa_setup: a new secret replaces the one of an enrolment not completed
MfaSetup(r) ==
    /\ ServedAs(r, "setup") /\ ServerStep /\ UNCHANGED <<valid, owned>>
    /\ \/ /\ ~ account.on /\ account.made < MaxSecret
          /\ account' = [account EXCEPT !.secret = account.made + 1, !.made = account.made + 1]
          /\ Answer(r, [r EXCEPT !.st = "ok", !.code = account.made + 1])
       \/ account.on /\ Refuse(r) /\ UNCHANGED account

\* mfa_enable
MfaEnable(r) ==
    /\ ServedAs(r, "enable") /\ ServerStep /\ UNCHANGED <<valid, owned>>
    /\ LET right == r.code = account.secret /\ account.secret # NoSecret IN
       /\ account' = IF right THEN [account EXCEPT !.on = TRUE] ELSE account
       /\ IF right THEN Answer(r, [r EXCEPT !.h = "me"]) ELSE Refuse(r)

\* mfa_disable
MfaDisable(r) ==
    /\ ServedAs(r, "disable") /\ ServerStep /\ UNCHANGED <<valid, owned>>
    /\ LET right == account.on => r.code = account.secret IN
       /\ account' = IF right THEN [account EXCEPT !.on = FALSE, !.secret = NoSecret] ELSE account
       /\ IF right THEN Answer(r, [r EXCEPT !.h = "me"]) ELSE Refuse(r)

\* get_me, asked for once enable or disable were answered
GetMe(r) ==
    /\ ServedAs(r, "me") /\ ServerStep /\ UNCHANGED account_
    /\ Answer(r, [r EXCEPT !.st = "ok", !.snap = Profile])

UpdateProfile(r) ==
    /\ ServedAs(r, "name") /\ ServerStep /\ UNCHANGED <<valid, owned>>
    /\ account' = [account EXCEPT !.name = r.name]
    /\ Answer(r, [r EXCEPT !.st = "ok", !.snap = [Profile EXCEPT !.name = r.name]])

\* change_password and revoke_sessions bump the session version: no older token is accepted
PasswordServed(r) ==
    /\ ServedAs(r, "pw") /\ ServerStep /\ UNCHANGED <<account, owned>>
    /\ valid' = (r.pw # "right") /\ (IF r.pw = "right" THEN Ok(r) ELSE Refuse(r))

SessionsRevoked(r) ==
    /\ ServedAs(r, "session") /\ ServerStep /\ UNCHANGED <<account, owned>>
    /\ valid' = FALSE /\ Ok(r)

\* 401
TokenRefused(r) ==
    /\ r.st = "sent" /\ ~ valid /\ Refuse(r) /\ ServerStep /\ UNCHANGED account_

(* -------------------------------- the answers ------------------------------- *)
Done(r) == busySections' = busySections \ {r.sec} /\ accountReqs' = accountReqs \ {r} /\ UNCHANGED <<account_, accountActs>>

Panel(f) == panel' = IF signed THEN f ELSE panel      \* gone with the shell after sign-out

\* catch: a refusal, or an answer that never came although the server may have done its work
Failed(r) ==
    /\ \/ r.st = "bad"
       \/ r.st \in {"sent", "ok"}
    /\ Done(r) /\ failed' = failed \cup {r.sec} /\ UNCHANGED <<authState, panel, menu>>

SetupShown(r) ==
    /\ r.h = "setup" /\ r.st = "ok" /\ Done(r)
    /\ Panel([panel EXCEPT !.secret = r.code]) /\ UNCHANGED <<authState, menu, failed>>

\* applyUser, for whoever is signed in by now
Applied(r) == user' = r.snap /\ UNCHANGED <<signed, workspaces, activeWs, saved>>

MfaChanged(r) ==
    /\ r.h = "me" /\ r.st = "ok" /\ Done(r) /\ Applied(r)
    /\ Panel([panel EXCEPT !.secret = IF r.snap.on THEN NoSecret ELSE panel.secret])
    /\ UNCHANGED <<menu, failed>>

NameSaved(r) ==
    /\ r.h = "name" /\ r.st = "ok" /\ Done(r) /\ Applied(r)
    /\ Panel([panel EXCEPT !.name = r.snap.name]) /\ UNCHANGED <<menu, failed>>

\* logout, after the password was changed or the sessions revoked
SignedOut(r) ==
    /\ r.h \in {"pw", "session"} /\ r.st = "ok" /\ Done(r)
    /\ user' = NoUser /\ signed' = FALSE /\ workspaces' = {} /\ activeWs' = NoWorkspace /\ saved' = NoWorkspace
    /\ panel' = Fields(NoName, FALSE) /\ menu' = "closed" /\ UNCHANGED failed

(* ----------------------------- the workspace menu --------------------------- *)
ToggleMenu ==
    /\ AccountAct /\ menu' = (IF menu = "closed" THEN "open" ELSE "closed")
    /\ panel' = [panel EXCEPT !.open = FALSE]
    /\ UNCHANGED <<account_, authState, busySections, failed, accountReqs>>

PickCompany ==
    /\ AccountAct /\ menu # "closed" /\ menu' = "closed"
    /\ \E c \in workspaces : activeWs' = c /\ saved' = c
    /\ failed' = failed \ {"workspace"}
    /\ UNCHANGED <<account_, user, signed, workspaces, panel, busySections, accountReqs>>

StartAdding ==
    /\ AccountAct /\ menu = "open" /\ menu' = "adding" /\ failed' = failed \ {"workspace"}
    /\ UNCHANGED <<account_, authState, panel, busySections, accountReqs>>

\* a click outside, or Escape in the input
LeaveMenu ==
    /\ AccountAct /\ menu # "closed" /\ menu' = "closed" /\ failed' = failed \ {"workspace"}
    /\ UNCHANGED <<account_, authState, panel, busySections, accountReqs>>

AddWorkspace ==
    /\ AccountAct /\ menu = "adding" /\ Free("workspace") /\ Created \notin owned
    /\ StartRequest("workspace", Blank("create")) /\ UNCHANGED <<panel, menu>>

WorkspaceCreated(r) ==
    /\ ServedAs(r, "create") /\ ServerStep /\ UNCHANGED <<account, valid>>
    /\ owned' = owned \cup {Created} /\ Ok(r)

\* the new id is stored at once, then the list is fetched again
CompanyAnswered(r) ==
    /\ r.h = "create" /\ r.st = "ok" /\ saved' = Created
    /\ Answer(r, [r EXCEPT !.h = "list", !.st = "sent"])
    /\ UNCHANGED <<account_, user, signed, workspaces, activeWs, panel, menu, busySections, failed,
                   accountActs>>

\* refreshCompanies: what fetchCompanies makes of an error is the empty list, which
\* resolves to nothing; switchCompany looks in the list of the click and finds nothing
CompaniesListed(r) ==
    /\ r.h = "list" /\ r.st = "sent" /\ Done(r) /\ menu' = "closed"
    /\ \E list \in {owned, {}} :
         /\ list = owned => valid
         /\ workspaces' = list
         /\ activeWs' = IF saved \in list THEN saved ELSE activeWs
    /\ UNCHANGED <<user, signed, saved, panel, failed>>

(* -------------------------------- the machine ------------------------------- *)
Heard(r) == Failed(r) \/ SetupShown(r) \/ MfaChanged(r) \/ NameSaved(r) \/ SignedOut(r)
            \/ CompanyAnswered(r) \/ CompaniesListed(r)
ServedBy(r) == MfaSetup(r) \/ MfaEnable(r) \/ MfaDisable(r) \/ GetMe(r) \/ UpdateProfile(r)
               \/ PasswordServed(r) \/ SessionsRevoked(r) \/ TokenRefused(r) \/ WorkspaceCreated(r)

AccountNext ==
    \/ OpenAccount \/ CloseAccount \/ TypeName \/ TypePassword
    \/ SaveDisplayName \/ PasswordRefused \/ ChangePassword
    \/ StartMfaSetup \/ EnableMfa \/ DisableMfa \/ RevokeAllSessions
    \/ ToggleMenu \/ PickCompany \/ StartAdding \/ LeaveMenu \/ AddWorkspace
    \/ \E r \in accountReqs : ServedBy(r) \/ Heard(r)

AccountSpec == AccountInit /\ [][AccountNext]_accountVars

(* --------------------------------- properties ------------------------------- *)
\* While the server waits for the first code of an enrolment, the secret on the screen is
\* the one it will check that code against, unless the section is busy or shows an error:
\* AppTopBar.tsx may ask for secrets over several openings and lose answers.  (A secret of
\* an enrolment that was completed and undone again may stay on the screen.)
SecretIsPending ==
    LET pending == ~ account.on /\ account.secret # NoSecret
        shown   == panel.secret # NoSecret /\ "mfa" \notin failed \cup busySections
    IN  (pending /\ shown /\ signed) => panel.secret = account.secret
=============================================================================
