-------------------------- MODULE Workspace_proofs ---------------------------
(***************************************************************************)
(* Theorems about the workspace beside the books: the account panel        *)
(* (AccountDesk), the rules the assistant follows (KnowledgeDesk), the notes *)
(* of background jobs (TaskJobs), the task list (TaskList) and the options of *)
(* the composer (TaskComposer), for every value of their constants.        *)
(***************************************************************************)
EXTENDS AccountDesk, KnowledgeDesk, TaskJobs, TaskList, TaskComposer, TLAPS

-----------------------------------------------------------------------------
(* The shape of the top bar's state.  Requests of the authenticator's      *)
(* section are those that set up, enable or disable it, and the question   *)
(* for the profile that follows an answer.                                 *)

MfaHandler  == {"setup", "enable", "disable", "me"}
ProfileType == [name : Name \cup {NoName}, on : BOOLEAN]
AccountRow  == [name : Name \cup {NoName}, on : BOOLEAN, secret : Nat, made : Nat]
PanelType   == [open : BOOLEAN, name : Name \cup {NoName}, secret : Nat,
                pw : {"empty", "wrong", "short", "right"}]
AccountReq  == [h : MfaHandler \cup {"name", "pw", "session", "create", "list"},
                sec : {"name", "pw", "mfa", "session", "workspace"}, st : {"sent", "ok", "bad"},
                name : Name \cup {NoName}, code : Nat, snap : ProfileType,
                pw : {"empty", "wrong", "short", "right"}]

AccountTyped ==
  /\ account \in AccountRow /\ user \in ProfileType /\ panel \in PanelType
  /\ accountReqs \subseteq AccountReq

(* One request of the section is under way while its flag is up; an answer *)
(* to a set-up carries the secret the server has, and after an enabling or *)
(* a disabling no enrolment waits for its code.                            *)
Pending == ~ account.on /\ account.secret # NoSecret
MfaReq(r) == r.sec = "mfa"
MfaOk(r) ==
  /\ r.h \in MfaHandler <=> MfaReq(r)
  /\ MfaReq(r) => "mfa" \in busySections /\ \A q \in accountReqs : MfaReq(q) => q = r
  /\ r.h = "setup" /\ r.st = "ok" => r.code = account.secret
  /\ r.h = "me" => ~ Pending

AccountInv == AccountTyped /\ (\A r \in accountReqs : MfaOk(r)) /\ SecretIsPending

USE DEF NoSecret, MfaHandler

LEMMA AccountInitInv == AccountInit => AccountInv
BY AccountAssumption DEF AccountAssumption, AccountInit, AccountInv, AccountTyped, AccountRow,
   ProfileType, PanelType, Profile,
   Fields, SecretIsPending

(* A new request, of another section or of this one while it rests.        *)
LEMMA StartInv ==
  ASSUME AccountInv, NEW s \in {"name", "pw", "mfa", "session", "workspace"}, NEW r \in AccountReq,
         r.st = "sent", r.h # "me", r.h \in MfaHandler <=> s = "mfa",
         s = "mfa" => "mfa" \notin busySections,
         StartRequest(s, r), UNCHANGED <<panel, menu>>
  PROVE  AccountInv'
<1> DEFINE n == [r EXCEPT !.sec = s]
<1>1. /\ n \in AccountReq /\ n.sec = s /\ n.h = r.h /\ n.st = r.st
      /\ accountReqs' = accountReqs \cup {n} /\ busySections' = busySections \cup {s} /\ failed' = failed \ {s}
      /\ UNCHANGED <<account, user, signed, panel>>
  BY DEF StartRequest, AccountReq, account_, authState
<1> HIDE DEF n
<1>2. AccountTyped'
  BY <1>1 DEF AccountInv, AccountTyped
<1>3. \A q \in accountReqs : s = "mfa" => ~ MfaReq(q)
  BY DEF AccountInv, MfaOk
<1>4. ASSUME NEW q \in accountReqs' PROVE MfaOk(q)'
  BY <1>1, <1>3 DEF AccountInv, MfaOk, MfaReq, Pending
<1>5. SecretIsPending'
  BY <1>1 DEF AccountInv, SecretIsPending
<1>6. QED
  BY <1>2, <1>4, <1>5 DEF AccountInv

(* The server's steps: a request gives way to one that waits or answers.   *)
LEMMA AnswerInv ==
  ASSUME AccountInv, NEW r \in accountReqs, NEW a \in AccountReq, Answer(r, a), a.sec = r.sec,
         a.h \in MfaHandler <=> r.h \in MfaHandler,
         UNCHANGED <<user, signed, panel, busySections, failed>>, account' \in AccountRow,
         (account.on' = account.on /\ account.secret' = account.secret) \/ MfaReq(r),
         a.h = "setup" /\ a.st = "ok" => a.code = account'.secret,
         a.h = "me" => ~ Pending'
  PROVE  AccountInv'
<1>1. accountReqs' = (accountReqs \ {r}) \cup {a}
  BY DEF Answer
<1>2. AccountTyped'
  BY <1>1 DEF AccountInv, AccountTyped
<1>3. ASSUME NEW q \in accountReqs' PROVE MfaOk(q)'
  BY <1>1 DEF AccountInv, MfaOk, MfaReq, Pending
<1>4. SecretIsPending'
  BY <1>1 DEF AccountInv, SecretIsPending, MfaOk, MfaReq
<1>5. QED
  BY <1>2, <1>3, <1>4 DEF AccountInv

(* The client hears of a request for the last time.                        *)
LEMMA DoneInv ==
  ASSUME AccountInv, NEW r \in accountReqs, Done(r), user' \in ProfileType, panel' \in PanelType,
         SecretIsPending'
  PROVE  AccountInv'
<1>1. /\ accountReqs' = accountReqs \ {r} /\ busySections' = busySections \ {r.sec}
      /\ account' = account
  BY DEF Done, account_
<1>2. AccountTyped'
  BY <1>1 DEF AccountInv, AccountTyped
<1>3. ASSUME NEW q \in accountReqs' PROVE MfaOk(q)'
  BY <1>1 DEF AccountInv, AccountTyped, MfaOk, MfaReq, Pending, AccountReq
<1>4. QED
  BY <1>2, <1>3 DEF AccountInv

(* What the panel and the menu do without the server.                      *)
LEMMA QuietInv ==
  ASSUME AccountInv, UNCHANGED <<account_, accountReqs, busySections>>, user' \in ProfileType,
         panel' \in PanelType, SecretIsPending'
  PROVE  AccountInv'
BY DEF AccountInv, AccountTyped, MfaOk, MfaReq, Pending, account_

LEMMA PanelInv ==
  ASSUME AccountInv, OpenAccount \/ CloseAccount \/ TypeName \/ TypePassword \/ PasswordRefused
  PROVE  AccountInv'
<1>1. UNCHANGED <<account_, authState, accountReqs, busySections>>
  BY DEF OpenAccount, CloseAccount, TypeName, TypePassword, PasswordRefused
<1>2. user' = user /\ account' = account /\ signed' = signed /\ user' \in ProfileType
  BY <1>1 DEF authState, account_, AccountInv, AccountTyped
<1>3. CASE OpenAccount
  <2>1. panel' = Fields(user.name, TRUE)
    BY <1>3 DEF OpenAccount
  <2>2. panel' \in PanelType /\ panel'.secret = NoSecret
    BY <1>2, <2>1 DEF Fields, PanelType, ProfileType
  <2>3. SecretIsPending'
    BY <2>2 DEF SecretIsPending
  <2>4. QED
    BY <1>1, <1>2, <2>2, <2>3, QuietInv
<1>4. CASE CloseAccount \/ TypeName \/ TypePassword \/ PasswordRefused
  <2>1. panel' \in PanelType /\ panel'.secret = panel.secret
    BY <1>4 DEF CloseAccount, TypeName, TypePassword, PasswordRefused, AccountInv, AccountTyped, PanelType
  <2>2. "mfa" \in failed => "mfa" \in failed'
    BY <1>4 DEF CloseAccount, TypeName, TypePassword, PasswordRefused
  <2>3. SecretIsPending'
    BY <1>1, <1>2, <2>1, <2>2 DEF SecretIsPending, AccountInv
  <2>4. QED
    BY <1>1, <1>2, <2>1, <2>3, QuietInv
<1>5. QED
  BY <1>3, <1>4

LEMMA MenuInv ==
  ASSUME AccountInv, ToggleMenu \/ PickCompany \/ StartAdding \/ LeaveMenu
  PROVE  AccountInv'
<1>1. UNCHANGED <<account_, accountReqs, busySections, user, signed>>
  BY DEF ToggleMenu, PickCompany, StartAdding, LeaveMenu, authState
<1>2. user' \in ProfileType /\ account' = account
  BY <1>1 DEF AccountInv, AccountTyped, account_
<1>3. panel' \in PanelType /\ panel'.secret = panel.secret
  BY DEF ToggleMenu, PickCompany, StartAdding, LeaveMenu, AccountInv, AccountTyped, PanelType
<1>4. "mfa" \in failed => "mfa" \in failed'
  BY DEF ToggleMenu, PickCompany, StartAdding, LeaveMenu
<1>5. SecretIsPending'
  BY <1>1, <1>2, <1>3, <1>4 DEF SecretIsPending, AccountInv
<1>6. QED
  BY <1>1, <1>2, <1>3, <1>5, QuietInv

LEMMA SendsInv ==
  ASSUME AccountInv,
         SaveDisplayName \/ ChangePassword \/ StartMfaSetup \/ EnableMfa \/ DisableMfa
           \/ RevokeAllSessions \/ AddWorkspace
  PROVE  AccountInv'
<1>1. \A h \in MfaHandler \cup {"name", "pw", "session", "create", "list"} :
        Blank(h) \in AccountReq /\ Blank(h).h = h /\ Blank(h).st = "sent"
  BY DEF Blank, AccountReq, ProfileType, NoUser
<1>2. panel.name \in Name \cup {NoName} /\ panel.secret \in Nat /\ account.secret \in Nat
      /\ panel.pw \in {"empty", "wrong", "short", "right"}
  BY DEF AccountInv, AccountTyped, PanelType, AccountRow
<1> USE DEF MfaIdle, MfaFree, Free
<1>3. CASE SaveDisplayName
  <2>1. [Blank("name") EXCEPT !.name = panel.name] \in AccountReq
    BY <1>1, <1>2 DEF AccountReq
  <2>2. [Blank("name") EXCEPT !.name = panel.name].h = "name"
        /\ [Blank("name") EXCEPT !.name = panel.name].st = "sent"
    BY DEF Blank
  <2>3. QED
    BY <1>3, <2>1, <2>2, StartInv DEF SaveDisplayName
<1>4. CASE ChangePassword
  <2>1. [Blank("pw") EXCEPT !.pw = panel.pw] \in AccountReq
    BY <1>1, <1>2 DEF AccountReq
  <2>2. [Blank("pw") EXCEPT !.pw = panel.pw].h = "pw" /\ [Blank("pw") EXCEPT !.pw = panel.pw].st = "sent"
    BY DEF Blank
  <2>3. QED
    BY <1>4, <2>1, <2>2, StartInv DEF ChangePassword
<1>5. CASE StartMfaSetup
  BY <1>1, <1>5, StartInv DEF StartMfaSetup
<1>6. CASE EnableMfa \/ DisableMfa
  <2>1. PICK h \in {"enable", "disable"}, c \in Nat :
          /\ StartRequest("mfa", [Blank(h) EXCEPT !.code = c]) /\ "mfa" \notin busySections
          /\ UNCHANGED <<panel, menu>>
    BY <1>2, <1>6 DEF EnableMfa, DisableMfa
  <2>2. [Blank(h) EXCEPT !.code = c] \in AccountReq
    BY <1>1 DEF AccountReq
  <2>3. [Blank(h) EXCEPT !.code = c].h = h /\ [Blank(h) EXCEPT !.code = c].st = "sent"
    BY DEF Blank
  <2>4. QED
    BY <2>1, <2>2, <2>3, StartInv
<1>7. CASE RevokeAllSessions
  BY <1>1, <1>7, StartInv DEF RevokeAllSessions
<1>8. CASE AddWorkspace
  BY <1>1, <1>8, StartInv DEF AddWorkspace
<1>9. QED
  BY <1>3, <1>4, <1>5, <1>6, <1>7, <1>8

LEMMA ServerInv ==
  ASSUME AccountInv, NEW r \in accountReqs, ServedBy(r)
  PROVE  AccountInv'
<1>1. UNCHANGED <<user, signed, panel, busySections, failed>>
  BY DEF ServedBy, MfaSetup, MfaEnable, MfaDisable, GetMe, UpdateProfile, PasswordServed,
     SessionsRevoked, TokenRefused, WorkspaceCreated, ServerStep, authState
<1>2. r \in AccountReq /\ account \in AccountRow /\ MfaOk(r) /\ Profile \in ProfileType
  BY DEF AccountInv, AccountTyped, Profile, ProfileType, AccountRow
<1>3. [r EXCEPT !.st = "bad"] \in AccountReq /\ [r EXCEPT !.st = "ok"] \in AccountReq
      /\ [r EXCEPT !.h = "me"] \in AccountReq
  BY <1>2 DEF AccountReq
<1> DEFINE made == account.made + 1
<1>10. made \in Nat
  BY <1>2 DEF AccountRow
<1> HIDE DEF made
<1>4. CASE MfaSetup(r)
  <2>1. CASE ~ account.on /\ account' = [account EXCEPT !.secret = made, !.made = made]
             /\ Answer(r, [r EXCEPT !.st = "ok", !.code = made])
    <3>1. [r EXCEPT !.st = "ok", !.code = made] \in AccountReq
      BY <1>2, <1>10 DEF AccountReq
    <3>2. account' \in AccountRow /\ account'.secret = made
      BY <1>2, <1>10, <2>1 DEF AccountRow
    <3>3. r.h = "setup"
      BY <1>4 DEF MfaSetup, ServedAs
    <3>4. QED
      BY <1>1, <1>2, <2>1, <3>1, <3>2, <3>3, AnswerInv DEF MfaOk, AccountReq
  <2>2. CASE Refuse(r) /\ account' = account
    BY <1>1, <1>2, <1>3, <1>4, <2>2, AnswerInv DEF MfaSetup, ServedAs, Refuse, MfaOk, AccountReq
  <2>3. QED
    BY <1>4, <2>1, <2>2 DEF MfaSetup, made
<1>5. CASE MfaEnable(r) \/ MfaDisable(r)
  <2>1. r.h \in {"enable", "disable"} /\ account' \in AccountRow
    <3>1. account' \in {account, [account EXCEPT !.on = TRUE], [account EXCEPT !.on = FALSE, !.secret = 0]}
      BY <1>5 DEF MfaEnable, MfaDisable
    <3>2. [account EXCEPT !.on = TRUE] \in AccountRow
      BY <1>2 DEF AccountRow
    <3>3. [account EXCEPT !.on = FALSE, !.secret = 0] \in AccountRow
      BY <1>2 DEF AccountRow
    <3>4. QED
      BY <1>2, <1>5, <3>1, <3>2, <3>3 DEF MfaEnable, MfaDisable, ServedAs
  <2>2. \/ Answer(r, [r EXCEPT !.h = "me"]) /\ ~ Pending'
        \/ Refuse(r) /\ account' = account
    BY <1>2, <1>5 DEF MfaEnable, MfaDisable, Pending, AccountRow
  <2>3. QED
    BY <1>1, <1>2, <1>3, <2>1, <2>2, AnswerInv DEF Refuse, MfaOk, AccountReq
<1>6. CASE GetMe(r)
  <2>1. [r EXCEPT !.st = "ok", !.snap = Profile] \in AccountReq
    BY <1>2 DEF AccountReq
  <2>2. r.h = "me" /\ account' = account /\ Answer(r, [r EXCEPT !.st = "ok", !.snap = Profile])
    BY <1>6 DEF GetMe, ServedAs, account_
  <2>3. QED
    BY <1>1, <1>2, <2>1, <2>2, AnswerInv DEF MfaOk, Pending, AccountReq
<1>7. CASE UpdateProfile(r)
  <2> DEFINE a == [r EXCEPT !.st = "ok", !.snap = [Profile EXCEPT !.name = r.name]]
  <2>1. a \in AccountReq /\ a.sec = r.sec /\ a.h = r.h
    BY <1>2 DEF AccountReq, ProfileType
  <2>2. r.h = "name" /\ account' = [account EXCEPT !.name = r.name] /\ Answer(r, a)
    BY <1>7 DEF UpdateProfile, ServedAs
  <2> HIDE DEF a
  <2>3. r.name \in Name \cup {NoName}
    BY <1>2 DEF AccountReq
  <2>4. account' \in AccountRow /\ account'.on = account.on /\ account'.secret = account.secret
    BY <1>2, <2>2, <2>3 DEF AccountRow
  <2>5. QED
    BY <1>1, <1>2, <2>1, <2>2, <2>4, AnswerInv
<1>8. CASE PasswordServed(r) \/ SessionsRevoked(r) \/ WorkspaceCreated(r) \/ TokenRefused(r)
  <2>1. account' = account /\ (Ok(r) \/ Refuse(r)) /\ (r.h = "setup" => Refuse(r))
    BY <1>8 DEF PasswordServed, SessionsRevoked, WorkspaceCreated, TokenRefused, ServedAs, account_
  <2>2. QED
    BY <1>1, <1>2, <1>3, <2>1, AnswerInv DEF Ok, Refuse, MfaOk, Pending, AccountReq
<1>9. QED
  BY <1>4, <1>5, <1>6, <1>7, <1>8 DEF ServedBy

LEMMA HeardInv ==
  ASSUME AccountInv, NEW r \in accountReqs, Heard(r)
  PROVE  AccountInv'
<1>1. /\ r \in AccountReq /\ MfaOk(r) /\ panel \in PanelType /\ user \in ProfileType /\ SecretIsPending
      /\ r.snap \in ProfileType /\ r.code \in Nat /\ r.name \in Name \cup {NoName}
      /\ r.snap.name \in Name \cup {NoName}
  BY DEF AccountInv, AccountTyped, AccountReq, ProfileType
<1> HIDE DEF NoSecret
<1>2. CASE Failed(r)
  <2>1. Done(r) /\ failed' = failed \cup {r.sec} /\ UNCHANGED <<user, signed, panel, account>>
    BY <1>2 DEF Failed, Done, authState, account_
  <2>2. "mfa" \in failed \cup busySections => "mfa" \in failed' \cup busySections'
    BY <2>1 DEF Done
  <2>3. SecretIsPending'
    BY <1>1, <2>1, <2>2 DEF SecretIsPending
  <2>4. QED
    BY <1>1, <2>1, <2>3, DoneInv
<1>3. CASE SetupShown(r)
  <2>1. Done(r) /\ UNCHANGED <<user, signed, account, failed>> /\ r.code = account.secret
    BY <1>1, <1>3 DEF SetupShown, Done, authState, account_, MfaOk
  <2>2. panel' = IF signed THEN [panel EXCEPT !.secret = r.code] ELSE panel
    BY <1>3 DEF SetupShown, Panel
  <2>3. panel' \in PanelType /\ (signed => panel'.secret = r.code)
    BY <1>1, <2>2 DEF PanelType
  <2>4. SecretIsPending'
    BY <2>1, <2>3 DEF SecretIsPending
  <2>5. QED
    BY <1>1, <2>1, <2>3, <2>4, DoneInv
<1>4. CASE MfaChanged(r)
  <2>1. Done(r) /\ UNCHANGED account /\ user' = r.snap /\ ~ Pending
    BY <1>1, <1>4 DEF MfaChanged, Applied, Done, account_, MfaOk
  <2>2. panel' \in PanelType
    BY <1>1, <1>4 DEF MfaChanged, Panel, PanelType, NoSecret
  <2>3. SecretIsPending'
    BY <2>1 DEF SecretIsPending, Pending
  <2>4. QED
    BY <1>1, <2>1, <2>2, <2>3, DoneInv
<1>5. CASE NameSaved(r)
  <2>1. Done(r) /\ UNCHANGED <<account, signed, failed>> /\ user' = r.snap /\ r.sec # "mfa"
    BY <1>1, <1>5 DEF NameSaved, Applied, Done, account_, MfaOk, MfaReq
  <2>2. panel' \in PanelType /\ panel'.secret = panel.secret
    BY <1>1, <1>5 DEF NameSaved, Panel, PanelType
  <2>3. "mfa" \in busySections => "mfa" \in busySections'
    BY <2>1 DEF Done
  <2>4. SecretIsPending'
    BY <1>1, <2>1, <2>2, <2>3 DEF SecretIsPending
  <2>5. QED
    BY <1>1, <2>1, <2>2, <2>4, DoneInv
<1>6. CASE SignedOut(r)
  <2>1. Done(r) /\ user' = NoUser /\ signed' = FALSE /\ panel' = Fields(NoName, FALSE)
    BY <1>6 DEF SignedOut
  <2>2. panel' \in PanelType /\ user' \in ProfileType
    BY <2>1 DEF Fields, PanelType, NoUser, ProfileType, NoSecret
  <2>3. SecretIsPending'
    BY <2>1 DEF SecretIsPending
  <2>4. QED
    BY <2>1, <2>2, <2>3, DoneInv
<1>7. CASE CompanyAnswered(r)
  <2> DEFINE a == [r EXCEPT !.h = "list", !.st = "sent"]
  <2>1. a \in AccountReq /\ a.sec = r.sec /\ a.h = "list"
    BY <1>1 DEF AccountReq
  <2>2. r.h = "create" /\ Answer(r, a) /\ UNCHANGED <<account, user, signed, panel, busySections, failed>>
    BY <1>7 DEF CompanyAnswered, account_
  <2>3. account' \in AccountRow
    BY <2>2 DEF AccountInv, AccountTyped
  <2> HIDE DEF a
  <2>4. QED
    BY <1>1, <2>1, <2>2, <2>3, AnswerInv
<1>8. CASE CompaniesListed(r)
  <2>1. Done(r) /\ UNCHANGED <<account, user, signed, panel, failed>> /\ r.sec # "mfa"
    BY <1>1, <1>8 DEF CompaniesListed, Done, account_, MfaOk, MfaReq
  <2>2. SecretIsPending'
    BY <1>1, <2>1 DEF SecretIsPending, Done
  <2>3. QED
    BY <1>1, <2>1, <2>2, DoneInv
<1>9. QED
  BY <1>2, <1>3, <1>4, <1>5, <1>6, <1>7, <1>8 DEF Heard

LEMMA AccountStep == AccountInv /\ [AccountNext]_accountVars => AccountInv'
<1> SUFFICES ASSUME AccountInv, [AccountNext]_accountVars PROVE AccountInv'
  OBVIOUS
<1>1. CASE UNCHANGED accountVars
  BY <1>1 DEF accountVars, account_, authState, AccountInv, AccountTyped, MfaOk, MfaReq, Pending,
     SecretIsPending
<1>2. CASE AccountNext
  BY <1>2, PanelInv, MenuInv, SendsInv, ServerInv, HeardInv DEF AccountNext
<1>3. QED
  BY <1>1, <1>2

\* While the server waits for the first code of an enrolment, the secret on the screen is the
\* one it will check that code against, whatever openings of the section, other requests and
\* lost answers came before (AppTopBar.tsx, api/auth.py).
THEOREM SecretShown == AccountSpec => []SecretIsPending
<1>1. AccountInv => SecretIsPending
  BY DEF AccountInv
<1>2. QED
  BY <1>1, AccountInitInv, AccountStep, PTL DEF AccountSpec

-----------------------------------------------------------------------------
(* The texts of rules.  A text that is on its way to a rule, in the list,  *)
(* in the dialog or in a request, is meant for the rule the server has     *)
(* under that id; an id is never given to a second rule.                   *)

Words == [n : Nat, of : Rule \cup {NoRule}]
OwnFor(f, t, r) == r \in Rule /\ f[r] # Untyped /\ (f[r].n > 0 => t.of = f[r].of)

DlgOwned   == ruleDlg.kind = "rule" /\ ruleDlg.id # NoRule
                  => OwnFor(rules, ruleDlg.draft, ruleDlg.id) /\ ruleDlg.draft # Untyped
ListOwned  == \A r \in Rule : listedRules[r].n > 0 => OwnFor(rules, listedRules[r], r)
SaveOwned(q) == q.kind = "rule" => q.text # Untyped /\ (q.id # NoRule => OwnFor(rules, q.text, q.id))
SavesOwned == \A q \in ruleReqs : SaveOwned(q)

ReqTyped(q) == q.id \in Rule \cup {NoRule} /\ q.text \in Words
DlgTyped == ruleDlg \in [kind : {"none", "rule", "context"}, id : Rule \cup {NoRule}, draft : Words]
RulesTyped == rules \in [Rule -> Words] /\ listedRules \in [Rule -> Words]
WordsTyped == context \in Words /\ seenContext \in Words /\ editor \in [open : BOOLEAN, draft : Words]
KnowledgeTyped ==
  /\ RulesTyped /\ WordsTyped /\ DlgTyped /\ ruleActs \in Nat
  /\ \A q \in ruleReqs : ReqTyped(q)
KnowledgeInv == KnowledgeTyped /\ DlgOwned /\ ListOwned /\ SavesOwned

(* What happens to the rules of the server: an id once used stays used,    *)
(* and what it holds stays text of the same rule.                          *)
Lasting == \A r \in Rule : rules[r] # Untyped
               => /\ rules'[r] # Untyped
                  /\ rules'[r].n > 0 => rules[r].n > 0 /\ rules'[r].of = rules[r].of

LEMMA UntypedIsWord == Untyped \in Words
BY DEF Untyped, Words

LEMMA TextIsWord ==
  ASSUME NEW n \in Nat, NEW r \in Rule \cup {NoRule}
  PROVE  Text(n, r) \in Words /\ Text(n, r).n = n /\ Text(n, r).of = r
BY DEF Text, Words

LEMMA PutLasting ==
  ASSUME KnowledgeInv, NEW q \in ruleReqs, q.kind = "rule", PutRule(q)
  PROVE  Lasting /\ rules' \in [Rule -> Words]
<1>1. ReqTyped(q) /\ SaveOwned(q) /\ rules \in [Rule -> Words]
  BY DEF KnowledgeInv, KnowledgeTyped, RulesTyped, SavesOwned
<1>2. CASE q.id = NoRule
  <2>1. PICK n \in Unused : rules' = [rules EXCEPT ![n] = q.text]
    BY <1>2 DEF PutRule
  <2>2. n \in Rule /\ rules[n] = Untyped
    BY <2>1 DEF Unused
  <2>3. QED
    BY <1>1, <2>1, <2>2 DEF Lasting, ReqTyped
<1>3. CASE q.id # NoRule
  <2>1. q.id \in Present(rules) /\ rules' = [rules EXCEPT ![q.id] = q.text]
    BY <1>3 DEF PutRule
  <2>2. q.id \in Rule /\ rules[q.id].n > 0 /\ q.text.of = rules[q.id].of /\ q.text # Untyped
    BY <1>1, <1>3, <2>1 DEF Present, SaveOwned, OwnFor
  <2>3. q.text \in Words
    BY <1>1 DEF ReqTyped
  <2>4. QED
    BY <1>1, <2>1, <2>2, <2>3 DEF Lasting
<1>4. QED
  BY <1>2, <1>3

(* The server forgets a rule, or the request is none of a rule.            *)
LEMMA EraseLasting ==
  ASSUME KnowledgeInv, NEW q \in ruleReqs, q.id \in Present(rules),
         rules' = [rules EXCEPT ![q.id] = Erased(q.id)]
  PROVE  Lasting /\ rules' \in [Rule -> Words]
<1>1. q.id \in Rule /\ rules \in [Rule -> Words]
  BY DEF KnowledgeInv, KnowledgeTyped, RulesTyped, Present
<1>2. Erased(q.id) \in Words /\ Erased(q.id).n = 0 /\ Erased(q.id).of = q.id
  BY <1>1, TextIsWord DEF Erased
<1>3. Erased(q.id) # Untyped
  BY <1>1, <1>2, KnowledgeAssumption DEF Untyped
<1>4. QED
  BY <1>1, <1>2, <1>3 DEF Lasting

LEMMA RulesLast ==
  ASSUME KnowledgeInv, [KnowledgeNext]_know
  PROVE  Lasting /\ rules' \in [Rule -> Words]
<1>1. ASSUME UNCHANGED rules PROVE Lasting /\ rules' \in [Rule -> Words]
  BY <1>1 DEF Lasting, KnowledgeInv, KnowledgeTyped, RulesTyped
<1>2. CASE RuleSaved
  BY <1>2, PutLasting DEF RuleSaved
<1>3. CASE Deleted
  BY <1>3, EraseLasting DEF Deleted
<1>4. CASE Fails
  BY <1>1, <1>4, PutLasting DEF Fails
<1>5. CASE OpenNew \/ OpenRule \/ OpenContext \/ Type \/ CloseDialog \/ SaveDialog \/ ToggleRule \/ Delete
  BY <1>1, <1>5 DEF OpenNew, OpenRule, OpenContext, Type, CloseDialog, SaveDialog, ToggleRule,
     Delete, taught
<1>6. CASE ContextSaved \/ RuleToggled \/ RulesLoaded \/ ContextFirst \/ ManualSaved \/ KnowledgeFails
  BY <1>1, <1>6 DEF ContextSaved, RuleToggled, RulesLoaded, ContextFirst, ManualSaved,
     KnowledgeFails, taught
<1>7. CASE StartEdit \/ TypeKnowledge \/ CancelEdit \/ SaveKnowledge \/ OtherEdits \/ UNCHANGED know
  BY <1>1, <1>7 DEF StartEdit, TypeKnowledge, CancelEdit, SaveKnowledge, OtherEdits, know, taught
<1>8. QED
  BY <1>2, <1>3, <1>4, <1>5, <1>6, <1>7 DEF KnowledgeNext

\* A text stays one of its rule while the server's rules only last.
LEMMA OwnLasts ==
  ASSUME Lasting, NEW t, NEW r, OwnFor(rules, t, r)
  PROVE  OwnFor(rules', t, r)
BY DEF Lasting, OwnFor

LEMMA OwnTextLasts ==
  ASSUME KnowledgeInv, Lasting
  PROVE  OwnTextStep
<1>1. ASSUME NEW r \in Present(rules) PROVE r \in Rule /\ rules[r] # Untyped
  BY <1>1 DEF Present, Untyped
<1>2. QED
  BY <1>1 DEF Lasting, OwnTextStep

(* The requests.  A step adds at most one, or turns one into a load.       *)
LEMMA SavesFollow ==
  ASSUME KnowledgeInv, Lasting,
         \A q \in ruleReqs' : q \in ruleReqs \/ (ReqTyped(q) /\ SaveOwned(q))
  PROVE  (\A q \in ruleReqs' : ReqTyped(q)) /\ SavesOwned'
<1>1. ASSUME NEW q \in ruleReqs' PROVE ReqTyped(q) /\ SaveOwned(q)
  BY <1>1 DEF KnowledgeInv, KnowledgeTyped, SavesOwned
<1>2. ASSUME NEW q \in ruleReqs' PROVE SaveOwned(q)'
  BY <1>1, <1>2, OwnLasts DEF SaveOwned
<1>3. QED
  BY <1>1, <1>2 DEF SavesOwned

LEMMA LoadFollows ==
  ASSUME KnowledgeInv, NEW r \in ruleReqs, ThenLoad(r)
  PROVE  \A q \in ruleReqs' : q \in ruleReqs \/ (ReqTyped(q) /\ SaveOwned(q))
<1>1. ReqTyped(r)
  BY DEF KnowledgeInv, KnowledgeTyped
<1> DEFINE q == [r EXCEPT !.kind = "load"]
<1>2. q.id = r.id /\ q.text = r.text /\ q.kind # "rule"
  OBVIOUS
<1>3. ReqTyped(q) /\ SaveOwned(q)
  BY <1>1, <1>2 DEF ReqTyped, SaveOwned
<1>4. ruleReqs' = (ruleReqs \ {r}) \cup {q}
  BY DEF ThenLoad
<1>5. QED
  BY <1>3, <1>4

(* The dialog, the list and the requests, one after the other.             *)
LEMMA DialogFollows ==
  ASSUME KnowledgeInv, Lasting, UNCHANGED ruleDlg \/ (DlgTyped' /\ ruleDlg'.kind # "rule")
  PROVE  (DlgTyped /\ DlgOwned)'
<1>1. CASE UNCHANGED ruleDlg
  BY <1>1, OwnLasts DEF KnowledgeInv, KnowledgeTyped, DlgTyped, DlgOwned
<1>2. CASE DlgTyped' /\ ruleDlg'.kind # "rule"
  BY <1>2 DEF DlgOwned
<1>3. QED
  BY <1>1, <1>2

LEMMA ListFollows ==
  ASSUME KnowledgeInv, Lasting, rules' \in [Rule -> Words],
         UNCHANGED listedRules \/ (listedRules' = rules /\ rules' = rules)
  PROVE  (RulesTyped /\ ListOwned)'
<1>1. CASE UNCHANGED listedRules
  BY <1>1, OwnLasts DEF KnowledgeInv, KnowledgeTyped, RulesTyped, ListOwned
<1>2. CASE listedRules' = rules /\ rules' = rules
  BY <1>2 DEF RulesTyped, ListOwned, OwnFor, Untyped
<1>3. QED
  BY <1>1, <1>2

LEMMA KnowledgeStep ==
  ASSUME KnowledgeInv, [KnowledgeNext]_know
  PROVE  KnowledgeInv'
<1> USE DEF ReqTyped
<1>1. Lasting /\ rules' \in [Rule -> Words]
  BY RulesLast
<1> DEFINE Saves == \A q \in ruleReqs' : q \in ruleReqs \/ (ReqTyped(q) /\ SaveOwned(q))
           Dlg == UNCHANGED ruleDlg \/ (DlgTyped' /\ ruleDlg'.kind # "rule")
           List == UNCHANGED listedRules \/ (listedRules' = rules /\ rules' = rules)
           Rest == WordsTyped' /\ ruleActs' \in Nat
<1>2. ASSUME Saves, (DlgTyped /\ DlgOwned)', List, Rest PROVE KnowledgeInv'
  <2>1. (\A q \in ruleReqs' : ReqTyped(q)) /\ SavesOwned'
    BY <1>1, <1>2, SavesFollow
  <2>2. (RulesTyped /\ ListOwned)'
    BY <1>1, <1>2, ListFollows
  <2>3. QED
    BY <1>2, <2>1, <2>2 DEF KnowledgeInv, KnowledgeTyped
<1>3. ASSUME Saves, Dlg, List, Rest PROVE KnowledgeInv'
  BY <1>1, <1>2, <1>3, DialogFollows
<1>4. Untyped \in Words /\ Text(ruleActs + 1, NoRule) \in Words /\ ruleActs + 1 \in Nat
  <2>1. ruleActs \in Nat
    BY DEF KnowledgeInv, KnowledgeTyped
  <2>2. QED
    BY <2>1, UntypedIsWord, TextIsWord
<1>5. CASE OpenNew
  <2>1. (DlgTyped /\ DlgOwned)'
    BY <1>4, <1>5 DEF OpenNew, NewId, DlgTyped, DlgOwned
  <2>2. QED
    BY <1>2, <1>4, <1>5, <2>1 DEF OpenNew, RuleAct, KnowledgeInv, KnowledgeTyped, WordsTyped, taught, seen
<1>6. CASE OpenRule
  <2>1. PICK r \in Present(listedRules) : ruleDlg' = [kind |-> "rule", id |-> r, draft |-> listedRules[r]]
    BY <1>6 DEF OpenRule
  <2>2. r \in Rule /\ listedRules[r].n > 0 /\ listedRules[r] \in Words
    BY <2>1 DEF Present, KnowledgeInv, KnowledgeTyped, RulesTyped
  <2>3. OwnFor(rules', listedRules[r], r)
    BY <1>1, <2>2, OwnLasts DEF KnowledgeInv, ListOwned
  <2>4. listedRules[r] # Untyped /\ UNCHANGED listedRules
    BY <1>6, <2>2 DEF Untyped, OpenRule, seen
  <2>5. (DlgTyped /\ DlgOwned)'
    BY <2>1, <2>2, <2>3, <2>4 DEF DlgTyped, DlgOwned
  <2>6. QED
    BY <1>2, <1>4, <1>6, <2>5 DEF OpenRule, RuleAct, KnowledgeInv, KnowledgeTyped, WordsTyped,
       taught, seen
<1>7. CASE Type
  <2>1. ruleDlg' = [ruleDlg EXCEPT !.draft = Text(ruleActs + 1, Meant)]
    BY <1>7 DEF Type, RuleAct
  <2>2. DlgTyped /\ DlgOwned
    BY DEF KnowledgeInv, KnowledgeTyped
  <2>3. ruleActs \in Nat /\ ruleActs + 1 \in Nat /\ ruleActs + 1 > 0
    BY DEF KnowledgeInv, KnowledgeTyped
  <2>4. Meant \in Rule \cup {NoRule}
    BY <2>2 DEF Meant, DlgTyped, Words
  <2> DEFINE t == Text(ruleActs + 1, Meant)
  <2>5. t \in Words /\ t.n > 0 /\ t.of = Meant
    BY <2>3, <2>4, TextIsWord
  <2>6. t # Untyped
    BY <2>5 DEF Untyped
  <2> HIDE DEF t
  <2>7. DlgTyped'
    BY <2>1, <2>2, <2>5 DEF DlgTyped, t
  <2>8. ASSUME ruleDlg.kind = "rule", ruleDlg.id # NoRule PROVE OwnFor(rules', t, ruleDlg.id)
    <3>1. OwnFor(rules, ruleDlg.draft, ruleDlg.id) /\ t.of = ruleDlg.draft.of
      BY <2>2, <2>5, <2>8 DEF DlgOwned, Meant
    <3>2. OwnFor(rules, t, ruleDlg.id)
      BY <3>1 DEF OwnFor
    <3>3. QED
      BY <1>1, <3>2, OwnLasts
  <2>9. ruleDlg'.kind = ruleDlg.kind /\ ruleDlg'.id = ruleDlg.id /\ ruleDlg'.draft = t
    BY <2>1, <2>2 DEF DlgTyped, t
  <2>10. DlgOwned'
    BY <2>6, <2>8, <2>9 DEF DlgOwned
  <2>11. QED
    BY <1>2, <1>4, <1>7, <2>7, <2>10 DEF Type, RuleAct, KnowledgeInv, KnowledgeTyped, WordsTyped,
       taught, seen
<1>8. CASE OpenContext \/ CloseDialog
  <2>1. ruleDlg'.kind # "rule" /\ DlgTyped'
    BY <1>8 DEF OpenContext, CloseDialog, KnowledgeInv, KnowledgeTyped, WordsTyped, DlgTyped
  <2>2. QED
    BY <1>3, <1>4, <1>8, <2>1
       DEF OpenContext, CloseDialog, RuleAct, KnowledgeInv, KnowledgeTyped, WordsTyped, taught, seen
<1>9. CASE SaveDialog
  <2> DEFINE id == IF ruleDlg.kind = "rule" THEN ruleDlg.id ELSE NoRule
             q == [RuleReq(ruleDlg.kind) EXCEPT !.id = id, !.text = ruleDlg.draft]
  <2>1. ruleReqs' = ruleReqs \cup {q} /\ ruleDlg.draft # Untyped
    BY <1>9 DEF SaveDialog
  <2>2. DlgTyped /\ DlgOwned
    BY DEF KnowledgeInv, KnowledgeTyped
  <2>3. q.kind = ruleDlg.kind /\ q.id = id /\ q.text = ruleDlg.draft
    BY DEF RuleReq
  <2>4. ReqTyped(q) /\ SaveOwned(q)
    BY <2>1, <2>2, <2>3 DEF DlgTyped, DlgOwned, SaveOwned
  <2> HIDE DEF q
  <2>5. Saves
    BY <2>1, <2>4
  <2>6. QED
    BY <1>3, <1>4, <1>9, <2>5 DEF SaveDialog, RuleAct, KnowledgeInv, KnowledgeTyped, WordsTyped,
       taught, seen
<1>10. CASE ToggleRule \/ Delete
  <2>1. PICK r \in Rule, k \in {"toggle", "delete"} : ruleReqs' = ruleReqs \cup {[RuleReq(k) EXCEPT !.id = r]}
    BY <1>10 DEF ToggleRule, Delete, Present
  <2> DEFINE q == [RuleReq(k) EXCEPT !.id = r]
  <2>2. q.kind = k /\ q.id = r /\ q.text = Untyped
    BY DEF RuleReq
  <2>3. ReqTyped(q) /\ SaveOwned(q)
    BY <1>4, <2>2 DEF SaveOwned
  <2> HIDE DEF q
  <2>4. Saves
    BY <2>1, <2>3 DEF q
  <2>5. QED
    BY <1>3, <1>4, <1>10, <2>4
       DEF ToggleRule, Delete, RuleAct, KnowledgeInv, KnowledgeTyped, WordsTyped, taught, seen
<1>11. CASE SaveKnowledge
  <2> DEFINE q == [RuleReq("know") EXCEPT !.text = editor.draft, !.ver = seenVersion]
  <2>1. q.kind = "know" /\ q.id = NoRule /\ q.text = editor.draft
    BY DEF RuleReq
  <2>2. ReqTyped(q) /\ SaveOwned(q)
    BY <2>1 DEF KnowledgeInv, KnowledgeTyped, WordsTyped, SaveOwned
  <2>3. ruleReqs' = ruleReqs \cup {q}
    BY <1>11 DEF SaveKnowledge
  <2> HIDE DEF q
  <2>4. Saves
    BY <2>2, <2>3
  <2>5. QED
    BY <1>3, <1>4, <1>11, <2>4 DEF SaveKnowledge, RuleAct, KnowledgeInv, KnowledgeTyped, WordsTyped,
       taught, seen
<1>12. CASE RuleSaved
  <2>1. Saves
    BY <1>12, LoadFollows DEF RuleSaved
  <2>2. Dlg
    BY <1>12, <1>4 DEF RuleSaved, NoDialog, KnowledgeInv, KnowledgeTyped, DlgTyped
  <2>3. QED
    BY <1>3, <1>12, <2>1, <2>2 DEF RuleSaved, KnowledgeInv, KnowledgeTyped, WordsTyped, seen
<1>13. CASE ContextSaved
  <2>1. PICK q \in ruleReqs : context' = q.text /\ ThenLoad(q)
    BY <1>13 DEF ContextSaved
  <2>2. Saves /\ context' \in Words
    BY <2>1, LoadFollows DEF KnowledgeInv, KnowledgeTyped
  <2>3. Dlg
    BY <1>13 DEF ContextSaved, KnowledgeInv, KnowledgeTyped, DlgTyped
  <2>4. QED
    BY <1>3, <1>13, <2>2, <2>3 DEF ContextSaved, KnowledgeInv, KnowledgeTyped, WordsTyped, seen
<1>14. CASE RuleToggled \/ Deleted
  <2>1. Saves
    BY <1>14, LoadFollows DEF RuleToggled, Deleted
  <2>2. QED
    BY <1>3, <1>14, <2>1 DEF RuleToggled, Deleted, KnowledgeInv, KnowledgeTyped, WordsTyped, taught, seen
<1>15. CASE RulesLoaded \/ Fails
  BY <1>3, <1>15 DEF RulesLoaded, Fails, KnowledgeInv, KnowledgeTyped, WordsTyped, taught, seen
<1>16. CASE StartEdit \/ TypeKnowledge \/ CancelEdit
  <2>1. WordsTyped /\ ruleActs' \in Nat
    BY <1>4, <1>16 DEF StartEdit, TypeKnowledge, CancelEdit, RuleAct, KnowledgeInv, KnowledgeTyped
  <2>2. CASE StartEdit \/ CancelEdit
    <3>1. \E b \in BOOLEAN, d \in Words : editor' = [open |-> b, draft |-> d]
      BY <1>4, <2>1, <2>2 DEF StartEdit, CancelEdit, NoEditor, WordsTyped
    <3>2. editor' \in [open : BOOLEAN, draft : Words]
      BY <3>1
    <3>3. QED
      BY <1>3, <2>1, <2>2, <3>2 DEF StartEdit, CancelEdit, WordsTyped, taught, seen
  <2>3. CASE TypeKnowledge
    <3>1. editor' = [editor EXCEPT !.draft = Text(ruleActs + 1, NoRule)]
      BY <2>3 DEF TypeKnowledge, RuleAct
    <3>2. editor' \in [open : BOOLEAN, draft : Words]
      BY <1>4, <2>1, <3>1 DEF WordsTyped
    <3>3. QED
      BY <1>3, <2>1, <2>3, <3>2 DEF TypeKnowledge, WordsTyped, taught, seen
  <2>4. QED
    BY <1>16, <2>2, <2>3
<1>17. CASE ContextFirst
  <2>1. PICK r \in ruleReqs : /\ r.kind = "know" /\ context' = r.text
                             /\ ruleReqs' = (ruleReqs \ {r}) \cup {[r EXCEPT !.kind = "manual"]}
    BY <1>17 DEF ContextFirst
  <2> DEFINE q == [r EXCEPT !.kind = "manual"]
  <2>2. ReqTyped(r) /\ q.id = r.id /\ q.text = r.text /\ q.kind # "rule"
    BY DEF KnowledgeInv, KnowledgeTyped
  <2>3. ReqTyped(q) /\ SaveOwned(q)
    BY <2>2 DEF SaveOwned
  <2> HIDE DEF q
  <2>4. Saves
    BY <2>1, <2>3 DEF q
  <2>5. QED
    BY <1>3, <1>17, <2>1, <2>2, <2>4 DEF ContextFirst, KnowledgeInv, KnowledgeTyped, WordsTyped, seen
<1>18. CASE ManualSaved
  <2>1. Saves
    BY <1>18, LoadFollows DEF ManualSaved
  <2>2. QED
    BY <1>3, <1>4, <1>18, <2>1 DEF ManualSaved, NoEditor, KnowledgeInv, KnowledgeTyped, WordsTyped
<1>19. CASE KnowledgeFails \/ OtherEdits \/ UNCHANGED know
  BY <1>3, <1>4, <1>19
     DEF KnowledgeFails, OtherEdits, RuleAct, KnowledgeInv, KnowledgeTyped, WordsTyped, taught, seen, know
<1>20. QED
  BY <1>5, <1>6, <1>7, <1>8, <1>9, <1>10, <1>11, <1>12, <1>13, <1>14, <1>15, <1>16, <1>17, <1>18, <1>19
     DEF KnowledgeNext

LEMMA KnowledgeStart == KnowledgeInit => KnowledgeInv
<1> SUFFICES ASSUME KnowledgeInit PROVE KnowledgeInv
  OBVIOUS
<1>1. Untyped \in Words /\ NoRule \in Rule \cup {NoRule}
  BY UntypedIsWord
<1>2. \A r \in Rule \cup {NoRule} : Text(1, r) \in Words /\ Text(1, r).n = 1
  BY TextIsWord
<1>3. RulesTyped /\ WordsTyped /\ DlgTyped /\ ruleActs \in Nat
  BY <1>1, <1>2 DEF KnowledgeInit, RulesTyped, WordsTyped, DlgTyped, NoDialog, NoEditor
<1>4. ListOwned
  BY <1>3 DEF KnowledgeInit, ListOwned, OwnFor, RulesTyped, Untyped
<1>5. QED
  BY <1>3, <1>4 DEF KnowledgeInit, KnowledgeInv, KnowledgeTyped, DlgOwned, NoDialog, SavesOwned

\* However dialogs are closed over a save, reopened and saved again, and in whatever order the
\* saves are answered, a rule only ever takes a text that was typed for it (KnowledgePanel.tsx:
\* crEditingId and saveCrModal).
THEOREM RuleKeepsText == KnowledgeSpec => OwnText
<1>1. KnowledgeInv /\ [KnowledgeNext]_know => KnowledgeInv'
  BY KnowledgeStep
<1>2. KnowledgeInv /\ [KnowledgeNext]_know => [OwnTextStep]_know
  BY RulesLast, OwnTextLasts
<1>3. QED
  BY KnowledgeStart, <1>1, <1>2, PTL DEF KnowledgeSpec, OwnText

-----------------------------------------------------------------------------
(* The notes of background jobs.  A job that runs has its note, and the    *)
(* note goes only when somebody has seen how the job ended.                *)

JobState == {"none", "running", "done", "failed"}
JobsInv ==
  /\ job \in [Job -> JobState] /\ delivered \in [Job -> Nat]
  /\ \A j \in Job : job[j] = "running" => j \in key
  /\ NoteKept

(* A result: the note goes with the task it is put into.                   *)
LEMMA ResultInv ==
  ASSUME JobsInv, NEW i, job[i] = "done", Unnote(i), Deliver(i), UNCHANGED <<job, told>>
  PROVE  JobsInv'
<1>1. delivered' \in [Job -> Nat]
  <2>1. CASE i \in Job
    <3>1. delivered[i] \in Nat /\ delivered[i] + 1 \in Nat
      BY <2>1 DEF JobsInv
    <3>2. QED
      BY <3>1 DEF Deliver, JobsInv
  <2>2. CASE i \notin Job
    <3>1. delivered' = delivered
      BY <2>2 DEF Deliver, JobsInv
    <3>2. QED
      BY <3>1 DEF JobsInv
  <2>3. QED
    BY <2>1, <2>2
<1>2. ASSUME NEW j \in Job, job[j] = "done", j \notin key'
      PROVE  delivered'[j] > 0 \/ j \in told
  <2>1. delivered[j] \in Nat /\ delivered'[j] \in Nat
    BY <1>1 DEF JobsInv
  <2>2. CASE j \in key
    <3>1. j = i /\ Shown(i)
      BY <1>2, <2>2 DEF Unnote, Noted
    <3>2. delivered'[j] = IF delivered[j] < 2 THEN delivered[j] + 1 ELSE delivered[j]
      BY <3>1 DEF Deliver, JobsInv
    <3>3. QED
      BY <2>1, <3>2
  <2>3. CASE j \notin key
    <3>1. delivered[j] > 0 \/ j \in told
      BY <1>2, <2>3 DEF JobsInv, NoteKept
    <3>2. delivered'[j] >= delivered[j]
      BY <2>1 DEF Deliver, JobsInv
    <3>3. QED
      BY <2>1, <3>1, <3>2
  <2>4. QED
    BY <2>2, <2>3
<1>3. \A j \in Job : job[j] = "running" => j \in key'
  BY DEF JobsInv, Unnote
<1>4. QED
  BY <1>1, <1>2, <1>3 DEF JobsInv, NoteKept

(* A failure: no result gets lost, and whoever was told stays told.        *)
LEMMA FailureInv ==
  ASSUME JobsInv, NEW i, job[i] = "failed", key' \in {key, key \ {i}}, told \subseteq told',
         UNCHANGED <<job, delivered>>
  PROVE  JobsInv'
BY DEF JobsInv, NoteKept

LEMMA JobsStep ==
  ASSUME ~ Lossy
  PROVE  JobsInv /\ [JobsNext]_jobs => JobsInv'
<1> SUFFICES ASSUME JobsInv, [JobsNext]_jobs PROVE JobsInv'
  OBVIOUS
<1>1. ASSUME UNCHANGED <<job, key, delivered, told>> PROVE JobsInv'
  BY <1>1 DEF JobsInv, NoteKept
<1>2. CASE StartJob
  <2>1. PICK i \in Job : job[i] = "none" /\ job' = [job EXCEPT ![i] = "running"] /\ key' = key \cup {i}
    BY <1>2 DEF StartJob
  <2>2. UNCHANGED <<delivered, told>>
    BY <1>2 DEF StartJob
  <2>3. QED
    BY <2>1, <2>2 DEF JobsInv, JobState, NoteKept
<1>3. ASSUME NEW i \in Job, JobEnds(i) PROVE JobsInv'
  <2>1. PICK s \in {"done", "failed"} : job' = [job EXCEPT ![i] = s]
    BY <1>3 DEF JobEnds
  <2>2. job[i] = "running" /\ UNCHANGED <<key, delivered, told>>
    BY <1>3 DEF JobEnds, jobStore
  <2>3. QED
    BY <2>1, <2>2 DEF JobsInv, JobState, NoteKept
<1>4. ASSUME NEW i \in Job, JobStep(i) \/ ScanStep(i) PROVE JobsInv'
  <2>1. CASE WaitDone(i) \/ ScanDone(i)
    BY <2>1, ResultInv DEF WaitDone, ScanDone
  <2>2. CASE WaitFailed(i)
    BY <2>2, FailureInv DEF WaitFailed, Unnote
  <2>3. CASE ScanFailed(i)
    BY <2>3, FailureInv DEF ScanFailed
  <2>4. CASE ScanRunning(i)
    BY <1>1, <2>4 DEF ScanRunning, jobStore
  <2>5. QED
    BY <1>4, <2>1, <2>2, <2>3, <2>4 DEF JobStep, ScanStep
<1>5. ASSUME NEW p \in polls, PollStep(p) PROVE JobsInv'
  <2>1. CASE PollDone(p)
    BY <2>1, ResultInv DEF PollDone
  <2>2. CASE PollFailed(p)
    BY <2>2, FailureInv DEF PollFailed
  <2>3. CASE PollCancelled(p)
    BY <1>1, <2>3 DEF PollCancelled, jobStore
  <2>4. QED
    BY <1>5, <2>1, <2>2, <2>3 DEF PollStep
<1>6. CASE Leave \/ Return \/ ReloadPage \/ JobsListAnswered \/ CacheWritten \/ TickServed \/ TickAnswered
  BY <1>1, <1>6 DEF Leave, Return, ReloadPage, JobsListAnswered, CacheWritten, TickServed,
     TickAnswered, jobStore
<1>7. CASE UNCHANGED jobs
  BY <1>1, <1>7 DEF jobs, jobStore
<1>8. QED
  BY <1>2, <1>3, <1>4, <1>5, <1>6, <1>7 DEF JobsNext

\* As long as no poll is lost, the note of a job goes only with its result put into the task or
\* a failure shown, however the user leaves the company, reloads and signs in again between the
\* polls (WorkspaceApp.tsx).
THEOREM NotesKept ==
  ASSUME ~ Lossy
  PROVE  JobsSpec => []NoteKept
<1>1. JobsInit => JobsInv
  BY DEF JobsInit, JobsInv, JobState, NoteKept
<1>2. JobsInv => NoteKept
  BY DEF JobsInv
<1>3. JobsInv /\ [JobsNext]_jobs => JobsInv'
  BY JobsStep
<1>4. QED
  BY <1>1, <1>2, <1>3, PTL DEF JobsSpec

-----------------------------------------------------------------------------
(* The task list of the classic workspace.  There is one list request at   *)
(* most, for the company on screen; a task under way to the server is      *)
(* noted in `pending` and nowhere else, and is made once.  Hence what the  *)
(* answer to a list lacks was made or deleted here in the meantime, and    *)
(* the merge keeps the former.                                             *)
TaskReqs == [kind : {"list", "listed", "create", "msgs", "remove"}, task : Task \cup {NoTask},
             co : Firm, snap : SUBSET Task, by : {"send", "typing", "upload", "journal"}]

TaskListTyped ==
    /\ row \in [Task -> Firm \cup {NoFirm}] /\ ocrJob \in [Task -> Firm \cup {NoFirm}]
    /\ cache \in [Firm -> SUBSET Task] /\ company \in Firm
    /\ tasks \subseteq Task /\ taskReqs \subseteq TaskReqs

IsList(r) == r.kind \in {"list", "listed"}
OneList   == /\ \A r \in taskReqs : IsList(r) => r.co = company
             /\ \A r, q \in taskReqs : IsList(r) /\ IsList(q) => r = q

\* what is on screen, in a cache, on the server or in a job has been handed out
Known(t)  == \/ t \in tasks \/ \E c \in Firm : t \in cache[c]
             \/ row[t] # NoFirm \/ ocrJob[t] # NoFirm
HandedOut == \A t \in Task : Known(t) => t \in used

InTheMaking(r) == r.task \in Task /\ r.task \in pending /\ r.task \in used /\ ~ Known(r.task)
MadeOnce == /\ \A r \in taskReqs : r.kind = "create" => InTheMaking(r)
            /\ \A r, q \in taskReqs : r.kind = "create" /\ q.kind = "create" /\ r.task = q.task => r = q

\* what a list's answer does not have was made or deleted here
Missed(r) == {t \in Task : row[t] = company} \ r.snap
Answers   == \A r \in taskReqs : r.kind = "listed" =>
                /\ r.snap \subseteq used
                /\ \A q \in taskReqs : q.kind = "create" => q.task \notin r.snap
                /\ Missed(r) \subseteq pending \cup deleted

TaskListInv == TaskListTyped /\ OneList /\ HandedOut /\ MadeOnce /\ Answers

LEMMA TaskListStarts == TaskInit => TaskListInv
<1> SUFFICES ASSUME TaskInit PROVE TaskListInv
    OBVIOUS
<1> USE DEF TaskInit, ListReq, TaskReq
<1>1. TaskListTyped
  BY TaskAssumption DEF TaskListTyped, TaskReqs
<1>2. OneList
  BY DEF OneList, IsList
<1>3. HandedOut
  BY TaskAssumption DEF HandedOut, Known
<1>4. MadeOnce /\ Answers
  BY DEF MadeOnce, Answers
<1> QED
  BY <1>1, <1>2, <1>3, <1>4 DEF TaskListInv

\* A request leaves, or one that is neither a create nor a list comes; the sets stay.
LEMMA TaskListQuiet ==
  ASSUME TaskListInv,
         \A r \in taskReqs' : r \in taskReqs \/ (r \in TaskReqs /\ r.kind \in {"msgs", "remove"}),
         row' \in [Task -> Firm \cup {NoFirm}], \A t \in Task : row'[t] \in {row[t], NoFirm},
         ocrJob' \in [Task -> Firm \cup {NoFirm}], \A t \in Task : ocrJob'[t] \in {ocrJob[t], NoFirm},
         cache' \in [Firm -> SUBSET Task],
         \A c \in Firm : cache'[c] \subseteq cache[c] \cup tasks,
         tasks' \subseteq tasks, pending \cup deleted \subseteq pending' \cup deleted',
         pending \ pending' \subseteq tasks,
         UNCHANGED <<company, used>>
  PROVE  TaskListInv'
<1> USE DEF TaskListInv
<1>1. TaskListTyped'
  BY DEF TaskListTyped
<1>2. OneList'
  BY DEF OneList, IsList
<1>3. \A t \in Task : Known(t)' => Known(t)
  BY DEF Known
<1>4. HandedOut'
  BY <1>3 DEF HandedOut
<1>5. MadeOnce'
  <2>1. ASSUME NEW r \in taskReqs', r.kind = "create"
        PROVE  InTheMaking(r)'
    <3>1. r \in taskReqs /\ InTheMaking(r)
      BY <2>1 DEF MadeOnce
    <3>2. ~ Known(r.task)' /\ r.task \notin tasks
      BY <1>3, <3>1 DEF InTheMaking, Known
    <3> QED
      BY <3>1, <3>2 DEF InTheMaking
  <2>2. ASSUME NEW r \in taskReqs', NEW q \in taskReqs', r.kind = "create", q.kind = "create",
               r.task = q.task
        PROVE  r = q
    BY <2>2 DEF MadeOnce
  <2> QED
    BY <2>1, <2>2 DEF MadeOnce
<1>6. Answers'
  <2> SUFFICES ASSUME NEW r \in taskReqs', r.kind = "listed"
               PROVE  /\ r.snap \subseteq used'
                      /\ \A q \in taskReqs' : q.kind = "create" => q.task \notin r.snap
                      /\ Missed(r)' \subseteq pending' \cup deleted'
    BY DEF Answers
  <2>1. r \in taskReqs /\ Missed(r) \subseteq pending \cup deleted
    BY DEF Answers
  <2>2. Missed(r)' \subseteq Missed(r)
    BY TaskAssumption DEF Missed, TaskListTyped
  <2> QED
    BY <2>1, <2>2 DEF Answers
<1> QED
  BY <1>1, <1>2, <1>4, <1>5, <1>6 DEF TaskListInv

\* The window is shown anew: one list request, nothing else under way.
LEMMA TaskListAnew ==
  ASSUME TaskListInv, company' \in Firm, taskReqs' = {q \in taskReqs : q.kind \notin {"list", "listed"}} \cup {ListReq(company')}
                       \/ taskReqs' = {ListReq(company')},
         row' \in [Task -> Firm \cup {NoFirm}],
         \A t \in Task : row'[t] # NoFirm => t \in used,
         taskReqs' = {ListReq(company')} \/ row' = row,
         ocrJob' = ocrJob, used' = used,
         cache' \in [Firm -> SUBSET Task], \A c \in Firm : cache'[c] \subseteq cache[c],
         tasks' = {} \/ (\E c \in Firm : tasks' = cache[c]),
         taskReqs' = {ListReq(company')} \/ pending \subseteq pending'
  PROVE  TaskListInv'
<1> USE DEF TaskListInv
<1>0. ListReq(company') \in TaskReqs /\ ListReq(company').kind = "list" /\ ListReq(company').co = company'
  BY DEF ListReq, TaskReq, TaskReqs
<1>r. \A q \in taskReqs' : q = ListReq(company') \/ (q \in taskReqs /\ ~ IsList(q))
  BY DEF IsList
<1>1. TaskListTyped'
  BY <1>0, <1>r DEF TaskListTyped
<1>2. OneList'
  BY <1>0, <1>r DEF OneList, IsList
<1>3. HandedOut'
  BY DEF HandedOut, Known, TaskListTyped
<1>5. MadeOnce'
  <2>1. ASSUME NEW r \in taskReqs', r.kind = "create"
        PROVE  InTheMaking(r)' /\ r \in taskReqs
    <3>1. r \in taskReqs /\ InTheMaking(r) /\ row' = row /\ pending \subseteq pending'
      BY <2>1, <1>0, <1>r DEF MadeOnce
    <3>2. ~ Known(r.task)'
      BY <3>1 DEF InTheMaking, Known
    <3> QED
      BY <3>1, <3>2 DEF InTheMaking
  <2> QED
    BY <2>1 DEF MadeOnce
<1>6. Answers'
  BY <1>0, <1>r DEF Answers, IsList
<1> QED
  BY <1>1, <1>2, <1>3, <1>5, <1>6 DEF TaskListInv

\* A create is sent: its task is new and pending.
LEMMA TaskListMaking ==
  ASSUME TaskListInv, NEW t \in Task, NEW by \in {"send", "typing", "upload", "journal"}, Create(t, by),
         UNCHANGED <<row, ocrJob, cache, company, tasks, deleted>>
  PROVE  TaskListInv'
<1> USE DEF TaskListInv
<1> DEFINE new == [TaskReq("create", t) EXCEPT !.by = by]
<1>0. new \in TaskReqs /\ new.kind = "create" /\ new.task = t
  BY DEF TaskReq, TaskReqs, TaskListTyped
<1>r. taskReqs' = taskReqs \cup {new} /\ pending' = pending \cup {t} /\ used' = used \cup {t} /\ t \notin used
  BY DEF Create, Pend, PendAtCreate
<1> HIDE DEF new
<1>1. TaskListTyped'
  BY <1>0, <1>r DEF TaskListTyped
<1>2. OneList'
  BY <1>0, <1>r DEF OneList, IsList
<1>k. \A u \in Task : Known(u)' <=> Known(u)
  BY DEF Known
<1>3. HandedOut'
  BY <1>r, <1>k DEF HandedOut
<1>4. ~ Known(t)
  BY <1>r DEF HandedOut
<1>5. MadeOnce'
  <2>1. ASSUME NEW r \in taskReqs', r.kind = "create"
        PROVE  InTheMaking(r)'
    <3>1. CASE r = new
      BY <3>1, <1>0, <1>r, <1>4, <1>k DEF InTheMaking
    <3>2. CASE r \in taskReqs
      BY <3>2, <2>1, <1>r, <1>k DEF InTheMaking, MadeOnce
    <3> QED
      BY <3>1, <3>2, <1>r
  <2>2. \A r \in taskReqs : r.kind = "create" => r.task # t
    BY <1>r DEF MadeOnce, InTheMaking
  <2> QED
    BY <2>1, <2>2, <1>0, <1>r DEF MadeOnce
<1>6. Answers'
  <2> SUFFICES ASSUME NEW r \in taskReqs', r.kind = "listed"
               PROVE  /\ r.snap \subseteq used'
                      /\ \A q \in taskReqs' : q.kind = "create" => q.task \notin r.snap
                      /\ Missed(r)' \subseteq pending' \cup deleted'
    BY DEF Answers
  <2>1. r \in taskReqs /\ r.snap \subseteq used /\ Missed(r) \subseteq pending \cup deleted
    BY <1>0, <1>r DEF Answers
  <2>2. Missed(r)' = Missed(r)
    BY DEF Missed
  <2> QED
    BY <2>1, <2>2, <1>0, <1>r DEF Answers
<1> QED
  BY <1>1, <1>2, <1>3, <1>5, <1>6 DEF TaskListInv

\* A create is answered, or fails with or without a row on the server.
LEMMA TaskListMade ==
  ASSUME TaskListInv, NEW r \in taskReqs, r.kind = "create", Inserted(r),
         row' \in {row, [row EXCEPT ![r.task] = r.co]},
         ocrJob' \in {ocrJob, [ocrJob EXCEPT ![r.task] = r.co]},
         UNCHANGED <<company, pending, deleted, used>>
  PROVE  TaskListInv'
<1> USE DEF TaskListInv
<1>0. r \in TaskReqs /\ r.task \in Task /\ r.co \in Firm /\ r.task \in pending /\ r.task \in used
  BY DEF TaskListTyped, TaskReqs, MadeOnce, InTheMaking
<1>r. taskReqs' = taskReqs \ {r} /\ tasks' = tasks \cup {r.task} /\ cache' = [cache EXCEPT ![r.co] = tasks']
  BY DEF Inserted
<1>1. TaskListTyped'
  BY <1>0, <1>r DEF TaskListTyped
<1>2. OneList'
  BY <1>r DEF OneList, IsList
<1>k. \A u \in Task \ {r.task} : /\ Known(u)' => Known(u)
                                 /\ row'[u] = row[u]
  BY <1>0, <1>r DEF Known, TaskListTyped
<1>3. HandedOut'
  BY <1>0, <1>k DEF HandedOut
<1>5. MadeOnce'
  <2>1. ASSUME NEW q \in taskReqs', q.kind = "create"
        PROVE  InTheMaking(q)'
    <3>1. q \in taskReqs /\ InTheMaking(q) /\ q.task # r.task
      BY <2>1, <1>r DEF MadeOnce
    <3> QED
      BY <3>1, <1>k DEF InTheMaking
  <2> QED
    BY <2>1, <1>r DEF MadeOnce
<1>6. Answers'
  <2> SUFFICES ASSUME NEW q \in taskReqs', q.kind = "listed"
               PROVE  /\ q.snap \subseteq used'
                      /\ \A p \in taskReqs' : p.kind = "create" => p.task \notin q.snap
                      /\ Missed(q)' \subseteq pending' \cup deleted'
    BY DEF Answers
  <2>1. Missed(q)' \subseteq Missed(q) \cup {r.task}
    BY <1>k DEF Missed
  <2> QED
    BY <2>1, <1>0, <1>r DEF Answers
<1> QED
  BY <1>1, <1>2, <1>3, <1>5, <1>6 DEF TaskListInv

LEMMA TaskListServed ==
  ASSUME TaskListInv, NEW r \in taskReqs, ListServed(r)
  PROVE  TaskListInv'
<1> USE DEF TaskListInv
<1>a. PICK ans : ans = [r EXCEPT !.kind = "listed", !.snap = OnServer(r.co)]
  OBVIOUS
<1>0. r \in TaskReqs /\ IsList(r) /\ r.co = company
  BY DEF ListServed, TaskListTyped, OneList, IsList
<1>1. ans \in TaskReqs /\ ans.kind = "listed" /\ ans.co = company /\ ans.snap = OnServer(company)
  BY <1>0, <1>a DEF TaskReqs, OnServer
<1>r. /\ taskReqs' = (taskReqs \ {r}) \cup {ans}
      /\ UNCHANGED <<row, company, tasks, pending, deleted, cache, ocrJob, used>>
  BY <1>a DEF ListServed, refs, cached, ids
<1>2. TaskListTyped'
  BY <1>1, <1>r DEF TaskListTyped
<1>3. OneList'
  <2>1. \A q \in taskReqs' : IsList(q) => q = ans
    BY <1>0, <1>r DEF OneList
  <2> QED
    BY <2>1, <1>1, <1>r DEF OneList
<1>k. \A u \in Task : Known(u)' <=> Known(u)
  BY <1>r DEF Known
<1>4. HandedOut'
  BY <1>r, <1>k DEF HandedOut
<1>5. MadeOnce'
  <2>1. \A q \in taskReqs' : q.kind = "create" => q \in taskReqs
    BY <1>1, <1>r
  <2> QED
    BY <2>1, <1>r, <1>k DEF MadeOnce, InTheMaking
<1>6. Answers'
  <2>1. \A q \in taskReqs' : q.kind = "listed" => q = ans
    BY <1>0, <1>r DEF OneList, IsList
  <2>2. ans.snap \subseteq used
    BY <1>1, TaskAssumption DEF OnServer, HandedOut, Known, TaskListTyped
  <2>3. ASSUME NEW q \in taskReqs', q.kind = "create"
        PROVE  q.task \notin ans.snap
    <3>1. q \in taskReqs /\ ~ Known(q.task) /\ q.task \in Task
      BY <2>3, <1>1, <1>r DEF MadeOnce, InTheMaking
    <3> QED
      BY <3>1, <1>1, TaskAssumption DEF Known, OnServer, TaskListTyped
  <2>4. Missed(ans)' = {}
    BY <1>1, <1>r DEF Missed, OnServer
  <2> QED
    BY <2>1, <2>2, <2>3, <2>4, <1>r DEF Answers
<1> QED
  BY <1>2, <1>3, <1>4, <1>5, <1>6 DEF TaskListInv

LEMMA TaskListMerged ==
  ASSUME TaskListInv, NEW r \in taskReqs, TaskListAnswered(r)
  PROVE  /\ TaskListInv'
         /\ \A t \in tasks : row[t] = company /\ t \notin deleted => t \in tasks'
<1> USE DEF TaskListInv
<1> DEFINE kept  == (r.snap \ deleted) \cup (Unsynced(r.snap) \cap (pending' \cup {openTask}))
           final == kept \cup Ghosts(kept)
<1>0. r \in TaskReqs /\ r.kind = "listed" /\ r.co = company /\ r.snap \subseteq Task
  BY DEF TaskListAnswered, TaskListTyped, OneList, IsList, TaskReqs
<1>r. /\ taskReqs' = taskReqs \ {r} /\ pending' = pending \ r.snap /\ tasks' = final
      /\ cache' = [cache EXCEPT ![company] = final]
      /\ UNCHANGED <<row, company, deleted, ocrJob, used>>
  BY DEF TaskListAnswered, ids
<1>1. final \subseteq r.snap \cup tasks \cup {t \in Task : ocrJob[t] = company}
  BY DEF Unsynced, Ghosts, JobsOf
<1>2. \A t \in tasks : row[t] = company /\ t \notin deleted => t \in final
  <2> SUFFICES ASSUME NEW t \in tasks, row[t] = company, t \notin deleted, t \notin r.snap
               PROVE  t \in final
    BY DEF final, kept
  <2>1. t \in pending
    BY <1>0 DEF Answers, Missed, TaskListTyped
  <2>2. t \in Unsynced(r.snap) /\ t \in pending'
    BY <2>1, <1>r DEF Unsynced
  <2> QED
    BY <2>2
<1> HIDE DEF final
<1>3. TaskListTyped'
  BY <1>0, <1>1, <1>r DEF TaskListTyped
<1>4. OneList' /\ \A q \in taskReqs' : q \in taskReqs /\ ~ IsList(q)
  BY <1>0, <1>r DEF OneList, IsList
<1>k. \A u \in Task : Known(u)' => Known(u) \/ u \in r.snap
  BY <1>1, <1>r, <1>0, TaskAssumption DEF Known, TaskListTyped
<1>5. HandedOut'
  BY <1>0, <1>k, <1>r DEF HandedOut, Answers
<1>6. MadeOnce'
  <2>1. ASSUME NEW q \in taskReqs', q.kind = "create"
        PROVE  InTheMaking(q)'
    <3>1. q \in taskReqs /\ InTheMaking(q) /\ q.task \notin r.snap
      BY <2>1, <1>0, <1>r DEF MadeOnce, Answers
    <3> QED
      BY <3>1, <1>k, <1>r DEF InTheMaking
  <2> QED
    BY <2>1, <1>r DEF MadeOnce
<1>7. Answers'
  BY <1>4 DEF Answers, IsList
<1> QED
  BY <1>2, <1>3, <1>4, <1>5, <1>6, <1>7, <1>r DEF TaskListInv

LEMMA TaskListSteps ==
  ASSUME TaskListInv, [TaskNext]_taskVars
  PROVE  TaskListInv'
<1> USE DEF TaskListInv, refs, cached, ids
<1> DEFINE Some(r) == /\ r \in taskReqs
                      /\ \/ ListFailed(r) \/ Removed(r) \/ MessagesAnswered(r) \/ MessagesFailed(r)
                         \/ MessagesMissing(r)
<1>1. CASE UNCHANGED taskVars
  <2>0. UNCHANGED <<row, company, tasks, pending, deleted, cache, ocrJob, used, taskReqs>>
    BY <1>1 DEF taskVars
  <2>1. \A c \in Firm : cache'[c] \subseteq cache[c] \cup tasks
    BY <2>0
  <2> QED
    BY <2>0, <2>1, TaskListQuiet DEF TaskListTyped
<1>2. ASSUME NEW r \in taskReqs, Some(r)
      PROVE  TaskListInv'
  <2>1. r \in TaskReqs /\ r.task \in Task \cup {NoTask} /\ r.co \in Firm /\ tasks \subseteq Task
    BY DEF TaskListTyped, TaskReqs
  <2>2. row' \in [Task -> Firm \cup {NoFirm}] /\ \A t \in Task : row'[t] \in {row[t], NoFirm}
    BY <1>2 DEF ListFailed, Removed, MessagesAnswered, MessagesFailed, MessagesMissing, TaskListTyped
  <2>3. /\ taskReqs' = taskReqs \ {r} /\ UNCHANGED <<company, used, ocrJob, pending, deleted>>
        /\ tasks' \subseteq tasks
    BY <1>2 DEF ListFailed, Removed, MessagesAnswered, MessagesFailed, MessagesMissing
  <2>4. cache' = cache \/ \E c \in Firm : cache' = [cache EXCEPT ![c] = tasks']
    BY <1>2, <2>1 DEF ListFailed, Removed, MessagesAnswered, MessagesFailed, MessagesMissing,
       TaskListTyped
  <2>5. cache' \in [Firm -> SUBSET Task] /\ \A c \in Firm : cache'[c] \subseteq cache[c] \cup tasks
    BY <2>1, <2>3, <2>4 DEF TaskListTyped
  <2>6. \A q \in taskReqs' : q \in taskReqs
    BY <2>3
  <2>7. ocrJob' \in [Task -> Firm \cup {NoFirm}] /\ \A t \in Task : ocrJob'[t] \in {ocrJob[t], NoFirm}
    BY <2>3 DEF TaskListTyped
  <2> QED
    BY <2>2, <2>3, <2>5, <2>6, <2>7, TaskListQuiet
<1>3. ASSUME NEW r \in taskReqs, TaskCreated(r) \/ CreateFailed(r)
      PROVE  TaskListInv'
  BY <1>3, TaskListMade DEF TaskCreated, CreateFailed
<1>4. ASSUME NEW t \in Task, NEW by \in {"send", "typing", "upload", "journal"}, Create(t, by),
             UNCHANGED <<row, ocrJob, cache, company, tasks, deleted>>
      PROVE  TaskListInv'
  BY <1>4, TaskListMaking
<1>5. CASE TypeFirst
  BY <1>4, <1>5 DEF TypeFirst
<1>6. CASE SendMessage
  <2>1. CASE Anchored
    BY <1>6, <2>1, TaskListQuiet DEF SendMessage, TaskListTyped
  <2>2. CASE ~ Anchored
    BY <1>4, <1>6, <2>2 DEF SendMessage
  <2> QED
    BY <2>1, <2>2
<1>7. CASE UploadFiles
  BY <1>4, <1>7 DEF UploadFiles
<1>8. CASE OpenJournal
  BY <1>4, <1>8 DEF OpenJournal
<1>9. CASE OcrJobEnds
  <2>1. /\ ocrJob' \in [Task -> Firm \cup {NoFirm}] /\ \A t \in Task : ocrJob'[t] \in {ocrJob[t], NoFirm}
        /\ UNCHANGED <<row, company, tasks, pending, deleted, cache, used, taskReqs>>
    BY <1>9 DEF OcrJobEnds, TaskListTyped
  <2> QED
    BY <2>1, TaskListQuiet DEF TaskListTyped
<1>10. CASE Open \/ Prefetch
  <2>1. PICK t \in tasks : taskReqs' \subseteq taskReqs \cup {TaskReq("msgs", t)}
    BY <1>10 DEF Open, Prefetch
  <2>2. TaskReq("msgs", t) \in TaskReqs /\ TaskReq("msgs", t).kind = "msgs"
    BY DEF TaskReq, TaskReqs, TaskListTyped
  <2>3. UNCHANGED <<row, company, tasks, pending, deleted, cache, ocrJob, used>>
    BY <1>10 DEF Open, Prefetch
  <2>4. \A r \in taskReqs' : r \in taskReqs \/ (r \in TaskReqs /\ r.kind \in {"msgs", "remove"})
    BY <2>1, <2>2
  <2> QED
    BY <2>3, <2>4, TaskListQuiet DEF TaskListTyped
<1>11. CASE NewChat
  BY <1>11, TaskListQuiet DEF NewChat, TaskListTyped
<1>12. CASE DeleteTask
  <2>1. PICK t \in tasks :
          /\ deleted' = deleted \cup {t} /\ pending' = pending \ {t} /\ tasks' = tasks \ {t}
          /\ cache' = [cache EXCEPT ![company] = tasks'] /\ taskReqs' = taskReqs \cup {TaskReq("remove", t)}
    BY <1>12 DEF DeleteTask
  <2>2. TaskReq("remove", t) \in TaskReqs /\ TaskReq("remove", t).kind = "remove"
    BY DEF TaskReq, TaskReqs, TaskListTyped
  <2>3. UNCHANGED <<row, company, ocrJob, used>>
    BY <1>12 DEF DeleteTask
  <2>4. \A r \in taskReqs' : r \in taskReqs \/ (r \in TaskReqs /\ r.kind \in {"msgs", "remove"})
    BY <2>1, <2>2
  <2>5. cache' \in [Firm -> SUBSET Task] /\ \A c \in Firm : cache'[c] \subseteq cache[c] \cup tasks
    BY <2>1 DEF TaskListTyped
  <2> QED
    BY <2>1, <2>3, <2>4, <2>5, TaskListQuiet DEF TaskListTyped
<1>13. CASE SwitchFirm
  <2>1. /\ company' \in Firm /\ tasks' = cache[company'] /\ pending \subseteq pending'
        /\ taskReqs' = (taskReqs \ Hidden) \cup {ListReq(company')}
        /\ UNCHANGED <<row, cache, ocrJob, used>>
    BY <1>13 DEF SwitchFirm, FirstShown
  <2>2. taskReqs \ Hidden = {q \in taskReqs : q.kind \notin {"list", "listed"}}
    BY DEF Hidden
  <2>3. \A t \in Task : row'[t] # NoFirm => t \in used
    BY <2>1 DEF HandedOut, Known
  <2> QED
    BY <2>1, <2>2, <2>3, TaskListAnew DEF TaskListTyped
<1>14. CASE ReloadTab
  <2>1. /\ taskReqs' = {ListReq(company')} /\ tasks' = cache[company]
        /\ UNCHANGED <<company, cache, ocrJob, used>>
    BY <1>14 DEF ReloadTab, FirstShown
  <2>2. PICK on \in SUBSET {r.task : r \in {q \in taskReqs : q.kind \in {"create", "remove"}}} :
          row' = [t \in Task |-> IF \E r \in taskReqs : Sent(r, on) /\ r.task = t
                                   THEN (CHOOSE r \in taskReqs : Sent(r, on) /\ r.task = t).co
                                 ELSE IF t \in on THEN NoFirm ELSE row[t]]
    BY <1>14 DEF ReloadTab
  <2>3. ASSUME NEW t \in Task
        PROVE  row'[t] \in Firm \cup {NoFirm} /\ (row'[t] # NoFirm => t \in used)
    <3>1. CASE \E r \in taskReqs : Sent(r, on) /\ r.task = t
      <4>1. PICK r \in taskReqs : Sent(r, on) /\ r.task = t /\ row'[t] = r.co
        BY <3>1, <2>2
      <4> QED
        BY <4>1 DEF Sent, MadeOnce, InTheMaking, TaskListTyped, TaskReqs
    <3>2. CASE ~ \E r \in taskReqs : Sent(r, on) /\ r.task = t
      BY <3>2, <2>2 DEF TaskListTyped, HandedOut, Known
    <3> QED
      BY <3>1, <3>2
  <2>4. row' \in [Task -> Firm \cup {NoFirm}]
    BY <2>2, <2>3
  <2>5. \A t \in Task : row'[t] # NoFirm => t \in used
    BY <2>3
  <2> QED
    BY <2>1, <2>4, <2>5, TaskListAnew DEF TaskListTyped
<1>15. CASE Relogin
  <2>1. cache' \in [Firm -> SUBSET Task] /\ \A c \in Firm : cache'[c] \subseteq cache[c]
    BY <1>15 DEF Relogin
  <2>2. taskReqs' = {ListReq(company')} /\ tasks' = {} /\ UNCHANGED <<row, company, ocrJob, used>>
    BY <1>15 DEF Relogin
  <2>3. \A t \in Task : row'[t] # NoFirm => t \in used
    BY <2>2 DEF HandedOut, Known
  <2> QED
    BY <2>1, <2>2, <2>3, TaskListAnew DEF TaskListTyped
<1> QED
  BY <1>1, <1>2, <1>3, <1>5, <1>6, <1>7, <1>8, <1>9, <1>10, <1>11, <1>12, <1>13, <1>14, <1>15,
     TaskListServed, TaskListMerged DEF TaskNext

LEMMA TaskListHolds == TaskSpec => []TaskListInv
  BY TaskListStarts, TaskListSteps, PTL DEF TaskSpec

\* A task of the open company which the server has leaves the list only when the user deletes
\* it, changes the company, reloads or signs in again, for any number of tasks and companies and
\* in whatever order lists, creates and messages are answered or refused.  A task shown under
\* another company than its own (Foreign) is left out: a late 404 takes that one away.
THEOREM ListKeepsTasks == TaskSpec => NotDropped
<1>1. ASSUME TaskListInv, [TaskNext]_taskVars
      PROVE  [NotDroppedStep]_taskVars
  <2> SUFFICES ASSUME TaskNext, NEW t \in Task, t \in tasks, t \notin tasks', row[t] = company,
                      t \notin deleted', ~ SwitchFirm, ~ ReloadTab, ~ Relogin
               PROVE  Foreign(t)
    BY <1>1 DEF NotDroppedStep, Kept
  <2> USE DEF refs, cached, ids
  <2>1. ~ \E r \in taskReqs : TaskListAnswered(r)
    BY <1>1, TaskListMerged DEF TaskListAnswered
  <2>2. ~ DeleteTask
    BY DEF DeleteTask
  <2>3. ~ \E r \in taskReqs : TaskCreated(r) \/ CreateFailed(r)
    BY DEF TaskCreated, CreateFailed, Inserted
  <2>4. ~ (TypeFirst \/ SendMessage \/ UploadFiles \/ OpenJournal \/ OcrJobEnds \/ Open \/ NewChat \/ Prefetch)
    BY DEF TypeFirst, SendMessage, UploadFiles, OpenJournal, OcrJobEnds, Open, NewChat, Prefetch
  <2>5. ~ \E r \in taskReqs : \/ ListServed(r) \/ ListFailed(r) \/ Removed(r)
                             \/ MessagesAnswered(r) \/ MessagesFailed(r)
    BY DEF ListServed, ListFailed, Removed, MessagesAnswered, MessagesFailed
  <2>6. PICK r \in taskReqs : MessagesMissing(r)
    BY <2>1, <2>2, <2>3, <2>4, <2>5 DEF TaskNext
  <2> QED
    BY <2>6 DEF MessagesMissing, Foreign
<1> QED
  BY <1>1, TaskListHolds, PTL DEF TaskSpec, NotDropped

-----------------------------------------------------------------------------
(* The composer: what the state may hold, and the renders which follow a   *)
(* handler.  The first render after a task is opened still has the options *)
(* of the last one and keeps them under the new one; the second loads what *)
(* the new one had before and keeps that.                                  *)
TextOf   == {NoWords, Welcome} \cup Chat
Dialogs == {"none", "blocked", "incomplete"}
Uis == [mode : Mode, active : Chat \cup {NoChat}, input : TextOf, opts : Option, dialog : Dialogs,
        skip : BOOLEAN, pend : TextOf, drafts : [Chat \cup {NoChat} -> TextOf], stored : [Chat -> Option]]
Places == [mode : Mode, active : Chat \cup {NoChat}]
Makes  == [id : Chat, mode : Mode, how : {"menu", "report", "send", "typed", "blocked"}, text : TextOf,
           opts : Option, old : Places]

ComposerTyped ==
    /\ ui \in Uis /\ chatTasks \subseteq Chat /\ modes \in [Chat -> Mode] /\ before \in Places
    /\ makes \subseteq Makes
MakesApart == /\ \A k \in makes : k.id \notin chatTasks
              /\ \A k, l \in makes : k.id = l.id => k = l
ComposerInv == ComposerTyped /\ MakesApart

\* One render keeps the mode, and the open task unless the mode has changed.
LEMMA PassDoes ==
  ASSUME NEW p \in Uis, NEW n \in Uis, NEW was, NEW busy
  PROVE  LET a == Pass(p, n, was, busy)
         IN /\ a \in Uis /\ a.mode = n.mode /\ a.opts = Chips(p, n).opts /\ a.stored = Saved(n)
            /\ p.mode = n.mode => a.active = n.active
<1> DEFINE a == Pass(p, n, was, busy)
           blocks == Blocks(p, n, was, busy)
           shown  == IF p.active # n.active THEN n.drafts[n.active] ELSE n.input
<1>1. shown \in TextOf
  BY DEF Uis
<1>2. Drafted(p, n) \in [Chat \cup {NoChat} -> TextOf]
  BY DEF Uis, Drafted, DraftOf, TextOf
<1>3. Saved(n) \in [Chat -> Option]
  BY DEF Uis, Saved, InAp
<1>4. Chips(p, n).opts \in Option /\ Chips(p, n).stored = Saved(n)
  BY DEF Uis, Chips, LoadThenSave, InAp
<1>5. a = [n EXCEPT !.input  = IF blocks THEN NoWords ELSE shown,
                    !.drafts = Drafted(p, n),
                    !.opts   = Chips(p, n).opts, !.stored = Saved(n),
                    !.dialog = IF blocks THEN "blocked" ELSE @,
                    !.pend   = IF blocks THEN n.input ELSE @,
                    !.active = IF Deselects(p, n) THEN NoChat ELSE @,
                    !.skip   = IF p.mode # n.mode THEN FALSE ELSE @]
  BY <1>4 DEF Pass
<1>6. p.mode = n.mode => ~ Deselects(p, n)
  BY DEF Deselects
<1> DEFINE drafted == Drafted(p, n)
           stored  == Saved(n)
           chips   == Chips(p, n).opts
           input   == IF blocks THEN NoWords ELSE shown
           dialog  == IF blocks THEN "blocked" ELSE n.dialog
           pend    == IF blocks THEN n.input ELSE n.pend
           active  == IF Deselects(p, n) THEN NoChat ELSE n.active
           skip    == IF p.mode # n.mode THEN FALSE ELSE n.skip
<1>7. a = [n EXCEPT !.input = input, !.drafts = drafted, !.opts = chips, !.stored = stored,
                    !.dialog = dialog, !.pend = pend, !.active = active, !.skip = skip]
  BY <1>5
<1>8. /\ input \in TextOf /\ drafted \in [Chat \cup {NoChat} -> TextOf] /\ chips \in Option
      /\ stored \in [Chat -> Option] /\ dialog \in Dialogs /\ pend \in TextOf
      /\ active \in Chat \cup {NoChat} /\ skip \in BOOLEAN /\ (p.mode = n.mode => active = n.active)
  BY <1>1, <1>2, <1>3, <1>4, <1>6 DEF Uis, TextOf, Dialogs
<1> HIDE DEF a, drafted, stored, chips, input, dialog, pend, active, skip
<1>9. a \in Uis /\ a.mode = n.mode /\ a.opts = chips /\ a.stored = stored /\ a.active = active
  BY <1>7, <1>8 DEF Uis
<1> QED
  BY <1>8, <1>9 DEF a, chips, stored

\* With the mode kept, the renders which follow a change of the open task load its own options
\* and put back what the first of them had kept under it.
LEMMA SettleDoes ==
  ASSUME NEW p \in Uis, NEW n \in Uis, NEW o1, NEW o2
  PROVE  LET s == Settle(p, n, o1, o2)
         IN /\ s \in Uis /\ s.mode = n.mode
            /\ p.mode = n.mode /\ s.active # p.active => s.stored = n.stored
<1> DEFINE a == Pass(p, n, Busy(p, o1), Busy(n, o2))
           b == Pass(n, a, Busy(n, o2), Busy(a, o2))
           c == Pass(a, b, Busy(a, o2), Busy(b, o2))
           d == Pass(b, c, Busy(b, o2), Busy(c, o2))
<1>1. /\ a \in Uis /\ a.mode = n.mode /\ a.opts = Chips(p, n).opts /\ a.stored = Saved(n)
      /\ p.mode = n.mode => a.active = n.active
  BY PassDoes
<1> HIDE DEF a
<1>2. /\ b \in Uis /\ b.mode = a.mode /\ b.opts = Chips(n, a).opts /\ b.stored = Saved(a)
      /\ n.mode = a.mode => b.active = a.active
  BY <1>1, PassDoes
<1> HIDE DEF b
<1>3. /\ c \in Uis /\ c.mode = b.mode /\ c.opts = Chips(a, b).opts /\ c.stored = Saved(b)
      /\ a.mode = b.mode => c.active = b.active
  BY <1>1, <1>2, PassDoes
<1> HIDE DEF c
<1>4. /\ d \in Uis /\ d.mode = c.mode /\ d.opts = Chips(b, c).opts /\ d.stored = Saved(c)
      /\ b.mode = c.mode => d.active = c.active
  BY <1>2, <1>3, PassDoes
<1>5. Settle(p, n, o1, o2) = d
  BY DEF Settle, a, b, c
<1> HIDE DEF d
<1>6. ASSUME p.mode = n.mode, d.active # p.active
      PROVE  d.stored = n.stored
  <2>1. /\ a.active = n.active /\ b.active = n.active /\ c.active = n.active /\ n.active # p.active
        /\ b.mode = n.mode /\ c.mode = n.mode
    BY <1>1, <1>2, <1>3, <1>4, <1>6
  <2>2. CASE ~ InAp(n)
    BY <1>1, <1>2, <1>3, <1>4, <2>1, <2>2 DEF Saved, InAp
  <2>3. CASE InAp(n)
    <3> DEFINE t == n.active
    <3>1. t \in Chat /\ n.stored \in [Chat -> Option] /\ InAp(a) /\ InAp(b) /\ InAp(c)
      BY <1>1, <2>1, <2>3 DEF InAp, Uis
    <3>2. a.opts = n.stored[t] /\ a.stored = [n.stored EXCEPT ![t] = n.opts]
      BY <1>1, <2>1, <2>3 DEF Chips, LoadThenSave, Moved, Saved
    <3>3. b.opts = a.opts /\ b.stored = [a.stored EXCEPT ![t] = a.opts]
      BY <1>1, <1>2, <2>1, <3>1 DEF Chips, LoadThenSave, Moved, Saved
    <3>4. c.opts = b.opts /\ c.stored = [b.stored EXCEPT ![t] = b.opts]
      BY <1>1, <1>2, <1>3, <2>1, <3>1 DEF Chips, LoadThenSave, Moved, Saved
    <3>5. d.stored = [c.stored EXCEPT ![t] = c.opts]
      BY <1>4, <2>1, <3>1 DEF Saved
    <3>6. b.stored = n.stored
      BY <3>1, <3>2, <3>3
    <3> QED
      BY <3>1, <3>2, <3>3, <3>4, <3>5, <3>6
  <2> QED
    BY <2>2, <2>3
<1> QED
  BY <1>1, <1>2, <1>3, <1>4, <1>5, <1>6

LEMMA RenderDoes ==
  ASSUME ui \in Uis, NEW n \in Uis, \A t \in chatTasks : n.stored[t] = ui.stored[t], Render(n)
  PROVE  ui' \in Uis /\ SwitchKeepsOptionsStep
<1>1. PICK o1 : o1 = ocr
  OBVIOUS
<1>2. PICK o2 : o2 = ocr'
  OBVIOUS
<1>3. ui' = Settle(ui, n, o1, o2)
  BY <1>1, <1>2 DEF Render
<1>4. PICK p \in Uis : p = ui
  OBVIOUS
<1>5. /\ ui' \in Uis /\ ui'.mode = n.mode
      /\ p.mode = n.mode /\ ui'.active # p.active => ui'.stored = n.stored
  BY <1>3, <1>4, SettleDoes
<1> QED
  BY <1>4, <1>5 DEF SwitchKeepsOptionsStep

LEMMA MakingApart ==
  ASSUME ComposerInv, NEW m \in Mode, NEW how \in {"menu", "report", "send", "typed", "blocked"},
         NEW text \in TextOf, NEW opts \in Option, Making(m, how, text, opts), chatTasks' = chatTasks
  PROVE  makes' \subseteq Makes /\ MakesApart'
<1> USE DEF ComposerInv, ComposerTyped
<1>1. PICK t \in FreeTask : makes' = makes \cup {[id |-> t, mode |-> m, how |-> how, text |-> text, opts |-> opts,
                                                   old |-> Restore(ui.mode)]}
  BY DEF Making
<1>2. Restore(ui.mode) \in Places
  BY DEF Restore, Places, Uis
<1>3. t \in Chat /\ t \notin chatTasks /\ \A k \in makes : k.id # t
  BY DEF FreeTask
<1> DEFINE new == [id |-> t, mode |-> m, how |-> how, text |-> text, opts |-> opts, old |-> Restore(ui.mode)]
<1>4. new \in Makes /\ new.id = t /\ makes' = makes \cup {new}
  BY <1>1, <1>2, <1>3 DEF Makes
<1> HIDE DEF new
<1> QED
  BY <1>3, <1>4 DEF MakesApart

\* What most handlers do: nothing is made, the tasks stay, the page is rendered or not.
LEMMA HandlerQuiet ==
  ASSUME ComposerInv, NEW n \in Uis, n.stored = ui.stored, Render(n) \/ ui' = ui,
         UNCHANGED <<chatTasks, modes, makes>>, before' \in Places
  PROVE  ComposerInv' /\ SwitchKeepsOptionsStep
<1> USE DEF ComposerInv, ComposerTyped
<1>1. ui' \in Uis /\ SwitchKeepsOptionsStep
  BY RenderDoes DEF SwitchKeepsOptionsStep
<1> QED
  BY <1>1 DEF MakesApart

\* And those which make a task.
LEMMA HandlerMakes ==
  ASSUME ComposerInv, NEW n \in Uis, n.stored = ui.stored, Render(n) \/ ui' = ui,
         UNCHANGED <<chatTasks, modes>>, before' = before, makes' \subseteq Makes, MakesApart'
  PROVE  ComposerInv' /\ SwitchKeepsOptionsStep
<1> USE DEF ComposerInv, ComposerTyped
<1>1. ui' \in Uis /\ SwitchKeepsOptionsStep
  BY RenderDoes DEF SwitchKeepsOptionsStep
<1> QED
  BY <1>1

LEMMA EnsureApart ==
  ASSUME ComposerInv, NEW how \in {"typed", "blocked"}, NEW text \in TextOf, EnsureTask(how, text),
         chatTasks' = chatTasks
  PROVE  makes' \subseteq Makes /\ MakesApart'
<1> USE DEF ComposerInv, ComposerTyped
<1> DEFINE open == {k \in makes : k.how \in {"typed", "blocked"}}
<1>1. CASE makes' = makes
  BY <1>1 DEF MakesApart
<1>2. CASE makes' = (makes \ open) \cup {[k EXCEPT !.text = text, !.how = how] : k \in open}
  <2>1. \A k \in open : /\ [k EXCEPT !.text = text, !.how = how] \in Makes
                         /\ [k EXCEPT !.text = text, !.how = how].id = k.id
    BY DEF Makes
  <2>2. ASSUME NEW k \in makes'
        PROVE  \E l \in makes : /\ k.id = l.id /\ k \in Makes
                               /\ k = IF l \in open THEN [l EXCEPT !.text = text, !.how = how] ELSE l
    BY <1>2, <2>1
  <2>3. \A k \in makes' : k \in Makes /\ k.id \notin chatTasks
    BY <2>2 DEF MakesApart
  <2>4. ASSUME NEW k \in makes', NEW l \in makes', k.id = l.id
        PROVE  k = l
    <3>1. PICK k0 \in makes : /\ k.id = k0.id
                              /\ k = IF k0 \in open THEN [k0 EXCEPT !.text = text, !.how = how] ELSE k0
      BY <2>2
    <3>2. PICK l0 \in makes : /\ l.id = l0.id
                              /\ l = IF l0 \in open THEN [l0 EXCEPT !.text = text, !.how = how] ELSE l0
      BY <2>2
    <3>3. k0 = l0
      BY <2>4, <3>1, <3>2 DEF MakesApart
    <3> QED
      BY <3>1, <3>2, <3>3
  <2> HIDE DEF open
  <2> QED
    BY <2>3, <2>4 DEF MakesApart
<1>3. CASE Making(ui.mode, how, text, ChipsNow)
  <2>1. ui.mode \in Mode /\ ChipsNow \in Option
    BY DEF ChipsNow, Uis, Option
  <2> QED
    BY <1>3, <2>1, MakingApart
<1> QED
  BY <1>1, <1>2, <1>3 DEF EnsureTask

LEMMA ComposerStarts == ComposerInit => ComposerInv
  BY ComposerAssumption DEF ComposerInit, ComposerInv, ComposerTyped, MakesApart, Uis, TextOf,
     Dialogs, Mode, Option, Places

LEMMA ComposerSteps ==
  ASSUME ComposerInv, ComposerNext
  PROVE  ComposerInv' /\ SwitchKeepsOptionsStep
<1> USE DEF ComposerInv, ComposerTyped
<1>0. /\ ui \in Uis /\ ui.mode \in Mode /\ ui.active \in Chat \cup {NoChat} /\ ui.input \in TextOf
      /\ ui.opts \in Option /\ ui.pend \in TextOf /\ ui.skip \in BOOLEAN /\ ui.dialog \in Dialogs
      /\ before.mode \in Mode /\ before.active \in Chat \cup {NoChat}
      /\ NoWords \in TextOf /\ Welcome \in TextOf /\ Typed(ui.active) \in TextOf
      /\ ExitMode \in Mode /\ ChipsNow \in Option
  BY DEF Uis, Places, TextOf, Typed, ExitMode, ChipsNow, Option
<1>1. ASSUME NEW t \in Chat, OpenChat(t)
      PROVE  ComposerInv' /\ SwitchKeepsOptionsStep
  <2> DEFINE n == [ui EXCEPT !.active = t, !.mode = modes[t]]
  <2>1. before' \in Places /\ n \in Uis /\ n.stored = ui.stored
    BY <1>0, <1>1 DEF OpenChat, Restore, Places, Uis, Mode
  <2>2. Render(n) /\ UNCHANGED <<chatTasks, modes, makes>>
    BY <1>1 DEF OpenChat
  <2> HIDE DEF n
  <2> QED
    BY <2>1, <2>2, HandlerQuiet
<1>2. CASE ChatAnew
  <2> DEFINE n == [ui EXCEPT !.active = NoChat, !.mode = ExitMode]
  <2>1. n \in Uis /\ n.stored = ui.stored
    BY <1>0 DEF Uis
  <2>2. Render(n) /\ UNCHANGED <<chatTasks, modes, makes, before>>
    BY <1>2 DEF ChatAnew
  <2> HIDE DEF n
  <2> QED
    BY <2>1, <2>2, HandlerQuiet
<1>3. ASSUME NEW m \in Mode, PickMode(m)
      PROVE  ComposerInv' /\ SwitchKeepsOptionsStep
  <2>1. PICK a \in {ui.active, NoChat} : Render([ui EXCEPT !.mode = m, !.active = a])
    <3>1. [ui EXCEPT !.mode = m] = [ui EXCEPT !.mode = m, !.active = ui.active]
      BY <1>0 DEF Uis
    <3> QED
      BY <1>3, <3>1 DEF PickMode
  <2> DEFINE n == [ui EXCEPT !.mode = m, !.active = a]
  <2>2. n \in Uis /\ n.stored = ui.stored
    BY <1>0 DEF Uis
  <2>3. Render(n) /\ UNCHANGED <<chatTasks, modes, makes, before>>
    BY <1>3, <2>1 DEF PickMode
  <2> HIDE DEF n
  <2> QED
    BY <2>2, <2>3, HandlerQuiet
<1>4. ASSUME NEW m \in Mode, NewTask(m)
      PROVE  ComposerInv' /\ SwitchKeepsOptionsStep
  <2> DEFINE n == [ui EXCEPT !.skip = @ \/ m # ui.mode, !.mode = ExitMode,
                             !.active = IF ui.mode = "REPORT" THEN before.active ELSE @]
  <2>1. n \in Uis /\ n.stored = ui.stored
    BY <1>0 DEF Uis
  <2>2. Render(n) /\ Making(m, "menu", NoWords, "none") /\ UNCHANGED <<chatTasks, modes, before>>
    BY <1>4 DEF NewTask
  <2>3. makes' \subseteq Makes /\ MakesApart'
    BY <1>0, <2>2, MakingApart DEF Option
  <2> HIDE DEF n
  <2> QED
    BY <2>1, <2>2, <2>3, HandlerMakes
<1>5. CASE StartReport
  <2>1. Making("REPORT", "report", NoWords, "none") /\ UNCHANGED <<ui, chatTasks, modes, before>>
    BY <1>5 DEF StartReport
  <2>2. makes' \subseteq Makes /\ MakesApart'
    BY <1>0, <2>1, MakingApart DEF Option, Mode
  <2> QED
    BY <2>1, <2>2, HandlerMakes
<1>6. ASSUME NEW k \in makes, Made(k)
      PROVE  ComposerInv' /\ SwitchKeepsOptionsStep
  <2>1. PICK enters \in BOOLEAN, sends \in BOOLEAN, named \in BOOLEAN :
          Render([ui EXCEPT !.active = k.id, !.stored[k.id] = k.opts,
                            !.mode = IF enters THEN k.mode ELSE @,
                            !.input = IF sends /\ k.mode = "OTHER" THEN NoWords ELSE @,
                            !.drafts[k.id] = IF named THEN k.text ELSE @,
                            !.dialog = IF k.how = "blocked" THEN "blocked" ELSE @])
    BY <1>6 DEF Made
  <2> DEFINE n == [ui EXCEPT !.active = k.id, !.stored[k.id] = k.opts,
                             !.mode = IF enters THEN k.mode ELSE @,
                             !.input = IF sends /\ k.mode = "OTHER" THEN NoWords ELSE @,
                             !.drafts[k.id] = IF named THEN k.text ELSE @,
                             !.dialog = IF k.how = "blocked" THEN "blocked" ELSE @]
  <2>2. k \in Makes /\ k.id \in Chat /\ k.opts \in Option /\ k.mode \in Mode /\ k.text \in TextOf /\ k.old \in Places
    BY DEF Makes
  <2>3. n \in Uis /\ n.stored = [ui.stored EXCEPT ![k.id] = k.opts]
    BY <1>0, <2>2 DEF Uis, Dialogs
  <2>4. \A t \in chatTasks : n.stored[t] = ui.stored[t]
    BY <1>0, <2>2, <2>3 DEF MakesApart, Uis
  <2>5. Render(n)
    BY <2>1
  <2> HIDE DEF n
  <2>6. ui' \in Uis /\ SwitchKeepsOptionsStep
    BY <2>3, <2>4, <2>5, RenderDoes
  <2>7. /\ makes' = makes \ {k} /\ modes' = [modes EXCEPT ![k.id] = k.mode]
        /\ chatTasks' = chatTasks \cup {k.id} /\ before' \in {before, k.old}
    BY <1>6 DEF Made
  <2>8. ComposerTyped'
    BY <2>2, <2>6, <2>7
  <2>9. MakesApart'
    BY <2>7 DEF MakesApart
  <2> QED
    BY <2>6, <2>8, <2>9
<1>7. CASE TypeText
  <2>1. PICK text \in {NoWords, Typed(ui.active)}, how \in {"typed", "blocked"} :
          /\ EnsureTask(how, text)
          /\ \/ Render([ui EXCEPT !.pend = text, !.dialog = IF ui.active # NoChat THEN "blocked" ELSE @])
             \/ Render([ui EXCEPT !.input = text])
    BY <1>7 DEF TypeText
  <2>2. PICK n \in Uis : n.stored = ui.stored /\ Render(n)
    <3>1. /\ [ui EXCEPT !.pend = text, !.dialog = IF ui.active # NoChat THEN "blocked" ELSE @] \in Uis
          /\ [ui EXCEPT !.pend = text, !.dialog = IF ui.active # NoChat THEN "blocked" ELSE @].stored = ui.stored
          /\ [ui EXCEPT !.input = text] \in Uis
          /\ [ui EXCEPT !.input = text].stored = ui.stored
      BY <1>0 DEF Uis, Dialogs
    <3> QED
      BY <2>1, <3>1
  <2>3. UNCHANGED <<chatTasks, modes, before>>
    BY <1>7 DEF TypeText
  <2>4. makes' \subseteq Makes /\ MakesApart'
    BY <1>0, <2>1, <2>3, EnsureApart
  <2> QED
    BY <2>2, <2>3, <2>4, HandlerMakes
<1>8. ASSUME NEW o \in Option, Choose(o)
      PROVE  ComposerInv' /\ SwitchKeepsOptionsStep
  <2> DEFINE n == [ui EXCEPT !.opts = o]
  <2>1. n \in Uis /\ n.stored = ui.stored
    BY <1>0 DEF Uis
  <2>2. Render(n) /\ UNCHANGED <<chatTasks, modes, makes, before>>
    BY <1>8 DEF Choose
  <2> HIDE DEF n
  <2> QED
    BY <2>1, <2>2, HandlerQuiet
<1>9. CASE CloseBlocked
  <2>1. PICK pend \in TextOf, opts \in Option, input \in TextOf :
          Render([ui EXCEPT !.dialog = "none", !.pend = pend, !.opts = opts, !.input = input])
    <3> DEFINE rest == IF ui.dialog = "blocked" THEN NoWords ELSE ui.pend
    <3>1. /\ [ui EXCEPT !.dialog = "none", !.pend = IF ui.dialog = "blocked" THEN NoWords ELSE @]
                 = [ui EXCEPT !.dialog = "none", !.pend = rest, !.opts = ui.opts, !.input = ui.input]
          /\ rest \in TextOf
      BY <1>0 DEF Uis
    <3>2. CASE Render([ui EXCEPT !.dialog = "none", !.pend = NoWords, !.opts = "none", !.input = ui.pend])
      BY <1>0, <3>2 DEF Option
    <3>3. CASE Render([ui EXCEPT !.dialog = "none", !.pend = IF ui.dialog = "blocked" THEN NoWords ELSE @])
      <4> HIDE DEF rest
      <4>1. Render([ui EXCEPT !.dialog = "none", !.pend = rest, !.opts = ui.opts, !.input = ui.input])
        BY <3>1, <3>3
      <4> QED
        BY <1>0, <3>1, <4>1
    <3> QED
      BY <1>9, <3>2, <3>3 DEF CloseBlocked
  <2> DEFINE n == [ui EXCEPT !.dialog = "none", !.pend = pend, !.opts = opts, !.input = input]
  <2>2. n \in Uis /\ n.stored = ui.stored
    BY <1>0 DEF Uis, Dialogs
  <2>3. Render(n) /\ UNCHANGED <<chatTasks, modes, makes, before>>
    BY <1>9, <2>1 DEF CloseBlocked
  <2> HIDE DEF n
  <2> QED
    BY <2>2, <2>3, HandlerQuiet
<1>10. CASE Attach \/ SendBlocked \/ SendReport \/ SendBank \/ \E t \in Chat : OcrEnds(t) \/ RoundEnds(t)
  <2>1. /\ ui \in Uis
        /\ [ui EXCEPT !.dialog = "incomplete"] \in Uis /\ [ui EXCEPT !.dialog = "incomplete"].stored = ui.stored
        /\ [ui EXCEPT !.input = NoWords] \in Uis /\ [ui EXCEPT !.input = NoWords].stored = ui.stored
        /\ [ui EXCEPT !.dialog = "blocked", !.pend = ui.input, !.input = NoWords] \in Uis
        /\ [ui EXCEPT !.dialog = "blocked", !.pend = ui.input, !.input = NoWords].stored = ui.stored
    BY <1>0 DEF Uis, Dialogs
  <2>2. UNCHANGED <<chatTasks, modes, makes, before>>
    BY <1>10 DEF Attach, SendBlocked, SendReport, SendBank, OcrEnds, RoundEnds
  <2>3. PICK n \in Uis : n.stored = ui.stored /\ (Render(n) \/ ui' = ui)
    BY <1>10, <2>1 DEF Attach, SendBlocked, SendReport, SendBank, OcrEnds, RoundEnds
  <2> QED
    BY <2>2, <2>3, HandlerQuiet
<1>11. CASE SendChat
  <2>1. UNCHANGED <<chatTasks, modes, before>>
    BY <1>11 DEF SendChat
  <2>2. CASE ui.active = NoChat
    <3>1. makes' \subseteq Makes /\ MakesApart' /\ ui' = ui
      BY <1>0, <1>11, <2>1, <2>2, MakingApart DEF SendChat
    <3> QED
      BY <2>1, <3>1, HandlerMakes
  <2>3. CASE ui.active # NoChat
    <3> DEFINE n == [ui EXCEPT !.input = IF ui.mode = "OTHER" THEN NoWords ELSE @]
    <3>1. n \in Uis /\ n.stored = ui.stored
      BY <1>0 DEF Uis
    <3>2. Render(n) /\ makes' = makes
      BY <1>11, <2>3 DEF SendChat
    <3> HIDE DEF n
    <3> QED
      BY <2>1, <3>1, <3>2, HandlerQuiet
  <2> QED
    BY <2>2, <2>3
<1> QED
  BY <1>1, <1>2, <1>3, <1>4, <1>5, <1>6, <1>7, <1>8, <1>9, <1>10, <1>11 DEF ComposerNext

LEMMA ComposerHolds == ComposerSpec => []ComposerInv
<1>1. ASSUME ComposerInv, [ComposerNext]_composer
      PROVE  ComposerInv'
  <2>1. CASE UNCHANGED composer
    BY <1>1, <2>1 DEF composer, ComposerInv, ComposerTyped, MakesApart
  <2> QED
    BY <1>1, <2>1, ComposerSteps
<1> QED
  BY <1>1, ComposerStarts, PTL DEF ComposerSpec

\* Going from one task to another of the same mode leaves the AP options kept for every task
\* alone, for any number of tasks and whatever drafts, dialogs and requests there are: the
\* renders which follow put back what the first of them had kept (WorkspaceApp.tsx).
THEOREM OptionsKept == ComposerSpec => SwitchKeepsOptions
<1>1. ASSUME ComposerInv, [ComposerNext]_composer
      PROVE  [SwitchKeepsOptionsStep]_composer
  BY <1>1, ComposerSteps
<1> QED
  BY <1>1, ComposerHolds, PTL DEF ComposerSpec, SwitchKeepsOptions
==============================================================================
