---------------------------- MODULE AuthSession ----------------------------
(***************************************************************************)
(* The browser session of AuthContext.tsx and the call layer of api.ts: a  *)
(* refresh cookie that rotates on every use, an access token that expires, *)
(* the silent restore on mount, login, logout, and calls that answer a 401 *)
(* by one shared refresh and one retry.                                    *)
(*                                                                         *)
(* A ticket is the number of an issued session: the refresh cookie and the *)
(* access token issued together carry it.  holder[t] is the person of      *)
(* ticket t, stored[p] the ticket whose hash the server keeps for p.  The  *)
(* server's work and the arrival of its answer are one step, except that a *)
(* request carries the cookie or the token the browser held when it left.  *)
(* The cookie is set for the path /auth/refresh: no other request has it.  *)
(***************************************************************************)
EXTENDS Naturals, FiniteSets

CONSTANTS Person,      \* the accounts
          NoOne,       \* null user
          Caller,      \* concurrent API calls
          Axios,       \* those made through axios; the others use apiFetch
          MaxTicket,   \* bound: sessions issued
          MaxActs      \* bound: what the user does

SessionAssumption ==
    /\ NoOne \notin Person /\ Axios \subseteq Caller
    /\ MaxTicket \in Nat /\ MaxActs \in Nat

Ticket == 0..MaxTicket        \* 0: no cookie, no token

VARIABLES
    holder, stored, expired,    \* server: owner of a ticket, stored hash, dead access tokens
    cookie, token, user,        \* browser: refresh cookie, access token, signed-in user
    isLoading, restore,         \* silent restore: 0 done, or its step and ticket
    signIn, byes,               \* login in progress; logout requests on the wire
    flight, cooling,            \* the shared refresh, the cooldown after its failure
    call,                       \* per caller: state and token sent
    issued, acts

session == <<holder, stored, expired, cookie, token, user, isLoading, restore,
             signIn, byes, flight, cooling, call, issued, acts>>

Idle   == [at |-> "idle", t |-> 0]
NoWork == [at |-> "none", t |-> 0, who |-> NoOne]

SessionInit ==
    /\ \E p \in Person : /\ holder = [t \in Ticket |-> IF t = 1 THEN p ELSE NoOne]
                         /\ stored = [q \in Person |-> IF q = p THEN 1 ELSE 0]
    /\ expired = {} /\ issued = 1
    /\ cookie \in {0, 1}
    /\ token = 0 /\ user = NoOne /\ isLoading = TRUE
    /\ restore = [at |-> "refresh", t |-> cookie, who |-> NoOne]
    /\ signIn = NoWork /\ byes = {}
    /\ flight = NoWork /\ cooling = FALSE
    /\ call = [c \in Caller |-> Idle]
    /\ acts = 0

UserAct == acts < MaxActs /\ acts' = acts + 1

(* ------------------------------- the server -------------------------------- *)
Honoured(t) == t > 0 /\ stored[holder[t]] = t      \* the hash of the refresh cookie
Accepted(t) == t > 0 /\ t \notin expired           \* the access token

\* _issue_session_tokens: a new refresh hash replaces the stored one
Issue(p) ==
    /\ issued < MaxTicket
    /\ issued' = issued + 1
    /\ holder' = [holder EXCEPT ![issued + 1] = p]
    /\ stored' = [stored EXCEPT ![p] = issued + 1]

\* A refresh that carried ticket t is rotated,
Rotated(t) == Honoured(t) /\ Issue(holder[t]) /\ cookie' = issued + 1

\* refused, because no hash matches or because the lifetime of the ticket is over, when its
\* hash is forgotten too (the exception that makes the answer drops the cleared cookie),
Refused(t) ==
    /\ stored' = IF Honoured(t) THEN [stored EXCEPT ![holder[t]] = 0] ELSE stored
    /\ UNCHANGED <<cookie, holder, issued>>

\* or lost, before the server worked or on the way back.
Lost(t) ==
    /\ UNCHANGED cookie
    /\ \/ UNCHANGED <<holder, stored, issued>>
       \/ Honoured(t) /\ Issue(holder[t])

Expire ==
    /\ token > 0 /\ token \notin expired
    /\ expired' = expired \cup {token}
    /\ UNCHANGED <<holder, stored, cookie, token, user, isLoading, restore, signIn, byes,
                   flight, cooling, call, issued, acts>>

\* All sessions of a person are revoked: no token of theirs is accepted any longer.  From
\* this browser the answer clears the cookie and a logout follows; with no answer the
\* panel shows the error, as if it had been done from another one.
RevokeSessions ==
    /\ UserAct
    /\ \E p \in Person :
         /\ stored' = [stored EXCEPT ![p] = 0]
         /\ expired' = expired \cup {t \in 1..issued : holder[t] = p}
         /\ \/ UNCHANGED <<cookie, byes>>
            \/ /\ Accepted(token) /\ holder[token] = p /\ user # NoOne /\ ~isLoading
               /\ cookie' = 0
               /\ byes' = byes \cup {[sent |-> issued, ends |-> TRUE]}
    /\ UNCHANGED <<holder, token, user, isLoading, restore, signIn, flight, cooling, call,
                   issued>>

(* --------------------------- the silent restore ----------------------------- *)
RestoreRefreshed ==
    /\ restore.at = "refresh"
    /\ Rotated(restore.t)
    /\ cooling' = FALSE
    /\ restore' = [at |-> "me", t |-> issued + 1, who |-> holder[restore.t]]
    /\ UNCHANGED <<expired, token, user, isLoading, signIn, byes, flight, call, acts>>

\* catch: stay on login; finally: loading is over
RestoreOver ==
    /\ restore' = NoWork /\ isLoading' = FALSE
    /\ UNCHANGED <<expired, signIn, byes, flight, cooling, call, acts>>

RestoreFailed ==
    /\ restore.at \in {"refresh", "me", "companies"}
    /\ \/ restore.at = "refresh" /\ (Refused(restore.t) \/ Lost(restore.t))
       \/ restore.at # "refresh" /\ UNCHANGED <<holder, stored, cookie, issued>>
    /\ RestoreOver
    /\ UNCHANGED <<token, user>>

RestoreMe ==
    /\ restore.at = "me" /\ restore.t \notin expired
    /\ token' = restore.t /\ user' = restore.who
    /\ restore' = [restore EXCEPT !.at = "companies"]
    /\ UNCHANGED <<holder, stored, expired, cookie, isLoading, signIn, byes, flight, cooling,
                   call, issued, acts>>

RestoreCompanies ==
    /\ restore.at = "companies"
    /\ RestoreOver
    /\ UNCHANGED <<holder, stored, cookie, token, user, issued>>

(* ---------------------------- login and logout ------------------------------ *)
\* LoginPage is shown to everybody; it does not wait for the restore
Login ==
    /\ UserAct
    /\ user = NoOne /\ signIn.at = "none"
    /\ \E p \in Person : signIn' = [at |-> "login", t |-> 0, who |-> p]
    /\ UNCHANGED <<holder, stored, expired, cookie, token, user, isLoading, restore, byes,
                   flight, cooling, call, issued>>

LoginAnswered ==
    /\ signIn.at = "login"
    /\ Issue(signIn.who) /\ cookie' = issued + 1
    /\ signIn' = [signIn EXCEPT !.at = "me", !.t = issued + 1]
    /\ UNCHANGED <<expired, token, user, isLoading, restore, byes, flight, cooling, call, acts>>

\* finishLoginWithAccessToken, after getMe
LoginFinished ==
    /\ signIn.at = "me" /\ signIn.t \notin expired
    /\ token' = signIn.t /\ user' = signIn.who /\ cooling' = FALSE
    /\ signIn' = NoWork
    /\ UNCHANGED <<holder, stored, expired, cookie, isLoading, restore, byes, flight, call,
                   issued, acts>>

LoginFailed ==
    /\ signIn.at \in {"login", "me"}
    /\ signIn' = NoWork
    /\ UNCHANGED <<holder, stored, expired, cookie, token, user, isLoading, restore, byes,
                   flight, cooling, call, issued, acts>>

Logout ==
    /\ UserAct
    /\ user # NoOne /\ ~isLoading
    /\ byes' = byes \cup {[sent |-> issued, ends |-> TRUE]}
    /\ UNCHANGED <<holder, stored, expired, cookie, token, user, isLoading, restore, signIn,
                   flight, cooling, call, issued>>

\* The answer clears the browser's cookie, whichever that is by now.  The request did not
\* have it, so the server finds no hash to forget; the answer may be lost.
ByeServed == cookie' \in {0, cookie} /\ UNCHANGED stored

ByeAnswered ==
    \E b \in byes :
        /\ ByeServed
        /\ byes' = byes \ {b}
        /\ IF b.ends THEN token' = 0 /\ user' = NoOne /\ cooling' = FALSE
                     ELSE UNCHANGED <<token, user, cooling>>
        /\ UNCHANGED <<holder, expired, isLoading, restore, signIn, flight, call, issued, acts>>

(* ------------------------------ API calls ----------------------------------- *)
\* The shell polls while somebody is signed in.
Send(c) ==
    /\ user # NoOne /\ ~isLoading
    /\ call[c].at = "idle"
    /\ call' = [call EXCEPT ![c] = [at |-> "sent", t |-> token]]
    /\ UNCHANGED <<holder, stored, expired, cookie, token, user, isLoading, restore, signIn,
                   byes, flight, cooling, issued, acts>>

\* Answered, refused a second time, or a network error turned into a 503: whatever the
\* token, a call may end without a refresh.
CallEnds(c) ==
    /\ call[c].at \in {"sent", "retry"}
    /\ call' = [call EXCEPT ![c] = Idle]
    /\ UNCHANGED <<holder, stored, expired, cookie, token, user, isLoading, restore, signIn,
                   byes, flight, cooling, issued, acts>>

\* onApiRefreshFailure: log the server out without waiting, forget the session
Forgotten ==
    /\ byes' = byes \cup {[sent |-> issued, ends |-> FALSE]}
    /\ token' = 0 /\ user' = NoOne

\* 401 while cooling down: apiFetch returns it, axios rejects and clears the session
RefusedCooling(c) ==
    /\ call[c].at = "sent" /\ ~Accepted(call[c].t) /\ cooling
    /\ IF c \in Axios THEN Forgotten ELSE UNCHANGED <<byes, token, user>>
    /\ call' = [call EXCEPT ![c] = Idle]
    /\ UNCHANGED <<holder, stored, expired, cookie, isLoading, restore, signIn, flight, cooling,
                   issued, acts>>

\* refreshAccessTokenShared: join the refresh in flight, or start one
Refuse(c) ==
    /\ call[c].at = "sent" /\ ~Accepted(call[c].t) /\ ~cooling
    /\ call' = [call EXCEPT ![c].at = "waiting"]
    /\ flight' = IF flight.at = "none" THEN [at |-> "sent", t |-> cookie, who |-> NoOne] ELSE flight
    /\ UNCHANGED <<holder, stored, expired, cookie, token, user, isLoading, restore, signIn,
                   byes, cooling, issued, acts>>

Waiters(at, t) == [c \in Caller |-> IF call[c].at = "waiting" THEN [at |-> at, t |-> t] ELSE call[c]]

FlightKept == [flight EXCEPT !.at = "done"]                     \* (bug) no .finally
FlightOver == NoWork                                            \* .finally

Refreshed ==
    /\ flight.at = "sent"
    /\ Rotated(flight.t)
    /\ token' = issued + 1 /\ cooling' = FALSE
    /\ call' = Waiters("retry", issued + 1)
    /\ flight' = FlightOver
    /\ UNCHANGED <<expired, user, isLoading, restore, signIn, byes, acts>>

RefreshFailed ==
    /\ flight.at = "sent"
    /\ Refused(flight.t) \/ Lost(flight.t)
    /\ cooling' = TRUE
    /\ Forgotten
    /\ call' = Waiters("idle", 0)
    /\ flight' = FlightOver
    /\ UNCHANGED <<expired, isLoading, restore, signIn, acts>>

CooldownEnds ==
    /\ cooling /\ cooling' = FALSE
    /\ UNCHANGED <<holder, stored, expired, cookie, token, user, isLoading, restore, signIn,
                   byes, flight, call, issued, acts>>

SessionNext ==
    \/ Expire \/ RevokeSessions
    \/ RestoreRefreshed \/ RestoreFailed \/ RestoreMe \/ RestoreCompanies
    \/ Login \/ LoginAnswered \/ LoginFinished \/ LoginFailed
    \/ Logout \/ ByeAnswered
    \/ \E c \in Caller : Send(c) \/ CallEnds(c) \/ RefusedCooling(c) \/ Refuse(c)
    \/ Refreshed \/ RefreshFailed \/ CooldownEnds

\* The shell's polls go on, every request is answered, if only with a timeout, and not
\* every poll with an expired token meets a network error.
Answered == /\ \A c \in Caller : WF_session(Send(c) \/ CallEnds(c) \/ RefusedCooling(c) \/ Refuse(c))
            /\ SF_session(\E c \in Caller : RefusedCooling(c) \/ Refuse(c))
            /\ WF_session(Refreshed \/ RefreshFailed)
            /\ WF_session(RestoreRefreshed \/ RestoreFailed \/ RestoreMe \/ RestoreCompanies)

SessionSpec == SessionInit /\ [][SessionNext]_session /\ Answered

(* -------------------------------- properties -------------------------------- *)
\* An expired access token does not stay: the next refused poll renews it, or the
\* session is cleared and the login page shown (api.ts refreshAccessTokenShared,
\* apiFetch, the axios interceptor and the failure handler together).
Expired(t)  == user # NoOne /\ token = t /\ t \in expired
Replaced(t) == token # t \/ user = NoOne
ExpiredIsReplaced == \A t \in 1..MaxTicket : Expired(t) ~> Replaced(t)
=============================================================================
