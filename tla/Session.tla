------------------------------- MODULE Session -------------------------------
(***************************************************************************)
(* Who is logged in: the browser session, the role checks of the pages and *)
(* those of the backend (frontend/src/hooks/use-auth.ts, api/client.ts,    *)
(* router/guards.ts, backend/internal/middleware/auth.go,                  *)
(* service/security.go).                                                   *)
(*                                                                         *)
(* The tabs of one browser share the stored session, from which the token  *)
(* of every request is taken; each tab shows the session its own signal    *)
(* holds.  The two are written together but cleared apart: by a 401, by a  *)
(* failed restore, by the logout of another tab.                           *)
(***************************************************************************)
EXTENDS Naturals

CONSTANTS
    Tab,      \* the tabs of one browser in which the application is open
    User,     \* the accounts
    RoleOf,   \* the role of each account, which nothing changes
    Token,    \* bound: the tokens the backend can issue
    Claims,   \* the account that a token names, signed into it
    None      \* no token, no user

RoleRank == [viewer |-> 1, operator |-> 2, reviewer |-> 3, admin |-> 4]

ASSUME RoleOfAssumption == RoleOf \in [User -> DOMAIN RoleRank]

ASSUME ClaimsAssumption == Claims \in [Token -> User]

ASSUME NoneAssumption == None \notin Token \cup User

VARIABLES
    storage,   \* the session in localStorage
    session,   \* the session signal of each tab
    auth,      \* the restore or login under way in a tab: it hides the pages
    data,      \* a request of the pages of a tab, under way
    issued,    \* the tokens issued so far
    expired    \* the issued tokens that are no longer accepted

vars == <<storage, session, auth, data, issued, expired>>

-----------------------------------------------------------------------------
(* name stands for username, display name and role: they always come from   *)
(* one answer of the backend.                                               *)

NoSession == [token |-> None, name |-> None]

UserSession == [token : Token, name : User] \cup {NoSession}

Idle == [stage |-> "idle"]

Restoring(cached, bearer) ==
    [kind |-> "restore", stage |-> "sent", cached |-> cached, bearer |-> bearer]

LoggingIn == [kind |-> "login", stage |-> "sent"]

\* A page that offers decisions on checks to every operator.
PageMinimumLax ==
    [list |-> "viewer", create |-> "operator", moveManifest |-> "operator",
     reviewLicence |-> "reviewer", decideCheck |-> "operator",
     readAudit |-> "reviewer"]

\* The requests of the pages, and the least role for which each is offered:
\* buttons, navigation and guards.
PageMinimum ==
    [list |-> "viewer", create |-> "operator", moveManifest |-> "operator",
     reviewLicence |-> "reviewer", decideCheck |-> "reviewer",
     readAudit |-> "reviewer"]

\* The least role that the routes of the backend ask for.
RouteMinimum ==
    [list |-> "viewer", create |-> "operator", moveManifest |-> "operator",
     reviewLicence |-> "reviewer", decideCheck |-> "reviewer",
     readAudit |-> "reviewer"]

Operation == DOMAIN PageMinimum

HasMinimumRole(name, minimum) ==
    name # None /\ RoleRank[RoleOf[name]] >= RoleRank[minimum]

RequireMinimumRole(name, minimum) == RoleRank[RoleOf[name]] >= RoleRank[minimum]

\* Authenticate: a token that was issued here and is still good.
Accepted(bearer) == bearer \in issued \ expired

\* Every tab stands at the login page.
Init ==
    /\ issued = {}
    /\ expired = {}
    /\ storage = NoSession
    /\ session = [t \in Tab |-> NoSession]
    /\ auth = [t \in Tab |-> Idle]
    /\ data = [t \in Tab |-> Idle]

-----------------------------------------------------------------------------
(* What the user does in a tab. *)

\* The application starts, or is reloaded: the signal is read from the store
\* and restore() asks the backend whose session this is.
Open(t) ==
    /\ session' = [session EXCEPT ![t] = storage]
    /\ auth' = [auth EXCEPT ![t] = IF storage = NoSession THEN Idle
                                   ELSE Restoring(storage, storage.token)]
    /\ data' = [data EXCEPT ![t] = Idle]
    /\ UNCHANGED <<storage, issued, expired>>

\* Only a tab without a session shows the login page.
Login(t) ==
    /\ session[t] = NoSession
    /\ auth[t] = Idle
    /\ auth' = [auth EXCEPT ![t] = LoggingIn]
    /\ UNCHANGED <<storage, session, data, issued, expired>>

\* A logout that leaves the stored session behind.
LogoutHere(t) ==
    /\ session[t] # NoSession
    /\ auth[t] = Idle
    /\ session' = [session EXCEPT ![t] = NoSession]
    /\ UNCHANGED <<storage, auth, data, issued, expired>>

Logout(t) ==
    /\ session[t] # NoSession
    /\ auth[t] = Idle
    /\ storage' = NoSession
    /\ session' = [session EXCEPT ![t] = NoSession]
    /\ UNCHANGED <<auth, data, issued, expired>>

\* What is offered goes by the session of the tab, what is sent by the stored
\* one.
Request(t, op) ==
    /\ auth[t] = Idle
    /\ data[t] = Idle
    /\ HasMinimumRole(session[t].name, PageMinimum[op])
    /\ data' = [data EXCEPT ![t] = [stage |-> "sent", op |-> op,
                                    bearer |-> storage.token,
                                    shown |-> session[t].token]]
    /\ UNCHANGED <<storage, session, auth, issued, expired>>

-----------------------------------------------------------------------------
(* What the backend does. *)

Expire(k) ==
    /\ k \in issued \ expired
    /\ expired' = expired \cup {k}
    /\ UNCHANGED <<storage, session, auth, data, issued>>

Answer(t, answer) ==
    /\ auth[t].stage = "sent"
    /\ auth' = [auth EXCEPT ![t] = answer]
    /\ UNCHANGED <<storage, session, data, expired>>

\* GET /session: the claims of the token that came with the request.
ServeRestore(t) ==
    /\ auth[t].stage = "sent" /\ auth[t].kind = "restore"
    /\ Answer(t, IF Accepted(auth[t].bearer)
                 THEN [kind |-> "restore", stage |-> "granted",
                       cached |-> auth[t].cached, live |-> Claims[auth[t].bearer]]
                 ELSE [kind |-> "restore", stage |-> "denied"])
    /\ UNCHANGED issued

\* POST /auth/login: a token, or 401 for credentials that do not fit.
ServeLogin(t) ==
    /\ auth[t].stage = "sent" /\ auth[t].kind = "login"
    /\ \/ \E k \in Token \ issued :
             /\ issued' = issued \cup {k}
             /\ Answer(t, [kind |-> "login", stage |-> "granted",
                           next |-> [token |-> k, name |-> Claims[k]]])
       \/ /\ Answer(t, [kind |-> "login", stage |-> "denied"])
          /\ UNCHANGED issued

\* Rate limited, a failure of the backend, or the connection breaks.
FailAuth(t) ==
    /\ auth[t].stage \in {"sent", "granted"}
    /\ auth' = [auth EXCEPT ![t] = [kind |-> auth[t].kind, stage |-> "failed"]]
    /\ UNCHANGED <<storage, session, data, issued, expired>>

\* An answer other than 401 changes nothing about the session: the request is
\* over.
EndData(t, next) ==
    /\ data' = [data EXCEPT ![t] = next]
    /\ UNCHANGED <<storage, session, auth, issued, expired>>

Sent(t) == data[t].stage = "sent"

\* 403: the role of the token is too low for the route.
Forbid(t) ==
    /\ Sent(t)
    /\ Accepted(data[t].bearer)
    /\ ~RequireMinimumRole(Claims[data[t].bearer], RouteMinimum[data[t].op])
    /\ EndData(t, Idle)

\* Carried out under the name of the token, or failed for another reason.
Serve(t) ==
    /\ Sent(t)
    /\ Accepted(data[t].bearer)
    /\ RequireMinimumRole(Claims[data[t].bearer], RouteMinimum[data[t].op])
    /\ EndData(t, Idle)

\* 401: no token, or one that has expired.
Deny(t) ==
    /\ Sent(t)
    /\ ~Accepted(data[t].bearer)
    /\ EndData(t, [stage |-> "denied"])

LoseData(t) == data[t] # Idle /\ EndData(t, Idle)

-----------------------------------------------------------------------------
(* What the tab does with an answer. *)

Settle(t, stored, shown) ==
    /\ storage' = stored
    /\ session' = [session EXCEPT ![t] = shown]
    /\ auth' = [auth EXCEPT ![t] = Idle]
    /\ UNCHANGED <<data, issued, expired>>

\* A restore that takes the token from the store when the answer is there.
RestoredFresh(t) ==
    /\ auth[t].stage = "granted" /\ auth[t].kind = "restore"
    /\ LET next == [token |-> storage.token, name |-> auth[t].live] IN
       Settle(t, next, next)

\* {...cached, ...live}: the token read before the request was sent, with the
\* user it was answered for.
Restored(t) ==
    /\ auth[t].stage = "granted" /\ auth[t].kind = "restore"
    /\ LET next == [token |-> auth[t].cached.token, name |-> auth[t].live] IN
       Settle(t, next, next)

\* restore() takes any failure for the end of the session.
NotRestored(t) ==
    /\ auth[t].stage \in {"denied", "failed"} /\ auth[t].kind = "restore"
    /\ Settle(t, NoSession, NoSession)

LoggedIn(t) ==
    /\ auth[t].stage = "granted" /\ auth[t].kind = "login"
    /\ Settle(t, auth[t].next, auth[t].next)

\* The 401 of a wrong password clears the stored session as any 401 does.
NotLoggedIn(t) ==
    /\ auth[t].stage \in {"denied", "failed"} /\ auth[t].kind = "login"
    /\ Settle(t, IF auth[t].stage = "denied" THEN NoSession ELSE storage, session[t])

\* request() clears the stored session, whichever it is by now, and leaves the
\* signal alone.
Denied(t) ==
    /\ data[t].stage = "denied"
    /\ storage' = NoSession
    /\ data' = [data EXCEPT ![t] = Idle]
    /\ UNCHANGED <<session, auth, issued, expired>>

AuthStep(t) ==
    \/ Open(t) \/ Login(t) \/ Logout(t)
    \/ ServeRestore(t) \/ ServeLogin(t) \/ FailAuth(t)
    \/ Restored(t) \/ NotRestored(t) \/ LoggedIn(t) \/ NotLoggedIn(t)

DataStep(t) ==
    \/ \E op \in Operation : Request(t, op)
    \/ Forbid(t) \/ Serve(t) \/ Deny(t) \/ LoseData(t) \/ Denied(t)

Next ==
    \/ \E t \in Tab : AuthStep(t) \/ DataStep(t)
    \/ \E k \in Token : Expire(k)

\* No fairness: the user may stop, and a request may never be answered.
Spec == Init /\ [][Next]_vars

-----------------------------------------------------------------------------
(* A session, stored or shown, never joins the token of one user with the
   name and role of another, although restore() puts it together from what it
   read before the await and what it got after it, with other tabs logging in
   and out meanwhile (use-auth.ts:20-32). *)
Genuine(s) ==
    \/ s = NoSession
    \/ s.token \in Token /\ s.name = Claims[s.token]

SessionsGenuine == Genuine(storage) /\ \A t \in Tab : Genuine(session[t])

(* The stored session, under whose token everything is sent, is one that some
   tab shows: no logout, failed restore or 401 leaves behind a session that
   the user believes ended.  In a browser with one tab it is what that tab
   shows. *)
StoredIsShown ==
    storage # NoSession => \E t \in Tab : storage = session[t]

(* A request that a page offered is refused for the role of its token only
   when the stored session was not the one of the tab, because another tab
   had logged in: guards, buttons and routes agree otherwise (README.md:41,
   status.ts:8-13, the Register functions of the handlers). *)
OfferedIsAllowed ==
    [][\A t \in Tab : Forbid(t) => data[t].bearer # data[t].shown]_vars
=============================================================================
