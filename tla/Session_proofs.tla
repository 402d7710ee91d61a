--------------------------- MODULE Session_proofs ---------------------------
(***************************************************************************)
(* For any number of tabs, accounts and tokens: sessions are genuine, the  *)
(* stored one is shown by some tab, and what a page offers is refused for  *)
(* the role only under the session of another tab.                         *)
(***************************************************************************)
EXTENDS Session, TLAPS

\* What a restore or a login under way will settle on.
GenuineAuth(a) ==
    /\ a.stage = "sent" /\ a.kind = "restore" =>
          /\ a.bearer = a.cached.token
          /\ a.cached # NoSession
          /\ Genuine(a.cached)
    /\ a.stage = "granted" /\ a.kind = "restore" =>
          /\ a.cached.token \in Token
          /\ a.live = Claims[a.cached.token]
    /\ a.stage = "granted" /\ a.kind = "login" =>
          a.next # NoSession /\ Genuine(a.next)

\* A request of a page is one that the role of the session it showed allows.
OfferedTo(d) ==
    d.stage = "sent" =>
        RoleRank[RoleOf[Claims[d.shown]]] >= RoleRank[PageMinimum[d.op]]

SessionInv ==
    /\ DOMAIN session = Tab /\ DOMAIN auth = Tab /\ DOMAIN data = Tab
    /\ SessionsGenuine
    /\ StoredIsShown
    /\ \A t \in Tab : GenuineAuth(auth[t])
    /\ \A t \in Tab : OfferedTo(data[t])

LEMMA SessionInit == Init => SessionInv
BY DEF Init, SessionInv, SessionsGenuine, StoredIsShown, Genuine, GenuineAuth,
       OfferedTo, Idle, NoSession

-----------------------------------------------------------------------------
(* What a step has to show. *)

\* A step of the pages, of their requests or of the expiry of tokens.
LEMMA AuthKept ==
    ASSUME SessionInv, UNCHANGED <<storage, session, auth>>,
           DOMAIN data' = Tab, \A t \in Tab : OfferedTo(data'[t])
    PROVE  SessionInv'
BY DEF SessionInv, SessionsGenuine, StoredIsShown

\* A step of one restore or login under way.
LEMMA AuthMoves ==
    ASSUME SessionInv, UNCHANGED <<storage, session, data>>,
           NEW t \in Tab, NEW a, auth' = [auth EXCEPT ![t] = a], GenuineAuth(a)
    PROVE  SessionInv'
<1>1. DOMAIN auth' = Tab /\ \A u \in Tab : GenuineAuth(auth'[u])
    BY DEF SessionInv
<1> QED BY <1>1 DEF SessionInv, SessionsGenuine, StoredIsShown

\* A step that stores a session and shows one in the tab, or ends them.
LEMMA Settles ==
    ASSUME SessionInv, NEW t \in Tab, NEW shown, NEW stored,
           session' = [session EXCEPT ![t] = shown],
           Genuine(shown), Genuine(stored), storage' = stored,
           \/ stored = NoSession \/ stored = shown
           \/ stored = storage /\ shown = session[t],
           DOMAIN auth' = Tab, \A u \in Tab : GenuineAuth(auth'[u]),
           DOMAIN data' = Tab, \A u \in Tab : OfferedTo(data'[u])
    PROVE  SessionInv'
<1>1. DOMAIN session' = Tab /\ \A u \in Tab :
          session'[u] = IF u = t THEN shown ELSE session[u]
    BY DEF SessionInv
<1>2. SessionsGenuine'
    BY <1>1 DEF SessionInv, SessionsGenuine
<1>3. StoredIsShown'
    BY <1>1 DEF SessionInv, StoredIsShown
<1> QED BY <1>1, <1>2, <1>3 DEF SessionInv

-----------------------------------------------------------------------------

LEMMA AuthStepKeeps ==
    ASSUME SessionInv, NEW t \in Tab, AuthStep(t)
    PROVE  SessionInv'
<1> USE DEF Idle
<1>0. /\ Genuine(storage) /\ Genuine(session[t]) /\ GenuineAuth(auth[t])
      /\ Genuine(NoSession)
    BY DEF SessionInv, SessionsGenuine, Genuine
<1>1. CASE Open(t)
    <2> DEFINE a == IF storage = NoSession THEN Idle
                    ELSE Restoring(storage, storage.token)
    <2>1. GenuineAuth(a)
        BY <1>0 DEF GenuineAuth, Restoring
    <2>2. /\ DOMAIN auth' = Tab
          /\ \A u \in Tab : auth'[u] = IF u = t THEN a ELSE auth[u]
        BY <1>1 DEF Open, SessionInv
    <2>3. \A u \in Tab : GenuineAuth(auth'[u])
        BY <2>1, <2>2 DEF SessionInv
    <2>4. DOMAIN data' = Tab /\ \A u \in Tab : OfferedTo(data'[u])
        BY <1>1 DEF Open, SessionInv, OfferedTo
    <2>5. /\ storage' = storage /\ issued' = issued
          /\ session' = [session EXCEPT ![t] = storage]
        BY <1>1 DEF Open
    <2> HIDE DEF a
    <2> QED BY <1>0, <2>3, <2>4, <2>5, Settles, <2>2
<1>2. CASE Login(t)
    <2>1. GenuineAuth(LoggingIn)
        BY DEF GenuineAuth, LoggingIn
    <2> QED BY <1>2, <2>1, AuthMoves DEF Login
<1>3. CASE ServeRestore(t)
    <2>1. PICK a : /\ auth' = [auth EXCEPT ![t] = a]
                   /\ a = IF Accepted(auth[t].bearer)
                          THEN [kind |-> "restore", stage |-> "granted",
                                cached |-> auth[t].cached,
                                live |-> Claims[auth[t].bearer]]
                          ELSE [kind |-> "restore", stage |-> "denied"]
        BY <1>3 DEF ServeRestore, Answer
    <2>2. /\ auth[t].bearer = auth[t].cached.token
          /\ Accepted(auth[t].bearer) => auth[t].cached.token \in Token
        BY <1>0, <1>3 DEF ServeRestore, GenuineAuth, Genuine
    <2>3. UNCHANGED <<storage, session, data>>
        BY <1>3 DEF ServeRestore, Answer
    <2>4. GenuineAuth(a)
        BY <1>0, <2>1, <2>2 DEF GenuineAuth
    <2> QED BY <2>1, <2>3, <2>4, AuthMoves
<1>4. CASE ServeLogin(t)
    <2>1. CASE \E k \in Token \ issued :
                  /\ issued' = issued \cup {k}
                  /\ Answer(t, [kind |-> "login", stage |-> "granted",
                                next |-> [token |-> k, name |-> Claims[k]]])
        <3>1. PICK k \in Token \ issued :
                  /\ issued' = issued \cup {k}
                  /\ Answer(t, [kind |-> "login", stage |-> "granted",
                                next |-> [token |-> k, name |-> Claims[k]]])
            BY <2>1
        <3>2. GenuineAuth([kind |-> "login", stage |-> "granted",
                           next |-> [token |-> k, name |-> Claims[k]]])
            BY <3>1, NoneAssumption DEF GenuineAuth, Genuine, NoSession
        <3> QED BY <3>1, <3>2, AuthMoves DEF Answer
    <2>2. CASE /\ Answer(t, [kind |-> "login", stage |-> "denied"])
               /\ UNCHANGED issued
        <3>1. GenuineAuth([kind |-> "login", stage |-> "denied"])
            BY DEF GenuineAuth
        <3> QED BY <2>2, <3>1, AuthMoves DEF Answer
    <2> QED BY <1>4, <2>1, <2>2 DEF ServeLogin
<1>5. CASE FailAuth(t)
    <2>1. GenuineAuth([kind |-> auth[t].kind, stage |-> "failed"])
        BY DEF GenuineAuth
    <2> QED BY <1>5, <2>1, AuthMoves DEF FailAuth
<1>6. ASSUME NEW shown, NEW stored, Genuine(shown), Genuine(stored),
             \/ stored = NoSession \/ stored = shown
             \/ stored = storage /\ shown = session[t],
             Settle(t, stored, shown)
      PROVE  SessionInv'
    <2>1. /\ storage' = stored /\ UNCHANGED data
          /\ session' = [session EXCEPT ![t] = shown]
        BY <1>6 DEF Settle
    <2>2. DOMAIN auth' = Tab /\ \A u \in Tab : GenuineAuth(auth'[u])
        BY <1>6 DEF Settle, SessionInv, GenuineAuth
    <2>3. DOMAIN data' = Tab /\ \A u \in Tab : OfferedTo(data'[u])
        BY <2>1 DEF SessionInv
    <2> QED BY <1>6, <2>1, <2>2, <2>3, Settles
<1>7. CASE Logout(t)
    <2>1. DOMAIN auth' = Tab /\ \A u \in Tab : GenuineAuth(auth'[u])
        BY <1>7 DEF Logout, SessionInv
    <2>2. DOMAIN data' = Tab /\ \A u \in Tab : OfferedTo(data'[u])
        BY <1>7 DEF Logout, SessionInv
    <2> QED BY <1>0, <1>7, <2>1, <2>2, Settles DEF Logout
<1>8. CASE Restored(t)
    <2> DEFINE next == [token |-> auth[t].cached.token, name |-> auth[t].live]
    <2>1. Genuine(next)
        BY <1>0, <1>8 DEF Restored, GenuineAuth, Genuine
    <2>2. Settle(t, next, next)
        BY <1>8 DEF Restored
    <2> HIDE DEF next
    <2> QED BY <1>6, <2>1, <2>2
<1>9. CASE NotRestored(t)
    BY <1>0, <1>6, <1>9 DEF NotRestored
<1>10. CASE LoggedIn(t)
    <2>1. Genuine(auth[t].next)
        BY <1>0, <1>10 DEF LoggedIn, GenuineAuth
    <2> QED BY <1>6, <1>10, <2>1 DEF LoggedIn
<1>11. CASE NotLoggedIn(t)
    BY <1>0, <1>6, <1>11 DEF NotLoggedIn
<1> QED BY <1>1, <1>2, <1>3, <1>4, <1>5, <1>7, <1>8, <1>9, <1>10, <1>11 DEF AuthStep

LEMMA DataStepKeeps ==
    ASSUME SessionInv, NEW t \in Tab, DataStep(t)
    PROVE  SessionInv'
<1> USE DEF Idle
<1>1. ASSUME NEW op \in Operation, Request(t, op) PROVE SessionInv'
    <2>1. session[t].name # None /\ Genuine(session[t])
        BY <1>1 DEF Request, HasMinimumRole, SessionInv, SessionsGenuine
    <2>2. session[t].name = Claims[session[t].token]
        BY <2>1 DEF Genuine, NoSession
    <2>3. RoleRank[RoleOf[Claims[session[t].token]]] >= RoleRank[PageMinimum[op]]
        BY <1>1, <2>2 DEF Request, HasMinimumRole
    <2>4. OfferedTo([stage |-> "sent", op |-> op, bearer |-> storage.token,
                     shown |-> session[t].token])
        BY <2>3 DEF OfferedTo
    <2>5. DOMAIN data' = Tab /\ \A u \in Tab : OfferedTo(data'[u])
        BY <1>1, <2>4 DEF Request, SessionInv
    <2> QED BY <1>1, <2>5, AuthKept DEF Request
<1>2. ASSUME NEW next, OfferedTo(next), EndData(t, next) PROVE SessionInv'
    <2>1. DOMAIN data' = Tab /\ \A u \in Tab : OfferedTo(data'[u])
        BY <1>2 DEF EndData, SessionInv
    <2> QED BY <1>2, <2>1, AuthKept DEF EndData
<1>3. OfferedTo(Idle) /\ OfferedTo([stage |-> "denied"])
    BY DEF OfferedTo
<1>4. CASE Forbid(t) \/ Serve(t) \/ Deny(t) \/ LoseData(t)
    BY <1>2, <1>3, <1>4 DEF Forbid, Serve, Deny, LoseData
<1>5. CASE Denied(t)
    <2>1. /\ storage' = NoSession /\ UNCHANGED <<session, auth>>
        BY <1>5 DEF Denied
    <2>2. DOMAIN data' = Tab /\ \A u \in Tab : OfferedTo(data'[u])
        BY <1>3, <1>5 DEF Denied, SessionInv
    <2> QED BY <2>1, <2>2 DEF SessionInv, SessionsGenuine, StoredIsShown, Genuine,
                             GenuineAuth, OfferedTo, NoSession
<1> QED BY <1>1, <1>4, <1>5 DEF DataStep

LEMMA SessionInductive == SessionInv /\ [Next]_vars => SessionInv'
<1> SUFFICES ASSUME SessionInv, [Next]_vars PROVE SessionInv'
    OBVIOUS
<1>1. CASE \E t \in Tab : AuthStep(t) \/ DataStep(t)
    BY <1>1, AuthStepKeeps, DataStepKeeps
<1>2. CASE \E k \in Token : Expire(k)
    BY <1>2, AuthKept DEF Expire, SessionInv
<1>3. CASE UNCHANGED vars
    BY <1>3, AuthKept DEF vars, SessionInv
<1> QED BY <1>1, <1>2, <1>3 DEF Next

THEOREM SessionInvariant == Spec => []SessionInv
BY SessionInit, SessionInductive, PTL DEF Spec

(* No session joins the token of one user with the name and role of another:
   what restore() merges was read before its await and answered for the same
   token (use-auth.ts:20-32). *)
THEOREM Genuineness == Spec => []SessionsGenuine
<1>1. SessionInv => SessionsGenuine
    BY DEF SessionInv
<1> QED BY <1>1, SessionInvariant, PTL

(* The session everything is sent under is one that some tab shows
   (use-auth.ts:27-53, client.ts:27). *)
THEOREM Shown == Spec => []StoredIsShown
<1>1. SessionInv => StoredIsShown
    BY DEF SessionInv
<1> QED BY <1>1, SessionInvariant, PTL

(* What a page offers is answered 403 only under the session of another tab:
   the minima of the pages are those of the routes (status.ts:8-13). *)
THEOREM Allowed == Spec => OfferedIsAllowed
<1>1. ASSUME SessionInv, NEW t \in Tab, Forbid(t)
      PROVE  data[t].bearer # data[t].shown
    <2>1. RoleRank[RoleOf[Claims[data[t].shown]]] >= RoleRank[PageMinimum[data[t].op]]
        BY <1>1 DEF SessionInv, OfferedTo, Forbid, Sent
    <2>2. PageMinimum = RouteMinimum
        BY DEF PageMinimum, RouteMinimum
    <2>3. ~(RoleRank[RoleOf[Claims[data[t].bearer]]] >= RoleRank[RouteMinimum[data[t].op]])
        BY <1>1 DEF Forbid, RequireMinimumRole
    <2> QED BY <2>1, <2>2, <2>3
<1>2. SessionInv /\ [Next]_vars =>
          [\A t \in Tab : Forbid(t) => data[t].bearer # data[t].shown]_vars
    BY <1>1
<1> QED BY <1>2, SessionInvariant, PTL DEF Spec, OfferedIsAllowed
=============================================================================
