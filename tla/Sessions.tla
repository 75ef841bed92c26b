------------------------------ MODULE Sessions ------------------------------
(***************************************************************************)
(* A login and what becomes of it: the API client of the browser           *)
(* (client/src/lib/api.ts), which retries a request once after refreshing, *)
(* and the routes /refresh and /logout of the auth service                 *)
(* (auth.routes.ts), which rotate and delete the refresh token.            *)
(*                                                                         *)
(* The tabs of one browser share its cookies and its local storage; every  *)
(* tab has an ApiClient of its own.  Pair p stands for the access token    *)
(* and the refresh token that generateTokens makes together.               *)
(***************************************************************************)
EXTENDS Naturals

CONSTANTS
    Tabs,           \* the open pages of the client
    Requests,       \* the requests a tab may have under way at once
    MaxPairs,       \* bounds the pairs of tokens that are issued
    MaxFaults       \* bounds lost answers, handlers that fail and reloads

None     == 0
Pairs    == 1..MaxPairs
Handlers == 2..MaxPairs         \* POST /refresh, named by the pair it may issue

VARIABLES
    sessions,       \* the refresh tokens for which Redis has session:<token>
    issued,         \* how many pairs there are
    expired,        \* the pairs whose access token has expired
    revoked,        \* the pairs whose jti is on the deny list
    jar,            \* the pair in the cookies, or None
    stored,         \* the access token in local storage, or None
    token,          \* tab -> ApiClient.token
    page,           \* tab -> "open", or "login" once it was sent there
    refreshInFlight,\* tab -> the handler its shared promise stands for, or None
    request,        \* tab, request -> its state, bearer and whether it may retry
    refresh,        \* handler -> its state, and the refresh token it was given
    logout,         \* POST /logout: its state, and the tokens it was given
    crossed,        \* history: a refresh had read the session before logout deleted it
    disturbed,      \* history: an answer was lost, a handler failed or a page reloaded
    faults          \* how many of MaxFaults there were

redis   == <<sessions, issued, expired, revoked>>
browser == <<jar, stored>>
client  == <<token, page, refreshInFlight, request>>
history == <<crossed, disturbed, faults>>
vars    == <<redis, browser, client, refresh, logout, history>>

Idle == [state |-> "idle", bearer |-> None, retry |-> TRUE]

Init ==
    /\ sessions = {1} /\ issued = 1 /\ expired = {} /\ revoked = {}
    /\ jar = 1 /\ stored = 1
    /\ token = [t \in Tabs |-> 1] /\ page = [t \in Tabs |-> "open"]
    /\ refreshInFlight = [t \in Tabs |-> None]
    /\ request = [t \in Tabs |-> [r \in Requests |-> Idle]]
    /\ refresh = [h \in Handlers |-> [state |-> "unused", given |-> None]]
    /\ logout = [state |-> "none", refresh |-> None, access |-> None]
    /\ crossed = FALSE /\ disturbed = FALSE /\ faults = 0

\* Fifteen minutes pass.
Expire(p) ==
    /\ p <= issued /\ p \notin expired
    /\ expired' = expired \cup {p}
    /\ UNCHANGED <<sessions, issued, revoked, browser, client, refresh, logout, history>>

Disturb == faults < MaxFaults /\ faults' = faults + 1 /\ disturbed' = TRUE /\ crossed' = crossed

-------------------------------------------------------------------------------
(* Requests.                                                               *)

\* extractToken: the header before the cookie.
Bearer(t) == IF token[t] # None THEN token[t] ELSE jar

Send(t, r) ==
    /\ page[t] = "open" /\ request[t][r].state = "idle"
    /\ request' = [request EXCEPT ![t][r] = [state |-> "sent", bearer |-> Bearer(t),
                                             retry |-> TRUE]]
    /\ UNCHANGED <<redis, browser, token, page, refreshInFlight, refresh, logout, history>>

\* authMiddleware.
Accepts(p) == p \in Pairs \ (expired \cup revoked)

Serve(t, r) ==
    /\ request[t][r].state = "sent"
    /\ request' = [request EXCEPT ![t][r] =
                      IF Accepts(@.bearer) THEN Idle ELSE [@ EXCEPT !.state = "denied"]]
    /\ UNCHANGED <<redis, browser, token, page, refreshInFlight, refresh, logout, history>>

\* Mutant of StartRefresh: no shared promise.
StartAnother(t) ==
    \E h \in Handlers :
        /\ refresh[h].state = "unused"
        /\ \A k \in Handlers : k < h => refresh[k].state # "unused"
        /\ refresh' = [refresh EXCEPT ![h] = [state |-> "posted", given |-> jar]]
        /\ refreshInFlight' = [refreshInFlight EXCEPT ![t] = h]

\* refreshToken: "Sharing one promise means exactly one rotation happens per expiry".
StartRefresh(t) ==
    IF refreshInFlight[t] # None
    THEN UNCHANGED <<refresh, refreshInFlight>>
    ELSE \E h \in Handlers :
            /\ refresh[h].state = "unused"
            /\ \A k \in Handlers : k < h => refresh[k].state # "unused"
            /\ refresh' = [refresh EXCEPT ![h] = [state |-> "posted", given |-> jar]]
            /\ refreshInFlight' = [refreshInFlight EXCEPT ![t] = h]

\* A 401 reaches the client.
Denied(t, r) ==
    /\ page[t] = "open" /\ request[t][r].state = "denied"
    /\ IF request[t][r].retry
       THEN /\ StartRefresh(t)
            /\ request' = [request EXCEPT ![t][r].state = "waiting"]
       ELSE /\ request' = [request EXCEPT ![t][r] = Idle]
            /\ UNCHANGED <<refresh, refreshInFlight>>
    /\ UNCHANGED <<redis, browser, token, page, logout, history>>

-------------------------------------------------------------------------------
(* POST /refresh.                                                          *)

Step(h, from, to) == refresh[h].state = from /\ refresh' = [refresh EXCEPT ![h].state = to]

ReadSession(h) ==
    /\ IF refresh[h].given \in sessions
       THEN /\ Step(h, "posted", "read")
            /\ crossed' = (crossed \/ logout.state = "posted")
       ELSE Step(h, "posted", "refused") /\ crossed' = crossed
    /\ UNCHANGED <<redis, browser, client, logout, disturbed, faults>>

\* Mutant of DeleteSession: the old refresh token stays good.
KeepSession(h) ==
    /\ Step(h, "read", "deleted")
    /\ UNCHANGED <<redis, browser, client, logout, history>>

DeleteSession(h) ==
    /\ Step(h, "read", "deleted")
    /\ sessions' = sessions \ {refresh[h].given}
    /\ UNCHANGED <<issued, expired, revoked, browser, client, logout, history>>

\* Handler h issues pair h; the numbers in between are of handlers that were refused.
StoreSession(h) ==
    /\ Step(h, "deleted", "stored")
    /\ sessions' = sessions \cup {h}
    /\ issued' = IF h > issued THEN h ELSE issued
    /\ UNCHANGED <<expired, revoked, browser, client, logout, history>>

\* The tabs that still wait for handler h.
Sharing(h) == {t \in Tabs : refreshInFlight[t] = h}

\* Mutant of Settle: the promise is cleared before those who share it see its result.
SettleNobody(h, renewed) ==
    /\ refreshInFlight' = [t \in Tabs |-> IF t \in Sharing(h) THEN None ELSE refreshInFlight[t]]
    /\ UNCHANGED <<request, token, page, stored>>

\* The promise settles: the waiting requests retry, or the page goes to /login.
Settle(h, renewed) ==
    /\ request' = [t \in Tabs |-> [r \in Requests |->
          IF t \in Sharing(h) /\ request[t][r].state = "waiting"
          THEN IF renewed THEN [state |-> "sent", bearer |-> h, retry |-> FALSE] ELSE Idle
          ELSE request[t][r]]]
    /\ token' = [t \in Tabs |-> IF t \in Sharing(h) THEN IF renewed THEN h ELSE None
                                ELSE token[t]]
    /\ page' = [t \in Tabs |-> IF t \in Sharing(h) /\ ~renewed THEN "login" ELSE page[t]]
    /\ stored' = IF Sharing(h) # {} /\ ~renewed THEN None ELSE stored
    /\ refreshInFlight' = [t \in Tabs |-> IF t \in Sharing(h) THEN None ELSE refreshInFlight[t]]

\* The new pair arrives: Set-Cookie, and the token.
Refreshed(h) ==
    /\ Step(h, "stored", "done")
    /\ jar' = h
    /\ Settle(h, TRUE)
    /\ UNCHANGED <<redis, logout, history>>

RefreshRefused(h) ==
    /\ Step(h, "refused", "done")
    /\ Settle(h, FALSE)
    /\ UNCHANGED <<redis, jar, logout, history>>

\* The handler fails at one of its awaits, or its answer is lost.
RefreshFails(h) ==
    /\ refresh[h].state \in {"posted", "read", "deleted", "stored"}
    /\ Disturb
    /\ refresh' = [refresh EXCEPT ![h].state = "done"]
    /\ Settle(h, FALSE)
    /\ UNCHANGED <<redis, jar, logout>>

-------------------------------------------------------------------------------
(* POST /logout, and reloading.                                            *)

\* auth-store logout: the request leaves with the token, which is then forgotten.
Logout(t) ==
    /\ page[t] = "open" /\ token[t] # None /\ logout.state = "none"
    /\ logout' = [state |-> "posted", refresh |-> jar, access |-> Bearer(t)]
    /\ token' = [token EXCEPT ![t] = None]
    /\ stored' = None
    /\ crossed' = (crossed \/ \E h \in Handlers : refresh[h].state \in {"read", "deleted", "stored"})
    /\ UNCHANGED <<redis, jar, page, refreshInFlight, request, refresh, disturbed, faults>>

LogoutDelete ==
    /\ logout.state = "posted"
    /\ logout' = [logout EXCEPT !.state = "deleted"]
    /\ sessions' = sessions \ {logout.refresh}
    /\ UNCHANGED <<issued, expired, revoked, browser, client, refresh, history>>

\* "An expired or malformed token needs no revocation".
LogoutRevoke ==
    /\ logout.state = "deleted"
    /\ logout' = [logout EXCEPT !.state = "revoked"]
    /\ revoked' = revoked \cup ({logout.access} \ (expired \cup {None}))
    /\ UNCHANGED <<sessions, issued, expired, browser, client, refresh, history>>

LogoutAnswered ==
    /\ logout.state = "revoked"
    /\ logout' = [logout EXCEPT !.state = "done"]
    /\ jar' = None
    /\ UNCHANGED <<redis, stored, client, refresh, history>>

LogoutFails ==
    /\ logout.state \in {"posted", "deleted", "revoked"}
    /\ Disturb
    /\ logout' = [logout EXCEPT !.state = "failed"]
    /\ UNCHANGED <<redis, browser, client, refresh>>

\* hydrate: refreshToken has never written to local storage.  What the old page
\* waited for goes on without it; its cookies still count.
Reload(t) ==
    /\ page[t] = "open" /\ stored # None
    /\ Disturb
    /\ token' = [token EXCEPT ![t] = stored]
    /\ request' = [request EXCEPT ![t] = [r \in Requests |-> Idle]]
    /\ refreshInFlight' = [refreshInFlight EXCEPT ![t] = None]
    /\ UNCHANGED <<redis, browser, page, refresh, logout>>

-------------------------------------------------------------------------------
Next ==
    \/ \E p \in Pairs : Expire(p)
    \/ \E t \in Tabs : \E r \in Requests : Send(t, r) \/ Serve(t, r) \/ Denied(t, r)
    \/ \E h \in Handlers :
          \/ ReadSession(h) \/ DeleteSession(h) \/ StoreSession(h)
          \/ Refreshed(h) \/ RefreshRefused(h) \/ RefreshFails(h)
    \/ \E t \in Tabs : Logout(t) \/ Reload(t)
    \/ LogoutDelete \/ LogoutRevoke \/ LogoutAnswered \/ LogoutFails

Spec == Init /\ [][Next]_vars

-------------------------------------------------------------------------------
(* Properties.                                                             *)

\* Every variable has its type, and a request waits for a refresh that will be answered.
TypeOK ==
    /\ sessions \subseteq Pairs /\ issued \in Pairs
    /\ expired \subseteq Pairs /\ revoked \subseteq Pairs
    /\ jar \in Pairs \cup {None} /\ stored \in {None, 1}
    /\ token \in [Tabs -> Pairs \cup {None}]
    /\ page \in [Tabs -> {"open", "login"}]
    /\ refreshInFlight \in [Tabs -> Handlers \cup {None}]
    /\ request \in [Tabs -> [Requests ->
          [state : {"idle", "sent", "denied", "waiting"}, bearer : Pairs \cup {None},
           retry : BOOLEAN]]]
    /\ refresh \in [Handlers -> [state : {"unused", "posted", "read", "refused", "deleted",
                                          "stored", "done"},
                                 given : Pairs \cup {None}]]
    /\ logout \in [state : {"none", "posted", "deleted", "revoked", "done", "failed"},
                   refresh : Pairs \cup {None}, access : Pairs \cup {None}]
    /\ crossed \in BOOLEAN /\ disturbed \in BOOLEAN /\ faults \in 0..MaxFaults
    /\ \A t \in Tabs :
          (\E r \in Requests : request[t][r].state = "waiting")
            => /\ refreshInFlight[t] \in Handlers
               /\ refresh[refreshInFlight[t]].state \notin {"unused", "done"}

\* "the client concludes the session is dead, and the user is bounced to /login
\* for no reason" (api.ts, H-14): a page goes to /login only when the user has
\* logged out, or an answer was lost, a handler failed or a page was reloaded.
NoNeedlessBounce ==
    (\E t \in Tabs : page[t] = "login") => (logout.state # "none" \/ disturbed)

\* "'log out' did not actually end the session" (auth.routes.ts, H-03): once
\* /logout has answered there is no refresh token left to renew the session
\* with, no cookie, no page with a token, and the access token that was handed
\* in is of no use, unless a refresh had read the session before the deletion.
LoggedOutStaysOut ==
    (logout.state = "done" /\ ~crossed /\ ~disturbed) =>
        /\ sessions = {} /\ jar = None
        /\ \A t \in Tabs : token[t] = None
        /\ ~Accepts(logout.access)
===============================================================================
