--------------------------- MODULE Sessions_proofs ---------------------------
(***************************************************************************)
(* With one page open nobody is sent to /login without cause, and logging  *)
(* out ends the session, for any number of requests and of pairs of        *)
(* tokens.  (With two pages the first is not so: the run Sessions_tabs_v.) *)
(***************************************************************************)
EXTENDS Sessions, TLAPS

\* The browser has one page of the client open.
OneTab == \E t \in Tabs : Tabs = {t}

Refresh == [state : {"unused", "posted", "read", "refused", "deleted", "stored", "done"},
            given : Pairs \cup {None}]

Typed ==
    /\ page \in [Tabs -> {"open", "login"}] /\ jar \in Pairs \cup {None}
    /\ refreshInFlight \in [Tabs -> Handlers \cup {None}]
    /\ refresh \in [Handlers -> Refresh]
    /\ "state" \in DOMAIN logout

Quiet == logout.state = "none" /\ ~disturbed

UnderWay(h) == refresh[h].state \notin {"unused", "done"}

\* Every refresh under way is the one that the page waits for.
SingleFlight == \A t \in Tabs : \A h \in Handlers : UnderWay(h) <=> refreshInFlight[t] = h

\* A refresh token is good until it is rotated, and then its successor is.
TokenIsGood ==
    /\ \A h \in Handlers :
          /\ refresh[h].state # "refused"
          /\ refresh[h].state \in {"posted", "read"} => refresh[h].given \in sessions
          /\ refresh[h].state = "stored" => h \in sessions
    /\ \A t \in Tabs : refreshInFlight[t] = None => jar \in sessions

Calm == SingleFlight /\ TokenIsGood /\ \A t \in Tabs : page[t] = "open"

SInv == Typed /\ (Quiet => Calm)

\* The page starts with a pair whose session is stored.
LEMMA SessionsInit == MaxPairs \in Nat /\ MaxPairs >= 1 /\ Init => SInv
<1> SUFFICES ASSUME MaxPairs \in Nat, MaxPairs >= 1, Init PROVE SInv
  OBVIOUS
<1>1. refresh \in [Handlers -> Refresh]
  BY DEF Init, Refresh, None
<1>2. \A h \in Handlers : refresh[h].state = "unused" /\ h # None
  BY DEF Init, Handlers, None
<1>3. \A t \in Tabs : refreshInFlight[t] = None /\ page[t] = "open"
  BY DEF Init
<1>4. jar \in sessions
  BY DEF Init
<1>5. Typed
  BY <1>1 DEF Init, Typed, Pairs
<1>6. Calm
  BY <1>2, <1>3, <1>4 DEF Calm, SingleFlight, TokenIsGood, UnderWay
<1>. QED
  BY <1>5, <1>6 DEF SInv

-------------------------------------------------------------------------------
(* One lemma per kind of step.                                             *)

\* A step that leaves alone what the invariant speaks of (Expire, Send, Serve, LogoutRevoke...).
LEMMA Unconcerned ==
    ASSUME SInv, Quiet' => Quiet,
           UNCHANGED <<sessions, jar, page, refreshInFlight, refresh, logout>>
    PROVE  SInv'
BY DEF SInv, Typed, Calm, SingleFlight, TokenIsGood, UnderWay

\* A step after which the user has logged out or something has failed.
LEMMA NoLongerQuiet == ASSUME Typed', ~Quiet' PROVE SInv'
BY DEF SInv

\* StartRefresh: the page starts a refresh only when it waits for none.
LEMMA DeniedKeeps ==
    ASSUME SInv, OneTab, NEW t \in Tabs, NEW r \in Requests, Denied(t, r) PROVE SInv'
<1>1. UNCHANGED <<sessions, jar, page, logout, disturbed>>
  BY DEF Denied, redis, browser, history
<1>2. CASE UNCHANGED <<refresh, refreshInFlight>>
  BY <1>1, <1>2, Unconcerned DEF Quiet
<1>3. CASE StartRefresh(t) /\ refreshInFlight[t] = None
  <2>1. PICK h \in Handlers :
          /\ refresh[h].state = "unused"
          /\ refresh' = [refresh EXCEPT ![h] = [state |-> "posted", given |-> jar]]
          /\ refreshInFlight' = [refreshInFlight EXCEPT ![t] = h]
    BY <1>3 DEF StartRefresh
  <2>2. Typed'
    BY <2>1, <1>1 DEF SInv, Typed, Refresh
  <2>3. /\ refresh'[h].state = "posted" /\ refresh'[h].given = jar
        /\ \A k \in Handlers \ {h} : refresh'[k] = refresh[k]
        /\ refreshInFlight'[t] = h
    BY <2>1 DEF SInv, Typed
  <2>4. ASSUME Quiet PROVE Calm'
    <3>1. \A k \in Handlers : ~UnderWay(k)
      BY <2>4, <1>3 DEF OneTab, SInv, Calm, SingleFlight, Handlers, None
    <3>2. SingleFlight'
      BY <3>1, <2>3 DEF SingleFlight, UnderWay, OneTab
    <3>3. TokenIsGood'
      BY <3>1, <2>3, <2>4, <1>1, <1>3
      DEF TokenIsGood, UnderWay, OneTab, SInv, Calm, Handlers, None
    <3>. QED
      BY <3>2, <3>3, <2>4, <1>1 DEF Calm, SInv
  <2>. QED
    BY <2>2, <2>4, <1>1 DEF SInv, Quiet
<1>. QED
  BY <1>2, <1>3 DEF Denied, StartRefresh

\* What a step of a handler does to its record.
LEMMA StepMoves ==
    ASSUME Typed, NEW h \in Handlers, NEW from, NEW to, Step(h, from, to),
           to \in {"read", "refused", "deleted", "stored", "done"}
    PROVE  /\ refresh' \in [Handlers -> Refresh]
           /\ refresh[h].state = from /\ refresh'[h].state = to
           /\ refresh'[h].given = refresh[h].given
           /\ \A k \in Handlers \ {h} : refresh'[k] = refresh[k]
BY DEF Typed, Step, Refresh

\* Of the handlers only the one under way is under way.
LEMMA OnlyOne ==
    ASSUME Calm, OneTab, NEW h \in Handlers, UnderWay(h)
    PROVE  /\ \A k \in Handlers \ {h} : ~UnderWay(k)
           /\ \A t \in Tabs : refreshInFlight[t] = h
BY DEF Calm, SingleFlight, OneTab

LEMMA ReadSessionKeeps ==
    ASSUME SInv, NEW h \in Handlers, ReadSession(h) PROVE SInv'
<1>1. UNCHANGED <<sessions, jar, page, refreshInFlight, logout, disturbed>>
  BY DEF ReadSession, redis, browser, client
<1>2. PICK to \in {"read", "refused"} :
        Step(h, "posted", to) /\ (refresh[h].given \in sessions => to = "read")
  BY DEF ReadSession
<1>3. /\ refresh' \in [Handlers -> Refresh]
      /\ refresh[h].state = "posted" /\ refresh'[h].state = to
      /\ refresh'[h].given = refresh[h].given
      /\ \A k \in Handlers \ {h} : refresh'[k] = refresh[k]
  BY <1>2, StepMoves DEF SInv
<1>4. ASSUME Quiet PROVE Calm'
  <2>1. refresh[h].given \in sessions /\ to = "read"
    BY <1>2, <1>3, <1>4 DEF SInv, Calm, TokenIsGood
  <2>2. \A k \in Handlers : UnderWay(k)' <=> UnderWay(k)
    BY <1>2, <1>3 DEF UnderWay
  <2>3. SingleFlight'
    BY <2>2, <1>1, <1>4 DEF SInv, Calm, SingleFlight
  <2>4. TokenIsGood'
    BY <2>1, <1>1, <1>3, <1>4 DEF SInv, Calm, TokenIsGood
  <2>. QED
    BY <2>3, <2>4, <1>1, <1>4 DEF Calm, SInv
<1>. QED
  BY <1>1, <1>3, <1>4 DEF SInv, Typed, Quiet

LEMMA RotationKeeps ==
    ASSUME SInv, OneTab, NEW h \in Handlers, DeleteSession(h) \/ StoreSession(h) PROVE SInv'
<1>1. UNCHANGED <<jar, page, refreshInFlight, logout, disturbed>>
  BY DEF DeleteSession, StoreSession, browser, client, history
<1>2. PICK from \in {"read", "deleted"}, to \in {"deleted", "stored"} :
        Step(h, from, to) /\ (to = "stored" => h \in sessions')
  BY DEF DeleteSession, StoreSession
<1>3. /\ refresh' \in [Handlers -> Refresh]
      /\ refresh[h].state = from /\ refresh'[h].state = to
      /\ \A k \in Handlers \ {h} : refresh'[k] = refresh[k]
  BY <1>2, StepMoves DEF SInv
<1>4. ASSUME Quiet PROVE Calm'
  <2>1. UnderWay(h) /\ Calm
    BY <1>3, <1>4 DEF UnderWay, SInv
  <2>2. /\ \A k \in Handlers \ {h} : ~UnderWay(k)
        /\ \A t \in Tabs : refreshInFlight[t] = h
    BY <2>1, OnlyOne
  <2>3. SingleFlight'
    BY <2>1, <1>1, <1>3 DEF Calm, SingleFlight, UnderWay
  <2>4. TokenIsGood'
    BY <2>1, <2>2, <1>1, <1>2, <1>3 DEF Calm, TokenIsGood, UnderWay, Handlers, None
  <2>. QED
    BY <2>1, <2>3, <2>4, <1>1 DEF Calm
<1>. QED
  BY <1>1, <1>3, <1>4 DEF SInv, Typed, Quiet

\* Settle clears the promise of those who waited.
LEMMA SettleMoves ==
    ASSUME Typed, NEW h \in Handlers, NEW renewed \in BOOLEAN, Settle(h, renewed)
    PROVE  /\ page' \in [Tabs -> {"open", "login"}]
           /\ refreshInFlight' \in [Tabs -> Handlers \cup {None}]
           /\ \A t \in Tabs : refreshInFlight[t] = h => refreshInFlight'[t] = None
           /\ renewed => \A t \in Tabs : page'[t] = page[t]
BY DEF Typed, Settle, Sharing

LEMMA RefreshedKeeps ==
    ASSUME SInv, OneTab, NEW h \in Handlers, Refreshed(h) PROVE SInv'
<1>1. UNCHANGED <<sessions, logout, disturbed>> /\ jar' = h
  BY DEF Refreshed, redis, history
<1>2. /\ refresh' \in [Handlers -> Refresh]
      /\ refresh[h].state = "stored" /\ refresh'[h].state = "done"
      /\ \A k \in Handlers \ {h} : refresh'[k] = refresh[k]
  BY StepMoves DEF SInv, Refreshed
<1>3. /\ page' \in [Tabs -> {"open", "login"}]
      /\ refreshInFlight' \in [Tabs -> Handlers \cup {None}]
      /\ \A t \in Tabs : refreshInFlight[t] = h => refreshInFlight'[t] = None
      /\ \A t \in Tabs : page'[t] = page[t]
  BY SettleMoves DEF SInv, Refreshed
<1>4. ASSUME Quiet PROVE Calm'
  <2>1. UnderWay(h) /\ Calm
    BY <1>2, <1>4 DEF UnderWay, SInv
  <2>2. /\ \A k \in Handlers \ {h} : ~UnderWay(k)
        /\ \A t \in Tabs : refreshInFlight[t] = h
    BY <2>1, OnlyOne
  <2>3. \A k \in Handlers : refresh'[k].state \in {"unused", "done"}
    BY <2>2, <1>2 DEF UnderWay
  <2>4. SingleFlight'
    BY <2>2, <2>3, <1>3 DEF SingleFlight, UnderWay, Handlers, None
  <2>5. TokenIsGood'
    <3>1. h \in sessions
      BY <2>1, <1>2 DEF Calm, TokenIsGood
    <3>. QED
      BY <3>1, <2>3, <1>1 DEF TokenIsGood
  <2>. QED
    BY <2>1, <2>4, <2>5, <1>3 DEF Calm
<1>5. h \in Pairs
  BY DEF Handlers, Pairs
<1>. QED
  BY <1>1, <1>2, <1>3, <1>4, <1>5 DEF SInv, Typed, Quiet

\* A refresh that is refused, while nobody has logged out and nothing has failed, is
\* one that TokenIsGood excludes.
LEMMA RefusedKeeps ==
    ASSUME SInv, NEW h \in Handlers, RefreshRefused(h) PROVE SInv'
<1>1. UNCHANGED <<jar, logout, disturbed>> /\ Settle(h, FALSE) /\ Step(h, "refused", "done")
  BY DEF RefreshRefused, history
<1>2. refresh' \in [Handlers -> Refresh] /\ refresh[h].state = "refused"
  BY <1>1, StepMoves DEF SInv
<1>3. Typed'
  BY <1>1, <1>2, SettleMoves DEF SInv, Typed
<1>4. ~Quiet'
  BY <1>1, <1>2 DEF SInv, Calm, TokenIsGood, Quiet
<1>. QED
  BY <1>3, <1>4, NoLongerQuiet

LEMMA FailsKeeps ==
    ASSUME SInv, NEW h \in Handlers, RefreshFails(h) PROVE SInv'
<1>1. Typed'
  BY SettleMoves DEF SInv, Typed, RefreshFails, Refresh
<1>. QED
  BY <1>1, NoLongerQuiet DEF RefreshFails, Disturb, Quiet

\* Logging out, and reloading.
LEMMA LogoutKeeps ==
    ASSUME SInv, NEW t \in Tabs, Logout(t) \/ Reload(t) PROVE SInv'
<1>1. Typed'
  <2>1. CASE Logout(t)
    BY <2>1 DEF SInv, Typed, Logout
  <2>2. CASE Reload(t)
    BY <2>2 DEF SInv, Typed, Reload, browser
  <2>. QED
    BY <2>1, <2>2
<1>2. ~Quiet'
  BY DEF Logout, Reload, Disturb, Quiet
<1>. QED
  BY <1>1, <1>2, NoLongerQuiet

LEMMA LogoutHandlerKeeps ==
    ASSUME SInv, LogoutDelete \/ LogoutRevoke \/ LogoutAnswered \/ LogoutFails PROVE SInv'
<1>1. Typed'
  BY
  DEF SInv, Typed, LogoutDelete, LogoutRevoke, LogoutAnswered, LogoutFails, browser, client, redis
<1>2. ~Quiet'
  BY DEF Typed, LogoutDelete, LogoutRevoke, LogoutAnswered, LogoutFails, SInv, Quiet
<1>. QED
  BY <1>1, <1>2, NoLongerQuiet

LEMMA SessionsStep == OneTab /\ SInv /\ [Next]_vars => SInv'
<1> SUFFICES ASSUME OneTab, SInv, [Next]_vars PROVE SInv'
  OBVIOUS
<1>1. ASSUME NEW p \in Pairs, Expire(p) PROVE SInv'
  BY <1>1, Unconcerned DEF Expire, browser, client, history, Quiet
<1>2. ASSUME NEW t \in Tabs, NEW r \in Requests, Send(t, r) \/ Serve(t, r) PROVE SInv'
  BY <1>2, Unconcerned DEF Send, Serve, redis, browser, history, Quiet
<1>3. CASE UNCHANGED vars
  BY <1>3, Unconcerned DEF vars, redis, browser, client, history, Quiet
<1>. QED
  BY <1>1, <1>2, <1>3, DeniedKeeps, ReadSessionKeeps, RotationKeeps, RefreshedKeeps, RefusedKeeps,
     FailsKeeps, LogoutKeeps, LogoutHandlerKeeps
  DEF Next

\* With one page open, that page goes to /login only after the user has logged out or an
\* answer was lost, a handler failed or the page was reloaded (api.ts, H-14).
THEOREM NoBounceWithOneTab ==
    ASSUME OneTab, MaxPairs \in Nat, MaxPairs >= 1
    PROVE  Spec => []NoNeedlessBounce
<1>1. SInv => NoNeedlessBounce
  BY DEF SInv, Calm, Quiet, NoNeedlessBounce
<1>. QED
  BY <1>1, SessionsInit, SessionsStep, PTL DEF Spec

-------------------------------------------------------------------------------
(* Logging out with one page open.                                         *)

LogoutStates == {"none", "posted", "deleted", "revoked", "done", "failed"}

LogoutTyped ==
    /\ logout \in [state : LogoutStates, refresh : Nat, access : Nat]
    /\ token \in [Tabs -> Pairs \cup {None}] /\ stored \in Pairs \cup {None}

\* Before the user logs out, the one session is that of the cookie, or of the refresh
\* that rotates it.
OneSession ==
    /\ \A h \in Handlers :
          /\ refresh[h].state \in {"posted", "read"} => refresh[h].given = jar
          /\ refresh[h].state = "deleted" => sessions = {}
          /\ refresh[h].state = "stored" => sessions \subseteq {h}
    /\ (\A h \in Handlers : refresh[h].state \notin {"deleted", "stored"}) => sessions \subseteq {jar}

Undisturbed == ~crossed /\ ~disturbed /\ logout.state \in {"posted", "deleted", "revoked", "done"}

\* Afterwards no refresh has read the session, and none will.
Leaving ==
    /\ \A h \in Handlers : refresh[h].state \notin {"read", "deleted", "stored"}
    /\ sessions \subseteq (IF logout.state = "posted" THEN {logout.refresh} ELSE {})
    /\ \A t \in Tabs : token[t] = None
    /\ logout.state = "done" => jar = None
    /\ logout.state \in {"revoked", "done"} => ~Accepts(logout.access)

LInv == SInv /\ LogoutTyped /\ (Quiet => OneSession) /\ (Undisturbed => Leaving)

LEMMA LogoutInit == MaxPairs \in Nat /\ MaxPairs >= 1 /\ Init => LInv
<1> SUFFICES ASSUME MaxPairs \in Nat, MaxPairs >= 1, Init PROVE LInv
  OBVIOUS
<1>1. LogoutTyped
  BY DEF Init, LogoutTyped, LogoutStates, Pairs, None
<1>2. OneSession
  BY DEF Init, OneSession
<1>3. ~Undisturbed
  BY DEF Init, Undisturbed
<1>. QED
  BY <1>1, <1>2, <1>3, SessionsInit DEF LInv

\* A step that leaves alone what the invariant speaks of.
LEMMA StillLeaving ==
    ASSUME LInv, SInv', Quiet' => Quiet, Undisturbed' => Undisturbed,
           UNCHANGED <<sessions, jar, stored, token, refresh, logout>>,
           \A p : Accepts(p)' => Accepts(p)
    PROVE  LInv'
BY DEF LInv, LogoutTyped, OneSession, Leaving

\* A step after which something has failed.
LEMMA DisturbedKeeps == ASSUME SInv', LogoutTyped', disturbed' PROVE LInv'
BY DEF LInv, Quiet, Undisturbed

LEMMA DeniedLeaves ==
    ASSUME LInv, SInv', OneTab, NEW t \in Tabs, NEW r \in Requests, Denied(t, r) PROVE LInv'
<1>1. /\ UNCHANGED <<sessions, jar, stored, token, logout, disturbed, crossed, expired, revoked>>
      /\ \A p : Accepts(p)' <=> Accepts(p)
  BY DEF Denied, redis, browser, history, Accepts
<1>2. CASE UNCHANGED refresh
  BY <1>1, <1>2, StillLeaving DEF Quiet, Undisturbed
<1>3. CASE StartRefresh(t) /\ refreshInFlight[t] = None
  <2>1. PICK h \in Handlers :
          /\ refresh[h].state = "unused"
          /\ refresh' = [refresh EXCEPT ![h] = [state |-> "posted", given |-> jar]]
    BY <1>3 DEF StartRefresh
  <2>2. /\ refresh'[h].state = "posted" /\ refresh'[h].given = jar
        /\ \A k \in Handlers \ {h} : refresh'[k] = refresh[k]
    BY <2>1 DEF LInv, SInv, Typed
  <2>3. Quiet' => OneSession'
    BY <2>1, <2>2, <1>1 DEF LInv, OneSession, Quiet
  <2>4. Undisturbed' => Leaving'
    BY <2>2, <1>1 DEF LInv, Leaving, Undisturbed
  <2>. QED
    BY <2>3, <2>4, <1>1 DEF LInv, LogoutTyped
<1>. QED
  BY <1>2, <1>3 DEF Denied, StartRefresh

LEMMA ReadSessionLeaves ==
    ASSUME LInv, SInv', NEW h \in Handlers, ReadSession(h) PROVE LInv'
<1>1. /\ UNCHANGED <<sessions, jar, stored, token, logout, disturbed, expired, revoked>>
      /\ \A p : Accepts(p)' <=> Accepts(p)
  BY DEF ReadSession, redis, browser, client, Accepts
<1>2. PICK to \in {"read", "refused"} :
        /\ Step(h, "posted", to)
        /\ to = "read" => /\ refresh[h].given \in sessions
                          /\ crossed' = (crossed \/ logout.state = "posted")
        /\ to = "refused" => crossed' = crossed
  BY DEF ReadSession
<1>3. /\ refresh[h].state = "posted" /\ refresh'[h].state = to
      /\ refresh'[h].given = refresh[h].given
      /\ \A k \in Handlers \ {h} : refresh'[k] = refresh[k]
  BY <1>2, StepMoves DEF LInv, SInv
<1>4. Quiet' => OneSession'
  BY <1>1, <1>3 DEF LInv, OneSession, Quiet
<1>5. Undisturbed' => Leaving'
  <2> SUFFICES ASSUME Undisturbed' PROVE Leaving'
    OBVIOUS
  <2>1. Undisturbed /\ Leaving
    <3>1. ~crossed
      BY <1>2 DEF Undisturbed
    <3>2. Undisturbed
      BY <3>1, <1>1 DEF Undisturbed
    <3>. QED
      BY <3>2 DEF LInv
  <2>2. to = "refused"
    BY <2>1, <1>1, <1>2 DEF Leaving, Undisturbed
  <2>. QED
    BY <2>1, <2>2, <1>1, <1>3 DEF Leaving
<1>. QED
  BY <1>1, <1>4, <1>5 DEF LInv, LogoutTyped

LEMMA RotationLeaves ==
    ASSUME LInv, SInv', OneTab, NEW h \in Handlers, DeleteSession(h) \/ StoreSession(h) PROVE LInv'
<1>1. UNCHANGED <<jar, stored, token, logout, disturbed, crossed>>
  BY DEF DeleteSession, StoreSession, browser, client, history
<1>2. PICK from \in {"read", "deleted"}, to \in {"deleted", "stored"} :
        /\ Step(h, from, to)
        /\ to = "deleted" => from = "read" /\ sessions' = sessions \ {refresh[h].given}
        /\ to = "stored" => from = "deleted" /\ sessions' = sessions \cup {h}
  BY DEF DeleteSession, StoreSession
<1>3. /\ refresh[h].state = from /\ refresh'[h].state = to
      /\ \A k \in Handlers \ {h} : refresh'[k] = refresh[k]
  BY <1>2, StepMoves DEF LInv, SInv
<1>4. Quiet' => OneSession'
  <2> SUFFICES ASSUME Quiet PROVE OneSession'
    BY <1>1 DEF Quiet
  <2>1. UnderWay(h) /\ Calm /\ OneSession
    BY <1>3 DEF UnderWay, LInv, SInv
  <2>2. \A k \in Handlers \ {h} : ~UnderWay(k)
    BY <2>1, OnlyOne
  <2>3. to = "deleted" => sessions' = {}
    BY <2>1, <2>2, <1>2, <1>3 DEF OneSession, UnderWay
  <2>4. to = "stored" => sessions' \subseteq {h}
    BY <2>1, <1>2, <1>3 DEF OneSession
  <2>. QED
    BY <2>2, <2>3, <2>4, <1>2, <1>3 DEF OneSession, UnderWay
<1>5. ~Undisturbed'
  BY <1>1, <1>3 DEF LInv, Leaving, Undisturbed
<1>. QED
  BY <1>1, <1>4, <1>5 DEF LInv, LogoutTyped

\* What Settle leaves of the tokens.
LEMMA SettleTokens ==
    ASSUME LogoutTyped, NEW h \in Handlers, NEW renewed \in BOOLEAN, Settle(h, renewed)
    PROVE  /\ token' \in [Tabs -> Pairs \cup {None}] /\ stored' \in Pairs \cup {None}
           /\ ~renewed => \A t \in Tabs : token[t] = None => token'[t] = None
<1>1. h \in Pairs
  BY DEF Handlers, Pairs
<1>. QED
  BY <1>1 DEF LogoutTyped, Settle

LEMMA RefreshedLeaves ==
    ASSUME LInv, SInv', OneTab, NEW h \in Handlers, Refreshed(h) PROVE LInv'
<1>1. UNCHANGED <<sessions, logout, disturbed, crossed>> /\ jar' = h
  BY DEF Refreshed, redis, history
<1>2. /\ refresh[h].state = "stored" /\ refresh'[h].state = "done"
      /\ \A k \in Handlers \ {h} : refresh'[k] = refresh[k]
  BY StepMoves DEF LInv, SInv, Refreshed
<1>3. LogoutTyped'
  BY <1>1, SettleTokens DEF LInv, LogoutTyped, Refreshed
<1>4. Quiet' => OneSession'
  <2> SUFFICES ASSUME Quiet PROVE OneSession'
    BY <1>1 DEF Quiet
  <2>1. UnderWay(h) /\ Calm /\ OneSession
    BY <1>2 DEF UnderWay, LInv, SInv
  <2>2. \A k \in Handlers \ {h} : ~UnderWay(k)
    BY <2>1, OnlyOne
  <2>. QED
    BY <2>1, <2>2, <1>1, <1>2 DEF OneSession, UnderWay
<1>5. ~Undisturbed'
  BY <1>1, <1>2 DEF LInv, Leaving, Undisturbed
<1>. QED
  BY <1>3, <1>4, <1>5 DEF LInv

LEMMA RefusedLeaves ==
    ASSUME LInv, SInv', NEW h \in Handlers, RefreshRefused(h) PROVE LInv'
<1>1. /\ UNCHANGED <<sessions, jar, logout, disturbed, crossed, expired, revoked>>
      /\ \A p : Accepts(p)' <=> Accepts(p)
      /\ Settle(h, FALSE)
  BY DEF RefreshRefused, redis, history, Accepts
<1>2. /\ refresh[h].state = "refused" /\ refresh'[h].state = "done"
      /\ \A k \in Handlers \ {h} : refresh'[k] = refresh[k]
  BY StepMoves DEF LInv, SInv, RefreshRefused
<1>3. LogoutTyped'
  BY <1>1, SettleTokens DEF LInv, LogoutTyped
<1>4. ~Quiet'
  BY <1>1, <1>2 DEF LInv, SInv, Calm, TokenIsGood, Quiet
<1>5. Undisturbed' => Leaving'
  <2>1. \A t \in Tabs : token[t] = None => token'[t] = None
    BY <1>1, SettleTokens DEF LInv
  <2>. QED
    BY <2>1, <1>1, <1>2 DEF LInv, Leaving, Undisturbed
<1>. QED
  BY <1>3, <1>4, <1>5 DEF LInv

\* The user logs out: the cookie goes with the request, and the page forgets its token.
LEMMA LogoutLeaves == ASSUME LInv, SInv', OneTab, NEW t \in Tabs, Logout(t) PROVE LInv'
<1>1. /\ logout.state = "none" /\ token[t] # None
      /\ logout' = [state |-> "posted", refresh |-> jar, access |-> token[t]]
      /\ token' = [token EXCEPT ![t] = None] /\ stored' = None
      /\ crossed' = (crossed \/ \E h \in Handlers : refresh[h].state \in {"read", "deleted", "stored"})
      /\ UNCHANGED <<sessions, jar, refresh, disturbed>>
  BY DEF Logout, Bearer, redis
<1>2. LogoutTyped'
  <2>1. jar \in Nat /\ token[t] \in Nat
    BY DEF LInv, SInv, Typed, LogoutTyped, Pairs, None
  <2>. QED
    BY <2>1, <1>1 DEF LInv, LogoutTyped, LogoutStates
<1>3. ~Quiet'
  BY <1>1 DEF Quiet
<1>4. Undisturbed' => Leaving'
  <2> SUFFICES ASSUME Undisturbed' PROVE Leaving'
    OBVIOUS
  <2>1. /\ \A h \in Handlers : refresh[h].state \notin {"read", "deleted", "stored"}
        /\ Quiet
    BY <1>1 DEF Undisturbed, Quiet
  <2>2. sessions \subseteq {jar}
    BY <2>1 DEF LInv, OneSession
  <2>3. \A u \in Tabs : token'[u] = None
    BY <1>1 DEF OneTab, LInv, LogoutTyped
  <2>. QED
    BY <2>1, <2>2, <2>3, <1>1 DEF Leaving
<1>. QED
  BY <1>2, <1>3, <1>4 DEF LInv

LEMMA LogoutHandlerLeaves ==
    ASSUME LInv, SInv', LogoutDelete \/ LogoutRevoke \/ LogoutAnswered PROVE LInv'
<1>1. /\ UNCHANGED <<stored, token, refresh, disturbed, crossed, expired>>
      /\ revoked \subseteq revoked'
  BY DEF LogoutDelete, LogoutRevoke, LogoutAnswered, redis, browser, client, history
<1>2. PICK from \in {"posted", "deleted", "revoked"}, to \in {"deleted", "revoked", "done"} :
        /\ logout.state = from /\ logout' = [logout EXCEPT !.state = to]
        /\ IF from = "posted"
           THEN to = "deleted" /\ sessions' = sessions \ {logout.refresh}
           ELSE sessions' = sessions
        /\ IF from = "deleted"
           THEN /\ to = "revoked"
                /\ revoked' = revoked \cup ({logout.access} \ (expired \cup {None}))
           ELSE revoked' = revoked
        /\ IF from = "revoked" THEN to = "done" /\ jar' = None ELSE jar' = jar
  BY DEF LogoutDelete, LogoutRevoke, LogoutAnswered, redis, browser
<1>3. /\ logout'.state = to /\ logout'.refresh = logout.refresh /\ logout'.access = logout.access
      /\ LogoutTyped'
  BY <1>1, <1>2 DEF LInv, LogoutTyped, LogoutStates
<1>4. ~Quiet'
  BY <1>2, <1>3 DEF Quiet
<1>5. Undisturbed' => Leaving'
  <2> SUFFICES ASSUME Undisturbed' PROVE Leaving'
    OBVIOUS
  <2>1. Leaving
    BY <1>1, <1>2 DEF LInv, Undisturbed
  <2>2. sessions' = {}
    BY <2>1, <1>2 DEF Leaving
  <2>3. from = "deleted" => ~Accepts(logout.access)'
    <3>1. None \notin Pairs
      BY DEF None, Pairs
    <3>. QED
      BY <3>1, <1>1, <1>2, <1>3 DEF Accepts
  <2>4. from = "revoked" => ~Accepts(logout.access)'
    BY <2>1, <1>1, <1>2, <1>3 DEF Leaving, Accepts
  <2>. QED
    BY <2>1, <2>2, <2>3, <2>4, <1>1, <1>2, <1>3 DEF Leaving
<1>. QED
  BY <1>3, <1>4, <1>5 DEF LInv

LEMMA LogoutStep == OneTab /\ LInv /\ [Next]_vars => LInv'
<1> SUFFICES ASSUME OneTab, LInv, [Next]_vars PROVE LInv'
  OBVIOUS
<1>1. SInv'
  BY SessionsStep DEF LInv
<1>2. ASSUME NEW p \in Pairs, Expire(p) PROVE LInv'
  BY <1>1, <1>2, StillLeaving
  DEF Expire, browser, client, history, Quiet, Undisturbed, Accepts
<1>3. ASSUME NEW t \in Tabs, NEW r \in Requests, Send(t, r) \/ Serve(t, r) PROVE LInv'
  BY <1>1, <1>3, StillLeaving
  DEF Send, Serve, redis, browser, history, Quiet, Undisturbed, Accepts
<1>4. CASE UNCHANGED vars
  BY <1>1, <1>4, StillLeaving
  DEF vars, redis, browser, client, history, Quiet, Undisturbed, Accepts
<1>5. ASSUME NEW h \in Handlers, RefreshFails(h) PROVE LInv'
  <2>1. LogoutTyped'
    BY <1>5, SettleTokens DEF RefreshFails, LInv, LogoutTyped
  <2>. QED
    BY <2>1, <1>1, <1>5, DisturbedKeeps DEF RefreshFails, Disturb
<1>6. ASSUME NEW t \in Tabs, Reload(t) PROVE LInv'
  <2>1. LogoutTyped'
    BY <1>6 DEF Reload, browser, LInv, LogoutTyped
  <2>. QED
    BY <2>1, <1>1, <1>6, DisturbedKeeps DEF Reload, Disturb
<1>7. CASE LogoutFails
  <2>1. LogoutTyped'
    BY <1>7 DEF LogoutFails, browser, client, LInv, LogoutTyped, LogoutStates
  <2>. QED
    BY <2>1, <1>1, <1>7, DisturbedKeeps DEF LogoutFails, Disturb
<1>. QED
  BY <1>1, <1>2, <1>3, <1>4, <1>5, <1>6, <1>7, DeniedLeaves, ReadSessionLeaves, RotationLeaves,
     RefreshedLeaves, RefusedLeaves, LogoutLeaves, LogoutHandlerLeaves
  DEF Next

\* With one page open, once /logout has answered nothing is left that opens the account,
\* unless a refresh had read the session before, an answer was lost, a handler failed or
\* the page was reloaded (auth.routes.ts, H-03).
THEOREM LogoutIsFinalWithOneTab ==
    ASSUME OneTab, MaxPairs \in Nat, MaxPairs >= 1
    PROVE  Spec => []LoggedOutStaysOut
<1>1. LInv => LoggedOutStaysOut
  BY DEF LInv, Undisturbed, Leaving, LoggedOutStaysOut
<1>. QED
  BY <1>1, LogoutInit, LogoutStep, PTL DEF Spec

-------------------------------------------------------------------------------
(* Types, with any number of pages.  A request that waits is waiting for a *)
(* refresh that will be answered.                                          *)

\* The promise of a page is that of a handler which is under way.
InFlight ==
    \A t \in Tabs : refreshInFlight[t] # None
                      => refresh[refreshInFlight[t]].state \notin {"unused", "done"}

TInv == TypeOK /\ InFlight

Counts == MaxPairs \in Nat /\ MaxPairs >= 1 /\ MaxFaults \in Nat

\* The last conjunct of TypeOK.
WaitersShare ==
    \A t \in Tabs :
        (\E r \in Requests : request[t][r].state = "waiting")
          => /\ refreshInFlight[t] \in Handlers
             /\ refresh[refreshInFlight[t]].state \notin {"unused", "done"}

SentRequest == [state : {"idle", "sent", "denied", "waiting"}, bearer : Pairs \cup {None},
                retry : BOOLEAN]

LEMMA TypesInit == Counts /\ Init => TInv
<1> SUFFICES ASSUME Counts, Init PROVE TInv
  OBVIOUS
<1>1. 1 \in Pairs /\ Idle \in SentRequest /\ Idle.state = "idle"
  BY DEF Counts, Pairs, Idle, SentRequest
<1>2. /\ request \in [Tabs -> [Requests -> SentRequest]]
      /\ \A t \in Tabs : \A r \in Requests : request[t][r].state = "idle"
  BY <1>1 DEF Init
<1>3. 0 \in 0..MaxFaults
  BY DEF Counts
<1>. QED
  BY <1>1, <1>2, <1>3 DEF Init, TInv, TypeOK, InFlight, SentRequest

LEMMA DisturbTyped ==
    ASSUME Counts, TInv, Disturb
    PROVE  crossed' \in BOOLEAN /\ disturbed' \in BOOLEAN /\ faults' \in 0..MaxFaults
<1>1. faults' \in 0..MaxFaults
  BY DEF Disturb, TInv, TypeOK, Counts
<1>. QED
  BY <1>1 DEF Disturb, TInv, TypeOK

\* Whatever leaves the promises and the handlers alone, and lets no request wait.
LEMMA NobodyWaitsMore ==
    ASSUME TInv, UNCHANGED <<refresh, refreshInFlight>>,
           request' \in [Tabs -> [Requests -> SentRequest]],
           \A t \in Tabs : \A r \in Requests :
              request'[t][r].state = "waiting" => request[t][r].state = "waiting",
           sessions' \subseteq Pairs, issued' \in Pairs,
           expired' \subseteq Pairs, revoked' \subseteq Pairs,
           jar' \in Pairs \cup {None}, stored' \in {None, 1},
           token' \in [Tabs -> Pairs \cup {None}], page' = page,
           logout' \in [state : LogoutStates, refresh : Pairs \cup {None},
                        access : Pairs \cup {None}],
           crossed' \in BOOLEAN, disturbed' \in BOOLEAN, faults' \in 0..MaxFaults
    PROVE  TInv'
BY DEF TInv, TypeOK, InFlight, SentRequest, LogoutStates

\* A request is sent, served or refused (Send, Serve).
LEMMA RequestsMove ==
    ASSUME Counts, TInv, NEW t \in Tabs, NEW r \in Requests, Send(t, r) \/ Serve(t, r)
    PROVE  TInv'
<1>1. Bearer(t) \in Pairs \cup {None}
  BY DEF Bearer, TInv, TypeOK
<1>2. Idle \in SentRequest /\ Idle.state = "idle"
  BY DEF Idle, SentRequest, None
<1>3. request[t][r] \in SentRequest
  BY DEF TInv, TypeOK, SentRequest
<1>4. PICK q \in SentRequest : q.state # "waiting" /\ request' = [request EXCEPT ![t][r] = q]
  <2>1. CASE Send(t, r)
    <3>1. [state |-> "sent", bearer |-> Bearer(t), retry |-> TRUE] \in SentRequest
      BY <1>1 DEF SentRequest
    <3>. QED
      BY <2>1, <3>1 DEF Send
  <2>2. CASE Serve(t, r)
    <3>1. [request[t][r] EXCEPT !.state = "denied"] \in SentRequest
      BY <1>3 DEF SentRequest
    <3>. QED
      BY <2>2, <1>2, <1>3, <3>1 DEF Serve, SentRequest
  <2>. QED
    BY <2>1, <2>2
<1>5. /\ request' \in [Tabs -> [Requests -> SentRequest]]
      /\ \A u \in Tabs : \A s \in Requests :
            request'[u][s].state = "waiting" => request[u][s].state = "waiting"
  BY <1>4 DEF TInv, TypeOK, SentRequest
<1>6. UNCHANGED <<redis, browser, token, page, refreshInFlight, refresh, logout, history>>
  BY DEF Send, Serve
<1>. QED
  BY <1>5, <1>6, NobodyWaitsMore DEF redis, browser, history, TInv, TypeOK, LogoutStates

\* A request that is refused waits for the refresh there is, or for the one it starts.
LEMMA DeniedTyped ==
    ASSUME Counts, TInv, NEW t \in Tabs, NEW r \in Requests, Denied(t, r)
    PROVE  TInv'
<1>1. UNCHANGED <<redis, browser, token, page, logout, history>>
  BY DEF Denied
<1>2. request[t][r] \in SentRequest /\ Idle \in SentRequest /\ Idle.state = "idle"
  BY DEF TInv, TypeOK, SentRequest, Idle, None
<1>3. CASE ~request[t][r].retry
  <2>1. request' = [request EXCEPT ![t][r] = Idle] /\ UNCHANGED <<refresh, refreshInFlight>>
    BY <1>3 DEF Denied
  <2>2. /\ request' \in [Tabs -> [Requests -> SentRequest]]
        /\ \A u \in Tabs : \A s \in Requests :
              request'[u][s].state = "waiting" => request[u][s].state = "waiting"
    BY <2>1, <1>2 DEF TInv, TypeOK, SentRequest
  <2>. QED
    BY <1>1, <2>1, <2>2, NobodyWaitsMore DEF redis, browser, history, TInv, TypeOK, LogoutStates
<1>4. CASE request[t][r].retry
  <2>1. StartRefresh(t) /\ request' = [request EXCEPT ![t][r].state = "waiting"]
    BY <1>4 DEF Denied
  <2>2. /\ request' \in [Tabs -> [Requests -> SentRequest]]
        /\ \A u \in Tabs \ {t} : request'[u] = request[u]
    BY <2>1, <1>2 DEF TInv, TypeOK, SentRequest
  <2>3. CASE refreshInFlight[t] # None
    <3>1. UNCHANGED <<refresh, refreshInFlight>>
      BY <2>1, <2>3 DEF StartRefresh
    <3>2. /\ refreshInFlight[t] \in Handlers
          /\ refresh[refreshInFlight[t]].state \notin {"unused", "done"}
      BY <2>3 DEF TInv, TypeOK, InFlight
    <3>3. WaitersShare'
      <4> SUFFICES ASSUME NEW u \in Tabs, NEW s \in Requests, request'[u][s].state = "waiting"
                   PROVE  /\ refreshInFlight[u] \in Handlers
                          /\ refresh[refreshInFlight[u]].state \notin {"unused", "done"}
        BY <3>1 DEF WaitersShare
      <4>1. u # t => request[u][s].state = "waiting"
        BY <2>2
      <4>. QED
        BY <3>2, <4>1 DEF TInv, TypeOK
    <3>. QED
      BY <1>1, <2>2, <3>1, <3>3
      DEF TInv, TypeOK, InFlight, WaitersShare, SentRequest, redis, browser, history
  <2>4. CASE refreshInFlight[t] = None
    <3>1. PICK h \in Handlers :
            /\ refresh[h].state = "unused"
            /\ refresh' = [refresh EXCEPT ![h] = [state |-> "posted", given |-> jar]]
            /\ refreshInFlight' = [refreshInFlight EXCEPT ![t] = h]
      BY <2>1, <2>4 DEF StartRefresh
    <3>2. /\ refreshInFlight' \in [Tabs -> Handlers \cup {None}]
          /\ refreshInFlight'[t] = h
          /\ \A u \in Tabs \ {t} : refreshInFlight'[u] = refreshInFlight[u]
      BY <3>1 DEF TInv, TypeOK
    <3>3. /\ refresh' \in [Handlers -> [state : {"unused", "posted", "read", "refused", "deleted",
                                                 "stored", "done"},
                                        given : Pairs \cup {None}]]
          /\ refresh'[h].state = "posted"
          /\ \A k \in Handlers \ {h} : refresh'[k] = refresh[k]
      BY <3>1 DEF TInv, TypeOK
    <3>4. InFlight'
      BY <3>1, <3>2, <3>3 DEF TInv, TypeOK, InFlight
    <3>5. h # None
      BY DEF Handlers, None
    <3>6. WaitersShare'
      BY <2>2, <3>1, <3>2, <3>3, <3>5 DEF TInv, TypeOK, WaitersShare
    <3>. QED
      BY <1>1, <2>2, <3>2, <3>3, <3>4, <3>6
      DEF TInv, TypeOK, WaitersShare, SentRequest, redis, browser, history
  <2>. QED
    BY <2>3, <2>4
<1>. QED
  BY <1>3, <1>4, <1>2 DEF SentRequest

\* A handler that goes on without an answer (ReadSession, DeleteSession, StoreSession).
LEMMA HandlerGoesOn ==
    ASSUME Counts, TInv, NEW h \in Handlers,
           ReadSession(h) \/ DeleteSession(h) \/ StoreSession(h)
    PROVE  TInv'
<1>1. UNCHANGED <<client, browser, logout, expired, revoked, disturbed, faults>>
      /\ crossed' \in BOOLEAN
  BY DEF ReadSession, DeleteSession, StoreSession, redis, history, TInv, TypeOK
<1>2. PICK to \in {"read", "refused", "deleted", "stored"} :
        refresh' = [refresh EXCEPT ![h].state = to]
  BY DEF ReadSession, DeleteSession, StoreSession, Step
<1>3. /\ refresh' \in [Handlers -> [state : {"unused", "posted", "read", "refused", "deleted",
                                             "stored", "done"},
                                    given : Pairs \cup {None}]]
      /\ refresh'[h].state = to
      /\ \A k \in Handlers \ {h} : refresh'[k] = refresh[k]
  BY <1>2 DEF TInv, TypeOK
<1>4. h \in Pairs
  BY DEF Handlers, Pairs, Counts
<1>5. sessions' \subseteq Pairs /\ issued' \in Pairs
  BY <1>4 DEF ReadSession, DeleteSession, StoreSession, redis, TInv, TypeOK
<1>6. \A k \in Handlers : refresh[k].state \notin {"unused", "done"}
                            => refresh'[k].state \notin {"unused", "done"}
  BY <1>3
<1>7. UNCHANGED <<token, page, refreshInFlight, request, jar, stored>>
  BY <1>1 DEF client, browser
<1>8. InFlight'
  BY <1>6, <1>7 DEF TInv, TypeOK, InFlight
<1>9. TypeOK'
  BY <1>1, <1>3, <1>5, <1>6, <1>7 DEF TInv, TypeOK
<1>. QED
  BY <1>8, <1>9 DEF TInv

\* The promise settles for every page that shares it, and nobody waits for it any more
\* (Refreshed, RefreshRefused, RefreshFails).
LEMMA SettlesTyped ==
    ASSUME Counts, TInv, NEW h \in Handlers,
           Refreshed(h) \/ RefreshRefused(h) \/ RefreshFails(h)
    PROVE  TInv'
<1>1. PICK renewed \in BOOLEAN : Settle(h, renewed)
  BY DEF Refreshed, RefreshRefused, RefreshFails
<1>2. refresh' = [refresh EXCEPT ![h].state = "done"]
  BY DEF Refreshed, RefreshRefused, RefreshFails, Step
<1>3. /\ refresh' \in [Handlers -> [state : {"unused", "posted", "read", "refused", "deleted",
                                             "stored", "done"},
                                    given : Pairs \cup {None}]]
      /\ \A k \in Handlers \ {h} : refresh'[k] = refresh[k]
  BY <1>2 DEF TInv, TypeOK
<1>4. h \in Pairs /\ h # None
  BY DEF Handlers, Pairs, Counts, None
<1>5. UNCHANGED <<redis, logout>> /\ jar' \in Pairs \cup {None}
  BY <1>4 DEF Refreshed, RefreshRefused, RefreshFails, TInv, TypeOK
<1>6. crossed' \in BOOLEAN /\ disturbed' \in BOOLEAN /\ faults' \in 0..MaxFaults
  BY DisturbTyped DEF Refreshed, RefreshRefused, RefreshFails, history, TInv, TypeOK
<1>7. /\ token' \in [Tabs -> Pairs \cup {None}] /\ page' \in [Tabs -> {"open", "login"}]
      /\ stored' \in {None, 1}
  BY <1>1, <1>4 DEF Settle, TInv, TypeOK
<1>8. /\ refreshInFlight' \in [Tabs -> Handlers \cup {None}]
      /\ \A t \in Tabs : refreshInFlight'[t] = IF refreshInFlight[t] = h THEN None
                                               ELSE refreshInFlight[t]
  BY <1>1 DEF Settle, Sharing, TInv, TypeOK
<1>9. InFlight'
  BY <1>3, <1>8 DEF TInv, TypeOK, InFlight
<1>10. [state |-> "sent", bearer |-> h, retry |-> FALSE] \in SentRequest /\ Idle \in SentRequest
  BY <1>4 DEF SentRequest, Idle, None
<1>11. \A t \in Tabs : \A r \in Requests :
          /\ request[t][r] \in SentRequest
          /\ request'[t][r] = IF refreshInFlight[t] = h /\ request[t][r].state = "waiting"
                              THEN IF renewed THEN [state |-> "sent", bearer |-> h, retry |-> FALSE]
                                   ELSE Idle
                              ELSE request[t][r]
  BY <1>1 DEF Settle, Sharing, TInv, TypeOK, SentRequest
<1>12. request' \in [Tabs -> [Requests -> SentRequest]]
  BY <1>1, <1>10, <1>11 DEF Settle
<1>13. \A t \in Tabs : \A r \in Requests :
          request'[t][r].state = "waiting"
            => request[t][r].state = "waiting" /\ refreshInFlight[t] # h
  BY <1>11 DEF Idle
<1>14. TypeOK'
  BY <1>3, <1>5, <1>6, <1>7, <1>8, <1>12, <1>13 DEF TInv, TypeOK, SentRequest, redis
<1>. QED
  BY <1>9, <1>14 DEF TInv

\* The token expires, and the user logs out.
LEMMA LeavingTyped ==
    ASSUME Counts, TInv,
           \/ \E p \in Pairs : Expire(p)
           \/ \E t \in Tabs : Logout(t)
           \/ LogoutDelete \/ LogoutRevoke \/ LogoutAnswered \/ LogoutFails
    PROVE  TInv'
<1>1. UNCHANGED <<refresh, refreshInFlight, request, page, issued>>
  BY DEF Expire, Logout, LogoutDelete, LogoutRevoke, LogoutAnswered, LogoutFails, client, redis
<1>2. sessions' \subseteq Pairs /\ expired' \subseteq Pairs /\ revoked' \subseteq Pairs
  BY DEF Expire, Logout, LogoutDelete, LogoutRevoke, LogoutAnswered, LogoutFails, redis,
         TInv, TypeOK
<1>3. jar' \in Pairs \cup {None} /\ stored' \in {None, 1} /\ token' \in [Tabs -> Pairs \cup {None}]
  BY DEF Expire, Logout, LogoutDelete, LogoutRevoke, LogoutAnswered, LogoutFails, browser, client,
         TInv, TypeOK
<1>4. logout' \in [state : LogoutStates, refresh : Pairs \cup {None}, access : Pairs \cup {None}]
  <2>1. \A t \in Tabs : Bearer(t) \in Pairs \cup {None}
    BY DEF Bearer, TInv, TypeOK
  <2>. QED
    BY <2>1 DEF Expire, Logout, LogoutDelete, LogoutRevoke, LogoutAnswered, LogoutFails,
                TInv, TypeOK, LogoutStates
<1>5. crossed' \in BOOLEAN /\ disturbed' \in BOOLEAN /\ faults' \in 0..MaxFaults
  BY DisturbTyped
  DEF Expire, Logout, LogoutDelete, LogoutRevoke, LogoutAnswered, LogoutFails, history, TInv, TypeOK
<1>6. request' \in [Tabs -> [Requests -> SentRequest]] /\ issued' \in Pairs
  BY <1>1 DEF TInv, TypeOK, SentRequest
<1>. QED
  BY <1>1, <1>2, <1>3, <1>4, <1>5, <1>6, NobodyWaitsMore

\* Reloading a page forgets what it waited for.
LEMMA ReloadTyped == ASSUME Counts, TInv, NEW t \in Tabs, Reload(t) PROVE TInv'
<1>1. UNCHANGED <<redis, jar, stored, page, refresh, logout>>
  BY DEF Reload, browser
<1>2. token' \in [Tabs -> Pairs \cup {None}]
  BY DEF Reload, TInv, TypeOK, Counts, Pairs
<1>3. crossed' \in BOOLEAN /\ disturbed' \in BOOLEAN /\ faults' \in 0..MaxFaults
  BY DisturbTyped DEF Reload
<1>4. /\ refreshInFlight' \in [Tabs -> Handlers \cup {None}] /\ refreshInFlight'[t] = None
      /\ \A u \in Tabs \ {t} : refreshInFlight'[u] = refreshInFlight[u]
  BY DEF Reload, TInv, TypeOK
<1>5. Idle \in SentRequest /\ Idle.state = "idle"
  BY DEF Idle, SentRequest, None
<1>6. /\ request' \in [Tabs -> [Requests -> SentRequest]]
      /\ \A r \in Requests : request'[t][r].state = "idle"
      /\ \A u \in Tabs \ {t} : request'[u] = request[u]
  BY <1>5 DEF Reload, TInv, TypeOK, SentRequest
<1>7. InFlight'
  BY <1>1, <1>4 DEF TInv, InFlight
<1>8. WaitersShare'
  <2> SUFFICES ASSUME NEW u \in Tabs, NEW s \in Requests, request'[u][s].state = "waiting"
               PROVE  /\ refreshInFlight'[u] \in Handlers
                      /\ refresh'[refreshInFlight'[u]].state \notin {"unused", "done"}
    BY DEF WaitersShare
  <2>1. u # t /\ request[u][s].state = "waiting"
    BY <1>6
  <2>2. refreshInFlight'[u] = refreshInFlight[u] /\ refresh' = refresh
    BY <1>1, <1>4, <2>1
  <2>. QED
    BY <2>1, <2>2 DEF TInv, TypeOK
<1>9. TypeOK'
  BY <1>1, <1>2, <1>3, <1>4, <1>6, <1>8 DEF TInv, TypeOK, WaitersShare, SentRequest, redis
<1>. QED
  BY <1>7, <1>9 DEF TInv

\* Every variable has its type, and a request that waits is waiting for a refresh that is
\* under way, with any number of pages (ApiClient.refreshToken).
THEOREM WaitersAreAnswered ==
    ASSUME MaxPairs \in Nat, MaxPairs >= 1, MaxFaults \in Nat
    PROVE  Spec => []TypeOK
<1>1. Counts
  BY DEF Counts
<1>2. TInv /\ [Next]_vars => TInv'
  <2>1. ASSUME TInv, UNCHANGED vars PROVE TInv'
    BY <2>1 DEF vars, redis, browser, client, history, TInv, TypeOK, InFlight
  <2>. QED
    BY <1>1, <2>1, RequestsMove, DeniedTyped, HandlerGoesOn, SettlesTyped, LeavingTyped, ReloadTyped
    DEF Next
<1>3. TInv => TypeOK
  BY DEF TInv
<1>. QED
  BY <1>1, <1>2, <1>3, TypesInit, PTL DEF Spec
===============================================================================
