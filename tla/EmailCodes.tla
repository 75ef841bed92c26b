----------------------------- MODULE EmailCodes -----------------------------
(***************************************************************************)
(* The codes that are e-mailed to one address, and the sessions they open  *)
(* (auth.routes.ts: POST /login and /resend-code, which store and send a   *)
(* code; POST /verify-login and /verify-email, which redeem one).  Redis   *)
(* keeps one code for the address, whatever it is for.                     *)
(*                                                                         *)
(* The deployment demands the code (shouldRequireEmailOtp) and the         *)
(* password is right.  A code is named by the request that generated it.   *)
(***************************************************************************)
EXTENDS Naturals, FiniteSets

CONSTANTS
    Logins, Resends,        \* the requests to /login and to /resend-code, apart
    Entries,        \* the requests to /verify-login and /verify-email
    MAX_ATTEMPTS,   \* wrong entries after which a code is dead
    HOURLY_LIMIT,   \* resends in an hour
    MaxFaults       \* bounds the handlers that stop half-way and the mails that fail

Sends    == Logins \cup Resends
NoCode   == "none"
Purposes == {"login", "verify_email"}
NoOtp    == [code |-> NoCode, purpose |-> "login", attempts |-> 0]

VARIABLES
    otp,            \* otp:<address>: a code, what it is for and the wrong entries
    cooldown,       \* otp_cooldown:<address> is there
    hourly,         \* otp_hourly:<address>
    is_verified, totp,      \* the account: address verified, second factor enabled
    send, entry,    \* request -> how far it is, and what it remembers
    newest,         \* the code of the newest mail in the inbox
    inbox,          \* the codes of all of them
    flow,           \* what the latest answer of /login asks the user to do
    spent,          \* history: the codes that were redeemed or have expired
    overlapped,     \* history: the sends that ran while another one did
    faults

redis   == <<otp, cooldown, hourly>>
account == <<is_verified, totp>>
user    == <<newest, inbox, flow>>
vars    == <<redis, account, send, entry, user, spent, overlapped, faults>>

Init ==
    /\ otp = NoOtp /\ cooldown = FALSE /\ hourly \in {0, HOURLY_LIMIT}
    /\ is_verified \in BOOLEAN /\ totp \in BOOLEAN
    /\ send = [s \in Sends |-> [state |-> "idle", purpose |-> "login"]]
    /\ entry = [e \in Entries |-> [state |-> "idle", code |-> NoCode]]
    /\ newest = NoCode /\ inbox = {} /\ flow = "none"
    /\ spent = {} /\ overlapped = {} /\ faults = 0

\* A handler that has stored its code and stops before the mail is "unsent".
Running == {s \in Sends : send[s].state \notin {"idle", "done", "unsent"}}

Move(s, state) == send' = [send EXCEPT ![s].state = state]
End(s, state)  == send' = [send EXCEPT ![s] = [state |-> state, purpose |-> "login"]]

\* A send begins; from here on it overlaps those that run.
Begin(s, purpose, state) ==
    /\ send[s].state = "idle"
    /\ send' = [send EXCEPT ![s] = [state |-> state, purpose |-> purpose]]
    /\ overlapped' = overlapped \cup (IF Running = {} THEN {} ELSE Running \cup {s})

\* POST /login reads the user.
Login(s) ==
    /\ IF is_verified THEN Begin(s, "login", "totp")
                      ELSE Begin(s, "verify_email", "store")
    /\ UNCHANGED <<redis, account, entry, user, spent, faults>>

\* getTotpSecret: with a second factor the answer is a challenge and no code.
ReadTotp(s) ==
    /\ send[s].state = "totp"
    /\ IF totp THEN End(s, "done") ELSE Move(s, "store")
    /\ UNCHANGED <<redis, account, entry, user, spent, overlapped, faults>>

HasPending(purpose) == otp # NoOtp /\ otp.purpose = purpose

\* POST /resend-code reads the hourly count.
Resend(s) ==
    /\ Begin(s, "login", IF hourly >= HOURLY_LIMIT THEN "done" ELSE "pending_login")
    /\ UNCHANGED <<redis, account, entry, user, spent, faults>>

\* hasPendingOtp, for "login" and then, whatever it said, for "verify_email".
LookForLogin(s) ==
    /\ send[s].state = "pending_login"
    /\ send' = [send EXCEPT ![s] =
          [state |-> "pending_verify",
           purpose |-> IF HasPending("login") THEN "login" ELSE "verify_email"]]
    /\ UNCHANGED <<redis, account, entry, user, spent, overlapped, faults>>

LookForVerify(s) ==
    /\ send[s].state = "pending_verify"
    /\ IF send[s].purpose = "login" \/ HasPending("verify_email") THEN Move(s, "store")
                                                                  ELSE End(s, "done")
    /\ UNCHANGED <<redis, account, entry, user, spent, overlapped, faults>>

\* storeAndSendEmailOtp: refuse during the cooldown, ...
CheckCooldown(s) ==
    /\ send[s].state = "store"
    /\ IF cooldown THEN End(s, "done") ELSE Move(s, "generated")
    /\ UNCHANGED <<redis, account, entry, user, spent, overlapped, faults>>

\* ... store the code over the one there is, ...
StoreCode(s) ==
    /\ send[s].state = "generated"
    /\ otp' = [code |-> s, purpose |-> send[s].purpose, attempts |-> 0]
    /\ Move(s, "stored")
    /\ UNCHANGED <<cooldown, hourly, account, entry, user, spent, overlapped, faults>>

\* ... start the cooldown, ...
SetCooldown(s) ==
    /\ send[s].state = "stored"
    /\ cooldown' = TRUE
    /\ Move(s, "cooling")
    /\ UNCHANGED <<otp, hourly, account, entry, user, spent, overlapped, faults>>

\* ... and send the mail.  /login answers with what the code is for.
SendMail(s) ==
    /\ send[s].state = "cooling"
    /\ newest' = s /\ inbox' = inbox \cup {s}
    /\ IF s \in Resends THEN Move(s, "mailed") /\ UNCHANGED flow
                       ELSE End(s, "done") /\ flow' = send[s].purpose
    /\ UNCHANGED <<redis, account, entry, spent, overlapped, faults>>

\* /resend-code counts itself and answers.
CountResend(s) ==
    /\ send[s].state = "mailed"
    /\ hourly' = hourly + 1
    /\ End(s, "done")
    /\ UNCHANGED <<otp, cooldown, account, entry, user, spent, overlapped, faults>>

\* A call throws, the mail server refuses, or the process stops.
Stop(s) ==
    /\ s \in Running /\ faults < MaxFaults /\ faults' = faults + 1
    /\ End(s, IF send[s].state \in {"stored", "cooling"} THEN "unsent" ELSE "done")
    /\ UNCHANGED <<redis, account, entry, user, spent, overlapped>>

\* Mutant of Redeemed: the script forgets the DEL.
NotRedeemed == otp

\* What OTP_VERIFY_LUA leaves of the record for a code that matches.
Redeemed == NoOtp

\* POST /verify-login or /verify-email, as the answer of /login asks: the user
\* types a code of the inbox, or a wrong one.  The script is one atomic step;
\* an entry it refuses may be tried again.
Enter(e, code) ==
    /\ entry[e].state = "idle" /\ flow \in Purposes
    /\ otp.code # NoCode /\ otp.attempts < MAX_ATTEMPTS /\ otp.purpose = flow
    /\ IF otp.code = code
       THEN /\ otp' = Redeemed /\ spent' = spent \cup {code}
            /\ entry' = [entry EXCEPT ![e] = [state |-> flow, code |-> code]]
       ELSE /\ otp' = [otp EXCEPT !.attempts = @ + 1]
            /\ UNCHANGED <<spent, entry>>
    /\ UNCHANGED <<cooldown, hourly, account, send, user, overlapped, faults>>

\* markEmailVerified.
MarkVerified(e) ==
    /\ entry[e].state = "verify_email"
    /\ is_verified' = TRUE
    /\ entry' = [entry EXCEPT ![e].state = "verified"]
    /\ UNCHANGED <<redis, totp, send, user, spent, overlapped, faults>>

\* A session, or for a login with a second factor a challenge.
Answer(e) ==
    /\ entry[e].state \in {"login", "verified"}
    /\ entry' = [entry EXCEPT ![e].state =
          IF entry[e].state = "login" /\ totp THEN "challenged" ELSE "in"]
    /\ UNCHANGED <<redis, account, send, user, spent, overlapped, faults>>

StopEntry(e) ==
    /\ entry[e].state \in {"login", "verify_email", "verified"}
    /\ faults < MaxFaults /\ faults' = faults + 1
    /\ entry' = [entry EXCEPT ![e].state = "failed"]
    /\ UNCHANGED <<redis, account, send, user, spent, overlapped>>

\* Ten minutes, a minute and an hour pass.
ExpireCode ==
    /\ otp # NoOtp /\ otp' = NoOtp /\ spent' = spent \cup {otp.code}
    /\ UNCHANGED <<cooldown, hourly, account, send, entry, user, overlapped, faults>>

ExpireCooldown ==
    /\ cooldown /\ cooldown' = FALSE
    /\ UNCHANGED <<otp, hourly, account, send, entry, user, spent, overlapped, faults>>

ExpireHour ==
    /\ hourly > 0 /\ hourly' = 0
    /\ UNCHANGED <<otp, cooldown, account, send, entry, user, spent, overlapped, faults>>

Next ==
    \/ \E s \in Logins : Login(s) \/ ReadTotp(s)
    \/ \E s \in Resends : Resend(s) \/ LookForLogin(s) \/ LookForVerify(s) \/ CountResend(s)
    \/ \E s \in Sends :
          CheckCooldown(s) \/ StoreCode(s) \/ SetCooldown(s) \/ SendMail(s) \/ Stop(s)
    \/ \E e \in Entries :
          \/ \E code \in inbox \cup {NoCode} : Enter(e, code)
          \/ MarkVerified(e) \/ Answer(e) \/ StopEntry(e)
    \/ ExpireCode \/ ExpireCooldown \/ ExpireHour

Spec == Init /\ [][Next]_vars

-------------------------------------------------------------------------------
(* Properties.                                                             *)

\* Every variable has its type.
TypeOK ==
    /\ otp \in [code : Sends \cup {NoCode}, purpose : Purposes, attempts : 0..MAX_ATTEMPTS]
    /\ cooldown \in BOOLEAN /\ hourly \in 0..HOURLY_LIMIT + Cardinality(Resends)
    /\ is_verified \in BOOLEAN /\ totp \in BOOLEAN
    /\ \A s \in Sends : send[s].purpose \in Purposes
    /\ \A e \in Entries : entry[e].code \in Sends \cup {NoCode}
    /\ newest \in Sends \cup {NoCode} /\ inbox \subseteq Sends /\ flow \in Purposes \cup {"none"}
    /\ spent \subseteq Sends /\ overlapped \subseteq Sends /\ faults \in 0..MaxFaults

\* The resends that are past their look at the hourly count and have not counted.
Passed == Resends \cap Running

\* Once the count has reached its limit, no further resend gets past the check
\* until the hour is over: each that had looked before may still count, once, and
\* the count and those together never grow (POST /resend-code reads the count
\* first and increments it last).
ResendsLimited ==
    [][hourly >= HOURLY_LIMIT
         => hourly' + Cardinality(Passed') <= hourly + Cardinality(Passed)]_vars

\* Stored and not in the inbox, or not yet.
Unsent == {s \in Sends : send[s].state \in {"stored", "cooling", "unsent"}}

\* A code works, and once.  However many requests redeem it, one is let in.  And
\* the code of the newest mail is the one Redis has, for the flow that /login
\* asked the user to finish, until it is redeemed or expires, unless its send
\* overlapped another (storeAndSendEmailOtp checks the cooldown before it sets
\* it) or a code was stored whose mail is not there.  What a resend renews is the
\* code in Redis, whoever stored it: a login that then failed, or one of two that
\* overlapped while the address was being verified, and the other one has asked
\* the user to finish its flow.
CodeWorksOnce ==
    /\ \A d, e \in Entries :
          (d # e /\ entry[d].code = entry[e].code) => entry[d].code = NoCode
    /\ newest # NoCode /\ flow # "none" /\ newest \notin spent \cup overlapped =>
          \/ /\ otp.code = newest
             /\ \/ otp.purpose = flow
                \/ newest \in Resends /\ (Unsent # {} \/ overlapped \cap Logins # {})
          \/ \E s \in Unsent : s = otp.code \/ s \in spent
===============================================================================
