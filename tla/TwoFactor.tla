----------------------------- MODULE TwoFactor -----------------------------
(***************************************************************************)
(* The second factor of one account (auth.routes.ts: POST /2fa/setup,      *)
(* /2fa/verify, /2fa/disable and /2fa/login): the row of totp_secrets, the *)
(* setting that shows it, and the time steps whose codes were used.        *)
(*                                                                         *)
(* The user's authenticator has the secret it was shown last, and a code   *)
(* is a time step of that secret.  A key totp_used outlives its code (120  *)
(* seconds against 90), so neither expires here.  Backup codes and the     *)
(* limit on attempts are left out.                                         *)
(***************************************************************************)
EXTENDS Naturals

CONSTANTS
    Requests,       \* the requests that run at once
    Steps,          \* the time steps whose codes are entered: positive numbers
    MaxSecrets,     \* bounds the calls of /2fa/setup that save a secret
    MaxFaults       \* bounds the handlers that stop half-way

NoSecret == 0
Secrets  == 1..MaxSecrets
NoStep   == 0

VARIABLES
    totp,           \* the row: its secret (NoSecret: no row) and is_verified
    two_factor_enabled,     \* of user_settings
    totp_used,      \* the steps for which Redis has totp_used:<user>:<step>
    challenge,      \* 2fa:challenge:<id> is there
    generated,      \* how many secrets there are
    held,           \* the secret in the user's authenticator
    request,        \* request -> what it does next, with which secret and step
    confirmed,      \* history: the secret /2fa/verify confirmed, until /2fa/disable deletes it
    accepted,       \* history: step -> how many requests its code let through
    faults

vars == <<totp, two_factor_enabled, totp_used, challenge, generated, held, request, confirmed,
          accepted, faults>>

Idle == [next |-> "none", secret |-> NoSecret, step |-> NoStep, overlapped |-> FALSE]

Init ==
    /\ totp = [secret |-> NoSecret, is_verified |-> FALSE] /\ two_factor_enabled = FALSE
    /\ totp_used = {} /\ challenge = FALSE
    /\ generated = 0 /\ held = NoSecret
    /\ request = [r \in Requests |-> Idle]
    /\ confirmed = NoSecret /\ accepted = [s \in Steps |-> 0] /\ faults = 0

Does(r, steps) == request[r].next \in steps
Go(r, next)    == request' = [request EXCEPT ![r].next = next]
End(r)         == request' = [request EXCEPT ![r] = Idle]

Confirming(r) == Does(r, {"mark", "flag"})
Changing(r)   == Does(r, {"save", "disable", "delete", "unflag"})

\* A request begins with a read of the row; a confirmation notes whether a
\* request that changes the row runs at any time that it does.
Begin(r, next, secret, step) ==
    /\ Does(r, {"none"})
    /\ request' = [q \in Requests |->
          IF q = r
          THEN [next |-> next, secret |-> secret, step |-> step,
                overlapped |-> next = "mark" /\ \E p \in Requests : Changing(p)]
          ELSE [request[q] EXCEPT !.overlapped =
                   @ \/ (Confirming(q) /\ next \in {"save", "disable"})]]

Read(r) == /\ UNCHANGED <<totp, two_factor_enabled, totp_used, challenge, generated, held>>
           /\ UNCHANGED <<confirmed, accepted, faults>>

\* Mutant of MaySetup: a secret that is in use is replaced.
AlwaysSetup == TRUE

MaySetup == ~totp.is_verified

\* POST /2fa/setup: refused while the factor is on.
Setup(r) == MaySetup /\ Begin(r, "save", NoSecret, NoStep) /\ Read(r)

\* saveTotpSecret, the upsert.
SaveTotpSecret(r) ==
    /\ Does(r, {"save"}) /\ generated < MaxSecrets
    /\ generated' = generated + 1
    /\ totp' = [secret |-> generated', is_verified |-> FALSE]
    /\ request' = [request EXCEPT ![r].next = "show", ![r].secret = generated']
    /\ UNCHANGED <<two_factor_enabled, totp_used, challenge, held, confirmed, accepted, faults>>

\* The answer: the user scans the secret.
Show(r) ==
    /\ Does(r, {"show"})
    /\ held' = request[r].secret
    /\ End(r)
    /\ UNCHANGED <<totp, two_factor_enabled, totp_used, challenge, generated, confirmed, accepted,
                   faults>>

Matches == held # NoSecret /\ totp.secret = held

\* POST /2fa/verify: the row is not verified, and the code is of its secret.
Verify(r) == Matches /\ ~totp.is_verified /\ Begin(r, "mark", held, NoStep) /\ Read(r)

\* verifyTotp: UPDATE totp_secrets, of whatever row there is by then, ...
MarkVerified(r) ==
    /\ Does(r, {"mark"})
    /\ totp' = [totp EXCEPT !.is_verified = totp.secret # NoSecret]
    /\ Go(r, "flag")
    /\ UNCHANGED <<two_factor_enabled, totp_used, challenge, generated, held, confirmed, accepted,
                   faults>>

\* ... and UPDATE user_settings; "2FA enabled successfully".
SetFlag(r) ==
    /\ Does(r, {"flag"})
    /\ two_factor_enabled' = TRUE
    /\ confirmed' = IF request[r].overlapped THEN NoSecret ELSE request[r].secret
    /\ End(r)
    /\ UNCHANGED <<totp, totp_used, challenge, generated, held, accepted, faults>>

\* /login or /verify-login answers with a challenge (see EmailCodes).
Challenge ==
    /\ totp.is_verified /\ ~challenge
    /\ challenge' = TRUE
    /\ UNCHANGED <<totp, two_factor_enabled, totp_used, generated, held, request, confirmed,
                   accepted, faults>>

\* POST /2fa/disable and /2fa/login: a code of the row's secret.
Disable(r, step) ==
    Matches /\ totp.is_verified /\ Begin(r, "disable", held, step) /\ Read(r)

Login(r, step) ==
    challenge /\ Matches /\ totp.is_verified /\ Begin(r, "login", held, step) /\ Read(r)

\* verifyTotpOnce: SET NX, which is refused for a step that was used.
UseStep(r) ==
    /\ Does(r, {"disable", "login"})
    /\ IF request[r].step \in totp_used
       THEN End(r) /\ UNCHANGED <<totp_used, accepted>>
       ELSE /\ totp_used' = totp_used \cup {request[r].step}
            /\ accepted' = [accepted EXCEPT ![request[r].step] = @ + 1]
            /\ Go(r, IF Does(r, {"disable"}) THEN "delete" ELSE "redeem")
    /\ UNCHANGED <<totp, two_factor_enabled, challenge, generated, held, confirmed, faults>>

\* deleteTotp: DELETE, ...
DeleteTotp(r) ==
    /\ Does(r, {"delete"})
    /\ totp' = [secret |-> NoSecret, is_verified |-> FALSE]
    /\ confirmed' = NoSecret
    /\ Go(r, "unflag")
    /\ UNCHANGED <<two_factor_enabled, totp_used, challenge, generated, held, accepted, faults>>

\* ... and UPDATE user_settings.
ClearFlag(r) ==
    /\ Does(r, {"unflag"})
    /\ two_factor_enabled' = FALSE
    /\ End(r)
    /\ UNCHANGED <<totp, totp_used, challenge, generated, held, confirmed, accepted, faults>>

\* The challenge is deleted and a session opened.
Redeem(r) ==
    /\ Does(r, {"redeem"})
    /\ challenge' = FALSE
    /\ End(r)
    /\ UNCHANGED <<totp, two_factor_enabled, totp_used, generated, held, confirmed, accepted, faults>>

\* Five minutes pass.
ExpireChallenge ==
    /\ challenge /\ challenge' = FALSE
    /\ UNCHANGED <<totp, two_factor_enabled, totp_used, generated, held, request, confirmed,
                   accepted, faults>>

\* A statement fails or the process stops.
Stop(r) ==
    /\ ~Does(r, {"none"}) /\ faults < MaxFaults /\ faults' = faults + 1
    /\ End(r)
    /\ UNCHANGED <<totp, two_factor_enabled, totp_used, challenge, generated, held, confirmed,
                   accepted>>

Next ==
    \/ \E r \in Requests :
          \/ Setup(r) \/ SaveTotpSecret(r) \/ Show(r)
          \/ Verify(r) \/ MarkVerified(r) \/ SetFlag(r)
          \/ \E step \in Steps : Disable(r, step) \/ Login(r, step)
          \/ UseStep(r) \/ DeleteTotp(r) \/ ClearFlag(r) \/ Redeem(r) \/ Stop(r)
    \/ Challenge \/ ExpireChallenge

Spec == Init /\ [][Next]_vars

-------------------------------------------------------------------------------
(* Properties.                                                             *)

\* Every variable has its type.
TypeOK ==
    /\ totp \in [secret : {NoSecret} \cup Secrets, is_verified : BOOLEAN]
    /\ two_factor_enabled \in BOOLEAN /\ totp_used \subseteq Steps /\ challenge \in BOOLEAN
    /\ generated \in 0..MaxSecrets /\ held \in 0..generated
    /\ \A r \in Requests : request[r].secret \in 0..generated /\ request[r].overlapped \in BOOLEAN
    /\ confirmed \in 0..generated /\ accepted \in [Steps -> Nat] /\ faults \in 0..MaxFaults

\* The user who was told that the second factor is on will be asked for codes
\* of the secret he confirmed, and the settings say so, until he turns it off:
\* /2fa/verify marks whatever row there is, so this holds unless a /2fa/setup or
\* /2fa/disable that had read the row ran at the same time.  And the code of a
\* time step is accepted once, to log in or to turn the factor off.
FactorAsConfirmed ==
    /\ confirmed # NoSecret =>
          totp = [secret |-> confirmed, is_verified |-> TRUE] /\ two_factor_enabled
    /\ \A s \in Steps : accepted[s] <= 1
===============================================================================
