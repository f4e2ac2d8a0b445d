------------------------------- MODULE AuthAccounts -------------------------------
(* The users table of the auth lab (projects/04-auth-demo): registration with    *)
(* its bootstrap admin, sign-in through Google, and the second factor. Handlers  *)
(* read and write in statements of their own, so each statement is an action and *)
(* requests interleave between them. A user is named by its email: it is UNIQUE  *)
(* and never changes. Wrong passwords and codes end a request (StatementFails).    *)
EXTENDS Naturals, FiniteSets

CONSTANTS Callers, Emails,
          Subs, NoSub,   \* Google subjects, and google_sub IS NULL (none of Subs)
          Identities,    \* <<sub, email>> pairs Google may vouch for
          MaxFlows,      \* bound on the OAuth flows started
          MaxSecrets     \* bound on the enrollments; a secret is its number

VARIABLES users,      \* the emails with a row
          admin,      \* users with is_admin
          confirmed,   \* users with is_email_verified
          sub,        \* google_sub of each user
          flows,      \* OAuth flows started
          pending,    \* rows of oauth_states
          secret,     \* totp_secret of each user, 0 for NULL
          secrets,    \* enrollments begun
          enabled,    \* users with totp_enabled
          code,       \* the unconsumed recovery code of each user, 0 for none
          consumed,   \* how often the code of an enrollment was redeemed (history)
          proved,     \* secrets a valid code was typed for (history)
          first,      \* the first row ever inserted (history)
          step          \* where each request is

rows == <<users, admin, confirmed, sub, first>>
oauth == <<flows, pending>>
totp == <<secret, secrets, enabled, code, consumed, proved>>
accountVars == <<rows, oauth, totp, step>>

ASSUME AccountsAssumption ==
    /\ NoSub \notin Subs
    /\ Identities \subseteq Subs \X Emails
    /\ MaxFlows \in Nat /\ MaxSecrets \in Nat

Free == [pc |-> "idle"]

(* Where a request can be, and what it has read so far. *)
Places ==
    [pc : {"idle", "exchange"}]
    \union [pc : {"inserted", "promote", "enroll"}, user : Emails]
    \union [pc : {"by_sub", "by_email", "link", "create"}, sub : Subs, user : Emails,
            verified : BOOLEAN]
    \union [pc : {"code", "disable"}, user : Emails, then : {"confirm", "login", "disable"}]
    \union [pc : {"matched"}, user : Emails, then : {"confirm", "login", "disable"},
            secret : 1 .. MaxSecrets, enabled : BOOLEAN]

AccountsInit ==
    /\ users = {} /\ admin = {} /\ confirmed = {} /\ first = {}
    /\ sub = [e \in Emails |-> NoSub]
    /\ flows = 0 /\ pending = 0
    /\ secret = [e \in Emails |-> 0] /\ secrets = 0
    /\ enabled = {} /\ proved = {}
    /\ code = [e \in Emails |-> 0]
    /\ consumed = [c \in 1 .. MaxSecrets |-> 0]
    /\ step = [r \in Callers |-> Free]

Continue(r, next) == step' = [step EXCEPT ![r] = next]
At(r, pc) == step[r].pc = pc

(* A row goes in; the UNIQUE email keeps a second one out. *)
Insert(e) ==
    /\ e \notin users
    /\ users' = users \union {e}
    /\ first' = IF users = {} THEN {e} ELSE first

-----------------------------------------------------------------------------
(* register: INSERT, then COUNT, then the UPDATE that makes an admin *)

Register(r, e) ==
    /\ At(r, "idle")
    /\ Insert(e)
    /\ Continue(r, [pc |-> "inserted", user |-> e])
    /\ UNCHANGED <<admin, confirmed, sub, oauth, totp>>

(* Mutant: everyone may be the first. *)
CountAny(r) ==
    /\ At(r, "inserted")
    /\ Continue(r, [step[r] EXCEPT !.pc = "promote"])
    /\ UNCHANGED <<rows, oauth, totp>>

CountUsers(r) ==
    /\ At(r, "inserted")
    /\ Continue(r, IF Cardinality(users) = 1 THEN [step[r] EXCEPT !.pc = "promote"] ELSE Free)
    /\ UNCHANGED <<rows, oauth, totp>>

Promote(r) ==
    /\ At(r, "promote")
    /\ admin' = admin \union {step[r].user}
    /\ Continue(r, Free)
    /\ UNCHANGED <<users, confirmed, sub, first, oauth, totp>>

-----------------------------------------------------------------------------
(* Google: start, callback, find_or_create_user *)

OauthStart ==
    /\ flows < MaxFlows
    /\ flows' = flows + 1 /\ pending' = pending + 1
    /\ UNCHANGED <<rows, totp, step>>

(* consume_state: the DELETE gives one callback the row. *)
ConsumeState(r) ==
    /\ At(r, "idle") /\ pending > 0
    /\ pending' = pending - 1
    /\ Continue(r, [pc |-> "exchange"])
    /\ UNCHANGED <<rows, flows, totp>>

(* exchange_code: from the ID token, or from userinfo; email_verified may be     *)
(* missing, which counts as not verified.                                        *)
ExchangeCode(r, identity, vouched) ==
    /\ At(r, "exchange")
    /\ Continue(r, [pc |-> "by_sub", sub |-> identity[1], user |-> identity[2],
                verified |-> vouched])
    /\ UNCHANGED <<rows, oauth, totp>>

FindBySub(r) ==
    /\ At(r, "by_sub")
    /\ Continue(r, IF \E e \in users : sub[e] = step[r].sub
               THEN Free ELSE [step[r] EXCEPT !.pc = "by_email"])
    /\ UNCHANGED <<rows, oauth, totp>>

FindByEmail(r) ==
    /\ At(r, "by_email")
    /\ Continue(r, [step[r] EXCEPT !.pc = IF step[r].user \in users THEN "link" ELSE "create"])
    /\ UNCHANGED <<rows, oauth, totp>>

(* Mutant: no such index. *)
AnySub(s, e) == s \in Subs /\ e \in Emails

(* The unique index on google_sub. *)
Unlinked(s, e) == \A f \in users \ {e} : sub[f] # s

Vouch(r) == confirmed' = IF step[r].verified THEN confirmed \union {step[r].user} ELSE confirmed

SetSub(r) == sub' = [sub EXCEPT ![step[r].user] = step[r].sub]

(* The row of this email gets the subject, whichever subject it had. *)
LinkUser(r) ==
    /\ At(r, "link") /\ Unlinked(step[r].sub, step[r].user)
    /\ SetSub(r) /\ Vouch(r)
    /\ Continue(r, Free)
    /\ UNCHANGED <<users, admin, first, oauth, totp>>

CreateUser(r) ==
    /\ At(r, "create") /\ Unlinked(step[r].sub, step[r].user)
    /\ Insert(step[r].user)
    /\ SetSub(r) /\ Vouch(r)
    /\ Continue(r, Free)
    /\ UNCHANGED <<admin, oauth, totp>>

-----------------------------------------------------------------------------
(* The second factor: what the handler read in the extractor, then its writes *)

(* totp_enroll: not enabled when it looked. *)
Enroll(r, e) ==
    /\ At(r, "idle") /\ e \in users \ enabled
    /\ Continue(r, [pc |-> "enroll", user |-> e])
    /\ UNCHANGED <<rows, oauth, totp>>

(* begin_enrollment: a new secret, not enabled, new recovery codes for the old.  *)
(* The eight codes are one here: they are written and deleted together.          *)
BeginEnrollment(r) ==
    /\ At(r, "enroll") /\ secrets < MaxSecrets
    /\ LET e == step[r].user
       IN  /\ secret' = [secret EXCEPT ![e] = secrets + 1]
           /\ code' = [code EXCEPT ![e] = secrets + 1]
           /\ enabled' = enabled \ {e}
    /\ secrets' = secrets + 1
    /\ Continue(r, Free)
    /\ UNCHANGED <<rows, oauth, consumed, proved>>

(* totp_confirm looks for a user without, login and totp_disable for one with.   *)
AskForCode(r, e, then) ==
    /\ At(r, "idle") /\ e \in users
    /\ (then = "confirm") <=> (e \notin enabled)
    /\ Continue(r, [pc |-> "code", user |-> e, then |-> then])
    /\ UNCHANGED <<rows, oauth, totp>>

After(r) == IF step[r].then = "disable" THEN [step[r] EXCEPT !.pc = "disable"] ELSE Free

(* verify_and_maybe_enable reads the row; the code typed is of this secret. *)
CheckCode(r) ==
    /\ At(r, "code") /\ secret[step[r].user] # 0
    /\ Continue(r, [pc |-> "matched", user |-> step[r].user, then |-> step[r].then,
                secret |-> secret[step[r].user], enabled |-> step[r].user \in enabled])
    /\ UNCHANGED <<rows, oauth, totp>>

(* ... and writes: enabled only if it was not when it looked, whatever is in the *)
(* row by now.                                                                   *)
MaybeEnable(r) ==
    /\ At(r, "matched")
    /\ enabled' = IF step[r].enabled THEN enabled ELSE enabled \union {step[r].user}
    /\ proved' = proved \union {step[r].secret}
    /\ Continue(r, IF step[r].then = "disable"
               THEN [pc |-> "disable", user |-> step[r].user, then |-> "disable"] ELSE Free)
    /\ UNCHANGED <<rows, oauth, secret, secrets, code, consumed>>

(* consume_recovery_code: login with a recovery code, and totp_disable when the  *)
(* text is no valid six-digit code.                                              *)
ConsumeRecoveryCode(r) ==
    /\ At(r, "code") /\ step[r].then # "confirm" /\ code[step[r].user] # 0
    /\ consumed' = [consumed EXCEPT ![code[step[r].user]] = @ + 1]
    /\ code' = [code EXCEPT ![step[r].user] = 0]
    /\ Continue(r, After(r))
    /\ UNCHANGED <<rows, oauth, secret, secrets, enabled, proved>>

Disable(r) ==
    /\ At(r, "disable")
    /\ LET e == step[r].user
       IN  /\ enabled' = enabled \ {e}
           /\ secret' = [secret EXCEPT ![e] = 0]
           /\ code' = [code EXCEPT ![e] = 0]
    /\ Continue(r, Free)
    /\ UNCHANGED <<rows, oauth, secrets, consumed, proved>>

(* A database error, a wrong code, a refusal of Google, a client that went away. *)
StatementFails(r) ==
    /\ ~At(r, "idle")
    /\ Continue(r, Free)
    /\ UNCHANGED <<rows, oauth, totp>>

Statement(r) ==
    \/ CountUsers(r) \/ Promote(r) \/ ConsumeState(r)
    \/ FindBySub(r) \/ FindByEmail(r) \/ LinkUser(r) \/ CreateUser(r)
    \/ BeginEnrollment(r) \/ CheckCode(r) \/ MaybeEnable(r)
    \/ ConsumeRecoveryCode(r) \/ Disable(r)
    \/ \E e \in Emails : Register(r, e) \/ Enroll(r, e)
    \/ \E e \in Emails, then \in {"confirm", "login", "disable"} : AskForCode(r, e, then)
    \/ \E identity \in Identities, vouched \in BOOLEAN : ExchangeCode(r, identity, vouched)

AccountsNext == OauthStart \/ \E r \in Callers : Statement(r) \/ StatementFails(r)

AccountsSpec == AccountsInit /\ [][AccountsNext]_accountVars

-----------------------------------------------------------------------------
(* The columns hold what the schema allows, for rows that exist; and no more     *)
(* states are pending than flows were started.                                   *)
AccountsTypeOK ==
    /\ users \subseteq Emails
    /\ admin \subseteq users /\ confirmed \subseteq users /\ enabled \subseteq users
    /\ sub \in [Emails -> Subs \union {NoSub}]
    /\ \A e \in Emails \ users : sub[e] = NoSub /\ secret[e] = 0
    /\ pending \in 0 .. flows /\ flows \in 0 .. MaxFlows
    /\ secrets \in 0 .. MaxSecrets
    /\ secret \in [Emails -> 0 .. secrets] /\ code \in [Emails -> 0 .. secrets]
    /\ consumed \in [1 .. MaxSecrets -> Nat]
    /\ proved \subseteq 1 .. secrets
    /\ step \in [Callers -> Places]

(* lib.rs: "Subsequent registrations see a count >= 2 and skip the promotion":   *)
(* however registrations and sign-ins interleave, nobody but the very first user *)
(* becomes an admin. (Two first registrations at once make none.)                *)
OnlyFirstIsAdmin == admin \subseteq first

(* An identity of Google belongs to one account, also when two callbacks link or *)
(* create at once, or its email changes in between.                              *)
OneAccountPerIdentity ==
    \A e, f \in users : sub[e] = sub[f] /\ sub[e] # NoSub => e = f

(* A recovery code works once, and only with the secret it was issued with.      *)
RecoveryCodeOnce ==
    /\ \A c \in 1 .. MaxSecrets : consumed[c] <= 1
    /\ \A e \in Emails : code[e] # 0 => code[e] = secret[e] /\ consumed[code[e]] = 0

(* totp.rs: enrollment "does NOT flip totp_enabled -- that happens [...] after   *)
(* the user proves they scanned the QR by typing a valid code": a second factor  *)
(* is required only with a secret that a valid code was typed for.               *)
EnabledOnlyAfterProof == \A e \in enabled : secret[e] \in proved
=============================================================================
