------------------------------- MODULE AuthSessions -------------------------------
(* What one account of the auth lab (projects/04-auth-demo) is signed in with:   *)
(* session rows, families of refresh tokens, and one-time links of three kinds.  *)
(* Each SQL statement or transaction that writes is one action. A transaction    *)
(* that starts with a SELECT and then writes takes two: `snapshot` has the       *)
(* requests whose read is still current, and SQLite refuses the write of any     *)
(* other. There is no clock: a lookup that finds a row expired changes nothing.  *)
EXTENDS Naturals, Sequences, FiniteSets

CONSTANTS Requests,      \* requests that run at once
          MaxLinks,      \* bound on the links issued, a number for each kind
          MaxSessions,   \* bound on the sessions opened
          MaxRefresh     \* bound on the refresh tokens recorded

Kinds == {"verify", "reset", "magic"}

ASSUME SessionsAssumption == MaxLinks \in [Kinds -> Nat]

Links(k) == 1 .. MaxLinks[k]

VARIABLES password,   \* users.password_hash: how often it was reset
          verified,   \* users.is_email_verified
          issued,     \* links of each kind issued; a link is its number
          unused,     \* links of each kind that can still be redeemed
          redeemed,   \* how often each link was redeemed (history)
          session,    \* the rows of sessions, in order
          refresh,    \* the rows of refresh_tokens, in order
          burnt,      \* families in which a reuse was detected (history)
          at,         \* where each request is
          snapshot    \* requests whose open transaction can still write

links == <<issued, unused, redeemed>>
tokens == <<refresh, burnt>>
vars == <<password, verified, links, session, tokens, at, snapshot>>

Idle == [pc |-> "idle"]

Init ==
    /\ password = 0 /\ verified = FALSE
    /\ issued = [k \in Kinds |-> 0]
    /\ unused = [k \in Kinds |-> {}]
    /\ redeemed = [k \in Kinds |-> [t \in Links(k) |-> 0]]
    /\ session = << >> /\ refresh = << >> /\ burnt = {}
    /\ at = [r \in Requests |-> Idle]
    /\ snapshot = {}

Goto(r, place) == at' = [at EXCEPT ![r] = place]
Committed == snapshot' = {}

Live(token) == ~token.used /\ ~token.revoked

Revoked(token) == [token EXCEPT !.revoked = TRUE]

-----------------------------------------------------------------------------
(* Signing in and out *)

(* login: the user row is read and the password verified against it. *)
Login(r) ==
    /\ at[r] = Idle
    /\ Goto(r, [pc |-> "checked"])
    /\ UNCHANGED <<password, verified, links, session, tokens, snapshot>>

(* sessions::insert. `opened` is the password that is current now; the one that  *)
(* the request verified may have been replaced since.                            *)
OpenSession(r) ==
    /\ at[r].pc = "checked" /\ Len(session) < MaxSessions
    /\ session' = Append(session, [opened |-> password, live |-> TRUE])
    /\ Goto(r, [pc |-> "opened", family |-> Len(session) + 1])
    /\ Committed
    /\ UNCHANGED <<password, verified, links, tokens>>

(* record_root: a family of its own for this login. *)
RecordRoot(r) ==
    /\ at[r].pc = "opened" /\ Len(refresh) < MaxRefresh
    /\ refresh' = Append(refresh, [family |-> at[r].family, opened |-> password,
                                   used |-> FALSE, revoked |-> FALSE])
    /\ Goto(r, Idle)
    /\ Committed
    /\ UNCHANGED <<password, verified, links, session, burnt>>

(* logout: the session of the cookie, and nothing else. *)
Logout(n) ==
    /\ session' = [session EXCEPT ![n].live = FALSE]
    /\ Committed
    /\ UNCHANGED <<password, verified, links, tokens, at>>

(* A request that ends in an error wherever it stands: a database error (a write *)
(* refused with SQLITE_BUSY_SNAPSHOT is one), or a client that went away.        *)
RequestFails(r) ==
    /\ at[r] # Idle
    /\ Goto(r, Idle)
    /\ snapshot' = snapshot \ {r}
    /\ UNCHANGED <<password, verified, links, session, tokens>>

-----------------------------------------------------------------------------
(* refresh: rotate is one write transaction, its UPDATE comes first *)

Child(token) == [token EXCEPT !.used = FALSE]

(* Mutant: the claim does not look at revoked_at. *)
RotateRevoked(t) ==
    /\ ~refresh[t].used /\ Len(refresh) < MaxRefresh
    /\ refresh' = Append([refresh EXCEPT ![t].used = TRUE],
                         [refresh[t] EXCEPT !.used = FALSE, !.revoked = FALSE])
    /\ Committed
    /\ UNCHANGED <<password, verified, links, session, burnt, at>>

(* The token is claimed and a child of the same family takes its place. *)
Rotate(t) ==
    /\ Live(refresh[t]) /\ Len(refresh) < MaxRefresh
    /\ refresh' = Append([refresh EXCEPT ![t].used = TRUE], Child(refresh[t]))
    /\ Committed
    /\ UNCHANGED <<password, verified, links, session, burnt, at>>

(* A used token comes back: the whole family is revoked. *)
RotateReused(t) ==
    /\ refresh[t].used /\ ~refresh[t].revoked
    /\ refresh' = [i \in DOMAIN refresh |->
                      IF refresh[i].family = refresh[t].family
                      THEN Revoked(refresh[i]) ELSE refresh[i]]
    /\ burnt' = burnt \union {refresh[t].family}
    /\ Committed
    /\ UNCHANGED <<password, verified, links, session, at>>

-----------------------------------------------------------------------------
(* One-time links: email_verify, password_reset and magic_link *)

(* issue: the unused links of the kind are marked used, then the new one goes in.*)
Issue(k) ==
    /\ issued[k] < MaxLinks[k]
    /\ issued' = [issued EXCEPT ![k] = @ + 1]
    /\ unused' = [unused EXCEPT ![k] = {issued[k] + 1}]
    /\ Committed
    /\ UNCHANGED <<password, verified, redeemed, session, tokens, at>>

(* A request is authenticated by a live session or by an access token, which the *)
(* first answer with a refresh token carries too and no revocation takes back.   *)
AuthenticatedUser == refresh # << >> \/ \E n \in DOMAIN session : session[n].live

VerifyEmailRequest == AuthenticatedUser /\ Issue("verify")
ForgotPassword == Issue("reset")
MagicRequest == Issue("magic")

(* confirm, complete: the SELECT finds the link unused. *)
Look(r, k, t) ==
    /\ at[r] = Idle /\ t \in unused[k]
    /\ Goto(r, [pc |-> "found", kind |-> k, link |-> t])
    /\ snapshot' = snapshot \union {r}
    /\ UNCHANGED <<password, verified, links, session, tokens>>

Use(k, t) ==
    /\ unused' = [unused EXCEPT ![k] = @ \ {t}]
    /\ redeemed' = [redeemed EXCEPT ![k][t] = @ + 1]
    /\ UNCHANGED issued

(* Mutant: the lookup and the writes are not one transaction. *)
FoundStale(r, k) == at[r].pc = "found" /\ at[r].kind = k

Found(r, k) == at[r].pc = "found" /\ at[r].kind = k /\ r \in snapshot

ConfirmEmail(r) ==
    /\ Found(r, "verify")
    /\ Use("verify", at[r].link)
    /\ verified' = TRUE
    /\ Goto(r, Idle)
    /\ Committed
    /\ UNCHANGED <<password, session, tokens>>

(* A magic link takes the place of the password; the session comes next. *)
ConfirmMagic(r) ==
    /\ Found(r, "magic")
    /\ Use("magic", at[r].link)
    /\ Goto(r, [pc |-> "checked"])
    /\ Committed
    /\ UNCHANGED <<password, verified, session, tokens>>

(* Mutant: the refresh tokens survive. *)
CompleteKeepingTokens(r) ==
    /\ Found(r, "reset")
    /\ Use("reset", at[r].link)
    /\ password' = password + 1
    /\ session' = [n \in DOMAIN session |-> [session[n] EXCEPT !.live = FALSE]]
    /\ Goto(r, Idle)
    /\ Committed
    /\ UNCHANGED <<verified, tokens>>

(* password_reset::complete: a new password; all sessions, all tokens revoked. *)
CompleteReset(r) ==
    /\ Found(r, "reset")
    /\ Use("reset", at[r].link)
    /\ password' = password + 1
    /\ session' = [n \in DOMAIN session |-> [session[n] EXCEPT !.live = FALSE]]
    /\ refresh' = [i \in DOMAIN refresh |-> Revoked(refresh[i])]
    /\ Goto(r, Idle)
    /\ Committed
    /\ UNCHANGED <<verified, burnt>>

Next ==
    \/ \E r \in Requests :
          \/ Login(r) \/ OpenSession(r) \/ RecordRoot(r) \/ RequestFails(r)
          \/ ConfirmEmail(r) \/ ConfirmMagic(r) \/ CompleteReset(r)
          \/ \E k \in Kinds : \E t \in Links(k) : Look(r, k, t)
    \/ \E n \in DOMAIN session : Logout(n)
    \/ \E t \in DOMAIN refresh : Rotate(t) \/ RotateReused(t)
    \/ VerifyEmailRequest \/ ForgotPassword \/ MagicRequest

Spec == Init /\ [][Next]_vars

-----------------------------------------------------------------------------
Place ==
    {Idle}
    \union [pc : {"checked"}]
    \union [pc : {"opened"}, family : 1 .. Len(session)]
    \union UNION {[pc : {"found"}, kind : {k}, link : Links(k)] : k \in Kinds}

(* The rows hold what the schema allows, at most the newest link of a kind is     *)
(* unused, and a request that looked one up, with no other commit since, is about *)
(* to redeem a link that is still unused.                                        *)
TypeOK ==
    /\ password \in Nat /\ verified \in BOOLEAN
    /\ DOMAIN issued = Kinds /\ DOMAIN unused = Kinds /\ DOMAIN redeemed = Kinds
    /\ \A k \in Kinds :
          /\ issued[k] \in 0 .. MaxLinks[k]
          /\ unused[k] \subseteq {issued[k]} \ {0}
          /\ redeemed[k] \in [Links(k) -> Nat]
    /\ session \in Seq([opened : Nat, live : BOOLEAN])
    /\ refresh \in Seq([family : Nat, opened : Nat, used : BOOLEAN, revoked : BOOLEAN])
    /\ burnt \subseteq 1 .. Len(session)
    /\ at \in [Requests -> Place]
    /\ snapshot \subseteq Requests
    /\ \A r \in snapshot : at[r].pc = "found" /\ at[r].link \in unused[at[r].kind]

(* "a leaked or forwarded earlier link can no longer be redeemed once a resend   *)
(* has been requested" (email_verify.rs), and no link is redeemed twice, however *)
(* lookups, redemptions and resends of concurrent requests interleave.           *)
RedeemsNewestOnce ==
    [][\A k \in Kinds : \A t \in Links(k) : redeemed'[k][t] # redeemed[k][t] =>
          t = issued[k] /\ redeemed[k][t] = 0 /\ redeemed'[k][t] = 1]_vars

(* A family has at most one token that can be rotated, and none once one of its  *)
(* used tokens was presented again (refresh_tokens.rs: "Kill the whole family"). *)
OneLiveTokenPerFamily ==
    \A i, j \in DOMAIN refresh :
       Live(refresh[i]) =>
          /\ refresh[i].family \notin burnt
          /\ Live(refresh[j]) /\ refresh[i].family = refresh[j].family => i = j

(* What was opened before the last reset of the password is dead, the children   *)
(* that refresh tokens got since included.                                       *)
ResetRevokes ==
    /\ \A n \in DOMAIN session : session[n].live => session[n].opened = password
    /\ \A t \in DOMAIN refresh : Live(refresh[t]) => refresh[t].opened = password
=============================================================================
