---------------------------- MODULE Credentials ----------------------------
(***************************************************************************)
(* What a request may carry and how long it counts: the session cookies    *)
(* and the JWTs of the MemberClub API (apps/memberclub/api/src/auth.rs)    *)
(* and of the auth lab (projects/04-auth-demo: sessions.rs, jwt.rs,        *)
(* jwt_rs256.rs).  The algorithms are trusted: a token verifies under the  *)
(* key and the algorithm that signed it, and under no other.               *)
(***************************************************************************)
EXTENDS Naturals, Sequences

CONSTANTS
    AccessTtl, RefreshTtl, SessionTtl, Leeway,  \* in minutes
    MaxMinute,   \* bound: the clock
    MaxSignIns,  \* bound: sign-ins
    MaxBoots     \* bound: no process restarts once one did so often

ASSUME CredAssumption ==
    /\ AccessTtl \in Nat /\ RefreshTtl \in Nat /\ SessionTtl \in Nat /\ Leeway \in Nat
    /\ MaxMinute \in Nat /\ MaxSignIns \in Nat /\ MaxBoots \in Nat

VARIABLES
    now,      \* Utc::now()
    fromEnv,  \* whether JWT_SECRET and SESSION_SECRET are set; they may be shared
    boots,    \* restarts of each signer's process so far
    signIn,   \* each sign-in: its session row and when it was last given an access token
    jwts      \* the tokens issued

credVars == <<now, fromEnv, boots, signIn, jwts>>

\* Jwt of memberclub and of auth-demo, and JwtRs256 of auth-demo.
Signers == {"memberclub", "auth-demo", "auth-demo rs256"}
SignIns == 1..MaxSignIns
Minutes == 0..MaxMinute

\* ISSUER and AUDIENCE
Issuer(v) == IF v = "memberclub" THEN "memberclub-api" ELSE "auth-demo"
Algorithm(v) == IF v = "auth-demo rs256" THEN "RS256" ELSE "HS256"

\* The JWT secret a process signs with: the environment's, or a random one per
\* boot. RS256 keys are the library's caller's: one pair for good.
Secret(v) ==
    IF Algorithm(v) = "RS256" THEN [of |-> v, boot |-> 0]
    ELSE IF fromEnv THEN [of |-> "env", boot |-> 0] ELSE [of |-> v, boot |-> boots[v]]

CredTypeOK ==
    /\ now \in Minutes
    /\ fromEnv \in BOOLEAN
    /\ boots \in [Signers -> 0..MaxBoots]
    /\ \A i \in DOMAIN signIn : i \in SignIns
    /\ \A t \in jwts : t.signIn \in DOMAIN signIn

CredInit ==
    /\ now = 0
    /\ fromEnv \in BOOLEAN
    /\ boots = [v \in Signers |-> 0]
    /\ signIn = <<>>
    /\ jwts = {}

-----------------------------------------------------------------------------
\* issue: claims and header
Token(v, i, purpose, ttl) ==
    [iss |-> Issuer(v), alg |-> Algorithm(v), key |-> Secret(v), purpose |-> purpose,
     signIn |-> i, exp |-> now + ttl]

AccessToken(v, i) == Token(v, i, "access", AccessTtl)

\* MemberClub issues no refresh tokens.
IssuedTo(v, i) ==
    {AccessToken(v, i)} \cup
        (IF v = "memberclub" THEN {} ELSE {Token(v, i, "refresh", RefreshTtl)})

\* A login or registration: sessions::insert and the tokens of the answer. The
\* RS256 signer has tokens only: its row stands for none.
SignIn(v) ==
    /\ Len(signIn) < MaxSignIns
    /\ signIn' = Append(signIn,
          [signer |-> v, opened |-> now, issued |-> now, cookieKey |-> Secret(v),
           revoked |-> v = "auth-demo rs256"])
    /\ jwts' = jwts \cup IssuedTo(v, Len(signIn) + 1)
    /\ UNCHANGED <<now, fromEnv, boots>>

\* decode: signature, algorithm, issuer and audience, exp with a leeway.
Decodes(v, token) ==
    /\ token.alg = Algorithm(v)
    /\ token.key = Secret(v)
    /\ token.iss = Issuer(v)
    /\ token.exp + Leeway >= now

\* Mutant: the purpose is not looked at.
DecodesAtAll(v, token) == Decodes(v, token)

\* The claims of MemberClub have no purpose to look at.
VerifyAccess(v, token) ==
    Decodes(v, token) /\ (v = "memberclub" \/ token.purpose = "access")

VerifyRefresh(v, token) == Decodes(v, token) /\ token.purpose = "refresh"

\* find_active: the row is there, not revoked, and expires later than now.
FindActive(v, i) ==
    /\ signIn[i].signer = v
    /\ ~signIn[i].revoked
    /\ signIn[i].opened + SessionTtl > now

\* The signature of the cookie, under the key of this boot.
CookieOpens(v, i) == signIn[i].cookieKey = Secret(v)

\* AuthenticatedUser: whom a request to v is let in as, by what it carries. A
\* bearer token decides, whatever cookie is beside it.
LetIn(v) ==
    {[by |-> "bearer", signIn |-> t.signIn] : t \in {t \in jwts : VerifyAccess(v, t)}}
    \cup {[by |-> "cookie", signIn |-> i] :
             i \in {i \in DOMAIN signIn : CookieOpens(v, i) /\ FindActive(v, i)}}

\* refresh: a new access token (its chain of refresh tokens is AuthSessions').
Refresh(v) ==
    \E t \in jwts :
        /\ VerifyRefresh(v, t)
        /\ jwts' = jwts \cup {AccessToken(v, t.signIn)}
        /\ signIn' = [signIn EXCEPT ![t.signIn].issued = now]
        /\ UNCHANGED <<now, fromEnv, boots>>

\* logout: sessions::revoke of the cookie's row, if its signature holds.
LogOut(v) ==
    \E i \in DOMAIN signIn :
        /\ signIn[i].signer = v /\ CookieOpens(v, i)
        /\ signIn' = [signIn EXCEPT ![i].revoked = TRUE]
        /\ UNCHANGED <<now, fromEnv, boots, jwts>>

\* main.rs runs again, on the database it had (DATABASE_URL names a file).
Restart(v) ==
    /\ \A u \in Signers : boots[u] < MaxBoots
    /\ boots' = [boots EXCEPT ![v] = @ + 1]
    /\ UNCHANGED <<now, fromEnv, signIn, jwts>>

MinutePasses ==
    /\ now < MaxMinute
    /\ now' = now + 1
    /\ UNCHANGED <<fromEnv, boots, signIn, jwts>>

CredNext ==
    \/ MinutePasses
    \/ \E v \in Signers :
          SignIn(v) \/ Refresh(v) \/ LogOut(v) \/ Restart(v)

CredSpec == CredInit /\ [][CredNext]_credVars

-----------------------------------------------------------------------------
\* Access ends: whoever is let in signed in here, and did so or refreshed at
\* most an access token's life and the leeway ago, or presents a cookie of a
\* session younger than its 30 days that was not logged out. No restart, shared
\* secret or token meant for something else or somebody else stretches that.
AccessEnds ==
    \A v \in Signers : \A g \in LetIn(v) :
        LET s == signIn[g.signIn]
        IN  /\ s.signer = v
            /\ \/ now <= s.issued + AccessTtl + Leeway
               \/ g.by = "cookie" /\ ~s.revoked /\ now < s.opened + SessionTtl
=============================================================================
