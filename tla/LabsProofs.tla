------------------------------ MODULE LabsProofs ------------------------------
(***************************************************************************)
(* Theorems about the labs MCLabs runs together, which share no state:     *)
(* Credentials, WebhookReceiver, RateLimiter, RbacPolicy, Fetcher,         *)
(* NotesApi, Money and Subscription, and at the end about the run itself,  *)
(* with the labs of SagaProofs, SingleFlightProofs and BillingProofs.      *)
(***************************************************************************)
EXTENDS MCLabs, SagaProofs, SingleFlightProofs, BillingProofs,
        FiniteSetTheorems, SequenceTheorems, WellFoundedInduction, TLAPS

-----------------------------------------------------------------------------
(* Credentials: how long cookies and tokens let somebody in, for any       *)
(* lifetimes, any number of sign-ins and restarts, and secrets that are    *)
(* shared or not.                                                          *)

(* The inductive invariant: a token names the sign-in it came from, in the *)
(* name and algorithm of the one who issued it, and an access token ends   *)
(* an access token's life after that sign-in was last given one.           *)

CookieKeys == [of : Signers \cup {"env"}, boot : Nat]

SignInRow ==
    [signer : Signers, opened : Nat, issued : Nat, cookieKey : CookieKeys, revoked : BOOLEAN]

RowsTyped ==
    /\ now \in Nat
    /\ boots \in [Signers -> Nat]
    /\ signIn \in Seq(SignInRow)
    /\ \A i \in DOMAIN signIn : signIn[i].issued <= now

TokenFits(token) ==
    /\ token.signIn \in DOMAIN signIn
    /\ token.iss = Issuer(signIn[token.signIn].signer)
    /\ token.alg = Algorithm(signIn[token.signIn].signer)
    /\ token.purpose \in {"access", "refresh"}
    /\ signIn[token.signIn].signer = "memberclub" => token.purpose = "access"
    /\ token.exp \in Nat
    /\ token.purpose = "access" => token.exp <= signIn[token.signIn].issued + AccessTtl

CredIInv == RowsTyped /\ \A token \in jwts : TokenFits(token)

\* A token's issuer and algorithm tell who signed it.
LEMMA SignerIsKnown ==
    ASSUME NEW u \in Signers, NEW v \in Signers,
           Issuer(u) = Issuer(v), Algorithm(u) = Algorithm(v)
    PROVE  u = v
<1>1. ASSUME NEW w \in Signers
      PROVE  /\ w = "memberclub" <=> Issuer(w) = "memberclub-api"
             /\ w = "auth-demo rs256" <=> Algorithm(w) = "RS256"
             /\ w \in {"memberclub", "auth-demo", "auth-demo rs256"}
  BY DEF Signers, Issuer, Algorithm
<1>. QED  BY <1>1

LEMMA SecretIsKey ==
    ASSUME RowsTyped, NEW v \in Signers
    PROVE  Secret(v) \in CookieKeys
BY DEF RowsTyped, Secret, CookieKeys

LEMMA RowAdded ==
    ASSUME NEW S, NEW s \in Seq(S), NEW x \in S, NEW t, t = Append(s, x)
    PROVE  /\ t \in Seq(S) /\ Len(s) \in Nat
           /\ DOMAIN s = 1 .. Len(s) /\ DOMAIN t = 1 .. (Len(s) + 1)
           /\ \A i \in DOMAIN s : i \in DOMAIN t /\ t[i] = s[i]
           /\ t[Len(s) + 1] = x /\ Len(s) + 1 \in DOMAIN t
           /\ \A i \in DOMAIN t : i \in DOMAIN s \/ i = Len(s) + 1
<1>1. Len(s) \in Nat /\ DOMAIN s = 1 .. Len(s)
  BY LenProperties
<1>2. t \in Seq(S) /\ Len(t) = Len(s) + 1
  BY AppendProperties
<1>3. DOMAIN t = 1 .. (Len(s) + 1)
  BY <1>2, LenProperties
<1>4. t[Len(s) + 1] = x /\ \A i \in 1 .. Len(s) : t[i] = s[i]
  BY AppendProperties
<1>. QED  BY <1>1, <1>2, <1>3, <1>4

LEMMA TokenIsWhatItSays ==
    ASSUME NEW v, NEW i, NEW purpose, NEW ttl
    PROVE  /\ Token(v, i, purpose, ttl).signIn = i
           /\ Token(v, i, purpose, ttl).iss = Issuer(v)
           /\ Token(v, i, purpose, ttl).alg = Algorithm(v)
           /\ Token(v, i, purpose, ttl).purpose = purpose
           /\ Token(v, i, purpose, ttl).exp = now + ttl
BY DEF Token

\* Tokens go on fitting as rows are added, and as an access token is issued
\* later than before.
LEMMA Lasting ==
    ASSUME CredIInv, RowsTyped', DOMAIN signIn \subseteq DOMAIN signIn',
           \A i \in DOMAIN signIn : /\ signIn'[i].signer = signIn[i].signer
                                    /\ signIn[i].issued <= signIn'[i].issued
    PROVE  \A token \in jwts : TokenFits(token)'
<1>. SUFFICES ASSUME NEW token \in jwts
              PROVE  TokenFits(token)'
  OBVIOUS
<1>1. TokenFits(token)
  BY DEF CredIInv
<1>. DEFINE i == token.signIn
<1>2. i \in DOMAIN signIn /\ i \in DOMAIN signIn'
  BY <1>1 DEF TokenFits
<1>3. signIn[i] \in SignInRow /\ signIn'[i] \in SignInRow
  BY <1>2, ElementOfSeq, LenProperties DEF CredIInv, RowsTyped
<1>4. signIn[i].issued \in Nat /\ signIn'[i].issued \in Nat
  BY <1>3 DEF SignInRow
<1>. QED  BY <1>1, <1>2, <1>4, CredAssumption DEF TokenFits

-----------------------------------------------------------------------------
LEMMA SignInKeeps ==
    ASSUME CredIInv, NEW v \in Signers, SignIn(v)
    PROVE  CredIInv'
<1>. DEFINE n == Len(signIn) + 1
            new == [signer |-> v, opened |-> now, issued |-> now, cookieKey |-> Secret(v),
                    revoked |-> v = "auth-demo rs256"]
<1>1. new \in SignInRow
  <2>1. Secret(v) \in CookieKeys /\ now \in Nat
    BY SecretIsKey DEF CredIInv, RowsTyped
  <2>2. (v = "auth-demo rs256") \in BOOLEAN
    OBVIOUS
  <2>. QED  BY <2>1, <2>2 DEF SignInRow
<1>2. /\ signIn' = Append(signIn, new) /\ UNCHANGED <<now, boots>>
      /\ jwts' = jwts \cup IssuedTo(v, n)
  BY DEF SignIn
<1>3. signIn \in Seq(SignInRow)
  BY DEF CredIInv, RowsTyped
<1>4. new.signer = v /\ new.issued = now
  OBVIOUS
<1>. HIDE DEF new, n
<1>5. /\ signIn' \in Seq(SignInRow) /\ DOMAIN signIn = 1 .. Len(signIn)
      /\ \A i \in DOMAIN signIn : i \in DOMAIN signIn' /\ signIn'[i] = signIn[i]
      /\ signIn'[n] = new /\ n \in DOMAIN signIn'
      /\ \A i \in DOMAIN signIn' : i \in DOMAIN signIn \/ i = n
  BY <1>1, <1>2, <1>3, RowAdded DEF n
<1>6. RowsTyped'
  BY <1>2, <1>4, <1>5 DEF CredIInv, RowsTyped
<1>7. \A token \in jwts : TokenFits(token)'
  <2>1. \A i \in DOMAIN signIn : signIn[i].issued \in Nat
    <3>. SUFFICES ASSUME NEW i \in DOMAIN signIn
                  PROVE  signIn[i].issued \in Nat
      OBVIOUS
    <3>1. signIn[i] \in SignInRow
      BY <1>3, <1>5, ElementOfSeq
    <3>. QED  BY <3>1 DEF SignInRow
  <2>2. \A i \in DOMAIN signIn : signIn[i].issued <= signIn'[i].issued
    BY <1>5, <2>1
  <2>3. DOMAIN signIn \subseteq DOMAIN signIn'
    BY <1>5
  <2>. QED  BY <1>5, <1>6, <2>2, <2>3, Lasting
<1>8. \A token \in IssuedTo(v, n) : TokenFits(token)'
  <2>. SUFFICES ASSUME NEW token \in IssuedTo(v, n)
                PROVE  TokenFits(token)'
    OBVIOUS
  <2>1. n \in DOMAIN signIn' /\ signIn'[n].signer = v /\ signIn'[n].issued = now
    BY <1>5, <1>4
  <2>2. now \in Nat /\ now' = now
    BY <1>2 DEF CredIInv, RowsTyped
  <2>3. CASE token = AccessToken(v, n)
    BY <2>1, <2>2, <2>3, TokenIsWhatItSays, CredAssumption DEF AccessToken, TokenFits
  <2>4. CASE token = Token(v, n, "refresh", RefreshTtl) /\ v # "memberclub"
    BY <2>1, <2>2, <2>4, TokenIsWhatItSays, CredAssumption DEF TokenFits
  <2>. QED  BY <2>3, <2>4 DEF IssuedTo
<1>. QED  BY <1>2, <1>6, <1>7, <1>8 DEF CredIInv

\* logout and refresh rewrite one row.
LEMMA RowRewritten ==
    ASSUME CredIInv, NEW i \in DOMAIN signIn, NEW new \in SignInRow,
           signIn' = [signIn EXCEPT ![i] = new], UNCHANGED <<now, boots>>,
           new.signer = signIn[i].signer, new.issued \in {signIn[i].issued, now}
    PROVE  /\ RowsTyped' /\ DOMAIN signIn' = DOMAIN signIn /\ signIn'[i] = new
           /\ \A token \in jwts : TokenFits(token)'
<1>1. signIn \in Seq(SignInRow) /\ now \in Nat
  BY DEF CredIInv, RowsTyped
<1>2. /\ DOMAIN signIn = 1 .. Len(signIn) /\ Len(signIn) \in Nat
      /\ \A j \in DOMAIN signIn : signIn[j] \in SignInRow
  BY <1>1, ElementOfSeq, LenProperties
<1>3. /\ signIn' \in Seq(SignInRow) /\ DOMAIN signIn' = DOMAIN signIn
      /\ \A j \in DOMAIN signIn : signIn'[j] = IF j = i THEN new ELSE signIn[j]
  BY <1>1, <1>2, ExceptSeq
<1>4. \A j \in DOMAIN signIn : signIn[j].issued \in Nat /\ signIn[j].issued <= now
  BY <1>2 DEF SignInRow, CredIInv, RowsTyped
<1>5. RowsTyped'
  BY <1>3, <1>4, <1>1 DEF CredIInv, RowsTyped
<1>6. \A j \in DOMAIN signIn : /\ signIn'[j].signer = signIn[j].signer
                               /\ signIn[j].issued <= signIn'[j].issued
  BY <1>3, <1>4, <1>1
<1>. QED  BY <1>3, <1>5, <1>6, Lasting

LEMMA RefreshKeeps ==
    ASSUME CredIInv, NEW v \in Signers, Refresh(v)
    PROVE  CredIInv'
<1>1. PICK t \in jwts :
          /\ VerifyRefresh(v, t)
          /\ jwts' = jwts \cup {AccessToken(v, t.signIn)}
          /\ signIn' = [signIn EXCEPT ![t.signIn].issued = now]
          /\ UNCHANGED <<now, fromEnv, boots>>
  BY DEF Refresh
<1>. DEFINE i == t.signIn
            new == [signIn[i] EXCEPT !.issued = now]
<1>2. TokenFits(t) /\ i \in DOMAIN signIn
  BY DEF CredIInv, TokenFits
<1>3. signIn[i] \in SignInRow /\ now \in Nat
  BY <1>2, ElementOfSeq, LenProperties DEF CredIInv, RowsTyped
<1>4. signIn[i].signer = v
  BY <1>1, <1>2, <1>3, SignerIsKnown DEF TokenFits, VerifyRefresh, Decodes, SignInRow
<1>5. new \in SignInRow /\ new.signer = v /\ new.issued = now
  BY <1>3, <1>4 DEF SignInRow
<1>6. /\ RowsTyped' /\ DOMAIN signIn' = DOMAIN signIn /\ signIn'[i] = new
      /\ \A token \in jwts : TokenFits(token)'
  BY <1>1, <1>2, <1>4, <1>5, RowRewritten
<1>. HIDE DEF new
<1>7. ASSUME NEW token, token = AccessToken(v, i)
      PROVE  TokenFits(token)'
  <2>1. /\ token.signIn = i /\ token.iss = Issuer(v) /\ token.alg = Algorithm(v)
        /\ token.purpose = "access" /\ token.exp = now + AccessTtl
    BY <1>7, TokenIsWhatItSays DEF AccessToken
  <2>2. i \in DOMAIN signIn' /\ signIn'[i].signer = v /\ signIn'[i].issued = now
    BY <1>2, <1>5, <1>6
  <2>. QED  BY <1>3, <2>1, <2>2, CredAssumption DEF TokenFits
<1>8. \A token \in jwts' : TokenFits(token)'
  <2>. SUFFICES ASSUME NEW token \in jwts'
                PROVE  TokenFits(token)'
    OBVIOUS
  <2>1. CASE token \in jwts
    BY <1>6, <2>1
  <2>2. CASE token = AccessToken(v, i)
    BY <1>7, <2>2
  <2>. QED  BY <1>1, <2>1, <2>2
<1>. QED  BY <1>6, <1>8 DEF CredIInv

LEMMA LogOutKeeps ==
    ASSUME CredIInv, NEW v \in Signers, LogOut(v)
    PROVE  CredIInv'
<1>1. PICK i \in DOMAIN signIn :
          /\ signIn' = [signIn EXCEPT ![i].revoked = TRUE]
          /\ UNCHANGED <<now, fromEnv, boots, jwts>>
  BY DEF LogOut
<1>. DEFINE new == [signIn[i] EXCEPT !.revoked = TRUE]
<1>2. signIn[i] \in SignInRow
  BY ElementOfSeq, LenProperties DEF CredIInv, RowsTyped
<1>3. new \in SignInRow /\ new.signer = signIn[i].signer /\ new.issued = signIn[i].issued
  BY <1>2 DEF SignInRow
<1>. QED  BY <1>1, <1>3, RowRewritten DEF CredIInv

LEMMA CredNextKeeps ==
    ASSUME CredIInv, [CredNext]_credVars
    PROVE  CredIInv'
<1>1. ASSUME UNCHANGED <<signIn, jwts>>, now' \in Nat, now <= now', boots' \in [Signers -> Nat]
      PROVE  CredIInv'
  <2>1. \A i \in DOMAIN signIn : signIn[i].issued \in Nat
    <3>. SUFFICES ASSUME NEW i \in DOMAIN signIn
                  PROVE  signIn[i].issued \in Nat
      OBVIOUS
    <3>1. signIn[i] \in SignInRow
      BY ElementOfSeq, LenProperties DEF CredIInv, RowsTyped
    <3>. QED  BY <3>1 DEF SignInRow
  <2>2. RowsTyped'
    BY <1>1, <2>1 DEF CredIInv, RowsTyped
  <2>. QED  BY <1>1, <2>2 DEF CredIInv, TokenFits
<1>2. CASE UNCHANGED credVars
  BY <1>1, <1>2 DEF CredIInv, RowsTyped, credVars
<1>3. CASE MinutePasses
  BY <1>1, <1>3 DEF CredIInv, RowsTyped, MinutePasses
<1>4. ASSUME NEW v \in Signers, Restart(v)
      PROVE  CredIInv'
  BY <1>1, <1>4 DEF CredIInv, RowsTyped, Restart
<1>. QED
  BY <1>2, <1>3, <1>4, SignInKeeps, RefreshKeeps, LogOutKeeps DEF CredNext

-----------------------------------------------------------------------------
LEMMA CredInitially == CredInit => CredIInv /\ CredTypeOK
<1>1. 0 \in Minutes /\ 0 \in 0..MaxBoots
  BY CredAssumption DEF Minutes
<1>2. CredInit => CredTypeOK
  BY <1>1 DEF CredInit, CredTypeOK
<1>. QED  BY <1>2, EmptySeq DEF CredInit, CredIInv, RowsTyped

\* The bounds of the clock, the restarts and the sign-ins.
LEMMA CredTypes ==
    ASSUME CredIInv, CredTypeOK, [CredNext]_credVars
    PROVE  CredTypeOK'
<1>1. \A token \in jwts' : token.signIn \in DOMAIN signIn'
  BY CredNextKeeps DEF CredIInv, TokenFits
<1>2. signIn \in Seq(SignInRow) /\ DOMAIN signIn = 1 .. Len(signIn) /\ Len(signIn) \in Nat
  BY LenProperties DEF CredIInv, RowsTyped
<1>3. \A i \in DOMAIN signIn : i \in SignIns
  BY DEF CredTypeOK
<1>4. CASE UNCHANGED credVars
  BY <1>1, <1>4 DEF CredTypeOK, credVars
<1>5. CASE MinutePasses
  <2>1. now' \in Minutes
    BY <1>5, CredAssumption DEF MinutePasses, CredTypeOK, Minutes
  <2>. QED  BY <1>1, <1>5, <2>1 DEF MinutePasses, CredTypeOK
<1>6. ASSUME NEW v \in Signers, SignIn(v)
      PROVE  CredTypeOK'
  <2>1. PICK new : signIn' = Append(signIn, new)
    BY <1>6 DEF SignIn
  <2>2. DOMAIN signIn' = 1 .. Len(signIn) + 1
    BY <1>2, <2>1
  <2>3. \A i \in DOMAIN signIn' : i \in SignIns
    <3>1. Len(signIn) < MaxSignIns
      BY <1>6 DEF SignIn
    <3>. QED  BY <1>2, <2>2, <3>1, CredAssumption DEF SignIns
  <2>. QED  BY <1>1, <1>6, <2>3 DEF SignIn, CredTypeOK
<1>7. ASSUME NEW v \in Signers, Refresh(v) \/ LogOut(v)
      PROVE  CredTypeOK'
  <2>1. DOMAIN signIn' = DOMAIN signIn /\ UNCHANGED <<now, fromEnv, boots>>
    BY <1>7 DEF Refresh, LogOut
  <2>. QED  BY <1>1, <1>3, <2>1 DEF CredTypeOK
<1>8. ASSUME NEW v \in Signers, Restart(v)
      PROVE  CredTypeOK'
  <2>1. boots' \in [Signers -> 0..MaxBoots]
    BY <1>8, CredAssumption DEF Restart, CredTypeOK
  <2>. QED  BY <1>1, <1>8, <2>1 DEF Restart, CredTypeOK
<1>. QED  BY <1>4, <1>5, <1>6, <1>7, <1>8 DEF CredNext

\* The invariant the theorem below follows from holds in every reachable state.
THEOREM CredInvariant == CredSpec => []CredIInv
<1>1. CredIInv /\ [CredNext]_credVars => CredIInv'
  BY CredNextKeeps
<1>. QED  BY <1>1, CredInitially, PTL DEF CredSpec

\* Neither restarts, a secret shared by the signers, nor a refresh token
\* presented for an access token lets anybody in past the end of what he was
\* given, or in somebody else's name.
THEOREM AccessEndsForAll == CredSpec => []AccessEnds
<1>1. CredIInv => AccessEnds
  <2>. SUFFICES ASSUME CredIInv, NEW v \in Signers, NEW g \in LetIn(v)
                PROVE  LET s == signIn[g.signIn]
                       IN  /\ s.signer = v
                           /\ \/ now <= s.issued + AccessTtl + Leeway
                              \/ g.by = "cookie" /\ ~s.revoked /\ now < s.opened + SessionTtl
    BY DEF AccessEnds
  <2>1. ASSUME NEW t \in jwts, VerifyAccess(v, t),
               g = [by |-> "bearer", signIn |-> t.signIn]
        PROVE  /\ signIn[g.signIn].signer = v
               /\ now <= signIn[g.signIn].issued + AccessTtl + Leeway
    <3>1. TokenFits(t) /\ g.signIn = t.signIn /\ g.signIn \in DOMAIN signIn
      BY <2>1 DEF CredIInv, TokenFits
    <3>2. signIn[g.signIn] \in SignInRow /\ now \in Nat
      BY <3>1, ElementOfSeq, LenProperties DEF CredIInv, RowsTyped
    <3>3. signIn[g.signIn].signer \in Signers /\ signIn[g.signIn].issued \in Nat
      BY <3>2 DEF SignInRow
    <3>4. signIn[g.signIn].signer = v
      BY <2>1, <3>1, <3>3, SignerIsKnown DEF TokenFits, VerifyAccess, Decodes
    <3>5. t.purpose = "access" /\ t.exp + Leeway >= now
      BY <2>1, <3>1, <3>4 DEF TokenFits, VerifyAccess, Decodes
    <3>. QED  BY <3>1, <3>2, <3>3, <3>4, <3>5, CredAssumption DEF TokenFits
  <2>2. ASSUME NEW i \in DOMAIN signIn, FindActive(v, i),
               g = [by |-> "cookie", signIn |-> i]
        PROVE  /\ signIn[g.signIn].signer = v /\ g.by = "cookie"
               /\ ~signIn[g.signIn].revoked /\ now < signIn[g.signIn].opened + SessionTtl
    <3>1. signIn[i] \in SignInRow /\ now \in Nat
      BY ElementOfSeq, LenProperties DEF CredIInv, RowsTyped
    <3>2. signIn[i].opened \in Nat
      BY <3>1 DEF SignInRow
    <3>. QED  BY <2>2, <3>1, <3>2, CredAssumption DEF FindActive
  <2>3. \/ \E t \in jwts : VerifyAccess(v, t) /\ g = [by |-> "bearer", signIn |-> t.signIn]
        \/ \E i \in DOMAIN signIn : FindActive(v, i) /\ g = [by |-> "cookie", signIn |-> i]
    BY DEF LetIn
  <2>. QED  BY <2>1, <2>2, <2>3
<1>. QED  BY <1>1, CredInvariant, PTL

-----------------------------------------------------------------------------
(* WebhookReceiver, for any events and any number of requests, crashes and *)
(* replays.                                                                *)

(* The inductive invariant.  What is said of acked events rests on what a  *)
(* request on its way has done; that the handler runs once, on there being *)
(* one request at work on an event that is not in cut.                     *)

\* What has happened by the time a request is where it is.
Progress ==
    \A d \in Deliveries :
        /\ At(d, "conflict") => row[EventAt(d)] # "absent"
        /\ At(d, "handling") => row[EventAt(d)] # "absent"
        /\ At(d, "marking") => row[EventAt(d)] # "absent" /\ handled[EventAt(d)] > 0
        /\ At(d, "answering") => row[EventAt(d)] = "processed"

Finished ==
    /\ \A e \in Events : row[e] = "processed" => handled[e] > 0
    /\ \A e \in acked : row[e] = "processed"

WorksOn(d, e) == (At(d, "handling") \/ At(d, "marking")) /\ EventAt(d) = e
Marks(d, e) == At(d, "marking") /\ EventAt(d) = e

OneAtWork ==
    \A e \in Events \ cut :
        /\ \A d \in Deliveries : WorksOn(d, e) => row[e] = "stored"
        /\ \A c, d \in Deliveries : WorksOn(c, e) /\ WorksOn(d, e) => c = d
        /\ handled[e] <= 1
        /\ row[e] # "processed" /\ (\A d \in Deliveries : ~Marks(d, e)) => handled[e] = 0

HookIInv == HookTypeOK /\ Progress /\ Finished /\ OneAtWork

-----------------------------------------------------------------------------
(* How a step changes where the requests are. *)

Moved(d, place) ==
    /\ delivery' \in [Deliveries -> Requests \cup {NoDelivery}]
    /\ \A x \in Deliveries \ {d} : delivery'[x] = delivery[x]
    /\ delivery'[d].at = place
    /\ delivery'[d].event = delivery[d].event
    /\ delivery[d].event \in Events

AllEnded(ds) ==
    /\ delivery' \in [Deliveries -> Requests \cup {NoDelivery}]
    /\ \A x \in Deliveries \ ds : delivery'[x] = delivery[x]
    /\ \A x \in Deliveries \cap ds : delivery'[x].at = "none"

LEMMA GotoMoves ==
    ASSUME HookTypeOK, NEW d \in Deliveries, NEW place \in HookPlaces,
           delivery[d].at # "none", Goto(d, place)
    PROVE  Moved(d, place)
<1>1. delivery[d] \in Requests
  BY DEF HookTypeOK, NoDelivery
<1>2. delivery' = [delivery EXCEPT ![d] = [delivery[d] EXCEPT !.at = place]]
  BY DEF Goto
<1>3. [delivery[d] EXCEPT !.at = place] \in Requests
  BY <1>1 DEF Requests
<1>4. /\ [delivery[d] EXCEPT !.at = place].at = place
      /\ [delivery[d] EXCEPT !.at = place].event = delivery[d].event
      /\ delivery[d].event \in Events
  BY <1>1 DEF Requests
<1>. QED  BY <1>2, <1>3, <1>4 DEF HookTypeOK, Moved

LEMMA EndEnds ==
    ASSUME HookTypeOK, NEW d \in Deliveries, End(d)
    PROVE  AllEnded({d})
BY DEF HookTypeOK, End, AllEnded, NoDelivery

LEMMA Placed ==
    ASSUME HookTypeOK, NEW d \in Deliveries, delivery[d].at # "none"
    PROVE  delivery[d].event \in Events
<1>1. delivery[d] \in Requests
  BY DEF HookTypeOK, NoDelivery
<1>. QED  BY <1>1 DEF Requests

\* Requests that only end, or move on to where nothing is said of them, and
\* events that are added to cut, disturb nothing if no row or count changes.
LEMMA Quiet ==
    ASSUME HookIInv, HookTypeOK', UNCHANGED <<row, handled, acked>>, cut \subseteq cut',
           \A x \in Deliveries :
              \/ delivery'[x] = delivery[x]
              \/ delivery'[x].at \in {"none", "received", "verified"} /\ ~At(x, "marking")
              \/ delivery'[x].at = "none" /\ EventAt(x) \in cut'
    PROVE  HookIInv'
<1>1. Progress'
  BY DEF HookIInv, Progress, At, EventAt
<1>2. Finished'
  BY DEF HookIInv, Finished
<1>3. OneAtWork'
  BY DEF HookIInv, OneAtWork, WorksOn, Marks, At, EventAt
<1>. QED  BY <1>1, <1>2, <1>3 DEF HookIInv

LEMMA HookInitially == HookInit => HookIInv
BY HookAssumption DEF HookInit, HookIInv, HookTypeOK, Progress, Finished, OneAtWork, WorksOn, Marks,
       At, EventAt, NoDelivery

-----------------------------------------------------------------------------
(* One lemma per action that changes more than where a request is. *)

LEMMA StoreKeeps ==
    ASSUME HookIInv, NEW d \in Deliveries, Store(d)
    PROVE  HookIInv'
<1>. DEFINE e == EventAt(d)
<1>1. delivery[d].at = "verified" /\ UNCHANGED <<seconds, signed, handled, acked, cut, trouble>>
  BY DEF Store, At
<1>2. CASE row[e] = "absent" /\ row' = [row EXCEPT ![e] = "stored"] /\ Goto(d, "handling")
  <2>1. Moved(d, "handling")
    BY <1>1, <1>2, GotoMoves DEF HookIInv, HookPlaces
  <2>2. \A f \in Events : row'[f] = IF f = e THEN "stored" ELSE row[f]
    BY <1>2 DEF HookIInv, HookTypeOK
  <2>3. HookTypeOK'
    BY <1>1, <1>2, <2>1 DEF HookIInv, HookTypeOK, Moved
  <2>4. \A x \in Deliveries : ~WorksOn(x, e)
    BY <1>2 DEF HookIInv, Progress, WorksOn
  <2>5. Progress'
    BY <1>1, <1>2, <2>1, <2>2, Placed DEF HookIInv, Progress, Moved, At, EventAt
  <2>6. Finished'
    BY <1>1, <1>2, <2>2 DEF HookIInv, Finished, HookTypeOK
  <2>7. OneAtWork'
    BY <1>1, <1>2, <2>1, <2>2, <2>4 DEF HookIInv, OneAtWork, Moved, WorksOn, Marks, At, EventAt
  <2>. QED  BY <2>3, <2>5, <2>6, <2>7 DEF HookIInv
<1>3. CASE row[e] # "absent" /\ UNCHANGED row /\ Goto(d, "conflict")
  <2>1. Moved(d, "conflict")
    BY <1>1, <1>3, GotoMoves DEF HookIInv, HookPlaces
  <2>2. HookTypeOK'
    BY <1>1, <1>3, <2>1 DEF HookIInv, HookTypeOK, Moved
  <2>3. Progress' /\ Finished'
    BY <1>1, <1>3, <2>1 DEF HookIInv, Progress, Finished, Moved, At, EventAt
  <2>4. OneAtWork'
    BY <1>1, <1>3, <2>1 DEF HookIInv, OneAtWork, Moved, WorksOn, Marks, At, EventAt
  <2>. QED  BY <2>2, <2>3, <2>4 DEF HookIInv
<1>. QED  BY <1>2, <1>3 DEF Store

LEMMA ResumeKeeps ==
    ASSUME HookIInv, NEW d \in Deliveries, Resume(d)
    PROVE  HookIInv'
<1>. DEFINE e == EventAt(d)
<1>1. /\ delivery[d].at = "conflict" /\ row[e] = "stored"
      /\ UNCHANGED <<seconds, row, signed, handled, acked, trouble>>
  BY DEF Resume, Pending, At
<1>2. Moved(d, "handling")
  BY <1>1, GotoMoves DEF HookIInv, HookPlaces, Resume
<1>3. cut' = IF Overlaps(d) THEN cut \cup {e} ELSE cut
  BY DEF Resume, NoteOverlap
<1>4. e \notin cut' => \A x \in Deliveries : ~WorksOn(x, e)
  BY <1>1, <1>3 DEF Overlaps, WorksOn, At, EventAt
<1>5. HookTypeOK'
  <2>1. cut' \subseteq Events
    BY <1>2, <1>3 DEF HookIInv, HookTypeOK, Moved, EventAt
  <2>. QED  BY <1>1, <1>2, <2>1 DEF HookIInv, HookTypeOK, Moved
<1>6. Progress' /\ Finished'
  BY <1>1, <1>2 DEF HookIInv, Progress, Finished, Moved, At, EventAt
<1>7. OneAtWork'
  BY <1>1, <1>2, <1>3, <1>4 DEF HookIInv, OneAtWork, Moved, WorksOn, Marks, At, EventAt
<1>. QED  BY <1>5, <1>6, <1>7 DEF HookIInv

LEMMA DuplicateKeeps ==
    ASSUME HookIInv, NEW d \in Deliveries, Duplicate(d)
    PROVE  HookIInv'
<1>1. /\ delivery[d].at = "conflict" /\ row[EventAt(d)] # "stored"
      /\ UNCHANGED <<seconds, row, signed, handled, acked, cut, trouble>>
  BY DEF Duplicate, Pending, At
<1>2. Moved(d, "answering")
  BY <1>1, GotoMoves DEF HookIInv, HookPlaces, Duplicate
<1>3. row[EventAt(d)] = "processed"
  BY <1>1, Placed DEF HookIInv, HookTypeOK, Progress, At, EventAt
<1>4. HookTypeOK'
  BY <1>1, <1>2 DEF HookIInv, HookTypeOK, Moved
<1>5. Progress' /\ Finished'
  BY <1>1, <1>2, <1>3 DEF HookIInv, Progress, Finished, Moved, At, EventAt
<1>6. OneAtWork'
  BY <1>1, <1>2 DEF HookIInv, OneAtWork, Moved, WorksOn, Marks, At, EventAt
<1>. QED  BY <1>4, <1>5, <1>6 DEF HookIInv

LEMMA HandleKeeps ==
    ASSUME HookIInv, NEW d \in Deliveries, Handle(d)
    PROVE  HookIInv'
<1>. DEFINE e == EventAt(d)
<1>1. delivery[d].at = "handling" /\ UNCHANGED <<seconds, row, signed, acked, cut, trouble>>
  BY DEF Handle, At
<1>2. Moved(d, "marking")
  BY <1>1, GotoMoves DEF HookIInv, HookPlaces, Handle
<1>3. e \in Events
  BY <1>2 DEF Moved, EventAt
<1>4. handled' \in [Events -> Nat]
      /\ \A f \in Events : handled'[f] = IF f = e THEN handled[f] + 1 ELSE handled[f]
  BY <1>3 DEF HookIInv, HookTypeOK, Handle
<1>5. HookTypeOK'
  BY <1>1, <1>2, <1>4 DEF HookIInv, HookTypeOK, Moved
<1>6. Progress' /\ Finished'
  BY <1>1, <1>2, <1>3, <1>4, Placed DEF HookIInv, HookTypeOK, Progress, Finished, Moved, At, EventAt
<1>7. OneAtWork'
  <2>1. e \notin cut => handled[e] = 0
    BY <1>1, <1>3 DEF HookIInv, OneAtWork, WorksOn, Marks, At, EventAt
  <2>. QED
    BY <1>1, <1>2, <1>3, <1>4, <2>1 DEF HookIInv, HookTypeOK, OneAtWork, Moved, WorksOn, Marks, At, EventAt
<1>. QED  BY <1>5, <1>6, <1>7 DEF HookIInv

LEMMA MarkKeeps ==
    ASSUME HookIInv, NEW d \in Deliveries, MarkProcessed(d)
    PROVE  HookIInv'
<1>. DEFINE e == EventAt(d)
<1>1. delivery[d].at = "marking" /\ UNCHANGED <<seconds, signed, handled, acked, cut, trouble>>
  BY DEF MarkProcessed, At
<1>2. Moved(d, "answering")
  BY <1>1, GotoMoves DEF HookIInv, HookPlaces, MarkProcessed
<1>3. e \in Events /\ handled[e] > 0
  BY <1>1, <1>2 DEF Moved, HookIInv, Progress, At, EventAt
<1>4. row' \in [Events -> {"absent", "stored", "processed"}]
      /\ \A f \in Events : row'[f] = IF f = e THEN "processed" ELSE row[f]
  BY <1>3 DEF HookIInv, HookTypeOK, MarkProcessed
<1>5. HookTypeOK'
  BY <1>1, <1>2, <1>4 DEF HookIInv, HookTypeOK, Moved
<1>6. Progress'
  BY <1>1, <1>2, <1>3, <1>4, Placed DEF HookIInv, Progress, Moved, At, EventAt
<1>7. Finished'
  BY <1>1, <1>3, <1>4 DEF HookIInv, HookTypeOK, Finished
<1>8. OneAtWork'
  BY <1>1, <1>2, <1>3, <1>4 DEF HookIInv, OneAtWork, Moved, WorksOn, Marks, At, EventAt
<1>. QED  BY <1>5, <1>6, <1>7, <1>8 DEF HookIInv

LEMMA AnswerKeeps ==
    ASSUME HookIInv, NEW d \in Deliveries, Answer(d)
    PROVE  HookIInv'
<1>1. /\ delivery[d].at = "answering" /\ acked' = acked \cup {EventAt(d)}
      /\ UNCHANGED <<seconds, row, signed, handled, cut, trouble>>
  BY DEF Answer, At
<1>2. AllEnded({d})
  BY EndEnds DEF HookIInv, Answer
<1>3. EventAt(d) \in Events /\ row[EventAt(d)] = "processed"
  BY <1>1, Placed DEF HookIInv, Progress, At, EventAt
<1>4. HookTypeOK'
  BY <1>1, <1>2, <1>3 DEF HookIInv, HookTypeOK, AllEnded
<1>5. Progress' /\ Finished'
  BY <1>1, <1>2, <1>3 DEF HookIInv, Progress, Finished, AllEnded, At, EventAt
<1>6. OneAtWork'
  BY <1>1, <1>2 DEF HookIInv, OneAtWork, AllEnded, WorksOn, Marks, At, EventAt
<1>. QED  BY <1>4, <1>5, <1>6 DEF HookIInv

-----------------------------------------------------------------------------
LEMMA ServeKeeps ==
    ASSUME HookIInv, NEW d \in Deliveries, Serve(d)
    PROVE  HookIInv'
<1>1. CASE Verify(d)
  <2>1. delivery[d].at = "received" /\ UNCHANGED <<seconds, row, signed, handled, acked, cut, trouble>>
    BY <1>1 DEF Verify, At
  <2>2. Moved(d, "verified")
    BY <1>1, <2>1, GotoMoves DEF HookIInv, HookPlaces, Verify
  <2>3. HookTypeOK'
    BY <2>1, <2>2 DEF HookIInv, HookTypeOK, Moved
  <2>. QED  BY <2>1, <2>2, <2>3, Quiet DEF Moved, At
<1>2. CASE Reject(d)
  <2>1. delivery[d].at = "received" /\ UNCHANGED <<seconds, row, signed, handled, acked, cut, trouble>>
    BY <1>2 DEF Reject, At
  <2>2. AllEnded({d})
    BY <1>2, EndEnds DEF HookIInv, Reject
  <2>3. HookTypeOK'
    BY <2>1, <2>2 DEF HookIInv, HookTypeOK, AllEnded
  <2>. QED  BY <2>1, <2>2, <2>3, Quiet DEF AllEnded, At
<1>. QED
  BY <1>1, <1>2, StoreKeeps, ResumeKeeps, DuplicateKeeps, HandleKeeps, MarkKeeps, AnswerKeeps
     DEF Serve

\* Stripe, the network, failures and the clock.
LEMMA OutsideKeeps ==
    ASSUME HookIInv,
           \/ Second \/ HookCrash
           \/ \E d \in Deliveries : Stray(d) \/ Fail(d) \/ \E e \in Events : Post(d, e)
    PROVE  HookIInv'
<1>1. CASE Second
  <2>1. HookTypeOK'
    BY <1>1, HookAssumption DEF Second, HookIInv, HookTypeOK
  <2>. QED  BY <1>1, <2>1, Quiet DEF Second
<1>2. CASE HookCrash
  <2>1. AllEnded(Deliveries) /\ UNCHANGED <<seconds, row, signed, handled, acked>>
    BY <1>2 DEF HookCrash, AllEnded, NoDelivery
  <2>2. cut \subseteq cut' /\ \A x \in Deliveries : At(x, "marking") => EventAt(x) \in cut'
    BY <1>2 DEF HookCrash, CutShort
  <2>4. cut' \subseteq Events /\ trouble' \in 0..MaxTrouble
    BY <1>2, Placed, HookAssumption DEF HookCrash, CutShort, HookIInv, HookTypeOK, At, EventAt
  <2>3. HookTypeOK'
    BY <2>1, <2>4 DEF HookIInv, HookTypeOK, AllEnded
  <2>. QED  BY <2>1, <2>2, <2>3, Quiet DEF AllEnded
<1>3. ASSUME NEW d \in Deliveries, Fail(d)
      PROVE  HookIInv'
  <2>1. AllEnded({d}) /\ UNCHANGED <<seconds, row, signed, handled, acked>>
    BY <1>3, EndEnds DEF Fail, HookIInv
  <2>2. cut \subseteq cut' /\ (At(d, "marking") => EventAt(d) \in cut')
    BY <1>3 DEF Fail, CutShort
  <2>4. cut' \subseteq Events /\ trouble' \in 0..MaxTrouble
    BY <1>3, Placed, HookAssumption DEF Fail, CutShort, HookIInv, HookTypeOK, At, EventAt
  <2>3. HookTypeOK'
    BY <2>1, <2>4 DEF HookIInv, HookTypeOK, AllEnded
  <2>. QED  BY <2>1, <2>2, <2>3, Quiet DEF AllEnded
<1>4. ASSUME NEW d \in Deliveries, NEW e \in Events, NEW at \in 0..MaxSeconds,
             NEW body \in {"event", "no event", "forged"}, Receive(d, e, at, body),
             signed' \subseteq Signatures, trouble' \in 0..MaxTrouble,
             UNCHANGED <<seconds, row, handled, acked, cut>>
      PROVE  HookIInv'
  <2>. DEFINE new == [at |-> "received", event |-> e, signedAt |-> at, body |-> body]
  <2>1. delivery[d].at = "none" /\ delivery' = [delivery EXCEPT ![d] = new]
    BY <1>4 DEF Receive, At
  <2>2. new \in Requests /\ new.at = "received"
    BY <1>4 DEF Requests, HookPlaces
  <2>3. HookTypeOK'
    BY <1>4, <2>1, <2>2 DEF HookIInv, HookTypeOK
  <2>4. \A x \in Deliveries : delivery'[x] = IF x = d THEN new ELSE delivery[x]
    BY <2>1 DEF HookIInv, HookTypeOK
  <2>. QED  BY <1>4, <2>1, <2>2, <2>3, <2>4, Quiet DEF At
<1>5. ASSUME NEW d \in Deliveries, NEW e \in Events, Post(d, e)
      PROVE  HookIInv'
  <2>1. signed' \subseteq Signatures /\ trouble' \in 0..MaxTrouble
    BY <1>5 DEF Post, HookIInv, HookTypeOK, Signatures
  <2>. QED  BY <1>4, <1>5, <2>1 DEF Post, HookIInv, HookTypeOK
<1>6. ASSUME NEW d \in Deliveries, Stray(d)
      PROVE  HookIInv'
  <2>1. /\ signed' \subseteq Signatures /\ trouble' \in 0..MaxTrouble
        /\ UNCHANGED <<seconds, row, handled, acked, cut>>
    <3>1. trouble \in 0..MaxTrouble /\ trouble < MaxTrouble /\ trouble' = trouble + 1
      BY <1>6 DEF Stray, HookIInv, HookTypeOK
    <3>2. trouble' \in 0..MaxTrouble
      BY <3>1, HookAssumption
    <3>. QED  BY <1>6, <3>2 DEF Stray, HookIInv, HookTypeOK
  <2>2. ASSUME NEW s \in signed, Receive(d, s.event, s.at, "event")
        PROVE  HookIInv'
    <3>1. s.event \in Events /\ s.at \in 0..MaxSeconds
      BY <2>2 DEF HookIInv, HookTypeOK, Signatures
    <3>. QED  BY <1>4, <2>1, <2>2, <3>1
  <2>3. ASSUME NEW e \in Events, NEW body \in {"no event", "forged"},
               Receive(d, e, seconds, body)
        PROVE  HookIInv'
    BY <1>4, <2>1, <2>3 DEF HookIInv, HookTypeOK
  <2>. QED  BY <1>6, <2>2, <2>3 DEF Stray
<1>. QED  BY <1>1, <1>2, <1>3, <1>5, <1>6

-----------------------------------------------------------------------------
LEMMA HookNextKeeps == HookIInv /\ [HookNext]_hookVars => HookIInv'
<1>1. CASE UNCHANGED hookVars
  <2>1. HookIInv /\ UNCHANGED hookVars => HookTypeOK'
    BY DEF HookIInv, HookTypeOK, hookVars
  <2>. QED  BY <1>1, <2>1, Quiet DEF hookVars
<1>2. CASE HookNext
  BY <1>2, ServeKeeps, OutsideKeeps DEF HookNext
<1>. QED  BY <1>1, <1>2

\* The invariant the theorem below follows from holds in every reachable state.
THEOREM HookInvariant == HookSpec => []HookIInv
BY HookInitially, HookNextKeeps, PTL DEF HookSpec

\* An event answered with 200 was handled and is marked as processed, however
\* many requests for it run side by side, fail or are replayed; and its handler
\* ran twice only if a delivery was cut short or two were resumed at once.
THEOREM HandledOnceOrCut == HookSpec => []HandledOnce
<1>1. HookIInv => HandledOnce
  BY DEF HookIInv, HookTypeOK, Finished, OneAtWork, HandledOnce, AckedWasHandled, OnceUnlessCut
<1>. QED  BY <1>1, HookInvariant, PTL

-----------------------------------------------------------------------------
(* RateLimiter, for any buckets, limit and window.  What the history of one *)
(* bucket has to do with its counter: at is when its requests were          *)
(* admitted, c its entry, first when it was first refused since.  A live    *)
(* entry counts the admissions since the one that opened its window; every  *)
(* admission that is MaxRequests or more before that one is a window older. *)

Opener(at, c) == Len(at) + 1 - (IF c.value < MaxRequests THEN c.value ELSE MaxRequests)

InOrder(at, time) ==
    /\ at \in Seq(Nat)
    /\ \A i, j \in 1 .. Len(at) : i <= j => at[i] <= at[j]
    /\ \A i \in 1 .. Len(at) : at[i] <= time

SpacedOut(at) ==
    \A i, j \in 1 .. Len(at) : j - i >= 2 * MaxRequests - 1 => at[j] >= at[i] + Window

WindowOpen(at, c, first) ==
    /\ c.value >= 1
    /\ Opener(at, c) \in 1 .. Len(at)
    /\ at[Opener(at, c)] + Window = c.expires
    /\ \A i \in 1 .. Len(at) :
          i <= Opener(at, c) - MaxRequests => at[i] + Window <= at[Opener(at, c)]
    /\ first > 0 => c.expires <= first + Window

WindowOver(at, time) ==
    \A i \in 1 .. Len(at) : i <= Len(at) + 1 - MaxRequests => at[i] + Window <= time

Entries == [value : Nat, expires : Nat]

Fair(at, c, first, time) ==
    /\ InOrder(at, time) /\ SpacedOut(at)
    /\ c.expires > time => WindowOpen(at, c, first)
    /\ c.expires <= time => WindowOver(at, time)

LEMMA TimePasses ==
    ASSUME NEW at, NEW c \in Entries, NEW first \in Nat, NEW time \in Nat, Fair(at, c, first, time)
    PROVE  Fair(at, c, first, time + 1)
<1>1. Len(at) \in Nat /\ DOMAIN at = 1 .. Len(at) /\ \A i \in 1 .. Len(at) : at[i] \in Nat
  BY ElementOfSeq, LenProperties DEF Fair, InOrder
<1>2. InOrder(at, time + 1) /\ SpacedOut(at)
  BY <1>1 DEF Fair, InOrder
<1>3. c.expires > time + 1 => WindowOpen(at, c, first)
  BY DEF Fair, Entries
<1>4. ASSUME c.expires <= time + 1
      PROVE  WindowOver(at, time + 1)
  <2>1. CASE c.expires <= time
    BY <2>1, <1>1, LimiterAssumption DEF Fair, WindowOver
  <2>2. CASE c.expires > time
    <3>1. PICK o : o = Opener(at, c)
      OBVIOUS
    <3>2. WindowOpen(at, c, first)
      BY <2>2 DEF Fair
    <3>3. o \in 1 .. Len(at) /\ at[o] + Window = c.expires /\ Len(at) + 1 - MaxRequests <= o
      BY <3>1, <3>2, <1>1, LimiterAssumption DEF WindowOpen, Opener, Entries
    <3>4. ASSUME NEW i \in 1 .. Len(at), i <= Len(at) + 1 - MaxRequests
          PROVE  at[i] + Window <= time + 1
      <4>1. at[i] <= at[o]
        BY <3>3, <3>4, <1>1, LimiterAssumption DEF Fair, InOrder
      <4>. QED  BY <4>1, <3>3, <1>1, <1>4, LimiterAssumption DEF Entries
    <3>. QED  BY <3>4 DEF WindowOver
  <2>. QED  BY <2>1, <2>2 DEF Entries
<1>. QED  BY <1>2, <1>3, <1>4 DEF Fair

(* A dead entry is dropped, and the next request opens a window.            *)
LEMMA OpensWindow ==
    ASSUME NEW at, NEW c \in Entries, NEW first \in Nat, NEW time \in Nat,
           Fair(at, c, first, time), c.expires <= time,
           NEW d, d = [value |-> 1, expires |-> time + Window]
    PROVE  Fair(at, Missing, first, time) /\ Fair(Append(at, time), d, 0, time)
<1>. PICK n : n = Len(at)
  OBVIOUS
<1>1. n \in Nat /\ DOMAIN at = 1 .. n /\ (\A i \in 1 .. n : at[i] \in Nat) /\ at \in Seq(Nat)
  BY ElementOfSeq, LenProperties DEF Fair, InOrder
<1>2. WindowOver(at, time)
  BY DEF Fair
<1>3. Fair(at, Missing, first, time)
  BY <1>2 DEF Fair, Missing
<1>4. PICK new : new = Append(at, time)
  OBVIOUS
<1>5. /\ new \in Seq(Nat) /\ Len(new) = n + 1 /\ DOMAIN new = 1 .. (n + 1)
      /\ new[n + 1] = time /\ \A i \in 1 .. n : new[i] = at[i]
  BY <1>1, <1>4, AppendProperties, LenProperties
<1>6. InOrder(new, time)
  BY <1>1, <1>5 DEF InOrder, Fair
<1>7. SpacedOut(new)
  <2>. SUFFICES ASSUME NEW i \in 1 .. (n + 1), NEW j \in 1 .. (n + 1), j - i >= 2 * MaxRequests - 1
                PROVE  new[j] >= new[i] + Window
    BY <1>5 DEF SpacedOut
  <2>0. MaxRequests \in Nat /\ MaxRequests >= 1 /\ n \in Nat
    BY <1>1, LimiterAssumption
  <2>1. i < j /\ i \in 1 .. n
    BY <2>0
  <2>2. CASE j \in 1 .. n
    BY <2>1, <2>2, <1>5 DEF Fair, SpacedOut
  <2>3. CASE j = n + 1
    <3>1. i <= n + 1 - MaxRequests
      BY <2>1, <2>3, <1>1, LimiterAssumption
    <3>. QED  BY <3>1, <2>1, <2>3, <1>1, <1>2, <1>5, LimiterAssumption DEF WindowOver
  <2>. QED  BY <2>2, <2>3, <1>1, <1>5
<1>8. WindowOpen(new, d, 0)
  <2>1. Opener(new, d) = n + 1
    BY <1>1, <1>5, LimiterAssumption DEF Opener
  <2>2. ASSUME NEW i \in 1 .. (n + 1), i <= n + 1 - MaxRequests
        PROVE  new[i] + Window <= time
    <3>1. i \in 1 .. n
      BY <2>2, <1>1, LimiterAssumption
    <3>2. at[i] + Window <= time
      BY <3>1, <2>2, <1>2 DEF WindowOver
    <3>. QED  BY <3>1, <3>2, <1>5
  <2>3. d.value = 1 /\ d.expires = time + Window /\ n + 1 \in 1 .. (n + 1)
    BY <1>1
  <2>4. Len(new) = n + 1 /\ new[n + 1] = time
    BY <1>5
  <2>5. d.value >= 1 /\ new[n + 1] + Window = d.expires /\ ~(0 > 0)
    BY <2>3, <2>4
  <2>6. \A i \in 1 .. Len(new) : i <= Opener(new, d) - MaxRequests
            => new[i] + Window <= new[Opener(new, d)]
    <3>. SUFFICES ASSUME NEW i \in 1 .. Len(new), i <= Opener(new, d) - MaxRequests
                  PROVE  new[i] + Window <= new[Opener(new, d)]
      OBVIOUS
    <3>1. i \in 1 .. (n + 1) /\ i <= n + 1 - MaxRequests
      BY <2>1, <2>4, <1>1, LimiterAssumption
    <3>. QED  BY <3>1, <2>1, <2>2, <2>4
  <2>. QED  BY <2>1, <2>3, <2>4, <2>5, <2>6 DEF WindowOpen
<1>9. d.expires > time
  BY LimiterAssumption
<1>. QED  BY <1>3, <1>4, <1>6, <1>7, <1>8, <1>9, LimiterAssumption DEF Fair

(* A request that a live entry still admits.                                *)
LEMMA AdmitsMore ==
    ASSUME NEW at, NEW c \in Entries, NEW first \in Nat, NEW time \in Nat,
           Fair(at, c, first, time), c.expires > time, c.value < MaxRequests,
           NEW d, d = [c EXCEPT !.value = c.value + 1]
    PROVE  Fair(Append(at, time), d, 0, time)
<1>. PICK n, o : n = Len(at) /\ o = Opener(at, c)
  OBVIOUS
<1>1. n \in Nat /\ DOMAIN at = 1 .. n /\ (\A i \in 1 .. n : at[i] \in Nat) /\ at \in Seq(Nat)
  BY ElementOfSeq, LenProperties DEF Fair, InOrder
<1>2. WindowOpen(at, c, first)
  BY DEF Fair
<1>. PICK v \in Nat : v = c.value /\ v < MaxRequests
  BY DEF Entries
<1>3. PICK new : new = Append(at, time)
  OBVIOUS
<1>4. /\ new \in Seq(Nat) /\ Len(new) = n + 1 /\ DOMAIN new = 1 .. (n + 1)
      /\ new[n + 1] = time /\ \A i \in 1 .. n : new[i] = at[i]
  BY <1>1, <1>3, AppendProperties, LenProperties
<1>5. /\ o = n + 1 - v /\ o \in 1 .. n /\ at[o] + Window = c.expires
      /\ \A i \in 1 .. n : i <= o - MaxRequests => at[i] + Window <= at[o]
  BY <1>1, <1>2 DEF WindowOpen, Opener, Entries
<1>6. d.value = v + 1 /\ d.expires = c.expires /\ c.expires \in Nat /\ Opener(new, d) = o
  <2>1. d.value = v + 1 /\ d.expires = c.expires /\ c.expires \in Nat
    BY DEF Entries
  <2>2. (IF v + 1 < MaxRequests THEN v + 1 ELSE MaxRequests) = v + 1
    BY LimiterAssumption
  <2>. QED  BY <2>1, <2>2, <1>1, <1>4, <1>5 DEF Opener
<1>7. InOrder(new, time)
  <2>1. \A i, j \in 1 .. n : (i <= j => at[i] <= at[j]) /\ at[i] <= time
    BY DEF InOrder, Fair
  <2>2. ASSUME NEW i \in 1 .. (n + 1), NEW j \in 1 .. (n + 1)
        PROVE  (i <= j => new[i] <= new[j]) /\ new[i] <= time
    <3>1. CASE i = n + 1
      BY <3>1, <1>1, <1>4
    <3>2. CASE i \in 1 .. n /\ j \in 1 .. n
      BY <3>2, <2>1, <1>4
    <3>3. CASE i \in 1 .. n /\ j = n + 1
      BY <3>3, <2>1, <1>4
    <3>. QED  BY <3>1, <3>2, <3>3, <1>1
  <2>. QED  BY <2>2, <1>4 DEF InOrder
<1>8. SpacedOut(new)
  <2>. SUFFICES ASSUME NEW i \in 1 .. (n + 1), NEW j \in 1 .. (n + 1), j - i >= 2 * MaxRequests - 1
                PROVE  new[j] >= new[i] + Window
    BY <1>4 DEF SpacedOut
  <2>0. MaxRequests \in Nat /\ MaxRequests >= 1 /\ n \in Nat
    BY <1>1, LimiterAssumption
  <2>1. i < j /\ i \in 1 .. n
    BY <2>0
  <2>2. CASE j \in 1 .. n
    BY <2>1, <2>2, <1>4 DEF Fair, SpacedOut
  <2>3. CASE j = n + 1
    <3>1. i <= o - MaxRequests
      <4>1. o = n + 1 - v /\ i \in Nat /\ n \in Nat
        BY <2>1, <1>1, <1>5
      <4>2. n + 1 - i >= 2 * MaxRequests - 1
        BY <2>3
      <4>3. MaxRequests \in Nat /\ v < MaxRequests
        BY LimiterAssumption
      <4>. QED  BY <4>1, <4>2, <4>3
    <3>2. at[i] + Window <= at[o] /\ at[o] <= time
      BY <3>1, <2>1, <1>5 DEF Fair, InOrder
    <3>3. at[i] \in Nat /\ at[o] \in Nat /\ new[i] = at[i] /\ new[j] = time
      BY <2>1, <2>3, <1>1, <1>4, <1>5
    <3>. QED  BY <3>2, <3>3, LimiterAssumption
  <2>. QED  BY <2>2, <2>3, <1>1, <1>4
<1>9. WindowOpen(new, d, 0)
  <2>1. o \in 1 .. (n + 1) /\ new[o] = at[o]
    BY <1>1, <1>4, <1>5
  <2>2. ASSUME NEW i \in 1 .. (n + 1), i <= o - MaxRequests
        PROVE  new[i] + Window <= new[o]
    <3>1. i \in 1 .. n
      BY <2>2, <1>1, <1>5, LimiterAssumption
    <3>. QED  BY <3>1, <2>1, <2>2, <1>4, <1>5
  <2>3. d.value >= 1
    BY <1>6
  <2>4. Len(new) = n + 1 /\ Opener(new, d) = o /\ ~(0 > 0)
    BY <1>4, <1>6
  <2>5. new[o] + Window = d.expires
    BY <2>1, <1>5, <1>6
  <2>. QED  BY <2>1, <2>2, <2>3, <2>4, <2>5 DEF WindowOpen
<1>. QED  BY <1>3, <1>5, <1>6, <1>7, <1>8, <1>9 DEF Fair

(* A request that is refused; the caller is told to wait from now on, or    *)
(* was told before.                                                         *)
LEMMA Refuses ==
    ASSUME NEW at, NEW c \in Entries, NEW first \in Nat, NEW time \in Nat,
           Fair(at, c, first, time), c.expires > time, c.value >= MaxRequests,
           NEW d \in Entries, d.expires = c.expires, d.value >= MaxRequests
    PROVE  Fair(at, d, IF first = 0 THEN time ELSE first, time)
<1>1. Len(at) \in Nat /\ DOMAIN at = 1 .. Len(at) /\ \A i \in 1 .. Len(at) : at[i] \in Nat
  BY ElementOfSeq, LenProperties DEF Fair, InOrder
<1>2. PICK o : o = Opener(at, c)
  OBVIOUS
<1>3. Opener(at, d) = o
  BY <1>1, <1>2, LimiterAssumption DEF Opener, Entries
<1>4. WindowOpen(at, c, first)
  BY DEF Fair
<1>5. at[o] <= time /\ at[o] \in Nat /\ at[o] + Window = c.expires
  BY <1>1, <1>2, <1>4 DEF WindowOpen, Fair, InOrder
<1>6. WindowOpen(at, d, IF first = 0 THEN time ELSE first)
  BY <1>1, <1>2, <1>3, <1>4, <1>5, LimiterAssumption DEF WindowOpen, Entries
<1>. QED  BY <1>6 DEF Fair, Entries
-----------------------------------------------------------------------------
LimiterInv ==
    LimiterTypeOK /\ \A k \in Buckets : Fair(admitted[k], counter[k], told[k], ticks)

LEMMA LimiterInitially == LimiterInit => LimiterInv
<1>. SUFFICES ASSUME LimiterInit PROVE LimiterInv
  OBVIOUS
<1>1. <<>> \in Seq(Ticks) /\ <<>> \in Seq(Nat) /\ Len(<<>>) = 0 /\ DOMAIN <<>> = 1 .. 0
  BY EmptySeq
<1>2. LimiterTypeOK
  BY <1>1, LimiterAssumption DEF LimiterInit, LimiterTypeOK, Ticks, Missing
<1>3. Fair(<<>>, Missing, 0, 1)
  BY <1>1 DEF Fair, InOrder, SpacedOut, WindowOver, Missing
<1>. QED  BY <1>2, <1>3 DEF LimiterInit, LimiterInv

LEMMA BucketTyped ==
    ASSUME LimiterInv, NEW k \in Buckets
    PROVE  /\ counter[k] \in [value : 0 .. CountCeiling, expires : 0 .. (MaxTicks + Window)]
           /\ counter[k] \in Entries /\ told[k] \in Nat /\ ticks \in Nat
           /\ ticks \in Ticks /\ admitted[k] \in Seq(Ticks)
           /\ Fair(admitted[k], counter[k], told[k], ticks)
<1>1. counter[k] \in [value : 0 .. CountCeiling, expires : 0 .. (MaxTicks + Window)]
  BY DEF LimiterInv, LimiterTypeOK
<1>2. counter[k] \in Entries
  BY <1>1, LimiterAssumption DEF Entries
<1>. QED  BY <1>1, <1>2, LimiterAssumption DEF LimiterInv, LimiterTypeOK, Ticks

(* incr leaves the buckets it is not called for as they are, or drops them. *)
LEMMA OthersKept ==
    ASSUME LimiterInv, NEW k \in Buckets, Incr(k), UNCHANGED ticks,
           admitted' = [admitted EXCEPT ![k] = admitted'[k]],
           told' = [told EXCEPT ![k] = told'[k]],
           Counted(k) \in [value : 0 .. CountCeiling, expires : 0 .. (MaxTicks + Window)],
           admitted'[k] \in Seq(Ticks), told'[k] \in 0 .. MaxTicks,
           Fair(admitted'[k], Counted(k), told'[k], ticks)
    PROVE  LimiterInv'
<1>1. /\ counter' = [q \in Buckets |-> IF q = k THEN Counted(k)
                                       ELSE IF Alive(counter[q]) THEN counter[q] ELSE Missing]
      /\ ticks' = ticks
  BY DEF Incr, Purged
<1>2. \A q \in Buckets : counter[q] \in [value : 0 .. CountCeiling, expires : 0 .. (MaxTicks + Window)]
  BY BucketTyped
<1>3. Missing \in [value : 0 .. CountCeiling, expires : 0 .. (MaxTicks + Window)]
  BY LimiterAssumption DEF Missing
<1>4. LimiterTypeOK'
  BY <1>1, <1>2, <1>3 DEF LimiterInv, LimiterTypeOK
<1>5. ASSUME NEW q \in Buckets
      PROVE  Fair(admitted'[q], counter'[q], told'[q], ticks')
  <2>1. CASE q = k
    BY <2>1, <1>1
  <2>2. CASE q # k
    <3>1. admitted'[q] = admitted[q] /\ told'[q] = told[q]
      BY <2>2 DEF LimiterInv, LimiterTypeOK
    <3>2. CASE Alive(counter[q])
      BY <3>1, <3>2, <2>2, <1>1, BucketTyped
    <3>3. CASE ~Alive(counter[q])
      <4>1. Fair(admitted[q], counter[q], told[q], ticks) /\ counter[q] \in Entries
            /\ told[q] \in Nat /\ ticks \in Nat
        BY BucketTyped
      <4>2. counter[q].expires <= ticks
        BY <3>3, <4>1 DEF Alive, Entries
      <4>3. Fair(admitted[q], Missing, told[q], ticks)
        BY <4>1, <4>2, OpensWindow
      <4>. QED  BY <4>3, <3>1, <3>3, <2>2, <1>1
    <3>. QED  BY <3>2, <3>3
  <2>. QED  BY <2>1, <2>2
<1>. QED  BY <1>4, <1>5 DEF LimiterInv

LEMMA AllowKeeps ==
    ASSUME LimiterInv, NEW k \in Buckets, Allow(k)
    PROVE  LimiterInv'
<1>1. /\ Counted(k).value <= MaxRequests /\ Incr(k) /\ UNCHANGED ticks
      /\ admitted' = [admitted EXCEPT ![k] = Append(admitted[k], ticks)]
      /\ told' = [told EXCEPT ![k] = 0]
  BY DEF Allow
<1>2. /\ admitted'[k] = Append(admitted[k], ticks) /\ told'[k] = 0
      /\ admitted' = [admitted EXCEPT ![k] = admitted'[k]] /\ told' = [told EXCEPT ![k] = told'[k]]
  BY <1>1 DEF LimiterInv, LimiterTypeOK
<1>3. Append(admitted[k], ticks) \in Seq(Ticks)
  BY BucketTyped, AppendProperties
<1>4. /\ Fair(Append(admitted[k], ticks), Counted(k), 0, ticks)
      /\ Counted(k) \in [value : 0 .. CountCeiling, expires : 0 .. (MaxTicks + Window)]
  <2>. PICK c, d : c = counter[k] /\ d = Counted(k)
    OBVIOUS
  <2>1. /\ c \in [value : 0 .. CountCeiling, expires : 0 .. (MaxTicks + Window)]
        /\ c \in Entries /\ told[k] \in Nat /\ ticks \in Nat /\ ticks <= MaxTicks
        /\ Fair(admitted[k], c, told[k], ticks)
    BY BucketTyped DEF Ticks
  <2>2. CASE c.expires > ticks
    <3>1. d = [c EXCEPT !.value = IF @ < CountCeiling THEN @ + 1 ELSE @]
      BY <2>2 DEF Counted, Alive
    <3>2. c.value \in 0 .. CountCeiling /\ c.value < MaxRequests
      BY <1>1, <2>1, <3>1, LimiterAssumption
    <3>3. d = [c EXCEPT !.value = c.value + 1]
      BY <3>1, <3>2, LimiterAssumption
    <3>4. Fair(Append(admitted[k], ticks), d, 0, ticks)
      BY <2>1, <2>2, <3>2, <3>3, AdmitsMore
    <3>5. d \in [value : 0 .. CountCeiling, expires : 0 .. (MaxTicks + Window)]
      BY <2>1, <3>2, <3>3, LimiterAssumption
    <3>. QED  BY <3>4, <3>5
  <2>3. CASE c.expires <= ticks
    <3>1. d = [value |-> 1, expires |-> ticks + Window]
      BY <2>1, <2>3 DEF Counted, Alive, Entries
    <3>2. Fair(Append(admitted[k], ticks), d, 0, ticks)
      BY <2>1, <2>3, <3>1, OpensWindow
    <3>3. d \in [value : 0 .. CountCeiling, expires : 0 .. (MaxTicks + Window)]
      BY <2>1, <3>1, LimiterAssumption
    <3>. QED  BY <3>2, <3>3
  <2>. QED  BY <2>1, <2>2, <2>3 DEF Entries
<1>5. told'[k] \in 0 .. MaxTicks
  BY <1>2, LimiterAssumption
<1>6. admitted'[k] \in Seq(Ticks) /\ Fair(admitted'[k], Counted(k), told'[k], ticks)
  BY <1>2, <1>3, <1>4
<1>. QED  BY <1>1, <1>2, <1>4, <1>5, <1>6, OthersKept

LEMMA LimitKeeps ==
    ASSUME LimiterInv, NEW k \in Buckets, Limit(k)
    PROVE  LimiterInv'
<1>1. /\ Counted(k).value > MaxRequests /\ Incr(k) /\ UNCHANGED <<ticks, admitted>>
      /\ told' = [told EXCEPT ![k] = IF @ = 0 THEN ticks ELSE @]
  BY DEF Limit
<1>. PICK c, d, t : c = counter[k] /\ d = Counted(k) /\ t = IF told[k] = 0 THEN ticks ELSE told[k]
  OBVIOUS
<1>2. /\ admitted'[k] = admitted[k] /\ told'[k] = t
      /\ admitted' = [admitted EXCEPT ![k] = admitted'[k]] /\ told' = [told EXCEPT ![k] = told'[k]]
  BY <1>1 DEF LimiterInv, LimiterTypeOK
<1>3. t \in 0 .. MaxTicks
  BY LimiterAssumption DEF LimiterInv, LimiterTypeOK, Ticks
<1>4. /\ c \in [value : 0 .. CountCeiling, expires : 0 .. (MaxTicks + Window)]
      /\ c \in Entries /\ told[k] \in Nat /\ ticks \in Nat
      /\ Fair(admitted[k], c, told[k], ticks) /\ admitted[k] \in Seq(Ticks)
  BY BucketTyped
<1>5. c.expires > ticks
  <2>. SUFFICES ASSUME ~(c.expires > ticks) PROVE FALSE
    OBVIOUS
  <2>1. d = [value |-> 1, expires |-> ticks + Window]
    BY DEF Counted, Alive
  <2>. QED  BY <1>1, <2>1, LimiterAssumption
<1>6. d = [c EXCEPT !.value = IF @ < CountCeiling THEN @ + 1 ELSE @]
  BY <1>5 DEF Counted, Alive
<1>7. /\ d \in [value : 0 .. CountCeiling, expires : 0 .. (MaxTicks + Window)] /\ d \in Entries
      /\ d.expires = c.expires
  BY <1>4, <1>6, LimiterAssumption DEF Entries
<1>8. c.value >= MaxRequests /\ d.value >= MaxRequests
  BY <1>1, <1>4, <1>6, LimiterAssumption DEF Entries
<1>9. Fair(admitted[k], d, t, ticks)
  BY <1>4, <1>5, <1>7, <1>8, Refuses
<1>. QED  BY <1>1, <1>2, <1>3, <1>4, <1>7, <1>9, OthersKept

LEMMA LimiterKeeps == LimiterInv /\ [LimiterNext]_limiterVars => LimiterInv'
<1>. SUFFICES ASSUME LimiterInv, [LimiterNext]_limiterVars PROVE LimiterInv'
  OBVIOUS
<1>1. CASE UNCHANGED limiterVars
  BY <1>1 DEF limiterVars, LimiterInv, LimiterTypeOK
<1>2. CASE LimiterTick
  <2>1. LimiterTypeOK'
    BY <1>2, LimiterAssumption DEF LimiterTick, LimiterInv, LimiterTypeOK, Ticks
  <2>2. ASSUME NEW k \in Buckets
        PROVE  Fair(admitted'[k], counter'[k], told'[k], ticks')
    <3>1. Fair(admitted[k], counter[k], told[k], ticks + 1)
      BY BucketTyped, TimePasses
    <3>. QED  BY <3>1, <1>2 DEF LimiterTick
  <2>. QED  BY <2>1, <2>2 DEF LimiterInv
<1>. QED  BY <1>1, <1>2, AllowKeeps, LimitKeeps DEF LimiterNext

(* The histories of all buckets fit their counters in every reachable state. *)
THEOREM LimiterHolds == LimiterSpec => []LimiterInv
BY LimiterInitially, LimiterKeeps, PTL DEF LimiterSpec

(* Fewer than 2 * max_requests pass in any stretch of one window, and whoever *)
(* waits for retry_after passes, for any limit but 0 and u64::MAX, however    *)
(* many buckets share the backend whose dead entries each call of incr drops. *)
THEOREM AdmissionFair == LimiterSpec => []AdmissionIsFair
<1>1. LimiterInv => AdmissionIsFair
  <2>. SUFFICES ASSUME LimiterInv PROVE BurstBounded /\ RetryAfterIsEnough
    BY DEF AdmissionIsFair
  <2>1. ASSUME NEW k \in Buckets, NEW i \in DOMAIN admitted[k], NEW j \in DOMAIN admitted[k],
               j - i >= 2 * MaxRequests - 1
        PROVE  admitted[k][j] >= admitted[k][i] + Window
    <3>1. DOMAIN admitted[k] = 1 .. Len(admitted[k])
      BY BucketTyped, LenProperties
    <3>. QED  BY <2>1, <3>1, BucketTyped DEF Fair, SpacedOut
  <2>2. ASSUME NEW k \in Buckets, told[k] > 0, ticks >= told[k] + Window
        PROVE  Counted(k).value <= MaxRequests
    <3>. PICK c : c = counter[k]
      OBVIOUS
    <3>1. Fair(admitted[k], c, told[k], ticks) /\ c \in Entries /\ told[k] \in Nat /\ ticks \in Nat
      BY BucketTyped
    <3>2. ~(c.expires > ticks)
      <4>. SUFFICES ASSUME c.expires > ticks PROVE FALSE
        OBVIOUS
      <4>1. c.expires <= told[k] + Window
        BY <2>2, <3>1 DEF Fair, WindowOpen
      <4>. QED  BY <4>1, <2>2, <3>1, LimiterAssumption DEF Entries
    <3>3. Counted(k) = [value |-> 1, expires |-> ticks + Window]
      BY <3>2 DEF Counted, Alive
    <3>. QED  BY <3>3, LimiterAssumption
  <2>. QED  BY <2>1, <2>2 DEF BurstBounded, RetryAfterIsEnough
<1>. QED  BY <1>1, LimiterHolds, PTL

-----------------------------------------------------------------------------
(* RbacPolicy, for any organisations, and any age a step-up may have.       *)

LEMMA PolicyInitially == PolicyInit => PolicyTypeOK
<1>. SUFFICES ASSUME PolicyInit PROVE PolicyTypeOK
  OBVIOUS
<1>1. user \in Accounts
  <2>1. PICK org \in Orgs, tier \in Tiers :
           user = [verified |-> FALSE, role |-> 1, tier |-> tier, org |-> org, totp |-> Never]
    BY DEF PolicyInit
  <2>. QED  BY <2>1 DEF Accounts
<1>2. document \in Documents
  BY DEF PolicyInit, Documents
<1>3. minute \in 0 .. LastMinute
  BY PolicyAssumption DEF PolicyInit
<1>. QED  BY <1>1, <1>2, <1>3 DEF PolicyTypeOK

LEMMA PolicyNextKeeps == PolicyTypeOK /\ [PolicyNext]_policyVars => PolicyTypeOK'
<1>. SUFFICES ASSUME PolicyTypeOK, [PolicyNext]_policyVars PROVE PolicyTypeOK'
  OBVIOUS
<1>1. CASE UNCHANGED policyVars
  BY <1>1 DEF policyVars, PolicyTypeOK
<1>2. CASE VerifyEmail
  BY <1>2 DEF VerifyEmail, PolicyTypeOK, Accounts
<1>3. CASE PassTotp
  BY <1>3 DEF PassTotp, PolicyTypeOK, Accounts
<1>4. CASE Promote
  BY <1>4 DEF Promote, PolicyTypeOK, Accounts, Roles
<1>5. CASE Publish
  BY <1>5 DEF Publish, PolicyTypeOK, Documents
<1>6. CASE Minute
  BY <1>6, PolicyAssumption DEF Minute, PolicyTypeOK
<1>. QED  BY <1>1, <1>2, <1>3, <1>4, <1>5, <1>6 DEF PolicyNext

LEMMA PolicyTyped == PolicySpec => []PolicyTypeOK
BY PolicyInitially, PolicyNextKeeps, PTL DEF PolicySpec

(* What a user is to the predicates. *)
LEMMA RankOf ==
    ASSUME NEW u, u.role \in 1 .. 4
    PROVE  /\ IsAdmin(u) <=> u.role >= 3
           /\ IsModeratorOrAbove(u) <=> u.role >= 2
           /\ RoleOf(u) = "Owner" <=> u.role = 4
BY DEF IsAdmin, IsModeratorOrAbove, RoleOf, Roles

(* A user b and document e that are trusted as much as a and d were.        *)
AsTrusted(a, d, b, e) ==
    /\ a.role \in 1 .. 4 /\ b.role \in 1 .. 4 /\ a.role <= b.role
    /\ b.tier = a.tier /\ b.org = a.org
    /\ a.verified => b.verified
    /\ e.own = d.own /\ e.org = d.org /\ e.minTier = d.minTier
    /\ d.published => e.published

LEMMA NoRightLost ==
    ASSUME NEW a, NEW d, NEW b, NEW e, AsTrusted(a, d, b, e), StepUp(a) => StepUp(b),
           NEW right \in [to : {"read", "write", "delete", "publish", "grant", "revoke"},
                          role : {"Member", "Admin", "Owner"}, org : Orgs],
           Allowed(a, d, right), ~Allowed(b, e, right)
    PROVE  right.to = "delete" /\ IsAdmin(b) /\ ~IsAdmin(a) /\ ~StepUp(a)
<1>1. /\ IsAdmin(a) => IsAdmin(b)
      /\ IsModeratorOrAbove(a) => IsModeratorOrAbove(b)
      /\ RoleOf(a) = "Owner" => RoleOf(b) = "Owner"
  BY RankOf DEF AsTrusted
<1>2. \A org : SameTenantOrAdmin(a, org) => SameTenantOrAdmin(b, org)
  BY <1>1 DEF SameTenantOrAdmin, AsTrusted
<1>3. CASE right.to = "read"
  BY <1>1, <1>2, <1>3 DEF Allowed, CanRead, AsTrusted
<1>4. CASE right.to = "write"
  BY <1>1, <1>2, <1>4 DEF Allowed, CanWrite, AsTrusted
<1>5. CASE right.to = "delete"
  BY <1>1, <1>2, <1>5 DEF Allowed, CanDelete, AsTrusted
<1>6. CASE right.to = "publish"
  BY <1>1, <1>2, <1>6 DEF Allowed, CanPublish, AsTrusted
<1>7. CASE right.to = "grant"
  BY <1>1, <1>2, <1>7 DEF Allowed, CanGrantRole
<1>8. CASE right.to = "revoke"
  BY <1>1, <1>2, <1>8 DEF Allowed, CanRevokeAdmin
<1>. QED  BY <1>3, <1>4, <1>5, <1>6, <1>7, <1>8

LEMMA TrustStep ==
    ASSUME PolicyTypeOK, VerifyEmail \/ PassTotp \/ Promote \/ Publish
    PROVE  /\ AsTrusted(user, document, user', document') /\ minute' = minute
           /\ StepUp(user) => minute - user'.totp <= StepUpAge /\ user'.totp # Never
<1>1. user \in Accounts /\ document \in Documents /\ minute \in Nat /\ user.role \in 1 .. 4
  BY PolicyAssumption DEF PolicyTypeOK, Accounts
<1>2. CASE VerifyEmail
  <2>1. /\ user'.role = user.role /\ user'.tier = user.tier /\ user'.org = user.org
        /\ user'.verified = TRUE /\ user'.totp = user.totp /\ document' = document
        /\ minute' = minute
    BY <1>1, <1>2 DEF VerifyEmail, Accounts
  <2>. QED  BY <1>1, <2>1 DEF AsTrusted, StepUp
<1>3. CASE PassTotp
  <2>1. /\ user'.role = user.role /\ user'.tier = user.tier /\ user'.org = user.org
        /\ user'.verified = user.verified /\ user'.totp = minute /\ document' = document
        /\ minute' = minute
    BY <1>1, <1>3 DEF PassTotp, Accounts
  <2>. QED  BY <1>1, <2>1, PolicyAssumption DEF AsTrusted, StepUp
<1>4. CASE Promote
  <2>1. /\ user'.role = user.role + 1 /\ user'.tier = user.tier /\ user'.org = user.org
        /\ user'.verified = user.verified /\ user'.totp = user.totp /\ document' = document
        /\ minute' = minute /\ user.role < 4
    BY <1>1, <1>4 DEF Promote, Accounts, Roles
  <2>. QED  BY <1>1, <2>1 DEF AsTrusted, StepUp
<1>5. CASE Publish
  <2>1. /\ document'.own = document.own /\ document'.org = document.org
        /\ document'.minTier = document.minTier /\ document'.published = TRUE
        /\ user' = user /\ minute' = minute
    BY <1>1, <1>5 DEF Publish, Documents
  <2>. QED  BY <1>1, <2>1 DEF AsTrusted, StepUp
<1>. QED  BY <1>2, <1>3, <1>4, <1>5

\* A user who gains trust loses no right but the delete that asks an admin for a
\* step-up, and time alone grants none (policy predicates of the RBAC lab).
THEOREM TrustNeverHurts == PolicySpec => TrustKeepsRights
<1>1. ASSUME PolicyTypeOK, [PolicyNext]_policyVars
      PROVE  [/\ minute' = minute =>
                    \A right \in Rights(user, document) \ Rights(user, document)' :
                       right.to = "delete" /\ IsAdmin(user') /\ ~IsAdmin(user) /\ ~StepUp(user)
              /\ minute' > minute =>
                    Rights(user, document)' \subseteq Rights(user, document)]_policyVars
  <2>1. CASE UNCHANGED policyVars
    BY <2>1
  <2>2. CASE Minute
    <3>0. user.totp \in (0 .. LastMinute) \cup {Never} /\ minute \in 0 .. LastMinute
      BY <1>1 DEF PolicyTypeOK, Accounts
    <3>1. /\ minute' = minute + 1 /\ minute \in Nat /\ user' = user /\ document' = document
          /\ user.totp \in Nat \cup {Never}
      BY <2>2, <3>0, PolicyAssumption DEF Minute
    <3>2. ASSUME NEW right \in Rights(user, document)'
          PROVE  right \in Rights(user, document)
      <4>1. StepUp(user)' => StepUp(user)
        BY <3>1, PolicyAssumption DEF StepUp
      <4>. QED  BY <4>1, <3>1, <3>2 DEF Rights, Allowed, CanRead, CanWrite, CanDelete, CanPublish,
                CanGrantRole, CanRevokeAdmin
    <3>. QED  BY <3>1, <3>2
  <2>3. CASE VerifyEmail \/ PassTotp \/ Promote \/ Publish
    <3>1. /\ AsTrusted(user, document, user', document') /\ minute' = minute
          /\ StepUp(user) => minute - user'.totp <= StepUpAge /\ user'.totp # Never
      BY <1>1, <2>3, TrustStep
    <3>2. PICK b, e : b = user' /\ e = document'
      OBVIOUS
    <3>3. StepUp(user) => StepUp(b)
      BY <3>1, <3>2 DEF StepUp
    <3>4. AsTrusted(user, document, b, e)
      BY <3>1, <3>2
    <3>5. Rights(user, document)' = Rights(b, e)
      BY <3>1, <3>2 DEF Rights, Allowed, CanRead, CanWrite, CanDelete, CanPublish, CanGrantRole,
         CanRevokeAdmin, StepUp, SameTenantOrAdmin, IsAdmin, IsModeratorOrAbove, RoleOf
    <3>6. ASSUME NEW right \in Rights(user, document), right \notin Rights(b, e)
          PROVE  right.to = "delete" /\ IsAdmin(b) /\ ~IsAdmin(user) /\ ~StepUp(user)
      <4>1. /\ right \in [to : {"read", "write", "delete", "publish", "grant", "revoke"},
                          role : {"Member", "Admin", "Owner"}, org : Orgs]
            /\ Allowed(user, document, right) /\ ~Allowed(b, e, right)
        BY <3>6 DEF Rights
      <4>. QED  BY <3>3, <3>4, <4>1, NoRightLost
    <3>7. minute \in Nat
      BY <1>1 DEF PolicyTypeOK
    <3>. QED  BY <3>1, <3>2, <3>5, <3>6, <3>7
  <2>. QED  BY <1>1, <2>1, <2>2, <2>3 DEF PolicyNext
<1>. QED  BY <1>1, PolicyTyped, PTL DEF PolicySpec, TrustKeepsRights

-----------------------------------------------------------------------------
(* Fetcher, for any URLs, concurrency, timeout and deadline.                *)

FetchInv == FetchTypeOK /\ InFlightBounded

LEMMA InFlightFinite == IsFiniteSet(InFlight) /\ Cardinality(InFlight) \in Nat
<1>1. IsFiniteSet(InFlight)
  BY FetchAssumption, FS_Subset DEF InFlight
<1>. QED  BY <1>1, FS_CardinalityType

\* A step that puts nobody else in flight keeps the bound.
LEMMA FewerInFlight ==
    ASSUME InFlightBounded, InFlight' \subseteq InFlight
    PROVE  InFlightBounded'
<1>1. IsFiniteSet(InFlight) /\ Cardinality(InFlight) \in Nat
  BY InFlightFinite
<1>2. Cardinality(InFlight') <= Cardinality(InFlight) /\ Cardinality(InFlight') \in Nat
  BY <1>1, FS_Subset, FS_CardinalityType
<1>3. Permits \in Nat
  BY FetchAssumption DEF Permits
<1>. QED  BY <1>1, <1>2, <1>3 DEF InFlightBounded, Permits

LEMMA FetchInitially == FetchInit => FetchInv
<1>. SUFFICES ASSUME FetchInit PROVE FetchInv
  OBVIOUS
<1>1. FetchTypeOK
  BY FetchAssumption DEF FetchInit, FetchTypeOK
<1>2. InFlight = {}
  BY DEF FetchInit, InFlight
<1>3. Cardinality(InFlight) = 0
  BY <1>2, FS_EmptySet
<1>. QED  BY <1>1, <1>3, FetchAssumption DEF FetchInv, InFlightBounded, Permits

LEMMA FetchNextKeeps == FetchInv /\ [FetchNext]_fetchVars => FetchInv'
<1>. SUFFICES ASSUME FetchInv, [FetchNext]_fetchVars PROVE FetchInv'
  OBVIOUS
<1>. USE DEF FetchInv
<1>1. CASE UNCHANGED fetchVars
  <2>1. FetchTypeOK' /\ InFlight' = InFlight
    BY <1>1 DEF fetchVars, FetchTypeOK, InFlight
  <2>. QED  BY <2>1, FewerInFlight
<1>2. ASSUME NEW u \in Urls, Acquire(u) PROVE FetchInv'
  <2>1. FetchTypeOK'
    BY <1>2, FetchAssumption DEF Acquire, Await, FetchTypeOK
  <2>2. InFlight' = InFlight \cup {u} /\ u \notin InFlight
    BY <1>2 DEF Acquire, Await, FetchTypeOK, InFlight
  <2>3. Cardinality(InFlight') = Cardinality(InFlight) + 1
    BY <2>2, InFlightFinite, FS_AddElement
  <2>4. Cardinality(InFlight) < Permits
    BY <1>2 DEF Acquire, Holders
  <2>5. Permits \in Nat
    BY FetchAssumption DEF Permits
  <2>6. InFlightBounded'
    BY <2>3, <2>4, <2>5, InFlightFinite DEF InFlightBounded, Permits
  <2>. QED  BY <2>1, <2>6
<1>3. ASSUME NEW u \in Urls, Headers(u) PROVE FetchInv'
  <2>1. FetchTypeOK'
    BY <1>3, FetchAssumption DEF Headers, Await, FetchTypeOK
  <2>2. InFlight' \subseteq InFlight
    BY <1>3 DEF Headers, Await, FetchTypeOK, InFlight
  <2>. QED  BY <2>1, <2>2, FewerInFlight
<1>4. ASSUME NEW u \in Urls, NEW verdict \in {"ok", "network", "timeout"}, Yield(u, verdict)
      PROVE  FetchInv'
  <2>1. FetchTypeOK'
    BY <1>4 DEF Yield, FetchTypeOK
  <2>2. InFlight' \subseteq InFlight
    BY <1>4 DEF Yield, FetchTypeOK, InFlight
  <2>. QED  BY <2>1, <2>2, FewerInFlight
<1>5. CASE Exceeded
  <2>1. FetchTypeOK'
    BY <1>5 DEF Exceeded, FetchTypeOK
  <2>2. InFlight' \subseteq InFlight
    BY <1>5 DEF Exceeded, FetchTypeOK, InFlight
  <2>. QED  BY <2>1, <2>2, FewerInFlight
<1>6. ASSUME NEW u \in Urls, Respond(u) PROVE FetchInv'
  <2>1. FetchTypeOK'
    BY <1>6 DEF Respond, FetchTypeOK
  <2>2. InFlight' \subseteq InFlight
    BY <1>6 DEF Respond, InFlight
  <2>. QED  BY <2>1, <2>2, FewerInFlight
<1>7. CASE FetchTick
  <2>1. left' \in [Urls -> 0 .. Timeout]
    BY <1>7, FetchAssumption DEF FetchTick, FetchTypeOK
  <2>2. remaining' \in Nat
    BY <1>7 DEF FetchTick, FetchTypeOK
  <2>3. FetchTypeOK' /\ InFlight' \subseteq InFlight
    BY <1>7, <2>1, <2>2 DEF FetchTick, FetchTypeOK, InFlight
  <2>. QED  BY <2>3, FewerInFlight
<1>. QED
  BY <1>1, <1>2, <1>3, <1>4, <1>5, <1>6, <1>7
  DEF FetchNext, Poll, Body, NetworkError, TimesOut

\* At most cfg.concurrency requests are in flight, the reading of their bodies
\* included, and one when it is 0 (fetch_all's semaphore).
THEOREM PermitsHold == FetchSpec => [](FetchTypeOK /\ InFlightBounded)
<1>1. FetchInv => FetchTypeOK /\ InFlightBounded
  BY DEF FetchInv
<1>. QED  BY <1>1, FetchInitially, FetchNextKeeps, PTL DEF FetchSpec

-----------------------------------------------------------------------------
(* NotesApi, for any number of notes and any page sizes.                    *)

LEMMA LeastNumber ==
    ASSUME NEW T \in SUBSET Nat, T # {}
    PROVE  \E m \in T : \A n \in T : m <= n
<1>1. PICK m \in T : \A n \in T : ~(<<n, m>> \in OpToRel(<, Nat))
  BY NatLessThanWellFounded, WFMin, Zenon
<1>2. ASSUME NEW n \in T, n < m
      PROVE  FALSE
  <2>1. <<n, m>> \in OpToRel(<, Nat)
    BY <1>2 DEF OpToRel
  <2>. QED  BY <1>1, <2>1
<1>. QED  BY <1>2

\* The same from above, in a set that has a bound.
LEMMA GreatestId ==
    ASSUME NEW T \in SUBSET NoteIds, T # {}
    PROVE  \E m \in T : \A n \in T : n <= m
<1>0. MaxNotes \in Nat
  BY NotesAssumption
<1>1. PICK U : U = {n \in 0 .. MaxNotes : MaxNotes - n \in T}
  OBVIOUS
<1>2. U \in SUBSET Nat /\ U # {}
  <2>1. PICK t \in T : t \in 1 .. MaxNotes
    BY DEF NoteIds
  <2>2. MaxNotes - t \in 0 .. MaxNotes /\ MaxNotes - (MaxNotes - t) = t
    BY <1>0, <2>1
  <2>3. MaxNotes - t \in U
    BY <1>1, <2>2
  <2>. QED  BY <1>1, <2>3
<1>3. PICK u \in U : \A n \in U : u <= n
  BY <1>2, LeastNumber
<1>4. ASSUME NEW n \in T PROVE n <= MaxNotes - u
  <2>1. n \in 1 .. MaxNotes
    BY <1>4 DEF NoteIds
  <2>2. MaxNotes - n \in 0 .. MaxNotes /\ MaxNotes - (MaxNotes - n) = n
    BY <1>0, <2>1
  <2>3. u <= MaxNotes - n /\ u \in Nat
    BY <1>1, <1>3, <2>2
  <2>. QED  BY <1>0, <2>1, <2>3
<1>. QED  BY <1>1, <1>3, <1>4

\* The part of the table below a cursor.
LEMMA SomeOfTheNotes ==
    ASSUME NEW S \in SUBSET Existing
    PROVE  S \subseteq Nat /\ IsFiniteSet(S) /\ Cardinality(S) \in Nat
<1>1. S \subseteq 1 .. MaxNotes /\ MaxNotes \in Nat
  BY NotesAssumption DEF Existing, NoteIds
<1>2. IsFiniteSet(1 .. MaxNotes)
  BY <1>1, FS_Interval
<1>3. IsFiniteSet(S)
  BY <1>1, <1>2, FS_Subset
<1>. QED  BY <1>1, <1>3, FS_CardinalityType

LEMMA BetweenCounts ==
    ASSUME NEW c \in Nat, NEW i \in Nat, NEW j \in Existing, i < j, j < c
    PROVE  Cardinality(Between(j, c)) < Cardinality(Between(i, c))
<1>1. /\ Between(j, c) \in SUBSET Existing /\ Between(i, c) \in SUBSET Existing
      /\ Between(j, c) \cup {j} \in SUBSET Existing /\ j \in Nat
  BY SomeOfTheNotes DEF Between
<1>2. j \notin Between(j, c) /\ Between(j, c) \cup {j} \subseteq Between(i, c)
  <2>1. \A k \in Existing : k \in Nat
    BY SomeOfTheNotes
  <2>2. ASSUME NEW k \in Between(j, c) PROVE k \in Between(i, c)
    BY <1>1, <2>1, <2>2 DEF Between
  <2>3. j \in Between(i, c) /\ j \notin Between(j, c)
    BY <1>1 DEF Between
  <2>. QED  BY <2>2, <2>3
<1>3. Cardinality(Between(j, c) \cup {j}) = Cardinality(Between(j, c)) + 1
  BY <1>1, <1>2, SomeOfTheNotes, FS_AddElement
<1>4. Cardinality(Between(j, c) \cup {j}) <= Cardinality(Between(i, c))
  BY <1>1, <1>2, SomeOfTheNotes, FS_Subset
<1>5. Cardinality(Between(j, c)) \in Nat /\ Cardinality(Between(i, c)) \in Nat
  BY <1>1, SomeOfTheNotes
<1>. QED  BY <1>3, <1>4, <1>5

\* LIMIT leaves the rows next to the cursor: a page has no gap.
LEMMA NoGapInAPage ==
    ASSUME NEW c \in Nat, NEW k \in Nat, NEW i \in ListKeyset(c, k), NEW j \in Existing,
           i < j, j < c
    PROVE  j \in ListKeyset(c, k)
<1>1. i \in Existing /\ i \in Nat /\ Cardinality(Between(i, c)) < k
  BY SomeOfTheNotes DEF ListKeyset
<1>2. Cardinality(Between(j, c)) < Cardinality(Between(i, c))
  BY <1>1, BetweenCounts
<1>3. Cardinality(Between(j, c)) \in Nat /\ Cardinality(Between(i, c)) \in Nat
  BY SomeOfTheNotes DEF Between
<1>. QED  BY <1>1, <1>2, <1>3 DEF ListKeyset

\* Without an extra row the page is the rest of the table.
LEMMA LastPageIsTheRest ==
    ASSUME NEW c \in Nat, NEW k \in Nat, ~(Cardinality(ListKeyset(c, k + 1)) > k)
    PROVE  \A i \in Existing : i < c => i \in ListKeyset(c, k)
<1>1. PICK rest : rest = {i \in Existing : i < c /\ i \notin ListKeyset(c, k)}
  OBVIOUS
<1>2. ASSUME rest # {} PROVE FALSE
  <2>1. PICK m \in rest : \A n \in rest : n <= m
    BY <1>1, <1>2, GreatestId DEF Existing
  <2>2. m \in Existing /\ m \in Nat /\ m < c /\ m \notin ListKeyset(c, k)
    BY <1>1, <2>1, SomeOfTheNotes
  <2>3. PICK above : above = Between(m, c)
    OBVIOUS
  <2>4. above \in SUBSET Existing /\ m \notin above
    BY <2>2, <2>3 DEF Between
  <2>5. IsFiniteSet(above) /\ Cardinality(above) \in Nat /\ Cardinality(above) >= k
    BY <2>2, <2>3, <2>4, SomeOfTheNotes DEF ListKeyset
  <2>6. ASSUME NEW j \in above PROVE j \in ListKeyset(c, k)
    <3>1. j \in Existing /\ j \in Nat /\ m < j /\ j < c
      BY <2>3, <2>4, <2>6, SomeOfTheNotes DEF Between
    <3>. QED  BY <1>1, <2>1, <2>2, <3>1
  <2>7. above \subseteq ListKeyset(c, k + 1)
    <3>1. ASSUME NEW j \in above PROVE j \in ListKeyset(c, k + 1)
      <4>1. j \in Existing /\ j < c /\ Cardinality(Between(j, c)) < k
        BY <3>1, <2>6 DEF ListKeyset
      <4>2. Cardinality(Between(j, c)) \in Nat
        BY SomeOfTheNotes DEF Between
      <4>. QED  BY <4>1, <4>2 DEF ListKeyset
    <3>. QED  BY <3>1
  <2>8. ListKeyset(c, k + 1) \in SUBSET Existing
    BY DEF ListKeyset
  <2>9. /\ IsFiniteSet(ListKeyset(c, k + 1))
        /\ Cardinality(ListKeyset(c, k + 1)) \in Nat
        /\ Cardinality(ListKeyset(c, k + 1)) <= k
    BY <2>8, SomeOfTheNotes
  <2>10. Cardinality(above) = k
    BY <2>5, <2>7, <2>9, FS_Subset
  <2>11. m \in ListKeyset(c, k + 1)
    BY <2>2, <2>3, <2>10 DEF ListKeyset
  <2>12. Cardinality(above \cup {m}) = k + 1
    BY <2>4, <2>5, <2>10, FS_AddElement
  <2>13. Cardinality(above \cup {m}) <= Cardinality(ListKeyset(c, k + 1))
    BY <2>7, <2>9, <2>11, FS_Subset
  <2>. QED  BY <2>9, <2>12, <2>13
<1>. QED  BY <1>1, <1>2

\* With one the page has a row: the first below the cursor.
LEMMA PageHasARow ==
    ASSUME NEW c \in Nat, NEW k \in Nat \ {0}, Cardinality(ListKeyset(c, k + 1)) > k
    PROVE  ListKeyset(c, k) # {}
<1>1. PICK below : below = {i \in Existing : i < c}
  OBVIOUS
<1>2. below # {}
  <2>1. SUFFICES ASSUME below = {} PROVE FALSE
    OBVIOUS
  <2>2. ListKeyset(c, k + 1) = {}
    BY <1>1, <2>1 DEF ListKeyset
  <2>. QED  BY <2>2, FS_EmptySet
<1>3. PICK m \in below : \A n \in below : n <= m
  BY <1>1, <1>2, GreatestId DEF Existing
<1>4. Between(m, c) = {}
  BY <1>1, <1>3, SomeOfTheNotes DEF Between
<1>. QED  BY <1>1, <1>3, <1>4, FS_EmptySet DEF ListKeyset

\* What a page shows and where the next one begins: it goes down from the cursor
\* without a gap, to the new cursor or to the end of the table.
LEMMA PageContract ==
    ASSUME NEW c \in 1 .. FromTheTop, NEW k \in 1 .. MaxPage
    PROVE  /\ Page(c, k).items \subseteq {i \in Existing : i < c}
           /\ Page(c, k).next = FromTheTop =>
                 \A i \in Existing : i < c => i \in Page(c, k).items
           /\ Page(c, k).next # FromTheTop =>
                 /\ Page(c, k).next \in NoteIds
                 /\ Page(c, k).next \in Page(c, k).items
                 /\ \A i \in Page(c, k).items : Page(c, k).next <= i
                 /\ \A i \in Existing :
                       i < c /\ Page(c, k).next <= i => i \in Page(c, k).items
<1>0. /\ MaxNotes \in Nat /\ MaxPage \in Nat /\ FromTheTop = MaxNotes + 1
      /\ c \in Nat /\ k \in Nat \ {0}
  BY NotesAssumption DEF FromTheTop
<1>1. PICK items : items = ListKeyset(c, k)
  OBVIOUS
<1>2. Page(c, k).items = items
  BY <1>1 DEF Page
<1>3. items \subseteq {i \in Existing : i < c}
  BY <1>1 DEF ListKeyset
<1>4. CASE Cardinality(ListKeyset(c, k + 1)) > k
  <2>1. items # {} /\ items \in SUBSET Nat
    BY <1>0, <1>1, <1>3, <1>4, PageHasARow, SomeOfTheNotes
  <2>2. \E m \in items : \A n \in items : m <= n
    BY <2>1, LeastNumber
  <2>3. PICK m : m = Min(items)
    OBVIOUS
  <2>4. m \in items /\ \A n \in items : m <= n
    BY <2>2, <2>3 DEF Min
  <2>5. Page(c, k).next = m
    BY <1>1, <1>4, <2>3 DEF Page
  <2>6. m \in NoteIds /\ m # FromTheTop
    BY <1>0, <1>3, <2>4 DEF Existing, NoteIds
  <2>7. ASSUME NEW i \in Existing, i < c, m <= i PROVE i \in items
    <3>1. i \in Nat /\ m \in Nat /\ m \in ListKeyset(c, k)
      BY <1>1, <2>1, <2>4, <2>7, SomeOfTheNotes
    <3>2. CASE m = i
      BY <2>4, <3>2
    <3>3. CASE m < i
      BY <1>0, <1>1, <2>7, <3>1, <3>3, NoGapInAPage
    <3>. QED  BY <2>7, <3>1, <3>2, <3>3
  <2>. QED  BY <1>2, <1>3, <2>4, <2>5, <2>6, <2>7
<1>5. CASE ~(Cardinality(ListKeyset(c, k + 1)) > k)
  <2>1. Page(c, k).next = FromTheTop
    BY <1>5 DEF Page
  <2>2. \A i \in Existing : i < c => i \in items
    BY <1>0, <1>1, <1>5, LastPageIsTheRest
  <2>. QED  BY <1>2, <1>3, <2>1, <2>2
<1>. QED  BY <1>4, <1>5

-----------------------------------------------------------------------------
\* What the walk has shown: nothing twice, nothing below its cursor, and of what
\* was there all along everything from the cursor up.
Covered ==
    /\ stayed \subseteq Existing
    /\ \A i \in NoteIds : shown[i] <= 1
    /\ walk.on =>
          \A i \in NoteIds : /\ shown[i] = 1 => walk.cursor <= i
                             /\ i \in stayed /\ walk.cursor <= i => shown[i] = 1
    /\ ~walk.on => walk.cursor = FromTheTop /\ \A i \in stayed : shown[i] = 1

NotesInv == NotesTypeOK /\ Covered

LEMMA NotesInitially == NotesInit => NotesInv
<1>. SUFFICES ASSUME NotesInit PROVE NotesInv
  OBVIOUS
<1>0. MaxNotes \in Nat /\ MaxPage \in Nat \ {0}
  BY NotesAssumption
<1>1. notes \in [NoteIds -> Texts \cup {Gone}]
  BY DEF NotesInit
<1>2. lastId \in 0 .. MaxNotes
  BY <1>0 DEF NotesInit
<1>3. walk \in [on : BOOLEAN, limit : 1 .. MaxPage, cursor : 1 .. FromTheTop]
  <2>1. 1 \in 1 .. MaxPage /\ FromTheTop \in 1 .. FromTheTop
    BY <1>0 DEF FromTheTop
  <2>. QED  BY <2>1 DEF NotesInit
<1>4. shown \in [NoteIds -> Nat] /\ stayed \subseteq NoteIds
  BY DEF NotesInit
<1>5. Covered
  BY DEF NotesInit, Covered
<1>. QED  BY <1>1, <1>2, <1>3, <1>4, <1>5 DEF NotesInv, NotesTypeOK

LEMMA GetPageKeeps ==
    ASSUME NotesInv, NEW k \in 1 .. MaxPage, GetPage(k)
    PROVE  NotesInv'
<1>0. /\ MaxNotes \in Nat /\ FromTheTop = MaxNotes + 1 /\ NoteIds = 1 .. MaxNotes
      /\ notes' = notes /\ lastId' = lastId
      /\ notes \in [NoteIds -> Texts \cup {Gone}] /\ lastId \in 0 .. MaxNotes
      /\ shown \in [NoteIds -> Nat] /\ stayed \subseteq NoteIds
  BY NotesAssumption DEF FromTheTop, NoteIds, GetPage, NotesInv, NotesTypeOK
<1>1. PICK c : c = walk.cursor
  OBVIOUS
<1>2. c \in 1 .. FromTheTop /\ c \in Nat
  BY <1>1 DEF NotesInv, NotesTypeOK
<1>3. PICK items, next : items = Page(c, k).items /\ next = Page(c, k).next
  OBVIOUS
<1>4. /\ items \subseteq {i \in Existing : i < c}
      /\ next = FromTheTop => \A i \in Existing : i < c => i \in items
      /\ next # FromTheTop => /\ next \in NoteIds
                              /\ next \in items
                              /\ \A i \in items : next <= i
                              /\ \A i \in Existing : i < c /\ next <= i => i \in items
  BY <1>2, <1>3, PageContract
<1>5. PICK before : before = [i \in NoteIds |-> IF walk.on THEN shown[i] ELSE 0]
  OBVIOUS
<1>6. /\ shown' = [i \in NoteIds |-> before[i] + (IF i \in items THEN 1 ELSE 0)]
      /\ stayed' = IF walk.on THEN stayed ELSE Existing
      /\ walk' = [on |-> next # FromTheTop, limit |-> k, cursor |-> next]
  BY <1>1, <1>3, <1>5 DEF GetPage
<1>7. /\ \A i \in NoteIds : before[i] \in 0 .. 1
      /\ \A i \in NoteIds : before[i] = 1 => c <= i
      /\ \A i \in stayed' : c <= i => before[i] = 1
      /\ stayed' \subseteq Existing
  <2>1. CASE walk.on
    BY <1>0, <1>1, <1>2, <1>5, <1>6, <2>1 DEF NotesInv, Covered
  <2>2. CASE ~walk.on
    <3>1. c = FromTheTop /\ stayed' = Existing
      BY <1>1, <1>6, <2>2 DEF NotesInv, Covered
    <3>2. \A i \in Existing : i \in NoteIds /\ ~(c <= i)
      BY <1>0, <3>1 DEF Existing
    <3>. QED  BY <1>0, <1>5, <2>2, <3>1, <3>2
  <2>. QED  BY <2>1, <2>2
<1>8. Existing' = Existing /\ Existing \subseteq NoteIds
  BY <1>0 DEF Existing
<1>9. \A i \in NoteIds :
         /\ i \in Nat
         /\ i \in items => before[i] = 0 /\ shown'[i] = 1
         /\ i \notin items => shown'[i] = before[i]
  <2>1. ASSUME NEW i \in NoteIds
        PROVE  /\ i \in Nat /\ shown'[i] = before[i] + (IF i \in items THEN 1 ELSE 0)
               /\ before[i] \in 0 .. 1 /\ (before[i] = 1 => c <= i)
    BY <1>0, <1>6, <1>7
  <2>2. \A i \in items : i < c
    BY <1>4
  <2>. QED  BY <1>2, <2>1, <2>2
<1>10. next \in 1 .. FromTheTop
  BY <1>0, <1>4
<1>11. NotesTypeOK'
  <2>1. walk' \in [on : BOOLEAN, limit : 1 .. MaxPage, cursor : 1 .. FromTheTop]
    BY <1>6, <1>10
  <2>2. shown' \in [NoteIds -> Nat]
    <3>1. \A i \in NoteIds : before[i] + (IF i \in items THEN 1 ELSE 0) \in Nat
      BY <1>7
    <3>. QED  BY <1>6, <3>1
  <2>3. stayed' \subseteq NoteIds
    BY <1>7, <1>8
  <2>. QED  BY <1>0, <2>1, <2>2, <2>3 DEF NotesTypeOK
<1>12. Covered'
  <2>1. \A i \in NoteIds : shown'[i] <= 1
    BY <1>7, <1>9
  <2>2. walk'.on = (next # FromTheTop) /\ walk'.cursor = next
    BY <1>6
  <2>3. ASSUME next # FromTheTop, NEW i \in NoteIds
        PROVE  /\ shown'[i] = 1 => next <= i
               /\ i \in stayed' /\ next <= i => shown'[i] = 1
    <3>1. CASE i \in items
      BY <1>4, <1>9, <2>3, <3>1
    <3>2. CASE i \notin items
      <4>1. shown'[i] = before[i]
        BY <1>9, <3>2
      <4>2. before[i] = 1 => c <= i
        BY <1>7
      <4>3. c <= i => next <= i
        <5>1. next < c
          BY <1>4, <2>3
        <5>. QED  BY <1>2, <1>9, <1>10, <5>1
      <4>4. i \in stayed' /\ next <= i => c <= i
        BY <1>2, <1>4, <1>7, <1>9, <2>3, <3>2
      <4>. QED  BY <1>7, <4>1, <4>2, <4>3, <4>4
    <3>. QED  BY <3>1, <3>2
  <2>4. ASSUME next = FromTheTop, NEW i \in stayed' PROVE shown'[i] = 1
    <3>1. i \in Existing /\ i \in NoteIds
      BY <1>7, <1>8, <2>4
    <3>2. CASE i < c
      BY <1>4, <1>9, <2>4, <3>1, <3>2
    <3>3. CASE ~(i < c)
      <4>1. c <= i
        BY <1>2, <1>9, <3>1, <3>3
      <4>. QED  BY <1>2, <1>4, <1>7, <1>9, <2>4, <3>1, <3>3, <4>1
    <3>. QED  BY <3>2, <3>3
  <2>5. stayed' \subseteq Existing'
    BY <1>7, <1>8
  <2>. QED  BY <2>1, <2>2, <2>3, <2>4, <2>5 DEF Covered
<1>. QED  BY <1>11, <1>12 DEF NotesInv

LEMMA NotesNextKeeps == NotesInv /\ [NotesNext]_notesVars => NotesInv'
<1>. SUFFICES ASSUME NotesInv, [NotesNext]_notesVars PROVE NotesInv'
  OBVIOUS
<1>1. CASE UNCHANGED notesVars
  BY <1>1 DEF notesVars, NotesInv, NotesTypeOK, Covered, Existing
<1>2. ASSUME NEW i \in NoteIds, NEW body \in Bodies, NEW l \in 0 .. MaxNotes,
             notes' = [notes EXCEPT ![i] = Trimmed(body)], lastId' = l,
             UNCHANGED <<walk, shown, stayed>>
      PROVE  NotesInv'
  <2>1. Trimmed(body) \in Texts /\ Trimmed(body) # Gone
    BY NotesAssumption DEF Bodies, Trimmed
  <2>2. Existing' = Existing \cup {i}
    BY <1>2, <2>1 DEF NotesInv, NotesTypeOK, Existing
  <2>3. NotesTypeOK'
    BY <1>2, <2>1 DEF NotesInv, NotesTypeOK
  <2>. QED  BY <1>2, <2>2, <2>3 DEF NotesInv, Covered
<1>3. ASSUME NEW body \in Bodies, CreateNote(body) PROVE NotesInv'
  <2>1. NextId \in NoteIds /\ NextId \in 0 .. MaxNotes
    BY <1>3 DEF CreateNote, NoteIds
  <2>. QED  BY <1>2, <1>3, <2>1 DEF CreateNote
<1>4. ASSUME NEW body \in Bodies, NEW i \in NoteIds, UpdateNote(i, body) PROVE NotesInv'
  BY <1>2, <1>4 DEF UpdateNote, NotesInv, NotesTypeOK
<1>5. ASSUME NEW i \in NoteIds, DeleteNote(i) PROVE NotesInv'
  <2>1. Existing' = Existing \ {i}
    BY <1>5 DEF DeleteNote, NotesInv, NotesTypeOK, Existing
  <2>2. NotesTypeOK'
    BY <1>5 DEF DeleteNote, NotesInv, NotesTypeOK
  <2>. QED  BY <1>5, <2>1, <2>2 DEF DeleteNote, NotesInv, Covered
<1>6. CASE Refuse
  BY <1>1, <1>6 DEF Refuse
<1>7. CASE StartWalk
  <2>1. PICK limit \in PageSizes : GetPage(Clamped(limit))
    BY <1>7 DEF StartWalk
  <2>2. Clamped(limit) \in 1 .. MaxPage
    BY NotesAssumption DEF Clamped
  <2>. QED  BY <2>1, <2>2, GetPageKeeps
<1>8. CASE NextPage
  BY <1>8, GetPageKeeps DEF NextPage, NotesInv, NotesTypeOK
<1>. QED  BY <1>1, <1>3, <1>4, <1>5, <1>6, <1>7, <1>8 DEF NotesNext

\* Whatever is created, edited and deleted meanwhile, a walk over the pages shows
\* no note twice and, when it ends, every note that was there all along
\* (list_notes and list_keyset).
THEOREM WalkIsExact == NotesSpec => []WalkShowsEachOnce
<1>1. NotesInv => WalkShowsEachOnce
  BY DEF NotesInv, Covered, WalkShowsEachOnce
<1>. QED  BY <1>1, NotesInitially, NotesNextKeeps, PTL DEF NotesSpec

-----------------------------------------------------------------------------
(* Money, for any width of the integers, any ceiling below it, any weights. *)

LEMMA AllNumbers ==
    ASSUME NEW S, 0 \in S, \A n \in Nat : n \in S => n + 1 \in S
    PROVE  Nat \subseteq S
<1>1. SUFFICES ASSUME Nat \ S # {}
               PROVE  FALSE
  OBVIOUS
<1>2. PICK m \in Nat \ S : \A n \in Nat \ S : m <= n
  BY <1>1, LeastNumber
<1>3. m - 1 \in Nat /\ m - 1 \in S
  BY <1>2
<1>. QED  BY <1>2, <1>3

(* Sums *)

\* The first n partial sums.
Sums(f, n, g) == g = [k \in 0 .. n |-> IF k = 0 THEN 0 ELSE g[k - 1] + f[k]]

LEMMA SumsValue ==
    ASSUME NEW f, NEW n \in Nat, NEW g, Sums(f, n, g), NEW k \in 0 .. n
    PROVE  g[k] = IF k = 0 THEN 0 ELSE g[k - 1] + f[k]
  BY Zenon DEF Sums

LEMMA SumsExist ==
    ASSUME NEW f, NEW n \in Nat
    PROVE  \E g : Sums(f, n, g)
<1> DEFINE S == {k \in Nat : \E g : Sums(f, k, g)}
<1>1. 0 \in S
  <2>. DEFINE zero == [k \in 0 .. 0 |-> 0]
  <2>1. Sums(f, 0, zero)
    BY DEF Sums
  <2>. QED  BY <2>1, Zenon
<1>2. ASSUME NEW k \in Nat, k \in S
      PROVE  k + 1 \in S
  <2>1. PICK g : Sums(f, k, g)
    BY <1>2
  <2>. DEFINE h == [i \in 0 .. (k + 1) |-> IF i = 0 THEN 0 ELSE g[i - 1] + f[i]]
  <2>2. ASSUME NEW i \in 0 .. k
        PROVE  h[i] = g[i]
    <3>1. g[i] = IF i = 0 THEN 0 ELSE g[i - 1] + f[i]
      BY <2>1, SumsValue
    <3>2. i \in 0 .. (k + 1)
      OBVIOUS
    <3>. QED  BY <3>1, <3>2
  <2>3. \A i \in 0 .. (k + 1) : i # 0 => h[i - 1] = g[i - 1]
    <3>. HIDE DEF h
    <3>1. \A i \in 0 .. (k + 1) : i # 0 => i - 1 \in 0 .. k
      OBVIOUS
    <3>. QED  BY <2>2, <3>1
  <2>4. Sums(f, k + 1, h)
    BY <2>3 DEF Sums
  <2>. QED  BY <2>4
<1>. HIDE DEF S
<1>3. Nat \subseteq S
  BY <1>1, <1>2, AllNumbers
<1>. QED  BY <1>3 DEF S

LEMMA SumsUnique ==
    ASSUME NEW f, NEW m \in Nat, NEW n \in Nat, NEW g, NEW h, Sums(f, m, g), Sums(f, n, h)
    PROVE  \A k \in Nat : k <= m /\ k <= n => g[k] = h[k]
<1> DEFINE S == {k \in Nat : k <= m /\ k <= n => g[k] = h[k]}
<1>1. 0 \in S
  <2>. 0 \in 0 .. m /\ 0 \in 0 .. n
    OBVIOUS
  <2>. QED  BY SumsValue
<1>2. ASSUME NEW k \in Nat, k \in S
      PROVE  k + 1 \in S
  <2>. SUFFICES ASSUME k + 1 <= m, k + 1 <= n
                PROVE  g[k + 1] = h[k + 1]
    OBVIOUS
  <2>1. k + 1 \in 0 .. m /\ k + 1 \in 0 .. n /\ k + 1 # 0 /\ (k + 1) - 1 = k
    OBVIOUS
  <2>2. g[k] = h[k]
    BY <1>2
  <2>3. g[k + 1] = g[(k + 1) - 1] + f[k + 1]
    BY <2>1, SumsValue
  <2>4. h[k + 1] = h[(k + 1) - 1] + f[k + 1]
    BY <2>1, SumsValue
  <2>. QED  BY <2>1, <2>2, <2>3, <2>4
<1>. HIDE DEF S
<1>3. Nat \subseteq S
  BY <1>1, <1>2, AllNumbers
<1>. QED  BY <1>3 DEF S

\* The empty sum, and one more number.
LEMMA SumStep ==
    ASSUME NEW f
    PROVE  /\ SumTo(f, 0) = 0
           /\ \A n \in Nat : SumTo(f, n + 1) = SumTo(f, n) + f[n + 1]
<1>. DEFINE F(g) == [n \in Nat |-> IF n = 0 THEN 0 ELSE g[n - 1] + f[n]]
            G(n) == CHOOSE g : Sums(f, n, g)
            all == [n \in Nat |-> G(n)[n]]
<1>1. \A n \in Nat : Sums(f, n, G(n))
  BY SumsExist, Zenon
<1>. HIDE DEF G
<1>2. ASSUME NEW n \in Nat, n # 0
      PROVE  G(n)[n - 1] = G(n - 1)[n - 1]
  <2>1. n - 1 \in Nat /\ n - 1 <= n - 1 /\ n - 1 <= n
    BY <1>2
  <2>2. Sums(f, n, G(n)) /\ Sums(f, n - 1, G(n - 1))
    BY <1>1, <2>1
  <2>. QED  BY <2>1, <2>2, SumsUnique
<1>3. \A n \in Nat : G(n)[n] = IF n = 0 THEN 0 ELSE G(n)[n - 1] + f[n]
  BY <1>1, SumsValue
<1>4. ASSUME NEW n \in Nat
      PROVE  all[n] = IF n = 0 THEN 0 ELSE all[n - 1] + f[n]
  BY <1>2, <1>3
<1>5. all = F(all)
  BY <1>4
<1>. DEFINE sum == CHOOSE g : g = F(g)
<1>. HIDE DEF all
<1>6. sum = F(sum)
  <2>. HIDE DEF F
  <2>. QED  BY <1>5, Zenon
<1>7. \A n : SumTo(f, n) = sum[n]
  BY DEF SumTo
<1>. HIDE DEF sum
<1>8. \A n \in Nat : sum[n] = IF n = 0 THEN 0 ELSE sum[n - 1] + f[n]
  BY <1>6, Zenon
<1>9. \A n \in Nat : sum[n + 1] = sum[n] + f[n + 1]
  BY <1>8
<1>. QED  BY <1>7, <1>8, <1>9

LEMMA SumType ==
    ASSUME NEW f, NEW n \in Nat, \A k \in 1 .. n : f[k] \in Int
    PROVE  SumTo(f, n) \in Int
<1> DEFINE S == {k \in Nat : k <= n => SumTo(f, k) \in Int}
<1>1. 0 \in S
  BY SumStep
<1>2. ASSUME NEW k \in Nat, k \in S
      PROVE  k + 1 \in S
  <2>. SUFFICES ASSUME k + 1 <= n
                PROVE  SumTo(f, k + 1) \in Int
    OBVIOUS
  <2>1. SumTo(f, k) \in Int /\ f[k + 1] \in Int
    BY <1>2
  <2>. QED  BY <2>1, SumStep
<1>. HIDE DEF S
<1>3. Nat \subseteq S
  BY <1>1, <1>2, AllNumbers
<1>. QED  BY <1>3 DEF S

\* Of natural numbers no one is more than the sum.
LEMMA SumOfNaturals ==
    ASSUME NEW f, NEW n \in Nat, \A k \in 1 .. n : f[k] \in Nat
    PROVE  SumTo(f, n) \in Nat /\ \A k \in 1 .. n : f[k] <= SumTo(f, n)
<1> DEFINE S == {m \in Nat : m <= n =>
                    SumTo(f, m) \in Nat /\ \A k \in 1 .. m : f[k] <= SumTo(f, m)}
<1>1. 0 \in S
  BY SumStep
<1>2. ASSUME NEW m \in Nat, m \in S
      PROVE  m + 1 \in S
  <2>. SUFFICES ASSUME m + 1 <= n
                PROVE  /\ SumTo(f, m + 1) \in Nat
                       /\ \A k \in 1 .. (m + 1) : f[k] <= SumTo(f, m + 1)
    OBVIOUS
  <2>1. SumTo(f, m) \in Nat /\ \A k \in 1 .. m : f[k] <= SumTo(f, m)
    BY <1>2
  <2>2. SumTo(f, m + 1) = SumTo(f, m) + f[m + 1] /\ f[m + 1] \in Nat
    BY SumStep
  <2>3. ASSUME NEW k \in 1 .. (m + 1) PROVE f[k] <= SumTo(f, m + 1)
    <3>1. CASE k = m + 1
      BY <2>1, <2>2, <3>1
    <3>2. CASE k \in 1 .. m
      <4>1. f[k] \in Nat /\ f[k] <= SumTo(f, m)
        BY <2>1, <3>2
      <4>. QED  BY <2>1, <2>2, <4>1
    <3>. QED  BY <3>1, <3>2
  <2>. QED  BY <2>1, <2>2, <2>3
<1>. HIDE DEF S
<1>3. Nat \subseteq S
  BY <1>1, <1>2, AllNumbers
<1>. QED  BY <1>3 DEF S

\* Multiplication, where the provers need a hand.
LEMMA Products ==
    /\ \A a, b, c \in Int : a * (b + c) = a * b + a * c
    /\ \A a, b \in Int : a * b \in Int /\ a * b = b * a
    /\ \A a, b \in Nat : a * b \in Nat
    /\ \A a \in Nat : \A b, c \in Int : b <= c => a * b <= a * c
    /\ \A a \in Nat \ {0} : \A b, c \in Int : a * b <= a * c => b <= c
<1>1. \A a, b, c \in Int : a * (b + c) = a * b + a * c
  OBVIOUS
<1>2. \A a, b \in Int : a * b \in Int /\ a * b = b * a
  OBVIOUS
<1>3. \A a, b \in Nat : a * b \in Nat
  OBVIOUS
<1>4. \A a \in Nat : \A b, c \in Int : b <= c => a * b <= a * c
  OBVIOUS
<1>5. \A a \in Nat \ {0} : \A b, c \in Int : a * b <= a * c => b <= c
  OBVIOUS
<1>. QED  BY <1>1, <1>2, <1>3, <1>4, <1>5

LEMMA Division ==
    ASSUME NEW a \in Nat, NEW t \in Nat \ {0}
    PROVE  /\ a \div t \in Nat /\ a % t \in 0 .. (t - 1)
           /\ a = t * (a \div t) + (a % t)
<1>1. a % t \in 0 .. (t - 1)
  OBVIOUS
<1>2. a = t * (a \div t) + (a % t)
  OBVIOUS
<1>3. a \div t \in Int
  OBVIOUS
<1>4. a \div t >= 0
  BY <1>1, <1>2, <1>3
<1>. QED  BY <1>1, <1>2, <1>3, <1>4

\* a times each number is t times its quotient and a rest: so it is for the sums.
DividesUp(a, t, n, w, q, r) ==
    \A k \in 1 .. n : /\ w[k] \in Int /\ q[k] \in Int /\ r[k] \in Int
                      /\ a * w[k] = t * q[k] + r[k]

LEMMA SumOfQuotients ==
    ASSUME NEW a \in Int, NEW t \in Int, NEW n \in Nat, NEW w, NEW q, NEW r,
           DividesUp(a, t, n, w, q, r)
    PROVE  a * SumTo(w, n) = t * SumTo(q, n) + SumTo(r, n)
<1> DEFINE S == {k \in Nat : k <= n => a * SumTo(w, k) = t * SumTo(q, k) + SumTo(r, k)}
<1>1. 0 \in S
  BY SumStep
<1>2. ASSUME NEW k \in Nat, k \in S
      PROVE  k + 1 \in S
  <2>. SUFFICES ASSUME k + 1 <= n
                PROVE  a * SumTo(w, k + 1) = t * SumTo(q, k + 1) + SumTo(r, k + 1)
    OBVIOUS
  <2>1. PICK W, Q, R, x, y, z :
            /\ W = SumTo(w, k) /\ Q = SumTo(q, k) /\ R = SumTo(r, k)
            /\ x = w[k + 1] /\ y = q[k + 1] /\ z = r[k + 1]
    OBVIOUS
  <2>2. W \in Int /\ Q \in Int /\ R \in Int /\ x \in Int /\ y \in Int /\ z \in Int
    BY <2>1, SumType DEF DividesUp
  <2>3. a * W = t * Q + R /\ a * x = t * y + z
    BY <1>2, <2>1 DEF DividesUp
  <2>4. /\ SumTo(w, k + 1) = W + x /\ SumTo(q, k + 1) = Q + y
        /\ SumTo(r, k + 1) = R + z
    BY <2>1, SumStep
  <2>5. a * (W + x) = a * W + a * x /\ t * (Q + y) = t * Q + t * y
    BY <2>2, Products
  <2>6. /\ a * W \in Int /\ a * x \in Int /\ t * Q \in Int /\ t * y \in Int
    BY <2>2, Products
  <2>7. a * (W + x) = t * (Q + y) + (R + z)
    BY <2>2, <2>3, <2>5, <2>6
  <2>. QED  BY <2>4, <2>7
<1>. HIDE DEF S
<1>3. Nat \subseteq S
  BY <1>1, <1>2, AllNumbers
<1>. QED  BY <1>3 DEF S

\* The sum of ones and zeros counts the ones.
LEMMA SumOfOnes ==
    ASSUME NEW e, NEW n \in Nat, \A k \in 1 .. n : e[k] \in {0, 1}
    PROVE  /\ SumTo(e, n) = Cardinality({k \in 1 .. n : e[k] = 1})
           /\ IsFiniteSet({k \in 1 .. n : e[k] = 1})
<1> DEFINE Ones(m) == {k \in 1 .. m : e[k] = 1}
           S == {m \in Nat : m <= n => SumTo(e, m) = Cardinality(Ones(m)) /\ IsFiniteSet(Ones(m))}
<1>1. 0 \in S
  <2>1. Ones(0) = {}
    OBVIOUS
  <2>. QED  BY <2>1, SumStep, FS_EmptySet
<1>2. ASSUME NEW m \in Nat, m \in S
      PROVE  m + 1 \in S
  <2>. SUFFICES ASSUME m + 1 <= n
                PROVE  SumTo(e, m + 1) = Cardinality(Ones(m + 1)) /\ IsFiniteSet(Ones(m + 1))
    OBVIOUS
  <2>1. SumTo(e, m) = Cardinality(Ones(m)) /\ IsFiniteSet(Ones(m))
    BY <1>2
  <2>2. e[m + 1] \in {0, 1} /\ SumTo(e, m + 1) = SumTo(e, m) + e[m + 1]
    BY SumStep
  <2>3. Cardinality(Ones(m)) \in Nat /\ m + 1 \notin Ones(m)
    BY <2>1, FS_CardinalityType
  <2>4. CASE e[m + 1] = 0
    <3>1. Ones(m + 1) = Ones(m)
      BY <2>4
    <3>. QED  BY <2>1, <2>2, <2>3, <2>4, <3>1
  <2>5. CASE e[m + 1] = 1
    <3>1. Ones(m + 1) = Ones(m) \cup {m + 1}
      BY <2>5
    <3>. HIDE DEF Ones
    <3>2. Cardinality(Ones(m) \cup {m + 1}) = Cardinality(Ones(m)) + 1 /\ IsFiniteSet(Ones(m) \cup {m + 1})
      BY <2>1, <2>3, FS_AddElement
    <3>. QED  BY <2>1, <2>2, <2>3, <2>5, <3>1, <3>2
  <2>. QED  BY <2>2, <2>4, <2>5
<1>. HIDE DEF S
<1>3. Nat \subseteq S
  BY <1>1, <1>2, AllNumbers
<1>. QED  BY <1>3 DEF S

\* Numbers below t add up to t for each that is not 0, at most.
LEMMA SumBelow ==
    ASSUME NEW t \in Nat, NEW n \in Nat, NEW r, NEW p,
           \A k \in 1 .. n : r[k] \in 0 .. t,
           \A k \in 1 .. n : p[k] = IF r[k] > 0 THEN 1 ELSE 0
    PROVE  SumTo(r, n) <= t * SumTo(p, n)
<1> DEFINE S == {k \in Nat : k <= n => SumTo(r, k) <= t * SumTo(p, k)}
<1>1. 0 \in S
  BY SumStep
<1>2. ASSUME NEW k \in Nat, k \in S
      PROVE  k + 1 \in S
  <2>. SUFFICES ASSUME k + 1 <= n
                PROVE  SumTo(r, k + 1) <= t * SumTo(p, k + 1)
    OBVIOUS
  <2>1. PICK R, P, x, y :
            R = SumTo(r, k) /\ P = SumTo(p, k) /\ x = r[k + 1] /\ y = p[k + 1]
    OBVIOUS
  <2>2. /\ \A i \in 1 .. k : r[i] \in Int /\ p[i] \in Int
        /\ x \in 0 .. t /\ y = IF x > 0 THEN 1 ELSE 0
    BY <2>1
  <2>3. R \in Int /\ P \in Int /\ R <= t * P
    BY <1>2, <2>1, <2>2, SumType
  <2>4. SumTo(r, k + 1) = R + x /\ SumTo(p, k + 1) = P + y
    BY <2>1, SumStep
  <2>5. t * (P + y) = t * P + t * y /\ t * P \in Int
    BY <2>2, <2>3, Products
  <2>6. x <= t * y /\ t * y \in Int
    BY <2>2
  <2>7. R + x <= t * (P + y)
    BY <2>2, <2>3, <2>5, <2>6
  <2>. QED  BY <2>4, <2>7
<1>. HIDE DEF S
<1>3. Nat \subseteq S
  BY <1>1, <1>2, AllNumbers
<1>. QED  BY <1>3 DEF S

\* The sum of sums, with a sign.
LEMMA SumOfSums ==
    ASSUME NEW s \in {-1, 1}, NEW n \in Nat, NEW h, NEW q, NEW e,
           \A k \in 1 .. n : q[k] \in Int /\ e[k] \in Int /\ h[k] = s * (q[k] + e[k])
    PROVE  SumTo(h, n) = s * (SumTo(q, n) + SumTo(e, n))
<1> DEFINE S == {k \in Nat : k <= n => SumTo(h, k) = s * (SumTo(q, k) + SumTo(e, k))}
<1>1. 0 \in S
  BY SumStep
<1>2. ASSUME NEW k \in Nat, k \in S
      PROVE  k + 1 \in S
  <2>. SUFFICES ASSUME k + 1 <= n
                PROVE  SumTo(h, k + 1) = s * (SumTo(q, k + 1) + SumTo(e, k + 1))
    OBVIOUS
  <2>1. PICK Q, E, x, y :
            Q = SumTo(q, k) /\ E = SumTo(e, k) /\ x = q[k + 1] /\ y = e[k + 1]
    OBVIOUS
  <2>2. Q \in Int /\ E \in Int /\ x \in Int /\ y \in Int
    BY <2>1, SumType
  <2>3. SumTo(h, k) = s * (Q + E) /\ h[k + 1] = s * (x + y)
    BY <1>2, <2>1
  <2>4. /\ SumTo(h, k + 1) = s * (Q + E) + s * (x + y)
        /\ SumTo(q, k + 1) = Q + x /\ SumTo(e, k + 1) = E + y
    BY <2>1, <2>3, SumStep
  <2>5. s * (Q + E) + s * (x + y) = s * ((Q + x) + (E + y))
    BY <2>2
  <2>. QED  BY <2>4, <2>5
<1>. HIDE DEF S
<1>3. Nat \subseteq S
  BY <1>1, <1>2, AllNumbers
<1>. QED  BY <1>3 DEF S

-----------------------------------------------------------------------------
(* The split *)

Splits(c, ws) == c \in Int /\ ws \in Seq(Nat) /\ Total(ws) # 0

LEMMA Parts ==
    ASSUME NEW c, NEW ws, Splits(c, ws)
    PROVE  /\ Abs(c) \in Nat /\ Total(ws) \in Nat \ {0} /\ Len(ws) \in Nat \ {0}
           /\ \A i \in 1 .. Len(ws) :
                 /\ ws[i] \in 0 .. Total(ws)
                 /\ Quotient(c, ws, i) \in 0 .. Abs(c)
                 /\ Remainder(c, ws, i) \in 0 .. (Total(ws) - 1)
                 /\ Abs(c) * ws[i] = Total(ws) * Quotient(c, ws, i) + Remainder(c, ws, i)
<1>1. Abs(c) \in Nat
  BY DEF Abs, Splits
<1>2. Len(ws) \in Nat /\ \A i \in 1 .. Len(ws) : ws[i] \in Nat
  BY DEF Splits
<1>3. Total(ws) \in Nat \ {0} /\ \A i \in 1 .. Len(ws) : ws[i] <= Total(ws)
  BY <1>2, SumOfNaturals DEF Total, Splits
<1>4. Len(ws) # 0
  BY <1>3, SumStep DEF Total
<1>5. ASSUME NEW i \in 1 .. Len(ws)
      PROVE  /\ Quotient(c, ws, i) \in 0 .. Abs(c)
             /\ Remainder(c, ws, i) \in 0 .. (Total(ws) - 1)
             /\ Abs(c) * ws[i] = Total(ws) * Quotient(c, ws, i) + Remainder(c, ws, i)
  <2>1. PICK a, t, w, x : a = Abs(c) /\ t = Total(ws) /\ w = ws[i] /\ x = a * w
    OBVIOUS
  <2>2. a \in Nat /\ t \in Nat \ {0} /\ w \in Nat /\ w <= t /\ x \in Nat
    BY <1>1, <1>2, <1>3, <2>1, Products
  <2>3. x \div t \in Nat /\ x % t \in 0 .. (t - 1) /\ x = t * (x \div t) + (x % t)
    BY <2>2, Division
  <2>4. x <= t * a /\ t * a \in Nat
    BY <2>1, <2>2, Products
  <2>5. t * (x \div t) <= t * a
    <3>1. t * (x \div t) \in Nat
      BY <2>2, <2>3, Products
    <3>. QED  BY <2>2, <2>3, <2>4, <3>1
  <2>6. x \div t <= a
    BY <2>2, <2>3, <2>5, Products
  <2>. QED  BY <2>1, <2>2, <2>3, <2>6 DEF Quotient, Remainder
<1>. QED  BY <1>1, <1>2, <1>3, <1>4, <1>5

Rest(c, ws) == {i \in 1 .. Len(ws) : Remainder(c, ws, i) > 0}

\* There is a cent left over for a share that has a remainder, at most.
LEMMA ResidueOfParts ==
    ASSUME NEW c, NEW ws, Splits(c, ws)
    PROVE  /\ Residue(c, ws) \in Nat
           /\ IsFiniteSet(Rest(c, ws)) /\ Cardinality(Rest(c, ws)) \in Nat
           /\ Residue(c, ws) <= Cardinality(Rest(c, ws))
           /\ Cardinality(Rest(c, ws)) <= Len(ws)
<1>1. PICK a, t, n : a = Abs(c) /\ t = Total(ws) /\ n = Len(ws)
  OBVIOUS
<1>2. PICK q, r, p : /\ q = [i \in 1 .. n |-> Quotient(c, ws, i)]
                     /\ r = [i \in 1 .. n |-> Remainder(c, ws, i)]
                     /\ p = [i \in 1 .. n |-> IF Remainder(c, ws, i) > 0 THEN 1 ELSE 0]
  OBVIOUS
<1>3. /\ a \in Nat /\ t \in Nat \ {0} /\ n \in Nat /\ t = SumTo(ws, n)
      /\ \A i \in 1 .. n : /\ ws[i] \in Nat /\ q[i] \in Nat /\ r[i] \in 0 .. (t - 1)
                           /\ a * ws[i] = t * q[i] + r[i]
                           /\ p[i] = IF r[i] > 0 THEN 1 ELSE 0
  <2>1. t = SumTo(ws, n)
    BY <1>1 DEF Total
  <2>2. a \in Nat /\ t \in Nat \ {0} /\ n \in Nat
    BY <1>1, Parts
  <2>3. ASSUME NEW i \in 1 .. n
        PROVE  /\ ws[i] \in Nat /\ q[i] \in Nat /\ r[i] \in 0 .. (t - 1)
               /\ a * ws[i] = t * q[i] + r[i]
               /\ p[i] = IF r[i] > 0 THEN 1 ELSE 0
    <3>1. /\ q[i] = Quotient(c, ws, i) /\ r[i] = Remainder(c, ws, i)
          /\ p[i] = IF Remainder(c, ws, i) > 0 THEN 1 ELSE 0
      BY <1>2
    <3>2. /\ ws[i] \in 0 .. t /\ Quotient(c, ws, i) \in 0 .. a
          /\ Remainder(c, ws, i) \in 0 .. (t - 1)
          /\ a * ws[i] = t * Quotient(c, ws, i) + Remainder(c, ws, i)
      BY <1>1, <2>3, Parts
    <3>. QED  BY <2>2, <3>1, <3>2
  <2>. QED  BY <2>1, <2>2, <2>3
<1>4. PICK Q, R, P : Q = SumTo(q, n) /\ R = SumTo(r, n) /\ P = SumTo(p, n)
  OBVIOUS
<1>5. Residue(c, ws) = a - Q
  BY <1>1, <1>2, <1>4 DEF Residue
<1>6. a * t = t * Q + R
  <2>1. a \in Int /\ t \in Int /\ n \in Nat
    BY <1>3
  <2>2. DividesUp(a, t, n, ws, q, r)
    BY <1>3 DEF DividesUp
  <2>3. a * SumTo(ws, n) = t * SumTo(q, n) + SumTo(r, n)
    BY <2>1, <2>2, SumOfQuotients
  <2>. QED  BY <1>3, <1>4, <2>3
<1>7. Q \in Nat /\ R \in Nat
  <2>1. \A i \in 1 .. n : q[i] \in Nat /\ r[i] \in Nat
    BY <1>3
  <2>. QED  BY <1>3, <1>4, <2>1, SumOfNaturals
<1>8. R <= t * P
  <2>1. \A i \in 1 .. n : r[i] \in 0 .. t
    BY <1>3
  <2>. QED  BY <1>3, <1>4, <2>1, SumBelow
<1>9. P = Cardinality(Rest(c, ws)) /\ IsFiniteSet(Rest(c, ws))
  <2>1. {i \in 1 .. n : p[i] = 1} = Rest(c, ws)
    BY <1>1, <1>2 DEF Rest
  <2>2. n \in Nat /\ \A i \in 1 .. n : p[i] \in {0, 1}
    BY <1>3
  <2>3. /\ SumTo(p, n) = Cardinality({i \in 1 .. n : p[i] = 1})
        /\ IsFiniteSet({i \in 1 .. n : p[i] = 1})
    BY <2>2, SumOfOnes
  <2>. QED  BY <1>4, <2>1, <2>3
<1>10. P \in Nat /\ P <= n
  <2>1. IsFiniteSet(1 .. n) /\ Cardinality(1 .. n) = n
    BY <1>3, FS_Interval
  <2>2. Rest(c, ws) \subseteq 1 .. n
    BY <1>1 DEF Rest
  <2>. QED  BY <1>9, <2>1, <2>2, FS_Subset, FS_CardinalityType
<1>11. t * (a - Q) = R
  <2>1. t * (a + (-Q)) = t * a + t * (-Q) /\ a * t = t * a /\ t * (-Q) = -(t * Q)
    BY <1>3, <1>7, Products
  <2>2. t * a \in Int /\ t * Q \in Int /\ a - Q = a + (-Q)
    BY <1>3, <1>7, Products
  <2>. QED  BY <1>6, <1>7, <2>1, <2>2
<1>12. a - Q >= 0
  <2>1. t * 0 <= t * (a - Q)
    BY <1>3, <1>7, <1>11
  <2>2. a - Q \in Int /\ 0 \in Int
    BY <1>3, <1>7
  <2>. QED  BY <1>3, <2>1, <2>2, Products
<1>13. a - Q <= P
  <2>1. t * (a - Q) <= t * P /\ a - Q \in Int /\ P \in Int
    BY <1>3, <1>7, <1>8, <1>10, <1>11
  <2>. QED  BY <1>3, <2>1, Products
<1>. QED  BY <1>1, <1>3, <1>5, <1>7, <1>9, <1>10, <1>12, <1>13

\* The order of the shares is strict and total.
LEMMA SortOrder ==
    ASSUME NEW c, NEW ws, Splits(c, ws)
    PROVE  \A i, j, k \in 1 .. Len(ws) :
              /\ ~Before(c, ws, i, i)
              /\ i # j => Before(c, ws, i, j) \/ Before(c, ws, j, i)
              /\ Before(c, ws, i, j) /\ Before(c, ws, j, k) => Before(c, ws, i, k)
<1>1. \A i \in 1 .. Len(ws) : i \in Int /\ Remainder(c, ws, i) \in Int
  <2>1. \A i \in 1 .. Len(ws) : Remainder(c, ws, i) \in 0 .. (Total(ws) - 1)
    BY Parts
  <2>. QED  BY <2>1
<1>. QED  BY <1>1 DEF Before

Earlier(c, ws, i) == {j \in 1 .. Len(ws) : Before(c, ws, j, i)}

LEMMA PlacesInOrder ==
    ASSUME NEW c, NEW ws, Splits(c, ws)
    PROVE  /\ \A i \in 1 .. Len(ws) : Place(c, ws, i) \in 0 .. (Len(ws) - 1)
           /\ \A i, j \in 1 .. Len(ws) :
                 Before(c, ws, i, j) => Place(c, ws, i) < Place(c, ws, j)
<1>1. PICK n : n = Len(ws)
  OBVIOUS
<1>2. n \in Nat \ {0} /\ IsFiniteSet(1 .. n) /\ Cardinality(1 .. n) = n
  BY <1>1, Parts, FS_Interval
<1>3. \A i \in 1 .. n : Earlier(c, ws, i) \in SUBSET (1 .. n) /\ i \notin Earlier(c, ws, i)
  BY <1>1, SortOrder DEF Earlier
<1>4. \A i : Place(c, ws, i) = Cardinality(Earlier(c, ws, i))
  BY DEF Place, Earlier
<1>5. \A i \in 1 .. n : IsFiniteSet(Earlier(c, ws, i)) /\ Cardinality(Earlier(c, ws, i)) \in Nat
  BY <1>2, <1>3, FS_Subset, FS_CardinalityType
<1>6. \A i \in 1 .. n : /\ Cardinality(Earlier(c, ws, i) \cup {i}) = Place(c, ws, i) + 1
                        /\ IsFiniteSet(Earlier(c, ws, i) \cup {i})
  BY <1>3, <1>4, <1>5, FS_AddElement
<1>7. ASSUME NEW i \in 1 .. n PROVE Place(c, ws, i) \in 0 .. (n - 1)
  <2>1. Earlier(c, ws, i) \cup {i} \in SUBSET (1 .. n)
    BY <1>3
  <2>2. Cardinality(Earlier(c, ws, i) \cup {i}) <= n
    BY <1>2, <2>1, FS_Subset
  <2>3. Place(c, ws, i) \in Nat
    BY <1>4, <1>5
  <2>4. Cardinality(Earlier(c, ws, i) \cup {i}) = Place(c, ws, i) + 1
    BY <1>6
  <2>. QED  BY <1>2, <2>2, <2>3, <2>4
<1>8. ASSUME NEW i \in 1 .. n, NEW j \in 1 .. n, Before(c, ws, i, j)
      PROVE  Place(c, ws, i) < Place(c, ws, j)
  <2>1. Earlier(c, ws, i) \cup {i} \in SUBSET Earlier(c, ws, j)
    BY <1>1, <1>8, SortOrder DEF Earlier
  <2>2. Cardinality(Earlier(c, ws, i) \cup {i}) <= Place(c, ws, j)
    BY <1>4, <1>5, <2>1, FS_Subset
  <2>3. /\ Place(c, ws, i) \in Nat /\ Place(c, ws, j) \in Nat
        /\ Cardinality(Earlier(c, ws, i) \cup {i}) = Place(c, ws, i) + 1
    BY <1>4, <1>5, <1>6
  <2>. QED  BY <2>2, <2>3
<1>. QED  BY <1>1, <1>7, <1>8

\* No two shares have one place, so that as many come before place m as m says.
LEMMA PlacesTaken ==
    ASSUME NEW c, NEW ws, Splits(c, ws), NEW m \in 0 .. Len(ws)
    PROVE  Cardinality({i \in 1 .. Len(ws) : Place(c, ws, i) < m}) = m
<1>1. PICK n : n = Len(ws)
  OBVIOUS
<1>2. n \in Nat \ {0} /\ m \in Nat /\ m <= n
  BY <1>1, Parts
<1>3. PICK place : place = [i \in 1 .. n |-> Place(c, ws, i)]
  OBVIOUS
<1>4. place \in [1 .. n -> 0 .. (n - 1)]
  BY <1>1, <1>3, PlacesInOrder
<1>5. \A i, j \in 1 .. n : place[i] = place[j] => i = j
  <2>. SUFFICES ASSUME NEW i \in 1 .. n, NEW j \in 1 .. n, place[i] = place[j], i # j
                PROVE  FALSE
    OBVIOUS
  <2>1. Before(c, ws, i, j) \/ Before(c, ws, j, i)
    BY <1>1, SortOrder
  <2>2. place[i] < place[j] \/ place[j] < place[i]
    BY <1>1, <1>3, <2>1, PlacesInOrder
  <2>3. place[i] \in Int /\ place[j] \in Int
    BY <1>4
  <2>. QED  BY <2>2, <2>3
<1>6. place \in Injection(1 .. n, 0 .. (n - 1))
  BY <1>4, <1>5 DEF Injection, IsInjective
<1>7. /\ IsFiniteSet(1 .. n) /\ IsFiniteSet(0 .. (n - 1))
      /\ Cardinality(1 .. n) = n /\ Cardinality(0 .. (n - 1)) = n
  BY <1>2, FS_Interval
<1>8. place \in Surjection(1 .. n, 0 .. (n - 1))
  BY <1>6, <1>7, FS_Injection
<1>9. PICK first : first = {i \in 1 .. n : place[i] < m}
  OBVIOUS
<1>10. PICK f : f = [i \in first |-> place[i]]
  OBVIOUS
<1>11. f \in [first -> 0 .. (m - 1)]
  <2>1. ASSUME NEW i \in first PROVE place[i] \in 0 .. (m - 1)
    <3>1. place[i] \in 0 .. (n - 1) /\ place[i] < m
      BY <1>4, <1>9, <2>1
    <3>. QED  BY <1>2, <3>1
  <2>. QED  BY <1>10, <2>1
<1>12. ASSUME NEW k \in 0 .. (m - 1) PROVE \E i \in first : f[i] = k
  <2>1. k \in 0 .. (n - 1) /\ k < m
    BY <1>2
  <2>2. PICK i \in 1 .. n : place[i] = k
    BY <1>8, <2>1 DEF Surjection
  <2>. QED  BY <1>9, <1>10, <2>1, <2>2
<1>13. f \in Bijection(first, 0 .. (m - 1))
  <2>1. \A i, j \in first : f[i] = f[j] => i = j
    BY <1>5, <1>9, <1>10
  <2>2. f \in Injection(first, 0 .. (m - 1))
    BY <1>11, <2>1 DEF Injection, IsInjective
  <2>3. f \in Surjection(first, 0 .. (m - 1))
    BY <1>11, <1>12 DEF Surjection
  <2>. QED  BY <2>2, <2>3 DEF Bijection
<1>14. Cardinality(0 .. (m - 1)) = m
  BY <1>2, FS_Interval
<1>15. Cardinality(first) = Cardinality(0 .. (m - 1))
  <2>1. IsFiniteSet(first)
    BY <1>7, <1>9, FS_Subset
  <2>2. ExistsBijection(first, 0 .. (m - 1))
    BY <1>13 DEF ExistsBijection
  <2>. QED  BY <2>1, <2>2, FS_Bijection
<1>16. first = {i \in 1 .. Len(ws) : Place(c, ws, i) < m}
  BY <1>1, <1>3, <1>9
<1>. QED  BY <1>14, <1>15, <1>16

\* The cents left over go to the first places, one each: the loop does not come
\* round, and every share that gets one has a remainder.
LEMMA ExtraCents ==
    ASSUME NEW c, NEW ws, Splits(c, ws), NEW i \in 1 .. Len(ws)
    PROVE  /\ Cardinality(Turns(c, ws, i)) = IF Place(c, ws, i) < Residue(c, ws) THEN 1 ELSE 0
           /\ Place(c, ws, i) < Residue(c, ws) => Remainder(c, ws, i) > 0
<1>1. PICK n, R, place : n = Len(ws) /\ R = Residue(c, ws) /\ place = Place(c, ws, i)
  OBVIOUS
<1>2. n \in Nat \ {0} /\ R \in Nat /\ R <= Cardinality(Rest(c, ws)) /\ Cardinality(Rest(c, ws)) <= n
      /\ Cardinality(Rest(c, ws)) \in Nat
  BY <1>1, Parts, ResidueOfParts
<1>3. place \in 0 .. (n - 1)
  BY <1>1, PlacesInOrder
<1>4. \A k \in 0 .. (R - 1) : k % n = k
  <2>. SUFFICES ASSUME NEW k \in 0 .. (R - 1) PROVE k % n = k
    OBVIOUS
  <2>1. k \in Nat /\ k < n
    BY <1>2
  <2>. QED  BY <1>2, <2>1
<1>5. Turns(c, ws, i) = {k \in 0 .. (R - 1) : k = place}
  BY <1>1, <1>4 DEF Turns
<1>6. CASE place < R
  <2>1. Turns(c, ws, i) = {place}
    BY <1>2, <1>3, <1>5, <1>6
  <2>2. Remainder(c, ws, i) > 0
    <3>. SUFFICES ASSUME ~(Remainder(c, ws, i) > 0) PROVE FALSE
      OBVIOUS
    <3>1. \A j \in 1 .. n : Remainder(c, ws, j) \in Int
      <4>1. \A j \in 1 .. n : Remainder(c, ws, j) \in 0 .. (Total(ws) - 1)
        BY <1>1, Parts
      <4>. QED  BY <4>1
    <3>2. Rest(c, ws) \in SUBSET Earlier(c, ws, i)
      BY <1>1, <3>1 DEF Rest, Earlier, Before
    <3>3. IsFiniteSet(Earlier(c, ws, i))
      <4>1. Earlier(c, ws, i) \in SUBSET (1 .. n) /\ IsFiniteSet(1 .. n)
        BY <1>1, <1>2, FS_Interval DEF Earlier
      <4>. QED  BY <4>1, FS_Subset
    <3>4. Cardinality(Rest(c, ws)) <= Cardinality(Earlier(c, ws, i))
      BY <3>2, <3>3, FS_Subset
    <3>5. place = Cardinality(Earlier(c, ws, i))
      BY <1>1 DEF Place, Earlier
    <3>. QED  BY <1>2, <1>3, <1>6, <3>4, <3>5
  <2>. QED  BY <1>1, <1>6, <2>1, <2>2, FS_Singleton
<1>7. CASE ~(place < R)
  <2>1. Turns(c, ws, i) = {}
    BY <1>2, <1>3, <1>5, <1>7
  <2>. QED  BY <1>1, <1>7, <2>1, FS_EmptySet
<1>. QED  BY <1>6, <1>7

-----------------------------------------------------------------------------
(* The i64 *)

LEMMA WrappedI64 ==
    /\ \A n \in Int : Wrapped(n) \in I64
    /\ \A n \in I64 : Wrapped(n) = n
<1>1. PICK w : w = 2 * Half
  OBVIOUS
<1>2. Half \in Nat \ {0} /\ w \in Nat \ {0} /\ w = Half + Half
  BY <1>1, MoneyAssumption
<1>3. ASSUME NEW n \in Int PROVE Wrapped(n) \in I64
  <2>1. n + Half \in Int
    BY <1>2
  <2>2. (n + Half) % w \in 0 .. (w - 1)
    BY <1>2, <2>1
  <2>. QED  BY <1>1, <1>2, <2>2 DEF Wrapped, I64
<1>4. ASSUME NEW n \in I64 PROVE Wrapped(n) = n
  <2>1. n \in Int /\ n + Half \in 0 .. (w - 1)
    BY <1>2 DEF I64
  <2>2. (n + Half) % w = n + Half
    BY <1>2, <2>1
  <2>. QED  BY <1>1, <1>2, <2>1, <2>2 DEF Wrapped
<1>. QED  BY <1>3, <1>4

LEMMA SplitType ==
    ASSUME NEW c \in Int, NEW ws \in Seq(Nat)
    PROVE  Split(c, ws) \in Seq(I64)
<1>0. Half \in Nat \ {0}
  BY MoneyAssumption
<1>1. CASE Total(ws) = 0
  BY <1>1 DEF Split
<1>2. CASE Total(ws) # 0
  <2>1. Splits(c, ws)
    BY <1>2 DEF Splits
  <2>2. PICK share : share = [i \in 1 .. Len(ws) |->
             SaturatingAdd(Wrapped(Wrapped(Quotient(c, ws, i)) * Sign(c)),
                           Sign(c) * Cardinality(Turns(c, ws, i)))]
    OBVIOUS
  <2>3. ASSUME NEW i \in 1 .. Len(ws)
        PROVE  share[i] \in I64
    <3>1. PICK x, y, z : /\ x = Wrapped(Quotient(c, ws, i)) /\ y = Wrapped(x * Sign(c))
                         /\ z = Sign(c) * Cardinality(Turns(c, ws, i))
      OBVIOUS
    <3>2. Quotient(c, ws, i) \in Int
      BY <2>1, Parts
    <3>3. Cardinality(Turns(c, ws, i)) \in {0, 1}
      BY <2>1, ExtraCents
    <3>4. x \in I64 /\ x \in Int
      BY <3>1, <3>2, <1>0, WrappedI64 DEF I64
    <3>5. x * Sign(c) \in Int /\ z \in Int
      BY <3>1, <3>3, <3>4 DEF Sign
    <3>6. y \in I64
      BY <3>1, <3>5, WrappedI64
    <3>7. share[i] = SaturatingAdd(y, z)
      BY <2>2, <3>1
    <3>. QED  BY <1>0, <3>5, <3>6, <3>7 DEF SaturatingAdd, I64
  <2>4. share \in [1 .. Len(ws) -> I64] /\ Len(ws) \in Nat
    BY <2>2, <2>3
  <2>5. share \in Seq(I64)
    BY <2>4
  <2>. QED  BY <1>2, <2>2, <2>5 DEF Split
<1>. QED  BY <1>1, <1>2

\* No share grows past the amount: a quotient that is all of it leaves no
\* remainder, and without one there is no cent left over.
LEMMA ShareWithinAmount ==
    ASSUME NEW c, NEW ws, Splits(c, ws), NEW i \in 1 .. Len(ws)
    PROVE  Quotient(c, ws, i) + Cardinality(Turns(c, ws, i)) <= Abs(c)
<1>1. PICK q, e, r, a, t, w :
          /\ q = Quotient(c, ws, i) /\ e = Cardinality(Turns(c, ws, i))
          /\ r = Remainder(c, ws, i) /\ a = Abs(c) /\ t = Total(ws) /\ w = ws[i]
  OBVIOUS
<1>2. /\ a \in Nat /\ t \in Nat \ {0} /\ w \in 0 .. t /\ q \in 0 .. a /\ r \in 0 .. (t - 1)
      /\ a * w = t * q + r
  BY <1>1, Parts
<1>3. e \in {0, 1} /\ (e = 1 => r > 0)
  BY <1>1, ExtraCents
<1>4. r > 0 => q # a
  <2>. SUFFICES ASSUME r > 0, q = a PROVE FALSE
    OBVIOUS
  <2>1. a * w <= a * t /\ a * t = t * a /\ t * a \in Int
    BY <1>2, Products
  <2>2. a * w = t * a + r
    BY <1>2
  <2>. QED  BY <1>2, <2>1, <2>2
<1>5. q + e <= a
  BY <1>2, <1>3, <1>4
<1>. QED  BY <1>1, <1>5

LEMMA WrappedHalf == Wrapped(Half) = -Half
<1>1. PICK w : w = 2 * Half
  OBVIOUS
<1>2. Half \in Nat \ {0} /\ w \in Nat \ {0} /\ w = Half + Half
  BY <1>1, MoneyAssumption
<1>3. (Half + Half) % w = 0
  BY <1>2
<1>. QED  BY <1>1, <1>2, <1>3 DEF Wrapped

\* Nothing saturates, and what wraps wraps back: a share is its quotient with the
\* cent that is left over for it, if any, of the smallest i64 as well.
LEMMA ShareValue ==
    ASSUME NEW c \in I64, NEW ws, Splits(c, ws)
    PROVE  /\ Split(c, ws) \in [1 .. Len(ws) -> Int]
           /\ \A i \in 1 .. Len(ws) :
                 Split(c, ws)[i] = Sign(c) * (Quotient(c, ws, i) + Cardinality(Turns(c, ws, i)))
<1>0. Half \in Nat \ {0}
  BY MoneyAssumption
<1>1. PICK share : share = [i \in 1 .. Len(ws) |->
             SaturatingAdd(Wrapped(Wrapped(Quotient(c, ws, i)) * Sign(c)),
                           Sign(c) * Cardinality(Turns(c, ws, i)))]
  OBVIOUS
<1>2. ASSUME NEW i \in 1 .. Len(ws)
      PROVE  /\ share[i] = Sign(c) * (Quotient(c, ws, i) + Cardinality(Turns(c, ws, i)))
             /\ share[i] \in Int
  <2>1. PICK q, e, s : /\ q = Quotient(c, ws, i) /\ e = Cardinality(Turns(c, ws, i))
                       /\ s = Sign(c)
    OBVIOUS
  <2>2. q \in 0 .. Abs(c) /\ Abs(c) \in Nat /\ q \in Nat
    BY <2>1, Parts
  <2>3. e \in {0, 1}
    BY <2>1, ExtraCents
  <2>4. q + e <= Abs(c)
    BY <2>1, ShareWithinAmount
  <2>5. share[i] = SaturatingAdd(Wrapped(Wrapped(q) * s), s * e)
    BY <1>1, <2>1
  <2>6. CASE c >= 0
    <3>1. s = 1 /\ q + e < Half
      BY <1>0, <2>1, <2>2, <2>3, <2>4, <2>6 DEF Sign, Abs, I64
    <3>2. q \in I64 /\ q * s = q
      BY <1>0, <2>2, <2>3, <3>1 DEF I64
    <3>3. Wrapped(Wrapped(q) * s) = q
      BY <3>2, WrappedI64
    <3>4. SaturatingAdd(q, s * e) = q + e /\ s * (q + e) = q + e
      BY <1>0, <2>2, <2>3, <3>1 DEF SaturatingAdd
    <3>. QED  BY <2>1, <2>2, <2>3, <2>5, <3>3, <3>4
  <2>7. CASE c < 0
    <3>1. s = -1 /\ q + e <= Half
      BY <1>0, <2>1, <2>2, <2>3, <2>4, <2>7 DEF Sign, Abs, I64
    <3>2. Wrapped(Wrapped(q) * s) = -q
      <4>1. CASE q < Half
        <5>1. q \in I64 /\ -q \in I64 /\ q * s = -q
          BY <1>0, <2>2, <3>1, <4>1 DEF I64
        <5>. QED  BY <5>1, WrappedI64
      <4>2. CASE q = Half
        <5>1. Wrapped(q) * s = Half
          BY <1>0, <3>1, <4>2, WrappedHalf
        <5>. QED  BY <4>2, <5>1, WrappedHalf
      <4>. QED  BY <1>0, <2>2, <2>3, <3>1, <4>1, <4>2
    <3>3. SaturatingAdd(-q, s * e) = -q - e /\ s * (q + e) = -q - e
      BY <1>0, <2>2, <2>3, <3>1 DEF SaturatingAdd
    <3>. QED  BY <2>1, <2>2, <2>3, <2>5, <3>2, <3>3
  <2>8. c \in Int
    BY DEF Splits
  <2>. QED  BY <2>6, <2>7, <2>8
<1>3. Split(c, ws) = share
  BY <1>1 DEF Split, Splits
<1>4. share \in [1 .. Len(ws) -> Int]
  BY <1>1, <1>2
<1>. QED  BY <1>2, <1>3, <1>4

\* The shares of a split, as SplitExact has them.
LEMMA SplitIsExact ==
    ASSUME NEW c \in I64, NEW ws, Splits(c, ws)
    PROVE  /\ Len(Split(c, ws)) = Len(ws)
           /\ Total(Split(c, ws)) = c
           /\ \A i \in 1 .. Len(ws) :
                 /\ Abs(Split(c, ws)[i] * Total(ws) - c * ws[i]) < Total(ws)
                 /\ ws[i] = 0 => Split(c, ws)[i] = 0
                 /\ \A j \in 1 .. Len(ws) :
                       ws[i] < ws[j] => Abs(Split(c, ws)[i]) <= Abs(Split(c, ws)[j])
<1>1. PICK n, a, t, s, R, share :
          /\ n = Len(ws) /\ a = Abs(c) /\ t = Total(ws) /\ s = Sign(c)
          /\ R = Residue(c, ws) /\ share = Split(c, ws)
  OBVIOUS
<1>2. PICK q, e, r, place :
          /\ q = [i \in 1 .. n |-> Quotient(c, ws, i)]
          /\ e = [i \in 1 .. n |-> Cardinality(Turns(c, ws, i))]
          /\ r = [i \in 1 .. n |-> Remainder(c, ws, i)]
          /\ place = [i \in 1 .. n |-> Place(c, ws, i)]
  OBVIOUS
<1>3. /\ n \in Nat \ {0} /\ a \in Nat /\ t \in Nat \ {0} /\ c \in Int /\ c = s * a
      /\ s \in {-1, 1} /\ R \in Nat /\ R <= n
  <2>1. c \in Int /\ s \in {-1, 1} /\ c = s * a
    BY <1>1 DEF Splits, Sign, Abs
  <2>. QED  BY <1>1, <2>1, Parts, ResidueOfParts
<1>4. \A i \in 1 .. n :
         /\ ws[i] \in 0 .. t /\ q[i] \in 0 .. a /\ r[i] \in 0 .. (t - 1)
         /\ a * ws[i] = t * q[i] + r[i]
  BY <1>1, <1>2, Parts
<1>5. \A i \in 1 .. n :
         /\ place[i] \in 0 .. (n - 1)
         /\ e[i] = IF place[i] < R THEN 1 ELSE 0
         /\ place[i] < R => r[i] > 0
  BY <1>1, <1>2, ExtraCents, PlacesInOrder
<1>6. share \in [1 .. n -> Int] /\ \A i \in 1 .. n : share[i] = s * (q[i] + e[i])
  BY <1>1, <1>2, ShareValue
<1>7. Len(share) = n
  BY <1>3, <1>6
<1>8. Total(share) = c
  <2>1. SumTo(e, n) = R
    <3>1. \A i \in 1 .. n : e[i] \in {0, 1}
      BY <1>5
    <3>2. SumTo(e, n) = Cardinality({i \in 1 .. n : e[i] = 1})
      BY <1>3, <3>1, SumOfOnes
    <3>3. {i \in 1 .. n : e[i] = 1} = {i \in 1 .. n : Place(c, ws, i) < R}
      BY <1>2, <1>5
    <3>4. Cardinality({i \in 1 .. n : Place(c, ws, i) < R}) = R
      BY <1>1, <1>3, PlacesTaken
    <3>. QED  BY <3>2, <3>3, <3>4
  <2>2. SumTo(share, n) = s * (SumTo(q, n) + SumTo(e, n))
    <3>1. \A i \in 1 .. n : q[i] \in Int /\ e[i] \in Int /\ share[i] = s * (q[i] + e[i])
      BY <1>4, <1>5, <1>6
    <3>. QED  BY <1>3, <3>1, SumOfSums
  <2>3. R = a - SumTo(q, n)
    BY <1>1, <1>2 DEF Residue
  <2>4. SumTo(q, n) \in Int
    <3>1. \A i \in 1 .. n : q[i] \in Int
      BY <1>4
    <3>. QED  BY <1>3, <3>1, SumType
  <2>5. SumTo(q, n) + R = a
    BY <1>3, <2>3, <2>4
  <2>6. Total(share) = SumTo(share, n)
    BY <1>7 DEF Total
  <2>. QED  BY <1>3, <2>1, <2>2, <2>5, <2>6
<1>9. ASSUME NEW i \in 1 .. n
      PROVE  Abs(share[i] * t - c * ws[i]) < t
  <2>1. PICK x, y, z, w : x = q[i] /\ y = e[i] /\ z = r[i] /\ w = ws[i]
    OBVIOUS
  <2>2. /\ x \in Nat /\ y \in {0, 1} /\ z \in 0 .. (t - 1) /\ w \in Nat
        /\ y = 1 => z > 0
        /\ a * w = t * x + z
    BY <1>3, <1>4, <1>5, <2>1
  <2>3. share[i] * t = s * (t * x) + s * (t * y)
    <3>1. share[i] = s * (x + y)
      BY <1>6, <2>1
    <3>2. t * (x + y) = t * x + t * y /\ t * (x + y) = (x + y) * t /\ t * x \in Int /\ t * y \in Int
      BY <1>3, <2>2, Products
    <3>3. CASE s = 1
      BY <1>3, <2>2, <3>1, <3>2, <3>3
    <3>4. CASE s = -1
      <4>1. (-(x + y)) * t = -((x + y) * t)
        BY <1>3, <2>2
      <4>. QED  BY <2>2, <3>1, <3>2, <3>4, <4>1
    <3>. QED  BY <1>3, <3>3, <3>4
  <2>4. c * w = s * (t * x) + s * z
    <3>1. t * x \in Int /\ a * w \in Int
      BY <1>3, <2>2, Products
    <3>2. CASE s = 1
      BY <1>3, <2>2, <3>1, <3>2
    <3>3. CASE s = -1
      <4>1. (-a) * w = -(a * w)
        BY <1>3, <2>2
      <4>. QED  BY <1>3, <2>2, <3>1, <3>3, <4>1
    <3>. QED  BY <1>3, <3>2, <3>3
  <2>5. PICK p : p = t * x
    OBVIOUS
  <2>6. p \in Int
    BY <1>3, <2>2, <2>5, Products
  <2>7. share[i] * t - c * w = s * (t * y) - s * z
    <3>1. CASE y = 0
      BY <1>3, <2>2, <2>3, <2>4, <2>5, <2>6, <3>1
    <3>2. CASE y = 1
      BY <1>3, <2>2, <2>3, <2>4, <2>5, <2>6, <3>2
    <3>. QED  BY <2>2, <3>1, <3>2
  <2>8. CASE y = 0
    BY <1>3, <2>1, <2>2, <2>7, <2>8 DEF Abs
  <2>9. CASE y = 1
    BY <1>3, <2>1, <2>2, <2>7, <2>9 DEF Abs
  <2>. QED  BY <2>2, <2>8, <2>9
<1>10. ASSUME NEW i \in 1 .. n, ws[i] = 0
       PROVE  share[i] = 0
  <2>1. 0 = t * q[i] + r[i]
    BY <1>3, <1>4, <1>10
  <2>2. q[i] \in Nat /\ r[i] \in Nat /\ t * q[i] \in Nat
    BY <1>3, <1>4, Products
  <2>3. r[i] = 0 /\ t * q[i] = 0
    BY <2>1, <2>2
  <2>4. q[i] = 0
    <3>1. t * q[i] <= t * 0
      BY <1>3, <2>3
    <3>2. q[i] <= 0
      BY <1>3, <2>2, <3>1, Products
    <3>. QED  BY <2>2, <3>2
  <2>5. e[i] = 0
    BY <1>5, <2>3
  <2>. QED  BY <1>3, <1>6, <2>4, <2>5
<1>11. ASSUME NEW i \in 1 .. n, NEW j \in 1 .. n, ws[i] < ws[j]
       PROVE  Abs(share[i]) <= Abs(share[j])
  <2>1. \A k \in 1 .. n : q[k] \in Nat /\ e[k] \in {0, 1} /\ q[k] + e[k] \in Nat
    BY <1>4, <1>5
  <2>2. \A k \in 1 .. n : Abs(share[k]) = q[k] + e[k]
    <3>1. ASSUME NEW k \in 1 .. n PROVE Abs(share[k]) = q[k] + e[k]
      <4>1. q[k] + e[k] \in Nat /\ share[k] = s * (q[k] + e[k])
        BY <1>6, <2>1
      <4>. QED  BY <1>3, <4>1 DEF Abs
    <3>. QED  BY <3>1
  <2>3. PICK x, y, u, v, f, g :
            /\ x = q[i] /\ y = q[j] /\ u = r[i] /\ v = r[j] /\ f = e[i] /\ g = e[j]
    OBVIOUS
  <2>4. /\ x \in Nat /\ y \in Nat /\ u \in 0 .. (t - 1) /\ v \in 0 .. (t - 1)
        /\ f \in {0, 1} /\ g \in {0, 1}
        /\ a * ws[i] = t * x + u /\ a * ws[j] = t * y + v
    BY <1>3, <1>4, <2>1, <2>3
  <2>4a. Abs(share[i]) = x + f /\ Abs(share[j]) = y + g
    BY <2>2, <2>3
  <2>4b. /\ place[i] \in 0 .. (n - 1) /\ place[j] \in 0 .. (n - 1)
         /\ f = (IF place[i] < R THEN 1 ELSE 0) /\ g = (IF place[j] < R THEN 1 ELSE 0)
         /\ place[i] < R => u > 0
    BY <1>5, <2>3
  <2>5. a * ws[i] <= a * ws[j]
    <3>1. ws[i] \in Int /\ ws[j] \in Int /\ ws[i] <= ws[j]
      BY <1>4, <1>11
    <3>. QED  BY <1>3, <3>1, Products
  <2>6. x <= y
    <3>. SUFFICES ASSUME ~(x <= y) PROVE FALSE
      OBVIOUS
    <3>1. y + 1 <= x
      BY <2>4
    <3>2. t * (y + 1) <= t * x
      BY <1>3, <2>4, <3>1, Products
    <3>3. t * (y + 1) = t * y + t /\ t * y \in Int /\ t * x \in Int
      BY <1>3, <2>4, Products
    <3>. QED  BY <1>3, <2>4, <2>5, <3>2, <3>3
  <2>7. CASE x < y
    BY <2>4, <2>4a, <2>7
  <2>8. CASE x = y
    <3>1. CASE f = 0
      BY <2>4, <2>4a, <2>8, <3>1
    <3>2. CASE f = 1
      <4>1. place[i] < R /\ place[i] \in Nat /\ place[j] \in Nat
        BY <2>4b, <3>2
      <4>2. a # 0
        <5>. SUFFICES ASSUME a = 0 PROVE FALSE
          OBVIOUS
        <5>1. t * x + u = 0 /\ t * x \in Nat
          BY <1>3, <1>4, <2>4, Products
        <5>2. u = 0
          BY <2>4, <5>1
        <5>. QED  BY <2>4b, <4>1, <5>2
      <4>3. u < v
        <5>1. a * ws[i] < a * ws[j]
          <6>1. PICK d : d = ws[j] - ws[i]
            OBVIOUS
          <6>2. ws[i] \in Nat /\ ws[j] \in Nat /\ d \in Nat /\ 1 <= d /\ ws[j] = ws[i] + d
            BY <1>4, <1>11, <6>1
          <6>3. a * (ws[i] + d) = a * ws[i] + a * d /\ a * 1 <= a * d
            BY <1>3, <6>2, Products
          <6>4. a * ws[i] \in Int /\ a * d \in Int
            BY <1>3, <6>2, Products
          <6>. QED  BY <1>3, <4>2, <6>2, <6>3, <6>4
        <5>2. t * x \in Int
          BY <1>3, <2>4, Products
        <5>. QED  BY <2>4, <2>8, <5>1, <5>2
      <4>4. Before(c, ws, j, i)
        <5>1. Remainder(c, ws, j) = v /\ Remainder(c, ws, i) = u
          BY <1>2, <2>3
        <5>. QED  BY <2>4, <4>3, <5>1 DEF Before
      <4>5. place[j] < place[i]
        BY <1>1, <1>2, <4>4, PlacesInOrder
      <4>6. place[j] < R
        BY <1>3, <4>1, <4>5
      <4>7. g = 1
        BY <2>4b, <4>6
      <4>. QED  BY <2>4, <2>4a, <2>8, <3>2, <4>7
    <3>. QED  BY <2>4, <3>1, <3>2
  <2>. QED  BY <2>4, <2>6, <2>7, <2>8
<1>. QED  BY <1>1, <1>7, <1>8, <1>9, <1>10, <1>11

-----------------------------------------------------------------------------
\* What the caller holds is a Money, and the shares are those of its last split.
MoneyInv ==
    /\ MoneyTypeOK
    /\ shares # <<>> => shares = Split(amount.cents, weights)

LEMMA MoneyInitially == MoneyInit => MoneyInv
<1>. SUFFICES ASSUME MoneyInit PROVE MoneyInv
  OBVIOUS
<1>1. PICK currency \in Currencies : amount = [cents |-> 0, currency |-> currency]
  BY DEF MoneyInit
<1>2. 0 \in I64
  BY MoneyAssumption DEF I64
<1>. QED  BY <1>1, <1>2 DEF MoneyInit, MoneyInv, MoneyTypeOK, MoneyValues

\* An operation answers an error or a Money.
LEMMA CheckedType ==
    ASSUME NEW result, NEW currency \in Currencies, Checked(result, currency) # Error
    PROVE  Checked(result, currency) \in MoneyValues
BY DEF Checked, NewMoney, MoneyValues

LEMMA MoneyNextKeeps == MoneyInv /\ [MoneyNext]_moneyVars => MoneyInv'
<1>. SUFFICES ASSUME MoneyInv, [MoneyNext]_moneyVars PROVE MoneyInv'
  OBVIOUS
<1>1. amount.currency \in Currencies /\ amount.cents \in I64 /\ amount.cents \in Int
  BY MoneyAssumption DEF MoneyInv, MoneyTypeOK, MoneyValues, I64
<1>2. CASE UNCHANGED moneyVars
  BY <1>2 DEF moneyVars, MoneyInv, MoneyTypeOK
<1>3. ASSUME NEW result, result # Error => result \in MoneyValues, Becomes(result)
      PROVE  MoneyInv'
  BY <1>3 DEF Becomes, MoneyInv, MoneyTypeOK
<1>4. CASE Make
  <2>1. PICK m \in Operand : Becomes(m)
    BY <1>4 DEF Make
  <2>2. m \in MoneyValues
    BY DEF Operand, NewMoney, MoneyValues
  <2>. QED  BY <1>3, <2>1, <2>2
<1>5. CASE Add
  <2>1. PICK rhs \in Operand : Becomes(CheckedAdd(amount, rhs))
    BY <1>5 DEF Add
  <2>2. CheckedAdd(amount, rhs) # Error => CheckedAdd(amount, rhs) \in MoneyValues
    BY <1>1, CheckedType DEF CheckedAdd
  <2>. QED  BY <1>3, <2>1, <2>2
<1>6. CASE Sub
  <2>1. PICK rhs \in Operand : Becomes(CheckedSub(amount, rhs))
    BY <1>6 DEF Sub
  <2>2. CheckedSub(amount, rhs) # Error => CheckedSub(amount, rhs) \in MoneyValues
    BY <1>1, CheckedType DEF CheckedSub
  <2>. QED  BY <1>3, <2>1, <2>2
<1>7. CASE Mul
  <2>1. PICK by \in I64 : Becomes(CheckedMul(amount, by))
    BY <1>7 DEF Mul
  <2>2. CheckedMul(amount, by) # Error => CheckedMul(amount, by) \in MoneyValues
    BY <1>1, CheckedType DEF CheckedMul
  <2>. QED  BY <1>3, <2>1, <2>2
<1>8. CASE Div
  <2>1. PICK divisor \in I64 : Becomes(CheckedDiv(amount, divisor))
    BY <1>8 DEF Div
  <2>2. CheckedDiv(amount, divisor) # Error => CheckedDiv(amount, divisor) \in MoneyValues
    BY <1>1, CheckedType DEF CheckedDiv
  <2>. QED  BY <1>3, <2>1, <2>2
<1>9. CASE SplitUp
  <2>1. PICK ws \in Weights :
           weights' = ws /\ shares' = Split(amount.cents, ws) /\ amount' = amount
    BY <1>9 DEF SplitUp
  <2>2. ws \in Seq(0 .. MaxWeight)
    <3>1. PICK few : few = 0 .. MaxWeight
      OBVIOUS
    <3>2. PICK n \in 0 .. MaxShares : ws \in [1 .. n -> few]
      BY <2>1, <3>1 DEF Weights
    <3>3. n \in Nat
      BY MoneyAssumption
    <3>4. ws \in Seq(few)
      BY <3>2, <3>3
    <3>. QED  BY <3>1, <3>4
  <2>3. ws \in Seq(Nat)
    BY <2>2, MoneyAssumption
  <2>4. Split(amount.cents, ws) \in Seq(I64)
    BY <1>1, <2>3, SplitType
  <2>. QED  BY <2>1, <2>2, <2>4 DEF MoneyInv, MoneyTypeOK
<1>. QED  BY <1>2, <1>4, <1>5, <1>6, <1>7, <1>8, <1>9 DEF MoneyNext

LEMMA MoneyInvExact == MoneyInv => SplitExact
<1>. SUFFICES ASSUME MoneyInv, shares # <<>>
              PROVE  SplitExact
  BY DEF SplitExact
<1>1. PICK c, ws : c = amount.cents /\ ws = weights
  OBVIOUS
<1>2. shares = Split(c, ws)
  BY <1>1 DEF MoneyInv
<1>3. c \in I64 /\ c \in Int /\ ws \in Seq(Nat)
  BY <1>1, MoneyAssumption DEF MoneyInv, MoneyTypeOK, MoneyValues, I64
<1>4. Total(ws) # 0
  BY <1>2 DEF Split
<1>5. Splits(c, ws)
  BY <1>3, <1>4 DEF Splits
<1>6. /\ Len(shares) = Len(ws)
      /\ Total(shares) = c
      /\ \A i \in 1 .. Len(ws) :
            /\ Abs(shares[i] * Total(ws) - c * ws[i]) < Total(ws)
            /\ ws[i] = 0 => shares[i] = 0
            /\ \A j \in 1 .. Len(ws) : ws[i] < ws[j] => Abs(shares[i]) <= Abs(shares[j])
  BY <1>2, <1>3, <1>5, SplitIsExact
<1>. QED  BY <1>1, <1>6 DEF SplitExact

\* A split hands out every cent and no more, in proportion (split_proportional),
\* for i64s of any width, any weights and any amounts the checked operations lead
\* to, the smallest i64 among them.
THEOREM EveryCentSplit == MoneySpec => []SplitExact
BY MoneyInitially, MoneyNextKeeps, MoneyInvExact, PTL DEF MoneySpec

-----------------------------------------------------------------------------
(* Subscription: what a subscriber has seen has no gap, for any log, batch *)
(* and channel.                                                            *)

-----------------------------------------------------------------------------
(* The inductive invariant is about what was sent, taken or still in the   *)
(* channel: while the stream is open it holds every row up to the mark     *)
(* that decodes, and between the mark and the batch every row is damaged.  *)

Sent == received \o channel

EverySentTo(s, m) ==
    \A p \in FromPosition + 1 .. m : rows[p] = "event" => \E j \in DOMAIN s : s[j] = p

BatchFrom(h) ==
    /\ mark < h /\ h + Len(batch) - 1 <= Len(rows)
    /\ \A i \in 1..Len(batch) : batch[i] = h + i - 1
    /\ \A p \in mark + 1 .. h - 1 : rows[p] # "event"

BatchFollows == batch # <<>> => \E h \in Nat : BatchFrom(h)

SubIInv ==
    /\ SubTypeOK /\ Len(rows) <= MaxRows
    /\ mark \in FromPosition .. MaxRows
    /\ BatchFollows
    /\ WithoutGap(Sent)
    /\ \A i \in DOMAIN Sent : Sent[i] <= mark
    /\ stream = "open" => mark <= Len(rows) \/ mark = FromPosition
    /\ stream = "open" => EverySentTo(Sent, mark)
    /\ stream # "open" => channel = <<>>

\* Appending behind a concatenation, and moving a head over, change no order.
LEMMA AppendBehind ==
    ASSUME NEW S, NEW s \in Seq(S), NEW t \in Seq(S), NEW x \in S
    PROVE  s \o Append(t, x) = Append(s \o t, x)
<1>1. <<x>> \in Seq(S) /\ s \o t \in Seq(S)
  BY ConcatProperties
<1>2. Append(t, x) = t \o <<x>> /\ Append(s \o t, x) = (s \o t) \o <<x>>
  BY <1>1, AppendIsConcat
<1>. QED  BY <1>1, <1>2, ConcatAssociative

LEMMA HeadMovesOver ==
    ASSUME NEW S, NEW s \in Seq(S), NEW t \in Seq(S), t # <<>>
    PROVE  Append(s, Head(t)) \o Tail(t) = s \o t
<1>. DEFINE x == Head(t)
<1>1. x \in S /\ Tail(t) \in Seq(S) /\ <<x>> \in Seq(S)
  BY HeadTailProperties
<1>2. <<x>> \o Tail(t) = t
  OBVIOUS
<1>. HIDE DEF x
<1>3. Append(s, x) = s \o <<x>>
  BY <1>1, AppendIsConcat
<1>4. (s \o <<x>>) \o Tail(t) = s \o (<<x>> \o Tail(t))
  BY <1>1, ConcatAssociative
<1>. QED  BY <1>2, <1>3, <1>4 DEF x

\* What is without a gap stays so when its end is cut off.
LEMMA PrefixWithoutGap ==
    ASSUME NEW s \in Seq(Nat), NEW t \in Seq(Nat), WithoutGap(s \o t)
    PROVE  WithoutGap(s)
<1>1. /\ s \o t \in Seq(Nat) /\ Len(s \o t) = Len(s) + Len(t)
      /\ \A i \in 1..Len(s) : (s \o t)[i] = s[i]
      /\ DOMAIN s = 1..Len(s) /\ DOMAIN (s \o t) = 1..(Len(s) + Len(t))
      /\ Len(s) \in Nat /\ Len(t) \in Nat
  BY ConcatProperties, LenProperties
<1>2. \A i \in DOMAIN s : i \in DOMAIN (s \o t) /\ 1..i \subseteq 1..Len(s)
  BY <1>1
<1>3. ASSUME NEW i \in DOMAIN s, NEW p \in FromPosition + 1 .. s[i]
      PROVE  rows[p] = "event" <=> \E j \in 1..i : s[j] = p
  <2>1. rows[p] = "event" <=> \E j \in 1..i : (s \o t)[j] = p
    BY <1>1, <1>2 DEF WithoutGap
  <2>2. \A j \in 1..i : (s \o t)[j] = s[j]
    BY <1>1, <1>2
  <2>. QED  BY <2>1, <2>2
<1>. QED  BY <1>1, <1>2, <1>3 DEF WithoutGap

\* The next row that decodes closes the gap to the mark.
LEMMA NextWithoutGap ==
    ASSUME NEW s \in Seq(Nat), WithoutGap(s), NEW m \in Nat, NEW h \in Nat,
           FromPosition <= m, m < h, h <= Len(rows), Len(rows) \in Nat, rows[h] = "event",
           \A p \in m + 1 .. h - 1 : rows[p] # "event",
           \A i \in DOMAIN s : s[i] <= m, EverySentTo(s, m)
    PROVE  /\ WithoutGap(Append(s, h)) /\ EverySentTo(Append(s, h), h)
           /\ \A i \in DOMAIN Append(s, h) : Append(s, h)[i] <= h
<1>. DEFINE t == Append(s, h)
<1>0. FromPosition \in Nat /\ Len(s) \in Nat /\ DOMAIN s = 1..Len(s)
  BY SubscriptionAssumption, LenProperties
<1>1. /\ DOMAIN t = 1 .. Len(s) + 1 /\ t[Len(s) + 1] = h
      /\ \A i \in 1..Len(s) : t[i] = s[i] /\ s[i] \in Nat
  BY AppendProperties, LenProperties, ElementOfSeq
<1>2. EverySentTo(t, h)
  <2>. SUFFICES ASSUME NEW p \in FromPosition + 1 .. h, rows[p] = "event"
                PROVE  \E j \in DOMAIN t : t[j] = p
    BY DEF EverySentTo
  <2>1. CASE p <= m
    <3>1. PICK j \in DOMAIN s : s[j] = p
      BY <2>1, <1>0 DEF EverySentTo
    <3>. QED  BY <3>1, <1>0, <1>1
  <2>2. CASE p > m
    <3>1. p = h
      BY <2>2, <1>0
    <3>. QED  BY <3>1, <1>0, <1>1
  <2>. QED  BY <2>1, <2>2, <1>0
<1>3. \A i \in DOMAIN t : t[i] \in FromPosition + 1 .. Len(rows) /\ t[i] <= h
  BY <1>0, <1>1 DEF WithoutGap
<1>4. \A i, j \in DOMAIN t : i < j => t[i] < t[j]
  <2>. SUFFICES ASSUME NEW i \in DOMAIN t, NEW j \in DOMAIN t, i < j
                PROVE  t[i] < t[j]
    OBVIOUS
  <2>1. i \in 1..Len(s) /\ (j \in 1..Len(s) \/ j = Len(s) + 1)
    BY <1>0, <1>1
  <2>2. CASE j \in 1..Len(s)
    BY <2>1, <2>2, <1>0, <1>1 DEF WithoutGap
  <2>3. CASE j = Len(s) + 1
    <3>1. t[i] <= m /\ t[i] \in Nat /\ t[j] = h
      BY <2>1, <2>3, <1>0, <1>1
    <3>. QED  BY <3>1
  <2>. QED  BY <2>1, <2>2, <2>3
<1>5. ASSUME NEW i \in DOMAIN t, NEW p \in FromPosition + 1 .. t[i]
      PROVE  rows[p] = "event" <=> \E j \in 1..i : t[j] = p
  <2>1. CASE i \in 1..Len(s)
    <3>1. rows[p] = "event" <=> \E j \in 1..i : s[j] = p
      BY <2>1, <1>0, <1>1 DEF WithoutGap
    <3>2. \A j \in 1..i : t[j] = s[j]
      BY <2>1, <1>0, <1>1
    <3>. QED  BY <3>1, <3>2
  <2>2. CASE i = Len(s) + 1
    <3>1. p \in FromPosition + 1 .. h /\ DOMAIN t = 1..i
      BY <2>2, <1>1
    <3>2. rows[p] = "event" => \E j \in 1..i : t[j] = p
      BY <3>1, <1>2 DEF EverySentTo
    <3>3. ASSUME NEW j \in 1..i, t[j] = p
          PROVE  rows[p] = "event"
      <4>1. CASE j = i
        BY <4>1, <2>2, <1>1, <3>3
      <4>2. CASE j # i
        <5>1. j \in 1..Len(s) /\ s[j] = p /\ j \in 1..j /\ p \in FromPosition + 1 .. s[j]
          BY <4>2, <2>2, <3>1, <3>3, <1>0, <1>1 DEF WithoutGap
        <5>. QED  BY <5>1, <1>0 DEF WithoutGap
      <4>. QED  BY <4>1, <4>2
    <3>. QED  BY <3>2, <3>3
  <2>. QED  BY <2>1, <2>2, <1>0, <1>1
<1>. QED  BY <1>2, <1>3, <1>4, <1>5 DEF WithoutGap

LEMMA SubInitHolds ==
    ASSUME SubInit
    PROVE  SubIInv
<1>1. Sent = <<>> /\ DOMAIN Sent = {}
  BY ConcatEmptySeq, EmptySeq DEF SubInit, Sent
<1>2. SubTypeOK /\ Len(rows) <= MaxRows /\ mark = FromPosition /\ mark \in FromPosition..MaxRows
  BY SubscriptionAssumption DEF SubInit, SubTypeOK
<1>. QED  BY <1>1, <1>2, SubscriptionAssumption
          DEF SubInit, SubIInv, BatchFollows, WithoutGap, EverySentTo

SubTyped ==
    /\ received \in Seq(Nat) /\ channel \in Seq(Nat) /\ Sent \in Seq(Nat)
    /\ batch \in Seq(1..MaxRows) /\ Len(batch) \in Nat
    /\ rows \in Seq({"event", "damaged"}) /\ Len(rows) \in Nat /\ DOMAIN rows = 1..Len(rows)
    /\ mark \in Nat /\ MaxRows \in Nat /\ FromPosition \in Nat /\ Capacity \in Nat
    /\ FromPosition <= mark /\ mark <= MaxRows
    /\ Len(Sent) \in Nat /\ DOMAIN Sent = 1..Len(Sent)
    /\ \A i \in 1..Len(Sent) : Sent[i] \in Nat

LEMMA SubTypes ==
    ASSUME SubIInv
    PROVE  SubTyped
<1>1. 1..MaxRows \subseteq Nat
  BY SubscriptionAssumption
<1>2. received \in Seq(Nat) /\ channel \in Seq(Nat)
  BY <1>1, SeqMonotonic DEF SubIInv, SubTypeOK
<1>3. Sent \in Seq(Nat)
  BY <1>2, ConcatProperties DEF Sent
<1>4. \A i \in 1..Len(Sent) : Sent[i] \in Nat
  BY <1>3, ElementOfSeq
<1>. QED  BY <1>2, <1>3, <1>4, LenProperties, SubscriptionAssumption
          DEF SubTyped, SubIInv, SubTypeOK

\* Longer logs change nothing about the rows that were there.
LEMMA AppendRowKeeps ==
    ASSUME SubIInv, NEW kind \in {"event", "damaged"}, AppendRow(kind)
    PROVE  SubIInv'
<1>0. SubTyped
  BY SubTypes
<1>. USE <1>0 DEF SubTyped
<1>1. UNCHANGED <<mark, batch, channel, received, stream>> /\ Sent' = Sent
  BY DEF AppendRow, Sent
<1>2. /\ rows' \in Seq({"event", "damaged"}) /\ Len(rows') = Len(rows) + 1 /\ Len(rows') <= MaxRows
      /\ \A p \in 1..Len(rows) : rows'[p] = rows[p]
  BY AppendProperties DEF AppendRow
<1>3. SubTypeOK' /\ (Len(rows) <= MaxRows)' /\ (mark \in FromPosition .. MaxRows)'
  BY <1>1, <1>2 DEF SubIInv, SubTypeOK
<1>4. BatchFollows'
  <2>. SUFFICES ASSUME batch # <<>>
                PROVE  \E h \in Nat : BatchFrom(h)'
    BY <1>1 DEF BatchFollows
  <2>1. PICK h \in Nat : BatchFrom(h)
    BY DEF SubIInv, BatchFollows
  <2>2. Len(batch) \in Nat \ {0}
    BY EmptySeq
  <2>3. \A p \in mark + 1 .. h - 1 : rows'[p] = rows[p]
    BY <2>1, <2>2, <1>2 DEF BatchFrom
  <2>4. BatchFrom(h)'
    <3>1. \A p \in mark + 1 .. h - 1 : rows'[p] # "event"
      BY <2>1, <2>3 DEF BatchFrom
    <3>2. mark < h /\ h + Len(batch) - 1 <= Len(rows')
      BY <2>1, <2>2, <1>2 DEF BatchFrom
    <3>. QED  BY <3>1, <3>2, <2>1, <1>1 DEF BatchFrom
  <2>. QED  BY <2>4
<1>5. WithoutGap(Sent)'
  <2>1. \A i \in DOMAIN Sent : \A p \in FromPosition + 1 .. Sent[i] : rows'[p] = rows[p]
    BY <1>2 DEF SubIInv, WithoutGap
  <2>2. \A i \in DOMAIN Sent : Sent[i] \in FromPosition + 1 .. Len(rows')
    BY <1>2 DEF SubIInv, WithoutGap
  <2>3. \A i \in DOMAIN Sent : \A p \in FromPosition + 1 .. Sent[i] :
           rows'[p] = "event" <=> \E j \in 1..i : Sent[j] = p
    BY <2>1 DEF SubIInv, WithoutGap
  <2>. QED  BY <2>2, <2>3, <1>1 DEF SubIInv, WithoutGap
<1>6. (stream = "open" => EverySentTo(Sent, mark))'
  <2>. SUFFICES ASSUME stream = "open", NEW p \in FromPosition + 1 .. mark, rows'[p] = "event"
                PROVE  \E j \in DOMAIN Sent : Sent[j] = p
    BY <1>1 DEF EverySentTo
  <2>1. rows[p] = "event"
    BY <1>2 DEF SubIInv
  <2>. QED  BY <2>1 DEF SubIInv, EverySentTo
<1>. QED  BY <1>1, <1>2, <1>3, <1>4, <1>5, <1>6 DEF SubIInv

\* A batch is the rows behind the mark, as many as it may hold.
LEMMA PollKeeps ==
    ASSUME SubIInv, PollRows
    PROVE  SubIInv'
<1>0. SubTyped
  BY SubTypes
<1>. USE <1>0 DEF SubTyped
<1>. DEFINE size == IF mark + PollBatch <= Len(rows) THEN PollBatch ELSE Len(rows) - mark
<1>1. /\ UNCHANGED <<rows, mark, channel, received, stream>> /\ Sent' = Sent
      /\ batch' = [i \in 1..size |-> mark + i] /\ mark < Len(rows)
  BY DEF PollRows, Behind, Sent
<1>2. size \in Nat \ {0} /\ mark + size <= Len(rows)
  <2>1. mark < Len(rows) /\ PollBatch \in Nat \ {0}
    BY SubscriptionAssumption DEF PollRows, Behind
  <2>2. \A m, n \in Nat, k \in Nat \ {0} : m < n =>
           LET z == IF m + k <= n THEN k ELSE n - m
           IN  z \in Nat \ {0} /\ m + z <= n
    OBVIOUS
  <2>. QED  BY <2>1, <2>2
<1>. HIDE DEF size
<1>3. \A i \in 1..size : mark + i \in 1..MaxRows
  BY <1>2 DEF SubIInv
<1>4. batch' \in Seq(1..MaxRows) /\ Len(batch') = size
  BY <1>1, <1>2, <1>3
<1>5. BatchFollows'
  <2>1. mark + 1 \in Nat /\ mark + 1 .. (mark + 1) - 1 = {}
    OBVIOUS
  <2>2. BatchFrom(mark + 1)'
    BY <2>1, <1>1, <1>2, <1>4 DEF BatchFrom
  <2>. QED  BY <2>1, <2>2, <1>1 DEF BatchFollows, BatchFrom
<1>6. SubTypeOK'
  BY <1>1, <1>4 DEF SubIInv, SubTypeOK
<1>7. WithoutGap(Sent)' /\ (stream = "open" => EverySentTo(Sent, mark))'
  BY <1>1 DEF SubIInv, WithoutGap, EverySentTo
<1>. QED  BY <1>1, <1>5, <1>6, <1>7 DEF SubIInv

\* What the head of a batch is, and what is left of the batch behind it.
LEMMA HeadOfBatch ==
    ASSUME SubIInv, batch # <<>>
    PROVE  \E h \in 1..Len(rows) :
              /\ Head(batch) = h /\ mark < h
              /\ \A p \in mark + 1 .. h - 1 : rows[p] # "event"
              /\ Tail(batch) \in Seq(1..MaxRows)
              /\ Tail(batch) # <<>> => h + Len(Tail(batch)) <= Len(rows)
              /\ \A i \in 1..Len(Tail(batch)) : Tail(batch)[i] = h + i
<1>0. SubTyped
  BY SubTypes
<1>. USE <1>0 DEF SubTyped
<1>1. PICK h \in Nat : BatchFrom(h)
  BY DEF SubIInv, BatchFollows
<1>2. /\ Tail(batch) \in Seq(1..MaxRows)
      /\ Len(batch) \in Nat \ {0} /\ Len(Tail(batch)) = Len(batch) - 1
      /\ \A i \in 1..Len(Tail(batch)) : Tail(batch)[i] = batch[i + 1]
  BY HeadTailProperties, EmptySeq
<1>3. Head(batch) = batch[1] /\ batch[1] = h
  BY <1>1, <1>2 DEF BatchFrom
<1>4. \A i \in 1..Len(Tail(batch)) : Tail(batch)[i] = h + i
  BY <1>1, <1>2 DEF BatchFrom
<1>5. h \in 1..Len(rows) /\ mark < h /\ h + Len(Tail(batch)) <= Len(rows)
  BY <1>1, <1>2 DEF BatchFrom
<1>. QED  BY <1>1, <1>2, <1>3, <1>4, <1>5 DEF BatchFrom

LEMMA SkipKeeps ==
    ASSUME SubIInv, Skip
    PROVE  SubIInv'
<1>0. SubTyped
  BY SubTypes
<1>. USE <1>0 DEF SubTyped
<1>1. /\ UNCHANGED <<rows, mark, channel, received, stream>> /\ Sent' = Sent
      /\ batch # <<>> /\ rows[Head(batch)] = "damaged" /\ batch' = Tail(batch)
  BY DEF Skip, Sent
<1>5. PICK h \in 1..Len(rows) :
             /\ Head(batch) = h /\ mark < h
             /\ \A p \in mark + 1 .. h - 1 : rows[p] # "event"
             /\ Tail(batch) \in Seq(1..MaxRows)
             /\ Tail(batch) # <<>> => h + Len(Tail(batch)) <= Len(rows)
             /\ \A i \in 1..Len(Tail(batch)) : Tail(batch)[i] = h + i
  BY <1>1, HeadOfBatch
<1>2. SubTypeOK'
  BY <1>1, <1>5 DEF SubIInv, SubTypeOK
<1>3. BatchFollows'
  <2>. SUFFICES ASSUME Tail(batch) # <<>>
                PROVE  \E g \in Nat : BatchFrom(g)'
    BY <1>1 DEF BatchFollows
  <2>1. \A p \in mark + 1 .. h : rows[p] # "event"
    <3>1. \A p \in mark + 1 .. h : p = h \/ p \in mark + 1 .. h - 1
      OBVIOUS
    <3>. QED  BY <3>1, <1>1, <1>5
  <2>2. Len(Tail(batch)) \in Nat /\ h + 1 \in Nat /\ (h + 1) - 1 = h
    BY <1>5, LenProperties
  <2>3. BatchFrom(h + 1)'
    BY <2>1, <2>2, <1>1, <1>5 DEF BatchFrom
  <2>. QED  BY <2>2, <2>3
<1>4. WithoutGap(Sent)' /\ (stream = "open" => EverySentTo(Sent, mark))'
  BY <1>1 DEF SubIInv, WithoutGap, EverySentTo
<1>. QED  BY <1>1, <1>2, <1>3, <1>4 DEF SubIInv

LEMMA SendKeeps ==
    ASSUME SubIInv, SendRow
    PROVE  SubIInv'
<1>0. SubTyped
  BY SubTypes
<1>. USE <1>0 DEF SubTyped
<1>1. PICK h \in 1..Len(rows) :
             /\ Head(batch) = h /\ mark < h
             /\ \A p \in mark + 1 .. h - 1 : rows[p] # "event"
             /\ Tail(batch) \in Seq(1..MaxRows)
             /\ Tail(batch) # <<>> => h + Len(Tail(batch)) <= Len(rows)
             /\ \A i \in 1..Len(Tail(batch)) : Tail(batch)[i] = h + i
  BY HeadOfBatch DEF SendRow
<1>2. /\ UNCHANGED <<rows, received, stream>> /\ stream = "open" /\ rows[h] = "event"
      /\ mark' = h /\ batch' = Tail(batch) /\ channel' = Append(channel, h)
      /\ Len(channel) < Capacity
  BY <1>1 DEF SendRow
<1>3. h \in Nat /\ h \in 1..MaxRows /\ h \in FromPosition .. MaxRows
  BY <1>1 DEF SubIInv
<1>4. Sent' = Append(Sent, h)
  <2>1. received \o Append(channel, h) = Append(received \o channel, h)
    BY <1>3, AppendBehind
  <2>. QED  BY <2>1, <1>2 DEF Sent
<1>5. WithoutGap(Sent) /\ EverySentTo(Sent, mark) /\ (\A i \in DOMAIN Sent : Sent[i] <= mark)
  BY <1>2 DEF SubIInv
<1>6. /\ WithoutGap(Append(Sent, h)) /\ EverySentTo(Append(Sent, h), h)
      /\ \A i \in DOMAIN Append(Sent, h) : Append(Sent, h)[i] <= h
  <2>1. FromPosition <= mark /\ mark < h /\ h <= Len(rows) /\ rows[h] = "event"
    BY <1>1, <1>2
  <2>. QED  BY <2>1, <1>1, <1>3, <1>5, NextWithoutGap
<1>7. WithoutGap(Sent)' /\ EverySentTo(Sent, mark)' /\ (\A i \in DOMAIN Sent : Sent[i] <= mark)'
  <2>1. WithoutGap(Sent)'
    BY <1>2, <1>4, <1>6 DEF WithoutGap
  <2>2. EverySentTo(Sent, mark)'
    BY <1>2, <1>4, <1>6 DEF EverySentTo
  <2>. QED  BY <2>1, <2>2, <1>2, <1>4, <1>6
<1>8. SubTypeOK'
  <2>1. channel \in Seq(1..MaxRows)
    BY DEF SubIInv, SubTypeOK
  <2>2. channel' \in Seq(1..MaxRows) /\ Len(channel') = Len(channel) + 1 /\ Len(channel) \in Nat
    BY <2>1, <1>2, <1>3, AppendProperties, LenProperties
  <2>. QED  BY <2>2, <1>1, <1>2, <1>3 DEF SubIInv, SubTypeOK
<1>9. BatchFollows'
  <2>. SUFFICES ASSUME Tail(batch) # <<>>
                PROVE  \E g \in Nat : BatchFrom(g)'
    BY <1>2 DEF BatchFollows
  <2>1. Len(Tail(batch)) \in Nat /\ h + 1 \in Nat /\ h + 1 .. (h + 1) - 1 = {}
    BY <1>1, <1>3, LenProperties
  <2>2. BatchFrom(h + 1)'
    BY <2>1, <1>1, <1>2, <1>3 DEF BatchFrom
  <2>. QED  BY <2>1, <2>2
<1>10. (stream = "open" => mark <= Len(rows) \/ mark = FromPosition)' /\ (Len(rows) <= MaxRows)'
  BY <1>1, <1>2 DEF SubIInv
<1>. QED  BY <1>2, <1>3, <1>7, <1>8, <1>9, <1>10 DEF SubIInv

LEMMA StopKeeps ==
    ASSUME SubIInv, StopTask
    PROVE  SubIInv'
<1>0. SubTyped
  BY SubTypes
<1>. USE <1>0 DEF SubTyped
<1>1. /\ UNCHANGED <<rows, channel, received>> /\ Sent' = Sent /\ stream # "open"
      /\ batch # <<>> /\ mark' = Head(batch) /\ batch' = <<>> /\ stream' = "stopped"
  BY DEF StopTask, Sent
<1>2. mark' \in FromPosition .. MaxRows /\ mark < mark' /\ mark' \in Nat
  <2>1. PICK h \in 1..Len(rows) : Head(batch) = h /\ mark < h
    BY <1>1, HeadOfBatch
  <2>. QED  BY <2>1, <1>1 DEF SubIInv
<1>3. SubTypeOK' /\ BatchFollows'
  BY <1>1, <1>2 DEF SubIInv, SubTypeOK, BatchFollows
<1>4. WithoutGap(Sent)'
  BY <1>1 DEF SubIInv, WithoutGap
<1>5. (\A i \in DOMAIN Sent : Sent[i] <= mark)'
  BY <1>1, <1>2, ElementOfSeq DEF SubIInv
<1>. QED  BY <1>1, <1>2, <1>3, <1>4, <1>5 DEF SubIInv

LEMMA ReceiveKeeps ==
    ASSUME SubIInv, ReceiveRow
    PROVE  SubIInv'
<1>0. SubTyped
  BY SubTypes
<1>. USE <1>0 DEF SubTyped
<1>1. /\ UNCHANGED <<rows, mark, batch, stream>> /\ stream = "open" /\ channel # <<>>
      /\ received' = Append(received, Head(channel)) /\ channel' = Tail(channel)
  BY DEF ReceiveRow
<1>2. channel \in Seq(1..MaxRows) /\ received \in Seq(1..MaxRows)
  BY DEF SubIInv, SubTypeOK
<1>3. /\ Head(channel) \in 1..MaxRows /\ Tail(channel) \in Seq(1..MaxRows)
      /\ Len(Tail(channel)) = Len(channel) - 1 /\ Len(channel) \in Nat
  BY <1>1, <1>2, HeadTailProperties, LenProperties
<1>4. SubTypeOK'
  BY <1>1, <1>2, <1>3, AppendProperties DEF SubIInv, SubTypeOK
<1>5. Sent' = Sent
  BY <1>1, HeadMovesOver DEF Sent
<1>6. WithoutGap(Sent)'
  BY <1>1, <1>5 DEF SubIInv, WithoutGap
<1>7. EverySentTo(Sent, mark)'
  BY <1>1, <1>5 DEF SubIInv, EverySentTo
<1>8. BatchFollows'
  BY <1>1 DEF SubIInv, BatchFollows, BatchFrom
<1>. QED  BY <1>1, <1>4, <1>5, <1>6, <1>7, <1>8 DEF SubIInv

LEMMA DropKeeps ==
    ASSUME SubIInv, DropStream
    PROVE  SubIInv'
<1>0. SubTyped
  BY SubTypes
<1>. USE <1>0 DEF SubTyped
<1>1. /\ UNCHANGED <<rows, mark, batch, received>> /\ stream' = "dropped" /\ channel' = <<>>
  BY DEF DropStream
<1>2. Sent' = received
  BY <1>1, ConcatEmptySeq DEF Sent
<1>3. WithoutGap(received)
  BY PrefixWithoutGap DEF SubIInv, Sent
<1>4. \A i \in DOMAIN received : received[i] <= mark
  <2>1. \A i \in 1..Len(received) : Sent[i] = received[i] /\ i \in DOMAIN Sent
    BY ConcatProperties, LenProperties DEF Sent
  <2>. QED  BY <2>1, LenProperties DEF SubIInv
<1>5. SubTypeOK' /\ BatchFollows'
  BY <1>1, SubscriptionAssumption DEF SubIInv, SubTypeOK, BatchFollows, BatchFrom
<1>6. WithoutGap(Sent)' /\ (\A i \in DOMAIN Sent : Sent[i] <= mark)'
  BY <1>1, <1>2, <1>3, <1>4 DEF WithoutGap
<1>. QED  BY <1>1, <1>5, <1>6 DEF SubIInv

LEMMA SubStep ==
    ASSUME SubIInv, [SubNext]_subVars
    PROVE  SubIInv'
<1>1. CASE UNCHANGED subVars
  BY <1>1 DEF SubIInv, SubTypeOK, BatchFollows, BatchFrom, WithoutGap, EverySentTo, Sent, subVars
<1>. QED  BY <1>1, AppendRowKeeps, PollKeeps, SkipKeeps, SendKeeps, StopKeeps,
             ReceiveKeeps, DropKeeps DEF SubNext, Task

\* A subscriber never misses a row behind one it got: its channel filling up,
\* batches, damaged rows and appends in between notwithstanding, what it has
\* taken is the log's rows that decode, in order and from its start on, up to
\* some row; and the channel never holds more than its capacity.
THEOREM NoGapInTheStream == SubSpec => [](SubTypeOK /\ SeenWithoutGap)
<1>1. SubIInv => SubTypeOK /\ SeenWithoutGap
  BY SubTypes, PrefixWithoutGap DEF SubTyped, SubIInv, SeenWithoutGap, Sent
<1>. QED  BY <1>1, SubInitHolds, SubStep, PTL DEF SubSpec

-----------------------------------------------------------------------------
(* MCLabs: what LimitsHold says of eleven labs, and of any of them next to *)
(* the others.                                                             *)

LabsInv ==
    /\ TypeOK /\ FlightInv /\ BillingInv
    /\ HookIInv /\ LimiterInv /\ NotesInv /\ MoneyInv /\ PolicyTypeOK
    /\ FetchInv /\ SubIInv /\ CredIInv /\ CredTypeOK

\* To each lab a step of the run is one of its own, or none.
LEMMA StepOfEach ==
    ASSUME [LabsNext]_labVars
    PROVE  /\ [Next]_vars /\ [HookNext]_hookVars /\ [LimiterNext]_limiterVars
           /\ [NotesNext]_notesVars /\ [MoneyNext]_moneyVars /\ [PolicyNext]_policyVars
           /\ [FetchNext]_fetchVars /\ [SubNext]_subVars /\ [CredNext]_credVars
           /\ [FlightNext]_flightVars /\ [BillingNext]_billingVars
<1>1. CASE UNCHANGED labVars
  BY <1>1 DEF labVars, sagaVars
<1>2. CASE LabsNext
  BY <1>2 DEF LabsNext, In, sagaVars
<1>. QED  BY <1>1, <1>2

LEMMA LabsInitially == LabsInit => LabsInv
BY TypeInitially, HookInitially, LimiterInitially, NotesInitially, MoneyInitially,
   PolicyInitially, FetchInitially, SubInitHolds, CredInitially, FlightInitially,
   BillingInitially DEF LabsInit, LabsInv

LEMMA LabsNextKeeps == LabsInv /\ [LabsNext]_labVars => LabsInv'
<1>. SUFFICES ASSUME LabsInv, [LabsNext]_labVars PROVE LabsInv'
  OBVIOUS
<1>1. TypeOK' /\ HookIInv' /\ LimiterInv'
  BY StepOfEach, TypeNextKeeps, HookNextKeeps, LimiterKeeps DEF LabsInv
<1>2. NotesInv' /\ MoneyInv' /\ PolicyTypeOK'
  BY StepOfEach, NotesNextKeeps, MoneyNextKeeps, PolicyNextKeeps DEF LabsInv
<1>3. FetchInv' /\ SubIInv' /\ CredIInv' /\ CredTypeOK'
  BY StepOfEach, FetchNextKeeps, SubStep, CredNextKeeps, CredTypes DEF LabsInv
<1>4. FlightInv' /\ BillingInv'
  BY StepOfEach, FlightNextKeeps, BillingNextKeeps DEF LabsInv
<1>. QED  BY <1>1, <1>2, <1>3, <1>4 DEF LabsInv

\* No lab grows past its limit: compensations are tried as often as their policy
\* allows, no more requests are in flight than there are permits, counters and
\* channels are bounded, and a subscriber has seen no gap, for any constants.
THEOREM LimitsOfTheLabs == LabsSpec => []LimitsHold
<1>1. LabsInv => LimitsHold
  <2>. SUFFICES ASSUME LabsInv PROVE LimitsHold
    OBVIOUS
  <2>1. SubTypeOK /\ SeenWithoutGap
    BY SubTypes, PrefixWithoutGap DEF LabsInv, SubTyped, SubIInv, SeenWithoutGap, Sent
  <2>2. TypeOK /\ HookTypeOK /\ LimiterTypeOK /\ NotesTypeOK /\ MoneyTypeOK
    BY DEF LabsInv, HookIInv, LimiterInv, NotesInv, MoneyInv
  <2>3. PolicyTypeOK /\ FetchTypeOK /\ InFlightBounded /\ CredTypeOK
    BY DEF LabsInv, FetchInv
  <2>4. FlightTypeOK /\ BillingTypeOK
    BY DEF LabsInv, FlightInv, BillingInv
  <2>. QED  BY <2>1, <2>2, <2>3, <2>4 DEF LimitsHold
<1>. QED  BY <1>1, LabsInitially, LabsNextKeeps, PTL DEF LabsSpec
=============================================================================
