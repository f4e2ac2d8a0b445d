------------------------------- MODULE AuthProofs -------------------------------
(* Theorems about the auth lab: AuthSessions, for every set of requests and any  *)
(* number of links, sessions and tokens; and AuthAccounts, for any users, Google *)
(* identities, flows and enrollments.                                            *)
EXTENDS AuthLab, FiniteSetTheorems, SequenceTheorems, TLAPS

SessionRow == [opened : Nat, live : BOOLEAN]
Token == [family : Nat, opened : Nat, used : BOOLEAN, revoked : BOOLEAN]

-----------------------------------------------------------------------------
(* The inductive invariant. OneLiveTokenPerFamily does not hold inductively: a   *)
(* root may be recorded only because its family is nobody else's, and a family   *)
(* cannot be burnt before it has a token.                                        *)

TablesTyped ==
    /\ password \in Nat
    /\ session \in Seq(SessionRow)
    /\ refresh \in Seq(Token)
    /\ burnt \subseteq 1 .. Len(session)
    /\ at = [r \in Requests |-> at[r]]

(* The family a login has opened a session for and not recorded a token of.      *)
Opened(r) == at[r].pc = "opened"

FamiliesApart ==
    /\ \A i \in DOMAIN refresh : refresh[i].family \in 1 .. Len(session)
    /\ \A r \in Requests : Opened(r) =>
          /\ at[r].family \in 1 .. Len(session)
          /\ at[r].family \notin burnt
          /\ \A i \in DOMAIN refresh : refresh[i].family # at[r].family
    /\ \A r, q \in Requests :
          Opened(r) /\ Opened(q) /\ at[r].family = at[q].family => r = q

IInv == TablesTyped /\ FamiliesApart /\ OneLiveTokenPerFamily /\ ResetRevokes

(* What a sequence becomes when each of its elements is replaced by another.     *)
LEMMA MappedSeq ==
    ASSUME NEW S, NEW s \in Seq(S), NEW f,
           f = [i \in DOMAIN s |-> f[i]], \A i \in DOMAIN s : f[i] \in S
    PROVE  f \in Seq(S) /\ Len(f) = Len(s) /\ DOMAIN f = DOMAIN s
<1>1. Len(s) \in Nat /\ DOMAIN s = 1 .. Len(s)
  BY LenProperties
<1>2. f \in [1 .. Len(s) -> S]
  BY <1>1
<1>. QED  BY <1>1, <1>2, SeqDef, LenProperties

(* A step that leaves the rows alone, after which no login has a family open     *)
(* that it did not have open before, keeps the invariant.                        *)
LEMMA Quiet ==
    ASSUME IInv, UNCHANGED <<password, session, refresh, burnt>>,
           at' = [r \in Requests |-> at'[r]],
           \A r \in Requests : Opened(r)' => at'[r] = at[r]
    PROVE  IInv'
<1>1. TablesTyped'
  BY DEF IInv, TablesTyped
<1>2. FamiliesApart'
  BY DEF IInv, FamiliesApart, Opened
<1>3. OneLiveTokenPerFamily' /\ ResetRevokes'
  BY DEF IInv, OneLiveTokenPerFamily, ResetRevokes, Live
<1>. QED  BY <1>1, <1>2, <1>3 DEF IInv

LEMMA InitIInv == Init => IInv
<1>. SUFFICES ASSUME Init PROVE IInv
  OBVIOUS
<1>1. TablesTyped
  BY EmptySeq DEF Init, TablesTyped, SessionRow, Token
<1>2. FamiliesApart
  BY DEF Init, FamiliesApart, Opened, Idle
<1>3. OneLiveTokenPerFamily /\ ResetRevokes
  BY DEF Init, OneLiveTokenPerFamily, ResetRevokes
<1>. QED  BY <1>1, <1>2, <1>3 DEF IInv

-----------------------------------------------------------------------------
(* Signing in and out *)

LEMMA OpenSessionKeeps ==
    ASSUME IInv, NEW r \in Requests, OpenSession(r) PROVE IInv'
<1>. DEFINE row == [opened |-> password, live |-> TRUE]
<1>1. /\ row \in SessionRow /\ session \in Seq(SessionRow) /\ Len(session) \in Nat
      /\ session' = Append(session, row)
      /\ UNCHANGED <<password, refresh, burnt>>
      /\ at' = [at EXCEPT ![r] = [pc |-> "opened", family |-> Len(session) + 1]]
  BY LenProperties DEF OpenSession, IInv, TablesTyped, SessionRow, tokens, Goto
<1>2. /\ session' \in Seq(SessionRow)
      /\ Len(session') = Len(session) + 1
      /\ \A n \in DOMAIN session : session'[n] = session[n]
      /\ session'[Len(session) + 1] = row
      /\ DOMAIN session' = DOMAIN session \union {Len(session) + 1}
  BY <1>1
<1>a. burnt' \subseteq 1 .. Len(session')
  BY <1>1, <1>2 DEF IInv, TablesTyped
<1>b. at' = [q \in Requests |-> at'[q]]
  BY <1>1 DEF IInv, TablesTyped
<1>3. TablesTyped'
  BY <1>1, <1>2, <1>a, <1>b DEF IInv, TablesTyped
<1>4. \A q \in Requests : q # r => at'[q] = at[q]
  BY <1>1 DEF IInv, TablesTyped
<1>5. at'[r] = [pc |-> "opened", family |-> Len(session) + 1]
  BY <1>1 DEF IInv, TablesTyped
<1>6. FamiliesApart'
  BY <1>1, <1>2, <1>4, <1>5 DEF IInv, TablesTyped, FamiliesApart, Opened
<1>7. OneLiveTokenPerFamily'
  BY <1>1 DEF IInv, OneLiveTokenPerFamily, Live
<1>8. ResetRevokes'
  BY <1>1, <1>2 DEF IInv, ResetRevokes, Live
<1>. QED  BY <1>3, <1>6, <1>7, <1>8 DEF IInv

LEMMA RecordRootKeeps ==
    ASSUME IInv, NEW r \in Requests, RecordRoot(r) PROVE IInv'
<1>. DEFINE root == [family |-> at[r].family, opened |-> password,
                     used |-> FALSE, revoked |-> FALSE]
<1>1. /\ refresh \in Seq(Token) /\ Len(refresh) \in Nat
      /\ refresh' = Append(refresh, root)
      /\ UNCHANGED <<password, session, burnt>>
      /\ Opened(r)
      /\ at' = [at EXCEPT ![r] = Idle]
  BY LenProperties DEF RecordRoot, IInv, TablesTyped, Goto, Opened
<1>2. root \in Token
  BY <1>1, LenProperties DEF IInv, TablesTyped, FamiliesApart, Token
<1>3. /\ refresh' \in Seq(Token)
      /\ \A i \in DOMAIN refresh : refresh'[i] = refresh[i]
      /\ refresh'[Len(refresh) + 1] = root
      /\ DOMAIN refresh' = DOMAIN refresh \union {Len(refresh) + 1}
      /\ Len(refresh) + 1 \notin DOMAIN refresh
  BY <1>1, <1>2
<1>4. TablesTyped'
  BY <1>1, <1>3 DEF IInv, TablesTyped
<1>5. /\ \A q \in Requests : q # r => at'[q] = at[q]
      /\ ~Opened(r)'
  BY <1>1 DEF IInv, TablesTyped, Opened, Idle
<1>6. FamiliesApart'
  BY <1>1, <1>3, <1>5 DEF IInv, FamiliesApart, Opened
<1>7. OneLiveTokenPerFamily'
  BY <1>1, <1>3 DEF IInv, OneLiveTokenPerFamily, FamiliesApart, Live
<1>8. ResetRevokes'
  BY <1>1, <1>3 DEF IInv, ResetRevokes, Live
<1>. QED  BY <1>4, <1>6, <1>7, <1>8 DEF IInv

LEMMA LogoutKeeps ==
    ASSUME IInv, NEW n \in DOMAIN session, Logout(n) PROVE IInv'
<1>1. /\ UNCHANGED <<password, refresh, burnt, at>>
      /\ session' = [session EXCEPT ![n].live = FALSE]
  BY DEF Logout, tokens
<1>2. session \in Seq(SessionRow) /\ n \in 1 .. Len(session)
  BY LenProperties DEF IInv, TablesTyped
<1>3. session[n] \in SessionRow
  BY <1>2, ElementOfSeq
<1>4. [session[n] EXCEPT !.live = FALSE] \in SessionRow
  BY <1>3 DEF SessionRow
<1>5. session' = [session EXCEPT ![n] = [session[n] EXCEPT !.live = FALSE]]
  BY <1>1
<1>6. /\ session' \in Seq(SessionRow) /\ Len(session') = Len(session)
      /\ DOMAIN session' = DOMAIN session
      /\ ~session'[n].live
      /\ \A m \in DOMAIN session : m # n => session'[m] = session[m]
  BY <1>2, <1>3, <1>4, <1>5, ExceptSeq, LenProperties DEF SessionRow
<1>7. TablesTyped'
  BY <1>1, <1>6 DEF IInv, TablesTyped
<1>8. FamiliesApart'
  BY <1>1, <1>6 DEF IInv, FamiliesApart, Opened
<1>9. OneLiveTokenPerFamily' /\ ResetRevokes'
  BY <1>1, <1>6 DEF IInv, OneLiveTokenPerFamily, ResetRevokes, Live
<1>. QED  BY <1>7, <1>8, <1>9 DEF IInv

-----------------------------------------------------------------------------
(* Refresh tokens *)

LEMMA RotateKeeps ==
    ASSUME IInv, NEW t \in DOMAIN refresh, Rotate(t) PROVE IInv'
<1>. DEFINE used == [refresh[t] EXCEPT !.used = TRUE]
            claimed == [refresh EXCEPT ![t] = used]
            child == Child(refresh[t])
<1>1. /\ UNCHANGED <<password, session, burnt, at>>
      /\ Live(refresh[t])
      /\ refresh' = Append(claimed, child)
  BY DEF Rotate
<1>2. refresh \in Seq(Token) /\ t \in 1 .. Len(refresh) /\ DOMAIN refresh = 1 .. Len(refresh)
  BY LenProperties DEF IInv, TablesTyped
<1>3. refresh[t] \in Token
  BY <1>2, ElementOfSeq
<1>4. /\ used \in Token /\ child \in Token
      /\ ~Live(used)
      /\ used.family = refresh[t].family
      /\ child.family = refresh[t].family /\ child.opened = refresh[t].opened
  BY <1>3 DEF Token, Child, Live
<1>5. /\ claimed \in Seq(Token) /\ Len(claimed) = Len(refresh)
      /\ \A i \in 1 .. Len(refresh) : claimed[i] = IF i = t THEN used ELSE refresh[i]
  BY <1>2, <1>4, ExceptSeq
<1>. HIDE DEF used, claimed, child
<1>6. /\ refresh' \in Seq(Token) /\ Len(refresh') = Len(refresh) + 1
      /\ refresh'[Len(refresh) + 1] = child
      /\ \A i \in 1 .. Len(refresh) : refresh'[i] = claimed[i]
  BY <1>1, <1>4, <1>5
<1>7. DOMAIN refresh' = DOMAIN refresh \union {Len(refresh) + 1}
  BY <1>2, <1>6, LenProperties
<1>8. TablesTyped'
  BY <1>1, <1>6 DEF IInv, TablesTyped
<1>9. \A i \in DOMAIN refresh' : \E j \in DOMAIN refresh :
         /\ refresh'[i].family = refresh[j].family
         /\ Live(refresh'[i]) => /\ refresh'[i].opened = refresh[j].opened
                                 /\ Live(refresh[j])
                                 /\ i # Len(refresh) + 1 => j = i /\ i # t
                                 /\ i = Len(refresh) + 1 => j = t
  BY <1>1, <1>2, <1>4, <1>5, <1>6, <1>7
<1>10. FamiliesApart'
  <2>1. \A i \in DOMAIN refresh' : refresh'[i].family \in 1 .. Len(session)
    BY <1>9 DEF IInv, FamiliesApart
  <2>2. \A r \in Requests : Opened(r) =>
           \A i \in DOMAIN refresh' : refresh'[i].family # at[r].family
    BY <1>9 DEF IInv, FamiliesApart
  <2>. QED  BY <1>1, <2>1, <2>2 DEF IInv, FamiliesApart, Opened
<1>11. OneLiveTokenPerFamily'
  <2>1. SUFFICES ASSUME NEW i \in DOMAIN refresh', NEW j \in DOMAIN refresh', Live(refresh'[i])
                 PROVE  /\ refresh'[i].family \notin burnt
                        /\ Live(refresh'[j]) /\ refresh'[i].family = refresh'[j].family => i = j
    BY <1>1 DEF OneLiveTokenPerFamily, Live
  <2>2. refresh'[i].family \notin burnt
    BY <1>9, <2>1 DEF IInv, OneLiveTokenPerFamily
  <2>3. ASSUME Live(refresh'[j]), refresh'[i].family = refresh'[j].family PROVE i = j
    BY <1>9, <2>1, <2>3 DEF IInv, OneLiveTokenPerFamily
  <2>. QED  BY <2>2, <2>3
<1>12. ResetRevokes'
  BY <1>1, <1>9 DEF IInv, ResetRevokes, Live
<1>. QED  BY <1>8, <1>10, <1>11, <1>12 DEF IInv

LEMMA RotateReusedKeeps ==
    ASSUME IInv, NEW t \in DOMAIN refresh, RotateReused(t) PROVE IInv'
<1>1. /\ UNCHANGED <<password, session, at>>
      /\ burnt' = burnt \union {refresh[t].family}
      /\ refresh' = [i \in DOMAIN refresh |->
                        IF refresh[i].family = refresh[t].family
                        THEN Revoked(refresh[i]) ELSE refresh[i]]
  BY DEF RotateReused
<1>2. refresh \in Seq(Token)
  BY DEF IInv, TablesTyped
<1>3. \A i \in DOMAIN refresh : refresh[i] \in Token /\ Revoked(refresh[i]) \in Token
  <2>. TAKE i \in DOMAIN refresh
  <2>1. refresh[i] \in Token
    BY <1>2, LenProperties, ElementOfSeq
  <2>. QED  BY <2>1 DEF Token, Revoked
<1>4. \A i \in DOMAIN refresh :
         /\ refresh'[i] \in Token
         /\ refresh'[i].family = refresh[i].family
         /\ Live(refresh'[i]) => refresh'[i] = refresh[i] /\ refresh[i].family # refresh[t].family
  BY <1>1, <1>3 DEF Token, Revoked, Live
<1>5. refresh' = [i \in DOMAIN refresh |-> refresh'[i]]
  BY <1>1
<1>6. refresh' \in Seq(Token) /\ DOMAIN refresh' = DOMAIN refresh
  BY <1>2, <1>4, <1>5, MappedSeq
<1>7. TablesTyped'
  BY <1>1, <1>6 DEF IInv, TablesTyped, FamiliesApart
<1>8. FamiliesApart'
  BY <1>1, <1>4, <1>6 DEF IInv, FamiliesApart, Opened
<1>9. OneLiveTokenPerFamily'
  BY <1>1, <1>4, <1>6 DEF IInv, OneLiveTokenPerFamily
<1>10. ResetRevokes'
  BY <1>1, <1>4, <1>6 DEF IInv, ResetRevokes
<1>. QED  BY <1>7, <1>8, <1>9, <1>10 DEF IInv

-----------------------------------------------------------------------------
(* Links *)

LEMMA ConfirmMagicKeeps ==
    ASSUME IInv, NEW r \in Requests, ConfirmMagic(r) PROVE IInv'
<1>1. /\ UNCHANGED <<password, session, refresh, burnt>>
      /\ at' = [at EXCEPT ![r] = [pc |-> "checked"]]
  BY DEF ConfirmMagic, tokens, Goto
<1>. QED  BY <1>1, Quiet DEF IInv, TablesTyped, Opened

LEMMA CompleteResetKeeps ==
    ASSUME IInv, NEW r \in Requests, CompleteReset(r) PROVE IInv'
<1>1. /\ UNCHANGED burnt
      /\ password' = password + 1
      /\ session' = [n \in DOMAIN session |-> [session[n] EXCEPT !.live = FALSE]]
      /\ refresh' = [i \in DOMAIN refresh |-> Revoked(refresh[i])]
      /\ at' = [at EXCEPT ![r] = Idle]
  BY DEF CompleteReset, Goto
<1>2. session \in Seq(SessionRow) /\ refresh \in Seq(Token)
  BY DEF IInv, TablesTyped
<1>3. \A n \in DOMAIN session : session'[n] \in SessionRow /\ ~session'[n].live
  <2>. TAKE n \in DOMAIN session
  <2>1. session[n] \in SessionRow
    BY <1>2, LenProperties, ElementOfSeq
  <2>2. session'[n] = [session[n] EXCEPT !.live = FALSE]
    BY <1>1
  <2>. QED  BY <2>1, <2>2 DEF SessionRow
<1>4. \A i \in DOMAIN refresh :
         /\ refresh'[i] \in Token
         /\ refresh'[i].family = refresh[i].family
         /\ ~Live(refresh'[i])
  <2>. TAKE i \in DOMAIN refresh
  <2>1. refresh[i] \in Token
    BY <1>2, LenProperties, ElementOfSeq
  <2>2. refresh'[i] = Revoked(refresh[i])
    BY <1>1
  <2>. QED  BY <2>1, <2>2 DEF Token, Revoked, Live
<1>5. session' = [n \in DOMAIN session |-> session'[n]]
  BY <1>1
<1>6. refresh' = [i \in DOMAIN refresh |-> refresh'[i]]
  BY <1>1
<1>7. /\ session' \in Seq(SessionRow)
      /\ Len(session') = Len(session) /\ DOMAIN session' = DOMAIN session
  BY <1>2, <1>3, <1>5, MappedSeq
<1>8. refresh' \in Seq(Token) /\ DOMAIN refresh' = DOMAIN refresh
  BY <1>2, <1>4, <1>6, MappedSeq
<1>9. \A q \in Requests : Opened(q)' => at'[q] = at[q] /\ Opened(q)
  BY <1>1 DEF IInv, TablesTyped, Opened, Idle
<1>10. at' = [q \in Requests |-> at'[q]]
  BY <1>1 DEF IInv, TablesTyped
<1>11. TablesTyped'
  BY <1>1, <1>7, <1>8, <1>10 DEF IInv, TablesTyped
<1>12. FamiliesApart'
  <2>1. \A i \in DOMAIN refresh' : refresh'[i].family \in 1 .. Len(session')
    BY <1>4, <1>7, <1>8 DEF IInv, FamiliesApart
  <2>2. \A q \in Requests : Opened(q)' =>
           /\ at'[q].family \in 1 .. Len(session')
           /\ at'[q].family \notin burnt'
           /\ \A i \in DOMAIN refresh' : refresh'[i].family # at'[q].family
    BY <1>1, <1>4, <1>7, <1>8, <1>9 DEF IInv, FamiliesApart
  <2>3. \A q, p \in Requests :
           Opened(q)' /\ Opened(p)' /\ at'[q].family = at'[p].family => q = p
    BY <1>9 DEF IInv, FamiliesApart
  <2>. QED  BY <2>1, <2>2, <2>3 DEF FamiliesApart, Opened
<1>13. OneLiveTokenPerFamily'
  BY <1>4, <1>8 DEF OneLiveTokenPerFamily
<1>14. ResetRevokes'
  BY <1>3, <1>4, <1>7, <1>8 DEF ResetRevokes
<1>. QED  BY <1>11, <1>12, <1>13, <1>14 DEF IInv

-----------------------------------------------------------------------------

LEMMA NextKeeps == IInv /\ [Next]_vars => IInv'
<1>. SUFFICES ASSUME IInv, [Next]_vars PROVE IInv'
  OBVIOUS
<1>1. ASSUME NEW r \in Requests, Login(r) PROVE IInv'
  BY <1>1, Quiet DEF Login, Goto, tokens, IInv, TablesTyped, Opened
<1>2. ASSUME NEW r \in Requests, RequestFails(r) PROVE IInv'
  BY <1>2, Quiet DEF RequestFails, Goto, tokens, IInv, TablesTyped, Opened, Idle
<1>3. ASSUME NEW r \in Requests, ConfirmEmail(r) PROVE IInv'
  BY <1>3, Quiet DEF ConfirmEmail, Goto, tokens, IInv, TablesTyped, Opened, Idle
<1>4. ASSUME NEW r \in Requests, NEW k \in Kinds, NEW t \in Links(k), Look(r, k, t) PROVE IInv'
  BY <1>4, Quiet DEF Look, Goto, tokens, IInv, TablesTyped, Opened
<1>5. ASSUME NEW k \in Kinds, Issue(k) PROVE IInv'
  BY <1>5, Quiet DEF Issue, tokens, IInv, TablesTyped, Opened
<1>6. VerifyEmailRequest \/ ForgotPassword \/ MagicRequest => IInv'
  BY <1>5 DEF VerifyEmailRequest, ForgotPassword, MagicRequest, Kinds
<1>7. CASE UNCHANGED vars
  BY <1>7, Quiet DEF vars, tokens, IInv, TablesTyped, Opened
<1>. QED
  BY <1>1, <1>2, <1>3, <1>4, <1>6, <1>7, OpenSessionKeeps, RecordRootKeeps, LogoutKeeps,
     RotateKeeps, RotateReusedKeeps, ConfirmMagicKeeps, CompleteResetKeeps DEF Next

(* The rows, the families and the logins under way stay consistent.              *)
THEOREM InductiveInvariant == Spec => []IInv
  BY InitIInv, NextKeeps, PTL DEF Spec

(* A family has one live refresh token at most and none once it was burnt,        *)
(* whatever rotations, logins, reuses and resets interleave (rotate).            *)
THEOREM FamiliesRotate == Spec => []OneLiveTokenPerFamily
<1>1. IInv => OneLiveTokenPerFamily
  BY DEF IInv
<1>. QED  BY <1>1, InductiveInvariant, PTL

(* No session and no refresh token opened before a reset outlives it             *)
(* (password_reset::complete).                                                   *)
THEOREM ResetsRevoke == Spec => []ResetRevokes
<1>1. IInv => ResetRevokes
  BY DEF IInv
<1>. QED  BY <1>1, InductiveInvariant, PTL

-----------------------------------------------------------------------------
(* One-time links. A lookup whose transaction can still write has found a link   *)
(* that is still unused; what is unused is the newest and was never redeemed.    *)

LinksTyped ==
    /\ issued = [k \in Kinds |-> issued[k]]
    /\ unused = [k \in Kinds |-> unused[k]]
    /\ redeemed = [k \in Kinds |-> [t \in Links(k) |-> redeemed[k][t]]]
    /\ at = [r \in Requests |-> at[r]]

NewestUnused ==
    \A k \in Kinds :
       /\ issued[k] \in Nat
       /\ unused[k] \subseteq {issued[k]}
       /\ \A t \in Links(k) : t \in unused[k] \/ t > issued[k] => redeemed[k][t] = 0

LookupsHold ==
    \A r \in snapshot :
       /\ r \in Requests
       /\ at[r].pc = "found"
       /\ at[r].kind \in Kinds
       /\ at[r].link \in unused[at[r].kind]

LinkInv == LinksTyped /\ NewestUnused /\ LookupsHold

(* A step that issues and redeems nothing.                                       *)
LEMMA NoLink ==
    ASSUME LinkInv, UNCHANGED links,
           at' = [r \in Requests |-> at'[r]],
           snapshot' \subseteq snapshot,
           \A r \in snapshot' : at'[r] = at[r]
    PROVE  LinkInv' /\ UNCHANGED redeemed
<1>1. UNCHANGED <<issued, unused, redeemed>>
  BY DEF links
<1>2. LinksTyped' /\ NewestUnused'
  BY <1>1 DEF LinkInv, LinksTyped, NewestUnused, Links
<1>3. LookupsHold'
  BY <1>1 DEF LinkInv, LookupsHold
<1>. QED  BY <1>1, <1>2, <1>3 DEF LinkInv

(* What RedeemsNewestOnce says of a step.                                        *)
Redeems ==
    \A k \in Kinds : \A t \in Links(k) : redeemed'[k][t] # redeemed[k][t] =>
       t = issued[k] /\ redeemed[k][t] = 0 /\ redeemed'[k][t] = 1

LEMMA InitLinkInv == Init => LinkInv
  BY DEF Init, LinkInv, LinksTyped, NewestUnused, LookupsHold

LEMMA IssueLinks ==
    ASSUME LinkInv, NEW k \in Kinds, Issue(k) PROVE LinkInv' /\ UNCHANGED redeemed
<1>1. /\ issued' = [issued EXCEPT ![k] = @ + 1]
      /\ unused' = [unused EXCEPT ![k] = {issued[k] + 1}]
      /\ snapshot' = {} /\ UNCHANGED <<redeemed, at>>
  BY DEF Issue, Committed
<1>2. LinksTyped'
  BY <1>1 DEF LinkInv, LinksTyped, Links
<1>3. /\ issued'[k] = issued[k] + 1 /\ unused'[k] = {issued[k] + 1}
      /\ \A j \in Kinds \ {k} : issued'[j] = issued[j] /\ unused'[j] = unused[j]
  BY <1>1 DEF LinkInv, LinksTyped
<1>4. NewestUnused'
  BY <1>1, <1>3 DEF LinkInv, NewestUnused, Links
<1>. QED  BY <1>1, <1>2, <1>4 DEF LinkInv, LookupsHold

(* A redemption: ConfirmEmail, ConfirmMagic and CompleteReset.                   *)
LEMMA UseLinks ==
    ASSUME LinkInv, NEW r \in Requests, NEW k \in Kinds, Found(r, k), Use(k, at[r].link),
           Committed, NEW place, Goto(r, place)
    PROVE  LinkInv' /\ Redeems
<1>. DEFINE l == at[r].link
<1>1. /\ l \in unused[k] /\ l = issued[k]
  BY DEF LinkInv, LookupsHold, NewestUnused, Found
<1>2. /\ unused' = [unused EXCEPT ![k] = unused[k] \ {l}]
      /\ redeemed' = [redeemed EXCEPT ![k] = [redeemed[k] EXCEPT ![l] = redeemed[k][l] + 1]]
      /\ issued' = issued /\ snapshot' = {}
      /\ at' = [at EXCEPT ![r] = place]
  BY DEF Use, Committed, Goto
<1>. HIDE DEF l
<1>3. /\ unused'[k] = unused[k] \ {l}
      /\ \A j \in Kinds \ {k} : unused'[j] = unused[j] /\ redeemed'[j] = redeemed[j]
  BY <1>2 DEF LinkInv, LinksTyped
<1>4. redeemed[k] = [t \in Links(k) |-> redeemed[k][t]]
  BY DEF LinkInv, LinksTyped
<1>5. redeemed'[k] = [redeemed[k] EXCEPT ![l] = redeemed[k][l] + 1]
  BY <1>2 DEF LinkInv, LinksTyped
<1>6. \A t \in Links(k) : redeemed'[k][t] = IF t = l THEN redeemed[k][t] + 1 ELSE redeemed[k][t]
  BY <1>4, <1>5
<1>7. LinksTyped'
  <2>1. redeemed'[k] = [t \in Links(k) |-> redeemed'[k][t]]
    BY <1>4, <1>5
  <2>2. \A j \in Kinds : redeemed'[j] = [t \in Links(j) |-> redeemed'[j][t]]
    BY <1>3, <2>1 DEF LinkInv, LinksTyped
  <2>3. redeemed' = [j \in Kinds |-> redeemed'[j]]
    BY <1>2 DEF LinkInv, LinksTyped
  <2>4. redeemed' = [j \in Kinds |-> [t \in Links(j) |-> redeemed'[j][t]]]
    BY <2>2, <2>3, Zenon
  <2>5. unused' = [j \in Kinds |-> unused'[j]] /\ issued' = [j \in Kinds |-> issued'[j]]
    BY <1>2 DEF LinkInv, LinksTyped
  <2>6. at' = [q \in Requests |-> at'[q]]
    BY <1>2 DEF LinkInv, LinksTyped
  <2>. QED  BY <2>4, <2>5, <2>6, Zenon DEF LinksTyped, Links
<1>8. NewestUnused'
  BY <1>1, <1>2, <1>3, <1>6 DEF LinkInv, NewestUnused, Links
<1>9. Redeems
  BY <1>1, <1>3, <1>6 DEF LinkInv, NewestUnused, Redeems, Links
<1>. QED  BY <1>2, <1>7, <1>8, <1>9 DEF LinkInv, LookupsHold

LEMMA NextLinks == LinkInv /\ [Next]_vars => LinkInv' /\ Redeems
<1>. SUFFICES ASSUME LinkInv, [Next]_vars PROVE LinkInv' /\ Redeems
  OBVIOUS
<1>0. UNCHANGED redeemed => Redeems
  BY DEF Redeems
<1>1. ASSUME NEW r \in Requests, Login(r) \/ OpenSession(r) \/ RecordRoot(r) \/ RequestFails(r)
      PROVE  LinkInv' /\ Redeems
  <2>1. /\ UNCHANGED links
        /\ snapshot' \subseteq snapshot
        /\ \E place : at' = [at EXCEPT ![r] = place]
        /\ r \notin snapshot'
    BY <1>1 DEF Login, OpenSession, RecordRoot, RequestFails, Goto, Committed, Idle,
                LinkInv, LookupsHold
  <2>2. at' = [q \in Requests |-> at'[q]] /\ \A q \in snapshot' : at'[q] = at[q]
    BY <2>1 DEF LinkInv, LinksTyped, LookupsHold
  <2>. QED  BY <1>0, <2>1, <2>2, NoLink
<1>2. ASSUME \/ \E n \in DOMAIN session : Logout(n)
             \/ \E t \in DOMAIN refresh : Rotate(t) \/ RotateReused(t)
             \/ UNCHANGED vars
      PROVE  LinkInv' /\ Redeems
  <2>1. UNCHANGED <<links, at>> /\ snapshot' \subseteq snapshot
    BY <1>2 DEF Logout, Rotate, RotateReused, Committed, vars
  <2>. QED  BY <1>0, <2>1, NoLink DEF LinkInv, LinksTyped
<1>3. ASSUME NEW r \in Requests, NEW k \in Kinds, NEW t \in Links(k), Look(r, k, t)
      PROVE  LinkInv' /\ Redeems
  <2>1. /\ UNCHANGED <<issued, unused, redeemed>>
        /\ at[r] = Idle /\ t \in unused[k]
        /\ at' = [at EXCEPT ![r] = [pc |-> "found", kind |-> k, link |-> t]]
        /\ snapshot' = snapshot \union {r}
    BY <1>3 DEF Look, Goto, links
  <2>2. LinksTyped' /\ NewestUnused'
    BY <2>1 DEF LinkInv, LinksTyped, NewestUnused, Links
  <2>3. LookupsHold'
    BY <2>1 DEF LinkInv, LinksTyped, LookupsHold
  <2>. QED  BY <1>0, <2>1, <2>2, <2>3 DEF LinkInv
<1>4. ASSUME NEW r \in Requests, ConfirmEmail(r) \/ ConfirmMagic(r) \/ CompleteReset(r)
      PROVE  LinkInv' /\ Redeems
  BY <1>4, UseLinks DEF ConfirmEmail, ConfirmMagic, CompleteReset, Kinds
<1>5. VerifyEmailRequest \/ ForgotPassword \/ MagicRequest => LinkInv' /\ Redeems
  BY <1>0, IssueLinks DEF VerifyEmailRequest, ForgotPassword, MagicRequest, Kinds
<1>. QED  BY <1>1, <1>2, <1>3, <1>4, <1>5 DEF Next

(* However lookups, redemptions and resends interleave, only the newest link of  *)
(* a kind is redeemed, and only once (confirm, complete).                        *)
THEOREM LinksRedeemedOnce == Spec => RedeemsNewestOnce
<1>1. Spec => []LinkInv
  BY InitLinkInv, NextLinks, PTL DEF Spec
<1>2. LinkInv /\ [Next]_vars =>
        [\A k \in Kinds : \A t \in Links(k) : redeemed'[k][t] # redeemed[k][t] =>
            t = issued[k] /\ redeemed[k][t] = 0 /\ redeemed'[k][t] = 1]_vars
  BY NextLinks DEF Redeems
<1>. QED  BY <1>1, <1>2, PTL DEF Spec, RedeemsNewestOnce

-----------------------------------------------------------------------------
(* The types, of AuthSessions: besides what the two invariants say, that a link  *)
(* has a number within the bound and that a request is somewhere in its handler. *)

Numbered ==
    \A k \in Kinds :
       /\ issued[k] <= MaxLinks[k] /\ 0 \notin unused[k]
       /\ \A t \in Links(k) : redeemed[k][t] \in Nat

TypeParts == verified \in BOOLEAN /\ Numbered /\ \A r \in Requests : at[r] \in Place

LEMMA PlacesAre ==
    /\ Idle \in Place /\ [pc |-> "checked"] \in Place
    /\ \A n \in 1 .. Len(session) : [pc |-> "opened", family |-> n] \in Place
    /\ \A k \in Kinds : \A t \in Links(k) : [pc |-> "found", kind |-> k, link |-> t] \in Place
<1>1. ASSUME NEW k \in Kinds, NEW t \in Links(k)
      PROVE  [pc |-> "found", kind |-> k, link |-> t] \in Place
  <2>1. [pc |-> "found", kind |-> k, link |-> t] \in [pc : {"found"}, kind : {k}, link : Links(k)]
    OBVIOUS
  <2>. QED  BY <2>1, Zenon DEF Place
<1>2. /\ [pc |-> "checked"] \in [pc : {"checked"}]
      /\ \A n \in 1 .. Len(session) :
            [pc |-> "opened", family |-> n] \in [pc : {"opened"}, family : 1 .. Len(session)]
  OBVIOUS
<1>3. Idle \in Place /\ [pc |-> "checked"] \in Place
  BY <1>2, Zenon DEF Place
<1>4. \A n \in 1 .. Len(session) : [pc |-> "opened", family |-> n] \in Place
  BY <1>2, Zenon DEF Place
<1>. QED  BY <1>1, <1>3, <1>4

(* There are more places, if anything, as sessions are opened.                   *)
LEMMA PlacesStay ==
    ASSUME Len(session) \in Nat, Len(session') \in Nat, Len(session) <= Len(session')
    PROVE  Place \subseteq Place'
<1>1. [pc : {"opened"}, family : 1 .. Len(session)]
         \subseteq [pc : {"opened"}, family : 1 .. Len(session')]
  OBVIOUS
<1>. QED  BY <1>1, Zenon DEF Place

LEMMA SessionsStay ==
    ASSUME IInv, [Next]_vars
    PROVE  Len(session) \in Nat /\ Len(session') \in Nat /\ Len(session) <= Len(session')
<1>1. session \in Seq(SessionRow) /\ Len(session) \in Nat
  BY LenProperties DEF IInv, TablesTyped
<1>2. CASE UNCHANGED session
  BY <1>1, <1>2
<1>3. ASSUME NEW r \in Requests, OpenSession(r)
      PROVE  Len(session') = Len(session) + 1
  BY <1>1, <1>3 DEF OpenSession
<1>4. ASSUME DOMAIN session' = DOMAIN session, session' \in Seq(SessionRow)
      PROVE  Len(session') = Len(session)
  BY <1>1, <1>4, LenProperties
<1>5. session' \in Seq(SessionRow)
  BY NextKeeps DEF IInv, TablesTyped
<1>6. ASSUME NEW r \in Requests, CompleteReset(r)
      PROVE  DOMAIN session' = DOMAIN session
  BY <1>6 DEF CompleteReset
<1>7. ASSUME NEW n \in DOMAIN session, Logout(n)
      PROVE  DOMAIN session' = DOMAIN session
  BY <1>1, <1>7 DEF Logout
<1>8. \/ UNCHANGED session
      \/ \E r \in Requests : OpenSession(r) \/ CompleteReset(r)
      \/ \E n \in DOMAIN session : Logout(n)
  BY DEF Next, vars, Login, RecordRoot, RequestFails, ConfirmEmail, ConfirmMagic, Look,
         Rotate, RotateReused, VerifyEmailRequest, ForgotPassword, MagicRequest, Issue
<1>9. DOMAIN session' = DOMAIN session => Len(session') = Len(session)
  BY <1>4, <1>5
<1>. QED  BY <1>1, <1>2, <1>3, <1>6, <1>7, <1>8, <1>9

LEMMA PlacesKept ==
    ASSUME IInv, LinkInv, TypeParts, [Next]_vars
    PROVE  \A r \in Requests : at'[r] \in Place'
<1>. DEFINE Kept == \A r \in Requests : at'[r] \in Place'
<1>1. Place \subseteq Place' /\ Len(session) \in Nat
  BY PlacesStay, SessionsStay
<1>2. ASSUME NEW r \in Requests, NEW place \in Place', Goto(r, place)
      PROVE  Kept
  BY <1>1, <1>2 DEF Goto, IInv, TablesTyped, TypeParts
<1>3. CASE UNCHANGED at
  BY <1>1, <1>3 DEF TypeParts
<1>4. ASSUME NEW r \in Requests,
             \/ Goto(r, Idle) \/ Goto(r, [pc |-> "checked"])
             \/ \E k \in Kinds : \E t \in Links(k) :
                   Goto(r, [pc |-> "found", kind |-> k, link |-> t])
      PROVE  Kept
  <2>1. /\ Idle \in Place' /\ [pc |-> "checked"] \in Place'
        /\ \A k \in Kinds : \A t \in Links(k) :
              [pc |-> "found", kind |-> k, link |-> t] \in Place'
    BY <1>1, PlacesAre
  <2>. QED  BY <1>2, <1>4, <2>1
<1>5. ASSUME NEW r \in Requests, OpenSession(r)
      PROVE  Kept
  <2>1. session \in Seq(SessionRow)
    BY DEF IInv, TablesTyped
  <2>2. Len(session') = Len(session) + 1 /\ Goto(r, [pc |-> "opened", family |-> Len(session) + 1])
    BY <1>5, <2>1 DEF OpenSession
  <2>3. Len(session) + 1 \in 1 .. Len(session')
    BY <1>1, <2>2
  <2>4. [pc |-> "opened", family |-> Len(session) + 1]
           \in [pc : {"opened"}, family : 1 .. Len(session')]
    BY <2>3
  <2>5. [pc |-> "opened", family |-> Len(session) + 1] \in Place'
    BY <2>4, Zenon DEF Place
  <2>. QED  BY <1>2, <2>2, <2>5
<1>6. ASSUME NEW r \in Requests,
             \/ Login(r) \/ RecordRoot(r) \/ RequestFails(r)
             \/ ConfirmEmail(r) \/ ConfirmMagic(r) \/ CompleteReset(r)
             \/ \E k \in Kinds : \E t \in Links(k) : Look(r, k, t)
      PROVE  Kept
  BY <1>4, <1>6 DEF Login, RecordRoot, RequestFails, ConfirmEmail, ConfirmMagic, CompleteReset, Look
<1>7. ASSUME \/ \E n \in DOMAIN session : Logout(n)
             \/ \E t \in DOMAIN refresh : Rotate(t) \/ RotateReused(t)
             \/ VerifyEmailRequest \/ ForgotPassword \/ MagicRequest
             \/ UNCHANGED vars
      PROVE  Kept
  BY <1>3, <1>7 DEF Logout, Rotate, RotateReused, VerifyEmailRequest, ForgotPassword,
                    MagicRequest, Issue, vars
<1>. QED  BY <1>5, <1>6, <1>7 DEF Next

LEMMA NumbersKept ==
    ASSUME LinkInv, TypeParts, [Next]_vars
    PROVE  verified' \in BOOLEAN /\ Numbered'
<1>1. CASE UNCHANGED <<verified, links>>
  BY <1>1 DEF TypeParts, Numbered, Links, links
<1>2. ASSUME NEW k \in Kinds, Issue(k)
      PROVE  verified' \in BOOLEAN /\ Numbered'
  <2>1. /\ verified' = verified /\ redeemed' = redeemed
        /\ issued[k] < MaxLinks[k] /\ issued[k] \in Nat /\ MaxLinks[k] \in Nat
        /\ issued'[k] = issued[k] + 1 /\ unused'[k] = {issued[k] + 1}
        /\ \A j \in Kinds \ {k} : issued'[j] = issued[j] /\ unused'[j] = unused[j]
    BY <1>2, SessionsAssumption DEF Issue, LinkInv, LinksTyped, NewestUnused
  <2>. QED  BY <2>1 DEF TypeParts, Numbered, Links
<1>3. ASSUME NEW k \in Kinds, NEW l, Use(k, l), verified' \in BOOLEAN
      PROVE  verified' \in BOOLEAN /\ Numbered'
  <2>1. /\ issued' = issued
        /\ unused' = [unused EXCEPT ![k] = unused[k] \ {l}]
        /\ redeemed' = [redeemed EXCEPT ![k] = [redeemed[k] EXCEPT ![l] = redeemed[k][l] + 1]]
    BY <1>3 DEF Use
  <2>2. /\ unused'[k] = unused[k] \ {l}
        /\ redeemed'[k] = [redeemed[k] EXCEPT ![l] = redeemed[k][l] + 1]
        /\ \A j \in Kinds \ {k} : unused'[j] = unused[j] /\ redeemed'[j] = redeemed[j]
    BY <2>1 DEF LinkInv, LinksTyped
  <2>3. redeemed[k] = [t \in Links(k) |-> redeemed[k][t]]
    BY DEF LinkInv, LinksTyped
  <2>4. \A t \in Links(k) : redeemed[k][t] \in Nat
    BY DEF TypeParts, Numbered
  <2>5. \A t \in Links(k) : redeemed'[k][t] \in Nat
    BY <2>2, <2>3, <2>4
  <2>. QED  BY <1>3, <2>1, <2>2, <2>5 DEF TypeParts, Numbered, Links
<1>4. ASSUME NEW r \in Requests, ConfirmEmail(r) \/ ConfirmMagic(r) \/ CompleteReset(r)
      PROVE  verified' \in BOOLEAN /\ Numbered'
  BY <1>3, <1>4 DEF ConfirmEmail, ConfirmMagic, CompleteReset, TypeParts, Kinds
<1>. QED
  BY <1>1, <1>2, <1>4
     DEF Next, vars, Kinds, Login, OpenSession, RecordRoot, RequestFails, Look, Logout, Rotate,
         RotateReused, VerifyEmailRequest, ForgotPassword, MagicRequest

(* Every variable has its type: the rows hold what the schema allows, and a      *)
(* request whose lookup can still write is about to redeem an unused link.       *)
THEOREM TypeCorrect == Spec => []TypeOK
<1>1. Init => TypeParts
  <2>. SUFFICES ASSUME Init PROVE TypeParts
    OBVIOUS
  <2>1. /\ verified = FALSE
        /\ \A k \in Kinds : issued[k] = 0 /\ unused[k] = {} /\ redeemed[k] = [t \in Links(k) |-> 0]
    BY DEF Init
  <2>2. ASSUME NEW k \in Kinds
        PROVE  /\ issued[k] <= MaxLinks[k] /\ 0 \notin unused[k]
               /\ \A t \in Links(k) : redeemed[k][t] \in Nat
    <3>1. MaxLinks[k] \in Nat
      BY SessionsAssumption
    <3>2. issued[k] = 0 /\ unused[k] = {} /\ redeemed[k] = [t \in Links(k) |-> 0]
      BY <2>1
    <3>3. \A t \in Links(k) : redeemed[k][t] = 0
      BY <3>2, Zenon
    <3>. QED  BY <3>1, <3>2, <3>3
  <2>. QED  BY <2>1, <2>2, PlacesAre DEF Init, TypeParts, Numbered
<1>2. IInv /\ LinkInv /\ TypeParts /\ [Next]_vars => TypeParts'
  BY PlacesKept, NumbersKept DEF TypeParts
<1>3. IInv /\ LinkInv /\ TypeParts => TypeOK
  <2>. SUFFICES ASSUME IInv, LinkInv, TypeParts PROVE TypeOK
    OBVIOUS
  <2>1. /\ DOMAIN issued = Kinds /\ DOMAIN unused = Kinds /\ DOMAIN redeemed = Kinds
        /\ \A k \in Kinds : redeemed[k] = [t \in Links(k) |-> redeemed[k][t]]
    BY DEF LinkInv, LinksTyped
  <2>2. ASSUME NEW k \in Kinds
        PROVE  /\ issued[k] \in 0 .. MaxLinks[k]
               /\ unused[k] \subseteq {issued[k]} \ {0}
               /\ redeemed[k] \in [Links(k) -> Nat]
    BY <2>1, SessionsAssumption DEF TypeParts, Numbered, LinkInv, NewestUnused
  <2>3. at \in [Requests -> Place]
    BY DEF IInv, TablesTyped, TypeParts
  <2>4. snapshot \subseteq Requests /\ \A r \in snapshot :
           at[r].pc = "found" /\ at[r].link \in unused[at[r].kind]
    BY DEF LinkInv, LookupsHold
  <2>. QED
    BY <2>1, <2>2, <2>3, <2>4 DEF TypeOK, TypeParts, IInv, TablesTyped, SessionRow, Token
<1>4. Spec => []LinkInv
  BY InitLinkInv, NextLinks, PTL DEF Spec
<1>. QED  BY <1>1, <1>2, <1>3, <1>4, InductiveInvariant, PTL DEF Spec

-----------------------------------------------------------------------------
(* AuthAccounts. What a request may rely on wherever it stands, with the rows,   *)
(* the first of them and the number of secrets as they are now: what it read     *)
(* stays true, since rows are never deleted.                                     *)

ReliesOn(place, rowsNow, firstNow, count) ==
    /\ place.pc \in {"inserted", "promote", "link", "enroll", "code", "matched", "disable"}
          => place.user \in rowsNow
    /\ place.pc = "promote" => place.user \in firstNow
    /\ place.pc = "matched" => place.secret \in 1 .. count

StepsHold == \A r \in Callers : ReliesOn(step[r], users, first, secrets)

(* The first row is one, from the moment there is any.                           *)
FirstIsOne ==
    /\ IsFiniteSet(users)
    /\ first \subseteq users
    /\ users # {} => first # {}
    /\ \A e, f \in first : e = f

(* A secret has one owner, and a recovery code comes with its secret.            *)
SecretsApart ==
    /\ \A e, f \in Emails : secret[e] = secret[f] /\ secret[e] # 0 => e = f
    /\ \A c \in 1 .. MaxSecrets : c > secrets => consumed[c] = 0

RowsInv == FirstIsOne /\ OnlyFirstIsAdmin /\ OneAccountPerIdentity
CodesInv == SecretsApart /\ RecoveryCodeOnce
AccountsInv == AccountsTypeOK /\ StepsHold /\ RowsInv /\ CodesInv

LEMMA AccountsInitially == AccountsInit => AccountsInv
<1>. SUFFICES ASSUME AccountsInit PROVE AccountsInv
  OBVIOUS
<1>1. AccountsTypeOK
  BY AccountsAssumption DEF AccountsInit, AccountsTypeOK, Places, Free
<1>2. StepsHold
  BY DEF AccountsInit, StepsHold, ReliesOn, Free
<1>3. RowsInv
  BY FS_EmptySet DEF AccountsInit, RowsInv, FirstIsOne, OnlyFirstIsAdmin, OneAccountPerIdentity
<1>4. CodesInv
  BY DEF AccountsInit, CodesInv, SecretsApart, RecoveryCodeOnce
<1>. QED  BY <1>1, <1>2, <1>3, <1>4 DEF AccountsInv

LEMMA RequestMoves ==
    ASSUME AccountsInv, NEW r \in Callers, NEW next \in Places, Continue(r, next),
           users \subseteq users', first \subseteq first',
           secrets' \in Nat, secrets <= secrets',
           ReliesOn(next, users', first', secrets')
    PROVE  step' \in [Callers -> Places] /\ StepsHold'
<1>1. step \in [Callers -> Places] /\ secrets \in Nat
  BY AccountsAssumption DEF AccountsInv, AccountsTypeOK
<1>2. step' \in [Callers -> Places]
  BY <1>1 DEF Continue
<1>3. ASSUME NEW q \in Callers
      PROVE  ReliesOn(step'[q], users', first', secrets')
  <2>1. CASE q = r
    BY <2>1, <1>1 DEF Continue
  <2>2. CASE q # r
    <3>1. step'[q] = step[q] /\ ReliesOn(step[q], users, first, secrets)
      BY <2>2, <1>1 DEF Continue, AccountsInv, StepsHold
    <3>. QED  BY <3>1, <1>1 DEF ReliesOn
  <2>. QED  BY <2>1, <2>2
<1>. QED  BY <1>2, <1>3 DEF StepsHold

(* A request that only goes somewhere else.                                      *)
LEMMA OnlyMoves ==
    ASSUME AccountsInv, NEW r \in Callers, NEW next \in Places, Continue(r, next),
           ReliesOn(next, users, first, secrets),
           UNCHANGED <<rows, totp>>, pending' \in 0 .. flows', flows' \in 0 .. MaxFlows
    PROVE  AccountsInv'
<1>1. step' \in [Callers -> Places] /\ StepsHold'
  <2>1. secrets \in Nat
    BY AccountsAssumption DEF AccountsInv, AccountsTypeOK
  <2>. QED  BY <2>1, RequestMoves DEF rows, totp
<1>2. AccountsTypeOK'
  BY <1>1 DEF AccountsInv, AccountsTypeOK, rows, totp
<1>3. RowsInv' /\ CodesInv'
  BY DEF AccountsInv, RowsInv, CodesInv, FirstIsOne, OnlyFirstIsAdmin, OneAccountPerIdentity,
         SecretsApart, RecoveryCodeOnce, rows, totp
<1>. QED  BY <1>1, <1>2, <1>3 DEF AccountsInv

(* A request that writes rows, and leaves the second factor alone.               *)
LEMMA RowsWritten ==
    ASSUME AccountsInv, NEW r \in Callers, NEW next \in Places, Continue(r, next),
           UNCHANGED <<oauth, totp>>,
           users \subseteq users', users' \subseteq Emails, first \subseteq first',
           admin' \subseteq users', confirmed' \subseteq users',
           sub' \in [Emails -> Subs \union {NoSub}],
           \A e \in Emails \ users' : sub'[e] = NoSub,
           ReliesOn(next, users', first', secrets),
           RowsInv'
    PROVE  AccountsInv'
<1>1. step' \in [Callers -> Places] /\ StepsHold'
  <2>1. secrets \in Nat
    BY AccountsAssumption DEF AccountsInv, AccountsTypeOK
  <2>. QED  BY <2>1, RequestMoves DEF totp
<1>2. AccountsTypeOK'
  BY <1>1 DEF AccountsInv, AccountsTypeOK, oauth, totp
<1>3. CodesInv'
  BY DEF AccountsInv, CodesInv, SecretsApart, RecoveryCodeOnce, totp
<1>. QED  BY <1>1, <1>2, <1>3 DEF AccountsInv

-----------------------------------------------------------------------------
LEMMA RowGoesIn ==
    ASSUME FirstIsOne, NEW e, Insert(e)
    PROVE  /\ FirstIsOne'
           /\ first \subseteq first' /\ users' = users \union {e}
<1>1. users' = users \union {e} /\ first' = (IF users = {} THEN {e} ELSE first)
  BY DEF Insert
<1>2. IsFiniteSet(users')
  BY <1>1, FS_AddElement DEF FirstIsOne
<1>. QED  BY <1>1, <1>2 DEF FirstIsOne

(* Who counts one row is in it, and it is the first.                             *)
LEMMA OneRowIsFirst ==
    ASSUME FirstIsOne, NEW e \in users, Cardinality(users) = 1
    PROVE  e \in first
<1>1. PICK x : users = {x}
  BY FS_Singleton DEF FirstIsOne
<1>. QED  BY <1>1 DEF FirstIsOne

LEMMA RegisterKeeps ==
    ASSUME AccountsInv, NEW r \in Callers, NEW e \in Emails, Register(r, e)
    PROVE  AccountsInv'
<1>. DEFINE next == [pc |-> "inserted", user |-> e]
<1>1. Continue(r, next) /\ Insert(e) /\ UNCHANGED <<admin, confirmed, sub, oauth, totp>>
  BY DEF Register
<1>2. FirstIsOne' /\ first \subseteq first' /\ users' = users \union {e}
  BY <1>1, RowGoesIn DEF AccountsInv, RowsInv
<1>3. next \in Places /\ ReliesOn(next, users', first', secrets)
  BY <1>2 DEF Places, ReliesOn
<1>4. sub[e] = NoSub
  BY <1>1 DEF AccountsInv, AccountsTypeOK, Insert
<1>5. RowsInv'
  BY <1>1, <1>2, <1>4 DEF AccountsInv, RowsInv, OnlyFirstIsAdmin, OneAccountPerIdentity
<1>6. /\ users' \subseteq Emails /\ admin' \subseteq users' /\ confirmed' \subseteq users'
      /\ sub' \in [Emails -> Subs \union {NoSub}] /\ \A f \in Emails \ users' : sub'[f] = NoSub
  BY <1>1, <1>2 DEF AccountsInv, AccountsTypeOK
<1>. QED  BY <1>1, <1>2, <1>3, <1>5, <1>6, RowsWritten

LEMMA PromoteKeeps ==
    ASSUME AccountsInv, NEW r \in Callers, Promote(r)
    PROVE  AccountsInv'
<1>1. /\ Continue(r, Free) /\ admin' = admin \union {step[r].user}
      /\ UNCHANGED <<users, confirmed, sub, first, oauth, totp>>
      /\ step[r].user \in users /\ step[r].user \in first
  BY DEF Promote, At, AccountsInv, StepsHold, ReliesOn
<1>2. Free \in Places /\ ReliesOn(Free, users', first', secrets)
  BY DEF Places, ReliesOn, Free
<1>3. RowsInv'
  BY <1>1 DEF AccountsInv, RowsInv, FirstIsOne, OnlyFirstIsAdmin, OneAccountPerIdentity
<1>4. /\ users' \subseteq Emails /\ admin' \subseteq users' /\ confirmed' \subseteq users'
      /\ sub' \in [Emails -> Subs \union {NoSub}] /\ \A f \in Emails \ users' : sub'[f] = NoSub
  BY <1>1 DEF AccountsInv, AccountsTypeOK
<1>. QED  BY <1>1, <1>2, <1>3, <1>4, RowsWritten

(* What a sign-in through Google carries along.                                  *)
LEMMA GoogleRead ==
    ASSUME AccountsInv, NEW r \in Callers,
           At(r, "by_sub") \/ At(r, "by_email") \/ At(r, "link") \/ At(r, "create")
    PROVE  step[r] \in [pc : {"by_sub", "by_email", "link", "create"}, sub : Subs,
                        user : Emails, verified : BOOLEAN]
BY DEF AccountsInv, AccountsTypeOK, Places, At

(* The subject goes into one row, whose email is old or new.                     *)
LEMMA SubSet ==
    ASSUME AccountsInv, NEW r \in Callers, At(r, "link") \/ At(r, "create"),
           users' = users \union {step[r].user}, FirstIsOne', first \subseteq first',
           Unlinked(step[r].sub, step[r].user), SetSub(r), Vouch(r), Continue(r, Free),
           UNCHANGED <<admin, oauth, totp>>
    PROVE  AccountsInv'
<1>1. step[r].user \in Emails /\ step[r].sub \in Subs
  BY GoogleRead
<1>2. /\ sub' = [sub EXCEPT ![step[r].user] = step[r].sub]
      /\ confirmed' \subseteq confirmed \union {step[r].user}
      /\ \A f \in users \ {step[r].user} : sub[f] # step[r].sub
  BY DEF SetSub, Vouch, Unlinked
<1>3. Free \in Places /\ ReliesOn(Free, users', first', secrets)
  BY DEF Places, ReliesOn, Free
<1>4. sub \in [Emails -> Subs \union {NoSub}] /\ users \subseteq Emails
  BY DEF AccountsInv, AccountsTypeOK
<1>5. OneAccountPerIdentity'
  BY <1>1, <1>2, <1>4 DEF AccountsInv, RowsInv, OneAccountPerIdentity
<1>6. OnlyFirstIsAdmin'
  BY DEF AccountsInv, RowsInv, OnlyFirstIsAdmin
<1>7. /\ users' \subseteq Emails /\ admin' \subseteq users' /\ confirmed' \subseteq users'
      /\ sub' \in [Emails -> Subs \union {NoSub}] /\ \A f \in Emails \ users' : sub'[f] = NoSub
  BY <1>1, <1>2, <1>4 DEF AccountsInv, AccountsTypeOK
<1>. QED  BY <1>3, <1>5, <1>6, <1>7, RowsWritten DEF RowsInv

LEMMA LinkUserKeeps ==
    ASSUME AccountsInv, NEW r \in Callers, LinkUser(r)
    PROVE  AccountsInv'
<1>1. /\ At(r, "link") /\ Unlinked(step[r].sub, step[r].user) /\ SetSub(r) /\ Vouch(r)
      /\ Continue(r, Free) /\ UNCHANGED <<users, admin, first, oauth, totp>>
  BY DEF LinkUser
<1>2. step[r].user \in users
  BY <1>1 DEF At, AccountsInv, StepsHold, ReliesOn
<1>3. users' = users \union {step[r].user} /\ first \subseteq first' /\ FirstIsOne'
  BY <1>1, <1>2 DEF AccountsInv, RowsInv, FirstIsOne
<1>. QED  BY <1>1, <1>3, SubSet

LEMMA CreateUserKeeps ==
    ASSUME AccountsInv, NEW r \in Callers, CreateUser(r)
    PROVE  AccountsInv'
<1>1. /\ At(r, "create") /\ Unlinked(step[r].sub, step[r].user) /\ SetSub(r) /\ Vouch(r)
      /\ Insert(step[r].user) /\ Continue(r, Free) /\ UNCHANGED <<admin, oauth, totp>>
  BY DEF CreateUser
<1>2. users' = users \union {step[r].user} /\ first \subseteq first' /\ FirstIsOne'
  BY <1>1, RowGoesIn DEF AccountsInv, RowsInv
<1>. QED  BY <1>1, <1>2, SubSet

-----------------------------------------------------------------------------
(* A request that writes the second factor, and leaves the rows alone.           *)
LEMMA FactorWritten ==
    ASSUME AccountsInv, NEW r \in Callers, NEW next \in Places, Continue(r, next),
           UNCHANGED <<rows, oauth>>,
           secrets' \in 0 .. MaxSecrets, secrets <= secrets',
           enabled' \subseteq users, proved' \subseteq 1 .. secrets',
           secret' \in [Emails -> 0 .. secrets'], code' \in [Emails -> 0 .. secrets'],
           \A e \in Emails \ users : secret'[e] = 0,
           consumed' \in [1 .. MaxSecrets -> Nat],
           ReliesOn(next, users, first, secrets'),
           CodesInv'
    PROVE  AccountsInv'
<1>1. step' \in [Callers -> Places] /\ StepsHold'
  <2>1. secrets' \in Nat
    BY AccountsAssumption
  <2>. QED  BY <2>1, RequestMoves DEF rows
<1>2. AccountsTypeOK'
  BY <1>1 DEF AccountsInv, AccountsTypeOK, rows, oauth
<1>3. RowsInv'
  BY DEF AccountsInv, RowsInv, FirstIsOne, OnlyFirstIsAdmin, OneAccountPerIdentity, rows
<1>. QED  BY <1>1, <1>2, <1>3 DEF AccountsInv

LEMMA FactorTyped ==
    ASSUME AccountsInv
    PROVE  /\ secrets \in Nat /\ secrets <= MaxSecrets /\ MaxSecrets \in Nat
           /\ enabled \subseteq users /\ proved \subseteq 1 .. secrets
           /\ secret \in [Emails -> 0 .. secrets] /\ code \in [Emails -> 0 .. secrets]
           /\ \A e \in Emails \ users : secret[e] = 0
           /\ consumed \in [1 .. MaxSecrets -> Nat]
           /\ users \subseteq Emails
BY AccountsAssumption DEF AccountsInv, AccountsTypeOK

LEMMA FreeToGo == Free \in Places /\ ReliesOn(Free, users, first, secrets')
BY DEF Places, ReliesOn, Free

LEMMA BeginEnrollmentKeeps ==
    ASSUME AccountsInv, NEW r \in Callers, BeginEnrollment(r)
    PROVE  AccountsInv'
<1>1. PICK e : e = step[r].user
  OBVIOUS
<1>2. /\ At(r, "enroll") /\ secrets < MaxSecrets /\ Continue(r, Free)
      /\ secret' = [secret EXCEPT ![e] = secrets + 1] /\ code' = [code EXCEPT ![e] = secrets + 1]
      /\ enabled' = enabled \ {e} /\ secrets' = secrets + 1
      /\ UNCHANGED <<rows, oauth, consumed, proved>>
  BY <1>1 DEF BeginEnrollment
<1>3. e \in users
  BY <1>1, <1>2 DEF At, AccountsInv, StepsHold, ReliesOn
<1>4. CodesInv'
  <2>1. SecretsApart'
    BY <1>2, <1>3, FactorTyped DEF AccountsInv, CodesInv, SecretsApart
  <2>2. ASSUME NEW f \in Emails, code'[f] # 0
        PROVE  code'[f] = secret'[f] /\ consumed'[code'[f]] = 0
    <3>1. CASE f = e
      BY <1>2, <1>3, <3>1, FactorTyped DEF AccountsInv, CodesInv, SecretsApart
    <3>2. CASE f # e
      BY <1>2, <1>3, <3>2, <2>2, FactorTyped DEF AccountsInv, CodesInv, RecoveryCodeOnce
    <3>. QED  BY <3>1, <3>2
  <2>3. \A c \in 1 .. MaxSecrets : consumed'[c] <= 1
    BY <1>2 DEF AccountsInv, CodesInv, RecoveryCodeOnce
  <2>. QED  BY <2>1, <2>2, <2>3 DEF CodesInv, RecoveryCodeOnce
<1>. QED  BY <1>2, <1>3, <1>4, FactorTyped, FreeToGo, FactorWritten

LEMMA MaybeEnableKeeps ==
    ASSUME AccountsInv, NEW r \in Callers, MaybeEnable(r)
    PROVE  AccountsInv'
<1>1. /\ step[r] \in [pc : {"matched"}, user : Emails, then : {"confirm", "login", "disable"},
                      secret : 1 .. MaxSecrets, enabled : BOOLEAN]
      /\ step[r].user \in users /\ step[r].secret \in 1 .. secrets
  <2>1. At(r, "matched")
    BY DEF MaybeEnable
  <2>2. step[r] \in [pc : {"matched"}, user : Emails, then : {"confirm", "login", "disable"},
                     secret : 1 .. MaxSecrets, enabled : BOOLEAN]
    BY <2>1 DEF At, AccountsInv, AccountsTypeOK, Places
  <2>. QED  BY <2>1, <2>2 DEF At, AccountsInv, StepsHold, ReliesOn
<1>2. PICK next \in Places :
         Continue(r, next) /\ ReliesOn(next, users, first, secrets')
  <2>1. [pc |-> "disable", user |-> step[r].user, then |-> "disable"] \in Places
    BY <1>1 DEF Places
  <2>2. ReliesOn([pc |-> "disable", user |-> step[r].user, then |-> "disable"],
                 users, first, secrets')
    BY <1>1 DEF ReliesOn
  <2>. QED  BY <2>1, <2>2, FreeToGo DEF MaybeEnable
<1>3. /\ enabled' \subseteq enabled \union {step[r].user}
      /\ proved' = proved \union {step[r].secret}
      /\ UNCHANGED <<rows, oauth, secret, secrets, code, consumed>>
  BY DEF MaybeEnable
<1>4. CodesInv'
  BY <1>3 DEF AccountsInv, CodesInv, SecretsApart, RecoveryCodeOnce
<1>. QED  BY <1>1, <1>2, <1>3, <1>4, FactorTyped, FactorWritten

(* Where CheckCode, ConsumeRecoveryCode and Disable find a request.              *)
LEMMA AtCode ==
    ASSUME AccountsInv, NEW r \in Callers, At(r, "code") \/ At(r, "disable")
    PROVE  /\ step[r] \in [pc : {"code", "disable"}, user : Emails,
                           then : {"confirm", "login", "disable"}]
           /\ step[r].user \in users
<1>1. step[r] \in [pc : {"code", "disable"}, user : Emails, then : {"confirm", "login", "disable"}]
  BY DEF At, AccountsInv, AccountsTypeOK, Places
<1>. QED  BY <1>1 DEF At, AccountsInv, StepsHold, ReliesOn

LEMMA ConsumeRecoveryCodeKeeps ==
    ASSUME AccountsInv, NEW r \in Callers, ConsumeRecoveryCode(r)
    PROVE  AccountsInv'
<1>1. PICK e : e = step[r].user
  OBVIOUS
<1>2. /\ At(r, "code") /\ code[e] # 0 /\ Continue(r, After(r))
      /\ consumed' = [consumed EXCEPT ![code[e]] = @ + 1] /\ code' = [code EXCEPT ![e] = 0]
      /\ UNCHANGED <<rows, oauth, secret, secrets, enabled, proved>>
  BY <1>1 DEF ConsumeRecoveryCode
<1>3. e \in users /\ e \in Emails /\ step[r] \in [pc : {"code", "disable"}, user : Emails,
                                  then : {"confirm", "login", "disable"}]
  BY <1>1, <1>2, AtCode
<1>4. After(r) \in Places /\ ReliesOn(After(r), users, first, secrets')
  <2>1. CASE step[r].then = "disable"
    <3>1. After(r) = [step[r] EXCEPT !.pc = "disable"]
      BY <2>1 DEF After
    <3>2. After(r) \in [pc : {"code", "disable"}, user : Emails,
                        then : {"confirm", "login", "disable"}]
      BY <3>1, <1>3
    <3>3. After(r).pc = "disable" /\ After(r).user = e
      BY <3>1, <1>3, <1>1
    <3>. QED  BY <3>2, <3>3, <1>3 DEF Places, ReliesOn
  <2>2. CASE step[r].then # "disable"
    BY <2>2, FreeToGo DEF After
  <2>. QED  BY <2>1, <2>2
<1>5. code[e] \in 1 .. secrets /\ consumed[code[e]] = 0 /\ code[e] = secret[e]
  BY <1>2, <1>3, FactorTyped DEF AccountsInv, CodesInv, RecoveryCodeOnce
<1>6. CodesInv'
  <2>1. SecretsApart'
    BY <1>2, <1>5, FactorTyped DEF AccountsInv, CodesInv, SecretsApart
  <2>2. ASSUME NEW c \in 1 .. MaxSecrets
        PROVE  consumed'[c] <= 1
    BY <1>2, <1>5, FactorTyped DEF AccountsInv, CodesInv, RecoveryCodeOnce
  <2>3. ASSUME NEW f \in Emails, code'[f] # 0
        PROVE  code'[f] = secret'[f] /\ consumed'[code'[f]] = 0
    <3>1. f # e /\ code'[f] = code[f] /\ code[f] = secret[f] /\ consumed[code[f]] = 0
      BY <1>2, <1>3, <2>3, FactorTyped DEF AccountsInv, CodesInv, RecoveryCodeOnce
    <3>2. code[f] # code[e]
      BY <3>1, <1>3, <1>5, <2>3 DEF AccountsInv, CodesInv, SecretsApart
    <3>. QED  BY <1>2, <3>1, <3>2, FactorTyped
  <2>. QED  BY <2>1, <2>2, <2>3 DEF CodesInv, RecoveryCodeOnce
<1>7. consumed' \in [1 .. MaxSecrets -> Nat]
  BY <1>2, <1>5, FactorTyped
<1>8. code' \in [Emails -> 0 .. secrets']
  <2>1. code \in [Emails -> 0 .. secrets] /\ 0 \in 0 .. secrets
    BY FactorTyped
  <2>2. code' = [code EXCEPT ![e] = 0] /\ secrets' = secrets
    BY <1>2
  <2>. QED  BY <2>1, <2>2
<1>. QED  BY <1>2, <1>4, <1>6, <1>7, <1>8, FactorTyped, FactorWritten

LEMMA DisableKeeps ==
    ASSUME AccountsInv, NEW r \in Callers, Disable(r)
    PROVE  AccountsInv'
<1>1. PICK e : e = step[r].user
  OBVIOUS
<1>2. /\ At(r, "disable") /\ Continue(r, Free) /\ enabled' = enabled \ {e}
      /\ secret' = [secret EXCEPT ![e] = 0] /\ code' = [code EXCEPT ![e] = 0]
      /\ UNCHANGED <<rows, oauth, secrets, consumed, proved>>
  BY <1>1 DEF Disable
<1>3. SecretsApart' /\ RecoveryCodeOnce'
  BY <1>2, FactorTyped DEF AccountsInv, CodesInv, SecretsApart, RecoveryCodeOnce
<1>4. secret' \in [Emails -> 0 .. secrets'] /\ code' \in [Emails -> 0 .. secrets']
  <2>1. /\ secret \in [Emails -> 0 .. secrets] /\ code \in [Emails -> 0 .. secrets]
        /\ 0 \in 0 .. secrets
    BY FactorTyped
  <2>2. /\ secret' = [secret EXCEPT ![e] = 0] /\ code' = [code EXCEPT ![e] = 0]
        /\ secrets' = secrets
    BY <1>2
  <2>. QED  BY <2>1, <2>2
<1>5. enabled' \subseteq users /\ \A f \in Emails \ users : secret'[f] = 0
  BY <1>2, FactorTyped
<1>. QED  BY <1>2, <1>3, <1>4, <1>5, FactorTyped, FreeToGo, FactorWritten DEF CodesInv

-----------------------------------------------------------------------------
(* The statements that only read: where they go, and what that relies on.        *)
LEMMA ReadKeeps ==
    ASSUME AccountsInv, NEW r \in Callers, NEW next \in Places, Continue(r, next),
           ReliesOn(next, users, first, secrets), UNCHANGED <<rows, oauth, totp>>
    PROVE  AccountsInv'
<1>1. pending' \in 0 .. flows' /\ flows' \in 0 .. MaxFlows
  BY DEF AccountsInv, AccountsTypeOK, oauth
<1>. QED  BY <1>1, OnlyMoves

LEMMA CountUsersKeeps ==
    ASSUME AccountsInv, NEW r \in Callers, CountUsers(r)
    PROVE  AccountsInv'
<1>1. /\ At(r, "inserted") /\ UNCHANGED <<rows, oauth, totp>>
      /\ Continue(r, IF Cardinality(users) = 1 THEN [step[r] EXCEPT !.pc = "promote"] ELSE Free)
  BY DEF CountUsers
<1>2. step[r] \in [pc : {"inserted", "promote", "enroll"}, user : Emails] /\ step[r].user \in users
  BY <1>1 DEF At, AccountsInv, AccountsTypeOK, Places, StepsHold, ReliesOn
<1>3. CASE Cardinality(users) = 1
  <2>1. PICK next : next = [step[r] EXCEPT !.pc = "promote"]
    OBVIOUS
  <2>2. next \in Places /\ next.pc = "promote" /\ next.user = step[r].user
    BY <2>1, <1>2 DEF Places
  <2>3. step[r].user \in first
    BY <1>2, <1>3, OneRowIsFirst DEF AccountsInv, RowsInv
  <2>4. ReliesOn(next, users, first, secrets)
    BY <2>2, <2>3, <1>2 DEF ReliesOn
  <2>. QED  BY <1>1, <1>3, <2>1, <2>2, <2>4, ReadKeeps
<1>4. CASE Cardinality(users) # 1
  <2>1. Free \in Places /\ ReliesOn(Free, users, first, secrets)
    BY DEF Places, ReliesOn, Free
  <2>. QED  BY <1>1, <1>4, <2>1, ReadKeeps
<1>. QED  BY <1>3, <1>4

LEMMA FindKeeps ==
    ASSUME AccountsInv, NEW r \in Callers, FindBySub(r) \/ FindByEmail(r)
    PROVE  AccountsInv'
<1>1. step[r] \in [pc : {"by_sub", "by_email", "link", "create"}, sub : Subs,
                   user : Emails, verified : BOOLEAN]
  BY GoogleRead DEF FindBySub, FindByEmail
<1>2. Free \in Places /\ ReliesOn(Free, users, first, secrets)
  BY DEF Places, ReliesOn, Free
<1>3. ASSUME NEW pc \in {"by_email", "link", "create"}, pc = "link" => step[r].user \in users
      PROVE  /\ [step[r] EXCEPT !.pc = pc] \in Places
             /\ ReliesOn([step[r] EXCEPT !.pc = pc], users, first, secrets)
  <2>1. PICK next : next = [step[r] EXCEPT !.pc = pc]
    OBVIOUS
  <2>2. next \in Places /\ next.pc = pc /\ next.user = step[r].user
    BY <2>1, <1>1 DEF Places
  <2>. QED  BY <2>1, <2>2, <1>3 DEF ReliesOn
<1>4. CASE FindBySub(r)
  <2>1. /\ UNCHANGED <<rows, oauth, totp>>
        /\ Continue(r, Free) \/ Continue(r, [step[r] EXCEPT !.pc = "by_email"])
    BY <1>4 DEF FindBySub
  <2>. QED  BY <2>1, <1>2, <1>3, ReadKeeps
<1>5. CASE FindByEmail(r)
  <2>1. PICK pc \in {"link", "create"} : /\ pc = "link" => step[r].user \in users
                                         /\ Continue(r, [step[r] EXCEPT !.pc = pc])
    BY <1>5 DEF FindByEmail
  <2>2. UNCHANGED <<rows, oauth, totp>>
    BY <1>5 DEF FindByEmail
  <2>. QED  BY <2>1, <2>2, <1>3, ReadKeeps
<1>. QED  BY <1>4, <1>5

LEMMA CheckCodeKeeps ==
    ASSUME AccountsInv, NEW r \in Callers, CheckCode(r)
    PROVE  AccountsInv'
<1>1. PICK next : next = [pc |-> "matched", user |-> step[r].user, then |-> step[r].then,
                          secret |-> secret[step[r].user], enabled |-> step[r].user \in enabled]
  OBVIOUS
<1>2. /\ At(r, "code") /\ secret[step[r].user] # 0 /\ Continue(r, next)
      /\ UNCHANGED <<rows, oauth, totp>>
  BY <1>1 DEF CheckCode
<1>3. /\ step[r].user \in users /\ step[r].user \in Emails
      /\ step[r].then \in {"confirm", "login", "disable"}
  BY <1>2, AtCode
<1>4. secret[step[r].user] \in 1 .. secrets /\ secret[step[r].user] \in 1 .. MaxSecrets
  BY <1>2, <1>3, FactorTyped
<1>5. next \in Places
  BY <1>1, <1>3, <1>4 DEF Places
<1>6. ReliesOn(next, users, first, secrets)
  BY <1>1, <1>3, <1>4 DEF ReliesOn
<1>. QED  BY <1>2, <1>5, <1>6, ReadKeeps

(* A request begins, or ends with an error.                                      *)
LEMMA BeginsOrFails ==
    ASSUME AccountsInv, NEW r \in Callers,
           \/ \E e \in Emails : Enroll(r, e)
           \/ \E e \in Emails, then \in {"confirm", "login", "disable"} : AskForCode(r, e, then)
           \/ StatementFails(r)
    PROVE  AccountsInv'
<1>1. ASSUME NEW e \in Emails, Enroll(r, e)
      PROVE  AccountsInv'
  <2>1. /\ [pc |-> "enroll", user |-> e] \in Places
        /\ ReliesOn([pc |-> "enroll", user |-> e], users, first, secrets)
    BY <1>1 DEF Enroll, Places, ReliesOn
  <2>. QED  BY <2>1, <1>1, ReadKeeps DEF Enroll
<1>2. ASSUME NEW e \in Emails, NEW then \in {"confirm", "login", "disable"},
             AskForCode(r, e, then)
      PROVE  AccountsInv'
  <2>1. /\ [pc |-> "code", user |-> e, then |-> then] \in Places
        /\ ReliesOn([pc |-> "code", user |-> e, then |-> then], users, first, secrets)
    BY <1>2 DEF AskForCode, Places, ReliesOn
  <2>. QED  BY <2>1, <1>2, ReadKeeps DEF AskForCode
<1>3. ASSUME StatementFails(r)
      PROVE  AccountsInv'
  <2>1. Free \in Places /\ ReliesOn(Free, users, first, secrets)
    BY DEF Places, ReliesOn, Free
  <2>. QED  BY <2>1, <1>3, ReadKeeps DEF StatementFails
<1>. QED  BY <1>1, <1>2, <1>3

LEMMA OauthKeeps ==
    ASSUME AccountsInv,
           \/ OauthStart
           \/ \E r \in Callers : ConsumeState(r)
           \/ \E r \in Callers, identity \in Identities, vouched \in BOOLEAN :
                 ExchangeCode(r, identity, vouched)
    PROVE  AccountsInv'
<1>1. pending \in 0 .. flows /\ flows \in 0 .. MaxFlows
  BY DEF AccountsInv, AccountsTypeOK
<1>2. CASE OauthStart
  <2>1. AccountsTypeOK'
    BY <1>1, <1>2, AccountsAssumption DEF OauthStart, AccountsInv, AccountsTypeOK, rows, totp
  <2>2. StepsHold' /\ RowsInv' /\ CodesInv'
    BY <1>2 DEF OauthStart, AccountsInv, StepsHold, RowsInv, CodesInv, FirstIsOne,
                OnlyFirstIsAdmin, OneAccountPerIdentity, SecretsApart, RecoveryCodeOnce, rows, totp
  <2>. QED  BY <2>1, <2>2 DEF AccountsInv
<1>3. ASSUME NEW r \in Callers, ConsumeState(r)
      PROVE  AccountsInv'
  <2>1. /\ [pc |-> "exchange"] \in Places
        /\ ReliesOn([pc |-> "exchange"], users, first, secrets)
    BY DEF Places, ReliesOn
  <2>2. pending' \in 0 .. flows' /\ flows' \in 0 .. MaxFlows
    BY <1>1, <1>3 DEF ConsumeState
  <2>. QED  BY <2>1, <2>2, <1>3, OnlyMoves DEF ConsumeState
<1>4. ASSUME NEW r \in Callers, NEW identity \in Identities, NEW vouched \in BOOLEAN,
             ExchangeCode(r, identity, vouched)
      PROVE  AccountsInv'
  <2>1. PICK next : next = [pc |-> "by_sub", sub |-> identity[1], user |-> identity[2],
                            verified |-> vouched]
    OBVIOUS
  <2>2. identity[1] \in Subs /\ identity[2] \in Emails
    BY AccountsAssumption
  <2>3. next \in Places /\ ReliesOn(next, users, first, secrets)
    BY <2>1, <2>2 DEF Places, ReliesOn
  <2>. QED  BY <2>1, <2>3, <1>4, ReadKeeps DEF ExchangeCode
<1>. QED  BY <1>2, <1>3, <1>4

LEMMA AccountsKeep == AccountsInv /\ [AccountsNext]_accountVars => AccountsInv'
<1>. SUFFICES ASSUME AccountsInv, [AccountsNext]_accountVars PROVE AccountsInv'
  OBVIOUS
<1>1. CASE UNCHANGED accountVars
  <2>1. UNCHANGED <<rows, oauth, totp, step>>
    BY <1>1 DEF accountVars
  <2>2. AccountsTypeOK'
    BY <2>1 DEF AccountsInv, AccountsTypeOK, rows, oauth, totp
  <2>3. StepsHold' /\ RowsInv' /\ CodesInv'
    BY <2>1 DEF AccountsInv, StepsHold, RowsInv, CodesInv, FirstIsOne,
                OnlyFirstIsAdmin, OneAccountPerIdentity, SecretsApart, RecoveryCodeOnce, rows, totp
  <2>. QED  BY <2>2, <2>3 DEF AccountsInv
<1>2. ASSUME NEW r \in Callers, Statement(r)
      PROVE  AccountsInv'
  BY <1>2, RegisterKeeps, CountUsersKeeps, PromoteKeeps, OauthKeeps, FindKeeps, LinkUserKeeps,
     CreateUserKeeps, BeginsOrFails, BeginEnrollmentKeeps, CheckCodeKeeps, MaybeEnableKeeps,
     ConsumeRecoveryCodeKeeps, DisableKeeps DEF Statement
<1>. QED  BY <1>1, <1>2, OauthKeeps, BeginsOrFails DEF AccountsNext

(* Everything below holds together in every reachable state.                     *)
THEOREM AccountsHold == AccountsSpec => []AccountsInv
BY AccountsInitially, AccountsKeep, PTL DEF AccountsSpec

(* However registrations and sign-ins interleave, nobody but the user of the very *)
(* first row becomes an admin (register: INSERT, COUNT, UPDATE).                 *)
THEOREM AdminWasFirst == AccountsSpec => []OnlyFirstIsAdmin
<1>1. AccountsInv => OnlyFirstIsAdmin
  BY DEF AccountsInv, RowsInv
<1>. QED  BY <1>1, AccountsHold, PTL

(* A Google subject belongs to one account, however the callbacks of             *)
(* find_or_create_user interleave and emails change in between.                  *)
THEOREM SubjectHasOneAccount == AccountsSpec => []OneAccountPerIdentity
<1>1. AccountsInv => OneAccountPerIdentity
  BY DEF AccountsInv, RowsInv
<1>. QED  BY <1>1, AccountsHold, PTL

(* A recovery code works once and goes with its secret, however enrollments,     *)
(* logins and disables interleave between reading the row and writing it.        *)
THEOREM RecoveryCodesOnce == AccountsSpec => []RecoveryCodeOnce
<1>1. AccountsInv => RecoveryCodeOnce
  BY DEF AccountsInv, CodesInv
<1>. QED  BY <1>1, AccountsHold, PTL

-----------------------------------------------------------------------------
(* The two halves together: each step of the lab is a step of one half and        *)
(* leaves the other alone.                                                       *)
LEMMA HalvesOfTheLab == AuthSpec => Spec /\ AccountsSpec
<1>1. AuthInit => Init /\ AccountsInit
  BY DEF AuthInit
<1>2. [AuthNext]_authVars => [Next]_vars /\ [AccountsNext]_accountVars
  BY DEF AuthNext, InAccounts, InSessions, InMemberClub, authVars, sessionVars
<1>. QED  BY <1>1, <1>2, PTL DEF AuthSpec, Spec, AccountsSpec

(* What is good for one use is used once, a link only while it is the newest of   *)
(* its kind (redeem of the three flows, recovery_codes).                         *)
THEOREM UsedOnce == AuthSpec => RedeemedOnce
BY HalvesOfTheLab, LinksRedeemedOnce, RecoveryCodesOnce DEF RedeemedOnce
=============================================================================
