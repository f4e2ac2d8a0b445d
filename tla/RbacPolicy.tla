----------------------------- MODULE RbacPolicy -----------------------------
(***************************************************************************)
(* The predicates of projects/05-rbac-policy-lab, over everything they     *)
(* read: one user, one document and the time, each of which the             *)
(* application around them (external) changes step by step.                *)
(***************************************************************************)
EXTENDS Naturals, Sequences

CONSTANTS
    Orgs,
    StepUpAge,  \* the 15 minutes of require_step_up
    LastMinute,  \* bound: the clock
    Never       \* totp_last_verified_at is None

ASSUME PolicyAssumption == StepUpAge \in Nat /\ LastMinute \in Nat /\ Never \notin Nat

VARIABLES
    user,      \* email_verified, role, tier, org_id, totp_last_verified_at
    document,  \* whether the user owns it, org_id, min_tier, published
    minute     \* Ctx.now

policyVars == <<user, document, minute>>

Roles == <<"Member", "Moderator", "Admin", "Owner">>
Tiers == 1..3
Accounts == [verified : BOOLEAN, role : 1..4, tier : Tiers, org : Orgs,
             totp : (0..LastMinute) \cup {Never}]
Documents == [own : BOOLEAN, org : Orgs, minTier : Tiers, published : BOOLEAN]

PolicyTypeOK == user \in Accounts /\ document \in Documents /\ minute \in 0..LastMinute

-----------------------------------------------------------------------------
RoleOf(u) == Roles[u.role]

\* Mutant: an Owner is not an admin.
IsExactlyAdmin(u) == RoleOf(u) = "Admin"

IsAdmin(u) == RoleOf(u) \in {"Admin", "Owner"}

IsModeratorOrAbove(u) == RoleOf(u) \in {"Moderator", "Admin", "Owner"}

StepUp(u) == u.totp # Never /\ minute - u.totp <= StepUpAge

SameTenantOrAdmin(u, org) == IsAdmin(u) \/ u.org = org

CanRead(u, doc) ==
    \/ IsAdmin(u)
    \/ /\ SameTenantOrAdmin(u, doc.org)
       /\ doc.published \/ doc.own
       /\ u.tier >= doc.minTier

CanWrite(u, doc) ==
    \/ IsAdmin(u)
    \/ doc.own /\ u.verified
    \/ ~doc.own /\ IsModeratorOrAbove(u) /\ u.org = doc.org

CanDelete(u, doc) ==
    IF IsAdmin(u) THEN StepUp(u) ELSE doc.own /\ u.verified

CanPublish(u, doc) ==
    IsModeratorOrAbove(u) /\ SameTenantOrAdmin(u, doc.org) /\ u.verified

CanGrantRole(u, role, org) ==
    /\ IsAdmin(u)
    /\ role = "Owner" => RoleOf(u) = "Owner"
    /\ SameTenantOrAdmin(u, org)
    /\ StepUp(u)

CanRevokeAdmin(u, org, remaining) ==
    IsAdmin(u) /\ SameTenantOrAdmin(u, org) /\ StepUp(u) /\ remaining # 0

Allowed(u, doc, right) ==
    CASE right.to = "read"    -> CanRead(u, doc)
      [] right.to = "write"   -> CanWrite(u, doc)
      [] right.to = "delete"  -> CanDelete(u, doc)
      [] right.to = "publish" -> CanPublish(u, doc)
      [] right.to = "grant"   -> CanGrantRole(u, right.role, right.org)
      [] right.to = "revoke"  -> CanRevokeAdmin(u, right.org, 1)

Rights(u, doc) ==
    {right \in [to : {"read", "write", "delete", "publish", "grant", "revoke"},
                role : {"Member", "Admin", "Owner"}, org : Orgs] : Allowed(u, doc, right)}

-----------------------------------------------------------------------------
\* The application (external).

PolicyInit ==
    /\ \E org \in Orgs, tier \in Tiers :
          user = [verified |-> FALSE, role |-> 1, tier |-> tier, org |-> org, totp |-> Never]
    /\ document \in [own : BOOLEAN, org : Orgs, minTier : Tiers, published : {FALSE}]
    /\ minute = 0

VerifyEmail == user' = [user EXCEPT !.verified = TRUE] /\ UNCHANGED <<document, minute>>

PassTotp == user' = [user EXCEPT !.totp = minute] /\ UNCHANGED <<document, minute>>

Promote ==
    /\ user.role < Len(Roles)
    /\ user' = [user EXCEPT !.role = @ + 1]
    /\ UNCHANGED <<document, minute>>

Publish ==
    /\ document' = [document EXCEPT !.published = TRUE]
    /\ UNCHANGED <<user, minute>>

Minute ==
    /\ minute < LastMinute
    /\ minute' = minute + 1
    /\ UNCHANGED <<user, document>>

PolicyNext == VerifyEmail \/ PassTotp \/ Promote \/ Publish \/ Minute

PolicySpec == PolicyInit /\ [][PolicyNext]_policyVars

-----------------------------------------------------------------------------
\* Whoever gains trust loses no right: a promotion, a confirmed address, a fresh
\* TOTP check or a publication leaves everything allowed that was allowed, but
\* for the delete that asks an admin for a step-up the owner did not need; and
\* time alone grants nothing.
TrustKeepsRights ==
    [][/\ minute' = minute =>
            \A right \in Rights(user, document) \ Rights(user, document)' :
               right.to = "delete" /\ IsAdmin(user') /\ ~IsAdmin(user) /\ ~StepUp(user)
       /\ minute' > minute => Rights(user, document)' \subseteq Rights(user, document)]_policyVars

=============================================================================
