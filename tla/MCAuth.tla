--------------------------------- MODULE MCAuth ---------------------------------
(* Two requests at a time everywhere. In auth-demo two users: one subject has     *)
(* changed its email, and one email now belongs to another subject. In           *)
(* MemberClub an owner, a moderator of the same tenant, a member of another       *)
(* tenant and an admin elsewhere, around one note.                               *)
EXTENDS AuthLab, TLC

CONSTANTS r1, r2, e1, e2, g1, g2,
          owner, moderator, stranger, root, b1

MCRequests == {r1, r2}
MCMaxLinks == [verify |-> 1, reset |-> 2, magic |-> 1]
MCEmails == {e1, e2}
MCSubs == {g1, g2}
MCIdentities == {<<g1, e1>>, <<g1, e2>>, <<g2, e1>>}

MCUsers == {owner, moderator, stranger, root}
MCRoleOf == [u \in MCUsers |-> CASE u = root -> "admin" [] u = moderator -> "moderator"
                                 [] OTHER -> "member"]
MCTierOf == [u \in MCUsers |-> IF u = owner THEN "pro" ELSE "free"]
MCOrgOf == [u \in MCUsers |-> IF u \in {owner, moderator} THEN 1 ELSE 2]

Symmetric == Permutations(MCRequests)
=============================================================================
