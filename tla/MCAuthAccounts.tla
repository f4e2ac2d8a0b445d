------------------------------ MODULE MCAuthAccounts ------------------------------
(* Two requests at a time and two users. One subject has changed its email, and  *)
(* one email now belongs to another subject.                                     *)
EXTENDS AuthAccounts, TLC
CONSTANTS r1, r2, e1, e2, g1, g2

MCCallers == {r1, r2}
MCEmails == {e1, e2}
MCSubs == {g1, g2}
MCIdentities == {<<g1, e1>>, <<g1, e2>>, <<g2, e1>>}
Symmetric == Permutations(MCCallers)
=============================================================================
