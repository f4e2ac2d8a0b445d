-------------------------------- MODULE AuthLab --------------------------------
(* The two servers that keep accounts. projects/04-auth-demo is one account's     *)
(* sessions, tokens and links (AuthSessions) beside the users table and its       *)
(* companions (AuthAccounts), which meet only in the id of the user;             *)
(* apps/memberclub/api is MemberClub. So one of the three moves at a time, and    *)
(* the initial state picks which.                                                *)
EXTENDS AuthSessions, AuthAccounts, MemberClub

VARIABLE part

sessionVars == vars
authVars == <<part, accountVars, sessionVars, clubVars>>

AuthInit ==
    /\ part \in {"accounts", "sessions", "memberclub"}
    /\ Init /\ AccountsInit /\ ClubInit

InAccounts == part = "accounts" /\ UNCHANGED <<part, sessionVars, clubVars>>
InSessions == part = "sessions" /\ UNCHANGED <<part, accountVars, clubVars>>
InMemberClub == part = "memberclub" /\ UNCHANGED <<part, accountVars, sessionVars>>

AuthNext ==
    \/ InAccounts /\ AccountsNext
    \/ InSessions /\ Next
    \/ InMemberClub /\ ClubNext

AuthSpec == AuthInit /\ [][AuthNext]_authVars

------------------------------------------------------------------------------
(* A link is redeemed once, and only the newest one of its kind; and so is the    *)
(* recovery code of an enrollment.                                               *)
RedeemedOnce == RedeemsNewestOnce /\ []RecoveryCodeOnce
=============================================================================
