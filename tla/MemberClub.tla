-------------------------------- MODULE MemberClub --------------------------------
(* The accounts and notes of the MemberClub API (apps/memberclub/api/src: lib.rs, *)
(* auth.rs, notes.rs, policy.rs). A handler authenticates, loads the note, asks   *)
(* the policy and writes in statements of their own; requests interleave between  *)
(* them. No handler changes a role, a tier or an organisation: they are constant. *)
EXTENDS Naturals, FiniteSets

CONSTANTS Handlers, Users,
          RoleOf, TierOf, OrgOf,   \* the columns of each user's row
          Bodies,                  \* texts that pass the checks of notes.rs
          Tiers,                   \* the tiers a note may ask for
          MaxUsers,                \* bound on the users that register
          MaxLogins,             \* bound on the sessions of a user
          MaxNotes                 \* bound on the notes created

Roles == {"member", "moderator", "admin"}

ASSUME MemberClubAssumption ==
    /\ RoleOf \in [Users -> Roles]
    /\ TierOf \in [Users -> {"free", "pro", "elite"}] /\ Tiers \subseteq {"free", "pro", "elite"}
    /\ MaxUsers \in Nat /\ MaxLogins \in Nat /\ MaxNotes \in Nat

VARIABLES registered,   \* users with a row
          opened,       \* how many sessions each user has opened
          revoked,      \* how many of them were revoked
          bearer,       \* users who were given an access token
          notes,        \* the rows of notes
          created,      \* notes ever created: ids are AUTOINCREMENT
          handler            \* where each request is

accounts == <<registered, opened, revoked, bearer>>
clubVars == <<accounts, notes, created, handler>>

AtRest == [pc |-> "idle"]

ClubInit ==
    /\ registered = {} /\ bearer = {}
    /\ opened = [u \in Users |-> 0] /\ revoked = [u \in Users |-> 0]
    /\ notes = {} /\ created = 0
    /\ handler = [r \in Handlers |-> AtRest]

Proceed(r, place) == handler' = [handler EXCEPT ![r] = place]
IsAt(r, pc) == handler[r].pc = pc

-----------------------------------------------------------------------------
(* policy.rs *)

Rank(tier) == CASE tier = "pro" -> 1 [] tier = "elite" -> 2 [] OTHER -> 0

IsAdmin(u) == RoleOf[u] = "admin"
IsPrivileged(u) == RoleOf[u] \in {"moderator", "admin"}

(* Mutant: drafts are for everyone in the tenant. *)
ReadAnyDraft(u, note) ==
    \/ IsAdmin(u)
    \/ OrgOf[u] = note.org /\ Rank(TierOf[u]) >= Rank(note.minTier)

CanReadDoc(u, note) ==
    \/ IsAdmin(u)
    \/ /\ OrgOf[u] = note.org
       /\ note.published \/ note.owner = u
       /\ Rank(TierOf[u]) >= Rank(note.minTier)

CanWriteDoc(u, note) ==
    IsAdmin(u) \/ note.owner = u \/ (IsPrivileged(u) /\ OrgOf[u] = note.org)

CanDeleteDoc(u, note) == IsAdmin(u) \/ note.owner = u

-----------------------------------------------------------------------------
(* register, login, logout: the row, the audit row, then issue_session *)

RegisterMember(r, u) ==
    /\ IsAt(r, "idle") /\ u \notin registered /\ Cardinality(registered) < MaxUsers
    /\ registered' = registered \union {u}
    /\ Proceed(r, [pc |-> "issue", user |-> u])
    /\ UNCHANGED <<opened, revoked, bearer, notes, created>>

LoginMember(r, u) ==
    /\ IsAt(r, "idle") /\ u \in registered
    /\ Proceed(r, [pc |-> "issue", user |-> u])
    /\ UNCHANGED <<accounts, notes, created>>

IssueSession(r) ==
    /\ IsAt(r, "issue") /\ opened[handler[r].user] < MaxLogins
    /\ opened' = [opened EXCEPT ![handler[r].user] = @ + 1]
    /\ bearer' = bearer \union {handler[r].user}
    /\ Proceed(r, AtRest)
    /\ UNCHANGED <<registered, revoked, notes, created>>

LogoutMember(u) ==
    /\ revoked[u] < opened[u]
    /\ revoked' = [revoked EXCEPT ![u] = @ + 1]
    /\ UNCHANGED <<registered, opened, bearer, notes, created, handler>>

(* A live session, or an access token: no logout takes that back before it ends. *)
Authenticated(u) == u \in bearer \/ revoked[u] < opened[u]

-----------------------------------------------------------------------------
(* notes.rs *)

CreateNote(u, body, tier, published) ==
    /\ Authenticated(u) /\ created < MaxNotes
    /\ notes' = notes \union {[id |-> created + 1, owner |-> u, org |-> OrgOf[u],
                               body |-> body, minTier |-> tier, published |-> published]}
    /\ created' = created + 1
    /\ UNCHANGED <<accounts, handler>>

(* load_note. The policy sees only what was loaded, so it is asked here; who is  *)
(* denied gets no further.                                                      *)
LoadNote(r, u, note, op) ==
    /\ IsAt(r, "idle") /\ Authenticated(u)
    /\ Proceed(r, [pc |-> op, user |-> u, note |-> note])
    /\ UNCHANGED <<accounts, notes, created>>

(* get_note answers with the note it loaded. *)
GetNote(r, u, note) == CanReadDoc(u, note) /\ LoadNote(r, u, note, "answered")

LoadToUpdate(r, u, note) == CanWriteDoc(u, note) /\ LoadNote(r, u, note, "update")
LoadToDelete(r, u, note) == CanDeleteDoc(u, note) /\ LoadNote(r, u, note, "delete")

Or(option, value) == IF option = {} THEN value ELSE CHOOSE x \in option : TRUE

Patched(note, patch) ==
    [note EXCEPT !.body = Or(patch.body, @), !.minTier = Or(patch.minTier, @),
                 !.published = Or(patch.published, @)]

Optional(S) == {{}} \union {{x} : x \in S}
Patches == [body : Optional(Bodies), minTier : Optional(Tiers), published : Optional(BOOLEAN)]

(* Mutant: an upsert. *)
Upsert(r, patch) ==
    /\ IsAt(r, "update")
    /\ notes' = {n \in notes : n.id # handler[r].note.id} \union {Patched(handler[r].note, patch)}
    /\ Proceed(r, AtRest)
    /\ UNCHANGED <<accounts, created>>

(* The UPDATE writes all three columns, the ones the body leaves out as loaded;  *)
(* a row that is gone by then is an error.                                       *)
UpdateNote(r, patch) ==
    /\ IsAt(r, "update")
    /\ \E n \in notes : n.id = handler[r].note.id
    /\ notes' = {n \in notes : n.id # handler[r].note.id} \union {Patched(handler[r].note, patch)}
    /\ Proceed(r, AtRest)
    /\ UNCHANGED <<accounts, created>>

DeleteNote(r) ==
    /\ IsAt(r, "delete")
    /\ notes' = {n \in notes : n.id # handler[r].note.id}
    /\ Proceed(r, AtRest)
    /\ UNCHANGED <<accounts, created>>

(* The answer is on its way; or deny, an error, a client that went away. *)
Answer(r) ==
    /\ ~IsAt(r, "idle")
    /\ Proceed(r, AtRest)
    /\ UNCHANGED <<accounts, notes, created>>

ClubNext ==
    \/ \E r \in Handlers :
          \/ IssueSession(r) \/ DeleteNote(r) \/ Answer(r)
          \/ \E u \in Users : RegisterMember(r, u) \/ LoginMember(r, u)
          \/ \E u \in Users, n \in notes :
                GetNote(r, u, n) \/ LoadToUpdate(r, u, n) \/ LoadToDelete(r, u, n)
          \/ \E patch \in Patches : UpdateNote(r, patch)
    \/ \E u \in Users : LogoutMember(u)
    \/ \E u \in Users, b \in Bodies, t \in Tiers, p \in BOOLEAN : CreateNote(u, b, t, p)

ClubSpec == ClubInit /\ [][ClubNext]_clubVars

-----------------------------------------------------------------------------
Note == [id : 1 .. MaxNotes, owner : Users, org : {OrgOf[u] : u \in Users},
         body : Bodies, minTier : Tiers, published : BOOLEAN]

(* The rows hold what the schema allows: an id names one note, its owner has a   *)
(* row and its organisation is the owner's; sessions are of users with a row.    *)
ClubTypeOK ==
    /\ registered \subseteq Users /\ bearer \subseteq registered
    /\ \A u \in Users : revoked[u] \in 0 .. opened[u] /\ opened[u] \in 0 .. MaxLogins
    /\ \A u \in Users : opened[u] > 0 => u \in registered
    /\ notes \subseteq Note /\ created \in 0 .. MaxNotes
    /\ \A n \in notes : n.id <= created /\ n.owner \in registered /\ n.org = OrgOf[n.owner]
    /\ \A m, n \in notes : m.id = n.id => m = n

(* "Admins can read anything. Same-tenant users can read either their own        *)
(* (drafts included) or anyone's published note" (policy.rs): a note that was    *)
(* answered to somebody without the role or the tenant for it was his own or a   *)
(* published one of his tenant, within his tier, whoever changed it meanwhile.   *)
ReadersMayRead ==
    \A r \in Handlers : IsAt(r, "answered") =>
       LET u == handler[r].user  n == handler[r].note
       IN  RoleOf[u] # "admin" =>
              /\ n.org = OrgOf[u]
              /\ n.owner # u => n.published
              /\ n.minTier = "elite" => TierOf[u] = "elite"
              /\ n.minTier = "pro" => TierOf[u] # "free"

(* A note never changes hands, nor comes back once deleted, and what others do   *)
(* to it is done by an admin or, short of deleting it, a moderator of its tenant,*)
(* however late the write comes after the check.                                 *)
ChangesArePermitted ==
    [][/\ \A n \in notes' : n.id <= created =>
             \E m \in notes : m.id = n.id /\ m.owner = n.owner /\ m.org = n.org
       /\ \A m \in notes \ notes' : \E r \in Handlers :
             /\ handler[r].pc \in {"update", "delete"} /\ handler[r].note.id = m.id
             /\ \/ handler[r].user = m.owner
                \/ RoleOf[handler[r].user] = "admin"
                \/ /\ RoleOf[handler[r].user] = "moderator" /\ OrgOf[handler[r].user] = m.org
                   /\ \E n \in notes' : n.id = m.id]_clubVars

=============================================================================
