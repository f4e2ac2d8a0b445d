--------------------------- MODULE MemberClubProofs ---------------------------
(* The policy of MemberClub's notes, for any users, roles, tiers, organisations  *)
(* and texts, and any number of requests.                                        *)
EXTENDS MemberClub, TLAPS

-----------------------------------------------------------------------------
(* The inductive invariant: what a request was allowed to do with the note it    *)
(* loaded, it is allowed to do with the row of that id for as long as there is   *)
(* one, since owner and organisation of a row never change.                      *)

NoteRow == [id : Nat, owner : Users, org : {OrgOf[u] : u \in Users},
            body : Bodies, minTier : Tiers, published : BOOLEAN]

Typed ==
    /\ created \in Nat
    /\ notes \subseteq NoteRow
    /\ handler = [r \in Handlers |-> handler[r]]

IdsNameRows ==
    /\ \A n \in notes : n.id <= created
    /\ \A m, n \in notes : m.id = n.id => m = n

HasNote(r) == handler[r].pc \in {"answered", "update", "delete"}

(* The note a request loaded, and who sent it. *)
Loaded ==
    \A r \in Handlers : HasNote(r) =>
        /\ handler[r].user \in Users
        /\ handler[r].note \in NoteRow /\ handler[r].note.id <= created
        /\ \A m \in notes : m.id = handler[r].note.id =>
              m.owner = handler[r].note.owner /\ m.org = handler[r].note.org

Decided ==
    \A r \in Handlers :
        /\ IsAt(r, "answered") => CanReadDoc(handler[r].user, handler[r].note)
        /\ IsAt(r, "update") => CanWriteDoc(handler[r].user, handler[r].note)
        /\ IsAt(r, "delete") => CanDeleteDoc(handler[r].user, handler[r].note)

IInv == Typed /\ IdsNameRows /\ Loaded /\ Decided

LEMMA InitIInv == ClubInit => IInv
BY DEF ClubInit, IInv, Typed, IdsNameRows, Loaded, Decided, HasNote, IsAt, AtRest

(* What a step does to where one request is.                                     *)
LEMMA Goes ==
    ASSUME Typed, NEW r \in Handlers, NEW place, Proceed(r, place)
    PROVE  /\ handler' = [q \in Handlers |-> handler'[q]]
           /\ handler'[r] = place
           /\ \A q \in Handlers \ {r} : handler'[q] = handler[q]
BY DEF Typed, Proceed

(* Rows that go, and requests that hold no note, disturb nothing.                *)
LEMMA Quiet ==
    ASSUME IInv, created' = created, notes' \subseteq notes,
           handler' = [q \in Handlers |-> handler'[q]],
           \A q \in Handlers : handler'[q] = handler[q] \/ ~HasNote(q)'
    PROVE  IInv'
<1>1. Typed' /\ IdsNameRows'
  BY DEF IInv, Typed, IdsNameRows
<1>2. Loaded'
  BY DEF IInv, Loaded, HasNote
<1>3. Decided'
  BY DEF IInv, Decided, HasNote, IsAt, CanReadDoc, CanWriteDoc, CanDeleteDoc,
         IsAdmin, IsPrivileged
<1>. QED  BY <1>1, <1>2, <1>3 DEF IInv

-----------------------------------------------------------------------------
(* One lemma per action that loads or writes a note. *)

LEMMA LoadKeeps ==
    ASSUME IInv, NEW r \in Handlers, NEW u \in Users, NEW n \in notes,
           GetNote(r, u, n) \/ LoadToUpdate(r, u, n) \/ LoadToDelete(r, u, n)
    PROVE  IInv'
<1>1. ASSUME NEW op \in {"answered", "update", "delete"}, LoadNote(r, u, n, op),
             op = "answered" => CanReadDoc(u, n),
             op = "update" => CanWriteDoc(u, n),
             op = "delete" => CanDeleteDoc(u, n)
      PROVE  IInv'
  <2>. DEFINE place == [pc |-> op, user |-> u, note |-> n]
  <2>1. Proceed(r, place) /\ UNCHANGED <<notes, created>>
    BY <1>1 DEF LoadNote
  <2>2. /\ handler' = [q \in Handlers |-> handler'[q]] /\ handler'[r] = place
        /\ \A q \in Handlers \ {r} : handler'[q] = handler[q]
    BY <2>1, Goes DEF IInv
  <2>3. place.pc = op /\ place.user = u /\ place.note = n
    OBVIOUS
  <2>. HIDE DEF place
  <2>4. Typed' /\ IdsNameRows'
    BY <2>1, <2>2 DEF IInv, Typed, IdsNameRows
  <2>5. n \in NoteRow /\ n.id <= created
    BY DEF IInv, Typed, IdsNameRows
  <2>6. Loaded'
    BY <2>1, <2>2, <2>3, <2>5 DEF IInv, IdsNameRows, Loaded, HasNote
  <2>7. Decided'
    BY <1>1, <2>2, <2>3
       DEF IInv, Decided, IsAt, CanReadDoc, CanWriteDoc, CanDeleteDoc, IsAdmin, IsPrivileged
  <2>. QED  BY <2>4, <2>6, <2>7 DEF IInv
<1>. QED  BY <1>1 DEF GetNote, LoadToUpdate, LoadToDelete

LEMMA CreateKeeps ==
    ASSUME IInv, NEW u \in Users, NEW b \in Bodies, NEW t \in Tiers, NEW p \in BOOLEAN,
           CreateNote(u, b, t, p)
    PROVE  IInv'
<1>. DEFINE new == [id |-> created + 1, owner |-> u, org |-> OrgOf[u],
                    body |-> b, minTier |-> t, published |-> p]
<1>1. notes' = notes \union {new} /\ created' = created + 1 /\ handler' = handler
  BY DEF CreateNote
<1>2. new \in NoteRow /\ new.id = created + 1 /\ created \in Nat
  BY DEF NoteRow, IInv, Typed
<1>. HIDE DEF new
<1>3. \A n \in notes : n.id \in Nat /\ n.id <= created
  BY DEF IInv, Typed, IdsNameRows, NoteRow
<1>4. Typed'
  BY <1>1, <1>2 DEF IInv, Typed
<1>5. IdsNameRows'
  BY <1>1, <1>2, <1>3 DEF IInv, IdsNameRows
<1>6. Loaded'
  <2>. SUFFICES ASSUME NEW r \in Handlers, HasNote(r)
                PROVE  /\ handler[r].user \in Users
                       /\ handler[r].note \in NoteRow /\ handler[r].note.id <= created'
                       /\ \A m \in notes' : m.id = handler[r].note.id =>
                             m.owner = handler[r].note.owner /\ m.org = handler[r].note.org
    BY <1>1 DEF Loaded, HasNote
  <2>1. handler[r].note.id \in Nat /\ handler[r].note.id <= created
    BY DEF IInv, Loaded, NoteRow
  <2>. QED  BY <1>1, <1>2, <2>1 DEF IInv, Loaded
<1>7. Decided'
  BY <1>1 DEF IInv, Decided, IsAt, CanReadDoc, CanWriteDoc, CanDeleteDoc, IsAdmin, IsPrivileged
<1>. QED  BY <1>4, <1>5, <1>6, <1>7 DEF IInv

LEMMA OrIsIn ==
    ASSUME NEW S, NEW option \in Optional(S), NEW value \in S
    PROVE  Or(option, value) \in S
BY DEF Or, Optional

LEMMA PatchedRow ==
    ASSUME NEW n \in NoteRow, NEW patch \in Patches
    PROVE  /\ Patched(n, patch) \in NoteRow
           /\ Patched(n, patch).id = n.id
           /\ Patched(n, patch).owner = n.owner
           /\ Patched(n, patch).org = n.org
<1>1. /\ patch.body \in Optional(Bodies) /\ patch.minTier \in Optional(Tiers)
      /\ patch.published \in Optional(BOOLEAN)
  BY DEF Patches
<1>2. n.body \in Bodies /\ n.minTier \in Tiers /\ n.published \in BOOLEAN
  BY DEF NoteRow
<1>3. /\ Or(patch.body, n.body) \in Bodies /\ Or(patch.minTier, n.minTier) \in Tiers
      /\ Or(patch.published, n.published) \in BOOLEAN
  BY <1>1, <1>2, OrIsIn
<1>. QED  BY <1>3 DEF Patched, NoteRow

(* UpdateNote replaces the row of an id by one of the same owner.                *)
LEMMA UpdateWrites ==
    ASSUME IInv, NEW r \in Handlers, NEW patch \in Patches, UpdateNote(r, patch)
    PROVE  \E new \in NoteRow :
              /\ notes' = {n \in notes : n.id # handler[r].note.id} \union {new}
              /\ new.id = handler[r].note.id
              /\ new.owner = handler[r].note.owner /\ new.org = handler[r].note.org
              /\ \E m \in notes : m.id = new.id /\ m.owner = new.owner /\ m.org = new.org
<1>1. handler[r].note \in NoteRow /\ HasNote(r)
  BY DEF IInv, Loaded, HasNote, UpdateNote, IsAt
<1>2. \E m \in notes : m.id = handler[r].note.id
  BY DEF UpdateNote
<1>3. \A m \in notes : m.id = handler[r].note.id =>
          m.owner = handler[r].note.owner /\ m.org = handler[r].note.org
  BY <1>1 DEF IInv, Loaded
<1>4. notes' = {n \in notes : n.id # handler[r].note.id} \union {Patched(handler[r].note, patch)}
  BY DEF UpdateNote
<1>. QED  BY <1>1, <1>2, <1>3, <1>4, PatchedRow

LEMMA UpdateKeeps ==
    ASSUME IInv, NEW r \in Handlers, NEW patch \in Patches, UpdateNote(r, patch)
    PROVE  IInv'
<1>1. PICK new \in NoteRow :
          /\ notes' = {n \in notes : n.id # handler[r].note.id} \union {new}
          /\ new.id = handler[r].note.id
          /\ \E m \in notes : m.id = new.id /\ m.owner = new.owner /\ m.org = new.org
  BY UpdateWrites
<1>2. created' = created /\ Proceed(r, AtRest)
  BY DEF UpdateNote
<1>3. /\ handler' = [q \in Handlers |-> handler'[q]] /\ ~HasNote(r)'
      /\ \A q \in Handlers \ {r} : handler'[q] = handler[q]
  BY <1>2, Goes DEF IInv, HasNote, AtRest
<1>4. Typed' /\ IdsNameRows'
  BY <1>1, <1>2, <1>3 DEF IInv, Typed, IdsNameRows
<1>5. Loaded'
  BY <1>1, <1>2, <1>3 DEF IInv, Loaded, HasNote
<1>6. Decided'
  BY <1>3 DEF IInv, Decided, HasNote, IsAt, CanReadDoc, CanWriteDoc, CanDeleteDoc,
              IsAdmin, IsPrivileged
<1>. QED  BY <1>4, <1>5, <1>6 DEF IInv

-----------------------------------------------------------------------------
(* The steps that neither load nor write a note, and deletions.                  *)
LEMMA OtherKeeps ==
    ASSUME IInv,
           \/ UNCHANGED clubVars
           \/ \E u \in Users : LogoutMember(u)
           \/ \E r \in Handlers :
                 \/ IssueSession(r) \/ DeleteNote(r) \/ Answer(r)
                 \/ \E u \in Users : RegisterMember(r, u) \/ LoginMember(r, u)
    PROVE  IInv'
<1>1. CASE UNCHANGED <<notes, created, handler>>
  BY <1>1, Quiet DEF IInv, Typed
<1>2. ASSUME NEW r \in Handlers, NEW place, Proceed(r, place),
             place.pc \notin {"answered", "update", "delete"},
             created' = created, notes' \subseteq notes
      PROVE  IInv'
  <2>1. /\ handler' = [q \in Handlers |-> handler'[q]] /\ ~HasNote(r)'
        /\ \A q \in Handlers \ {r} : handler'[q] = handler[q]
    BY <1>2, Goes DEF IInv, HasNote
  <2>. QED  BY <1>2, <2>1, Quiet
<1>3. ASSUME NEW r \in Handlers, IssueSession(r) \/ DeleteNote(r) \/ Answer(r)
      PROVE  IInv'
  <2>1. Proceed(r, AtRest) /\ created' = created /\ notes' \subseteq notes
    BY <1>3 DEF IssueSession, DeleteNote, Answer
  <2>. QED  BY <1>2, <2>1 DEF AtRest
<1>4. ASSUME NEW r \in Handlers, NEW u \in Users, RegisterMember(r, u) \/ LoginMember(r, u)
      PROVE  IInv'
  <2>1. Proceed(r, [pc |-> "issue", user |-> u]) /\ created' = created /\ notes' \subseteq notes
    BY <1>4 DEF RegisterMember, LoginMember
  <2>. QED  BY <1>2, <2>1
<1>. QED  BY <1>1, <1>3, <1>4 DEF LogoutMember, clubVars

LEMMA NextKeeps ==
    ASSUME IInv, [ClubNext]_clubVars
    PROVE  IInv'
BY OtherKeeps, LoadKeeps, CreateKeeps, UpdateKeeps DEF ClubNext

-----------------------------------------------------------------------------
(* The invariant the theorems below follow from holds in every reachable state.  *)
THEOREM InductiveInvariant == ClubSpec => []IInv
<1>1. IInv /\ [ClubNext]_clubVars => IInv'
  BY NextKeeps
<1>. QED  BY <1>1, InitIInv, PTL DEF ClubSpec

-----------------------------------------------------------------------------
(* The types, with what they rest on: a request that is about to open a session  *)
(* is of a user with a row, and so is whoever is authenticated.                  *)

AccountsTyped ==
    /\ registered \subseteq Users /\ bearer \subseteq registered
    /\ opened \in [Users -> Nat] /\ revoked \in [Users -> Nat]
    /\ \A u \in Users : revoked[u] <= opened[u] /\ opened[u] <= MaxLogins
    /\ \A u \in Users : opened[u] > 0 => u \in registered
    /\ \A r \in Handlers : IsAt(r, "issue") => handler[r].user \in registered

NotesTyped ==
    /\ created <= MaxNotes
    /\ \A n \in notes : n.id > 0 /\ n.owner \in registered /\ n.org = OrgOf[n.owner]

TypeParts == AccountsTyped /\ NotesTyped

LEMMA AuthenticatedHaveARow ==
    ASSUME AccountsTyped, NEW u \in Users, Authenticated(u) PROVE u \in registered
BY DEF AccountsTyped, Authenticated

LEMMA TypeInitially == ClubInit => TypeParts
BY MemberClubAssumption DEF ClubInit, TypeParts, AccountsTyped, NotesTyped, IsAt, AtRest

LEMMA AccountsStayTyped ==
    ASSUME IInv, AccountsTyped, [ClubNext]_clubVars
    PROVE  AccountsTyped' /\ registered \subseteq registered'
<1>. DEFINE Waits(r) == IsAt(r, "issue") => handler[r].user \in registered
<1>1. ASSUME NEW r \in Handlers, NEW place, Proceed(r, place),
             place.pc = "issue" => place.user \in registered',
             registered \subseteq registered'
      PROVE  \A q \in Handlers : Waits(q)'
  <2>1. handler'[r] = place /\ \A q \in Handlers \ {r} : handler'[q] = handler[q]
    BY <1>1, Goes DEF IInv
  <2>. QED  BY <1>1, <2>1 DEF AccountsTyped, IsAt
<1>2. ASSUME NEW r \in Handlers, NEW u \in Users, RegisterMember(r, u)
      PROVE  AccountsTyped' /\ registered \subseteq registered'
  <2>1. /\ registered' = registered \union {u} /\ UNCHANGED <<opened, revoked, bearer>>
        /\ Proceed(r, [pc |-> "issue", user |-> u])
    BY <1>2 DEF RegisterMember
  <2>2. \A q \in Handlers : Waits(q)'
    BY <1>1, <2>1
  <2>. QED  BY <2>1, <2>2 DEF AccountsTyped
<1>3. ASSUME NEW r \in Handlers, IssueSession(r)
      PROVE  AccountsTyped' /\ registered \subseteq registered'
  <2>. DEFINE u == handler[r].user
  <2>1. /\ opened[u] < MaxLogins /\ opened' = [opened EXCEPT ![u] = opened[u] + 1]
        /\ bearer' = bearer \union {u} /\ Proceed(r, AtRest)
        /\ UNCHANGED <<registered, revoked>> /\ u \in registered /\ u \in Users
    BY <1>3 DEF IssueSession, AccountsTyped
  <2>2. \A q \in Handlers : Waits(q)'
    BY <1>1, <2>1 DEF AtRest
  <2>. HIDE DEF u
  <2>. QED  BY <2>1, <2>2, MemberClubAssumption DEF AccountsTyped
<1>4. ASSUME NEW u \in Users, LogoutMember(u)
      PROVE  AccountsTyped' /\ registered \subseteq registered'
  BY <1>4 DEF LogoutMember, AccountsTyped, IsAt
<1>5. ASSUME NEW r \in Handlers, NEW place, Proceed(r, place), UNCHANGED accounts,
             place.pc = "issue" => place.user \in registered
      PROVE  AccountsTyped' /\ registered \subseteq registered'
  <2>1. \A q \in Handlers : Waits(q)'
    BY <1>1, <1>5 DEF accounts
  <2>. QED  BY <1>5, <2>1 DEF AccountsTyped, accounts
<1>6. ASSUME NEW r \in Handlers,
             \/ \E u \in Users : LoginMember(r, u)
             \/ Answer(r) \/ DeleteNote(r)
             \/ \E patch \in Patches : UpdateNote(r, patch)
             \/ \E u \in Users, n \in notes :
                   GetNote(r, u, n) \/ LoadToUpdate(r, u, n) \/ LoadToDelete(r, u, n)
      PROVE  AccountsTyped' /\ registered \subseteq registered'
  <2>1. CASE Answer(r) \/ DeleteNote(r) \/ \E patch \in Patches : UpdateNote(r, patch)
    <3>1. UNCHANGED accounts /\ Proceed(r, AtRest)
      BY <2>1 DEF Answer, DeleteNote, UpdateNote
    <3>. QED  BY <1>5, <3>1 DEF AtRest
  <2>2. ASSUME NEW u \in Users, LoginMember(r, u)
        PROVE  AccountsTyped' /\ registered \subseteq registered'
    <3>1. UNCHANGED accounts /\ Proceed(r, [pc |-> "issue", user |-> u]) /\ u \in registered
      BY <2>2 DEF LoginMember
    <3>. QED  BY <1>5, <3>1
  <2>3. ASSUME NEW u \in Users, NEW n \in notes, NEW op \in {"answered", "update", "delete"},
               LoadNote(r, u, n, op)
        PROVE  AccountsTyped' /\ registered \subseteq registered'
    <3>1. UNCHANGED accounts /\ Proceed(r, [pc |-> op, user |-> u, note |-> n])
      BY <2>3 DEF LoadNote
    <3>. QED  BY <1>5, <3>1
  <2>. QED  BY <1>6, <2>1, <2>2, <2>3 DEF GetNote, LoadToUpdate, LoadToDelete
<1>7. ASSUME UNCHANGED <<accounts, handler>>
      PROVE  AccountsTyped' /\ registered \subseteq registered'
  BY <1>7 DEF AccountsTyped, accounts, IsAt
<1>. QED  BY <1>2, <1>3, <1>4, <1>6, <1>7 DEF ClubNext, clubVars, CreateNote

LEMMA NotesStayTyped ==
    ASSUME IInv, TypeParts, [ClubNext]_clubVars, registered \subseteq registered'
    PROVE  NotesTyped'
<1>1. CASE notes' \subseteq notes /\ created' = created
  BY <1>1 DEF TypeParts, NotesTyped
<1>2. ASSUME NEW u \in Users, NEW b \in Bodies, NEW t \in Tiers, NEW p \in BOOLEAN,
             CreateNote(u, b, t, p)
      PROVE  NotesTyped'
  <2>1. u \in registered /\ created \in Nat /\ created < MaxNotes
    BY <1>2, AuthenticatedHaveARow DEF CreateNote, TypeParts, IInv, Typed
  <2>. QED  BY <1>2, <2>1, MemberClubAssumption DEF CreateNote, TypeParts, NotesTyped
<1>3. ASSUME NEW r \in Handlers, NEW patch \in Patches, UpdateNote(r, patch)
      PROVE  NotesTyped'
  <2>1. \A n \in notes' : \E m \in notes : m.id = n.id /\ m.owner = n.owner /\ m.org = n.org
    BY <1>3, UpdateWrites
  <2>. QED  BY <1>3, <2>1 DEF UpdateNote, TypeParts, NotesTyped
<1>. QED
  BY <1>1, <1>2, <1>3
     DEF ClubNext, clubVars, LogoutMember, IssueSession, DeleteNote, Answer, RegisterMember, LoginMember,
         GetNote, LoadToUpdate, LoadToDelete, LoadNote

(* Every variable has its type; the rows hold what the schema allows, and only   *)
(* users with a row have sessions and notes.                                     *)
THEOREM TypeCorrect == ClubSpec => []ClubTypeOK
<1>1. TypeParts /\ IInv /\ [ClubNext]_clubVars => TypeParts'
  BY AccountsStayTyped, NotesStayTyped DEF TypeParts
<1>2. IInv /\ TypeParts => ClubTypeOK
  <2>. SUFFICES ASSUME IInv, TypeParts PROVE ClubTypeOK
    OBVIOUS
  <2>1. \A n \in notes : n \in NoteRow /\ n.id \in 1 .. MaxNotes
    BY MemberClubAssumption DEF IInv, Typed, IdsNameRows, TypeParts, NotesTyped, NoteRow
  <2>2. notes \subseteq Note
    BY <2>1 DEF NoteRow, Note
  <2>. QED
    BY <2>2, MemberClubAssumption
       DEF IInv, Typed, IdsNameRows, TypeParts, AccountsTyped, NotesTyped, ClubTypeOK
<1>. QED  BY <1>1, <1>2, TypeInitially, InductiveInvariant, PTL DEF ClubSpec

(* A note that was answered to a user was one the policy lets him read.          *)
THEOREM AnswersArePermitted == ClubSpec => []ReadersMayRead
<1>1. IInv => ReadersMayRead
  <2>. SUFFICES ASSUME IInv, NEW r \in Handlers, IsAt(r, "answered"),
                       RoleOf[handler[r].user] # "admin"
                PROVE  LET u == handler[r].user  n == handler[r].note
                       IN  /\ n.org = OrgOf[u]
                           /\ n.owner # u => n.published
                           /\ n.minTier = "elite" => TierOf[u] = "elite"
                           /\ n.minTier = "pro" => TierOf[u] # "free"
    BY DEF ReadersMayRead
  <2>1. CanReadDoc(handler[r].user, handler[r].note)
    BY DEF IInv, Decided
  <2>. QED  BY <2>1 DEF CanReadDoc, IsAdmin, Rank
<1>. QED  BY <1>1, InductiveInvariant, PTL

(* A row of notes changes only by what its owner, an admin or, short of deleting *)
(* it, a moderator of its tenant asked for, and never changes hands or returns,  *)
(* whatever happened between the request's check and its write.                  *)
THEOREM WritesArePermitted == ClubSpec => ChangesArePermitted
<1>. DEFINE Change ==
        /\ \A n \in notes' : n.id <= created =>
              \E m \in notes : m.id = n.id /\ m.owner = n.owner /\ m.org = n.org
        /\ \A m \in notes \ notes' : \E r \in Handlers :
              /\ handler[r].pc \in {"update", "delete"} /\ handler[r].note.id = m.id
              /\ \/ handler[r].user = m.owner
                 \/ RoleOf[handler[r].user] = "admin"
                 \/ /\ RoleOf[handler[r].user] = "moderator" /\ OrgOf[handler[r].user] = m.org
                    /\ \E n \in notes' : n.id = m.id
<1>1. ASSUME IInv, [ClubNext]_clubVars
      PROVE  [Change]_clubVars
  <2>1. CASE notes' = notes
    BY <2>1
  <2>2. ASSUME NEW u \in Users, NEW b \in Bodies, NEW t \in Tiers, NEW p \in BOOLEAN,
               CreateNote(u, b, t, p)
        PROVE  Change
    <3>1. created \in Nat
      BY <1>1 DEF IInv, Typed
    <3>. QED  BY <2>2, <3>1 DEF CreateNote
  <2>3. ASSUME NEW r \in Handlers, NEW patch \in Patches, UpdateNote(r, patch)
        PROVE  Change
    <3>1. PICK new \in NoteRow :
              /\ notes' = {n \in notes : n.id # handler[r].note.id} \union {new}
              /\ new.id = handler[r].note.id
              /\ \E m \in notes : m.id = new.id /\ m.owner = new.owner /\ m.org = new.org
      BY <1>1, <2>3, UpdateWrites
    <3>2. handler[r].pc = "update" /\ CanWriteDoc(handler[r].user, handler[r].note)
      BY <1>1, <2>3 DEF UpdateNote, IsAt, IInv, Decided
    <3>3. \A m \in notes : m.id = handler[r].note.id =>
              m.owner = handler[r].note.owner /\ m.org = handler[r].note.org
      BY <1>1, <3>2 DEF IInv, Loaded, HasNote
    <3>4. \A n \in notes' : \E m \in notes : m.id = n.id /\ m.owner = n.owner /\ m.org = n.org
      BY <3>1
    <3>5. \A m \in notes \ notes' : m.id = handler[r].note.id
      BY <3>1
    <3>6. \E n \in notes' : n.id = handler[r].note.id
      BY <3>1
    <3>. QED  BY <3>2, <3>3, <3>4, <3>5, <3>6 DEF CanWriteDoc, IsAdmin, IsPrivileged
  <2>4. ASSUME NEW r \in Handlers, DeleteNote(r)
        PROVE  Change
    <3>1. handler[r].pc = "delete" /\ CanDeleteDoc(handler[r].user, handler[r].note)
      BY <1>1, <2>4 DEF DeleteNote, IsAt, IInv, Decided
    <3>2. \A m \in notes : m.id = handler[r].note.id => m.owner = handler[r].note.owner
      BY <1>1, <3>1 DEF IInv, Loaded, HasNote
    <3>. QED  BY <2>4, <3>1, <3>2 DEF DeleteNote, CanDeleteDoc, IsAdmin
  <2>. QED
    BY <1>1, <2>1, <2>2, <2>3, <2>4
       DEF ClubNext, clubVars, LogoutMember, IssueSession, Answer, RegisterMember, LoginMember,
           GetNote, LoadToUpdate, LoadToDelete, LoadNote
<1>. QED  BY <1>1, InductiveInvariant, PTL DEF ClubSpec, ChangesArePermitted
=============================================================================
