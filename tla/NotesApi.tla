------------------------------ MODULE NotesApi ------------------------------
(***************************************************************************)
(* projects/03-notes-api over projects/02c-sqlx-notes: the notes resource  *)
(* and a client that walks it page by page with the opaque cursor while    *)
(* others create, edit and delete.  Every handler is one SQL statement.    *)
(***************************************************************************)
EXTENDS Naturals, FiniteSets, FiniteSetsExt

CONSTANTS
    Texts,     \* bodies that differ after trimming
    PageSizes, \* what a client asks for as limit
    MaxPage,   \* the upper end of the clamp (100)
    MaxNotes,  \* bound: how many notes are created
    Gone       \* no such note

ASSUME NotesAssumption ==
    PageSizes \subseteq Nat /\ MaxPage \in Nat \ {0} /\ MaxNotes \in Nat /\ Gone \notin Texts

VARIABLES
    notes,   \* the body of each id
    lastId,  \* sqlite_sequence: the largest id ever given
    walk,    \* the client: whether it walks, its limit and its cursor
    shown,   \* how often its walk showed it each note
    stayed   \* the notes that existed ever since its first page

notesVars == <<notes, lastId, walk, shown, stayed>>

NoteIds == 1..MaxNotes
FromTheTop == MaxNotes + 1

\* What a request body can be.
Bodies == [text : Texts, shape : {"fits", "blank", "over 4096 chars", "over 8 KiB"}]

NotesTypeOK ==
    /\ notes \in [NoteIds -> Texts \cup {Gone}]
    /\ lastId \in 0..MaxNotes
    /\ walk \in [on : BOOLEAN, limit : 1..MaxPage, cursor : 1..FromTheTop]
    /\ shown \in [NoteIds -> Nat]
    /\ stayed \subseteq NoteIds

NotesInit ==
    /\ notes = [i \in NoteIds |-> Gone]
    /\ lastId = 0
    /\ walk = [on |-> FALSE, limit |-> 1, cursor |-> FromTheTop]
    /\ shown = [i \in NoteIds |-> 0]
    /\ stayed = {}

-----------------------------------------------------------------------------
Existing == {i \in NoteIds : notes[i] # Gone}

\* 413 above MAX_BODY_BYTES, 400 when add or update finds it empty or too long.
Acceptable(body) == body.shape = "fits"

\* body.trim(): the texts that differ only in blanks around them are one.
Trimmed(body) == body.text

\* INTEGER PRIMARY KEY AUTOINCREMENT
NextId == lastId + 1

CreateNote(body) ==
    /\ Acceptable(body)
    /\ NextId \in NoteIds
    /\ notes' = [notes EXCEPT ![NextId] = Trimmed(body)]
    /\ lastId' = NextId
    /\ UNCHANGED <<walk, shown, stayed>>

\* UPDATE ... WHERE id = ? RETURNING; 404 when no row is returned.
UpdateNote(i, body) ==
    /\ Acceptable(body)
    /\ i \in Existing
    /\ notes' = [notes EXCEPT ![i] = Trimmed(body)]
    /\ UNCHANGED <<lastId, walk, shown, stayed>>

\* DELETE; 404 when rows_affected() is 0.
DeleteNote(i) ==
    /\ i \in Existing
    /\ notes' = [notes EXCEPT ![i] = Gone]
    /\ stayed' = stayed \ {i}
    /\ UNCHANGED <<lastId, walk, shown>>

\* A create, update or delete that is answered with 400, 404 or 413.
Refuse ==
    /\ \/ \E body \in Bodies : ~Acceptable(body)
       \/ \E i \in NoteIds : i \notin Existing
    /\ UNCHANGED notesVars

\* clamp(1, 100)
Clamped(limit) == IF limit < 1 THEN 1 ELSE IF limit > MaxPage THEN MaxPage ELSE limit

Between(i, cursor) == {j \in Existing : i < j /\ j < cursor}

\* list_keyset: WHERE id < ? ORDER BY id DESC LIMIT ?
ListKeyset(cursor, limit) ==
    {i \in Existing : i < cursor /\ Cardinality(Between(i, cursor)) < limit}

\* Mutant: the cursor of the extra row.
PageCutAfterCursor(cursor, limit) ==
    LET fetched == ListKeyset(cursor, limit + 1)
    IN  [items |-> ListKeyset(cursor, limit),
         next  |-> IF Cardinality(fetched) > limit THEN Min(fetched) ELSE FromTheTop]

\* list_notes asks for one row more than it returns; the cursor is the last id
\* it returns, when there was one more.
Page(cursor, limit) ==
    LET fetched == ListKeyset(cursor, limit + 1)
        items   == ListKeyset(cursor, limit)
    IN  [items |-> items,
         next  |-> IF Cardinality(fetched) > limit THEN Min(items) ELSE FromTheTop]

\* The client's next GET: without a cursor it starts over.
GetPage(limit) ==
    LET page == Page(walk.cursor, limit)
    IN  /\ shown' = [i \in NoteIds |->
                        (IF walk.on THEN shown[i] ELSE 0) + (IF i \in page.items THEN 1 ELSE 0)]
        /\ stayed' = IF walk.on THEN stayed ELSE Existing
        /\ walk' = [on |-> page.next # FromTheTop, limit |-> limit, cursor |-> page.next]
        /\ UNCHANGED <<notes, lastId>>

StartWalk == ~walk.on /\ \E limit \in PageSizes : GetPage(Clamped(limit))

NextPage == walk.on /\ GetPage(walk.limit)

NotesNext ==
    \/ \E body \in Bodies : CreateNote(body) \/ \E i \in NoteIds : UpdateNote(i, body)
    \/ \E i \in NoteIds : DeleteNote(i)
    \/ Refuse
    \/ StartWalk \/ NextPage

NotesSpec == NotesInit /\ [][NotesNext]_notesVars

-----------------------------------------------------------------------------
\* Keyset pagination under concurrent writes: a walk never shows a note twice,
\* and when its last page has no cursor it has shown every note that existed
\* from its first page on (stayed only shrinks: what is created meanwhile has a
\* larger id than any page still to come).
WalkShowsEachOnce ==
    /\ \A i \in NoteIds : shown[i] <= 1
    /\ ~walk.on => \A i \in stayed : shown[i] = 1

=============================================================================
