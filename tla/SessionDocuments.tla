--------------------------- MODULE SessionDocuments ---------------------------
(***************************************************************************)
(* The documents of a compile session and who owns them.                    *)
(*                                                                          *)
(* A document is live (the editor's text, non-empty content) or belongs to  *)
(* a source root (parsed from disk, empty content).  Opening a file of a    *)
(* root detaches it: the root's document moves to the overlay of detached   *)
(* source-root documents, and comes back when the file is closed.  A load   *)
(* of a root leaves live documents alone and refreshes their overlay entry. *)
(*                                                                          *)
(* The session is used under one lock, so every public operation is one     *)
(* action; what can go wrong is a long sequence of them.  Memberships are   *)
(* kept three times (per root, per file, and the list of documents in no    *)
(* root), and the operations below keep the three in step by hand.          *)
(*                                                                          *)
(* The state is one record, and the helpers map a session to a session, as  *)
(* the methods of Session do: an operation is their composition.            *)
(***************************************************************************)
EXTENDS Naturals

CONSTANTS
    Uris,            \* files, one URI each
    Roots,           \* source-root keys
    WorkspaceRoots,  \* those of kind Workspace
    FilesOf,         \* the files a root may contain on disk
    Texts,           \* texts of a document
    Empty,           \* the empty text
    Broken,          \* texts that do not parse
    EditorTexts,     \* the texts the editor sets
    NoDocument,      \* the session has no document for the URI
    NoBody,          \* a document without a syntax tree
    NoUri,           \* a load without an excluded URI
    Closed,          \* the editor does not have the file open
    MaxRevision,     \* bound on the session's revision
    MaxEpoch         \* bound on the source-root epoch

ASSUME DocumentsAssumption ==
    /\ WorkspaceRoots \subseteq Roots
    /\ FilesOf \in [Roots -> SUBSET Uris]
    /\ \A j, k \in Roots : j # k => FilesOf[j] \intersect FilesOf[k] = {}
    /\ Empty \in Texts
    /\ Broken \subseteq Texts \ {Empty}
    /\ EditorTexts \subseteq Texts
    /\ NoBody \notin Texts
    /\ NoUri \notin Uris
    /\ Closed \notin Texts
    /\ MaxRevision \in Nat
    /\ MaxEpoch \in Nat

\* What a text parses to is the text; a root's document has empty content.
Document == [content : Texts, parsed : Texts \union {NoBody}]
RootDocument(t) == [content |-> Empty, parsed |-> t]

ASSUME NoDocumentAssumption == NoDocument \notin Document

VARIABLES
    session,         \* the Session
    editor,          \* history: the text the editor has open
    onDisk,          \* history: what the last load of each root found
    blanked          \* history: files the editor has emptied, see Blanked

vars == <<session, editor, onDisk, blanked>>

Overlay == [document : Document \union {NoDocument}, keys : SUBSET Roots]
NoOverlay == [document |-> NoDocument, keys |-> {}]

Session ==
    [documents : [Uris -> Document \union {NoDocument}],   \* documents
     known : SUBSET Roots,                                 \* keys of source_sets
     uris : [Roots -> SUBSET Uris],                        \* source_sets[..].uris
     fileSets : [Uris -> SUBSET Roots],                    \* file_source_sets
     overlay : [Uris -> Overlay],                          \* detached_source_root_documents
     detached : SUBSET Uris,                               \* detached_document_uris
     dirty : SUBSET Roots,                                 \* needs_refresh
     revision : Nat,                                       \* current_revision
     epoch : Nat]                                          \* source_root_indexing.state_epoch

TypeOK ==
    /\ session \in Session
    /\ session.dirty \subseteq session.known
    /\ \A u \in Uris :
        session.overlay[u].keys = {} <=> session.overlay[u].document = NoDocument
    /\ editor \in [Uris -> Texts \union {Closed}]
    /\ onDisk \in [Roots -> [Uris -> Texts \union {NoBody}]]
    /\ blanked \subseteq Uris

-----------------------------------------------------------------------------
(* Helpers of Session: a session in, a session out.                          *)

IsLive(d) == d # NoDocument /\ d.content # Empty
IsRootDocument(d) == d # NoDocument /\ d.content = Empty

Bumped(s) == [s EXCEPT !.revision = @ + 1]

\* source_root_backing_keys_for_uri
BackingKeys(s, u) ==
    s.overlay[u].keys \union (IF IsLive(s.documents[u]) THEN {} ELSE s.fileSets[u])

\* sync_detached_document_uri
Synced(s, u) ==
    [s EXCEPT !.detached = IF s.documents[u] # NoDocument /\ s.fileSets[u] = {}
                           THEN @ \union {u} ELSE @ \ {u}]

\* insert_document
Inserted(s, u, d) == Synced([s EXCEPT !.documents[u] = d], u)

\* A slip for Deleted: the list of detached documents keeps the URI.
DeletedEntryOnly(s, u) == [s EXCEPT !.documents[u] = NoDocument]

\* delete_document_entry
Deleted(s, u) == [s EXCEPT !.documents[u] = NoDocument, !.detached = @ \ {u}]

\* A slip for CacheDetached: the entry keeps the document it has.
CacheDetachedOnce(s, u, d, keys) ==
    [s EXCEPT !.overlay[u] = [document |-> IF @.keys = {} THEN d ELSE @.document,
                              keys |-> @.keys \union keys]]

\* cache_detached_source_root_document
CacheDetached(s, u, d, keys) ==
    [s EXCEPT !.overlay[u] = [document |-> d, keys |-> @.keys \union keys]]

\* A slip for DropMembership: an entry without keys stays.
DropKeyOnly(s, k) ==
    [s EXCEPT !.overlay = [u \in Uris |-> [s.overlay[u] EXCEPT !.keys = @ \ {k}]]]

\* drop_detached_source_root_membership
DropMembership(s, k) ==
    [s EXCEPT !.overlay = [u \in Uris |-> IF s.overlay[u].keys \ {k} = {} THEN NoOverlay
                                          ELSE [s.overlay[u] EXCEPT !.keys = @ \ {k}]]]

\* The roots detach_uri_from_source_sets takes u out of: a workspace root
\* keeps a file that is live or gone.
DetachedFrom(s, u) ==
    {k \in s.fileSets[u] :
        /\ k \in s.known /\ u \in s.uris[k]
        /\ k \in WorkspaceRoots => IsRootDocument(s.documents[u])}

\* A slip for RemovedFrom: the index of the file keeps the roots.
RemovedFromRecords(s, u, keys) ==
    [s EXCEPT !.uris = [k \in Roots |-> IF k \in keys THEN s.uris[k] \ {u} ELSE s.uris[k]]]

\* remove_matches_from_source_root, for each of the keys
RemovedFrom(s, u, keys) ==
    [s EXCEPT !.uris = [k \in Roots |-> IF k \in keys THEN s.uris[k] \ {u} ELSE s.uris[k]],
              !.fileSets[u] = @ \ keys]

\* detach_uri_from_source_sets
Detach(s, u, preserve) ==
    LET keys == DetachedFrom(s, u)
        d == s.documents[u]
        removed == RemovedFrom(s, u, keys)
        cached == IF preserve /\ IsRootDocument(d) THEN CacheDetached(removed, u, d, keys) ELSE removed
    IN IF keys = {} THEN s ELSE Synced(cached, u)

\* restore_detached_source_root_document
Restored(s, u) ==
    LET keys == s.overlay[u].keys \intersect s.known
        joined == [s EXCEPT !.uris = [k \in Roots |-> IF k \in keys THEN s.uris[k] \union {u} ELSE s.uris[k]],
                            !.fileSets[u] = @ \union keys,
                            !.documents[u] = s.overlay[u].document,
                            !.overlay[u] = NoOverlay]
    IN IF s.overlay[u].keys = {} THEN s ELSE Synced(joined, u)

\* update_source_set_record.  It re-syncs the files of the new record only.
Recorded(s, k, members) ==
    LET filed == [u \in Uris |-> IF u \in members THEN s.fileSets[u] \union {k}
                                 ELSE s.fileSets[u] \ {k}]
    IN [s EXCEPT !.known = @ \union {k},
                 !.uris[k] = members,
                 !.fileSets = filed,
                 !.dirty = @ \ {k},
                 !.detached = @ \ members]

\* The documents of a root that a replacement or a removal may delete.
Removable(s, k) == {u \in s.uris[k] : IsRootDocument(s.documents[u])}

WithoutDocuments(s, gone) ==
    [s EXCEPT !.documents = [u \in Uris |-> IF u \in gone THEN NoDocument ELSE s.documents[u]],
              !.detached = @ \ gone]

\* A slip for IsHeld: only the excluded file is held.
IsExcluded(s, u, exclude) == u = exclude

\* Files of a load that go to the overlay and not to the documents.
IsHeld(s, u, exclude) == u = exclude \/ IsLive(s.documents[u])

Unchanged(s, k, found, members) ==
    /\ k \in s.known /\ s.uris[k] = members
    /\ \A u \in members : s.documents[u] # NoDocument /\ s.documents[u].parsed = found[u]

\* replace_source_set_documents.  found[u] is what root k has at u, or NoBody.
\* The overlay is refreshed before the comparison that may end it early.
Replaced(s, k, found, exclude) ==
    LET files == {u \in Uris : found[u] # NoBody}
        held == {u \in files : IsHeld(s, u, exclude)}
        members == files \ held
        cached == [s EXCEPT !.overlay =
                     [u \in Uris |-> IF u \in held
                                     THEN CacheDetached(s, u, RootDocument(found[u]), {k}).overlay[u]
                                     ELSE s.overlay[u]]]
        emptied == WithoutDocuments(cached, Removable(s, k))
        filled == [emptied EXCEPT !.documents =
                     [u \in Uris |-> IF u \in members THEN RootDocument(found[u]) ELSE emptied.documents[u]]]
    IN IF Unchanged(s, k, found, members)
       THEN [cached EXCEPT !.dirty = @ \ {k}]
       ELSE [Bumped(Recorded(filled, k, members)) EXCEPT !.epoch = @ + 1]

\* remove_source_root_at_revision
RootRemoved(s, k) ==
    IF s.uris[k] = {} THEN DropMembership(s, k)
    ELSE DropMembership(Recorded(WithoutDocuments(s, Removable(s, k)), k, {}), k)

\* The document of prepare_text_document_change: a text that does not parse
\* keeps the previous tree.
Prepared(s, u, t) ==
    [content |-> t,
     parsed |-> IF t \notin Broken THEN t
                ELSE IF s.documents[u] = NoDocument THEN NoBody
                ELSE s.documents[u].parsed]

\* cache_detached_live_source_root_membership
LiveMembershipCached(s, u, keysBefore) ==
    IF keysBefore = {} \/ s.fileSets[u] # {} \/ s.overlay[u].keys # {} \/ s.documents[u].parsed = NoBody
    THEN s
    ELSE CacheDetached(s, u, RootDocument(s.documents[u].parsed), keysBefore)

\* apply_text_document_change_at_revision.  Only an edit of a live document
\* that changes what the file declares marks its roots for a refresh.
TextApplied(s, u, t, interfaceChange) ==
    LET keys == BackingKeys(s, u)
        inserted == Inserted(Detach(s, u, keys # {} /\ t # Empty), u, Prepared(s, u, t))
        marked == IF IsLive(s.documents[u]) /\ interfaceChange THEN keys \intersect s.known ELSE {}
    IN [LiveMembershipCached(inserted, u, keys) EXCEPT !.dirty = @ \union marked]

\* apply_document_removal_at_revision
DocumentRemoved(s, u) == Restored(Detach(Deleted(s, u), u, FALSE), u)

NewSession ==
    [documents |-> [u \in Uris |-> NoDocument],
     known |-> {},
     uris |-> [k \in Roots |-> {}],
     fileSets |-> [u \in Uris |-> {}],
     overlay |-> [u \in Uris |-> NoOverlay],
     detached |-> {},
     dirty |-> {},
     revision |-> 0,
     epoch |-> 0]

\* A slip for ResetToLive: the epoch starts again with the revisions.
ResetWithEpoch(s) ==
    LET live == {u \in Uris : IsLive(s.documents[u])}
    IN [NewSession EXCEPT
          !.documents = [u \in Uris |-> IF u \in live THEN Prepared(NewSession, u, s.documents[u].content)
                                        ELSE NoDocument],
          !.detached = live,
          !.revision = IF live = {} THEN 0 ELSE 1]

\* reset_to_open_documents: the live texts are set in a new session, in one
\* change, and the epoch goes on.
ResetToLive(s) ==
    LET live == {u \in Uris : IsLive(s.documents[u])}
    IN [NewSession EXCEPT
          !.documents = [u \in Uris |-> IF u \in live THEN Prepared(NewSession, u, s.documents[u].content)
                                        ELSE NoDocument],
          !.detached = live,
          !.revision = IF live = {} THEN 0 ELSE 1,
          !.epoch = s.epoch + 1]

-----------------------------------------------------------------------------
(* Operations.                                                               *)

WithinBounds == session.revision < MaxRevision /\ session.epoch < MaxEpoch

\* An open document without text looks like a root's.  A file that the editor
\* has once emptied may be mistaken until it is closed and then loaded anew.
Blanked(u, t) == IF t = Empty THEN blanked \union {u} ELSE blanked
NotReadAnew(files) == {u \in blanked : u \in files => editor[u] # Closed}

\* SessionChange::set_file_text, from did_open and did_change: a text equal to
\* the content in place has no effect.
SetFileText(u, t, interfaceChange) ==
    /\ WithinBounds
    /\ session' = IF session.documents[u] # NoDocument /\ session.documents[u].content = t THEN session
                  ELSE TextApplied(Bumped(session), u, t, interfaceChange)
    /\ editor' = [editor EXCEPT ![u] = t]
    /\ blanked' = Blanked(u, t)
    /\ UNCHANGED onDisk

\* SessionChange::remove_file, from did_close.
RemoveFile(u) ==
    /\ WithinBounds
    /\ editor[u] # Closed
    /\ session' = IF session.documents[u] = NoDocument /\ session.fileSets[u] = {} THEN session
                  ELSE DocumentRemoved(Bumped(session), u)
    /\ editor' = [editor EXCEPT ![u] = Closed]
    /\ UNCHANGED <<onDisk, blanked>>

\* add_document: a text that does not parse only costs a revision.
AddDocument(u, t) ==
    /\ WithinBounds
    /\ \/ /\ t \in Broken
          /\ session' = Bumped(session)
          /\ UNCHANGED <<editor, blanked>>
       \/ /\ t \notin Broken
          /\ session' = Inserted(Detach(Bumped(session), u, BackingKeys(session, u) # {}),
                                 u, [content |-> t, parsed |-> t])
          /\ editor' = [editor EXCEPT ![u] = t]
          /\ blanked' = Blanked(u, t)
    /\ UNCHANGED onDisk

\* replace_parsed_source_set, for a load or a rebuild of root k requested by
\* a handler of the open document exclude.
ReplaceSourceSet(k, found, exclude) ==
    /\ WithinBounds
    /\ session' = Replaced(session, k, found, exclude)
    /\ onDisk' = [onDisk EXCEPT ![k] = found]
    /\ blanked' = NotReadAnew(FilesOf[k])
    /\ UNCHANGED editor

\* apply_source_root_refresh_plan, without the full-root fallback.
RefreshFromLiveSubtree(k) ==
    /\ WithinBounds
    /\ k \in session.dirty
    /\ session' = [session EXCEPT !.dirty = @ \ {k}, !.epoch = @ + 1]
    /\ UNCHANGED <<editor, onDisk, blanked>>

\* remove_source_set
RemoveSourceSet(k) ==
    /\ WithinBounds
    /\ session' = RootRemoved(Bumped(session), k)
    /\ onDisk' = [onDisk EXCEPT ![k] = [u \in Uris |-> NoBody]]
    /\ blanked' = NotReadAnew(FilesOf[k])
    /\ UNCHANGED editor

ResetToOpenDocuments ==
    /\ WithinBounds
    /\ session' = ResetToLive(session)
    /\ onDisk' = [k \in Roots |-> [u \in Uris |-> NoBody]]
    /\ blanked' = {u \in blanked : editor[u] = Empty}
    /\ UNCHANGED editor

-----------------------------------------------------------------------------

Init ==
    /\ session = NewSession
    /\ editor = [u \in Uris |-> Closed]
    /\ onDisk = [k \in Roots |-> [u \in Uris |-> NoBody]]
    /\ blanked = {}

\* What a root may be found to contain: its files, with texts that parse.
Contents(k) ==
    {f \in [Uris -> (Texts \ (Broken \union {Empty})) \union {NoBody}] :
        \A u \in Uris \ FilesOf[k] : f[u] = NoBody}

Excludable == {NoUri} \union {u \in Uris : editor[u] # Closed}

Next ==
    \/ \E u \in Uris, t \in EditorTexts :
        \/ \E interfaceChange \in BOOLEAN : SetFileText(u, t, interfaceChange)
        \/ AddDocument(u, t)
    \/ \E u \in Uris : RemoveFile(u)
    \/ \E k \in Roots :
        \/ \E found \in Contents(k), exclude \in Excludable : ReplaceSourceSet(k, found, exclude)
        \/ RefreshFromLiveSubtree(k)
        \/ RemoveSourceSet(k)
    \/ ResetToOpenDocuments

Spec == Init /\ [][Next]_vars

-----------------------------------------------------------------------------
(* Properties.                                                               *)

\* The members a root lists are the files that list the root, after any
\* sequence of loads, edits, closes and resets (source_sets[..].uris against
\* file_source_sets).
IndexConsistent ==
    \A u \in Uris, k \in Roots : u \in session.uris[k] <=> k \in session.fileSets[u]

\* detached_document_uris lists exactly the documents that are in no source
\* root: queries and snapshots take the documents from it.  Only of a file the
\* editor has emptied, and not closed since, it may fail to.
DetachedExact ==
    \A u \in Uris :
        u \notin blanked \/ editor[u] = Closed =>
            (u \in session.detached <=> session.documents[u] # NoDocument /\ session.fileSets[u] = {})

\* A file of a loaded root that is not open is in the session, in its root,
\* as the last load found it: also one that was open during the load, "closing
\* a live source-root document should restore the cached source-root document".
\* A file that was emptied while it was open is as found again from the next
\* load of its root on, and no other file suffers from it.
ClosedFileIsLoaded ==
    \A k \in Roots, u \in Uris :
        onDisk[k][u] # NoBody /\ editor[u] = Closed /\ u \notin blanked =>
            session.documents[u] = RootDocument(onDisk[k][u]) /\ k \in session.fileSets[u]

\* Epoch and revision together name one content of the session: the pair only
\* moves forward, also over a reset, which restarts the revisions, and it moves
\* with every change of a document or of a membership.
StampNamesContent ==
    [][LET later == \/ session'.epoch > session.epoch
                    \/ session'.epoch = session.epoch /\ session'.revision > session.revision
           same == /\ session'.documents = session.documents
                   /\ session'.uris = session.uris
                   /\ session'.epoch = session.epoch
                   /\ session'.revision = session.revision
       IN later \/ same]_vars

-----------------------------------------------------------------------------
(* The promise of DocumentStore.                                             *)

\* The text the session works on: the content of a live document, what a
\* source root's was parsed from.
VisibleText(u) ==
    LET d == session.documents[u]
    IN IF d = NoDocument THEN NoBody ELSE IF IsLive(d) THEN d.content ELSE d.parsed

\* The text of a file in the last load of the root it is in.
LoadedText(u) ==
    IF \E k \in Roots : u \in FilesOf[k]
    THEN onDisk[CHOOSE k \in Roots : u \in FilesOf[k]][u] ELSE NoBody

Store == INSTANCE DocumentStore WITH
    Files <- Uris,
    Trees <- {FilesOf[k] : k \in Roots},
    Missing <- NoBody,
    visible <- [u \in Uris |-> VisibleText(u)],
    disk <- [u \in Uris |-> LoadedText(u)]

\* Whatever the overlay, the membership tables and the early returns do, every
\* operation of the session is one of DocumentStore or none: an edit or a close
\* changes the text of its own file only, a load, a removal or a reset changes
\* closed files only, and of those the ones of its root, to what was found.
\* DocumentStore says what is lost of a document that the editor empties.
ImplementsStore == Store!StoreSpec
=============================================================================
