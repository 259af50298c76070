------------------------ MODULE SessionDocumentsProofs ------------------------
(***************************************************************************)
(* Proofs about the documents of a session, for any files, roots and texts. *)
(***************************************************************************)
EXTENDS SessionDocuments, TLAPS

\* The files whose text in the editor is not empty.
Edited == {u \in Uris : editor[u] \notin {Closed, Empty}}

\* An edited file is live, and in no root unless it has been emptied before.
OpenIsLive ==
    \A u \in Edited :
        /\ session.documents[u] # NoDocument
        /\ session.documents[u].content = editor[u]
        /\ u \notin blanked => session.fileSets[u] = {}

\* An open file without text may look like a root's.
EmptyIsBlanked ==
    \A u \in Uris : editor[u] = Empty =>
        /\ u \in blanked
        /\ session.documents[u] # NoDocument => session.documents[u].content = Empty

\* The document of a closed file is that of a root it is in.
ClosedIsOfRoot ==
    \A u \in Uris : editor[u] = Closed =>
        /\ session.documents[u] # NoDocument =>
             session.fileSets[u] # {} /\ session.documents[u].content = Empty
        /\ session.fileSets[u] # {} /\ u \notin blanked => session.documents[u] # NoDocument

\* The list of detached documents has documents only.
DetachedExist == \A u \in session.detached : session.documents[u] # NoDocument

\* A file is only in the root that may contain it, which is known by then.
RootsOwn ==
    \A u \in Uris : \A k \in session.fileSets[u] \union session.overlay[u].keys :
        k \in session.known /\ u \in FilesOf[k]

OverlayIsOfRoots ==
    \A u \in Uris : session.overlay[u].document # NoDocument => session.overlay[u].document.content = Empty

\* What the last load found is in the session, or in the overlay while the
\* editor has the file open, unless the file has been emptied.
LoadedIsKept ==
    \A k \in Roots, u \in Uris : onDisk[k][u] # NoBody =>
        /\ u \in FilesOf[k]
        /\ u \notin blanked /\ editor[u] = Closed =>
             session.documents[u] = RootDocument(onDisk[k][u]) /\ k \in session.fileSets[u]
        /\ u \notin blanked /\ editor[u] # Closed =>
             session.overlay[u].document = RootDocument(onDisk[k][u]) /\ k \in session.overlay[u].keys

FilesKept ==
    /\ DetachedExact /\ OpenIsLive /\ EmptyIsBlanked /\ ClosedIsOfRoot /\ DetachedExist
    /\ RootsOwn /\ OverlayIsOfRoots /\ LoadedIsKept

DocumentsInv == TypeOK /\ IndexConsistent /\ FilesKept

-----------------------------------------------------------------------------
(* The helpers, field by field: what becomes of a session s.                 *)

LEMMA SessionTypes ==
    ASSUME NEW s \in Session
    PROVE  /\ s.documents \in [Uris -> Document \union {NoDocument}] /\ s.known \subseteq Roots
           /\ s.uris \in [Roots -> SUBSET Uris] /\ s.fileSets \in [Uris -> SUBSET Roots]
           /\ s.overlay \in [Uris -> Overlay] /\ s.detached \subseteq Uris /\ s.dirty \subseteq Roots
           /\ s.revision \in Nat /\ s.epoch \in Nat
  BY DEF Session

LEMMA BodyTypes ==
    /\ NoOverlay \in Overlay
    /\ \A t \in Texts \union {NoBody} : RootDocument(t) \in Document
    /\ \A d \in Document, keys \in SUBSET Roots : [document |-> d, keys |-> keys] \in Overlay
  BY DocumentsAssumption DEF NoOverlay, Overlay, RootDocument, Document

BumpedIs(r, s) ==
    /\ r \in Session
    /\ r.revision = s.revision + 1
    /\ r.documents = s.documents /\ r.known = s.known /\ r.uris = s.uris
    /\ r.fileSets = s.fileSets /\ r.overlay = s.overlay /\ r.detached = s.detached
    /\ r.dirty = s.dirty /\ r.epoch = s.epoch

LEMMA BumpedFields ==
    ASSUME NEW s \in Session
    PROVE  BumpedIs(Bumped(s), s)
  BY SessionTypes DEF Bumped, Session, BumpedIs

SyncedIs(r, s, u) ==
    /\ r \in Session
    /\ r.detached = IF s.documents[u] # NoDocument /\ s.fileSets[u] = {}
                    THEN s.detached \union {u} ELSE s.detached \ {u}
    /\ r.documents = s.documents /\ r.known = s.known /\ r.uris = s.uris
    /\ r.fileSets = s.fileSets /\ r.overlay = s.overlay /\ r.dirty = s.dirty
    /\ r.revision = s.revision /\ r.epoch = s.epoch

LEMMA SyncedFields ==
    ASSUME NEW s \in Session, NEW u \in Uris
    PROVE  SyncedIs(Synced(s, u), s, u)
  BY SessionTypes DEF Synced, Session, SyncedIs

InsertedIs(r, s, u, d) ==
    /\ r \in Session
    /\ r.documents = [s.documents EXCEPT ![u] = d]
    /\ r.detached = IF s.fileSets[u] = {} THEN s.detached \union {u} ELSE s.detached \ {u}
    /\ r.known = s.known /\ r.uris = s.uris /\ r.fileSets = s.fileSets
    /\ r.overlay = s.overlay /\ r.dirty = s.dirty /\ r.revision = s.revision
    /\ r.epoch = s.epoch

LEMMA InsertedFields ==
    ASSUME NEW s \in Session, NEW u \in Uris, NEW d \in Document
    PROVE  InsertedIs(Inserted(s, u, d), s, u, d)
<1> DEFINE q == [s EXCEPT !.documents[u] = d]
<1>1. /\ q \in Session /\ q.documents = [s.documents EXCEPT ![u] = d]
      /\ q.known = s.known /\ q.uris = s.uris /\ q.fileSets = s.fileSets
      /\ q.overlay = s.overlay /\ q.detached = s.detached /\ q.dirty = s.dirty
      /\ q.revision = s.revision /\ q.epoch = s.epoch
  BY SessionTypes DEF Session
<1>2. q.documents[u] # NoDocument
  BY <1>1, SessionTypes, NoDocumentAssumption
<1>3. Inserted(s, u, d) = Synced(q, u)
  BY DEF Inserted
<1> HIDE DEF q
<1>4. SyncedIs(Synced(q, u), q, u)
  BY <1>1, SyncedFields
<1> QED
  BY <1>1, <1>2, <1>3, <1>4 DEF SyncedIs, InsertedIs

DeletedIs(r, s, u) ==
    /\ r \in Session
    /\ r.documents = [s.documents EXCEPT ![u] = NoDocument]
    /\ r.detached = s.detached \ {u}
    /\ r.known = s.known /\ r.uris = s.uris /\ r.fileSets = s.fileSets
    /\ r.overlay = s.overlay /\ r.dirty = s.dirty /\ r.revision = s.revision
    /\ r.epoch = s.epoch

LEMMA DeletedFields ==
    ASSUME NEW s \in Session, NEW u \in Uris
    PROVE  DeletedIs(Deleted(s, u), s, u)
  BY SessionTypes DEF Deleted, Session, DeletedIs

CachedIs(r, s, u, d, keys) ==
    /\ r \in Session
    /\ r.overlay = [s.overlay EXCEPT ![u] = [document |-> d, keys |-> s.overlay[u].keys \union keys]]
    /\ r.documents = s.documents /\ r.known = s.known /\ r.uris = s.uris
    /\ r.fileSets = s.fileSets /\ r.detached = s.detached /\ r.dirty = s.dirty
    /\ r.revision = s.revision /\ r.epoch = s.epoch

LEMMA CachedFields ==
    ASSUME NEW s \in Session, NEW u \in Uris, NEW d \in Document, NEW keys \in SUBSET Roots
    PROVE  CachedIs(CacheDetached(s, u, d, keys), s, u, d, keys)
<1>1. s.overlay[u].keys \in SUBSET Roots
  BY SessionTypes DEF Overlay
<1>2. [document |-> d, keys |-> s.overlay[u].keys \union keys] \in Overlay
  BY <1>1, BodyTypes
<1> QED
  BY <1>2, SessionTypes DEF CacheDetached, Session, CachedIs

DroppedOverlay(s, k) ==
    [u \in Uris |-> IF s.overlay[u].keys \ {k} = {} THEN NoOverlay
                    ELSE [document |-> s.overlay[u].document, keys |-> s.overlay[u].keys \ {k}]]

DroppedIs(r, s, k) ==
    /\ r \in Session
    /\ r.overlay = DroppedOverlay(s, k)
    /\ r.documents = s.documents /\ r.known = s.known /\ r.uris = s.uris
    /\ r.fileSets = s.fileSets /\ r.detached = s.detached /\ r.dirty = s.dirty
    /\ r.revision = s.revision /\ r.epoch = s.epoch

LEMMA DroppedFields ==
    ASSUME NEW s \in Session, NEW k \in Roots
    PROVE  DroppedIs(DropMembership(s, k), s, k)
<1>1. \A u \in Uris : s.overlay[u] \in Overlay
  BY SessionTypes
<1>2. ASSUME NEW u \in Uris
      PROVE  [s.overlay[u] EXCEPT !.keys = @ \ {k}]
               = [document |-> s.overlay[u].document, keys |-> s.overlay[u].keys \ {k}]
  <2>1. \A o \in Overlay : \A keys : [o EXCEPT !.keys = keys] = [document |-> o.document, keys |-> keys]
    BY DEF Overlay
  <2> QED
    BY <1>1, <2>1
<1>3. \A u \in Uris : DroppedOverlay(s, k)[u] \in Overlay
  BY <1>1, BodyTypes DEF Overlay, DroppedOverlay
<1>4. DroppedOverlay(s, k) \in [Uris -> Overlay]
  BY <1>3 DEF DroppedOverlay
<1>5. DropMembership(s, k) = [s EXCEPT !.overlay = DroppedOverlay(s, k)]
  BY <1>2 DEF DropMembership, DroppedOverlay
<1>6. [s EXCEPT !.overlay = DroppedOverlay(s, k)] \in Session
  BY <1>4, SessionTypes DEF Session
<1> QED
  BY <1>5, <1>6 DEF Session, DroppedIs

RemovedIs(r, s, u, keys) ==
    /\ r \in Session
    /\ r.uris = [k \in Roots |-> IF k \in keys THEN s.uris[k] \ {u} ELSE s.uris[k]]
    /\ r.fileSets = [s.fileSets EXCEPT ![u] = @ \ keys]
    /\ r.documents = s.documents /\ r.known = s.known /\ r.overlay = s.overlay
    /\ r.detached = s.detached /\ r.dirty = s.dirty /\ r.revision = s.revision
    /\ r.epoch = s.epoch

LEMMA RemovedFields ==
    ASSUME NEW s \in Session, NEW u \in Uris, NEW keys \in SUBSET Roots
    PROVE  RemovedIs(RemovedFrom(s, u, keys), s, u, keys)
<1> DEFINE r == RemovedFrom(s, u, keys)
           uris == [k \in Roots |-> IF k \in keys THEN s.uris[k] \ {u} ELSE s.uris[k]]
           sets == [s.fileSets EXCEPT ![u] = @ \ keys]
<1>1. uris \in [Roots -> SUBSET Uris] /\ sets \in [Uris -> SUBSET Roots]
  BY SessionTypes
<1>2. r = [s EXCEPT !.uris = uris, !.fileSets = sets]
  BY SessionTypes DEF RemovedFrom, Session
<1> HIDE DEF r, uris, sets
<1>3. r \in Session
  BY <1>1, <1>2 DEF Session
<1>4. r.uris = uris /\ r.fileSets = sets
  BY <1>2 DEF Session
<1>5. /\ r.documents = s.documents /\ r.known = s.known /\ r.overlay = s.overlay
      /\ r.detached = s.detached /\ r.dirty = s.dirty /\ r.revision = s.revision
      /\ r.epoch = s.epoch
  BY <1>2 DEF Session
<1> QED
  BY <1>3, <1>4, <1>5 DEF RemovedIs, r, uris, sets

RecordedIs(r, s, k, members) ==
    /\ r \in Session
    /\ r.known = s.known \union {k}
    /\ r.uris = [s.uris EXCEPT ![k] = members]
    /\ r.fileSets = [u \in Uris |-> IF u \in members THEN s.fileSets[u] \union {k}
                                  ELSE s.fileSets[u] \ {k}]
    /\ r.dirty = s.dirty \ {k}
    /\ r.detached = s.detached \ members
    /\ r.documents = s.documents /\ r.overlay = s.overlay /\ r.revision = s.revision
    /\ r.epoch = s.epoch

LEMMA RecordedFields ==
    ASSUME NEW s \in Session, NEW k \in Roots, NEW members \in SUBSET Uris
    PROVE  RecordedIs(Recorded(s, k, members), s, k, members)
<1> DEFINE r == Recorded(s, k, members)
           uris == [s.uris EXCEPT ![k] = members]
           filed == [u \in Uris |-> IF u \in members THEN s.fileSets[u] \union {k} ELSE s.fileSets[u] \ {k}]
<1>1. /\ uris \in [Roots -> SUBSET Uris] /\ filed \in [Uris -> SUBSET Roots]
      /\ s.known \union {k} \subseteq Roots /\ s.dirty \ {k} \subseteq Roots /\ s.detached \ members \subseteq Uris
  BY SessionTypes
<1>2. r = [s EXCEPT !.known = s.known \union {k}, !.uris = uris, !.fileSets = filed, !.dirty = s.dirty \ {k},
                    !.detached = s.detached \ members]
  BY SessionTypes DEF Recorded, Session
<1> HIDE DEF r, uris, filed
<1>3. r \in Session
  BY <1>1, <1>2 DEF Session
<1>4. /\ r.known = s.known \union {k} /\ r.uris = uris /\ r.fileSets = filed
      /\ r.dirty = s.dirty \ {k} /\ r.detached = s.detached \ members
  BY <1>2 DEF Session
<1>5. /\ r.documents = s.documents /\ r.overlay = s.overlay /\ r.revision = s.revision
      /\ r.epoch = s.epoch
  BY <1>2 DEF Session
<1> QED
  BY <1>3, <1>4, <1>5 DEF RecordedIs, r, uris, filed

WithoutIs(r, s, gone) ==
    /\ r \in Session
    /\ r.documents = [u \in Uris |-> IF u \in gone THEN NoDocument ELSE s.documents[u]]
    /\ r.detached = s.detached \ gone
    /\ r.known = s.known /\ r.uris = s.uris /\ r.fileSets = s.fileSets
    /\ r.overlay = s.overlay /\ r.dirty = s.dirty /\ r.revision = s.revision
    /\ r.epoch = s.epoch

LEMMA WithoutFields ==
    ASSUME NEW s \in Session, NEW gone \in SUBSET Uris
    PROVE  WithoutIs(WithoutDocuments(s, gone), s, gone)
  BY SessionTypes DEF WithoutDocuments, Session, WithoutIs

LEMMA DetachedFromRoots ==
    ASSUME NEW s \in Session, NEW u \in Uris
    PROVE  DetachedFrom(s, u) \in SUBSET Roots /\ DetachedFrom(s, u) \subseteq s.fileSets[u]
  BY SessionTypes DEF DetachedFrom

DetachIs(r, s, u, preserve) ==
    LET keys == DetachedFrom(s, u)
        d == s.documents[u]
    IN /\ r \in Session
       /\ r.uris = [k \in Roots |-> IF k \in keys THEN s.uris[k] \ {u} ELSE s.uris[k]]
       /\ r.fileSets = [s.fileSets EXCEPT ![u] = @ \ keys]
       /\ r.overlay = IF keys # {} /\ preserve /\ IsRootDocument(d)
                      THEN [s.overlay EXCEPT ![u] = [document |-> d, keys |-> s.overlay[u].keys \union keys]]
                      ELSE s.overlay
       /\ r.detached \ {u} = s.detached \ {u}
       /\ s.documents[u] = NoDocument /\ u \in r.detached => u \in s.detached
       /\ r.documents = s.documents /\ r.known = s.known /\ r.dirty = s.dirty
       /\ r.revision = s.revision /\ r.epoch = s.epoch
       /\ keys = {} => r = s

LEMMA DetachFields ==
    ASSUME NEW s \in Session, NEW u \in Uris, NEW preserve \in BOOLEAN
    PROVE  DetachIs(Detach(s, u, preserve), s, u, preserve)
<1> DEFINE keys == DetachedFrom(s, u)
           d == s.documents[u]
           r == Detach(s, u, preserve)
<1>0. keys \in SUBSET Roots /\ (d # NoDocument => d \in Document)
  BY DetachedFromRoots, SessionTypes
<1>1. CASE keys = {}
  <2>1. r = s
    BY <1>1 DEF Detach
  <2>2. /\ s.uris = [k \in Roots |-> IF k \in keys THEN s.uris[k] \ {u} ELSE s.uris[k]]
        /\ s.fileSets = [s.fileSets EXCEPT ![u] = @ \ keys]
    BY <1>1, SessionTypes
  <2> QED
    BY <1>1, <2>1, <2>2 DEF DetachIs
<1>2. CASE keys # {}
  <2> DEFINE removed == RemovedFrom(s, u, keys)
             cached == IF preserve /\ IsRootDocument(d) THEN CacheDetached(removed, u, d, keys) ELSE removed
  <2>1. r = Synced(cached, u)
    BY <1>2 DEF Detach
  <2>2. RemovedIs(removed, s, u, keys)
    BY <1>0, RemovedFields
  <2> HIDE DEF removed
  <2>3. removed \in Session
    BY <2>2 DEF RemovedIs
  <2>4. IF preserve /\ IsRootDocument(d) THEN CachedIs(cached, removed, u, d, keys) ELSE cached = removed
    BY <1>0, <2>3, CachedFields DEF IsRootDocument
  <2> HIDE DEF cached
  <2>5. cached \in Session
    BY <2>3, <2>4 DEF CachedIs
  <2>6. SyncedIs(r, cached, u)
    BY <2>1, <2>5, SyncedFields
  <2> HIDE DEF r, keys, d
  <2>7. r.overlay = IF preserve /\ IsRootDocument(d)
                    THEN [s.overlay EXCEPT ![u] = [document |-> d, keys |-> s.overlay[u].keys \union keys]]
                    ELSE s.overlay
    BY <2>2, <2>4, <2>6 DEF RemovedIs, CachedIs, SyncedIs
  <2>8. r.detached \ {u} = s.detached \ {u} /\ (s.documents[u] = NoDocument => u \notin r.detached)
    BY <2>2, <2>4, <2>6 DEF RemovedIs, CachedIs, SyncedIs
  <2>9. /\ r \in Session
        /\ r.uris = [k \in Roots |-> IF k \in keys THEN s.uris[k] \ {u} ELSE s.uris[k]]
        /\ r.fileSets = [s.fileSets EXCEPT ![u] = @ \ keys]
        /\ r.documents = s.documents /\ r.known = s.known /\ r.dirty = s.dirty
        /\ r.revision = s.revision /\ r.epoch = s.epoch
    BY <2>2, <2>4, <2>6 DEF RemovedIs, CachedIs, SyncedIs
  <2> QED
    BY <1>2, <2>7, <2>8, <2>9 DEF DetachIs, r, keys, d
<1> QED
  BY <1>1, <1>2

RestoredIs(r, s, u) ==
    LET keys == s.overlay[u].keys \intersect s.known
    IN /\ r \in Session
       /\ r.uris = [k \in Roots |-> IF k \in keys THEN s.uris[k] \union {u} ELSE s.uris[k]]
       /\ r.fileSets = [s.fileSets EXCEPT ![u] = @ \union keys]
       /\ r.documents = [s.documents EXCEPT ![u] = s.overlay[u].document]
       /\ r.overlay = [s.overlay EXCEPT ![u] = NoOverlay]
       /\ r.detached = IF s.overlay[u].document # NoDocument /\ s.fileSets[u] \union keys = {}
                       THEN s.detached \union {u} ELSE s.detached \ {u}
       /\ r.known = s.known /\ r.dirty = s.dirty /\ r.revision = s.revision /\ r.epoch = s.epoch

LEMMA RestoredFields ==
    ASSUME NEW s \in Session, NEW u \in Uris, s.overlay[u].keys # {}
    PROVE  RestoredIs(Restored(s, u), s, u)
<1> DEFINE keys == s.overlay[u].keys \intersect s.known
           uris == [k \in Roots |-> IF k \in keys THEN s.uris[k] \union {u} ELSE s.uris[k]]
           joined == [s EXCEPT !.uris = uris, !.fileSets[u] = @ \union keys,
                               !.documents[u] = s.overlay[u].document, !.overlay[u] = NoOverlay]
<1>1. Restored(s, u) = Synced(joined, u)
  BY DEF Restored
<1>2. /\ s.overlay[u].keys \in SUBSET Roots /\ s.overlay[u].document \in Document \union {NoDocument}
      /\ keys \in SUBSET Roots /\ uris \in [Roots -> SUBSET Uris]
  BY SessionTypes DEF Overlay
<1> HIDE DEF keys, uris
<1>3. /\ joined \in Session
      /\ joined.uris = uris
      /\ joined.fileSets = [s.fileSets EXCEPT ![u] = @ \union keys]
      /\ joined.documents = [s.documents EXCEPT ![u] = s.overlay[u].document]
      /\ joined.overlay = [s.overlay EXCEPT ![u] = NoOverlay]
      /\ joined.known = s.known /\ joined.dirty = s.dirty /\ joined.detached = s.detached
      /\ joined.revision = s.revision /\ joined.epoch = s.epoch
  BY <1>2, SessionTypes, BodyTypes DEF Session
<1>4. joined.documents[u] = s.overlay[u].document /\ joined.fileSets[u] = s.fileSets[u] \union keys
  BY <1>3, SessionTypes
<1> HIDE DEF joined
<1>5. SyncedIs(Synced(joined, u), joined, u)
  BY <1>3, SyncedFields
<1> QED
  BY <1>1, <1>3, <1>4, <1>5 DEF SyncedIs, RestoredIs, keys, uris

LEMMA PreparedType ==
    ASSUME NEW s \in Session, NEW u \in Uris, NEW t \in Texts
    PROVE  /\ Prepared(s, u, t) \in Document /\ Prepared(s, u, t).content = t
           /\ t \notin Broken => Prepared(s, u, t).parsed = t
<1>1. s.documents[u] # NoDocument => s.documents[u] \in Document
  BY SessionTypes
<1> QED
  BY <1>1 DEF Prepared, Document

RootDocuments == {d \in Document : d.content = Empty}

LEMMA LiveMembershipFields ==
    ASSUME NEW s \in Session, NEW u \in Uris, NEW keys \in SUBSET Roots, s.documents[u] # NoDocument
    PROVE  LET r == LiveMembershipCached(s, u, keys)
           IN \/ r = s
              \/ /\ keys # {} /\ s.overlay[u].keys = {}
                 /\ \E d \in RootDocuments : CachedIs(r, s, u, d, keys)
<1> DEFINE d == RootDocument(s.documents[u].parsed)
<1>1. d \in Document /\ d \in RootDocuments
  <2>1. s.documents[u] \in Document
    BY SessionTypes
  <2>2. d \in Document
    BY <2>1, BodyTypes DEF Document
  <2> QED
    BY <2>2 DEF RootDocuments, RootDocument
<1>2. LiveMembershipCached(s, u, keys) = s
      \/ /\ keys # {} /\ s.overlay[u].keys = {}
         /\ LiveMembershipCached(s, u, keys) = CacheDetached(s, u, d, keys)
  BY DEF LiveMembershipCached
<1> HIDE DEF d
<1> QED
  BY <1>1, <1>2, CachedFields

\* An opened or changed file, after Detach.
TextAppliedIs(r, s, u, t) ==
    LET keys == BackingKeys(s, u)
        q == Detach(s, u, keys # {} /\ t # Empty)
    IN /\ r \in Session
       /\ r.documents = [s.documents EXCEPT ![u] = Prepared(s, u, t)]
       /\ r.uris = q.uris /\ r.fileSets = q.fileSets /\ r.known = s.known
       /\ \/ r.overlay = q.overlay
          \/ /\ keys # {} /\ q.overlay[u].keys = {}
             /\ \E d \in RootDocuments : r.overlay = [q.overlay EXCEPT ![u] = [document |-> d, keys |-> keys]]
       /\ r.detached = IF q.fileSets[u] = {} THEN s.detached \union {u} ELSE s.detached \ {u}
       /\ r.dirty \subseteq s.dirty \union s.known
       /\ r.revision = s.revision /\ r.epoch = s.epoch

LEMMA TextAppliedFields ==
    ASSUME NEW s \in Session, NEW u \in Uris, NEW t \in Texts, NEW interfaceChange \in BOOLEAN
    PROVE  TextAppliedIs(TextApplied(s, u, t, interfaceChange), s, u, t)
<1> DEFINE keys == BackingKeys(s, u)
           preserve == keys # {} /\ t # Empty
           q == Detach(s, u, preserve)
           d == Prepared(s, u, t)
           inserted == Inserted(q, u, d)
           cached == LiveMembershipCached(inserted, u, keys)
           marked == IF IsLive(s.documents[u]) /\ interfaceChange THEN keys \intersect s.known ELSE {}
           r == [cached EXCEPT !.dirty = @ \union marked]
<1>1. keys \in SUBSET Roots /\ d \in Document
  <2>1. s.overlay[u].keys \in SUBSET Roots /\ s.fileSets[u] \in SUBSET Roots
    BY SessionTypes DEF Overlay
  <2>2. keys \in SUBSET Roots
    BY <2>1 DEF BackingKeys
  <2> QED
    BY <2>2, PreparedType
<1>2. TextApplied(s, u, t, interfaceChange) = r
  BY DEF TextApplied
<1>3. marked \subseteq s.known /\ marked \subseteq Roots
  BY SessionTypes
<1>4. DetachIs(q, s, u, preserve)
  <2>1. preserve \in BOOLEAN
    OBVIOUS
  <2> HIDE DEF preserve
  <2> QED
    BY <2>1, DetachFields
<1> HIDE DEF d, marked, q
<1>5. q \in Session
  BY <1>4 DEF DetachIs
<1>6. InsertedIs(inserted, q, u, d)
  BY <1>1, <1>5, InsertedFields
<1> HIDE DEF inserted
<1>7. inserted \in Session /\ inserted.documents[u] # NoDocument
  BY <1>1, <1>5, <1>6, SessionTypes, NoDocumentAssumption DEF InsertedIs
<1>8. \/ cached = inserted
      \/ /\ keys # {} /\ inserted.overlay[u].keys = {}
         /\ \E e \in RootDocuments : CachedIs(cached, inserted, u, e, keys)
  BY <1>1, <1>7, LiveMembershipFields
<1> HIDE DEF cached, keys, preserve
<1>9. /\ cached \in Session
      /\ \/ cached.overlay = inserted.overlay
         \/ /\ keys # {} /\ inserted.overlay[u].keys = {}
            /\ \E e \in RootDocuments :
                 cached.overlay = [inserted.overlay EXCEPT ![u] = [document |-> e, keys |-> keys]]
      /\ cached.documents = inserted.documents /\ cached.known = inserted.known /\ cached.uris = inserted.uris
      /\ cached.fileSets = inserted.fileSets /\ cached.detached = inserted.detached
      /\ cached.dirty = inserted.dirty
      /\ cached.revision = inserted.revision /\ cached.epoch = inserted.epoch
  BY <1>7, <1>8 DEF CachedIs
<1>10. /\ r \in Session /\ r.dirty = cached.dirty \union marked
       /\ r.documents = cached.documents /\ r.known = cached.known /\ r.uris = cached.uris
       /\ r.fileSets = cached.fileSets /\ r.overlay = cached.overlay /\ r.detached = cached.detached
       /\ r.revision = cached.revision /\ r.epoch = cached.epoch
  BY <1>3, <1>9, SessionTypes DEF Session
<1> HIDE DEF r
<1>11. r.detached = IF q.fileSets[u] = {} THEN s.detached \union {u} ELSE s.detached \ {u}
  <2>1. q.detached \ {u} = s.detached \ {u}
    BY <1>4 DEF DetachIs
  <2>2. r.detached = IF q.fileSets[u] = {} THEN q.detached \union {u} ELSE q.detached \ {u}
    BY <1>6, <1>9, <1>10 DEF InsertedIs
  <2> QED
    BY <2>1, <2>2
<1>12. r.documents = [s.documents EXCEPT ![u] = d]
  BY <1>4, <1>6, <1>9, <1>10 DEF DetachIs, InsertedIs
<1>13. r.dirty \subseteq s.dirty \union s.known
  BY <1>3, <1>4, <1>6, <1>9, <1>10 DEF DetachIs, InsertedIs
<1>14. \/ r.overlay = q.overlay
       \/ /\ keys # {} /\ q.overlay[u].keys = {}
          /\ \E e \in RootDocuments : r.overlay = [q.overlay EXCEPT ![u] = [document |-> e, keys |-> keys]]
  BY <1>6, <1>9, <1>10 DEF InsertedIs
<1>15. /\ r \in Session /\ r.uris = q.uris /\ r.fileSets = q.fileSets /\ r.known = s.known
       /\ r.revision = s.revision /\ r.epoch = s.epoch
  BY <1>4, <1>6, <1>9, <1>10 DEF DetachIs, InsertedIs
<1> QED
  BY <1>2, <1>11, <1>12, <1>13, <1>14, <1>15 DEF TextAppliedIs, q, d, keys, preserve

\* A load of root k: which of the files it found go where.
FilesFound(found) == {u \in Uris : found[u] # NoBody}
Held(s, found, exclude) == {u \in FilesFound(found) : IsHeld(s, u, exclude)}
Members(s, found, exclude) == FilesFound(found) \ Held(s, found, exclude)

ReplacedOverlay(s, k, found, exclude) ==
    [u \in Uris |-> IF u \in Held(s, found, exclude)
                    THEN [document |-> RootDocument(found[u]), keys |-> s.overlay[u].keys \union {k}]
                    ELSE s.overlay[u]]

UnchangedIs(r, s, k, found, exclude) ==
    /\ r \in Session
    /\ r.overlay = ReplacedOverlay(s, k, found, exclude)
    /\ r.dirty = s.dirty \ {k}
    /\ r.documents = s.documents /\ r.known = s.known /\ r.uris = s.uris /\ r.fileSets = s.fileSets
    /\ r.detached = s.detached /\ r.revision = s.revision /\ r.epoch = s.epoch

ReplacedIs(r, s, k, found, exclude) ==
    LET members == Members(s, found, exclude)
    IN /\ r \in Session
       /\ r.overlay = ReplacedOverlay(s, k, found, exclude)
       /\ r.documents = [u \in Uris |-> IF u \in members THEN RootDocument(found[u])
                                        ELSE IF u \in Removable(s, k) THEN NoDocument ELSE s.documents[u]]
       /\ r.uris = [s.uris EXCEPT ![k] = members]
       /\ r.fileSets = [u \in Uris |-> IF u \in members THEN s.fileSets[u] \union {k} ELSE s.fileSets[u] \ {k}]
       /\ r.known = s.known \union {k} /\ r.dirty = s.dirty \ {k}
       /\ r.detached = (s.detached \ Removable(s, k)) \ members
       /\ r.revision = s.revision + 1 /\ r.epoch = s.epoch + 1

LEMMA ReplacedFields ==
    ASSUME NEW s \in Session, NEW k \in Roots, NEW found \in Contents(k), NEW exclude
    PROVE  LET r == Replaced(s, k, found, exclude)
           IN IF Unchanged(s, k, found, Members(s, found, exclude))
              THEN UnchangedIs(r, s, k, found, exclude) ELSE ReplacedIs(r, s, k, found, exclude)
<1> DEFINE held == Held(s, found, exclude)
           members == Members(s, found, exclude)
           overlay == ReplacedOverlay(s, k, found, exclude)
           cached == [s EXCEPT !.overlay = overlay]
           gone == Removable(s, k)
           emptied == WithoutDocuments(cached, Removable(s, k))
           filled == [emptied EXCEPT !.documents =
                        [u \in Uris |-> IF u \in members THEN RootDocument(found[u]) ELSE emptied.documents[u]]]
           recorded == Recorded(filled, k, members)
           r == Replaced(s, k, found, exclude)
<1>1. \A u \in Uris : found[u] \in Texts \union {NoBody} /\ RootDocument(found[u]) \in Document
  BY BodyTypes DEF Contents
<1>2. \A u \in Uris : s.overlay[u].keys \union {k} \in SUBSET Roots
  BY SessionTypes DEF Overlay
<1>3. overlay \in [Uris -> Overlay]
  BY <1>1, <1>2, BodyTypes, SessionTypes DEF ReplacedOverlay
<1>4. \A u \in Uris : CacheDetached(s, u, RootDocument(found[u]), {k}).overlay[u]
                        = [document |-> RootDocument(found[u]), keys |-> s.overlay[u].keys \union {k}]
  <2> SUFFICES ASSUME NEW u \in Uris
               PROVE  CacheDetached(s, u, RootDocument(found[u]), {k}).overlay[u]
                        = [document |-> RootDocument(found[u]), keys |-> s.overlay[u].keys \union {k}]
    OBVIOUS
  <2>1. CachedIs(CacheDetached(s, u, RootDocument(found[u]), {k}), s, u, RootDocument(found[u]), {k})
    BY <1>1, CachedFields
  <2> QED
    BY <2>1, SessionTypes DEF CachedIs
<1>5. [u \in Uris |-> IF u \in held THEN CacheDetached(s, u, RootDocument(found[u]), {k}).overlay[u]
                      ELSE s.overlay[u]] = overlay
  BY <1>4 DEF ReplacedOverlay
<1>6. r = IF Unchanged(s, k, found, members) THEN [cached EXCEPT !.dirty = @ \ {k}]
          ELSE [Bumped(recorded) EXCEPT !.epoch = @ + 1]
  BY <1>5 DEF Replaced, Held, Members, FilesFound
<1>7. members \in SUBSET Uris /\ gone \in SUBSET Uris
  BY SessionTypes DEF Members, FilesFound, Removable
<1> HIDE DEF members, overlay, held
<1>8. /\ cached \in Session /\ cached.overlay = overlay
      /\ cached.documents = s.documents /\ cached.known = s.known /\ cached.uris = s.uris
      /\ cached.fileSets = s.fileSets /\ cached.detached = s.detached /\ cached.dirty = s.dirty
      /\ cached.revision = s.revision /\ cached.epoch = s.epoch
  BY <1>3, SessionTypes DEF Session
<1>9. CASE Unchanged(s, k, found, members)
  <2> DEFINE q == [cached EXCEPT !.dirty = @ \ {k}]
  <2>1. /\ q \in Session /\ q.dirty = cached.dirty \ {k} /\ q.overlay = cached.overlay
        /\ q.documents = cached.documents /\ q.known = cached.known /\ q.uris = cached.uris
        /\ q.fileSets = cached.fileSets /\ q.detached = cached.detached
        /\ q.revision = cached.revision /\ q.epoch = cached.epoch
    <3> HIDE DEF cached
    <3> QED
      BY <1>8, SessionTypes DEF Session
  <2>2. r = q
    BY <1>6, <1>9
  <2> HIDE DEF q, r, cached
  <2>3. UnchangedIs(r, s, k, found, exclude)
    BY <1>8, <2>1, <2>2 DEF UnchangedIs, overlay
  <2> QED
    BY <1>9, <2>3 DEF members, r
<1>10. CASE ~Unchanged(s, k, found, members)
  <2> HIDE DEF cached
  <2>1. WithoutIs(emptied, cached, gone)
    BY <1>7, <1>8, WithoutFields
  <2> HIDE DEF emptied, gone
  <2>2. emptied \in Session
    BY <2>1 DEF WithoutIs
  <2>3. /\ filled \in Session
        /\ filled.documents = [u \in Uris |-> IF u \in members THEN RootDocument(found[u]) ELSE emptied.documents[u]]
        /\ filled.known = emptied.known /\ filled.uris = emptied.uris /\ filled.fileSets = emptied.fileSets
        /\ filled.overlay = emptied.overlay /\ filled.detached = emptied.detached
        /\ filled.dirty = emptied.dirty /\ filled.revision = emptied.revision /\ filled.epoch = emptied.epoch
    <3>1. [u \in Uris |-> IF u \in members THEN RootDocument(found[u]) ELSE emptied.documents[u]]
            \in [Uris -> Document \union {NoDocument}]
      BY <1>1, <2>2, SessionTypes
    <3> QED
      BY <2>2, <3>1, SessionTypes DEF Session
  <2> HIDE DEF filled
  <2>4. RecordedIs(recorded, filled, k, members)
    BY <1>7, <2>3, RecordedFields
  <2> HIDE DEF recorded
  <2>5. recorded \in Session
    BY <2>4 DEF RecordedIs
  <2> DEFINE bumped == Bumped(recorded)
             q == [bumped EXCEPT !.epoch = @ + 1]
  <2>6. BumpedIs(bumped, recorded)
    BY <2>5, BumpedFields
  <2> HIDE DEF bumped
  <2>7. bumped \in Session
    BY <2>6 DEF BumpedIs
  <2>8. /\ q \in Session /\ q.epoch = bumped.epoch + 1 /\ q.revision = bumped.revision
        /\ q.dirty = bumped.dirty /\ q.overlay = bumped.overlay
        /\ q.documents = bumped.documents /\ q.known = bumped.known /\ q.uris = bumped.uris
        /\ q.fileSets = bumped.fileSets /\ q.detached = bumped.detached
    <3>1. bumped.epoch + 1 \in Nat
      BY <2>7, SessionTypes
    <3>2. q \in Session /\ q.epoch = bumped.epoch + 1 /\ q.revision = bumped.revision
      BY <2>7, <3>1 DEF Session
    <3>3. q.dirty = bumped.dirty /\ q.overlay = bumped.overlay /\ q.documents = bumped.documents
      BY <2>7 DEF Session
    <3>4. q.known = bumped.known /\ q.uris = bumped.uris /\ q.fileSets = bumped.fileSets
      BY <2>7 DEF Session
    <3>5. q.detached = bumped.detached
      BY <2>7 DEF Session
    <3> HIDE DEF q
    <3> QED
      BY <3>2, <3>3, <3>4, <3>5
  <2>9. r = q
    BY <1>6, <1>10 DEF bumped
  <2> HIDE DEF q, r
  <2>10. /\ q \in Session /\ q.overlay = overlay
         /\ q.uris = [s.uris EXCEPT ![k] = members]
         /\ q.fileSets = [u \in Uris |-> IF u \in members THEN s.fileSets[u] \union {k} ELSE s.fileSets[u] \ {k}]
         /\ q.known = s.known \union {k} /\ q.dirty = s.dirty \ {k}
         /\ q.detached = (s.detached \ gone) \ members
         /\ q.revision = s.revision + 1 /\ q.epoch = s.epoch + 1
    BY <1>8, <2>1, <2>3, <2>4, <2>6, <2>8 DEF WithoutIs, RecordedIs, BumpedIs
  <2>11. q.documents = filled.documents
    BY <2>4, <2>6, <2>8 DEF RecordedIs, BumpedIs
  <2>12. emptied.documents = [u \in Uris |-> IF u \in gone THEN NoDocument ELSE s.documents[u]]
    BY <1>8, <2>1 DEF WithoutIs
  <2>13. q.documents = [u \in Uris |-> IF u \in members THEN RootDocument(found[u])
                                       ELSE IF u \in gone THEN NoDocument ELSE s.documents[u]]
    BY <2>3, <2>11, <2>12
  <2>14. ReplacedIs(q, s, k, found, exclude)
    BY <2>10, <2>13 DEF ReplacedIs, overlay, members, gone
  <2> QED
    BY <1>10, <2>9, <2>14 DEF members, r
<1> QED
  BY <1>9, <1>10

RootRemovedIs(r, s, k) ==
    /\ r \in Session
    /\ r.overlay = DroppedOverlay(s, k)
    /\ r.revision = s.revision /\ r.epoch = s.epoch
    /\ \/ /\ s.uris[k] = {}
          /\ r.documents = s.documents /\ r.known = s.known /\ r.uris = s.uris /\ r.fileSets = s.fileSets
          /\ r.detached = s.detached /\ r.dirty = s.dirty
       \/ /\ s.uris[k] # {}
          /\ r.documents = [u \in Uris |-> IF u \in Removable(s, k) THEN NoDocument ELSE s.documents[u]]
          /\ r.known = s.known \union {k} /\ r.dirty = s.dirty \ {k}
          /\ r.uris = [s.uris EXCEPT ![k] = {}]
          /\ r.fileSets = [u \in Uris |-> s.fileSets[u] \ {k}]
          /\ r.detached = s.detached \ Removable(s, k)

LEMMA RootRemovedFields ==
    ASSUME NEW s \in Session, NEW k \in Roots
    PROVE  RootRemovedIs(RootRemoved(s, k), s, k)
<1>1. CASE s.uris[k] = {}
  <2>1. DroppedIs(DropMembership(s, k), s, k)
    BY DroppedFields
  <2> QED
    BY <1>1, <2>1 DEF RootRemoved, DroppedIs, RootRemovedIs
<1>2. CASE s.uris[k] # {}
  <2> DEFINE gone == Removable(s, k)
             emptied == WithoutDocuments(s, gone)
             recorded == Recorded(emptied, k, {})
             r == DropMembership(recorded, k)
  <2>1. gone \in SUBSET Uris /\ {} \in SUBSET Uris
    BY SessionTypes DEF Removable
  <2>2. RootRemoved(s, k) = r
    BY <1>2 DEF RootRemoved
  <2> HIDE DEF gone
  <2>3. WithoutIs(emptied, s, gone)
    BY <2>1, WithoutFields
  <2> HIDE DEF emptied
  <2>4. RecordedIs(recorded, emptied, k, {})
    BY <2>1, <2>3, RecordedFields DEF WithoutIs
  <2> HIDE DEF recorded
  <2>5. DroppedIs(r, recorded, k)
    BY <2>4, DroppedFields DEF RecordedIs
  <2> HIDE DEF r
  <2>6. recorded.overlay = s.overlay
    BY <2>3, <2>4 DEF WithoutIs, RecordedIs
  <2>7. DroppedOverlay(recorded, k) = DroppedOverlay(s, k)
    BY <2>6 DEF DroppedOverlay
  <2>8. RootRemovedIs(r, s, k)
    BY <1>2, <2>3, <2>4, <2>5, <2>7 DEF WithoutIs, RecordedIs, DroppedIs, RootRemovedIs, gone
  <2> QED
    BY <2>2, <2>8
<1> QED
  BY <1>1, <1>2

\* The open documents of a session that is replaced.
Live(s) == {u \in Uris : IsLive(s.documents[u])}

ResetIs(r, s) ==
    /\ r \in Session
    /\ r.documents = [u \in Uris |-> IF u \in Live(s) THEN Prepared(NewSession, u, s.documents[u].content)
                                     ELSE NoDocument]
    /\ r.detached = Live(s) /\ r.epoch = s.epoch + 1
    /\ r.known = {} /\ r.dirty = {} /\ r.uris = [k \in Roots |-> {}]
    /\ r.fileSets = [u \in Uris |-> {}] /\ r.overlay = [u \in Uris |-> NoOverlay]

LEMMA NewSessionType == NewSession \in Session
<1>1. [u \in Uris |-> NoOverlay] \in [Uris -> Overlay]
  BY BodyTypes
<1> QED
  BY <1>1 DEF NewSession, Session

LEMMA ResetFields ==
    ASSUME NEW s \in Session
    PROVE  ResetIs(ResetToLive(s), s)
<1> DEFINE documents == [u \in Uris |-> IF u \in Live(s) THEN Prepared(NewSession, u, s.documents[u].content)
                                        ELSE NoDocument]
           revision == IF Live(s) = {} THEN 0 ELSE 1
<1>1. \A u \in Live(s) : s.documents[u].content \in Texts
  BY SessionTypes DEF Live, IsLive, Document
<1>2. documents \in [Uris -> Document \union {NoDocument}]
  BY <1>1, NewSessionType, PreparedType DEF Live
<1>3. revision \in Nat /\ Live(s) \subseteq Uris /\ s.epoch + 1 \in Nat
  BY SessionTypes DEF Live
<1>4. ResetToLive(s) = [NewSession EXCEPT !.documents = documents, !.detached = Live(s), !.revision = revision,
                                          !.epoch = s.epoch + 1]
  BY DEF ResetToLive, Live
<1> HIDE DEF documents, revision
<1>5. ResetToLive(s) \in Session
  BY <1>2, <1>3, <1>4, NewSessionType DEF Session
<1> QED
  BY <1>4, <1>5 DEF ResetIs, NewSession, documents

-----------------------------------------------------------------------------
(* The tables agree, whatever is edited and loaded.                          *)

\* TypeOK and IndexConsistent of a session.
SessionOK(s) ==
    /\ s \in Session
    /\ s.dirty \subseteq s.known
    /\ \A u \in Uris : s.overlay[u].keys = {} <=> s.overlay[u].document = NoDocument
    /\ \A u \in Uris, k \in Roots : u \in s.uris[k] <=> k \in s.fileSets[u]

LEMMA BumpedOK ==
    ASSUME NEW s, SessionOK(s)
    PROVE  SessionOK(Bumped(s))
  BY BumpedFields DEF SessionOK, BumpedIs

LEMMA DetachOK ==
    ASSUME NEW s, SessionOK(s), NEW u \in Uris, NEW preserve \in BOOLEAN
    PROVE  SessionOK(Detach(s, u, preserve))
<1> DEFINE r == Detach(s, u, preserve)
<1>1. s \in Session
  BY DEF SessionOK
<1>2. DetachIs(r, s, u, preserve)
  BY <1>1, DetachFields
<1> HIDE DEF r
<1>3. \A v \in Uris : r.overlay[v].keys = {} <=> r.overlay[v].document = NoDocument
  BY <1>1, <1>2, SessionTypes DEF SessionOK, IsRootDocument, DetachIs
<1>4. \A v \in Uris, k \in Roots : v \in r.uris[k] <=> k \in r.fileSets[v]
  BY <1>1, <1>2, SessionTypes DEF SessionOK, DetachIs
<1> QED
  BY <1>2, <1>3, <1>4 DEF SessionOK, DetachIs, r

LEMMA InsertedOK ==
    ASSUME NEW s, SessionOK(s), NEW u \in Uris, NEW d \in Document
    PROVE  SessionOK(Inserted(s, u, d))
<1>1. InsertedIs(Inserted(s, u, d), s, u, d)
  BY InsertedFields DEF SessionOK
<1> QED
  BY <1>1 DEF SessionOK, InsertedIs

LEMMA DeletedOK ==
    ASSUME NEW s, SessionOK(s), NEW u \in Uris
    PROVE  SessionOK(Deleted(s, u))
<1>1. DeletedIs(Deleted(s, u), s, u)
  BY DeletedFields DEF SessionOK
<1> QED
  BY <1>1 DEF SessionOK, DeletedIs

LEMMA RestoredOK ==
    ASSUME NEW s, SessionOK(s), NEW u \in Uris
    PROVE  SessionOK(Restored(s, u))
<1>1. CASE s.overlay[u].keys = {}
  BY <1>1 DEF Restored
<1>2. CASE s.overlay[u].keys # {}
  <2> DEFINE r == Restored(s, u)
  <2>1. s \in Session
    BY DEF SessionOK
  <2>2. RestoredIs(r, s, u)
    BY <1>2, <2>1, RestoredFields
  <2> HIDE DEF r
  <2>3. \A v \in Uris : r.overlay[v].keys = {} <=> r.overlay[v].document = NoDocument
    BY <2>1, <2>2, SessionTypes DEF SessionOK, NoOverlay, RestoredIs
  <2>4. \A v \in Uris, k \in Roots : v \in r.uris[k] <=> k \in r.fileSets[v]
    BY <2>1, <2>2, SessionTypes DEF SessionOK, RestoredIs
  <2> QED
    BY <2>2, <2>3, <2>4 DEF SessionOK, RestoredIs, r
<1> QED
  BY <1>1, <1>2

LEMMA TextAppliedOK ==
    ASSUME NEW s, SessionOK(s), NEW u \in Uris, NEW t \in Texts, NEW interfaceChange \in BOOLEAN
    PROVE  SessionOK(TextApplied(s, u, t, interfaceChange))
<1> DEFINE keys == BackingKeys(s, u)
           preserve == keys # {} /\ t # Empty
           q == Detach(s, u, preserve)
           r == TextApplied(s, u, t, interfaceChange)
<1>1. SessionOK(q)
  <2>1. preserve \in BOOLEAN
    OBVIOUS
  <2> HIDE DEF preserve
  <2> QED
    BY <2>1, DetachOK
<1>2. TextAppliedIs(r, s, u, t)
  BY TextAppliedFields DEF SessionOK
<1> HIDE DEF r
<1>3. /\ r \in Session
      /\ r.uris = q.uris /\ r.fileSets = q.fileSets /\ r.known = s.known
      /\ \/ r.overlay = q.overlay
         \/ /\ keys # {} /\ q.overlay[u].keys = {}
            /\ \E d \in RootDocuments : r.overlay = [q.overlay EXCEPT ![u] = [document |-> d, keys |-> keys]]
      /\ r.dirty \subseteq s.dirty \union s.known
  BY <1>2 DEF TextAppliedIs
<1> HIDE DEF q, keys
<1>4. r.dirty \subseteq r.known
  BY <1>3 DEF SessionOK
<1>5. \A v \in Uris : r.overlay[v].keys = {} <=> r.overlay[v].document = NoDocument
  <2>1. CASE r.overlay = q.overlay
    BY <1>1, <2>1 DEF SessionOK
  <2>2. ASSUME keys # {}, NEW d \in Document, r.overlay = [q.overlay EXCEPT ![u] = [document |-> d, keys |-> keys]]
        PROVE  \A v \in Uris : r.overlay[v].keys = {} <=> r.overlay[v].document = NoDocument
    <3>1. q.overlay \in [Uris -> Overlay] /\ d # NoDocument
      BY <1>1, SessionTypes, NoDocumentAssumption DEF SessionOK
    <3> QED
      BY <1>1, <2>2, <3>1 DEF SessionOK
  <2> QED
    BY <1>3, <2>1, <2>2 DEF RootDocuments
<1>6. \A v \in Uris, k \in Roots : v \in r.uris[k] <=> k \in r.fileSets[v]
  BY <1>1, <1>3 DEF SessionOK
<1> QED
  BY <1>3, <1>4, <1>5, <1>6 DEF SessionOK, r

LEMMA ReplacedOK ==
    ASSUME NEW s, SessionOK(s), NEW k \in Roots, NEW found \in Contents(k), NEW exclude
    PROVE  SessionOK(Replaced(s, k, found, exclude))
<1> DEFINE r == Replaced(s, k, found, exclude)
           members == Members(s, found, exclude)
<1>1. s \in Session
  BY DEF SessionOK
<1>2. \A u \in Uris : RootDocument(found[u]) # NoDocument
  <2>1. \A u \in Uris : found[u] \in Texts \union {NoBody}
    BY DEF Contents
  <2> QED
    BY <2>1, BodyTypes, NoDocumentAssumption
<1>3. \A u \in Uris : LET o == ReplacedOverlay(s, k, found, exclude)[u] IN o.keys = {} <=> o.document = NoDocument
  BY <1>2 DEF ReplacedOverlay, SessionOK
<1>4. CASE Unchanged(s, k, found, members)
  <2>1. UnchangedIs(r, s, k, found, exclude)
    BY <1>1, <1>4, ReplacedFields
  <2> HIDE DEF r
  <2> QED
    BY <1>3, <2>1 DEF SessionOK, UnchangedIs, r
<1>5. CASE ~Unchanged(s, k, found, members)
  <2>1. ReplacedIs(r, s, k, found, exclude)
    BY <1>1, <1>5, ReplacedFields
  <2> HIDE DEF r, members
  <2>2. /\ r.uris = [s.uris EXCEPT ![k] = members] /\ members \subseteq Uris
        /\ r.fileSets = [u \in Uris |-> IF u \in members THEN s.fileSets[u] \union {k} ELSE s.fileSets[u] \ {k}]
    BY <2>1 DEF ReplacedIs, members, Members, FilesFound
  <2>3. \A u \in Uris, j \in Roots : u \in r.uris[j] <=> j \in r.fileSets[u]
    BY <1>1, <2>2, SessionTypes DEF SessionOK
  <2>4. r \in Session /\ r.dirty \subseteq r.known
    BY <2>1 DEF SessionOK, ReplacedIs
  <2>5. \A u \in Uris : r.overlay[u].keys = {} <=> r.overlay[u].document = NoDocument
    BY <1>3, <2>1 DEF ReplacedIs
  <2> QED
    BY <2>3, <2>4, <2>5 DEF SessionOK, r
<1> QED
  BY <1>4, <1>5

LEMMA RootRemovedOK ==
    ASSUME NEW s, SessionOK(s), NEW k \in Roots
    PROVE  SessionOK(RootRemoved(s, k))
<1> DEFINE r == RootRemoved(s, k)
<1>1. s \in Session
  BY DEF SessionOK
<1>2. RootRemovedIs(r, s, k)
  BY <1>1, RootRemovedFields
<1> HIDE DEF r
<1>3. \A u \in Uris : r.overlay[u].keys = {} <=> r.overlay[u].document = NoDocument
  <2>1. r.overlay = DroppedOverlay(s, k)
    BY <1>2 DEF RootRemovedIs
  <2> SUFFICES ASSUME NEW u \in Uris PROVE r.overlay[u].keys = {} <=> r.overlay[u].document = NoDocument
    OBVIOUS
  <2>2. s.overlay[u].keys = {} <=> s.overlay[u].document = NoDocument
    BY DEF SessionOK
  <2>3. CASE s.overlay[u].keys \ {k} = {}
    <3>1. r.overlay[u] = NoOverlay
      BY <2>1, <2>3 DEF DroppedOverlay
    <3> QED
      BY <3>1 DEF NoOverlay
  <2>4. CASE s.overlay[u].keys \ {k} # {}
    <3>1. r.overlay[u] = [document |-> s.overlay[u].document, keys |-> s.overlay[u].keys \ {k}]
      BY <2>1, <2>4 DEF DroppedOverlay
    <3> QED
      BY <2>2, <2>4, <3>1
  <2> QED
    BY <2>3, <2>4
<1>4. \A u \in Uris, j \in Roots : u \in r.uris[j] <=> j \in r.fileSets[u]
  BY <1>1, <1>2, SessionTypes DEF SessionOK, RootRemovedIs
<1>5. r \in Session /\ r.dirty \subseteq r.known
  BY <1>2 DEF SessionOK, RootRemovedIs
<1> QED
  BY <1>3, <1>4, <1>5 DEF SessionOK, r

LEMMA ResetOK ==
    ASSUME NEW s \in Session
    PROVE  SessionOK(ResetToLive(s))
<1>1. ResetIs(ResetToLive(s), s)
  BY ResetFields
<1> QED
  BY <1>1 DEF SessionOK, ResetIs, NoOverlay

RefreshedIs(r, s, k) ==
    /\ r \in Session
    /\ r.dirty = s.dirty \ {k} /\ r.epoch = s.epoch + 1
    /\ r.documents = s.documents /\ r.known = s.known /\ r.uris = s.uris /\ r.fileSets = s.fileSets
    /\ r.overlay = s.overlay /\ r.detached = s.detached /\ r.revision = s.revision

LEMMA RefreshedFields ==
    ASSUME NEW s \in Session, NEW k \in Roots
    PROVE  RefreshedIs([s EXCEPT !.dirty = @ \ {k}, !.epoch = @ + 1], s, k)
<1> DEFINE q == [s EXCEPT !.dirty = @ \ {k}]
           r == [q EXCEPT !.epoch = @ + 1]
<1>1. /\ q \in Session /\ q.dirty = s.dirty \ {k} /\ q.epoch = s.epoch
      /\ q.documents = s.documents /\ q.known = s.known /\ q.uris = s.uris /\ q.fileSets = s.fileSets
      /\ q.overlay = s.overlay /\ q.detached = s.detached /\ q.revision = s.revision
  BY SessionTypes DEF Session
<1>2. [s EXCEPT !.dirty = @ \ {k}, !.epoch = @ + 1] = r
  OBVIOUS
<1> HIDE DEF q
<1>3. RefreshedIs(r, q, k)
  <2>1. q.dirty \ {k} = q.dirty
    BY <1>1
  <2> QED
    BY <1>1, <2>1, SessionTypes DEF Session, RefreshedIs
<1> HIDE DEF r
<1> QED
  BY <1>1, <1>2, <1>3 DEF RefreshedIs

LEMMA SessionStep == SessionOK(session) /\ [Next]_vars => SessionOK(session)'
<1> SUFFICES ASSUME SessionOK(session), [Next]_vars PROVE SessionOK(session')
  OBVIOUS
<1>0. SessionOK(Bumped(session)) /\ session \in Session
  BY BumpedOK DEF SessionOK
<1>1. ASSUME NEW u \in Uris, NEW t \in EditorTexts, NEW interfaceChange \in BOOLEAN,
             SetFileText(u, t, interfaceChange)
      PROVE  SessionOK(session')
  <2>1. t \in Texts
    BY DocumentsAssumption
  <2>2. session' = session \/ session' = TextApplied(Bumped(session), u, t, interfaceChange)
    BY <1>1 DEF SetFileText
  <2>3. SessionOK(TextApplied(Bumped(session), u, t, interfaceChange))
    BY <1>0, <2>1, TextAppliedOK
  <2> QED
    BY <2>2, <2>3
<1>2. ASSUME NEW u \in Uris, NEW t \in EditorTexts, AddDocument(u, t) PROVE SessionOK(session')
  <2> DEFINE preserve == BackingKeys(session, u) # {}
             detach == Detach(Bumped(session), u, preserve)
             d == [content |-> t, parsed |-> t]
  <2>1. d \in Document
    BY DocumentsAssumption DEF Document
  <2>2. session' = Bumped(session) \/ session' = Inserted(detach, u, d)
    BY <1>2 DEF AddDocument
  <2>3. SessionOK(detach)
    <3>1. preserve \in BOOLEAN
      OBVIOUS
    <3> HIDE DEF preserve
    <3> QED
      BY <1>0, <3>1, DetachOK
  <2> HIDE DEF detach, d
  <2>4. SessionOK(Inserted(detach, u, d))
    BY <2>1, <2>3, InsertedOK
  <2> QED
    BY <1>0, <2>2, <2>4
<1>3. ASSUME NEW u \in Uris, RemoveFile(u) PROVE SessionOK(session')
  <2>1. session' = session \/ session' = Restored(Detach(Deleted(Bumped(session), u), u, FALSE), u)
    BY <1>3 DEF RemoveFile, DocumentRemoved
  <2>2. SessionOK(Deleted(Bumped(session), u))
    BY <1>0, DeletedOK
  <2>3. SessionOK(Detach(Deleted(Bumped(session), u), u, FALSE))
    BY <2>2, DetachOK
  <2>4. SessionOK(Restored(Detach(Deleted(Bumped(session), u), u, FALSE), u))
    BY <2>3, RestoredOK
  <2> QED
    BY <2>1, <2>4
<1>4. ASSUME NEW k \in Roots, NEW found \in Contents(k), NEW exclude \in Excludable,
             ReplaceSourceSet(k, found, exclude)
      PROVE  SessionOK(session')
  BY <1>4, ReplacedOK DEF ReplaceSourceSet
<1>5. ASSUME NEW k \in Roots, RefreshFromLiveSubtree(k) PROVE SessionOK(session')
  <2>1. RefreshedIs(session', session, k)
    BY <1>0, <1>5, RefreshedFields DEF RefreshFromLiveSubtree
  <2> QED
    BY <2>1 DEF SessionOK, RefreshedIs
<1>6. ASSUME NEW k \in Roots, RemoveSourceSet(k) PROVE SessionOK(session')
  BY <1>0, <1>6, RootRemovedOK DEF RemoveSourceSet
<1>7. CASE ResetToOpenDocuments
  BY <1>0, <1>7, ResetOK DEF ResetToOpenDocuments
<1>8. CASE UNCHANGED vars
  BY <1>8 DEF vars
<1> QED
  BY <1>1, <1>2, <1>3, <1>4, <1>5, <1>6, <1>7, <1>8 DEF Next

LEMMA SessionInit == Init => SessionOK(session)
  BY NewSessionType DEF Init, SessionOK, NewSession, NoOverlay

\* The histories: what the editor has open, what was loaded and what was emptied.
HistoriesOK ==
    /\ editor \in [Uris -> Texts \union {Closed}]
    /\ onDisk \in [Roots -> [Uris -> Texts \union {NoBody}]]
    /\ blanked \subseteq Uris

LEMMA HistoriesStep == HistoriesOK /\ [Next]_vars => HistoriesOK'
<1> SUFFICES ASSUME HistoriesOK, [Next]_vars PROVE HistoriesOK'
  OBVIOUS
<1>1. editor' = editor \/ \E u \in Uris : \E t \in EditorTexts \union {Closed} : editor' = [editor EXCEPT ![u] = t]
  BY DEF Next, SetFileText, AddDocument, RemoveFile, ReplaceSourceSet, RefreshFromLiveSubtree,
         RemoveSourceSet, ResetToOpenDocuments, vars
<1>2. \/ onDisk' = onDisk
      \/ onDisk' = [k \in Roots |-> [u \in Uris |-> NoBody]]
      \/ \E k \in Roots : \/ \E found \in Contents(k) : onDisk' = [onDisk EXCEPT ![k] = found]
                          \/ onDisk' = [onDisk EXCEPT ![k] = [u \in Uris |-> NoBody]]
  BY DEF Next, SetFileText, AddDocument, RemoveFile, ReplaceSourceSet, RefreshFromLiveSubtree,
         RemoveSourceSet, ResetToOpenDocuments, vars
<1>7. \/ blanked' \subseteq blanked
      \/ \E u \in Uris : \E t \in EditorTexts : blanked' = Blanked(u, t)
  BY DEF Next, SetFileText, AddDocument, RemoveFile, ReplaceSourceSet, RefreshFromLiveSubtree,
         RemoveSourceSet, ResetToOpenDocuments, NotReadAnew, vars
<1>8. blanked' \subseteq Uris
  BY <1>7 DEF HistoriesOK, Blanked
<1>3. \A k \in Roots : Contents(k) \subseteq [Uris -> Texts \union {NoBody}]
  BY DEF Contents
<1>4. [u \in Uris |-> NoBody] \in [Uris -> Texts \union {NoBody}]
  OBVIOUS
<1>5. onDisk' \in [Roots -> [Uris -> Texts \union {NoBody}]]
  BY <1>2, <1>3, <1>4 DEF HistoriesOK
<1>6. editor' \in [Uris -> Texts \union {Closed}]
  BY <1>1, DocumentsAssumption DEF HistoriesOK
<1> QED
  BY <1>5, <1>6, <1>8 DEF HistoriesOK

LEMMA TablesInductive == Spec => [](SessionOK(session) /\ HistoriesOK)
<1>1. Init => HistoriesOK
  BY DEF Init, HistoriesOK
<1> QED
  BY <1>1, SessionInit, SessionStep, HistoriesStep, PTL DEF Spec

\* The types of a session's fields; only known roots are dirty, and an overlay
\* entry has a document as long as it has a root.
THEOREM TypeCorrect == Spec => []TypeOK
<1>1. SessionOK(session) /\ HistoriesOK => TypeOK
  BY DEF SessionOK, HistoriesOK, TypeOK
<1> QED
  BY <1>1, TablesInductive, PTL

\* The two tables of memberships agree after any sequence of operations, also
\* where the editor sets empty texts.
THEOREM MembershipsAgree == Spec => []IndexConsistent
<1>1. SessionOK(session) => IndexConsistent
  BY DEF SessionOK, IndexConsistent
<1> QED
  BY <1>1, TablesInductive, PTL

-----------------------------------------------------------------------------
(* The files.                                                                *)

LEMMA InvFacts ==
    ASSUME DocumentsInv
    PROVE  session \in Session /\ SessionOK(session)
  BY DEF DocumentsInv, TypeOK, IndexConsistent, SessionOK

LEMMA InvTypes ==
    ASSUME DocumentsInv
    PROVE  /\ session \in Session
           /\ session.documents \in [Uris -> Document \union {NoDocument}]
           /\ session.fileSets \in [Uris -> SUBSET Roots] /\ session.uris \in [Roots -> SUBSET Uris]
           /\ session.overlay \in [Uris -> Overlay] /\ session.known \subseteq Roots
           /\ editor \in [Uris -> Texts \union {Closed}]
           /\ onDisk \in [Roots -> [Uris -> Texts \union {NoBody}]]
           /\ blanked \subseteq Uris
           /\ FilesKept
  BY InvFacts, SessionTypes DEF DocumentsInv, TypeOK

\* A file is edited, open without text, or closed; the live documents are
\* those of the edited files.
LEMMA FileKinds ==
    ASSUME DocumentsInv, NEW u \in Uris
    PROVE  /\ IsLive(session.documents[u]) <=> u \in Edited
           /\ u \in Edited => editor[u] \in Texts /\ editor[u] # Empty
           /\ u \notin Edited => editor[u] = Closed \/ (editor[u] = Empty /\ u \in blanked)
           /\ u \notin Edited /\ session.documents[u] # NoDocument => IsRootDocument(session.documents[u])
           /\ Closed # Empty
<1>1. Closed # Empty /\ (u \in Edited => editor[u] \in Texts /\ editor[u] # Empty)
  BY InvTypes, DocumentsAssumption DEF Edited
<1>2. u \notin Edited => editor[u] = Closed \/ (editor[u] = Empty /\ u \in blanked)
  <2>1. u \notin Edited => editor[u] = Closed \/ editor[u] = Empty
    BY DEF Edited
  <2>2. editor[u] = Empty => u \in blanked
    BY InvTypes DEF FilesKept, EmptyIsBlanked
  <2> QED
    BY <2>1, <2>2
<1>3. u \notin Edited /\ session.documents[u] # NoDocument => IsRootDocument(session.documents[u])
  BY <1>2, InvTypes DEF FilesKept, EmptyIsBlanked, ClosedIsOfRoot, IsRootDocument
<1>4. u \in Edited => IsLive(session.documents[u])
  BY <1>1, InvTypes DEF FilesKept, OpenIsLive, IsLive
<1>5. IsLive(session.documents[u]) => u \in Edited
  BY <1>3 DEF IsLive, IsRootDocument
<1> QED
  BY <1>1, <1>2, <1>3, <1>4, <1>5

\* What an edit of file u to text t does to the files.
EditedIs(r, s, u, t) ==
    /\ r.documents[u] # NoDocument /\ r.documents[u].content = t
    /\ t = Empty => r.documents[u].parsed = Empty \/ r.documents[u] = s.documents[u]
    /\ r.fileSets[u] \union r.overlay[u].keys \subseteq s.fileSets[u] \union s.overlay[u].keys
    /\ r.overlay[u].document # NoDocument => r.overlay[u].document.content = Empty
    /\ r.known = s.known /\ r.detached \ {u} = s.detached \ {u}
    /\ \A v \in Uris \ {u} : /\ r.documents[v] = s.documents[v]
                             /\ r.fileSets[v] = s.fileSets[v]
                             /\ r.overlay[v] = s.overlay[v]

\* And to one that has not been emptied: it leaves all its roots.
OpenedIs(r, s, u) ==
    /\ r.fileSets[u] = {} /\ u \in r.detached
    /\ r.overlay[u].keys = s.overlay[u].keys \union s.fileSets[u]
    /\ r.overlay[u].document = IF s.fileSets[u] = {} THEN s.overlay[u].document ELSE s.documents[u]

LEMMA DetachAll ==
    ASSUME DocumentsInv, NEW u \in Uris, u \notin blanked
    PROVE  /\ DetachedFrom(session, u) = session.fileSets[u]
           /\ session.fileSets[u] # {} => IsRootDocument(session.documents[u])
<1>1. session \in Session /\ session.fileSets[u] \in SUBSET Roots
  BY InvFacts, SessionTypes
<1>2. session.fileSets[u] # {} => session.documents[u] # NoDocument /\ u \notin Edited
  BY FileKinds, InvTypes DEF FilesKept, OpenIsLive, ClosedIsOfRoot
<1>3. \A k \in session.fileSets[u] : k \in session.known /\ u \in session.uris[k]
  BY <1>1 DEF DocumentsInv, FilesKept, RootsOwn, IndexConsistent
<1>4. session.fileSets[u] # {} => IsRootDocument(session.documents[u])
  BY <1>2, FileKinds
<1> QED
  BY <1>1, <1>3, <1>4 DEF DetachedFrom

LEMMA BumpedSame ==
    ASSUME DocumentsInv, NEW u \in Uris
    PROVE  LET s == Bumped(session)
           IN /\ s \in Session
              /\ s.documents = session.documents /\ s.fileSets = session.fileSets /\ s.uris = session.uris
              /\ s.overlay = session.overlay /\ s.known = session.known /\ s.detached = session.detached
              /\ DetachedFrom(s, u) = DetachedFrom(session, u)
              /\ BackingKeys(s, u) = BackingKeys(session, u)
<1> DEFINE s == Bumped(session)
<1>1. BumpedIs(s, session)
  BY InvFacts, BumpedFields
<1> HIDE DEF s
<1>2. /\ s \in Session
      /\ s.documents = session.documents /\ s.fileSets = session.fileSets /\ s.uris = session.uris
      /\ s.overlay = session.overlay /\ s.known = session.known /\ s.detached = session.detached
  BY <1>1 DEF BumpedIs
<1>3. DetachedFrom(s, u) = DetachedFrom(session, u) /\ BackingKeys(s, u) = BackingKeys(session, u)
  BY <1>2 DEF DetachedFrom, BackingKeys
<1> QED
  BY <1>2, <1>3 DEF s

LEMMA Backing ==
    ASSUME DocumentsInv, NEW u \in Uris
    PROVE  /\ BackingKeys(session, u) \subseteq session.fileSets[u] \union session.overlay[u].keys
           /\ u \notin blanked => session.fileSets[u] \subseteq BackingKeys(session, u)
<1>1. u \notin blanked /\ session.fileSets[u] # {} => ~IsLive(session.documents[u])
  BY DetachAll DEF IsLive, IsRootDocument
<1> QED
  BY <1>1 DEF BackingKeys

\* An opened file after Detach: what it leaves goes to the overlay, if any.
DetachedIs(q, s, u) ==
    /\ q \in Session /\ q.documents = s.documents /\ q.known = s.known
    /\ q.detached \ {u} = s.detached \ {u}
    /\ q.fileSets[u] \subseteq s.fileSets[u]
    /\ q.overlay[u].keys \subseteq s.fileSets[u] \union s.overlay[u].keys
    /\ q.overlay[u].document # NoDocument => q.overlay[u].document.content = Empty
    /\ \A v \in Uris \ {u} : q.fileSets[v] = s.fileSets[v] /\ q.overlay[v] = s.overlay[v]

LEMMA OpenedFields ==
    ASSUME DocumentsInv, NEW u \in Uris, NEW preserve \in BOOLEAN
    PROVE  LET q == Detach(Bumped(session), u, preserve)
           IN /\ DetachedIs(q, session, u)
              /\ u \notin blanked /\ (session.fileSets[u] # {} => preserve) =>
                   /\ q.fileSets[u] = {}
                   /\ q.overlay[u].keys = session.overlay[u].keys \union session.fileSets[u]
                   /\ q.overlay[u].document = IF session.fileSets[u] = {} THEN session.overlay[u].document
                                              ELSE session.documents[u]
<1> DEFINE s == Bumped(session)
           q == Detach(s, u, preserve)
           keys == DetachedFrom(session, u)
           d == session.documents[u]
           moved == keys # {} /\ preserve /\ IsRootDocument(d)
<1>1. /\ s \in Session
      /\ s.documents = session.documents /\ s.fileSets = session.fileSets
      /\ s.overlay = session.overlay /\ s.known = session.known /\ s.detached = session.detached
      /\ DetachedFrom(s, u) = keys
  BY BumpedSame
<1> HIDE DEF s
<1>2. DetachIs(q, s, u, preserve)
  BY <1>1, DetachFields
<1> HIDE DEF q
<1>3. keys \subseteq session.fileSets[u]
  BY InvTypes, DetachedFromRoots
<1>4. session.overlay[u].document # NoDocument => session.overlay[u].document.content = Empty
  BY InvTypes DEF FilesKept, OverlayIsOfRoots
<1>5. /\ session.documents \in [Uris -> Document \union {NoDocument}]
      /\ session.fileSets \in [Uris -> SUBSET Roots] /\ session.overlay \in [Uris -> Overlay]
  BY InvTypes
<1> HIDE DEF keys
<1>6. /\ q.overlay = IF moved THEN [session.overlay EXCEPT ![u] = [document |-> d,
                                                                   keys |-> session.overlay[u].keys \union keys]]
                     ELSE session.overlay
      /\ q.fileSets = [session.fileSets EXCEPT ![u] = @ \ keys]
  BY <1>1, <1>2 DEF DetachIs
<1>7. /\ q.fileSets[u] = session.fileSets[u] \ keys
      /\ moved => q.overlay[u] = [document |-> d, keys |-> session.overlay[u].keys \union keys]
      /\ ~moved => q.overlay[u] = session.overlay[u]
      /\ \A v \in Uris \ {u} : q.fileSets[v] = session.fileSets[v] /\ q.overlay[v] = session.overlay[v]
  BY <1>5, <1>6
<1>8. /\ moved => q.overlay[u].document = d /\ q.overlay[u].keys = session.overlay[u].keys \union keys
      /\ ~moved => q.overlay[u].document = session.overlay[u].document
                   /\ q.overlay[u].keys = session.overlay[u].keys
  BY <1>7
<1>9. DetachedIs(q, session, u)
  BY <1>1, <1>2, <1>3, <1>4, <1>7, <1>8 DEF DetachIs, DetachedIs, IsRootDocument
<1>10. ASSUME u \notin blanked, session.fileSets[u] # {} => preserve
       PROVE  /\ q.fileSets[u] = {}
              /\ q.overlay[u].keys = session.overlay[u].keys \union session.fileSets[u]
              /\ q.overlay[u].document = IF session.fileSets[u] = {} THEN session.overlay[u].document
                                         ELSE session.documents[u]
  <2>1. keys = session.fileSets[u] /\ (session.fileSets[u] # {} => IsRootDocument(d))
    BY <1>10, DetachAll DEF keys
  <2>2. moved <=> session.fileSets[u] # {}
    BY <1>10, <2>1
  <2> HIDE DEF moved
  <2> QED
    BY <1>7, <1>8, <2>1, <2>2
<1> QED
  BY <1>9, <1>10 DEF q, s

LEMMA SetTextEdits ==
    ASSUME DocumentsInv, NEW u \in Uris, NEW t \in Texts, NEW interfaceChange \in BOOLEAN
    PROVE  LET r == TextApplied(Bumped(session), u, t, interfaceChange)
           IN /\ EditedIs(r, session, u, t)
              /\ t # Empty /\ u \notin blanked => OpenedIs(r, session, u)
<1> DEFINE s == Bumped(session)
           keys == BackingKeys(s, u)
           preserve == keys # {} /\ t # Empty
           q == Detach(s, u, preserve)
           r == TextApplied(s, u, t, interfaceChange)
           kept == u \notin blanked /\ (session.fileSets[u] # {} => preserve)
<1>1. /\ s \in Session /\ s.documents = session.documents /\ s.detached = session.detached
      /\ s.known = session.known /\ keys = BackingKeys(session, u)
  BY BumpedSame
<1>2. TextAppliedIs(r, s, u, t)
  BY <1>1, TextAppliedFields
<1>3. /\ keys \subseteq session.fileSets[u] \union session.overlay[u].keys
      /\ u \notin blanked => session.fileSets[u] \subseteq keys
  BY <1>1, Backing
<1>4. t # Empty /\ u \notin blanked => kept
  BY <1>3
<1>5. /\ Prepared(s, u, t) \in Document /\ Prepared(s, u, t).content = t
      /\ t = Empty => Prepared(s, u, t).parsed = Empty
  BY <1>1, PreparedType, DocumentsAssumption
<1>6. /\ DetachedIs(q, session, u)
      /\ kept => /\ q.fileSets[u] = {}
                 /\ q.overlay[u].keys = session.overlay[u].keys \union session.fileSets[u]
                 /\ q.overlay[u].document = IF session.fileSets[u] = {} THEN session.overlay[u].document
                                            ELSE session.documents[u]
  <2>1. preserve \in BOOLEAN
    OBVIOUS
  <2> HIDE DEF preserve
  <2> QED
    BY <2>1, OpenedFields
<1> HIDE DEF r
<1>7. /\ r.documents = [session.documents EXCEPT ![u] = Prepared(s, u, t)]
      /\ r.fileSets = q.fileSets /\ r.known = session.known
      /\ \/ r.overlay = q.overlay
         \/ /\ keys # {} /\ q.overlay[u].keys = {}
            /\ \E d \in RootDocuments : r.overlay = [q.overlay EXCEPT ![u] = [document |-> d, keys |-> keys]]
      /\ r.detached = IF q.fileSets[u] = {} THEN session.detached \union {u} ELSE session.detached \ {u}
  BY <1>1, <1>2 DEF TextAppliedIs
<1> HIDE DEF q, keys, preserve, s, kept
<1>8. /\ r.documents[u] = Prepared(s, u, t)
      /\ \A v \in Uris \ {u} : r.documents[v] = session.documents[v]
  BY <1>7, InvTypes
<1>9. /\ \A v \in Uris \ {u} : r.overlay[v] = q.overlay[v]
      /\ \/ r.overlay[u] = q.overlay[u]
         \/ /\ keys # {} /\ q.overlay[u].keys = {}
            /\ r.overlay[u].keys = keys /\ r.overlay[u].document.content = Empty
  <2>1. q.overlay \in [Uris -> Overlay]
    BY <1>6, SessionTypes DEF DetachedIs
  <2>2. CASE r.overlay = q.overlay
    BY <2>2
  <2>3. ASSUME keys # {}, q.overlay[u].keys = {}, NEW d \in RootDocuments,
               r.overlay = [q.overlay EXCEPT ![u] = [document |-> d, keys |-> keys]]
        PROVE  /\ \A v \in Uris \ {u} : r.overlay[v] = q.overlay[v]
               /\ r.overlay[u].keys = keys /\ r.overlay[u].document.content = Empty
    <3>1. r.overlay[u] = [document |-> d, keys |-> keys] /\ \A v \in Uris \ {u} : r.overlay[v] = q.overlay[v]
      BY <2>1, <2>3
    <3> QED
      BY <3>1 DEF RootDocuments
  <2> QED
    BY <1>7, <2>2, <2>3
<1>10. EditedIs(r, session, u, t)
  BY <1>3, <1>5, <1>6, <1>7, <1>8, <1>9, NoDocumentAssumption DEF DetachedIs, EditedIs
<1>11. ASSUME kept, u \notin blanked PROVE OpenedIs(r, session, u)
  <2>1. r.overlay[u] = q.overlay[u]
    BY <1>3, <1>6, <1>9, <1>11
  <2> QED
    BY <1>6, <1>7, <1>11, <2>1 DEF OpenedIs
<1> QED
  BY <1>4, <1>10, <1>11 DEF r, s

LEMMA AddEdits ==
    ASSUME DocumentsInv, NEW u \in Uris, NEW t \in Texts
    PROVE  LET r == Inserted(Detach(Bumped(session), u, BackingKeys(session, u) # {}), u,
                             [content |-> t, parsed |-> t])
           IN EditedIs(r, session, u, t) /\ (u \notin blanked => OpenedIs(r, session, u))
<1> DEFINE preserve == BackingKeys(session, u) # {}
           d == [content |-> t, parsed |-> t]
           q == Detach(Bumped(session), u, preserve)
           r == Inserted(q, u, d)
<1>1. d \in Document /\ d.content = t /\ d.parsed = t
  BY DEF Document
<1>2. preserve \in BOOLEAN /\ (u \notin blanked /\ session.fileSets[u] # {} => preserve)
  BY Backing
<1> HIDE DEF preserve, d
<1>3. /\ DetachedIs(q, session, u)
      /\ u \notin blanked =>
           /\ q.fileSets[u] = {}
           /\ q.overlay[u].keys = session.overlay[u].keys \union session.fileSets[u]
           /\ q.overlay[u].document = IF session.fileSets[u] = {} THEN session.overlay[u].document
                                      ELSE session.documents[u]
  BY <1>2, OpenedFields
<1> HIDE DEF q
<1>4. InsertedIs(r, q, u, d)
  BY <1>1, <1>3, InsertedFields DEF DetachedIs
<1> HIDE DEF r
<1>5. /\ r.documents = [session.documents EXCEPT ![u] = d]
      /\ r.fileSets = q.fileSets /\ r.overlay = q.overlay /\ r.known = session.known
      /\ r.detached = IF q.fileSets[u] = {} THEN q.detached \union {u} ELSE q.detached \ {u}
  BY <1>3, <1>4 DEF InsertedIs, DetachedIs
<1>6. r.documents[u] = d /\ \A v \in Uris \ {u} : r.documents[v] = session.documents[v]
  BY <1>5, InvTypes
<1>7. EditedIs(r, session, u, t)
  BY <1>1, <1>3, <1>5, <1>6, NoDocumentAssumption DEF DetachedIs, EditedIs
<1>8. u \notin blanked => OpenedIs(r, session, u)
  BY <1>3, <1>5 DEF OpenedIs
<1> QED
  BY <1>7, <1>8 DEF r, q, d, preserve

LEMMA EditKeeps ==
    ASSUME DocumentsInv, NEW u \in Uris, NEW t \in Texts, EditedIs(session', session, u, t),
           t # Empty /\ u \notin blanked => OpenedIs(session', session, u),
           editor' = [editor EXCEPT ![u] = t], onDisk' = onDisk, blanked' = Blanked(u, t)
    PROVE  FilesKept'
<1>0. t # Closed /\ FilesKept
  BY InvTypes, DocumentsAssumption
<1>1. /\ editor'[u] = t
      /\ \A v \in Uris \ {u} : /\ session'.documents[v] = session.documents[v]
                               /\ session'.fileSets[v] = session.fileSets[v]
                               /\ session'.overlay[v] = session.overlay[v]
                               /\ editor'[v] = editor[v]
                               /\ v \in session'.detached <=> v \in session.detached
  BY InvTypes DEF EditedIs
<1>2. /\ \A v \in Uris \ {u} : v \in blanked' <=> v \in blanked
      /\ u \notin blanked' => t # Empty /\ u \notin blanked
      /\ t = Empty => u \in blanked'
  BY DEF Blanked
<1>3. /\ session'.documents[u] # NoDocument /\ session'.documents[u].content = t
      /\ session'.fileSets[u] \union session'.overlay[u].keys
           \subseteq session.fileSets[u] \union session.overlay[u].keys
      /\ session'.overlay[u].document # NoDocument => session'.overlay[u].document.content = Empty
      /\ session'.known = session.known
      /\ session'.detached \subseteq session.detached \union {u} /\ session.detached \subseteq Uris
  BY InvTypes, SessionTypes DEF EditedIs
<1>4. u \notin blanked' => OpenedIs(session', session, u)
  BY <1>2
<1>5. Edited' \ {u} = Edited \ {u} /\ (u \in Edited' <=> t # Empty)
  BY <1>0, <1>1 DEF Edited
<1> USE <1>0 DEF FilesKept
<1>6. DetachedExact'
  BY <1>1, <1>2, <1>3, <1>4 DEF DetachedExact, OpenedIs
<1>7. OpenIsLive'
  <2> SUFFICES ASSUME NEW v \in Edited'
               PROVE  /\ session'.documents[v] # NoDocument
                      /\ session'.documents[v].content = editor'[v]
                      /\ v \notin blanked' => session'.fileSets[v] = {}
    BY DEF OpenIsLive
  <2>1. CASE v = u
    BY <1>1, <1>3, <1>4, <2>1 DEF OpenedIs
  <2>2. CASE v # u
    <3>1. v \in Edited /\ v \in Uris
      BY <1>5, <2>2 DEF Edited
    <3> QED
      BY <1>1, <1>2, <2>2, <3>1 DEF OpenIsLive
  <2> QED
    BY <2>1, <2>2
<1>8. EmptyIsBlanked'
  BY <1>1, <1>2, <1>3 DEF EmptyIsBlanked
<1>9. ClosedIsOfRoot'
  BY <1>1, <1>2 DEF ClosedIsOfRoot
<1>10. DetachedExist'
  BY <1>1, <1>3 DEF DetachedExist
<1>11. RootsOwn'
  BY <1>1, <1>3 DEF RootsOwn
<1>12. OverlayIsOfRoots'
  BY <1>1, <1>3 DEF OverlayIsOfRoots
<1>13. LoadedIsKept'
  <2> SUFFICES ASSUME NEW k \in Roots, NEW v \in Uris, onDisk[k][v] # NoBody
               PROVE  /\ v \in FilesOf[k]
                      /\ v \notin blanked' /\ editor'[v] = Closed =>
                           session'.documents[v] = RootDocument(onDisk[k][v]) /\ k \in session'.fileSets[v]
                      /\ v \notin blanked' /\ editor'[v] # Closed =>
                           /\ session'.overlay[v].document = RootDocument(onDisk[k][v])
                           /\ k \in session'.overlay[v].keys
    BY DEF LoadedIsKept
  <2>1. CASE v # u
    BY <1>1, <1>2, <2>1 DEF LoadedIsKept
  <2>2. CASE v = u /\ u \in blanked'
    BY <2>2 DEF LoadedIsKept
  <2>3. CASE v = u /\ u \notin blanked'
    <3>1. OpenedIs(session', session, u) /\ u \notin blanked
      BY <1>2, <1>4, <2>3
    <3>2. CASE editor[u] = Closed
      BY <1>1, <2>3, <3>1, <3>2 DEF LoadedIsKept, OpenedIs
    <3>3. CASE editor[u] # Closed
      <4>1. session.fileSets[u] = {}
        BY <3>1, <3>3, FileKinds DEF OpenIsLive
      <4> QED
        BY <1>0, <1>1, <2>3, <3>1, <3>3, <4>1 DEF LoadedIsKept, OpenedIs
    <3> QED
      BY <3>2, <3>3
  <2> QED
    BY <2>1, <2>2, <2>3
<1> QED
  BY <1>6, <1>7, <1>8, <1>9, <1>10, <1>11, <1>12, <1>13

\* What a close of file u does to the files.
ClosedIs(r, s, u) ==
    /\ r.documents[u] # NoDocument => r.fileSets[u] # {} /\ r.documents[u].content = Empty
    /\ r.fileSets[u] \union r.overlay[u].keys \subseteq s.fileSets[u] \union s.overlay[u].keys
    /\ r.overlay[u] \in {s.overlay[u], NoOverlay}
    /\ r.known = s.known /\ r.detached = s.detached \ {u}
    /\ \A v \in Uris \ {u} : /\ r.documents[v] = s.documents[v]
                             /\ r.fileSets[v] = s.fileSets[v]
                             /\ r.overlay[v] = s.overlay[v]

\* And to one that has not been emptied: the overlay entry is the file again.
PutBackIs(r, s, u) ==
    r.documents[u] = s.overlay[u].document /\ r.fileSets[u] = s.overlay[u].keys

LEMMA OpenUnblanked ==
    ASSUME DocumentsInv, NEW u \in Uris, editor[u] # Closed, u \notin blanked
    PROVE  session.documents[u] # NoDocument /\ session.fileSets[u] = {}
<1>1. u \in Edited
  BY FileKinds
<1> QED
  BY <1>1, InvTypes DEF FilesKept, OpenIsLive

LEMMA RemoveCloses ==
    ASSUME DocumentsInv, NEW u \in Uris, editor[u] # Closed
    PROVE  LET r == DocumentRemoved(Bumped(session), u)
           IN ClosedIs(r, session, u) /\ (u \notin blanked => PutBackIs(r, session, u))
<1> DEFINE s == Bumped(session)
           deleted == Deleted(s, u)
           q == Detach(deleted, u, FALSE)
           r == Restored(q, u)
           entry == session.overlay[u]
<1>0. /\ session.documents \in [Uris -> Document \union {NoDocument}]
      /\ session.fileSets \in [Uris -> SUBSET Roots]
      /\ session.overlay \in [Uris -> Overlay]
  BY InvTypes
<1>1. /\ s \in Session
      /\ s.documents = session.documents /\ s.fileSets = session.fileSets
      /\ s.overlay = session.overlay /\ s.known = session.known /\ s.detached = session.detached
  BY BumpedSame
<1>2. DocumentRemoved(s, u) = r
  BY DEF DocumentRemoved
<1> HIDE DEF s
<1>3. DeletedIs(deleted, s, u)
  BY <1>1, DeletedFields
<1> HIDE DEF deleted
<1>4. /\ deleted \in Session
      /\ deleted.documents = [session.documents EXCEPT ![u] = NoDocument]
      /\ deleted.detached = session.detached \ {u}
      /\ deleted.known = session.known /\ deleted.fileSets = session.fileSets
      /\ deleted.overlay = session.overlay
  BY <1>1, <1>3 DEF DeletedIs
<1>5. DetachIs(q, deleted, u, FALSE)
  BY <1>4, DetachFields
<1> HIDE DEF q
<1>6. /\ q \in Session /\ q.documents = deleted.documents /\ q.known = session.known
      /\ q.overlay = session.overlay
      /\ q.fileSets = [session.fileSets EXCEPT ![u] = @ \ DetachedFrom(deleted, u)]
  BY <1>4, <1>5 DEF DetachIs
<1>7. q.detached = session.detached \ {u}
  <2>1. deleted.documents[u] = NoDocument /\ u \notin deleted.detached
    BY <1>0, <1>4
  <2>2. q.detached \ {u} = deleted.detached \ {u} /\ u \notin q.detached
    BY <1>5, <2>1 DEF DetachIs
  <2> QED
    BY <1>4, <2>2
<1>8. /\ q.documents[u] = NoDocument /\ q.fileSets[u] \subseteq session.fileSets[u]
      /\ \A v \in Uris \ {u} : q.documents[v] = session.documents[v] /\ q.fileSets[v] = session.fileSets[v]
  BY <1>0, <1>4, <1>6
<1>9. u \notin blanked => q.fileSets[u] = {}
  BY <1>8, OpenUnblanked
<1>10. entry.keys = {} <=> entry.document = NoDocument
  BY DEF DocumentsInv, TypeOK
<1>11. CASE entry.keys = {}
  <2>1. r = q
    BY <1>6, <1>11 DEF Restored
  <2>2. ClosedIs(q, session, u)
    BY <1>6, <1>7, <1>8 DEF ClosedIs
  <2>3. u \notin blanked => PutBackIs(q, session, u)
    BY <1>8, <1>9, <1>10, <1>11 DEF PutBackIs
  <2> HIDE DEF r
  <2> QED
    BY <1>2, <2>1, <2>2, <2>3 DEF s
<1>12. CASE entry.keys # {}
  <2>1. RestoredIs(r, q, u)
    BY <1>6, <1>12, RestoredFields
  <2> HIDE DEF r
  <2>2. q.overlay[u].keys \intersect q.known = entry.keys
    BY <1>6, InvTypes DEF FilesKept, RootsOwn
  <2>3. /\ r.fileSets = [q.fileSets EXCEPT ![u] = @ \union entry.keys]
        /\ r.documents = [q.documents EXCEPT ![u] = entry.document]
        /\ r.overlay = [session.overlay EXCEPT ![u] = NoOverlay]
        /\ r.known = session.known
    BY <1>6, <2>1, <2>2 DEF RestoredIs
  <2>4. r.detached = session.detached \ {u}
    BY <1>6, <1>7, <1>12, <2>1, <2>2 DEF RestoredIs
  <2>5. q.fileSets \in [Uris -> SUBSET Roots] /\ q.documents \in [Uris -> Document \union {NoDocument}]
    BY <1>6, SessionTypes
  <2>6. /\ r.documents[u] = entry.document /\ r.fileSets[u] = q.fileSets[u] \union entry.keys
        /\ r.overlay[u] = NoOverlay
        /\ \A v \in Uris \ {u} : /\ r.documents[v] = session.documents[v]
                                 /\ r.fileSets[v] = session.fileSets[v]
                                 /\ r.overlay[v] = session.overlay[v]
    BY <1>0, <1>8, <2>3, <2>5
  <2>7. entry.document # NoDocument => entry.document.content = Empty
    BY InvTypes DEF FilesKept, OverlayIsOfRoots
  <2> HIDE DEF entry
  <2>8. r.fileSets[u] # {} /\ r.fileSets[u] \union r.overlay[u].keys \subseteq session.fileSets[u] \union entry.keys
    BY <1>8, <1>12, <2>6 DEF NoOverlay
  <2>9. ClosedIs(r, session, u)
    BY <2>3, <2>4, <2>6, <2>7, <2>8 DEF ClosedIs, entry
  <2>10. u \notin blanked => PutBackIs(r, session, u)
    BY <1>9, <2>6 DEF PutBackIs, entry
  <2> QED
    BY <1>2, <2>9, <2>10 DEF s
<1> QED
  BY <1>11, <1>12

LEMMA CloseKeeps ==
    ASSUME DocumentsInv, NEW u \in Uris, editor[u] # Closed, ClosedIs(session', session, u),
           u \notin blanked => PutBackIs(session', session, u),
           editor' = [editor EXCEPT ![u] = Closed], onDisk' = onDisk, blanked' = blanked
    PROVE  FilesKept'
<1>0. FilesKept /\ Closed # Empty
  BY InvTypes, DocumentsAssumption
<1>1. /\ editor'[u] = Closed
      /\ \A v \in Uris \ {u} : /\ session'.documents[v] = session.documents[v]
                               /\ session'.fileSets[v] = session.fileSets[v]
                               /\ session'.overlay[v] = session.overlay[v]
                               /\ editor'[v] = editor[v]
  BY InvTypes DEF ClosedIs
<1>2. session'.known = session.known /\ session'.detached = session.detached \ {u} /\ session.detached \subseteq Uris
  BY InvTypes, SessionTypes DEF ClosedIs
<1>3. session.overlay[u].keys = {} <=> session.overlay[u].document = NoDocument
  BY DEF DocumentsInv, TypeOK
<1>4. /\ session'.documents[u] # NoDocument => session'.fileSets[u] # {} /\ session'.documents[u].content = Empty
      /\ session'.fileSets[u] \union session'.overlay[u].keys
           \subseteq session.fileSets[u] \union session.overlay[u].keys
      /\ session'.overlay[u] \in {session.overlay[u], NoOverlay}
  BY DEF ClosedIs
<1>5. Edited' = Edited \ {u}
  BY <1>1 DEF Edited
<1> USE <1>0 DEF FilesKept
<1>6. DetachedExact'
  BY <1>1, <1>2, <1>4 DEF DetachedExact
<1>7. OpenIsLive'
  <2>1. \A v \in Edited' : v \in Edited /\ v \in Uris \ {u}
    BY <1>5 DEF Edited
  <2> QED
    BY <1>1, <2>1 DEF OpenIsLive
<1>8. EmptyIsBlanked'
  BY <1>1 DEF EmptyIsBlanked
<1>9. ClosedIsOfRoot'
  BY <1>1, <1>3, <1>4 DEF ClosedIsOfRoot, PutBackIs
<1>10. DetachedExist'
  BY <1>1, <1>2 DEF DetachedExist
<1>11. RootsOwn'
  BY <1>1, <1>2, <1>4 DEF RootsOwn
<1>12. OverlayIsOfRoots'
  BY <1>1, <1>4 DEF OverlayIsOfRoots, NoOverlay
<1>13. LoadedIsKept'
  BY <1>1 DEF LoadedIsKept, PutBackIs
<1> QED
  BY <1>6, <1>7, <1>8, <1>9, <1>10, <1>11, <1>12, <1>13

\* What a load of root k does to the files: nothing to another root's, only the
\* overlay to an edited one, and a closed one is what was found or nothing.  An
\* open one without text may stay, be gone or be what was found.
LoadIs(r, s, k, found) ==
    /\ \A u \in Uris \ FilesOf[k] :
        /\ found[u] = NoBody
        /\ r.documents[u] = s.documents[u] /\ r.fileSets[u] = s.fileSets[u]
        /\ r.overlay[u] = s.overlay[u]
    /\ \A u \in FilesOf[k] :
        /\ r.fileSets[u] \subseteq IF found[u] = NoBody THEN s.fileSets[u] ELSE s.fileSets[u] \union {k}
        /\ \/ r.overlay[u] \in {s.overlay[u], NoOverlay}
           \/ /\ found[u] # NoBody
              /\ r.overlay[u] = [document |-> RootDocument(found[u]), keys |-> s.overlay[u].keys \union {k}]
    /\ \A u \in FilesOf[k] \intersect Edited :
        /\ r.documents[u] = s.documents[u] /\ r.fileSets[u] \subseteq s.fileSets[u]
        /\ found[u] # NoBody =>
             r.overlay[u] = [document |-> RootDocument(found[u]), keys |-> s.overlay[u].keys \union {k}]
    /\ \A u \in FilesOf[k] \ Edited :
        \/ r.documents[u] \in {s.documents[u], NoDocument}
        \/ found[u] # NoBody /\ r.documents[u] = RootDocument(found[u])
    /\ \A u \in FilesOf[k] : editor[u] = Closed =>
        /\ found[u] = NoBody => r.documents[u] = NoDocument /\ r.fileSets[u] = {}
        /\ found[u] # NoBody => r.documents[u] = RootDocument(found[u]) /\ r.fileSets[u] = {k}
    /\ s.known \subseteq r.known
    /\ (\E u \in Uris : found[u] # NoBody) => k \in r.known
    /\ r.detached \subseteq s.detached
    /\ \A u \in s.detached : u \notin FilesOf[k] \/ u \in Edited => u \in r.detached
    /\ \A u \in r.detached : r.documents[u] # NoDocument

LEMMA RootFiles ==
    ASSUME DocumentsInv, NEW k \in Roots, NEW u \in Uris
    PROVE  /\ u \in FilesOf[k] => session.fileSets[u] \subseteq {k} /\ session.overlay[u].keys \subseteq {k}
           /\ u \notin FilesOf[k] => k \notin session.fileSets[u] /\ k \notin session.overlay[u].keys
           /\ u \in session.uris[k] <=> k \in session.fileSets[u]
           /\ editor[u] = Closed /\ session.documents[u] # NoDocument =>
                session.fileSets[u] # {} /\ IsRootDocument(session.documents[u])
<1>1. session.fileSets[u] \subseteq Roots /\ session.overlay[u].keys \subseteq Roots
  BY InvTypes DEF Overlay
<1>2. \A j \in session.fileSets[u] \union session.overlay[u].keys : u \in FilesOf[j]
  BY InvTypes DEF FilesKept, RootsOwn
<1>3. u \in FilesOf[k] => \A j \in session.fileSets[u] \union session.overlay[u].keys : j = k
  BY <1>1, <1>2, DocumentsAssumption
<1>4. editor[u] = Closed /\ session.documents[u] # NoDocument =>
        session.fileSets[u] # {} /\ IsRootDocument(session.documents[u])
  BY InvTypes DEF FilesKept, ClosedIsOfRoot, IsRootDocument
<1>5. u \in session.uris[k] <=> k \in session.fileSets[u]
  BY DEF DocumentsInv, IndexConsistent
<1> QED
  BY <1>2, <1>3, <1>4, <1>5

LEMMA RemovableFiles ==
    ASSUME DocumentsInv, NEW k \in Roots, NEW u \in Uris
    PROVE  /\ Removable(session, k) \subseteq Uris
           /\ u \in Removable(session, k) => u \in FilesOf[k] /\ u \notin Edited /\ k \in session.fileSets[u]
           /\ editor[u] = Closed /\ k \in session.fileSets[u] /\ session.documents[u] # NoDocument
                => u \in Removable(session, k)
<1>1. Removable(session, k) = {v \in session.uris[k] : IsRootDocument(session.documents[v])}
  BY DEF Removable
<1>2. session.uris[k] \subseteq Uris
  BY InvTypes
<1>3. IsRootDocument(session.documents[u]) => u \notin Edited
  BY FileKinds DEF IsLive, IsRootDocument
<1> QED
  BY <1>1, <1>2, <1>3, RootFiles

LEMMA LoadSplits ==
    ASSUME DocumentsInv, NEW k \in Roots, NEW found \in Contents(k), NEW exclude \in Excludable
    PROVE  /\ FilesFound(found) \subseteq FilesOf[k]
           /\ Members(session, found, exclude) = FilesFound(found) \ Held(session, found, exclude)
           /\ Held(session, found, exclude) \subseteq FilesFound(found)
           /\ \A u \in FilesFound(found) : u \in Edited => u \in Held(session, found, exclude)
           /\ \A u \in FilesFound(found) : editor[u] = Closed => u \notin Held(session, found, exclude)
<1>1. FilesFound(found) \subseteq FilesOf[k]
  BY DEF Contents, FilesFound
<1>2. ASSUME NEW u \in Uris, editor[u] = Closed PROVE ~IsHeld(session, u, exclude)
  <2>1. ~IsLive(session.documents[u])
    BY <1>2, FileKinds DEF Edited
  <2>2. u # exclude
    BY <1>2, DocumentsAssumption DEF Excludable
  <2> QED
    BY <2>1, <2>2 DEF IsHeld
<1>3. \A u \in Uris : u \in Edited => IsHeld(session, u, exclude)
  BY FileKinds DEF IsHeld
<1> QED
  BY <1>1, <1>2, <1>3 DEF Members, Held, FilesFound

LEMMA ReplaceLoads ==
    ASSUME DocumentsInv, NEW k \in Roots, NEW found \in Contents(k), NEW exclude \in Excludable
    PROVE  LoadIs(Replaced(session, k, found, exclude), session, k, found)
<1> DEFINE r == Replaced(session, k, found, exclude)
           members == Members(session, found, exclude)
           held == Held(session, found, exclude)
           gone == Removable(session, k)
           overlay == ReplacedOverlay(session, k, found, exclude)
<1>0. FilesOf[k] \subseteq Uris /\ (\A u \in Uris \ FilesOf[k] : found[u] = NoBody) /\ FilesKept
  BY InvTypes, DocumentsAssumption DEF Contents
<1>1. /\ \A u \in Uris : u \in members \union held <=> found[u] # NoBody
      /\ \A u \in Uris : u \in members => u \notin Edited /\ u \notin held
      /\ \A u \in Uris : editor[u] = Closed => u \notin held
      /\ members \union held \subseteq FilesOf[k]
  BY LoadSplits DEF FilesFound
<1>2. /\ \A u \in Uris \ held : overlay[u] = session.overlay[u]
      /\ \A u \in held :
           overlay[u] = [document |-> RootDocument(found[u]), keys |-> session.overlay[u].keys \union {k}]
  BY <1>0, <1>1 DEF ReplacedOverlay
<1>3. /\ \A u \in Uris : editor[u] = Closed => u \notin Edited
      /\ \A u \in Uris : u \in FilesOf[k] => session.fileSets[u] \subseteq {k}
      /\ \A u \in Uris : editor[u] = Closed /\ session.documents[u] # NoDocument =>
           session.fileSets[u] # {} /\ IsRootDocument(session.documents[u])
  BY RootFiles DEF Edited
<1>4. CASE Unchanged(session, k, found, members)
  <2>1. UnchangedIs(r, session, k, found, exclude)
    BY <1>4, InvTypes, ReplacedFields
  <2>2. /\ k \in session.known /\ session.uris[k] = members
        /\ \A u \in members : session.documents[u] # NoDocument /\ session.documents[u].parsed = found[u]
    BY <1>4 DEF Unchanged
  <2>3. ASSUME NEW u \in FilesOf[k], editor[u] = Closed
        PROVE  /\ found[u] = NoBody => session.documents[u] = NoDocument /\ session.fileSets[u] = {}
               /\ found[u] # NoBody => session.documents[u] = RootDocument(found[u]) /\ session.fileSets[u] = {k}
    <3>1. u \in Uris /\ (u \in members <=> found[u] # NoBody) /\ (u \in members <=> k \in session.fileSets[u])
      BY <1>0, <1>1, <2>2, <2>3, RootFiles
    <3>2. CASE found[u] = NoBody
      <4>1. session.fileSets[u] = {}
        BY <1>3, <3>1, <3>2
      <4> QED
        BY <1>3, <2>3, <3>1, <3>2, <4>1
    <3>3. CASE found[u] # NoBody
      <4>1. /\ session.fileSets[u] = {k} /\ session.documents[u].parsed = found[u]
            /\ IsRootDocument(session.documents[u])
        BY <1>3, <2>2, <2>3, <3>1, <3>3
      <4>2. session.documents[u] \in Document
        BY <3>1, <4>1, InvTypes DEF IsRootDocument
      <4>3. session.documents[u] = RootDocument(found[u])
        BY <4>1, <4>2 DEF Document, IsRootDocument, RootDocument
      <4> QED
        BY <3>3, <4>1, <4>3
    <3> QED
      BY <3>2, <3>3
  <2> HIDE DEF r, overlay, members, held
  <2>4. /\ r.overlay = overlay /\ r.documents = session.documents /\ r.fileSets = session.fileSets
        /\ r.known = session.known /\ r.detached = session.detached
    BY <2>1 DEF UnchangedIs, overlay
  <2>5. \A u \in session.detached : session.documents[u] # NoDocument
    BY <1>0 DEF FilesKept, DetachedExist
  <2>6. /\ \A u \in Uris \ FilesOf[k] : r.overlay[u] = session.overlay[u]
        /\ \A u \in FilesOf[k] :
             \/ r.overlay[u] \in {session.overlay[u], NoOverlay}
             \/ /\ found[u] # NoBody
                /\ r.overlay[u] = [document |-> RootDocument(found[u]), keys |-> session.overlay[u].keys \union {k}]
        /\ \A u \in FilesOf[k] \intersect Edited : found[u] # NoBody =>
             r.overlay[u] = [document |-> RootDocument(found[u]), keys |-> session.overlay[u].keys \union {k}]
    BY <1>0, <1>1, <1>2, <2>4
  <2>7. LoadIs(r, session, k, found)
    BY <1>0, <2>2, <2>3, <2>4, <2>5, <2>6 DEF LoadIs
  <2> QED
    BY <2>7 DEF r
<1>5. CASE ~Unchanged(session, k, found, members)
  <2>1. ReplacedIs(r, session, k, found, exclude)
    BY <1>5, InvTypes, ReplacedFields
  <2>2. \A u \in Uris : /\ u \in gone => u \in FilesOf[k] /\ u \notin Edited /\ k \in session.fileSets[u]
                        /\ editor[u] = Closed /\ k \in session.fileSets[u] /\ session.documents[u] # NoDocument
                             => u \in gone
    BY RemovableFiles
  <2> HIDE DEF r, overlay
  <2>3. /\ r.overlay = overlay /\ r.known = session.known \union {k}
        /\ \A u \in Uris : r.documents[u] = IF u \in members THEN RootDocument(found[u])
                                            ELSE IF u \in gone THEN NoDocument ELSE session.documents[u]
        /\ \A u \in Uris : r.fileSets[u] = IF u \in members THEN session.fileSets[u] \union {k}
                                           ELSE session.fileSets[u] \ {k}
        /\ r.detached = (session.detached \ gone) \ members
    BY <2>1 DEF ReplacedIs, overlay
  <2> HIDE DEF members, held, gone
  <2>4. /\ \A u \in Uris \ FilesOf[k] : r.overlay[u] = session.overlay[u]
        /\ \A u \in FilesOf[k] :
             \/ r.overlay[u] \in {session.overlay[u], NoOverlay}
             \/ /\ found[u] # NoBody
                /\ r.overlay[u] = [document |-> RootDocument(found[u]), keys |-> session.overlay[u].keys \union {k}]
        /\ \A u \in FilesOf[k] \intersect Edited : found[u] # NoBody =>
             r.overlay[u] = [document |-> RootDocument(found[u]), keys |-> session.overlay[u].keys \union {k}]
    BY <1>0, <1>1, <1>2, <2>3
  <2>5. /\ r.detached \subseteq session.detached
        /\ \A u \in session.detached : u \notin FilesOf[k] \/ u \in Edited => u \in r.detached
        /\ \A u \in r.detached : r.documents[u] # NoDocument
    <3>1. session.detached \subseteq Uris /\ \A u \in session.detached : session.documents[u] # NoDocument
      BY <1>0, InvTypes, SessionTypes DEF FilesKept, DetachedExist
    <3>2. ASSUME NEW u \in session.detached, u \notin FilesOf[k] \/ u \in Edited PROVE u \in r.detached
      BY <1>1, <2>2, <2>3, <3>1, <3>2
    <3> QED
      BY <2>3, <3>1, <3>2
  <2>6. ASSUME NEW u \in Uris \ FilesOf[k]
        PROVE  r.documents[u] = session.documents[u] /\ r.fileSets[u] = session.fileSets[u]
    <3>1. u \notin members /\ u \notin gone /\ k \notin session.fileSets[u]
      BY <1>1, <2>2, RootFiles
    <3>2. session.fileSets[u] \ {k} = session.fileSets[u]
      BY <3>1
    <3> QED
      BY <2>3, <3>1, <3>2
  <2>7. ASSUME NEW u \in FilesOf[k]
        PROVE  /\ r.fileSets[u] \subseteq IF found[u] = NoBody THEN session.fileSets[u]
                                          ELSE session.fileSets[u] \union {k}
               /\ u \in Edited =>
                    r.documents[u] = session.documents[u] /\ r.fileSets[u] \subseteq session.fileSets[u]
               /\ \/ r.documents[u] \in {session.documents[u], NoDocument}
                  \/ found[u] # NoBody /\ r.documents[u] = RootDocument(found[u])
    <3>1. u \in Uris /\ (u \in members => found[u] # NoBody /\ u \notin Edited) /\ (u \in Edited => u \notin gone)
      BY <1>0, <1>1, <2>2
    <3>2. CASE u \in members
      <4>1. r.documents[u] = RootDocument(found[u]) /\ r.fileSets[u] = session.fileSets[u] \union {k}
        BY <2>3, <3>1, <3>2
      <4> QED
        BY <3>1, <3>2, <4>1
    <3>3. CASE u \notin members
      <4>1. r.fileSets[u] = session.fileSets[u] \ {k}
        BY <2>3, <3>1, <3>3
      <4>2. r.documents[u] = IF u \in gone THEN NoDocument ELSE session.documents[u]
        BY <2>3, <3>1, <3>3
      <4> QED
        BY <3>1, <4>1, <4>2
    <3> QED
      BY <3>2, <3>3
  <2>8. ASSUME NEW u \in FilesOf[k], editor[u] = Closed
        PROVE  /\ found[u] = NoBody => r.documents[u] = NoDocument /\ r.fileSets[u] = {}
               /\ found[u] # NoBody => r.documents[u] = RootDocument(found[u]) /\ r.fileSets[u] = {k}
    <3>1. u \in Uris /\ (u \in members <=> found[u] # NoBody) /\ session.fileSets[u] \subseteq {k}
      BY <1>0, <1>1, <1>3, <2>8
    <3>2. CASE found[u] = NoBody
      <4>1. u \notin gone => session.documents[u] = NoDocument
        BY <1>3, <2>2, <2>8, <3>1
      <4> QED
        BY <2>3, <3>1, <3>2, <4>1
    <3>3. CASE found[u] # NoBody
      BY <2>3, <3>1, <3>3
    <3> QED
      BY <3>2, <3>3
  <2>9. LoadIs(r, session, k, found)
    BY <1>0, <2>3, <2>4, <2>5, <2>6, <2>7, <2>8 DEF LoadIs
  <2> QED
    BY <2>9 DEF r
<1> QED
  BY <1>4, <1>5

LEMMA RemoveLoads ==
    ASSUME DocumentsInv, NEW k \in Roots
    PROVE  LoadIs(RootRemoved(Bumped(session), k), session, k, [u \in Uris |-> NoBody])
<1> DEFINE s == Bumped(session)
           found == [u \in Uris |-> NoBody]
           gone == Removable(session, k)
           r == RootRemoved(s, k)
<1>0. FilesOf[k] \subseteq Uris /\ FilesKept
  BY InvTypes, DocumentsAssumption
<1>1. /\ s \in Session /\ s.documents = session.documents /\ s.fileSets = session.fileSets
      /\ s.uris = session.uris /\ s.overlay = session.overlay /\ s.known = session.known
      /\ s.detached = session.detached
  BY InvTypes, BumpedFields DEF BumpedIs
<1>2. DroppedOverlay(s, k) = DroppedOverlay(session, k) /\ Removable(s, k) = gone
  BY <1>1 DEF DroppedOverlay, Removable
<1> HIDE DEF s
<1>3. RootRemovedIs(r, s, k)
  BY <1>1, RootRemovedFields
<1> HIDE DEF r
<1>4. r.overlay = DroppedOverlay(session, k)
  BY <1>2, <1>3 DEF RootRemovedIs
<1>5. \A u \in Uris : session.overlay[u] = [document |-> session.overlay[u].document,
                                            keys |-> session.overlay[u].keys]
                      /\ (session.overlay[u].keys = {} => session.overlay[u] = NoOverlay)
  <2>1. \A u \in Uris : session.overlay[u] \in Overlay
    BY InvTypes
  <2>2. \A u \in Uris : session.overlay[u].keys = {} => session.overlay[u].document = NoDocument
    BY DEF DocumentsInv, TypeOK
  <2> QED
    BY <2>1, <2>2 DEF Overlay, NoOverlay
<1>6. /\ \A u \in Uris \ FilesOf[k] : r.overlay[u] = session.overlay[u]
      /\ \A u \in FilesOf[k] : r.overlay[u] = NoOverlay
  <2>1. ASSUME NEW u \in Uris \ FilesOf[k] PROVE r.overlay[u] = session.overlay[u]
    <3>1. session.overlay[u].keys \ {k} = session.overlay[u].keys
      BY RootFiles
    <3> QED
      BY <1>4, <1>5, <3>1 DEF DroppedOverlay
  <2>2. ASSUME NEW u \in FilesOf[k] PROVE r.overlay[u] = NoOverlay
    <3>1. session.overlay[u].keys \ {k} = {}
      BY <1>0, RootFiles
    <3> QED
      BY <1>0, <1>4, <3>1 DEF DroppedOverlay
  <2> QED
    BY <2>1, <2>2
<1>7. \A u \in Uris : /\ u \in gone => u \in FilesOf[k] /\ u \notin Edited /\ k \in session.fileSets[u]
                      /\ editor[u] = Closed /\ k \in session.fileSets[u] /\ session.documents[u] # NoDocument
                           => u \in gone
                      /\ u \in session.uris[k] <=> k \in session.fileSets[u]
  BY RemovableFiles, RootFiles
<1> HIDE DEF gone
<1>8. /\ session.known \subseteq r.known
      /\ r.detached = session.detached \ gone
      /\ \A u \in Uris : /\ r.documents[u] = IF u \in gone THEN NoDocument ELSE session.documents[u]
                         /\ r.fileSets[u] = session.fileSets[u] \ {k}
  <2>1. CASE s.uris[k] = {}
    <3>1. \A u \in Uris : u \notin gone /\ session.fileSets[u] \ {k} = session.fileSets[u]
      BY <1>1, <1>7, <2>1
    <3>2. /\ r.documents = s.documents /\ r.known = s.known /\ r.fileSets = s.fileSets
          /\ r.detached = s.detached
      BY <1>3, <2>1 DEF RootRemovedIs
    <3>3. session.detached \subseteq Uris
      BY InvTypes, SessionTypes
    <3> QED
      BY <1>1, <3>1, <3>2, <3>3
  <2>2. CASE s.uris[k] # {}
    BY <1>1, <1>2, <1>3, <2>2 DEF RootRemovedIs
  <2> QED
    BY <2>1, <2>2
<1>9. /\ r.detached \subseteq session.detached
      /\ \A u \in session.detached : u \notin FilesOf[k] \/ u \in Edited => u \in r.detached
      /\ \A u \in r.detached : r.documents[u] # NoDocument
  <2>1. session.detached \subseteq Uris /\ \A u \in session.detached : session.documents[u] # NoDocument
    BY <1>0, InvTypes, SessionTypes DEF FilesKept, DetachedExist
  <2> QED
    BY <1>7, <1>8, <2>1
<1>10. \A u \in Uris \ FilesOf[k] : r.documents[u] = session.documents[u] /\ r.fileSets[u] = session.fileSets[u]
  <2> SUFFICES ASSUME NEW u \in Uris \ FilesOf[k]
               PROVE  r.documents[u] = session.documents[u] /\ r.fileSets[u] = session.fileSets[u]
    OBVIOUS
  <2>1. u \notin gone /\ session.fileSets[u] \ {k} = session.fileSets[u]
    BY <1>7, RootFiles
  <2> QED
    BY <1>8, <2>1
<1>11. \A u \in FilesOf[k] : /\ r.fileSets[u] = {} /\ r.documents[u] \in {session.documents[u], NoDocument}
                             /\ u \in Edited => r.documents[u] = session.documents[u]
                             /\ editor[u] = Closed => r.documents[u] = NoDocument
  <2> SUFFICES ASSUME NEW u \in FilesOf[k]
               PROVE  /\ r.fileSets[u] = {} /\ r.documents[u] \in {session.documents[u], NoDocument}
                      /\ u \in Edited => r.documents[u] = session.documents[u]
                      /\ editor[u] = Closed => r.documents[u] = NoDocument
    OBVIOUS
  <2>1. u \in Uris /\ session.fileSets[u] \ {k} = {}
    BY <1>0, RootFiles
  <2>2. editor[u] = Closed /\ session.documents[u] # NoDocument => u \in gone
    BY <1>0, <1>7, RootFiles
  <2> QED
    BY <1>7, <1>8, <2>1, <2>2
<1>12. \A u \in Uris : found[u] = NoBody
  OBVIOUS
<1> HIDE DEF found
<1>13. LoadIs(r, session, k, found)
  BY <1>0, <1>6, <1>8, <1>9, <1>10, <1>11, <1>12 DEF LoadIs
<1> QED
  BY <1>13 DEF r, s, found

LEMMA LoadKeeps ==
    ASSUME DocumentsInv, NEW k \in Roots, NEW found \in Contents(k), LoadIs(session', session, k, found),
           editor' = editor, onDisk' = [onDisk EXCEPT ![k] = found], blanked' = NotReadAnew(FilesOf[k])
    PROVE  FilesKept'
<1>0. /\ FilesOf[k] \subseteq Uris /\ Edited' = Edited
      /\ onDisk \in [Roots -> [Uris -> Texts \union {NoBody}]]
      /\ FilesKept
  BY InvTypes, DocumentsAssumption DEF Edited
<1>1. /\ onDisk'[k] = found /\ \A j \in Roots \ {k} : onDisk'[j] = onDisk[j]
  BY <1>0
<1>2. \A u \in Uris : RootDocument(found[u]) # NoDocument /\ RootDocument(found[u]).content = Empty
  <2>1. \A u \in Uris : found[u] \in Texts \union {NoBody}
    BY DEF Contents
  <2> QED
    BY <2>1, BodyTypes, NoDocumentAssumption DEF RootDocument
<1>3. \A u \in Uris : /\ u \in blanked' => u \in blanked
                      /\ u \in blanked /\ u \notin blanked' => u \in FilesOf[k] /\ editor[u] = Closed
  BY DEF NotReadAnew
<1>4. /\ session.known \subseteq session'.known
      /\ (\E u \in Uris : found[u] # NoBody) => k \in session'.known
      /\ \A u \in Uris \ FilesOf[k] : /\ found[u] = NoBody
                                      /\ session'.documents[u] = session.documents[u]
                                      /\ session'.fileSets[u] = session.fileSets[u]
                                      /\ session'.overlay[u] = session.overlay[u]
      /\ session'.detached \subseteq session.detached
      /\ \A u \in session.detached : u \notin FilesOf[k] \/ u \in Edited => u \in session'.detached
      /\ \A u \in session'.detached : session'.documents[u] # NoDocument
  BY DEF LoadIs
<1>5. ASSUME NEW u \in FilesOf[k]
      PROVE  /\ session'.fileSets[u] \subseteq IF found[u] = NoBody THEN session.fileSets[u]
                                               ELSE session.fileSets[u] \union {k}
             /\ \/ session'.overlay[u] \in {session.overlay[u], NoOverlay}
                \/ /\ found[u] # NoBody
                   /\ session'.overlay[u].document = RootDocument(found[u])
                   /\ session'.overlay[u].keys = session.overlay[u].keys \union {k}
             /\ \/ session'.documents[u] \in {session.documents[u], NoDocument}
                \/ found[u] # NoBody /\ session'.documents[u] = RootDocument(found[u])
  <2>1. found[u] # NoBody /\ session'.overlay[u] = [document |-> RootDocument(found[u]),
                                                    keys |-> session.overlay[u].keys \union {k}]
          => /\ session'.overlay[u].document = RootDocument(found[u])
             /\ session'.overlay[u].keys = session.overlay[u].keys \union {k}
    OBVIOUS
  <2>2. /\ session'.fileSets[u] \subseteq IF found[u] = NoBody THEN session.fileSets[u]
                                          ELSE session.fileSets[u] \union {k}
        /\ \/ session'.overlay[u] \in {session.overlay[u], NoOverlay}
           \/ found[u] # NoBody /\ session'.overlay[u] = [document |-> RootDocument(found[u]),
                                                          keys |-> session.overlay[u].keys \union {k}]
    BY DEF LoadIs
  <2>3. \/ session'.documents[u] \in {session.documents[u], NoDocument}
        \/ found[u] # NoBody /\ session'.documents[u] = RootDocument(found[u])
    BY DEF LoadIs
  <2> QED
    BY <2>1, <2>2, <2>3
<1>6. ASSUME NEW u \in FilesOf[k], u \in Edited
      PROVE  /\ session'.documents[u] = session.documents[u] /\ session'.fileSets[u] \subseteq session.fileSets[u]
             /\ found[u] # NoBody => /\ session'.overlay[u].document = RootDocument(found[u])
                                     /\ session'.overlay[u].keys = session.overlay[u].keys \union {k}
  <2>1. /\ session'.documents[u] = session.documents[u] /\ session'.fileSets[u] \subseteq session.fileSets[u]
        /\ found[u] # NoBody => session'.overlay[u] = [document |-> RootDocument(found[u]),
                                                       keys |-> session.overlay[u].keys \union {k}]
    BY <1>6 DEF LoadIs
  <2> QED
    BY <2>1
<1>7. ASSUME NEW u \in FilesOf[k], editor[u] = Closed
      PROVE  /\ found[u] = NoBody => session'.documents[u] = NoDocument /\ session'.fileSets[u] = {}
             /\ found[u] # NoBody => session'.documents[u] = RootDocument(found[u]) /\ session'.fileSets[u] = {k}
  BY <1>7 DEF LoadIs
<1>8. OpenIsLive'
  <2> SUFFICES ASSUME NEW u \in Edited
               PROVE  /\ session'.documents[u] # NoDocument
                      /\ session'.documents[u].content = editor[u]
                      /\ u \notin blanked' => session'.fileSets[u] = {}
    BY <1>0 DEF OpenIsLive
  <2>1. u \in Uris /\ editor[u] # Closed /\ (u \notin blanked' => u \notin blanked)
    BY <1>3 DEF Edited
  <2>2. session'.documents[u] = session.documents[u] /\ session'.fileSets[u] \subseteq session.fileSets[u]
    BY <1>4, <1>6, <2>1
  <2>3. /\ session.documents[u] # NoDocument /\ session.documents[u].content = editor[u]
        /\ u \notin blanked => session.fileSets[u] = {}
    BY <1>0 DEF FilesKept, OpenIsLive
  <2> QED
    BY <2>1, <2>2, <2>3
<1>9. EmptyIsBlanked'
  <2> SUFFICES ASSUME NEW u \in Uris, editor[u] = Empty
               PROVE  /\ u \in blanked'
                      /\ session'.documents[u] # NoDocument => session'.documents[u].content = Empty
    BY DEF EmptyIsBlanked
  <2>1. u \in blanked /\ (session.documents[u] # NoDocument => session.documents[u].content = Empty)
    BY <1>0 DEF FilesKept, EmptyIsBlanked
  <2>2. u \in blanked'
    BY <1>3, <2>1, DocumentsAssumption
  <2> QED
    BY <1>2, <1>4, <1>5, <2>1, <2>2
<1>10. ClosedIsOfRoot'
  <2> SUFFICES ASSUME NEW u \in Uris, editor[u] = Closed
               PROVE  /\ session'.documents[u] # NoDocument =>
                           session'.fileSets[u] # {} /\ session'.documents[u].content = Empty
                      /\ session'.fileSets[u] # {} /\ u \notin blanked' => session'.documents[u] # NoDocument
    BY DEF ClosedIsOfRoot
  <2>1. CASE u \in FilesOf[k]
    BY <1>2, <1>7, <2>1
  <2>2. CASE u \notin FilesOf[k]
    BY <1>0, <1>3, <1>4, <2>2 DEF FilesKept, ClosedIsOfRoot
  <2> QED
    BY <2>1, <2>2
<1>11. DetachedExist'
  BY <1>4 DEF DetachedExist
<1>12. DetachedExact'
  <2> SUFFICES ASSUME NEW u \in Uris, u \notin blanked' \/ editor[u] = Closed
               PROVE  u \in session'.detached <=> session'.documents[u] # NoDocument /\ session'.fileSets[u] = {}
    BY DEF DetachedExact
  <2>1. CASE u \notin FilesOf[k]
    <3>1. u \notin blanked \/ editor[u] = Closed
      BY <1>3, <2>1
    <3>2. u \in session'.detached <=> u \in session.detached
      BY <1>4, <2>1
    <3> QED
      BY <1>0, <1>4, <2>1, <3>1, <3>2 DEF FilesKept, DetachedExact
  <2>2. CASE u \in FilesOf[k] /\ editor[u] = Closed
    <3>1. u \notin session.detached
      BY <1>0, <2>2 DEF FilesKept, DetachedExact, ClosedIsOfRoot
    <3>2. u \notin session'.detached
      BY <1>4, <3>1
    <3> QED
      BY <1>7, <2>2, <3>2
  <2>3. CASE u \in FilesOf[k] /\ editor[u] # Closed
    <3>1. u \notin blanked /\ u \in Edited
      BY <1>3, <2>3, FileKinds
    <3>2. session.documents[u] # NoDocument /\ session.fileSets[u] = {}
      BY <1>0, <3>1 DEF FilesKept, OpenIsLive
    <3>3. u \in session.detached
      BY <1>0, <3>1, <3>2 DEF FilesKept, DetachedExact
    <3> QED
      BY <1>4, <1>6, <2>3, <3>1, <3>2, <3>3
  <2> QED
    BY <2>1, <2>2, <2>3
<1>13. RootsOwn'
  <2> SUFFICES ASSUME NEW u \in Uris, NEW j \in session'.fileSets[u] \union session'.overlay[u].keys
               PROVE  j \in session'.known /\ u \in FilesOf[j]
    BY DEF RootsOwn
  <2>1. j \in session.fileSets[u] \union session.overlay[u].keys => j \in session.known /\ u \in FilesOf[j]
    BY <1>0 DEF FilesKept, RootsOwn
  <2>2. CASE u \notin FilesOf[k]
    BY <1>4, <2>1, <2>2
  <2>3. CASE u \in FilesOf[k]
    <3>1. found[u] # NoBody => k \in session'.known
      BY <1>4
    <3>2. j \in session.fileSets[u] \union session.overlay[u].keys \/ (found[u] # NoBody /\ j = k)
      BY <1>5, <2>3 DEF NoOverlay
    <3> QED
      BY <1>4, <2>1, <2>3, <3>1, <3>2
  <2> QED
    BY <2>2, <2>3
<1>14. OverlayIsOfRoots'
  <2> SUFFICES ASSUME NEW u \in Uris, session'.overlay[u].document # NoDocument
               PROVE  session'.overlay[u].document.content = Empty
    BY DEF OverlayIsOfRoots
  <2>1. session'.overlay[u] = session.overlay[u] => session'.overlay[u].document.content = Empty
    BY <1>0 DEF FilesKept, OverlayIsOfRoots
  <2>2. session'.overlay[u] # NoOverlay
    BY DEF NoOverlay
  <2>3. CASE u \notin FilesOf[k]
    BY <1>4, <2>1, <2>3
  <2>4. CASE u \in FilesOf[k]
    BY <1>2, <1>5, <2>1, <2>2, <2>4
  <2> QED
    BY <2>3, <2>4
<1>15. LoadedIsKept'
  <2> SUFFICES ASSUME NEW j \in Roots, NEW u \in Uris, onDisk'[j][u] # NoBody
               PROVE  /\ u \in FilesOf[j]
                      /\ u \notin blanked' /\ editor[u] = Closed =>
                           session'.documents[u] = RootDocument(onDisk'[j][u]) /\ j \in session'.fileSets[u]
                      /\ u \notin blanked' /\ editor[u] # Closed =>
                           /\ session'.overlay[u].document = RootDocument(onDisk'[j][u])
                           /\ j \in session'.overlay[u].keys
    BY DEF LoadedIsKept
  <2>1. CASE j = k
    <3>1. found[u] # NoBody /\ onDisk'[j][u] = found[u] /\ u \in FilesOf[k]
      BY <1>1, <1>4, <2>1
    <3>2. CASE editor[u] = Closed
      BY <1>7, <2>1, <3>1, <3>2
    <3>3. CASE editor[u] # Closed
      <4>1. u \notin blanked' => u \in Edited
        BY <1>3, <3>3, FileKinds
      <4> QED
        BY <1>6, <2>1, <3>1, <3>3, <4>1
    <3> QED
      BY <3>2, <3>3
  <2>2. CASE j # k
    <3>1. onDisk[j][u] # NoBody /\ onDisk'[j][u] = onDisk[j][u]
      BY <1>1, <2>2
    <3>2. u \in FilesOf[j]
      BY <1>0, <3>1 DEF FilesKept, LoadedIsKept
    <3>3. u \notin FilesOf[k]
      BY <2>2, <3>2, DocumentsAssumption
    <3>4. u \notin blanked' => u \notin blanked
      BY <1>3, <3>3
    <3> QED
      BY <1>0, <1>4, <3>1, <3>2, <3>3, <3>4 DEF FilesKept, LoadedIsKept
  <2> QED
    BY <2>1, <2>2
<1> QED
  BY <1>8, <1>9, <1>10, <1>11, <1>12, <1>13, <1>14, <1>15 DEF FilesKept

LEMMA ResetKeeps ==
    ASSUME DocumentsInv, ResetIs(session', session), editor' = editor,
           onDisk' = [k \in Roots |-> [u \in Uris |-> NoBody]],
           blanked' = {u \in blanked : editor[u] = Empty}
    PROVE  /\ FilesKept'
           /\ \A u \in Uris : session'.documents[u] # NoDocument <=> u \in Edited
<1>1. Live(session) = Edited
  BY FileKinds DEF Live, Edited
<1>2. /\ \A u \in Uris : session'.documents[u] =
           IF u \in Edited THEN Prepared(NewSession, u, session.documents[u].content) ELSE NoDocument
      /\ session'.detached = Edited /\ session'.known = {}
      /\ \A u \in Uris : session'.fileSets[u] = {} /\ session'.overlay[u] = NoOverlay
  BY <1>1 DEF ResetIs
<1>3. ASSUME NEW u \in Edited
      PROVE  session'.documents[u] # NoDocument /\ session'.documents[u].content = editor[u]
  <2>1. u \in Uris /\ session.documents[u].content = editor[u] /\ editor[u] \in Texts
    BY InvTypes, FileKinds DEF FilesKept, OpenIsLive, Edited
  <2>2. /\ Prepared(NewSession, u, editor[u]) \in Document
        /\ Prepared(NewSession, u, editor[u]).content = editor[u]
    BY <2>1, NewSessionType, PreparedType
  <2> QED
    BY <1>2, <2>1, <2>2, NoDocumentAssumption
<1>4. Edited' = Edited /\ Closed # Empty
  BY DocumentsAssumption DEF Edited
<1>5. \A u \in Uris : session'.documents[u] # NoDocument <=> u \in Edited
  BY <1>2, <1>3
<1>6. DetachedExact' /\ DetachedExist'
  BY <1>2, <1>3, <1>5 DEF DetachedExact, DetachedExist
<1>7. OpenIsLive'
  <2>1. Edited \subseteq Uris
    BY DEF Edited
  <2> QED
    BY <1>2, <1>3, <1>4, <2>1 DEF OpenIsLive
<1>8. EmptyIsBlanked'
  BY <1>5, InvTypes DEF EmptyIsBlanked, FilesKept, Edited
<1>9. ClosedIsOfRoot'
  BY <1>2, <1>5 DEF ClosedIsOfRoot, Edited
<1>10. RootsOwn' /\ OverlayIsOfRoots'
  BY <1>2 DEF RootsOwn, OverlayIsOfRoots, NoOverlay
<1>11. LoadedIsKept'
  BY DEF LoadedIsKept
<1> QED
  BY <1>5, <1>6, <1>7, <1>8, <1>9, <1>10, <1>11 DEF FilesKept

\* Nothing happens to a file.
SameFiles ==
    /\ session'.documents = session.documents /\ session'.fileSets = session.fileSets
    /\ session'.overlay = session.overlay /\ session'.detached = session.detached
    /\ session'.known = session.known
    /\ UNCHANGED <<editor, onDisk, blanked>>


\* Each operation edits a file, closes one, loads a root, resets, or leaves
\* the files alone.
LEMMA Operations ==
    ASSUME DocumentsInv, [Next]_vars
    PROVE  \/ \E u \in Uris, t \in Texts :
                /\ EditedIs(session', session, u, t)
                /\ t # Empty /\ u \notin blanked => OpenedIs(session', session, u)
                /\ editor' = [editor EXCEPT ![u] = t] /\ onDisk' = onDisk /\ blanked' = Blanked(u, t)
           \/ \E u \in Uris :
                /\ editor[u] # Closed /\ ClosedIs(session', session, u)
                /\ u \notin blanked => PutBackIs(session', session, u)
                /\ editor' = [editor EXCEPT ![u] = Closed] /\ onDisk' = onDisk /\ blanked' = blanked
           \/ \E k \in Roots : \E found \in Contents(k) :
                /\ LoadIs(session', session, k, found)
                /\ onDisk' = [onDisk EXCEPT ![k] = found] /\ editor' = editor
                /\ blanked' = NotReadAnew(FilesOf[k])
           \/ /\ ResetIs(session', session)
              /\ onDisk' = [k \in Roots |-> [u \in Uris |-> NoBody]] /\ editor' = editor
              /\ blanked' = {u \in blanked : editor[u] = Empty}
           \/ SameFiles
<1>0. EditorTexts \subseteq Texts
  BY DocumentsAssumption
<1>1. ASSUME NEW u \in Uris, NEW t \in EditorTexts, NEW interfaceChange \in BOOLEAN,
             SetFileText(u, t, interfaceChange)
      PROVE  \/ SameFiles
             \/ /\ EditedIs(session', session, u, t)
                /\ t # Empty /\ u \notin blanked => OpenedIs(session', session, u)
                /\ editor' = [editor EXCEPT ![u] = t] /\ onDisk' = onDisk /\ blanked' = Blanked(u, t)
  <2>0. editor' = [editor EXCEPT ![u] = t] /\ onDisk' = onDisk /\ blanked' = Blanked(u, t)
    BY <1>1 DEF SetFileText
  <2>1. CASE session.documents[u] # NoDocument /\ session.documents[u].content = t
    <3>1. session' = session
      BY <1>1, <2>1 DEF SetFileText
    <3>2. CASE t = Empty
      <4>1. session.overlay[u].document # NoDocument => session.overlay[u].document.content = Empty
        BY InvTypes DEF FilesKept, OverlayIsOfRoots
      <4>2. EditedIs(session, session, u, t)
        BY <2>1, <4>1 DEF EditedIs
      <4> QED
        BY <2>0, <3>1, <3>2, <4>2
    <3>3. CASE t # Empty
      <4>1. u \in Edited
        BY <2>1, <3>3, FileKinds DEF IsLive
      <4>2. editor[u] = t
        BY <2>1, <4>1, InvTypes DEF FilesKept, OpenIsLive
      <4>3. editor' = editor /\ blanked' = blanked
        BY <2>0, <3>3, <4>2, InvTypes DEF Blanked
      <4> QED
        BY <2>0, <3>1, <4>3 DEF SameFiles
    <3> QED
      BY <3>2, <3>3
  <2>2. CASE ~(session.documents[u] # NoDocument /\ session.documents[u].content = t)
    <3>1. session' = TextApplied(Bumped(session), u, t, interfaceChange)
      BY <1>1, <2>2 DEF SetFileText
    <3>2. /\ EditedIs(session', session, u, t)
          /\ t # Empty /\ u \notin blanked => OpenedIs(session', session, u)
      BY <1>0, <3>1, SetTextEdits
    <3> QED
      BY <2>0, <3>2
  <2> QED
    BY <2>1, <2>2
<1>2. ASSUME NEW u \in Uris, NEW t \in EditorTexts, AddDocument(u, t)
      PROVE  \/ SameFiles
             \/ /\ EditedIs(session', session, u, t)
                /\ t # Empty /\ u \notin blanked => OpenedIs(session', session, u)
                /\ editor' = [editor EXCEPT ![u] = t] /\ onDisk' = onDisk /\ blanked' = Blanked(u, t)
  <2>1. CASE t \in Broken
    <3>1. session' = Bumped(session) /\ UNCHANGED <<editor, onDisk, blanked>>
      BY <1>2, <2>1 DEF AddDocument
    <3>2. BumpedIs(Bumped(session), session)
      BY InvTypes, BumpedFields
    <3> QED
      BY <3>1, <3>2 DEF SameFiles, BumpedIs
  <2>2. CASE t \notin Broken
    <3>1. session' = Inserted(Detach(Bumped(session), u, BackingKeys(session, u) # {}),
                              u, [content |-> t, parsed |-> t])
      BY <1>2, <2>2 DEF AddDocument
    <3>2. EditedIs(session', session, u, t) /\ (u \notin blanked => OpenedIs(session', session, u))
      BY <1>0, <3>1, AddEdits
    <3> QED
      BY <1>2, <2>2, <3>2 DEF AddDocument
  <2> QED
    BY <2>1, <2>2
<1>3. ASSUME NEW u \in Uris, RemoveFile(u)
      PROVE  /\ editor[u] # Closed /\ ClosedIs(session', session, u)
             /\ u \notin blanked => PutBackIs(session', session, u)
             /\ editor' = [editor EXCEPT ![u] = Closed] /\ onDisk' = onDisk /\ blanked' = blanked
  <2>0. /\ editor[u] # Closed
        /\ editor' = [editor EXCEPT ![u] = Closed] /\ onDisk' = onDisk /\ blanked' = blanked
    BY <1>3 DEF RemoveFile
  <2>1. CASE session.documents[u] = NoDocument /\ session.fileSets[u] = {}
    <3>1. session' = session
      BY <1>3, <2>1 DEF RemoveFile
    <3>2. u \notin session.detached
      BY <2>1, InvTypes DEF FilesKept, DetachedExist
    <3>3. ClosedIs(session, session, u)
      BY <2>1, <3>2 DEF ClosedIs
    <3>4. u \in blanked
      BY <2>0, <2>1, OpenUnblanked
    <3> QED
      BY <2>0, <3>1, <3>3, <3>4
  <2>2. CASE ~(session.documents[u] = NoDocument /\ session.fileSets[u] = {})
    <3>1. session' = DocumentRemoved(Bumped(session), u)
      BY <1>3, <2>2 DEF RemoveFile
    <3> QED
      BY <2>0, <3>1, RemoveCloses
  <2> QED
    BY <2>1, <2>2
<1>4. ASSUME NEW k \in Roots, NEW found \in Contents(k), NEW exclude \in Excludable,
             ReplaceSourceSet(k, found, exclude)
      PROVE  /\ LoadIs(session', session, k, found)
             /\ onDisk' = [onDisk EXCEPT ![k] = found] /\ editor' = editor
             /\ blanked' = NotReadAnew(FilesOf[k])
  BY <1>4, ReplaceLoads DEF ReplaceSourceSet
<1>5. ASSUME NEW k \in Roots, RefreshFromLiveSubtree(k) PROVE SameFiles
  <2>1. RefreshedIs(session', session, k)
    BY <1>5, InvTypes, RefreshedFields DEF RefreshFromLiveSubtree
  <2> QED
    BY <1>5, <2>1 DEF SameFiles, RefreshedIs, RefreshFromLiveSubtree
<1>6. ASSUME NEW k \in Roots, RemoveSourceSet(k)
      PROVE  \E found \in Contents(k) :
                /\ LoadIs(session', session, k, found)
                /\ onDisk' = [onDisk EXCEPT ![k] = found] /\ editor' = editor
                /\ blanked' = NotReadAnew(FilesOf[k])
  <2> DEFINE nothing == [u \in Uris |-> NoBody]
  <2>1. nothing \in Contents(k)
    BY DEF Contents
  <2>2. LoadIs(session', session, k, nothing)
    BY <1>6, RemoveLoads DEF RemoveSourceSet
  <2>3. /\ onDisk' = [onDisk EXCEPT ![k] = nothing] /\ editor' = editor
        /\ blanked' = NotReadAnew(FilesOf[k])
    BY <1>6 DEF RemoveSourceSet
  <2> HIDE DEF nothing
  <2> QED
    BY <2>1, <2>2, <2>3
<1>7. ASSUME ResetToOpenDocuments
      PROVE  /\ ResetIs(session', session)
             /\ onDisk' = [k \in Roots |-> [u \in Uris |-> NoBody]] /\ editor' = editor
             /\ blanked' = {u \in blanked : editor[u] = Empty}
  BY <1>7, InvTypes, ResetFields DEF ResetToOpenDocuments
<1>8. ASSUME UNCHANGED vars PROVE SameFiles
  BY <1>8 DEF vars, SameFiles
<1> QED
  BY <1>0, <1>1, <1>2, <1>3, <1>4, <1>5, <1>6, <1>7, <1>8 DEF Next

LEMMA SameFilesKept ==
    ASSUME DocumentsInv, SameFiles
    PROVE  FilesKept'
<1>1. FilesKept
  BY DEF DocumentsInv
<1>2. Edited' = Edited
  BY DEF SameFiles, Edited
<1> QED
  BY <1>1, <1>2 DEF SameFiles, FilesKept, DetachedExact, OpenIsLive, EmptyIsBlanked, ClosedIsOfRoot,
                    DetachedExist, RootsOwn, OverlayIsOfRoots, LoadedIsKept

LEMMA DocumentsInductive == Spec => []DocumentsInv
<1>1. Init => FilesKept
  <2> SUFFICES ASSUME Init PROVE FilesKept
    OBVIOUS
  <2>1. Closed # Empty
    BY DocumentsAssumption
  <2> QED
    BY <2>1 DEF Init, NewSession, NoOverlay, FilesKept, DetachedExact, OpenIsLive, Edited, EmptyIsBlanked,
                ClosedIsOfRoot, DetachedExist, RootsOwn, OverlayIsOfRoots, LoadedIsKept
<1>2. DocumentsInv /\ [Next]_vars => FilesKept'
  BY Operations, EditKeeps, CloseKeeps, LoadKeeps, ResetKeeps, SameFilesKept
<1>3. SessionOK(session) /\ HistoriesOK /\ FilesKept => DocumentsInv
  BY DEF SessionOK, HistoriesOK, DocumentsInv, TypeOK, IndexConsistent
<1> QED
  BY <1>1, <1>2, <1>3, TablesInductive, PTL DEF Spec

\* detached_document_uris is what queries and snapshots take the documents
\* from: no sequence of opens, closes, loads and resets leaves a document out of
\* it or a root's in it.  A file that the editor empties is the one exception,
\* and only while it is open: the entries of all other files stay exact.
THEOREM DetachedAreListed == Spec => []DetachedExact
<1>1. DocumentsInv => DetachedExact
  BY DEF DocumentsInv, FilesKept
<1> QED
  BY <1>1, DocumentsInductive, PTL

\* A closed file of a loaded root is in the session as the last load found it,
\* whether it was open during the load or not:
\* restore_detached_source_root_document puts back what
\* replace_source_set_documents left in the overlay.  For a file that the editor
\* has emptied this holds again from the next load that finds it closed on.
THEOREM ClosedFilesAreLoaded == Spec => []ClosedFileIsLoaded
<1>1. DocumentsInv => ClosedFileIsLoaded
  BY DEF DocumentsInv, FilesKept, LoadedIsKept, ClosedFileIsLoaded
<1> QED
  BY <1>1, DocumentsInductive, PTL

-----------------------------------------------------------------------------
(* Revision and epoch.                                                       *)

\* The step from s to r moves the pair forward, or nothing it stands for.
StampMoves(r, s) ==
    \/ r.epoch > s.epoch
    \/ r.epoch = s.epoch /\ r.revision > s.revision
    \/ r.documents = s.documents /\ r.uris = s.uris /\ r.epoch = s.epoch /\ r.revision = s.revision

LEMMA StampStep ==
    ASSUME session \in Session, [Next]_vars
    PROVE  StampMoves(session', session)
<1> DEFINE s == Bumped(session)
<1>0. session.revision \in Nat /\ session.epoch \in Nat
  BY SessionTypes
<1>1. s \in Session /\ s.revision = session.revision + 1 /\ s.epoch = session.epoch
  BY BumpedFields DEF BumpedIs
<1> HIDE DEF s
<1>2. \A r : r.revision = s.revision /\ r.epoch = s.epoch => StampMoves(r, session)
  BY <1>0, <1>1 DEF StampMoves
<1>3. session' = session => StampMoves(session', session)
  BY DEF StampMoves
<1>4. ASSUME NEW u \in Uris, NEW t \in EditorTexts, NEW interfaceChange \in BOOLEAN,
             SetFileText(u, t, interfaceChange)
      PROVE  StampMoves(session', session)
  <2>1. session' = session \/ session' = TextApplied(s, u, t, interfaceChange)
    BY <1>4 DEF SetFileText, s
  <2>2. TextAppliedIs(TextApplied(s, u, t, interfaceChange), s, u, t)
    BY <1>1, TextAppliedFields, DocumentsAssumption
  <2> QED
    BY <1>2, <1>3, <2>1, <2>2 DEF TextAppliedIs
<1>5. ASSUME NEW u \in Uris, NEW t \in EditorTexts, AddDocument(u, t)
      PROVE  StampMoves(session', session)
  <2> DEFINE preserve == BackingKeys(session, u) # {}
             q == Detach(s, u, preserve)
             d == [content |-> t, parsed |-> t]
  <2>1. session' = s \/ session' = Inserted(q, u, d)
    BY <1>5 DEF AddDocument, s
  <2>2. preserve \in BOOLEAN /\ d \in Document
    BY DocumentsAssumption DEF Document
  <2> HIDE DEF preserve, d
  <2>3. DetachIs(q, s, u, preserve)
    BY <1>1, <2>2, DetachFields
  <2> HIDE DEF q
  <2>4. q \in Session /\ q.revision = s.revision /\ q.epoch = s.epoch
    BY <2>3 DEF DetachIs
  <2>5. InsertedIs(Inserted(q, u, d), q, u, d)
    BY <2>2, <2>4, InsertedFields
  <2> QED
    BY <1>2, <2>1, <2>4, <2>5 DEF InsertedIs
<1>6. ASSUME NEW u \in Uris, RemoveFile(u)
      PROVE  StampMoves(session', session)
  <2> DEFINE deleted == Deleted(s, u)
             q == Detach(deleted, u, FALSE)
             r == Restored(q, u)
  <2>1. session' = session \/ session' = r
    BY <1>6 DEF RemoveFile, DocumentRemoved, s
  <2>2. DeletedIs(deleted, s, u)
    BY <1>1, DeletedFields
  <2> HIDE DEF deleted
  <2>3. deleted \in Session /\ deleted.revision = s.revision /\ deleted.epoch = s.epoch
    BY <2>2 DEF DeletedIs
  <2>4. DetachIs(q, deleted, u, FALSE)
    BY <2>3, DetachFields
  <2> HIDE DEF q
  <2>5. q \in Session /\ q.revision = s.revision /\ q.epoch = s.epoch
    BY <2>3, <2>4 DEF DetachIs
  <2>6. CASE q.overlay[u].keys = {}
    BY <1>2, <1>3, <2>1, <2>5, <2>6 DEF Restored
  <2>7. CASE q.overlay[u].keys # {}
    <3>1. RestoredIs(r, q, u)
      BY <2>5, <2>7, RestoredFields
    <3> QED
      BY <1>2, <1>3, <2>1, <2>5, <3>1 DEF RestoredIs
  <2> QED
    BY <2>6, <2>7
<1>7. ASSUME NEW k \in Roots, NEW found \in Contents(k), NEW exclude \in Excludable,
             ReplaceSourceSet(k, found, exclude)
      PROVE  StampMoves(session', session)
  <2> DEFINE r == Replaced(session, k, found, exclude)
  <2>1. session' = r
    BY <1>7 DEF ReplaceSourceSet
  <2>2. UnchangedIs(r, session, k, found, exclude) \/ ReplacedIs(r, session, k, found, exclude)
    BY ReplacedFields
  <2> HIDE DEF r
  <2>3. \/ /\ r.documents = session.documents /\ r.uris = session.uris
           /\ r.epoch = session.epoch /\ r.revision = session.revision
        \/ r.epoch = session.epoch + 1
    BY <2>2 DEF UnchangedIs, ReplacedIs
  <2> QED
    BY <1>0, <2>1, <2>3 DEF StampMoves
<1>8. ASSUME NEW k \in Roots, RefreshFromLiveSubtree(k) PROVE StampMoves(session', session)
  <2>1. session'.epoch = session.epoch + 1
    BY <1>8, RefreshedFields DEF RefreshFromLiveSubtree, RefreshedIs
  <2> QED
    BY <1>0, <2>1 DEF StampMoves
<1>9. ASSUME NEW k \in Roots, RemoveSourceSet(k) PROVE StampMoves(session', session)
  <2>1. RootRemovedIs(RootRemoved(s, k), s, k) /\ session' = RootRemoved(s, k)
    BY <1>1, <1>9, RootRemovedFields DEF RemoveSourceSet, s
  <2> QED
    BY <1>2, <2>1 DEF RootRemovedIs
<1>10. ASSUME ResetToOpenDocuments PROVE StampMoves(session', session)
  <2>1. session'.epoch = session.epoch + 1
    BY <1>10, ResetFields DEF ResetToOpenDocuments, ResetIs
  <2> QED
    BY <1>0, <2>1 DEF StampMoves
<1>11. UNCHANGED vars => session' = session
  BY DEF vars
<1> QED
  BY <1>3, <1>4, <1>5, <1>6, <1>7, <1>8, <1>9, <1>10, <1>11 DEF Next

\* No two states of a session's life with different documents or memberships
\* carry the same epoch and revision: a cache that compares the two may trust them, also
\* over reset_to_open_documents, which restarts the revisions.  Empty texts are
\* no exception.
THEOREM StampsNameContent == Spec => StampNamesContent
<1>1. session \in Session /\ [Next]_vars
        => LET later == \/ session'.epoch > session.epoch
                        \/ session'.epoch = session.epoch /\ session'.revision > session.revision
               same == /\ session'.documents = session.documents
                       /\ session'.uris = session.uris
                       /\ session'.epoch = session.epoch
                       /\ session'.revision = session.revision
           IN later \/ same
  BY StampStep DEF StampMoves
<1>2. SessionOK(session) => session \in Session
  BY DEF SessionOK
<1> QED
  BY <1>1, <1>2, TablesInductive, PTL DEF Spec, StampNamesContent

-----------------------------------------------------------------------------
(* The refinement of DocumentStore.                                          *)

\* What a file's text is: the editor's or the document's, and the root's.
TextsAre ==
    \A u \in Uris :
        /\ u \in Edited => VisibleText(u) = editor[u]
        /\ session.documents[u] = NoDocument => VisibleText(u) = NoBody
        /\ u \notin Edited /\ session.documents[u] # NoDocument => VisibleText(u) = session.documents[u].parsed
        /\ VisibleText(u) \in Texts \union {NoBody}
        /\ \A k \in Roots : u \in FilesOf[k] => LoadedText(u) = onDisk[k][u]
        /\ (\A k \in Roots : u \notin FilesOf[k]) => LoadedText(u) = NoBody
        /\ LoadedText(u) \in Texts \union {NoBody}

LEMMA VisibleTexts ==
    ASSUME DocumentsInv
    PROVE  TextsAre
<1> SUFFICES ASSUME NEW u \in Uris
             PROVE  /\ u \in Edited => VisibleText(u) = editor[u]
                    /\ session.documents[u] = NoDocument => VisibleText(u) = NoBody
                    /\ u \notin Edited /\ session.documents[u] # NoDocument
                         => VisibleText(u) = session.documents[u].parsed
                    /\ VisibleText(u) \in Texts \union {NoBody}
                    /\ \A k \in Roots : u \in FilesOf[k] => LoadedText(u) = onDisk[k][u]
                    /\ (\A k \in Roots : u \notin FilesOf[k]) => LoadedText(u) = NoBody
                    /\ LoadedText(u) \in Texts \union {NoBody}
  BY DEF TextsAre
<1>1. /\ IsLive(session.documents[u]) <=> u \in Edited
      /\ u \in Edited => session.documents[u].content = editor[u] /\ editor[u] \in Texts
  BY FileKinds, InvTypes DEF FilesKept, OpenIsLive
<1>2. session.documents[u] # NoDocument => session.documents[u].parsed \in Texts \union {NoBody}
  <2>1. session.documents[u] # NoDocument => session.documents[u] \in Document
    BY InvTypes
  <2> QED
    BY <2>1 DEF Document
<1>3. /\ u \in Edited => VisibleText(u) = editor[u]
      /\ session.documents[u] = NoDocument => VisibleText(u) = NoBody
      /\ u \notin Edited /\ session.documents[u] # NoDocument => VisibleText(u) = session.documents[u].parsed
      /\ VisibleText(u) \in Texts \union {NoBody}
  BY <1>1, <1>2 DEF VisibleText, IsLive
<1>4. ASSUME NEW k \in Roots, u \in FilesOf[k] PROVE LoadedText(u) = onDisk[k][u]
  <2>1. (CHOOSE j \in Roots : u \in FilesOf[j]) \in Roots /\ u \in FilesOf[CHOOSE j \in Roots : u \in FilesOf[j]]
    BY <1>4
  <2>2. (CHOOSE j \in Roots : u \in FilesOf[j]) = k
    BY <1>4, <2>1, DocumentsAssumption
  <2> QED
    BY <1>4, <2>2 DEF LoadedText
<1>5. (\A k \in Roots : u \notin FilesOf[k]) => LoadedText(u) = NoBody
  BY DEF LoadedText
<1>6. \A k \in Roots : onDisk[k][u] \in Texts \union {NoBody}
  BY InvTypes
<1>7. LoadedText(u) \in Texts \union {NoBody}
  BY <1>4, <1>5, <1>6
<1> QED
  BY <1>3, <1>4, <1>5, <1>7

LEMMA TextsAfter == DocumentsInv' => TextsAre'
<1>1. DocumentsInv => TextsAre
  BY VisibleTexts
<1> QED
  BY <1>1, PTL

Visible == [u \in Uris |-> VisibleText(u)]
Disk == [u \in Uris |-> LoadedText(u)]

LEMMA EditRefines ==
    ASSUME DocumentsInv, DocumentsInv', NEW u \in Uris, NEW t \in Texts,
           EditedIs(session', session, u, t), editor' = [editor EXCEPT ![u] = t], onDisk' = onDisk,
           blanked' = Blanked(u, t)
    PROVE  IF t = Empty THEN Store!Blank(u) ELSE Store!Edit(u, t)
<1>1. TextsAre /\ TextsAre'
  BY VisibleTexts, TextsAfter
<1>2. editor'[u] = t /\ t # Closed /\ \A v \in Uris \ {u} : editor'[v] = editor[v]
  BY InvTypes, DocumentsAssumption
<1>3. \A v \in Uris \ {u} : session'.documents[v] = session.documents[v]
  BY DEF EditedIs
<1>4. ASSUME NEW v \in Uris, v # u PROVE VisibleText(v)' = VisibleText(v)
  BY <1>1, <1>2, <1>3, <1>4 DEF TextsAre, Edited
<1>5. Visible' = [Visible EXCEPT ![u] = VisibleText(u)']
  BY <1>4 DEF Visible
<1>6. Disk' = Disk /\ Visible[u] = VisibleText(u)
  BY DEF Disk, LoadedText, Visible
<1>7. CASE t # Empty
  <2>1. VisibleText(u)' = t
    BY <1>1, <1>2, <1>7 DEF TextsAre, Edited
  <2> QED
    BY <1>5, <1>6, <1>7, <2>1 DEF Store!Edit, Visible, Disk, Blanked
<1>8. CASE t = Empty
  <2>1. VisibleText(u)' = session'.documents[u].parsed
    BY <1>1, <1>2, <1>8 DEF TextsAre, Edited, EditedIs
  <2>2. VisibleText(u)' \in {Empty, VisibleText(u)}
    <3>1. CASE session'.documents[u].parsed = Empty
      BY <2>1, <3>1
    <3>2. CASE session'.documents[u] = session.documents[u]
      <4>1. session.documents[u] # NoDocument /\ session.documents[u].content = Empty
        BY <1>8, <3>2 DEF EditedIs
      <4>2. u \notin Edited
        BY <4>1, FileKinds DEF IsLive
      <4> QED
        BY <1>1, <2>1, <3>2, <4>1, <4>2 DEF TextsAre
    <3> QED
      BY <1>8, <3>1, <3>2 DEF EditedIs
  <2> QED
    BY <1>5, <1>6, <1>8, <2>2 DEF Store!Blank, Visible, Disk, Blanked
<1> QED
  BY <1>7, <1>8

LEMMA CloseRefines ==
    ASSUME DocumentsInv, DocumentsInv', NEW u \in Uris, editor[u] # Closed,
           ClosedIs(session', session, u), u \notin blanked => PutBackIs(session', session, u),
           editor' = [editor EXCEPT ![u] = Closed], onDisk' = onDisk, blanked' = blanked
    PROVE  Store!Close(u)
<1>1. TextsAre /\ TextsAre'
  BY VisibleTexts, TextsAfter
<1>2. editor'[u] = Closed /\ u \notin Edited' /\ \A v \in Uris \ {u} : editor'[v] = editor[v]
  BY InvTypes DEF Edited
<1>3. \A v \in Uris \ {u} : session'.documents[v] = session.documents[v]
  BY DEF ClosedIs
<1>4. ASSUME NEW v \in Uris, v # u PROVE VisibleText(v)' = VisibleText(v)
  BY <1>1, <1>2, <1>3, <1>4 DEF TextsAre, Edited
<1>5. LoadedText(u) # NoBody /\ u \notin blanked => VisibleText(u)' = LoadedText(u)
  <2> SUFFICES ASSUME LoadedText(u) # NoBody, u \notin blanked PROVE VisibleText(u)' = LoadedText(u)
    OBVIOUS
  <2>1. PICK k \in Roots : u \in FilesOf[k]
    BY <1>1 DEF TextsAre
  <2>2. LoadedText(u) = onDisk[k][u] /\ onDisk[k][u] # NoBody
    BY <1>1, <2>1 DEF TextsAre
  <2>3. session'.documents[u] = RootDocument(onDisk[k][u])
    BY <2>1, <2>2, InvTypes DEF FilesKept, LoadedIsKept, PutBackIs
  <2>4. RootDocument(onDisk[k][u]) # NoDocument /\ RootDocument(onDisk[k][u]).parsed = onDisk[k][u]
    <3>1. onDisk[k][u] \in Texts \union {NoBody}
      BY <2>1, InvTypes
    <3> QED
      BY <3>1, BodyTypes, NoDocumentAssumption DEF RootDocument
  <2> QED
    BY <1>1, <1>2, <2>2, <2>3, <2>4 DEF TextsAre
<1>6. VisibleText(u)' \in Texts \union {NoBody}
  BY <1>1 DEF TextsAre
<1>7. Visible' = [Visible EXCEPT ![u] = VisibleText(u)']
  BY <1>4 DEF Visible
<1>8. Disk' = Disk /\ Disk[u] = LoadedText(u)
  BY DEF Disk, LoadedText
<1> QED
  BY <1>5, <1>6, <1>7, <1>8 DEF Store!Close, Visible, Disk

LEMMA LoadRefines ==
    ASSUME DocumentsInv, DocumentsInv', NEW k \in Roots, NEW found \in Contents(k),
           LoadIs(session', session, k, found), onDisk' = [onDisk EXCEPT ![k] = found], editor' = editor,
           blanked' = NotReadAnew(FilesOf[k])
    PROVE  Store!Load(FilesOf[k])
<1>0. Edited' = Edited /\ FilesOf[k] \subseteq Uris /\ \A u \in Uris : editor[u] = Closed => u \notin Edited
  BY DocumentsAssumption DEF Edited
<1>1. TextsAre /\ TextsAre'
  BY VisibleTexts, TextsAfter
<1>2. onDisk'[k] = found /\ \A j \in Roots \ {k} : onDisk'[j] = onDisk[j]
  BY InvTypes
<1>3. ASSUME NEW u \in Uris, u \notin FilesOf[k]
      PROVE  LoadedText(u)' = LoadedText(u) /\ VisibleText(u)' = VisibleText(u)
  <2>1. session'.documents[u] = session.documents[u]
    BY <1>3 DEF LoadIs
  <2>2. VisibleText(u)' = VisibleText(u)
    BY <2>1 DEF VisibleText
  <2>3. CASE \E j \in Roots : u \in FilesOf[j]
    <3>1. PICK j \in Roots : u \in FilesOf[j]
      BY <2>3
    <3>2. j # k
      BY <1>3, <3>1
    <3> QED
      BY <1>1, <1>2, <2>2, <3>1, <3>2 DEF TextsAre
  <2>4. CASE \A j \in Roots : u \notin FilesOf[j]
    BY <1>1, <2>2, <2>4 DEF TextsAre
  <2> QED
    BY <2>3, <2>4
<1>4. ASSUME NEW u \in FilesOf[k], u \in Edited PROVE VisibleText(u)' = VisibleText(u)
  BY <1>0, <1>1, <1>4 DEF TextsAre
<1>5. ASSUME NEW u \in FilesOf[k] PROVE LoadedText(u)' = found[u]
  BY <1>0, <1>1, <1>2 DEF TextsAre
<1>6. ASSUME NEW u \in FilesOf[k], u \notin Edited, found[u] # NoBody,
             session'.documents[u] = RootDocument(found[u])
      PROVE  VisibleText(u)' = LoadedText(u)'
  <2>1. RootDocument(found[u]) # NoDocument /\ RootDocument(found[u]).parsed = found[u]
    <3>1. found[u] \in Texts \union {NoBody}
      BY <1>0 DEF Contents
    <3> QED
      BY <3>1, BodyTypes, NoDocumentAssumption DEF RootDocument
  <2> QED
    BY <1>0, <1>1, <1>5, <1>6, <2>1 DEF TextsAre
<1>7. ASSUME NEW u \in FilesOf[k], editor[u] = Closed PROVE VisibleText(u)' = LoadedText(u)'
  <2>1. CASE found[u] = NoBody
    <3>1. session'.documents[u] = NoDocument
      BY <1>7, <2>1 DEF LoadIs
    <3> QED
      BY <1>0, <1>1, <1>5, <2>1, <3>1 DEF TextsAre
  <2>2. CASE found[u] # NoBody
    <3>1. session'.documents[u] = RootDocument(found[u])
      BY <1>7, <2>2 DEF LoadIs
    <3> QED
      BY <1>0, <1>6, <1>7, <2>2, <3>1
  <2> QED
    BY <2>1, <2>2
<1>8. ASSUME NEW u \in FilesOf[k], u \notin Edited
      PROVE  VisibleText(u)' \in {VisibleText(u), LoadedText(u)', NoBody}
  <2>1. \/ session'.documents[u] = session.documents[u]
        \/ session'.documents[u] = NoDocument
        \/ found[u] # NoBody /\ session'.documents[u] = RootDocument(found[u])
    BY <1>8 DEF LoadIs
  <2>2. session'.documents[u] = session.documents[u] => VisibleText(u)' = VisibleText(u)
    BY DEF VisibleText
  <2>3. session'.documents[u] = NoDocument => VisibleText(u)' = NoBody
    BY <1>0, <1>1 DEF TextsAre
  <2> QED
    BY <1>6, <1>8, <2>1, <2>2, <2>3
<1>9. Disk' \in [Uris -> Texts \union {NoBody}] /\ \A u \in Uris \ FilesOf[k] : Disk'[u] = Disk[u]
  <2>1. \A u \in Uris : LoadedText(u)' \in Texts \union {NoBody}
    BY <1>1 DEF TextsAre
  <2> QED
    BY <1>3, <2>1 DEF Disk
<1>10. Visible' \in [Uris -> Texts \union {NoBody}]
  <2>1. \A u \in Uris : VisibleText(u)' \in Texts \union {NoBody}
    BY <1>1 DEF TextsAre
  <2> QED
    BY <2>1 DEF Visible
<1>11. \A u \in Uris : /\ Visible'[u] = VisibleText(u)' /\ Visible[u] = VisibleText(u)
                       /\ Disk'[u] = LoadedText(u)'
  BY DEF Visible, Disk
<1>12. ASSUME NEW u \in Uris
       PROVE  Visible'[u] \in IF u \in FilesOf[k]
                              THEN IF editor[u] = Closed THEN {Disk'[u]}
                                   ELSE IF editor[u] = Empty THEN {Visible[u], Disk'[u], NoBody}
                                   ELSE {Visible[u]}
                              ELSE {Visible[u]}
  <2>1. CASE u \notin FilesOf[k]
    BY <1>3, <1>11, <2>1
  <2>2. CASE u \in FilesOf[k] /\ editor[u] = Closed
    BY <1>7, <1>11, <2>2
  <2>3. CASE u \in FilesOf[k] /\ editor[u] = Empty
    <3>1. u \notin Edited /\ editor[u] # Closed
      BY <2>3, DocumentsAssumption DEF Edited
    <3> QED
      BY <1>8, <1>11, <2>3, <3>1
  <2>4. CASE u \in FilesOf[k] /\ editor[u] # Closed /\ editor[u] # Empty
    BY <1>4, <1>11, <2>4 DEF Edited
  <2> QED
    BY <2>1, <2>2, <2>3, <2>4
<1> QED
  BY <1>9, <1>10, <1>12 DEF Store!Load, Store!Reads, Visible, Disk, NotReadAnew

LEMMA ResetRefines ==
    ASSUME DocumentsInv, DocumentsInv', ResetIs(session', session),
           onDisk' = [k \in Roots |-> [u \in Uris |-> NoBody]], editor' = editor,
           blanked' = {u \in blanked : editor[u] = Empty}
    PROVE  Store!Forget
<1>1. TextsAre /\ TextsAre' /\ Edited' = Edited
  BY VisibleTexts, TextsAfter DEF Edited
<1>2. ASSUME NEW u \in Uris PROVE LoadedText(u)' = NoBody
  <2>1. \A k \in Roots : onDisk'[k][u] = NoBody
    OBVIOUS
  <2> QED
    BY <1>1, <2>1 DEF TextsAre
<1>3. ASSUME NEW u \in Uris
      PROVE  VisibleText(u)' = IF editor[u] \in {Closed, Empty} THEN NoBody ELSE VisibleText(u)
  <2>1. u \notin Edited => session'.documents[u] = NoDocument
    BY ResetKeeps
  <2> QED
    BY <1>1, <2>1 DEF TextsAre, Edited
<1>4. Disk' = [u \in Uris |-> NoBody]
  BY <1>2 DEF Disk
<1>5. Visible' = [u \in Uris |-> IF editor[u] \in {Closed, Empty} THEN NoBody ELSE Visible[u]]
  BY <1>3 DEF Visible
<1> QED
  BY <1>4, <1>5 DEF Store!Forget, Visible, Disk

LEMMA StoreStep ==
    ASSUME DocumentsInv, DocumentsInv', [Next]_vars
    PROVE  [Store!StoreNext]_(Store!storeVars)
<1>1. ASSUME NEW u \in Uris, NEW t \in Texts, IF t = Empty THEN Store!Blank(u) ELSE Store!Edit(u, t)
      PROVE  Store!StoreNext
  BY <1>1 DEF Store!StoreNext
<1>2. ASSUME NEW u \in Uris, Store!Close(u) PROVE Store!StoreNext
  BY <1>2 DEF Store!StoreNext
<1>3. ASSUME NEW k \in Roots, Store!Load(FilesOf[k]) PROVE Store!StoreNext
  BY <1>3 DEF Store!StoreNext
<1>4. Store!Forget => Store!StoreNext
  BY DEF Store!StoreNext
<1>5. SameFiles => UNCHANGED Store!storeVars
  BY DEF SameFiles, Store!storeVars, VisibleText, LoadedText
<1> QED
  BY <1>1, <1>2, <1>3, <1>4, <1>5, Operations, EditRefines, CloseRefines, LoadRefines, ResetRefines

\* The session implements DocumentStore: an edit or a close changes the text of
\* its own file only, and a load, a removal or a reset changes those of closed
\* files of its root only, to what was found.  What the editor empties it may
\* lose, as DocumentStore says, and nothing else with it.
THEOREM SessionImplementsStore == Spec => ImplementsStore
<1>1. Init => Store!StoreInit
  <2> SUFFICES ASSUME Init PROVE Store!StoreInit
    OBVIOUS
  <2>1. \A u \in Uris : VisibleText(u) = NoBody
    BY DEF Init, NewSession, VisibleText
  <2>2. \A u \in Uris : LoadedText(u) = NoBody
    BY DEF Init, LoadedText
  <2> QED
    BY <2>1, <2>2 DEF Init, Store!StoreInit
<1>2. DocumentsInv /\ DocumentsInv' /\ [Next]_vars => [Store!StoreNext]_(Store!storeVars)
  BY StoreStep
<1> QED
  BY <1>1, <1>2, DocumentsInductive, PTL DEF Spec, ImplementsStore, Store!StoreSpec

=============================================================================
