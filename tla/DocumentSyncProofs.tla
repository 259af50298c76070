-------------------------- MODULE DocumentSyncProofs --------------------------
(* Proofs about DocumentSync, for any number of documents, messages and       *)
(* concurrent handlers: an analysis request that passes its staleness check   *)
(* was answered from the session's content, the session ends with the         *)
(* editor's texts, and the client with the diagnostics of these.              *)
EXTENDS DocumentSync, TLAPS

\* The steps between a request's snapshot and its answer.
Checking == {"checkEpoch", "checkRevision"}

\* No token of this session is ahead of it, and a request whose token names
\* the session's revision took its snapshot at that revision.
TokensBehind ==
    \A h \in Handlers : tokenResets[h] = resets => tokenRevision[h] <= revision

SnapshotAtToken ==
    \A h \in Handlers :
        ((/\ kind[h] = "request" /\ pc[h] \in Checking
          /\ tokenResets[h] = resets /\ tokenRevision[h] = revision)
            => seen[h] = Content)

\* Only an open or a save loads source roots and refreshes its token.
LoadersAreNotRequests ==
    \A h \in Handlers : pc[h] \in {"roots", "refresh"} => kind[h] # "request"

Tokens == TokensBehind /\ SnapshotAtToken /\ LoadersAreNotRequests

SyncInv == TypeOK /\ Tokens

\* The label tables name labels; a request leaves its token for its snapshot.
LEMMA LabelsOK ==
    ASSUME NEW k \in Kind
    PROVE /\ FirstStep[k] \in Pc \ Checking
          /\ AfterReload[k] \in Pc \ Checking
          /\ AfterToken[k] \in Pc
          /\ AfterStale[k] \in Pc \ Checking
          /\ AfterFresh[k] \in Pc \ Checking
          /\ k = "request" => AfterToken[k] = "snapshot"
          /\ {FirstStep[k], AfterReload[k], AfterStale[k], AfterFresh[k]} \cap {"roots", "refresh"} = {}
  BY DEF Kind, FirstStep, AfterReload, AfterToken, AfterStale, AfterFresh, Pc, Checking

\* The type invariant, with no token's epoch ahead of the server's.
THEOREM TypeCorrect == Spec => []TypeOK
<1>1. Init => TypeOK
  BY SyncAssumption DEF Init, TypeOK, NoContent, Pc, Kind
<1>2. TypeOK /\ [Next]_vars => TypeOK'
  <2> SUFFICES ASSUME TypeOK, [Next]_vars PROVE TypeOK'
    OBVIOUS
  <2> USE SyncAssumption DEF TypeOK
  <2>1. ASSUME NEW h \in Handlers, NEW k \in Kinds, NEW d \in Docs, Send(h, k, d) PROVE TypeOK'
    <3>1. k \in Kind
      BY SyncAssumption
    <3>2. sent + 1 \in 1 .. MaxMessages /\ NoContent \in [text : [Docs -> Nat], loaded : Nat]
      BY <2>1 DEF Send, NoContent
    <3>3. pc' \in [Handlers -> Pc]
      BY <2>1, <3>1, <3>2, LabelsOK DEF Send, Goto
    <3>4. editorText' \in [Docs -> Nat]
      BY <2>1, <3>2 DEF Send
    <3>5. editorVersion' \in [Docs -> Nat] /\ version' \in [Handlers -> Nat]
      BY <2>1, <3>2 DEF Send
    <3> QED
      BY <2>1, <3>1, <3>2, <3>3, <3>4, <3>5 DEF Send, sessionVars
  <2>2. ASSUME NEW h \in Handlers, Step(h) PROVE TypeOK'
    <3> kind[h] \in Kind /\ doc[h] \in Docs
      OBVIOUS
    <3>1. CASE Accept(h)
      <4>1. pc' \in [Handlers -> Pc]
        BY <3>1 DEF Accept, Goto, Pc
      <4>2. \/ UNCHANGED docVersions
            \/ \E v \in Nat : docVersions' = [docVersions EXCEPT ![doc[h]] = v]
        BY <3>1 DEF Accept
      <4>3. docVersions' \in [Docs -> Nat]
        BY <4>2
      <4> QED
        BY <3>1, <4>1, <4>3 DEF Accept, editorVars, overlapVars, sessionVars, tokenVars
    <3>2. CASE Apply(h)
      BY <3>2 DEF Apply, ApplyChange, Goto, Pc, editorVars, overlapVars, tokenVars
    <3>3. CASE Reload(h)
      BY <3>3, LabelsOK DEF Reload, ResetSession, Goto, editorVars, overlapVars, sessionVars, tokenVars
    <3>4. CASE BumpEpoch(h)
      BY <3>4 DEF BumpEpoch, Goto, Pc, editorVars, overlapVars, sessionVars, tokenVars
    <3>5. CASE TokenEpoch(h)
      BY <3>5 DEF TokenEpoch, Goto, Pc, editorVars, overlapVars, sessionVars
    <3>6. CASE TokenRevision(h)
      BY <3>6, LabelsOK DEF TokenRevision, Goto, editorVars, overlapVars, sessionVars
    <3>7. CASE Snapshot(h)
      <4>1. arg' \in [Handlers -> Nat]
        BY <3>7 DEF Snapshot
      <4>a. pc' \in [Handlers -> Pc]
        BY <3>7 DEF Snapshot, Goto, Pc
      <4>2. seen' \in [Handlers -> [text : [Docs -> Nat], loaded : Nat]]
        <5>1. Content \in [text : [Docs -> Nat], loaded : Nat]
          BY DEF Content
        <5> QED
          BY <3>7, <5>1 DEF Snapshot
      <4> QED
        BY <3>7, <4>1, <4>a, <4>2 DEF Snapshot, editorVars, overlapVars, sessionVars, tokenVars
    <3>8. CASE LoadSourceRoots(h)
      BY <3>8 DEF LoadSourceRoots, Goto, Pc, editorVars, overlapVars, sessionVars, tokenVars
    <3>9. CASE RefreshRevision(h)
      BY <3>9 DEF RefreshRevision, Goto, Pc, editorVars, overlapVars, sessionVars
    <3>10. CASE CheckEpoch(h)
      BY <3>10, LabelsOK DEF CheckEpoch, Goto, Pc, editorVars, overlapVars, sessionVars, tokenVars
    <3>11. CASE CheckRevision(h)
      BY <3>11, LabelsOK DEF CheckRevision, Goto, editorVars, overlapVars, sessionVars, tokenVars
    <3>12. CASE Compile(h)
      BY <3>12 DEF Compile, Content, Goto, Pc, editorVars, overlapVars, sessionVars, tokenVars
    <3>13. CASE Publish(h)
      BY <3>13 DEF Publish, Goto, Pc, editorVars, overlapVars, sessionVars, tokenVars
    <3> QED
      BY <2>2, <3>1, <3>2, <3>3, <3>4, <3>5, <3>6, <3>7, <3>8, <3>9, <3>10, <3>11, <3>12, <3>13 DEF Step
  <2>3. CASE UNCHANGED vars
    BY <2>3 DEF vars, editorVars, overlapVars, sessionVars, tokenVars
  <2> QED
    BY <2>1, <2>2, <2>3 DEF Next
<1> QED
  BY <1>1, <1>2, PTL DEF Spec

\* The token discipline is inductive.
LEMMA TokensInductive == Spec => []SyncInv
<1>1. Init => Tokens
  BY DEF Init, Tokens, TokensBehind, SnapshotAtToken, LoadersAreNotRequests, Checking
<1>2. TypeOK /\ Tokens /\ [Next]_vars => Tokens'
  <2> SUFFICES ASSUME TypeOK, Tokens, [Next]_vars PROVE Tokens'
    OBVIOUS
  <2> USE DEF TypeOK, Tokens, TokensBehind, SnapshotAtToken, LoadersAreNotRequests
  \* A step that leaves the session and the tokens alone, and moves no
  \* request but h, which it moves out of the checks or from one to the other.
  <2>q. ASSUME NEW h \in Handlers, NEW label, UNCHANGED <<sessionVars, tokenVars, kind>>,
               \A g \in Handlers \ {h} : seen'[g] = seen[g], Goto(h, label),
               label = "refresh" => kind[h] # "request",
               label = "roots" => kind[h] # "request",
               \/ label \notin Checking
               \/ kind[h] # "request"
               \/ pc[h] \in Checking /\ seen'[h] = seen[h]
               \/ seen'[h] = Content
        PROVE Tokens'
    BY <2>q DEF Goto, sessionVars, tokenVars, Content
  <2>1. ASSUME NEW h \in Handlers, NEW k \in Kinds, NEW d \in Docs, Send(h, k, d) PROVE Tokens'
    <3>1. k \in Kind
      BY SyncAssumption
    <3>2. FirstStep[k] \notin Checking \cup {"roots", "refresh"}
      BY <3>1, LabelsOK
    <3> QED
      BY <2>1, <3>1, <3>2 DEF Send, Goto, sessionVars, tokenVars, Content
  <2>2. ASSUME NEW h \in Handlers, Step(h) PROVE Tokens'
    <3> kind[h] \in Kind /\ doc[h] \in Docs
      OBVIOUS
    <3>1. CASE Accept(h)
      BY <3>1, <2>q DEF Accept, editorVars, Checking
    <3>2. CASE Apply(h)
      <4>1. CASE text' = text
        BY <3>2, <4>1 DEF Apply, ApplyChange, Goto, Checking, Content, editorVars, tokenVars
      <4>2. CASE text' # text
        BY <3>2, <4>2 DEF Apply, ApplyChange, Goto, editorVars, tokenVars
      <4> QED
        BY <4>1, <4>2
    <3>3. CASE Reload(h)
      <4>1. CASE UNCHANGED sessionVars
        BY <3>3, <4>1, <2>q, LabelsOK DEF Reload, editorVars
      <4>2. CASE ResetSession
        <5>1. \A g \in Handlers : tokenResets'[g] # resets'
          BY <3>3, <4>2 DEF Reload, ResetSession, tokenVars
        <5>2. AfterReload[kind[h]] \notin {"roots", "refresh"}
          BY LabelsOK
        <5> QED
          BY <3>3, <5>1, <5>2 DEF Reload, Goto, editorVars
      <4> QED
        BY <3>3, <4>1, <4>2 DEF Reload
    <3>4. CASE BumpEpoch(h)
      BY <3>4, <2>q DEF BumpEpoch, editorVars, Checking
    <3>5. CASE TokenEpoch(h)
      BY <3>5 DEF TokenEpoch, Goto, Checking, Content, editorVars, sessionVars
    <3>6. CASE TokenRevision(h)
      <4>1. kind[h] = "request" => AfterToken[kind[h]] = "snapshot"
        BY LabelsOK
      <4> QED
        BY <3>6, <4>1 DEF TokenRevision, Goto, Checking, Content, editorVars, sessionVars
    <3>7. CASE Snapshot(h)
      BY <3>7, <2>q DEF Snapshot, editorVars, Checking
    <3>8. CASE LoadSourceRoots(h)
      <4>1. CASE UNCHANGED sessionVars
        BY <3>8, <4>1, <2>q DEF LoadSourceRoots, editorVars, Checking
      <4>2. CASE revision' = revision + 1
        BY <3>8, <4>2 DEF LoadSourceRoots, Goto, editorVars, sessionVars, tokenVars
      <4> QED
        BY <3>8, <4>1, <4>2 DEF LoadSourceRoots
    <3>9. CASE RefreshRevision(h)
      BY <3>9 DEF RefreshRevision, Goto, Checking, Content, editorVars, sessionVars
    <3>10. CASE CheckEpoch(h)
      BY <3>10, <2>q, LabelsOK DEF CheckEpoch, editorVars, Checking
    <3>11. CASE CheckRevision(h)
      BY <3>11, <2>q, LabelsOK DEF CheckRevision, editorVars
    <3>12. CASE Compile(h)
      BY <3>12, <2>q DEF Compile, editorVars, Checking
    <3>13. CASE Publish(h)
      BY <3>13, <2>q DEF Publish, editorVars, Checking
    <3> QED
      BY <2>2, <3>1, <3>2, <3>3, <3>4, <3>5, <3>6, <3>7, <3>8, <3>9, <3>10, <3>11, <3>12, <3>13 DEF Step
  <2>3. CASE UNCHANGED vars
    BY <2>3 DEF vars, editorVars, sessionVars, tokenVars, Content
  <2> QED
    BY <2>1, <2>2, <2>3 DEF Next
<1> QED
  BY <1>1, <1>2, TypeCorrect, PTL DEF Spec, SyncInv

\* An analysis request that passes analysis_request_is_stale in the session
\* it began in is answered from the session's current content.
THEOREM AnswersAreCurrent == Spec => AnswerIsCurrent
<1>1. SyncInv /\ [Next]_vars
        => [\A h \in Handlers :
              pc[h] # "answered" /\ pc'[h] = "answered" /\ tokenResets[h] = resets
                  => seen[h] = Content]_vars
  <2> SUFFICES ASSUME SyncInv, Next, NEW g \in Handlers, pc[g] # "answered", pc'[g] = "answered",
                     tokenResets[g] = resets
              PROVE seen[g] = Content
    OBVIOUS
  <2> TypeOK /\ SnapshotAtToken
    BY DEF SyncInv, Tokens
  <2>1. ASSUME NEW h \in Handlers, NEW k \in Kinds, NEW d \in Docs, Send(h, k, d) PROVE FALSE
    <3>1. k \in Kind /\ FirstStep[k] # "answered"
      BY SyncAssumption DEF Kind, FirstStep
    <3> QED
      BY <2>1, <3>1 DEF Send, Goto, TypeOK
  <2>2. PICK h \in Handlers : Step(h)
    BY <2>1 DEF Next
  <2>3. ASSUME NEW k \in Kind
        PROVE /\ AfterReload[k] # "answered" /\ AfterToken[k] # "answered" /\ AfterStale[k] # "answered"
              /\ AfterFresh[k] = "answered" => k = "request"
    BY DEF Kind, AfterReload, AfterToken, AfterStale, AfterFresh
  <2>4. CheckRevision(h)
    <3> kind[h] \in Kind
      BY DEF TypeOK
    <3>1. ~(Accept(h) \/ Apply(h) \/ BumpEpoch(h) \/ TokenEpoch(h) \/ Snapshot(h))
      BY DEF TypeOK, Goto, Accept, Apply, BumpEpoch, TokenEpoch, Snapshot
    <3>2. ~(LoadSourceRoots(h) \/ RefreshRevision(h) \/ Compile(h) \/ Publish(h))
      BY DEF TypeOK, Goto, LoadSourceRoots, RefreshRevision, Compile, Publish
    <3>3. ~(Reload(h) \/ TokenRevision(h))
      BY <2>3 DEF TypeOK, Goto, Reload, TokenRevision
    <3>4. ~CheckEpoch(h)
      <4>1. AfterStale[kind[h]] # "answered"
        BY <2>3
      <4> QED
        BY <4>1 DEF TypeOK, Goto, CheckEpoch
    <3> QED
      BY <2>2, <3>1, <3>2, <3>3, <3>4 DEF Step
  <2>5. g = h /\ RevisionIsCurrent(h) /\ kind[h] = "request"
    <3>1. kind[h] \in Kind /\ AfterStale[kind[h]] # "answered"
      BY <2>3 DEF TypeOK
    <3>2. g = h /\ pc'[h] = "answered"
      BY <2>4 DEF TypeOK, Goto, CheckRevision
    <3>3. RevisionIsCurrent(h) /\ AfterFresh[kind[h]] = "answered"
      <4>1. pc'[h] = IF RevisionIsCurrent(h) THEN AfterFresh[kind[h]] ELSE AfterStale[kind[h]]
        BY <2>4 DEF TypeOK, Goto, CheckRevision
      <4> QED
        BY <3>1, <3>2, <4>1
    <3> QED
      BY <2>3, <3>1, <3>2, <3>3
  <2> QED
    BY <2>4, <2>5 DEF CheckRevision, RevisionIsCurrent, SnapshotAtToken, Checking
<1> QED
  BY <1>1, TokensInductive, PTL DEF Spec, AnswerIsCurrent

-----------------------------------------------------------------------------
(* The session's text of a document whose own writers never overlap.          *)

Pending == {"accept", "apply"}

\* The running did_open, did_change and did_close of a document.
Writing(d) == {h \in Running : kind[h] \in Writers /\ doc[h] = d}

\* The text a writer leaves in the session.
Target(h) == IF kind[h] = "close" THEN 0 ELSE arg[h]

\* Only writers are on their way to the session's text.
PendingAreWriters == \A h \in Handlers : pc[h] \in Pending => kind[h] \in Writers

\* A document without overlapping writers has one at most; the one that has
\* not written yet will write the editor's text and is not refused; when
\* there is none the session has the editor's text already.
OneWriter(d) == \A g, h \in Writing(d) : g = h

WritesEditors(d) ==
    \A h \in Writing(d) :
        pc[h] \in Pending =>
            /\ Target(h) = editorText[d]
            /\ kind[h] # "close" => version[h] = editorVersion[d]
            /\ pc[h] = "accept" /\ kind[h] = "change" => AcceptsVersion(h)
            /\ pc[h] = "apply" => docVersions[d] <= editorVersion[d]

Settled(d) ==
    (\A h \in Writing(d) : pc[h] \notin Pending)
        => text[d] = editorText[d] /\ docVersions[d] <= editorVersion[d]

LoneWriters ==
    /\ PendingAreWriters
    /\ \A d \in Docs \ crossed : OneWriter(d) /\ WritesEditors(d) /\ Settled(d)

\* The tables send no handler back to its document's version, and only an
\* open, a change or a close starts there.
LEMMA PendingLabels ==
    ASSUME NEW k \in Kind
    PROVE /\ FirstStep[k] \notin {"apply", "idle", "answered", "done"}
          /\ FirstStep[k] = "accept" <=> k \in Writers
          /\ {AfterReload[k], AfterToken[k], AfterStale[k], AfterFresh[k]} \cap Pending = {}
  BY DEF Kind, FirstStep, AfterReload, AfterToken, AfterStale, AfterFresh, Pending, Writers

\* A step of a handler that is not on its way to the session's text and
\* changes neither the text nor the versions.
LEMMA QuietStep ==
    ASSUME TypeOK, LoneWriters, NEW h \in Handlers, NEW label,
           UNCHANGED <<editorVars, text, docVersions, crossed>>, Goto(h, label),
           \A g \in Handlers \ {h} : arg'[g] = arg[g],
           pc[h] \notin Pending \cup {"idle", "answered", "done"}, label \notin Pending
    PROVE LoneWriters'
<1>1. /\ \A g \in Handlers \ {h} : pc'[g] = pc[g]
      /\ pc'[h] = label
  BY DEF Goto, TypeOK
<1>2. PendingAreWriters'
  BY <1>1 DEF LoneWriters, PendingAreWriters, editorVars
<1>3. ASSUME NEW d \in Docs \ crossed PROVE (OneWriter(d) /\ WritesEditors(d) /\ Settled(d))'
  <2>1. Writing(d)' \subseteq Writing(d)
    BY <1>1 DEF Writing, Running, Pending, editorVars
  <2>2. OneWriter(d)'
    BY <2>1 DEF LoneWriters, OneWriter
  <2>3. ASSUME NEW g \in Writing(d)', pc'[g] \in Pending
        PROVE g # h /\ g \in Writing(d) /\ pc[g] \in Pending /\ arg'[g] = arg[g] /\ pc'[g] = pc[g]
    BY <1>1, <2>1, <2>3 DEF Writing, Running
  <2>4. WritesEditors(d)'
    BY <2>3 DEF LoneWriters, WritesEditors, Target, AcceptsVersion, editorVars
  <2>5. Settled(d)'
    <3> SUFFICES ASSUME \A g \in Writing(d)' : pc'[g] \notin Pending
                 PROVE (text[d] = editorText[d] /\ docVersions[d] <= editorVersion[d])'
      BY DEF Settled
    <3>1. \A g \in Writing(d) : pc[g] \notin Pending
      BY <1>1 DEF Writing, Running, Pending, editorVars
    <3> QED
      BY <3>1 DEF LoneWriters, Settled, editorVars
  <2> QED
    BY <2>2, <2>4, <2>5
<1> QED
  BY <1>2, <1>3 DEF LoneWriters

LEMMA LoneWritersInductive == Spec => [](TypeOK /\ LoneWriters)
<1>1. Init => LoneWriters
  <2> SUFFICES ASSUME Init PROVE LoneWriters
    OBVIOUS
  <2>1. Running = {} /\ PendingAreWriters
    BY DEF Init, Running, PendingAreWriters, Pending
  <2> QED
    BY <2>1 DEF Init, LoneWriters, OneWriter, WritesEditors, Settled, Writing
<1>2. TypeOK /\ LoneWriters /\ [Next]_vars => LoneWriters'
  <2> SUFFICES ASSUME TypeOK, LoneWriters, [Next]_vars PROVE LoneWriters'
    OBVIOUS
  <2> USE DEF Pending
  <2>1. ASSUME NEW h \in Handlers, NEW k \in Kinds, NEW d \in Docs, Send(h, k, d)
        PROVE LoneWriters'
    <3>1. k \in Kind
      BY SyncAssumption
    <3>2. /\ pc' = [pc EXCEPT ![h] = FirstStep[k]] /\ kind' = [kind EXCEPT ![h] = k]
          /\ doc' = [doc EXCEPT ![h] = d] /\ arg' = [arg EXCEPT ![h] = sent + 1]
          /\ UNCHANGED <<text, docVersions>> /\ h \notin Running
      BY <2>1 DEF Send, Goto, sessionVars
    <3>3. PendingAreWriters'
      BY <3>1, <3>2, PendingLabels DEF TypeOK, LoneWriters, PendingAreWriters
    <3>4. ASSUME NEW e \in Docs \ crossed'
          PROVE (OneWriter(e) /\ WritesEditors(e) /\ Settled(e))'
      <4>1. e \in Docs \ crossed
        BY <2>1, <3>4 DEF Send
      <4>2. \A g \in Handlers \ {h} : /\ pc'[g] = pc[g] /\ kind'[g] = kind[g] /\ doc'[g] = doc[g]
                                      /\ arg'[g] = arg[g] /\ version'[g] = version[g]
        BY <2>1, <3>2 DEF Send, TypeOK
      <4>3. CASE k \notin Writers \/ e # d
        <5>1. Writing(e)' = Writing(e)
          BY <3>2, <4>2, <4>3 DEF Writing, Running, TypeOK
        <5>2. h \notin Writing(e)
          BY <3>2 DEF Writing
        <5>3. editorText'[e] = editorText[e]
          BY <2>1, <4>1, <4>3 DEF Send, TypeOK
        <5>4. editorVersion'[e] = editorVersion[e]
          BY <2>1, <4>1, <4>3 DEF Send, TypeOK, Writers
        <5>5. \A g \in Writing(e) : g \in Handlers \ {h} /\ doc[g] = e
          BY <5>2 DEF Writing, Running
        <5>6. OneWriter(e)'
          BY <4>1, <5>1 DEF LoneWriters, OneWriter
        <5>7. WritesEditors(e)'
          BY <3>2, <4>1, <4>2, <5>1, <5>3, <5>4, <5>5
             DEF LoneWriters, WritesEditors, Target, AcceptsVersion
        <5>8. Settled(e)'
          BY <3>2, <4>1, <4>2, <5>1, <5>3, <5>4, <5>5 DEF LoneWriters, Settled
        <5> QED
          BY <5>6, <5>7, <5>8
      <4>4. CASE k \in Writers /\ e = d
        <5>1. Writing(e) = {}
          BY <2>1, <4>4, <3>4 DEF Send, Writing
        <5>2. Writing(e)' = {h}
          <6>1. FirstStep[k] = "accept"
            BY <3>1, <4>4, PendingLabels
          <6> QED
            BY <3>2, <4>2, <4>4, <5>1, <6>1 DEF Writing, Running, TypeOK
        <5>3. text[e] = editorText[e] /\ docVersions[e] <= editorVersion[e]
          BY <4>1, <5>1 DEF LoneWriters, Settled
        <5>4. pc'[h] = "accept"
          BY <3>1, <3>2, <4>4, PendingLabels DEF TypeOK
        <5>5. kind'[h] = k /\ doc'[h] = e /\ arg'[h] = sent + 1
          BY <3>2, <4>4 DEF TypeOK
        <5>6. editorText'[e] = IF k = "close" THEN 0 ELSE sent + 1
          BY <2>1, <4>1, <4>4 DEF Send, TypeOK
        <5>7. version'[h] = IF k = "open" THEN 1 ELSE editorVersion[d] + 1
          BY <2>1 DEF Send, TypeOK
        <5>8. k # "close" => editorVersion'[e] = version'[h]
          BY <2>1, <4>4, <5>7 DEF Send, TypeOK, Writers
        <5>9. k = "change" => (docVersions[e] = 0 \/ version'[h] > docVersions[e])
          BY <4>4, <5>3, <5>7 DEF TypeOK
        <5>10. WritesEditors(e)'
          BY <3>2, <5>2, <5>4, <5>5, <5>6, <5>8, <5>9 DEF WritesEditors, Target, AcceptsVersion
        <5>11. OneWriter(e)' /\ Settled(e)'
          BY <5>2, <5>4 DEF OneWriter, Settled
        <5> QED
          BY <5>10, <5>11
      <4> QED
        BY <4>3, <4>4
    <3> QED
      BY <3>3, <3>4 DEF LoneWriters
  <2>2. ASSUME NEW h \in Handlers, Step(h) PROVE LoneWriters'
    <3> kind[h] \in Kind /\ doc[h] \in Docs
      BY DEF TypeOK
    <3>1. CASE Accept(h)
      <4>1. /\ UNCHANGED <<editorVars, text, arg, crossed>> /\ pc[h] = "accept"
            /\ \A g \in Handlers \ {h} : pc'[g] = pc[g]
            /\ \A e \in Docs : e # doc[h] => docVersions'[e] = docVersions[e]
        BY <3>1 DEF Accept, Goto, TypeOK, sessionVars, overlapVars
      <4>2. kind[h] \in Writers
        BY <4>1 DEF LoneWriters, PendingAreWriters
      <4>3. PendingAreWriters'
        BY <4>1, <4>2 DEF LoneWriters, PendingAreWriters, editorVars
      <4>4. ASSUME NEW e \in Docs \ crossed
            PROVE (OneWriter(e) /\ WritesEditors(e) /\ Settled(e))'
        <5>1. Writing(e)' \subseteq Writing(e)
          BY <4>1 DEF Writing, Running, editorVars
        <5>2. OneWriter(e)'
          BY <4>4, <5>1 DEF LoneWriters, OneWriter
        <5>3. CASE e # doc[h]
          <6>1. h \notin Writing(e) /\ h \notin Writing(e)' /\ docVersions'[e] = docVersions[e]
            BY <4>1, <5>1, <5>3 DEF Writing
          <6>2. \A g \in Writing(e) : g \in Handlers \ {h} /\ doc[g] = e
            BY <6>1 DEF Writing, Running
          <6>3. WritesEditors(e)'
            BY <4>1, <4>4, <5>1, <6>1, <6>2
               DEF LoneWriters, WritesEditors, Target, AcceptsVersion, editorVars
          <6>4. Settled(e)'
            <7>1. Writing(e)' = Writing(e)
              BY <4>1, <6>1 DEF Writing, Running, editorVars
            <7> QED
              BY <4>1, <4>4, <6>1, <6>2, <7>1 DEF LoneWriters, Settled, editorVars
          <6> QED
            BY <5>2, <6>3, <6>4
        <5>4. CASE e = doc[h]
          <6>1. h \in Writing(e)
            BY <4>1, <4>2, <5>4 DEF Writing, Running
          <6>2. Writing(e) = {h}
            BY <4>4, <6>1 DEF LoneWriters, OneWriter
          <6>3. /\ Target(h) = editorText[e]
                /\ kind[h] # "close" => version[h] = editorVersion[e]
                /\ kind[h] = "change" => AcceptsVersion(h)
            BY <4>1, <4>4, <6>1 DEF LoneWriters, WritesEditors
          <6>4. pc'[h] = "apply" /\ docVersions'[e] = IF kind[h] = "close" THEN 0 ELSE version[h]
            <7>1. docVersions' = [docVersions EXCEPT ![doc[h]] = IF kind[h] = "close" THEN 0 ELSE version[h]]
              BY <3>1, <6>3 DEF Accept
            <7>2. pc' = [pc EXCEPT ![h] = "apply"]
              BY <3>1, <6>3 DEF Accept, Goto
            <7> QED
              BY <5>4, <7>1, <7>2 DEF TypeOK
          <6>5. h \in Writing(e)' /\ Writing(e)' = {h}
            BY <4>1, <4>2, <5>1, <5>4, <6>2, <6>4 DEF Writing, Running, editorVars
          <6>6. docVersions'[e] <= editorVersion[e]
            BY <4>4, <6>3, <6>4 DEF TypeOK
          <6>7. WritesEditors(e)'
            BY <4>1, <6>3, <6>4, <6>5, <6>6 DEF WritesEditors, Target, editorVars
          <6>8. Settled(e)'
            BY <6>4, <6>5 DEF Settled
          <6> QED
            BY <5>2, <6>7, <6>8
        <5> QED
          BY <5>3, <5>4
      <4> QED
        BY <4>1, <4>3, <4>4 DEF LoneWriters
    <3>2. CASE Apply(h)
      <4>1. /\ UNCHANGED <<editorVars, docVersions, arg, crossed>> /\ pc[h] = "apply"
            /\ pc'[h] = "reload" /\ \A g \in Handlers \ {h} : pc'[g] = pc[g]
            /\ text' = [text EXCEPT ![doc[h]] = Target(h)]
        BY <3>2 DEF Apply, ApplyChange, Goto, TypeOK, Target, overlapVars
      <4>2. kind[h] \in Writers
        BY <4>1 DEF LoneWriters, PendingAreWriters
      <4>3. PendingAreWriters'
        BY <4>1 DEF LoneWriters, PendingAreWriters, editorVars
      <4>4. ASSUME NEW e \in Docs \ crossed
            PROVE (OneWriter(e) /\ WritesEditors(e) /\ Settled(e))'
        <5>1. Writing(e)' = Writing(e)
          BY <4>1 DEF Writing, Running, editorVars
        <5>2. OneWriter(e)'
          BY <4>4, <5>1 DEF LoneWriters, OneWriter
        <5>3. CASE e # doc[h]
          <6>1. h \notin Writing(e) /\ text'[e] = text[e]
            BY <4>1, <5>3 DEF Writing, TypeOK
          <6>2. \A g \in Writing(e) : g \in Handlers \ {h} /\ pc'[g] = pc[g]
            BY <4>1, <6>1 DEF Writing, Running
          <6>3. WritesEditors(e)'
            BY <4>1, <4>4, <5>1, <6>2 DEF LoneWriters, WritesEditors, Target, AcceptsVersion, editorVars
          <6>4. Settled(e)'
            BY <4>1, <4>4, <5>1, <6>1, <6>2 DEF LoneWriters, Settled, editorVars
          <6> QED
            BY <5>2, <6>3, <6>4
        <5>4. CASE e = doc[h]
          <6>1. h \in Writing(e)
            BY <4>1, <4>2, <5>4 DEF Writing, Running
          <6>2. Writing(e) = {h}
            BY <4>4, <6>1 DEF LoneWriters, OneWriter
          <6>3. Target(h) = editorText[e] /\ docVersions[e] <= editorVersion[e]
            BY <4>1, <4>4, <6>1 DEF LoneWriters, WritesEditors
          <6>4. text'[e] = editorText[e]
            BY <4>1, <5>4, <6>3 DEF TypeOK
          <6> QED
            BY <4>1, <5>1, <5>2, <6>2, <6>3, <6>4 DEF WritesEditors, Settled, editorVars
        <5> QED
          BY <5>3, <5>4
      <4> QED
        BY <4>1, <4>3, <4>4 DEF LoneWriters
    <3>3. CASE Reload(h)
      BY <3>3, QuietStep, PendingLabels DEF Reload, ResetSession, sessionVars, overlapVars
    <3>4. CASE BumpEpoch(h)
      BY <3>4, QuietStep DEF BumpEpoch, sessionVars, overlapVars
    <3>5. CASE TokenEpoch(h)
      BY <3>5, QuietStep DEF TokenEpoch, sessionVars, overlapVars
    <3>6. CASE TokenRevision(h)
      BY <3>6, QuietStep, PendingLabels DEF TokenRevision, sessionVars, overlapVars
    <3>7. CASE Snapshot(h)
      <4>1. PICK label \in Pc \ Pending : Goto(h, label)
        BY <3>7 DEF Snapshot, Pc
      <4>2. \A g \in Handlers \ {h} : arg'[g] = arg[g]
        BY <3>7 DEF Snapshot, TypeOK
      <4> QED
        BY <3>7, <4>1, <4>2, QuietStep DEF Snapshot, sessionVars, overlapVars
    <3>8. CASE LoadSourceRoots(h)
      BY <3>8, QuietStep DEF LoadSourceRoots, sessionVars, overlapVars
    <3>9. CASE RefreshRevision(h)
      BY <3>9, QuietStep DEF RefreshRevision, sessionVars, overlapVars
    <3>10. CASE CheckEpoch(h)
      BY <3>10, QuietStep, PendingLabels DEF CheckEpoch, sessionVars, overlapVars
    <3>11. CASE CheckRevision(h)
      BY <3>11, QuietStep, PendingLabels DEF CheckRevision, sessionVars, overlapVars
    <3>12. CASE Compile(h)
      BY <3>12, QuietStep DEF Compile, sessionVars, overlapVars
    <3>13. CASE Publish(h)
      BY <3>13, QuietStep DEF Publish, sessionVars, overlapVars
    <3> QED
      BY <2>2, <3>1, <3>2, <3>3, <3>4, <3>5, <3>6, <3>7, <3>8, <3>9, <3>10, <3>11, <3>12, <3>13 DEF Step
  <2>3. CASE UNCHANGED vars
    BY <2>3 DEF vars, editorVars, sessionVars, overlapVars, LoneWriters, PendingAreWriters,
                OneWriter, WritesEditors, Settled, Writing, Running, Target, AcceptsVersion
  <2> QED
    BY <2>1, <2>2, <2>3 DEF Next
<1> QED
  BY <1>1, <1>2, TypeCorrect, PTL DEF Spec

\* When every handler has returned, the session's text of every document whose
\* own writers never overlapped is the editor's, for any number of documents,
\* handlers, messages and reloads.
THEOREM TextsAreEditors == Spec => []QuiescentTextIsEditors
<1>1. TypeOK /\ LoneWriters => QuiescentTextIsEditors
  BY DEF LoneWriters, Settled, Writing, QuiescentTextIsEditors, Quiescent
<1> QED
  BY <1>1, LoneWritersInductive, PTL
-----------------------------------------------------------------------------
(* The diagnostics on display, as long as no two handlers run together.      *)

\* The client shows the session's text of d, and the next version is newer.
Displayed(d) ==
    editorText[d] # 0 => /\ text[d] = editorText[d] /\ shown[d] = editorText[d]
                         /\ docVersions[d] <= editorVersion[d]

Publishing == {"roots", "refresh", "checkEpoch", "checkRevision", "compile", "publish"}

TurnSteps ==
    [open |-> {"accept", "apply", "reload", "bump", "tokenEpoch", "tokenRevision"} \union Publishing,
     change |-> {"accept", "apply", "reload", "tokenEpoch", "tokenRevision", "checkEpoch", "checkRevision",
                 "publish", "bump"},
     close |-> {"accept", "apply", "reload", "bump"},
     save |-> {"snapshot", "tokenEpoch", "tokenRevision"} \union Publishing,
     config |-> {"reload"},
     request |-> {"tokenEpoch", "tokenRevision", "snapshot", "checkEpoch", "checkRevision"}]

\* What an open or a change has done so far.
EditTurn(h) ==
    LET d == doc[h]
    IN /\ arg[h] = editorText[d] /\ version[h] = editorVersion[d]
       /\ pc[h] = "accept" /\ kind[h] = "change" => docVersions[d] < version[h]
       /\ pc[h] # "accept" => docVersions[d] = version[h]
       /\ pc[h] \notin {"accept", "apply"} => text[d] = arg[h]
       /\ pc[h] = "bump" /\ kind[h] = "change" => shown[d] = arg[h]

\* A token that goes stale only by the steps of others stays fresh.
FreshToken(h) ==
    /\ pc[h] \in {"tokenRevision", "roots", "refresh", "checkEpoch", "checkRevision"} =>
         tokenEpoch[h] = mutationEpoch
    /\ pc[h] \in Checking => tokenRevision[h] = revision

\* A handler that runs alone.
Turn(h) ==
    /\ pc[h] \in TurnSteps[kind[h]]
    /\ kind[h] \in {"open", "change"} => EditTurn(h)
    /\ kind[h] = "close" => editorText[doc[h]] = 0
    /\ kind[h] \in {"save", "config", "request"} => Displayed(doc[h])
    /\ kind[h] = "save" => /\ editorText[doc[h]] # 0
                           /\ pc[h] # "snapshot" => arg[h] = editorText[doc[h]]
    /\ kind[h] \in {"open", "change", "save"} => FreshToken(h)

TurnsAlone ==
    alone => /\ \A g, h \in Running : g = h
             /\ \A d \in Docs : (\A h \in Running : doc[h] # d) => Displayed(d)
             /\ \A h \in Running : Turn(h)

Ended == {"idle", "answered", "done"}

LEMMA TurnsTypes ==
    ASSUME TypeOK, NEW h \in Handlers
    PROVE  /\ kind[h] \in Kind /\ doc[h] \in Docs /\ arg[h] \in Nat /\ version[h] \in Nat
           /\ editorText \in [Docs -> Nat] /\ editorVersion \in [Docs -> Nat] /\ text \in [Docs -> Nat]
           /\ docVersions \in [Docs -> Nat] /\ shown \in [Docs -> Nat]
           /\ pc \in [Handlers -> Pc] /\ arg \in [Handlers -> Nat] /\ version \in [Handlers -> Nat]
           /\ tokenEpoch \in [Handlers -> Nat] /\ tokenRevision \in [Handlers -> Nat]
           /\ kind \in [Handlers -> Kind] /\ doc \in [Handlers -> Docs]
  BY DEF TypeOK

\* The one handler that runs takes a step: the rest is as it was.
LEMMA TurnMoves ==
    ASSUME TypeOK, TurnsAlone, NEW h \in Handlers, pc[h] \notin Ended, NEW label, Goto(h, label),
           UNCHANGED <<editorVars, alone>>,
           \A d \in Docs \ {doc[h]} : /\ text'[d] = text[d] /\ shown'[d] = shown[d]
                                      /\ docVersions'[d] = docVersions[d],
           alone /\ Turn(h) => IF label \in Ended THEN Displayed(doc[h])' ELSE Turn(h)'
    PROVE  TurnsAlone'
<1> SUFFICES ASSUME alone
             PROVE  /\ \A f, g \in Running' : f = g
                    /\ \A d \in Docs : (\A g \in Running' : doc[g] # d) => Displayed(d)'
                    /\ \A g \in Running' : Turn(g)'
  BY DEF TurnsAlone, editorVars
<1>1. Running = {h} /\ Turn(h)
  BY DEF TurnsAlone, Running, Ended
<1>2. pc'[h] = label /\ \A g \in Handlers \ {h} : pc'[g] = pc[g]
  BY TurnsTypes DEF Goto
<1>3. Running' = IF label \in Ended THEN {} ELSE {h}
  BY <1>1, <1>2 DEF Running, Ended
<1>4. \A d \in Docs \ {doc[h]} : Displayed(d)'
  BY <1>1 DEF TurnsAlone, Displayed, editorVars
<1>5. label \in Ended => \A d \in Docs : d = doc[h] => Displayed(d)'
  BY <1>1 DEF Displayed, editorVars
<1> QED
  BY <1>1, <1>3, <1>4, <1>5

\* Step by step: a handler that runs alone stays on its way, or has shown its
\* document's diagnostics when it ends.
LEMMA AcceptTurn ==
    ASSUME TypeOK, NEW h \in Handlers, Accept(h), Turn(h)
    PROVE  IF pc'[h] \in Ended THEN Displayed(doc[h])' ELSE Turn(h)'
  BY TurnsTypes DEF Accept, AcceptsVersion, Goto, Turn, EditTurn, FreshToken, Displayed, TurnSteps,
     Publishing, Checking, Ended, Kind, Pc, editorVars, sessionVars, tokenVars

LEMMA ApplyTurn ==
    ASSUME TypeOK, NEW h \in Handlers, Apply(h), Turn(h)
    PROVE  IF pc'[h] \in Ended THEN Displayed(doc[h])' ELSE Turn(h)'
  BY TurnsTypes DEF Apply, ApplyChange, Goto, Turn, EditTurn, FreshToken, Displayed, TurnSteps,
     Publishing, Checking, Ended, Kind, Pc, editorVars, sessionVars, tokenVars

LEMMA ReloadTurn ==
    ASSUME TypeOK, NEW h \in Handlers, Reload(h), Turn(h)
    PROVE  IF pc'[h] \in Ended THEN Displayed(doc[h])' ELSE Turn(h)'
  BY TurnsTypes DEF Reload, ResetSession, AfterReload, Goto, Turn, EditTurn, FreshToken, Displayed,
     TurnSteps, Publishing, Checking, Ended, Kind, Pc, editorVars, sessionVars, tokenVars

LEMMA BumpEpochTurn ==
    ASSUME TypeOK, NEW h \in Handlers, BumpEpoch(h), Turn(h)
    PROVE  IF pc'[h] \in Ended THEN Displayed(doc[h])' ELSE Turn(h)'
  BY TurnsTypes DEF BumpEpoch, Goto, Turn, EditTurn, FreshToken, Displayed, TurnSteps, Publishing,
     Checking, Ended, Kind, Pc, editorVars, sessionVars, tokenVars

LEMMA TokenEpochTurn ==
    ASSUME TypeOK, NEW h \in Handlers, TokenEpoch(h), Turn(h)
    PROVE  IF pc'[h] \in Ended THEN Displayed(doc[h])' ELSE Turn(h)'
  BY TurnsTypes DEF TokenEpoch, Goto, Turn, EditTurn, FreshToken, Displayed, TurnSteps, Publishing,
     Checking, Ended, Kind, Pc, editorVars, sessionVars, tokenVars

LEMMA TokenRevisionTurn ==
    ASSUME TypeOK, NEW h \in Handlers, TokenRevision(h), Turn(h)
    PROVE  IF pc'[h] \in Ended THEN Displayed(doc[h])' ELSE Turn(h)'
  BY TurnsTypes DEF TokenRevision, AfterToken, Goto, Turn, EditTurn, FreshToken, Displayed,
     TurnSteps, Publishing, Checking, Ended, Kind, Pc, editorVars, sessionVars, tokenVars

LEMMA SnapshotTurn ==
    ASSUME TypeOK, NEW h \in Handlers, Snapshot(h), Turn(h)
    PROVE  IF pc'[h] \in Ended THEN Displayed(doc[h])' ELSE Turn(h)'
  BY TurnsTypes DEF Snapshot, Goto, Turn, EditTurn, FreshToken, Displayed, TurnSteps, Publishing,
     Checking, Ended, Kind, Pc, editorVars, sessionVars, tokenVars

LEMMA LoadSourceRootsTurn ==
    ASSUME TypeOK, NEW h \in Handlers, LoadSourceRoots(h), Turn(h)
    PROVE  IF pc'[h] \in Ended THEN Displayed(doc[h])' ELSE Turn(h)'
  BY TurnsTypes DEF LoadSourceRoots, Goto, Turn, EditTurn, FreshToken, Displayed, TurnSteps,
     Publishing, Checking, Ended, Kind, Pc, editorVars, sessionVars, tokenVars

LEMMA RefreshRevisionTurn ==
    ASSUME TypeOK, NEW h \in Handlers, RefreshRevision(h), Turn(h)
    PROVE  IF pc'[h] \in Ended THEN Displayed(doc[h])' ELSE Turn(h)'
  BY TurnsTypes DEF RefreshRevision, Goto, Turn, EditTurn, FreshToken, Displayed, TurnSteps,
     Publishing, Checking, Ended, Kind, Pc, editorVars, sessionVars, tokenVars

LEMMA CheckEpochTurn ==
    ASSUME TypeOK, NEW h \in Handlers, CheckEpoch(h), Turn(h)
    PROVE  IF pc'[h] \in Ended THEN Displayed(doc[h])' ELSE Turn(h)'
  BY TurnsTypes DEF CheckEpoch, AfterStale, Goto, Turn, EditTurn, FreshToken, Displayed, TurnSteps,
     Publishing, Checking, Ended, Kind, Pc, editorVars, sessionVars, tokenVars

LEMMA CheckRevisionTurn ==
    ASSUME TypeOK, NEW h \in Handlers, CheckRevision(h), Turn(h)
    PROVE  IF pc'[h] \in Ended THEN Displayed(doc[h])' ELSE Turn(h)'
  BY TurnsTypes DEF CheckRevision, RevisionIsCurrent, AfterFresh, AfterStale, Goto, Turn, EditTurn,
     FreshToken, Displayed, TurnSteps, Publishing, Checking, Ended, Kind, Pc, editorVars,
     sessionVars, tokenVars

LEMMA CompileTurn ==
    ASSUME TypeOK, NEW h \in Handlers, Compile(h), Turn(h)
    PROVE  IF pc'[h] \in Ended THEN Displayed(doc[h])' ELSE Turn(h)'
  BY TurnsTypes DEF Compile, Goto, Turn, EditTurn, FreshToken, Displayed, TurnSteps, Publishing,
     Checking, Ended, Kind, Pc, editorVars, sessionVars, tokenVars

LEMMA PublishTurn ==
    ASSUME TypeOK, NEW h \in Handlers, Publish(h), Turn(h)
    PROVE  IF pc'[h] \in Ended THEN Displayed(doc[h])' ELSE Turn(h)'
  BY TurnsTypes DEF Publish, Goto, Turn, EditTurn, FreshToken, Displayed, TurnSteps, Publishing,
     Checking, Ended, Kind, Pc, editorVars, sessionVars, tokenVars

\* The editor sends a message while no handler runs.
LEMMA SendTurn ==
    ASSUME TypeOK, TurnsAlone, NEW h \in Handlers, NEW k \in Kinds, NEW d \in Docs, Send(h, k, d)
    PROVE  TurnsAlone'
<1> SUFFICES ASSUME alone, Running = {}
             PROVE  /\ \A f, g \in Running' : f = g
                    /\ \A c \in Docs : (\A g \in Running' : doc'[g] # c) => Displayed(c)'
                    /\ \A g \in Running' : Turn(g)'
  BY DEF Send, TurnsAlone
<1>1. \A c \in Docs : Displayed(c)
  BY DEF TurnsAlone
<1>2. k \in Kind /\ sent + 1 \in Nat \ {0}
  BY SyncAssumption DEF TypeOK
<1>3. /\ kind'[h] = k /\ doc'[h] = d /\ arg'[h] = sent + 1 /\ pc'[h] = FirstStep[k]
      /\ \A g \in Handlers \ {h} : pc'[g] = pc[g]
  BY TurnsTypes DEF Send, Goto
<1>4. Running' \subseteq {h}
  BY <1>3 DEF Running
<1>5. Running' = {h}
  BY <1>2, <1>3, <1>4 DEF Running, Kind, FirstStep
<1>6. \A c \in Docs \ {d} : Displayed(c)'
  BY <1>1, TurnsTypes DEF Send, Displayed, sessionVars
<1>7. Turn(h)'
  <2>1. /\ version'[h] = IF k = "open" THEN 1 ELSE editorVersion[d] + 1
        /\ editorVersion'[d] = IF k \in {"open", "change"} THEN version'[h] ELSE editorVersion[d]
        /\ editorText'[d] = IF k \in {"open", "change"} THEN sent + 1
                            ELSE IF k = "close" THEN 0 ELSE editorText[d]
        /\ docVersions' = docVersions /\ text' = text /\ shown' = shown
        /\ k \in {"change", "close", "save", "request"} => editorText[d] # 0
    BY <1>2, TurnsTypes DEF Send, Writers, Kind, sessionVars
  <2>2. FirstStep[k] \in TurnSteps[k] /\ (k \in {"open", "change", "close"} <=> FirstStep[k] = "accept")
        /\ (k = "save" => FirstStep[k] = "snapshot")
    BY <1>2 DEF FirstStep, TurnSteps, Kind
  <2>3. k \in {"open", "change"} => EditTurn(h)'
    BY <1>1, <1>3, <2>1, <2>2, TurnsTypes DEF EditTurn, Displayed
  <2>4. k \in {"save", "config", "request"} => Displayed(d)'
    BY <1>1, <2>1 DEF Displayed
  <2>5. k \in {"open", "change", "save"} => FreshToken(h)'
    BY <1>2, <1>3 DEF FreshToken, Checking, FirstStep, Kind
  <2> QED
    BY <1>3, <2>1, <2>2, <2>3, <2>4, <2>5 DEF Turn, Displayed
<1> QED
  BY <1>3, <1>5, <1>6, <1>7

LEMMA StepTurn ==
    ASSUME TypeOK, TurnsAlone, NEW h \in Handlers, Step(h)
    PROVE  TurnsAlone'
<1>1. pc[h] \notin Ended
  BY DEF Step, Ended, Accept, Apply, Reload, BumpEpoch, TokenEpoch, TokenRevision, Snapshot, LoadSourceRoots,
         RefreshRevision, CheckEpoch, CheckRevision, Compile, Publish
<1>2. \E label : Goto(h, label)
  BY DEF Step, Accept, Apply, Reload, BumpEpoch, TokenEpoch, TokenRevision, Snapshot, LoadSourceRoots,
         RefreshRevision, CheckEpoch, CheckRevision, Compile, Publish
<1>3. UNCHANGED <<editorVars, alone>>
  BY DEF Step, Accept, Apply, Reload, BumpEpoch, TokenEpoch, TokenRevision, Snapshot, LoadSourceRoots,
         RefreshRevision, CheckEpoch, CheckRevision, Compile, Publish, overlapVars
<1>4. \A d \in Docs \ {doc[h]} : text'[d] = text[d] /\ shown'[d] = shown[d] /\ docVersions'[d] = docVersions[d]
  BY TurnsTypes DEF Step, Accept, Apply, ApplyChange, Reload, ResetSession, BumpEpoch, TokenEpoch, TokenRevision,
         Snapshot, LoadSourceRoots, RefreshRevision, CheckEpoch, CheckRevision, Compile, Publish, sessionVars
<1>5. Turn(h) => IF pc'[h] \in Ended THEN Displayed(doc[h])' ELSE Turn(h)'
  BY AcceptTurn, ApplyTurn, ReloadTurn, BumpEpochTurn, TokenEpochTurn, TokenRevisionTurn, SnapshotTurn,
     LoadSourceRootsTurn, RefreshRevisionTurn, CheckEpochTurn, CheckRevisionTurn, CompileTurn, PublishTurn DEF Step
<1>6. PICK label : Goto(h, label)
  BY <1>2
<1>7. pc'[h] = label
  BY <1>6, TurnsTypes DEF Goto
<1> QED
  BY <1>1, <1>3, <1>4, <1>5, <1>6, <1>7, TurnMoves

\* When every handler has returned and no two ever ran together, the client
\* shows the diagnostics of the editor's text: publish_diagnostics does not take
\* the source-root loads and the epoch bumps of its own handler for another's,
\* whatever the order of opens, changes, closes, saves and resets.
THEOREM DiagnosticsAreEditors == Spec => []QuiescentDiagnosticsAreEditors
<1>1. Init => TurnsAlone
  BY DEF Init, TurnsAlone, Running, Displayed
<1>2. TypeOK /\ TurnsAlone /\ [Next]_vars => TurnsAlone'
  <2> SUFFICES ASSUME TypeOK, TurnsAlone, [Next]_vars PROVE TurnsAlone'
    OBVIOUS
  <2>1. CASE UNCHANGED vars
    BY <2>1 DEF vars, editorVars, sessionVars, tokenVars, overlapVars, TurnsAlone, Running, Displayed, Turn,
                EditTurn, FreshToken
  <2> QED
    BY <2>1, SendTurn, StepTurn DEF Next
<1>3. TurnsAlone => QuiescentDiagnosticsAreEditors
  BY DEF TurnsAlone, Displayed, QuiescentDiagnosticsAreEditors, Quiescent
<1> QED
  BY <1>1, <1>2, <1>3, TypeCorrect, PTL DEF Spec

=============================================================================
