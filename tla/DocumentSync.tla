----------------------------- MODULE DocumentSync -----------------------------
(***************************************************************************)
(* The editor's documents and the language server's copy of them: did_open, *)
(* did_change, did_close, did_save and the read-only analysis requests.     *)
(*                                                                          *)
(* tower-lsp starts the handlers in the order the messages arrive and runs  *)
(* as many at once as there are Handlers; every await (a lock, a lane, a    *)
(* prewarm, the client's channel) is a point where the others may go on, so *)
(* a handler is a sequence of atomic steps between two awaits.  A handler   *)
(* remembers an AnalysisRequestToken (mutation epoch and session revision)  *)
(* and drops its result when either has moved.                              *)
(*                                                                          *)
(* Source-root loading and the read prewarm have modules of their own; here *)
(* they appear as a step that may change the session and as a delay.        *)
(***************************************************************************)
EXTENDS Naturals

CONSTANTS
    Docs,            \* document URIs
    Handlers,        \* the places of handlers that run at the same time
    MaxMessages,     \* bound on the messages the editor sends
    MaxLoads,        \* bound on the source-root loads
    Kinds,           \* the kinds of message the editor sends
    ResetAllowed     \* may the configuration change, so that a reload resets?

Kind == {"open", "change", "close", "save", "config", "request"}

ASSUME SyncAssumption ==
    /\ MaxMessages \in Nat
    /\ MaxLoads \in Nat
    /\ Kinds \subseteq Kind
    /\ ResetAllowed \in BOOLEAN

VARIABLES
    sent,            \* messages sent; the next one is sent + 1
    editorText,      \* the text in the editor: the message that set it, 0 if closed
    editorVersion,   \* the version the editor gave that text
    docVersions,     \* document_versions, 0 where there is no entry
    text,            \* the session's text, 0 where the session has no document
    loaded,          \* source-root loads the session's documents include
    revision,        \* Session::revision
    mutationEpoch,   \* completion_mutation_epoch
    shown,           \* the text whose diagnostics the client shows, 0 for none
    kind,            \* per handler: what its message is,
    doc,             \*   which document it is about,
    version,         \*   the version it carries,
    pc,              \*   where the handler is,
    arg,             \*   the text it analyses,
    seen,            \*   the session content of its snapshot,
    tokenEpoch,      \*   and its AnalysisRequestToken
    tokenRevision,
    resets,          \* history: the sessions reset_to_open_documents has replaced,
    tokenResets,     \*   and how many of them a message's token has seen
    alone,           \* history: no two handlers have run at the same time
    crossed          \* history: documents two writers of which have overlapped

editorVars == <<sent, editorText, editorVersion, kind, doc, version>>
sessionVars == <<text, loaded, revision, resets>>
tokenVars == <<tokenEpoch, tokenRevision, tokenResets>>
overlapVars == <<alone, crossed>>
vars == <<editorVars, docVersions, sessionVars, mutationEpoch, shown, pc, arg, seen, tokenVars,
          overlapVars>>

Pc == {"idle", "accept", "apply", "reload", "bump", "tokenEpoch", "tokenRevision", "snapshot",
       "roots", "refresh", "checkEpoch", "checkRevision", "compile", "publish",
       "answered", "done"}

\* What an analysis of the session depends on.
Content == [text |-> text, loaded |-> loaded]
NoContent == [text |-> [d \in Docs |-> 0], loaded |-> 0]

TypeOK ==
    /\ sent \in 0 .. MaxMessages
    /\ editorText \in [Docs -> Nat]
    /\ editorVersion \in [Docs -> Nat]
    /\ docVersions \in [Docs -> Nat]
    /\ text \in [Docs -> Nat]
    /\ loaded \in Nat
    /\ revision \in Nat
    /\ mutationEpoch \in Nat
    /\ shown \in [Docs -> Nat]
    /\ kind \in [Handlers -> Kind]
    /\ doc \in [Handlers -> Docs]
    /\ version \in [Handlers -> Nat]
    /\ pc \in [Handlers -> Pc]
    /\ arg \in [Handlers -> Nat]
    /\ seen \in [Handlers -> [text : [Docs -> Nat], loaded : Nat]]
    /\ tokenEpoch \in [Handlers -> Nat]
    /\ tokenRevision \in [Handlers -> Nat]
    /\ resets \in Nat
    /\ tokenResets \in [Handlers -> Nat]
    /\ alone \in BOOLEAN
    /\ crossed \subseteq Docs
    /\ \A h \in Handlers : tokenEpoch[h] <= mutationEpoch /\ tokenResets[h] <= resets

Running == {h \in Handlers : pc[h] \notin {"idle", "answered", "done"}}

Goto(h, label) == pc' = [pc EXCEPT ![h] = label]

-----------------------------------------------------------------------------
(* The editor.                                                               *)

\* The handlers that set or remove the session's text of their document.
Writers == {"open", "change", "close"}

FirstStep == [open |-> "accept", change |-> "accept", close |-> "accept",
              save |-> "snapshot", config |-> "reload", request |-> "tokenEpoch"]

\* The editor sends its next message and the server starts a handler for it.
\* Versions start again when a document is reopened.
Send(h, k, d) ==
    /\ sent < MaxMessages
    /\ h \notin Running
    /\ k \in {"change", "close", "save", "request"} => editorText[d] # 0
    /\ k = "open" => editorText[d] = 0
    /\ LET v == IF k = "open" THEN 1 ELSE editorVersion[d] + 1
       IN /\ version' = [version EXCEPT ![h] = v]
          /\ editorVersion' = IF k \in {"open", "change"} THEN [editorVersion EXCEPT ![d] = v]
                              ELSE editorVersion
    /\ sent' = sent + 1
    /\ kind' = [kind EXCEPT ![h] = k]
    /\ doc' = [doc EXCEPT ![h] = d]
    /\ arg' = [arg EXCEPT ![h] = sent + 1]
    /\ seen' = [seen EXCEPT ![h] = NoContent]
    /\ tokenEpoch' = [tokenEpoch EXCEPT ![h] = 0]
    /\ tokenRevision' = [tokenRevision EXCEPT ![h] = 0]
    /\ tokenResets' = [tokenResets EXCEPT ![h] = 0]
    /\ Goto(h, FirstStep[k])
    /\ editorText' = IF k \in Writers
                     THEN [editorText EXCEPT ![d] = IF k = "close" THEN 0 ELSE sent + 1]
                     ELSE editorText
    /\ alone' = (alone /\ Running = {})
    /\ crossed' = IF k \in Writers /\ \E g \in Running : kind[g] \in Writers /\ doc[g] = d
                  THEN crossed \cup {d} ELSE crossed
    /\ UNCHANGED <<docVersions, sessionVars, mutationEpoch, shown>>

-----------------------------------------------------------------------------
(* did_open, did_change and did_close.                                       *)

\* A slip for AcceptsVersion: the next version counts as stale too.
AcceptsVersionAfterNext(h) == docVersions[doc[h]] = 0 \/ version[h] > docVersions[doc[h]] + 1

\* try_accept_document_version
AcceptsVersion(h) == docVersions[doc[h]] = 0 \/ version[h] > docVersions[doc[h]]

Accept(h) ==
    /\ pc[h] = "accept"
    /\ \/ /\ kind[h] = "open" \/ (kind[h] = "change" /\ AcceptsVersion(h))
          /\ docVersions' = [docVersions EXCEPT ![doc[h]] = version[h]]
          /\ Goto(h, "apply")
       \/ /\ kind[h] = "change" /\ ~AcceptsVersion(h)
          /\ Goto(h, "done")
          /\ UNCHANGED docVersions
       \/ /\ kind[h] = "close"
          /\ docVersions' = [docVersions EXCEPT ![doc[h]] = 0]
          /\ Goto(h, "apply")
    /\ UNCHANGED <<editorVars, sessionVars, mutationEpoch, shown, arg, seen, tokenVars, overlapVars>>

\* apply_change of one document: a change without effect, the removal of a
\* document that is not there, leaves the session as it was.
ApplyChange(h) ==
    LET next == [text EXCEPT ![doc[h]] = IF kind[h] = "close" THEN 0 ELSE arg[h]]
    IN /\ text' = next
       /\ revision' = IF next = text THEN revision ELSE revision + 1
       /\ UNCHANGED <<loaded, resets>>

Apply(h) ==
    /\ pc[h] = "apply"
    /\ ApplyChange(h)
    /\ Goto(h, "reload")
    /\ UNCHANGED <<editorVars, docVersions, mutationEpoch, shown, arg, seen, tokenVars, overlapVars>>

\* reset_to_open_documents: the documents with text are applied as one change
\* to a new session, whose revisions start again, and no source root is loaded.
ResetSession ==
    /\ loaded' = 0
    /\ revision' = IF \E d \in Docs : text[d] # 0 THEN 1 ELSE 0
    /\ resets' = resets + 1
    /\ UNCHANGED text

AfterReload == [open |-> "bump", change |-> "tokenEpoch", close |-> "bump", config |-> "done",
                save |-> "done", request |-> "done"]

\* reload_scenario_config, for a document of the workspace or a scenario file.
Reload(h) ==
    /\ pc[h] = "reload"
    /\ \/ UNCHANGED sessionVars
       \/ ResetAllowed /\ ResetSession
    /\ Goto(h, AfterReload[kind[h]])
    /\ UNCHANGED <<editorVars, docVersions, mutationEpoch, shown, arg, seen, tokenVars, overlapVars>>

\* A slip for BumpEpoch: a store of the epoch the handler remembers plus one.
BumpFromToken(h) ==
    /\ pc[h] = "bump"
    /\ mutationEpoch' = tokenEpoch[h] + 1
    /\ Goto(h, IF kind[h] = "open" THEN "tokenEpoch" ELSE "done")
    /\ UNCHANGED <<editorVars, docVersions, sessionVars, shown, arg, seen, tokenVars, overlapVars>>

\* completion_mutation_epoch.fetch_add(1): before the diagnostics of an open,
\* after those of a change.
BumpEpoch(h) ==
    /\ pc[h] = "bump"
    /\ mutationEpoch' = mutationEpoch + 1
    /\ Goto(h, IF kind[h] = "open" THEN "tokenEpoch" ELSE "done")
    /\ UNCHANGED <<editorVars, docVersions, sessionVars, shown, arg, seen, tokenVars, overlapVars>>

-----------------------------------------------------------------------------
(* Tokens, publish_diagnostics and the analysis requests.                    *)

\* begin_analysis_request: the epoch first, then the revision under the lock.
TokenEpoch(h) ==
    /\ pc[h] = "tokenEpoch"
    /\ tokenEpoch' = [tokenEpoch EXCEPT ![h] = mutationEpoch]
    /\ Goto(h, "tokenRevision")
    /\ UNCHANGED <<editorVars, docVersions, sessionVars, mutationEpoch, shown, arg, seen, tokenRevision, tokenResets, overlapVars>>

AfterToken == [open |-> "roots", save |-> "roots", change |-> "checkEpoch", request |-> "snapshot",
               close |-> "done", config |-> "done"]

TokenRevision(h) ==
    /\ pc[h] = "tokenRevision"
    /\ tokenRevision' = [tokenRevision EXCEPT ![h] = revision]
    /\ tokenResets' = [tokenResets EXCEPT ![h] = resets]
    /\ Goto(h, AfterToken[kind[h]])
    /\ UNCHANGED <<editorVars, docVersions, sessionVars, mutationEpoch, shown, arg, seen, tokenEpoch, overlapVars>>

\* document_snapshot of a save, the analysis snapshot of a request; both give
\* up on a document the session does not have.
Snapshot(h) ==
    /\ pc[h] = "snapshot"
    /\ \/ /\ text[doc[h]] = 0
          /\ Goto(h, "done")
          /\ UNCHANGED <<arg, seen>>
       \/ /\ text[doc[h]] # 0
          /\ arg' = [arg EXCEPT ![h] = text[doc[h]]]
          /\ seen' = [seen EXCEPT ![h] = Content]
          /\ Goto(h, IF kind[h] = "save" THEN "tokenEpoch" ELSE "checkEpoch")
    /\ UNCHANGED <<editorVars, docVersions, sessionVars, mutationEpoch, shown, tokenVars, overlapVars>>

\* ensure_source_roots_loaded_with_paths, as the one change it may make.
LoadSourceRoots(h) ==
    /\ pc[h] = "roots"
    /\ \/ UNCHANGED sessionVars
       \/ /\ loaded < MaxLoads
          /\ loaded' = loaded + 1
          /\ revision' = revision + 1
          /\ UNCHANGED <<text, resets>>
    /\ Goto(h, "refresh")
    /\ UNCHANGED <<editorVars, docVersions, mutationEpoch, shown, arg, seen, tokenVars, overlapVars>>

\* A slip for RefreshRevision: the token keeps its revision.
RefreshNothing(h) ==
    /\ pc[h] = "refresh"
    /\ Goto(h, "checkEpoch")
    /\ UNCHANGED <<editorVars, docVersions, sessionVars, mutationEpoch, shown, arg, seen, tokenVars, overlapVars>>

\* refresh_analysis_request_revision: the loads above are the handler's own.
RefreshRevision(h) ==
    /\ pc[h] = "refresh"
    /\ tokenRevision' = [tokenRevision EXCEPT ![h] = revision]
    /\ tokenResets' = [tokenResets EXCEPT ![h] = resets]
    /\ Goto(h, "checkEpoch")
    /\ UNCHANGED <<editorVars, docVersions, sessionVars, mutationEpoch, shown, arg, seen, tokenEpoch, overlapVars>>

AfterStale == [change |-> "bump", open |-> "done", save |-> "done", request |-> "done",
               close |-> "done", config |-> "done"]
AfterFresh == [change |-> "publish", open |-> "compile", save |-> "compile", request |-> "answered",
               close |-> "done", config |-> "done"]

\* analysis_request_is_stale: the epoch, then the revision under the lock.
CheckEpoch(h) ==
    /\ pc[h] = "checkEpoch"
    /\ Goto(h, IF mutationEpoch = tokenEpoch[h] THEN "checkRevision" ELSE AfterStale[kind[h]])
    /\ UNCHANGED <<editorVars, docVersions, sessionVars, mutationEpoch, shown, arg, seen, tokenVars, overlapVars>>

\* A slip for RevisionIsCurrent: staleness is the epoch's alone.
RevisionIgnored(h) == TRUE

RevisionIsCurrent(h) == revision = tokenRevision[h]

CheckRevision(h) ==
    /\ pc[h] = "checkRevision"
    /\ Goto(h, IF RevisionIsCurrent(h) THEN AfterFresh[kind[h]] ELSE AfterStale[kind[h]])
    /\ UNCHANGED <<editorVars, docVersions, sessionVars, mutationEpoch, shown, arg, seen, tokenVars, overlapVars>>

\* The strict compile of the text, under session.write.
Compile(h) ==
    /\ pc[h] = "compile"
    /\ seen' = [seen EXCEPT ![h] = Content]
    /\ Goto(h, "publish")
    /\ UNCHANGED <<editorVars, docVersions, sessionVars, mutationEpoch, shown, arg, tokenVars, overlapVars>>

Publish(h) ==
    /\ pc[h] = "publish"
    /\ shown' = [shown EXCEPT ![doc[h]] = arg[h]]
    /\ Goto(h, IF kind[h] = "change" THEN "bump" ELSE "done")
    /\ UNCHANGED <<editorVars, docVersions, sessionVars, mutationEpoch, arg, seen, tokenVars, overlapVars>>

-----------------------------------------------------------------------------

Init ==
    /\ sent = 0
    /\ editorText = [d \in Docs |-> 0]
    /\ editorVersion = [d \in Docs |-> 0]
    /\ docVersions = [d \in Docs |-> 0]
    /\ text = [d \in Docs |-> 0]
    /\ loaded = 0
    /\ revision = 0
    /\ mutationEpoch = 0
    /\ shown = [d \in Docs |-> 0]
    /\ kind = [h \in Handlers |-> "open"]
    /\ doc \in [Handlers -> Docs] /\ \A g, h \in Handlers : doc[g] = doc[h]
    /\ version = [h \in Handlers |-> 0]
    /\ pc = [h \in Handlers |-> "idle"]
    /\ arg = [h \in Handlers |-> 0]
    /\ seen = [h \in Handlers |-> NoContent]
    /\ tokenEpoch = [h \in Handlers |-> 0]
    /\ tokenRevision = [h \in Handlers |-> 0]
    /\ resets = 0
    /\ tokenResets = [h \in Handlers |-> 0]
    /\ alone = TRUE
    /\ crossed = {}

Step(h) ==
    \/ Accept(h)
    \/ Apply(h)
    \/ Reload(h)
    \/ BumpEpoch(h)
    \/ TokenEpoch(h)
    \/ TokenRevision(h)
    \/ Snapshot(h)
    \/ LoadSourceRoots(h)
    \/ RefreshRevision(h)
    \/ CheckEpoch(h)
    \/ CheckRevision(h)
    \/ Compile(h)
    \/ Publish(h)

Next ==
    \/ \E h \in Handlers, k \in Kinds, d \in Docs : Send(h, k, d)
    \/ \E h \in Handlers : Step(h)

Spec == Init /\ [][Next]_vars

-----------------------------------------------------------------------------
(* Properties.                                                               *)

\* An analysis request is answered only from a snapshot that still is the
\* session's content when the staleness check passes, unless the session was
\* replaced in between: begin_analysis_request before the snapshot,
\* analysis_request_is_stale after it.  (A reset starts the revisions again,
\* so that a revision does not name a session's content across one.)
AnswerIsCurrent ==
    [][\A h \in Handlers :
          pc[h] # "answered" /\ pc'[h] = "answered" /\ tokenResets[h] = resets
              => seen[h] = Content]_vars

Quiescent == Running = {}

\* Once every handler has returned, the session holds the editor's text of
\* every open document and none of a closed one, for every document whose own
\* did_open, did_change and did_close never overlapped, whatever the handlers
\* of the other documents, the requests and the reloads did meanwhile.
QuiescentTextIsEditors ==
    Quiescent => \A d \in Docs \ crossed : text[d] = editorText[d]

\* Once every handler has returned, and no two ran together, the diagnostics
\* on display are those of the text in the editor: neither the handler's own
\* source-root load nor its own epoch bump makes publish_diagnostics drop them.
QuiescentDiagnosticsAreEditors ==
    Quiescent /\ alone => \A d \in Docs : editorText[d] # 0 => shown[d] = editorText[d]

\* did_change never replaces the session's text by an older version of it.
OlderVersionNeverOverwrites ==
    [][\A h \in Handlers :
          pc[h] = "apply" /\ pc'[h] # "apply" /\ kind[h] = "change" => text[doc[h]] <= arg[h]]_vars
=============================================================================
