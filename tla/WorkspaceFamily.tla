--------------------------- MODULE WorkspaceFamily ---------------------------
(***************************************************************************)
(* The family of source roots a workspace is partitioned into: one root per *)
(* top-level package directory, and one for the files in no package.        *)
(* sync_partitioned_source_root_family replaces the roots of the family one *)
(* after the other and empties those that have become stale, all in one     *)
(* call on the session.  A file changes root when a package.mo comes or     *)
(* goes.                                                                    *)
(*                                                                          *)
(* The browser binding is the caller: it edits one scratch document, which  *)
(* the syncs exclude, and never closes it.                                  *)
(***************************************************************************)
EXTENDS SessionDocuments, Sequences, SequencesExt

CONSTANTS
    Dirs,            \* directories of the workspace
    Ancestors,       \* the directories a file is in, outermost first
    PackageFile,     \* the package.mo of a directory
    RootOf,          \* the family's key for a directory
    LooseRoot,       \* its key for the files in no package
    Scratch,         \* the document the binding edits, "input.mo"
    AlwaysPresent    \* files every sync finds

\* partitioned_package_root_for_uri: the outermost directory of the file that
\* is a package, since a package directory in another one is no root.
PackageRoot(u, present) ==
    LET packages == SelectSeq(Ancestors[u], LAMBDA d : PackageFile[d] \in present)
    IN IF packages = <<>> THEN LooseRoot ELSE RootOf[Head(packages)]

\* The part of the definitions that goes to root k.
GroupOf(found, k) ==
    LET present == {u \in Uris : found[u] # NoBody}
    IN [u \in Uris |-> IF u \in present /\ PackageRoot(u, present) = k THEN found[u] ELSE NoBody]

HasFiles(group) == \E u \in Uris : group[u] # NoBody

StaleRoots(s, found) == {k \in s.known : ~HasFiles(GroupOf(found, k))}

\* The groups in the order the definitions name them, then the stale roots.
SyncFamily(found) ==
    /\ WithinBounds
    /\ LET groups == {k \in Roots : HasFiles(GroupOf(found, k))}
       IN \E first \in SetToSeqs(groups), last \in SetToSeqs(StaleRoots(session, found)) :
            session' = FoldLeft(LAMBDA s, k : Replaced(s, k, GroupOf(found, k), Scratch), session, first \o last)
    /\ onDisk' = [k \in Roots |-> GroupOf(found, k)]
    /\ UNCHANGED <<editor, blanked>>

\* The workspace sources that parse; the scratch document is none of them.
Definitions ==
    {f \in [Uris -> (Texts \ (Broken \union {Empty})) \union {NoBody}] :
        /\ f[Scratch] = NoBody
        /\ \A u \in AlwaysPresent : f[u] # NoBody}

FamilyNext ==
    \/ \E found \in Definitions : SyncFamily(found)
    \/ \E t \in EditorTexts : SetFileText(Scratch, t, FALSE)

FamilySpec == Init /\ [][FamilyNext]_vars
=============================================================================
