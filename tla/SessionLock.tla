----------------------------- MODULE SessionLock -----------------------------
(***************************************************************************)
(* The lock around the session and the handlers that take it.               *)
(*                                                                          *)
(* The session is behind a tokio RwLock, which is fair: who asks joins a    *)
(* queue, and a reader behind a queued writer waits even while others read. *)
(* Almost every handler takes the lock for one critical section at a time   *)
(* and awaits nothing inside.  The workspace symbol request is different:   *)
(* its read guard lives until it returns, and it asks for the lock again,   *)
(* three times, to see whether it has become stale.                         *)
(*                                                                          *)
(* Of the session only the revision is kept, which a write may advance.     *)
(***************************************************************************)
EXTENDS Naturals, Sequences

CONSTANTS
    Symbols,         \* workspace symbol requests
    Readers,         \* handlers that read in critical sections of their own
    Writers,         \* handlers and background tasks that write
    Free             \* nobody writes

Procs == Symbols \union Readers \union Writers

ASSUME LockAssumption ==
    /\ Symbols \intersect Readers = {}
    /\ Symbols \intersect Writers = {}
    /\ Readers \intersect Writers = {}
    /\ Free \notin Procs

VARIABLES
    queue,           \* who waits for the lock, in the order they asked
    reading,         \* the handlers inside a read section
    guarding,        \* the symbol requests that hold their long read guard
    writing,         \* the handler inside a write section, or Free
    at,              \* the section each handler is in or asks for next
    revision,        \* Session::revision
    token,           \* the revision of each symbol request's token
    snapshot         \* the revision its snapshot was built from

lockVars == <<queue, reading, guarding, writing>>
sessionVars == <<revision, token, snapshot>>
vars == <<lockVars, at, sessionVars>>

\* The sections of a handler, in order.  A symbol request: the token's
\* revision, the snapshot (where the long guard begins), the two staleness
\* checks, and the one of the timing summary.  Others have one section.
Sections == {"token", "snapshot", "check1", "check2", "timing", "section", "return", "done"}

\* Where a symbol request is while it works on its snapshot.
UnderGuard == {"check1", "check2", "timing", "return"}

TypeOK ==
    /\ queue \in Seq(Procs)
    /\ reading \subseteq Symbols \union Readers
    /\ guarding \subseteq Symbols
    /\ writing \in Writers \union {Free}
    /\ at \in [Procs -> Sections]
    /\ \A s \in guarding : at[s] \in UnderGuard
    /\ revision \in Nat
    /\ token \in [Symbols -> Nat]
    /\ snapshot \in [Symbols -> Nat]

Waiting == {queue[i] : i \in 1 .. Len(queue)}
Inside(p) == p \in reading \/ p = writing

\* RwLock::read and RwLock::write join the queue.
Ask(p) ==
    /\ at[p] \notin {"return", "done"}
    /\ p \notin Waiting
    /\ ~Inside(p)
    /\ queue' = Append(queue, p)
    /\ UNCHANGED <<reading, guarding, writing, at, sessionVars>>


\* Readers share, a writer is alone.
Admits(p) ==
    /\ writing = Free
    /\ p \in Writers => reading \union guarding = {}

\* The lock is given to the head of the queue.
Grant ==
    /\ queue # <<>>
    /\ LET p == Head(queue)
       IN /\ Admits(p)
          /\ queue' = Tail(queue)
          /\ \/ p \in Writers /\ writing' = p /\ UNCHANGED reading
             \/ p \notin Writers /\ reading' = reading \union {p} /\ UNCHANGED writing
    /\ UNCHANGED <<guarding, at, sessionVars>>

-----------------------------------------------------------------------------

\* A slip for LeaveSection: a writer keeps its guard.
LeaveReadSection(p) ==
    /\ p \notin Symbols
    /\ Inside(p)
    /\ reading' = reading \ {p}
    /\ at' = [at EXCEPT ![p] = "done"]
    /\ UNCHANGED <<queue, guarding, writing, sessionVars>>

\* A handler with sections of its own leaves its section.  A writer may have
\* changed the session.
LeaveSection(p) ==
    /\ p \notin Symbols
    /\ Inside(p)
    /\ reading' = reading \ {p}
    /\ writing' = IF writing = p THEN Free ELSE writing
    /\ at' = [at EXCEPT ![p] = "done"]
    /\ \/ p = writing /\ revision' = revision + 1
       \/ UNCHANGED revision
    /\ UNCHANGED <<queue, guarding, token, snapshot>>

SymbolNext == [token |-> "snapshot", snapshot |-> "check1", check1 |-> "check2", check2 |-> "timing",
               timing |-> "return"]

\* A slip for SymbolGuard: no guard is kept.
GuardNever(s) == FALSE

\* Does the section's guard outlive it?
SymbolGuard(s) == at[s] = "snapshot"

\* A request whose token's revision has passed goes on to its timing summary.
AfterSection(s) ==
    IF at[s] \in {"check1", "check2"} /\ token[s] # revision THEN "timing" ELSE SymbolNext[at[s]]

\* A symbol request ends a section.  The snapshot's guard outlives it; the
\* guards of the token and of the checks end with them.
SymbolSection(s) ==
    /\ s \in reading
    /\ reading' = reading \ {s}
    /\ guarding' = IF SymbolGuard(s) THEN guarding \union {s} ELSE guarding
    /\ at' = [at EXCEPT ![s] = AfterSection(s)]
    /\ token' = IF at[s] = "token" THEN [token EXCEPT ![s] = revision] ELSE token
    /\ snapshot' = IF at[s] = "snapshot" THEN [snapshot EXCEPT ![s] = revision] ELSE snapshot
    /\ UNCHANGED <<queue, writing, revision>>

\* analysis_request_is_stale does not read the revision once the epoch has
\* moved: a check that needs no lock.
SymbolEpochMoved(s) ==
    /\ at[s] \in {"check1", "check2", "timing"}
    /\ s \notin Waiting
    /\ ~Inside(s)
    /\ at' = [at EXCEPT ![s] = IF at[s] = "timing" THEN "return" ELSE "timing"]
    /\ UNCHANGED <<lockVars, sessionVars>>

\* It returns, which drops the guard.
SymbolReturn(s) ==
    /\ at[s] = "return"
    /\ guarding' = guarding \ {s}
    /\ at' = [at EXCEPT ![s] = "done"]
    /\ UNCHANGED <<queue, reading, writing, sessionVars>>

-----------------------------------------------------------------------------

Init ==
    /\ queue = <<>>
    /\ reading = {}
    /\ guarding = {}
    /\ writing = Free
    /\ at = [p \in Procs |-> IF p \in Symbols THEN "token" ELSE "section"]
    /\ revision = 0
    /\ token = [s \in Symbols |-> 0]
    /\ snapshot = [s \in Symbols |-> 0]

Next ==
    \/ Grant
    \/ \E p \in Procs : Ask(p) \/ LeaveSection(p)
    \/ \E s \in Symbols : SymbolSection(s) \/ SymbolEpochMoved(s) \/ SymbolReturn(s)

Spec == Init /\ [][Next]_vars

\* A handler inside a section leaves it, one that asked for another section
\* goes on, and the lock wakes the head of its queue.
FairSpec ==
    /\ Spec
    /\ WF_vars(Grant)
    /\ \A p \in Procs : WF_vars(LeaveSection(p))
    /\ \A p \in Procs : WF_vars(Ask(p) \/ (p \in Symbols /\ SymbolEpochMoved(p)))
    /\ \A s \in Symbols : WF_vars(SymbolSection(s)) /\ WF_vars(SymbolReturn(s))

-----------------------------------------------------------------------------
(* Properties.                                                               *)

\* From its snapshot to its return a symbol request works on the session as it
\* is: no writer gets in between, so neither staleness check after the
\* snapshot ever finds a revision newer than the one the snapshot was built
\* from (the read guard of symbol is held across its awaits).
SnapshotIsCurrent ==
    \A s \in Symbols : at[s] \in UnderGuard => snapshot[s] = revision

\* Every handler that asks for the session returns.
HandlersReturn == \A p \in Procs : p \in Waiting ~> at[p] = "done"

\* The one way for a handler not to return: a symbol request that waits for
\* the lock while it holds its long guard.  Short sections never block each
\* other, whoever reads and writes.
OnlyReentryBlocks ==
    \A p \in Procs : p \in Waiting ~> at[p] = "done" \/ guarding \intersect Waiting # {}
=============================================================================
