--------------------------- MODULE SessionLockProofs ---------------------------
(***************************************************************************)
(* Proofs about SessionLock, for any sets of handlers.                       *)
(***************************************************************************)
EXTENDS SessionLock, TLAPS

\* Nobody reads, under a short or a long guard, while the session is written.
WriterIsAlone == writing # Free => reading \union guarding = {}

\* A symbol request that works on its snapshot holds its long guard.
GuardKept == \A s \in Symbols : at[s] \in UnderGuard => s \in guarding

\* Who waits is in the queue once, is in no section, and has one to go.
WaitersAsk ==
    /\ \A i, j \in 1 .. Len(queue) : queue[i] = queue[j] => i = j
    /\ \A i \in 1 .. Len(queue) :
        /\ queue[i] \notin reading
        /\ queue[i] # writing
        /\ at[queue[i]] \notin {"return", "done"}

\* A symbol request reads only in the sections it has.
SymbolsInSections ==
    /\ \A s \in Symbols : at[s] # "section"
    /\ \A s \in Symbols \intersect reading : at[s] \notin {"return", "done"}

\* The invariant: a writer leaves its section only when no long guard is held,
\* so no snapshot is in use when the revision moves.
LockInv ==
    /\ TypeOK
    /\ WriterIsAlone
    /\ GuardKept
    /\ WaitersAsk
    /\ SymbolsInSections
    /\ SnapshotIsCurrent

\* The initial state satisfies the invariant.
LEMMA InitLockInv == Init => LockInv
<1> SUFFICES ASSUME Init PROVE LockInv
  OBVIOUS
<1> USE LockAssumption DEF Init, Procs
<1>1. TypeOK
  BY DEF TypeOK, Sections
<1>2. WriterIsAlone /\ GuardKept /\ WaitersAsk /\ SymbolsInSections /\ SnapshotIsCurrent
  BY DEF WriterIsAlone, GuardKept, WaitersAsk, SymbolsInSections, SnapshotIsCurrent, UnderGuard
<1> QED
  BY <1>1, <1>2 DEF LockInv

\* A handler that asks joins the queue and changes nothing else.
LEMMA AskLockInv == ASSUME LockInv, NEW p \in Procs, Ask(p) PROVE LockInv'
<1> USE LockAssumption DEF LockInv, Procs
<1>1. /\ queue \in Seq(Procs)
      /\ queue' = Append(queue, p)
      /\ UNCHANGED <<reading, guarding, writing, at, revision, token, snapshot>>
      /\ p \notin reading /\ p # writing /\ at[p] \notin {"return", "done"}
      /\ \A i \in 1 .. Len(queue) : queue[i] # p
  BY DEF Ask, TypeOK, Waiting, Inside, sessionVars
<1>2. TypeOK'
  BY <1>1 DEF TypeOK
<1>3. WaitersAsk'
  BY <1>1 DEF WaitersAsk
<1>4. WriterIsAlone' /\ GuardKept' /\ SymbolsInSections' /\ SnapshotIsCurrent'
  BY <1>1 DEF WriterIsAlone, GuardKept, SymbolsInSections, SnapshotIsCurrent
<1> QED
  BY <1>2, <1>3, <1>4

\* The lock goes to the head of the queue only if it can share it.
LEMMA GrantLockInv == ASSUME LockInv, Grant PROVE LockInv'
<1> USE LockAssumption DEF LockInv, Procs
<1> DEFINE p == Head(queue)
<1>1. queue \in Seq(Procs) /\ queue # <<>>
  BY DEF Grant, TypeOK
<1>2. /\ Len(queue) \in Nat \ {0}
      /\ p = queue[1] /\ p \in Procs
      /\ Tail(queue) \in Seq(Procs)
      /\ Len(Tail(queue)) = Len(queue) - 1
      /\ \A i \in 1 .. Len(Tail(queue)) : Tail(queue)[i] = queue[i + 1]
  BY <1>1
<1>3. /\ queue' = Tail(queue) /\ writing = Free
      /\ p \in Writers => reading \union guarding = {}
      /\ UNCHANGED <<guarding, at, revision, token, snapshot>>
      /\ \/ p \in Writers /\ writing' = p /\ reading' = reading
         \/ p \notin Writers /\ reading' = reading \union {p} /\ writing' = writing
  BY DEF Grant, Admits, sessionVars
<1>4. TypeOK'
  BY <1>2, <1>3 DEF TypeOK
<1>5. \A i \in 1 .. Len(Tail(queue)) :
         /\ Tail(queue)[i] # p
         /\ Tail(queue)[i] \notin reading
         /\ Tail(queue)[i] # Free
         /\ at[Tail(queue)[i]] \notin {"return", "done"}
  BY <1>2, <1>3 DEF WaitersAsk
<1>6. WaitersAsk'
  BY <1>2, <1>3, <1>5 DEF WaitersAsk
<1>7. at[p] \notin {"return", "done"}
  BY <1>2 DEF WaitersAsk
<1>8. WriterIsAlone' /\ GuardKept' /\ SymbolsInSections' /\ SnapshotIsCurrent'
  BY <1>3, <1>7 DEF WriterIsAlone, GuardKept, SymbolsInSections, SnapshotIsCurrent
<1> QED
  BY <1>4, <1>6, <1>8

\* A writer that leaves may have moved the revision, with nobody guarding.
LEMMA LeaveLockInv == ASSUME LockInv, NEW p \in Procs, LeaveSection(p) PROVE LockInv'
<1> USE LockAssumption DEF LockInv, Procs
<1>1. /\ p \notin Symbols
      /\ p \in reading \/ p = writing
      /\ reading' = reading \ {p}
      /\ writing' = IF writing = p THEN Free ELSE writing
      /\ at' = [at EXCEPT ![p] = "done"]
      /\ p # writing => revision' = revision
      /\ revision' \in Nat
      /\ UNCHANGED <<queue, guarding, token, snapshot>>
  BY DEF LeaveSection, Inside, TypeOK
<1>2. TypeOK'
  BY <1>1 DEF TypeOK, Sections
<1>3. \A i \in 1 .. Len(queue) : queue[i] # p /\ queue[i] \in Procs
  BY <1>1 DEF WaitersAsk, TypeOK
<1>4. WaitersAsk'
  BY <1>1, <1>3 DEF WaitersAsk, TypeOK
<1>5. WriterIsAlone' /\ GuardKept' /\ SymbolsInSections'
  BY <1>1 DEF WriterIsAlone, GuardKept, SymbolsInSections, TypeOK
<1>6. SnapshotIsCurrent'
  BY <1>1 DEF SnapshotIsCurrent, WriterIsAlone, GuardKept, TypeOK
<1> QED
  BY <1>2, <1>4, <1>5, <1>6

\* The end of a section of a symbol request.
LEMMA SectionLockInv == ASSUME LockInv, NEW s \in Symbols, SymbolSection(s) PROVE LockInv'
<1> USE LockAssumption DEF LockInv, Procs
<1>1. /\ s \in reading
      /\ at[s] \in {"token", "snapshot", "check1", "check2", "timing"}
      /\ writing = Free
  BY DEF SymbolSection, SymbolsInSections, TypeOK, Sections, WriterIsAlone
<1>2. /\ at[s] = "token" => AfterSection(s) = "snapshot"
      /\ at[s] # "token" => AfterSection(s) \in UnderGuard
  BY <1>1 DEF AfterSection, SymbolNext, UnderGuard
<1>3. /\ reading' = reading \ {s}
      /\ guarding' = IF at[s] = "snapshot" THEN guarding \union {s} ELSE guarding
      /\ at' = [at EXCEPT ![s] = AfterSection(s)]
      /\ token' = IF at[s] = "token" THEN [token EXCEPT ![s] = revision] ELSE token
      /\ snapshot' = IF at[s] = "snapshot" THEN [snapshot EXCEPT ![s] = revision] ELSE snapshot
      /\ UNCHANGED <<queue, writing, revision>>
  BY DEF SymbolSection, SymbolGuard
<1>4. TypeOK'
  BY <1>1, <1>2, <1>3 DEF TypeOK, Sections, UnderGuard
<1>5. \A i \in 1 .. Len(queue) : queue[i] # s /\ queue[i] \in Procs
  BY <1>1 DEF WaitersAsk, TypeOK
<1>6. WaitersAsk'
  BY <1>3, <1>5 DEF WaitersAsk, TypeOK
<1>7. WriterIsAlone' /\ GuardKept' /\ SymbolsInSections'
  BY <1>1, <1>2, <1>3 DEF WriterIsAlone, GuardKept, SymbolsInSections, TypeOK, UnderGuard
<1>8. SnapshotIsCurrent'
  BY <1>1, <1>2, <1>3 DEF SnapshotIsCurrent, TypeOK, UnderGuard
<1> QED
  BY <1>4, <1>6, <1>7, <1>8

\* A check without the lock, and the return, which drops the guard.
LEMMA MoveLockInv ==
    ASSUME LockInv, NEW s \in Symbols, SymbolEpochMoved(s) \/ SymbolReturn(s)
    PROVE LockInv'
<1> USE LockAssumption DEF LockInv, Procs
<1>1. \A i \in 1 .. Len(queue) : queue[i] # s /\ queue[i] \in Procs
  BY DEF SymbolEpochMoved, SymbolReturn, Waiting, WaitersAsk, TypeOK
<1>2. s \notin reading /\ s # writing
  BY DEF SymbolEpochMoved, SymbolReturn, Inside, SymbolsInSections, TypeOK
<1>3. /\ UNCHANGED <<queue, reading, writing, revision, token, snapshot>>
      /\ \/ /\ at[s] \in UnderGuard
            /\ guarding' = guarding
            /\ \E label \in {"timing", "return"} : at' = [at EXCEPT ![s] = label]
         \/ guarding' = guarding \ {s} /\ at' = [at EXCEPT ![s] = "done"]
  BY DEF SymbolEpochMoved, SymbolReturn, UnderGuard, lockVars, sessionVars
<1>4. TypeOK'
  BY <1>3 DEF TypeOK, Sections, UnderGuard
<1>5. WaitersAsk'
  BY <1>1, <1>3 DEF WaitersAsk, TypeOK
<1>6. WriterIsAlone' /\ GuardKept' /\ SymbolsInSections'
  BY <1>2, <1>3 DEF WriterIsAlone, GuardKept, SymbolsInSections, TypeOK, UnderGuard
<1>7. SnapshotIsCurrent'
  BY <1>3 DEF SnapshotIsCurrent, TypeOK, UnderGuard
<1> QED
  BY <1>4, <1>5, <1>6, <1>7

\* Every step preserves the invariant, action by action.
LEMMA StepLockInv == LockInv /\ [Next]_vars => LockInv'
<1> SUFFICES ASSUME LockInv, [Next]_vars PROVE LockInv'
  OBVIOUS
<1>1. CASE Grant
  BY <1>1, GrantLockInv
<1>2. ASSUME NEW p \in Procs, Ask(p) PROVE LockInv'
  BY <1>2, AskLockInv
<1>3. ASSUME NEW p \in Procs, LeaveSection(p) PROVE LockInv'
  BY <1>3, LeaveLockInv
<1>4. ASSUME NEW s \in Symbols, SymbolSection(s) PROVE LockInv'
  BY <1>4, SectionLockInv
<1>5. ASSUME NEW s \in Symbols, SymbolEpochMoved(s) \/ SymbolReturn(s) PROVE LockInv'
  BY <1>5, MoveLockInv
<1>6. CASE UNCHANGED vars
  <2>1. UNCHANGED <<queue, reading, guarding, writing, at, revision, token, snapshot>>
    BY <1>6 DEF vars, lockVars, sessionVars
  <2> QED
    BY <2>1 DEF LockInv, TypeOK, WriterIsAlone, GuardKept, WaitersAsk, SymbolsInSections, SnapshotIsCurrent
<1> QED
  BY <1>1, <1>2, <1>3, <1>4, <1>5, <1>6 DEF Next

\* The invariant holds in every state of every behaviour.
THEOREM LockInvariance == Spec => []LockInv
<1>1. Init => LockInv
  BY InitLockInv
<1>2. LockInv /\ [Next]_vars => LockInv'
  BY StepLockInv
<1> QED
  BY <1>1, <1>2, PTL DEF Spec

\* From its snapshot to its return a symbol request works on the session as it
\* is, however many requests, readers and writers there are.
THEOREM SnapshotIsCurrentAlways == Spec => []SnapshotIsCurrent
<1>1. LockInv => SnapshotIsCurrent
  BY DEF LockInv
<1> QED
  BY <1>1, LockInvariance, PTL

\* Every reachable state of the lock and its users is well typed.
THEOREM LockTypeCorrect == Spec => []TypeOK
<1>1. LockInv => TypeOK
  BY DEF LockInv
<1> QED
  BY <1>1, LockInvariance, PTL
=============================================================================
