------------------------- MODULE ArtifactCacheProofs -------------------------
(***************************************************************************)
(* Proofs about the on-disk cache, for any number of processes and of       *)
(* contents of the file, any bound on the memory and any number of loads,   *)
(* edits, crashes and failed renames.                                       *)
(***************************************************************************)
EXTENDS ArtifactCache, FiniteSetTheorems, SequenceTheorems, WellFoundedInduction, TLAPS

Entry == [key : Contents, holds : Contents]

\* Whatever is found under a key, on disk or in memory, is its parse.
HoldsItsKey(entries) == \A i \in 1 .. Len(entries) : entries[i].holds = entries[i].key

CacheIsHonest ==
    /\ \A key \in Contents : artifact[key] \in {None, Torn, key}
    /\ \A p \in Processes : HoldsItsKey(memory[p])

\* What a load knows, by where it is.
LoadFollowsPc ==
    \A p \in Processes :
        /\ pc[p] \notin {"idle", "crashed"} => loads[p] # 0
        /\ pc[p] \in {"lookup", "read"} => hashed[p] \in Contents /\ result[p] = None
        /\ pc[p] = "parse" => read[p] \in Contents /\ result[p] = None
        /\ pc[p] \in {"create", "write", "rename", "copy"} => read[p] \in Contents /\ result[p] = read[p]

CacheInv == TypeOK /\ CacheIsHonest /\ LoadFollowsPc /\ LoadedWasThere

\* The owners whose lock is gone are as many as locks were taken from processes
\* at work, at most.
Orphans == {p \in Processes : Owns(p) /\ ~IsMine(p)}
OrphansCounted == Cardinality(Orphans) <= takeovers

-----------------------------------------------------------------------------
(* The number of a load.                                                     *)

\* A set of numbers with an upper bound has a largest one.
LEMMA BoundedHasMax ==
    ASSUME NEW N \in Nat, NEW S, S \subseteq 0 .. N, S # {}
    PROVE  Max(S) \in S /\ \A y \in S : Max(S) >= y
<1> DEFINE Below == {n \in Nat : \E x \in S : n + x = N}
<1>1. \A x \in S : x \in Nat /\ N - x \in Nat /\ (N - x) + x = N
  OBVIOUS
<1>2. Below \subseteq Nat /\ Below # {}
  <2>1. PICK x \in S : TRUE
    OBVIOUS
  <2>2. N - x \in Below
    BY <1>1
  <2> QED
    BY <2>2
<1>3. \E b \in Below : \A y \in Below : ~(<<y, b>> \in OpToRel(<, Nat))
  <2> HIDE DEF Below
  <2> QED
    BY <1>2, WFMin, NatLessThanWellFounded, Zenon
<1>4. PICK b \in Below : \A y \in Below : ~(<<y, b>> \in OpToRel(<, Nat))
  BY <1>3
<1>5. ASSUME NEW y \in Below PROVE ~(y < b)
  <2>1. y \in Nat /\ b \in Nat /\ ~(<<y, b>> \in OpToRel(<, Nat))
    BY <1>4
  <2>2. y < b => <<y, b>> \in OpToRel(<, Nat)
    BY <2>1, Zenon DEF OpToRel
  <2> QED
    BY <2>1, <2>2
<1>6. PICK m \in S : b + m = N
  OBVIOUS
<1>7. ASSUME NEW y \in S PROVE m >= y
  <2>1. N - y \in Below
    BY <1>1
  <2>2. ~(N - y < b)
    BY <1>5, <2>1
  <2> QED
    BY <1>1, <1>6, <2>2
<1> QED
  BY <1>7 DEF Max

LEMMA LoadsType ==
    ASSUME TypeOK, NEW p \in Processes
    PROVE  LoadsSoFar \in 0 .. MaxLoads /\ LoadsSoFar >= loads[p]
<1>1. Range(loads) \subseteq 0 .. MaxLoads /\ loads[p] \in Range(loads)
  BY DEF TypeOK, Range
<1> QED
  BY <1>1, BoundedHasMax, CacheAssumption DEF LoadsSoFar

-----------------------------------------------------------------------------
(* The prune lock.                                                           *)

LEMMA MyTokenType ==
    ASSUME TypeOK, LoadFollowsPc, NEW p \in Processes, pc[p] \notin {"idle", "crashed"}
    PROVE  MyToken(p) \in Token
<1>1. loads[p] \in 1 .. MaxLoads
  BY CacheAssumption DEF TypeOK, LoadFollowsPc
<1> QED
  BY <1>1 DEF MyToken, Token

\* A lock that is written to or gets old is a lock still.
LEMMA LockFields ==
    ASSUME NEW l \in Lock
    PROVE  /\ [l EXCEPT !.written = TRUE, !.old = FALSE] \in Lock /\ [l EXCEPT !.old = TRUE] \in Lock
           /\ [l EXCEPT !.written = TRUE, !.old = FALSE].by = l.by /\ [l EXCEPT !.old = TRUE].by = l.by
           /\ [l EXCEPT !.written = TRUE, !.old = FALSE] # NoLock /\ [l EXCEPT !.old = TRUE] # NoLock
<1>1. /\ [l EXCEPT !.written = TRUE, !.old = FALSE] \in Lock /\ [l EXCEPT !.old = TRUE] \in Lock
      /\ [l EXCEPT !.written = TRUE, !.old = FALSE].by = l.by /\ [l EXCEPT !.old = TRUE].by = l.by
  BY DEF Lock
<1> QED
  BY <1>1, LockAssumption

LEMMA NewLock ==
    ASSUME NEW t \in Token
    PROVE  /\ [by |-> t, written |-> FALSE, old |-> FALSE] \in Lock
           /\ [by |-> t, written |-> FALSE, old |-> FALSE] # NoLock
<1>1. [by |-> t, written |-> FALSE, old |-> FALSE] \in Lock
  BY DEF Lock
<1> QED
  BY <1>1, LockAssumption

LEMMA OrphansFinite == IsFiniteSet(Orphans) /\ Cardinality(Orphans) \in Nat
<1>1. Orphans \in SUBSET Processes
  BY DEF Orphans
<1> QED
  BY <1>1, CacheAssumption, FS_Subset, FS_CardinalityType

\* A step that makes no orphan, or one in another's place, keeps the count.
LEMMA OrphansStay ==
    ASSUME OrphansCounted, takeovers \in Nat, takeovers' = takeovers,
           \/ Orphans' \subseteq Orphans
           \/ \E x \in Orphans : \E y : Orphans' \subseteq (Orphans \ {x}) \union {y}
    PROVE  OrphansCounted'
<1>1. IsFiniteSet(Orphans) /\ Cardinality(Orphans) \in Nat /\ Cardinality(Orphans) <= takeovers
  BY OrphansFinite DEF OrphansCounted
<1>2. Orphans' \in SUBSET Processes
  BY DEF Orphans
<1>3. IsFiniteSet(Orphans') /\ Cardinality(Orphans') \in Nat
  BY <1>2, CacheAssumption, FS_Subset, FS_CardinalityType
<1>4. CASE Orphans' \subseteq Orphans
  <2>1. Cardinality(Orphans') <= Cardinality(Orphans)
    BY <1>1, <1>4, FS_Subset
  <2> QED
    BY <1>1, <1>3, <2>1 DEF OrphansCounted
<1>5. ASSUME NEW x \in Orphans, NEW y, Orphans' \subseteq (Orphans \ {x}) \union {y} PROVE OrphansCounted'
  <2> DEFINE rest == Orphans \ {x}
  <2> DEFINE most == rest \union {y}
  <2>1. IsFiniteSet(rest) /\ Cardinality(rest) = Cardinality(Orphans) - 1
    BY <1>1, FS_RemoveElement
  <2>2. Cardinality(rest) \in Nat
    BY <2>1, FS_CardinalityType
  <2> HIDE DEF rest
  <2>3. IsFiniteSet(most) /\ Cardinality(most) = IF y \in rest THEN Cardinality(rest) ELSE Cardinality(rest) + 1
    BY <2>1, FS_AddElement
  <2>4. Orphans' \in SUBSET most
    BY <1>5 DEF rest
  <2> HIDE DEF most
  <2>5. Cardinality(Orphans') <= Cardinality(most)
    BY <2>3, <2>4, FS_Subset
  <2> QED
    BY <1>1, <1>3, <2>1, <2>2, <2>3, <2>5 DEF OrphansCounted
<1> QED
  BY <1>4, <1>5

LEMMA LockStep == TypeOK /\ LoadFollowsPc /\ OrphansCounted /\ [Next]_vars => OrphansCounted'
<1> SUFFICES ASSUME TypeOK, LoadFollowsPc, OrphansCounted, [Next]_vars PROVE OrphansCounted'
  OBVIOUS
<1>1. /\ pc \in [Processes -> Pc] /\ loads \in [Processes -> 0 .. MaxLoads]
      /\ lock \in Lock \union {NoLock} /\ takeovers \in Nat
  BY DEF TypeOK
<1>2. Orphans' \subseteq Orphans /\ takeovers' = takeovers => OrphansCounted'
  BY <1>1, OrphansStay
<1> USE DEF Goto, Owns, IsMine, MyToken, Orphans, lockVars, bounds
<1>3. ASSUME NEW p \in Processes, HashInputs(p) PROVE Orphans' \subseteq Orphans /\ takeovers' = takeovers
  BY <1>1, <1>3 DEF HashInputs
<1>4. ASSUME NEW p \in Processes, Lookup(p) PROVE Orphans' \subseteq Orphans /\ takeovers' = takeovers
  BY <1>1, <1>4 DEF Lookup, Hit
<1>5. ASSUME NEW p \in Processes, ReadSource(p) PROVE Orphans' \subseteq Orphans /\ takeovers' = takeovers
  BY <1>1, <1>5 DEF ReadSource
<1>6. ASSUME NEW p \in Processes, Parse(p) PROVE Orphans' \subseteq Orphans /\ takeovers' = takeovers
  BY <1>1, <1>6 DEF Parse, Hit
<1>7. ASSUME NEW p \in Processes, CreateTemporary(p) PROVE Orphans' \subseteq Orphans /\ takeovers' = takeovers
  BY <1>1, <1>7 DEF CreateTemporary
<1>8. ASSUME NEW p \in Processes, WriteTemporary(p) PROVE Orphans' \subseteq Orphans /\ takeovers' = takeovers
  BY <1>1, <1>8 DEF WriteTemporary
<1>9. ASSUME NEW p \in Processes, Rename(p) PROVE Orphans' \subseteq Orphans /\ takeovers' = takeovers
  BY <1>1, <1>9 DEF Rename
<1>10. ASSUME NEW p \in Processes, FinishCopy(p) PROVE Orphans' \subseteq Orphans /\ takeovers' = takeovers
  BY <1>1, <1>10 DEF FinishCopy
<1>11. ASSUME NEW p \in Processes, CheckAge(p) PROVE Orphans' \subseteq Orphans /\ takeovers' = takeovers
  BY <1>1, <1>11 DEF CheckAge
<1>12. ASSUME NEW p \in Processes, ObserveToken(p) PROVE Orphans' \subseteq Orphans /\ takeovers' = takeovers
  BY <1>1, <1>12 DEF ObserveToken
<1>13. ASSUME NEW p \in Processes, ConfirmStale(p) PROVE Orphans' \subseteq Orphans /\ takeovers' = takeovers
  BY <1>1, <1>13 DEF ConfirmStale
<1>14. ASSUME NEW p \in Processes, CheckRecent(p) PROVE Orphans' \subseteq Orphans /\ takeovers' = takeovers
  BY <1>1, <1>14 DEF CheckRecent
<1>15. ASSUME NEW p \in Processes, Prune(p) PROVE Orphans' \subseteq Orphans /\ takeovers' = takeovers
  BY <1>1, <1>15 DEF Prune, RemoveFile
<1>16. ASSUME NEW p \in Processes, RecordCheck(p) PROVE Orphans' \subseteq Orphans /\ takeovers' = takeovers
  BY <1>1, <1>16 DEF RecordCheck
<1>17. ASSUME NEW p \in Processes, DropCheck(p) PROVE Orphans' \subseteq Orphans /\ takeovers' = takeovers
  BY <1>1, <1>17 DEF DropCheck
<1>18. ASSUME NEW p \in Processes, Crash(p) PROVE Orphans' \subseteq Orphans /\ takeovers' = takeovers
  BY <1>1, <1>18 DEF Crash
<1>19. ASSUME NEW p \in Processes, Restart(p) PROVE Orphans' \subseteq Orphans /\ takeovers' = takeovers
  BY <1>1, <1>19 DEF Restart
<1>20. ASSUME NEW p \in Processes, RemoveStale(p) PROVE OrphansCounted'
  <2>1. /\ lock' = NoLock /\ loads' = loads /\ \A q \in Processes : Owns(q)' <=> Owns(q)
        /\ takeovers' = IF \E q \in Processes : Owns(q) /\ IsMine(q) THEN takeovers + 1 ELSE takeovers
    BY <1>1, <1>20 DEF RemoveStale
  <2>2. CASE ~\E q \in Processes : Owns(q) /\ IsMine(q)
    BY <1>2, <2>1, <2>2
  <2>3. ASSUME NEW q \in Processes, Owns(q), IsMine(q) PROVE OrphansCounted'
    <3>1. Orphans' \in SUBSET (Orphans \union {q})
      <4>1. ASSUME NEW r \in Processes, Owns(r), IsMine(r) PROVE r = q
        <5>1. lock.by = [owner |-> r, load |-> loads[r]] /\ lock.by = [owner |-> q, load |-> loads[q]]
          BY <2>3, <4>1
        <5> QED
          BY <5>1
      <4> QED
        BY <2>1, <4>1
    <3> HIDE DEF Orphans
    <3>2. IsFiniteSet(Orphans) /\ Cardinality(Orphans) \in Nat
      BY OrphansFinite
    <3>3. /\ IsFiniteSet(Orphans \union {q})
          /\ Cardinality(Orphans \union {q}) = IF q \in Orphans THEN Cardinality(Orphans) ELSE Cardinality(Orphans) + 1
      BY <3>2, FS_AddElement
    <3>4. /\ IsFiniteSet(Orphans') /\ Cardinality(Orphans') \in Nat
          /\ Cardinality(Orphans') <= Cardinality(Orphans \union {q})
      BY <3>1, <3>3, FS_Subset, FS_CardinalityType
    <3>5. takeovers' = takeovers + 1
      BY <2>1, <2>3
    <3> QED
      BY <1>1, <3>2, <3>3, <3>4, <3>5 DEF OrphansCounted
  <2> QED
    BY <2>2, <2>3
<1>21. ASSUME NEW p \in Processes, CreateLock(p) PROVE Orphans' \subseteq Orphans /\ takeovers' = takeovers
  <2>1. CASE CanCreate
    <3>1. lock' = [by |-> MyToken(p), written |-> FALSE, old |-> FALSE] /\ takeovers' = takeovers /\ loads' = loads
      BY <1>21, <2>1 DEF CreateLock
    <3>2. MyToken(p) \in Token
      BY <1>21, MyTokenType DEF CreateLock
    <3>3. lock' # NoLock
      BY <3>1, <3>2, NewLock
    <3>4. \A q \in Processes \ {p} : Owns(q)' => Owns(q)
      BY <1>1, <1>21 DEF CreateLock
    <3>5. \A q \in Processes : ~IsMine(q)
      BY <2>1 DEF CanCreate
    <3> QED
      BY <3>1, <3>3, <3>4, <3>5
  <2>2. CASE ~CanCreate
    BY <1>1, <1>21, <2>2 DEF CreateLock
  <2> QED
    BY <2>1, <2>2
<1>22. ASSUME NEW p \in Processes, WriteToken(p) PROVE Orphans' \subseteq Orphans /\ takeovers' = takeovers
  <2>1. CASE IsMine(p)
    <3>1. /\ lock' # NoLock /\ lock'.by = lock.by /\ loads' = loads /\ takeovers' = takeovers
      BY <1>1, <1>22, <2>1, LockFields DEF WriteToken
    <3>2. \A q \in Processes : Owns(q)' => Owns(q)
      BY <1>1, <1>22 DEF WriteToken
    <3> QED
      BY <3>1, <3>2
  <2>2. CASE ~IsMine(p)
    BY <1>1, <1>22, <2>2 DEF WriteToken
  <2> QED
    BY <2>1, <2>2
<1>23. ASSUME NEW p \in Processes, DropLock(p) PROVE OrphansCounted'
  <2>1. /\ takeovers' = takeovers /\ loads' = loads /\ Owns(p)
        /\ \A q \in Processes : Owns(q)' => q # p /\ Owns(q)
    BY <1>1, <1>23 DEF DropLock
  <2>2. ASSUME NEW q \in Processes, NEW r \in Processes, IsMine(q), IsMine(r) PROVE q = r
    <3>1. lock.by = [owner |-> r, load |-> loads[r]] /\ lock.by = [owner |-> q, load |-> loads[q]]
      BY <2>2
    <3> QED
      BY <3>1
  <2>3. CASE IsMine(p)
    <3>1. Orphans' \subseteq Orphans
      BY <2>1, <2>2, <2>3
    <3> QED
      BY <1>2, <2>1, <3>1
  <2>4. CASE ~IsMine(p)
    <3>1. p \in Orphans
      BY <2>1, <2>4
    <3>2. \E y : Orphans' \subseteq (Orphans \ {p}) \union {y}
      <4>1. CASE \E q \in Processes : IsMine(q)
        BY <2>1, <2>2, <4>1
      <4>2. CASE ~\E q \in Processes : IsMine(q)
        BY <2>1, <4>2
      <4> QED
        BY <4>1, <4>2
    <3> HIDE DEF Orphans
    <3> QED
      BY <1>1, <2>1, <3>1, <3>2, OrphansStay
  <2> QED
    BY <2>3, <2>4
<1>24. ASSUME EditSource PROVE Orphans' \subseteq Orphans /\ takeovers' = takeovers
  BY <1>1, <1>24 DEF EditSource
<1>25. ASSUME CheckExpires PROVE Orphans' \subseteq Orphans /\ takeovers' = takeovers
  BY <1>1, <1>25 DEF CheckExpires
<1>26. ASSUME CommandPrunes PROVE Orphans' \subseteq Orphans /\ takeovers' = takeovers
  BY <1>1, <1>26 DEF CommandPrunes, RemoveFile
<1>27. ASSUME Age PROVE Orphans' \subseteq Orphans /\ takeovers' = takeovers
  <2>1. /\ lock' # NoLock /\ lock'.by = lock.by /\ UNCHANGED <<loads, takeovers, pc>>
    BY <1>1, <1>27, LockFields DEF Age
  <2> QED
    BY <2>1
<1>28. ASSUME UNCHANGED vars PROVE Orphans' \subseteq Orphans /\ takeovers' = takeovers
  BY <1>1, <1>28 DEF vars
<1> HIDE DEF Goto, Owns, IsMine, MyToken, Orphans, lockVars, bounds
<1> QED
  BY <1>2, <1>3, <1>4, <1>5, <1>6, <1>7, <1>8, <1>9, <1>10, <1>11, <1>12, <1>13, <1>14, <1>15,
     <1>16, <1>17, <1>18, <1>19, <1>20, <1>21, <1>22, <1>23, <1>24, <1>25, <1>26, <1>27, <1>28 DEF Next, LoadStep, PruneStep

-----------------------------------------------------------------------------
(* The entries in memory.                                                    *)

LEMMA RemoveAtEntries ==
    ASSUME NEW s \in Seq(Entry), NEW i \in 1 .. Len(s)
    PROVE  /\ RemoveAt(s, i) \in Seq(Entry) /\ Len(RemoveAt(s, i)) = Len(s) - 1
           /\ HoldsItsKey(s) => HoldsItsKey(RemoveAt(s, i))
<1> DEFINE a == SubSeq(s, 1, i - 1)
<1> DEFINE b == SubSeq(s, i + 1, Len(s))
<1>1. Len(s) \in Nat /\ i \in Nat /\ 1 <= i /\ i <= Len(s) /\ \A j \in 1 .. Len(s) : s[j] \in Entry
  OBVIOUS
<1>2. a \in Seq(Entry) /\ Len(a) = i - 1 /\ \A j \in 1 .. i - 1 : a[j] = s[j]
  <2>1. \A j \in 1 .. i - 1 : s[j] \in Entry
    BY <1>1
  <2>2. /\ a \in Seq(Entry) /\ Len(a) = IF 1 <= i - 1 THEN (i - 1) - 1 + 1 ELSE 0
        /\ \A j \in 1 .. (i - 1) - 1 + 1 : a[j] = s[1 + j - 1]
    BY <1>1, <2>1, SubSeqProperties
  <2> QED
    BY <1>1, <2>2
<1>3. b \in Seq(Entry) /\ Len(b) = Len(s) - i /\ \A j \in 1 .. Len(s) - i : b[j] = s[i + j]
  <2>1. \A j \in i + 1 .. Len(s) : s[j] \in Entry
    BY <1>1
  <2>2. /\ b \in Seq(Entry) /\ Len(b) = IF i + 1 <= Len(s) THEN Len(s) - (i + 1) + 1 ELSE 0
        /\ \A j \in 1 .. Len(s) - (i + 1) + 1 : b[j] = s[i + 1 + j - 1]
    BY <1>1, <2>1, SubSeqProperties
  <2> QED
    BY <1>1, <2>2
<1> HIDE DEF a, b
<1> DEFINE w == a \o b
<1>4. /\ w \in Seq(Entry) /\ Len(w) = Len(a) + Len(b)
      /\ \A j \in 1 .. Len(a) + Len(b) : w[j] = IF j <= Len(a) THEN a[j] ELSE b[j - Len(a)]
  BY <1>2, <1>3, ConcatProperties
<1> HIDE DEF w
<1>5. Len(w) = Len(s) - 1
  BY <1>1, <1>2, <1>3, <1>4
<1>6. ASSUME NEW j \in 1 .. Len(w) PROVE \E k \in 1 .. Len(s) : w[j] = s[k]
  <2>1. CASE j <= i - 1
    <3>1. j \in 1 .. i - 1 /\ j \in 1 .. Len(a) + Len(b) /\ j \in 1 .. Len(s)
      BY <1>1, <1>2, <1>3, <1>5, <2>1
    <3>2. w[j] = a[j]
      BY <1>2, <1>4, <2>1, <3>1
    <3>3. w[j] = s[j]
      BY <1>2, <3>1, <3>2
    <3> QED
      BY <3>1, <3>3
  <2>2. CASE j > i - 1
    <3>1. w[j] = b[j - (i - 1)] /\ j - (i - 1) \in 1 .. Len(s) - i
      BY <1>1, <1>2, <1>3, <1>4, <1>5, <2>2
    <3>2. w[j] = s[i + (j - (i - 1))] /\ i + (j - (i - 1)) \in 1 .. Len(s)
      BY <1>1, <1>3, <3>1
    <3> QED
      BY <3>2
  <2> QED
    BY <1>1, <1>5, <2>1, <2>2
<1>7. HoldsItsKey(s) => HoldsItsKey(w)
  BY <1>6 DEF HoldsItsKey
<1> QED
  BY <1>4, <1>5, <1>7 DEF w, a, b, RemoveAt

LEMMA ShiftRemoveEntries ==
    ASSUME NEW s \in Seq(Entry), NEW key
    PROVE  /\ ShiftRemove(s, key) \in Seq(Entry) /\ Len(ShiftRemove(s, key)) <= Len(s)
           /\ HoldsItsKey(s) => HoldsItsKey(ShiftRemove(s, key))
<1> DEFINE at == {i \in DOMAIN s : s[i].key = key}
<1>1. CASE at = {}
  BY <1>1 DEF ShiftRemove
<1>2. CASE at # {}
  <2> DEFINE i == CHOOSE i \in at : TRUE
  <2>1. i \in 1 .. Len(s) /\ Len(s) \in Nat
    BY <1>2
  <2>2. ShiftRemove(s, key) = RemoveAt(s, i)
    BY <1>2 DEF ShiftRemove
  <2> HIDE DEF i
  <2> QED
    BY <2>1, <2>2, RemoveAtEntries
<1> QED
  BY <1>1, <1>2

\* The bound holds after every insertion: one entry too many is one evicted.
LEMMA RememberedEntries ==
    ASSUME TypeOK, NEW p \in Processes, NEW key \in Contents
    PROVE  /\ Remembered(p, key, key) \in Seq(Entry)
           /\ Len(Remembered(p, key, key)) <= MaxMemory
           /\ HoldsItsKey(memory[p]) => HoldsItsKey(Remembered(p, key, key))
<1> DEFINE new == [key |-> key, holds |-> key]
<1> DEFINE s == ShiftRemove(memory[p], key)
<1> DEFINE all == Append(s, new)
<1> DEFINE from == IF Len(all) > MaxMemory THEN 2 ELSE 1
<1>1. memory[p] \in Seq(Entry) /\ Len(memory[p]) \in Nat /\ Len(memory[p]) <= MaxMemory /\ MaxMemory \in Nat
  <2>1. memory \in [Processes -> Seq(Entry)] /\ Len(memory[p]) <= MaxMemory
    BY DEF TypeOK, Entry
  <2>2. memory[p] \in Seq(Entry)
    BY <2>1
  <2> QED
    BY <2>1, <2>2, CacheAssumption
<1>2. /\ s \in Seq(Entry) /\ Len(s) \in Nat /\ Len(s) <= MaxMemory
      /\ HoldsItsKey(memory[p]) => HoldsItsKey(s)
  BY <1>1, ShiftRemoveEntries
<1> HIDE DEF s
<1>3. new \in Entry /\ new.holds = new.key
  BY DEF Entry
<1> HIDE DEF new
<1>4. /\ all \in Seq(Entry) /\ Len(all) = Len(s) + 1 /\ all[Len(s) + 1] = new
      /\ \A i \in 1 .. Len(s) : all[i] = s[i]
  BY <1>2, <1>3
<1>5. HoldsItsKey(memory[p]) => HoldsItsKey(all)
  <2> SUFFICES ASSUME HoldsItsKey(s), NEW i \in 1 .. Len(all) PROVE all[i].holds = all[i].key
    BY <1>2 DEF HoldsItsKey
  <2>1. CASE i = Len(s) + 1
    BY <1>3, <1>4, <2>1
  <2>2. CASE i \in 1 .. Len(s)
    BY <1>4, <2>2 DEF HoldsItsKey
  <2> QED
    BY <1>2, <1>4, <2>1, <2>2
<1> HIDE DEF all
<1>6. from \in {1, 2} /\ (Len(all) > MaxMemory => from = 2) /\ Len(all) \in Nat \ {0}
  BY <1>2, <1>4
<1> DEFINE w == SubSeq(all, from, Len(all))
<1>7. /\ w \in Seq(Entry) /\ Len(w) = Len(all) - from + 1
      /\ \A i \in 1 .. Len(w) : w[i] = all[from + i - 1] /\ from + i - 1 \in 1 .. Len(all)
  <2> HIDE DEF from
  <2>1. \A i \in from .. Len(all) : all[i] \in Entry
    BY <1>4, <1>6
  <2>2. /\ w \in Seq(Entry) /\ Len(w) = IF from <= Len(all) THEN Len(all) - from + 1 ELSE 0
        /\ \A i \in 1 .. Len(all) - from + 1 : w[i] = all[from + i - 1]
    BY <1>6, <2>1, SubSeqProperties
  <2> QED
    BY <1>6, <2>2
<1>8. Len(w) <= MaxMemory
  BY <1>1, <1>2, <1>4, <1>6, <1>7
<1>9. HoldsItsKey(all) => HoldsItsKey(w)
  BY <1>7 DEF HoldsItsKey
<1>10. Remembered(p, key, key) = w
  BY DEF Remembered, all, s, new
<1> QED
  BY <1>5, <1>7, <1>8, <1>9, <1>10

LEMMA FoundIsTheKey ==
    ASSUME TypeOK, CacheIsHonest, NEW p \in Processes, NEW key \in Contents
    PROVE  Found(p, key) \subseteq {key}
<1>1. memory[p] \in Seq(Entry) /\ HoldsItsKey(memory[p]) /\ artifact[key] \in {None, Torn, key}
  BY DEF TypeOK, Entry, CacheIsHonest
<1>2. \A i \in DOMAIN memory[p] : memory[p][i].holds = memory[p][i].key
  BY <1>1 DEF HoldsItsKey
<1> QED
  BY <1>1, <1>2 DEF Found

-----------------------------------------------------------------------------
(* The loads.                                                                *)

LEMMA InitCache == Init => CacheInv /\ OrphansCounted
<1> SUFFICES ASSUME Init PROVE CacheInv /\ OrphansCounted
  OBVIOUS
<1>1. TypeOK
  <2>1. MaxMemory \in Nat /\ MaxLoads \in Nat /\ MaxEdits \in Nat /\ MaxFaults \in Nat /\ First \in Contents
    BY CacheAssumption
  <2>2. source \in Contents /\ edits \in 0 .. MaxEdits /\ faults \in 0 .. MaxFaults
    BY <2>1 DEF Init
  <2>3. /\ artifact \in [Contents -> Contents \union {None, Torn}]
        /\ temporary \in [Processes -> {"none", "part", "full"}]
        /\ pc \in [Processes -> Pc] /\ {hashed, read, result} \subseteq [Processes -> Contents \union {None}]
        /\ observed \in [Processes -> Token \union {Empty}] /\ lock \in Lock \union {NoLock}
        /\ checked \in BOOLEAN
    BY DEF Init, Pc
  <2>4. loads \in [Processes -> 0 .. MaxLoads] /\ takeovers \in Nat
    BY <2>1 DEF Init
  <2>5. /\ memory \in [Processes -> Seq([key : Contents, holds : Contents])]
        /\ \A p \in Processes : Len(memory[p]) <= MaxMemory
    BY <2>1 DEF Init
  <2> QED
    BY <2>2, <2>3, <2>4, <2>5 DEF TypeOK
<1>2. CacheIsHonest /\ LoadFollowsPc /\ LoadedWasThere
  BY DEF Init, CacheIsHonest, HoldsItsKey, LoadFollowsPc, LoadedWasThere
<1>3. OrphansCounted
  <2>1. Orphans = {} /\ takeovers = 0
    BY DEF Init, Orphans, Owns
  <2> QED
    BY <2>1, FS_EmptySet DEF OrphansCounted
<1> QED
  BY <1>1, <1>2, <1>3 DEF CacheInv

\* A hit gives the load the parse of the key it asked for.
LEMMA HitStep ==
    ASSUME CacheInv, NEW p \in Processes, NEW key \in Contents, Hit(p, key)
    PROVE  /\ result' = [result EXCEPT ![p] = key]
           /\ memory' = [memory EXCEPT ![p] = Remembered(p, key, key)]
           /\ pc' = [pc EXCEPT ![p] = "idle"]
BY FoundIsTheKey DEF CacheInv, Hit, Goto

LEMMA MemoryStep ==
    ASSUME CacheInv, NEW p \in Processes, NEW key \in Contents,
           memory' = [memory EXCEPT ![p] = Remembered(p, key, key)]
    PROVE  /\ memory' \in [Processes -> Seq(Entry)]
           /\ \A q \in Processes : Len(memory'[q]) <= MaxMemory /\ HoldsItsKey(memory'[q])
<1>1. /\ memory \in [Processes -> Seq(Entry)]
      /\ \A q \in Processes : Len(memory[q]) <= MaxMemory /\ HoldsItsKey(memory[q])
  BY DEF CacheInv, TypeOK, Entry, CacheIsHonest
<1>2. /\ Remembered(p, key, key) \in Seq(Entry) /\ Len(Remembered(p, key, key)) <= MaxMemory
      /\ HoldsItsKey(Remembered(p, key, key))
  BY <1>1, RememberedEntries DEF CacheInv
<1> HIDE DEF Entry
<1> QED
  BY <1>1, <1>2

LEMMA CacheStep == CacheInv /\ [Next]_vars => CacheInv'
<1> SUFFICES ASSUME CacheInv, [Next]_vars PROVE CacheInv'
  OBVIOUS
<1>1. /\ source \in Contents /\ artifact \in [Contents -> Contents \union {None, Torn}]
      /\ temporary \in [Processes -> {"none", "part", "full"}]
      /\ memory \in [Processes -> Seq(Entry)] /\ \A q \in Processes : Len(memory[q]) <= MaxMemory
      /\ lock \in Lock \union {NoLock} /\ checked \in BOOLEAN /\ takeovers \in Nat
      /\ pc \in [Processes -> Pc]
      /\ hashed \in [Processes -> Contents \union {None}]
      /\ read \in [Processes -> Contents \union {None}]
      /\ result \in [Processes -> Contents \union {None}]
      /\ observed \in [Processes -> Token \union {Empty}]
      /\ loads \in [Processes -> 0 .. MaxLoads]
      /\ edits \in 0 .. MaxEdits /\ faults \in 0 .. MaxFaults
  BY DEF CacheInv, TypeOK, Entry
<1>2. MaxMemory \in Nat /\ MaxLoads \in Nat /\ MaxEdits \in Nat /\ MaxFaults \in Nat /\ None \notin Contents
  BY CacheAssumption
<1> USE DEF Goto, lockVars, loadVars, bounds
<1>3. ASSUME NEW p \in Processes, HashInputs(p) PROVE CacheInv'
  <2>1. TypeOK'
    <3>1. LoadsSoFar + 1 \in 0 .. MaxLoads
      BY <1>2, <1>3, LoadsType DEF HashInputs, CacheInv
    <3>2. loads' \in [Processes -> 0 .. MaxLoads]
      BY <1>1, <1>3, <3>1 DEF HashInputs
    <3>3. {hashed, read, result}' \subseteq [Processes -> Contents \union {None}] /\ pc' \in [Processes -> Pc]
      BY <1>1, <1>3 DEF HashInputs, Pc
    <3> QED
      BY <1>1, <1>3, <3>2, <3>3 DEF HashInputs, CacheInv, TypeOK
  <2>2. CacheIsHonest'
    BY <1>1, <1>3 DEF HashInputs, CacheInv, CacheIsHonest
  <2>3. LoadFollowsPc'
    BY <1>1, <1>2, <1>3, LoadsType DEF HashInputs, CacheInv, LoadFollowsPc
  <2>4. LoadedWasThere'
    BY <1>1, <1>3 DEF HashInputs, CacheInv, LoadedWasThere
  <2> QED
    BY <2>1, <2>2, <2>3, <2>4 DEF CacheInv
<1>4. ASSUME NEW p \in Processes, Lookup(p) PROVE CacheInv'
  <2>1. TypeOK'
    <3>1. hashed[p] \in Contents
      BY <1>4 DEF Lookup, CacheInv, LoadFollowsPc
    <3>2. CASE Hit(p, hashed[p])
      <4>0. result' = [result EXCEPT ![p] = hashed[p]] /\ pc' = [pc EXCEPT ![p] = "idle"]
        BY <3>1, <3>2, HitStep
      <4>1. result' \in [Processes -> Contents \union {None}] /\ pc' \in [Processes -> Pc]
        BY <1>1, <3>1, <4>0 DEF Pc
      <4>2. memory' \in [Processes -> Seq(Entry)] /\ \A q \in Processes : Len(memory'[q]) <= MaxMemory
        BY <3>1, <3>2, HitStep, MemoryStep
      <4> QED
        BY <1>1, <1>4, <4>1, <4>2 DEF Lookup, TypeOK, Entry
    <3>3. CASE Goto(p, "read") /\ UNCHANGED <<memory, result>>
      <4>1. pc' \in [Processes -> Pc]
        BY <1>1, <3>3 DEF Pc
      <4> QED
        BY <1>1, <1>4, <3>3, <4>1 DEF Lookup, TypeOK, Entry
    <3> QED
      BY <1>4, <3>2, <3>3 DEF Lookup
  <2>2. CacheIsHonest'
    <3>1. hashed[p] \in Contents
      BY <1>4 DEF Lookup, CacheInv, LoadFollowsPc
    <3>2. memory' = memory \/ memory' = [memory EXCEPT ![p] = Remembered(p, hashed[p], hashed[p])]
      BY <1>4, <3>1, HitStep DEF Lookup
    <3>3. \A q \in Processes : HoldsItsKey(memory'[q])
      BY <3>1, <3>2, MemoryStep DEF CacheInv, CacheIsHonest
    <3> QED
      BY <1>4, <3>3 DEF Lookup, CacheInv, CacheIsHonest
  <2>3. LoadFollowsPc'
    BY <1>1, <1>2, <1>4, HitStep DEF Lookup, CacheInv, LoadFollowsPc
  <2>4. LoadedWasThere'
    <3>1. hashed[p] \in Contents
      BY <1>4 DEF Lookup, CacheInv, LoadFollowsPc
    <3>2. result' = result \/ result' = [result EXCEPT ![p] = hashed[p]]
      BY <1>4, <3>1, HitStep DEF Lookup
    <3>3. hashed' = hashed /\ read' = read
      BY <1>4 DEF Lookup
    <3> QED
      BY <1>1, <3>2, <3>3 DEF CacheInv, LoadedWasThere
  <2> QED
    BY <2>1, <2>2, <2>3, <2>4 DEF CacheInv
<1>5. ASSUME NEW p \in Processes, ReadSource(p) PROVE CacheInv'
  <2>1. TypeOK'
    <3>1. read' \in [Processes -> Contents \union {None}] /\ pc' \in [Processes -> Pc]
      BY <1>1, <1>5 DEF ReadSource, Pc
    <3> QED
      BY <1>1, <1>5, <3>1 DEF ReadSource, CacheInv, TypeOK
  <2>2. CacheIsHonest'
    BY <1>1, <1>5 DEF ReadSource, CacheInv, CacheIsHonest
  <2>3. LoadFollowsPc'
    BY <1>1, <1>2, <1>5 DEF ReadSource, CacheInv, LoadFollowsPc
  <2>4. LoadedWasThere'
    BY <1>1, <1>5 DEF ReadSource, CacheInv, LoadFollowsPc, LoadedWasThere
  <2> QED
    BY <2>1, <2>2, <2>3, <2>4 DEF CacheInv
<1>6. ASSUME NEW p \in Processes, Parse(p) PROVE CacheInv'
  <2>1. TypeOK'
    <3>1. read[p] \in Contents
      BY <1>6 DEF Parse, CacheInv, LoadFollowsPc
    <3>2. CASE memory' = [memory EXCEPT ![p] = Remembered(p, read[p], read[p])]
               /\ result' = [result EXCEPT ![p] = read[p]] /\ (Goto(p, "idle") \/ Goto(p, "create"))
      <4>1. result' \in [Processes -> Contents \union {None}] /\ pc' \in [Processes -> Pc]
        BY <1>1, <3>1, <3>2 DEF Pc
      <4>2. memory' \in [Processes -> Seq(Entry)] /\ \A q \in Processes : Len(memory'[q]) <= MaxMemory
        BY <3>1, <3>2, MemoryStep
      <4> QED
        BY <1>1, <1>6, <4>1, <4>2 DEF Parse, TypeOK, Entry
    <3>3. CASE Goto(p, "idle") /\ UNCHANGED <<memory, result>>
      <4>1. pc' \in [Processes -> Pc]
        BY <1>1, <3>3 DEF Pc
      <4> QED
        BY <1>1, <1>6, <3>3, <4>1 DEF Parse, TypeOK, Entry
    <3> QED
      BY <1>6, <3>1, <3>2, <3>3, HitStep DEF Parse, StoreKey
  <2>2. CacheIsHonest'
    BY <1>1, <1>6, HitStep, MemoryStep DEF Parse, CacheInv, CacheIsHonest, LoadFollowsPc, StoreKey
  <2>3. LoadFollowsPc'
    <3>1. read[p] \in Contents
      BY <1>6 DEF Parse, CacheInv, LoadFollowsPc
    <3>2. \/ pc' = [pc EXCEPT ![p] = "idle"] /\ \A q \in Processes \ {p} : result'[q] = result[q]
          \/ pc' = [pc EXCEPT ![p] = "create"] /\ result' = [result EXCEPT ![p] = read[p]]
      BY <1>1, <1>6, <3>1, HitStep DEF Parse, StoreKey
    <3> QED
      BY <1>1, <1>6, <3>1, <3>2 DEF Parse, CacheInv, LoadFollowsPc
  <2>4. LoadedWasThere'
    <3>1. result' = [result EXCEPT ![p] = read[p]] \/ result' = result
      BY <1>6, HitStep DEF Parse, StoreKey, CacheInv, LoadFollowsPc
    <3> QED
      BY <1>1, <1>6, <3>1 DEF Parse, CacheInv, LoadedWasThere
  <2> QED
    BY <2>1, <2>2, <2>3, <2>4 DEF CacheInv
<1>7. ASSUME NEW p \in Processes, CreateTemporary(p) PROVE CacheInv'
  <2>1. TypeOK'
    BY <1>1, <1>2, <1>7 DEF CreateTemporary, CacheInv, TypeOK, Pc
  <2>2. CacheIsHonest'
    BY <1>1, <1>7 DEF CreateTemporary, CacheInv, CacheIsHonest
  <2>3. LoadFollowsPc'
    BY <1>1, <1>2, <1>7 DEF CreateTemporary, CacheInv, LoadFollowsPc
  <2>4. LoadedWasThere'
    BY <1>1, <1>7 DEF CreateTemporary, CacheInv, LoadedWasThere
  <2> QED
    BY <2>1, <2>2, <2>3, <2>4 DEF CacheInv
<1>8. ASSUME NEW p \in Processes, WriteTemporary(p) PROVE CacheInv'
  <2>1. TypeOK'
    BY <1>1, <1>2, <1>8 DEF WriteTemporary, CacheInv, TypeOK, Pc
  <2>2. CacheIsHonest'
    BY <1>1, <1>8 DEF WriteTemporary, CacheInv, CacheIsHonest
  <2>3. LoadFollowsPc'
    BY <1>1, <1>2, <1>8 DEF WriteTemporary, CacheInv, LoadFollowsPc
  <2>4. LoadedWasThere'
    BY <1>1, <1>8 DEF WriteTemporary, CacheInv, LoadedWasThere
  <2> QED
    BY <2>1, <2>2, <2>3, <2>4 DEF CacheInv
<1>9. ASSUME NEW p \in Processes, Rename(p) PROVE CacheInv'
  <2>1. TypeOK'
    <3>1. pc' \in [Processes -> Pc]
      BY <1>1, <1>9 DEF Rename, Pc
    <3>2. temporary' \in [Processes -> {"none", "part", "full"}]
      BY <1>1, <1>9 DEF Rename
    <3>3. faults' \in 0 .. MaxFaults
      BY <1>1, <1>2, <1>9 DEF Rename, Fail
    <3>4. artifact' \in [Contents -> Contents \union {None, Torn}]
      BY <1>1, <1>9 DEF Rename
    <3> QED
      BY <1>1, <1>9, <3>1, <3>2, <3>3, <3>4 DEF Rename, CacheInv, TypeOK
  <2>2. CacheIsHonest'
    BY <1>1, <1>9 DEF Rename, CacheInv, CacheIsHonest, LoadFollowsPc, StoreKey
  <2>3. LoadFollowsPc'
    BY <1>1, <1>2, <1>9 DEF Rename, CacheInv, LoadFollowsPc, StoreKey
  <2>4. LoadedWasThere'
    BY <1>1, <1>9 DEF Rename, CacheInv, LoadedWasThere
  <2> QED
    BY <2>1, <2>2, <2>3, <2>4 DEF CacheInv
<1>10. ASSUME NEW p \in Processes, FinishCopy(p) PROVE CacheInv'
  <2>1. TypeOK'
    BY <1>1, <1>2, <1>10 DEF FinishCopy, CacheInv, TypeOK, Pc
  <2>2. CacheIsHonest'
    BY <1>1, <1>10 DEF FinishCopy, CacheInv, CacheIsHonest, LoadFollowsPc, StoreKey
  <2>3. LoadFollowsPc'
    BY <1>1, <1>2, <1>10 DEF FinishCopy, CacheInv, LoadFollowsPc, StoreKey
  <2>4. LoadedWasThere'
    BY <1>1, <1>10 DEF FinishCopy, CacheInv, LoadedWasThere
  <2> QED
    BY <2>1, <2>2, <2>3, <2>4 DEF CacheInv
<1>11. ASSUME NEW p \in Processes, CheckAge(p) PROVE CacheInv'
  <2>1. TypeOK'
    BY <1>1, <1>2, <1>11 DEF CheckAge, CacheInv, TypeOK, Pc
  <2>2. CacheIsHonest'
    BY <1>1, <1>11 DEF CheckAge, CacheInv, CacheIsHonest
  <2>3. LoadFollowsPc'
    BY <1>1, <1>2, <1>11 DEF CheckAge, CacheInv, LoadFollowsPc
  <2>4. LoadedWasThere'
    BY <1>1, <1>11 DEF CheckAge, CacheInv, LoadedWasThere
  <2> QED
    BY <2>1, <2>2, <2>3, <2>4 DEF CacheInv
<1>12. ASSUME NEW p \in Processes, ObserveToken(p) PROVE CacheInv'
  <2>1. TypeOK'
    BY <1>1, <1>2, <1>12 DEF ObserveToken, CacheInv, TypeOK, Pc, TokenIn, Lock
  <2>2. CacheIsHonest'
    BY <1>1, <1>12 DEF ObserveToken, CacheInv, CacheIsHonest
  <2>3. LoadFollowsPc'
    BY <1>1, <1>2, <1>12 DEF ObserveToken, CacheInv, LoadFollowsPc
  <2>4. LoadedWasThere'
    BY <1>1, <1>12 DEF ObserveToken, CacheInv, LoadedWasThere
  <2> QED
    BY <2>1, <2>2, <2>3, <2>4 DEF CacheInv
<1>13. ASSUME NEW p \in Processes, ConfirmStale(p) PROVE CacheInv'
  <2>1. TypeOK'
    BY <1>1, <1>2, <1>13 DEF ConfirmStale, CacheInv, TypeOK, Pc
  <2>2. CacheIsHonest'
    BY <1>1, <1>13 DEF ConfirmStale, CacheInv, CacheIsHonest
  <2>3. LoadFollowsPc'
    BY <1>1, <1>2, <1>13 DEF ConfirmStale, CacheInv, LoadFollowsPc
  <2>4. LoadedWasThere'
    BY <1>1, <1>13 DEF ConfirmStale, CacheInv, LoadedWasThere
  <2> QED
    BY <2>1, <2>2, <2>3, <2>4 DEF CacheInv
<1>14. ASSUME NEW p \in Processes, RemoveStale(p) PROVE CacheInv'
  <2>1. TypeOK'
    <3>1. takeovers' \in Nat
      BY <1>1, <1>14 DEF RemoveStale
    <3>2. pc' \in [Processes -> Pc] /\ lock' \in Lock \union {NoLock}
      BY <1>1, <1>14 DEF RemoveStale, Pc
    <3> QED
      BY <1>1, <1>14, <3>1, <3>2 DEF RemoveStale, CacheInv, TypeOK
  <2>2. CacheIsHonest'
    BY <1>1, <1>14 DEF RemoveStale, CacheInv, CacheIsHonest
  <2>3. LoadFollowsPc'
    BY <1>1, <1>2, <1>14 DEF RemoveStale, CacheInv, LoadFollowsPc
  <2>4. LoadedWasThere'
    BY <1>1, <1>14 DEF RemoveStale, CacheInv, LoadedWasThere
  <2> QED
    BY <2>1, <2>2, <2>3, <2>4 DEF CacheInv
<1>15. ASSUME NEW p \in Processes, CreateLock(p) PROVE CacheInv'
  <2>1. TypeOK'
    <3>0. MyToken(p) \in Token
      BY <1>15, MyTokenType DEF CreateLock, CacheInv
    <3>1. lock' \in Lock \union {NoLock}
      BY <1>1, <1>15, <3>0, NewLock DEF CreateLock
    <3>2. pc' \in [Processes -> Pc]
      <4>1. pc' = [pc EXCEPT ![p] = "token"] \/ pc' = [pc EXCEPT ![p] = "idle"]
        BY <1>15 DEF CreateLock, Goto
      <4> QED
        BY <1>1, <4>1 DEF Pc
    <3> QED
      BY <1>1, <1>15, <3>1, <3>2 DEF CreateLock, CacheInv, TypeOK
  <2>2. CacheIsHonest'
    BY <1>1, <1>15 DEF CreateLock, CacheInv, CacheIsHonest
  <2>3. LoadFollowsPc'
    BY <1>1, <1>2, <1>15 DEF CreateLock, CacheInv, LoadFollowsPc
  <2>4. LoadedWasThere'
    BY <1>1, <1>15 DEF CreateLock, CacheInv, LoadedWasThere
  <2> QED
    BY <2>1, <2>2, <2>3, <2>4 DEF CacheInv
<1>16. ASSUME NEW p \in Processes, WriteToken(p) PROVE CacheInv'
  <2>1. TypeOK'
    <3>1. lock' \in Lock \union {NoLock}
      BY <1>1, <1>16, LockFields DEF WriteToken, IsMine
    <3>2. pc' \in [Processes -> Pc]
      BY <1>1, <1>16 DEF WriteToken, Pc
    <3> QED
      BY <1>1, <1>16, <3>1, <3>2 DEF WriteToken, CacheInv, TypeOK
  <2>2. CacheIsHonest'
    BY <1>1, <1>16 DEF WriteToken, CacheInv, CacheIsHonest
  <2>3. LoadFollowsPc'
    BY <1>1, <1>2, <1>16 DEF WriteToken, CacheInv, LoadFollowsPc
  <2>4. LoadedWasThere'
    BY <1>1, <1>16 DEF WriteToken, CacheInv, LoadedWasThere
  <2> QED
    BY <2>1, <2>2, <2>3, <2>4 DEF CacheInv
<1>17. ASSUME NEW p \in Processes, CheckRecent(p) PROVE CacheInv'
  <2>1. TypeOK'
    BY <1>1, <1>2, <1>17 DEF CheckRecent, CacheInv, TypeOK, Pc
  <2>2. CacheIsHonest'
    BY <1>1, <1>17 DEF CheckRecent, CacheInv, CacheIsHonest
  <2>3. LoadFollowsPc'
    BY <1>1, <1>2, <1>17 DEF CheckRecent, CacheInv, LoadFollowsPc
  <2>4. LoadedWasThere'
    BY <1>1, <1>17 DEF CheckRecent, CacheInv, LoadedWasThere
  <2> QED
    BY <2>1, <2>2, <2>3, <2>4 DEF CacheInv
<1>18. ASSUME NEW p \in Processes, Prune(p) PROVE CacheInv'
  <2>1. TypeOK'
    <3>1. pc' \in [Processes -> Pc]
      BY <1>1, <1>18 DEF Prune, Pc
    <3>2. /\ artifact' \in [Contents -> Contents \union {None, Torn}]
          /\ temporary' \in [Processes -> {"none", "part", "full"}] /\ checked' \in BOOLEAN
      BY <1>1, <1>18 DEF Prune, RemoveFile
    <3> QED
      BY <1>1, <1>18, <3>1, <3>2 DEF Prune, CacheInv, TypeOK
  <2>2. CacheIsHonest'
    BY <1>1, <1>18 DEF Prune, RemoveFile, CacheInv, CacheIsHonest
  <2>3. LoadFollowsPc'
    BY <1>1, <1>2, <1>18 DEF Prune, CacheInv, LoadFollowsPc
  <2>4. LoadedWasThere'
    BY <1>1, <1>18 DEF Prune, CacheInv, LoadedWasThere
  <2> QED
    BY <2>1, <2>2, <2>3, <2>4 DEF CacheInv
<1>19. ASSUME NEW p \in Processes, RecordCheck(p) PROVE CacheInv'
  <2>1. TypeOK'
    BY <1>1, <1>2, <1>19 DEF RecordCheck, CacheInv, TypeOK, Pc
  <2>2. CacheIsHonest'
    BY <1>1, <1>19 DEF RecordCheck, CacheInv, CacheIsHonest
  <2>3. LoadFollowsPc'
    BY <1>1, <1>2, <1>19 DEF RecordCheck, CacheInv, LoadFollowsPc
  <2>4. LoadedWasThere'
    BY <1>1, <1>19 DEF RecordCheck, CacheInv, LoadedWasThere
  <2> QED
    BY <2>1, <2>2, <2>3, <2>4 DEF CacheInv
<1>20. ASSUME NEW p \in Processes, DropCheck(p) PROVE CacheInv'
  <2>1. TypeOK'
    BY <1>1, <1>2, <1>20 DEF DropCheck, CacheInv, TypeOK, Pc
  <2>2. CacheIsHonest'
    BY <1>1, <1>20 DEF DropCheck, CacheInv, CacheIsHonest
  <2>3. LoadFollowsPc'
    BY <1>1, <1>2, <1>20 DEF DropCheck, CacheInv, LoadFollowsPc
  <2>4. LoadedWasThere'
    BY <1>1, <1>20 DEF DropCheck, CacheInv, LoadedWasThere
  <2> QED
    BY <2>1, <2>2, <2>3, <2>4 DEF CacheInv
<1>21. ASSUME NEW p \in Processes, DropLock(p) PROVE CacheInv'
  <2>1. TypeOK'
    BY <1>1, <1>2, <1>21 DEF DropLock, CacheInv, TypeOK, Pc
  <2>2. CacheIsHonest'
    BY <1>1, <1>21 DEF DropLock, CacheInv, CacheIsHonest
  <2>3. LoadFollowsPc'
    BY <1>1, <1>2, <1>21 DEF DropLock, CacheInv, LoadFollowsPc
  <2>4. LoadedWasThere'
    BY <1>1, <1>21 DEF DropLock, CacheInv, LoadedWasThere
  <2> QED
    BY <2>1, <2>2, <2>3, <2>4 DEF CacheInv
<1>22. ASSUME NEW p \in Processes, Crash(p) PROVE CacheInv'
  <2>1. TypeOK'
    <3>1. <<>> \in Seq(Entry) /\ Len(<<>>) = 0
      OBVIOUS
    <3>2. memory' \in [Processes -> Seq(Entry)] /\ \A q \in Processes : Len(memory'[q]) <= MaxMemory
      BY <1>1, <1>2, <1>22, <3>1 DEF Crash
    <3>3. faults' \in 0 .. MaxFaults
      BY <1>1, <1>2, <1>22 DEF Crash, Fail
    <3>4. pc' \in [Processes -> Pc] /\ temporary' \in [Processes -> {"none", "part", "full"}]
      BY <1>1, <1>22 DEF Crash, Pc
    <3> QED
      BY <1>1, <1>22, <3>2, <3>3, <3>4 DEF Crash, TypeOK, Entry
  <2>2. CacheIsHonest'
    <3>1. HoldsItsKey(<<>>)
      BY DEF HoldsItsKey
    <3> QED
      BY <1>1, <1>22, <3>1 DEF Crash, CacheInv, CacheIsHonest
  <2>3. LoadFollowsPc'
    BY <1>1, <1>2, <1>22 DEF Crash, CacheInv, LoadFollowsPc
  <2>4. LoadedWasThere'
    BY <1>1, <1>22 DEF Crash, CacheInv, LoadedWasThere
  <2> QED
    BY <2>1, <2>2, <2>3, <2>4 DEF CacheInv
<1>23. ASSUME NEW p \in Processes, Restart(p) PROVE CacheInv'
  <2>1. TypeOK'
    BY <1>1, <1>2, <1>23 DEF Restart, CacheInv, TypeOK, Pc
  <2>2. CacheIsHonest'
    BY <1>1, <1>23 DEF Restart, CacheInv, CacheIsHonest
  <2>3. LoadFollowsPc'
    BY <1>1, <1>2, <1>23 DEF Restart, CacheInv, LoadFollowsPc
  <2>4. LoadedWasThere'
    BY <1>1, <1>23 DEF Restart, CacheInv, LoadedWasThere
  <2> QED
    BY <2>1, <2>2, <2>3, <2>4 DEF CacheInv
<1>24. CASE EditSource
  <2>1. TypeOK'
    <3>1. source' \in Contents /\ edits' \in 0 .. MaxEdits
      BY <1>1, <1>2, <1>24 DEF EditSource
    <3> QED
      BY <1>1, <1>24, <3>1 DEF EditSource, CacheInv, TypeOK
  <2>2. CacheIsHonest' /\ LoadFollowsPc' /\ LoadedWasThere'
    BY <1>1, <1>24 DEF EditSource, CacheInv, CacheIsHonest, LoadFollowsPc, LoadedWasThere
  <2> QED
    BY <2>1, <2>2 DEF CacheInv
<1>25. CASE Age
  <2>1. TypeOK'
    BY <1>1, <1>25, LockFields DEF Age, CacheInv, TypeOK
  <2>2. CacheIsHonest' /\ LoadFollowsPc' /\ LoadedWasThere'
    BY <1>1, <1>25 DEF Age, CacheInv, CacheIsHonest, LoadFollowsPc, LoadedWasThere
  <2> QED
    BY <2>1, <2>2 DEF CacheInv
<1>26. CASE CheckExpires
  <2>1. TypeOK'
    BY <1>1, <1>26 DEF CheckExpires, CacheInv, TypeOK
  <2>2. CacheIsHonest' /\ LoadFollowsPc' /\ LoadedWasThere'
    BY <1>1, <1>26 DEF CheckExpires, CacheInv, CacheIsHonest, LoadFollowsPc, LoadedWasThere
  <2> QED
    BY <2>1, <2>2 DEF CacheInv
<1>27. CASE CommandPrunes
  <2>1. TypeOK'
    <3>1. /\ artifact' \in [Contents -> Contents \union {None, Torn}]
          /\ temporary' \in [Processes -> {"none", "part", "full"}] /\ checked' \in BOOLEAN
      BY <1>1, <1>27 DEF CommandPrunes, RemoveFile
    <3> QED
      BY <1>1, <1>27, <3>1 DEF CommandPrunes, CacheInv, TypeOK
  <2>2. CacheIsHonest'
    BY <1>1, <1>27 DEF CommandPrunes, RemoveFile, CacheInv, CacheIsHonest
  <2>3. LoadFollowsPc' /\ LoadedWasThere'
    BY <1>1, <1>27 DEF CommandPrunes, CacheInv, LoadFollowsPc, LoadedWasThere
  <2> QED
    BY <2>1, <2>2, <2>3 DEF CacheInv
<1>28. CASE UNCHANGED vars
  <2>1. TypeOK'
    BY <1>1, <1>28 DEF vars, CacheInv, TypeOK
  <2>2. CacheIsHonest' /\ LoadFollowsPc' /\ LoadedWasThere'
    BY <1>1, <1>28 DEF vars, CacheInv, CacheIsHonest, LoadFollowsPc, LoadedWasThere
  <2> QED
    BY <2>1, <2>2 DEF CacheInv
<1> QED
  BY <1>3, <1>4, <1>5, <1>6, <1>7, <1>8, <1>9, <1>10, <1>11, <1>12, <1>13, <1>14, <1>15, <1>16,
     <1>17, <1>18, <1>19, <1>20, <1>21, <1>22, <1>23, <1>24, <1>25, <1>26, <1>27, <1>28 DEF Next, LoadStep, PruneStep

-----------------------------------------------------------------------------

\* Every state of the cache has the types the model declares; in particular no
\* process keeps more than MAX_IN_MEMORY_PARSED_ARTIFACTS parses in memory.
THEOREM TypeCorrect == Spec => []TypeOK
<1>1. CacheInv => TypeOK
  BY DEF CacheInv
<1> QED
  BY <1>1, InitCache, CacheStep, PTL DEF Spec

\* A load ends up with the parse of the content it hashed or of the one it read
\* on the miss, through edits, crashes, torn copies, prunes and other writers.
THEOREM LoadsAreOfTheFile == Spec => []LoadedWasThere
<1>1. CacheInv => LoadedWasThere
  BY DEF CacheInv
<1> QED
  BY <1>1, InitCache, CacheStep, PTL DEF Spec

\* No file of the cache and no entry in memory ever holds the parse of another
\* content than its key stands for.
THEOREM CacheHoldsItsKeys == Spec => []CacheIsHonest
<1>1. CacheInv => CacheIsHonest
  BY DEF CacheInv
<1> QED
  BY <1>1, InitCache, CacheStep, PTL DEF Spec

\* The processes that prune after a write are at most one more than the locks
\* that were taken, as stale, from processes at work: the lock file excludes all
\* others, through crashes, empty locks and removals of a lock by a former owner.
THEOREM PrunersExclude == Spec => []PrunersBoundedByTakeovers
<1>1. TypeOK /\ OrphansCounted => PrunersBoundedByTakeovers
  <2> SUFFICES ASSUME TypeOK, OrphansCounted PROVE PrunersBoundedByTakeovers
    OBVIOUS
  <2> DEFINE owners == {p \in Processes : Owns(p)}
  <2>1. takeovers \in Nat /\ Cardinality(Orphans) <= takeovers
    BY DEF TypeOK, OrphansCounted
  <2>2. \E x : owners \subseteq Orphans \union {x}
    <3>1. ASSUME NEW q \in Processes, NEW r \in Processes, IsMine(q), IsMine(r) PROVE q = r
      <4>1. lock.by = [owner |-> r, load |-> loads[r]] /\ lock.by = [owner |-> q, load |-> loads[q]]
        BY <3>1 DEF IsMine, MyToken
      <4> QED
        BY <4>1
    <3>2. CASE \E q \in Processes : IsMine(q)
      BY <3>1, <3>2 DEF Orphans
    <3>3. CASE ~\E q \in Processes : IsMine(q)
      BY <3>3 DEF Orphans
    <3> QED
      BY <3>2, <3>3
  <2>3. PICK x : owners \subseteq Orphans \union {x}
    BY <2>2
  <2>4. owners \in SUBSET (Orphans \union {x})
    BY <2>3
  <2>5. IsFiniteSet(Orphans) /\ Cardinality(Orphans) \in Nat
    BY OrphansFinite
  <2>6. /\ IsFiniteSet(Orphans \union {x})
        /\ Cardinality(Orphans \union {x}) = IF x \in Orphans THEN Cardinality(Orphans) ELSE Cardinality(Orphans) + 1
    BY <2>5, FS_AddElement
  <2> HIDE DEF owners
  <2>7. IsFiniteSet(owners) /\ Cardinality(owners) <= Cardinality(Orphans \union {x})
    BY <2>4, <2>6, FS_Subset
  <2>8. Cardinality(owners) \in Nat
    BY <2>7, FS_CardinalityType
  <2>9. Cardinality(owners) <= 1 + takeovers
    BY <2>1, <2>5, <2>6, <2>7, <2>8
  <2> QED
    BY <2>9 DEF PrunersBoundedByTakeovers, owners
<1>2. CacheInv => TypeOK
  BY DEF CacheInv
<1>3. CacheInv /\ OrphansCounted /\ [Next]_vars => OrphansCounted'
  BY LockStep DEF CacheInv
<1> QED
  BY <1>1, <1>2, <1>3, InitCache, CacheStep, PTL DEF Spec

=============================================================================
