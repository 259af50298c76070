---------------------------- MODULE ArtifactCache ----------------------------
(***************************************************************************)
(* The on-disk cache of parsed files, shared by the processes that load a   *)
(* source root, and the lock file under which one of them prunes it.        *)
(*                                                                          *)
(* A load hashes the file, asks the cache for the parse of that content     *)
(* and, on a miss, reads the file again, parses it and stores the result    *)
(* under the key of what it read: through a temporary file, renamed or, if  *)
(* that fails, copied.  After a miss the process tries to prune.  The file  *)
(* may be edited at any moment and a process may crash at any step, leaving *)
(* its temporary file or its lock behind.  `rumoca cache prune` removes     *)
(* files of the cache at any moment too, and takes no lock.                 *)
(*                                                                          *)
(* One source file.  Each process loads one root at a time.  Which files    *)
(* are over the budget and oldest is left open.                             *)
(***************************************************************************)
EXTENDS Naturals, FiniteSets, SequencesExt

CONSTANTS
    Processes,       \* processes that share the cache directory
    Contents,        \* contents the source file may have
    First,           \* the content it begins with
    MaxMemory,       \* MAX_IN_MEMORY_PARSED_ARTIFACTS
    MaxLoads,        \* bound on the loads of all processes
    MaxEdits,        \* bound on the edits of the source file
    MaxFaults,       \* bound on crashes and failed renames
    None,            \* no content
    Torn,            \* a file of which a part is missing: it does not decode
    NoLock,          \* there is no lock file
    Empty            \* what a lock file holds before its token is written

ASSUME CacheAssumption ==
    /\ First \in Contents
    /\ IsFiniteSet(Processes)
    /\ MaxMemory \in Nat
    /\ {MaxLoads, MaxEdits, MaxFaults} \subseteq Nat
    /\ {None, Torn} \intersect Contents = {} /\ None # Torn

VARIABLES
    source,          \* the content of the source file
    artifact,        \* per key: the parse in its cache file
    temporary,       \* per process: its temporary file
    memory,          \* per process: in_memory_parsed_artifacts, oldest first
    lock,            \* the prune lock file
    checked,         \* CACHE_AUTO_PRUNE_CHECK_FILE is recent
    pc,              \* where each process is
    hashed,          \* the content it hashed
    read,            \* the content it read on a miss
    result,          \* the parse it ended up with
    observed,        \* the token it read in a stale lock
    loads,           \* per process: the number of its latest load
    takeovers,       \* how often the lock of a process at work was removed as stale
    edits, faults    \* edits and faults so far

loadVars == <<hashed, read, result>>
lockVars == <<lock, checked, observed, takeovers>>
bounds == <<loads, edits, faults>>
vars == <<source, artifact, temporary, memory, lockVars, pc, loadVars, bounds>>

\* A lock holds the token its owner has written, if it has written one yet.
Token == [owner : Processes, load : 1 .. MaxLoads]
Lock == [by : Token, written : BOOLEAN, old : BOOLEAN]

ASSUME LockAssumption == NoLock \notin Lock /\ Empty \notin Token

Pc == {"idle", "crashed", "lookup", "read", "parse", "create", "write", "rename", "copy",
       "age", "observe", "confirm", "unlink", "lock", "token", "check", "prune", "record",
       "dropCheck", "drop"}

TypeOK ==
    /\ source \in Contents
    /\ artifact \in [Contents -> Contents \union {None, Torn}]
    /\ temporary \in [Processes -> {"none", "part", "full"}]
    /\ memory \in [Processes -> Seq([key : Contents, holds : Contents])]
    /\ \A p \in Processes : Len(memory[p]) <= MaxMemory
    /\ lock \in Lock \union {NoLock}
    /\ checked \in BOOLEAN
    /\ pc \in [Processes -> Pc]
    /\ {hashed, read, result} \subseteq [Processes -> Contents \union {None}]
    /\ observed \in [Processes -> Token \union {Empty}]
    /\ loads \in [Processes -> 0 .. MaxLoads]
    /\ takeovers \in Nat
    /\ edits \in 0 .. MaxEdits
    /\ faults \in 0 .. MaxFaults

Goto(p, label) == pc' = [pc EXCEPT ![p] = label]

Fail == faults < MaxFaults /\ faults' = faults + 1

-----------------------------------------------------------------------------
(* parse_file_with_precomputed_hash_status of the one file.                  *)

LoadsSoFar == Max(Range(loads))

\* hash_source_root_inputs
HashInputs(p) ==
    /\ pc[p] = "idle" /\ LoadsSoFar < MaxLoads
    /\ loads' = [loads EXCEPT ![p] = LoadsSoFar + 1]
    /\ hashed' = [hashed EXCEPT ![p] = source]
    /\ read' = [read EXCEPT ![p] = None]
    /\ result' = [result EXCEPT ![p] = None]
    /\ Goto(p, "lookup")
    /\ UNCHANGED <<source, artifact, temporary, memory, lockVars, edits, faults>>

\* IndexMap::shift_remove
ShiftRemove(entries, key) ==
    LET at == {i \in DOMAIN entries : entries[i].key = key}
    IN IF at = {} THEN entries ELSE RemoveAt(entries, CHOOSE i \in at : TRUE)

\* A slip for Remembered: nothing is ever evicted.
RememberedAll(p, key, definition) ==
    Append(ShiftRemove(memory[p], key), [key |-> key, holds |-> definition])

\* insert_in_memory; get_in_memory makes a hit the newest entry too.
Remembered(p, key, definition) ==
    LET all == Append(ShiftRemove(memory[p], key), [key |-> key, holds |-> definition])
    IN SubSeq(all, IF Len(all) > MaxMemory THEN 2 ELSE 1, Len(all))

\* What get_in_memory, and then try_read_cache, find under a key.
Found(p, key) ==
    LET kept == {i \in DOMAIN memory[p] : memory[p][i].key = key}
    IN IF kept # {} THEN {memory[p][i].holds : i \in kept}
       ELSE {artifact[key]} \ {None, Torn}

\* A hit ends the load; all hits leave nothing to prune.
Hit(p, key) ==
    \E definition \in Found(p, key) :
        /\ result' = [result EXCEPT ![p] = definition]
        /\ memory' = [memory EXCEPT ![p] = Remembered(p, key, definition)]
        /\ Goto(p, "idle")

\* By the precomputed hash.
Lookup(p) ==
    /\ pc[p] = "lookup"
    /\ \/ Hit(p, hashed[p])
       \/ Found(p, hashed[p]) = {} /\ Goto(p, "read") /\ UNCHANGED <<memory, result>>
    /\ UNCHANGED <<source, artifact, temporary, lockVars, hashed, read, bounds>>

\* The file is read again, and may be another than the one hashed.
ReadSource(p) ==
    /\ pc[p] = "read"
    /\ read' = [read EXCEPT ![p] = source]
    /\ Goto(p, "parse")
    /\ UNCHANGED <<source, artifact, temporary, memory, lockVars, hashed, result, bounds>>

\* A slip for StoreKey: the key the load began with.
HashedKey(p) == hashed[p]

\* parse_file_with_preloaded_source_status: the key of what was read.
StoreKey(p) == read[p]

\* By the new key, or a parse, which an error in the source ends.
Parse(p) ==
    /\ pc[p] = "parse"
    /\ \/ Hit(p, StoreKey(p))
       \/ /\ Found(p, StoreKey(p)) = {}
          /\ \/ /\ result' = [result EXCEPT ![p] = read[p]]
                /\ memory' = [memory EXCEPT ![p] = Remembered(p, StoreKey(p), read[p])]
                /\ Goto(p, "create")
             \/ Goto(p, "idle") /\ UNCHANGED <<memory, result>>
    /\ UNCHANGED <<source, artifact, temporary, lockVars, hashed, read, bounds>>

\* write_cache: create and write the temporary file, and rename it.
CreateTemporary(p) ==
    /\ pc[p] = "create"
    /\ temporary' = [temporary EXCEPT ![p] = "part"]
    /\ Goto(p, "write")
    /\ UNCHANGED <<source, artifact, memory, lockVars, loadVars, bounds>>

\* What is written to a file that a prune has removed is gone.
WriteTemporary(p) ==
    /\ pc[p] = "write"
    /\ temporary' = [temporary EXCEPT ![p] = IF @ = "part" THEN "full" ELSE @]
    /\ Goto(p, "rename")
    /\ UNCHANGED <<source, artifact, memory, lockVars, loadVars, bounds>>

\* Without its temporary file the rename and the copy fail, which is ignored.
\* A rename that fails although the file is there begins the copy.
Rename(p) ==
    /\ pc[p] = "rename"
    /\ \/ /\ temporary[p] = "full"
          /\ artifact' = [artifact EXCEPT ![StoreKey(p)] = result[p]]
          /\ temporary' = [temporary EXCEPT ![p] = "none"]
          /\ Goto(p, "age")
          /\ UNCHANGED faults
       \/ /\ temporary[p] = "none"
          /\ Goto(p, "age")
          /\ UNCHANGED <<artifact, temporary, faults>>
       \/ /\ temporary[p] = "full" /\ Fail
          /\ artifact' = [artifact EXCEPT ![StoreKey(p)] = Torn]
          /\ Goto(p, "copy")
          /\ UNCHANGED temporary
    /\ UNCHANGED <<source, memory, lockVars, loadVars, loads, edits>>

\* The copy goes to the file it opened, wherever that is by now.
FinishCopy(p) ==
    /\ pc[p] = "copy"
    /\ artifact' = [artifact EXCEPT ![StoreKey(p)] = IF @ = Torn THEN result[p] ELSE @]
    /\ temporary' = [temporary EXCEPT ![p] = "none"]
    /\ Goto(p, "age")
    /\ UNCHANGED <<source, memory, lockVars, loadVars, bounds>>

-----------------------------------------------------------------------------
(* try_acquire_cache_prune_lock.                                             *)

MyToken(p) == [owner |-> p, load |-> loads[p]]
TokenIn(l) == IF l.written THEN l.by ELSE Empty
IsStale == lock # NoLock /\ lock.old

\* remove_stale_cache_prune_lock: the age, the token, both again, the removal.
CheckAge(p) ==
    /\ pc[p] = "age"
    /\ Goto(p, IF IsStale THEN "observe" ELSE "lock")
    /\ UNCHANGED <<source, artifact, temporary, memory, lockVars, loadVars, bounds>>

ObserveToken(p) ==
    /\ pc[p] = "observe"
    /\ \/ /\ lock # NoLock
          /\ observed' = [observed EXCEPT ![p] = TokenIn(lock)]
          /\ Goto(p, "confirm")
       \/ lock = NoLock /\ Goto(p, "lock") /\ UNCHANGED observed
    /\ UNCHANGED <<source, artifact, temporary, memory, lock, checked, takeovers, loadVars, bounds>>

\* A slip for MatchesToken: a lock without a token matches none.
MatchesWrittenToken(token) == lock # NoLock /\ lock.written /\ TokenIn(lock) = token

\* lock_file_matches_token
MatchesToken(token) == lock # NoLock /\ TokenIn(lock) = token

ConfirmStale(p) ==
    /\ pc[p] = "confirm"
    /\ Goto(p, IF IsStale /\ MatchesToken(observed[p]) THEN "unlink" ELSE "lock")
    /\ observed' = [observed EXCEPT ![p] = Empty]
    /\ UNCHANGED <<source, artifact, temporary, memory, lock, checked, takeovers, loadVars, bounds>>

IsMine(p) == lock # NoLock /\ lock.by = MyToken(p)

Owns(p) == pc[p] \in {"token", "check", "prune", "record", "dropCheck", "drop"}

\* Whatever lock is there by now is removed.
RemoveStale(p) ==
    /\ pc[p] = "unlink"
    /\ lock' = NoLock
    /\ takeovers' = IF \E q \in Processes : Owns(q) /\ IsMine(q) THEN takeovers + 1 ELSE takeovers
    /\ Goto(p, "lock")
    /\ UNCHANGED <<source, artifact, temporary, memory, checked, observed, loadVars, bounds>>

\* A slip for CanCreate: without create_new.
CanOverwrite == TRUE

\* OpenOptions::create_new
CanCreate == lock = NoLock

CreateLock(p) ==
    /\ pc[p] = "lock"
    /\ \/ /\ CanCreate
          /\ lock' = [by |-> MyToken(p), written |-> FALSE, old |-> FALSE]
          /\ Goto(p, "token")
       \/ ~CanCreate /\ Goto(p, "idle") /\ UNCHANGED lock
    /\ UNCHANGED <<source, artifact, temporary, memory, checked, observed, takeovers, loadVars, bounds>>

\* The token goes to the file that was created, which may have been removed.
WriteToken(p) ==
    /\ pc[p] = "token"
    /\ lock' = IF IsMine(p) THEN [lock EXCEPT !.written = TRUE, !.old = FALSE] ELSE lock
    /\ Goto(p, "check")
    /\ UNCHANGED <<source, artifact, temporary, memory, checked, observed, takeovers, loadVars, bounds>>

-----------------------------------------------------------------------------
(* maybe_prune_cache_after_write, under the lock.                            *)

CheckRecent(p) ==
    /\ pc[p] = "check"
    /\ Goto(p, IF checked THEN "dropCheck" ELSE "prune")
    /\ UNCHANGED <<source, artifact, temporary, memory, lockVars, loadVars, bounds>>

\* prune_cache_with_options: files go one by one, temporary files and the check
\* file included, and no process is asked whether it uses them.  The lock file
\* lies outside of the cache.
RemoveFile ==
    \/ /\ \E key \in Contents : artifact[key] # None /\ artifact' = [artifact EXCEPT ![key] = None]
       /\ UNCHANGED <<temporary, checked>>
    \/ /\ \E q \in Processes : temporary[q] # "none" /\ temporary' = [temporary EXCEPT ![q] = "none"]
       /\ UNCHANGED <<artifact, checked>>
    \/ checked /\ checked' = FALSE /\ UNCHANGED <<artifact, temporary>>

Prune(p) ==
    /\ pc[p] = "prune"
    /\ \/ RemoveFile /\ UNCHANGED pc
       \/ \* the cache is within its budget, or the scan failed
          /\ \E label \in {"record", "dropCheck"} : Goto(p, label)
          /\ UNCHANGED <<artifact, temporary, checked>>
    /\ UNCHANGED <<source, memory, lock, observed, takeovers, loadVars, bounds>>

\* run_cache_prune, in a process of its own: the same removals, without the lock.
CommandPrunes ==
    /\ RemoveFile
    /\ UNCHANGED <<source, memory, lock, observed, takeovers, pc, loadVars, bounds>>

\* record_auto_prune_check
RecordCheck(p) ==
    /\ pc[p] = "record"
    /\ checked' = TRUE
    /\ Goto(p, "dropCheck")
    /\ UNCHANGED <<source, artifact, temporary, memory, lock, observed, takeovers, loadVars, bounds>>

\* Drop of CachePruneLock: the token, then the removal.
DropCheck(p) ==
    /\ pc[p] = "dropCheck"
    /\ Goto(p, IF MatchesToken(MyToken(p)) THEN "drop" ELSE "idle")
    /\ UNCHANGED <<source, artifact, temporary, memory, lockVars, loadVars, bounds>>

DropLock(p) ==
    /\ pc[p] = "drop"
    /\ lock' = NoLock
    /\ Goto(p, "idle")
    /\ UNCHANGED <<source, artifact, temporary, memory, checked, observed, takeovers, loadVars, bounds>>

-----------------------------------------------------------------------------
(* The file system, time, and crashes.                                       *)

EditSource ==
    /\ edits < MaxEdits
    /\ edits' = edits + 1
    /\ \E content \in Contents \ {source} : source' = content
    /\ UNCHANGED <<artifact, temporary, memory, lockVars, pc, loadVars, loads, faults>>

\* CACHE_PRUNE_LOCK_STALE_AFTER passes.
Age ==
    /\ lock # NoLock /\ ~lock.old
    /\ lock' = [lock EXCEPT !.old = TRUE]
    /\ UNCHANGED <<source, artifact, temporary, memory, checked, observed, takeovers, pc, loadVars, bounds>>

\* CACHE_AUTO_PRUNE_CHECK_INTERVAL passes.
CheckExpires ==
    /\ checked
    /\ checked' = FALSE
    /\ UNCHANGED <<source, artifact, temporary, memory, lock, observed, takeovers, pc, loadVars, bounds>>

\* The next process has another id: nobody uses the temporary file again.
Crash(p) ==
    /\ pc[p] \notin {"idle", "crashed"} /\ Fail
    /\ Goto(p, "crashed")
    /\ memory' = [memory EXCEPT ![p] = <<>>]
    /\ temporary' = [temporary EXCEPT ![p] = "none"]
    /\ UNCHANGED <<source, artifact, lockVars, loadVars, loads, edits>>

Restart(p) ==
    /\ pc[p] = "crashed"
    /\ Goto(p, "idle")
    /\ hashed' = [hashed EXCEPT ![p] = None]
    /\ read' = [read EXCEPT ![p] = None]
    /\ result' = [result EXCEPT ![p] = None]
    /\ observed' = [observed EXCEPT ![p] = Empty]
    /\ UNCHANGED <<source, artifact, temporary, memory, lock, checked, takeovers, bounds>>

-----------------------------------------------------------------------------

Init ==
    /\ source = First
    /\ artifact = [key \in Contents |-> None]
    /\ temporary = [p \in Processes |-> "none"]
    /\ memory = [p \in Processes |-> <<>>]
    /\ lock = NoLock
    /\ checked = FALSE
    /\ pc = [p \in Processes |-> "idle"]
    /\ hashed = [p \in Processes |-> None]
    /\ read = [p \in Processes |-> None]
    /\ result = [p \in Processes |-> None]
    /\ observed = [p \in Processes |-> Empty]
    /\ loads = [p \in Processes |-> 0]
    /\ takeovers = 0
    /\ edits = 0
    /\ faults = 0

LoadStep(p) ==
    \/ Lookup(p) \/ ReadSource(p) \/ Parse(p)
    \/ CreateTemporary(p) \/ WriteTemporary(p) \/ Rename(p) \/ FinishCopy(p)

PruneStep(p) ==
    \/ CheckAge(p) \/ ObserveToken(p) \/ ConfirmStale(p) \/ RemoveStale(p)
    \/ CreateLock(p) \/ WriteToken(p)
    \/ CheckRecent(p) \/ Prune(p) \/ RecordCheck(p) \/ DropCheck(p) \/ DropLock(p)

Next ==
    \/ \E p \in Processes : HashInputs(p) \/ LoadStep(p) \/ PruneStep(p) \/ Crash(p) \/ Restart(p)
    \/ EditSource \/ Age \/ CheckExpires \/ CommandPrunes

\* A process that does not crash gets to run.
Fairness == \A p \in Processes : WF_vars(LoadStep(p)) /\ WF_vars(PruneStep(p))

Spec == Init /\ [][Next]_vars

FairSpec == Spec /\ Fairness

-----------------------------------------------------------------------------
(* Properties.                                                               *)

\* What a load ends up with is the parse of a content the file had during that
\* load, the hashed one or the one read on the miss, whoever wrote the cache:
\* edits, crashes, torn copies and prunes in between do not change that.
LoadedWasThere ==
    \A p \in Processes : result[p] # None => result[p] \in {hashed[p], read[p]}

\* Processes that prune after a write exclude each other: each removal, as
\* stale, of the lock of a process still at work admits one more of them, and
\* nothing else does, neither a crashed owner's lock, nor the removal of another
\* process's lock by the owner that lost its own.  (The command that prunes on
\* request takes no lock and is excluded from nothing.)
PrunersBoundedByTakeovers ==
    Cardinality({p \in Processes : Owns(p)}) <= 1 + takeovers

\* A stale lock, also one whose owner crashed before it wrote its token, does
\* not survive an attempt to take it: no crash disables pruning for good.
StaleLockIsTakenOver ==
    \A p \in Processes : (pc[p] = "age" /\ IsStale) ~> (~IsStale \/ pc[p] = "crashed")
=============================================================================
