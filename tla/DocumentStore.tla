---------------------------- MODULE DocumentStore ----------------------------
(***************************************************************************)
(* What a compile session promises to its callers about documents: the text *)
(* it works on is the editor's for an open file and the last load's for a   *)
(* closed one, and no operation touches the text of a file it is not about. *)
(*                                                                          *)
(* The promise says nothing of a closed file that the last load of its root *)
(* did not find: a copy of it may come back when the file is closed.  And   *)
(* an open file whose text is empty is not the editor's for certain: it may *)
(* not be seen that it was emptied, a load may replace or drop it, a reset  *)
(* drops it, and what comes back when it is closed is anybody's guess.  It  *)
(* is the editor's again from the next edit on, and the last load's as soon *)
(* as it is loaded when it is closed.                                       *)
(***************************************************************************)
CONSTANTS
    Files,           \* the files
    Trees,           \* the sets of files that are loaded together
    Texts,           \* their texts
    Empty,           \* the empty text
    Missing,         \* no text
    Closed           \* the editor does not have the file open

VARIABLES
    visible,         \* the text the compiler works on
    editor,          \* the text the editor has open
    disk,            \* the text the last load found
    blanked          \* files emptied while they were open

storeVars == <<visible, editor, disk, blanked>>

StoreInit ==
    /\ visible = [f \in Files |-> Missing]
    /\ editor = [f \in Files |-> Closed]
    /\ disk = [f \in Files |-> Missing]
    /\ blanked = {}

\* The editor opens or changes a file.
Edit(f, t) ==
    /\ t # Empty
    /\ editor' = [editor EXCEPT ![f] = t]
    /\ visible' = [visible EXCEPT ![f] = t]
    /\ UNCHANGED <<disk, blanked>>

\* The editor empties a file, which may go unnoticed.
Blank(f) ==
    /\ editor' = [editor EXCEPT ![f] = Empty]
    /\ blanked' = blanked \union {f}
    /\ \E t \in {Empty, visible[f]} : visible' = [visible EXCEPT ![f] = t]
    /\ UNCHANGED disk

\* The editor closes a file: what was loaded is back.
Close(f) ==
    /\ editor[f] # Closed
    /\ editor' = [editor EXCEPT ![f] = Closed]
    /\ \E t \in Texts \union {Missing} :
        /\ disk[f] # Missing /\ f \notin blanked => t = disk[f]
        /\ visible' = [visible EXCEPT ![f] = t]
    /\ UNCHANGED <<disk, blanked>>

\* What a load may leave of file f of the tree it reads.
Reads(f) ==
    IF editor[f] = Closed THEN {disk'[f]}
    ELSE IF editor[f] = Empty THEN {visible[f], disk'[f], Missing}
    ELSE {visible[f]}

\* The files of tree are read again, or found gone; the open ones stay the
\* editor's.
Load(tree) ==
    /\ disk' \in [Files -> Texts \union {Missing}]
    /\ \A f \in Files \ tree : disk'[f] = disk[f]
    /\ visible' \in [Files -> Texts \union {Missing}]
    /\ \A f \in Files : visible'[f] \in IF f \in tree THEN Reads(f) ELSE {visible[f]}
    /\ blanked' = {f \in blanked : f \in tree => editor[f] # Closed}
    /\ UNCHANGED editor

\* Everything that was loaded is dropped.
Forget ==
    /\ disk' = [f \in Files |-> Missing]
    /\ visible' = [f \in Files |-> IF editor[f] \in {Closed, Empty} THEN Missing ELSE visible[f]]
    /\ blanked' = {f \in blanked : editor[f] = Empty}
    /\ UNCHANGED editor

StoreNext ==
    \/ \E f \in Files : Close(f) \/ Blank(f) \/ \E t \in Texts : Edit(f, t)
    \/ \E tree \in Trees : Load(tree)
    \/ Forget

StoreSpec == StoreInit /\ [][StoreNext]_storeVars
=============================================================================
