----------------------------- MODULE DurableDoc -----------------------------
(***************************************************************************)
(* What a persistent store promises and EpochStore takes for granted: a    *)
(* save puts the whole document on disk in one step, a store that has been *)
(* closed has everything there, and opening it again brings it all back.   *)
(* A store that breaks promises nothing any more.                          *)
(***************************************************************************)
CONSTANT Commits        \* the writes a document may hold

VARIABLES
    doc,                \* the document
    disk,               \* what the snapshot file holds
    isOpen,
    broken

vars == <<doc, disk, isOpen, broken>>

Init ==
    /\ doc = {}
    /\ disk = {}
    /\ isOpen = TRUE
    /\ broken = FALSE

Commit ==
    /\ isOpen
    /\ \E c \in Commits \ doc : doc' = doc \cup {c}
    /\ UNCHANGED <<disk, isOpen, broken>>

Save ==
    /\ isOpen
    /\ disk' = doc
    /\ UNCHANGED <<doc, isOpen, broken>>

Close ==
    /\ isOpen
    /\ disk = doc
    /\ isOpen' = FALSE
    /\ UNCHANGED <<doc, disk, broken>>

\* Closed for good: an epoch is dropped.
Remove ==
    /\ ~isOpen /\ ~broken
    /\ disk' = {}
    /\ UNCHANGED <<doc, isOpen, broken>>

Open ==
    /\ ~isOpen /\ ~broken
    /\ isOpen' = TRUE
    /\ doc' = disk
    /\ UNCHANGED <<disk, broken>>

Break ==
    /\ ~broken
    /\ doc' = {} /\ disk' = {} /\ isOpen' = FALSE
    /\ broken' = TRUE

Next == Commit \/ Save \/ Close \/ Remove \/ Open \/ Break

Spec == Init /\ [][Next]_vars

=============================================================================
