------------------------------- MODULE OpenLock -------------------------------
(***************************************************************************)
(* What LockedFile promises (src/fileserver/trees/lockedfile.go 22-24): it *)
(* is open for one writer or for any number of readers.                    *)
(***************************************************************************)
CONSTANT Fids

VARIABLES reading, writing \* the fids that have the file open

Init == reading = {} /\ writing = {}

Open(f) == /\ f \notin reading \union writing
           /\ writing = {}
           /\ \/ reading' = reading \union {f} /\ UNCHANGED writing
              \/ reading = {} /\ writing' = {f} /\ UNCHANGED reading

Close(f) == /\ f \in reading \union writing
            /\ reading' = reading \ {f}
            /\ writing' = writing \ {f}

Next == \E f \in Fids : Open(f) \/ Close(f)

Spec == Init /\ [][Next]_<<reading, writing>>
=============================================================================
