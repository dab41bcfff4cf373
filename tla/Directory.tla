------------------------------ MODULE Directory ------------------------------
(***************************************************************************)
(* What the interface trees.Dir promises (src/fileserver/trees/utils.go    *)
(* 74-95): a name leads to at most one file and stays with it until that   *)
(* file is removed or renamed; a file is never put under a name in use.    *)
(* A step may show in several directories when one is made of others.      *)
(***************************************************************************)
CONSTANTS Dirs, Names, Files, None

VARIABLE entries \* entries[d][name]: a file or None

Listing == [Names -> Files \union {None}]

Init == entries \in [Dirs -> Listing]

Create(was, is) ==
    \E nm \in Names : \E f \in Files :
        /\ was[nm] = None
        /\ \A other \in Names : was[other] # f
        /\ is = [was EXCEPT ![nm] = f]

Remove(was, is) ==
    \E nm \in Names : was[nm] # None /\ is = [was EXCEPT ![nm] = None]

Rename(was, is) ==
    \E old, new \in Names :
        /\ was[old] # None /\ was[new] = None
        /\ is = [was EXCEPT ![new] = was[old], ![old] = None]

Next == /\ entries' \in [Dirs -> Listing]
        /\ \A d \in Dirs :
              \/ entries'[d] = entries[d]
              \/ Create(entries[d], entries'[d])
              \/ Remove(entries[d], entries'[d])
              \/ Rename(entries[d], entries'[d])

Spec == Init /\ [][Next]_entries
=============================================================================
