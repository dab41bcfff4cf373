------------------------------ MODULE LockedFile ------------------------------
(***************************************************************************)
(* src/fileserver/trees/lockedfile.go: a file that is locked for as long   *)
(* as it is open, under the handlers that open and close it and the locks  *)
(* they hold meanwhile: open waits for the file with the fidState locked,  *)
(* clunk and cleanup wait for a fidState with the table of fids locked.  A *)
(* client may clunk a fid it is still opening, and a connection may break  *)
(* at any time.                                                            *)
(*                                                                         *)
(* sync.RWMutex: Lock shuts new readers out, then waits for those inside.  *)
(* Every fid is opened at most once.                                       *)
(***************************************************************************)
EXTENDS FiniteSets

CONSTANTS
    Conns,
    Fids,
    ConnOf,  \* ConnOf[f]: the connection of f
    Frail,   \* bound: the connections that may break
    Asked,   \* the modes in which clients open the file
    None

Modes == {"OREAD", "OEXEC", "OWRITE", "ORDWR"}

ASSUMPTION LockedFileAssumption ==
    /\ ConnOf \in [Fids -> Conns]
    /\ Frail \subseteq Conns /\ Asked \subseteq Modes
    /\ None \notin Fids

VARIABLES
    fids,    \* the fids in the tables of the connections
    conn,    \* conn[c]: "up"; "clunk", "stuck" or "cleanup" with fidLock held; "down"
    lost,    \* the connections that are broken: no more can be read, and a write may fail
    doing,   \* doing[c]: the fid that clunk or cleanup has come to
    left,    \* left[c]: the fids cleanup has still to visit
    pc,      \* pc[f]: how far the open of f is
    mode,    \* mode[f]: what f is being opened, or is open, for
    handle,  \* handle[f]: fidState.handle is set
    opens,   \* the opens of the file inside that are not closed
    readers, \* the fids that hold OpenLock for reading
    writer,  \* the fid that holds or awaits OpenLock for writing
    missed   \* history: fids that clunk or cleanup passed between the lookup of an open and its lock

vars == <<fids, conn, lost, doing, left, pc, mode, handle, opens, readers, writer, missed>>

Of(c) == {f \in Fids : ConnOf[f] = c}

\* The open handler keeps the fidState locked from its checks until it has replied.
StateLocked(f) == pc[f] \in {"wait", "announced", "reply", "dying"}

Init ==
    /\ fids = Fids
    /\ conn = [c \in Conns |-> "up"]
    /\ lost = {}
    /\ doing = [c \in Conns |-> None]
    /\ left = [c \in Conns |-> {}]
    /\ pc = [f \in Fids |-> "new"]
    /\ mode \in [Fids -> Asked]
    /\ handle = [f \in Fids |-> FALSE]
    /\ opens = {}
    /\ readers = {}
    /\ writer = None
    /\ missed = {}

lock == <<readers, writer>>
sweep == <<fids, conn, lost, doing, left, missed>>
Goto(f, l) == pc' = [pc EXCEPT ![f] = l]

-----------------------------------------------------------------------------
\* Mutant of Writes: ORDWR is taken for reading.
WritesOnly(f) == mode[f] = "OWRITE"
Writes(f) == mode[f] \in {"OWRITE", "ORDWR"}

\* open looks the fid up.
Find(f) ==
    /\ pc[f] = "new" /\ f \in fids
    /\ conn[ConnOf[f]] = "up"
    /\ Goto(f, "found")
    /\ UNCHANGED <<sweep, mode, handle, opens, lock>>

\* With the fidState locked the file inside is opened, or the open is denied.
Open(f) ==
    /\ pc[f] = "found"
    /\ ~(conn[ConnOf[f]] = "stuck" /\ doing[ConnOf[f]] = f)
    /\ \/ Goto(f, "wait") /\ opens' = opens \union {f}
       \/ Goto(f, "reply") /\ UNCHANGED opens
    /\ UNCHANGED <<sweep, mode, handle, lock>>

RLock(f) ==
    /\ pc[f] = "wait" /\ ~Writes(f)
    /\ writer = None
    /\ readers' = readers \union {f}
    /\ handle' = [handle EXCEPT ![f] = TRUE]
    /\ Goto(f, "reply")
    /\ UNCHANGED <<sweep, mode, opens, writer>>

Announce(f) ==
    /\ pc[f] = "wait" /\ Writes(f)
    /\ writer = None
    /\ writer' = f
    /\ Goto(f, "announced")
    /\ UNCHANGED <<sweep, mode, handle, opens, readers>>

Lock(f) ==
    /\ pc[f] = "announced"
    /\ readers = {}
    /\ handle' = [handle EXCEPT ![f] = TRUE]
    /\ Goto(f, "reply")
    /\ UNCHANGED <<sweep, mode, opens, lock>>

\* respond, and the return of open; when the reply cannot be written open calls die first.
Reply(f) ==
    /\ pc[f] = "reply"
    /\ Goto(f, "done") \/ (ConnOf[f] \in lost /\ Goto(f, "dying"))
    /\ UNCHANGED <<sweep, mode, handle, opens, lock>>

\* die returns when cleanup is over, its own or the one it has waited for.
Die(f) ==
    /\ pc[f] = "dying"
    /\ conn[ConnOf[f]] = "down"
    /\ Goto(f, "done")
    /\ UNCHANGED <<sweep, mode, handle, opens, lock>>

-----------------------------------------------------------------------------
\* LockedHandle.Close: the file inside is closed, then the lock given back.
\* Mutant of Release: the wrapped handle is closed in place of the LockedHandle.
CloseInside(f) ==
    /\ opens' = opens \ {f}
    /\ UNCHANGED lock
Release(f) ==
    /\ opens' = opens \ {f}
    /\ readers' = readers \ {f}
    /\ writer' = IF writer = f THEN None ELSE writer

CloseHandle(f) ==
    IF handle[f] THEN handle' = [handle EXCEPT ![f] = FALSE] /\ Release(f)
    ELSE UNCHANGED <<handle, opens, lock>>

\* clunk or cleanup goes by f: an open that has looked f up has yet to lock it.
Pass(f) == missed' = IF pc[f] = "found" THEN missed \union {f} ELSE missed

\* A client clunks a fid, also one whose open is not answered yet.
Clunk(c) ==
    /\ conn[c] = "up"
    /\ \E f \in fids \intersect Of(c) :
        /\ fids' = fids \ {f}
        /\ doing' = [doing EXCEPT ![c] = f]
    /\ conn' = [conn EXCEPT ![c] = "clunk"]
    /\ UNCHANGED <<lost, left, pc, mode, handle, opens, lock, missed>>

\* When its reply cannot be written clunk calls die, and cleanup waits for the fidLock of clunk.
ClunkClose(c) ==
    /\ conn[c] = "clunk"
    /\ ~StateLocked(doing[c])
    /\ CloseHandle(doing[c])
    /\ Pass(doing[c])
    /\ \/ /\ conn' = [conn EXCEPT ![c] = "up"]
          /\ doing' = [doing EXCEPT ![c] = None]
       \/ /\ c \in lost
          /\ conn' = [conn EXCEPT ![c] = "stuck"]
          /\ UNCHANGED doing
    /\ UNCHANGED <<fids, lost, left, pc, mode>>

Lose(c) ==
    /\ c \in Frail \ lost
    /\ lost' = lost \union {c}
    /\ UNCHANGED <<fids, conn, doing, left, pc, mode, handle, opens, lock, missed>>

\* Serve cannot read, or a handler cannot write: it calls die, and die cleanup.
Break(c) ==
    /\ conn[c] = "up" /\ c \in lost
    /\ conn' = [conn EXCEPT ![c] = "cleanup"]
    /\ left' = [left EXCEPT ![c] = fids \intersect Of(c)]
    /\ UNCHANGED <<fids, lost, doing, pc, mode, handle, opens, lock, missed>>

\* cleanup visits the fids in any order and waits for the one it has come to.
Visit(c) ==
    /\ conn[c] = "cleanup" /\ doing[c] = None
    /\ \E f \in left[c] :
        /\ doing' = [doing EXCEPT ![c] = f]
        /\ left' = [left EXCEPT ![c] = @ \ {f}]
    /\ UNCHANGED <<fids, conn, lost, pc, mode, handle, opens, lock, missed>>

Sweep(c) ==
    /\ conn[c] = "cleanup" /\ doing[c] # None
    /\ ~StateLocked(doing[c])
    /\ CloseHandle(doing[c])
    /\ Pass(doing[c])
    /\ doing' = [doing EXCEPT ![c] = None]
    /\ UNCHANGED <<fids, conn, lost, left, pc, mode>>

\* Mutant of CleanupDone: the table is dropped before every fid is visited.
CleanupDoneEarly(c) ==
    /\ conn[c] = "cleanup" /\ doing[c] = None
    /\ fids' = fids \ Of(c)
    /\ conn' = [conn EXCEPT ![c] = "down"]
    /\ UNCHANGED <<lost, doing, left, pc, mode, handle, opens, lock, missed>>

CleanupDone(c) ==
    /\ conn[c] = "cleanup" /\ doing[c] = None /\ left[c] = {}
    /\ fids' = fids \ Of(c)
    /\ conn' = [conn EXCEPT ![c] = "down"]
    /\ UNCHANGED <<lost, doing, left, pc, mode, handle, opens, lock, missed>>

Handler(f) == Open(f) \/ RLock(f) \/ Announce(f) \/ Lock(f) \/ Reply(f) \/ Die(f)
Server(c)  == ClunkClose(c) \/ Break(c) \/ Visit(c) \/ Sweep(c) \/ CleanupDone(c)

Next == \/ \E f \in Fids : Find(f) \/ Handler(f)
        \/ \E c \in Conns : Clunk(c) \/ Lose(c) \/ Server(c)

(***************************************************************************)
(* Goroutines are scheduled, locks are given to whoever waits, and reading *)
(* from a broken connection fails at last; a client does not keep a file   *)
(* open for ever.                                                          *)
(***************************************************************************)
Fairness == /\ \A f \in Fids : SF_vars(Handler(f))
            /\ \A c \in Conns : WF_vars(Server(c)) /\ WF_vars(Clunk(c))

Spec == Init /\ [][Next]_vars /\ Fairness

-----------------------------------------------------------------------------
(***************************************************************************)
(* The file is open for one writer or for readers: LockedFile implements   *)
(* OpenLock, a fid having the file open when its open has stored a handle  *)
(* for that mode and until that is closed (lockedfile.go:22).              *)
(***************************************************************************)
OpenFor(ms) == {f \in Fids : handle[f] /\ mode[f] \in ms}
Promise == INSTANCE OpenLock WITH
               reading <- OpenFor({"OREAD", "OEXEC"}), writing <- OpenFor({"OWRITE", "ORDWR"})
IsOpenLock == Promise!Spec

(***************************************************************************)
(* The lock is held by fids for which the file inside is open, and that is *)
(* open for no fid that has gone: each is in the table of its connection   *)
(* or about to be closed by the clunk or the cleanup in progress.  The one *)
(* way out is the window between the lookup of an open and its lock: what  *)
(* clunk or cleanup passes there may keep the lock (LockedFile.Open and    *)
(* LockedHandle.Close against clunk and cleanup, fileserver.go:154).       *)
(***************************************************************************)
Holders == readers \union ({writer} \ {None})
Reached(f) ==
    LET c == ConnOf[f] IN
    \/ f \in fids /\ conn[c] \in {"up", "clunk", "stuck"}
    \/ doing[c] = f /\ conn[c] \in {"clunk", "cleanup"}
    \/ f \in left[c] /\ conn[c] = "cleanup"
NothingLeft ==
    /\ Holders \subseteq opens
    /\ \A f \in opens : Reached(f) \/ f \in missed

(***************************************************************************)
(* An open of a file that others have open returns once they have closed   *)
(* it, whatever opens, clunks and lost connections there are besides,      *)
(* unless a fid that has the file is never closed.  There are two ways to  *)
(* that: clunk or cleanup waits for another fid of the same connection,    *)
(* with fidLock held, for ever (fileserver.go:154, :947), or has passed    *)
(* the fid before its open locked it.                                      *)
(***************************************************************************)
Waits(c) == doing[c] # None /\ (StateLocked(doing[c]) \/ conn[c] = "stuck")
Knot  == \E f \in Fids : handle[f] /\ Waits(ConnOf[f])
Stray == \E f \in missed : handle[f]
OpenReturns ==
    \A f \in Fids : pc[f] = "wait" ~> (pc[f] \notin {"wait", "announced"} \/ [](Knot \/ Stray))

(***************************************************************************)
(* fidLock is held only during the immediate manipulation of the table of  *)
(* fids (fileserver.go:146).  This does not hold: clunk and cleanup keep   *)
(* it while they wait for a fid that is being opened, for ever when the    *)
(* lock of the file is held by another fid of the same connection.         *)
(***************************************************************************)
TableFreed == \A c \in Conns : conn[c] \in {"clunk", "cleanup"} ~> conn[c] \in {"up", "down"}
=============================================================================
