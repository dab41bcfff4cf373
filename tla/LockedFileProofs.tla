--------------------------- MODULE LockedFileProofs ---------------------------
(***************************************************************************)
(* Theorems about LockedFile, for any number of connections and fids: it   *)
(* implements OpenLock, and nothing that has gone holds the lock but what  *)
(* was passed between the lookup of its open and the lock of its fidState. *)
(***************************************************************************)
EXTENDS LockedFile, TLAPS

(***************************************************************************)
(* The inductive invariant of the lock.  A fid has a handle only when its  *)
(* open has got the lock, so an open never stores a second one; the lock   *)
(* is held by the fids with a handle, and by a writer that has announced   *)
(* itself.                                                                 *)
(***************************************************************************)
TypeOK ==
    /\ fids \subseteq Fids
    /\ conn \in [Conns -> {"up", "clunk", "stuck", "cleanup", "down"}]
    /\ lost \subseteq Conns
    /\ doing \in [Conns -> Fids \union {None}]
    /\ \A c \in Conns : doing[c] # None => ConnOf[doing[c]] = c
    /\ left \in [Conns -> SUBSET Fids]
    /\ \A c \in Conns : left[c] \subseteq Of(c)
    /\ pc \in [Fids -> {"new", "found", "wait", "announced", "reply", "dying", "done"}]
    /\ mode \in [Fids -> Modes]
    /\ handle \in [Fids -> BOOLEAN]
    /\ opens \subseteq Fids
    /\ readers \subseteq Fids
    /\ writer \in Fids \union {None}
    /\ missed \subseteq Fids

HandleInv   == \A f \in Fids : handle[f] => pc[f] \in {"reply", "dying", "done"}
ReadersInv  == \A f \in Fids : f \in readers <=> handle[f] /\ ~Writes(f)
WriterInv   == \A f \in Fids :
                   /\ writer = f <=> pc[f] = "announced" \/ (handle[f] /\ Writes(f))
                   /\ pc[f] = "announced" => Writes(f)
ExcludesInv == \A f \in Fids : handle[f] /\ Writes(f) => readers = {}
\* clunk and cleanup are at a fid when they are to close one.
DoingInv    == \A c \in Conns : conn[c] \in {"clunk", "stuck"} => doing[c] \in Fids

LockInv == TypeOK /\ HandleInv /\ ReadersInv /\ WriterInv /\ ExcludesInv /\ DoingInv

USE DEF Modes

LEMMA InitLock == Init => LockInv
BY LockedFileAssumption
   DEF Init, LockInv, TypeOK, HandleInv, ReadersInv, WriterInv, ExcludesInv, DoingInv, Of, Writes

\* What closing the handle of a fid changes, and that it preserves the invariant of the lock.
LEMMA CloseLock ==
    ASSUME LockInv, NEW d \in Fids, ~StateLocked(d), CloseHandle(d), UNCHANGED <<pc, mode>>
    PROVE  /\ handle' = [handle EXCEPT ![d] = FALSE]
           /\ opens' \subseteq Fids /\ readers' \subseteq Fids
           /\ writer' \in Fids \union {None}
           /\ HandleInv' /\ ReadersInv' /\ WriterInv' /\ ExcludesInv'
<1> USE LockedFileAssumption DEF LockInv, TypeOK
<1>1. CASE handle[d]
  <2>1. /\ handle' = [handle EXCEPT ![d] = FALSE]
        /\ opens' = opens \ {d}
        /\ readers' = readers \ {d}
        /\ writer' = IF writer = d THEN None ELSE writer
    BY <1>1 DEF CloseHandle, Release
  <2>2. HandleInv' /\ ReadersInv' /\ ExcludesInv'
    BY <2>1 DEF HandleInv, ReadersInv, ExcludesInv, Writes
  <2>3. WriterInv'
    BY <1>1, <2>1 DEF WriterInv, HandleInv, Writes
  <2> QED BY <2>1, <2>2, <2>3
<1>2. CASE ~handle[d]
  <2>1. UNCHANGED <<handle, opens, lock>>
    BY <1>2 DEF CloseHandle
  <2> QED BY <1>2, <2>1 DEF lock, HandleInv, ReadersInv, WriterInv, ExcludesInv, Writes
<1> QED BY <1>1, <1>2

LEMMA NextLock == LockInv /\ [Next]_vars => LockInv'
<1> SUFFICES ASSUME LockInv, [Next]_vars PROVE LockInv'
  OBVIOUS
<1> USE LockedFileAssumption DEF LockInv, TypeOK
<1>1. ASSUME NEW f \in Fids, Find(f) PROVE LockInv'
  BY <1>1 DEF Find, Goto, sweep, lock, HandleInv, ReadersInv, WriterInv, ExcludesInv, DoingInv,
              Writes
<1>2. ASSUME NEW f \in Fids, Open(f) PROVE LockInv'
  BY <1>2 DEF Open, Goto, sweep, lock, HandleInv, ReadersInv, WriterInv, ExcludesInv, DoingInv,
              Writes
<1>3. ASSUME NEW f \in Fids, RLock(f) PROVE LockInv'
  BY <1>3 DEF RLock, Goto, sweep, HandleInv, ReadersInv, WriterInv, ExcludesInv, DoingInv, Writes
<1>4. ASSUME NEW f \in Fids, Announce(f) PROVE LockInv'
  BY <1>4 DEF Announce, Goto, sweep, HandleInv, ReadersInv, WriterInv, ExcludesInv, DoingInv,
              Writes
<1>5. ASSUME NEW f \in Fids, Lock(f) PROVE LockInv'
  BY <1>5 DEF Lock, Goto, sweep, lock, HandleInv, ReadersInv, WriterInv, ExcludesInv, DoingInv,
              Writes
<1>13. ASSUME NEW f \in Fids, Reply(f) \/ Die(f) PROVE LockInv'
  <2>1. /\ UNCHANGED <<sweep, mode, handle, opens, lock>>
        /\ \E l \in {"dying", "done"} : pc' = [pc EXCEPT ![f] = l]
        /\ pc[f] \in {"reply", "dying"}
    BY <1>13 DEF Reply, Die, Goto
  <2> QED BY <2>1 DEF sweep, lock, HandleInv, ReadersInv, WriterInv, ExcludesInv, DoingInv, Writes
<1>14. ASSUME NEW c \in Conns, Lose(c) PROVE LockInv'
  BY <1>14 DEF Lose, lock, HandleInv, ReadersInv, WriterInv, ExcludesInv, DoingInv, Writes
<1>6. ASSUME NEW c \in Conns, Clunk(c) PROVE LockInv'
  BY <1>6 DEF Clunk, Of, lock, HandleInv, ReadersInv, WriterInv, ExcludesInv, DoingInv, Writes
<1>7. ASSUME NEW c \in Conns, ClunkClose(c) PROVE LockInv'
  <2>1. doing[c] \in Fids
    BY <1>7 DEF ClunkClose, DoingInv
  <2>2. /\ handle' = [handle EXCEPT ![doing[c]] = FALSE]
        /\ opens' \subseteq Fids /\ readers' \subseteq Fids
        /\ writer' \in Fids \union {None}
        /\ HandleInv' /\ ReadersInv' /\ WriterInv' /\ ExcludesInv'
    BY <1>7, <2>1, CloseLock DEF ClunkClose
  <2> QED BY <1>7, <2>2 DEF ClunkClose, Pass, DoingInv
<1>8. ASSUME NEW c \in Conns, Break(c) PROVE LockInv'
  BY <1>8 DEF Break, lock, HandleInv, ReadersInv, WriterInv, ExcludesInv, DoingInv, Writes
<1>9. ASSUME NEW c \in Conns, Visit(c) PROVE LockInv'
  <2>1. ASSUME NEW c2 \in Conns, doing'[c2] # None PROVE ConnOf[doing'[c2]] = c2
    BY <1>9, <2>1 DEF Visit, Of
  <2> QED
    BY <1>9, <2>1
       DEF Visit, lock, HandleInv, ReadersInv, WriterInv, ExcludesInv, DoingInv, Writes
<1>10. ASSUME NEW c \in Conns, Sweep(c) PROVE LockInv'
  <2>1. doing[c] \in Fids
    BY <1>10 DEF Sweep
  <2>2. /\ handle' = [handle EXCEPT ![doing[c]] = FALSE]
        /\ opens' \subseteq Fids /\ readers' \subseteq Fids
        /\ writer' \in Fids \union {None}
        /\ HandleInv' /\ ReadersInv' /\ WriterInv' /\ ExcludesInv'
    BY <1>10, <2>1, CloseLock DEF Sweep
  <2> QED BY <1>10, <2>2 DEF Sweep, Pass, DoingInv
<1>11. ASSUME NEW c \in Conns, CleanupDone(c) PROVE LockInv'
  BY <1>11 DEF CleanupDone, lock, HandleInv, ReadersInv, WriterInv, ExcludesInv, DoingInv, Writes
<1>12. CASE UNCHANGED vars
  BY <1>12 DEF vars, HandleInv, ReadersInv, WriterInv, ExcludesInv, DoingInv, Writes
<1> QED
  BY <1>1, <1>2, <1>3, <1>4, <1>5, <1>6, <1>7, <1>8, <1>9, <1>10, <1>11, <1>12,
     <1>13, <1>14 DEF Next, Handler, Server

LEMMA AlwaysLock == Spec => []LockInv
BY InitLock, NextLock, PTL DEF Spec

-----------------------------------------------------------------------------
(***************************************************************************)
(* The step that stores a handle is the Open of OpenLock and the step that *)
(* closes one its Close; every other step leaves the open fids as they are.*)
(***************************************************************************)
reading == OpenFor({"OREAD", "OEXEC"})
writing == OpenFor({"OWRITE", "ORDWR"})

LEMMA CloseMaps ==
    ASSUME LockInv, NEW d \in Fids, handle' = [handle EXCEPT ![d] = FALSE], UNCHANGED mode
    PROVE  [Promise!Next]_<<reading, writing>>
<1> USE DEF LockInv, TypeOK, reading, writing, OpenFor
<1>1. reading' = reading \ {d} /\ writing' = writing \ {d}
  OBVIOUS
<1>2. CASE handle[d]
  <2>1. d \in reading \union writing
    BY <1>2
  <2>2. Promise!Close(d)
    BY <1>1, <2>1 DEF Promise!Close
  <2> QED BY <2>2 DEF Promise!Next
<1>3. CASE ~handle[d]
  <2>1. d \notin reading \union writing
    BY <1>3
  <2>2. UNCHANGED <<reading, writing>>
    BY <1>1, <2>1
  <2> QED BY <2>2
<1> QED BY <1>2, <1>3

LEMMA NextMaps == LockInv /\ [Next]_vars => [Promise!Next]_<<reading, writing>>
<1> SUFFICES ASSUME LockInv, [Next]_vars PROVE [Promise!Next]_<<reading, writing>>
  OBVIOUS
<1> USE LockedFileAssumption DEF LockInv, TypeOK
<1>1. ASSUME NEW f \in Fids, RLock(f) PROVE Promise!Open(f)
  <2>1. /\ handle' = [handle EXCEPT ![f] = TRUE]
        /\ mode' = mode
        /\ ~handle[f] /\ mode[f] \in {"OREAD", "OEXEC"}
    BY <1>1 DEF RLock, HandleInv, Writes, sweep
  <2>2. f \notin reading \union writing
    BY <2>1 DEF reading, writing, OpenFor
  <2>3. writing = {}
    BY <1>1 DEF RLock, WriterInv, Writes, writing, OpenFor
  <2>4. reading' = reading \union {f} /\ writing' = writing
    BY <2>1 DEF reading, writing, OpenFor
  <2> QED BY <2>2, <2>3, <2>4 DEF Promise!Open, reading, writing
<1>2. ASSUME NEW f \in Fids, Lock(f) PROVE Promise!Open(f)
  <2>1. /\ handle' = [handle EXCEPT ![f] = TRUE]
        /\ mode' = mode
        /\ ~handle[f] /\ mode[f] \in {"OWRITE", "ORDWR"}
    BY <1>2 DEF Lock, HandleInv, WriterInv, Writes, sweep
  <2>2. f \notin reading \union writing
    BY <2>1 DEF reading, writing, OpenFor
  <2>3. reading = {}
    BY <1>2 DEF Lock, ReadersInv, Writes, reading, OpenFor
  <2>4. writing = {}
    BY <1>2, <2>1 DEF Lock, WriterInv, Writes, writing, OpenFor
  <2>5. reading' = reading /\ writing' = {f}
    BY <2>1, <2>4 DEF reading, writing, OpenFor
  <2> QED BY <2>2, <2>3, <2>4, <2>5 DEF Promise!Open, reading, writing
<1>3. ASSUME NEW c \in Conns, ClunkClose(c) PROVE [Promise!Next]_<<reading, writing>>
  <2>1. doing[c] \in Fids /\ mode' = mode
    BY <1>3 DEF ClunkClose, DoingInv
  <2>2. handle' = [handle EXCEPT ![doing[c]] = FALSE]
    BY <1>3, <2>1, CloseLock DEF ClunkClose
  <2> QED BY <2>1, <2>2, CloseMaps
<1>4. ASSUME NEW c \in Conns, Sweep(c) PROVE [Promise!Next]_<<reading, writing>>
  <2>1. doing[c] \in Fids /\ mode' = mode
    BY <1>4 DEF Sweep
  <2>2. handle' = [handle EXCEPT ![doing[c]] = FALSE]
    BY <1>4, <2>1, CloseLock DEF Sweep
  <2> QED BY <2>1, <2>2, CloseMaps
<1>5. ASSUME \/ \E f \in Fids : Find(f) \/ Open(f) \/ Announce(f)
             \/ \E f \in Fids : Reply(f) \/ Die(f)
             \/ \E c \in Conns : Clunk(c) \/ Lose(c) \/ Break(c) \/ Visit(c) \/ CleanupDone(c)
             \/ UNCHANGED vars
      PROVE UNCHANGED <<reading, writing>>
  <2>1. UNCHANGED <<handle, mode>>
    BY <1>5 DEF Find, Open, Announce, Reply, Die, Clunk, Lose, Break, Visit, CleanupDone, vars
  <2> QED BY <2>1 DEF reading, writing, OpenFor
<1> QED
  BY <1>1, <1>2, <1>3, <1>4, <1>5 DEF Next, Handler, Server, Promise!Next

LEMMA InitMaps == Init => Promise!Init
BY DEF Init, Promise!Init, OpenFor

(***************************************************************************)
(* LockedFile implements OpenLock: whatever opens, clunks and broken       *)
(* connections overlap, its open fids are one writer or any readers        *)
(* (LockedFile.Open, LockedHandle.Close; the promise of lockedfile.go 22). *)
(***************************************************************************)
THEOREM LockedFileImplementsOpenLock == Spec => IsOpenLock
<1>1. Init => Promise!Init
  BY InitMaps
<1>2. LockInv /\ [Next]_vars
        => [Promise!Next]_<<OpenFor({"OREAD", "OEXEC"}), OpenFor({"OWRITE", "ORDWR"})>>
  BY NextMaps DEF reading, writing
<1> QED BY <1>1, <1>2, AlwaysLock, PTL DEF Spec, IsOpenLock, Promise!Spec

-----------------------------------------------------------------------------
(***************************************************************************)
(* Where a fid is whose open has looked it up and is not closed yet: in    *)
(* the table of a connection that has no cleanup behind it, or in the      *)
(* hands of clunk or cleanup, or passed by one of them (history missed).   *)
(***************************************************************************)
Kept(f)  == Reached(f) \/ f \in missed
KeptInv  == \A f \in Fids : pc[f] \in {"found", "wait", "announced"} \/ handle[f] => Kept(f)
OpensInv == opens = {f \in Fids : handle[f] \/ pc[f] \in {"wait", "announced"}}
LeftInv  == KeptInv /\ OpensInv

LEMMA InitLeft == Init => LeftInv
BY LockedFileAssumption DEF Init, LeftInv, KeptInv, OpensInv

LEMMA LeftIsNothing == LockInv /\ LeftInv => NothingLeft
BY DEF LockInv, TypeOK, ReadersInv, WriterInv, LeftInv, KeptInv, OpensInv, Kept, NothingLeft,
       Holders

\* What closing the handle of a fid, and going by it, leaves behind.
LEMMA CloseLeft ==
    ASSUME LockInv, LeftInv, NEW c \in Conns, doing[c] \in Fids, ~StateLocked(doing[c]),
           CloseHandle(doing[c]), Pass(doing[c]), UNCHANGED <<fids, left, pc, mode>>,
           \A b \in Conns \ {c} : conn'[b] = conn[b] /\ doing'[b] = doing[b],
           \/ conn[c] = "clunk" /\ conn'[c] \in {"up", "stuck"}
           \/ conn[c] = "cleanup" /\ conn'[c] = "cleanup"
    PROVE  LeftInv'
<1> DEFINE d == doing[c]
<1> USE LockedFileAssumption DEF LockInv, TypeOK
<1>1. handle' = [handle EXCEPT ![d] = FALSE]
  BY CloseLock
<1>2. OpensInv'
  <2>1. CASE handle[d]
    BY <1>1, <2>1 DEF CloseHandle, Release, LeftInv, OpensInv, HandleInv
  <2>2. CASE ~handle[d]
    BY <1>1, <2>2 DEF CloseHandle, LeftInv, OpensInv
  <2> QED BY <2>1, <2>2
<1>3. d \in missed' \/ pc[d] \notin {"found", "wait", "announced"}
  BY DEF Pass, StateLocked
<1>4. missed \subseteq missed'
  BY DEF Pass
<1>5. ASSUME NEW f \in Fids, f # d, Reached(f) PROVE Reached(f)'
  <2>1. CASE ConnOf[f] = c
    BY <1>5, <2>1 DEF Reached
  <2>2. CASE ConnOf[f] # c
    BY <1>5, <2>2 DEF Reached
  <2> QED BY <2>1, <2>2
<1>6. ASSUME NEW f \in Fids, pc[f] \in {"found", "wait", "announced"} \/ handle'[f]
      PROVE  Kept(f)'
  <2>1. CASE f = d
    BY <1>1, <1>3, <1>6, <2>1 DEF Kept
  <2>2. CASE f # d
    BY <1>1, <1>4, <1>5, <1>6, <2>2 DEF Kept, LeftInv, KeptInv
  <2> QED BY <2>1, <2>2
<1> QED BY <1>2, <1>6 DEF LeftInv, KeptInv

LEMMA NextLeft == LockInv /\ LeftInv /\ [Next]_vars => LeftInv'
<1> SUFFICES ASSUME LockInv, LeftInv, [Next]_vars PROVE LeftInv'
  OBVIOUS
<1> USE LockedFileAssumption DEF LockInv, TypeOK, LeftInv
<1>1. ASSUME NEW f \in Fids,
             Find(f) \/ Open(f) \/ RLock(f) \/ Announce(f) \/ Lock(f) \/ Reply(f) \/ Die(f)
      PROVE LeftInv'
  <2>1. UNCHANGED sweep /\ \A g \in Fids : Reached(g)' <=> Reached(g)
    BY <1>1 DEF Find, Open, RLock, Announce, Lock, Reply, Die, sweep, Reached
  <2>2. \A g \in Fids \ {f} : pc'[g] = pc[g] /\ handle'[g] = handle[g]
    BY <1>1 DEF Find, Open, RLock, Announce, Lock, Reply, Die, Goto
  <2>3. \/ pc[f] \in {"found", "wait", "announced"} \/ handle[f]
        \/ Reached(f)
        \/ pc'[f] \notin {"found", "wait", "announced"} /\ ~handle'[f]
    BY <1>1 DEF Find, Open, RLock, Announce, Lock, Reply, Die, Goto, Reached
  <2>4. KeptInv'
    BY <2>1, <2>2, <2>3 DEF KeptInv, Kept, sweep
  <2>5. OpensInv'
    BY <1>1 DEF Find, Open, RLock, Announce, Lock, Reply, Die, Goto, OpensInv, HandleInv
  <2> QED BY <2>4, <2>5
<1>2. ASSUME NEW c \in Conns, Clunk(c) PROVE LeftInv'
  <2>1. UNCHANGED <<pc, handle, opens, missed>>
    BY <1>2 DEF Clunk
  <2>2. ASSUME NEW f \in Fids, Reached(f) PROVE Reached(f)'
    <3>1. PICK d \in fids \intersect Of(c) :
               /\ fids' = fids \ {d} /\ doing' = [doing EXCEPT ![c] = d]
               /\ conn[c] = "up" /\ conn' = [conn EXCEPT ![c] = "clunk"] /\ left' = left
      BY <1>2 DEF Clunk
    <3> QED BY <2>2, <3>1 DEF Reached, Of
  <2> QED BY <2>1, <2>2 DEF KeptInv, OpensInv, Kept
<1>3. ASSUME NEW c \in Conns, ClunkClose(c) PROVE LeftInv'
  <2>1. doing[c] \in Fids
    BY <1>3 DEF ClunkClose, DoingInv
  <2> QED BY <1>3, <2>1, CloseLeft DEF ClunkClose
<1>4. ASSUME NEW c \in Conns, Break(c) \/ Visit(c) \/ Lose(c) PROVE LeftInv'
  <2>1. UNCHANGED <<pc, handle, opens, missed>>
    BY <1>4 DEF Break, Visit, Lose
  <2>2. ASSUME NEW f \in Fids, Reached(f) PROVE Reached(f)'
    BY <1>4, <2>2 DEF Break, Visit, Lose, Reached, Of
  <2> QED BY <2>1, <2>2 DEF KeptInv, OpensInv, Kept
<1>5. ASSUME NEW c \in Conns, Sweep(c) PROVE LeftInv'
  <2>1. doing[c] \in Fids
    BY <1>5 DEF Sweep
  <2> QED BY <1>5, <2>1, CloseLeft DEF Sweep
<1>6. ASSUME NEW c \in Conns, CleanupDone(c) PROVE LeftInv'
  <2>1. UNCHANGED <<pc, handle, opens, missed>>
    BY <1>6 DEF CleanupDone
  <2>2. ASSUME NEW f \in Fids, Reached(f) PROVE Reached(f)'
    BY <1>6, <2>2 DEF CleanupDone, Reached, Of
  <2> QED BY <2>1, <2>2 DEF KeptInv, OpensInv, Kept
<1>7. CASE UNCHANGED vars
  BY <1>7 DEF vars, KeptInv, OpensInv, Kept, Reached
<1> QED
  BY <1>1, <1>2, <1>3, <1>4, <1>5, <1>6, <1>7 DEF Next, Handler, Server

(***************************************************************************)
(* The lock is held by fids for which the file inside is open, each still  *)
(* in the table of its connection or about to be closed, unless clunk or   *)
(* cleanup passed it between the lookup of its open and the lock of its    *)
(* fidState (LockedFile.Open against the cleanup and clunk of              *)
(* fileserver.go), whenever clients clunk and connections break.           *)
(***************************************************************************)
THEOREM NothingStaysLocked == Spec => []NothingLeft
<1>1. Init => LeftInv
  BY InitLeft
<1>2. LockInv /\ LeftInv /\ [Next]_vars => LeftInv'
  BY NextLeft
<1>3. LockInv /\ LeftInv => NothingLeft
  BY LeftIsNothing
<1> QED BY <1>1, <1>2, <1>3, AlwaysLock, PTL DEF Spec
=============================================================================
