--------------------------- MODULE FileServerProofs ---------------------------
(***************************************************************************)
(* Safety of FileServer for every number of requests, every set of tags    *)
(* and fids, and whatever the client and the file tree do.                 *)
(***************************************************************************)
EXTENDS FileServer, TLAPS

\* A request that was not read is not known, and one that was is.
ReadInv ==
    \A r \in Reqs :
        /\ r > received => pc[r] = "idle" /\ msg[r] = None
        /\ pc[r] # "idle" => msg[r] # None

\* Where a handler can be, by the kind of its request.
KindInv ==
    \A r \in Reqs :
        /\ pc[r] = "found" => msg[r].kind \in ByFid
        /\ pc[r] = "walking" => msg[r].kind = "walk"
        /\ pc[r] = "opening" => msg[r].kind \in {"auth", "open", "create"}
        /\ pc[r] = "closing" => msg[r].kind \in {"clunk", "remove"}

\* The fidStates in the table or in a handler's hands were allocated; only those have handles.
AllocInv ==
    /\ \A f \in Fids : fids[f] # None => loc[fids[f]] # "free"
    /\ \A r \in Reqs : ptr[r] # None => loc[ptr[r]] # "free"
    /\ \A s \in Reqs : loc[s] = "free" => handle[s] = None
    /\ \A r \in Reqs : pc[r] \in {"found", "walking", "closing"} => ptr[r] # None

\* A handler that has not come to allocating or opening anything owns nothing yet.
FreshInv ==
    \A r \in Reqs :
        pc[r] \in {"idle", "start", "found", "walking", "opening", "calling"}
            => loc[r] = "free" /\ hstat[r] = "none"

\* open and create hold the fidState they found without a handle.
OpenInv ==
    \A r \in Reqs : pc[r] = "opening" /\ msg[r].kind # "auth" =>
        ptr[r] # None /\ stLock[ptr[r]] = r /\ handle[ptr[r]] = None

HandleInv == TypeOK /\ ReadInv /\ KindInv /\ AllocInv /\ FreshInv /\ OpenInv /\ HandleOwned

-----------------------------------------------------------------------------
\* The thread names are distinct from each other and from None.
LEMMA ThreadNames ==
    /\ Serve \notin Reqs
    /\ None \notin Reqs
    /\ Serve # None
    /\ Serve \in Threads
    /\ \A r \in Reqs : r \in Threads /\ r \in Nat
BY ConstantsAssumption DEF Serve, Reqs, Threads

LEMMA InitHandleInv == Init => HandleInv
<1> SUFFICES ASSUME Init PROVE HandleInv
  OBVIOUS
<1>1. TypeOK
  <2>1. received \in 0..NReqs
    <3>1. NReqs \in Nat /\ received = 0
      BY ConstantsAssumption DEF Init
    <3> QED
      BY <3>1
  <2>2. pc \in [Threads -> PCs]
    BY DEF Init, PCs
  <2>3. mode \in [Reqs -> Modes]
    BY DEF Init, Modes, OREAD, OEXEC
  <2> QED
    BY <2>1, <2>2, <2>3 DEF TypeOK, Init
<1>2. ReadInv /\ KindInv
  BY ThreadNames DEF Init, ReadInv, KindInv
<1>3. AllocInv
  BY ThreadNames DEF Init, AllocInv
<1>4. FreshInv
  BY ThreadNames DEF Init, FreshInv
<1>5. OpenInv
  BY ThreadNames DEF Init, OpenInv
<1>6. HandleOwned
  BY ThreadNames DEF Init, HandleOwned
<1> QED
  BY <1>1, <1>2, <1>3, <1>4, <1>5, <1>6 DEF HandleInv

\* Closing a handle keeps the types.
LEMMA CloseHandleType ==
    ASSUME TypeOK, NEW s \in Reqs, CloseHandle(s)
    PROVE  /\ handle' \in [Reqs -> Reqs \union {None}]
           /\ hstat' \in [Reqs -> {"none", "open", "closed", "twice"}]
<1>1. handle' \in [Reqs -> Reqs \union {None}]
  BY ThreadNames DEF TypeOK, CloseHandle
<1>2. hstat' \in [Reqs -> {"none", "open", "closed", "twice"}]
  <2>1. CASE handle[s] = None
    BY <2>1 DEF TypeOK, CloseHandle
  <2>2. CASE handle[s] # None
    BY <2>2 DEF TypeOK, CloseHandle
  <2> QED
    BY <2>1, <2>2
<1> QED
  BY <1>1, <1>2


\* Every step of the server keeps the types.
LEMMA TypeStep == HandleInv /\ [Next]_vars => TypeOK'
<1> SUFFICES ASSUME HandleInv, [Next]_vars PROVE TypeOK'
  OBVIOUS
<1> USE ThreadNames DEF HandleInv
<1>1. CASE ServeTop
  BY <1>1
     DEF ServeTop, Goto, TypeOK, PCs, clientVars, threadVars, tagVars, fidVars,
         handleVars, lockVars, serverVars
<1>2. CASE ReadError
  BY <1>2
     DEF ReadError, Goto, TypeOK, PCs, clientVars, threadVars, tagVars, fidVars,
         handleVars, lockVars, serverVars
<1>3. ASSUME NEW r \in Reqs, NEW m \in Script[r], Receive(r, m)
      PROVE  TypeOK'
  <2>1. m \in Messages
    BY ConstantsAssumption
  <2>2. received' \in 0..NReqs
    BY <1>3 DEF Receive, Reqs
  <2>3. msg' \in [Reqs -> Messages \union {None}]
    BY <2>1, <1>3 DEF Receive, TypeOK
  <2>4. tags' \in [Tags -> Reqs \union {None}] /\ cancelled' \in [Reqs -> BOOLEAN]
    BY <1>3 DEF Receive, Register, TypeOK
  <2> QED
    BY <2>2, <2>3, <2>4, <1>3
       DEF Receive, TypeOK, PCs, fidVars, handleVars, lockVars, serverVars
<1>4. ASSUME NEW r \in Reqs, Version(r)
      PROVE  TypeOK'
  BY <1>4
     DEF Version, Answer, Goto, TypeOK, PCs, clientVars, threadVars, fidVars,
         handleVars, lockVars, serverVars
<1>5. ASSUME NEW r \in Reqs, VersionLock(r)
      PROVE  TypeOK'
  BY <1>5
     DEF VersionLock, Goto, TypeOK, PCs, clientVars, threadVars, tagVars, fidVars,
         handleVars, lockVars, serverVars
<1>6. ASSUME NEW r \in Reqs, VersionReset(r)
      PROVE  TypeOK'
  BY <1>6
     DEF VersionReset, Answer, Goto, TypeOK, PCs, clientVars, threadVars, tagVars,
         fidVars, handleVars, lockVars
<1>7. ASSUME NEW r \in Reqs, Auth(r)
      PROVE  TypeOK'
  BY <1>7
     DEF Auth, Answer, Goto, TypeOK, PCs, clientVars, threadVars, tagVars, fidVars,
         handleVars, serverVars
<1>8. ASSUME NEW r \in Reqs, Attach(r)
      PROVE  TypeOK'
  BY <1>8
     DEF Attach, Answer, Goto, TypeOK, PCs, clientVars, threadVars, tagVars, fidVars,
         handleVars, serverVars
<1>9. ASSUME NEW r \in Reqs, AttachReturn(r)
      PROVE  TypeOK'
  BY <1>9
     DEF AttachReturn, Answer, Goto, TypeOK, PCs, clientVars, threadVars, tagVars,
         fidVars, handleVars, lockVars, serverVars
<1>10. ASSUME NEW r \in Reqs, Flush(r)
      PROVE  TypeOK'
  BY <1>10
     DEF Flush, Answer, Goto, TypeOK, PCs, clientVars, threadVars, fidVars, handleVars,
         lockVars, serverVars
<1>11. ASSUME NEW r \in Reqs, Unsupported(r)
      PROVE  TypeOK'
  BY <1>11
     DEF Unsupported, Answer, Goto, TypeOK, PCs, clientVars, threadVars, tagVars,
         fidVars, handleVars, lockVars, serverVars
<1>12. ASSUME NEW r \in Reqs, Lookup(r)
      PROVE  TypeOK'
  BY <1>12
     DEF Lookup, Answer, Goto, StateOf, TypeOK, PCs, clientVars, tagVars, fidVars,
         handleVars, lockVars, serverVars
<1>13. ASSUME NEW r \in Reqs, WalkTo(r)
      PROVE  TypeOK'
  BY <1>13
     DEF WalkTo, Answer, Goto, TypeOK, PCs, clientVars, threadVars, tagVars, fidVars,
         handleVars, lockVars, serverVars
<1>14. ASSUME NEW r \in Reqs, WalkShort(r)
      PROVE  TypeOK'
  BY <1>14
     DEF WalkShort, Answer, Goto, TypeOK, PCs, clientVars, threadVars, tagVars, fidVars,
         handleVars, lockVars, serverVars
<1>15. ASSUME NEW r \in Reqs, WalkBind(r)
      PROVE  TypeOK'
  BY <1>15
     DEF WalkBind, Answer, Goto, TypeOK, PCs, clientVars, threadVars, tagVars, fidVars,
         handleVars, lockVars, serverVars
<1>16. ASSUME NEW r \in Reqs, WalkPanic(r)
      PROVE  TypeOK'
  BY <1>16
     DEF WalkPanic, Goto, TypeOK, PCs, clientVars, threadVars, tagVars, fidVars,
         handleVars, serverVars
<1>17. ASSUME NEW r \in Reqs, OpenStart(r)
      PROVE  TypeOK'
  BY ZenonT(20), <1>17
     DEF OpenStart, Answer, Goto, TypeOK, PCs, clientVars, threadVars, tagVars, fidVars,
         handleVars, serverVars
<1>18. ASSUME NEW r \in Reqs, OpenReturn(r)
      PROVE  TypeOK'
  <2>1. msg[r].mode \in Modes
    BY <1>18 DEF OpenReturn, TypeOK, ReadInv, Messages
  <2> QED
    BY SMTT(20), <2>1, <1>18
       DEF OpenReturn, Answer, Goto, TypeOK, PCs, clientVars, threadVars, tagVars,
           fidVars, handleVars, lockVars, serverVars
<1>19. ASSUME NEW r \in Reqs, IOStart(r)
      PROVE  TypeOK'
  <2>1. ptr[r] \in Reqs
    BY <1>19 DEF IOStart, KindInv, AllocInv, TypeOK
  <2> QED
    BY <2>1, <1>19
       DEF IOStart, Answer, Goto, TypeOK, PCs, clientVars, tagVars, fidVars, handleVars,
           lockVars, serverVars
<1>20. ASSUME NEW r \in Reqs, StatStart(r)
      PROVE  TypeOK'
  BY ZenonT(20), <1>20
     DEF StatStart, Answer, Goto, TypeOK, PCs, clientVars, threadVars, tagVars, fidVars,
         handleVars, serverVars
<1>21. ASSUME NEW r \in Reqs, CallReturn(r)
      PROVE  TypeOK'
  BY <1>21
     DEF CallReturn, Answer, Goto, TypeOK, PCs, clientVars, threadVars, tagVars,
         fidVars, handleVars, lockVars, serverVars
<1>22. ASSUME NEW r \in Reqs, Unbind(r)
      PROVE  TypeOK'
  BY <1>22
     DEF Unbind, Answer, Goto, StateOf, TypeOK, PCs, clientVars, tagVars, handleVars,
         serverVars
<1>23. ASSUME NEW r \in Reqs, CloseFid(r)
      PROVE  TypeOK'
  <2>1. ptr[r] \in Reqs
    BY <1>23 DEF CloseFid, AllocInv, TypeOK
  <2>2. handle' \in [Reqs -> Reqs \union {None}]
        /\ hstat' \in [Reqs -> {"none", "open", "closed", "twice"}]
    BY <2>1, <1>23, CloseHandleType DEF CloseFid
  <2> QED
    BY <2>1, <2>2, <1>23
       DEF CloseFid, Answer, Goto, TypeOK, PCs, clientVars, threadVars, tagVars,
           fidVars, serverVars
<1>24. ASSUME NEW r \in Reqs, Respond(r)
      PROVE  TypeOK'
  BY <1>24
     DEF Respond, CanRespond, DeleteTag, AwaitsAfter, Goto, DropLocks, TypeOK, PCs,
         threadVars, fidVars, handleVars, serverVars
<1>25. ASSUME NEW r \in Reqs, RespondCancelled(r)
      PROVE  TypeOK'
  BY <1>25
     DEF RespondCancelled, CanRespond, Goto, DropLocks, TypeOK, PCs, clientVars,
         threadVars, tagVars, fidVars, handleVars, serverVars
<1>26. ASSUME NEW r \in Reqs, RespondTooBig(r)
      PROVE  TypeOK'
  BY <1>26
     DEF RespondTooBig, CanRespond, Goto, DropLocks, TypeOK, PCs, clientVars,
         threadVars, tagVars, fidVars, handleVars, serverVars
<1>27. ASSUME NEW r \in Reqs, RespondFails(r)
      PROVE  TypeOK'
  BY <1>27
     DEF RespondFails, CanRespond, DeleteTag, Goto, TypeOK, PCs, clientVars, threadVars,
         fidVars, handleVars, serverVars
<1>28. ASSUME NEW r \in Reqs, RespondPanics(r)
      PROVE  TypeOK'
  BY <1>28
     DEF RespondPanics, CanRespond, Goto, DropLocks, TypeOK, PCs, clientVars,
         threadVars, tagVars, fidVars, handleVars, serverVars
<1>29. ASSUME NEW th \in Threads, Die(th)
      PROVE  TypeOK'
  BY <1>29
     DEF Die, Goto, TypeOK, PCs, clientVars, threadVars, tagVars, fidVars, handleVars
<1>30. ASSUME NEW th \in Threads, Cleanup(th)
      PROVE  TypeOK'
  BY <1>30
     DEF Cleanup, Live, Goto, TypeOK, PCs, clientVars, threadVars, tagVars, fidVars,
         handleVars
<1>31. ASSUME NEW th \in Threads, NEW s \in Reqs, Sweep(th, s)
      PROVE  TypeOK'
  <2>1. handle' \in [Reqs -> Reqs \union {None}]
        /\ hstat' \in [Reqs -> {"none", "open", "closed", "twice"}]
    BY <1>31, CloseHandleType DEF Sweep
  <2>2. mode' \in [Reqs -> Modes]
    BY <1>31 DEF Sweep, TypeOK, Modes, OREAD, OEXEC
  <2> QED
    BY <2>1, <2>2, <1>31
       DEF Sweep, TypeOK, PCs, clientVars, threadVars, tagVars, fidVars, lockVars
<1>32. ASSUME NEW th \in Threads, CleanupDone(th)
      PROVE  TypeOK'
  BY <1>32
     DEF CleanupDone, AfterCleanup, DropLocks, Goto, TypeOK, PCs, clientVars,
         threadVars, tagVars, handleVars, serverVars
<1>33. CASE Hangup
  BY <1>33
     DEF Hangup, TypeOK, PCs, threadVars, tagVars, fidVars, handleVars, lockVars,
         serverVars
<1>34. CASE Quiescent
  BY <1>34
     DEF Quiescent, vars, TypeOK, PCs, clientVars, threadVars, tagVars, fidVars,
         handleVars, lockVars, serverVars
<1>35. CASE UNCHANGED vars
  BY <1>35
     DEF vars, TypeOK, PCs, clientVars, threadVars, tagVars, fidVars, handleVars,
         lockVars, serverVars
<1> QED
  BY <1>1, <1>2, <1>3, <1>4, <1>5, <1>6, <1>7, <1>8, <1>9, <1>10, <1>11, <1>12, <1>13,
     <1>14, <1>15, <1>16, <1>17, <1>18, <1>19, <1>20, <1>21, <1>22, <1>23, <1>24, <1>25,
     <1>26, <1>27, <1>28, <1>29, <1>30, <1>31, <1>32, <1>33, <1>34, <1>35
     DEF Next, Handler, Responding, Dying

\* Closing the handle of a fidState leaves every other handle to its owner.
LEMMA CloseKeepsOwned ==
    ASSUME TypeOK, HandleOwned, NEW s \in Reqs, CloseHandle(s)
    PROVE  HandleOwned'
<1>1. CASE handle[s] = None
  BY <1>1, ThreadNames DEF CloseHandle, HandleOwned, TypeOK
<1>2. CASE handle[s] # None
  <2> DEFINE h == handle[s]
  <2>1. h \in Reqs /\ hstat[h] = "open"
    BY <1>2 DEF HandleOwned, TypeOK
  <2>2. hstat' = [hstat EXCEPT ![h] = "closed"] /\ handle' = [handle EXCEPT ![s] = None]
    BY <1>2, <2>1 DEF CloseHandle, TypeOK
  <2>3. \A s2 \in Reqs : s2 # s /\ handle[s2] # None => handle[s2] # h
    BY <1>2 DEF HandleOwned
  <2> HIDE DEF h
  <2> QED
    BY <2>1, <2>2, <2>3, ThreadNames DEF HandleOwned, TypeOK
<1> QED
  BY <1>1, <1>2

\* Closing touches no handle that was never opened.
LEMMA CloseKeepsFresh ==
    ASSUME TypeOK, HandleOwned, NEW s \in Reqs, CloseHandle(s)
    PROVE  \A q \in Reqs : hstat[q] = "none" => hstat'[q] = "none"
BY DEF CloseHandle, HandleOwned, TypeOK

\* Every step of the server keeps each part of HandleInv.
LEMMA HandlePartsStep ==
    ASSUME HandleInv, [Next]_vars
    PROVE  ReadInv' /\ KindInv' /\ AllocInv' /\ FreshInv' /\ OpenInv' /\ HandleOwned'
<1> USE ThreadNames DEF HandleInv
<1> DEFINE Goal == ReadInv /\ KindInv /\ AllocInv /\ FreshInv /\ OpenInv /\ HandleOwned
<1> SUFFICES Goal'
  OBVIOUS
<1>1. CASE ServeTop
  BY <1>1
     DEF ServeTop, Goto, ReadInv, TypeOK, KindInv, AllocInv, FreshInv, OpenInv,
         HandleOwned, clientVars, threadVars, fidVars, handleVars, lockVars
<1>2. CASE ReadError
  BY <1>2
     DEF ReadError, Goto, ReadInv, TypeOK, KindInv, AllocInv, FreshInv, OpenInv,
         HandleOwned, clientVars, threadVars, fidVars, handleVars, lockVars
<1>3. ASSUME NEW r \in Reqs, NEW m \in Script[r], Receive(r, m)
      PROVE  Goal'
  <2>1. KindInv' /\ AllocInv' /\ OpenInv' /\ HandleOwned'
    BY <1>3
       DEF Receive, TagInUse, KindInv, TypeOK, AllocInv, OpenInv, HandleOwned, fidVars,
           handleVars, lockVars
  <2>2. ReadInv'
    <3> SUFFICES ASSUME NEW q \in Reqs
                 PROVE  /\ q > received' => pc'[q] = "idle" /\ msg'[q] = None
                        /\ pc'[q] # "idle" => msg'[q] # None
      BY DEF ReadInv
    <3>1. received' = r /\ r = received + 1
      BY <1>3 DEF Receive
    <3>2. received \in Nat
      BY ConstantsAssumption DEF TypeOK
    <3>3. CASE q = r
      <4>1. m # None
        BY ConstantsAssumption
      <4> QED
        BY <3>1, <3>3, <4>1, <1>3 DEF Receive, TypeOK
    <3>4. CASE q # r
      <4>1. pc'[q] = pc[q] /\ msg'[q] = msg[q]
        BY <3>4, <1>3 DEF Receive, TypeOK
      <4>2. q > received' => q > received
        BY <3>1, <3>2
      <4> QED
        BY <4>1, <4>2 DEF ReadInv
    <3> QED
      BY <3>3, <3>4
  <2>3. FreshInv'
    <3>1. pc[r] = "idle"
      BY <1>3 DEF Receive, ReadInv, TypeOK
    <3> QED
      BY <3>1, <1>3 DEF Receive, FreshInv, TypeOK, fidVars, handleVars
  <2> QED
    BY <2>1, <2>2, <2>3
<1>4. ASSUME NEW r \in Reqs, Version(r)
      PROVE  Goal'
  BY <1>4
     DEF Version, Answer, Goto, ReadInv, TypeOK, KindInv, AllocInv, FreshInv, OpenInv,
         HandleOwned, clientVars, threadVars, fidVars, handleVars, lockVars
<1>5. ASSUME NEW r \in Reqs, VersionLock(r)
      PROVE  Goal'
  BY <1>5
     DEF VersionLock, Goto, ReadInv, TypeOK, KindInv, AllocInv, FreshInv, OpenInv,
         HandleOwned, clientVars, threadVars, fidVars, handleVars, lockVars
<1>6. ASSUME NEW r \in Reqs, VersionReset(r)
      PROVE  Goal'
  BY <1>6
     DEF VersionReset, Answer, Goto, ReadInv, TypeOK, KindInv, AllocInv, FreshInv,
         OpenInv, HandleOwned, clientVars, threadVars, fidVars, handleVars, lockVars
<1>7. ASSUME NEW r \in Reqs, Auth(r)
      PROVE  Goal'
  BY <1>7
     DEF Auth, Answer, Goto, ReadInv, TypeOK, KindInv, AllocInv, FreshInv, OpenInv,
         HandleOwned, clientVars, threadVars, fidVars, handleVars
<1>8. ASSUME NEW r \in Reqs, Attach(r)
      PROVE  Goal'
  BY <1>8
     DEF Attach, Answer, Goto, ReadInv, TypeOK, KindInv, AllocInv, FreshInv, OpenInv,
         HandleOwned, clientVars, threadVars, fidVars, handleVars
<1>9. ASSUME NEW r \in Reqs, AttachReturn(r)
      PROVE  Goal'
  BY <1>9
     DEF AttachReturn, Answer, Goto, ReadInv, TypeOK, KindInv, AllocInv, FreshInv,
         OpenInv, HandleOwned, clientVars, threadVars, fidVars, handleVars, lockVars
<1>10. ASSUME NEW r \in Reqs, Flush(r)
      PROVE  Goal'
  BY <1>10
     DEF Flush, Answer, Goto, ReadInv, TypeOK, KindInv, AllocInv, FreshInv, OpenInv,
         HandleOwned, clientVars, threadVars, fidVars, handleVars, lockVars
<1>11. ASSUME NEW r \in Reqs, Unsupported(r)
      PROVE  Goal'
  BY <1>11
     DEF Unsupported, Answer, Goto, ReadInv, TypeOK, KindInv, AllocInv, FreshInv,
         OpenInv, HandleOwned, clientVars, threadVars, fidVars, handleVars, lockVars
<1>12. ASSUME NEW r \in Reqs, Lookup(r)
      PROVE  Goal'
  BY SMTT(20), <1>12
     DEF Lookup, Answer, Goto, StateOf, ReadInv, TypeOK, KindInv, AllocInv, FreshInv,
         OpenInv, HandleOwned, clientVars, fidVars, handleVars, lockVars
<1>13. ASSUME NEW r \in Reqs, WalkTo(r)
      PROVE  Goal'
  BY <1>13
     DEF WalkTo, Answer, Goto, ReadInv, TypeOK, KindInv, AllocInv, FreshInv, OpenInv,
         HandleOwned, clientVars, threadVars, fidVars, handleVars, lockVars
<1>14. ASSUME NEW r \in Reqs, WalkShort(r)
      PROVE  Goal'
  BY <1>14
     DEF WalkShort, Answer, Goto, ReadInv, TypeOK, KindInv, AllocInv, FreshInv, OpenInv,
         HandleOwned, clientVars, threadVars, fidVars, handleVars, lockVars
<1>15. ASSUME NEW r \in Reqs, WalkBind(r)
      PROVE  Goal'
  BY <1>15
     DEF WalkBind, Answer, Goto, ReadInv, TypeOK, KindInv, AllocInv, FreshInv, OpenInv,
         HandleOwned, clientVars, threadVars, fidVars, handleVars, lockVars
<1>16. ASSUME NEW r \in Reqs, WalkPanic(r)
      PROVE  Goal'
  BY <1>16
     DEF WalkPanic, Goto, ReadInv, TypeOK, KindInv, AllocInv, FreshInv, OpenInv,
         HandleOwned, clientVars, threadVars, fidVars, handleVars
<1>17. ASSUME NEW r \in Reqs, OpenStart(r)
      PROVE  Goal'
  <2>1. ReadInv' /\ KindInv' /\ AllocInv' /\ FreshInv' /\ HandleOwned'
    BY <1>17
       DEF OpenStart, Answer, Goto, ReadInv, TypeOK, KindInv, AllocInv, FreshInv,
           HandleOwned, clientVars, threadVars, fidVars, handleVars
  <2>2. OpenInv'
    <3>1. ptr[r] \in Reqs
      BY <1>17 DEF OpenStart, AllocInv, TypeOK
    <3> QED
      BY <3>1, <1>17
         DEF OpenStart, Answer, Goto, OpenInv, TypeOK, clientVars, threadVars,
             handleVars
  <2> QED
    BY <2>1, <2>2
<1>18. ASSUME NEW r \in Reqs, OpenReturn(r)
      PROVE  Goal'
  <2>1. ReadInv' /\ KindInv' /\ AllocInv'
    BY <1>18
       DEF OpenReturn, Answer, Goto, ReadInv, TypeOK, KindInv, AllocInv, clientVars,
           threadVars, fidVars, handleVars
  <2>2. FreshInv'
    <3>1. pc'[r] = "reply" /\ \A q \in Reqs : q # r => pc'[q] = pc[q]
      BY <1>18 DEF OpenReturn, Answer, Goto, TypeOK
    <3>2. ASSUME NEW q \in Reqs, q # r, loc[q] = "free" PROVE loc'[q] = "free"
      BY <3>2, <1>18 DEF OpenReturn, AllocInv, KindInv, OpenInv, TypeOK, fidVars
    <3>3. ASSUME NEW q \in Reqs, q # r PROVE hstat'[q] = hstat[q]
      BY <3>3, <1>18 DEF OpenReturn, TypeOK, handleVars
    <3> QED
      BY <3>1, <3>2, <3>3 DEF FreshInv
  <2>3. OpenInv'
    <3> SUFFICES ASSUME NEW q \in Reqs, pc'[q] = "opening", msg[q].kind # "auth"
                 PROVE  ptr[q] # None /\ stLock[ptr[q]] = q /\ handle'[ptr[q]] = None
      BY <1>18 DEF OpenReturn, OpenInv, clientVars, threadVars, lockVars
    <3>1. q # r /\ pc[q] = "opening"
      BY <1>18 DEF OpenReturn, Answer, Goto, TypeOK
    <3>2. ptr[q] # None /\ stLock[ptr[q]] = q /\ handle[ptr[q]] = None
      BY <3>1 DEF OpenInv
    <3>3. CASE msg[r].kind = "auth"
      <4>1. loc[r] = "free" /\ loc[ptr[q]] # "free"
        BY <3>2, <1>18 DEF OpenReturn, FreshInv, AllocInv
      <4> QED
        BY <3>2, <3>3, <4>1, <1>18 DEF OpenReturn, TypeOK, handleVars
    <3>4. CASE msg[r].kind # "auth"
      <4>1. stLock[ptr[r]] = r
        BY <3>4, <1>18 DEF OpenReturn, OpenInv
      <4> QED
        BY <3>1, <3>2, <3>4, <4>1, <1>18 DEF OpenReturn, TypeOK, handleVars
    <3> QED
      BY <3>2, <3>3, <3>4
  <2>4. HandleOwned'
    <3>1. CASE UNCHANGED handleVars
      BY <3>1 DEF HandleOwned, handleVars
    <3>2. ASSUME NEW s \in Reqs, handle[s] = None,
                 handle' = [handle EXCEPT ![s] = r], hstat' = [hstat EXCEPT ![r] = "open"]
          PROVE  HandleOwned'
      <4>1. hstat[r] = "none"
        BY <1>18 DEF OpenReturn, FreshInv
      <4> QED
        BY <3>2, <4>1 DEF HandleOwned, TypeOK
    <3>3. CASE msg[r].kind = "auth"
      <4>1. handle[r] = None
        BY <1>18 DEF OpenReturn, FreshInv, AllocInv
      <4> QED
        BY <3>1, <3>2, <3>3, <4>1, <1>18 DEF OpenReturn
    <3>4. CASE msg[r].kind # "auth"
      <4>1. ptr[r] \in Reqs /\ handle[ptr[r]] = None
        BY <3>4, <1>18 DEF OpenReturn, OpenInv, TypeOK
      <4> QED
        BY <3>1, <3>2, <3>4, <4>1, <1>18 DEF OpenReturn
    <3> QED
      BY <3>3, <3>4
  <2> QED
    BY <2>1, <2>2, <2>3, <2>4
<1>19. ASSUME NEW r \in Reqs, IOStart(r)
      PROVE  Goal'
  BY <1>19
     DEF IOStart, Answer, Goto, ReadInv, TypeOK, KindInv, AllocInv, FreshInv, OpenInv,
         HandleOwned, clientVars, fidVars, handleVars, lockVars
<1>20. ASSUME NEW r \in Reqs, StatStart(r)
      PROVE  Goal'
  BY <1>20
     DEF StatStart, Answer, Goto, ReadInv, TypeOK, KindInv, AllocInv, FreshInv, OpenInv,
         HandleOwned, clientVars, threadVars, fidVars, handleVars
<1>21. ASSUME NEW r \in Reqs, CallReturn(r)
      PROVE  Goal'
  BY <1>21
     DEF CallReturn, Answer, Goto, ReadInv, TypeOK, KindInv, AllocInv, FreshInv,
         OpenInv, HandleOwned, clientVars, threadVars, fidVars, handleVars, lockVars
<1>22. ASSUME NEW r \in Reqs, Unbind(r)
      PROVE  Goal'
  <2>1. ReadInv'
    BY <1>22 DEF Unbind, Answer, Goto, ReadInv, TypeOK, clientVars
  <2>2. KindInv'
    BY <1>22 DEF Unbind, Answer, Goto, KindInv, TypeOK, clientVars
  <2>3. AllocInv'
    BY <1>22 DEF Unbind, Answer, Goto, StateOf, AllocInv, TypeOK, handleVars
  <2>4. FreshInv'
    BY <1>22 DEF Unbind, Answer, Goto, FreshInv, TypeOK, handleVars
  <2>5. OpenInv'
    BY <1>22 DEF Unbind, Answer, Goto, StateOf, OpenInv, TypeOK, clientVars, handleVars
  <2>6. HandleOwned'
    BY <1>22 DEF Unbind, HandleOwned, TypeOK, handleVars
  <2> QED
    BY <2>1, <2>2, <2>3, <2>4, <2>5, <2>6
<1>23. ASSUME NEW r \in Reqs, CloseFid(r)
      PROVE  Goal'
  <2>1. ReadInv' /\ KindInv' /\ AllocInv' /\ OpenInv'
    BY <1>23
       DEF CloseFid, Answer, Goto, CloseHandle, ReadInv, TypeOK, KindInv, AllocInv,
           OpenInv, clientVars, threadVars, fidVars
  <2>2. FreshInv'
    <3>1. \A q \in Reqs : hstat[q] = "none" => hstat'[q] = "none"
      BY <1>23, CloseKeepsFresh DEF CloseFid, AllocInv, TypeOK
    <3> QED
      BY <3>1, <1>23 DEF CloseFid, Answer, Goto, FreshInv, TypeOK, fidVars
  <2>3. HandleOwned'
    <3>1. ptr[r] \in Reqs /\ CloseHandle(ptr[r])
      BY <1>23 DEF CloseFid, AllocInv, TypeOK
    <3> QED
      BY <3>1, CloseKeepsOwned
  <2> QED
    BY <2>1, <2>2, <2>3
<1>24. ASSUME NEW r \in Reqs, Respond(r)
      PROVE  Goal'
  BY <1>24
     DEF Respond, CanRespond, Goto, DropLocks, ReadInv, TypeOK, KindInv, AllocInv,
         FreshInv, OpenInv, HandleOwned, threadVars, fidVars, handleVars
<1>25. ASSUME NEW r \in Reqs, RespondCancelled(r)
      PROVE  Goal'
  BY <1>25
     DEF RespondCancelled, CanRespond, Goto, DropLocks, ReadInv, TypeOK, KindInv,
         AllocInv, FreshInv, OpenInv, HandleOwned, clientVars, threadVars, fidVars,
         handleVars
<1>26. ASSUME NEW r \in Reqs, RespondTooBig(r)
      PROVE  Goal'
  BY <1>26
     DEF RespondTooBig, CanRespond, Goto, DropLocks, ReadInv, TypeOK, KindInv, AllocInv,
         FreshInv, OpenInv, HandleOwned, clientVars, threadVars, fidVars, handleVars
<1>27. ASSUME NEW r \in Reqs, RespondFails(r)
      PROVE  Goal'
  BY <1>27
     DEF RespondFails, CanRespond, Goto, ReadInv, TypeOK, KindInv, AllocInv, FreshInv,
         OpenInv, HandleOwned, clientVars, threadVars, fidVars, handleVars
<1>28. ASSUME NEW r \in Reqs, RespondPanics(r)
      PROVE  Goal'
  BY <1>28
     DEF RespondPanics, CanRespond, Goto, DropLocks, ReadInv, TypeOK, KindInv, AllocInv,
         FreshInv, OpenInv, HandleOwned, clientVars, threadVars, fidVars, handleVars
<1>29. ASSUME NEW th \in Threads, Die(th)
      PROVE  Goal'
  BY <1>29
     DEF Die, Goto, ReadInv, TypeOK, KindInv, AllocInv, FreshInv, OpenInv, HandleOwned,
         clientVars, threadVars, fidVars, handleVars
<1>30. ASSUME NEW th \in Threads, Cleanup(th)
      PROVE  Goal'
  BY <1>30
     DEF Cleanup, Goto, ReadInv, TypeOK, KindInv, AllocInv, FreshInv, OpenInv,
         HandleOwned, clientVars, threadVars, fidVars, handleVars
<1>31. ASSUME NEW th \in Threads, NEW s \in Reqs, Sweep(th, s)
      PROVE  Goal'
  <2>1. ReadInv' /\ KindInv' /\ AllocInv' /\ OpenInv'
    BY <1>31
       DEF Sweep, CloseHandle, ReadInv, TypeOK, KindInv, AllocInv, OpenInv, clientVars,
           threadVars, fidVars, lockVars
  <2>2. FreshInv'
    <3>1. \A q \in Reqs : hstat[q] = "none" => hstat'[q] = "none"
      BY <1>31, CloseKeepsFresh DEF Sweep
    <3> QED
      BY <3>1, <1>31 DEF Sweep, FreshInv, TypeOK, fidVars
  <2>3. HandleOwned'
    BY <1>31, CloseKeepsOwned DEF Sweep
  <2> QED
    BY <2>1, <2>2, <2>3
<1>32. ASSUME NEW th \in Threads, CleanupDone(th)
      PROVE  Goal'
  BY <1>32
     DEF CleanupDone, AfterCleanup, DropLocks, Goto, ReadInv, TypeOK, KindInv, AllocInv,
         FreshInv, OpenInv, HandleOwned, clientVars, threadVars, handleVars
<1>33. CASE Hangup
  BY <1>33
     DEF Hangup, ReadInv, TypeOK, KindInv, AllocInv, FreshInv, OpenInv, HandleOwned,
         threadVars, fidVars, handleVars, lockVars
<1>34. CASE Quiescent
  BY <1>34
     DEF Quiescent, vars, ReadInv, TypeOK, KindInv, AllocInv, FreshInv, OpenInv,
         HandleOwned, clientVars, threadVars, fidVars, handleVars, lockVars
<1>35. CASE UNCHANGED vars
  BY <1>35
     DEF vars, ReadInv, TypeOK, KindInv, AllocInv, FreshInv, OpenInv, HandleOwned,
         clientVars, threadVars, tagVars, fidVars, handleVars, lockVars, serverVars
<1> HIDE DEF Goal
<1> QED
  BY <1>1, <1>2, <1>3, <1>4, <1>5, <1>6, <1>7, <1>8, <1>9, <1>10, <1>11, <1>12, <1>13,
     <1>14, <1>15, <1>16, <1>17, <1>18, <1>19, <1>20, <1>21, <1>22, <1>23, <1>24, <1>25,
     <1>26, <1>27, <1>28, <1>29, <1>30, <1>31, <1>32, <1>33, <1>34, <1>35
     DEF Next, Handler, Responding, Dying

LEMMA HandleInvStep == HandleInv /\ [Next]_vars => HandleInv'
BY TypeStep, HandlePartsStep DEF HandleInv

LEMMA HandleInvariant == Spec => []HandleInv
BY InitHandleInv, HandleInvStep, PTL DEF Spec

\* Every reachable state is well typed.
THEOREM TypeCorrect == Spec => []TypeOK
<1>1. HandleInv => TypeOK
  BY DEF HandleInv
<1> QED
  BY <1>1, HandleInvariant, PTL

\* Whatever the client sends and however the handlers interleave, every handle the
\* server has open belongs to one fidState, and none is closed twice.
THEOREM HandlesOwned == Spec => []HandleOwned
<1>1. HandleInv => HandleOwned
  BY DEF HandleInv
<1> QED
  BY <1>1, HandleInvariant, PTL

-----------------------------------------------------------------------------
\* Only a request with a tag is ever cancelled.
CancelInv == \A r \in Reqs : cancelled[r] => msg[r] # None /\ msg[r].tag \in Tags

TagInv == HandleInv /\ CancelInv /\ TagOwned


\* What Receive does to the request it reads, and that it leaves the others where they are.
LEMMA ReceiveFacts ==
    ASSUME HandleInv, NEW r \in Reqs, NEW m \in Script[r], Receive(r, m)
    PROVE  /\ pc[r] = "idle" /\ msg[r] = None
           /\ m \in Messages /\ m # None
           /\ msg'[r] = m /\ pc'[r] \in {"start", "reply"}
           /\ pc'[r] = "reply" => reply'[r] = "error"
           /\ \A q \in Reqs : q # r => pc'[q] = pc[q] /\ msg'[q] = msg[q]
                                        /\ reply'[q] = reply[q]
<1>1. pc[r] = "idle" /\ msg[r] = None
  <2>1. r > received
    BY ConstantsAssumption DEF Receive, HandleInv, TypeOK
  <2> QED
    BY <2>1 DEF HandleInv, ReadInv
<1>2. m \in Messages /\ m # None
  BY ConstantsAssumption
<1> QED
  BY <1>1, <1>2, ThreadNames DEF Receive, HandleInv, TypeOK

\* Every step keeps the table true to its requests, cancelled or not.
LEMMA TagPartsStep ==
    ASSUME TagInv, [Next]_vars
    PROVE  CancelInv' /\ TagOwned'
<1> USE ThreadNames DEF TagInv, HandleInv
<1> DEFINE Goal == CancelInv /\ TagOwned
<1> SUFFICES Goal'
  OBVIOUS
<1>1. CASE ServeTop
  BY <1>1 DEF ServeTop, Goto, CancelInv, TypeOK, TagOwned, clientVars, tagVars
<1>2. CASE ReadError
  BY <1>2 DEF ReadError, Goto, CancelInv, TypeOK, TagOwned, clientVars, tagVars
<1>3. ASSUME NEW r \in Reqs, NEW m \in Script[r], Receive(r, m)
      PROVE  Goal'
  <2>1. CancelInv'
    <3> SUFFICES ASSUME NEW q \in Reqs, cancelled'[q]
                 PROVE  msg'[q] # None /\ msg'[q].tag \in Tags
      BY DEF CancelInv
    <3>1. CASE cancelled[q]
      BY <3>1, <1>3, ReceiveFacts DEF CancelInv
    <3>2. CASE ~cancelled[q]
      <4>1. m.tag \in Tags /\ q = tags[m.tag]
        BY <3>2, <1>3 DEF Receive, Register, TypeOK
      <4>2. msg[q] # None /\ msg[q].tag = m.tag
        BY <4>1 DEF TagOwned
      <4> QED
        BY <4>1, <4>2, <1>3, ReceiveFacts
    <3> QED
      BY <3>1, <3>2
  <2>2. TagOwned'
    <3> SUFFICES ASSUME NEW t \in Tags, tags'[t] # None
                 PROVE  /\ msg'[tags'[t]] # None /\ msg'[tags'[t]].tag = t
                        /\ ~cancelled'[tags'[t]]
                        /\ pc'[tags'[t]] # "answered"
      BY DEF TagOwned
    <3>1. CASE t = m.tag
      <4>1. tags'[t] = r /\ ~cancelled[r]
        BY <3>1, <1>3, ReceiveFacts DEF Receive, Register, TypeOK, CancelInv
      <4>2. tags[t] # r
        BY <1>3, ReceiveFacts DEF TagOwned
      <4>3. ~cancelled'[r]
        BY <3>1, <4>1, <4>2, <1>3 DEF Receive, Register, TypeOK
      <4> QED
        BY <3>1, <4>1, <4>3, <1>3, ReceiveFacts
    <3>2. CASE t # m.tag
      <4>1. tags'[t] = tags[t] /\ tags[t] \in Reqs
        BY <3>2, <1>3 DEF Receive, Register, TypeOK
      <4>2. tags[t] # r
        BY <4>1, <1>3, ReceiveFacts DEF TagOwned
      <4>3. ~cancelled'[tags[t]]
        BY <3>2, <4>1, <1>3 DEF Receive, Register, TypeOK, TagOwned
      <4> QED
        BY <4>1, <4>2, <4>3, <1>3, ReceiveFacts DEF TagOwned
    <3> QED
      BY <3>1, <3>2
  <2> QED
    BY <2>1, <2>2
<1>4. ASSUME NEW r \in Reqs, Version(r)
      PROVE  Goal'
  BY <1>4 DEF Version, Answer, Goto, CancelInv, TypeOK, TagOwned, clientVars
<1>5. ASSUME NEW r \in Reqs, VersionLock(r)
      PROVE  Goal'
  BY <1>5 DEF VersionLock, Goto, CancelInv, TypeOK, TagOwned, clientVars, tagVars
<1>6. ASSUME NEW r \in Reqs, VersionReset(r)
      PROVE  Goal'
  BY <1>6
     DEF VersionReset, Answer, Goto, CancelInv, TypeOK, TagOwned, clientVars, tagVars
<1>7. ASSUME NEW r \in Reqs, Auth(r)
      PROVE  Goal'
  BY <1>7 DEF Auth, Answer, Goto, CancelInv, TypeOK, TagOwned, clientVars, tagVars
<1>8. ASSUME NEW r \in Reqs, Attach(r)
      PROVE  Goal'
  BY <1>8 DEF Attach, Answer, Goto, CancelInv, TypeOK, TagOwned, clientVars, tagVars
<1>9. ASSUME NEW r \in Reqs, AttachReturn(r)
      PROVE  Goal'
  BY <1>9
     DEF AttachReturn, Answer, Goto, CancelInv, TypeOK, TagOwned, clientVars, tagVars
<1>10. ASSUME NEW r \in Reqs, Flush(r)
      PROVE  Goal'
  <2>1. TagOwned'
    BY <1>10 DEF Flush, Answer, Goto, TagOwned, TypeOK, clientVars
  <2>2. CancelInv'
    <3> SUFFICES ASSUME NEW q \in Reqs, cancelled'[q]
                 PROVE  msg[q] # None /\ msg[q].tag \in Tags
      BY <1>10 DEF CancelInv, Flush, clientVars
    <3>1. CASE cancelled[q]
      BY <3>1 DEF CancelInv
    <3>2. CASE ~cancelled[q]
      <4>1. msg[r].oldtag \in Tags /\ q = tags[msg[r].oldtag]
        BY <3>2, <1>10 DEF Flush, TypeOK
      <4> QED
        BY <4>1 DEF TagOwned
    <3> QED
      BY <3>1, <3>2
  <2> QED
    BY <2>1, <2>2
<1>11. ASSUME NEW r \in Reqs, Unsupported(r)
      PROVE  Goal'
  BY <1>11
     DEF Unsupported, Answer, Goto, CancelInv, TypeOK, TagOwned, clientVars, tagVars
<1>12. ASSUME NEW r \in Reqs, Lookup(r)
      PROVE  Goal'
  BY <1>12 DEF Lookup, Answer, Goto, CancelInv, TypeOK, TagOwned, clientVars, tagVars
<1>13. ASSUME NEW r \in Reqs, WalkTo(r)
      PROVE  Goal'
  BY <1>13 DEF WalkTo, Answer, Goto, CancelInv, TypeOK, TagOwned, clientVars, tagVars
<1>14. ASSUME NEW r \in Reqs, WalkShort(r)
      PROVE  Goal'
  BY <1>14 DEF WalkShort, Answer, Goto, CancelInv, TypeOK, TagOwned, clientVars, tagVars
<1>15. ASSUME NEW r \in Reqs, WalkBind(r)
      PROVE  Goal'
  BY <1>15 DEF WalkBind, Answer, Goto, CancelInv, TypeOK, TagOwned, clientVars, tagVars
<1>16. ASSUME NEW r \in Reqs, WalkPanic(r)
      PROVE  Goal'
  BY <1>16 DEF WalkPanic, Goto, CancelInv, TypeOK, TagOwned, clientVars, tagVars
<1>17. ASSUME NEW r \in Reqs, OpenStart(r)
      PROVE  Goal'
  BY <1>17 DEF OpenStart, Answer, Goto, CancelInv, TypeOK, TagOwned, clientVars, tagVars
<1>18. ASSUME NEW r \in Reqs, OpenReturn(r)
      PROVE  Goal'
  BY <1>18
     DEF OpenReturn, Answer, Goto, CancelInv, TypeOK, TagOwned, clientVars, tagVars
<1>19. ASSUME NEW r \in Reqs, IOStart(r)
      PROVE  Goal'
  BY <1>19 DEF IOStart, Answer, Goto, CancelInv, TypeOK, TagOwned, clientVars, tagVars
<1>20. ASSUME NEW r \in Reqs, StatStart(r)
      PROVE  Goal'
  BY <1>20 DEF StatStart, Answer, Goto, CancelInv, TypeOK, TagOwned, clientVars, tagVars
<1>21. ASSUME NEW r \in Reqs, CallReturn(r)
      PROVE  Goal'
  BY <1>21
     DEF CallReturn, Answer, Goto, CancelInv, TypeOK, TagOwned, clientVars, tagVars
<1>22. ASSUME NEW r \in Reqs, Unbind(r)
      PROVE  Goal'
  <2>1. CancelInv'
    BY <1>22 DEF Unbind, CancelInv, TypeOK, clientVars, tagVars
  <2>2. TagOwned'
    BY <1>22 DEF Unbind, Answer, Goto, TagOwned, TypeOK, clientVars, tagVars
  <2> QED
    BY <2>1, <2>2
<1>23. ASSUME NEW r \in Reqs, CloseFid(r)
      PROVE  Goal'
  BY <1>23 DEF CloseFid, Answer, Goto, CancelInv, TypeOK, TagOwned, clientVars, tagVars
<1>24. ASSUME NEW r \in Reqs, Respond(r)
      PROVE  Goal'
  BY <1>24 DEF Respond, CanRespond, DeleteTag, Goto, CancelInv, TypeOK, TagOwned
<1>25. ASSUME NEW r \in Reqs, RespondCancelled(r)
      PROVE  Goal'
  BY <1>25
     DEF RespondCancelled, CanRespond, Goto, CancelInv, TypeOK, TagOwned, clientVars,
         tagVars
<1>26. ASSUME NEW r \in Reqs, RespondTooBig(r)
      PROVE  Goal'
  BY <1>26
     DEF RespondTooBig, CanRespond, Goto, CancelInv, TypeOK, TagOwned, clientVars,
         tagVars
<1>27. ASSUME NEW r \in Reqs, RespondFails(r)
      PROVE  Goal'
  BY <1>27
     DEF RespondFails, CanRespond, DeleteTag, Goto, CancelInv, TypeOK, TagOwned,
         clientVars
<1>28. ASSUME NEW r \in Reqs, RespondPanics(r)
      PROVE  Goal'
  BY <1>28
     DEF RespondPanics, CanRespond, Goto, CancelInv, TypeOK, TagOwned, clientVars,
         tagVars
<1>29. ASSUME NEW th \in Threads, Die(th)
      PROVE  Goal'
  BY <1>29 DEF Die, Goto, CancelInv, TypeOK, TagOwned, clientVars, tagVars
<1>30. ASSUME NEW th \in Threads, Cleanup(th)
      PROVE  Goal'
  BY <1>30 DEF Cleanup, Goto, CancelInv, TypeOK, TagOwned, clientVars, tagVars
<1>31. ASSUME NEW th \in Threads, NEW s \in Reqs, Sweep(th, s)
      PROVE  Goal'
  BY <1>31 DEF Sweep, CancelInv, TypeOK, TagOwned, clientVars, tagVars
<1>32. ASSUME NEW th \in Threads, CleanupDone(th)
      PROVE  Goal'
  BY <1>32
     DEF CleanupDone, AfterCleanup, Goto, CancelInv, TypeOK, TagOwned, clientVars,
         tagVars
<1>33. CASE Hangup
  BY <1>33 DEF Hangup, CancelInv, TypeOK, TagOwned, tagVars
<1>34. CASE Quiescent
  BY <1>34 DEF Quiescent, vars, CancelInv, TypeOK, TagOwned, clientVars, tagVars
<1>35. CASE UNCHANGED vars
  BY <1>35
     DEF vars, CancelInv, TypeOK, TagOwned, clientVars, threadVars, tagVars, fidVars,
         handleVars, lockVars, serverVars
<1> HIDE DEF Goal
<1> QED
  BY <1>1, <1>2, <1>3, <1>4, <1>5, <1>6, <1>7, <1>8, <1>9, <1>10, <1>11, <1>12, <1>13,
     <1>14, <1>15, <1>16, <1>17, <1>18, <1>19, <1>20, <1>21, <1>22, <1>23, <1>24, <1>25,
     <1>26, <1>27, <1>28, <1>29, <1>30, <1>31, <1>32, <1>33, <1>34, <1>35
     DEF Next, Handler, Responding, Dying

LEMMA TagInvariant == Spec => []TagInv
<1>1. Init => TagInv
  BY InitHandleInv, ThreadNames DEF Init, TagInv, CancelInv, TagOwned
<1>2. TagInv /\ [Next]_vars => TagInv'
  BY HandleInvStep, TagPartsStep DEF TagInv
<1> QED
  BY <1>1, <1>2, PTL DEF Spec

\* Whatever the client sends, reused tags included, a tag in the table stands for a
\* request that has it, was not cancelled and was not answered.
THEOREM TagsOwned == Spec => []TagOwned
<1>1. TagInv => TagOwned
  BY DEF TagInv
<1> QED
  BY <1>1, TagInvariant, PTL

-----------------------------------------------------------------------------
\* A handler on the Serve goroutine keeps Serve from reading the next request.
SyncInv ==
    \A r \in Reqs : pc[r] \notin Finished \union {"idle"} /\ msg[r].kind \in Sync
                        => pc[Serve] = "top" /\ serving = r

BeforeReply == {"start", "found", "walking", "opening", "calling", "closing"}
Working == BeforeReply \union {"reply"}
Dead == {"die", "cleanup", "sweep"}

\* A handler that cleans up or dies and will still answer is a Tversion without a tag.
VersionInv ==
    \A r \in Reqs :
        /\ pc[r] \in BeforeReply \union {"idle"} => reply[r] = "none"
        /\ \/ pc[r] \in {"reset", "resetting"}
           \/ pc[r] \in {"cleanup", "sweep"} /\ errorLock # r
           \/ pc[r] \in Dead /\ reply[r] # "none"
           => msg[r].kind = "version" /\ msg[r].tag = NOTAG

\* A request that will be answered is queued under its tag.
QueuedInv ==
    \A r \in Reqs : pc[r] \in Working /\ ~cancelled[r] /\ msg[r].tag \in Tags
                        => tags[msg[r].tag] = r

\* A handler that may still answer.
Answering(r) ==
    \/ pc[r] \in Working \union {"reset", "resetting"}
    \/ pc[r] \in Dead /\ msg[r].kind = "version"

\* The client waits for every answer that may still come.
AwaitInv == \A r \in Reqs : Answering(r) /\ ~cancelled[r] => r \in awaits

\* While it waits for the answer to a Tversion it waits for nothing else.
AloneInv == \A v \in awaits : msg[v].kind = "version" => awaits = {v}

\* When a flush is about to be answered, every other request with the old tag is cancelled.
FlushInv ==
    \A r, q \in Reqs :
        /\ pc[r] = "reply" /\ msg[r].kind = "flush" /\ reply[r] = "ok"
        /\ q # r /\ Answering(q) /\ msg[q].tag \in Tags /\ msg[q].tag = msg[r].oldtag
        => cancelled[q]

SessionInv == TagInv /\ SyncInv /\ VersionInv /\ QueuedInv /\ AwaitInv /\ AloneInv /\ FlushInv

\* A handler that still runs on the Serve goroutine is the only one there.
LEMMA SyncAlone ==
    ASSUME SessionInv, NEW r \in Reqs, NEW q \in Reqs,
           msg[r].kind \in Sync, msg[q].kind \in Sync,
           pc[r] \notin Finished \union {"idle"}, pc[q] \notin Finished \union {"idle"}
    PROVE  q = r
BY DEF SessionInv, SyncInv

\* When version resets the server, every request that may still answer is this one.
LEMMA VersionAlone ==
    ASSUME SessionInv, NEW r \in Reqs, NEW q \in Reqs,
           msg[r].kind = "version", ~cancelled[r], Answering(r), ~cancelled[q], Answering(q)
    PROVE  q = r
<1>1. r \in awaits /\ q \in awaits
  BY DEF SessionInv, AwaitInv
<1> QED
  BY <1>1 DEF SessionInv, AloneInv

\* Every step of a session whose Tversions are sent alone keeps the rest of SessionInv.
LEMMA SessionPartsStep ==
    ASSUME "version" \in Client, SessionInv, [Next]_vars
    PROVE  SyncInv' /\ VersionInv' /\ QueuedInv' /\ AwaitInv' /\ AloneInv' /\ FlushInv'
<1> USE ThreadNames DEF SessionInv, TagInv, HandleInv
<1> DEFINE Goal == SyncInv /\ VersionInv /\ QueuedInv /\ AwaitInv /\ AloneInv /\ FlushInv
<1> SUFFICES Goal'
  OBVIOUS
<1>1. CASE ServeTop
  BY <1>1
     DEF ServeTop, Goto, SyncInv, TypeOK, Finished, Done, VersionInv, BeforeReply, Dead,
         QueuedInv, Working, AwaitInv, Answering, AloneInv, FlushInv, clientVars,
         threadVars, tagVars, lockVars
<1>2. CASE ReadError
  BY <1>2
     DEF ReadError, Goto, SyncInv, TypeOK, Finished, Done, VersionInv, BeforeReply,
         Dead, QueuedInv, Working, AwaitInv, Answering, AloneInv, FlushInv, clientVars,
         threadVars, tagVars, lockVars
<1>3. ASSUME NEW r \in Reqs, NEW m \in Script[r], Receive(r, m)
      PROVE  Goal'
  <2>1. SyncInv' /\ QueuedInv' /\ AwaitInv'
    BY <1>3
       DEF Receive, Register, TagInUse, SyncInv, TypeOK, Finished, Done, QueuedInv,
           BeforeReply, Working, AwaitInv, Answering, Dead
  <2>2. VersionInv'
    <3>1. reply[r] = "none"
      BY <1>3, ReceiveFacts DEF VersionInv
    <3>2. pc'[r] = "start" => reply'[r] = "none"
      BY <3>1, <1>3 DEF Receive, TypeOK
    <3>3. errorLock' = errorLock
      BY <1>3 DEF Receive, lockVars
    <3> QED
      BY <3>2, <3>3, <1>3, ReceiveFacts DEF VersionInv, BeforeReply, Dead
  <2>3. AloneInv'
    <3> SUFFICES ASSUME NEW v \in awaits', msg'[v].kind = "version"
                 PROVE  awaits' = {v}
      BY DEF AloneInv
    <3>1. awaits' = awaits \union {r} /\ MaySend(m)
      BY <1>3 DEF Receive
    <3>2. CASE v = r
      <4>1. m.kind = "version"
        BY <3>2, <1>3, ReceiveFacts
      <4>2. awaits = {}
        BY <3>1, <4>1 DEF MaySend
      <4> QED
        BY <3>1, <3>2, <4>2
    <3>3. CASE v # r
      <4>1. v \in awaits /\ v \in Reqs
        BY <3>1, <3>3 DEF TypeOK
      <4>2. msg[v].kind = "version"
        BY <3>3, <4>1, <1>3, ReceiveFacts
      <4> QED
        BY <3>1, <4>1, <4>2 DEF MaySend
    <3> QED
      BY <3>2, <3>3
  <2>4. FlushInv'
    <3> SUFFICES ASSUME NEW f \in Reqs, NEW q \in Reqs, pc'[f] = "reply",
                        msg'[f].kind = "flush", reply'[f] = "ok", q # f, Answering(q)',
                        msg'[q].tag \in Tags, msg'[q].tag = msg'[f].oldtag
                 PROVE  cancelled'[q]
      BY DEF FlushInv
    <3>1. pc[Serve] = "reading"
      BY <1>3 DEF Receive
    <3>2. f # r
      BY <1>3, ReceiveFacts
    <3>3. pc[f] = "reply" /\ msg[f].kind = "flush"
      BY <3>2, <1>3, ReceiveFacts
    <3> QED
      BY <3>1, <3>3 DEF SyncInv, Sync, Finished
  <2> QED
    BY <2>1, <2>2, <2>3, <2>4
<1>4. ASSUME NEW r \in Reqs, Version(r)
      PROVE  Goal'
  <2>1. SyncInv' /\ VersionInv' /\ AwaitInv' /\ AloneInv' /\ FlushInv'
    BY <1>4
       DEF Version, Answer, Goto, SyncInv, TypeOK, Finished, Done, VersionInv,
           BeforeReply, Dead, AwaitInv, Answering, Working, AloneInv, FlushInv,
           clientVars, threadVars, lockVars
  <2>2. QueuedInv'
    <3>1. CASE Answer(r, "error") /\ UNCHANGED tags
      BY <3>1, <1>4
         DEF Version, Answer, Goto, QueuedInv, TypeOK, BeforeReply, Working, clientVars
    <3>2. CASE msg[r].tag = NOTAG /\ Goto(r, "cleanup")
      <4>1. ~cancelled[r] /\ Answering(r)
        BY <3>2, <1>4, ConstantsAssumption
           DEF Version, CancelInv, Answering, Working, BeforeReply
      <4>2. \A q \in Reqs : pc[q] \in Working /\ ~cancelled[q] => q = r
        BY <4>1, <1>4, VersionAlone DEF Version, Answering
      <4> QED
        BY <3>2, <4>2, <1>4
           DEF Version, Goto, QueuedInv, TypeOK, BeforeReply, Working, clientVars
    <3> QED
      BY <3>1, <3>2, <1>4 DEF Version
  <2> QED
    BY <2>1, <2>2
<1>5. ASSUME NEW r \in Reqs, VersionLock(r)
      PROVE  Goal'
  BY <1>5
     DEF VersionLock, Goto, SyncInv, TypeOK, Finished, Done, VersionInv, BeforeReply,
         Dead, QueuedInv, Working, AwaitInv, Answering, AloneInv, FlushInv, clientVars,
         threadVars, tagVars, lockVars
<1>6. ASSUME NEW r \in Reqs, VersionReset(r)
      PROVE  Goal'
  <2>1. SyncInv' /\ VersionInv' /\ AwaitInv' /\ AloneInv'
    BY <1>6
       DEF VersionReset, Answer, Goto, SyncInv, TypeOK, Finished, Done, VersionInv,
           BeforeReply, Dead, AwaitInv, Answering, Working, AloneInv, clientVars,
           threadVars, tagVars, lockVars
  <2>2. QueuedInv'
    <3>1. msg[r].tag \notin Tags
      BY <1>6, ConstantsAssumption DEF VersionReset, VersionInv
    <3> QED
      BY <3>1, <1>6
         DEF VersionReset, Answer, Goto, QueuedInv, TypeOK, BeforeReply, Working,
             clientVars, tagVars
  <2>3. FlushInv'
    <3> SUFFICES ASSUME NEW f \in Reqs, NEW q \in Reqs, pc'[f] = "reply",
                        msg'[f].kind = "flush", reply'[f] = "ok", q # f, Answering(q)',
                        msg'[q].tag \in Tags, msg'[q].tag = msg'[f].oldtag
                 PROVE  cancelled'[q]
      BY DEF FlushInv
    <3>1. f # r /\ pc[f] = "reply" /\ msg[f].kind = "flush"
      BY <1>6 DEF VersionReset, VersionInv, Answer, Goto, TypeOK, clientVars
    <3>2. msg[r].kind = "version" /\ pc[r] = "resetting"
      BY <1>6 DEF VersionReset, VersionInv
    <3> QED
      BY <3>1, <3>2, SyncAlone DEF Sync, Finished
  <2> QED
    BY <2>1, <2>2, <2>3
<1>7. ASSUME NEW r \in Reqs, Auth(r)
      PROVE  Goal'
  BY <1>7
     DEF Auth, Answer, Goto, SyncInv, TypeOK, Finished, Done, VersionInv, BeforeReply,
         Dead, QueuedInv, Working, AwaitInv, Answering, AloneInv, FlushInv, clientVars,
         threadVars, tagVars
<1>8. ASSUME NEW r \in Reqs, Attach(r)
      PROVE  Goal'
  BY <1>8
     DEF Attach, Answer, Goto, SyncInv, TypeOK, Finished, Done, VersionInv, BeforeReply,
         Dead, QueuedInv, Working, AwaitInv, Answering, AloneInv, FlushInv, clientVars,
         threadVars, tagVars
<1>9. ASSUME NEW r \in Reqs, AttachReturn(r)
      PROVE  Goal'
  BY <1>9
     DEF AttachReturn, Answer, Goto, SyncInv, TypeOK, Finished, Done, VersionInv,
         BeforeReply, Dead, QueuedInv, Working, AwaitInv, Answering, AloneInv, FlushInv,
         clientVars, threadVars, tagVars, lockVars
<1>10. ASSUME NEW r \in Reqs, Flush(r)
      PROVE  Goal'
  <2>1. SyncInv' /\ VersionInv' /\ QueuedInv' /\ AwaitInv' /\ AloneInv'
    BY <1>10
       DEF Flush, Answer, Goto, SyncInv, TypeOK, Finished, Done, VersionInv, BeforeReply,
           Dead, QueuedInv, Working, AwaitInv, Answering, AloneInv, clientVars,
           threadVars, lockVars
  <2>2. FlushInv'
    <3> SUFFICES ASSUME NEW f \in Reqs, NEW q \in Reqs, pc'[f] = "reply",
                        msg'[f].kind = "flush", reply'[f] = "ok", q # f, Answering(q)',
                        msg'[q].tag \in Tags, msg'[q].tag = msg'[f].oldtag
                 PROVE  cancelled'[q]
      BY DEF FlushInv
    <3>1. UNCHANGED msg /\ Answering(q)
      BY <1>10
         DEF Flush, Answer, Goto, TypeOK, Answering, Working, BeforeReply, Dead,
             clientVars
    <3>2. CASE f = r
      <4>1. CASE pc[q] \in Working /\ ~cancelled[q]
        <5>1. tags[msg[f].oldtag] = q
          BY <3>1, <4>1 DEF QueuedInv
        <5> QED
          BY <3>1, <3>2, <5>1, <1>10 DEF Flush, TypeOK
      <4>2. CASE pc[q] \in Working /\ cancelled[q]
        BY <4>2, <1>10 DEF Flush, TypeOK
      <4>3. CASE pc[q] \in {"reset", "resetting"}
        BY <3>1, <4>3, ConstantsAssumption DEF VersionInv
      <4>4. CASE pc[q] \in Dead /\ msg[q].kind = "version"
        BY <3>2, <4>4, <1>10, SyncAlone DEF Flush, Sync, Finished, Dead
      <4> QED
        BY <3>1, <4>1, <4>2, <4>3, <4>4 DEF Answering
    <3>3. CASE f # r
      <4>1. pc[f] = "reply"
        BY <3>3, <1>10 DEF Flush, Answer, Goto, TypeOK
      <4> QED
        BY <3>1, <3>3, <4>1, <1>10, SyncAlone DEF Flush, Sync, Finished
    <3> QED
      BY <3>2, <3>3
  <2> QED
    BY <2>1, <2>2
<1>11. ASSUME NEW r \in Reqs, Unsupported(r)
      PROVE  Goal'
  BY <1>11
     DEF Unsupported, Answer, Goto, SyncInv, TypeOK, Finished, Done, VersionInv,
         BeforeReply, Dead, QueuedInv, Working, AwaitInv, Answering, AloneInv, FlushInv,
         clientVars, threadVars, tagVars, lockVars
<1>12. ASSUME NEW r \in Reqs, Lookup(r)
      PROVE  Goal'
  BY <1>12
     DEF Lookup, Answer, Goto, SyncInv, TypeOK, Finished, Done, VersionInv, BeforeReply,
         Dead, QueuedInv, Working, AwaitInv, Answering, AloneInv, FlushInv, clientVars,
         tagVars, lockVars
<1>13. ASSUME NEW r \in Reqs, WalkTo(r)
      PROVE  Goal'
  BY <1>13
     DEF WalkTo, Answer, Goto, SyncInv, TypeOK, Finished, Done, VersionInv, BeforeReply,
         Dead, QueuedInv, Working, AwaitInv, Answering, AloneInv, FlushInv, clientVars,
         threadVars, tagVars, lockVars
<1>14. ASSUME NEW r \in Reqs, WalkShort(r)
      PROVE  Goal'
  <2>1. SyncInv' /\ VersionInv' /\ QueuedInv' /\ AwaitInv' /\ AloneInv'
    BY <1>14
       DEF WalkShort, Answer, Goto, SyncInv, TypeOK, Finished, Done, VersionInv,
           BeforeReply, Dead, QueuedInv, Working, AwaitInv, Answering, AloneInv,
           clientVars, threadVars, tagVars, lockVars
  <2>2. FlushInv'
    <3> SUFFICES ASSUME NEW f \in Reqs, NEW q \in Reqs, pc'[f] = "reply",
                        msg'[f].kind = "flush", reply'[f] = "ok", q # f, Answering(q)',
                        msg'[q].tag \in Tags, msg'[q].tag = msg'[f].oldtag
                 PROVE  cancelled'[q]
      BY DEF FlushInv
    <3>1. UNCHANGED <<msg, cancelled>> /\ Answering(q)
      BY <1>14
         DEF WalkShort, Answer, Goto, TypeOK, Answering, Working, BeforeReply, Dead,
             clientVars, tagVars
    <3>2. f # r
      BY <3>1, <1>14 DEF WalkShort, KindInv
    <3>3. pc[f] = "reply" /\ reply[f] = "ok"
      BY <3>2, <1>14 DEF WalkShort, Answer, Goto, TypeOK
    <3> QED
      BY <3>1, <3>3 DEF FlushInv
  <2> QED
    BY <2>1, <2>2
<1>15. ASSUME NEW r \in Reqs, WalkBind(r)
      PROVE  Goal'
  <2>1. SyncInv' /\ VersionInv' /\ QueuedInv' /\ AwaitInv' /\ AloneInv'
    BY <1>15
       DEF WalkBind, Answer, Goto, SyncInv, TypeOK, Finished, Done, VersionInv,
           BeforeReply, Dead, QueuedInv, Working, AwaitInv, Answering, AloneInv,
           clientVars, threadVars, tagVars, lockVars
  <2>2. FlushInv'
    <3> SUFFICES ASSUME NEW f \in Reqs, NEW q \in Reqs, pc'[f] = "reply",
                        msg'[f].kind = "flush", reply'[f] = "ok", q # f, Answering(q)',
                        msg'[q].tag \in Tags, msg'[q].tag = msg'[f].oldtag
                 PROVE  cancelled'[q]
      BY DEF FlushInv
    <3>1. UNCHANGED <<msg, cancelled>> /\ Answering(q)
      BY <1>15
         DEF WalkBind, Answer, Goto, TypeOK, Answering, Working, BeforeReply, Dead,
             clientVars, tagVars
    <3>2. f # r
      BY <3>1, <1>15 DEF WalkBind, KindInv
    <3>3. pc[f] = "reply" /\ reply[f] = "ok"
      BY <3>2, <1>15 DEF WalkBind, Answer, Goto, TypeOK
    <3> QED
      BY <3>1, <3>3 DEF FlushInv
  <2> QED
    BY <2>1, <2>2
<1>16. ASSUME NEW r \in Reqs, WalkPanic(r)
      PROVE  Goal'
  BY <1>16
     DEF WalkPanic, Goto, SyncInv, TypeOK, Finished, Done, VersionInv, BeforeReply,
         Dead, QueuedInv, Working, AwaitInv, Answering, AloneInv, FlushInv, clientVars,
         threadVars, tagVars
<1>17. ASSUME NEW r \in Reqs, OpenStart(r)
      PROVE  Goal'
  BY <1>17
     DEF OpenStart, Answer, Goto, SyncInv, TypeOK, Finished, Done, VersionInv,
         BeforeReply, Dead, QueuedInv, Working, AwaitInv, Answering, AloneInv, FlushInv,
         clientVars, threadVars, tagVars
<1>18. ASSUME NEW r \in Reqs, OpenReturn(r)
      PROVE  Goal'
  <2>1. SyncInv' /\ VersionInv' /\ QueuedInv' /\ AwaitInv' /\ AloneInv'
    BY <1>18
       DEF OpenReturn, Answer, Goto, SyncInv, TypeOK, Finished, Done, VersionInv,
           BeforeReply, Dead, QueuedInv, Working, AwaitInv, Answering, AloneInv,
           clientVars, threadVars, tagVars, lockVars
  <2>2. FlushInv'
    <3> SUFFICES ASSUME NEW f \in Reqs, NEW q \in Reqs, pc'[f] = "reply",
                        msg'[f].kind = "flush", reply'[f] = "ok", q # f, Answering(q)',
                        msg'[q].tag \in Tags, msg'[q].tag = msg'[f].oldtag
                 PROVE  cancelled'[q]
      BY DEF FlushInv
    <3>1. UNCHANGED <<msg, cancelled>> /\ Answering(q)
      BY <1>18
         DEF OpenReturn, Answer, Goto, TypeOK, Answering, Working, BeforeReply, Dead,
             clientVars, tagVars
    <3>2. f # r
      BY <3>1, <1>18 DEF OpenReturn, KindInv
    <3>3. pc[f] = "reply" /\ reply[f] = "ok"
      BY <3>2, <1>18 DEF OpenReturn, Answer, Goto, TypeOK
    <3> QED
      BY <3>1, <3>3 DEF FlushInv
  <2> QED
    BY <2>1, <2>2
<1>19. ASSUME NEW r \in Reqs, IOStart(r)
      PROVE  Goal'
  BY <1>19
     DEF IOStart, Answer, Goto, SyncInv, TypeOK, Finished, Done, VersionInv,
         BeforeReply, Dead, QueuedInv, Working, AwaitInv, Answering, AloneInv, FlushInv,
         clientVars, tagVars, lockVars
<1>20. ASSUME NEW r \in Reqs, StatStart(r)
      PROVE  Goal'
  BY <1>20
     DEF StatStart, Answer, Goto, SyncInv, TypeOK, Finished, Done, VersionInv,
         BeforeReply, Dead, QueuedInv, Working, AwaitInv, Answering, AloneInv, FlushInv,
         clientVars, threadVars, tagVars
<1>21. ASSUME NEW r \in Reqs, CallReturn(r)
      PROVE  Goal'
  BY <1>21
     DEF CallReturn, Answer, Goto, SyncInv, TypeOK, Finished, Done, VersionInv,
         BeforeReply, Dead, QueuedInv, Working, AwaitInv, Answering, AloneInv, FlushInv,
         clientVars, threadVars, tagVars, lockVars
<1>22. ASSUME NEW r \in Reqs, Unbind(r)
      PROVE  Goal'
  <2>1. SyncInv'
    BY <1>22 DEF Unbind, Answer, Goto, SyncInv, TypeOK, Finished, Done, clientVars
  <2>2. VersionInv'
    BY <1>22 DEF Unbind, Answer, Goto, VersionInv, TypeOK, BeforeReply, Dead, clientVars
  <2>3. QueuedInv'
    BY <1>22
       DEF Unbind, Answer, Goto, QueuedInv, TypeOK, BeforeReply, Working, clientVars,
           tagVars
  <2>4. AwaitInv'
    BY <1>22
       DEF Unbind, Answer, Goto, AwaitInv, Answering, TypeOK, BeforeReply, Working, Dead,
           clientVars, tagVars
  <2>5. AloneInv'
    BY <1>22 DEF Unbind, AloneInv, TypeOK, clientVars
  <2>6. FlushInv'
    BY <1>22
       DEF Unbind, Answer, Goto, FlushInv, Answering, TypeOK, BeforeReply, Working, Dead,
           clientVars, tagVars
  <2> QED
    BY <2>1, <2>2, <2>3, <2>4, <2>5, <2>6
<1>23. ASSUME NEW r \in Reqs, CloseFid(r)
      PROVE  Goal'
  <2>1. SyncInv' /\ VersionInv' /\ QueuedInv' /\ AwaitInv' /\ AloneInv'
    BY <1>23
       DEF CloseFid, Answer, Goto, SyncInv, TypeOK, Finished, Done, VersionInv,
           BeforeReply, Dead, QueuedInv, Working, AwaitInv, Answering, AloneInv,
           clientVars, threadVars, tagVars
  <2>2. FlushInv'
    <3> SUFFICES ASSUME NEW f \in Reqs, NEW q \in Reqs, pc'[f] = "reply",
                        msg'[f].kind = "flush", reply'[f] = "ok", q # f, Answering(q)',
                        msg'[q].tag \in Tags, msg'[q].tag = msg'[f].oldtag
                 PROVE  cancelled'[q]
      BY DEF FlushInv
    <3>1. UNCHANGED <<msg, cancelled>> /\ Answering(q)
      BY <1>23
         DEF CloseFid, Answer, Goto, TypeOK, Answering, Working, BeforeReply, Dead,
             clientVars, tagVars
    <3>2. f # r
      BY <3>1, <1>23 DEF CloseFid, KindInv
    <3>3. pc[f] = "reply" /\ reply[f] = "ok"
      BY <3>2, <1>23 DEF CloseFid, Answer, Goto, TypeOK
    <3> QED
      BY <3>1, <3>3 DEF FlushInv
  <2> QED
    BY <2>1, <2>2
<1>24. ASSUME NEW r \in Reqs, Respond(r)
      PROVE  Goal'
  <2>1. SyncInv' /\ VersionInv' /\ QueuedInv' /\ AloneInv' /\ FlushInv'
    BY <1>24
       DEF Respond, CanRespond, DeleteTag, AwaitsAfter, Goto, SyncInv, TypeOK, Finished,
           Done, VersionInv, BeforeReply, Dead, QueuedInv, Working, AloneInv, FlushInv,
           Answering, threadVars
  <2>2. AwaitInv'
    <3> SUFFICES ASSUME NEW q \in Reqs, Answering(q)', ~cancelled[q]
                 PROVE  q \in AwaitsAfter(r)
      BY <1>24 DEF Respond, AwaitInv
    <3>1. pc[r] = "reply" /\ ~cancelled[r] /\ Answering(r)
      BY <1>24 DEF Respond, CanRespond, Answering, Working
    <3>2. q # r /\ Answering(q)
      BY <1>24 DEF Respond, Goto, TypeOK, Answering, Working, BeforeReply, Dead
    <3>3. q \in awaits
      BY <3>2 DEF AwaitInv
    <3>4. ~(reply[r] = "ok" /\ msg[r].kind = "version")
      BY <3>1, <3>2, VersionAlone
    <3>5. reply[r] = "ok" /\ msg[r].kind = "flush" /\ msg[q].tag \in Tags
              => msg[q].tag # msg[r].oldtag
      BY <3>1, <3>2 DEF FlushInv
    <3> QED
      BY <3>2, <3>3, <3>4, <3>5 DEF AwaitsAfter
  <2> QED
    BY <2>1, <2>2
<1>25. ASSUME NEW r \in Reqs, RespondCancelled(r)
      PROVE  Goal'
  BY <1>25
     DEF RespondCancelled, CanRespond, Goto, SyncInv, TypeOK, Finished, Done,
         VersionInv, BeforeReply, Dead, QueuedInv, Working, AwaitInv, Answering,
         AloneInv, FlushInv, clientVars, threadVars, tagVars
<1>26. ASSUME NEW r \in Reqs, RespondTooBig(r)
      PROVE  Goal'
  BY <1>26
     DEF RespondTooBig, CanRespond, Goto, SyncInv, TypeOK, Finished, Done, VersionInv,
         BeforeReply, Dead, QueuedInv, Working, AwaitInv, Answering, AloneInv, FlushInv,
         clientVars, threadVars, tagVars
<1>27. ASSUME NEW r \in Reqs, RespondFails(r)
      PROVE  Goal'
  BY <1>27
     DEF RespondFails, CanRespond, DeleteTag, Goto, SyncInv, TypeOK, Finished, Done,
         VersionInv, BeforeReply, Dead, QueuedInv, Working, AwaitInv, Answering,
         AloneInv, FlushInv, clientVars, threadVars
<1>28. ASSUME NEW r \in Reqs, RespondPanics(r)
      PROVE  Goal'
  BY <1>28
     DEF RespondPanics, CanRespond, Goto, SyncInv, TypeOK, Finished, Done, VersionInv,
         BeforeReply, Dead, QueuedInv, Working, AwaitInv, Answering, AloneInv, FlushInv,
         clientVars, threadVars, tagVars
<1>29. ASSUME NEW th \in Threads, Die(th)
      PROVE  Goal'
  BY <1>29
     DEF Die, Goto, SyncInv, TypeOK, Finished, Done, VersionInv, BeforeReply, Dead,
         QueuedInv, Working, AwaitInv, Answering, AloneInv, FlushInv, clientVars,
         threadVars, tagVars
<1>30. ASSUME NEW th \in Threads, Cleanup(th)
      PROVE  Goal'
  BY <1>30
     DEF Cleanup, Goto, SyncInv, TypeOK, Finished, Done, VersionInv, BeforeReply, Dead,
         QueuedInv, Working, AwaitInv, Answering, AloneInv, FlushInv, clientVars,
         threadVars, tagVars
<1>31. ASSUME NEW th \in Threads, NEW s \in Reqs, Sweep(th, s)
      PROVE  Goal'
  BY <1>31
     DEF Sweep, SyncInv, TypeOK, Finished, Done, VersionInv, BeforeReply, Dead,
         QueuedInv, Working, AwaitInv, Answering, AloneInv, FlushInv, clientVars,
         threadVars, tagVars, lockVars
<1>32. ASSUME NEW th \in Threads, CleanupDone(th)
      PROVE  Goal'
  <2>1. SyncInv' /\ VersionInv' /\ AloneInv'
    BY <1>32
       DEF CleanupDone, AfterCleanup, Goto, SyncInv, TypeOK, Finished, Done, VersionInv,
           BeforeReply, Dead, AloneInv, clientVars, threadVars
  <2>2. QueuedInv'
    <3>1. ASSUME pc'[th] = "reply" PROVE th \in Reqs /\ msg[th].tag \notin Tags
      <4>1. errorLock = th /\ th # Serve /\ reply[th] # "none" /\ pc[th] = "sweep"
        <5>1. AfterCleanup(th) = "reply" /\ pc[th] = "sweep"
          BY <3>1, <1>32 DEF CleanupDone, Goto, TypeOK
        <5> QED
          BY <5>1 DEF AfterCleanup
      <4>2. th \in Reqs
        BY <4>1 DEF Threads
      <4> QED
        BY <4>1, <4>2, ConstantsAssumption DEF VersionInv, Dead
    <3>2. \A q \in Reqs : pc'[q] \in Working => q = th \/ pc[q] \in Working
      BY <1>32 DEF CleanupDone, Goto, TypeOK
    <3>3. pc'[th] \in Working => pc'[th] = "reply"
      BY <1>32 DEF CleanupDone, Goto, AfterCleanup, TypeOK, Working, BeforeReply
    <3> QED
      BY <3>1, <3>2, <3>3, <1>32 DEF CleanupDone, QueuedInv, clientVars, tagVars
  <2>3. AwaitInv'
    <3> SUFFICES ASSUME NEW q \in Reqs, Answering(q)', ~cancelled[q]
                 PROVE  q \in awaits
      BY <1>32 DEF CleanupDone, AwaitInv, clientVars, tagVars
    <3>1. CASE q = th
      <4>1. pc[th] = "sweep"
        BY <1>32 DEF CleanupDone
      <4>2. errorLock # th \/ reply[th] # "none"
        BY <3>1, <1>32 DEF CleanupDone, AfterCleanup, Goto, TypeOK, Answering, Working,
                       BeforeReply, Dead
      <4>3. Answering(q)
        BY <3>1, <4>1, <4>2 DEF VersionInv, Answering, Dead
      <4> QED
        BY <4>3 DEF AwaitInv
    <3>2. CASE q # th
      BY <3>2, <1>32 DEF CleanupDone, Goto, TypeOK, Answering, AwaitInv, clientVars
    <3> QED
      BY <3>1, <3>2
  <2>4. FlushInv'
    <3> SUFFICES ASSUME NEW f \in Reqs, NEW q \in Reqs, pc'[f] = "reply",
                        msg'[f].kind = "flush", reply'[f] = "ok", q # f, Answering(q)',
                        msg'[q].tag \in Tags, msg'[q].tag = msg'[f].oldtag
                 PROVE  cancelled'[q]
      BY DEF FlushInv
    <3>1. UNCHANGED <<msg, reply, cancelled>>
      BY <1>32 DEF CleanupDone, clientVars, tagVars
    <3>2. CASE f = th
      BY <3>1, <3>2, <1>32 DEF CleanupDone, AfterCleanup, VersionInv, Goto, TypeOK, Dead
    <3>3. CASE f # th
      <4>1. pc[f] = "reply"
        BY <3>3, <1>32 DEF CleanupDone, Goto, TypeOK
      <4>2. CASE q = th
        <5>1. pc[q] = "sweep" /\ (errorLock # q \/ reply[q] # "none")
          BY <4>2, <1>32
             DEF CleanupDone, AfterCleanup, Answer, Goto, TypeOK, Answering, Working,
                 BeforeReply, Dead
        <5> QED
          BY <3>1, <5>1, ConstantsAssumption DEF VersionInv, Dead
      <4>3. CASE q # th
        <5>1. Answering(q)
          BY <4>3, <1>32
             DEF CleanupDone, Answer, Goto, TypeOK, Answering, Working, BeforeReply,
                 Dead, clientVars
        <5> QED
          BY <3>1, <4>1, <5>1 DEF FlushInv
      <4> QED
        BY <4>2, <4>3
    <3> QED
      BY <3>2, <3>3
  <2> QED
    BY <2>1, <2>2, <2>3, <2>4
<1>33. CASE Hangup
  BY <1>33
     DEF Hangup, SyncInv, TypeOK, Finished, Done, VersionInv, BeforeReply, Dead,
         QueuedInv, Working, AwaitInv, Answering, AloneInv, FlushInv, threadVars,
         tagVars, lockVars
<1>34. CASE Quiescent
  BY <1>34
     DEF Quiescent, vars, SyncInv, TypeOK, Finished, Done, VersionInv, BeforeReply,
         Dead, QueuedInv, Working, AwaitInv, Answering, AloneInv, FlushInv, clientVars,
         threadVars, tagVars, lockVars
<1>35. CASE UNCHANGED vars
  BY <1>35
     DEF vars, SyncInv, TypeOK, Finished, Done, VersionInv, BeforeReply, Dead,
         QueuedInv, Working, AwaitInv, Answering, AloneInv, FlushInv, clientVars,
         threadVars, tagVars, fidVars, handleVars, lockVars, serverVars
<1> HIDE DEF Goal
<1> QED
  BY <1>1, <1>2, <1>3, <1>4, <1>5, <1>6, <1>7, <1>8, <1>9, <1>10, <1>11, <1>12, <1>13,
     <1>14, <1>15, <1>16, <1>17, <1>18, <1>19, <1>20, <1>21, <1>22, <1>23, <1>24, <1>25,
     <1>26, <1>27, <1>28, <1>29, <1>30, <1>31, <1>32, <1>33, <1>34, <1>35
     DEF Next, Handler, Responding, Dying

LEMMA SessionInvariant ==
    ASSUME "version" \in Client
    PROVE  Spec => []SessionInv
<1>1. Init => SessionInv
  <2> SUFFICES ASSUME Init PROVE SessionInv
    OBVIOUS
  <2>1. TagInv
    BY InitHandleInv, ThreadNames DEF Init, TagInv, CancelInv, TagOwned
  <2>2. \A r \in Reqs : pc[r] = "idle"
    BY ThreadNames DEF Init
  <2>3. VersionInv
    BY <2>2 DEF Init, VersionInv, BeforeReply, Dead
  <2> QED
    BY <2>1, <2>2, <2>3 DEF Init, SessionInv, SyncInv, QueuedInv, AwaitInv, AloneInv,
       FlushInv, Answering, Working, BeforeReply, Dead
<1>2. SessionInv /\ [Next]_vars => SessionInv'
  <2>1. TagInv /\ [Next]_vars => TagInv'
    BY HandleInvStep, TagPartsStep DEF TagInv
  <2> QED
    BY <2>1, SessionPartsStep DEF SessionInv
<1> QED
  BY <1>1, <1>2, PTL DEF Spec

\* A client that sends its Tversions alone gets its answers on queued tags only, even
\* if it reuses tags that are not free (the comment on respond, fileserver.go:280-282).
THEOREM RepliesQueued ==
    ASSUME "version" \in Client
    PROVE  Spec => []ReplyQueued
<1>1. SessionInv => ReplyQueued
  BY DEF SessionInv, QueuedInv, ReplyQueued, Working
<1> QED
  BY <1>1, SessionInvariant, PTL


\* Only a handler that was not cancelled writes a reply.
LEMMA AnswersStep == SessionInv /\ [Next]_vars => (\A q \in Reqs : Answers(q) => ~cancelled[q])
<1> SUFFICES ASSUME SessionInv, [Next]_vars PROVE (\A q \in Reqs : Answers(q) => ~cancelled[q])
  OBVIOUS
<1> USE ThreadNames DEF SessionInv, TagInv, HandleInv
<1>1. CASE ServeTop
  BY <1>1 DEF ServeTop, Goto, Answers, TypeOK, tagVars
<1>2. CASE ReadError
  BY <1>2 DEF ReadError, Goto, Answers, TypeOK, tagVars
<1>3. ASSUME NEW r \in Reqs, NEW m \in Script[r], Receive(r, m)
      PROVE  (\A q \in Reqs : Answers(q) => ~cancelled[q])
  BY <1>3 DEF Receive, Register, TagInUse, Answers, TypeOK
<1>4. ASSUME NEW r \in Reqs, Version(r)
      PROVE  (\A q \in Reqs : Answers(q) => ~cancelled[q])
  BY <1>4 DEF Version, Answer, Goto, Answers, TypeOK
<1>5. ASSUME NEW r \in Reqs, VersionLock(r)
      PROVE  (\A q \in Reqs : Answers(q) => ~cancelled[q])
  BY <1>5 DEF VersionLock, Goto, Answers, TypeOK, tagVars
<1>6. ASSUME NEW r \in Reqs, VersionReset(r)
      PROVE  (\A q \in Reqs : Answers(q) => ~cancelled[q])
  BY <1>6 DEF VersionReset, Answer, Goto, Answers, TypeOK, tagVars
<1>7. ASSUME NEW r \in Reqs, Auth(r)
      PROVE  (\A q \in Reqs : Answers(q) => ~cancelled[q])
  BY <1>7 DEF Auth, Answer, Goto, Answers, TypeOK, tagVars
<1>8. ASSUME NEW r \in Reqs, Attach(r)
      PROVE  (\A q \in Reqs : Answers(q) => ~cancelled[q])
  BY <1>8 DEF Attach, Answer, Goto, Answers, TypeOK, tagVars
<1>9. ASSUME NEW r \in Reqs, AttachReturn(r)
      PROVE  (\A q \in Reqs : Answers(q) => ~cancelled[q])
  BY <1>9 DEF AttachReturn, Answer, Goto, Answers, TypeOK, tagVars
<1>10. ASSUME NEW r \in Reqs, Flush(r)
      PROVE  (\A q \in Reqs : Answers(q) => ~cancelled[q])
  BY <1>10 DEF Flush, Answer, Goto, Answers, TypeOK
<1>11. ASSUME NEW r \in Reqs, Unsupported(r)
      PROVE  (\A q \in Reqs : Answers(q) => ~cancelled[q])
  BY <1>11 DEF Unsupported, Answer, Goto, Answers, TypeOK, tagVars
<1>12. ASSUME NEW r \in Reqs, Lookup(r)
      PROVE  (\A q \in Reqs : Answers(q) => ~cancelled[q])
  BY <1>12 DEF Lookup, Answer, Goto, Answers, TypeOK, tagVars
<1>13. ASSUME NEW r \in Reqs, WalkTo(r)
      PROVE  (\A q \in Reqs : Answers(q) => ~cancelled[q])
  BY <1>13 DEF WalkTo, Answer, Goto, Answers, TypeOK, tagVars
<1>14. ASSUME NEW r \in Reqs, WalkShort(r)
      PROVE  (\A q \in Reqs : Answers(q) => ~cancelled[q])
  BY <1>14 DEF WalkShort, Answer, Goto, Answers, TypeOK, tagVars
<1>15. ASSUME NEW r \in Reqs, WalkBind(r)
      PROVE  (\A q \in Reqs : Answers(q) => ~cancelled[q])
  BY <1>15 DEF WalkBind, Answer, Goto, Answers, TypeOK, tagVars
<1>16. ASSUME NEW r \in Reqs, WalkPanic(r)
      PROVE  (\A q \in Reqs : Answers(q) => ~cancelled[q])
  BY <1>16 DEF WalkPanic, Goto, Answers, TypeOK, tagVars
<1>17. ASSUME NEW r \in Reqs, OpenStart(r)
      PROVE  (\A q \in Reqs : Answers(q) => ~cancelled[q])
  BY <1>17 DEF OpenStart, Answer, Goto, Answers, TypeOK, tagVars
<1>18. ASSUME NEW r \in Reqs, OpenReturn(r)
      PROVE  (\A q \in Reqs : Answers(q) => ~cancelled[q])
  BY <1>18 DEF OpenReturn, Answer, Goto, Answers, TypeOK, tagVars
<1>19. ASSUME NEW r \in Reqs, IOStart(r)
      PROVE  (\A q \in Reqs : Answers(q) => ~cancelled[q])
  BY <1>19 DEF IOStart, Answer, Goto, Answers, TypeOK, tagVars
<1>20. ASSUME NEW r \in Reqs, StatStart(r)
      PROVE  (\A q \in Reqs : Answers(q) => ~cancelled[q])
  BY <1>20 DEF StatStart, Answer, Goto, Answers, TypeOK, tagVars
<1>21. ASSUME NEW r \in Reqs, CallReturn(r)
      PROVE  (\A q \in Reqs : Answers(q) => ~cancelled[q])
  BY <1>21 DEF CallReturn, Answer, Goto, Answers, TypeOK, tagVars
<1>22. ASSUME NEW r \in Reqs, Unbind(r)
      PROVE  (\A q \in Reqs : Answers(q) => ~cancelled[q])
  BY <1>22 DEF Unbind, Answer, Goto, Answers, TypeOK, tagVars
<1>23. ASSUME NEW r \in Reqs, CloseFid(r)
      PROVE  (\A q \in Reqs : Answers(q) => ~cancelled[q])
  BY <1>23 DEF CloseFid, Answer, Goto, Answers, TypeOK, tagVars
<1>24. ASSUME NEW r \in Reqs, Respond(r)
      PROVE  (\A q \in Reqs : Answers(q) => ~cancelled[q])
  BY <1>24 DEF Respond, CanRespond, Goto, Answers, TypeOK
<1>25. ASSUME NEW r \in Reqs, RespondCancelled(r)
      PROVE  (\A q \in Reqs : Answers(q) => ~cancelled[q])
  BY <1>25 DEF RespondCancelled, CanRespond, Goto, Answers, TypeOK, tagVars
<1>26. ASSUME NEW r \in Reqs, RespondTooBig(r)
      PROVE  (\A q \in Reqs : Answers(q) => ~cancelled[q])
  BY <1>26 DEF RespondTooBig, CanRespond, Goto, Answers, TypeOK, tagVars
<1>27. ASSUME NEW r \in Reqs, RespondFails(r)
      PROVE  (\A q \in Reqs : Answers(q) => ~cancelled[q])
  BY <1>27 DEF RespondFails, CanRespond, Goto, Answers, TypeOK
<1>28. ASSUME NEW r \in Reqs, RespondPanics(r)
      PROVE  (\A q \in Reqs : Answers(q) => ~cancelled[q])
  BY <1>28 DEF RespondPanics, CanRespond, Goto, Answers, TypeOK, tagVars
<1>29. ASSUME NEW th \in Threads, Die(th)
      PROVE  (\A q \in Reqs : Answers(q) => ~cancelled[q])
  BY <1>29 DEF Die, Goto, Answers, TypeOK, tagVars
<1>30. ASSUME NEW th \in Threads, Cleanup(th)
      PROVE  (\A q \in Reqs : Answers(q) => ~cancelled[q])
  BY <1>30 DEF Cleanup, Goto, Answers, TypeOK, tagVars
<1>31. ASSUME NEW th \in Threads, NEW s \in Reqs, Sweep(th, s)
      PROVE  (\A q \in Reqs : Answers(q) => ~cancelled[q])
  BY <1>31 DEF Sweep, Answers, TypeOK, tagVars
<1>32. ASSUME NEW th \in Threads, CleanupDone(th)
      PROVE  (\A q \in Reqs : Answers(q) => ~cancelled[q])
  BY <1>32 DEF CleanupDone, AfterCleanup, Goto, Answers, TypeOK, tagVars
<1>33. CASE Hangup
  BY <1>33 DEF Hangup, Answers, TypeOK, tagVars
<1>34. CASE Quiescent
  BY <1>34 DEF Quiescent, vars, Answers, TypeOK, tagVars
<1>35. CASE UNCHANGED vars
  BY <1>35 DEF vars, Answers, TypeOK, tagVars
<1> QED
  BY <1>1, <1>2, <1>3, <1>4, <1>5, <1>6, <1>7, <1>8, <1>9, <1>10, <1>11, <1>12, <1>13,
     <1>14, <1>15, <1>16, <1>17, <1>18, <1>19, <1>20, <1>21, <1>22, <1>23, <1>24, <1>25,
     <1>26, <1>27, <1>28, <1>29, <1>30, <1>31, <1>32, <1>33, <1>34, <1>35
     DEF Next, Handler, Responding, Dying

\* A client that sends its Tversions alone is never sent a reply it does not expect:
\* not to a request it flushed, once it has the Rflush, and not from an earlier session.
THEOREM RepliesExpected ==
    ASSUME "version" \in Client
    PROVE  Spec => ReplyExpected
<1>1. SessionInv /\ [Next]_vars => [\A r \in Reqs : Answers(r) => r \in awaits]_vars
  BY AnswersStep DEF Answers, SessionInv, AwaitInv, Answering, Working
<1> QED
  BY <1>1, SessionInvariant, PTL DEF Spec, ReplyExpected


-----------------------------------------------------------------------------
(***************************************************************************)
(* Sessions in which no open file is lost.                                 *)
(***************************************************************************)
\* The client has one request for each fid in flight and flushes none, and the connection breaks
\* only when no handler holds a lock.
Orderly ==
    /\ {"fids", "version"} \subseteq Client /\ "hangup" \notin Env
    /\ \A r \in Reqs : \A m \in Script[r] : m.kind # "flush"

\* The handler of r has begun and not returned.
Active(r) == pc[r] \notin Finished \union {"idle"}

\* The fids that request r names.
Uses(r) == {msg[r].fid, msg[r].fid2} \ {NOFID}

\* The client waits for every request in progress.
PendingInv ==
    /\ \A r \in Reqs : Active(r) => r \in awaits
    /\ \A r \in awaits : pc[r] # "idle" /\ msg[r].kind # "flush"

\* No two of them name the same fid.
DisjointInv == \A r, q \in awaits : r # q => Uses(r) \intersect Uses(q) = {}

\* On a broken connection only handlers without locks go on.
QuietInv == sock = "down" => \A r \in Reqs : Active(r) => msg[r].kind \in LockFree

\* Before the first Rversion the client waits for it and sends nothing.
StartInv ==
    ~negotiated => /\ \A r \in awaits : msg[r].kind = "version"
                   /\ received > 0 => awaits # {}

\* A thread cleans up for a Tversion or because the connection is broken; one that has panicked
\* with fidLock never comes to it.
CauseInv ==
    \A th \in Threads : pc[th] \in Dead =>
        \/ sock = "down"
        \/ th \in Reqs /\ msg[th].kind = "version"
        \/ fidLock = th /\ pc[th] # "sweep"

\* The handler is about to bind a fid that it found free: attach, auth.
Binding(r) == \/ pc[r] = "calling" /\ msg[r].kind = "attach"
              \/ pc[r] = "opening" /\ msg[r].kind = "auth"

\* Such a handler, and whoever sweeps the table, holds fidLock.
TableInv == \A th \in Threads : pc[th] = "sweep" \/ (th \in Reqs /\ Binding(th)) => fidLock = th

\* The fid it binds is free.
NewInv == \A r \in Reqs : Binding(r) => msg[r].fid \in Fids /\ fids[msg[r].fid] = None

\* open and create have found the fidState of their fid.
Opener(r) == pc[r] \in {"found", "opening"} /\ msg[r].kind \in {"open", "create"}

\* It stays in the table.
BoundInv == \A r \in Reqs : Opener(r) => StateOf(msg[r].fid) = ptr[r]

\* What has been swept has no handle.
SweepInv == \A th \in Threads : pc[th] = "sweep" => \A s \in Live \ todo : handle[s] = None

\* A Tversion has cleaned up and will say so.
Clears(r) ==
    /\ pc[r] # "idle" /\ msg[r].kind = "version"
    /\ pc[r] \in {"reset", "resetting"} \/ (pc[r] = "reply" /\ reply[r] = "ok")

\* Then there is no fid and no open handle.
ClearInv == \A r \in Reqs : Clears(r) => Live = {} /\ \A s \in Reqs : handle[s] = None

\* What the client does and why a thread cleans up.
OrderInv == SessionInv /\ PendingInv /\ DisjointInv /\ QuietInv /\ StartInv /\ CauseInv

\* The inductive invariant behind NoLeak.
LeakInv == TableInv /\ NewInv /\ BoundInv /\ SweepInv /\ ClearInv /\ NoLeak

\* What a step other than Receive leaves alone.
Frame ==
    /\ UNCHANGED <<msg, received>>
    /\ \A q \in Reqs : Active(q)' => Active(q)
    /\ \A q \in Reqs : pc'[q] = "idle" <=> pc[q] = "idle"
    /\ sock' = sock \/ Hangup
    /\ awaits' = awaits \/ \E r \in Reqs : Respond(r)
    /\ negotiated => negotiated'

\* Every other step does.
LEMMA FrameStep ==
    ASSUME HandleInv, [Next]_vars
    PROVE  Frame \/ \E r \in Reqs : \E m \in Script[r] : Receive(r, m)
<1> USE ThreadNames DEF HandleInv
<1> SUFFICES ASSUME ~\E r \in Reqs : \E m \in Script[r] : Receive(r, m) PROVE Frame
  OBVIOUS
<1>0. None \notin Threads
  BY ConstantsAssumption
<1> USE DEF Answer, Goto, clientVars, threadVars, tagVars, fidVars, handleVars, lockVars,
            serverVars
<1>1. CASE ServeTop \/ ReadError
  BY <1>1, <1>0 DEF ServeTop, ReadError, Frame, Active, Finished, TypeOK, AfterCleanup
<1>2. ASSUME NEW r \in Reqs, Version(r) \/ VersionLock(r) \/ VersionReset(r) \/ Auth(r) \/
             Attach(r) \/ AttachReturn(r)
      PROVE  Frame
  BY <1>2, <1>0 DEF Version, VersionLock, VersionReset, Auth, Attach, AttachReturn, Frame, Active,
     Finished, TypeOK, AfterCleanup
<1>3. ASSUME NEW r \in Reqs, Flush(r) \/ Unsupported(r) \/ Lookup(r) \/ WalkTo(r) \/ WalkShort(r)
             \/ WalkBind(r)
      PROVE  Frame
  BY <1>3, <1>0 DEF Flush, Unsupported, Lookup, WalkTo, WalkShort, WalkBind, Frame, Active,
     Finished, TypeOK, AfterCleanup
<1>4. ASSUME NEW r \in Reqs, WalkPanic(r) \/ OpenStart(r) PROVE Frame
  BY <1>4, <1>0 DEF WalkPanic, OpenStart, Frame, Active, Finished, TypeOK, AfterCleanup
<1>5. ASSUME NEW r \in Reqs, OpenReturn(r) PROVE Frame
  BY <1>5, <1>0 DEF OpenReturn, Frame, Active, Finished, TypeOK, AfterCleanup
<1>6. ASSUME NEW r \in Reqs, IOStart(r) \/ StatStart(r) \/ CallReturn(r) \/ Unbind(r) \/
             CloseFid(r) \/ Respond(r)
      PROVE  Frame
  BY <1>6, <1>0 DEF IOStart, StatStart, CallReturn, Unbind, CloseFid, CloseHandle, Respond,
     CanRespond, DropLocks, DeleteTag, Frame, Active, Finished, TypeOK, AfterCleanup
<1>7. ASSUME NEW r \in Reqs, RespondCancelled(r) \/ RespondTooBig(r) \/ RespondFails(r) \/
             RespondPanics(r)
      PROVE  Frame
  BY <1>7, <1>0 DEF RespondCancelled, CanRespond, DropLocks, DeleteTag, RespondTooBig,
     RespondFails, RespondPanics, Frame, Active, Finished, TypeOK, AfterCleanup
<1>8. ASSUME NEW th \in Threads, Die(th) \/ Cleanup(th) PROVE Frame
  BY <1>8, <1>0 DEF Die, Cleanup, Frame, Active, Finished, TypeOK, AfterCleanup
<1>9. ASSUME NEW th \in Threads, NEW s \in Reqs, Sweep(th, s) PROVE Frame
  BY <1>9, <1>0 DEF Sweep, CloseHandle, Frame, Active, Finished, TypeOK, AfterCleanup
<1>10. ASSUME NEW th \in Threads, CleanupDone(th) PROVE Frame
  BY <1>10, <1>0 DEF CleanupDone, DropLocks, AfterCleanup, Frame, Active, Finished, TypeOK
<1>11. CASE Hangup \/ Quiescent \/ UNCHANGED vars
  BY <1>11, <1>0 DEF Hangup, Quiescent, vars, Frame, Active, Finished, TypeOK, AfterCleanup
<1> QED
  BY <1>1, <1>2, <1>3, <1>4, <1>5, <1>6, <1>7, <1>8, <1>9, <1>10, <1>11 DEF Next, Handler,
     Responding, Dying


\* Whatever is received or answered, the client waits for what is in progress and for nothing on
\* the same fid.
LEMMA PendingStep ==
    ASSUME Orderly, OrderInv, [Next]_vars
    PROVE  PendingInv' /\ DisjointInv' /\ StartInv'
<1> USE ThreadNames DEF OrderInv, SessionInv, TagInv, HandleInv
<1>1. ASSUME NEW r \in Reqs, NEW m \in Script[r], Receive(r, m)
      PROVE  PendingInv' /\ DisjointInv' /\ StartInv'
  <2>1. /\ r \notin awaits /\ m.kind # "flush"
        /\ msg'[r] = m /\ pc'[r] \in {"start", "reply"}
        /\ \A q \in Reqs \ {r} : pc'[q] = pc[q] /\ msg'[q] = msg[q]
    BY <1>1, ReceiveFacts DEF Orderly, PendingInv
  <2>2. /\ awaits' = awaits \union {r} /\ awaits \subseteq Reqs
        /\ negotiated' = negotiated /\ received' = r /\ r = received + 1
        /\ MaySend(m)
    BY <1>1 DEF Receive, serverVars, TypeOK
  <2>3. PendingInv'
    BY <2>1, <2>2 DEF PendingInv, Active
  <2>4. \A q \in awaits : {m.fid, m.fid2} \intersect {msg[q].fid, msg[q].fid2} \subseteq {NOFID}
    BY <2>2 DEF MaySend, Orderly
  <2>5. \A q \in awaits : Uses(q)' = Uses(q) /\ Uses(r)' \intersect Uses(q) = {}
    BY <2>1, <2>2, <2>4 DEF Uses
  <2>6. DisjointInv'
    <3> SUFFICES ASSUME NEW p \in awaits \union {r}, NEW q \in awaits \union {r}, p # q
                 PROVE  Uses(p)' \intersect Uses(q)' = {}
      BY <2>2 DEF DisjointInv
    <3>1. CASE p = r
      BY <2>5, <3>1
    <3>2. CASE q = r
      BY <2>5, <3>2
    <3>3. CASE p # r /\ q # r
      BY <2>5, <3>3 DEF DisjointInv
    <3> QED BY <3>1, <3>2, <3>3
  <2>7. ASSUME ~negotiated PROVE m.kind = "version"
    <3>1. CASE received > 0
      BY <2>2, <2>7, <3>1 DEF StartInv, MaySend, Orderly
    <3>2. CASE ~(received > 0)
      <4>1. r = 1
        BY <2>2, <3>2, ConstantsAssumption DEF TypeOK
      <4> QED BY <4>1, VersionFirst
    <3> QED BY <3>1, <3>2
  <2>8. StartInv'
    BY <2>1, <2>2, <2>7 DEF StartInv
  <2> QED BY <2>3, <2>6, <2>8
<1>2. ASSUME Frame PROVE PendingInv' /\ DisjointInv' /\ StartInv'
  <2>1. awaits' \subseteq awaits /\ \A q \in awaits : Active(q)' => q \in awaits'
    <3>1. ASSUME NEW r \in Reqs, Respond(r)
          PROVE  awaits' \subseteq awaits /\ \A q \in awaits : Active(q)' => q \in awaits'
      <4>1. r \in awaits /\ msg[r].kind # "flush" /\ awaits' = AwaitsAfter(r) /\ ~Active(r)'
        BY <3>1 DEF Respond, CanRespond, PendingInv, Active, Finished, Goto, TypeOK
      <4>2. CASE msg[r].kind = "version"
        BY <4>1, <4>2 DEF AwaitsAfter, AloneInv
      <4>3. CASE msg[r].kind # "version"
        BY <4>1, <4>3 DEF AwaitsAfter
      <4> QED BY <4>2, <4>3
    <3> QED BY <1>2, <3>1 DEF Frame
  <2>2. PendingInv'
    BY <1>2, <2>1 DEF Frame, PendingInv, TypeOK
  <2>3. DisjointInv'
    BY <1>2, <2>1 DEF Frame, DisjointInv, Uses
  <2>4. ~negotiated' => ~negotiated /\ awaits' = awaits
    BY <1>2 DEF Frame, Respond
  <2>5. StartInv'
    BY <1>2, <2>4 DEF Frame, StartInv
  <2> QED BY <2>2, <2>3, <2>5
<1> QED BY <1>1, <1>2, FrameStep

\* A connection breaks when no lock is held, and nothing is received after that.
LEMMA QuietStep ==
    ASSUME Orderly, OrderInv, [Next]_vars
    PROVE  QuietInv'
<1> USE ThreadNames DEF OrderInv, SessionInv, TagInv, HandleInv
<1>1. ASSUME NEW r \in Reqs, NEW m \in Script[r], Receive(r, m) PROVE QuietInv'
  BY <1>1 DEF Receive, Orderly, QuietInv, TypeOK
<1>2. ASSUME Frame, Hangup PROVE QuietInv'
  <2>1. \A r \in 1..received : Done(r) \/ msg[r].kind \in LockFree
    BY <1>2 DEF Hangup, Orderly
  <2>2. \A r \in Reqs : Active(r) => r \in 1..received
    BY DEF Active, ReadInv, Reqs, TypeOK
  <2> QED BY <1>2, <2>1, <2>2 DEF Frame, QuietInv, Done, Active
<1>3. ASSUME Frame, ~Hangup PROVE QuietInv'
  BY <1>3 DEF Frame, QuietInv
<1> QED BY <1>1, <1>2, <1>3, FrameStep

\* A thread dies on a broken connection, from a panic, or as a Tversion.
LEMMA CauseStep ==
    ASSUME Orderly, OrderInv, [Next]_vars
    PROVE  CauseInv'
<1> USE ThreadNames DEF OrderInv, SessionInv, TagInv, HandleInv
<1>0. None \notin Threads
  BY ConstantsAssumption
<1> USE DEF Answer, Goto, clientVars, threadVars, tagVars, fidVars, handleVars, lockVars,
            serverVars
<1>1. CASE ServeTop \/ ReadError
  BY <1>1, <1>0 DEF ServeTop, ReadError, CauseInv, Dead, TypeOK
<1>2. ASSUME NEW r \in Reqs, NEW m \in Script[r], Receive(r, m) PROVE CauseInv'
  BY <1>2, ReceiveFacts DEF Receive, CauseInv, Dead, TypeOK
<1>3. ASSUME NEW r \in Reqs, Version(r) \/ VersionLock(r) PROVE CauseInv'
  BY <1>3, <1>0 DEF Version, VersionLock, CauseInv, Dead, TypeOK
<1>4. ASSUME NEW r \in Reqs, VersionReset(r) PROVE CauseInv'
  BY <1>4 DEF VersionReset, VersionInv, CauseInv, Dead, TypeOK
<1>5. ASSUME NEW r \in Reqs, Auth(r) \/ Attach(r) \/ AttachReturn(r) \/ Flush(r) \/ Unsupported(r)
             \/ Lookup(r)
      PROVE  CauseInv'
  BY <1>5, <1>0 DEF Auth, Attach, AttachReturn, Flush, Unsupported, Lookup, CauseInv, Dead, TypeOK
<1>6. ASSUME NEW r \in Reqs, WalkTo(r) \/ WalkShort(r) \/ WalkBind(r) \/ WalkPanic(r) \/
             OpenStart(r)
      PROVE  CauseInv'
  BY <1>6, <1>0 DEF WalkTo, WalkShort, WalkBind, WalkPanic, OpenStart, CauseInv, Dead, TypeOK
<1>7. ASSUME NEW r \in Reqs, OpenReturn(r) PROVE CauseInv'
  BY <1>7, <1>0 DEF OpenReturn, CauseInv, Dead, TypeOK
<1>8. ASSUME NEW r \in Reqs, IOStart(r) \/ StatStart(r) \/ CallReturn(r) \/ Unbind(r) \/
             CloseFid(r) \/ Respond(r)
      PROVE  CauseInv'
  BY <1>8, <1>0 DEF IOStart, StatStart, CallReturn, Unbind, CloseFid, CloseHandle, Respond,
     CanRespond, DropLocks, DeleteTag, CauseInv, Dead, TypeOK
<1>9. ASSUME NEW r \in Reqs, RespondCancelled(r) \/ RespondTooBig(r) \/ RespondFails(r)
      PROVE  CauseInv'
  BY <1>9, <1>0 DEF RespondCancelled, CanRespond, DropLocks, DeleteTag, RespondTooBig,
     RespondFails, CauseInv, Dead, TypeOK
<1>10. ASSUME NEW r \in Reqs, RespondPanics(r) PROVE CauseInv'
  <2>1. msg[r].kind = "version" /\ msg' = msg /\ sock' = sock
    BY <1>10 DEF RespondPanics, CanRespond, PendingInv, Active, Finished, StartInv
  <2>2. \A q \in Threads \ {r} : pc'[q] = pc[q] /\ (fidLock = q => fidLock' = q)
    BY <1>10 DEF RespondPanics, DropLocks, TypeOK
  <2> QED BY <2>1, <2>2 DEF CauseInv
<1>11. ASSUME NEW th \in Threads, Die(th) \/ Cleanup(th) PROVE CauseInv'
  BY <1>11, <1>0 DEF Die, Cleanup, CauseInv, Dead, TypeOK
<1>12. ASSUME NEW th \in Threads, NEW s \in Reqs, Sweep(th, s) PROVE CauseInv'
  BY <1>12, <1>0 DEF Sweep, CloseHandle, CauseInv, Dead, TypeOK
<1>13. ASSUME NEW th \in Threads, CleanupDone(th) PROVE CauseInv'
  BY <1>13, <1>0 DEF CleanupDone, DropLocks, AfterCleanup, CauseInv, Dead, TypeOK
<1>14. CASE Hangup \/ Quiescent \/ UNCHANGED vars
  BY <1>14, <1>0 DEF Hangup, Quiescent, vars, CauseInv, Dead, TypeOK
<1> QED
  BY <1>1, <1>2, <1>3, <1>4, <1>5, <1>6, <1>7, <1>8, <1>9, <1>10, <1>11, <1>12, <1>13, <1>14 DEF
     Next, Handler, Responding, Dying

\* Who holds fidLock over a call, and who sweeps, keeps it until that is done.
LEMMA TableStep ==
    ASSUME HandleInv, TableInv, [Next]_vars
    PROVE  TableInv'
<1> USE ThreadNames DEF HandleInv
<1>0. None \notin Threads
  BY ConstantsAssumption
<1> USE DEF Answer, Goto, clientVars, threadVars, tagVars, fidVars, handleVars, lockVars,
            serverVars
<1>1. CASE ServeTop \/ ReadError
  BY <1>1, <1>0 DEF ServeTop, ReadError, TableInv, Binding, TypeOK
<1>2. ASSUME NEW r \in Reqs, NEW m \in Script[r], Receive(r, m) PROVE TableInv'
  BY <1>2, ReceiveFacts DEF Receive, TableInv, Binding, TypeOK
<1>3. ASSUME NEW r \in Reqs, Version(r) \/ VersionLock(r) \/ VersionReset(r) \/ Auth(r) \/
             Attach(r) \/ AttachReturn(r)
      PROVE  TableInv'
  BY <1>3, <1>0 DEF Version, VersionLock, VersionReset, Auth, Attach, AttachReturn, TableInv,
     Binding, TypeOK
<1>4. ASSUME NEW r \in Reqs, Flush(r) \/ Unsupported(r) \/ Lookup(r) \/ WalkTo(r) \/ WalkShort(r)
             \/ WalkBind(r)
      PROVE  TableInv'
  BY <1>4, <1>0 DEF Flush, Unsupported, Lookup, WalkTo, WalkShort, WalkBind, TableInv, Binding,
     TypeOK
<1>5. ASSUME NEW r \in Reqs, WalkPanic(r) \/ OpenStart(r) PROVE TableInv'
  BY <1>5, <1>0 DEF WalkPanic, OpenStart, TableInv, Binding, TypeOK
<1>6. ASSUME NEW r \in Reqs, OpenReturn(r) PROVE TableInv'
  BY <1>6, <1>0 DEF OpenReturn, TableInv, Binding, TypeOK
<1>7. ASSUME NEW r \in Reqs, IOStart(r) \/ StatStart(r) \/ CallReturn(r) \/ Unbind(r) \/
             CloseFid(r) \/ Respond(r)
      PROVE  TableInv'
  BY <1>7, <1>0 DEF IOStart, StatStart, CallReturn, Unbind, CloseFid, CloseHandle, Respond,
     CanRespond, DropLocks, DeleteTag, TableInv, Binding, TypeOK
<1>8. ASSUME NEW r \in Reqs, RespondCancelled(r) \/ RespondTooBig(r) \/ RespondFails(r) \/
             RespondPanics(r)
      PROVE  TableInv'
  BY <1>8, <1>0 DEF RespondCancelled, CanRespond, DropLocks, DeleteTag, RespondTooBig,
     RespondFails, RespondPanics, TableInv, Binding, TypeOK
<1>9. ASSUME NEW th \in Threads, Die(th) \/ Cleanup(th) PROVE TableInv'
  BY <1>9, <1>0 DEF Die, Cleanup, TableInv, Binding, TypeOK
<1>10. ASSUME NEW th \in Threads, NEW s \in Reqs, Sweep(th, s) PROVE TableInv'
  BY <1>10, <1>0 DEF Sweep, CloseHandle, TableInv, Binding, TypeOK
<1>11. ASSUME NEW th \in Threads, CleanupDone(th) PROVE TableInv'
  BY <1>11, <1>0 DEF CleanupDone, DropLocks, AfterCleanup, TableInv, Binding, TypeOK
<1>12. CASE Hangup \/ Quiescent \/ UNCHANGED vars
  BY <1>12, <1>0 DEF Hangup, Quiescent, vars, TableInv, Binding, TypeOK
<1> QED
  BY <1>1, <1>2, <1>3, <1>4, <1>5, <1>6, <1>7, <1>8, <1>9, <1>10, <1>11, <1>12 DEF Next, Handler,
     Responding, Dying

\* A handler with the fid of request r is that of r, or does not have the table yet.
LEMMA OwnFid ==
    ASSUME OrderInv, NEW r \in Reqs, NEW q \in Reqs, r # q, Active(r), Active(q)
    PROVE  /\ msg[r].fid = msg[q].fid => msg[q].fid \notin Fids
           /\ msg[r].fid2 = msg[q].fid => msg[q].fid \notin Fids
<1>1. r \in awaits /\ q \in awaits
  BY DEF OrderInv, PendingInv
<1>2. \A f \in Fids : f # NOFID
  BY ConstantsAssumption
<1> QED BY <1>1, <1>2 DEF OrderInv, DisjointInv, Uses

\* While a Tversion is in progress nothing else is.
LEMMA VersionOnly ==
    ASSUME OrderInv, NEW r \in Reqs, Active(r), msg[r].kind = "version"
    PROVE  pc[Serve] = "top" /\ \A q \in Reqs \ {r} : ~Active(q)
<1>1. \A q \in Reqs : Active(q) => q = r
  BY DEF OrderInv, PendingInv, SessionInv, AloneInv
<1>2. pc[Serve] = "top"
  BY DEF OrderInv, SessionInv, SyncInv, Sync, Active
<1> QED BY <1>1, <1>2

\* No open is in progress while the table is swept.
LEMMA SweepAlone ==
    ASSUME OrderInv, NEW th \in Threads, pc[th] = "sweep", NEW r \in Reqs
    PROVE  ~Opener(r)
<1> SUFFICES ASSUME Opener(r) PROVE FALSE
  OBVIOUS
<1>1. Active(r) /\ msg[r].kind \notin LockFree \union {"version"}
  BY DEF Opener, Active, Finished, LockFree
<1>2. CASE sock = "down"
  BY <1>1, <1>2 DEF OrderInv, QuietInv
<1>3. CASE th \in Reqs /\ msg[th].kind = "version"
  BY <1>1, <1>3, VersionOnly DEF Active, Finished
<1> QED BY <1>2, <1>3 DEF OrderInv, CauseInv, Dead

\* The fid of an attach or auth stays free until it is bound.
LEMMA NewStep ==
    ASSUME OrderInv, TableInv, NewInv, [Next]_vars
    PROVE  NewInv'
<1> USE ThreadNames DEF OrderInv, SessionInv, TagInv, HandleInv
<1>0. None \notin Threads
  BY ConstantsAssumption
<1> USE DEF Answer, Goto, clientVars, threadVars, tagVars, fidVars, handleVars, lockVars,
            serverVars
<1>1. CASE ServeTop \/ ReadError
  BY <1>1, <1>0 DEF ServeTop, ReadError, NewInv, Binding, TypeOK
<1>2. ASSUME NEW r \in Reqs, NEW m \in Script[r], Receive(r, m) PROVE NewInv'
  BY <1>2, ReceiveFacts DEF Receive, NewInv, Binding, TypeOK
<1>3. ASSUME NEW r \in Reqs, Version(r) \/ VersionLock(r) \/ VersionReset(r) PROVE NewInv'
  BY <1>3, <1>0 DEF Version, VersionLock, VersionReset, NewInv, Binding, TypeOK
<1>4. ASSUME NEW r \in Reqs, Auth(r) PROVE NewInv'
  <2>1. msg[r] \in Messages
    BY <1>4 DEF Auth, TypeOK, ReadInv
  <2>2. ~Binding(r)' \/ (msg[r].fid \in Fids /\ fids[msg[r].fid] = None)
    BY <1>4, <2>1 DEF Auth, StateOf, Messages, Binding, TypeOK
  <2>3. \A q \in Reqs \ {r} : Binding(q)' = Binding(q)
    BY <1>4 DEF Auth, Binding, TypeOK
  <2> QED BY <1>4, <2>2, <2>3 DEF Auth, NewInv
<1>5. ASSUME NEW r \in Reqs, Attach(r) PROVE NewInv'
  <2>1. msg[r] \in Messages
    BY <1>5 DEF Attach, TypeOK, ReadInv
  <2>2. ~Binding(r)' \/ (msg[r].fid \in Fids /\ fids[msg[r].fid] = None)
    BY <1>5, <2>1 DEF Attach, StateOf, Messages, Binding, TypeOK
  <2>3. \A q \in Reqs \ {r} : Binding(q)' = Binding(q)
    BY <1>5 DEF Attach, Binding, TypeOK
  <2> QED BY <1>5, <2>2, <2>3 DEF Attach, NewInv
<1>6. ASSUME NEW r \in Reqs, AttachReturn(r) PROVE NewInv'
  BY <1>6, <1>0 DEF AttachReturn, NewInv, Binding, TypeOK, TableInv
<1>7. ASSUME NEW r \in Reqs, Flush(r) \/ Unsupported(r) \/ Lookup(r) \/ WalkTo(r) \/ WalkShort(r)
      PROVE  NewInv'
  BY <1>7, <1>0 DEF Flush, Unsupported, Lookup, WalkTo, WalkShort, NewInv, Binding, TypeOK
<1>8. ASSUME NEW r \in Reqs, WalkBind(r) PROVE NewInv'
  BY <1>8, <1>0 DEF WalkBind, NewInv, Binding, TypeOK, TableInv
<1>9. ASSUME NEW r \in Reqs, WalkPanic(r) \/ OpenStart(r) PROVE NewInv'
  BY <1>9, <1>0 DEF WalkPanic, OpenStart, NewInv, Binding, TypeOK
<1>10. ASSUME NEW r \in Reqs, OpenReturn(r) PROVE NewInv'
  BY <1>10, <1>0 DEF OpenReturn, NewInv, Binding, TypeOK, TableInv
<1>11. ASSUME NEW r \in Reqs, IOStart(r) \/ StatStart(r) \/ CallReturn(r) PROVE NewInv'
  BY <1>11, <1>0 DEF IOStart, StatStart, CallReturn, NewInv, Binding, TypeOK
<1>12. ASSUME NEW r \in Reqs, Unbind(r) PROVE NewInv'
  BY <1>12, <1>0 DEF Unbind, NewInv, Binding, TypeOK, TableInv
<1>13. ASSUME NEW r \in Reqs, CloseFid(r) \/ Respond(r) \/ RespondCancelled(r) \/ RespondTooBig(r)
             \/ RespondFails(r) \/ RespondPanics(r)
      PROVE  NewInv'
  BY <1>13, <1>0 DEF CloseFid, CloseHandle, Respond, CanRespond, DropLocks, DeleteTag,
     RespondCancelled, RespondTooBig, RespondFails, RespondPanics, NewInv, Binding, TypeOK
<1>14. ASSUME NEW th \in Threads, Die(th) \/ Cleanup(th) PROVE NewInv'
  BY <1>14, <1>0 DEF Die, Cleanup, NewInv, Binding, TypeOK
<1>15. ASSUME NEW th \in Threads, NEW s \in Reqs, Sweep(th, s) PROVE NewInv'
  BY <1>15, <1>0 DEF Sweep, CloseHandle, NewInv, Binding, TypeOK
<1>16. ASSUME NEW th \in Threads, CleanupDone(th) PROVE NewInv'
  <2>1. /\ msg' = msg /\ \A q \in Reqs : Binding(q)' => Binding(q)
        /\ fids' = [f \in Fids |-> None]
    BY <1>16 DEF CleanupDone, AfterCleanup, Binding, TypeOK
  <2> QED BY <2>1 DEF NewInv
<1>17. CASE Hangup \/ Quiescent \/ UNCHANGED vars
  BY <1>17, <1>0 DEF Hangup, Quiescent, vars, NewInv, Binding, TypeOK
<1> QED
  BY <1>1, <1>2, <1>3, <1>4, <1>5, <1>6, <1>7, <1>8, <1>9, <1>10, <1>11, <1>12, <1>13, <1>14,
     <1>15, <1>16, <1>17 DEF Next, Handler, Responding, Dying

\* The fidState that open and create have found stays in the table.
LEMMA BoundStep ==
    ASSUME OrderInv, TableInv, NewInv, BoundInv, [Next]_vars
    PROVE  BoundInv'
<1> USE ThreadNames DEF OrderInv, SessionInv, TagInv, HandleInv
<1>0. None \notin Threads
  BY ConstantsAssumption
<1> USE DEF Answer, Goto, clientVars, threadVars, tagVars, fidVars, handleVars, lockVars,
            serverVars
<1>1. CASE ServeTop \/ ReadError
  BY <1>1, <1>0 DEF ServeTop, ReadError, BoundInv, Opener, StateOf, TypeOK
<1>2. ASSUME NEW r \in Reqs, NEW m \in Script[r], Receive(r, m) PROVE BoundInv'
  BY <1>2, ReceiveFacts DEF Receive, BoundInv, Opener, StateOf, TypeOK
<1>3. ASSUME NEW r \in Reqs, Version(r) \/ VersionLock(r) \/ VersionReset(r) \/ Auth(r) \/ Attach(r)
      PROVE  BoundInv'
  BY <1>3, <1>0 DEF Version, VersionLock, VersionReset, Auth, Attach, BoundInv, Opener, StateOf,
     TypeOK
<1>4. ASSUME NEW r \in Reqs, AttachReturn(r) PROVE BoundInv'
  <2>1. pc' = [pc EXCEPT ![r] = "reply"] /\ UNCHANGED <<msg, ptr>> /\ Active(r) /\ Binding(r)
    BY <1>4 DEF AttachReturn, Active, Finished, Binding
  <2>2. fids' = fids \/ fids' = [fids EXCEPT ![msg[r].fid] = r]
    BY <1>4 DEF AttachReturn
  <2>3. \A q \in Reqs \ {r} : Opener(q) => StateOf(msg[q].fid)' = StateOf(msg[q].fid)
    BY <2>1, <2>2, OwnFid DEF StateOf, Opener, Active, Finished, NewInv, TypeOK
  <2> QED BY <2>1, <2>3 DEF BoundInv, Opener, TypeOK
<1>5. ASSUME NEW r \in Reqs, Flush(r) \/ Unsupported(r) \/ Lookup(r) \/ WalkTo(r) \/ WalkShort(r)
      PROVE  BoundInv'
  BY <1>5, <1>0 DEF Flush, Unsupported, Lookup, WalkTo, WalkShort, BoundInv, Opener, StateOf, TypeOK
<1>6. ASSUME NEW r \in Reqs, WalkBind(r) PROVE BoundInv'
  <2>1. /\ pc' = [pc EXCEPT ![r] = "reply"] /\ UNCHANGED <<msg, ptr>>
        /\ Active(r) /\ msg[r].kind = "walk"
    BY <1>6 DEF WalkBind, Active, Finished, KindInv
  <2>2. fids' = fids \/ fids' = [fids EXCEPT ![msg[r].fid2] = r]
    BY <1>6 DEF WalkBind
  <2>3. \A q \in Reqs \ {r} : Opener(q) => StateOf(msg[q].fid)' = StateOf(msg[q].fid)
    BY <2>1, <2>2, OwnFid DEF StateOf, Opener, Active, Finished, TypeOK
  <2> QED BY <2>1, <2>3 DEF BoundInv, Opener, TypeOK
<1>7. ASSUME NEW r \in Reqs, WalkPanic(r) \/ OpenStart(r) PROVE BoundInv'
  BY <1>7, <1>0 DEF WalkPanic, OpenStart, BoundInv, Opener, StateOf, TypeOK
<1>8. ASSUME NEW r \in Reqs, OpenReturn(r) PROVE BoundInv'
  <2>1. pc' = [pc EXCEPT ![r] = "reply"] /\ UNCHANGED <<msg, ptr>> /\ Active(r)
    BY <1>8 DEF OpenReturn, Active, Finished
  <2>2. fids' = fids \/ (Binding(r) /\ fids' = [fids EXCEPT ![msg[r].fid] = r])
    BY <1>8 DEF OpenReturn, Binding
  <2>3. \A q \in Reqs \ {r} : Opener(q) => StateOf(msg[q].fid)' = StateOf(msg[q].fid)
    BY <2>1, <2>2, OwnFid DEF StateOf, Opener, Active, Finished, NewInv, TypeOK
  <2> QED BY <2>1, <2>3 DEF BoundInv, Opener, TypeOK
<1>9. ASSUME NEW r \in Reqs, IOStart(r) \/ StatStart(r) \/ CallReturn(r) PROVE BoundInv'
  BY <1>9, <1>0 DEF IOStart, StatStart, CallReturn, BoundInv, Opener, StateOf, TypeOK
<1>10. ASSUME NEW r \in Reqs, Unbind(r) PROVE BoundInv'
  BY <1>10, OwnFid DEF Unbind, BoundInv, Opener, StateOf, TypeOK, Active, Finished, NewInv, Binding
<1>11. ASSUME NEW r \in Reqs, CloseFid(r) \/ Respond(r) \/ RespondCancelled(r) \/ RespondTooBig(r)
             \/ RespondFails(r) \/ RespondPanics(r)
      PROVE  BoundInv'
  BY <1>11, <1>0 DEF CloseFid, CloseHandle, Respond, CanRespond, DropLocks, DeleteTag,
     RespondCancelled, RespondTooBig, RespondFails, RespondPanics, BoundInv, Opener, StateOf,
     TypeOK
<1>12. ASSUME NEW th \in Threads, Die(th) \/ Cleanup(th) PROVE BoundInv'
  BY <1>12, <1>0 DEF Die, Cleanup, BoundInv, Opener, StateOf, TypeOK
<1>13. ASSUME NEW th \in Threads, NEW s \in Reqs, Sweep(th, s) PROVE BoundInv'
  BY <1>13, <1>0 DEF Sweep, CloseHandle, BoundInv, Opener, StateOf, TypeOK
<1>14. ASSUME NEW th \in Threads, CleanupDone(th) PROVE BoundInv'
  BY <1>14, SweepAlone, <1>0 DEF CleanupDone, AfterCleanup, BoundInv, Opener, TypeOK
<1>15. CASE Hangup \/ Quiescent \/ UNCHANGED vars
  BY <1>15, <1>0 DEF Hangup, Quiescent, vars, BoundInv, Opener, StateOf, TypeOK
<1> QED
  BY <1>1, <1>2, <1>3, <1>4, <1>5, <1>6, <1>7, <1>8, <1>9, <1>10, <1>11, <1>12, <1>13, <1>14,
     <1>15 DEF Next, Handler, Responding, Dying

\* What has been swept stays without a handle.
LEMMA SweepStep ==
    ASSUME OrderInv, TableInv, SweepInv, [Next]_vars
    PROVE  SweepInv'
<1> USE ThreadNames DEF OrderInv, SessionInv, TagInv, HandleInv
<1>0. None \notin Threads
  BY ConstantsAssumption
<1> USE DEF Answer, Goto, clientVars, threadVars, tagVars, fidVars, handleVars, lockVars,
            serverVars
<1>1. CASE ServeTop \/ ReadError
  BY <1>1, <1>0 DEF ServeTop, ReadError, SweepInv, Live, TypeOK
<1>2. ASSUME NEW r \in Reqs, NEW m \in Script[r], Receive(r, m) PROVE SweepInv'
  BY <1>2, ReceiveFacts DEF Receive, SweepInv, Live, TypeOK
<1>3. ASSUME NEW r \in Reqs, Version(r) \/ VersionLock(r) \/ VersionReset(r) \/ Auth(r) \/ Attach(r)
      PROVE  SweepInv'
  BY <1>3, <1>0 DEF Version, VersionLock, VersionReset, Auth, Attach, SweepInv, Live, TypeOK
<1>4. ASSUME NEW r \in Reqs, AttachReturn(r) PROVE SweepInv'
  <2>1. fidLock = r
    BY <1>4 DEF AttachReturn, TableInv, Binding
  <2>2. \A th \in Threads : pc'[th] # "sweep"
    BY <1>4, <2>1 DEF AttachReturn, TableInv, TypeOK
  <2> QED BY <2>2 DEF SweepInv
<1>5. ASSUME NEW r \in Reqs, Flush(r) \/ Unsupported(r) \/ Lookup(r) \/ WalkTo(r) \/ WalkShort(r)
      PROVE  SweepInv'
  BY <1>5, <1>0 DEF Flush, Unsupported, Lookup, WalkTo, WalkShort, SweepInv, Live, TypeOK
<1>6. ASSUME NEW r \in Reqs, WalkBind(r) PROVE SweepInv'
  <2>1. \A th \in Threads : pc[th] # "sweep"
    BY <1>6, <1>0 DEF WalkBind, TableInv, Binding, KindInv
  <2>2. \A th \in Threads : pc'[th] # "sweep"
    BY <1>6, <2>1 DEF WalkBind, TypeOK
  <2> QED BY <2>2 DEF SweepInv
<1>7. ASSUME NEW r \in Reqs, WalkPanic(r) \/ OpenStart(r) PROVE SweepInv'
  BY <1>7, <1>0 DEF WalkPanic, OpenStart, SweepInv, Live, TypeOK
<1>8. ASSUME NEW r \in Reqs, OpenReturn(r) PROVE SweepInv'
  <2>1. CASE msg[r].kind = "auth"
    <3>1. fidLock = r
      BY <1>8, <2>1 DEF OpenReturn, TableInv, Binding
    <3>2. \A th \in Threads : pc'[th] # "sweep"
      BY <1>8, <3>1 DEF OpenReturn, TableInv, TypeOK
    <3> QED BY <3>2 DEF SweepInv
  <2>2. CASE msg[r].kind # "auth"
    <3>1. Opener(r)
      BY <1>8, <2>2 DEF OpenReturn, Opener, KindInv
    <3>2. \A th \in Threads : pc[th] # "sweep"
      BY <3>1, SweepAlone
    <3>3. \A th \in Threads : pc'[th] # "sweep"
      BY <1>8, <3>2 DEF OpenReturn, TypeOK
    <3> QED BY <3>3 DEF SweepInv
  <2> QED BY <2>1, <2>2
<1>9. ASSUME NEW r \in Reqs, IOStart(r) \/ StatStart(r) \/ CallReturn(r) PROVE SweepInv'
  BY <1>9, <1>0 DEF IOStart, StatStart, CallReturn, SweepInv, Live, TypeOK
<1>10. ASSUME NEW r \in Reqs, Unbind(r) PROVE SweepInv'
  <2>1. \A th \in Threads : pc[th] # "sweep"
    BY <1>10, <1>0 DEF Unbind, TableInv, Binding, KindInv
  <2>2. \A th \in Threads : pc'[th] # "sweep"
    BY <1>10, <2>1 DEF Unbind, TypeOK
  <2> QED BY <2>2 DEF SweepInv
<1>11. ASSUME NEW r \in Reqs, CloseFid(r) PROVE SweepInv'
  <2>1. /\ todo' = todo /\ Live' = Live /\ handle' = [handle EXCEPT ![ptr[r]] = None]
        /\ pc' = [pc EXCEPT ![r] = "reply"]
    BY <1>11 DEF CloseFid, CloseHandle, Live
  <2> QED BY <2>1 DEF SweepInv, TypeOK
<1>12. ASSUME NEW r \in Reqs, Respond(r) \/ RespondCancelled(r) \/ RespondTooBig(r) \/
             RespondFails(r) \/ RespondPanics(r)
      PROVE  SweepInv'
  BY <1>12, <1>0 DEF Respond, CanRespond, DropLocks, DeleteTag, RespondCancelled, RespondTooBig,
     RespondFails, RespondPanics, SweepInv, Live, TypeOK
<1>13. ASSUME NEW th \in Threads, Die(th) PROVE SweepInv'
  BY <1>13, <1>0 DEF Die, SweepInv, Live, TypeOK
<1>14. ASSUME NEW th \in Threads, Cleanup(th) PROVE SweepInv'
  <2>1. todo' = Live /\ Live' = Live
    BY <1>14 DEF Cleanup, Live
  <2> QED BY <2>1 DEF SweepInv
<1>15. ASSUME NEW th \in Threads, NEW s \in Reqs, Sweep(th, s) PROVE SweepInv'
  <2>1. todo' = todo \ {s} /\ Live' = Live /\ pc' = pc /\ handle' = [handle EXCEPT ![s] = None]
    BY <1>15 DEF Sweep, CloseHandle, Live
  <2> QED BY <2>1 DEF SweepInv, TypeOK
<1>16. ASSUME NEW th \in Threads, CleanupDone(th) PROVE SweepInv'
  <2>1. \A q \in Threads : pc'[q] # "sweep"
    BY <1>16 DEF CleanupDone, AfterCleanup, TableInv, TypeOK
  <2> QED BY <2>1 DEF SweepInv
<1>17. CASE Hangup \/ Quiescent \/ UNCHANGED vars
  BY <1>17, <1>0 DEF Hangup, Quiescent, vars, SweepInv, Live, TypeOK
<1> QED
  BY <1>1, <1>2, <1>3, <1>4, <1>5, <1>6, <1>7, <1>8, <1>9, <1>10, <1>11, <1>12, <1>13, <1>14,
     <1>15, <1>16, <1>17 DEF Next, Handler, Responding, Dying

\* Once a Tversion has cleaned up, nothing is opened until it has answered.
LEMMA ClearStep ==
    ASSUME OrderInv, SweepInv, NoLeak, ClearInv, [Next]_vars
    PROVE  ClearInv'
<1> USE ThreadNames DEF OrderInv, SessionInv, TagInv, HandleInv
<1>0. None \notin Threads
  BY ConstantsAssumption
<1> USE DEF Answer, Goto, clientVars, threadVars, tagVars, fidVars, handleVars, lockVars,
            serverVars
<1>1. CASE ServeTop \/ ReadError
  <2>1. UNCHANGED <<fids, handle>> /\ \A q \in Reqs : Clears(q)' => Clears(q)
    BY <1>1, <1>0 DEF ServeTop, ReadError, Clears, KindInv, VersionInv, TypeOK
  <2> QED BY <2>1 DEF ClearInv, Live
<1>2. ASSUME NEW r \in Reqs, NEW m \in Script[r], Receive(r, m) PROVE ClearInv'
  <2>1. UNCHANGED <<fids, handle>>
    BY <1>2 DEF Receive
  <2>2. /\ pc'[r] \in {"start", "reply"} /\ (pc'[r] = "reply" => reply'[r] = "error")
        /\ \A q \in Reqs : q # r => /\ pc'[q] = pc[q] /\ msg'[q] = msg[q]
                                   /\ reply'[q] = reply[q]
    BY <1>2, ReceiveFacts
  <2>3. \A q \in Reqs : Clears(q)' => Clears(q)
    BY <2>2 DEF Clears
  <2> QED BY <2>1, <2>3 DEF ClearInv, Live
<1>3. ASSUME NEW r \in Reqs, Version(r) \/ VersionLock(r) \/ VersionReset(r) \/ Auth(r) \/ Attach(r)
      PROVE  ClearInv'
  <2>1. UNCHANGED <<fids, handle>> /\ \A q \in Reqs : Clears(q)' => Clears(q)
    BY <1>3, <1>0 DEF Version, VersionLock, VersionReset, Auth, Attach, Clears, KindInv,
       VersionInv, TypeOK
  <2> QED BY <2>1 DEF ClearInv, Live
<1>4. ASSUME NEW r \in Reqs, AttachReturn(r) PROVE ClearInv'
  <2>1. msg[r].kind # "version" /\ Active(r)
    BY <1>4 DEF AttachReturn, KindInv, Active, Finished
  <2>2. \A q \in Reqs : Clears(q)' => Clears(q)
    BY <1>4, <2>1 DEF AttachReturn, Clears, TypeOK
  <2>3. \A q \in Reqs : ~Clears(q)
    BY <2>1, VersionOnly DEF Clears, Active, Finished
  <2> QED BY <2>2, <2>3 DEF ClearInv
<1>5. ASSUME NEW r \in Reqs, Flush(r) \/ Unsupported(r) \/ Lookup(r) \/ WalkTo(r) \/ WalkShort(r)
      PROVE  ClearInv'
  <2>1. UNCHANGED <<fids, handle>> /\ \A q \in Reqs : Clears(q)' => Clears(q)
    BY <1>5, <1>0 DEF Flush, Unsupported, Lookup, WalkTo, WalkShort, Clears, KindInv, VersionInv,
       TypeOK
  <2> QED BY <2>1 DEF ClearInv, Live
<1>6. ASSUME NEW r \in Reqs, WalkBind(r) PROVE ClearInv'
  <2>1. msg[r].kind # "version" /\ Active(r)
    BY <1>6 DEF WalkBind, KindInv, Active, Finished
  <2>2. \A q \in Reqs : Clears(q)' => Clears(q)
    BY <1>6, <2>1 DEF WalkBind, Clears, TypeOK
  <2>3. \A q \in Reqs : ~Clears(q)
    BY <2>1, VersionOnly DEF Clears, Active, Finished
  <2> QED BY <2>2, <2>3 DEF ClearInv
<1>7. ASSUME NEW r \in Reqs, WalkPanic(r) \/ OpenStart(r) PROVE ClearInv'
  <2>1. UNCHANGED <<fids, handle>> /\ \A q \in Reqs : Clears(q)' => Clears(q)
    BY <1>7, <1>0 DEF WalkPanic, OpenStart, Clears, KindInv, VersionInv, TypeOK
  <2> QED BY <2>1 DEF ClearInv, Live
<1>8. ASSUME NEW r \in Reqs, OpenReturn(r) PROVE ClearInv'
  <2>1. msg[r].kind # "version" /\ Active(r)
    BY <1>8 DEF OpenReturn, KindInv, Active, Finished
  <2>2. \A q \in Reqs : Clears(q)' => Clears(q)
    BY <1>8, <2>1 DEF OpenReturn, Clears, TypeOK
  <2>3. \A q \in Reqs : ~Clears(q)
    BY <2>1, VersionOnly DEF Clears, Active, Finished
  <2> QED BY <2>2, <2>3 DEF ClearInv
<1>9. ASSUME NEW r \in Reqs, IOStart(r) \/ StatStart(r) \/ CallReturn(r) PROVE ClearInv'
  <2>1. UNCHANGED <<fids, handle>> /\ \A q \in Reqs : Clears(q)' => Clears(q)
    BY <1>9, <1>0 DEF IOStart, StatStart, CallReturn, Clears, KindInv, VersionInv, TypeOK
  <2> QED BY <2>1 DEF ClearInv, Live
<1>10. ASSUME NEW r \in Reqs, Unbind(r) PROVE ClearInv'
  <2>1. msg[r].kind # "version" /\ Active(r)
    BY <1>10 DEF Unbind, KindInv, Active, Finished
  <2>2. \A q \in Reqs : Clears(q)' => Clears(q)
    BY <1>10, <2>1 DEF Unbind, Clears, TypeOK
  <2>3. \A q \in Reqs : ~Clears(q)
    BY <2>1, VersionOnly DEF Clears, Active, Finished
  <2> QED BY <2>2, <2>3 DEF ClearInv
<1>11. ASSUME NEW r \in Reqs, CloseFid(r) PROVE ClearInv'
  <2>1. msg[r].kind # "version" /\ Active(r)
    BY <1>11 DEF CloseFid, KindInv, Active, Finished
  <2>2. \A q \in Reqs : Clears(q)' => Clears(q)
    BY <1>11, <2>1 DEF CloseFid, Clears, TypeOK
  <2>3. \A q \in Reqs : ~Clears(q)
    BY <2>1, VersionOnly DEF Clears, Active, Finished
  <2> QED BY <2>2, <2>3 DEF ClearInv
<1>12. ASSUME NEW r \in Reqs, Respond(r) \/ RespondCancelled(r) \/ RespondTooBig(r) \/
             RespondFails(r) \/ RespondPanics(r)
      PROVE  ClearInv'
  <2>1. UNCHANGED <<fids, handle>> /\ \A q \in Reqs : Clears(q)' => Clears(q)
    BY <1>12, <1>0 DEF Respond, CanRespond, DropLocks, DeleteTag, RespondCancelled, RespondTooBig,
       RespondFails, RespondPanics, Clears, KindInv, VersionInv, TypeOK
  <2> QED BY <2>1 DEF ClearInv, Live
<1>13. ASSUME NEW th \in Threads, Die(th) \/ Cleanup(th) PROVE ClearInv'
  <2>1. UNCHANGED <<fids, handle>> /\ \A q \in Reqs : Clears(q)' => Clears(q)
    BY <1>13, <1>0 DEF Die, Cleanup, Clears, KindInv, VersionInv, TypeOK
  <2> QED BY <2>1 DEF ClearInv, Live
<1>14. ASSUME NEW th \in Threads, NEW s \in Reqs, Sweep(th, s) PROVE ClearInv'
  <2>1. \A q \in Reqs : ~Clears(q)
    BY <1>14, VersionOnly DEF Sweep, Clears, Active, Finished, Threads
  <2>2. \A q \in Reqs : Clears(q)' = Clears(q)
    BY <1>14 DEF Sweep, Clears
  <2> QED BY <2>1, <2>2 DEF ClearInv
<1>15. ASSUME NEW th \in Threads, CleanupDone(th) PROVE ClearInv'
  <2>1. /\ pc[th] = "sweep" /\ todo = {} /\ fids' = [f \in Fids |-> None]
        /\ UNCHANGED <<msg, handle, reply>> /\ \A q \in Threads \ {th} : pc'[q] = pc[q]
    BY <1>15 DEF CleanupDone, TypeOK
  <2>2. Live' = {}
    BY <2>1 DEF Live
  <2> SUFFICES ASSUME NEW r \in Reqs, Clears(r)' PROVE \A s \in Reqs : handle[s] = None
    BY <2>1, <2>2 DEF ClearInv
  <2>3. CASE r = th
    <3>1. Active(r) /\ msg[r].kind = "version"
      BY <2>1, <2>3 DEF Active, Finished, Clears
    <3>2. \A q \in Reqs : pc[q] # "closing"
      BY <2>1, <2>3, <3>1, VersionOnly DEF Active, Finished
    <3> QED BY <2>1, <3>2 DEF NoLeak, SweepInv
  <2>4. CASE r # th
    <3>1. Clears(r)
      BY <2>1, <2>4 DEF Clears
    <3>2. Active(r) /\ msg[r].kind = "version"
      BY <3>1 DEF Clears, Active, Finished
    <3> QED BY <2>1, <2>4, <3>2, VersionOnly DEF Threads, Active, Finished
  <2> QED BY <2>3, <2>4
<1>16. CASE Hangup \/ Quiescent \/ UNCHANGED vars
  <2>1. UNCHANGED <<fids, handle>> /\ \A q \in Reqs : Clears(q)' => Clears(q)
    BY <1>16, <1>0 DEF Hangup, Quiescent, vars, Clears, KindInv, VersionInv, TypeOK
  <2> QED BY <2>1 DEF ClearInv, Live
<1> QED
  BY <1>1, <1>2, <1>3, <1>4, <1>5, <1>6, <1>7, <1>8, <1>9, <1>10, <1>11, <1>12, <1>13, <1>14,
     <1>15, <1>16 DEF Next, Handler, Responding, Dying

\* No step loses an open handle.
LEMMA LeakStep ==
    ASSUME OrderInv, LeakInv, [Next]_vars
    PROVE  NoLeak'
<1> USE ThreadNames DEF OrderInv, SessionInv, TagInv, HandleInv, LeakInv
<1>0. None \notin Threads
  BY ConstantsAssumption
<1> USE DEF Answer, Goto, clientVars, threadVars, tagVars, fidVars, handleVars, lockVars,
            serverVars
<1>1. CASE ServeTop \/ ReadError
  BY <1>1, <1>0 DEF ServeTop, ReadError, NoLeak, Live, TypeOK
<1>2. ASSUME NEW r \in Reqs, NEW m \in Script[r], Receive(r, m) PROVE NoLeak'
  <2>1. UNCHANGED <<handle, ptr, fids>>
    BY <1>2 DEF Receive
  <2>2. pc[r] = "idle" /\ \A q \in Reqs \ {r} : pc'[q] = pc[q]
    BY <1>2, ReceiveFacts
  <2> QED BY <2>1, <2>2 DEF NoLeak, Live
<1>3. ASSUME NEW r \in Reqs, Version(r) \/ VersionLock(r) \/ VersionReset(r) \/ Auth(r) \/ Attach(r)
      PROVE  NoLeak'
  BY <1>3, <1>0 DEF Version, VersionLock, VersionReset, Auth, Attach, NoLeak, Live, TypeOK
<1>4. ASSUME NEW r \in Reqs, AttachReturn(r) PROVE NoLeak'
  <2>1. \A f \in Fids : fids[f] # None => fids'[f] = fids[f]
    BY <1>4 DEF AttachReturn, NewInv, Binding, TypeOK
  <2>2. Live \subseteq Live'
    BY <2>1 DEF Live
  <2>3. UNCHANGED <<handle, ptr>> /\ \A q \in Reqs \ {r} : pc'[q] = pc[q]
    BY <1>4 DEF AttachReturn, TypeOK
  <2> QED BY <1>4, <2>2, <2>3 DEF AttachReturn, NoLeak
<1>5. ASSUME NEW r \in Reqs, Flush(r) \/ Unsupported(r) \/ Lookup(r) \/ WalkTo(r) \/ WalkShort(r)
      PROVE  NoLeak'
  BY <1>5, <1>0 DEF Flush, Unsupported, Lookup, WalkTo, WalkShort, NoLeak, Live, TypeOK
<1>6. ASSUME NEW r \in Reqs, WalkBind(r) PROVE NoLeak'
  <2>1. \A f \in Fids : fids[f] # None /\ handle[fids[f]] # None => fids'[f] = fids[f]
    BY <1>6 DEF WalkBind, NewfidTaken, StateOf, KindInv, TypeOK
  <2>2. \A s \in Live : handle[s] # None => s \in Live'
    BY <2>1 DEF Live
  <2>3. UNCHANGED <<handle, ptr>> /\ \A q \in Reqs \ {r} : pc'[q] = pc[q]
    BY <1>6 DEF WalkBind, TypeOK
  <2> QED BY <1>6, <2>2, <2>3 DEF WalkBind, NoLeak
<1>7. ASSUME NEW r \in Reqs, WalkPanic(r) \/ OpenStart(r) PROVE NoLeak'
  BY <1>7, <1>0 DEF WalkPanic, OpenStart, NoLeak, Live, TypeOK
<1>8. ASSUME NEW r \in Reqs, OpenReturn(r) PROVE NoLeak'
  <2>1. UNCHANGED ptr /\ \A q \in Reqs \ {r} : pc'[q] = pc[q]
    BY <1>8 DEF OpenReturn, TypeOK
  <2>2. Live \subseteq Live'
    <3>1. \A f \in Fids : fids[f] # None => fids'[f] = fids[f]
      BY <1>8 DEF OpenReturn, NewInv, Binding, TypeOK
    <3> QED BY <3>1 DEF Live
  <2>3. \/ handle' = handle
        \/ handle' = [handle EXCEPT ![IF msg[r].kind = "auth" THEN r ELSE ptr[r]] = r]
    BY <1>8 DEF OpenReturn
  <2>4. CASE msg[r].kind = "auth" /\ handle' # handle
    <3>1. fids'[msg[r].fid] = r /\ msg[r].fid \in Fids
      BY <1>8, <2>4 DEF OpenReturn, NewInv, Binding, TypeOK
    <3>2. r \in Live'
      BY <3>1 DEF Live
    <3> QED BY <1>8, <2>1, <2>2, <2>3, <2>4, <3>2 DEF OpenReturn, NoLeak, TypeOK
  <2>5. CASE msg[r].kind # "auth"
    <3>1. Opener(r) /\ ptr[r] # None
      BY <1>8, <2>5 DEF OpenReturn, Opener, KindInv, OpenInv
    <3>2. ptr[r] \in Live
      BY <3>1 DEF BoundInv, StateOf, Live
    <3> QED BY <1>8, <2>1, <2>2, <2>3, <2>5, <3>2 DEF OpenReturn, NoLeak, TypeOK
  <2>6. CASE handle' = handle
    BY <1>8, <2>1, <2>2, <2>6 DEF OpenReturn, NoLeak
  <2> QED BY <2>3, <2>4, <2>5, <2>6
<1>9. ASSUME NEW r \in Reqs, IOStart(r) \/ StatStart(r) \/ CallReturn(r) PROVE NoLeak'
  BY <1>9, <1>0 DEF IOStart, StatStart, CallReturn, NoLeak, Live, TypeOK
<1>10. ASSUME NEW r \in Reqs, Unbind(r) PROVE NoLeak'
  <2>1. UNCHANGED handle /\ \A q \in Reqs \ {r} : pc'[q] = pc[q] /\ ptr'[q] = ptr[q]
    BY <1>10 DEF Unbind, TypeOK
  <2>2. CASE StateOf(msg[r].fid) = None
    BY <1>10, <2>1, <2>2 DEF Unbind, NoLeak, Live
  <2>3. CASE StateOf(msg[r].fid) # None
    <3> DEFINE f == msg[r].fid
    <3>1. f \in Fids /\ fids' = [fids EXCEPT ![f] = None] /\ pc'[r] = "closing" /\ ptr'[r] = fids[f]
      BY <1>10, <2>3 DEF Unbind, StateOf, TypeOK
    <3>2. \A s \in Live : s \in Live' \/ s = fids[f]
      BY <3>1 DEF Live, TypeOK
    <3> QED BY <1>10, <2>1, <3>1, <3>2 DEF Unbind, NoLeak
  <2> QED BY <2>2, <2>3
<1>11. ASSUME NEW r \in Reqs, CloseFid(r) PROVE NoLeak'
  <2>1. /\ Live' = Live /\ ptr' = ptr /\ handle' = [handle EXCEPT ![ptr[r]] = None]
        /\ \A q \in Reqs \ {r} : pc'[q] = pc[q]
    BY <1>11 DEF CloseFid, CloseHandle, Live, TypeOK
  <2>2. ptr[r] \in Reqs
    BY <1>11 DEF CloseFid, AllocInv, TypeOK
  <2> QED BY <2>1, <2>2 DEF NoLeak, TypeOK
<1>12. ASSUME NEW r \in Reqs, Respond(r) \/ RespondCancelled(r) \/ RespondTooBig(r) \/
             RespondFails(r) \/ RespondPanics(r)
      PROVE  NoLeak'
  BY <1>12, <1>0 DEF Respond, CanRespond, DropLocks, DeleteTag, RespondCancelled, RespondTooBig,
     RespondFails, RespondPanics, NoLeak, Live, TypeOK
<1>13. ASSUME NEW th \in Threads, Die(th) \/ Cleanup(th) PROVE NoLeak'
  BY <1>13, <1>0 DEF Die, Cleanup, NoLeak, Live, TypeOK
<1>14. ASSUME NEW th \in Threads, NEW s \in Reqs, Sweep(th, s) PROVE NoLeak'
  <2>1. Live' = Live /\ UNCHANGED <<pc, ptr>> /\ handle' = [handle EXCEPT ![s] = None]
    BY <1>14 DEF Sweep, CloseHandle, Live
  <2> QED BY <2>1 DEF NoLeak, TypeOK
<1>15. ASSUME NEW th \in Threads, CleanupDone(th) PROVE NoLeak'
  <2>1. /\ pc[th] = "sweep" /\ todo = {} /\ UNCHANGED <<handle, ptr>>
        /\ \A q \in Threads \ {th} : pc'[q] = pc[q]
    BY <1>15 DEF CleanupDone, TypeOK
  <2>2. \A s \in Live : handle[s] = None
    BY <2>1 DEF SweepInv
  <2> QED BY <2>1, <2>2 DEF NoLeak
<1>16. CASE Hangup \/ Quiescent \/ UNCHANGED vars
  BY <1>16, <1>0 DEF Hangup, Quiescent, vars, NoLeak, Live, TypeOK
<1> QED
  BY <1>1, <1>2, <1>3, <1>4, <1>5, <1>6, <1>7, <1>8, <1>9, <1>10, <1>11, <1>12, <1>13, <1>14,
     <1>15, <1>16 DEF Next, Handler, Responding, Dying

\* OrderInv and LeakInv hold of every session of such a client.
LEMMA LeakInvariant == ASSUME Orderly PROVE Spec => [](OrderInv /\ LeakInv)
<1>1. Init => PendingInv /\ DisjointInv /\ QuietInv /\ StartInv /\ CauseInv
  BY ThreadNames
     DEF Init, PendingInv, Active, Finished, DisjointInv, QuietInv, StartInv, CauseInv,
         Dead, Threads
<1>2. Init => LeakInv
  BY ThreadNames
     DEF Init, LeakInv, TableInv, Binding, NewInv, BoundInv, Opener, SweepInv, ClearInv, Clears,
         NoLeak, Threads
<1>3. OrderInv /\ LeakInv /\ [Next]_vars => LeakInv'
  BY TableStep, NewStep, BoundStep, SweepStep, ClearStep, LeakStep
     DEF OrderInv, LeakInv, SessionInv, TagInv
<1>4. OrderInv /\ [Next]_vars => PendingInv' /\ DisjointInv' /\ QuietInv' /\ StartInv' /\ CauseInv'
  BY PendingStep, QuietStep, CauseStep
<1>5. "version" \in Client
  BY DEF Orderly
<1>6. Spec => []SessionInv
  BY <1>5, SessionInvariant
<1> QED BY <1>1, <1>2, <1>3, <1>4, <1>6, PTL DEF Spec, OrderInv

\* NoLeak, for any number of requests and fids: with a client that has one request for each fid
\* in flight and flushes none, no file stays open that no request can reach, whatever the tree
\* answers and when a connection breaks between calls that hold locks.
THEOREM NoFileLost == ASSUME Orderly PROVE Spec => []NoLeak
<1>1. LeakInv => NoLeak
  BY DEF LeakInv
<1> QED BY <1>1, LeakInvariant, PTL

\* VersionClears, for such a client: an Rversion leaves nothing of the session before.
THEOREM VersionResets == ASSUME Orderly PROVE Spec => VersionClears
<1> DEFINE Clear == \A r \in Reqs : Answers(r) /\ msg[r].kind = "version" /\ reply[r] = "ok"
                        => Live = {} /\ \A s \in Reqs : handle[s] = None
<1>1. LeakInv => Clear
  BY DEF LeakInv, ClearInv, Clears, Answers
<1>2. [](OrderInv /\ LeakInv) => [][Clear]_vars
  BY <1>1, PTL
<1> QED BY <1>2, LeakInvariant, PTL DEF VersionClears

=============================================================================
