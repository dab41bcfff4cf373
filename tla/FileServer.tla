------------------------------ MODULE FileServer ------------------------------
(***************************************************************************)
(* The 9P file server of src/fileserver/fileserver.go serving one          *)
(* connection.  Thread Serve is the goroutine that runs FileServer.Serve:  *)
(* it reads a request, registers its tag and either runs the handler       *)
(* itself (version, auth, attach, flush) or starts a goroutine for it.     *)
(* Thread r, for r in Reqs, is the handler of the r-th request.            *)
(*                                                                         *)
(* A step of a thread ends where the handler acquires a lock it may have   *)
(* to wait for, or calls code that may block (the file tree, the           *)
(* connection).  A critical section that contains neither (every use of    *)
(* tagLock, every RLock of fidLock and of a fidState) is one step.         *)
(*                                                                         *)
(* Data is abstracted to what the handlers branch on: the location of a    *)
(* fid is the kind of the file it ends at, the file tree answers as it     *)
(* likes, and names, qids, offsets and data are left out.                  *)
(***************************************************************************)
EXTENDS Naturals

CONSTANTS
    NReqs,    \* the client sends at most this many requests
    Tags,     \* the tags the client uses, NOTAG aside
    NOTAG,
    Fids,     \* the fids the client uses, NOFID aside
    NOFID,
    None,     \* no request, no fidState, no handle, no lock owner
    Script,   \* Script[r]: what the client may send as its r-th request
    Client,   \* the rules the client obeys, a subset of ClientRules
    HasAuthFile, \* FileServer.AuthFile # nil
    Env       \* what the client and the file tree may do, a subset of EnvChoices

Serve   == 0
Reqs    == 1..NReqs
Threads == Reqs \union {Serve}

OREAD == 0
OWRITE == 1
ORDWR == 2
OEXEC == 3
Modes == OREAD..OEXEC
ForWrite(m) == m \in {OWRITE, ORDWR}
ForRead(m)  == m \in {OREAD, ORDWR, OEXEC}

\* The requests whose handler starts by looking a fid up under fidLock.RLock.
ByFid == {"walk", "open", "create", "read", "write", "stat", "wstat"}
\* The requests handled on the Serve goroutine; "other" is a message that is no request.
Sync  == {"version", "auth", "attach", "flush", "other"}
Kinds == ByFid \union Sync \union {"clunk", "remove"}

\* fid2 is the newfid of a walk and the afid of an attach.
Messages == [kind   : Kinds,
             tag    : Tags \union {NOTAG},
             fid    : Fids \union {NOFID},
             fid2   : Fids \union {NOFID},
             oldtag : Tags \union {NOTAG},
             mode   : Modes]

(***************************************************************************)
(* "tags": a tag is not reused while a request with it, or a flush of it,  *)
(* is unanswered.  "fids": two unanswered requests never name the same     *)
(* fid.  "version": a Tversion is sent only when every earlier request is  *)
(* answered, and nothing is sent until it is.                              *)
(***************************************************************************)
ClientRules == {"tags", "fids", "version"}

(***************************************************************************)
(* "treeerrors": a call of the file tree may fail.  "partial": a walk may  *)
(* stop half way.  "oversize": a reply may exceed the message size.        *)
(* "reset": data may already be buffered behind a Tversion.  "blocking":   *)
(* a ReadAt returns only once its handle is closed.  "blockingopen": an    *)
(* Open may not return, as that of a LockedFile others keep open.          *)
(* "hangup": the connection may break at any time; "quiethangup": only     *)
(* when no handler holds a lock, and nothing is read after that.           *)
(***************************************************************************)
EnvChoices == {"treeerrors", "partial", "oversize", "reset", "blocking",
               "blockingopen", "hangup", "quiethangup"}

ASSUME ConstantsAssumption ==
    /\ NReqs \in Nat
    /\ NOTAG \notin Tags
    /\ NOFID \notin Fids
    /\ None \notin Threads \union Messages
    /\ Client \subseteq ClientRules
    /\ Env \subseteq EnvChoices
    /\ HasAuthFile \in BOOLEAN
    /\ Script \in [Reqs -> SUBSET Messages]

\* Before the first Tversion fs.proto is nil and only a Tversion can be answered.
ASSUME VersionFirst ==
    1 \in Reqs => \A m \in Script[1] : m.kind = "version"

VARIABLES
    received,   \* the number of requests read from the connection
    msg,        \* msg[r]: the r-th request
    awaits,     \* the requests the client still expects an answer to
    sock,       \* "up", or "down" once the connection is broken
    pc,         \* pc[th]: where thread th is
    serving,    \* the last request handled on the Serve goroutine
    reply,      \* reply[r]: what handler r is about to send
    ptr,        \* ptr[r]: the fidState handler r looked up
    using,      \* using[r]: the handle handler r calls
    tags,       \* FileServer.tags
    cancelled,  \* requestState.cancelled
    fids,       \* FileServer.fids; the fidState handler r allocates is named r
    loc,        \* fidState.location: "free" (not allocated), "none" (empty), "dir", "file"
    handle,     \* fidState.handle; the handle handler r opens is named r
    mode,       \* fidState.mode
    hstat,      \* hstat[h]: "none", "open", "closed", or "twice" when closed again
    fidLock,    \* who holds FileServer.fidLock exclusively
    stLock,     \* stLock[s]: who holds the lock of fidState s exclusively
    errorLock,  \* who holds FileServer.errorLock
    configRead, \* the handlers inside respond, holding configLock.RLock, that wait for a lock
    todo,       \* the fidStates the running cleanup has still to close
    negotiated, \* FileServer.proto # nil
    broken      \* FileServer.error # nil, and errorCnt # 0

clientVars == <<received, msg, awaits, sock>>
threadVars == <<serving, ptr, using>>
tagVars    == <<tags, cancelled>>
fidVars    == <<fids, loc>>
handleVars == <<handle, mode, hstat>>
lockVars   == <<fidLock, stLock, errorLock, configRead>>
serverVars == <<todo, negotiated, broken>>
vars == <<clientVars, pc, threadVars, reply, tagVars, fidVars, handleVars,
          lockVars, serverVars>>

\* Mutant of Live: an empty slot counts as a fidState.
LiveWithNil == {fids[f] : f \in Fids}

Live == {fids[f] : f \in Fids} \ {None}
Finished == {"answered", "silent"}
Done(r) == pc[r] \in Finished
StateOf(f) == IF f \in Fids THEN fids[f] ELSE None

Init ==
    /\ received = 0
    /\ msg = [r \in Reqs |-> None]
    /\ awaits = {}
    /\ sock = "up"
    /\ pc = [th \in Threads |-> IF th = Serve THEN "top" ELSE "idle"]
    /\ serving = None
    /\ reply = [r \in Reqs |-> "none"]
    /\ ptr = [r \in Reqs |-> None]
    /\ using = [r \in Reqs |-> None]
    /\ tags = [t \in Tags |-> None]
    /\ cancelled = [r \in Reqs |-> FALSE]
    /\ fids = [f \in Fids |-> None]
    /\ loc = [s \in Reqs |-> "free"]
    /\ handle = [s \in Reqs |-> None]
    /\ mode = [s \in Reqs |-> OREAD]
    /\ hstat = [h \in Reqs |-> "none"]
    /\ fidLock = None
    /\ stLock = [s \in Reqs |-> None]
    /\ errorLock = None
    /\ configRead = {}
    /\ todo = {}
    /\ negotiated = FALSE
    /\ broken = FALSE

-----------------------------------------------------------------------------
(***************************************************************************)
(* Steps shared by the handlers.                                           *)
(***************************************************************************)
Goto(th, where) == pc' = [pc EXCEPT ![th] = where]

\* The handler has decided what to send; Respond(r) sends it.
Answer(r, what) ==
    /\ reply' = [reply EXCEPT ![r] = what]
    /\ Goto(r, "reply")

\* Mutant of DropLocks: the handler forgets to unlock its fidState.
DropFidLockOnly(r) ==
    /\ fidLock' = IF fidLock = r THEN None ELSE fidLock
    /\ UNCHANGED stLock

\* The deferred unlocks of a handler that returns.
DropLocks(r) ==
    /\ fidLock' = IF fidLock = r THEN None ELSE fidLock
    /\ stLock' = [s \in Reqs |-> IF stLock[s] = r THEN None ELSE stLock[s]]

\* Mutant of CloseHandle: the handle is not closed.
CloseNothing(s) == UNCHANGED <<handle, hstat>>

\* handle.Close() and state.handle = nil, if the fidState has a handle.
CloseHandle(s) ==
    /\ handle' = [handle EXCEPT ![s] = None]
    /\ hstat' = IF handle[s] = None THEN hstat
                ELSE [hstat EXCEPT ![handle[s]] = IF @ = "open" THEN "closed"
                                                               ELSE "twice"]

-----------------------------------------------------------------------------
(***************************************************************************)
(* The Serve goroutine.                                                    *)
(***************************************************************************)
\* The client's rules, and that it has something to send.
MaySend(m) ==
    /\ "tags" \in Client => \A q \in awaits :
           /\ m.tag \in Tags => m.tag # msg[q].tag
           /\ msg[q].kind = "flush" => m.tag # msg[q].oldtag
    /\ "fids" \in Client => \A q \in awaits :
           {m.fid, m.fid2} \intersect {msg[q].fid, msg[q].fid2} \subseteq {NOFID}
    /\ "version" \in Client =>
           /\ m.kind = "version" => awaits = {}
           /\ \A q \in awaits : msg[q].kind # "version"

\* Top of the loop: the handler called last has returned; stop if the server died.
ServeTop ==
    /\ pc[Serve] = "top"
    /\ serving # None => Done(serving)
    /\ \/ ~broken /\ Goto(Serve, "reading")
       \/ broken /\ errorLock = None /\ Goto(Serve, "returned")
    /\ UNCHANGED <<clientVars, threadVars, reply, tagVars, fidVars, handleVars,
                   lockVars, serverVars>>

\* ReadMessage fails once the connection is broken.
ReadError ==
    /\ pc[Serve] = "reading"
    /\ sock = "down"
    /\ Goto(Serve, "die")
    /\ UNCHANGED <<clientVars, threadVars, reply, tagVars, fidVars, handleVars,
                   lockVars, serverVars>>

\* Mutant of Register: the old request is overwritten and not cancelled.
RegisterOver(r, m) ==
    /\ tags' = IF m.tag \in Tags THEN [tags EXCEPT ![m.tag] = r] ELSE tags
    /\ UNCHANGED cancelled

\* FileServer.register with cancelAndOverwrite: a collision cancels the old request.
Register(r, m) ==
    LET old == IF m.tag \in Tags THEN tags[m.tag] ELSE None
    IN  /\ tags' = IF m.tag \in Tags THEN [tags EXCEPT ![m.tag] = r] ELSE tags
        /\ cancelled' = IF old = None THEN cancelled
                                      ELSE [cancelled EXCEPT ![old] = TRUE]

TagInUse(m) == m.tag \in Tags /\ tags[m.tag] # None

\* ReadMessage returns request r, and received(m) registers it and starts its handler.
Receive(r, m) ==
    /\ pc[Serve] = "reading"
    /\ r = received + 1
    /\ sock = "up" \/ "hangup" \in Env
    /\ MaySend(m)
    /\ received' = r
    /\ msg' = [msg EXCEPT ![r] = m]
    /\ awaits' = awaits \union {r}
    /\ Register(r, m)
    /\ pc' = [pc EXCEPT ![Serve] = "top",
                        ![r] = IF TagInUse(m) THEN "reply" ELSE "start"]
    /\ reply' = IF TagInUse(m) THEN [reply EXCEPT ![r] = "error"] ELSE reply
    /\ serving' = IF TagInUse(m) \/ m.kind \in Sync THEN r ELSE None
    /\ UNCHANGED <<sock, ptr, using, fidVars, handleVars, lockVars, serverVars>>

-----------------------------------------------------------------------------
(***************************************************************************)
(* Handlers on the Serve goroutine.                                        *)
(***************************************************************************)
\* A Tversion with a tag, or with too small a message size, is refused; any
\* other drops every tag and runs cleanup.
Version(r) ==
    /\ pc[r] = "start"
    /\ msg[r].kind = "version"
    /\ \/ Answer(r, "error") /\ UNCHANGED tags
       \/ /\ msg[r].tag = NOTAG
          /\ tags' = [t \in Tags |-> None]
          /\ Goto(r, "cleanup")
          /\ UNCHANGED reply
    /\ UNCHANGED <<clientVars, threadVars, cancelled, fidVars, handleVars,
                   lockVars, serverVars>>

\* After the cleanup, version calls configLock.Lock, which holds off new readers ...
VersionLock(r) ==
    /\ pc[r] = "reset"
    /\ Goto(r, "resetting")
    /\ UNCHANGED <<clientVars, threadVars, reply, tagVars, fidVars, handleVars,
                   lockVars, serverVars>>

\* ... and once the last reader is gone installs the protocol and resets the decoder.
VersionReset(r) ==
    /\ pc[r] = "resetting"
    /\ configRead = {}
    /\ negotiated' = TRUE
    /\ \/ Answer(r, "ok")
       \/ /\ "reset" \in Env
          /\ reply' = [reply EXCEPT ![r] = "error"]
          /\ Goto(r, "die")
    /\ UNCHANGED <<clientVars, threadVars, tagVars, fidVars, handleVars,
                   lockVars, todo, broken>>

\* auth keeps fidLock until it returns, over the call of AuthFile.Open (see OpenReturn).
Auth(r) ==
    LET afid == msg[r].fid
    IN  /\ pc[r] = "start"
        /\ msg[r].kind = "auth"
        /\ \/ /\ afid = NOFID \/ ~HasAuthFile
              /\ Answer(r, "error")
              /\ UNCHANGED fidLock
           \/ /\ afid # NOFID /\ HasAuthFile /\ fidLock = None
              /\ fidLock' = r
              /\ IF StateOf(afid) # None
                 THEN Answer(r, "error")
                 ELSE Goto(r, "opening") /\ UNCHANGED reply
        /\ UNCHANGED <<clientVars, threadVars, tagVars, fidVars, handleVars, stLock,
                       errorLock, configRead, serverVars>>

\* The afid checks of attach that need no call: an authfid if and only if there
\* is an AuthFile, and then an open fid whose handle is an Authenticator.
AfidAcceptable(afid) ==
    LET as == StateOf(afid)
    IN  IF HasAuthFile THEN as # None /\ handle[as] # None /\ loc[as] = "none"
                       ELSE afid = NOFID

\* attach keeps fidLock until it returns, over Authenticated and root.Qid.
Attach(r) ==
    /\ pc[r] = "start"
    /\ msg[r].kind = "attach"
    /\ \/ /\ msg[r].fid = NOFID
          /\ Answer(r, "error")
          /\ UNCHANGED fidLock
       \/ /\ msg[r].fid # NOFID /\ fidLock = None
          /\ fidLock' = r
          /\ IF StateOf(msg[r].fid) # None \/ ~AfidAcceptable(msg[r].fid2)
             THEN Answer(r, "error")
             ELSE Goto(r, "calling") /\ UNCHANGED reply
    /\ UNCHANGED <<clientVars, threadVars, tagVars, fidVars, handleVars, stLock,
                   errorLock, configRead, serverVars>>

\* The user is not authenticated or no root serves it; or the fid is created,
\* and stays when root.Qid fails after that.
AttachReturn(r) ==
    /\ pc[r] = "calling"
    /\ msg[r].kind = "attach"
    /\ \/ /\ HasAuthFile \/ "treeerrors" \in Env
          /\ Answer(r, "error")
          /\ UNCHANGED fidVars
       \/ /\ fids' = [fids EXCEPT ![msg[r].fid] = r]
          /\ loc' = [loc EXCEPT ![r] = "dir"]
          /\ \/ Answer(r, "ok")
             \/ "treeerrors" \in Env /\ Answer(r, "error")
    /\ UNCHANGED <<clientVars, threadVars, tagVars, handleVars, lockVars, serverVars>>

\* Mutant of Flush: the tag is removed, its request not cancelled.
FlushTagOnly(r) ==
    /\ pc[r] = "start"
    /\ msg[r].kind = "flush"
    /\ tags' = [t \in Tags |-> IF t = msg[r].oldtag THEN None ELSE tags[t]]
    /\ Answer(r, "ok")
    /\ UNCHANGED <<clientVars, threadVars, cancelled, fidVars, handleVars, lockVars,
                   serverVars>>

\* The pending request with the old tag, if any, is cancelled and its tag removed.
Flush(r) ==
    LET old == IF msg[r].oldtag \in Tags THEN tags[msg[r].oldtag] ELSE None
    IN  /\ pc[r] = "start"
        /\ msg[r].kind = "flush"
        /\ cancelled' = IF old = None THEN cancelled
                                      ELSE [cancelled EXCEPT ![old] = TRUE]
        /\ tags' = IF old = None THEN tags
                                 ELSE [tags EXCEPT ![msg[r].oldtag] = None]
        /\ Answer(r, "ok")
        /\ UNCHANGED <<clientVars, threadVars, fidVars, handleVars, lockVars, serverVars>>

\* The default case of received: a message no handler takes.
Unsupported(r) ==
    /\ pc[r] = "start"
    /\ msg[r].kind = "other"
    /\ Answer(r, "error")
    /\ UNCHANGED <<clientVars, threadVars, tagVars, fidVars, handleVars, lockVars,
                   serverVars>>

-----------------------------------------------------------------------------
(***************************************************************************)
(* Handlers on a goroutine of their own.                                   *)
(***************************************************************************)
\* walk checks that newfid is free before and after the walk.
NewfidTaken(m) ==
    m.kind = "walk" /\ (m.fid2 = NOFID \/ (m.fid # m.fid2 /\ StateOf(m.fid2) # None))

\* The handler looks its fid up under fidLock.RLock.
Lookup(r) ==
    /\ pc[r] = "start"
    /\ msg[r].kind \in ByFid
    /\ fidLock = None
    /\ IF StateOf(msg[r].fid) = None \/ NewfidTaken(msg[r])
       THEN Answer(r, "error") /\ UNCHANGED ptr
       ELSE /\ ptr' = [ptr EXCEPT ![r] = StateOf(msg[r].fid)]
            /\ Goto(r, "found")
            /\ UNCHANGED reply
    /\ UNCHANGED <<clientVars, serving, using, tagVars, fidVars, handleVars, lockVars,
                   serverVars>>

\* walkTo copies the fidState under its RLock and walks without a lock.
WalkTo(r) ==
    /\ pc[r] = "found"
    /\ msg[r].kind = "walk"
    /\ stLock[ptr[r]] = None
    /\ IF loc[ptr[r]] = "none" \/ handle[ptr[r]] # None
       THEN Answer(r, "error")
       ELSE Goto(r, "walking") /\ UNCHANGED reply
    /\ UNCHANGED <<clientVars, threadVars, tagVars, fidVars, handleVars, lockVars,
                   serverVars>>

\* walkTo fails, or succeeds for some of the names only and yields no fidState.
WalkShort(r) ==
    /\ pc[r] = "walking"
    /\ \/ "treeerrors" \in Env /\ Answer(r, "error")
       \/ "partial" \in Env /\ Answer(r, "ok")
    /\ UNCHANGED <<clientVars, threadVars, tagVars, fidVars, handleVars, lockVars,
                   serverVars>>

\* walkTo succeeds: the new fidState is bound to newfid unless newfid was taken, or
\* the walked fid opened, meanwhile.
WalkBind(r) ==
    LET m == msg[r]
        now == StateOf(m.fid2)
        opened == m.fid = m.fid2 /\ now # None /\ handle[now] # None
    IN  /\ pc[r] = "walking"
        /\ fidLock = None
        /\ ~(m.fid = m.fid2 /\ now = None)
        /\ IF opened \/ NewfidTaken(m)
           THEN Answer(r, "error") /\ UNCHANGED fidVars
           ELSE /\ fids' = [fids EXCEPT ![m.fid2] = r]
                /\ \E k \in {"dir", "file"} : loc' = [loc EXCEPT ![r] = k]
                /\ Answer(r, "ok")
        /\ UNCHANGED <<clientVars, threadVars, tagVars, handleVars, lockVars, serverVars>>

\* fid = newfid and the fid is gone: state is nil, so state.handle panics, and
\* handlePanic calls die with fidLock still held.
WalkPanic(r) ==
    /\ pc[r] = "walking"
    /\ fidLock = None
    /\ msg[r].fid = msg[r].fid2
    /\ StateOf(msg[r].fid2) = None
    /\ fidLock' = r
    /\ Goto(r, "die")
    /\ UNCHANGED <<clientVars, threadVars, reply, tagVars, fidVars, handleVars, stLock,
                   errorLock, configRead, serverVars>>

\* Mutant of OpenStart: the checks do not lock the fidState.
OpenStartUnlocked(r) ==
    /\ pc[r] = "found"
    /\ msg[r].kind \in {"open", "create"}
    /\ IF handle[ptr[r]] # None THEN Answer(r, "error")
                               ELSE Goto(r, "opening") /\ UNCHANGED reply
    /\ UNCHANGED <<clientVars, threadVars, tagVars, fidVars, handleVars, lockVars,
                   serverVars>>

\* open and create keep the fidState locked until they return, over the call of
\* Open and of the reply.
OpenStart(r) ==
    LET s == ptr[r]
        openable == IF msg[r].kind = "create" THEN loc[s] = "dir"
                    ELSE loc[s] # "none" /\ ~(loc[s] = "dir" /\ ForWrite(msg[r].mode))
    IN  /\ pc[r] = "found"
        /\ msg[r].kind \in {"open", "create"}
        /\ stLock[s] = None
        /\ stLock' = [stLock EXCEPT ![s] = r]
        /\ IF handle[s] # None \/ ~openable
           THEN Answer(r, "error")
           ELSE Goto(r, "opening") /\ UNCHANGED reply
        /\ UNCHANGED <<clientVars, threadVars, tagVars, fidVars, handleVars, fidLock,
                       errorLock, configRead, serverVars>>

\* The call of Open, and of Create before it, returns.  auth binds the afid to a new
\* fidState, without a mode; open and create fill in the fidState looked up, and
\* create moves it to the new file.
OpenReturn(r) ==
    LET auth == msg[r].kind = "auth"
        s == IF auth THEN r ELSE ptr[r]
    IN  /\ pc[r] = "opening"
        /\ \/ /\ "treeerrors" \in Env
              /\ Answer(r, "error")
              /\ UNCHANGED <<fidVars, handleVars>>
           \/ /\ handle' = [handle EXCEPT ![s] = r]
              /\ hstat' = [hstat EXCEPT ![r] = "open"]
              /\ mode' = IF auth THEN mode ELSE [mode EXCEPT ![s] = msg[r].mode]
              /\ fids' = IF auth THEN [fids EXCEPT ![msg[r].fid] = r] ELSE fids
              /\ CASE auth -> loc' = [loc EXCEPT ![s] = "none"]
                   [] msg[r].kind = "create" ->
                         \E k \in {"dir", "file"} : loc' = [loc EXCEPT ![s] = k]
                   [] OTHER -> UNCHANGED loc
              /\ Answer(r, "ok")
        /\ UNCHANGED <<clientVars, threadVars, tagVars, lockVars, serverVars>>

\* Mutant of IOStart: the fidState stays locked over the call.
IOStartLocked(r) ==
    LET s == ptr[r]
    IN  /\ pc[r] = "found"
        /\ msg[r].kind \in {"read", "write"}
        /\ stLock[s] = None
        /\ stLock' = [stLock EXCEPT ![s] = r]
        /\ IF handle[s] = None
           THEN Answer(r, "error") /\ UNCHANGED using
           ELSE /\ using' = [using EXCEPT ![r] = handle[s]]
                /\ Goto(r, "calling")
                /\ UNCHANGED reply
        /\ UNCHANGED <<clientVars, serving, ptr, tagVars, fidVars, handleVars, fidLock,
                       errorLock, configRead, serverVars>>

\* read and write take the handle and the mode under the RLock of the fidState, and
\* call the handle without a lock.  (The RLock of configLock that read takes to size
\* its buffer can only delay it.)
IOStart(r) ==
    LET s == ptr[r]
        permitted == IF msg[r].kind = "read" THEN ForRead(mode[s]) ELSE ForWrite(mode[s])
    IN  /\ pc[r] = "found"
        /\ msg[r].kind \in {"read", "write"}
        /\ stLock[s] = None
        /\ IF handle[s] = None \/ ~permitted
           THEN Answer(r, "error") /\ UNCHANGED using
           ELSE /\ using' = [using EXCEPT ![r] = handle[s]]
                /\ Goto(r, "calling")
                /\ UNCHANGED reply
        /\ UNCHANGED <<clientVars, serving, ptr, tagVars, fidVars, handleVars, lockVars,
                       serverVars>>

\* stat reads the location under the RLock of the fidState; writeStat locks the
\* fidState and keeps it locked, over setStat and the reply.
StatStart(r) ==
    LET s == ptr[r]
    IN  /\ pc[r] = "found"
        /\ msg[r].kind \in {"stat", "wstat"}
        /\ stLock[s] = None
        /\ stLock' = IF msg[r].kind = "wstat" THEN [stLock EXCEPT ![s] = r] ELSE stLock
        /\ IF loc[s] = "none"
           THEN Answer(r, "error")
           ELSE Goto(r, "calling") /\ UNCHANGED reply
        /\ UNCHANGED <<clientVars, threadVars, tagVars, fidVars, handleVars, fidLock,
                       errorLock, configRead, serverVars>>

\* A blocking ReadAt waits until its handle is closed, a blocking Open for ever.
ReadWaits(r) ==
    /\ "blocking" \in Env
    /\ pc[r] = "calling" /\ msg[r].kind = "read" /\ hstat[using[r]] = "open"
OpenWaits(r) ==
    /\ "blockingopen" \in Env
    /\ pc[r] = "opening" /\ msg[r].kind \in {"open", "create"}
MayBlock(r) == ReadWaits(r) \/ OpenWaits(r)

\* ReadAt, WriteAt, Stat or setStat returns.
CallReturn(r) ==
    /\ pc[r] = "calling"
    /\ msg[r].kind \in {"read", "write", "stat", "wstat"}
    /\ \/ Answer(r, "ok")
       \/ "treeerrors" \in Env /\ Answer(r, "error")
    /\ UNCHANGED <<clientVars, threadVars, tagVars, fidVars, handleVars, lockVars,
                   serverVars>>

\* clunk and remove take fidLock until they return and delete the fid ...
Unbind(r) ==
    LET f == msg[r].fid
    IN  /\ pc[r] = "start"
        /\ msg[r].kind \in {"clunk", "remove"}
        /\ fidLock = None
        /\ fidLock' = r
        /\ IF StateOf(f) = None
           THEN Answer(r, "error") /\ UNCHANGED <<ptr, fids>>
           ELSE /\ fids' = [fids EXCEPT ![f] = None]
                /\ ptr' = [ptr EXCEPT ![r] = fids[f]]
                /\ Goto(r, "closing")
                /\ UNCHANGED reply
        /\ UNCHANGED <<clientVars, serving, using, tagVars, loc, handleVars, stLock,
                       errorLock, configRead, serverVars>>

\* ... then wait for the fidState and close its handle.  remove may find that the
\* file has no name; what Dir.Remove returns it ignores.
CloseFid(r) ==
    LET s == ptr[r]
    IN  /\ pc[r] = "closing"
        /\ stLock[s] = None
        /\ stLock' = [stLock EXCEPT ![s] = r]
        /\ CloseHandle(s)
        /\ \/ Answer(r, "ok")
           \/ msg[r].kind = "remove" /\ "treeerrors" \in Env /\ Answer(r, "error")
        /\ UNCHANGED <<clientVars, threadVars, tagVars, fidVars, mode, fidLock,
                       errorLock, configRead, serverVars>>

-----------------------------------------------------------------------------
(***************************************************************************)
(* FileServer.respond.                                                     *)
(***************************************************************************)
\* What the client still expects once it has the reply of r.
AwaitsAfter(r) ==
    CASE reply[r] = "ok" /\ msg[r].kind = "version" -> {}
      [] reply[r] = "ok" /\ msg[r].kind = "flush" ->
            {q \in awaits \ {r} : msg[q].tag \in Tags => msg[q].tag # msg[r].oldtag}
      [] OTHER -> awaits \ {r}

\* A handler inside respond holds configLock.RLock, which a waiting Lock holds off.
CanRespond(r) ==
    /\ pc[r] = "reply"
    /\ \A v \in Reqs : pc[v] # "resetting"

\* Mutant of DeleteTag: the tag stays in the table.
KeepTag(r) == UNCHANGED tags

\* The tag leaves the table whatever request it stands for by now.
DeleteTag(r) ==
    tags' = IF msg[r].tag \in Tags THEN [tags EXCEPT ![msg[r].tag] = None] ELSE tags

\* The reply is written and the handler returns.
Respond(r) ==
    /\ CanRespond(r) /\ negotiated
    /\ ~cancelled[r] /\ sock = "up"
    /\ DeleteTag(r)
    /\ awaits' = AwaitsAfter(r)
    /\ Goto(r, "answered")
    /\ DropLocks(r)
    /\ UNCHANGED <<received, msg, sock, threadVars, reply, cancelled, fidVars, handleVars,
                   errorLock, configRead, serverVars>>

\* A cancelled request is not answered.
RespondCancelled(r) ==
    /\ CanRespond(r) /\ negotiated
    /\ cancelled[r]
    /\ Goto(r, "silent")
    /\ DropLocks(r)
    /\ UNCHANGED <<clientVars, threadVars, reply, tagVars, fidVars, handleVars,
                   errorLock, configRead, serverVars>>

\* A reply over the message size is replaced by an Rerror that is serialized, and
\* then neither sent nor its tag removed.
RespondTooBig(r) ==
    /\ CanRespond(r) /\ negotiated
    /\ "oversize" \in Env /\ reply[r] = "ok" /\ msg[r].kind \in {"walk", "stat"}
    /\ Goto(r, "silent")
    /\ DropLocks(r)
    /\ UNCHANGED <<clientVars, threadVars, reply, tagVars, fidVars, handleVars,
                   errorLock, configRead, serverVars>>

\* The write fails: die is called from inside respond, under the handler's locks.
RespondFails(r) ==
    /\ CanRespond(r) /\ negotiated
    /\ ~cancelled[r] /\ sock = "down"
    /\ DeleteTag(r)
    /\ configRead' = configRead \union {r}
    /\ Goto(r, "die")
    /\ reply' = [reply EXCEPT ![r] = "none"]
    /\ UNCHANGED <<clientVars, threadVars, cancelled, fidVars, handleVars,
                   fidLock, stLock, errorLock, serverVars>>

\* Without a protocol serialize panics: the handler unwinds, and handlePanic calls die.
RespondPanics(r) ==
    /\ CanRespond(r) /\ ~negotiated
    /\ Goto(r, "die")
    /\ reply' = [reply EXCEPT ![r] = "none"]
    /\ DropLocks(r)
    /\ UNCHANGED <<clientVars, threadVars, tagVars, fidVars, handleVars,
                   errorLock, configRead, serverVars>>

-----------------------------------------------------------------------------
(***************************************************************************)
(* FileServer.die and cleanup, run by a handler or by Serve.               *)
(***************************************************************************)
Die(th) ==
    /\ pc[th] = "die"
    /\ errorLock = None
    /\ errorLock' = th
    /\ broken' = TRUE
    /\ Goto(th, "cleanup")
    /\ UNCHANGED <<clientVars, threadVars, reply, tagVars, fidVars, handleVars, fidLock,
                   stLock, configRead, todo, negotiated>>

Cleanup(th) ==
    /\ pc[th] = "cleanup"
    /\ fidLock = None
    /\ fidLock' = th
    /\ todo' = Live
    /\ Goto(th, "sweep")
    /\ UNCHANGED <<clientVars, threadVars, reply, tagVars, fidVars, handleVars, stLock,
                   errorLock, configRead, negotiated, broken>>

\* One round of the loop of cleanup, which waits for the lock of the fidState.
Sweep(th, s) ==
    /\ pc[th] = "sweep"
    /\ s \in todo
    /\ stLock[s] = None
    /\ CloseHandle(s)
    /\ mode' = IF handle[s] = None THEN mode ELSE [mode EXCEPT ![s] = OREAD]
    /\ todo' = todo \ {s}
    /\ UNCHANGED <<clientVars, pc, threadVars, reply, tagVars, fidVars, lockVars,
                   negotiated, broken>>

\* version goes on, without errorLock; after a failed reset it still answers;
\* any other thread that died is finished.
AfterCleanup(th) ==
    CASE errorLock # th -> "reset"
      [] errorLock = th /\ th = Serve -> "returned"
      [] errorLock = th /\ th # Serve /\ reply[th] # "none" -> "reply"
      [] OTHER -> "silent"

\* Mutants of CleanupDone: the fid table keeps its entries; errorLock is not released.
CleanupDoneKeepsFids(th) ==
    /\ pc[th] = "sweep"
    /\ todo = {}
    /\ DropLocks(th)
    /\ errorLock' = IF errorLock = th THEN None ELSE errorLock
    /\ configRead' = configRead \ {th}
    /\ Goto(th, AfterCleanup(th))
    /\ UNCHANGED <<clientVars, threadVars, reply, tagVars, fidVars, handleVars, serverVars>>
CleanupDoneKeepsErrorLock(th) ==
    /\ pc[th] = "sweep"
    /\ todo = {}
    /\ fids' = [f \in Fids |-> None]
    /\ DropLocks(th)
    /\ configRead' = configRead \ {th}
    /\ Goto(th, AfterCleanup(th))
    /\ UNCHANGED <<clientVars, threadVars, reply, tagVars, loc, handleVars, errorLock,
                   serverVars>>

\* cleanup empties the fid table, and the thread unwinds.
CleanupDone(th) ==
    /\ pc[th] = "sweep"
    /\ todo = {}
    /\ fids' = [f \in Fids |-> None]
    /\ DropLocks(th)
    /\ errorLock' = IF errorLock = th THEN None ELSE errorLock
    /\ configRead' = configRead \ {th}
    /\ Goto(th, AfterCleanup(th))
    /\ UNCHANGED <<clientVars, threadVars, reply, tagVars, loc, handleVars, serverVars>>

-----------------------------------------------------------------------------
\* Handlers that never hold a lock when they answer.
LockFree == {"version", "flush", "walk", "read", "write", "stat", "other"}

\* The connection breaks.
Hangup ==
    /\ sock = "up"
    /\ \/ "hangup" \in Env
       \/ /\ "quiethangup" \in Env
          /\ \A r \in 1..received : Done(r) \/ msg[r].kind \in LockFree
    /\ sock' = "down"
    /\ UNCHANGED <<received, msg, awaits, pc, threadVars, reply, tagVars, fidVars,
                   handleVars, lockVars, serverVars>>

\* Every handler has returned, and Serve has too or waits for a client with nothing to say.
Quiescent ==
    /\ \A r \in 1..received : Done(r)
    /\ pc[Serve] = "returned" \/ (pc[Serve] = "reading" /\ sock = "up")
    /\ UNCHANGED vars

Responding(r) == \/ Respond(r) \/ RespondCancelled(r) \/ RespondTooBig(r)
                 \/ RespondFails(r) \/ RespondPanics(r)

Handler(r) ==
    \/ Version(r) \/ VersionLock(r) \/ VersionReset(r)
    \/ Auth(r) \/ Attach(r) \/ AttachReturn(r) \/ Flush(r) \/ Unsupported(r)
    \/ Lookup(r) \/ WalkTo(r) \/ WalkShort(r) \/ WalkBind(r) \/ WalkPanic(r)
    \/ OpenStart(r) \/ OpenReturn(r) \/ IOStart(r) \/ StatStart(r) \/ CallReturn(r)
    \/ Unbind(r) \/ CloseFid(r)
    \/ Responding(r)

Dying(th) ==
    \/ Die(th) \/ Cleanup(th) \/ (\E s \in Reqs : Sweep(th, s)) \/ CleanupDone(th)

Next ==
    \/ ServeTop \/ ReadError
    \/ \E r \in Reqs : \E m \in Script[r] : Receive(r, m)
    \/ \E r \in Reqs : Handler(r)
    \/ \E th \in Threads : Dying(th)
    \/ Hangup \/ Quiescent

(***************************************************************************)
(* Every goroutine that can run does, and a mutex someone may take is      *)
(* taken; a call of the file tree returns, except a read that blocks while *)
(* its handle is open and an open that blocks.  Nothing obliges the client *)
(* to send or to hang up.                                                  *)
(***************************************************************************)
Fairness ==
    /\ WF_vars(ServeTop) /\ WF_vars(ReadError)
    /\ \A r \in Reqs : WF_vars(~MayBlock(r) /\ Handler(r))
    /\ \A th \in Threads : WF_vars(Dying(th))

Spec == Init /\ [][Next]_vars
FairSpec == Spec /\ Fairness

-----------------------------------------------------------------------------
(***************************************************************************)
(* Properties.                                                             *)
(***************************************************************************)
PCs == {"idle", "start", "found", "walking", "opening", "calling", "closing", "reply",
        "die", "cleanup", "sweep", "reset", "resetting", "answered", "silent",
        "top", "reading", "returned"}

\* Every variable has its type.
TypeOK ==
    /\ received \in 0..NReqs
    /\ msg \in [Reqs -> Messages \union {None}]
    /\ awaits \subseteq Reqs
    /\ sock \in {"up", "down"}
    /\ pc \in [Threads -> PCs]
    /\ serving \in Reqs \union {None}
    /\ reply \in [Reqs -> {"none", "ok", "error"}]
    /\ ptr \in [Reqs -> Reqs \union {None}]
    /\ using \in [Reqs -> Reqs \union {None}]
    /\ tags \in [Tags -> Reqs \union {None}]
    /\ cancelled \in [Reqs -> BOOLEAN]
    /\ fids \in [Fids -> Reqs \union {None}]
    /\ loc \in [Reqs -> {"free", "none", "dir", "file"}]
    /\ handle \in [Reqs -> Reqs \union {None}]
    /\ mode \in [Reqs -> Modes]
    /\ hstat \in [Reqs -> {"none", "open", "closed", "twice"}]
    /\ fidLock \in Threads \union {None}
    /\ stLock \in [Reqs -> Threads \union {None}]
    /\ errorLock \in Threads \union {None}
    /\ configRead \subseteq Reqs
    /\ todo \subseteq Reqs
    /\ negotiated \in BOOLEAN
    /\ broken \in BOOLEAN

\* A handle the server opened belongs to exactly one fidState for as long as it is
\* open, and is never closed twice: no handler overwrites a handle it did not close
\* or keeps one that was closed (open, create, auth against clunk, remove, cleanup).
HandleOwned ==
    /\ \A h \in Reqs : hstat[h] # "twice"
    /\ \A s \in Reqs : handle[s] # None => hstat[handle[s]] = "open"
    /\ \A s, s2 \in Reqs : handle[s] # None /\ handle[s] = handle[s2] => s = s2
    /\ \A h \in Reqs : hstat[h] = "open" => \E s \in Reqs : handle[s] = h

\* A tag in the table stands for a request that has this tag, was not cancelled and
\* has not been answered (register, respond, flush and version keep the table).
TagOwned ==
    \A t \in Tags : tags[t] # None =>
        /\ msg[tags[t]] # None /\ msg[tags[t]].tag = t
        /\ ~cancelled[tags[t]]
        /\ pc[tags[t]] # "answered"

\* A response is sent only if the tag is still queued for the request it answers
\* (the comment on respond, fileserver.go:280-282).
ReplyQueued ==
    \A r \in Reqs : pc[r] = "reply" /\ ~cancelled[r] /\ msg[r].tag \in Tags
                        => tags[msg[r].tag] = r

\* This step writes the reply of r.
Answers(r) == pc[r] = "reply" /\ pc'[r] = "answered"

\* A reply is written only while the client expects it: not after the Rflush of
\* the request, and not after the Rversion that ended its session.
ReplyExpected ==
    [][\A r \in Reqs : Answers(r) => r \in awaits]_vars

\* An open handle is on a fid of the table, or about to be closed by the handler that
\* took the fid off it: no file stays open that no request can reach.
NoLeak ==
    \A s \in Reqs : handle[s] # None =>
        s \in Live \/ \E r \in Reqs : pc[r] = "closing" /\ ptr[r] = s

\* When version answers, nothing of the session before it is left: no fid and no
\* open handle (client.go:129-131, fileserver_test.go:441-443).
VersionClears ==
    [][\A r \in Reqs :
        Answers(r) /\ msg[r].kind = "version" /\ reply[r] = "ok"
            => Live = {} /\ \A s \in Reqs : handle[s] = None]_vars

\* Every request that does not wait for its file is answered: no lock is kept
\* from the handlers for ever, and no tag is lost (received, respond, all handlers).
Answered ==
    \A r \in Reqs : r \in awaits /\ ~MayBlock(r)
                        ~> r \notin awaits \/ MayBlock(r) \/ broken

\* A broken connection ends Serve: no thread that dies waits for a lock for ever.
ServeReturns == sock = "down" ~> pc[Serve] = "returned"

\* clunk or remove waits, with fidLock held, for a fidState that open or create keeps
\* locked while the file makes it wait.
BehindOpen ==
    \E r, q \in Reqs : pc[r] = "closing" /\ stLock[ptr[r]] = q /\ OpenWaits(q)

\* While the server has not died, a clunk is handled whatever else it is doing, reads that
\* block for ever included.  "Queuing of requests, including Flush and Clunk" (the comment on
\* fidState, fileserver.go:88-91) comes of one thing only: a clunk or remove of a fid whose
\* open blocks for ever.
ClunkHandled ==
    \A r \in Reqs : [](pc[r] = "start" /\ msg[r].kind = "clunk"
                           => <>(Done(r) \/ broken \/ []BehindOpen))
=============================================================================
