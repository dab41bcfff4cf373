----------------------------- MODULE BroadcastFile -----------------------------
(***************************************************************************)
(* src/fileserver/trees/broadcastfile.go: a file whose writes are queued   *)
(* on every handle that has it open for reading.  The threads are the      *)
(* goroutines of a file server that open, read, write and close handles.   *)
(*                                                                         *)
(* sync.RWMutex is modelled as it works: Lock first shuts new readers out  *)
(* (fWriter) and then waits for the readers inside (fReaders) to leave.    *)
(* sync.Cond wakes its waiters in the order they came.  A step ends where  *)
(* the code acquires a lock it may have to wait for, so the body of push   *)
(* and one turn of the loop of fetch are one step each.                    *)
(***************************************************************************)
EXTENDS Naturals, Sequences, SequencesExt, FiniteSets

CONSTANTS
    Threads,    \* goroutines that use the file
    Handles,    \* handles that are ever opened
    None,
    MaxWrites,  \* bound: messages written in all
    SmallReads, \* reads may ask for less than the next message holds
    Overlap     \* handles may be closed while a message is being pushed

Modes == {"OREAD", "OWRITE", "ORDWR"}
Messages == Threads \X (1..MaxWrites)

ASSUMPTION BroadcastAssumption ==
    /\ None \notin Threads \union Handles \union Modes /\ IsFiniteSet(Threads)
    /\ MaxWrites \in Nat
    /\ SmallReads \in BOOLEAN
    /\ Overlap \in BOOLEAN

VARIABLES
    fWriter,   \* the thread that holds or awaits BroadcastFile.Lock
    fReaders,  \* the threads that hold BroadcastFile.RLock
    files,     \* BroadcastFile.files
    mode,      \* mode[h]: what h was opened for, None before that
    queue,     \* queue[h]: BroadcastHandle.queue
    unwanted,  \* unwanted[h]: BroadcastHandle.unwanted
    hLock,     \* hLock[h]: the thread that holds queueCond.L across a step
    waiters,   \* waiters[h]: the threads in queueCond.Wait, in order
    pc,
    op,        \* op[t]: the handle t works on
    rest,      \* rest[t]: the handles Push has still to visit
    sent,      \* history: sent[t]: the pushes t has begun
    since,     \* history: since[h][t]: sent[t] when h was registered
    got        \* history: got[h]: the messages reads of h returned

vars == <<fWriter, fReaders, files, mode, queue, unwanted, hLock, waiters, pc, op, rest,
          sent, since, got>>
fileVars   == <<fWriter, fReaders, files>>
handleVars == <<queue, unwanted, hLock, waiters, got>>

consumer(h) == mode[h] \in {"OREAD", "ORDWR"}

Init ==
    /\ fWriter = None /\ fReaders = {} /\ files = <<>>
    /\ mode = [h \in Handles |-> None]
    /\ queue = [h \in Handles |-> <<>>]
    /\ unwanted = [h \in Handles |-> FALSE]
    /\ hLock = [h \in Handles |-> None]
    /\ waiters = [h \in Handles |-> <<>>]
    /\ pc = [t \in Threads |-> "idle"]
    /\ op = [t \in Threads |-> None]
    /\ rest = [t \in Threads |-> <<>>]
    /\ sent = [t \in Threads |-> 0]
    /\ since = [h \in Handles |-> [t \in Threads |-> 0]]
    /\ got = [h \in Handles |-> <<>>]

Goto(t, l) == pc' = [pc EXCEPT ![t] = l]
Return(t)  == Goto(t, "idle") /\ op' = [op EXCEPT ![t] = None]

\* The pushes begun or about to begin.
Written == FoldFunction(+, 0, sent) + Cardinality({t \in Threads : pc[t] = "push"})

Pushing == \E t \in Threads : pc[t] \in {"push", "pushing"}
Closing == \E t \in Threads : pc[t] \in {"close", "deregister", "deregistering"}

-----------------------------------------------------------------------------
(***************************************************************************)
(* What the file server calls.  A read needs a handle open for reading and *)
(* a write one open for writing; a handle may be closed more than once and *)
(* while it is being read.                                                 *)
(***************************************************************************)
Call(t) ==
    /\ pc[t] = "idle"
    /\ \E h \in Handles :
        /\ op' = [op EXCEPT ![t] = h]
        /\ \/ /\ mode[h] = None
              /\ \A u \in Threads : op[u] # h
              /\ Goto(t, "open")
           \/ mode[h] # None /\ consumer(h) /\ Goto(t, "fetch")
           \/ /\ mode[h] \in {"OWRITE", "ORDWR"} /\ Written < MaxWrites
              /\ Overlap \/ ~Closing
              /\ Goto(t, "push")
           \/ /\ mode[h] # None
              /\ Overlap \/ ~Pushing
              /\ Goto(t, "close")
    /\ UNCHANGED <<fileVars, handleVars, mode, rest, sent, since>>

\* Lock of BroadcastFile, in Open and in deregister: readers are shut out first.
Lock(t) ==
    /\ pc[t] \in {"open", "deregister"}
    /\ fWriter = None
    /\ fWriter' = t
    /\ Goto(t, IF pc[t] = "open" THEN "opening" ELSE "deregistering")
    /\ UNCHANGED <<fReaders, files, handleVars, mode, op, rest, sent, since>>

Open(t) ==
    /\ pc[t] = "opening"
    /\ fReaders = {}
    /\ \E m \in Modes :
        /\ mode' = [mode EXCEPT ![op[t]] = m]
        /\ files' = IF m = "OWRITE" THEN files ELSE Append(files, op[t])
    /\ since' = [since EXCEPT ![op[t]] = sent]
    /\ fWriter' = None
    /\ Return(t)
    /\ UNCHANGED <<fReaders, handleVars, rest, sent>>

-----------------------------------------------------------------------------
(***************************************************************************)
(* ReadAt.  A message that does not fit the read is taken from the queue   *)
(* and not returned (ErrMessageTooBig).                                    *)
(***************************************************************************)
Fetch(t) ==
    LET h == op[t] IN
    /\ pc[t] \in {"fetch", "woken"}
    /\ hLock[h] = None
    /\ \/ /\ unwanted[h]
          /\ Return(t)
          /\ UNCHANGED <<queue, waiters, got>>
       \/ /\ ~unwanted[h] /\ queue[h] = <<>>
          /\ waiters' = [waiters EXCEPT ![h] = Append(@, t)]
          /\ Goto(t, "waiting")
          /\ UNCHANGED <<queue, got, op>>
       \/ /\ ~unwanted[h] /\ queue[h] # <<>>
          /\ queue' = [queue EXCEPT ![h] = Tail(@)]
          /\ \/ got' = [got EXCEPT ![h] = Append(@, Head(queue[h]))]
             \/ SmallReads /\ UNCHANGED got
          /\ Return(t)
          /\ UNCHANGED waiters
    /\ UNCHANGED <<fileVars, mode, unwanted, hLock, rest, sent, since>>

PushToOthers(t) ==
    /\ pc[t] = "push"
    /\ fWriter = None
    /\ fReaders' = fReaders \union {t}
    /\ rest' = [rest EXCEPT ![t] = SelectSeq(files, LAMBDA h : h # op[t])]
    /\ sent' = [sent EXCEPT ![t] = @ + 1]
    /\ Goto(t, "pushing")
    /\ UNCHANGED <<fWriter, files, handleVars, mode, op, since>>
Push(t) ==
    /\ pc[t] = "push"
    /\ fWriter = None
    /\ fReaders' = fReaders \union {t}
    /\ rest' = [rest EXCEPT ![t] = files]
    /\ sent' = [sent EXCEPT ![t] = @ + 1]
    /\ Goto(t, "pushing")
    /\ UNCHANGED <<fWriter, files, handleVars, mode, op, since>>

\* Cond.Signal
WakeFirst(h) ==
    /\ pc' = [pc EXCEPT ![Head(waiters[h])] = "woken"]
    /\ waiters' = [waiters EXCEPT ![h] = Tail(@)]
SignalIfEmpty(h) ==
    IF queue[h] # <<>> \/ waiters[h] = <<>> THEN UNCHANGED <<waiters, pc>> ELSE WakeFirst(h)
Signal(h) == IF waiters[h] = <<>> THEN UNCHANGED <<waiters, pc>> ELSE WakeFirst(h)

\* BroadcastHandle.push
PushOne(t) ==
    LET h == Head(rest[t]) IN
    /\ pc[t] = "pushing" /\ rest[t] # <<>>
    /\ hLock[h] = None
    /\ queue' = [queue EXCEPT ![h] = Append(@, <<t, sent[t]>>)]
    /\ Signal(h)
    /\ rest' = [rest EXCEPT ![t] = Tail(@)]
    /\ UNCHANGED <<fileVars, unwanted, hLock, got, mode, op, sent, since>>

PushDone(t) ==
    /\ pc[t] = "pushing" /\ rest[t] = <<>>
    /\ fReaders' = fReaders \ {t}
    /\ Return(t)
    /\ UNCHANGED <<fWriter, files, handleVars, mode, rest, sent, since>>

\* Cond.Broadcast, by t which goes on at l
BroadcastToFirst(h, t, l) ==
    LET woken == {u \in Threads : waiters[h] # <<>> /\ u = Head(waiters[h])} IN
    /\ pc' = [u \in Threads |-> IF u = t THEN l ELSE IF u \in woken THEN "woken" ELSE pc[u]]
    /\ waiters' = [waiters EXCEPT ![h] = SelectSeq(@, LAMBDA u : u \notin woken)]
Broadcast(h, t, l) ==
    /\ pc' = [u \in Threads |-> IF u = t THEN l
                                ELSE IF Contains(waiters[h], u) THEN "woken" ELSE pc[u]]
    /\ waiters' = [waiters EXCEPT ![h] = <<>>]
Close(t) ==
    LET h == op[t] IN
    /\ pc[t] = "close"
    /\ hLock[h] = None
    /\ queue' = [queue EXCEPT ![h] = <<>>]
    /\ got' = [got EXCEPT ![h] = <<>>]
    /\ unwanted' = [unwanted EXCEPT ![h] = TRUE]
    /\ IF consumer(h)
       THEN /\ Broadcast(h, t, "deregister")
            /\ hLock' = [hLock EXCEPT ![h] = t]
            /\ UNCHANGED op
       ELSE Broadcast(h, t, "idle") /\ op' = [op EXCEPT ![t] = None] /\ UNCHANGED hLock
    /\ UNCHANGED <<fileVars, mode, rest, sent, since>>

\* The loop of deregister: the first occurrence of h goes.
WithoutFirst(h) == IF Contains(files, h) THEN Tail(files) ELSE files
Without(h) == IF Contains(files, h) THEN RemoveFirst(files, h) ELSE files

DeregisterKeepsLock(t) ==
    LET h == op[t] IN
    /\ pc[t] = "deregistering"
    /\ fReaders = {}
    /\ files' = Without(h)
    /\ hLock' = [hLock EXCEPT ![h] = None]
    /\ Return(t)
    /\ UNCHANGED <<fWriter, fReaders, queue, unwanted, waiters, got, mode, rest, sent, since>>
Deregister(t) ==
    LET h == op[t] IN
    /\ pc[t] = "deregistering"
    /\ fReaders = {}
    /\ files' = Without(h)
    /\ fWriter' = None
    /\ hLock' = [hLock EXCEPT ![h] = None]
    /\ Return(t)
    /\ UNCHANGED <<fReaders, queue, unwanted, waiters, got, mode, rest, sent, since>>

Step(t) ==
    Lock(t) \/ Open(t) \/ Fetch(t) \/ Push(t) \/ PushOne(t) \/ PushDone(t) \/ Close(t)
    \/ Deregister(t)

Next == \E t \in Threads : Call(t) \/ Step(t)

(***************************************************************************)
(* The Go scheduler runs every goroutine that can run, and a goroutine     *)
(* that waits for a mutex eventually gets it (sync.Mutex does not starve). *)
(* Nothing makes the server start an operation.                            *)
(***************************************************************************)
Fairness == \A t \in Threads : SF_vars(Step(t))

Spec == Init /\ [][Next]_vars
FairSpec == Spec /\ Fairness

-----------------------------------------------------------------------------
TypeOK ==
    /\ fWriter \in Threads \union {None}
    /\ fReaders \subseteq Threads
    /\ files \in Seq(Handles)
    /\ mode \in [Handles -> Modes \union {None}]
    /\ queue \in [Handles -> Seq(Messages)]
    /\ unwanted \in [Handles -> BOOLEAN]
    /\ hLock \in [Handles -> Threads \union {None}]
    /\ waiters \in [Handles -> Seq(Threads)]
    /\ pc \in [Threads -> {"idle", "open", "opening", "fetch", "waiting", "woken", "push",
                           "pushing", "close", "deregister", "deregistering"}]
    /\ op \in [Threads -> Handles \union {None}]
    /\ rest \in [Threads -> Seq(Handles)]
    /\ sent \in [Threads -> 0..MaxWrites]
    /\ since \in [Handles -> [Threads -> 0..MaxWrites]]
    /\ got \in [Handles -> Seq(Messages)]

Listening(h) == h \in Range(files) /\ ~unwanted[h]
\* Where the messages of w are in a sequence of messages.
By(w, s) == {i \in 1..Len(s) : s[i][1] = w}

(***************************************************************************)
(* While a handle is open for reading it gets every message written since  *)
(* it was registered, once and in the order of each writer: what its reads *)
(* returned, followed by what is queued, leaves no message out.  "Writing  *)
(* to the file allows everyone who had the file open for reading during    *)
(* the write to read and receive the message."                             *)
(***************************************************************************)
Delivered ==
    \A h \in Handles, w \in Threads :
        Listening(h) =>
            LET s == got[h] \o queue[h]
                pushed == IF pc[w] = "pushing" /\ Contains(rest[w], h)
                          THEN sent[w] - 1 ELSE sent[w]
            IN  /\ \A i, j \in By(w, s) : i < j => s[i][2] < s[j][2]
                /\ {s[i][2] : i \in By(w, s)} = (since[h][w] + 1)..pushed

(***************************************************************************)
(* No lost wakeup: while reads of a handle still sleep, each message that  *)
(* is queued on it has a reader that was woken and is on its way to the    *)
(* lock.                                                                   *)
(***************************************************************************)
NoLostWakeup ==
    \A h \in Handles :
        LET awake == {t \in Threads : pc[t] = "woken" /\ op[t] = h}
        IN  waiters[h] # <<>> => /\ ~unwanted[h]
                                 /\ Len(queue[h]) <= Cardinality(awake)

(***************************************************************************)
(* The file keeps no reference to a handle whose Close has returned, not   *)
(* even when handles are closed twice or several at a time: only then can  *)
(* the handle be collected.                                                *)
(***************************************************************************)
Deregistered ==
    \A h \in Handles :
        unwanted[h] /\ (\A t \in Threads : hLock[h] # t) => ~Contains(files, h)

\* Close wakes up every read that is blocked on the handle, and it returns.
CloseWakes ==
    \A t \in Threads, h \in Handles :
        (pc[t] \in {"fetch", "waiting", "woken"} /\ op[t] = h /\ unwanted[h]) ~> pc[t] = "idle"

\* A write returns, whoever opens the file meanwhile and however slowly it is read.
WriteReturns == \A t \in Threads : pc[t] = "push" ~> pc[t] = "idle"
=============================================================================
