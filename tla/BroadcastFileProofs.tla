-------------------------- MODULE BroadcastFileProofs --------------------------
(***************************************************************************)
(* BroadcastFile for every number of threads, handles and messages. The    *)
(* invariant says who holds which lock, that no handle is registered or    *)
(* visited twice, and that the threads asleep are those queueCond lists;   *)
(* from it follow, one after the other, that a closed handle is            *)
(* forgotten, that no wakeup is lost and that every message is delivered.  *)
(***************************************************************************)
EXTENDS BroadcastFile, TLAPS, FiniteSetTheorems, SequenceTheorems

\* The types, without the bound on the messages written.
TypeInv ==
    /\ fWriter \in Threads \union {None}
    /\ fReaders \subseteq Threads
    /\ files \in Seq(Handles)
    /\ mode \in [Handles -> Modes \union {None}]
    /\ queue \in [Handles -> Seq(Threads \X Nat)]
    /\ unwanted \in [Handles -> BOOLEAN]
    /\ hLock \in [Handles -> Threads \union {None}]
    /\ waiters \in [Handles -> Seq(Threads)]
    /\ pc \in [Threads -> {"idle", "open", "opening", "fetch", "waiting", "woken", "push",
                           "pushing", "close", "deregister", "deregistering"}]
    /\ op \in [Threads -> Handles \union {None}]
    /\ rest \in [Threads -> Seq(Handles)]
    /\ sent \in [Threads -> Nat]
    /\ since \in [Handles -> [Threads -> Nat]]
    /\ got \in [Handles -> Seq(Threads \X Nat)]

\* A sequence names nothing twice.
Distinct(s) == \A i, j \in 1..Len(s) : s[i] = s[j] => i = j

\* A thread works on a handle from Call to Return; only one opens it, before all others.
OpInv ==
    \A t \in Threads :
        /\ pc[t] = "idle" <=> op[t] = None
        /\ op[t] # None => (mode[op[t]] = None <=> pc[t] \in {"open", "opening"})
        /\ pc[t] \in {"open", "opening"} => \A u \in Threads \ {t} : op[u] # op[t]

\* Nothing has happened to a handle that was not opened.
FreshInv ==
    \A h \in Handles :
        mode[h] = None => /\ queue[h] = <<>> /\ got[h] = <<>> /\ waiters[h] = <<>>
                          /\ ~unwanted[h] /\ hLock[h] = None

\* The handles registered are open for reading, and each is registered once.
FilesInv == Distinct(files) /\ \A h \in Handles : Contains(files, h) => consumer(h)

\* Who holds the lock of the file, and who that of a handle.
LockInv ==
    \A t \in Threads :
        /\ t \in fReaders <=> pc[t] = "pushing"
        /\ fWriter = t <=> pc[t] \in {"opening", "deregistering"}
        /\ \A h \in Handles :
               hLock[h] = t <=> pc[t] \in {"deregister", "deregistering"} /\ op[t] = h

\* A push visits each handle once, and only handles that are open.
RestInv ==
    \A t \in Threads :
        Distinct(rest[t]) /\ \A h \in Handles : Contains(rest[t], h) => mode[h] # None

\* The threads asleep in queueCond.Wait are those the condition lists, each once.
WaitInv ==
    \A h \in Handles :
        /\ Distinct(waiters[h])
        /\ \A t \in Threads : Contains(waiters[h], t) <=> pc[t] = "waiting" /\ op[t] = h

\* The inductive invariant.
BroadcastInv ==
    /\ TypeInv /\ OpInv /\ FreshInv /\ FilesInv /\ LockInv /\ RestInv /\ WaitInv
    /\ Deregistered

USE BroadcastAssumption

-----------------------------------------------------------------------------
(***************************************************************************)
(* Sequences that name nothing twice: the handles registered, the handles  *)
(* a push has still to visit, and the waiters of a condition.              *)
(***************************************************************************)
\* The empty sequence names nothing.
LEMMA NothingIn == ASSUME NEW x PROVE ~Contains(<<>>, x) /\ Distinct(<<>>)
BY DEF Contains, Distinct

\* What a sequence names after an element is put at its end.
LEMMA InAppend ==
    ASSUME NEW S, NEW s \in Seq(S), NEW e \in S
    PROVE  /\ Append(s, e) \in Seq(S)
           /\ \A x : Contains(Append(s, e), x) <=> Contains(s, x) \/ x = e
           /\ Distinct(s) /\ ~Contains(s, e) => Distinct(Append(s, e))
<1>1. PICK n \in Nat : n = Len(s)
  OBVIOUS
<1>2. PICK r : r = Append(s, e)
  OBVIOUS
<1>3. /\ r \in Seq(S) /\ Len(r) = n + 1 /\ r[n+1] = e
      /\ \A i \in 1..n : r[i] = s[i]
      /\ \A i \in 1..(n+1) : i \in 1..n \/ i = n + 1
  BY <1>1, <1>2
<1>4. \A x : Contains(r, x) <=> Contains(s, x) \/ x = e
  BY <1>1, <1>3 DEF Contains
<1>5. Distinct(s) /\ ~Contains(s, e) => Distinct(r)
  BY <1>1, <1>3 DEF Contains, Distinct
<1> QED BY <1>2, <1>3, <1>4, <1>5

\* What a sequence that names nothing twice names without its first element.
LEMMA InTail ==
    ASSUME NEW S, NEW s \in Seq(S), s # <<>>, Distinct(s)
    PROVE  /\ Head(s) \in S /\ Tail(s) \in Seq(S) /\ Contains(s, Head(s))
           /\ \A x : Contains(Tail(s), x) <=> Contains(s, x) /\ x # Head(s)
           /\ Distinct(Tail(s))
<1>1. PICK n \in Nat : n + 1 = Len(s)
  <2>1. Len(s) \in Nat \ {0} /\ Len(s) - 1 \in Nat
    OBVIOUS
  <2> QED BY <2>1
<1>2. PICK r : r = Tail(s)
  OBVIOUS
<1>3. PICK h : h = Head(s)
  OBVIOUS
<1>4. /\ r \in Seq(S) /\ Len(r) = n /\ h = s[1] /\ h \in S
      /\ \A i \in 1..n : r[i] = s[i+1] /\ i + 1 \in 1..(n+1)
      /\ 1 \in 1..(n+1) /\ \A i \in 1..(n+1) : i = 1 \/ (i - 1 \in 1..n /\ (i - 1) + 1 = i)
  BY <1>1, <1>2, <1>3
<1>5. Contains(s, h)
  BY <1>1, <1>4 DEF Contains
<1>6. ASSUME NEW x PROVE Contains(r, x) <=> Contains(s, x) /\ x # h
  <2>1. ASSUME Contains(r, x) PROVE Contains(s, x) /\ x # h
    <3>1. PICK i \in 1..n : r[i] = x
      BY <1>4, <2>1 DEF Contains
    <3>2. i + 1 \in 1..Len(s) /\ s[i+1] = x /\ i + 1 # 1 /\ 1 \in 1..Len(s)
      BY <1>1, <1>4, <3>1
    <3> QED BY <1>4, <3>2 DEF Contains, Distinct
  <2>2. ASSUME Contains(s, x), x # h PROVE Contains(r, x)
    <3>1. PICK i \in 1..(n+1) : s[i] = x
      BY <1>1, <2>2 DEF Contains
    <3>2. i # 1
      BY <1>4, <2>2, <3>1
    <3> QED BY <1>4, <3>1, <3>2 DEF Contains
  <2> QED BY <2>1, <2>2
<1>7. Distinct(r)
  BY <1>1, <1>4 DEF Distinct
<1> QED BY <1>2, <1>3, <1>4, <1>5, <1>6, <1>7

\* The loop of deregister leaves all handles but one, in their order and each once.
LEMMA InRemoveFirst ==
    ASSUME NEW S, NEW s \in Seq(S), Distinct(s), NEW e, Contains(s, e)
    PROVE  /\ RemoveFirst(s, e) \in Seq(S)
           /\ \A x : Contains(RemoveFirst(s, e), x) <=> Contains(s, x) /\ x # e
           /\ Distinct(RemoveFirst(s, e))
<1>1. PICK k \in 1..Len(s) : s[k] = e
  BY DEF Contains
<1>2. {i \in 1..Len(s) : s[i] = e} = {k}
  BY <1>1 DEF Distinct
<1>3. Min({k}) = k
  BY <1>1 DEF Min
<1>4. RemoveFirst(s, e) = SubSeq(s, 1, k - 1) \o SubSeq(s, k + 1, Len(s))
  BY <1>1, <1>2, <1>3 DEF RemoveFirst, SelectInSeq, RemoveAt
<1>5. PICK n \in Nat : n + 1 = Len(s)
  <2>1. Len(s) \in Nat \ {0} /\ Len(s) - 1 \in Nat
    BY <1>1
  <2> QED BY <2>1
<1>6. PICK r : r = RemoveFirst(s, e)
  OBVIOUS
<1>7. /\ r \in Seq(S) /\ Len(r) = n
      /\ \A i \in 1..n : r[i] = IF i < k THEN s[i] ELSE s[i+1]
  <2>1. /\ SubSeq(s, 1, k - 1) \in Seq(S) /\ Len(SubSeq(s, 1, k - 1)) = k - 1
        /\ \A i \in 1..(k-1) : SubSeq(s, 1, k - 1)[i] = s[i]
    BY <1>1
  <2>2. /\ SubSeq(s, k + 1, Len(s)) \in Seq(S) /\ Len(SubSeq(s, k + 1, Len(s))) = n + 1 - k
        /\ \A i \in 1..(n+1-k) : SubSeq(s, k + 1, Len(s))[i] = s[k + i]
    BY <1>1, <1>5
  <2>3. PICK a : a = SubSeq(s, 1, k - 1)
    OBVIOUS
  <2>4. PICK b : b = SubSeq(s, k + 1, Len(s))
    OBVIOUS
  <2>5. /\ a \o b \in Seq(S) /\ Len(a \o b) = n
        /\ \A i \in 1..n : (a \o b)[i] = IF i < k THEN a[i] ELSE b[i - (k - 1)]
    <3>1. a \in Seq(S) /\ b \in Seq(S) /\ Len(a) = k - 1 /\ Len(b) = n + 1 - k
      BY <2>1, <2>2, <2>3, <2>4
    <3>2. /\ a \o b \in Seq(S) /\ Len(a \o b) = Len(a) + Len(b)
          /\ \A i \in 1..(Len(a) + Len(b)) :
                 (a \o b)[i] = IF i <= Len(a) THEN a[i] ELSE b[i - Len(a)]
      BY ZenonT(20), <3>1, ConcatProperties
    <3>3. Len(a) + Len(b) = n /\ \A i \in 1..n : i <= k - 1 <=> i < k
      BY <1>1, <1>5, <3>1
    <3> QED BY <3>1, <3>2, <3>3
  <2>6. ASSUME NEW i \in 1..n PROVE (a \o b)[i] = IF i < k THEN s[i] ELSE s[i+1]
    <3>1. CASE i < k
      BY <2>1, <2>3, <2>5, <3>1, <1>1
    <3>2. CASE ~(i < k)
      <4>1. i - (k - 1) \in 1..(n+1-k) /\ k + (i - (k - 1)) = i + 1
        BY <1>1, <1>5, <3>2
      <4> QED BY <2>2, <2>4, <2>5, <3>2, <4>1
    <3> QED BY <3>1, <3>2
  <2> QED BY <1>4, <1>6, <2>3, <2>4, <2>5, <2>6
\* Where an element of the longer sequence is in the shorter one, and back.
<1> DEFINE Up(i) == IF i < k THEN i ELSE i + 1
           Down(i) == IF i < k THEN i ELSE i - 1
<1>8. \A i \in 1..n : Up(i) \in 1..(n+1) /\ Up(i) # k /\ r[i] = s[Up(i)]
  BY <1>1, <1>5, <1>7
<1>9. \A i \in 1..(n+1) : i # k => Down(i) \in 1..n /\ Up(Down(i)) = i
  BY <1>1, <1>5
<1>10. \A i, j \in 1..n : Up(i) = Up(j) => i = j
  BY <1>1
<1> HIDE DEF Up, Down
<1>11. ASSUME NEW x PROVE Contains(r, x) <=> Contains(s, x) /\ x # e
  <2>1. ASSUME Contains(r, x) PROVE Contains(s, x) /\ x # e
    <3>1. PICK i \in 1..n : r[i] = x
      BY <1>7, <2>1 DEF Contains
    <3> QED BY <1>1, <1>5, <1>8, <3>1 DEF Contains, Distinct
  <2>2. ASSUME Contains(s, x), x # e PROVE Contains(r, x)
    <3>1. PICK i \in 1..(n+1) : s[i] = x
      BY <1>5, <2>2 DEF Contains
    <3> QED BY <1>1, <1>7, <1>8, <1>9, <2>2, <3>1 DEF Contains
  <2> QED BY <2>1, <2>2
<1>12. Distinct(r)
  BY <1>5, <1>7, <1>8, <1>10 DEF Distinct
<1> QED BY <1>6, <1>7, <1>11, <1>12

-----------------------------------------------------------------------------
(***************************************************************************)
(* The locks, the handles registered and the threads that wait.            *)
(***************************************************************************)
\* The initial states satisfy the invariant.
LEMMA InitBroadcast == Init => BroadcastInv
<1> SUFFICES ASSUME Init PROVE BroadcastInv
  OBVIOUS
<1> USE NothingIn DEF Init
<1>1. TypeInv
  <2>1. /\ queue \in [Handles -> Seq(Threads \X Nat)] /\ waiters \in [Handles -> Seq(Threads)]
        /\ rest \in [Threads -> Seq(Handles)] /\ got \in [Handles -> Seq(Threads \X Nat)]
    OBVIOUS
  <2> QED BY <2>1 DEF TypeInv
<1>2. OpInv /\ FreshInv /\ LockInv
  BY DEF OpInv, FreshInv, LockInv
<1>3. FilesInv /\ RestInv /\ WaitInv /\ Deregistered
  BY DEF FilesInv, RestInv, WaitInv, Deregistered
<1> QED BY <1>1, <1>2, <1>3 DEF BroadcastInv

\* A thread that is at work has a handle.
LEMMA HandleOf ==
    ASSUME BroadcastInv, NEW t \in Threads, pc[t] # "idle"
    PROVE  op[t] \in Handles
BY DEF BroadcastInv, TypeInv, OpInv

\* The call of an operation keeps the invariant.
LEMMA BroadcastCall == ASSUME BroadcastInv, NEW t \in Threads, Call(t) PROVE BroadcastInv'
<1>1. PICK h \in Handles, l \in {"open", "fetch", "push", "close"} :
        /\ pc[t] = "idle" /\ op' = [op EXCEPT ![t] = h] /\ pc' = [pc EXCEPT ![t] = l]
        /\ IF l = "open" THEN mode[h] = None /\ \A u \in Threads : op[u] # h
                         ELSE mode[h] # None
  <2>1. PICK h \in Handles :
          /\ pc[t] = "idle" /\ op' = [op EXCEPT ![t] = h]
          /\ \/ mode[h] = None /\ (\A u \in Threads : op[u] # h) /\ Goto(t, "open")
             \/ mode[h] # None /\ (Goto(t, "fetch") \/ Goto(t, "push") \/ Goto(t, "close"))
    BY DEF Call, Modes
  <2> QED BY <2>1 DEF Goto
<1>2. UNCHANGED <<fileVars, handleVars, mode, rest, sent, since>>
  BY DEF Call
<1> USE <1>2 DEF BroadcastInv, fileVars, handleVars
<1>3. TypeInv'
  BY <1>1 DEF TypeInv
<1>4. /\ pc'[t] = l /\ op'[t] = h
      /\ \A u \in Threads \ {t} : pc'[u] = pc[u] /\ op'[u] = op[u]
  BY <1>1 DEF TypeInv
<1>5. OpInv'
  BY <1>1, <1>4 DEF OpInv
<1>6. FreshInv' /\ FilesInv' /\ RestInv' /\ Deregistered'
  BY DEF FreshInv, FilesInv, RestInv, Deregistered, consumer
<1>7. LockInv'
  BY <1>1, <1>4 DEF LockInv
<1>8. WaitInv'
  BY <1>1, <1>4 DEF WaitInv
<1> QED BY <1>3, <1>5, <1>6, <1>7, <1>8

\* Lock keeps the invariant.
LEMMA BroadcastLock == ASSUME BroadcastInv, NEW t \in Threads, Lock(t) PROVE BroadcastInv'
<1>1. PICK l \in {"opening", "deregistering"} :
        /\ pc[t] = (IF l = "opening" THEN "open" ELSE "deregister")
        /\ pc' = [pc EXCEPT ![t] = l] /\ fWriter = None /\ fWriter' = t
  BY DEF Lock, Goto
<1>2. UNCHANGED <<fReaders, files, handleVars, mode, op, rest, sent, since>>
  BY DEF Lock
<1> USE <1>2 DEF BroadcastInv, handleVars
<1>3. TypeInv'
  BY <1>1 DEF TypeInv
<1>4. pc'[t] = l /\ \A u \in Threads \ {t} : pc'[u] = pc[u]
  BY <1>1 DEF TypeInv
<1>5. OpInv'
  BY <1>1, <1>4 DEF OpInv
<1>6. FreshInv' /\ FilesInv' /\ RestInv' /\ Deregistered'
  BY DEF FreshInv, FilesInv, RestInv, Deregistered, consumer
<1>7. LockInv'
  BY <1>1, <1>4 DEF LockInv
<1>8. WaitInv'
  BY <1>1, <1>4 DEF WaitInv
<1> QED BY <1>3, <1>5, <1>6, <1>7, <1>8

\* Open keeps the invariant: the handle is new, and no read of it has begun.
LEMMA BroadcastOpen == ASSUME BroadcastInv, NEW t \in Threads, Open(t) PROVE BroadcastInv'
<1>1. PICK h \in Handles, m \in Modes :
        /\ h = op[t] /\ pc[t] = "opening" /\ fReaders = {}
        /\ mode' = [mode EXCEPT ![h] = m]
        /\ files' = IF m = "OWRITE" THEN files ELSE Append(files, h)
        /\ since' = [since EXCEPT ![h] = sent]
        /\ fWriter' = None
        /\ pc' = [pc EXCEPT ![t] = "idle"] /\ op' = [op EXCEPT ![t] = None]
  BY HandleOf DEF Open, Return, Goto
<1>2. UNCHANGED <<fReaders, handleVars, rest, sent>>
  BY DEF Open
<1> USE <1>2 DEF BroadcastInv, handleVars
<1>3. /\ pc'[t] = "idle" /\ op'[t] = None /\ mode'[h] = m /\ m # None
      /\ \A u \in Threads \ {t} : pc'[u] = pc[u] /\ op'[u] = op[u] /\ op[u] # h
      /\ \A g \in Handles \ {h} : mode'[g] = mode[g]
      /\ mode[h] = None
  <2>1. None \notin Handles /\ mode[h] = None
    BY <1>1 DEF OpInv
  <2>2. m # None
    BY <1>1
  <2> QED BY <1>1, <2>1, <2>2 DEF TypeInv, OpInv
<1>4. TypeInv'
  BY <1>1, InAppend DEF TypeInv
<1>5. OpInv'
  BY <1>1, <1>3 DEF OpInv
<1>6. FreshInv' /\ RestInv'
  BY <1>1, <1>3 DEF FreshInv, RestInv
<1>7. FilesInv'
  <2>1. ~Contains(files, h) /\ files \in Seq(Handles)
    BY <1>3 DEF FilesInv, TypeInv, consumer, Modes
  <2>2. \A g \in Handles : Contains(files, g) => consumer(g)'
    BY <1>3, <2>1 DEF FilesInv, consumer
  <2>3. m # "OWRITE" => consumer(h)'
    BY <1>1, <1>3 DEF consumer, Modes
  <2> QED BY <1>1, <2>1, <2>2, <2>3, InAppend DEF FilesInv
<1>8. LockInv'
  BY <1>1, <1>3 DEF LockInv
<1>9. WaitInv'
  BY <1>1, <1>3 DEF WaitInv
<1>10. Deregistered'
  <2>1. files \in Seq(Handles) /\ ~unwanted[h]
    BY <1>3 DEF TypeInv, FreshInv
  <2> QED BY <1>1, <2>1, InAppend DEF Deregistered
<1> QED BY <1>4, <1>5, <1>6, <1>7, <1>8, <1>9, <1>10

\* A turn of the loop of fetch keeps the invariant.
LEMMA BroadcastFetch == ASSUME BroadcastInv, NEW t \in Threads, Fetch(t) PROVE BroadcastInv'
<1>1. PICK h \in Handles : h = op[t] /\ pc[t] \in {"fetch", "woken"}
  BY HandleOf DEF Fetch
<1>2. UNCHANGED <<fileVars, mode, unwanted, hLock, rest, sent, since>>
  BY DEF Fetch
<1> USE <1>2 DEF BroadcastInv, fileVars
<1>3. CASE ~unwanted[h] /\ queue[h] = <<>> /\ waiters' = [waiters EXCEPT ![h] = Append(@, t)]
           /\ pc' = [pc EXCEPT ![t] = "waiting"] /\ UNCHANGED <<queue, got, op>>
  <2>1. /\ pc'[t] = "waiting" /\ \A u \in Threads \ {t} : pc'[u] = pc[u]
        /\ waiters[h] \in Seq(Threads) /\ waiters'[h] = Append(waiters[h], t)
        /\ \A g \in Handles \ {h} : waiters'[g] = waiters[g]
    BY <1>3 DEF TypeInv
  <2>2. TypeInv'
    BY <1>3, <2>1, InAppend DEF TypeInv
  <2>3. OpInv' /\ LockInv'
    BY <1>1, <1>3, <2>1 DEF OpInv, LockInv
  <2>4. FreshInv'
    <3>1. mode[h] # None
      BY <1>1 DEF OpInv
    <3> QED BY <1>3, <2>1, <3>1 DEF FreshInv
  <2>5. FilesInv' /\ RestInv' /\ Deregistered'
    BY DEF FilesInv, RestInv, Deregistered, consumer
  <2>6. WaitInv'
    <3>1. ~Contains(waiters[h], t)
      BY <1>1 DEF WaitInv
    <3>2. /\ \A u : Contains(waiters'[h], u) <=> Contains(waiters[h], u) \/ u = t
          /\ Distinct(waiters'[h])
      BY <2>1, <3>1, InAppend DEF WaitInv
    <3> QED BY <1>1, <1>3, <2>1, <3>2 DEF WaitInv
  <2> QED BY <2>2, <2>3, <2>4, <2>5, <2>6
<1>4. CASE /\ pc' = [pc EXCEPT ![t] = "idle"] /\ op' = [op EXCEPT ![t] = None] /\ UNCHANGED waiters
           /\ \/ UNCHANGED <<queue, got>>
              \/ /\ queue[h] # <<>> /\ queue' = [queue EXCEPT ![h] = Tail(@)]
                 /\ got' \in {got, [got EXCEPT ![h] = Append(@, Head(queue[h]))]}
  <2>1. /\ pc'[t] = "idle" /\ op'[t] = None
        /\ \A u \in Threads \ {t} : pc'[u] = pc[u] /\ op'[u] = op[u]
    BY <1>4 DEF TypeInv
  <2>2. /\ queue' \in [Handles -> Seq(Threads \X Nat)] /\ got' \in [Handles -> Seq(Threads \X Nat)]
        /\ \A g \in Handles \ {h} : queue'[g] = queue[g] /\ got'[g] = got[g]
    <3>1. queue[h] \in Seq(Threads \X Nat) /\ got[h] \in Seq(Threads \X Nat)
      BY DEF TypeInv
    <3>2. queue[h] # <<>> => /\ Head(queue[h]) \in Threads \X Nat
                             /\ Tail(queue[h]) \in Seq(Threads \X Nat)
      BY <3>1
    <3>3. queue[h] # <<>> => Append(got[h], Head(queue[h])) \in Seq(Threads \X Nat)
      BY <3>1, <3>2
    <3>4. CASE UNCHANGED <<queue, got>>
      BY <3>4 DEF TypeInv
    <3>5. CASE /\ queue[h] # <<>> /\ queue' = [queue EXCEPT ![h] = Tail(@)]
               /\ got' \in {got, [got EXCEPT ![h] = Append(@, Head(queue[h]))]}
      <4>1. PICK q \in Seq(Threads \X Nat), a \in Seq(Threads \X Nat) :
              queue' = [queue EXCEPT ![h] = q] /\ got' \in {got, [got EXCEPT ![h] = a]}
        BY <3>2, <3>3, <3>5
      <4>2. queue' \in [Handles -> Seq(Threads \X Nat)]
        BY <4>1 DEF TypeInv
      <4>3. got' \in [Handles -> Seq(Threads \X Nat)]
        BY <4>1 DEF TypeInv
      <4>4. \A g \in Handles \ {h} : queue'[g] = queue[g] /\ got'[g] = got[g]
        BY <4>1 DEF TypeInv
      <4> QED BY <4>2, <4>3, <4>4
    <3> QED BY <1>4, <3>4, <3>5
  <2>3. TypeInv'
    BY <1>4, <2>2 DEF TypeInv
  <2>4. OpInv' /\ LockInv' /\ WaitInv'
    BY <1>1, <1>4, <2>1 DEF OpInv, LockInv, WaitInv
  <2>5. FreshInv'
    <3>1. mode[h] # None
      BY <1>1 DEF OpInv
    <3> QED BY <1>4, <2>2, <3>1 DEF FreshInv
  <2>6. FilesInv' /\ RestInv' /\ Deregistered'
    BY DEF FilesInv, RestInv, Deregistered, consumer
  <2> QED BY <2>3, <2>4, <2>5, <2>6
<1> QED BY <1>1, <1>3, <1>4 DEF Fetch, Return, Goto

\* The start of push keeps the invariant: it visits the handles registered at that time.
LEMMA BroadcastPush == ASSUME BroadcastInv, NEW t \in Threads, Push(t) PROVE BroadcastInv'
<1>1. /\ pc[t] = "push" /\ fWriter = None /\ fReaders' = fReaders \union {t}
      /\ rest' = [rest EXCEPT ![t] = files] /\ sent' = [sent EXCEPT ![t] = @ + 1]
      /\ pc' = [pc EXCEPT ![t] = "pushing"]
      /\ UNCHANGED <<fWriter, files, handleVars, mode, op, since>>
  BY DEF Push, Goto
<1> USE <1>1 DEF BroadcastInv, handleVars
<1>2. TypeInv'
  BY DEF TypeInv
<1>3. /\ pc'[t] = "pushing" /\ rest'[t] = files
      /\ \A u \in Threads \ {t} : pc'[u] = pc[u] /\ rest'[u] = rest[u]
  BY DEF TypeInv
<1>4. OpInv' /\ LockInv' /\ WaitInv'
  BY <1>3 DEF OpInv, LockInv, WaitInv
<1>5. FreshInv' /\ FilesInv' /\ Deregistered'
  BY DEF FreshInv, FilesInv, Deregistered, consumer
<1>6. RestInv'
  <2>1. \A h \in Handles : Contains(files, h) => mode[h] # None
    BY DEF FilesInv, consumer, Modes
  <2> QED BY <1>3, <2>1 DEF RestInv, FilesInv
<1> QED BY <1>2, <1>4, <1>5, <1>6

\* Cond.Signal wakes the reader that has waited longest.
LEMMA SignalWakes ==
    ASSUME BroadcastInv, NEW h \in Handles, Signal(h)
    PROVE  \/ UNCHANGED <<waiters, pc>> /\ waiters[h] = <<>>
           \/ /\ waiters[h] # <<>>
              /\ \E u \in Threads :
                    /\ pc[u] = "waiting" /\ op[u] = h
                    /\ pc' = [pc EXCEPT ![u] = "woken"]
                    /\ waiters' = [waiters EXCEPT ![h] = Tail(@)]
                    /\ waiters'[h] \in Seq(Threads) /\ Distinct(waiters'[h])
                    /\ \A v : Contains(waiters'[h], v) <=> Contains(waiters[h], v) /\ v # u
<1>1. CASE waiters[h] # <<>>
  <2>1. waiters[h] \in Seq(Threads) /\ Distinct(waiters[h])
    BY DEF BroadcastInv, TypeInv, WaitInv
  <2>2. PICK u \in Threads : u = Head(waiters[h]) /\ Contains(waiters[h], u)
    BY <1>1, <2>1, InTail
  <2>3. /\ pc' = [pc EXCEPT ![u] = "woken"]
        /\ waiters' = [waiters EXCEPT ![h] = Tail(@)]
    BY <1>1, <2>2 DEF Signal, WakeFirst
  <2>4. waiters'[h] = Tail(waiters[h])
    BY <2>3 DEF BroadcastInv, TypeInv
  <2>5. pc[u] = "waiting" /\ op[u] = h
    BY <2>2 DEF BroadcastInv, WaitInv
  <2>6. /\ waiters'[h] \in Seq(Threads) /\ Distinct(waiters'[h])
        /\ \A v : Contains(waiters'[h], v) <=> Contains(waiters[h], v) /\ v # u
    BY <1>1, <2>1, <2>2, <2>4, InTail
  <2> QED BY <1>1, <2>3, <2>5, <2>6
<1> QED BY <1>1 DEF Signal

\* The handle push is about to reach, and what is left after it.
LEMMA PushesTo ==
    ASSUME BroadcastInv, NEW t \in Threads, PushOne(t)
    PROVE  \E h \in Handles :
             /\ h = Head(rest[t]) /\ pc[t] = "pushing" /\ Contains(rest[t], h) /\ hLock[h] = None
             /\ mode[h] # None
             /\ queue' = [queue EXCEPT ![h] = Append(@, <<t, sent[t]>>)]
             /\ Signal(h)
             /\ \A u \in Threads \ {t} : rest'[u] = rest[u]
             /\ rest' \in [Threads -> Seq(Handles)] /\ Distinct(rest'[t])
             /\ \A g : Contains(rest'[t], g) <=> Contains(rest[t], g) /\ g # h
             /\ UNCHANGED <<fileVars, unwanted, hLock, got, mode, op, sent, since>>
<1>1. rest[t] \in Seq(Handles) /\ Distinct(rest[t]) /\ rest[t] # <<>> /\ pc[t] = "pushing"
  BY DEF BroadcastInv, TypeInv, RestInv, PushOne
<1>2. PICK h \in Handles : h = Head(rest[t]) /\ Contains(rest[t], h)
  BY <1>1, InTail
<1>3. PICK r : r = Tail(rest[t])
  OBVIOUS
<1>4. /\ r \in Seq(Handles) /\ Distinct(r)
      /\ \A g : Contains(r, g) <=> Contains(rest[t], g) /\ g # h
  BY <1>1, <1>2, <1>3, InTail
<1>5. /\ hLock[h] = None
      /\ queue' = [queue EXCEPT ![h] = Append(@, <<t, sent[t]>>)]
      /\ Signal(h) /\ rest' = [rest EXCEPT ![t] = r]
      /\ UNCHANGED <<fileVars, unwanted, hLock, got, mode, op, sent, since>>
  BY <1>2, <1>3 DEF PushOne
<1>6. /\ rest'[t] = r /\ rest' \in [Threads -> Seq(Handles)]
      /\ \A u \in Threads \ {t} : rest'[u] = rest[u]
  BY <1>4, <1>5 DEF BroadcastInv, TypeInv
<1>7. mode[h] # None
  BY <1>2 DEF BroadcastInv, RestInv
<1> QED BY <1>1, <1>2, <1>4, <1>5, <1>6, <1>7

\* BroadcastHandle.push keeps the invariant.
LEMMA BroadcastPushOne == ASSUME BroadcastInv, NEW t \in Threads, PushOne(t) PROVE BroadcastInv'
<1>1. PICK h \in Handles :
             /\ h = Head(rest[t]) /\ pc[t] = "pushing" /\ Contains(rest[t], h) /\ hLock[h] = None
             /\ mode[h] # None
             /\ queue' = [queue EXCEPT ![h] = Append(@, <<t, sent[t]>>)]
             /\ Signal(h)
             /\ \A u \in Threads \ {t} : rest'[u] = rest[u]
             /\ rest' \in [Threads -> Seq(Handles)] /\ Distinct(rest'[t])
             /\ \A g : Contains(rest'[t], g) <=> Contains(rest[t], g) /\ g # h
             /\ UNCHANGED <<fileVars, unwanted, hLock, got, mode, op, sent, since>>
  BY PushesTo
<1>10. /\ fWriter' = fWriter /\ fReaders' = fReaders /\ files' = files /\ unwanted' = unwanted
       /\ hLock' = hLock /\ got' = got /\ mode' = mode /\ op' = op /\ sent' = sent
       /\ since' = since
  BY <1>1 DEF fileVars
<1> USE DEF BroadcastInv
<1>2. /\ \A u \in Threads : pc'[u] = pc[u] \/ (pc[u] = "waiting" /\ pc'[u] = "woken" /\ op[u] = h)
      /\ pc' \in [Threads -> {"idle", "open", "opening", "fetch", "waiting", "woken", "push",
                              "pushing", "close", "deregister", "deregistering"}]
      /\ waiters' \in [Handles -> Seq(Threads)]
      /\ \A g \in Handles \ {h} : waiters'[g] = waiters[g]
      /\ Distinct(waiters'[h])
      /\ \A u \in Threads :
             Contains(waiters'[h], u) <=> Contains(waiters[h], u) /\ pc'[u] = pc[u]
  <2>1. CASE UNCHANGED <<waiters, pc>>
    BY <2>1 DEF TypeInv, WaitInv
  <2>2. CASE waiters[h] # <<>> /\ ~UNCHANGED <<waiters, pc>>
    <3>1. PICK u \in Threads :
            /\ pc[u] = "waiting" /\ op[u] = h
            /\ pc' = [pc EXCEPT ![u] = "woken"]
            /\ waiters' = [waiters EXCEPT ![h] = Tail(@)]
            /\ waiters'[h] \in Seq(Threads) /\ Distinct(waiters'[h])
            /\ \A v : Contains(waiters'[h], v) <=> Contains(waiters[h], v) /\ v # u
      BY <1>1, <2>2, SignalWakes
    <3>2. pc'[u] = "woken" /\ \A v \in Threads \ {u} : pc'[v] = pc[v]
      BY <3>1 DEF TypeInv
    <3>3. waiters' \in [Handles -> Seq(Threads)]
          /\ \A g \in Handles \ {h} : waiters'[g] = waiters[g]
      BY <3>1 DEF TypeInv
    <3> QED BY ZenonT(20), <3>1, <3>2, <3>3 DEF TypeInv
  <2> QED BY <1>1, <2>1, <2>2, SignalWakes
<1>3. TypeInv'
  <2>1. queue' \in [Handles -> Seq(Threads \X Nat)]
    <3>1. queue[h] \in Seq(Threads \X Nat) /\ <<t, sent[t]>> \in Threads \X Nat
      BY DEF TypeInv
    <3>2. PICK q \in Seq(Threads \X Nat) : q = Append(queue[h], <<t, sent[t]>>)
      BY <3>1, InAppend
    <3>3. queue' = [queue EXCEPT ![h] = q]
      BY <1>1, <3>2
    <3> QED BY <3>3 DEF TypeInv
  <2> QED BY <1>1, <1>2, <1>10, <2>1 DEF TypeInv
<1>11. ASSUME NEW u \in Threads, NEW l \in {"idle", "open", "opening", "pushing", "deregister",
                                           "deregistering"}
       PROVE  pc'[u] = l <=> pc[u] = l
  BY <1>2
<1>4. OpInv'
  <2> SUFFICES ASSUME NEW u \in Threads
               PROVE  /\ pc'[u] = "idle" <=> op[u] = None
                      /\ op[u] # None => (mode[op[u]] = None <=> pc'[u] \in {"open", "opening"})
                      /\ pc'[u] \in {"open", "opening"} =>
                             \A v \in Threads \ {u} : op[v] # op[u]
    BY <1>10 DEF OpInv
  <2>1. /\ pc'[u] = "idle" <=> pc[u] = "idle"
        /\ pc'[u] \in {"open", "opening"} <=> pc[u] \in {"open", "opening"}
    BY <1>11
  <2> QED BY <2>1 DEF OpInv
<1>5. FreshInv'
  <2>1. \A g \in Handles \ {h} : queue'[g] = queue[g]
    BY <1>1 DEF TypeInv
  <2> SUFFICES ASSUME NEW g \in Handles, mode[g] = None
               PROVE  /\ queue'[g] = <<>> /\ got[g] = <<>> /\ waiters'[g] = <<>>
                      /\ ~unwanted[g] /\ hLock[g] = None
    BY <1>10 DEF FreshInv
  <2>2. g # h
    BY <1>1
  <2> QED BY <1>2, <2>1, <2>2 DEF FreshInv
<1>6. FilesInv' /\ Deregistered'
  BY <1>10 DEF FilesInv, Deregistered, consumer
<1>7. LockInv'
  BY <1>10, <1>11 DEF LockInv
<1>8. RestInv'
  BY <1>1, <1>10 DEF RestInv
<1>9. WaitInv'
  <2>1. ASSUME NEW g \in Handles, NEW u \in Threads
        PROVE  Contains(waiters'[g], u) <=> pc'[u] = "waiting" /\ op'[u] = g
    <3>1. CASE g = h
      BY <1>2, <1>10, <3>1 DEF WaitInv
    <3>2. CASE g # h
      BY <1>2, <1>10, <3>2 DEF WaitInv
    <3> QED BY <3>1, <3>2
  <2>2. \A g \in Handles : Distinct(waiters'[g])
    BY <1>2 DEF WaitInv
  <2> QED BY <2>1, <2>2 DEF WaitInv
<1> QED BY <1>3, <1>4, <1>5, <1>6, <1>7, <1>8, <1>9

\* The end of push keeps the invariant.
LEMMA BroadcastPushDone == ASSUME BroadcastInv, NEW t \in Threads, PushDone(t) PROVE BroadcastInv'
<1>1. /\ pc[t] = "pushing" /\ fReaders' = fReaders \ {t}
      /\ pc' = [pc EXCEPT ![t] = "idle"] /\ op' = [op EXCEPT ![t] = None]
      /\ UNCHANGED <<fWriter, files, handleVars, mode, rest, sent, since>>
  BY DEF PushDone, Return, Goto
<1> USE <1>1 DEF BroadcastInv, handleVars
<1>2. TypeInv'
  BY DEF TypeInv
<1>3. /\ pc'[t] = "idle" /\ op'[t] = None
      /\ \A u \in Threads \ {t} : pc'[u] = pc[u] /\ op'[u] = op[u]
  BY DEF TypeInv
<1>4. OpInv' /\ LockInv' /\ WaitInv'
  BY <1>3 DEF OpInv, LockInv, WaitInv
<1>5. FreshInv' /\ FilesInv' /\ RestInv' /\ Deregistered'
  BY DEF FreshInv, FilesInv, RestInv, Deregistered, consumer
<1> QED BY <1>2, <1>4, <1>5

\* Close keeps the invariant: it holds the lock of the handle until deregister is done.
LEMMA BroadcastClose == ASSUME BroadcastInv, NEW t \in Threads, Close(t) PROVE BroadcastInv'
<1>1. PICK h \in Handles, l \in {"deregister", "idle"} :
        /\ h = op[t] /\ pc[t] = "close" /\ hLock[h] = None
        /\ queue' = [queue EXCEPT ![h] = <<>>] /\ got' = [got EXCEPT ![h] = <<>>]
        /\ unwanted' = [unwanted EXCEPT ![h] = TRUE]
        /\ Broadcast(h, t, l)
        /\ consumer(h) <=> l = "deregister"
        /\ hLock' = IF l = "deregister" THEN [hLock EXCEPT ![h] = t] ELSE hLock
        /\ op' = IF l = "deregister" THEN op ELSE [op EXCEPT ![t] = None]
  BY HandleOf DEF Close
<1>2. UNCHANGED <<fileVars, mode, rest, sent, since>>
  BY DEF Close
<1> USE <1>2 DEF BroadcastInv, fileVars
<1>3. /\ pc'[t] = l /\ op'[t] = (IF l = "deregister" THEN h ELSE None)
      /\ \A u \in Threads \ {t} :
             /\ pc'[u] = IF pc[u] = "waiting" /\ op[u] = h THEN "woken" ELSE pc[u]
             /\ op'[u] = op[u]
      /\ pc' \in [Threads -> {"idle", "open", "opening", "fetch", "waiting", "woken", "push",
                              "pushing", "close", "deregister", "deregistering"}]
  BY <1>1 DEF Broadcast, TypeInv, WaitInv
<1>4. waiters' = [waiters EXCEPT ![h] = <<>>]
  BY <1>1 DEF Broadcast
<1>5. mode[h] # None
  BY <1>1 DEF OpInv
<1>6. /\ hLock' \in [Handles -> Threads \union {None}]
      /\ hLock'[h] = (IF l = "deregister" THEN t ELSE None)
      /\ \A g \in Handles \ {h} :
             /\ hLock'[g] = hLock[g] /\ queue'[g] = queue[g] /\ got'[g] = got[g]
             /\ unwanted'[g] = unwanted[g] /\ waiters'[g] = waiters[g]
      /\ waiters'[h] = <<>>
  BY <1>1, <1>4 DEF TypeInv
<1>7. TypeInv'
  <2>1. queue' \in [Handles -> Seq(Threads \X Nat)] /\ got' \in [Handles -> Seq(Threads \X Nat)]
    BY SMTT(20), <1>1 DEF TypeInv
  <2>2. waiters' \in [Handles -> Seq(Threads)] /\ unwanted' \in [Handles -> BOOLEAN]
    BY <1>1, <1>4 DEF TypeInv
  <2>3. op' \in [Threads -> Handles \union {None}]
    BY <1>1 DEF TypeInv
  <2> QED BY <1>3, <1>6, <2>1, <2>2, <2>3 DEF TypeInv
<1>8. OpInv'
  BY <1>1, <1>3, <1>5 DEF OpInv
<1>9. FreshInv'
  BY <1>5, <1>6 DEF FreshInv
<1>10. FilesInv' /\ RestInv'
  BY DEF FilesInv, RestInv, consumer
<1>11. LockInv'
  BY <1>1, <1>3, <1>6 DEF LockInv
<1>12. WaitInv'
  <2>1. ASSUME NEW g \in Handles, NEW u \in Threads
        PROVE  Contains(waiters'[g], u) <=> pc'[u] = "waiting" /\ op'[u] = g
    <3>1. CASE g = h
      BY <1>1, <1>3, <1>6, NothingIn, <3>1
    <3>2. CASE g # h
      <4>1. waiters'[g] = waiters[g]
        BY <1>6, <3>2
      <4>2. CASE u = t
        BY <1>1, <1>3, <4>1, <4>2 DEF WaitInv
      <4>3. CASE u # t
        BY <1>1, <1>3, <3>2, <4>1, <4>3 DEF WaitInv
      <4> QED BY <4>2, <4>3
    <3> QED BY <3>1, <3>2
  <2>2. \A g \in Handles : Distinct(waiters'[g])
    BY <1>6, NothingIn DEF WaitInv
  <2> QED BY <2>1, <2>2 DEF WaitInv
<1>13. Deregistered'
  <2>1. l = "idle" => ~Contains(files, h)
    BY <1>1 DEF FilesInv
  <2> QED BY <1>1, <1>6, <2>1 DEF Deregistered
<1> QED BY <1>7, <1>8, <1>9, <1>10, <1>11, <1>12, <1>13

\* Deregister keeps the invariant.
LEMMA BroadcastDeregister ==
    ASSUME BroadcastInv, NEW t \in Threads, Deregister(t)
    PROVE  BroadcastInv'
<1>1. PICK h \in Handles : h = op[t] /\ pc[t] = "deregistering"
  BY HandleOf DEF Deregister
<1>2. /\ files' = Without(h) /\ fReaders = {} /\ fWriter' = None
      /\ hLock' = [hLock EXCEPT ![h] = None]
      /\ pc' = [pc EXCEPT ![t] = "idle"] /\ op' = [op EXCEPT ![t] = None]
      /\ UNCHANGED <<fReaders, queue, unwanted, waiters, got, mode, rest, sent, since>>
  BY <1>1 DEF Deregister, Return, Goto
<1> USE <1>2 DEF BroadcastInv
<1>3. /\ files' \in Seq(Handles) /\ Distinct(files')
      /\ \A g : Contains(files', g) <=> Contains(files, g) /\ g # h
  <2>1. files \in Seq(Handles) /\ Distinct(files)
    BY DEF TypeInv, FilesInv
  <2>2. CASE Contains(files, h)
    BY <2>1, <2>2, InRemoveFirst DEF Without
  <2>3. CASE ~Contains(files, h)
    BY <2>1, <2>3 DEF Without
  <2> QED BY <2>2, <2>3
<1>4. /\ pc'[t] = "idle" /\ op'[t] = None /\ hLock'[h] = None
      /\ \A u \in Threads \ {t} : pc'[u] = pc[u] /\ op'[u] = op[u]
      /\ \A g \in Handles \ {h} : hLock'[g] = hLock[g]
  BY DEF TypeInv
<1>5. TypeInv'
  BY <1>3 DEF TypeInv
<1>6. OpInv' /\ WaitInv'
  BY <1>1, <1>4 DEF OpInv, WaitInv
<1>7. FreshInv' /\ RestInv'
  BY <1>4 DEF FreshInv, RestInv
<1>8. FilesInv' /\ Deregistered'
  BY <1>3, <1>4 DEF FilesInv, Deregistered, consumer
<1>9. LockInv'
  BY <1>1, <1>4 DEF LockInv
<1> QED BY <1>5, <1>6, <1>7, <1>8, <1>9

\* Every step keeps the invariant.
LEMMA NextBroadcast == BroadcastInv /\ [Next]_vars => BroadcastInv'
<1> SUFFICES ASSUME BroadcastInv, [Next]_vars PROVE BroadcastInv'
  OBVIOUS
<1>1. CASE UNCHANGED vars
  BY <1>1 DEF vars, BroadcastInv, TypeInv, OpInv, FreshInv, FilesInv, LockInv, RestInv, WaitInv,
              Deregistered, consumer
<1> QED BY <1>1, BroadcastCall, BroadcastLock, BroadcastOpen, BroadcastFetch, BroadcastPush,
           BroadcastPushOne, BroadcastPushDone, BroadcastClose, BroadcastDeregister
    DEF Next, Step

\* Deregistered, for any number of threads and handles, with handles closed twice and while
\* they are read or pushed to: after Close the file has no reference to the handle.
THEOREM ClosedForgotten == Spec => []Deregistered
<1>1. BroadcastInv => Deregistered
  BY DEF BroadcastInv
<1> QED BY <1>1, InitBroadcast, NextBroadcast, PTL DEF Spec

-----------------------------------------------------------------------------
(***************************************************************************)
(* Wakeups.                                                                *)
(***************************************************************************)
\* The readers of h that were woken and have not got its lock yet.
Awake(h) == {t \in Threads : pc[t] = "woken" /\ op[t] = h}

\* They are finitely many.
LEMMA AwakeFinite == ASSUME NEW h PROVE IsFiniteSet(Awake(h)) /\ Cardinality(Awake(h)) \in Nat
<1>1. IsFiniteSet(Awake(h))
  BY FS_Subset DEF Awake
<1> QED BY <1>1, FS_CardinalityType

\* NoLostWakeup in terms of Awake.
LEMMA WokenAre ==
    NoLostWakeup <=> \A h \in Handles :
                         waiters[h] # <<>> => /\ ~unwanted[h]
                                              /\ Len(queue[h]) <= Cardinality(Awake(h))
BY DEF NoLostWakeup, Awake

\* A step that leaves queues, waiters and the readers awake alone loses no wakeup.
LEMMA AsleepStill ==
    ASSUME NoLostWakeup, UNCHANGED <<waiters, unwanted, queue>>,
           \A h \in Handles : Awake(h)' = Awake(h)
    PROVE  NoLostWakeup'
BY WokenAre DEF NoLostWakeup, Awake

\* A read takes one message at most, and one reader at most is no longer awake.
LEMMA FetchWakes ==
    ASSUME BroadcastInv, NoLostWakeup, NEW t \in Threads, Fetch(t)
    PROVE  NoLostWakeup'
<1>1. PICK h \in Handles : h = op[t] /\ pc[t] \in {"fetch", "woken"}
  BY HandleOf DEF Fetch
<1>2. UNCHANGED unwanted /\ queue[h] \in Seq(Threads \X Nat)
  BY DEF Fetch, BroadcastInv, TypeInv
<1>3. /\ \A u \in Threads \ {t} : pc'[u] = pc[u] /\ op'[u] = op[u]
      /\ pc'[t] \in {"idle", "waiting"}
  BY DEF Fetch, Return, Goto, BroadcastInv, TypeInv
<1>4. /\ \A g \in Handles \ {h} : Awake(g)' = Awake(g)
      /\ Awake(h)' = Awake(h) \ {t}
  BY <1>1, <1>3 DEF Awake
<1>5. \A g \in Handles \ {h} : waiters'[g] = waiters[g] /\ queue'[g] = queue[g]
  BY <1>1 DEF Fetch, BroadcastInv, TypeInv
<1>6. ASSUME waiters'[h] # <<>>
      PROVE  ~unwanted[h] /\ Len(queue'[h]) <= Cardinality(Awake(h)')
  <2>1. CASE unwanted[h]
    <3>1. waiters'[h] = waiters[h]
      BY <1>1, <2>1 DEF Fetch
    <3> QED BY <1>6, <2>1, <3>1 DEF NoLostWakeup
  <2>2. CASE ~unwanted[h] /\ queue[h] = <<>>
    <3>1. queue'[h] = <<>> /\ Len(<<>>) = 0
      BY <1>1, <2>2 DEF Fetch
    <3>2. Cardinality(Awake(h) \ {t}) \in Nat
      BY AwakeFinite, FS_RemoveElement, FS_CardinalityType
    <3> QED BY <1>4, <2>2, <3>1, <3>2
  <2>3. CASE ~unwanted[h] /\ queue[h] # <<>>
    <3>1. waiters'[h] = waiters[h] /\ queue' = [queue EXCEPT ![h] = Tail(@)]
      BY <1>1, <2>3 DEF Fetch
    <3>2. queue'[h] = Tail(queue[h])
      BY <3>1 DEF BroadcastInv, TypeInv
    <3>3. Len(queue'[h]) = Len(queue[h]) - 1 /\ Len(queue[h]) \in Nat
      BY <1>2, <2>3, <3>2
    <3>4. Len(queue[h]) <= Cardinality(Awake(h))
      BY <1>6, <3>1, WokenAre
    <3>5. Cardinality(Awake(h) \ {t}) \in {Cardinality(Awake(h)), Cardinality(Awake(h)) - 1}
      BY AwakeFinite, FS_RemoveElement
    <3>6. Cardinality(Awake(h) \ {t}) \in Nat /\ Cardinality(Awake(h)) \in Nat
      BY AwakeFinite, FS_RemoveElement, FS_CardinalityType
    <3> QED BY <1>4, <2>3, <3>3, <3>4, <3>5, <3>6
  <2> QED BY <2>1, <2>2, <2>3
<1>7. ASSUME NEW g \in Handles, waiters'[g] # <<>>
      PROVE  ~unwanted'[g] /\ Len(queue'[g]) <= Cardinality(Awake(g)')
  <2>1. CASE g = h
    BY <1>2, <1>6, <1>7, <2>1
  <2>2. CASE g # h
    BY <1>2, <1>4, <1>5, <1>7, <2>2, WokenAre
  <2> QED BY <2>1, <2>2
<1> QED BY <1>7 DEF NoLostWakeup, Awake

\* A message more in the queue, and a reader more awake if any sleeps.
LEMMA PushWakes ==
    ASSUME BroadcastInv, NoLostWakeup, NEW t \in Threads, PushOne(t)
    PROVE  NoLostWakeup'
<1>1. PICK h \in Handles :
        /\ queue' = [queue EXCEPT ![h] = Append(@, <<t, sent[t]>>)]
        /\ Signal(h) /\ UNCHANGED <<unwanted, op>>
  BY PushesTo
<1>2. CASE UNCHANGED <<waiters, pc>> /\ waiters[h] = <<>>
  <2>1. \A g \in Handles : Awake(g)' = Awake(g)
    BY <1>1, <1>2 DEF Awake
  <2>2. \A g \in Handles \ {h} : queue'[g] = queue[g]
    BY <1>1 DEF BroadcastInv, TypeInv
  <2>3. ASSUME NEW g \in Handles, waiters'[g] # <<>>
        PROVE  ~unwanted'[g] /\ Len(queue'[g]) <= Cardinality(Awake(g)')
    <3>1. g # h
      BY <1>2, <2>3
    <3> QED BY <1>1, <1>2, <2>1, <2>2, <2>3, <3>1, WokenAre
  <2> QED BY <2>3 DEF NoLostWakeup, Awake
<1>3. CASE /\ waiters[h] # <<>>
           /\ \E u \in Threads :
                 /\ pc[u] = "waiting" /\ op[u] = h
                 /\ pc' = [pc EXCEPT ![u] = "woken"]
                 /\ waiters' = [waiters EXCEPT ![h] = Tail(@)]
  <2>1. PICK u \in Threads :
                 /\ pc[u] = "waiting" /\ op[u] = h
                 /\ pc' = [pc EXCEPT ![u] = "woken"]
                 /\ waiters' = [waiters EXCEPT ![h] = Tail(@)]
    BY <1>3
  <2>2. pc'[u] = "woken" /\ \A v \in Threads \ {u} : pc'[v] = pc[v]
    BY <2>1 DEF BroadcastInv, TypeInv
  <2>3. /\ \A g \in Handles \ {h} : Awake(g)' = Awake(g)
        /\ Awake(h)' = Awake(h) \union {u} /\ u \notin Awake(h)
    BY <1>1, <2>1, <2>2 DEF Awake
  <2>4. Cardinality(Awake(h)') = Cardinality(Awake(h)) + 1 /\ Cardinality(Awake(h)) \in Nat
    BY <2>3, AwakeFinite, FS_AddElement
  <2>5. /\ \A g \in Handles \ {h} : queue'[g] = queue[g] /\ waiters'[g] = waiters[g]
        /\ queue'[h] = Append(queue[h], <<t, sent[t]>>)
    BY <1>1, <2>1 DEF BroadcastInv, TypeInv
  <2>6. Len(queue'[h]) = Len(queue[h]) + 1 /\ Len(queue[h]) \in Nat
    <3>1. queue[h] \in Seq(Threads \X Nat) /\ <<t, sent[t]>> \in Threads \X Nat
      BY DEF BroadcastInv, TypeInv
    <3> QED BY <2>5, <3>1
  <2>7. ~unwanted[h] /\ Len(queue[h]) <= Cardinality(Awake(h))
    BY <1>3, WokenAre
  <2>8. ASSUME NEW g \in Handles, waiters'[g] # <<>>
        PROVE  ~unwanted'[g] /\ Len(queue'[g]) <= Cardinality(Awake(g)')
    <3>1. CASE g = h
      BY <1>1, <2>4, <2>6, <2>7, <3>1
    <3>2. CASE g # h
      BY <1>1, <2>3, <2>5, <2>8, <3>2, WokenAre
    <3> QED BY <3>1, <3>2
  <2> QED BY <2>8 DEF NoLostWakeup, Awake
<1> QED BY <1>1, <1>2, <1>3, SignalWakes

\* Close leaves no reader asleep on its handle, and no other handle is touched.
LEMMA CloseWakesAll ==
    ASSUME BroadcastInv, NoLostWakeup, NEW t \in Threads, Close(t)
    PROVE  NoLostWakeup'
<1>1. PICK h \in Handles, l \in {"deregister", "idle"} :
        /\ h = op[t] /\ pc[t] = "close"
        /\ queue' = [queue EXCEPT ![h] = <<>>]
        /\ unwanted' = [unwanted EXCEPT ![h] = TRUE]
        /\ Broadcast(h, t, l)
        /\ op' \in {op, [op EXCEPT ![t] = None]}
  BY HandleOf DEF Close
<1>2. /\ waiters'[h] = <<>>
      /\ \A g \in Handles \ {h} : /\ queue'[g] = queue[g] /\ waiters'[g] = waiters[g]
                                  /\ unwanted'[g] = unwanted[g]
  BY <1>1 DEF Broadcast, BroadcastInv, TypeInv
<1>3. /\ pc'[t] = l
      /\ \A u \in Threads \ {t} :
             /\ pc'[u] = IF pc[u] = "waiting" /\ op[u] = h THEN "woken" ELSE pc[u]
             /\ op'[u] = op[u]
  BY <1>1 DEF Broadcast, BroadcastInv, TypeInv, WaitInv
<1>4. \A g \in Handles \ {h} : Awake(g)' = Awake(g)
  BY <1>1, <1>3 DEF Awake
<1>5. ASSUME NEW g \in Handles, waiters'[g] # <<>>
      PROVE  ~unwanted'[g] /\ Len(queue'[g]) <= Cardinality(Awake(g)')
  <2>1. g # h
    BY <1>2, <1>5
  <2> QED BY <1>2, <1>4, <1>5, <2>1, WokenAre
<1> QED BY <1>5 DEF NoLostWakeup, Awake

\* No step loses a wakeup.
LEMMA NextWakes == BroadcastInv /\ NoLostWakeup /\ [Next]_vars => NoLostWakeup'
<1> SUFFICES ASSUME BroadcastInv, NoLostWakeup, [Next]_vars PROVE NoLostWakeup'
  OBVIOUS
<1>1. CASE UNCHANGED vars
  BY <1>1 DEF vars, NoLostWakeup
\* All other steps leave the queues, and who is awake, as they are.
<1>2. ASSUME NEW t \in Threads,
             Call(t) \/ Lock(t) \/ Open(t) \/ Push(t) \/ PushDone(t) \/ Deregister(t)
      PROVE  NoLostWakeup'
  <2>1. UNCHANGED <<waiters, unwanted, queue>>
    BY <1>2 DEF Call, Lock, Open, Push, PushDone, Deregister, handleVars
  <2>2. /\ pc[t] \notin {"woken", "waiting"} /\ pc'[t] # "woken"
        /\ \A u \in Threads \ {t} : pc'[u] = pc[u] /\ op'[u] = op[u]
    <3>1. CASE Call(t)
      BY <3>1 DEF Call, Goto, BroadcastInv, TypeInv
    <3>2. CASE Lock(t)
      BY <3>2 DEF Lock, Goto, BroadcastInv, TypeInv
    <3>3. CASE Open(t)
      BY <3>3 DEF Open, Return, Goto, BroadcastInv, TypeInv
    <3>4. CASE Push(t)
      BY <3>4 DEF Push, Goto, BroadcastInv, TypeInv
    <3>5. CASE PushDone(t)
      BY <3>5 DEF PushDone, Return, Goto, BroadcastInv, TypeInv
    <3>6. CASE Deregister(t)
      BY <3>6 DEF Deregister, Return, Goto, BroadcastInv, TypeInv
    <3> QED BY <1>2, <3>1, <3>2, <3>3, <3>4, <3>5, <3>6
  <2>3. \A h \in Handles : Awake(h)' = Awake(h)
    BY <2>2 DEF Awake
  <2> QED BY <2>1, <2>3, AsleepStill
<1> QED BY <1>1, <1>2, FetchWakes, PushWakes, CloseWakesAll DEF Next, Step

\* NoLostWakeup, for any number of threads and handles: Signal, called once for each message,
\* is enough, although a reader that comes late may take the message another was woken for.
THEOREM ReadersWoken == Spec => []NoLostWakeup
<1>1. Init => NoLostWakeup
  BY DEF Init, NoLostWakeup
<1> QED BY <1>1, InitBroadcast, NextBroadcast, NextWakes, PTL DEF Spec

-----------------------------------------------------------------------------
(***************************************************************************)
(* Delivery.                                                               *)
(***************************************************************************)
\* The messages of w in s are those from a + 1 to b, each once and in order.
Gapless(s, w, a, b) ==
    /\ a <= b
    /\ \A i, j \in By(w, s) : i < j => s[i][2] < s[j][2]
    /\ {s[i][2] : i \in By(w, s)} = (a + 1)..b

\* What the reads of h returned, and what they will find.
Line(h) == got[h] \o queue[h]

\* The number of messages of w that h should have.
Pushed(h, w) == IF pc[w] = "pushing" /\ Contains(rest[w], h) THEN sent[w] - 1 ELSE sent[w]

\* The inductive form of Delivered.
DeliveredInv ==
    \A h \in Handles, w \in Threads :
        Contains(files, h) /\ ~unwanted[h] => Gapless(Line(h), w, since[h][w], Pushed(h, w))

\* DeliveredInv is what Delivered says.
LEMMA NoGap == BroadcastInv /\ DeliveredInv => Delivered
<1> SUFFICES ASSUME BroadcastInv, DeliveredInv, NEW h \in Handles, NEW w \in Threads, Listening(h)
             PROVE  Gapless(Line(h), w, since[h][w], Pushed(h, w))
  BY DEF Delivered, Gapless, Line, Pushed
<1>1. Contains(files, h)
  <2>1. PICK i \in DOMAIN files : files[i] = h
    BY DEF Listening, Range
  <2>2. DOMAIN files = 1..Len(files)
    BY DEF BroadcastInv, TypeInv
  <2> QED BY <2>1, <2>2 DEF Contains
<1> QED BY <1>1 DEF Listening, DeliveredInv

\* Appending to the second of two sequences appends to both.
LEMMA ConcatAppend ==
    ASSUME NEW S, NEW s \in Seq(S), NEW q \in Seq(S), NEW e \in S
    PROVE  s \o Append(q, e) = Append(s \o q, e)
<1>1. <<e>> \in Seq(S) /\ s \o q \in Seq(S)
  BY ConcatProperties
<1>2. Append(q, e) = q \o <<e>> /\ Append(s \o q, e) = (s \o q) \o <<e>>
  BY <1>1, AppendIsConcat
<1>3. (s \o q) \o <<e>> = s \o (q \o <<e>>)
  BY <1>1, ConcatAssociative
<1> QED BY <1>2, <1>3

\* The same for sequences of messages.
LEMMA LineAppend ==
    ASSUME NEW s \in Seq(Threads \X Nat), NEW q \in Seq(Threads \X Nat), NEW e,
           e \in Threads \X Nat
    PROVE  s \o Append(q, e) = Append(s \o q, e)
<1>1. PICK M : M = Threads \X Nat
  OBVIOUS
<1>2. e \in M /\ s \in Seq(M) /\ q \in Seq(M)
  BY <1>1
<1> QED BY SMTT(20), <1>2, ConcatAppend

\* The first element of the second sequence may as well be the last of the first.
LEMMA HeadMoves ==
    ASSUME NEW S, NEW s \in Seq(S), NEW q \in Seq(S), q # <<>>
    PROVE  Append(s, Head(q)) \o Tail(q) = s \o q
<1>1. PICK e \in S, r \in Seq(S) : e = Head(q) /\ r = Tail(q)
  BY HeadTailProperties
<1>2. <<e>> \in Seq(S) /\ <<e>> \o r = q
  <2>1. PICK o : o = <<e>>
    OBVIOUS
  <2>2. o \in Seq(S) /\ Len(o) = 1 /\ o[1] = e
    BY <2>1
  <2>3. PICK n \in Nat : n + 1 = Len(q)
    <3>1. Len(q) \in Nat \ {0} /\ Len(q) - 1 \in Nat
      OBVIOUS
    <3> QED BY <3>1
  <2>4. Len(r) = n /\ e = q[1] /\ \A i \in 1..n : r[i] = q[i+1]
    BY <1>1, <2>3
  <2>5. /\ o \o r \in Seq(S) /\ Len(o \o r) = n + 1
        /\ \A i \in 1..(n+1) : (o \o r)[i] = IF i <= 1 THEN o[i] ELSE r[i - 1]
    <3>1. /\ o \o r \in Seq(S) /\ Len(o \o r) = Len(o) + Len(r)
          /\ \A i \in 1..(Len(o) + Len(r)) :
                 (o \o r)[i] = IF i <= Len(o) THEN o[i] ELSE r[i - Len(o)]
      BY <2>2, ConcatProperties
    <3>2. Len(o) + Len(r) = n + 1
      BY <2>2, <2>4
    <3> QED BY <2>2, <3>1, <3>2
  <2>6. ASSUME NEW i \in 1..(n+1) PROVE (o \o r)[i] = q[i]
    <3>1. CASE i = 1
      BY <2>2, <2>4, <2>5, <3>1
    <3>2. CASE i # 1
      <4>1. i - 1 \in 1..n /\ (i - 1) + 1 = i /\ ~(i <= 1)
        BY <3>2
      <4> QED BY <2>4, <2>5, <4>1
    <3> QED BY <3>1, <3>2
  <2>7. o \o r = q
    BY <2>3, <2>5, <2>6, SeqEqual
  <2> QED BY <2>1, <2>2, <2>7
<1>3. Append(s, e) = s \o <<e>>
  BY AppendIsConcat
<1>4. (s \o <<e>>) \o r = s \o (<<e>> \o r)
  BY <1>2, ConcatAssociative
<1> QED BY <1>1, <1>2, <1>3, <1>4

\* The next message of w leaves no gap.
LEMMA AppendNext ==
    ASSUME NEW s \in Seq(Threads \X Nat), NEW w \in Threads, NEW a \in Nat, NEW b \in Nat,
           Gapless(s, w, a, b)
    PROVE  Gapless(Append(s, <<w, b + 1>>), w, a, b + 1)
<1>1. PICK n \in Nat : n = Len(s)
  OBVIOUS
<1>2. PICK m : m = <<w, b + 1>>
  OBVIOUS
<1>3. m \in Threads \X Nat /\ m[1] = w /\ m[2] = b + 1
  BY <1>2
<1>4. PICK r : r = Append(s, m)
  OBVIOUS
<1>5. /\ Len(r) = n + 1 /\ r[n+1] = m /\ \A i \in 1..n : r[i] = s[i]
      /\ \A i \in 1..(n+1) : i \in 1..n \/ i = n + 1
      /\ n + 1 \in 1..(n+1) /\ n + 1 \notin 1..n /\ \A i \in 1..n : i \in 1..(n+1)
  BY <1>1, <1>3, <1>4
<1>6. By(w, r) = By(w, s) \union {n + 1} /\ \A i \in By(w, s) : i \in 1..n /\ r[i] = s[i]
  BY <1>1, <1>3, <1>5 DEF By
<1>7. \A i \in By(w, s) : s[i][2] \in (a+1)..b
  BY DEF Gapless
<1>8. ASSUME NEW i \in By(w, r), NEW j \in By(w, r), i < j PROVE r[i][2] < r[j][2]
  <2>1. CASE j \in By(w, s)
    <3>1. i \in By(w, s)
      BY <1>6, <1>8, <2>1
    <3> QED BY <1>6, <1>8, <2>1, <3>1 DEF Gapless
  <2>2. CASE j = n + 1
    <3>1. i \in By(w, s)
      BY <1>6, <1>8, <2>2
    <3>2. s[i][2] \in (a+1)..b /\ r[i] = s[i] /\ r[j][2] = b + 1
      BY <1>3, <1>5, <1>6, <1>7, <2>2, <3>1
    <3> QED BY <3>2
  <2> QED BY <1>6, <2>1, <2>2
<1>9. {r[i][2] : i \in By(w, r)} = (a + 1)..(b + 1)
  <2>1. \A i \in By(w, s) : r[i][2] = s[i][2]
    BY <1>6
  <2>2. r[n+1][2] = b + 1
    BY <1>3, <1>5
  <2>3. {r[i][2] : i \in By(w, r)} = {s[i][2] : i \in By(w, s)} \union {b + 1}
    BY <1>6, <2>1, <2>2
  <2>4. {s[i][2] : i \in By(w, s)} = (a + 1)..b /\ a <= b
    BY DEF Gapless
  <2>5. (a + 1)..b \union {b + 1} = (a + 1)..(b + 1)
    BY <2>4
  <2> QED BY <2>3, <2>4, <2>5
<1>10. a <= b + 1
  BY DEF Gapless
<1>11. Gapless(r, w, a, b + 1)
  BY <1>8, <1>9, <1>10 DEF Gapless
<1> QED BY <1>2, <1>4, <1>11

\* A message of another writer makes no difference to those of w.
LEMMA AppendOther ==
    ASSUME NEW s \in Seq(Threads \X Nat), NEW w \in Threads, NEW a \in Nat, NEW b \in Nat,
           Gapless(s, w, a, b), NEW x \in Threads \ {w}, NEW k \in Nat
    PROVE  Gapless(Append(s, <<x, k>>), w, a, b)
<1>1. PICK n \in Nat : n = Len(s)
  OBVIOUS
<1>2. PICK m : m = <<x, k>>
  OBVIOUS
<1>3. m \in Threads \X Nat /\ m[1] # w
  BY <1>2
<1>4. PICK r : r = Append(s, m)
  OBVIOUS
<1>5. /\ Len(r) = n + 1 /\ r[n+1] = m /\ \A i \in 1..n : r[i] = s[i]
      /\ \A i \in 1..(n+1) : i \in 1..n \/ i = n + 1
      /\ \A i \in 1..n : i \in 1..(n+1)
  BY <1>1, <1>3, <1>4
<1>6. By(w, r) = By(w, s) /\ \A i \in By(w, s) : r[i] = s[i]
  BY <1>1, <1>3, <1>5 DEF By
<1>7. {r[i][2] : i \in By(w, r)} = {s[i][2] : i \in By(w, s)}
  BY <1>6
<1>8. Gapless(r, w, a, b)
  BY <1>6, <1>7 DEF Gapless
<1> QED BY <1>2, <1>4, <1>8

\* A step keeps DeliveredInv if it changes neither what the handles have nor what they should.
LEMMA StillDelivered ==
    ASSUME DeliveredInv, UNCHANGED since,
           \A h \in Handles : Contains(files', h) /\ ~unwanted'[h] =>
               /\ Contains(files, h) /\ ~unwanted[h] /\ Line(h)' = Line(h)
               /\ \A w \in Threads : Pushed(h, w)' = Pushed(h, w)
    PROVE  DeliveredInv'
<1> SUFFICES ASSUME NEW h \in Handles, NEW w \in Threads, Contains(files', h), ~unwanted'[h]
             PROVE  Gapless(Line(h), w, since[h][w], Pushed(h, w))'
  BY DEF DeliveredInv
<1>1. /\ Line(h)' = Line(h) /\ Pushed(h, w)' = Pushed(h, w) /\ since' = since
      /\ Gapless(Line(h), w, since[h][w], Pushed(h, w))
  BY DEF DeliveredInv
<1> QED BY <1>1 DEF Gapless, By

\* A handle begins with nothing: Open excludes all pushes, so none is half done.
LEMMA OpenDelivers ==
    ASSUME BroadcastInv, DeliveredInv, NEW t \in Threads, Open(t)
    PROVE  DeliveredInv'
<1>1. PICK h \in Handles :
        /\ h = op[t] /\ pc[t] = "opening" /\ fReaders = {}
        /\ files' \in {files, Append(files, h)}
        /\ since' = [since EXCEPT ![h] = sent]
        /\ pc' = [pc EXCEPT ![t] = "idle"]
        /\ UNCHANGED <<queue, got, unwanted, rest, sent>>
  BY HandleOf DEF Open, Return, Goto, handleVars
<1>2. mode[h] = None
  BY <1>1, HandleOf DEF BroadcastInv, OpInv, TypeInv
<1>3. got[h] = <<>> /\ queue[h] = <<>>
  BY <1>2 DEF BroadcastInv, FreshInv
<1>4. \A w \in Threads : pc'[w] # "pushing" /\ pc[w] # "pushing"
  BY <1>1 DEF BroadcastInv, LockInv, TypeInv
<1>5. /\ \A w \in Threads : since'[h][w] = sent[w] /\ sent[w] \in Nat
      /\ \A g \in Handles \ {h} : since'[g] = since[g]
  BY <1>1 DEF BroadcastInv, TypeInv
<1>6. ASSUME NEW g \in Handles, NEW w \in Threads, Contains(files', g), ~unwanted'[g]
      PROVE  Gapless(Line(g), w, since[g][w], Pushed(g, w))'
  <2>1. CASE g = h
    <3>1. Line(g)' = <<>> /\ Pushed(g, w)' = sent[w]
      BY <1>1, <1>3, <1>4, <2>1 DEF Line, Pushed
    <3>2. Gapless(<<>>, w, sent[w], sent[w])
      BY <1>5 DEF Gapless, By
    <3> QED BY <1>5, <2>1, <3>1, <3>2 DEF Gapless, By
  <2>2. CASE g # h
    <3>1. Contains(files, g)
      <4>1. files \in Seq(Handles)
        BY DEF BroadcastInv, TypeInv
      <4>2. \A x : Contains(Append(files, h), x) <=> Contains(files, x) \/ x = h
        BY <4>1, InAppend
      <4> QED BY <1>1, <1>6, <2>2, <4>2
    <3>2. Line(g)' = Line(g) /\ Pushed(g, w)' = Pushed(g, w) /\ since'[g] = since[g]
      BY <1>1, <1>4, <1>5, <2>2 DEF Line, Pushed
    <3>3. Gapless(Line(g), w, since[g][w], Pushed(g, w))
      BY <1>1, <1>6, <3>1 DEF DeliveredInv
    <3> QED BY <3>2, <3>3 DEF Gapless, By
  <2> QED BY <2>1, <2>2
<1> QED BY <1>6 DEF DeliveredInv

\* A read moves the first message of the queue to what was returned.
LEMMA FetchDelivers ==
    ASSUME ~SmallReads, BroadcastInv, DeliveredInv, NEW t \in Threads, Fetch(t)
    PROVE  DeliveredInv'
<1>1. PICK h \in Handles : h = op[t] /\ pc[t] \in {"fetch", "woken"}
  BY HandleOf DEF Fetch
<1>2. /\ UNCHANGED <<files, unwanted, rest, sent, since>>
      /\ \A u \in Threads \ {t} : pc'[u] = pc[u]
      /\ pc'[t] \in {"idle", "waiting"}
  BY DEF Fetch, Return, Goto, BroadcastInv, TypeInv, fileVars
<1>3. \A g \in Handles, w \in Threads : Pushed(g, w)' = Pushed(g, w)
  BY <1>1, <1>2 DEF Pushed
<1>4. \A g \in Handles : Line(g)' = Line(g)
  <2>1. CASE UNCHANGED <<queue, got>>
    BY <2>1 DEF Line
  <2>2. CASE /\ queue[h] # <<>> /\ queue' = [queue EXCEPT ![h] = Tail(@)]
             /\ got' = [got EXCEPT ![h] = Append(@, Head(queue[h]))]
    <3>1. /\ \A g \in Handles \ {h} : queue'[g] = queue[g] /\ got'[g] = got[g]
          /\ queue'[h] = Tail(queue[h]) /\ got'[h] = Append(got[h], Head(queue[h]))
      BY <2>2 DEF BroadcastInv, TypeInv
    <3>2. queue[h] \in Seq(Threads \X Nat) /\ got[h] \in Seq(Threads \X Nat)
      BY DEF BroadcastInv, TypeInv
    <3>3. Append(got[h], Head(queue[h])) \o Tail(queue[h]) = got[h] \o queue[h]
      BY <2>2, <3>2, HeadMoves
    <3> QED BY <3>1, <3>3 DEF Line
  <2> QED BY <1>1, <2>1, <2>2 DEF Fetch
<1> QED BY <1>2, <1>3, <1>4, StillDelivered

\* A push that begins has reached no handle yet, and will visit all that are registered.
LEMMA PushDelivers ==
    ASSUME BroadcastInv, DeliveredInv, NEW t \in Threads, Push(t)
    PROVE  DeliveredInv'
<1>1. /\ pc[t] = "push" /\ rest' = [rest EXCEPT ![t] = files]
      /\ sent' = [sent EXCEPT ![t] = @ + 1] /\ pc' = [pc EXCEPT ![t] = "pushing"]
      /\ files' = files /\ queue' = queue /\ got' = got /\ unwanted' = unwanted /\ since' = since
  BY DEF Push, Goto, handleVars
<1>2. /\ pc'[t] = "pushing" /\ rest'[t] = files /\ sent[t] \in Nat /\ sent'[t] = sent[t] + 1
      /\ \A u \in Threads \ {t} : pc'[u] = pc[u] /\ rest'[u] = rest[u] /\ sent'[u] = sent[u]
  BY <1>1 DEF BroadcastInv, TypeInv
<1>3. ASSUME NEW h \in Handles, Contains(files, h), NEW w \in Threads
      PROVE  Pushed(h, w)' = Pushed(h, w)
  <2>1. CASE w = t
    BY <1>1, <1>2, <1>3, <2>1 DEF Pushed
  <2>2. CASE w # t
    BY <1>2, <2>2 DEF Pushed
  <2> QED BY <2>1, <2>2
<1> QED BY <1>1, <1>3, StillDelivered DEF Line

\* push gives the handle the next message of its writer.
LEMMA PushOneDelivers ==
    ASSUME BroadcastInv, DeliveredInv, NEW t \in Threads, PushOne(t)
    PROVE  DeliveredInv'
<1>1. PICK h \in Handles :
             /\ pc[t] = "pushing" /\ Contains(rest[t], h)
             /\ queue' = [queue EXCEPT ![h] = Append(@, <<t, sent[t]>>)]
             /\ Signal(h)
             /\ \A u \in Threads \ {t} : rest'[u] = rest[u]
             /\ \A g : Contains(rest'[t], g) <=> Contains(rest[t], g) /\ g # h
             /\ UNCHANGED <<fileVars, unwanted, got, sent, since>>
  BY PushesTo
<1>2. /\ files' = files /\ unwanted' = unwanted /\ got' = got /\ sent' = sent /\ since' = since
  BY <1>1 DEF fileVars
<1>3. \A u \in Threads : pc'[u] = "pushing" <=> pc[u] = "pushing"
  <2>1. CASE UNCHANGED <<waiters, pc>>
    BY <2>1
  <2>2. CASE \E u \in Threads : pc[u] = "waiting" /\ pc' = [pc EXCEPT ![u] = "woken"]
    BY <2>2 DEF BroadcastInv, TypeInv
  <2> QED BY <1>1, <2>1, <2>2, SignalWakes
<1>4. \A g \in Handles, w \in Threads : g # h \/ w # t => Pushed(g, w)' = Pushed(g, w)
  <2> SUFFICES ASSUME NEW g \in Handles, NEW w \in Threads, g # h \/ w # t
               PROVE  Pushed(g, w)' = Pushed(g, w)
    OBVIOUS
  <2>1. pc'[w] = "pushing" <=> pc[w] = "pushing"
    BY <1>3
  <2>2. Contains(rest'[w], g) <=> Contains(rest[w], g)
    BY <1>1
  <2> QED BY <1>2, <2>1, <2>2 DEF Pushed
<1>5. Pushed(h, t) = sent[t] - 1 /\ Pushed(h, t)' = sent[t] /\ sent[t] \in Nat
  BY <1>1, <1>2 DEF Pushed, BroadcastInv, TypeInv
<1>6. /\ \A g \in Handles \ {h} : Line(g)' = Line(g)
      /\ Line(h)' = Append(Line(h), <<t, sent[t]>>) /\ Line(h) \in Seq(Threads \X Nat)
  <2>1. /\ \A g \in Handles \ {h} : queue'[g] = queue[g]
        /\ queue'[h] = Append(queue[h], <<t, sent[t]>>)
    BY <1>1 DEF BroadcastInv, TypeInv
  <2>2. /\ queue[h] \in Seq(Threads \X Nat) /\ got[h] \in Seq(Threads \X Nat)
        /\ <<t, sent[t]>> \in Threads \X Nat
    BY DEF BroadcastInv, TypeInv
  <2>3. got[h] \o Append(queue[h], <<t, sent[t]>>) = Append(got[h] \o queue[h], <<t, sent[t]>>)
    BY ZenonT(20), <2>2, LineAppend
  <2>4. got[h] \o queue[h] \in Seq(Threads \X Nat)
    BY <2>2, ConcatProperties
  <2> QED BY <1>2, <2>1, <2>3, <2>4 DEF Line
<1>7. ASSUME NEW g \in Handles, NEW w \in Threads, Contains(files, g), ~unwanted[g]
      PROVE  Gapless(Line(g), w, since[g][w], Pushed(g, w))'
  <2>1. Gapless(Line(g), w, since[g][w], Pushed(g, w)) /\ since[g][w] \in Nat
    BY <1>7 DEF DeliveredInv, BroadcastInv, TypeInv
  <2>2. Pushed(g, w) \in Nat
    <3>1. since[g][w] <= Pushed(g, w)
      BY <2>1 DEF Gapless
    <3>2. Pushed(g, w) \in Int
      BY DEF Pushed, BroadcastInv, TypeInv
    <3> QED BY <2>1, <3>1, <3>2
  <2>3. CASE g # h
    BY <1>2, <1>4, <1>6, <2>1, <2>3 DEF Gapless, By
  <2>4. CASE g = h /\ w = t
    <3>1. Gapless(Append(Line(h), <<t, Pushed(h, t) + 1>>), t, since[h][t], Pushed(h, t) + 1)
      BY <1>6, <2>1, <2>2, <2>4, AppendNext
    <3>2. Pushed(h, t) + 1 = sent[t]
      BY <1>5
    <3>3. Gapless(Append(Line(h), <<t, sent[t]>>), t, since[h][t], sent[t])
      BY <3>1, <3>2
    <3>4. /\ Line(g)' = Append(Line(h), <<t, sent[t]>>) /\ Pushed(g, w)' = sent[t]
          /\ since' = since
      BY <1>2, <1>5, <1>6, <2>4
    <3> QED BY <2>4, <3>3, <3>4 DEF Gapless, By
  <2>5. CASE g = h /\ w # t
    <3>1. Gapless(Append(Line(h), <<t, sent[t]>>), w, since[h][w], Pushed(h, w))
      BY <1>5, <1>6, <2>1, <2>2, <2>5, AppendOther
    <3> QED BY ZenonT(20), <1>2, <1>4, <1>6, <2>5, <3>1 DEF Gapless, By
  <2> QED BY <2>3, <2>4, <2>5
<1> QED BY <1>2, <1>7 DEF DeliveredInv

\* A handle that is closed expects nothing.
LEMMA CloseDelivers ==
    ASSUME BroadcastInv, DeliveredInv, NEW t \in Threads, Close(t)
    PROVE  DeliveredInv'
<1>1. PICK h \in Handles, l \in {"deregister", "idle"} :
        /\ h = op[t] /\ pc[t] = "close"
        /\ queue' = [queue EXCEPT ![h] = <<>>] /\ got' = [got EXCEPT ![h] = <<>>]
        /\ unwanted' = [unwanted EXCEPT ![h] = TRUE]
        /\ Broadcast(h, t, l)
  BY HandleOf DEF Close
<1>2. files' = files /\ rest' = rest /\ sent' = sent /\ since' = since
  BY DEF Close, fileVars
<1>3. \A u \in Threads : pc'[u] = "pushing" <=> pc[u] = "pushing"
  BY <1>1 DEF Broadcast, BroadcastInv, TypeInv, WaitInv
<1>4. /\ unwanted'[h]
      /\ \A g \in Handles \ {h} : /\ queue'[g] = queue[g] /\ got'[g] = got[g]
                                  /\ unwanted'[g] = unwanted[g]
  BY <1>1 DEF BroadcastInv, TypeInv
<1> QED BY <1>2, <1>3, <1>4, StillDelivered DEF Line, Pushed

\* Every step keeps DeliveredInv.
LEMMA NextDelivers ==
    ASSUME ~SmallReads, BroadcastInv, DeliveredInv, [Next]_vars
    PROVE  DeliveredInv'
<1>1. CASE UNCHANGED vars
  BY <1>1, StillDelivered DEF vars, Line, Pushed
<1>2. ASSUME NEW t \in Threads, Call(t) \/ Lock(t) PROVE DeliveredInv'
  <2>1. /\ UNCHANGED <<files, unwanted, queue, got, rest, sent, since>>
        /\ \A u \in Threads : pc'[u] = "pushing" <=> pc[u] = "pushing"
    BY <1>2 DEF Call, Lock, Goto, fileVars, handleVars, BroadcastInv, TypeInv
  <2> QED BY <2>1, StillDelivered DEF Line, Pushed
<1>3. ASSUME NEW t \in Threads, PushDone(t) PROVE DeliveredInv'
  <2>1. /\ files' = files /\ unwanted' = unwanted /\ queue' = queue /\ got' = got /\ rest' = rest
        /\ sent' = sent /\ since' = since
        /\ \A u \in Threads \ {t} : pc'[u] = pc[u]
        /\ rest[t] = <<>> /\ pc'[t] = "idle"
    BY <1>3 DEF PushDone, Return, Goto, fileVars, handleVars, BroadcastInv, TypeInv
  <2>2. \A h \in Handles, w \in Threads : Pushed(h, w)' = Pushed(h, w)
    BY <2>1, NothingIn DEF Pushed
  <2> QED BY <2>1, <2>2, StillDelivered DEF Line
<1>4. ASSUME NEW t \in Threads, Deregister(t) PROVE DeliveredInv'
  <2>1. /\ files' = Without(op[t]) /\ op[t] \in Handles
        /\ UNCHANGED <<unwanted, queue, got, rest, sent, since>>
        /\ \A u \in Threads \ {t} : pc'[u] = pc[u]
        /\ pc[t] # "pushing" /\ pc'[t] = "idle"
    BY <1>4, HandleOf DEF Deregister, Return, Goto, BroadcastInv, TypeInv
  <2>2. \A h \in Handles : Contains(files', h) => Contains(files, h)
    <3>1. files \in Seq(Handles) /\ Distinct(files)
      BY DEF BroadcastInv, TypeInv, FilesInv
    <3> QED BY <2>1, <3>1, InRemoveFirst DEF Without
  <2>3. \A h \in Handles, w \in Threads : Pushed(h, w)' = Pushed(h, w)
    BY <2>1 DEF Pushed
  <2> QED BY <2>1, <2>2, <2>3, StillDelivered DEF Line
<1> QED BY <1>1, <1>2, <1>3, <1>4, OpenDelivers, FetchDelivers, PushDelivers, PushOneDelivers,
           CloseDelivers DEF Next, Step

\* Delivered, for any number of threads, handles and messages: a handle that stays open gets
\* every message written since it was opened, once and in order.  Reads are large enough for
\* their message; one that is not loses it (ErrMessageTooBig).
THEOREM MessagesDelivered == ASSUME ~SmallReads PROVE Spec => []Delivered
<1>1. Init => DeliveredInv
  BY NothingIn DEF Init, DeliveredInv
<1>2. BroadcastInv /\ DeliveredInv /\ [Next]_vars => DeliveredInv'
  BY NextDelivers
<1> QED BY <1>1, <1>2, InitBroadcast, NextBroadcast, NoGap, PTL DEF Spec
=============================================================================
