--------------------------- MODULE ClientFidProofs ---------------------------
(***************************************************************************)
(* The fids of a Client, for every number of calls and fids: the client's  *)
(* pool, the fids the application holds and the fids of the server.        *)
(* A fid changes hands in three places at different times (getFid, the     *)
(* answer, the return of the call); the invariant says at each step of a   *)
(* call which of the three have it.                                        *)
(***************************************************************************)
EXTENDS ClientProofs

\* The application calls neither FlushAll nor Stop and does not race a Version call.
Steady == Env \subseteq {"breaks", "removefails"}

\* The request of call c is on its way or at the server.
Asked(c) ==
    \/ \E i \in 1..Len(toServer) : toServer[i].call = c
    \/ \E m \in pending : m.call = c

\* The server has not yet decided on call c.
Before(c) == pc[c] \in {"tag", "send", "write"} \/ Asked(c)

\* The answer w is on its way to call c, or has reached it.
Told(c, w) ==
    \/ \E i \in 1..Len(toClient) : toClient[i].call = c /\ toClient[i].what = w
    \/ pc[c] = "wait" /\ buf[c] # None /\ buf[c].what = w
    \/ pc[c] = "reply" /\ result[c] = w

\* What is true of a call by itself: no fid before it begins, a response once its channel is closed.
LocalInv ==
    \A c \in Calls :
        /\ pc[c] = "idle" => fid[c] = NoFid /\ newfid[c] = NoFid
        /\ pc[c] = "wait" /\ closed[c] => buf[c] # None
        /\ pc[c] = "reply" /\ newfid[c] # NoFid => result[c] \in {"ok", "error", "short", "io"}

\* A Version call is alone, and made when there is no fid.
AloneInv ==
    \A c \in Calls : kind[c] = "version" /\ ~Over(c) =>
        fids = {} /\ \A d \in Calls \ {c} : Over(d)

\* The client knows every fid the application holds and every fid the server has.
PoolsInv == held \subseteq fids /\ srvFids \subseteq fids

\* The server has every fid the application holds, unless a clunk or remove of it is under way.
HeldInv == \A f \in held : Ending(f) \/ f \in srvFids

\* The fid a call introduces is nobody else's, and the server has it exactly from its "ok" on.
NewInv ==
    \A c \in Calls :
        newfid[c] # NoFid =>
            /\ newfid[c] \in fids \ held
            /\ kind[c] \in Introduces /\ pc[c] \in {"send", "write", "wait", "reply"}
            /\ \A d \in Calls \ {c} : newfid[d] # newfid[c]
            /\ Before(c) => newfid[c] \notin srvFids
            /\ Told(c, "ok") => newfid[c] \in srvFids
            /\ \A w : Told(c, w) /\ w # "ok" => newfid[c] \notin srvFids

\* The fid a call ends is in no other call's hands, and the server has it until it decides.
EndInv ==
    \A c \in Calls :
        kind[c] \in Ends /\ ~Over(c) =>
            /\ fid[c] \in held
            /\ \A d \in Calls \ {c} : Over(d) \/ fid[d] # fid[c]
            /\ Before(c) => fid[c] \in srvFids
            /\ Told(c, "ok") => fid[c] \notin srvFids
            /\ Told(c, "error") =>
                   kind[c] = "remove" /\ "removefails" \in Env /\ fid[c] \notin srvFids
            /\ pc[c] = "reply" /\ result[c] \notin {"ok", "error"} => fid[c] \in srvFids
            /\ ~Told(c, "short")

\* The inductive invariant of the fids.
FidInv ==
    /\ job.what = "none"
    /\ LocalInv /\ AloneInv /\ PoolsInv /\ HeldInv /\ NewInv /\ EndInv

\* Every fid in the map is held by the application or about to be.
LeakInv == \A f \in fids : f \in held \/ \E c \in Calls : newfid[c] = f

USE TransportAssumption, ClientAssumption

\* Steady is a case of Calm.
LEMMA SteadyCalm == Steady => Calm
BY DEF Steady, Calm

\* The initial states satisfy FidInv and LeakInv.
LEMMA InitFid == Init => FidInv /\ LeakInv
<1> SUFFICES ASSUME Init PROVE FidInv /\ LeakInv
  OBVIOUS
<1> USE DEF Init, TransportInit, NoJob
<1>1. LocalInv /\ AloneInv /\ PoolsInv
  BY DEF LocalInv, AloneInv, PoolsInv
<1>2. HeldInv /\ NewInv /\ EndInv /\ LeakInv
  BY DEF HeldInv, NewInv, EndInv, LeakInv, Ends
<1> QED BY <1>1, <1>2 DEF FidInv

\* Only a call that waits has a message in flight.
LEMMA NoMessage ==
    ASSUME TypeInv, CallInv, NEW c \in Calls, pc[c] # "wait" \/ closed[c]
    PROVE  /\ ~Asked(c)
           /\ \A i \in 1..Len(toClient) : toClient[i].call # c
<1>1. \A t \in Tags : queue[t] = c => pc[c] # "wait"
  BY DEF CallInv, QueueInv
<1>2. ASSUME NEW m, Matches(m), m.call = c, m.tag \in Tags PROVE FALSE
  BY <1>1, <1>2 DEF Matches
<1> QED BY <1>2, MessageTypes DEF CallInv, FlightInv, Asked

\* A step that leaves the pools and the progress of every call as they are.
LEMMA FrameAll ==
    ASSUME TypeInv, FidInv, UNCHANGED <<pc, result, kind, fid, newfid, fids, held, srvFids, job>>,
           \A d \in Calls : Asked(d)' => Asked(d),
           \A d \in Calls : \A w : Told(d, w)' => Told(d, w),
           \A d \in Calls : pc[d] = "wait" /\ closed'[d] => buf'[d] # None
    PROVE  FidInv'
<1>1. \A d \in Calls : Before(d)' => Before(d)
  BY DEF Before
<1>2. LocalInv' /\ AloneInv' /\ PoolsInv' /\ HeldInv'
  BY DEF FidInv, LocalInv, AloneInv, PoolsInv, HeldInv, Ending, Over
<1>3. NewInv'
  BY <1>1 DEF FidInv, NewInv
<1>4. EndInv'
  BY <1>1 DEF FidInv, EndInv, Over
<1> QED BY <1>2, <1>3, <1>4 DEF FidInv

\* A step of call c that leaves the pools as they are.
LEMMA FrameCall ==
    ASSUME TypeInv, FidInv, NEW c \in Calls, ~Over(c), ~Over(c)',
           UNCHANGED <<kind, fid, newfid, fids, held, srvFids, job>>,
           \A d \in Calls \ {c} :
               /\ pc'[d] = pc[d] /\ result'[d] = result[d]
               /\ buf'[d] = buf[d] /\ closed'[d] = closed[d]
               /\ Asked(d)' => Asked(d)
               /\ \A w : Told(d, w)' => Told(d, w),
           newfid[c] # NoFid => pc'[c] \in {"send", "write", "wait", "reply"},
           pc'[c] = "wait" /\ closed'[c] => buf'[c] # None,
           pc'[c] = "reply" /\ newfid[c] # NoFid => result'[c] \in {"ok", "error", "short", "io"},
           \/ Before(c) /\ \A w : ~Told(c, w)'
           \/ /\ Before(c) /\ ~Before(c)' /\ pc'[c] = "reply"
              /\ \A w : Told(c, w)' => w \notin {"ok", "error", "short"}
           \/ /\ ~Before(c)' /\ \A w : Told(c, w)' => Told(c, w)
              /\ pc'[c] = "reply" => result'[c] \in {"ok", "error", "short"} /\ Told(c, result'[c])
    PROVE  FidInv'
<1>1. \A d \in Calls \ {c} : Before(d)' => Before(d)
  BY DEF Before
<1>2. LocalInv'
  BY DEF FidInv, LocalInv, Over
<1>3. \A d \in Calls : Over(d)' <=> Over(d)
  BY DEF Over
<1>4. AloneInv' /\ PoolsInv' /\ HeldInv'
  BY <1>3 DEF FidInv, AloneInv, PoolsInv, HeldInv, Ending
<1>5. NewInv'
  <2>1. ASSUME NEW d \in Calls, newfid[d] # NoFid, d # c
        PROVE  /\ newfid[d] \in fids \ held
               /\ kind[d] \in Introduces /\ pc'[d] \in {"send", "write", "wait", "reply"}
               /\ \A e \in Calls \ {d} : newfid[e] # newfid[d]
               /\ Before(d)' => newfid[d] \notin srvFids
               /\ Told(d, "ok")' => newfid[d] \in srvFids
               /\ \A w : Told(d, w)' /\ w # "ok" => newfid[d] \notin srvFids
    BY <1>1, <2>1 DEF FidInv, NewInv
  <2>2. ASSUME newfid[c] # NoFid
        PROVE  /\ newfid[c] \in fids \ held
               /\ kind[c] \in Introduces /\ pc'[c] \in {"send", "write", "wait", "reply"}
               /\ \A e \in Calls \ {c} : newfid[e] # newfid[c]
               /\ Before(c)' => newfid[c] \notin srvFids
               /\ Told(c, "ok")' => newfid[c] \in srvFids
               /\ \A w : Told(c, w)' /\ w # "ok" => newfid[c] \notin srvFids
    BY <2>2 DEF FidInv, NewInv
  <2> QED BY <2>1, <2>2 DEF NewInv
<1>6. EndInv'
  <2>1. ASSUME NEW d \in Calls, kind[d] \in Ends, ~Over(d), d # c
        PROVE  /\ fid[d] \in held
               /\ \A e \in Calls \ {d} : Over(e) \/ fid[e] # fid[d]
               /\ Before(d)' => fid[d] \in srvFids
               /\ Told(d, "ok")' => fid[d] \notin srvFids
               /\ Told(d, "error")' =>
                      kind[d] = "remove" /\ "removefails" \in Env /\ fid[d] \notin srvFids
               /\ pc'[d] = "reply" /\ result'[d] \notin {"ok", "error"} => fid[d] \in srvFids
               /\ ~Told(d, "short")'
    BY <1>1, <2>1 DEF FidInv, EndInv
  <2>2. ASSUME kind[c] \in Ends
        PROVE  /\ fid[c] \in held
               /\ \A e \in Calls \ {c} : Over(e) \/ fid[e] # fid[c]
               /\ Before(c)' => fid[c] \in srvFids
               /\ Told(c, "ok")' => fid[c] \notin srvFids
               /\ Told(c, "error")' =>
                      kind[c] = "remove" /\ "removefails" \in Env /\ fid[c] \notin srvFids
               /\ pc'[c] = "reply" /\ result'[c] \notin {"ok", "error"} => fid[c] \in srvFids
               /\ ~Told(c, "short")'
    <3>1. /\ fid[c] \in held
          /\ \A e \in Calls \ {c} : Over(e) \/ fid[e] # fid[c]
          /\ Before(c) => fid[c] \in srvFids
          /\ Told(c, "ok") => fid[c] \notin srvFids
          /\ Told(c, "error") =>
                      kind[c] = "remove" /\ "removefails" \in Env /\ fid[c] \notin srvFids
          /\ ~Told(c, "short")
      BY <2>2 DEF FidInv, EndInv
    <3>2. CASE Before(c) /\ \A w : ~Told(c, w)'
      BY <3>1, <3>2 DEF Told
    <3>3. CASE /\ Before(c) /\ ~Before(c)' /\ pc'[c] = "reply"
               /\ \A w : Told(c, w)' => w \notin {"ok", "error", "short"}
      BY <3>1, <3>3
    <3>4. CASE /\ ~Before(c)' /\ \A w : Told(c, w)' => Told(c, w)
               /\ pc'[c] = "reply" => result'[c] \in {"ok", "error", "short"} /\ Told(c, result'[c])
      BY <3>1, <3>4
    <3> QED BY <3>2, <3>3, <3>4
  <2> QED BY <1>3, <2>1, <2>2 DEF EndInv
<1> QED BY <1>2, <1>4, <1>5, <1>6 DEF FidInv

\* Obtaining a tag, or failing to, keeps FidInv.
LEMMA FidCallTag ==
    ASSUME TypeInv, CallInv, FidInv, NEW c \in Calls, CallTag(c)
    PROVE  FidInv'
<1>1. /\ pc[c] = "tag"
      /\ UNCHANGED <<buf, closed, ch, serveVars, netVars, clientVars, serverVars>>
  BY TagSteps
<1>2. newfid[c] = NoFid
  BY <1>1 DEF FidInv, NewInv
<1>3. /\ ~Over(c) /\ Before(c)
      /\ ~Asked(c) /\ \A i \in 1..Len(toClient) : toClient[i].call # c
  BY <1>1, NoMessage DEF Over, Before
<1>4. ASSUME pc' = [pc EXCEPT ![c] = pc'[c]], pc'[c] \in {"fid", "send", "reply"},
             \A d \in Calls \ {c} : result'[d] = result[d],
             pc'[c] = "reply" => result'[c] \notin {"ok", "error", "short"},
             pc'[c] = "fid" => kind[c] \in Introduces
      PROVE  FidInv'
  <2>1. \A d : Asked(d)' <=> Asked(d)
    BY <1>1 DEF Asked, netVars, serverVars
  <2>2. \A d \in Calls \ {c} : pc'[d] = pc[d] /\ \A w : Told(d, w)' => Told(d, w)
    BY <1>1, <1>4 DEF Told, netVars, TypeInv, TypeOK, TransportTypeOK
  <2>3. \A w : Told(c, w)' => pc'[c] = "reply" /\ result'[c] = w
    BY <1>1, <1>3, <1>4 DEF Told, netVars
  <2>4. ~Over(c)' /\ pc'[c] # "wait"
    BY <1>4 DEF Over
  <2>5. CASE pc'[c] = "send"
    BY <1>1, <1>2, <1>3, <1>4, <2>1, <2>2, <2>3, <2>4, <2>5, FrameCall DEF clientVars, serverVars
  <2>6. CASE pc'[c] = "fid"
    BY <1>1, <1>2, <1>3, <1>4, <2>1, <2>2, <2>3, <2>4, <2>6, FrameCall DEF clientVars, serverVars
  <2>7. CASE pc'[c] = "reply"
    <3>1. ~Before(c)'
      BY <1>3, <2>1, <2>7 DEF Before
    <3> QED BY <1>1, <1>2, <1>3, <1>4, <2>1, <2>2, <2>3, <2>4, <2>7, <3>1, FrameCall
        DEF clientVars, serverVars
  <2> QED BY <1>4, <2>5, <2>6, <2>7
<1>5. CASE \E r \in {"depleted", "unexpected", "taginuse"} : Yield(c, r)
  <2>1. PICK r \in {"depleted", "unexpected", "taginuse"} : Yield(c, r)
    BY <1>5
  <2>2. pc' = [pc EXCEPT ![c] = "reply"] /\ result' = [result EXCEPT ![c] = r]
    BY <2>1 DEF Yield, Goto
  <2>3. pc'[c] = "reply" /\ result'[c] = r /\ \A d \in Calls \ {c} : result'[d] = result[d]
    BY <2>2 DEF TypeInv, TypeOK, TransportTypeOK
  <2> QED BY <1>4, <2>2, <2>3
<1>6. CASE \E t \in Tags, l \in {"fid", "send"} :
               Take(c, t, l) /\ (l = "fid" <=> kind[c] \in Introduces)
  <2>1. PICK t \in Tags, l \in {"fid", "send"} :
               Take(c, t, l) /\ (l = "fid" <=> kind[c] \in Introduces)
    BY <1>6
  <2>2. pc' = [pc EXCEPT ![c] = l] /\ result' = result
    BY <2>1 DEF Take, Goto
  <2>3. pc'[c] = l
    BY <2>2 DEF TypeInv, TypeOK, TransportTypeOK
  <2> QED BY <1>4, <2>1, <2>2, <2>3
<1> QED BY <1>5, <1>6, TagSteps

\* Looking up the channel keeps FidInv.
LEMMA FidGetChannel ==
    ASSUME TypeInv, CallInv, FidInv, NEW c \in Calls, GetChannel(c),
           UNCHANGED <<clientVars, serverVars>>
    PROVE  FidInv'
<1>1. pc[c] = "send" /\ queue[tag[c]] = c
  BY DEF GetChannel, CallInv, HoldsInv
<1>2. /\ pc' = [pc EXCEPT ![c] = "write"]
      /\ UNCHANGED <<chanVars, tag, result, serveVars, netVars, clientVars, serverVars>>
  BY <1>1 DEF GetChannel, Goto
<1>3. /\ ~Over(c) /\ Before(c)
      /\ ~Asked(c) /\ \A i \in 1..Len(toClient) : toClient[i].call # c
  BY <1>1, NoMessage DEF Over, Before
<1>4. \A d : Asked(d)' <=> Asked(d)
  BY <1>2 DEF Asked, netVars, serverVars
<1>5. \A d \in Calls \ {c} : pc'[d] = pc[d] /\ \A w : Told(d, w)' => Told(d, w)
  BY <1>2 DEF Told, netVars, chanVars, TypeInv, TypeOK, TransportTypeOK
<1>6. pc'[c] = "write"
  BY <1>2 DEF TypeInv, TypeOK, TransportTypeOK
<1>7. ~Over(c)' /\ \A w : ~Told(c, w)'
  BY <1>2, <1>3, <1>6 DEF Over, Told, netVars
<1> QED BY <1>2, <1>3, <1>4, <1>5, <1>6, <1>7, FrameCall DEF clientVars, serverVars, chanVars

\* Writing the request, or failing to, keeps FidInv.
LEMMA FidWrite ==
    ASSUME TypeInv, CallInv, FidInv, NEW c \in Calls, Write(c, Request(c)),
           UNCHANGED <<clientVars, serverVars>>
    PROVE  FidInv'
<1>1. /\ pc[c] = "write" /\ UNCHANGED <<chanVars, tag, ch, serve, conn, toClient>>
  BY DEF Write
<1>2. /\ ~Over(c) /\ Before(c)
      /\ ~Asked(c) /\ \A i \in 1..Len(toClient) : toClient[i].call # c
  BY <1>1, NoMessage DEF Over, Before
<1>3. closed[c] = FALSE
  BY <1>1 DEF CallInv, HoldsInv, QueueInv, TypeInv, TypeOK, TransportTypeOK
<1>4. CASE /\ toServer' = Append(toServer, Request(c))
           /\ pc' = [pc EXCEPT ![c] = "wait"] /\ UNCHANGED result
  <2>1. PICK n \in Nat : n = Len(toServer)
    BY MessageTypes
  <2>2. /\ Len(toServer') = n + 1 /\ toServer'[n+1] = Request(c)
        /\ \A i \in 1..n : toServer'[i] = toServer[i]
        /\ \A i \in 1..(n+1) : i \in 1..n \/ i = n + 1
    BY <1>4, <2>1, MessageTypes
  <2>3. \A d \in Calls \ {c} : Asked(d)' => Asked(d)
    BY <2>1, <2>2 DEF Asked, Request, serverVars
  <2>4. Asked(c)'
    BY <2>1, <2>2 DEF Asked, Request
  <2>5. \A d \in Calls \ {c} : pc'[d] = pc[d] /\ \A w : Told(d, w)' => Told(d, w)
    BY <1>1, <1>4 DEF Told, chanVars, TypeInv, TypeOK, TransportTypeOK
  <2>6. pc'[c] = "wait" /\ buf[c] = None
    BY <1>1, <1>4 DEF CallInv, HoldsInv, QueueInv, TypeInv, TypeOK, TransportTypeOK
  <2>7. ~Over(c)' /\ \A w : ~Told(c, w)'
    BY <1>1, <1>2, <2>6 DEF Over, Told, chanVars
  <2> QED BY <1>1, <1>2, <1>3, <1>4, <2>3, <2>5, <2>6, <2>7, FrameCall
      DEF clientVars, serverVars, chanVars
<1>5. CASE /\ UNCHANGED toServer
           /\ pc' = [pc EXCEPT ![c] = "reply"] /\ result' = [result EXCEPT ![c] = "io"]
  <2>1. \A d : Asked(d)' <=> Asked(d)
    BY <1>5 DEF Asked, serverVars
  <2>2. /\ pc'[c] = "reply" /\ result'[c] = "io"
        /\ \A d \in Calls \ {c} : pc'[d] = pc[d] /\ result'[d] = result[d]
    BY <1>5 DEF TypeInv, TypeOK, TransportTypeOK
  <2>3. \A d \in Calls \ {c} : \A w : Told(d, w)' => Told(d, w)
    BY <1>1, <2>2 DEF Told, chanVars
  <2>4. ~Over(c)' /\ ~Before(c)' /\ \A w : Told(c, w)' => w = "io"
    BY <1>1, <1>2, <2>1, <2>2 DEF Over, Before, Told
  <2> QED BY <1>1, <1>2, <2>1, <2>2, <2>3, <2>4, FrameCall DEF clientVars, serverVars, chanVars
<1>6. CASE UNCHANGED <<toServer, result>> /\ pc' = [pc EXCEPT ![c] = "wait"]
  <2>1. \A d : Asked(d)' <=> Asked(d)
    BY <1>6 DEF Asked, serverVars
  <2>2. \A d \in Calls \ {c} : pc'[d] = pc[d] /\ \A w : Told(d, w)' => Told(d, w)
    BY <1>1, <1>6 DEF Told, chanVars, TypeInv, TypeOK, TransportTypeOK
  <2>3. pc'[c] = "wait" /\ buf[c] = None
    BY <1>1, <1>6 DEF CallInv, HoldsInv, QueueInv, TypeInv, TypeOK, TransportTypeOK
  <2>4. ~Over(c)' /\ \A w : ~Told(c, w)'
    BY <1>1, <1>2, <2>3 DEF Over, Told, chanVars
  <2> QED BY <1>1, <1>2, <1>3, <1>6, <2>1, <2>2, <2>3, <2>4, FrameCall
      DEF clientVars, serverVars, chanVars
<1> QED BY <1>4, <1>5, <1>6 DEF Write, Yield, Goto

\* Receiving the response keeps FidInv.
LEMMA FidAwait ==
    ASSUME TypeInv, CallInv, FidInv, NEW c \in Calls, Await(c), UNCHANGED <<clientVars, serverVars>>
    PROVE  FidInv'
<1>1. pc[c] = "wait" /\ ch[c] = c /\ closed[c]
  BY DEF Await, CallInv, HoldsInv
<1>2. buf[c] # None /\ buf[c] \in Responses
  BY <1>1 DEF FidInv, LocalInv, TypeInv, TypeOK, TransportTypeOK
<1>3. PICK w \in {"ok", "error", "short"} : w = buf[c].what
  BY <1>2 DEF Responses
<1>4. /\ pc' = [pc EXCEPT ![c] = "reply"] /\ result' = [result EXCEPT ![c] = w]
      /\ buf' = [buf EXCEPT ![c] = None]
      /\ UNCHANGED <<queue, nextTag, closed, tag, ch, serveVars, netVars>>
  BY <1>1, <1>2, <1>3 DEF Await, Yield, Goto
<1>5. /\ ~Over(c) /\ ~Asked(c) /\ \A i \in 1..Len(toClient) : toClient[i].call # c
  BY <1>1, NoMessage DEF Over
<1>6. \A d : Asked(d)' <=> Asked(d)
  BY <1>4 DEF Asked, netVars, serverVars
<1>7. /\ pc'[c] = "reply" /\ result'[c] = w
      /\ \A d \in Calls \ {c} : pc'[d] = pc[d] /\ result'[d] = result[d] /\ buf'[d] = buf[d]
  BY <1>4 DEF TypeInv, TypeOK, TransportTypeOK
<1>8. \A d \in Calls \ {c} : \A v : Told(d, v)' => Told(d, v)
  BY <1>4, <1>7 DEF Told, netVars
<1>9. Told(c, w) /\ \A v : Told(c, v)' => v = w
  BY <1>1, <1>2, <1>3, <1>4, <1>5, <1>7 DEF Told, netVars
<1>10. ~Over(c)' /\ ~Before(c)'
  BY <1>5, <1>6, <1>7 DEF Over, Before
<1> QED BY <1>4, <1>5, <1>6, <1>7, <1>8, <1>9, <1>10, FrameCall DEF clientVars, serverVars

\* Serve keeps FidInv.
LEMMA FidServe == ASSUME TypeInv, CallInv, FidInv, Serve PROVE FidInv'
<1>1. UNCHANGED <<callVars, conn, toServer, clientVars, serverVars>>
  BY DEF Serve, ServeLoop, ServeCheck, received, ReadFails, chanVars, netVars
<1>2. \A d : Asked(d)' <=> Asked(d)
  BY <1>1 DEF Asked, serverVars
<1>3. CASE ServeCheck \/ ReadFails
  <2>1. UNCHANGED <<buf, closed, toClient>>
    BY <1>3 DEF ServeCheck, ReadFails, chanVars, netVars
  <2>2. \A d \in Calls : \A w : Told(d, w)' => Told(d, w)
    BY <1>1, <2>1 DEF Told, callVars
  <2>3. \A d \in Calls : pc[d] = "wait" /\ closed'[d] => buf'[d] # None
    BY <2>1 DEF FidInv, LocalInv
  <2> QED BY <1>1, <1>2, <2>2, <2>3, FrameAll DEF callVars, clientVars, serverVars
<1>4. CASE received
  <2>1. PICK m : m = Head(toClient)
    OBVIOUS
  <2>2. toClient # <<>> /\ toClient' = Tail(toClient)
    BY <1>4 DEF received
  <2>3. PICK n \in Nat : n + 1 = Len(toClient)
    <3>1. toClient \in Seq(Responses)
      BY MessageTypes
    <3>2. Len(toClient) \in Nat \ {0} /\ Len(toClient) - 1 \in Nat
      BY <2>2, <3>1
    <3> QED BY <3>2
  <2>4. /\ m = toClient[1] /\ Len(toClient') = n /\ 1 \in 1..Len(toClient)
        /\ \A i \in 1..n : toClient'[i] = toClient[i+1] /\ i + 1 \in 1..Len(toClient)
    BY <2>1, <2>2, <2>3, MessageTypes
  <2>5. m \in Responses /\ m.tag \in Tags /\ m.call \in Calls /\ Matches(m)
    <3>1. toClient \in Seq(Responses)
      BY MessageTypes
    <3> QED BY <2>4, <3>1, MessageTypes DEF CallInv, FlightInv
  <2>6. PICK k \in Calls : k = m.call /\ queue[m.tag] = k /\ pc[k] = "wait"
    BY <2>5 DEF Matches
  <2>7. buf' = [buf EXCEPT ![k] = m] /\ closed' = [closed EXCEPT ![k] = TRUE]
    BY <1>4, <2>1, <2>6 DEF received
  <2>8. m # None
    BY <2>5
  <2>9. \A d \in Calls : \A w : Told(d, w)' => Told(d, w)
    BY <1>1, <2>4, <2>6, <2>7 DEF Told, callVars, TypeInv, TypeOK, TransportTypeOK
  <2>10. \A d \in Calls : pc[d] = "wait" /\ closed'[d] => buf'[d] # None
    BY <2>7, <2>8 DEF FidInv, LocalInv, TypeInv, TypeOK, TransportTypeOK
  <2> QED BY <1>1, <1>2, <2>9, <2>10, FrameAll DEF callVars, clientVars, serverVars
<1> QED BY <1>3, <1>4 DEF Serve, ServeLoop

\* A break of the connection keeps FidInv.
LEMMA FidBreak == ASSUME TypeInv, FidInv, Break PROVE FidInv'
<1>1. /\ toServer' = <<>> /\ toClient' = <<>> /\ pending' = {}
      /\ UNCHANGED <<chanVars, callVars, serveVars, clientVars, srvFids>>
  BY DEF Break
<1>2. \A d : ~Asked(d)'
  BY <1>1 DEF Asked
<1>3. \A d \in Calls : \A w : Told(d, w)' => Told(d, w)
  BY <1>1 DEF Told, callVars, chanVars
<1> QED BY <1>1, <1>2, <1>3, FrameAll DEF callVars, clientVars, chanVars, FidInv, LocalInv

\* A new call on a fid that no other call is ending keeps FidInv.
LEMMA FidAppCall ==
    ASSUME Steady, TypeInv, CallInv, FidInv, NEW c \in Calls, AppCall(c)
    PROVE  FidInv'
<1>1. /\ pc[c] = "idle" /\ fid[c] = NoFid /\ newfid[c] = NoFid
      /\ pc' = [pc EXCEPT ![c] = "tag"]
      /\ \A d \in Calls \ {c} : kind[d] # "version" \/ Over(d)
      /\ UNCHANGED <<chanVars, tag, ch, result, serveVars, netVars, newfid, fids, job, held,
                     serverVars>>
  BY DEF AppCall, Idle, Begin, Goto, FidInv, LocalInv, Steady, Over
<1>2. PICK k \in App :
        /\ kind' = [kind EXCEPT ![c] = k]
        /\ \/ k \in {"attach", "version"} /\ UNCHANGED fid
           \/ \E f \in held : /\ k \in {"walk", "io"} /\ ~Ending(f)
                              /\ fid' = [fid EXCEPT ![c] = f]
           \/ \E f \in held : /\ k \in Ends /\ ~Busy(f)
                              /\ fid' = [fid EXCEPT ![c] = f]
        /\ k = "version" => Quiet /\ fids = {}
  BY DEF AppCall, Begin, Steady
<1> USE DEF chanVars, netVars, serverVars
<1>3. /\ pc'[c] = "tag" /\ kind'[c] = k
      /\ \A d \in Calls \ {c} : pc'[d] = pc[d] /\ kind'[d] = kind[d] /\ fid'[d] = fid[d]
  BY <1>1, <1>2 DEF TypeInv, TypeOK, TransportTypeOK
<1>4. \A d : Asked(d)' <=> Asked(d)
  BY <1>1 DEF Asked
<1>5. \A d \in Calls \ {c} : /\ Over(d)' <=> Over(d)
                             /\ Before(d)' <=> Before(d)
                             /\ \A w : Told(d, w)' <=> Told(d, w)
  BY <1>1, <1>3, <1>4 DEF Over, Before, Told
<1>6. ~Over(c)' /\ Over(c) /\ \A w : ~Told(c, w)'
  BY <1>1, <1>3, NoMessage DEF Over, Told
<1>7. \A f : Ending(f) => Ending(f)'
  BY <1>3, <1>5, <1>6 DEF Ending
<1>8. LocalInv'
  BY <1>1, <1>3 DEF FidInv, LocalInv
<1>9. AloneInv'
  <2>1. CASE k = "version"
    BY <1>1, <1>2, <1>3, <1>5, <2>1 DEF AloneInv, Quiet
  <2>2. CASE k # "version"
    BY <1>1, <1>3, <1>5, <2>2 DEF AloneInv
  <2> QED BY <2>1, <2>2
<1>10. PoolsInv' /\ HeldInv'
  BY <1>1, <1>7 DEF FidInv, PoolsInv, HeldInv
<1>11. NewInv'
  <2> SUFFICES ASSUME NEW d \in Calls, newfid[d] # NoFid
               PROVE  /\ newfid[d] \in fids \ held
                      /\ kind'[d] \in Introduces /\ pc'[d] \in {"send", "write", "wait", "reply"}
                      /\ \A e \in Calls \ {d} : newfid[e] # newfid[d]
                      /\ Before(d)' => newfid[d] \notin srvFids
                      /\ Told(d, "ok")' => newfid[d] \in srvFids
                      /\ \A w : Told(d, w)' /\ w # "ok" => newfid[d] \notin srvFids
    BY <1>1 DEF NewInv
  <2>1. d # c
    BY <1>1
  <2> QED BY <1>3, <1>5, <2>1 DEF FidInv, NewInv
<1>12. EndInv'
  <2>1. ASSUME NEW d \in Calls \ {c}, kind[d] \in Ends, ~Over(d)
        PROVE  fid[d] \in held /\ fid'[c] # fid[d]
    <3>1. fid[d] \in held /\ fid[d] # NoFid
      BY <2>1, Bounds DEF FidInv, EndInv, TypeInv, TypeOK
    <3>2. \A f : fid' = [fid EXCEPT ![c] = f] => fid'[c] = f
      BY DEF TypeInv, TypeOK
    <3>3. Ending(fid[d]) /\ Busy(fid[d])
      BY <2>1 DEF Ending, Busy
    <3> QED BY <1>1, <1>2, <3>1, <3>2, <3>3
  <2>2. ASSUME NEW d \in Calls \ {c}, kind'[d] \in Ends, ~Over(d)'
        PROVE  /\ fid'[d] \in held
               /\ \A e \in Calls \ {d} : Over(e)' \/ fid'[e] # fid'[d]
               /\ Before(d)' => fid'[d] \in srvFids
               /\ Told(d, "ok")' => fid'[d] \notin srvFids
               /\ Told(d, "error")' =>
                      kind'[d] = "remove" /\ "removefails" \in Env /\ fid'[d] \notin srvFids
               /\ pc'[d] = "reply" /\ result'[d] \notin {"ok", "error"} => fid'[d] \in srvFids
               /\ ~Told(d, "short")'
    <3>1. kind[d] \in Ends /\ ~Over(d) /\ fid'[d] = fid[d] /\ pc'[d] = pc[d]
          /\ result' = result /\ kind'[d] = kind[d]
      BY <1>1, <1>3, <1>5, <2>2
    <3>2. \A e \in Calls \ {d} : Over(e)' \/ fid'[e] # fid'[d]
      BY <1>3, <1>5, <2>1, <3>1 DEF FidInv, EndInv
    <3> QED BY <1>5, <3>1, <3>2 DEF FidInv, EndInv
  <2>3. ASSUME k \in Ends
        PROVE  /\ fid'[c] \in held
               /\ \A e \in Calls \ {c} : Over(e)' \/ fid'[e] # fid'[c]
               /\ fid'[c] \in srvFids
    <3>1. PICK f \in held : ~Busy(f) /\ fid' = [fid EXCEPT ![c] = f]
      BY <1>2, <2>3 DEF Ends
    <3>2. fid'[c] = f
      BY <3>1 DEF TypeInv, TypeOK
    <3>3. ~Ending(f)
      BY <3>1 DEF Ending, Busy
    <3> QED BY <1>3, <1>5, <3>1, <3>2, <3>3 DEF FidInv, HeldInv, Busy
  <2>4. srvFids' = srvFids /\ held' = held
    BY <1>1
  <2> QED BY <1>3, <1>6, <2>2, <2>3, <2>4 DEF EndInv
<1>13. job'.what = "none"
  BY <1>1 DEF FidInv
<1> QED BY <1>8, <1>9, <1>10, <1>11, <1>12, <1>13 DEF FidInv

\* getFid takes a fid that neither the application nor the server has.
LEMMA FidGetFid ==
    ASSUME TypeInv, CallInv, FidInv, NEW c \in Calls, getFid(c)
    PROVE  FidInv'
<1>1. /\ pc[c] = "fid" /\ kind[c] \in Introduces /\ newfid[c] = NoFid
      /\ Unused \in FidNumbers \ fids
  BY UnusedFree DEF getFid, TypeInv, NewfidInv, FidInv, NewInv
<1>2. PICK u \in FidNumbers \ fids : u = Unused
  BY <1>1
<1>3. /\ newfid' = [newfid EXCEPT ![c] = u] /\ fids' = fids \union {u}
      /\ pc' = [pc EXCEPT ![c] = "send"]
      /\ UNCHANGED <<buf, closed, result, toServer, toClient, pending, srvFids, kind, fid, job,
                     held>>
  BY <1>2 DEF getFid, FidInv, Goto, chanVars, netVars, serverVars
<1>4. /\ pc'[c] = "send" /\ newfid'[c] = u
      /\ \A d \in Calls \ {c} : pc'[d] = pc[d] /\ newfid'[d] = newfid[d]
  BY <1>3 DEF TypeInv, TypeOK, TransportTypeOK
<1>5. \A d : Asked(d)' <=> Asked(d)
  BY <1>3 DEF Asked
<1>6. \A d \in Calls : Over(d)' <=> Over(d)
  BY <1>1, <1>4 DEF Over
<1>7. \A d \in Calls \ {c} : /\ Before(d)' <=> Before(d)
                             /\ \A w : Told(d, w)' <=> Told(d, w)
  BY <1>3, <1>4, <1>5 DEF Before, Told
<1>8. \A w : ~Told(c, w)'
  BY <1>1, <1>3, <1>4, NoMessage DEF Told
<1>9. LocalInv'
  BY <1>3, <1>4 DEF FidInv, LocalInv
<1>10. AloneInv'
  <2>1. \A d \in Calls : Over(d) \/ kind[d] # "version"
    BY <1>1 DEF FidInv, AloneInv, Over, Introduces
  <2> QED BY <1>3, <1>6, <2>1 DEF AloneInv
<1>11. PoolsInv' /\ HeldInv'
  BY <1>3, <1>6 DEF FidInv, PoolsInv, HeldInv, Ending
<1>12. NewInv'
  <2>1. u \notin held /\ u \notin srvFids
    BY DEF FidInv, PoolsInv
  <2>2. \A d \in Calls \ {c} : newfid[d] # u
    BY Bounds DEF FidInv, NewInv, TypeInv, TypeOK
  <2>3. ASSUME NEW d \in Calls \ {c}, newfid[d] # NoFid
        PROVE  /\ newfid[d] \in fids' \ held
               /\ kind[d] \in Introduces /\ pc'[d] \in {"send", "write", "wait", "reply"}
               /\ \A e \in Calls \ {d} : newfid'[e] # newfid[d]
               /\ Before(d)' => newfid[d] \notin srvFids
               /\ Told(d, "ok")' => newfid[d] \in srvFids
               /\ \A w : Told(d, w)' /\ w # "ok" => newfid[d] \notin srvFids
    BY <1>3, <1>4, <1>7, <2>2, <2>3 DEF FidInv, NewInv
  <2> QED BY <1>1, <1>3, <1>4, <1>8, <2>1, <2>2, <2>3 DEF NewInv
<1>13. EndInv'
  <2>1. ASSUME NEW d \in Calls, kind[d] \in Ends, ~Over(d)
        PROVE  /\ fid[d] \in held
               /\ \A e \in Calls \ {d} : Over(e) \/ fid[e] # fid[d]
               /\ Before(d)' => fid[d] \in srvFids
               /\ Told(d, "ok")' => fid[d] \notin srvFids
               /\ Told(d, "error")' =>
                      kind[d] = "remove" /\ "removefails" \in Env /\ fid[d] \notin srvFids
               /\ pc'[d] = "reply" /\ result[d] \notin {"ok", "error"} => fid[d] \in srvFids
               /\ ~Told(d, "short")'
    <3>1. d # c
      BY <1>1, <2>1 DEF Introduces, Ends
    <3> QED BY <1>4, <1>7, <2>1, <3>1 DEF FidInv, EndInv
  <2> QED BY <1>3, <1>6, <2>1 DEF EndInv
<1> QED BY <1>3, <1>9, <1>10, <1>11, <1>12, <1>13 DEF FidInv

\* What the call leaves in the pool and in the hands of the application.
LEMMA FidReturn ==
    ASSUME TypeInv, CallInv, FidInv, NEW c \in Calls, Return(c)
    PROVE  FidInv'
<1>1. /\ pc[c] = "reply" /\ fids' = fids \ Forgotten(c)
      /\ held' = CASE kind[c] \in Introduces /\ result[c] = "ok" -> held \union {newfid[c]}
                 [] kind[c] = "clunk" /\ result[c] = "ok" -> held \ {fid[c]}
                 [] kind[c] = "remove" /\ result[c] \in {"ok", "error"} -> held \ {fid[c]}
                 [] OTHER -> held
      /\ pc' = [pc EXCEPT ![c] = "done"] /\ kind' = [kind EXCEPT ![c] = "none"]
      /\ result' = [result EXCEPT ![c] = "none"]
      /\ fid' = [fid EXCEPT ![c] = NoFid] /\ newfid' = [newfid EXCEPT ![c] = NoFid]
      /\ UNCHANGED <<chanVars, netVars, job, serverVars>>
  BY DEF Return, Goto, Forget
<1>2. /\ pc'[c] = "done" /\ kind'[c] = "none" /\ newfid'[c] = NoFid /\ fid'[c] = NoFid
      /\ \A d \in Calls \ {c} :
             /\ pc'[d] = pc[d] /\ kind'[d] = kind[d] /\ result'[d] = result[d]
             /\ fid'[d] = fid[d] /\ newfid'[d] = newfid[d]
  BY <1>1 DEF TypeInv, TypeOK, TransportTypeOK
<1>3. ~Over(c) /\ Over(c)' /\ \A d \in Calls \ {c} : Over(d)' <=> Over(d)
  BY <1>1, <1>2 DEF Over
<1>4. \A d : Asked(d)' <=> Asked(d)
  BY <1>1 DEF Asked, netVars, serverVars
<1>5. \A d \in Calls \ {c} : /\ Before(d)' <=> Before(d)
                             /\ \A w : Told(d, w)' <=> Told(d, w)
  BY <1>1, <1>2, <1>4 DEF Before, Told, chanVars, netVars
<1>6. Told(c, result[c])
  BY <1>1 DEF Told
\* The five ways the pools change.
<1>7. \/ held' = held /\ fids' = fids /\ (newfid[c] # NoFid => newfid[c] \notin srvFids)
         /\ (kind[c] \in Ends => fid[c] \in srvFids)
      \/ /\ newfid[c] \in fids \ held /\ newfid[c] \in srvFids /\ kind[c] \notin Ends
         /\ held' = held \union {newfid[c]} /\ fids' = fids
      \/ /\ kind[c] \notin Ends /\ held' = held /\ fids' = fids \ {newfid[c]}
         /\ newfid[c] \notin held /\ newfid[c] \notin srvFids
      \/ /\ kind[c] \in Ends /\ fid[c] \in held \ srvFids
         /\ held' = held \ {fid[c]} /\ fids' \in {fids, fids \ {fid[c]}}
  <2>1. CASE kind[c] \in Introduces /\ result[c] = "ok"
    <3>1. newfid[c] \in FidNumbers /\ newfid[c] # NoFid
      BY <1>1, <2>1, Bounds DEF TypeInv, NewfidInv
    <3>2. newfid[c] \in fids \ held /\ newfid[c] \in srvFids
      BY <1>6, <2>1, <3>1 DEF FidInv, NewInv
    <3>3. held' = held \union {newfid[c]} /\ Forgotten(c) = {} /\ kind[c] \notin Ends
      BY <1>1, <2>1 DEF Introduces, Ends, Forgotten
    <3> QED BY <1>1, <3>2, <3>3
  <2>2. CASE kind[c] \in Introduces /\ result[c] # "ok"
    <3>1. held' = held /\ kind[c] \notin Ends /\ Forgotten(c) \in {{}, {newfid[c]}}
      BY <1>1, <2>2 DEF Introduces, Ends, Forgotten
    <3>2. newfid[c] # NoFid => newfid[c] \notin srvFids /\ newfid[c] \notin held
      BY <1>6, <2>2 DEF FidInv, NewInv
    <3>3. NoFid \notin srvFids /\ NoFid \notin held
      BY Bounds DEF TypeInv, TypeOK
    <3> QED BY <1>1, <3>1, <3>2, <3>3
  <2>3. CASE kind[c] \in Ends
    <3>1. fid[c] \in held /\ newfid[c] = NoFid
      BY <1>3, <2>3 DEF FidInv, EndInv, NewInv, Introduces, Ends
    <3>2. CASE result[c] = "ok"
      <4>1. fid[c] \notin srvFids
        BY <1>3, <1>6, <2>3, <3>2 DEF FidInv, EndInv
      <4>2. held' = held \ {fid[c]} /\ Forgotten(c) = {fid[c]}
        BY <1>1, <2>3, <3>2 DEF Forgotten, Ends, Introduces
      <4> QED BY <1>1, <2>3, <3>1, <4>1, <4>2
    <3>3. CASE result[c] = "error"
      <4>1. kind[c] = "remove" /\ fid[c] \notin srvFids
        BY <1>3, <1>6, <2>3, <3>3 DEF FidInv, EndInv
      <4>2. held' = held \ {fid[c]} /\ Forgotten(c) = {}
        BY <1>1, <3>3, <4>1 DEF Forgotten, Ends, Introduces
      <4> QED BY <1>1, <2>3, <3>1, <4>1, <4>2
    <3>4. CASE result[c] \notin {"ok", "error"}
      <4>1. fid[c] \in srvFids
        BY <1>1, <1>3, <2>3, <3>4 DEF FidInv, EndInv
      <4>2. held' = held /\ Forgotten(c) = {}
        BY <1>1, <2>3, <3>4 DEF Forgotten, Ends, Introduces
      <4> QED BY <1>1, <3>1, <4>1, <4>2
    <3> QED BY <3>2, <3>3, <3>4
  <2>4. CASE kind[c] \notin Introduces \union Ends
    <3>1. newfid[c] = NoFid
      BY <2>4 DEF FidInv, NewInv
    <3>2. held' = held /\ Forgotten(c) = {}
      BY <1>1, <2>4 DEF Forgotten, Ends, Introduces
    <3> QED BY <1>1, <2>4, <3>1, <3>2
  <2> QED BY <2>1, <2>2, <2>3, <2>4
<1>8. LocalInv'
  BY <1>1, <1>2 DEF FidInv, LocalInv, chanVars
<1>9. AloneInv'
  BY <1>2, <1>3 DEF FidInv, AloneInv
<1>10. PoolsInv' /\ srvFids' = srvFids
  BY <1>1, <1>7 DEF FidInv, PoolsInv, serverVars
<1>11. HeldInv'
  <2> SUFFICES ASSUME NEW f \in held', f \notin srvFids PROVE Ending(f)'
    BY <1>10 DEF HeldInv
  <2>1. f \in held /\ (kind[c] \in Ends => fid[c] # f)
    BY <1>7
  <2>2. PICK d \in Calls : ~Over(d) /\ fid[d] = f /\ kind[d] \in Ends
    BY <2>1 DEF FidInv, HeldInv, Ending
  <2> QED BY <1>2, <1>3, <2>1, <2>2 DEF Ending
<1>12. NewInv'
  <2> SUFFICES ASSUME NEW d \in Calls \ {c}, newfid[d] # NoFid
               PROVE  /\ newfid[d] \in fids' \ held'
                      /\ kind[d] \in Introduces /\ pc[d] \in {"send", "write", "wait", "reply"}
                      /\ \A e \in Calls \ {d} : newfid'[e] # newfid[d]
                      /\ Before(d)' => newfid[d] \notin srvFids
                      /\ Told(d, "ok")' => newfid[d] \in srvFids
                      /\ \A w : Told(d, w)' /\ w # "ok" => newfid[d] \notin srvFids
    BY <1>2, <1>10 DEF NewInv
  <2>1. newfid[d] \in fids \ held /\ newfid[c] # newfid[d]
    BY DEF FidInv, NewInv
  <2>2. newfid[d] \in fids' \ held'
    BY <1>7, <2>1
  <2> QED BY <1>2, <1>5, <2>2 DEF FidInv, NewInv
<1>13. EndInv'
  <2> SUFFICES ASSUME NEW d \in Calls \ {c}, kind[d] \in Ends, ~Over(d)
               PROVE  /\ fid[d] \in held'
                      /\ \A e \in Calls \ {d} : Over(e)' \/ fid'[e] # fid[d]
                      /\ Before(d)' => fid[d] \in srvFids
                      /\ Told(d, "ok")' => fid[d] \notin srvFids
                      /\ Told(d, "error")' =>
                             kind[d] = "remove" /\ "removefails" \in Env /\ fid[d] \notin srvFids
                      /\ pc[d] = "reply" /\ result[d] \notin {"ok", "error"} => fid[d] \in srvFids
                      /\ ~Told(d, "short")'
    BY <1>2, <1>3, <1>10 DEF EndInv, Ends
  <2>1. fid[d] \in held /\ fid[c] # fid[d]
    BY <1>3 DEF FidInv, EndInv
  <2>2. fid[d] \in held'
    BY <1>7, <2>1
  <2>3. \A e \in Calls \ {d} : Over(e)' \/ fid'[e] # fid[d]
    BY <1>2, <1>3 DEF FidInv, EndInv
  <2> QED BY <1>5, <2>2, <2>3 DEF FidInv, EndInv
<1> QED BY <1>1, <1>8, <1>9, <1>10, <1>11, <1>12, <1>13 DEF FidInv

\* The server answers call k with w, and its fids change as the answer says.
LEMMA FrameAnswer ==
    ASSUME TypeInv, CallInv, FidInv, NEW k \in Calls, NEW w, pc[k] = "wait", Before(k),
           UNCHANGED <<chanVars, callVars, clientVars>>,
           \A d \in Calls : Asked(d)' => Asked(d),
           ~Asked(k)',
           \A d \in Calls \ {k} : \A v : Told(d, v)' => Told(d, v),
           \A v : Told(k, v)' => v = w,
           \/ /\ srvFids' = srvFids /\ kind[k] \notin Ends
              /\ w # "ok" \/ kind[k] \notin Introduces
           \/ kind[k] \in Introduces /\ w = "ok" /\ srvFids' = srvFids \union {newfid[k]}
           \/ /\ kind[k] \in Ends /\ srvFids' = srvFids \ {fid[k]}
              /\ w = "ok" \/ (w = "error" /\ kind[k] = "remove" /\ "removefails" \in Env)
    PROVE  FidInv'
<1> USE DEF chanVars, callVars, clientVars
<1>1. ~Over(k) /\ ~Before(k)'
  BY DEF Over, Before
<1>2. \A d \in Calls : Before(d)' => Before(d)
  BY DEF Before
<1>3. LocalInv' /\ AloneInv'
  BY DEF FidInv, LocalInv, AloneInv, Over
<1>4. kind[k] \in Introduces => newfid[k] \in fids \ held /\ newfid[k] # NoFid
  <2> SUFFICES ASSUME kind[k] \in Introduces PROVE newfid[k] \in fids \ held /\ newfid[k] # NoFid
    OBVIOUS
  <2>1. newfid[k] \in FidNumbers
    BY DEF TypeInv, NewfidInv
  <2>2. newfid[k] # NoFid
    BY <2>1, Bounds
  <2> QED BY <2>2 DEF FidInv, NewInv
<1>5. kind[k] \in Ends => fid[k] \in held
  BY <1>1 DEF FidInv, EndInv
<1>6. PoolsInv'
  BY <1>4 DEF FidInv, PoolsInv
<1>7. HeldInv'
  <2> SUFFICES ASSUME NEW f \in held, f \notin srvFids' PROVE Ending(f)'
    BY DEF HeldInv
  <2>1. Ending(f)
    BY <1>1 DEF FidInv, HeldInv, Ending
  <2> QED BY <2>1 DEF Ending, Over
<1>8. NewInv'
  <2> SUFFICES ASSUME NEW d \in Calls, newfid[d] # NoFid
               PROVE  /\ newfid[d] \in fids \ held
                      /\ kind[d] \in Introduces /\ pc[d] \in {"send", "write", "wait", "reply"}
                      /\ \A e \in Calls \ {d} : newfid[e] # newfid[d]
                      /\ Before(d)' => newfid[d] \notin srvFids'
                      /\ Told(d, "ok")' => newfid[d] \in srvFids'
                      /\ \A v : Told(d, v)' /\ v # "ok" => newfid[d] \notin srvFids'
    BY DEF NewInv
  <2>1. /\ newfid[d] \in fids \ held
        /\ kind[d] \in Introduces /\ pc[d] \in {"send", "write", "wait", "reply"}
        /\ \A e \in Calls \ {d} : newfid[e] # newfid[d]
        /\ Before(d) => newfid[d] \notin srvFids
        /\ Told(d, "ok") => newfid[d] \in srvFids
        /\ \A v : Told(d, v) /\ v # "ok" => newfid[d] \notin srvFids
    BY DEF FidInv, NewInv
  <2>2. CASE d = k
    <3>1. kind[k] \notin Ends
      BY <2>1, <2>2 DEF Introduces, Ends
    <3> QED BY <1>1, <2>1, <2>2, <3>1
  <2>3. CASE d # k
    <3>1. newfid[d] \in srvFids' <=> newfid[d] \in srvFids
      BY <1>5, <2>1, <2>3
    <3> QED BY <1>2, <2>1, <2>3, <3>1
  <2> QED BY <2>2, <2>3
<1>9. EndInv'
  <2> SUFFICES ASSUME NEW d \in Calls, kind[d] \in Ends, ~Over(d)
               PROVE  /\ fid[d] \in held
                      /\ \A e \in Calls \ {d} : Over(e) \/ fid[e] # fid[d]
                      /\ Before(d)' => fid[d] \in srvFids'
                      /\ Told(d, "ok")' => fid[d] \notin srvFids'
                      /\ Told(d, "error")' =>
                             kind[d] = "remove" /\ "removefails" \in Env /\ fid[d] \notin srvFids'
                      /\ pc[d] = "reply" /\ result[d] \notin {"ok", "error"} => fid[d] \in srvFids'
                      /\ ~Told(d, "short")'
    BY DEF EndInv, Over
  <2>1. /\ fid[d] \in held
        /\ \A e \in Calls \ {d} : Over(e) \/ fid[e] # fid[d]
        /\ Before(d) => fid[d] \in srvFids
        /\ Told(d, "ok") => fid[d] \notin srvFids
        /\ Told(d, "error") =>
               kind[d] = "remove" /\ "removefails" \in Env /\ fid[d] \notin srvFids
        /\ pc[d] = "reply" /\ result[d] \notin {"ok", "error"} => fid[d] \in srvFids
        /\ ~Told(d, "short")
    BY DEF FidInv, EndInv
  <2>2. CASE d = k
    <3>1. kind[k] \notin Introduces
      BY <2>2 DEF Introduces, Ends
    <3> QED BY <1>1, <2>1, <2>2, <3>1
  <2>3. CASE d # k
    <3>1. fid[d] \in srvFids' <=> fid[d] \in srvFids
      BY <1>1, <1>4, <2>1, <2>3
    <3> QED BY <1>2, <2>1, <2>3, <3>1
  <2> QED BY <2>2, <2>3
<1> QED BY <1>3, <1>6, <1>7, <1>8, <1>9 DEF FidInv

\* The request of a call that is waiting for its answer.
LEMMA Waiting ==
    ASSUME TypeInv, CallInv, FidInv, NEW m, Matches(m), m = Request(m.call),
           m.call \in Calls, m.tag \in Tags
    PROVE  /\ pc[m.call] = "wait" /\ buf[m.call] = None /\ ~Over(m.call)
           /\ m.kind = kind[m.call] /\ m.fid = fid[m.call] /\ m.newfid = newfid[m.call]
           /\ m.kind # "flush"
<1>1. pc[m.call] = "wait" /\ buf[m.call] = None
  BY DEF Matches, CallInv, QueueInv
<1>2. kind[m.call] # "flush"
  BY DEF CallInv, JobInv, FidInv
<1> QED BY <1>1, <1>2 DEF Over, Request

\* How the server's fids go with the answer it chooses.
LEMMA FidEffects ==
    ASSUME TypeInv, CallInv, FidInv, NEW m, Matches(m), m = Request(m.call),
           m.call \in Calls, m.tag \in Tags, Before(m.call), NEW e \in Effects(m)
    PROVE  \/ /\ e[2] = srvFids /\ kind[m.call] \notin Ends
              /\ e[1] # "ok" \/ kind[m.call] \notin Introduces
           \/ /\ kind[m.call] \in Introduces /\ e[1] = "ok"
              /\ e[2] = srvFids \union {newfid[m.call]}
           \/ /\ kind[m.call] \in Ends /\ e[2] = srvFids \ {fid[m.call]}
              /\ e[1] = "ok" \/ (e[1] = "error" /\ kind[m.call] = "remove" /\ "removefails" \in Env)
<1>1. m.kind = kind[m.call] /\ m.fid = fid[m.call] /\ m.newfid = newfid[m.call]
  BY Waiting
<1>2. m.kind \in Ends => m.fid \in srvFids
  BY <1>1, Waiting DEF FidInv, EndInv
<1>3. CASE /\ m.kind \in Introduces /\ m.newfid \notin srvFids
           /\ m.kind = "walk" => m.fid \in srvFids
  BY <1>1, <1>3 DEF Effects, Introduces, Ends
<1>4. CASE m.kind \in Ends
  BY <1>1, <1>2, <1>4 DEF Effects, Introduces, Ends
<1>5. CASE m.kind = "io" /\ m.fid \in srvFids
  BY <1>1, <1>5 DEF Effects, Introduces, Ends
<1>6. CASE /\ ~(/\ m.kind \in Introduces /\ m.newfid \notin srvFids
                /\ m.kind = "walk" => m.fid \in srvFids)
           /\ m.kind \notin Ends /\ ~(m.kind = "io" /\ m.fid \in srvFids)
  <2>1. Effects(m) = {<<"error", srvFids>>}
    BY <1>6 DEF Effects
  <2> QED BY <1>1, <1>6, <2>1
<1> QED BY <1>3, <1>4, <1>5, <1>6

\* Who has been told what once the server has answered call k with w.
LEMMA AnswerTold ==
    ASSUME TypeInv, NEW k \in Calls, NEW t, NEW w, UNCHANGED <<chanVars, callVars>>,
           pc[k] = "wait", buf[k] = None,
           \A i \in 1..Len(toClient) : toClient[i].call # k,
           toClient' = Append(toClient, [call |-> k, tag |-> t, what |-> w])
    PROVE  /\ \A d \in Calls \ {k} : \A v : Told(d, v)' => Told(d, v)
           /\ \A v : Told(k, v)' => v = w
<1> USE DEF chanVars, callVars
<1>1. PICK n \in Nat : n = Len(toClient)
  BY MessageTypes
<1>2. PICK r : r = [call |-> k, tag |-> t, what |-> w]
  OBVIOUS
<1>3. /\ Len(toClient') = n + 1 /\ toClient'[n+1] = r /\ r.call = k /\ r.what = w
      /\ \A i \in 1..n : toClient'[i] = toClient[i]
      /\ \A i \in 1..(n+1) : i \in 1..n \/ i = n + 1
  BY <1>1, <1>2, MessageTypes
<1> QED BY <1>1, <1>3 DEF Told

\* An answer of the server keeps FidInv.
LEMMA FidServerAnswer == ASSUME TypeInv, CallInv, FidInv, ServerAnswer PROVE FidInv'
<1>1. PICK m \in pending : /\ pending' = pending \ {m}
                           /\ \E e \in Effects(m) : Answer(m, e[1]) /\ srvFids' = e[2]
  BY DEF ServerAnswer
<1>2. PICK e \in Effects(m) : Answer(m, e[1]) /\ srvFids' = e[2]
  BY <1>1
<1>3. UNCHANGED <<chanVars, callVars, serveVars, conn, toServer, clientVars>>
  BY DEF ServerAnswer
<1>4. m.call \in Calls /\ m.tag \in Tags /\ Matches(m) /\ m = Request(m.call)
  BY MessageTypes DEF CallInv, FlightInv
<1>5. PICK k \in Calls : k = m.call
  BY <1>4
<1>6. Before(k) /\ pc[k] = "wait" /\ buf[k] = None
  BY <1>4, <1>5, Waiting DEF Before, Asked
<1>7. /\ \A p \in pending' : p.call # k
      /\ \A i \in 1..Len(toClient) : toClient[i].call # k
      /\ \A i \in 1..Len(toServer) : toServer[i].call # k
  BY <1>1, <1>4, <1>5 DEF CallInv, FlightInv, OnceInv
<1>8. ~Asked(k)' /\ \A d \in Calls : Asked(d)' => Asked(d)
  BY <1>1, <1>3, <1>7 DEF Asked
<1>9. /\ \A d \in Calls \ {k} : \A v : Told(d, v)' => Told(d, v)
      /\ \A v : Told(k, v)' => v = e[1]
  BY <1>2, <1>3, <1>5, <1>6, <1>7, AnswerTold DEF Answer
<1>10. \/ /\ e[2] = srvFids /\ kind[k] \notin Ends
          /\ e[1] # "ok" \/ kind[k] \notin Introduces
       \/ kind[k] \in Introduces /\ e[1] = "ok" /\ e[2] = srvFids \union {newfid[k]}
       \/ /\ kind[k] \in Ends /\ e[2] = srvFids \ {fid[k]}
          /\ e[1] = "ok" \/ (e[1] = "error" /\ kind[k] = "remove" /\ "removefails" \in Env)
  BY <1>4, <1>5, <1>6, FidEffects
<1> QED BY <1>2, <1>3, <1>6, <1>8, <1>9, <1>10, FrameAnswer

\* Taking a request, a version request included, keeps FidInv.
LEMMA FidServerRead == ASSUME TypeInv, CallInv, FidInv, ServerRead PROVE FidInv'
<1>1. PICK m : m = Head(toServer)
  OBVIOUS
<1>2. toServer # <<>> /\ toServer' = Tail(toServer)
  BY DEF ServerRead
<1>3. UNCHANGED <<chanVars, callVars, serveVars, conn, clientVars>>
  BY DEF ServerRead
<1>4. PICK n \in Nat : n + 1 = Len(toServer)
  <2>1. toServer \in Seq(Requests)
    BY MessageTypes
  <2>2. Len(toServer) \in Nat \ {0} /\ Len(toServer) - 1 \in Nat
    BY <1>2, <2>1
  <2> QED BY <2>2
<1>5. /\ m = toServer[1] /\ Len(toServer') = n /\ 1 \in 1..Len(toServer)
      /\ \A i \in 1..n : toServer'[i] = toServer[i+1] /\ i + 1 \in 1..(n+1)
  BY <1>1, <1>2, <1>4, MessageTypes
<1>6. m = Request(m.call) /\ Matches(m) /\ m.call \in Calls /\ m.tag \in Tags
  BY <1>5, MessageTypes DEF CallInv, FlightInv
<1>7. PICK k \in Calls : k = m.call
  BY <1>6
<1>8. /\ \A p \in pending : p.call # k
      /\ \A i \in 1..Len(toClient) : toClient[i].call # k
      /\ \A i \in 1..n : toServer[i+1].call # k
  BY <1>4, <1>5, <1>7 DEF CallInv, OnceInv
<1>9. /\ Before(k) /\ pc[k] = "wait" /\ buf[k] = None /\ ~Over(k)
      /\ m.kind = kind[k] /\ m.kind # "flush"
  BY <1>5, <1>6, <1>7, Waiting DEF Before, Asked
<1>10. ~\E p \in pending : p.tag = m.tag
  BY <1>6, <1>7, <1>8 DEF CallInv, FlightInv, Matches
<1>11. CASE kind[k] = "version"
  <2>1. fids = {} /\ srvFids = {}
    BY <1>9, <1>11 DEF FidInv, AloneInv, PoolsInv
  <2>2. PICK w : Answer(m, w) /\ srvFids' = srvFids /\ pending' \subseteq pending
    BY <1>1, <1>9, <1>11, <2>1 DEF ServerRead, serverVars
  <2>3. \A d : Asked(d)' => Asked(d) /\ d # k
    BY <1>4, <1>5, <1>8, <2>2 DEF Asked
  <2>4. /\ \A d \in Calls \ {k} : \A v : Told(d, v)' => Told(d, v)
        /\ \A v : Told(k, v)' => v = w
    BY <1>3, <1>7, <1>8, <1>9, <2>2, AnswerTold DEF Answer
  <2> QED BY <1>3, <1>9, <1>11, <2>2, <2>3, <2>4, FrameAnswer DEF Ends, Introduces
<1>12. CASE kind[k] # "version"
  <2>1. UNCHANGED <<srvFids, toClient>> /\ pending' = pending \union {m}
    BY <1>1, <1>9, <1>10, <1>12 DEF ServerRead
  <2>2. \A d : Asked(d)' => Asked(d)
    BY <1>4, <1>5, <2>1 DEF Asked
  <2>3. \A d \in Calls : \A w : Told(d, w)' => Told(d, w)
    BY <1>3, <2>1 DEF Told, callVars, chanVars
  <2> QED BY <1>3, <2>1, <2>2, <2>3, FrameAll DEF callVars, chanVars, clientVars, FidInv, LocalInv
<1> QED BY <1>11, <1>12

\* Every step keeps FidInv.
LEMMA NextFid == Steady /\ TypeInv /\ CallInv /\ FidInv /\ [Next]_vars => FidInv'
<1> SUFFICES ASSUME Steady, TypeInv, CallInv, FidInv, [Next]_vars PROVE FidInv'
  OBVIOUS
<1>1. ASSUME NEW c \in Calls, CallSend(c) PROVE FidInv'
  BY <1>1, FidGetChannel, FidWrite, FidAwait DEF CallSend, Send
<1>2. ~FlushAll /\ ~Stop /\ ~JobStep
  BY DEF Steady, FlushAll, Stop, JobStep, FlushDitch, FlushReturn, StopReturn, FlushNext, StopNext,
         FidInv
<1>3. CASE UNCHANGED vars
  <2> USE <1>3 DEF vars, transportVars, chanVars, callVars, netVars, clientVars, serverVars
  <2>1. \A d \in Calls : Asked(d)' => Asked(d)
    BY DEF Asked
  <2>2. \A d \in Calls : \A w : Told(d, w)' => Told(d, w)
    BY DEF Told
  <2> QED BY <2>1, <2>2, FrameAll DEF FidInv, LocalInv
<1> QED BY <1>1, <1>2, <1>3, FidAppCall, FidCallTag, FidGetFid, FidReturn, FidServe,
           FidServerRead, FidServerAnswer, FidBreak
    DEF Next, CallsStep, CallStep

\* FidsAgree: the server has every fid the application may use, and the pool every fid the
\* server has, so that getFid never hands out a number in use, whether or not the connection
\* breaks and removes fail.
THEOREM FidsKept == ASSUME Steady PROVE Spec => []FidsAgree
<1>1. FidInv => FidsAgree
  BY DEF FidInv, PoolsInv, HeldInv, FidsAgree
<1>2. Init => FidInv
  BY InitFid
<1> QED BY <1>1, <1>2, InitType, NextType, InitCall, NextCall, NextFid, SteadyCalm, PTL DEF Spec

-----------------------------------------------------------------------------
\* The connection is up, and no Write has failed.
UpInv == conn = "up" /\ \A c \in Calls : result[c] # "io"

\* It stays up when it does not break.
LEMMA NextUp ==
    ASSUME "breaks" \notin Env, TypeInv, UpInv, [Next]_vars
    PROVE  UpInv'
<1> USE DEF UpInv
<1>1. ASSUME NEW c \in Calls, NEW r, r # "io", result' = [result EXCEPT ![c] = r], conn' = conn
      PROVE  UpInv'
  BY <1>1 DEF TypeInv, TypeOK, TransportTypeOK
<1>2. ASSUME NEW c \in Calls, CallTag(c) PROVE UpInv'
  <2>1. conn' = conn
    BY <1>2, TagSteps DEF netVars
  <2>2. result' = result \/ \E r \in {"depleted", "unexpected", "taginuse"} :
                                result' = [result EXCEPT ![c] = r]
    BY <1>2, TagSteps DEF Take, Yield
  <2> QED BY <1>1, <2>1, <2>2
<1>3. ASSUME NEW c \in Calls, GetChannel(c) PROVE UpInv'
  BY <1>1, <1>3 DEF GetChannel, Yield, netVars
<1>4. ASSUME NEW c \in Calls, Write(c, Request(c)) PROVE UpInv'
  BY <1>4 DEF Write
<1>5. ASSUME NEW c \in Calls, Await(c) PROVE UpInv'
  <2>1. \E r \in {"nil", "ok", "error", "short"} : result' = [result EXCEPT ![c] = r]
    <3>1. ch[c] \in Calls
      BY <1>5 DEF Await, TypeInv, ChannelInv
    <3>2. (IF buf[ch[c]] = None THEN "nil" ELSE buf[ch[c]].what) \in {"nil", "ok", "error", "short"}
      BY ZenonT(20), <3>1 DEF TypeInv, TypeOK, TransportTypeOK, Responses
    <3> QED BY <1>5, <3>2 DEF Await, Yield
  <2> QED BY <1>1, <1>5, <2>1 DEF Await, netVars
<1>6. ASSUME NEW c \in Calls, AppCall(c) \/ FlushNext(c) \/ StopNext(c) \/ getFid(c) PROVE UpInv'
  BY <1>6 DEF AppCall, FlushNext, StopNext, getFid, netVars
<1>7. ASSUME NEW c \in Calls, Return(c) PROVE UpInv'
  BY <1>1, <1>7 DEF Return, Forget, netVars
<1>8. CASE FlushAll \/ Stop \/ FlushDitch \/ FlushReturn \/ StopReturn
  BY <1>8 DEF FlushAll, Stop, FlushDitch, FlushReturn, StopReturn, transportVars, callVars, netVars
<1>9. CASE Serve \/ ServerRead \/ ServerAnswer \/ Break \/ UNCHANGED vars
  BY <1>9 DEF Serve, ServeLoop, ServeCheck, received, ReadFails, ServerRead, ServerAnswer,
              Break, vars, transportVars, callVars, netVars
<1> QED BY <1>2, <1>3, <1>4, <1>5, <1>6, <1>7, <1>8, <1>9
    DEF Next, CallsStep, CallStep, JobStep, CallSend, Send

\* Every step keeps LeakInv when the connection does not break and no remove fails.
LEMMA NextLeak ==
    ASSUME Env = {}, TypeInv, CallInv, FidInv, LeakInv, UpInv, [Next]_vars
    PROVE  LeakInv'
<1>1. ASSUME UNCHANGED <<fids, held, newfid>> PROVE LeakInv'
  BY <1>1 DEF LeakInv
<1>2. ASSUME NEW c \in Calls, AppCall(c) \/ CallTag(c) \/ CallSend(c) PROVE LeakInv'
  <2>1. CASE CallTag(c)
    BY <1>1, <2>1 DEF CallTag, clientVars
  <2>2. CASE CallSend(c)
    BY <1>1, <2>2 DEF CallSend, clientVars
  <2>3. CASE AppCall(c)
    BY <1>1, <2>3 DEF AppCall
  <2> QED BY <1>2, <2>1, <2>2, <2>3
<1>3. ASSUME NEW c \in Calls, getFid(c) PROVE LeakInv'
  <2>1. /\ newfid' = [newfid EXCEPT ![c] = Unused] /\ fids' = fids \union {Unused} /\ held' = held
    BY <1>3 DEF getFid, FidInv
  <2>2. newfid[c] = NoFid /\ NoFid \notin fids
    BY <1>3, Bounds DEF getFid, FidInv, NewInv, TypeInv, TypeOK
  <2>3. newfid'[c] = Unused /\ \A d \in Calls \ {c} : newfid'[d] = newfid[d]
    BY <2>1 DEF TypeInv, TypeOK
  <2> QED BY <2>1, <2>2, <2>3 DEF LeakInv
<1>4. ASSUME NEW c \in Calls, Return(c) PROVE LeakInv'
  <2>1. /\ pc[c] = "reply" /\ fids' = fids \ Forgotten(c)
        /\ held' = CASE kind[c] \in Introduces /\ result[c] = "ok" -> held \union {newfid[c]}
                   [] kind[c] = "clunk" /\ result[c] = "ok" -> held \ {fid[c]}
                   [] kind[c] = "remove" /\ result[c] \in {"ok", "error"} -> held \ {fid[c]}
                   [] OTHER -> held
        /\ newfid' = [newfid EXCEPT ![c] = NoFid]
    BY <1>4 DEF Return, Forget
  <2>2. \A d \in Calls \ {c} : newfid'[d] = newfid[d]
    BY <2>1 DEF TypeInv, TypeOK
  <2>3. Told(c, result[c]) /\ ~Over(c) /\ result[c] # "io"
    BY <2>1 DEF Told, Over, UpInv
  <2>4. ASSUME NEW f \in fids', f \notin held'
        PROVE  f \notin held /\ f # newfid[c]
    <3>1. f \in fids /\ f # NoFid
      BY <2>1, Bounds DEF TypeInv, TypeOK
    <3>2. CASE kind[c] \in Introduces
      <4>1. CASE result[c] = "ok"
        <5>1. held' = held \union {newfid[c]}
          BY <2>1, <3>2, <4>1 DEF Introduces
        <5> QED BY <2>4, <5>1
      <4>2. CASE result[c] # "ok"
        <5>1. held' = held
          BY <2>1, <3>2, <4>2 DEF Introduces
        <5>2. newfid[c] # NoFid => newfid[c] \in Forgotten(c)
          BY <2>1, <2>3, <3>2, <4>2 DEF FidInv, LocalInv, Forgotten, Introduces
        <5> QED BY <2>1, <2>4, <3>1, <5>1, <5>2
      <4> QED BY <4>1, <4>2
    <3>3. CASE kind[c] \in Ends
      <4>1. newfid[c] = NoFid
        BY <3>3 DEF FidInv, NewInv, Introduces, Ends
      <4>2. CASE result[c] = "ok"
        <5>1. held' = held \ {fid[c]} /\ fids' = fids \ {fid[c]}
          BY <2>1, <3>3, <4>2 DEF Forgotten, Introduces, Ends
        <5> QED BY <2>4, <3>1, <4>1, <5>1
      <4>3. CASE result[c] # "ok"
        <5>1. result[c] # "error"
          BY <2>3, <3>3 DEF FidInv, EndInv
        <5>2. held' = held
          BY <2>1, <3>3, <4>3, <5>1 DEF Introduces, Ends
        <5> QED BY <2>4, <3>1, <4>1, <5>2
      <4> QED BY <4>2, <4>3
    <3>4. CASE kind[c] \notin Introduces \union Ends
      <4>1. newfid[c] = NoFid /\ held' = held
        BY <2>1, <3>4 DEF FidInv, NewInv, Introduces, Ends
      <4> QED BY <2>4, <3>1, <4>1
    <3> QED BY <3>2, <3>3, <3>4
  <2> QED BY <2>1, <2>2, <2>4 DEF LeakInv
<1>5. ~FlushAll /\ ~Stop /\ ~JobStep
  BY DEF FlushAll, Stop, JobStep, FlushDitch, FlushReturn, StopReturn, FlushNext, StopNext, FidInv
<1>6. CASE Serve \/ ServerRead \/ ServerAnswer \/ Break \/ UNCHANGED vars
  BY <1>1, <1>6 DEF Serve, ServerRead, ServerAnswer, Break, vars, clientVars
<1> QED BY <1>2, <1>3, <1>4, <1>5, <1>6 DEF Next, CallsStep, CallStep

\* NoFidLeak: when no call is in progress, Client.fids is exactly what the application holds,
\* on a connection that does not break and with a server whose removes do not fail.
THEOREM NothingLeaks == ASSUME Env = {} PROVE Spec => []NoFidLeak
<1>1. Steady /\ Calm /\ "breaks" \notin Env
  BY DEF Steady, Calm
<1>2. Init => FidInv /\ LeakInv /\ UpInv
  BY InitFid DEF Init, TransportInit, UpInv
<1>3. TypeInv /\ UpInv /\ [Next]_vars => UpInv'
  BY <1>1, NextUp
<1>4. TypeInv /\ CallInv /\ FidInv /\ LeakInv /\ UpInv /\ [Next]_vars => LeakInv'
  BY NextLeak
<1>5. TypeInv /\ FidInv /\ LeakInv => NoFidLeak
  <2> SUFFICES ASSUME TypeInv, FidInv, LeakInv, Quiet PROVE fids = held
    BY DEF NoFidLeak
  <2>1. \A c \in Calls : newfid[c] = NoFid
    BY DEF Quiet, Over, FidInv, NewInv
  <2>2. NoFid \notin fids /\ held \subseteq fids
    BY Bounds DEF TypeInv, TypeOK, FidInv, PoolsInv
  <2> QED BY <2>1, <2>2 DEF LeakInv
<1> QED BY <1>1, <1>2, <1>3, <1>4, <1>5, InitType, NextType, InitCall, NextCall, NextFid, PTL
    DEF Spec
=============================================================================
