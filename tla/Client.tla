-------------------------------- MODULE Client --------------------------------
(***************************************************************************)
(* src/client/client.go over Transport: the pool of fids, the calls of a   *)
(* Client and of its fids, FlushAll, Version and Stop, with a 9P server at *)
(* the other end of the connection.                                        *)
(*                                                                         *)
(* Every call has one shape: Tag, getFid if it introduces a fid, Send, and *)
(* a look at the response.  FlushAll and Stop make their calls one after   *)
(* another; they are the job of one goroutine.                             *)
(***************************************************************************)
EXTENDS Transport

CONSTANTS
    Parallel, \* bound: the calls the application has in progress at a time
    App,  \* the calls the application makes, a subset of AppKinds
    Env   \* what else may happen, a subset of EnvChoices

AppKinds == {"attach", "walk", "clunk", "remove", "io", "version"}
(***************************************************************************)
(* "flushall", "stop": the application calls FlushAll, Stop.  "racing": it *)
(* does so while it makes calls, and makes a Version call while others are *)
(* pending; without it, it waits until each call is answered or (FlushAll) *)
(* sent.  "breaks": the connection may break.  "removefails": Tremove may  *)
(* be answered by an error.                                                *)
(***************************************************************************)
EnvChoices == {"flushall", "stop", "racing", "breaks", "removefails"}

\* Calls are numbered in the order they are made.
ASSUMPTION ClientAssumption ==
    /\ Calls \subseteq Nat /\ IsFiniteSet(Calls)
    /\ Parallel \in Nat
    /\ App \subseteq AppKinds /\ Env \subseteq EnvChoices

\* "attach" is Attach or Auth, "io" a call that names a fid and leaves it as it is.
Introduces == {"attach", "walk"}
Ends       == {"clunk", "remove"}
NoFid == Cardinality(Calls)
FidNumbers == 0..(NoFid - 1)
Size == {"small", "large"}
Requests == [call : Calls, tag : Tags, kind : AppKinds \union {"flush"}, oldtag : Tags,
             fid : FidNumbers \union {NoFid}, newfid : FidNumbers \union {NoFid}]

VARIABLES
    kind,    \* kind[c]: what call c is
    fid,     \* fid[c]: the fid it is made on
    newfid,  \* newfid[c]: the fid it introduces
    oldtag,  \* oldtag[c]: the tag a flush is for
    fids,    \* DOMAIN Client.fids
    msgsize, \* Transport.msgsize
    ask,     \* the message size the last Version call asked for
    job,     \* FlushAll or Stop: what it does, what is left to visit, its call
    held,    \* the fids the application has been given and has not given back
    pending, \* server: the requests it is working on
    srvFids  \* server: its fids

clientVars == <<kind, fid, newfid, oldtag, fids, msgsize, ask, job, held>>
serverVars == <<pending, srvFids>>
vars == <<transportVars, clientVars, serverVars>>

NoJob == [what |-> "none", todo |-> {}, at |-> 0, call |-> None]

Init ==
    /\ TransportInit
    /\ kind = [c \in Calls |-> "none"]
    /\ fid = [c \in Calls |-> NoFid]
    /\ newfid = [c \in Calls |-> NoFid]
    /\ oldtag = [c \in Calls |-> NOTAG]
    /\ fids = {}
    /\ msgsize = "large"
    /\ ask = "large"
    /\ job = NoJob
    /\ held = {}
    /\ pending = {}
    /\ srvFids = {}

Idle(c)   == pc[c] = "idle" /\ \A d \in Calls : d < c => pc[d] # "idle"
Over(c)   == pc[c] \in {"idle", "done"}
Quiet     == \A c \in Calls : Over(c)
InWait    == \A c \in Calls : Over(c) \/ pc[c] = "wait"
Busy(f)   == \E c \in Calls : ~Over(c) /\ fid[c] = f
Ending(f) == \E c \in Calls : ~Over(c) /\ fid[c] = f /\ kind[c] \in Ends

\* Bound: FlushAll and Stop start while enough calls are left for them.
EnoughCalls(n) == Cardinality({c \in Calls : pc[c] = "idle"}) >= n

Begin(c, k) == kind' = [kind EXCEPT ![c] = k] /\ Goto(c, "tag")

-----------------------------------------------------------------------------
(***************************************************************************)
(* The application.  It uses the fids it holds, several at a time, and     *)
(* clunks or removes one that no other call is using.                      *)
(***************************************************************************)
AppCall(c) ==
    /\ Idle(c)
    /\ Cardinality({d \in Calls : ~Over(d)}) < Parallel
    /\ job.what = "none" \/ ("racing" \in Env /\ job.what = "flushall")
    /\ \E k \in App :
        /\ Begin(c, k)
        /\ \/ k \in {"attach", "version"} /\ UNCHANGED fid
           \/ \E f \in held : /\ k \in {"walk", "io"} /\ ~Ending(f)
                              /\ fid' = [fid EXCEPT ![c] = f]
           \/ \E f \in held : /\ k \in Ends /\ ~Busy(f)
                              /\ fid' = [fid EXCEPT ![c] = f]
        /\ k = "version" => "racing" \in Env \/ (Quiet /\ fids = {})
        /\ IF k = "version" THEN ask' \in Size ELSE UNCHANGED ask
        /\ "racing" \in Env \/ ~\E d \in Calls : kind[d] = "version" /\ ~Over(d)
    /\ UNCHANGED <<chanVars, tag, ch, result, serveVars, netVars, newfid, oldtag, fids,
                   msgsize, job, held, serverVars>>

CallTag(c) ==
    /\ \/ kind[c] \in Introduces /\ Tag(c, "fid")
       \/ kind[c] \notin Introduces \union {"version"} /\ Tag(c, "send")
       \/ kind[c] = "version" /\ TakeTag(c, NOTAG, "send")
    /\ UNCHANGED <<clientVars, serverVars>>

Lowest(S) == CHOOSE n \in FidNumbers \ S : \A m \in FidNumbers \ S : n <= m
UnusedByApp == Lowest(held)
Unused == Lowest(fids)

\* Once Stop has returned Client.fids is nil, and the assignment panics.
getFid(c) ==
    /\ pc[c] = "fid"
    /\ \/ /\ job.what # "stopped"
          /\ newfid' = [newfid EXCEPT ![c] = Unused]
          /\ fids' = fids \union {Unused}
          /\ Goto(c, "send")
       \/ job.what = "stopped" /\ Goto(c, "panicked") /\ UNCHANGED <<newfid, fids>>
    /\ UNCHANGED <<chanVars, tag, ch, result, serveVars, netVars, kind, fid, oldtag, msgsize, ask,
                   job, held, serverVars>>

Request(c) == [call |-> c, tag |-> tag[c], kind |-> kind[c], oldtag |-> oldtag[c],
               fid |-> fid[c], newfid |-> newfid[c]]
CallSend(c) == Send(c, Request(c)) /\ UNCHANGED <<clientVars, serverVars>>

(***************************************************************************)
(* The fids that go with the outcome of a call: a fid it introduced unless *)
(* the response is the one hoped for, a fid it ended if it is.  Walk keeps *)
(* the fid when Send fails; Remove keeps it when the server says the file  *)
(* was not removed.                                                        *)
(***************************************************************************)
ForgottenButShort(c) ==
    CASE kind[c] = "attach" /\ result[c] # "ok" -> {newfid[c]}
      [] kind[c] = "walk" /\ result[c] \in {"error", "nil"} -> {newfid[c]}
      [] kind[c] \in Ends /\ result[c] = "ok" -> {fid[c]}
      [] OTHER -> {}
Forgotten(c) ==
    CASE kind[c] = "attach" /\ result[c] # "ok" -> {newfid[c]}
      [] kind[c] = "walk" /\ result[c] \in {"error", "short", "nil"} -> {newfid[c]}
      [] kind[c] \in Ends /\ result[c] = "ok" -> {fid[c]}
      [] OTHER -> {}

\* Version keeps the message size it asked for, whatever the response says.
Negotiated(c) == IF kind[c] = "version" /\ result[c] = "ok" THEN ask ELSE msgsize

\* The locals of a call are gone when it returns.
Forget(c) ==
    /\ kind' = [kind EXCEPT ![c] = "none"]
    /\ tag' = [tag EXCEPT ![c] = NOTAG]
    /\ ch' = [ch EXCEPT ![c] = None]
    /\ result' = [result EXCEPT ![c] = "none"]
    /\ fid' = [fid EXCEPT ![c] = NoFid]
    /\ newfid' = [newfid EXCEPT ![c] = NoFid]
    /\ oldtag' = [oldtag EXCEPT ![c] = NOTAG]

\* The call returns; the application goes by what connection.go says of Remove.
Return(c) ==
    /\ pc[c] = "reply"
    /\ fids' = fids \ Forgotten(c)
    /\ held' = CASE kind[c] \in Introduces /\ result[c] = "ok" -> held \union {newfid[c]}
                 [] kind[c] = "clunk" /\ result[c] = "ok" -> held \ {fid[c]}
                 [] kind[c] = "remove" /\ result[c] \in {"ok", "error"} -> held \ {fid[c]}
                 [] OTHER -> held
    /\ msgsize' = Negotiated(c)
    /\ Goto(c, "done")
    /\ Forget(c)
    /\ UNCHANGED <<chanVars, serveVars, netVars, ask, job, serverVars>>

-----------------------------------------------------------------------------
FlushAll ==
    /\ "flushall" \in Env /\ job.what = "none"
    /\ "racing" \in Env \/ InWait
    /\ EnoughCalls(Cardinality(PendingTags))
    /\ job' = [NoJob EXCEPT !.what = "flushall", !.todo = PendingTags]
    /\ UNCHANGED <<transportVars, kind, fid, newfid, oldtag, fids, msgsize, ask, held, serverVars>>

\* Flush(t) for the next tag: a call like any other.
FlushNext(c) ==
    /\ job.what = "flushall" /\ job.call = None /\ Idle(c)
    /\ \E t \in job.todo :
        /\ job' = [job EXCEPT !.todo = @ \ {t}, !.at = t, !.call = c]
        /\ oldtag' = [oldtag EXCEPT ![c] = t]
    /\ Begin(c, "flush")
    /\ UNCHANGED <<chanVars, tag, ch, result, serveVars, netVars, fid, newfid, fids, msgsize, ask,
                   held, serverVars>>

\* Its error, if any, is not looked at.
FlushDitch ==
    /\ job.what = "flushall" /\ job.call # None
    /\ pc[job.call] = "done"
    /\ Ditch(job.at)
    /\ job' = [job EXCEPT !.call = None]
    /\ UNCHANGED <<nextTag, buf, callVars, serveVars, netVars, kind, fid, newfid, oldtag, fids,
                   msgsize, ask, held, serverVars>>

FlushReturnWhenEmpty ==
    /\ job.what = "flushall" /\ job.call = None /\ PendingTags = {}
    /\ job' = NoJob
    /\ UNCHANGED <<transportVars, kind, fid, newfid, oldtag, fids, msgsize, ask, held, serverVars>>
FlushReturn ==
    /\ job.what = "flushall" /\ job.call = None /\ job.todo = {}
    /\ job' = NoJob
    /\ UNCHANGED <<transportVars, kind, fid, newfid, oldtag, fids, msgsize, ask, held, serverVars>>

Stop ==
    /\ "stop" \in Env /\ job.what = "none"
    /\ "racing" \in Env \/ Quiet
    /\ EnoughCalls(Cardinality(fids))
    /\ job' = [NoJob EXCEPT !.what = "stop", !.todo = fids]
    /\ UNCHANGED <<transportVars, kind, fid, newfid, oldtag, fids, msgsize, ask, held, serverVars>>

\* Clunk of the next fid that is still in the map.
StopNext(c) ==
    /\ job.what = "stop" /\ Idle(c)
    /\ job.call # None => pc[job.call] = "done"
    /\ \E f \in job.todo \intersect fids :
        /\ job' = [job EXCEPT !.todo = @ \ {f}, !.at = f, !.call = c]
        /\ fid' = [fid EXCEPT ![c] = f]
    /\ Begin(c, "clunk")
    /\ UNCHANGED <<chanVars, tag, ch, result, serveVars, netVars, newfid, oldtag, fids,
                   msgsize, ask, held, serverVars>>

StopReturnEarly ==
    /\ job.what = "stop"
    /\ job.call # None => pc[job.call] = "done"
    /\ fids' = {}
    /\ StopServe
    /\ job' = [NoJob EXCEPT !.what = "stopped"]
    /\ UNCHANGED <<chanVars, callVars, netVars, kind, fid, newfid, oldtag, msgsize, ask, held,
                   serverVars>>
StopReturn ==
    /\ job.what = "stop" /\ job.todo \intersect fids = {}
    /\ job.call # None => pc[job.call] = "done"
    /\ fids' = {}
    /\ StopServe
    /\ job' = [NoJob EXCEPT !.what = "stopped"]
    /\ UNCHANGED <<chanVars, callVars, netVars, kind, fid, newfid, oldtag, msgsize, ask, held,
                   serverVars>>

-----------------------------------------------------------------------------
(***************************************************************************)
(* The server: takes requests in order, works on them at the same time,    *)
(* answers each once.  A flush ends the work on its request, which may     *)
(* have had its effect by then; a version request ends all work.           *)
(***************************************************************************)
Answer(m, w) == toClient' = Append(toClient, [call |-> m.call, tag |-> m.tag, what |-> w])

Effects(m) ==
    CASE m.kind \in Introduces /\ m.newfid \notin srvFids
              /\ (m.kind = "walk" => m.fid \in srvFids) ->
             {<<"ok", srvFids \union {m.newfid}>>, <<"error", srvFids>>}
             \union (IF m.kind = "walk" THEN {<<"short", srvFids>>} ELSE {})
      [] m.kind \in Ends /\ m.fid \in srvFids ->
             {<<"ok", srvFids \ {m.fid}>>}
             \union (IF m.kind = "remove" /\ "removefails" \in Env
                     THEN {<<"error", srvFids \ {m.fid}>>} ELSE {})
      [] m.kind = "io" /\ m.fid \in srvFids -> {<<"ok", srvFids>>, <<"error", srvFids>>}
      [] OTHER -> {<<"error", srvFids>>}

ServerRead ==
    LET m == Head(toServer)
        flushed == {p \in pending : p.tag = m.oldtag}
    IN
    /\ toServer # <<>>
    /\ toServer' = Tail(toServer)
    /\ \/ /\ m.kind = "flush"
          /\ pending' = pending \ flushed
          /\ \/ UNCHANGED srvFids
             \/ \E p \in flushed : \E e \in Effects(p) : srvFids' = e[2]
          /\ Answer(m, "ok")
       \/ /\ m.kind = "version"
          /\ pending' = {}
          /\ srvFids' = {}
          /\ Answer(m, "ok")
       \/ m.kind = "version" /\ Answer(m, "error") /\ UNCHANGED serverVars
       \/ /\ m.kind \notin {"flush", "version"}
          /\ UNCHANGED srvFids
          /\ IF \E p \in pending : p.tag = m.tag
             THEN Answer(m, "error") /\ UNCHANGED pending
             ELSE pending' = pending \union {m} /\ UNCHANGED toClient
    /\ UNCHANGED <<chanVars, callVars, serveVars, conn, clientVars>>

ServerAnswer ==
    /\ \E m \in pending :
        /\ pending' = pending \ {m}
        /\ \E e \in Effects(m) : Answer(m, e[1]) /\ srvFids' = e[2]
    /\ UNCHANGED <<chanVars, callVars, serveVars, conn, toServer, clientVars>>

Break ==
    /\ "breaks" \in Env /\ conn = "up"
    /\ conn' = "broken" /\ toServer' = <<>> /\ toClient' = <<>> /\ pending' = {}
    /\ UNCHANGED <<chanVars, callVars, serveVars, clientVars, srvFids>>

-----------------------------------------------------------------------------
Serve == ServeLoop /\ UNCHANGED <<clientVars, serverVars>>
CallStep(c) == CallTag(c) \/ getFid(c) \/ CallSend(c) \/ Return(c)
JobStep == FlushDitch \/ FlushReturn \/ StopReturn \/ \E c \in Calls : FlushNext(c) \/ StopNext(c)

CallsStep == \E c \in Calls : CallStep(c)

Next ==
    \/ \E c \in Calls : AppCall(c)
    \/ CallsStep \/ FlushAll \/ Stop \/ JobStep
    \/ Serve \/ ServerRead \/ ServerAnswer \/ Break

(***************************************************************************)
(* Go runs every goroutine that can run, the server answers every request, *)
(* and the connection, while it is up, delivers.  A call has finitely many *)
(* steps and there are finitely many calls, so that fairness of some call  *)
(* is fairness of each.  The application need not call anything, and the   *)
(* connection need not break.                                              *)
(***************************************************************************)
Fairness ==
    /\ WF_vars(CallsStep) /\ WF_vars(JobStep) /\ WF_vars(Serve)
    /\ WF_vars(ServerRead) /\ WF_vars(ServerAnswer)

Spec == Init /\ [][Next]_vars
FairSpec == Spec /\ Fairness

-----------------------------------------------------------------------------
TypeOK ==
    /\ TransportTypeOK
    /\ kind \in [Calls -> AppKinds \union {"none", "flush"}]
    /\ fid \in [Calls -> FidNumbers \union {NoFid}]
    /\ newfid \in [Calls -> FidNumbers \union {NoFid}]
    /\ oldtag \in [Calls -> Tags]
    /\ fids \subseteq FidNumbers
    /\ msgsize \in Size
    /\ ask \in Size
    /\ job \in [what : {"none", "flushall", "stop", "stopped"},
                todo : SUBSET (Tags \union FidNumbers), at : Nat, call : Calls \union {None}]
    /\ held \subseteq FidNumbers
    /\ toServer \in Seq(Requests)
    /\ pending \subseteq Requests
    /\ srvFids \subseteq FidNumbers

(***************************************************************************)
(* The response a Send returns is the answer to the request it sent,       *)
(* however the server reorders its answers and however soon a tag is       *)
(* reused.                                                                 *)
(***************************************************************************)
RightAnswer ==
    \A c \in Calls : pc[c] = "wait" /\ buf[ch[c]] # None => buf[ch[c]].call = c

(***************************************************************************)
(* A tag is in use exactly from Tag until the response: none is leaked     *)
(* and none is given out twice.                                            *)
(***************************************************************************)
TagsHeld ==
    \A c \in Calls :
        /\ pc[c] \in {"fid", "send", "write"} => queue[tag[c]] = c
        /\ pc[c] = "wait" /\ ~closed[c] => queue[tag[c]] = c
        /\ pc[c] \in {"idle", "tag", "reply", "done"} => \A t \in Tags : queue[t] # c

(***************************************************************************)
(* Tag fails only when no tag but NOTAG is free, and a version request     *)
(* that holds NOTAG takes nothing from the pool: "No need to loop 0xFFFF   *)
(* times to figure out that the thing is full."                            *)
(***************************************************************************)
TagPoolUsed ==
    [][\A c \in Calls :
        pc[c] = "tag" /\ result'[c] \in {"depleted", "unexpected"} =>
            \A t \in PoolTags : queue[t] # None]_vars

(***************************************************************************)
(* Client and server agree on the fids: the server has every fid the       *)
(* application holds and is not clunking, and the client's pool has every  *)
(* fid the server has, so that getFid never hands out a number the server  *)
(* still uses.                                                             *)
(***************************************************************************)
FidsAgree == {f \in held : ~Ending(f)} \subseteq srvFids /\ srvFids \subseteq fids

\* When no call is in progress the pool is exactly the fids the application holds.
NoFidLeak == Quiet => fids = held

\* A server that answers each request once never makes Serve give up.
StaysUp == error # "nosuchtag"

(***************************************************************************)
(* Every call that waits for its response returns: its tag is not taken by *)
(* another call, and no FlushAll or Stop leaves it behind (Send).          *)
(***************************************************************************)
Answered == \A c \in Calls : pc[c] = "wait" ~> pc[c] = "done" \/ conn = "broken"

(***************************************************************************)
(* When FlushAll returns no call is left waiting for a response: all have  *)
(* been answered or ditched, be the connection up or broken.               *)
(***************************************************************************)
FlushUnblocks ==
    [][job.what = "flushall" /\ job'.what = "none" =>
        \A c \in Calls : pc[c] = "wait" => closed[ch[c]]]_vars

(***************************************************************************)
(* FlushAll returns, on a connection that breaks before or during it as    *)
(* well: a Tflush is answered or cannot be written.  The one that is       *)
(* written and lost is waited for until someone ditches its tag.           *)
(***************************************************************************)
FlushLost ==
    /\ conn = "broken" /\ job.what = "flushall" /\ job.call # None
    /\ pc[job.call] = "wait" /\ ~closed[ch[job.call]]
FlushAllReturns == job.what = "flushall" ~> job.what = "none" \/ FlushLost

\* Stop returns, and only once it has clunked every fid the application was given.
StopReturns ==
    job.what = "stop"
        ~> (job.what = "stopped" /\ held \intersect srvFids = {}) \/ conn = "broken"
=============================================================================
