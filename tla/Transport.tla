------------------------------- MODULE Transport -------------------------------
(***************************************************************************)
(* src/client/transport.go: tags, the response channel of each tag, Send   *)
(* and the loop that hands responses to the channels.  The callers are     *)
(* Calls: call c obtains a tag, sends one request and waits for one        *)
(* response, so the channel made with its tag is named c as well.          *)
(*                                                                         *)
(* Every section under queueLock is one step.  Send is three: it looks the *)
(* channel up, writes the message, and receives from the channel.          *)
(*                                                                         *)
(* A module that EXTENDS this one says what the calls are, and what is at  *)
(* the other end of toServer and toClient.                                 *)
(***************************************************************************)
EXTENDS Naturals, Sequences, FiniteSets

CONSTANTS
    Calls,  \* bound: the calls that are ever made
    NOTAG,  \* the last tag; 0xFFFF in the code
    None

Tags == 0..NOTAG
PoolTags == 0..(NOTAG - 1)

\* A message names the call it belongs to.
Responses == [call : Calls, tag : Tags, what : {"ok", "error", "short"}]

ASSUMPTION TransportAssumption ==
    /\ NOTAG \in Nat \ {0}
    /\ None \notin Calls \union Responses

VARIABLES
    queue,    \* Transport.queue: the channel of each tag in use
    nextTag,  \* Transport.nextTag
    buf,      \* buf[c]: the response in channel c
    closed,   \* closed[c]: channel c has been closed
    pc,
    tag,      \* tag[c]: the tag of call c
    ch,       \* ch[c]: the channel Send of call c found for its tag
    result,   \* result[c]: what Tag or Send returned
    error,    \* Transport.error
    dead,     \* Transport.errorCnt # 0
    serve,    \* where Serve is
    conn,     \* the io.ReadWriter: "up" or "broken"
    toServer, \* requests written to it
    toClient  \* responses that can be read from it

chanVars  == <<queue, nextTag, buf, closed>>
callVars  == <<pc, tag, ch, result>>
serveVars == <<error, dead, serve>>
netVars   == <<conn, toServer, toClient>>
transportVars == <<chanVars, callVars, serveVars, netVars>>

TransportInit ==
    /\ queue = [t \in Tags |-> None]
    /\ nextTag = 0
    /\ buf = [c \in Calls |-> None]
    /\ closed = [c \in Calls |-> FALSE]
    /\ pc = [c \in Calls |-> "idle"]
    /\ tag = [c \in Calls |-> NOTAG]
    /\ ch = [c \in Calls |-> None]
    /\ result = [c \in Calls |-> "none"]
    /\ error = "none"
    /\ dead = FALSE
    /\ serve = "check"
    /\ conn = "up"
    /\ toServer = <<>>
    /\ toClient = <<>>

Goto(c, l) == pc' = [pc EXCEPT ![c] = l]
Yield(c, r) == Goto(c, "reply") /\ result' = [result EXCEPT ![c] = r]
die(e) == error' = (IF error = "none" THEN e ELSE error) /\ dead' = TRUE

-----------------------------------------------------------------------------
InUse == {t \in Tags : queue[t] # None}
PendingTags == InUse

\* The errors of Tag before it searches.
\* Mutant of Depleted: one tag too few.
DepletedEarly == Cardinality(InUse) + 1 >= NOTAG
Depleted ==
    \/ Cardinality(InUse) > NOTAG
    \/ Cardinality(InUse) = NOTAG /\ queue[NOTAG] = None

\* The search looks at the NOTAG tags from nextTag on, and ends at the first that is free.
Candidate(i) == (nextTag + i) % NOTAG
FoundAtOnce == {0}
Found == {i \in 0..(NOTAG - 1) : /\ queue[Candidate(i)] = None
                                 /\ \A j \in 0..(i - 1) : queue[Candidate(j)] # None}
After(i) == (nextTag + i + 1) % NOTAG

\* Call c takes tag t, with a new channel, and goes on at l.
Take(c, t, l) ==
    /\ queue' = [queue EXCEPT ![t] = c]
    /\ tag' = [tag EXCEPT ![c] = t]
    /\ Goto(c, l)
    /\ UNCHANGED result

Tag(c, l) ==
    /\ pc[c] = "tag"
    /\ \/ Depleted /\ Yield(c, "depleted") /\ UNCHANGED <<queue, nextTag, tag>>
       \/ /\ ~Depleted
          /\ IF Found = {}
             THEN Yield(c, "unexpected") /\ UNCHANGED <<queue, nextTag, tag>>
             ELSE \E i \in Found : Take(c, Candidate(i), l) /\ nextTag' = After(i)
    /\ UNCHANGED <<buf, closed, ch, serveVars, netVars>>

TakeTag(c, t, l) ==
    /\ pc[c] = "tag"
    /\ \/ queue[t] # None /\ Yield(c, "taginuse") /\ UNCHANGED <<queue, tag>>
       \/ queue[t] = None /\ Take(c, t, l)
    /\ UNCHANGED <<nextTag, buf, closed, ch, serveVars, netVars>>

-----------------------------------------------------------------------------
\* Send, as far as it finds the channel ...
GetChannel(c) ==
    /\ pc[c] = "send"
    /\ ch' = [ch EXCEPT ![c] = queue[tag[c]]]
    /\ IF queue[tag[c]] = None THEN Yield(c, "nosuchtag") ELSE Goto(c, "write") /\ UNCHANGED result
    /\ UNCHANGED <<chanVars, tag, serveVars, netVars>>

\* ... writes the message m, which on a broken connection fails or is lost ...
Write(c, m) ==
    /\ pc[c] = "write"
    /\ \/ /\ toServer' = IF conn = "up" THEN Append(toServer, m) ELSE toServer
          /\ Goto(c, "wait")
          /\ UNCHANGED <<result, error, dead>>
       \/ conn = "broken" /\ die("io") /\ Yield(c, "io") /\ UNCHANGED toServer
    /\ UNCHANGED <<chanVars, tag, ch, serve, conn, toClient>>

\* ... and receives: the response if there is one, nil once the channel is closed and empty.
Await(c) ==
    /\ pc[c] = "wait"
    /\ closed[ch[c]]
    /\ Yield(c, IF buf[ch[c]] = None THEN "nil" ELSE buf[ch[c]].what)
    /\ buf' = [buf EXCEPT ![ch[c]] = None]
    /\ UNCHANGED <<queue, nextTag, closed, tag, ch, serveVars, netVars>>

DropNothing(t) == UNCHANGED queue
Drop(t) == queue' = [queue EXCEPT ![t] = None]
DitchKeepsChannel(t) == UNCHANGED closed /\ Drop(t)
Ditch(t) ==
    IF queue[t] = None THEN UNCHANGED <<queue, closed>>
    ELSE closed' = [closed EXCEPT ![queue[t]] = TRUE] /\ Drop(t)

-----------------------------------------------------------------------------
ServeCheck ==
    /\ serve = "check"
    /\ serve' = IF dead THEN "ended" ELSE "read"
    /\ UNCHANGED <<chanVars, callVars, error, dead, netVars>>

received ==
    LET m == Head(toClient) IN
    /\ serve = "read" /\ toClient # <<>>
    /\ toClient' = Tail(toClient)
    /\ IF queue[m.tag] # None
       THEN /\ buf' = [buf EXCEPT ![queue[m.tag]] = m]
            /\ closed' = [closed EXCEPT ![queue[m.tag]] = TRUE]
            /\ Drop(m.tag)
            /\ serve' = "check"
            /\ UNCHANGED <<error, dead>>
       ELSE /\ die("nosuchtag")
            /\ serve' = "ended"
            /\ UNCHANGED <<queue, buf, closed>>
    /\ UNCHANGED <<nextTag, callVars, conn, toServer>>

ReadFails ==
    /\ serve = "read" /\ conn = "broken" /\ toClient = <<>>
    /\ die("io")
    /\ serve' = "ended"
    /\ UNCHANGED <<chanVars, callVars, netVars>>

\* Transport.Stop: die(nil)
StopServe == dead' = TRUE /\ UNCHANGED <<error, serve>>

Send(c, m) == GetChannel(c) \/ Write(c, m) \/ Await(c)
ServeLoop == ServeCheck \/ received \/ ReadFails

TransportTypeOK ==
    /\ queue \in [Tags -> Calls \union {None}]
    /\ nextTag \in PoolTags
    /\ buf \in [Calls -> Responses \union {None}]
    /\ closed \in [Calls -> BOOLEAN]
    /\ pc \in [Calls -> {"idle", "tag", "fid", "send", "write", "wait", "reply", "panicked",
                         "done"}]
    /\ tag \in [Calls -> Tags]
    /\ ch \in [Calls -> Calls \union {None}]
    /\ result \in [Calls -> {"none", "ok", "error", "short", "nil", "nosuchtag", "depleted",
                             "unexpected", "taginuse", "io"}]
    /\ error \in {"none", "io", "nosuchtag"}
    /\ dead \in BOOLEAN
    /\ serve \in {"check", "read", "ended"}
    /\ conn \in {"up", "broken"}
    /\ toClient \in Seq(Responses)
=============================================================================
