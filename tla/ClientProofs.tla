---------------------------- MODULE ClientProofs -----------------------------
(***************************************************************************)
(* Client over Transport, for every number of calls, of tags and of calls  *)
(* at a time: the types, the tags and the answers. What the application    *)
(* calls and what may go wrong is the constant Env; each theorem says      *)
(* what it asks of it. The parts are the types, Tag, and then the way of   *)
(* a request to the server and of its response back to the call that made  *)
(* it.                                                                     *)
(***************************************************************************)
EXTENDS Client, TLAPS, FiniteSetTheorems, WellFoundedInduction, SequenceTheorems

\* Every nonempty set of naturals has a least element.
LEMMA Least ==
    ASSUME NEW S \in SUBSET Nat, S # {}
    PROVE  \E n \in S : \A m \in S : n <= m
<1>1. PICK n \in S : \A m \in S : ~ (<<m, n>> \in OpToRel(<, Nat))
  BY NatLessThanWellFounded, WFMin, Zenon
<1>2. ASSUME NEW m \in S PROVE n <= m
  <2>1. <<m, n>> \notin {p \in Nat \X Nat : p[1] < p[2]}
    BY <1>1, Zenon DEF OpToRel
  <2> QED BY <2>1
<1> QED BY <1>2

\* When Tag finds its pool depleted or nothing free in one round, no tag of the pool is free.
LEMMA TagFails ==
    ASSUME TransportTypeOK, Depleted \/ Found = {}
    PROVE  \A t \in PoolTags : queue[t] # None
<1> USE TransportAssumption DEF TransportTypeOK, PoolTags
<1>1. IsFiniteSet(Tags) /\ Cardinality(Tags) = NOTAG + 1
  BY FS_Interval DEF Tags
<1>2. IsFiniteSet(PoolTags) /\ Cardinality(PoolTags) = NOTAG
  BY FS_Interval
<1>3. InUse \subseteq Tags
  BY DEF InUse
<1>4. CASE Cardinality(InUse) > NOTAG
  <2>1. InUse = Tags
    BY <1>1, <1>3, <1>4, FS_Subset, FS_CardinalityType
  <2>2. \A t \in PoolTags : t \in InUse
    BY <2>1 DEF Tags
  <2> QED BY <2>2 DEF InUse
<1>5. CASE Cardinality(InUse) = NOTAG /\ queue[NOTAG] = None
  <2>1. InUse \subseteq PoolTags
    BY <1>5 DEF InUse, Tags
  <2>2. InUse = PoolTags
    BY <1>2, <1>5, <2>1, FS_Subset
  <2> QED BY <2>2 DEF InUse
<1>6. CASE Found = {}
  <2> SUFFICES ASSUME NEW t \in PoolTags, queue[t] = None PROVE FALSE
    OBVIOUS
  <2> DEFINE Free == {i \in 0..(NOTAG - 1) : queue[Candidate(i)] = None}
             d    == IF t >= nextTag THEN t - nextTag ELSE t - nextTag + NOTAG
  <2>1. d \in 0..(NOTAG - 1) /\ Candidate(d) = t
    BY SMTT(20) DEF Candidate
  <2>2. Free # {} /\ Free \in SUBSET Nat
    BY <2>1
  <2>3. PICK i \in Free : \A j \in Free : i <= j
    BY <2>2, Least
  <2>4. i \in Found
    BY <2>3 DEF Found
  <2> QED BY <1>6, <2>4
<1> QED BY <1>4, <1>5, <1>6 DEF Depleted

\* The calls that have passed getFid, or need not.
Begun == {c \in Calls : pc[c] \notin {"idle", "tag", "fid"}}

\* Send waits only on a channel it has found.
ChannelInv == \A c \in Calls : pc[c] \in {"write", "wait"} => ch[c] \in Calls

\* A call has no outcome before it ends.
FreshInv   == \A c \in Calls : pc[c] \in {"idle", "tag", "fid", "send"} => result[c] = "none"

\* A call that introduces a fid has one when it sends, and so has its request.
NewfidInv  ==
    /\ \A c \in Calls : kind[c] \in Introduces
           /\ (pc[c] \in {"send", "write", "wait"} \/ (pc[c] = "reply" /\ result[c] = "ok"))
               => newfid[c] \in FidNumbers
    /\ \A c \in Calls : pc[c] = "fid" => kind[c] \in Introduces
    /\ \A c \in Calls : pc[c] # "idle" => pc[c] = "done" \/ kind[c] # "none"
    /\ \A i \in 1..Len(toServer) :
           toServer[i].kind \in Introduces => toServer[i].newfid \in FidNumbers
    /\ \A m \in pending : m.kind \in Introduces => m.newfid \in FidNumbers

\* There are no more fids in the map than calls that could have put one there.
PoolInv == Cardinality(fids) <= Cardinality(Begun)

\* FlushAll visits tags.
JobTagsInv == job.what = "flushall" => job.todo \subseteq Tags /\ job.at \in Tags

\* The inductive invariant behind TypeOK.
TypeInv == TypeOK /\ ChannelInv /\ FreshInv /\ NewfidInv /\ PoolInv /\ JobTagsInv

-----------------------------------------------------------------------------
\* Adding one element to a finite set adds at most one to its size.
LEMMA AddOne ==
    ASSUME NEW S, NEW x, IsFiniteSet(S)
    PROVE  /\ IsFiniteSet(S \union {x})
           /\ Cardinality(S) \in Nat /\ Cardinality(S \union {x}) \in Nat
           /\ Cardinality(S \union {x}) <= Cardinality(S) + 1
           /\ x \notin S => Cardinality(S \union {x}) = Cardinality(S) + 1
<1>1. Cardinality(S) \in Nat
  BY FS_CardinalityType
<1> QED BY <1>1, FS_AddElement

\* The fids are finitely many naturals, and NoFid is the first that is none.
LEMMA Bounds ==
    /\ NoFid \in Nat
    /\ IsFiniteSet(FidNumbers) /\ Cardinality(FidNumbers) = NoFid
    /\ FidNumbers = {n \in Nat : n < NoFid}
<1>1. NoFid \in Nat
  BY ClientAssumption, FS_CardinalityType DEF NoFid
<1> QED BY <1>1, FS_Interval DEF FidNumbers

\* There is a lowest fid outside a set that is smaller than all fids.
LEMMA LowestFree ==
    ASSUME NEW S \in SUBSET FidNumbers, Cardinality(S) < NoFid
    PROVE  Lowest(S) \in FidNumbers \ S
<1>1. FidNumbers \ S # {}
  <2>1. CASE FidNumbers \subseteq S
    <3>1. S = FidNumbers
      BY <2>1
    <3> QED BY <3>1, Bounds
  <2> QED BY <2>1
<1>2. \E n \in FidNumbers \ S : \A m \in FidNumbers \ S : n <= m
  <2>1. FidNumbers \ S \in SUBSET Nat
    BY Bounds
  <2> QED BY <1>1, <2>1, Least
<1> QED BY <1>2 DEF Lowest

\* A step that adds no fid and takes no call back keeps PoolInv.
LEMMA PoolStep ==
    ASSUME TypeInv, TypeOK', fids' \subseteq fids, \A c \in Calls : c \in Begun => c \in Begun'
    PROVE  PoolInv'
<1>1. Begun \in SUBSET Begun' /\ Begun' \in SUBSET Calls
  BY DEF Begun
<1>2. IsFiniteSet(Begun') /\ IsFiniteSet(Begun) /\ Cardinality(Begun) <= Cardinality(Begun')
  BY <1>1, ClientAssumption, FS_Subset
<1>3. IsFiniteSet(fids) /\ IsFiniteSet(fids') /\ Cardinality(fids') <= Cardinality(fids)
  BY Bounds, FS_Subset DEF TypeInv, TypeOK
<1> QED BY <1>2, <1>3, FS_CardinalityType DEF TypeInv, PoolInv

\* The initial states are well typed.
LEMMA InitType == Init => TypeInv
<1> SUFFICES ASSUME Init PROVE TypeInv
  OBVIOUS
<1> USE TransportAssumption, ClientAssumption DEF Init, TransportInit
<1>1. TypeOK
  <2>1. TransportTypeOK
    <3>1. NOTAG \in Tags /\ 0 \in PoolTags
      BY DEF Tags, PoolTags
    <3>2. queue \in [Tags -> Calls \union {None}] /\ nextTag \in PoolTags
      BY <3>1
    <3>3. buf \in [Calls -> Responses \union {None}] /\ closed \in [Calls -> BOOLEAN]
      OBVIOUS
    <3>4. toClient \in Seq(Responses)
      OBVIOUS
    <3> QED BY <3>1, <3>2, <3>3, <3>4 DEF TransportTypeOK
  <2>2. job \in [what : {"none", "flushall", "stop", "stopped"},
                todo : SUBSET (Tags \union FidNumbers), at : Nat, call : Calls \union {None}]
    BY DEF NoJob
  <2>3. toServer \in Seq(Requests) /\ pending \subseteq Requests
    OBVIOUS
  <2> QED BY <2>1, <2>2, <2>3, Bounds DEF TypeOK, Size, Tags
<1>2. ChannelInv /\ FreshInv /\ NewfidInv /\ JobTagsInv
  BY DEF ChannelInv, FreshInv, NewfidInv, JobTagsInv, NoJob
<1>3. PoolInv
  <2>1. Begun = {}
    BY DEF Begun
  <2> QED BY <2>1, FS_EmptySet DEF PoolInv
<1> QED BY <1>1, <1>2, <1>3 DEF TypeInv

USE TransportAssumption, ClientAssumption

\* A new call of the application keeps the types.
LEMMA TypeAppCall == ASSUME TypeInv, NEW c \in Calls, AppCall(c) PROVE TypeInv'
<1> USE DEF AppCall, Begin, Goto, chanVars, serveVars, netVars, serverVars
<1>1. TypeOK'
  BY DEF TypeInv, TypeOK, TransportTypeOK
<1>2. ChannelInv' /\ FreshInv' /\ NewfidInv' /\ JobTagsInv'
  BY DEF TypeInv, TypeOK, TransportTypeOK, ChannelInv, FreshInv, NewfidInv, JobTagsInv, Idle,
         AppKinds
<1>3. \A d \in Calls : d \in Begun => d \in Begun'
  BY DEF TypeInv, TypeOK, TransportTypeOK, Idle, Begun
<1> QED BY <1>1, <1>2, <1>3, PoolStep DEF TypeInv

\* The tags the search looks at are tags of the pool.
LEMMA Candidates ==
    ASSUME TransportTypeOK, NEW i \in Nat
    PROVE  Candidate(i) \in PoolTags /\ Candidate(i) \in Tags /\ After(i) \in PoolTags
BY DEF TransportTypeOK, Candidate, After, PoolTags, Tags

\* What Tag and TakeTag do to the state.
LEMMA TagSteps ==
    ASSUME TypeInv, NEW c \in Calls, CallTag(c)
    PROVE  /\ pc[c] = "tag"
           /\ UNCHANGED <<buf, closed, ch, serveVars, netVars, clientVars, serverVars>>
           /\ \/ \E r \in {"depleted", "unexpected", "taginuse"} :
                    Yield(c, r) /\ UNCHANGED <<queue, nextTag, tag>>
              \/ \E t \in Tags, l \in {"fid", "send"} :
                    /\ queue[t] = None
                    /\ Take(c, t, l)
                    /\ l = "fid" <=> kind[c] \in Introduces
                    /\ nextTag' \in PoolTags
           /\ result'[c] \in {"depleted", "unexpected"} => \A t \in PoolTags : queue[t] # None
           /\ pc'[c] = "reply" /\ kind[c] # "version" => \A t \in PoolTags : queue[t] # None
<1>1. TransportTypeOK /\ pc[c] = "tag"
  BY DEF TypeInv, TypeOK, CallTag, Tag, TakeTag
<1>2. ASSUME NEW l \in {"fid", "send"}, Tag(c, l), Found # {}, ~ Depleted
      PROVE  \E t \in Tags : queue[t] = None /\ Take(c, t, l) /\ nextTag' \in PoolTags
  <2>1. PICK i \in Found : Take(c, Candidate(i), l) /\ nextTag' = After(i)
    BY <1>2 DEF Tag
  <2>2. i \in Nat /\ queue[Candidate(i)] = None
    BY DEF Found
  <2> QED BY <2>1, <2>2, Candidates, <1>1
<1>3. CASE \E l \in {"fid", "send"} : Tag(c, l) /\ (l = "fid" <=> kind[c] \in Introduces)
  <2>1. PICK l \in {"fid", "send"} : Tag(c, l) /\ (l = "fid" <=> kind[c] \in Introduces)
    BY <1>3
  <2>2. UNCHANGED <<buf, closed, ch, serveVars, netVars, clientVars, serverVars>>
    BY <2>1 DEF Tag, CallTag
  <2>3. CASE Found # {} /\ ~Depleted
    <3>1. PICK t \in Tags : queue[t] = None /\ Take(c, t, l) /\ nextTag' \in PoolTags
      BY <1>2, <2>1, <2>3
    <3>2. result'[c] = "none" /\ pc'[c] = l
      BY <3>1, <1>1 DEF Take, Goto, TypeInv, FreshInv, TransportTypeOK
    <3> QED BY <1>1, <2>1, <2>2, <3>1, <3>2
  <2>4. CASE Found = {} \/ Depleted
    <3>1. \E r \in {"depleted", "unexpected", "taginuse"} :
              Yield(c, r) /\ UNCHANGED <<queue, nextTag, tag>>
      BY <2>1, <2>4 DEF Tag
    <3> QED BY <1>1, <2>2, <2>4, <3>1, TagFails
  <2> QED BY <2>3, <2>4
<1>4. CASE kind[c] = "version" /\ TakeTag(c, NOTAG, "send")
  <2>1. UNCHANGED <<nextTag, buf, closed, ch, serveVars, netVars, clientVars, serverVars>>
    BY <1>4 DEF TakeTag, CallTag
  <2>2. NOTAG \in Tags /\ nextTag \in PoolTags /\ "version" \notin Introduces
    BY <1>1 DEF Tags, TransportTypeOK, Introduces
  <2>3. result[c] = "none" /\ result \in [Calls -> {"none", "ok", "error", "short", "nil",
                 "nosuchtag", "depleted", "unexpected", "taginuse", "io"}]
    BY <1>1 DEF TypeInv, FreshInv, TransportTypeOK
  <2> QED BY <1>1, <1>4, <2>1, <2>2, <2>3 DEF TakeTag, Take, Yield, Goto
<1> QED BY <1>3, <1>4 DEF CallTag

\* Obtaining a tag keeps the types.
LEMMA TypeCallTag == ASSUME TypeInv, NEW c \in Calls, CallTag(c) PROVE TypeInv'
<1> USE DEF Goto, clientVars, serveVars, netVars, serverVars
<1>1. /\ pc[c] = "tag"
      /\ UNCHANGED <<buf, closed, ch, serveVars, netVars, clientVars, serverVars>>
  BY TagSteps
<1>2. CASE \E r \in {"depleted", "unexpected", "taginuse"} :
               Yield(c, r) /\ UNCHANGED <<queue, nextTag, tag>>
  <2>1. PICK r \in {"depleted", "unexpected", "taginuse"} :
               Yield(c, r) /\ UNCHANGED <<queue, nextTag, tag>>
    BY <1>2
  <2> USE <1>1, <2>1 DEF Yield
  <2>2. TypeOK'
    BY DEF TypeInv, TypeOK, TransportTypeOK
  <2>3. ChannelInv' /\ FreshInv' /\ NewfidInv' /\ JobTagsInv'
    BY DEF TypeInv, TypeOK, TransportTypeOK, ChannelInv, FreshInv, NewfidInv, JobTagsInv
  <2>4. \A d \in Calls : d \in Begun => d \in Begun'
    BY DEF TypeInv, TypeOK, TransportTypeOK, Begun
  <2> QED BY <2>2, <2>3, <2>4, PoolStep DEF TypeInv
<1>3. CASE \E t \in Tags, l \in {"fid", "send"} :
                    /\ queue[t] = None
                    /\ Take(c, t, l)
                    /\ l = "fid" <=> kind[c] \in Introduces
                    /\ nextTag' \in PoolTags
  <2>1. PICK t \in Tags, l \in {"fid", "send"} :
                    /\ queue[t] = None
                    /\ Take(c, t, l)
                    /\ l = "fid" <=> kind[c] \in Introduces
                    /\ nextTag' \in PoolTags
    BY <1>3
  <2> USE <1>1, <2>1 DEF Take
  <2>2. TypeOK'
    BY DEF TypeInv, TypeOK, TransportTypeOK
  <2>3. ChannelInv' /\ FreshInv' /\ NewfidInv' /\ JobTagsInv'
    BY DEF TypeInv, TypeOK, TransportTypeOK, ChannelInv, FreshInv, NewfidInv, JobTagsInv
  <2>4. \A d \in Calls : d \in Begun => d \in Begun'
    BY DEF TypeInv, TypeOK, TransportTypeOK, Begun
  <2> QED BY <2>2, <2>3, <2>4, PoolStep DEF TypeInv
<1> QED BY <1>2, <1>3, TagSteps

\* getFid finds a fid that is not in the map.
LEMMA UnusedFree ==
    ASSUME TypeInv, NEW c \in Calls, pc[c] = "fid"
    PROVE  Unused \in FidNumbers \ fids
<1>1. Begun \in SUBSET Calls /\ c \notin Begun /\ IsFiniteSet(Begun) /\ IsFiniteSet(fids)
  BY Bounds, FS_Subset DEF Begun, TypeInv, TypeOK
<1>2. Cardinality(Begun) < NoFid
  <2>1. Begun # Calls
    BY <1>1
  <2>2. /\ Cardinality(Begun) <= Cardinality(Calls)
        /\ Cardinality(Calls) = Cardinality(Begun) => Calls = Begun
    BY <1>1, FS_Subset
  <2>3. Cardinality(Begun) \in Nat /\ Cardinality(Calls) \in Nat
    BY <1>1, FS_CardinalityType
  <2> QED BY <2>1, <2>2, <2>3 DEF NoFid
<1>3. Cardinality(fids) < NoFid /\ fids \in SUBSET FidNumbers
  BY <1>1, <1>2, FS_CardinalityType, Bounds DEF TypeInv, TypeOK, PoolInv
<1> QED BY <1>3, LowestFree DEF Unused

\* getFid keeps the types: the fid it takes is a number below NoFid.
LEMMA TypeGetFid == ASSUME TypeInv, NEW c \in Calls, getFid(c) PROVE TypeInv'
<1>1. Begun \in SUBSET Calls /\ c \notin Begun /\ IsFiniteSet(Begun) /\ IsFiniteSet(fids)
  BY Bounds, FS_Subset DEF Begun, TypeInv, TypeOK, getFid
<1>3. Unused \in FidNumbers \ fids
  BY UnusedFree DEF getFid
<1>4. pc[c] = "fid"
  BY DEF getFid
<1>5. UNCHANGED <<chanVars, tag, ch, result, serveVars, netVars, kind, fid, oldtag, msgsize, ask,
                  job, held, serverVars>>
  BY DEF getFid
<1>6. CASE /\ newfid' = [newfid EXCEPT ![c] = Unused]
           /\ fids' = fids \union {Unused}
           /\ Goto(c, "send")
  <2> USE <1>3, <1>4, <1>5, <1>6 DEF Goto, chanVars, serveVars, netVars, serverVars
  <2>1. TypeOK'
    BY DEF TypeInv, TypeOK, TransportTypeOK
  <2>2. ChannelInv' /\ FreshInv' /\ NewfidInv' /\ JobTagsInv'
    BY DEF TypeInv, TypeOK, TransportTypeOK, ChannelInv, FreshInv, NewfidInv, JobTagsInv
  <2>3. PoolInv'
    <3>1. Begun' = Begun \union {c}
      BY DEF Begun, TypeInv, TypeOK, TransportTypeOK
    <3>2. Cardinality(Begun') = Cardinality(Begun) + 1 /\ Cardinality(Begun) \in Nat
      BY <1>1, <3>1, AddOne
    <3>3. Cardinality(fids \union {Unused}) <= Cardinality(fids) + 1
      BY <1>1, AddOne
    <3>4. Cardinality(fids) \in Nat /\ Cardinality(fids') \in Nat
      BY <1>1, AddOne
    <3> QED BY <3>2, <3>3, <3>4 DEF TypeInv, PoolInv
  <2> QED BY <2>1, <2>2, <2>3 DEF TypeInv
<1>7. CASE Goto(c, "panicked") /\ UNCHANGED <<newfid, fids>>
  <2> USE <1>4, <1>5, <1>7 DEF Goto, chanVars, serveVars, netVars, serverVars
  <2>1. TypeOK'
    BY DEF TypeInv, TypeOK, TransportTypeOK
  <2>2. ChannelInv' /\ FreshInv' /\ NewfidInv' /\ JobTagsInv'
    BY SMTT(20) DEF TypeInv, TypeOK, TransportTypeOK, ChannelInv, FreshInv, NewfidInv, JobTagsInv
  <2>3. \A d \in Calls : d \in Begun => d \in Begun'
    BY DEF TypeInv, TypeOK, TransportTypeOK, Begun
  <2> QED BY <2>1, <2>2, <2>3, PoolStep DEF TypeInv
<1> QED BY <1>6, <1>7 DEF getFid

\* Looking up the channel keeps the types.
LEMMA TypeGetChannel ==
    ASSUME TypeInv, NEW c \in Calls, GetChannel(c), UNCHANGED <<clientVars, serverVars>>
    PROVE  TypeInv'
<1> USE DEF GetChannel, Yield, Goto, chanVars, serveVars, netVars, clientVars, serverVars
<1>1. TypeOK'
  BY DEF TypeInv, TypeOK, TransportTypeOK
<1>2. ChannelInv' /\ FreshInv' /\ NewfidInv' /\ JobTagsInv'
  BY DEF TypeInv, TypeOK, TransportTypeOK, ChannelInv, FreshInv, NewfidInv, JobTagsInv
<1>3. \A d \in Calls : d \in Begun => d \in Begun'
  BY DEF TypeInv, TypeOK, TransportTypeOK, Begun
<1> QED BY <1>1, <1>2, <1>3, PoolStep DEF TypeInv

\* What a call sends is a request.
LEMMA RequestType ==
    ASSUME TypeInv, NEW c \in Calls, pc[c] = "write"
    PROVE  /\ Request(c) \in Requests
           /\ Request(c).kind \in Introduces => Request(c).newfid \in FidNumbers
<1>1. kind[c] # "none"
  BY DEF TypeInv, NewfidInv
<1> QED BY <1>1 DEF TypeInv, TypeOK, TransportTypeOK, NewfidInv, Request, Requests

\* Writing the request keeps the types.
LEMMA TypeWrite ==
    ASSUME TypeInv, NEW c \in Calls, Write(c, Request(c)), UNCHANGED <<clientVars, serverVars>>
    PROVE  TypeInv'
<1> USE DEF Write, Yield, Goto, die, chanVars, serveVars, netVars, clientVars, serverVars
<1>1. TypeOK'
  <2>1. toServer' \in Seq(Requests)
    <3>1. toServer \in Seq(Requests) /\ Request(c) \in Requests
      BY RequestType DEF TypeInv, TypeOK
    <3>2. toServer' = toServer \/ toServer' = Append(toServer, Request(c))
      OBVIOUS
    <3> QED BY ONLY <3>1, <3>2
  <2> QED BY <2>1 DEF TypeInv, TypeOK, TransportTypeOK
<1>2. ChannelInv' /\ FreshInv' /\ JobTagsInv'
  BY DEF TypeInv, TypeOK, TransportTypeOK, ChannelInv, FreshInv, JobTagsInv
<1>3. NewfidInv'
  <2>1. /\ toServer \in Seq(Requests)
        /\ toServer' = toServer \/ toServer' = Append(toServer, Request(c))
    BY DEF TypeInv, TypeOK
  <2>2. \A i \in 1..Len(toServer') :
            toServer'[i].kind \in Introduces => toServer'[i].newfid \in FidNumbers
    <3>1. \A i \in 1..Len(toServer) :
              toServer[i].kind \in Introduces => toServer[i].newfid \in FidNumbers
      BY DEF TypeInv, NewfidInv
    <3>2. PICK n \in Nat : n = Len(toServer)
      BY <2>1
    <3>3. PICK r : r = Request(c) /\ (r.kind \in Introduces => r.newfid \in FidNumbers)
      BY RequestType
    <3>4. CASE toServer' = Append(toServer, r)
      <4>1. /\ Len(toServer') = n + 1 /\ toServer'[n+1] = r
            /\ \A i \in 1..n : toServer'[i] = toServer[i]
            /\ \A i \in 1..(n+1) : i \in 1..n \/ i = n + 1
        BY <2>1, <3>2, <3>4
      <4> QED BY <3>1, <3>2, <3>3, <4>1
    <3> QED BY <2>1, <3>1, <3>3, <3>4
  <2> QED BY <2>2 DEF TypeInv, TypeOK, TransportTypeOK, NewfidInv
<1>4. \A d \in Calls : d \in Begun => d \in Begun'
  BY DEF TypeInv, TypeOK, TransportTypeOK, Begun
<1> QED BY <1>1, <1>2, <1>3, <1>4, PoolStep DEF TypeInv

\* Receiving the response keeps the types.
LEMMA TypeAwait ==
    ASSUME TypeInv, NEW c \in Calls, Await(c), UNCHANGED <<clientVars, serverVars>>
    PROVE  TypeInv'
<1> USE DEF Await, Yield, Goto, serveVars, netVars, clientVars, serverVars
<1>1. ch[c] \in Calls
  BY DEF TypeInv, ChannelInv
<1>2. buf[ch[c]] # None => buf[ch[c]].what \in {"ok", "error", "short"}
  BY ZenonT(20), <1>1 DEF TypeInv, TypeOK, TransportTypeOK, Responses
<1>3. TypeOK'
  BY <1>1, <1>2 DEF TypeInv, TypeOK, TransportTypeOK
<1>4. ChannelInv' /\ FreshInv' /\ NewfidInv' /\ JobTagsInv'
  BY DEF TypeInv, TypeOK, TransportTypeOK, ChannelInv, FreshInv, NewfidInv, JobTagsInv
<1>5. \A d \in Calls : d \in Begun => d \in Begun'
  BY DEF TypeInv, TypeOK, TransportTypeOK, Begun
<1> QED BY <1>3, <1>4, <1>5, PoolStep DEF TypeInv

\* The return of a call keeps the types.
LEMMA TypeReturn == ASSUME TypeInv, NEW c \in Calls, Return(c) PROVE TypeInv'
<1> USE DEF Return, Goto, Forget, chanVars, serveVars, netVars, serverVars
<1>1. TypeOK'
  <2>1. held' \subseteq FidNumbers
    BY DEF TypeInv, TypeOK, NewfidInv
  <2>2. msgsize' \in Size
    BY DEF TypeInv, TypeOK, Negotiated
  <2>3. NOTAG \in Tags
    BY DEF Tags
  <2> QED BY <2>1, <2>2, <2>3 DEF TypeInv, TypeOK, TransportTypeOK
<1>2. ChannelInv' /\ FreshInv' /\ NewfidInv' /\ JobTagsInv'
  BY DEF TypeInv, TypeOK, TransportTypeOK, ChannelInv, FreshInv, NewfidInv, JobTagsInv, Introduces
<1>3. \A d \in Calls : d \in Begun => d \in Begun'
  BY DEF TypeInv, TypeOK, TransportTypeOK, Begun
<1> QED BY <1>1, <1>2, <1>3, PoolStep DEF TypeInv

\* Starting FlushAll or Stop, and the end of FlushAll, keep the types.
LEMMA TypeJobStart ==
    ASSUME TypeInv, UNCHANGED <<transportVars, kind, fid, newfid, oldtag, fids, msgsize, ask, held,
                                serverVars>>,
           job' = NoJob \/ job' = [NoJob EXCEPT !.what = "flushall", !.todo = PendingTags]
               \/ job' = [NoJob EXCEPT !.what = "stop", !.todo = fids]
    PROVE  TypeInv'
<1> USE DEF transportVars, chanVars, callVars, serveVars, netVars, serverVars
<1>1. PendingTags \subseteq Tags /\ fids \subseteq FidNumbers /\ 0 \in Tags
  BY DEF PendingTags, InUse, Tags, TypeInv, TypeOK
<1>2. /\ job' \in [what : {"none", "flushall", "stop", "stopped"},
                   todo : SUBSET (Tags \union FidNumbers), at : Nat, call : Calls \union {None}]
      /\ JobTagsInv'
  <2>1. PICK w \in {"none", "flushall", "stop"}, S \in SUBSET (Tags \union FidNumbers) :
            /\ job' = [what |-> w, todo |-> S, at |-> 0, call |-> None]
            /\ w = "flushall" => S \subseteq Tags
    <3>1. CASE job' = NoJob
      BY <3>1 DEF NoJob
    <3>2. CASE job' = [NoJob EXCEPT !.what = "flushall", !.todo = PendingTags]
      <4>1. job' = [what |-> "flushall", todo |-> PendingTags, at |-> 0, call |-> None]
        BY <3>2 DEF NoJob
      <4>2. PendingTags \in SUBSET (Tags \union FidNumbers)
        BY <1>1
      <4> QED BY <1>1, <4>1, <4>2
    <3>3. CASE job' = [NoJob EXCEPT !.what = "stop", !.todo = fids]
      <4>1. job' = [what |-> "stop", todo |-> fids, at |-> 0, call |-> None]
        BY <3>3 DEF NoJob
      <4>2. fids \in SUBSET (Tags \union FidNumbers)
        BY <1>1
      <4> QED BY <4>1, <4>2
    <3> QED BY <3>1, <3>2, <3>3
  <2> QED BY <1>1, <2>1 DEF JobTagsInv
<1>3. TypeOK'
  BY <1>2 DEF TypeInv, TypeOK, TransportTypeOK
<1>4. ChannelInv' /\ FreshInv' /\ NewfidInv'
  BY DEF TypeInv, ChannelInv, FreshInv, NewfidInv
<1>5. \A d \in Calls : d \in Begun => d \in Begun'
  BY DEF Begun
<1> QED BY <1>2, <1>3, <1>4, <1>5, PoolStep DEF TypeInv

\* The next flush or clunk of FlushAll or Stop keeps the types.
LEMMA TypeJobNext ==
    ASSUME TypeInv, NEW c \in Calls, FlushNext(c) \/ StopNext(c)
    PROVE  TypeInv'
<1> DEFINE Record == [what : {"none", "flushall", "stop", "stopped"},
                      todo : SUBSET (Tags \union FidNumbers), at : Nat, call : Calls \union {None}]
<1>1. /\ Idle(c)
      /\ \E k \in {"flush", "clunk"} : Begin(c, k)
      /\ UNCHANGED <<chanVars, tag, ch, result, serveVars, netVars, newfid, fids, msgsize, ask,
                     held, serverVars>>
  BY DEF FlushNext, StopNext
<1>2. job' \in Record /\ JobTagsInv'
  <2>1. PICK t \in job.todo : job' = [job EXCEPT !.todo = @ \ {t}, !.at = t, !.call = c]
    BY DEF FlushNext, StopNext
  <2>2. job \in Record
    BY DEF TypeInv, TypeOK
  <2>3. t \in Nat
    BY <2>2, Bounds DEF Tags
  <2> QED BY <2>1, <2>2, <2>3 DEF TypeInv, JobTagsInv
<1>3. oldtag' \in [Calls -> Tags] /\ fid' \in [Calls -> FidNumbers \union {NoFid}]
  <2>1. CASE FlushNext(c)
    <3>1. PICK t \in job.todo : oldtag' = [oldtag EXCEPT ![c] = t]
      BY <2>1 DEF FlushNext
    <3>2. t \in Tags /\ fid' = fid
      BY <2>1 DEF FlushNext, TypeInv, JobTagsInv
    <3> QED BY <3>1, <3>2 DEF TypeInv, TypeOK
  <2>2. CASE StopNext(c)
    <3>1. PICK f \in job.todo \intersect fids : fid' = [fid EXCEPT ![c] = f]
      BY <2>2 DEF StopNext
    <3>2. oldtag' = oldtag
      BY <2>2 DEF StopNext
    <3> QED BY <3>1, <3>2 DEF TypeInv, TypeOK
  <2> QED BY <2>1, <2>2
<1>a. PICK k \in {"flush", "clunk"} : Begin(c, k)
  BY <1>1
<1> USE <1>1, <1>a DEF Begin, Goto, chanVars, serveVars, netVars, serverVars
<1>4. TypeOK'
  <2>1. TransportTypeOK'
    BY DEF TypeInv, TypeOK, TransportTypeOK
  <2>2. kind' \in [Calls -> AppKinds \union {"none", "flush"}]
    BY DEF TypeInv, TypeOK, AppKinds
  <2> QED BY <1>2, <1>3, <2>1, <2>2 DEF TypeInv, TypeOK
<1>5. ChannelInv' /\ FreshInv' /\ NewfidInv'
  BY DEF TypeInv, TypeOK, TransportTypeOK, ChannelInv, FreshInv, NewfidInv, Idle, Introduces
<1>6. \A d \in Calls : d \in Begun => d \in Begun'
  BY DEF TypeInv, TypeOK, TransportTypeOK, Idle, Begun
<1> QED BY <1>2, <1>4, <1>5, <1>6, PoolStep DEF TypeInv

\* The end of Stop keeps the types.
LEMMA TypeStopReturn == ASSUME TypeInv, StopReturn PROVE TypeInv'
<1> USE DEF StopReturn, StopServe, chanVars, callVars, netVars, serverVars
<1>1. job' \in [what : {"none", "flushall", "stop", "stopped"},
                todo : SUBSET (Tags \union FidNumbers), at : Nat, call : Calls \union {None}]
      /\ JobTagsInv'
  <2>1. job' = [what |-> "stopped", todo |-> {}, at |-> 0, call |-> None]
    BY DEF NoJob
  <2>2. {} \in SUBSET (Tags \union FidNumbers) /\ 0 \in Nat
    OBVIOUS
  <2>3. job'.what = "stopped"
    BY <2>1
  <2> QED BY ONLY <2>1, <2>2, <2>3 DEF JobTagsInv
<1>2. TypeOK'
  BY <1>1 DEF TypeInv, TypeOK, TransportTypeOK
<1>3. ChannelInv' /\ FreshInv' /\ NewfidInv'
  BY DEF TypeInv, ChannelInv, FreshInv, NewfidInv
<1>4. \A d \in Calls : d \in Begun => d \in Begun'
  BY DEF Begun
<1> QED BY <1>1, <1>2, <1>3, <1>4, PoolStep DEF TypeInv

\* Ditching a flushed tag keeps the types.
LEMMA TypeFlushDitch == ASSUME TypeInv, FlushDitch PROVE TypeInv'
<1> USE DEF FlushDitch, callVars, serveVars, netVars, serverVars
<1>1. job' \in [what : {"none", "flushall", "stop", "stopped"},
                todo : SUBSET (Tags \union FidNumbers), at : Nat, call : Calls \union {None}]
      /\ JobTagsInv'
  BY DEF TypeInv, TypeOK, JobTagsInv
<1>2. queue' \in [Tags -> Calls \union {None}] /\ closed' \in [Calls -> BOOLEAN]
  BY DEF Ditch, Drop, TypeInv, TypeOK, TransportTypeOK
<1>3. TypeOK'
  BY <1>1, <1>2 DEF TypeInv, TypeOK, TransportTypeOK
<1>4. ChannelInv' /\ FreshInv' /\ NewfidInv'
  BY DEF TypeInv, ChannelInv, FreshInv, NewfidInv
<1>5. \A d \in Calls : d \in Begun => d \in Begun'
  BY DEF Begun
<1> QED BY <1>1, <1>3, <1>4, <1>5, PoolStep DEF TypeInv

\* Every step of Serve keeps the types.
LEMMA TypeServe == ASSUME TypeInv, Serve PROVE TypeInv'
<1> USE DEF Serve, chanVars, callVars, serveVars, netVars, clientVars, serverVars
<1>1. UNCHANGED <<callVars, conn, toServer, clientVars, serverVars>>
  BY DEF ServeLoop, ServeCheck, received, ReadFails
<1>2. TransportTypeOK'
  <2>1. CASE ServeCheck
    BY <1>1, <2>1 DEF ServeCheck, TypeInv, TypeOK, TransportTypeOK
  <2>2. CASE ReadFails
    BY <1>1, <2>2 DEF ReadFails, die, TypeInv, TypeOK, TransportTypeOK
  <2>3. CASE received
    <3> DEFINE m == Head(toClient)
    <3>1. m \in Responses /\ Tail(toClient) \in Seq(Responses) /\ m.tag \in Tags
      <4>1. toClient \in Seq(Responses) /\ toClient # <<>>
        BY <2>3 DEF received, TypeInv, TypeOK, TransportTypeOK
      <4>2. m \in Responses /\ Tail(toClient) \in Seq(Responses)
        BY ONLY <4>1
      <4> QED BY <4>2 DEF Responses
    <3>2. CASE queue[m.tag] # None
      <4> DEFINE q == queue[m.tag]
      <4>1. q \in Calls
        BY <3>1, <3>2 DEF TypeInv, TypeOK, TransportTypeOK
      <4>2. /\ buf' = [buf EXCEPT ![q] = m] /\ closed' = [closed EXCEPT ![q] = TRUE]
            /\ queue' = [queue EXCEPT ![m.tag] = None]
            /\ serve' = "check" /\ UNCHANGED <<error, dead, nextTag>>
            /\ toClient' = Tail(toClient)
        BY <2>3, <3>2 DEF received, Drop
      <4> HIDE DEF m, q
      <4> QED BY <1>1, <3>1, <4>1, <4>2 DEF TypeInv, TypeOK, TransportTypeOK
    <3>3. CASE queue[m.tag] = None
      BY <1>1, <2>3, <3>1, <3>3 DEF received, die, TypeInv, TypeOK, TransportTypeOK
    <3> QED BY <3>2, <3>3
  <2> QED BY <2>1, <2>2, <2>3 DEF ServeLoop
<1>3. TypeOK'
  BY <1>1, <1>2 DEF TypeInv, TypeOK
<1>4. ChannelInv' /\ FreshInv' /\ NewfidInv' /\ JobTagsInv'
  BY <1>1 DEF TypeInv, ChannelInv, FreshInv, NewfidInv, JobTagsInv
<1>5. \A d \in Calls : d \in Begun => d \in Begun'
  BY <1>1 DEF Begun
<1>6. fids' \subseteq fids
  BY <1>1
<1> QED BY <1>3, <1>4, <1>5, <1>6, PoolStep DEF TypeInv

\* What the server makes of a request it has.
LEMMA EffectsType ==
    ASSUME TypeInv, NEW m \in Requests, m.kind \in Introduces => m.newfid \in FidNumbers,
           NEW e \in Effects(m)
    PROVE  e[1] \in {"ok", "error", "short"} /\ e[2] \subseteq FidNumbers
BY DEF Effects, TypeInv, TypeOK

\* An answer is a response.
LEMMA AnswerType ==
    ASSUME TypeInv, NEW m \in Requests, NEW w \in {"ok", "error", "short"}, Answer(m, w)
    PROVE  toClient' \in Seq(Responses)
<1>1. [call |-> m.call, tag |-> m.tag, what |-> w] \in Responses
  BY DEF Requests, Responses
<1> QED BY <1>1 DEF Answer, TypeInv, TypeOK, TransportTypeOK

\* A step of the server that handles messages of the right types keeps the types.
LEMMA ServerType ==
    ASSUME TypeInv, UNCHANGED <<chanVars, callVars, serveVars, clientVars>>,
           conn' \in {"up", "broken"}, toClient' \in Seq(Responses), toServer' \in Seq(Requests),
           pending' \subseteq Requests, srvFids' \subseteq FidNumbers,
           \A i \in 1..Len(toServer') :
               toServer'[i].kind \in Introduces => toServer'[i].newfid \in FidNumbers,
           \A m \in pending' : m.kind \in Introduces => m.newfid \in FidNumbers
    PROVE  TypeInv'
<1> USE DEF chanVars, callVars, serveVars, clientVars
<1>1. TypeOK'
  BY DEF TypeInv, TypeOK, TransportTypeOK
<1>2. ChannelInv' /\ FreshInv' /\ NewfidInv' /\ JobTagsInv'
  BY DEF TypeInv, ChannelInv, FreshInv, NewfidInv, JobTagsInv
<1>3. \A d \in Calls : d \in Begun => d \in Begun'
  BY DEF Begun
<1> QED BY <1>1, <1>2, <1>3, PoolStep DEF TypeInv

\* The server taking a request keeps the types.
LEMMA TypeServerRead == ASSUME TypeInv, ServerRead PROVE TypeInv'
<1> DEFINE m == Head(toServer)
<1>1. toServer \in Seq(Requests) /\ toServer # <<>> /\ toServer' = Tail(toServer)
  BY DEF ServerRead, TypeInv, TypeOK
<1>2. m \in Requests /\ m = toServer[1] /\ 1 \in 1..Len(toServer) /\ toServer' \in Seq(Requests)
  BY <1>1
<1>3. \A i \in 1..Len(toServer') : toServer'[i] = toServer[i+1] /\ i+1 \in 1..Len(toServer)
  BY <1>1
<1>4. m.kind \in Introduces => m.newfid \in FidNumbers
  BY <1>2 DEF TypeInv, NewfidInv
<1>5. UNCHANGED <<chanVars, callVars, serveVars, conn, clientVars>>
  BY DEF ServerRead
<1> HIDE DEF m
<1>6. toClient' \in Seq(Responses)
  <2>1. toClient' = toClient \/ \E w \in {"ok", "error", "short"} : Answer(m, w)
    BY DEF ServerRead, m
  <2>2. toClient \in Seq(Responses)
    BY DEF TypeInv, TypeOK, TransportTypeOK
  <2> QED BY <1>2, <2>1, <2>2, AnswerType
<1>7. pending' \subseteq pending \union {m}
  BY DEF ServerRead, m, serverVars
<1>8. srvFids' \subseteq FidNumbers
  <2>1. srvFids' \in {srvFids, {}} \/ \E p \in pending : \E e \in Effects(p) : srvFids' = e[2]
    BY DEF ServerRead, serverVars
  <2>2. \A p \in pending : p \in Requests /\ (p.kind \in Introduces => p.newfid \in FidNumbers)
    BY DEF TypeInv, TypeOK, NewfidInv
  <2> QED BY <2>1, <2>2, EffectsType DEF TypeInv, TypeOK
<1>9. /\ \A i \in 1..Len(toServer') :
             toServer'[i].kind \in Introduces => toServer'[i].newfid \in FidNumbers
      /\ \A p \in pending' : p.kind \in Introduces => p.newfid \in FidNumbers
  BY <1>3, <1>4, <1>7 DEF TypeInv, NewfidInv
<1>10. pending' \subseteq Requests /\ conn' \in {"up", "broken"}
  BY <1>2, <1>5, <1>7 DEF TypeInv, TypeOK, TransportTypeOK
<1> QED BY <1>2, <1>5, <1>6, <1>8, <1>9, <1>10, ServerType

\* The server answering a request keeps the types.
LEMMA TypeServerAnswer == ASSUME TypeInv, ServerAnswer PROVE TypeInv'
<1>1. PICK m \in pending : /\ pending' = pending \ {m}
                           /\ \E e \in Effects(m) : Answer(m, e[1]) /\ srvFids' = e[2]
  BY DEF ServerAnswer
<1>2. PICK e \in Effects(m) : Answer(m, e[1]) /\ srvFids' = e[2]
  BY <1>1
<1>3. m \in Requests /\ (m.kind \in Introduces => m.newfid \in FidNumbers)
  BY DEF TypeInv, TypeOK, NewfidInv
<1>4. e[1] \in {"ok", "error", "short"} /\ e[2] \subseteq FidNumbers
  BY <1>3, EffectsType
<1>5. toClient' \in Seq(Responses) /\ srvFids' \subseteq FidNumbers
  BY <1>2, <1>3, <1>4, AnswerType
<1>6. UNCHANGED <<chanVars, callVars, serveVars, conn, toServer, clientVars>>
  BY DEF ServerAnswer
<1> QED BY <1>1, <1>5, <1>6, ServerType DEF TypeInv, TypeOK, TransportTypeOK, NewfidInv

\* A break of the connection keeps the types.
LEMMA TypeBreak == ASSUME TypeInv, Break PROVE TypeInv'
<1>1. /\ conn' = "broken" /\ toServer' = <<>> /\ toClient' = <<>> /\ pending' = {}
      /\ UNCHANGED <<chanVars, callVars, serveVars, clientVars, srvFids>>
  BY DEF Break
<1> QED BY <1>1, ServerType DEF TypeInv, TypeOK

\* Every step keeps the types.
LEMMA NextType == TypeInv /\ [Next]_vars => TypeInv'
<1> SUFFICES ASSUME TypeInv, [Next]_vars PROVE TypeInv'
  OBVIOUS
<1>1. ASSUME NEW c \in Calls, CallSend(c) PROVE TypeInv'
  BY <1>1, TypeGetChannel, TypeWrite, TypeAwait DEF CallSend, Send
<1>2. CASE FlushAll \/ Stop \/ FlushReturn
  BY <1>2, TypeJobStart DEF FlushAll, Stop, FlushReturn
<1>3. CASE UNCHANGED vars
  <2> USE <1>3 DEF vars, transportVars, chanVars, callVars, serveVars, netVars, clientVars,
                   serverVars
  <2>1. TypeOK' /\ ChannelInv' /\ FreshInv' /\ NewfidInv' /\ JobTagsInv'
    BY DEF TypeInv, TypeOK, TransportTypeOK, ChannelInv, FreshInv, NewfidInv, JobTagsInv
  <2>2. \A d \in Calls : d \in Begun => d \in Begun'
    BY DEF Begun
  <2> QED BY <2>1, <2>2, PoolStep DEF TypeInv
<1> QED BY <1>1, <1>2, <1>3, TypeAppCall, TypeCallTag, TypeGetFid, TypeReturn, TypeJobNext,
           TypeStopReturn, TypeFlushDitch, TypeServe, TypeServerRead, TypeServerAnswer, TypeBreak
    DEF Next, CallsStep, CallStep, JobStep

\* Type correctness of Client and Transport together, for any number of calls and tags and
\* whatever the application, the server and the connection do.
THEOREM TypeCorrect == Spec => []TypeOK
<1>1. TypeInv => TypeOK
  BY DEF TypeInv
<1> QED BY <1>1, InitType, NextType, PTL DEF Spec

\* A call that asks for a tag goes on only by its own step.
LEMMA TagsItself ==
    ASSUME TypeInv, [Next]_vars, NEW c \in Calls, pc[c] = "tag", ~CallTag(c)
    PROVE  pc'[c] = "tag"
<1> USE DEF TypeInv, TypeOK, TransportTypeOK, Goto, callVars
<1>1. ASSUME NEW d \in Calls, CallTag(d) PROVE pc'[c] = "tag"
  BY <1>1 DEF CallTag, Tag, TakeTag, Take, Yield
<1>2. ASSUME NEW d \in Calls, CallSend(d) PROVE pc'[c] = "tag"
  BY <1>2 DEF CallSend, Send, GetChannel, Write, Await, Yield
<1>3. ASSUME NEW d \in Calls, AppCall(d) \/ FlushNext(d) \/ StopNext(d) PROVE pc'[c] = "tag"
  BY <1>3 DEF AppCall, FlushNext, StopNext, Begin, Idle
<1>4. ASSUME NEW d \in Calls, getFid(d) \/ Return(d) PROVE pc'[c] = "tag"
  BY <1>4 DEF getFid, Return
<1>5. CASE FlushAll \/ Stop \/ FlushDitch \/ FlushReturn \/ StopReturn
  BY <1>5 DEF FlushAll, Stop, FlushDitch, FlushReturn, StopReturn, transportVars
<1>6. CASE Serve \/ ServerRead \/ ServerAnswer \/ Break \/ UNCHANGED vars
  BY <1>6 DEF Serve, ServeLoop, ServeCheck, received, ReadFails, ServerRead, ServerAnswer, Break,
              vars, transportVars
<1> QED BY <1>1, <1>2, <1>3, <1>4, <1>5, <1>6 DEF Next, CallsStep, CallStep, JobStep

\* The action property TagPoolUsed: Tag of transport.go gives up only when every tag of the
\* pool is in use, for any number of tags and wherever nextTag stands.
THEOREM TagsExhausted == Spec => TagPoolUsed
<1>1. ASSUME TypeInv, TypeInv', [Next]_vars, NEW c \in Calls, pc[c] = "tag",
             result'[c] \in {"depleted", "unexpected"}
      PROVE  \A t \in PoolTags : queue[t] # None
  <2>1. CASE CallTag(c)
    BY <1>1, <2>1, TagSteps
  <2>2. CASE ~CallTag(c)
    BY <1>1, <2>2, TagsItself DEF TypeInv, FreshInv
  <2> QED BY <2>1, <2>2
<1>2. TypeInv /\ TypeInv' /\ [Next]_vars =>
          [\A c \in Calls :
              pc[c] = "tag" /\ result'[c] \in {"depleted", "unexpected"} =>
                  \A t \in PoolTags : queue[t] # None]_vars
  BY <1>1
<1> QED BY <1>2, InitType, NextType, PTL DEF Spec, TagPoolUsed

-----------------------------------------------------------------------------
\* The application does not race FlushAll, Stop or Version with its own calls; and if it
\* calls FlushAll, a tag is free for the Tflush.  Without a free tag FlushAll ditches the tag
\* all the same, and Serve gives up when the answer comes.
Calm == "racing" \notin Env /\ ("flushall" \in Env => Parallel < NOTAG)

\* A tag in use belongs to one call, which waits for it, or to a call whose Write failed.
QueueInv ==
    \A t \in Tags : queue[t] # None =>
        LET c == queue[t] IN
        /\ ~closed[c] /\ buf[c] = None
        /\ \/ pc[c] \in {"fid", "send", "write", "wait"} /\ tag[c] = t
           \/ conn = "broken" /\ pc[c] \in {"reply", "done"}
        /\ \A u \in Tags : queue[u] = c => u = t

\* A call holds its tag and its channel until the response is put there.
HoldsInv ==
    \A c \in Calls :
       /\ pc[c] \in {"idle", "tag"} => ~closed[c] /\ buf[c] = None
       /\ pc[c] \in {"fid", "send", "write"} => queue[tag[c]] = c
       /\ pc[c] \in {"write", "wait"} => ch[c] = c
       /\ pc[c] = "wait" /\ ~closed[c] => queue[tag[c]] = c
       /\ buf[c] # None => buf[c].call = c

\* Message m is about a call that waits and still has the tag of m.
Matches(m) == queue[m.tag] = m.call /\ pc[m.call] = "wait" /\ tag[m.call] = m.tag

\* Every message in flight is about the call it was sent by.
FlightInv ==
    /\ \A i \in 1..Len(toServer) : Matches(toServer[i]) /\ toServer[i] = Request(toServer[i].call)
    /\ \A m \in pending : Matches(m) /\ m = Request(m.call) /\ m.kind # "flush"
    /\ \A i \in 1..Len(toClient) : Matches(toClient[i])

\* A call has one message in flight at most, on its way out, at the server or on its way back.
OnceInv ==
    /\ \A i, j \in 1..Len(toServer) : toServer[i].call = toServer[j].call => i = j
    /\ \A i, j \in 1..Len(toClient) : toClient[i].call = toClient[j].call => i = j
    /\ \A i \in 1..Len(toServer) : \A m \in pending : toServer[i].call # m.call
    /\ \A i \in 1..Len(toServer), j \in 1..Len(toClient) : toServer[i].call # toClient[j].call
    /\ \A j \in 1..Len(toClient) : \A m \in pending : toClient[j].call # m.call

\* Nothing is in flight on a broken connection.
BrokenInv == conn = "broken" => toServer = <<>> /\ toClient = <<>> /\ pending = {}

\* While FlushAll or Stop runs, no call of the application takes a step that could race it.
JobInv ==
    /\ job.call # None => job.what \in {"flushall", "stop"}
    /\ job.what = "flushall" =>
           /\ "flushall" \in Env
           /\ \A c \in Calls \ {job.call} : pc[c] \in {"idle", "wait", "reply", "done"}
    /\ job.what = "flushall" /\ job.call # None =>
           /\ pc[job.call] \in {"tag", "send", "write", "wait", "reply", "done"}
           /\ pc[job.call] # "done" => kind[job.call] = "flush" /\ oldtag[job.call] = job.at
    /\ job.what \in {"stop", "stopped"} => \A c \in Calls : Over(c) \/ kind[c] = "clunk"
    /\ \A c \in Calls : kind[c] = "flush" => job.what = "flushall" /\ c = job.call /\ pc[c] # "done"

\* The calls the application has in progress.
InProgress == {c \in Calls : ~Over(c) /\ kind[c] # "flush"}

\* They are at most Parallel.
CountInv == job.what \in {"none", "flushall"} => Cardinality(InProgress) <= Parallel

\* A flush goes out after the request it flushes, and once it is answered no message with the
\* flushed tag is left in flight, so that Ditch leaves no response behind.
FlushedInv ==
    job.what = "flushall" /\ job.call # None /\ conn = "up" =>
        /\ \A i \in 1..Len(toServer) : toServer[i].call = job.call => i = Len(toServer)
        /\ \A i \in 1..Len(toClient) : toClient[i].call = job.call =>
               /\ toServer = <<>>
               /\ \A m \in pending : m.tag # job.at
               /\ \A j \in (i+1)..Len(toClient) : toClient[j].tag # job.at
        /\ pc[job.call] \in {"reply", "done"} \/ (pc[job.call] = "wait" /\ closed[job.call]) =>
               /\ \A i \in 1..Len(toServer) : toServer[i].tag # job.at
               /\ \A m \in pending : m.tag # job.at
               /\ \A i \in 1..Len(toClient) : toClient[i].tag # job.at

\* The inductive invariant of calls and tags.
CallInv ==
    /\ QueueInv /\ HoldsInv /\ FlightInv /\ OnceInv
    /\ BrokenInv /\ JobInv /\ CountInv /\ FlushedInv

\* The initial states satisfy CallInv.
LEMMA InitCall == Init => CallInv
<1> SUFFICES ASSUME Init PROVE CallInv
  OBVIOUS
<1> USE DEF Init, TransportInit, NoJob
<1>1. QueueInv /\ HoldsInv /\ FlightInv /\ OnceInv /\ BrokenInv
  BY DEF QueueInv, HoldsInv, FlightInv, OnceInv, BrokenInv
<1>2. JobInv /\ FlushedInv
  BY DEF JobInv, FlushedInv
<1>3. CountInv
  <2>1. InProgress = {}
    BY DEF InProgress, Over
  <2> QED BY <2>1, FS_EmptySet DEF CountInv
<1> QED BY <1>1, <1>2, <1>3 DEF CallInv

\* A request or response in flight keeps its call waiting.
LEMMA MessageTypes ==
    ASSUME TypeInv
    PROVE  /\ toServer \in Seq(Requests) /\ toClient \in Seq(Responses)
           /\ pending \subseteq Requests
           /\ \A i \in 1..Len(toServer) : toServer[i].call \in Calls /\ toServer[i].tag \in Tags
           /\ \A i \in 1..Len(toClient) : toClient[i].call \in Calls /\ toClient[i].tag \in Tags
           /\ \A m \in pending : m.call \in Calls /\ m.tag \in Tags
<1>1. toServer \in Seq(Requests) /\ toClient \in Seq(Responses) /\ pending \subseteq Requests
  BY DEF TypeInv, TypeOK, TransportTypeOK
<1>2. \A i \in 1..Len(toServer) : toServer[i] \in Requests
  BY <1>1
<1>3. \A i \in 1..Len(toClient) : toClient[i] \in Responses
  BY <1>1
<1> QED BY <1>1, <1>2, <1>3 DEF Requests, Responses

\* A step of a call that does not wait, and that frees no tag, leaves the messages as they are.
LEMMA FlightKept ==
    ASSUME TypeInv, CallInv, NEW c \in Calls, pc[c] # "wait", UNCHANGED netVars, UNCHANGED pending,
           \A t \in Tags : queue[t] # None => queue'[t] = queue[t],
           \A d \in Calls \ {c} : /\ pc'[d] = pc[d] /\ tag'[d] = tag[d] /\ kind'[d] = kind[d]
                                  /\ fid'[d] = fid[d] /\ newfid'[d] = newfid[d]
                                  /\ oldtag'[d] = oldtag[d]
    PROVE  FlightInv' /\ OnceInv' /\ BrokenInv'
<1> USE DEF CallInv, netVars
<1>1. FlightInv'
  <2>1. ASSUME NEW m, m.tag \in Tags, m.call \in Calls, Matches(m)
        PROVE  Matches(m)' /\ m.call # c
    BY <2>1 DEF Matches
  <2>2. ASSUME NEW d \in Calls, d # c PROVE Request(d)' = Request(d)
    BY <2>2 DEF Request
  <2>3. \A i \in 1..Len(toServer) :
            Matches(toServer[i])' /\ toServer[i] = Request(toServer[i].call)'
    BY ZenonT(20), <2>1, <2>2, MessageTypes DEF FlightInv
  <2>4. \A m \in pending : Matches(m)' /\ m = Request(m.call)' /\ m.kind # "flush"
    BY <2>1, <2>2, MessageTypes DEF FlightInv
  <2>5. \A i \in 1..Len(toClient) : Matches(toClient[i])'
    BY <2>1, <2>2, MessageTypes DEF FlightInv
  <2> QED BY <2>3, <2>4, <2>5 DEF FlightInv, Matches, Request
<1>2. OnceInv' /\ BrokenInv'
  BY DEF OnceInv, BrokenInv
<1> QED BY <1>1, <1>2

\* A step that starts no call of the application keeps CountInv.
LEMMA CountKept ==
    ASSUME TypeInv, CallInv,
           job'.what \in {"none", "flushall"} => job.what \in {"none", "flushall"},
           \A d \in Calls : d \in InProgress' => d \in InProgress
    PROVE  CountInv'
<1>1. InProgress' \in SUBSET InProgress /\ InProgress \in SUBSET Calls
  BY DEF InProgress
<1>2. /\ IsFiniteSet(InProgress) /\ IsFiniteSet(InProgress')
      /\ Cardinality(InProgress') <= Cardinality(InProgress)
  BY <1>1, FS_Subset
<1> QED BY <1>2, FS_CardinalityType DEF CallInv, CountInv

\* A new call of the application keeps CallInv.
LEMMA CallAppCall == ASSUME Calm, TypeInv, CallInv, NEW c \in Calls, AppCall(c) PROVE CallInv'
<1>1. /\ pc[c] = "idle" /\ job.what = "none" /\ Cardinality({d \in Calls : ~Over(d)}) < Parallel
      /\ UNCHANGED <<chanVars, tag, ch, result, serveVars, netVars, newfid, oldtag, fids,
                     msgsize, job, held, serverVars>>
  BY DEF AppCall, Idle, Calm
<1>2. PICK k \in App : /\ Begin(c, k)
                       /\ \A d \in Calls \ {c} : fid'[d] = fid[d]
  BY DEF AppCall, TypeInv, TypeOK
<1> USE <1>1, <1>2 DEF Begin, Goto, chanVars, serveVars, netVars, serverVars
<1>3. k # "flush"
  BY DEF AppKinds
<1>4. QueueInv' /\ HoldsInv'
  BY DEF CallInv, QueueInv, HoldsInv, TypeInv, TypeOK, TransportTypeOK
<1>5. FlightInv' /\ OnceInv' /\ BrokenInv'
  BY FlightKept DEF TypeInv, TypeOK, TransportTypeOK
<1>6. JobInv' /\ FlushedInv'
  BY <1>3 DEF CallInv, JobInv, FlushedInv, TypeInv, TypeOK, TransportTypeOK
<1>7. CountInv'
  <2> DEFINE P == {d \in Calls : ~Over(d)}
  <2>1. InProgress' \in SUBSET (P \union {c})
    BY DEF InProgress, Over, TypeInv, TypeOK, TransportTypeOK
  <2>2. IsFiniteSet(P)
    BY FS_Subset
  <2> HIDE DEF P
  <2>3. Cardinality(P \union {c}) <= Cardinality(P) + 1 /\ Cardinality(P) \in Nat
        /\ IsFiniteSet(P \union {c})
    BY <2>2, AddOne
  <2>4. Cardinality(InProgress') <= Cardinality(P \union {c}) /\ IsFiniteSet(InProgress')
    BY <2>1, <2>3, FS_Subset
  <2>5. Cardinality(P) < Parallel
    BY DEF P
  <2> QED BY <2>3, <2>4, <2>5, FS_CardinalityType DEF CountInv
<1> QED BY <1>4, <1>5, <1>6, <1>7 DEF CallInv

\* While FlushAll makes a call there is a tag for it.
LEMMA TagLeft ==
    ASSUME Calm, TypeInv, CallInv, job.what = "flushall", job.call \in Calls, conn = "up",
           pc[job.call] = "tag"
    PROVE  ~ \A t \in PoolTags : queue[t] # None
<1> SUFFICES ASSUME \A t \in PoolTags : queue[t] # None PROVE FALSE
  OBVIOUS
<1> DEFINE f == [t \in PoolTags |-> queue[t]]
<1>1. PoolTags \subseteq Tags
  BY DEF PoolTags, Tags
<1>2. f \in Injection(PoolTags, InProgress)
  <2>1. \A t \in PoolTags : queue[t] \in InProgress
    <3> SUFFICES ASSUME NEW t \in PoolTags PROVE queue[t] \in InProgress
      OBVIOUS
    <3>1. PICK d \in Calls : d = queue[t]
      BY <1>1 DEF TypeInv, TypeOK, TransportTypeOK
    <3>2. pc[d] \in {"fid", "send", "write", "wait"}
      BY <1>1, <3>1 DEF CallInv, QueueInv
    <3> QED BY <3>1, <3>2 DEF CallInv, JobInv, InProgress, Over
  <2>2. \A t, u \in PoolTags : queue[t] = queue[u] => t = u
    BY <1>1 DEF CallInv, QueueInv
  <2> QED BY <2>1, <2>2 DEF Injection, IsInjective
<1>3. IsFiniteSet(InProgress) /\ IsFiniteSet(PoolTags) /\ Cardinality(PoolTags) = NOTAG
  BY FS_Subset, FS_Interval DEF InProgress, PoolTags
<1>4. Cardinality(PoolTags) <= Cardinality(InProgress)
  BY <1>2, <1>3, FS_Injection
<1>5. Parallel < NOTAG /\ Cardinality(InProgress) <= Parallel
  BY DEF Calm, CallInv, JobInv, CountInv
<1> QED BY <1>3, <1>4, <1>5, FS_CardinalityType

\* Tag gives a call a tag that no other call has.
LEMMA CallCallTag == ASSUME Calm, TypeInv, CallInv, NEW c \in Calls, CallTag(c) PROVE CallInv'
<1>1. /\ pc[c] = "tag"
      /\ UNCHANGED <<buf, closed, ch, serveVars, netVars, clientVars, serverVars>>
  BY TagSteps
<1>2. \A t \in Tags : queue[t] # c
  BY <1>1 DEF CallInv, QueueInv, TypeInv, TypeOK, TransportTypeOK
<1>3. closed[c] = FALSE /\ buf[c] = None
  BY <1>1 DEF CallInv, HoldsInv, TypeInv, TypeOK, TransportTypeOK
<1>4. ~(job.what = "flushall" /\ conn = "up" /\ pc'[c] = "reply")
  <2> SUFFICES ASSUME job.what = "flushall", conn = "up", pc'[c] = "reply" PROVE FALSE
    OBVIOUS
  <2>1. c = job.call /\ kind[c] # "version"
    BY <1>1 DEF CallInv, JobInv
  <2> QED BY <1>1, <2>1, TagSteps, TagLeft
<1> USE <1>1 DEF Goto, clientVars, serveVars, netVars, serverVars
<1>5. CASE \E r \in {"depleted", "unexpected", "taginuse"} :
               Yield(c, r) /\ UNCHANGED <<queue, nextTag, tag>>
  <2>1. pc' = [pc EXCEPT ![c] = "reply"] /\ UNCHANGED <<queue, tag>>
    BY <1>5 DEF Yield
  <2> USE <2>1
  <2>2. QueueInv' /\ HoldsInv'
    <3>1. QueueInv'
      BY <1>2 DEF CallInv, QueueInv, TypeInv, TypeOK, TransportTypeOK
    <3>2. HoldsInv'
      BY DEF CallInv, HoldsInv, TypeInv, TypeOK, TransportTypeOK
    <3> QED BY <3>1, <3>2
  <2>3. FlightInv' /\ OnceInv' /\ BrokenInv'
    BY FlightKept DEF TypeInv, TypeOK, TransportTypeOK
  <2>4. JobInv' /\ FlushedInv'
    <3>1. pc'[c] = "reply" /\ (job.what = "flushall" => c = job.call)
      BY DEF CallInv, JobInv, TypeInv, TypeOK, TransportTypeOK
    <3> QED BY <1>4, <3>1 DEF CallInv, JobInv, FlushedInv, Over, TypeInv, TypeOK, TransportTypeOK
  <2>5. CountInv'
    <3>1. \A d \in Calls : d \in InProgress' => d \in InProgress
      BY DEF InProgress, Over, TypeInv, TypeOK, TransportTypeOK
    <3> QED BY <3>1, CountKept
  <2> QED BY <2>2, <2>3, <2>4, <2>5 DEF CallInv
<1>6. CASE \E t \in Tags, l \in {"fid", "send"} :
                    /\ queue[t] = None
                    /\ Take(c, t, l)
                    /\ l = "fid" <=> kind[c] \in Introduces
                    /\ nextTag' \in PoolTags
  <2>1. PICK t \in Tags, l \in {"fid", "send"} :
                    /\ queue[t] = None
                    /\ Take(c, t, l)
                    /\ l = "fid" <=> kind[c] \in Introduces
    BY <1>6
  <2>2. /\ queue' = [queue EXCEPT ![t] = c] /\ tag' = [tag EXCEPT ![c] = t]
        /\ pc' = [pc EXCEPT ![c] = l]
    BY <2>1 DEF Take
  <2> USE <2>1, <2>2
  <2>3. QueueInv' /\ HoldsInv'
    <3>1. QueueInv'
      BY <1>2, <1>3 DEF CallInv, QueueInv, TypeInv, TypeOK, TransportTypeOK
    <3>2. HoldsInv'
      BY DEF CallInv, QueueInv, HoldsInv, TypeInv, TypeOK, TransportTypeOK
    <3> QED BY <3>1, <3>2
  <2>4. FlightInv' /\ OnceInv' /\ BrokenInv'
    BY FlightKept DEF TypeInv, TypeOK, TransportTypeOK
  <2>5. JobInv' /\ FlushedInv'
    <3>1. pc'[c] = l /\ (job.what = "flushall" => c = job.call /\ l = "send")
      BY DEF CallInv, JobInv, Introduces, TypeInv, TypeOK, TransportTypeOK
    <3> QED BY <3>1 DEF CallInv, JobInv, FlushedInv, Over, TypeInv, TypeOK, TransportTypeOK
  <2>6. CountInv'
    <3>1. \A d \in Calls : d \in InProgress' => d \in InProgress
      BY DEF InProgress, Over, TypeInv, TypeOK, TransportTypeOK
    <3> QED BY <3>1, CountKept
  <2> QED BY <2>3, <2>4, <2>5, <2>6 DEF CallInv
<1> QED BY <1>5, <1>6, TagSteps

\* getFid keeps CallInv.
LEMMA CallGetFid == ASSUME Calm, TypeInv, CallInv, NEW c \in Calls, getFid(c) PROVE CallInv'
<1>1. pc[c] = "fid" /\ kind[c] # "clunk"
  BY DEF getFid, TypeInv, NewfidInv, Introduces
<1>2. job.what = "none"
  BY <1>1 DEF CallInv, JobInv, Over, TypeInv, TypeOK
<1>3. /\ \A d \in Calls \ {c} : newfid'[d] = newfid[d]
      /\ pc' = [pc EXCEPT ![c] = "send"]
      /\ UNCHANGED <<chanVars, tag, ch, result, serveVars, netVars, kind, fid, oldtag, msgsize,
                     ask, job, held, serverVars>>
  BY <1>2 DEF getFid, Goto, TypeInv, TypeOK
<1> USE <1>1, <1>2, <1>3 DEF chanVars, serveVars, netVars, serverVars
<1>4. QueueInv' /\ HoldsInv'
  BY DEF CallInv, QueueInv, HoldsInv, TypeInv, TypeOK, TransportTypeOK
<1>5. FlightInv' /\ OnceInv' /\ BrokenInv'
  BY FlightKept DEF TypeInv, TypeOK, TransportTypeOK
<1>6. JobInv' /\ FlushedInv'
  BY DEF CallInv, JobInv, FlushedInv, TypeInv, TypeOK, TransportTypeOK
<1>7. CountInv'
  <2>1. \A d \in Calls : d \in InProgress' => d \in InProgress
    BY DEF InProgress, Over, TypeInv, TypeOK, TransportTypeOK
  <2> QED BY <2>1, CountKept
<1> QED BY <1>4, <1>5, <1>6, <1>7 DEF CallInv

\* The lookup finds the channel of the call itself.
LEMMA CallGetChannel ==
    ASSUME TypeInv, CallInv, NEW c \in Calls, GetChannel(c), UNCHANGED <<clientVars, serverVars>>
    PROVE  CallInv'
<1>1. pc[c] = "send" /\ queue[tag[c]] = c
  BY DEF GetChannel, CallInv, HoldsInv
<1>2. /\ pc' = [pc EXCEPT ![c] = "write"] /\ ch' = [ch EXCEPT ![c] = c]
      /\ UNCHANGED <<chanVars, tag, result, serveVars, netVars, clientVars, serverVars>>
  BY <1>1 DEF GetChannel, Goto
<1> USE <1>1, <1>2 DEF chanVars, serveVars, netVars, clientVars, serverVars
<1>3. QueueInv' /\ HoldsInv'
  BY DEF CallInv, QueueInv, HoldsInv, TypeInv, TypeOK, TransportTypeOK
<1>4. FlightInv' /\ OnceInv' /\ BrokenInv'
  BY FlightKept DEF TypeInv, TypeOK, TransportTypeOK
<1>5. JobInv' /\ FlushedInv'
  <2>1. JobInv'
    BY DEF CallInv, JobInv, Over, TypeInv, TypeOK, TransportTypeOK
  <2>2. FlushedInv'
    BY DEF CallInv, JobInv, FlushedInv, TypeInv, TypeOK, TransportTypeOK
  <2> QED BY <2>1, <2>2
<1>6. CountInv'
  <2>1. \A d \in Calls : d \in InProgress' => d \in InProgress
    BY DEF InProgress, Over, TypeInv, TypeOK, TransportTypeOK
  <2> QED BY <2>1, CountKept
<1> QED BY <1>3, <1>4, <1>5, <1>6 DEF CallInv

\* Receiving a response keeps CallInv.
LEMMA CallAwait ==
    ASSUME TypeInv, CallInv, NEW c \in Calls, Await(c), UNCHANGED <<clientVars, serverVars>>
    PROVE  CallInv'
<1>1. pc[c] = "wait" /\ ch[c] = c /\ closed[c]
  BY DEF Await, CallInv, HoldsInv
<1>2. \A t \in Tags : queue[t] # c
  BY <1>1 DEF CallInv, QueueInv, TypeInv, TypeOK, TransportTypeOK
<1>3. /\ pc' = [pc EXCEPT ![c] = "reply"] /\ buf' = [buf EXCEPT ![c] = None]
      /\ UNCHANGED <<queue, nextTag, closed, tag, ch, serveVars, netVars, clientVars, serverVars>>
  BY <1>1 DEF Await, Yield, Goto
<1> USE <1>1, <1>3 DEF serveVars, netVars, clientVars, serverVars
<1>4. QueueInv' /\ HoldsInv'
  BY <1>2 DEF CallInv, QueueInv, HoldsInv, TypeInv, TypeOK, TransportTypeOK
<1>5. FlightInv' /\ OnceInv' /\ BrokenInv'
  <2>1. ASSUME NEW m, m.tag \in Tags, m.call \in Calls, Matches(m)
        PROVE  Matches(m)'
    BY <1>2, <2>1 DEF Matches, TypeInv, TypeOK, TransportTypeOK
  <2>2. FlightInv'
    BY <2>1, MessageTypes DEF CallInv, FlightInv, Request
  <2> QED BY <2>2 DEF CallInv, OnceInv, BrokenInv
<1>6. JobInv' /\ FlushedInv'
  <2>1. JobInv'
    BY DEF CallInv, JobInv, Over, TypeInv, TypeOK, TransportTypeOK
  <2>2. FlushedInv'
    BY DEF CallInv, JobInv, FlushedInv, TypeInv, TypeOK, TransportTypeOK
  <2> QED BY <2>1, <2>2
<1>7. CountInv'
  <2>1. \A d \in Calls : d \in InProgress' => d \in InProgress
    BY DEF InProgress, Over, TypeInv, TypeOK, TransportTypeOK
  <2> QED BY <2>1, CountKept
<1> QED BY <1>4, <1>5, <1>6, <1>7 DEF CallInv

\* The return of a call keeps CallInv.
LEMMA CallReturn == ASSUME TypeInv, CallInv, NEW c \in Calls, Return(c) PROVE CallInv'
<1>1. pc[c] = "reply"
  BY DEF Return
<1>2. /\ pc' = [pc EXCEPT ![c] = "done"] /\ tag' = [tag EXCEPT ![c] = NOTAG]
      /\ ch' = [ch EXCEPT ![c] = None] /\ kind' = [kind EXCEPT ![c] = "none"]
      /\ \A d \in Calls \ {c} : fid'[d] = fid[d] /\ newfid'[d] = newfid[d] /\ oldtag'[d] = oldtag[d]
      /\ UNCHANGED <<chanVars, serveVars, netVars, job, serverVars>>
  BY DEF Return, Forget, Goto, TypeInv, TypeOK
<1> USE <1>1, <1>2 DEF chanVars, serveVars, netVars, serverVars
<1>3. QueueInv' /\ HoldsInv'
  BY DEF CallInv, QueueInv, HoldsInv, TypeInv, TypeOK, TransportTypeOK
<1>4. FlightInv' /\ OnceInv' /\ BrokenInv'
  BY FlightKept DEF TypeInv, TypeOK, TransportTypeOK
<1>5. JobInv' /\ FlushedInv'
  <2>1. JobInv'
    <3>1. \A d \in Calls : /\ pc'[d] = (IF d = c THEN "done" ELSE pc[d])
                           /\ kind'[d] = (IF d = c THEN "none" ELSE kind[d])
                           /\ d # c => oldtag'[d] = oldtag[d]
      BY DEF TypeInv, TypeOK, TransportTypeOK
    <3>2. job \in [what : {"none", "flushall", "stop", "stopped"},
                todo : SUBSET (Tags \union FidNumbers), at : Nat, call : Calls \union {None}]
      BY DEF TypeInv, TypeOK
    <3> USE <3>1, <3>2 DEF CallInv, JobInv, Over
    <3>3. job.what \in {"stop", "stopped"} => \A d \in Calls : (Over(d) \/ kind[d] = "clunk")'
      OBVIOUS
    <3>4. job.what = "flushall" /\ job.call # None =>
           /\ pc'[job.call] \in {"tag", "send", "write", "wait", "reply", "done"}
           /\ pc'[job.call] # "done" => kind'[job.call] = "flush" /\ oldtag'[job.call] = job.at
      <4> SUFFICES ASSUME job.what = "flushall", job.call # None
                   PROVE  /\ pc'[job.call] \in {"tag", "send", "write", "wait", "reply", "done"}
                          /\ pc'[job.call] # "done" =>
                                 kind'[job.call] = "flush" /\ oldtag'[job.call] = job.at
        OBVIOUS
      <4>1. job.call \in Calls
        OBVIOUS
      <4>2. CASE job.call = c
        BY <4>2
      <4>3. CASE job.call # c
        BY ZenonT(20), <4>1, <4>3
      <4> QED BY <4>2, <4>3
    <3>5. \A d \in Calls : kind'[d] = "flush" =>
              job.what = "flushall" /\ d = job.call /\ pc'[d] # "done"
      OBVIOUS
    <3>6. job.what = "flushall" =>
              \A d \in Calls \ {job.call} : pc'[d] \in {"idle", "wait", "reply", "done"}
      OBVIOUS
    <3> QED BY <3>3, <3>4, <3>5, <3>6
  <2>2. FlushedInv'
    BY DEF CallInv, JobInv, FlushedInv, TypeInv, TypeOK, TransportTypeOK
  <2> QED BY <2>1, <2>2
<1>6. CountInv'
  <2>1. \A d \in Calls : d \in InProgress' => d \in InProgress
    BY DEF InProgress, Over, TypeInv, TypeOK, TransportTypeOK
  <2> QED BY <2>1, CountKept
<1> QED BY <1>3, <1>4, <1>5, <1>6 DEF CallInv

\* Writing a request keeps CallInv.
LEMMA CallWrite ==
    ASSUME TypeInv, CallInv, NEW c \in Calls, Write(c, Request(c)),
           UNCHANGED <<clientVars, serverVars>>
    PROVE  CallInv'
<1>1. pc[c] = "write" /\ queue[tag[c]] = c /\ ch[c] = c /\ tag[c] \in Tags
  BY DEF Write, CallInv, HoldsInv, TypeInv, TypeOK, TransportTypeOK
<1>2. UNCHANGED <<chanVars, tag, ch, serve, conn, toClient, clientVars, serverVars>>
  BY DEF Write
<1> USE <1>1, <1>2 DEF chanVars, clientVars, serverVars
<1>3. ASSUME NEW l \in {"reply", "wait"}, conn = "broken", pc' = [pc EXCEPT ![c] = l],
             UNCHANGED toServer
      PROVE  CallInv'
  <2> USE <1>3
  <2>1. QueueInv' /\ HoldsInv'
    <3>1. QueueInv'
      BY DEF CallInv, QueueInv, TypeInv, TypeOK, TransportTypeOK
    <3>2. HoldsInv'
      BY DEF CallInv, HoldsInv, TypeInv, TypeOK, TransportTypeOK
    <3> QED BY <3>1, <3>2
  <2>2. FlightInv' /\ OnceInv' /\ BrokenInv'
    BY FlightKept DEF netVars, TypeInv, TypeOK, TransportTypeOK
  <2>3. JobInv' /\ FlushedInv'
    BY DEF CallInv, JobInv, FlushedInv, Over, TypeInv, TypeOK, TransportTypeOK
  <2>4. CountInv'
    <3>1. \A d \in Calls : d \in InProgress' => d \in InProgress
      BY DEF InProgress, Over, TypeInv, TypeOK, TransportTypeOK
    <3> QED BY <3>1, CountKept
  <2> QED BY <2>1, <2>2, <2>3, <2>4 DEF CallInv
<1>4. CASE /\ conn = "up" /\ pc' = [pc EXCEPT ![c] = "wait"]
           /\ toServer' = Append(toServer, Request(c))
  <2> USE <1>4
  <2>a. PICK m : m = Request(c)
    OBVIOUS
  <2>b. PICK n \in Nat : n = Len(toServer)
    BY MessageTypes
  <2>1. m.call = c /\ m.tag = tag[c]
    BY <2>a DEF Request
  <2>2. /\ Len(toServer') = n + 1 /\ toServer'[n+1] = m
        /\ \A i \in 1..n : toServer'[i] = toServer[i]
    BY <2>a, <2>b, MessageTypes
  <2>3. /\ \A i \in 1..n : toServer[i].call # c
        /\ \A p \in pending : p.call # c
        /\ \A i \in 1..Len(toClient) : toClient[i].call # c
    BY <2>b DEF CallInv, FlightInv, Matches
  <2>4. QueueInv' /\ HoldsInv'
    <3>1. QueueInv'
      BY DEF CallInv, QueueInv, TypeInv, TypeOK, TransportTypeOK
    <3>2. HoldsInv'
      BY DEF CallInv, HoldsInv, TypeInv, TypeOK, TransportTypeOK
    <3> QED BY <3>1, <3>2
  <2>5. FlightInv'
    <3>1. ASSUME NEW p, p.tag \in Tags, p.call \in Calls, Matches(p) PROVE Matches(p)'
      BY <3>1 DEF Matches, TypeInv, TypeOK, TransportTypeOK
    <3>2. \A d \in Calls : Request(d)' = Request(d)
      BY DEF Request
    <3>3. Matches(m)'
      BY <2>1 DEF Matches, TypeInv, TypeOK, TransportTypeOK
    <3>4. ASSUME NEW i \in 1..Len(toServer')
          PROVE  (Matches(toServer[i]) /\ toServer[i] = Request(toServer[i].call))'
      <4>1. CASE i = n + 1
        <5>1. toServer'[i] = m
          BY <2>2, <4>1
        <5> QED BY <2>a, <2>1, <3>2, <3>3, <5>1 DEF Matches
      <4>2. CASE i \in 1..n
        <5>1. PICK p : p = toServer[i] /\ toServer'[i] = p
          BY <2>2, <4>2
        <5>2. Matches(p)' /\ p = Request(p.call)'
          BY ZenonT(20), <2>b, <3>1, <3>2, <4>2, <5>1, MessageTypes DEF CallInv, FlightInv
        <5> QED BY <5>1, <5>2 DEF Matches, Request
      <4> QED BY <2>2, <4>1, <4>2
    <3>5. \A p \in pending : Matches(p)' /\ p = Request(p.call)' /\ p.kind # "flush"
      BY <3>1, <3>2, MessageTypes DEF CallInv, FlightInv
    <3>6. \A i \in 1..Len(toClient) : Matches(toClient[i])'
      BY <3>1, MessageTypes DEF CallInv, FlightInv
    <3> QED BY <3>4, <3>5, <3>6 DEF FlightInv, Matches, Request
  <2>6. OnceInv'
    <3>1. \A i \in 1..(n+1) : i \in 1..n \/ i = n + 1
      OBVIOUS
    <3>2. \A i, j \in 1..Len(toServer') : toServer'[i].call = toServer'[j].call => i = j
      BY <2>b, <2>1, <2>2, <2>3, <3>1 DEF CallInv, OnceInv
    <3>3. ASSUME NEW i \in 1..Len(toServer')
          PROVE  /\ \A p \in pending : toServer'[i].call # p.call
                 /\ \A j \in 1..Len(toClient) : toServer'[i].call # toClient[j].call
      BY <2>b, <2>1, <2>2, <2>3, <3>1 DEF CallInv, OnceInv
    <3> QED BY ZenonT(20), <3>2, <3>3 DEF CallInv, OnceInv
  <2>7. BrokenInv'
    BY DEF BrokenInv
  <2>8. JobInv'
    BY DEF CallInv, JobInv, Over, TypeInv, TypeOK, TransportTypeOK
  <2>9. FlushedInv'
    <3> SUFFICES ASSUME job.what = "flushall", job.call # None PROVE FlushedInv'
      BY DEF FlushedInv
    <3>1. c = job.call
      BY DEF CallInv, JobInv
    <3>2. closed[c] = FALSE /\ pc'[c] = "wait"
      BY DEF CallInv, QueueInv, TypeInv, TypeOK, TransportTypeOK
    <3> QED BY <2>b, <2>2, <2>3, <3>1, <3>2 DEF FlushedInv
  <2>10. CountInv'
    <3>1. \A d \in Calls : d \in InProgress' => d \in InProgress
      BY DEF InProgress, Over, TypeInv, TypeOK, TransportTypeOK
    <3> QED BY <3>1, CountKept
  <2> QED BY <2>4, <2>5, <2>6, <2>7, <2>8, <2>9, <2>10 DEF CallInv
<1>5. CASE conn = "broken"
  <2>1. UNCHANGED toServer /\ \E l \in {"reply", "wait"} : pc' = [pc EXCEPT ![c] = l]
    BY <1>5 DEF Write, Yield, Goto
  <2> QED BY <1>3, <1>5, <2>1
<1>6. CASE conn = "up"
  BY <1>4, <1>6 DEF Write, Yield, Goto
<1> QED BY <1>5, <1>6 DEF TypeInv, TypeOK, TransportTypeOK

\* Starting FlushAll or Stop, and the end of FlushAll, keep CallInv.
LEMMA CallJobStart ==
    ASSUME TypeInv, CallInv,
           UNCHANGED <<transportVars, kind, fid, newfid, oldtag, fids, msgsize, ask, held,
                       serverVars>>,
           \/ job' = NoJob /\ job.what = "flushall" /\ job.call = None
           \/ /\ job' = [NoJob EXCEPT !.what = "flushall", !.todo = PendingTags]
              /\ job.what = "none" /\ InWait /\ "flushall" \in Env
           \/ job' = [NoJob EXCEPT !.what = "stop", !.todo = fids] /\ job.what = "none" /\ Quiet
    PROVE  CallInv'
<1> USE DEF transportVars, chanVars, callVars, serveVars, netVars, serverVars
<1>1. /\ job'.call = None /\ job'.what \in {"none", "flushall", "stop"}
      /\ job'.what = "flushall" => InWait /\ "flushall" \in Env
      /\ job'.what = "stop" => Quiet
      /\ job.what = "none" \/ (job.what = "flushall" /\ job.call = None)
  <2>1. CASE job' = NoJob /\ job.what = "flushall" /\ job.call = None
    BY <2>1 DEF NoJob
  <2>2. CASE /\ job' = [NoJob EXCEPT !.what = "flushall", !.todo = PendingTags]
             /\ job.what = "none" /\ InWait /\ "flushall" \in Env
    BY <2>2 DEF NoJob
  <2>3. CASE job' = [NoJob EXCEPT !.what = "stop", !.todo = fids] /\ job.what = "none" /\ Quiet
    BY <2>3 DEF NoJob
  <2> QED BY <2>1, <2>2, <2>3
<1>2. QueueInv' /\ HoldsInv' /\ FlightInv' /\ OnceInv' /\ BrokenInv'
  BY DEF CallInv, QueueInv, HoldsInv, FlightInv, Matches, Request, OnceInv, BrokenInv
<1>3. \A c \in Calls : kind[c] # "flush"
  BY <1>1 DEF CallInv, JobInv
<1>4. JobInv'
  BY <1>1, <1>3 DEF CallInv, JobInv, InWait, Quiet, Over, TypeInv, TypeOK
<1>5. FlushedInv'
  BY <1>1 DEF FlushedInv
<1>6. CountInv'
  BY <1>1, CountKept DEF InProgress, Over
<1> QED BY <1>2, <1>4, <1>5, <1>6 DEF CallInv

\* The next flush or clunk of FlushAll or Stop keeps CallInv.
LEMMA CallJobNext ==
    ASSUME TypeInv, CallInv, NEW c \in Calls, FlushNext(c) \/ StopNext(c)
    PROVE  CallInv'
<1>1. PICK k \in {"flush", "clunk"} : Begin(c, k) /\ (k = "flush" <=> FlushNext(c))
  BY DEF FlushNext, StopNext, Begin, TypeInv, TypeOK
<1>2. /\ pc[c] = "idle"
      /\ UNCHANGED <<chanVars, tag, ch, result, serveVars, netVars, newfid, fids, msgsize, ask,
                     held, serverVars>>
      /\ \A d \in Calls \ {c} : oldtag'[d] = oldtag[d] /\ fid'[d] = fid[d]
  BY DEF FlushNext, StopNext, Idle, TypeInv, TypeOK
<1>3. /\ job'.what = job.what /\ job'.call = c
      /\ job.what \in {"flushall", "stop"}
      /\ job.what = "flushall" <=> k = "flush"
      /\ job.what = "flushall" => oldtag'[c] = job'.at
  BY ZenonT(20), <1>1 DEF FlushNext, StopNext, TypeInv, TypeOK
<1>4. job.what = "flushall" => job.call = None
  BY DEF FlushNext, StopNext
<1> USE <1>1, <1>2, <1>3, <1>4 DEF Begin, Goto, chanVars, serveVars, netVars, serverVars
<1>5. QueueInv' /\ HoldsInv'
  BY DEF CallInv, QueueInv, HoldsInv, TypeInv, TypeOK, TransportTypeOK
<1>6. FlightInv' /\ OnceInv' /\ BrokenInv'
  BY FlightKept DEF TypeInv, TypeOK, TransportTypeOK
<1>7. JobInv'
  BY DEF CallInv, JobInv, Over, TypeInv, TypeOK, TransportTypeOK
<1>8. FlushedInv'
  <2>1. /\ \A i \in 1..Len(toServer) : toServer[i].call # c
        /\ \A i \in 1..Len(toClient) : toClient[i].call # c
    BY DEF CallInv, FlightInv, Matches
  <2>2. pc'[c] = "tag"
    BY DEF TypeInv, TypeOK, TransportTypeOK
  <2> QED BY <2>1, <2>2 DEF FlushedInv
<1>9. CountInv'
  <2>1. job.what = "flushall" => \A d \in Calls : d \in InProgress' => d \in InProgress
    BY DEF InProgress, Over, TypeInv, TypeOK, TransportTypeOK
  <2>2. CASE job.what = "flushall"
    BY <2>1, <2>2, CountKept
  <2>3. CASE job.what # "flushall"
    BY <2>3 DEF CountInv
  <2> QED BY <2>2, <2>3
<1> QED BY <1>5, <1>6, <1>7, <1>8, <1>9 DEF CallInv

\* The end of Stop keeps CallInv.
LEMMA CallStopReturn == ASSUME TypeInv, CallInv, StopReturn PROVE CallInv'
<1>1. /\ job'.call = None /\ job'.what = "stopped" /\ job.what = "stop"
      /\ UNCHANGED <<chanVars, callVars, netVars, kind, fid, newfid, oldtag, msgsize, ask, held,
                     serverVars>>
  BY DEF StopReturn, NoJob
<1> USE <1>1 DEF chanVars, callVars, netVars, serverVars
<1>2. QueueInv' /\ HoldsInv' /\ FlightInv' /\ OnceInv' /\ BrokenInv'
  BY DEF CallInv, QueueInv, HoldsInv, FlightInv, Matches, Request, OnceInv, BrokenInv
<1>3. JobInv' /\ FlushedInv' /\ CountInv'
  BY DEF CallInv, JobInv, FlushedInv, CountInv, Over
<1> QED BY <1>2, <1>3 DEF CallInv

\* Ditching the flushed tag keeps CallInv.
LEMMA CallFlushDitch == ASSUME TypeInv, CallInv, FlushDitch PROVE CallInv'
<1>1. /\ job.what = "flushall" /\ job.call \in Calls /\ pc[job.call] = "done" /\ job.at \in Tags
      /\ job'.call = None /\ job'.what = "flushall"
      /\ UNCHANGED <<nextTag, buf, callVars, serveVars, netVars, kind, fid, newfid, oldtag, fids,
                     msgsize, ask, held, serverVars>>
  BY DEF FlushDitch, TypeInv, TypeOK, JobTagsInv
<1>2. PICK t \in Tags : t = job.at /\ Ditch(t)
  BY <1>1 DEF FlushDitch
<1> USE <1>1 DEF callVars, serveVars, netVars, serverVars
<1>3. \A m : Matches(m) /\ m.tag \in Tags /\ m.tag # t => Matches(m)'
  BY <1>2 DEF Matches, Ditch, Drop, TypeInv, TypeOK, TransportTypeOK
<1>4. /\ \A i \in 1..Len(toServer) : toServer[i].tag # t
      /\ \A m \in pending : m.tag # t
      /\ \A i \in 1..Len(toClient) : toClient[i].tag # t
  <2>1. conn \in {"up", "broken"}
    BY DEF TypeInv, TypeOK, TransportTypeOK
  <2>2. CASE conn = "up"
    BY <1>2, <2>2 DEF CallInv, FlushedInv
  <2>3. CASE conn = "broken"
    BY <2>3 DEF CallInv, BrokenInv
  <2> QED BY <2>1, <2>2, <2>3
<1>5. FlightInv'
  <2>1. \A d \in Calls : Request(d)' = Request(d)
    BY DEF Request
  <2>2. \A i \in 1..Len(toServer) :
            Matches(toServer[i])' /\ toServer[i] = Request(toServer[i].call)'
    BY <1>3, <1>4, <2>1, MessageTypes DEF CallInv, FlightInv
  <2>3. \A m \in pending : Matches(m)' /\ m = Request(m.call)' /\ m.kind # "flush"
    BY <1>3, <1>4, <2>1, MessageTypes DEF CallInv, FlightInv
  <2>4. \A i \in 1..Len(toClient) : Matches(toClient[i])'
    BY <1>3, <1>4, MessageTypes DEF CallInv, FlightInv
  <2> QED BY <2>2, <2>3, <2>4 DEF FlightInv, Matches, Request
<1>6. OnceInv' /\ BrokenInv' /\ FlushedInv'
  <2>1. OnceInv' /\ BrokenInv'
    BY DEF CallInv, OnceInv, BrokenInv
  <2>2. FlushedInv'
    BY DEF FlushedInv
  <2> QED BY <2>1, <2>2
<1>7. QueueInv' /\ HoldsInv'
  <2>1. CASE queue[t] = None
    <3>1. UNCHANGED <<queue, closed>>
      BY <1>2, <2>1 DEF Ditch
    <3>2. QueueInv'
      BY <3>1 DEF CallInv, QueueInv
    <3>3. HoldsInv'
      BY <3>1 DEF CallInv, HoldsInv
    <3> QED BY <3>2, <3>3
  <2>2. CASE queue[t] # None
    <3>1. PICK k \in Calls : k = queue[t]
      BY <2>2 DEF TypeInv, TypeOK, TransportTypeOK
    <3>2. closed' = [closed EXCEPT ![k] = TRUE] /\ queue' = [queue EXCEPT ![t] = None]
      BY <1>2, <2>2, <3>1 DEF Ditch, Drop
    <3>3. pc[k] \in {"wait", "reply", "done"}
      BY <3>1, <2>2 DEF CallInv, QueueInv, JobInv
    <3>4. \A u \in Tags : queue[u] = k => u = t
      BY <2>2, <3>1 DEF CallInv, QueueInv
    <3>5. QueueInv'
      BY <3>1, <3>2, <3>4 DEF CallInv, QueueInv, TypeInv, TypeOK, TransportTypeOK
    <3>6. HoldsInv'
      BY <3>1, <3>2, <3>3, <3>4 DEF CallInv, HoldsInv, TypeInv, TypeOK, TransportTypeOK
    <3> QED BY <3>5, <3>6
  <2> QED BY <2>1, <2>2
<1>8. JobInv'
  <2>1. \A c \in Calls : kind[c] # "flush"
    BY DEF CallInv, JobInv, TypeInv, NewfidInv
  <2> QED BY <2>1 DEF CallInv, JobInv
<1>9. CountInv'
  <2>1. \A d \in Calls : d \in InProgress' => d \in InProgress
    BY DEF InProgress, Over
  <2> QED BY <2>1, CountKept
<1> QED BY <1>5, <1>6, <1>7, <1>8, <1>9 DEF CallInv

\* Serve hands each response to the call that asked, and never meets a tag not in use.
LEMMA CallServe ==
    ASSUME TypeInv, CallInv, Serve
    PROVE  CallInv' /\ (error' = "nosuchtag" => error = "nosuchtag")
<1>1. UNCHANGED <<nextTag, callVars, conn, toServer, clientVars, serverVars>>
  BY DEF Serve, ServeLoop, ServeCheck, received, ReadFails, chanVars, netVars
<1> USE <1>1 DEF callVars, clientVars, serverVars
<1>2. CASE ServeCheck \/ ReadFails
  <2>1. UNCHANGED <<queue, buf, closed, toClient>> /\ (error' = "nosuchtag" => error = "nosuchtag")
    BY <1>2 DEF ServeCheck, ReadFails, die, chanVars, netVars
  <2>2. QueueInv' /\ HoldsInv' /\ FlightInv' /\ OnceInv' /\ BrokenInv' /\ JobInv' /\ FlushedInv'
    BY <2>1 DEF CallInv, QueueInv, HoldsInv, FlightInv, Matches, Request, OnceInv, BrokenInv,
                JobInv, FlushedInv, Over
  <2>3. CountInv'
    BY CountKept DEF InProgress, Over
  <2> QED BY <2>1, <2>2, <2>3 DEF CallInv
<1>3. CASE received
  <2>1. PICK m : m = Head(toClient)
    OBVIOUS
  <2>2. toClient # <<>> /\ toClient' = Tail(toClient)
    BY <1>3 DEF received
  <2>3. PICK n \in Nat : n + 1 = Len(toClient)
    <3>1. toClient \in Seq(Responses)
      BY MessageTypes
    <3>2. Len(toClient) \in Nat \ {0} /\ Len(toClient) - 1 \in Nat
      BY <2>2, <3>1
    <3> QED BY <3>2
  <2>4. /\ m = toClient[1] /\ Len(toClient') = n
        /\ \A i \in 1..n : toClient'[i] = toClient[i+1] /\ i + 1 \in 1..(n+1)
    BY <2>1, <2>2, <2>3, MessageTypes
  <2>5. m.tag \in Tags /\ m.call \in Calls /\ Matches(m)
    BY <2>3, <2>4, MessageTypes DEF CallInv, FlightInv
  <2>6. PICK k \in Calls, t \in Tags : k = m.call /\ t = m.tag /\ queue[t] = k
    BY <2>5 DEF Matches
  <2>7. /\ queue' = [queue EXCEPT ![t] = None]
        /\ buf' = [buf EXCEPT ![k] = m]
        /\ closed' = [closed EXCEPT ![k] = TRUE]
        /\ error' = error
    BY <1>3, <2>1, <2>6 DEF received, Drop
  <2>8. pc[k] = "wait" /\ tag[k] = t /\ \A u \in Tags : queue[u] = k => u = t
    BY <2>5, <2>6 DEF CallInv, Matches, QueueInv
  <2>9. QueueInv'
    BY <2>6, <2>7, <2>8 DEF CallInv, QueueInv, TypeInv, TypeOK, TransportTypeOK
  <2>10. HoldsInv'
    BY <2>6, <2>7, <2>8 DEF CallInv, HoldsInv, TypeInv, TypeOK, TransportTypeOK
  <2>11. ASSUME NEW p, p.tag \in Tags, p.call \in Calls \ {k}, Matches(p) PROVE Matches(p)'
    BY <2>6, <2>7, <2>11 DEF Matches, TypeInv, TypeOK, TransportTypeOK
  <2>12. /\ \A i \in 1..Len(toServer) : toServer[i].call # k
         /\ \A p \in pending : p.call # k
         /\ \A i \in 1..n : toClient[i+1].call # k
    BY <2>3, <2>4, <2>6 DEF CallInv, OnceInv
  <2>13. FlightInv'
    <3>1. \A d \in Calls : Request(d)' = Request(d)
      BY DEF Request
    <3>2. \A i \in 1..Len(toServer) :
              Matches(toServer[i])' /\ toServer[i] = Request(toServer[i].call)'
      BY <2>11, <2>12, <3>1, MessageTypes DEF CallInv, FlightInv
    <3>3. \A p \in pending : Matches(p)' /\ p = Request(p.call)' /\ p.kind # "flush"
      BY <2>11, <2>12, <3>1, MessageTypes DEF CallInv, FlightInv
    <3>4. ASSUME NEW i \in 1..Len(toClient') PROVE Matches(toClient[i])'
      <4>1. PICK p : p = toClient[i+1] /\ toClient'[i] = p
        BY <2>4
      <4>2. Matches(p)'
        BY <2>3, <2>4, <2>11, <2>12, <4>1, MessageTypes DEF CallInv, FlightInv
      <4> QED BY <4>1, <4>2 DEF Matches
    <3> QED BY <3>2, <3>3, <3>4 DEF FlightInv, Matches, Request
  <2>14. OnceInv'
    <3>1. \A i, j \in 1..n : toClient[i+1].call = toClient[j+1].call => i = j
      BY <2>3, <2>4 DEF CallInv, OnceInv
    <3>2. \A i \in 1..n : /\ \A p \in pending : toClient[i+1].call # p.call
                         /\ \A j \in 1..Len(toServer) : toServer[j].call # toClient[i+1].call
      BY <2>3, <2>4 DEF CallInv, OnceInv
    <3>3. \A i, j \in 1..Len(toClient') : toClient'[i].call = toClient'[j].call => i = j
      BY <2>4, <3>1
    <3>4. \A i \in 1..Len(toClient') : /\ \A p \in pending : toClient'[i].call # p.call
                         /\ \A j \in 1..Len(toServer) : toServer[j].call # toClient'[i].call
      BY <2>4, <3>2
    <3> QED BY <3>3, <3>4 DEF CallInv, OnceInv
  <2>15. BrokenInv'
    BY <2>2 DEF CallInv, BrokenInv
  <2>16. JobInv'
    BY DEF CallInv, JobInv, Over
  <2>17. FlushedInv'
    <3> SUFFICES ASSUME job.what = "flushall", job.call # None, conn = "up" PROVE FlushedInv'
      BY DEF FlushedInv
    <3>1. \A i \in 1..Len(toServer) : toServer[i].call = job.call => i = Len(toServer)
      BY DEF CallInv, FlushedInv
    <3>2. ASSUME NEW i \in 1..n, toClient[i+1].call = job.call
          PROVE  /\ toServer = <<>>
                 /\ \A p \in pending : p.tag # job.at
                 /\ \A j \in (i+1)..n : toClient[j+1].tag # job.at
      <4>1. i + 1 \in 1..Len(toClient) /\ \A j \in (i+1)..n : j + 1 \in ((i+1)+1)..Len(toClient)
        BY <2>3
      <4> QED BY <3>2, <4>1 DEF CallInv, FlushedInv
    <3>3. ASSUME pc[job.call] \in {"reply", "done"} \/ (pc[job.call] = "wait" /\ closed'[job.call])
          PROVE  /\ \A i \in 1..Len(toServer) : toServer[i].tag # job.at
                 /\ \A p \in pending : p.tag # job.at
                 /\ \A i \in 1..n : toClient[i+1].tag # job.at
      <4>1. CASE k = job.call
        <5>1. 1 \in 1..Len(toClient) /\ toClient[1].call = job.call
          BY <2>3, <2>4, <2>6, <4>1
        <5>2. /\ toServer = <<>> /\ \A p \in pending : p.tag # job.at
              /\ \A j \in (1+1)..Len(toClient) : toClient[j].tag # job.at
          BY <5>1 DEF CallInv, FlushedInv
        <5> QED BY <2>3, <5>2
      <4>2. CASE k # job.call
        <5>1. closed'[job.call] = closed[job.call]
          BY <2>7, <4>2 DEF TypeInv, TypeOK, TransportTypeOK
        <5>2. /\ \A i \in 1..Len(toServer) : toServer[i].tag # job.at
              /\ \A p \in pending : p.tag # job.at
              /\ \A i \in 1..Len(toClient) : toClient[i].tag # job.at
          BY <3>3, <5>1 DEF CallInv, FlushedInv
        <5> QED BY <2>3, <2>4, <5>2
      <4> QED BY <4>1, <4>2
    <3>4. ASSUME NEW i \in 1..Len(toClient'), toClient'[i].call = job.call
          PROVE  /\ toServer = <<>>
                 /\ \A p \in pending : p.tag # job.at
                 /\ \A j \in (i+1)..Len(toClient') : toClient'[j].tag # job.at
      <4>1. toClient[i+1].call = job.call /\ i \in 1..n
        BY <2>4, <3>4
      <4>2. \A j \in (i+1)..n : toClient'[j] = toClient[j+1]
        BY <2>4
      <4> QED BY <2>4, <3>2, <4>1, <4>2
    <3>5. (\A i \in 1..n : toClient[i+1].tag # job.at) =>
              \A i \in 1..Len(toClient') : toClient'[i].tag # job.at
      BY <2>4
    <3> QED BY <3>1, <3>3, <3>4, <3>5 DEF FlushedInv
  <2>18. CountInv'
    BY CountKept DEF InProgress, Over
  <2> QED BY <2>7, <2>9, <2>10, <2>13, <2>14, <2>15, <2>16, <2>17, <2>18 DEF CallInv
<1> QED BY <1>2, <1>3 DEF Serve, ServeLoop

\* A step of the server is judged by the messages alone.
LEMMA CallServerStep ==
    ASSUME TypeInv, CallInv,
           UNCHANGED <<chanVars, callVars, serveVars, clientVars>>,
           FlightInv', OnceInv', BrokenInv', FlushedInv',
           conn' = "broken" \/ conn' = conn
    PROVE  CallInv'
<1> USE DEF chanVars, callVars, serveVars, clientVars
<1>1. QueueInv' /\ HoldsInv' /\ JobInv'
  BY DEF CallInv, QueueInv, HoldsInv, JobInv, Over
<1>2. CountInv'
  BY CountKept DEF InProgress, Over
<1> QED BY <1>1, <1>2 DEF CallInv

\* A break of the connection keeps CallInv.
LEMMA CallBreak == ASSUME TypeInv, CallInv, Break PROVE CallInv'
<1>1. /\ conn' = "broken" /\ toServer' = <<>> /\ toClient' = <<>> /\ pending' = {}
      /\ UNCHANGED <<chanVars, callVars, serveVars, clientVars>>
  BY DEF Break
<1>2. FlightInv' /\ OnceInv' /\ BrokenInv' /\ FlushedInv'
  BY <1>1 DEF FlightInv, OnceInv, BrokenInv, FlushedInv
<1> QED BY <1>1, <1>2, CallServerStep

\* An answer of the server keeps CallInv.
LEMMA CallServerAnswer == ASSUME TypeInv, CallInv, ServerAnswer PROVE CallInv'
<1>1. PICK m \in pending : \E e \in Effects(m) :
         /\ pending' = pending \ {m}
         /\ toClient' = Append(toClient, [call |-> m.call, tag |-> m.tag, what |-> e[1]])
  BY DEF ServerAnswer, Answer
<1>0. PICK w : toClient' = Append(toClient, [call |-> m.call, tag |-> m.tag, what |-> w])
  BY <1>1
<1>2. UNCHANGED <<chanVars, callVars, serveVars, conn, toServer, clientVars>>
  BY DEF ServerAnswer
<1> USE <1>2 DEF chanVars, callVars, serveVars, clientVars
<1>3. PICK r : r = [call |-> m.call, tag |-> m.tag, what |-> w]
  OBVIOUS
<1>4. PICK n \in Nat : n = Len(toClient)
  BY MessageTypes
<1>5. /\ Len(toClient') = n + 1 /\ toClient'[n+1] = r
      /\ \A i \in 1..n : toClient'[i] = toClient[i]
      /\ r.call = m.call /\ r.tag = m.tag
      /\ \A i \in 1..(n+1) : i \in 1..n \/ i = n + 1
  BY <1>0, <1>3, <1>4, MessageTypes
<1>6. m = Request(m.call) /\ m.kind # "flush" /\ Matches(m) /\ m.call \in Calls
  BY MessageTypes DEF CallInv, FlightInv
<1>7. /\ \A p \in pending' : p \in pending /\ p.call # m.call
      /\ \A i \in 1..n : toClient[i].call # m.call
      /\ \A i \in 1..Len(toServer) : toServer[i].call # m.call
  BY <1>1, <1>4, <1>6 DEF CallInv, FlightInv, OnceInv
<1>8. \A p : Matches(p)' <=> Matches(p)
  BY DEF Matches
<1>9. \A d : Request(d)' = Request(d)
  BY DEF Request
<1>10. FlightInv'
  <2>1. \A i \in 1..Len(toServer) :
            Matches(toServer[i])' /\ toServer[i] = Request(toServer[i].call)'
    BY <1>9 DEF CallInv, FlightInv, Matches
  <2>2. \A p \in pending' : Matches(p) /\ p = Request(p.call) /\ p.kind # "flush"
    BY <1>7 DEF CallInv, FlightInv
  <2>3. ASSUME NEW i \in 1..Len(toClient') PROVE Matches(toClient[i])'
    <3>1. PICK p : p = toClient'[i]
      OBVIOUS
    <3>2. Matches(p)
      BY <1>4, <1>5, <1>6, <3>1 DEF CallInv, FlightInv, Matches
    <3> QED BY <3>1, <3>2 DEF Matches
  <2> QED BY <2>1, <2>2, <2>3 DEF FlightInv, Matches, Request
<1>11. OnceInv'
  <2>1. \A i, j \in 1..Len(toClient') : toClient'[i].call = toClient'[j].call => i = j
    BY <1>4, <1>5, <1>7 DEF CallInv, OnceInv
  <2>2. \A i \in 1..Len(toClient') :
            /\ \A p \in pending' : toClient'[i].call # p.call
            /\ \A j \in 1..Len(toServer) : toServer[j].call # toClient'[i].call
    BY <1>4, <1>5, <1>7 DEF CallInv, OnceInv
  <2> QED BY <1>7, <2>1, <2>2 DEF CallInv, OnceInv
<1>12. BrokenInv'
  BY DEF CallInv, BrokenInv
<1>13. FlushedInv'
  <2> SUFFICES ASSUME job.what = "flushall", job.call # None, conn = "up" PROVE FlushedInv'
    BY DEF FlushedInv
  <2>1. m.call # job.call
    <3>1. job.call \in Calls /\ pc[job.call] # "done" => kind[job.call] = "flush"
      BY DEF CallInv, JobInv, TypeInv, TypeOK
    <3>2. pc[m.call] = "wait" /\ kind[m.call] # "flush"
      BY <1>6 DEF Matches, Request
    <3> QED BY <1>6, <3>1, <3>2
  <2>2. \A i \in 1..Len(toServer) : toServer[i].call = job.call => i = Len(toServer)
    BY DEF CallInv, FlushedInv
  <2>3. ASSUME NEW i \in 1..Len(toClient'), toClient'[i].call = job.call
        PROVE  /\ toServer = <<>>
               /\ \A p \in pending' : p.tag # job.at
               /\ \A j \in (i+1)..Len(toClient') : toClient'[j].tag # job.at
    <3>1. i \in 1..n /\ toClient[i].call = job.call
      BY <1>5, <2>1, <2>3
    <3>2. /\ toServer = <<>> /\ \A p \in pending : p.tag # job.at
          /\ \A j \in (i+1)..n : toClient[j].tag # job.at
      BY <1>4, <3>1 DEF CallInv, FlushedInv
    <3>3. \A j \in (i+1)..(n+1) : toClient'[j].tag # job.at
      <4>1. \A j \in (i+1)..(n+1) : (j \in (i+1)..n /\ j \in 1..n) \/ j = n + 1
        BY <3>1
      <4> QED BY <1>5, <3>2, <4>1
    <3> QED BY <1>5, <1>7, <3>2, <3>3
  <2>4. ASSUME pc[job.call] \in {"reply", "done"} \/ (pc[job.call] = "wait" /\ closed[job.call])
        PROVE  /\ \A i \in 1..Len(toServer) : toServer[i].tag # job.at
               /\ \A p \in pending' : p.tag # job.at
               /\ \A i \in 1..Len(toClient') : toClient'[i].tag # job.at
    <3>1. /\ \A i \in 1..Len(toServer) : toServer[i].tag # job.at
          /\ \A p \in pending : p.tag # job.at
          /\ \A i \in 1..n : toClient[i].tag # job.at
      BY <1>4, <2>4 DEF CallInv, FlushedInv
    <3>2. \A i \in 1..Len(toClient') : toClient'[i].tag # job.at
      BY <1>5, <3>1
    <3> QED BY <1>7, <3>1, <3>2
  <2> QED BY <2>2, <2>3, <2>4 DEF FlushedInv
<1> QED BY <1>10, <1>11, <1>12, <1>13, CallServerStep

\* Taking a request keeps CallInv.
LEMMA CallServerRead == ASSUME TypeInv, CallInv, ServerRead PROVE CallInv'
<1>1. PICK m : m = Head(toServer)
  OBVIOUS
<1>2. toServer # <<>> /\ toServer' = Tail(toServer)
  BY DEF ServerRead
<1>3. UNCHANGED <<chanVars, callVars, serveVars, conn, clientVars>>
  BY DEF ServerRead
<1> USE <1>3 DEF chanVars, callVars, serveVars, clientVars
<1>4. PICK n \in Nat : n + 1 = Len(toServer)
  <2>1. toServer \in Seq(Requests)
    BY MessageTypes
  <2>2. Len(toServer) \in Nat \ {0} /\ Len(toServer) - 1 \in Nat
    BY <1>2, <2>1
  <2> QED BY <2>2
<1>5. /\ m = toServer[1] /\ Len(toServer') = n
      /\ \A i \in 1..n : toServer'[i] = toServer[i+1] /\ i + 1 \in 1..(n+1)
  BY <1>1, <1>2, <1>4, MessageTypes
<1>6. m = Request(m.call) /\ Matches(m) /\ m.call \in Calls /\ m.tag \in Tags
  BY <1>4, <1>5, MessageTypes DEF CallInv, FlightInv
<1>7. /\ \A p \in pending : p.call # m.call
      /\ \A i \in 1..Len(toClient) : toClient[i].call # m.call
      /\ \A i \in 1..n : toServer[i+1].call # m.call
  BY <1>4, <1>5 DEF CallInv, OnceInv
<1>8. \A p : Matches(p)' <=> Matches(p)
  BY DEF Matches
<1>9. \A d : Request(d)' = Request(d)
  BY DEF Request
<1>10. BrokenInv'
  BY <1>2 DEF CallInv, BrokenInv
\* The three ways a request goes: answered at once, taken up, or answered and the work ended.
<1>11. PICK w : \/ /\ toClient' = Append(toClient, [call |-> m.call, tag |-> m.tag, what |-> w])
                   /\ pending' \subseteq pending
                   /\ m.kind = "flush" => \A p \in pending' : p.tag # m.oldtag
                \/ toClient' = toClient /\ pending' = pending \union {m} /\ m.kind # "flush"
  BY <1>1 DEF ServerRead, Answer, serverVars
<1>12. toServer' = <<>> <=> n = 0
  BY <1>2, <1>4, MessageTypes
\* Facts about the queue of requests that both ways need.
<1>13. \A i \in 1..Len(toServer') :
          /\ Matches(toServer'[i]) /\ toServer'[i] = Request(toServer'[i].call)
          /\ toServer'[i].call # m.call
          /\ \A p \in pending : toServer'[i].call # p.call
          /\ \A j \in 1..Len(toClient) : toServer'[i].call # toClient[j].call
  <2>1. ASSUME NEW i \in 1..n
        PROVE  /\ Matches(toServer[i+1]) /\ toServer[i+1] = Request(toServer[i+1].call)
               /\ toServer[i+1].call # m.call
               /\ \A p \in pending : toServer[i+1].call # p.call
               /\ \A j \in 1..Len(toClient) : toServer[i+1].call # toClient[j].call
    BY <1>4, <1>5, <1>7 DEF CallInv, FlightInv, OnceInv
  <2> QED BY <1>5, <2>1
<1>14. \A i, j \in 1..Len(toServer') : toServer'[i].call = toServer'[j].call => i = j
  <2>1. \A i, j \in 1..n : toServer[i+1].call = toServer[j+1].call => i = j
    BY <1>4, <1>5 DEF CallInv, OnceInv
  <2> QED BY <1>5, <2>1
<1>15. job.what = "flushall" /\ job.call # None /\ conn = "up" =>
           \A i \in 1..Len(toServer') : toServer'[i].call = job.call => i = Len(toServer')
  <2>1. job.what = "flushall" /\ job.call # None /\ conn = "up" =>
            \A i \in 1..n : toServer[i+1].call = job.call => i + 1 = n + 1
    BY <1>4, <1>5 DEF CallInv, FlushedInv
  <2> QED BY <1>5, <2>1
<1>16. (/\ job.what = "flushall" /\ job.call # None /\ conn = "up"
        /\ pc[job.call] \in {"reply", "done"} \/ (pc[job.call] = "wait" /\ closed[job.call])) =>
          /\ \A i \in 1..Len(toServer') : toServer'[i].tag # job.at
          /\ m.tag # job.at
          /\ \A p \in pending : p.tag # job.at
          /\ \A i \in 1..Len(toClient) : toClient[i].tag # job.at
  BY SMTT(20), <1>4, <1>5 DEF CallInv, FlushedInv
<1>17. job.what = "flushall" /\ job.call # None /\ conn = "up" =>
           \A i \in 1..Len(toClient) : toClient[i].call # job.call
  BY <1>2 DEF CallInv, FlushedInv
<1>18. CASE /\ toClient' = Append(toClient, [call |-> m.call, tag |-> m.tag, what |-> w])
            /\ pending' \subseteq pending
            /\ m.kind = "flush" => \A p \in pending' : p.tag # m.oldtag
  <2>1. PICK r : r = [call |-> m.call, tag |-> m.tag, what |-> w]
    OBVIOUS
  <2>2. PICK k \in Nat : k = Len(toClient)
    BY MessageTypes
  <2>3. /\ Len(toClient') = k + 1 /\ toClient'[k+1] = r
        /\ \A i \in 1..k : toClient'[i] = toClient[i]
        /\ r.call = m.call /\ r.tag = m.tag
        /\ \A i \in 1..(k+1) : i \in 1..k \/ i = k + 1
    BY <1>18, <2>1, <2>2, MessageTypes
  <2>4. FlightInv'
    <3>1. ASSUME NEW i \in 1..Len(toServer')
          PROVE  (Matches(toServer[i]) /\ toServer[i] = Request(toServer[i].call))'
      BY <1>9, <1>13 DEF Matches
    <3>2. \A p \in pending' : (Matches(p) /\ p = Request(p.call))' /\ p.kind # "flush"
      BY <1>8, <1>9, <1>18 DEF CallInv, FlightInv
    <3>3. ASSUME NEW i \in 1..Len(toClient') PROVE Matches(toClient[i])'
      <4>1. PICK p : p = toClient'[i]
        OBVIOUS
      <4>2. Matches(p)
        BY <1>6, <2>2, <2>3, <4>1 DEF CallInv, FlightInv, Matches
      <4> QED BY <4>1, <4>2 DEF Matches
    <3> QED BY <3>1, <3>2, <3>3 DEF FlightInv, Matches, Request
  <2>5. OnceInv'
    <3>1. \A i, j \in 1..Len(toClient') : toClient'[i].call = toClient'[j].call => i = j
      BY <1>7, <2>2, <2>3 DEF CallInv, OnceInv
    <3>2. \A i \in 1..Len(toClient') : \A p \in pending' : toClient'[i].call # p.call
      BY <1>7, <1>18, <2>2, <2>3 DEF CallInv, OnceInv
    <3>3. \A i \in 1..Len(toServer'), j \in 1..Len(toClient') :
              toServer'[i].call # toClient'[j].call
      BY <1>13, <2>2, <2>3
    <3> QED BY <1>13, <1>14, <1>18, <3>1, <3>2, <3>3 DEF OnceInv
  <2>6. FlushedInv'
    <3> SUFFICES ASSUME job.what = "flushall", job.call # None, conn = "up" PROVE FlushedInv'
      BY DEF FlushedInv
    <3>1. ASSUME NEW i \in 1..Len(toClient'), toClient'[i].call = job.call
          PROVE  /\ toServer' = <<>>
                 /\ \A p \in pending' : p.tag # job.at
                 /\ \A j \in (i+1)..Len(toClient') : toClient'[j].tag # job.at
      <4>1. i = k + 1 /\ m.call = job.call
        BY <1>17, <2>2, <2>3, <3>1
      <4>2. m.kind = "flush" /\ m.oldtag = job.at
        BY <1>6, <4>1 DEF CallInv, JobInv, Matches, Request
      <4>3. n = 0
        BY <1>4, <1>5, <4>1 DEF CallInv, FlushedInv
      <4> QED BY <1>12, <1>18, <2>3, <4>1, <4>2, <4>3
    <3>2. pc[job.call] \in {"reply", "done"} \/ (pc[job.call] = "wait" /\ closed[job.call]) =>
               /\ \A p \in pending' : p.tag # job.at
               /\ \A i \in 1..Len(toClient') : toClient'[i].tag # job.at
      BY <1>16, <1>18, <2>2, <2>3
    <3> QED BY <1>15, <1>16, <3>1, <3>2 DEF FlushedInv
  <2> QED BY <1>10, <2>4, <2>5, <2>6, CallServerStep
<1>19. CASE toClient' = toClient /\ pending' = pending \union {m} /\ m.kind # "flush"
  <2>1. FlightInv'
    <3>1. ASSUME NEW i \in 1..Len(toServer')
          PROVE  (Matches(toServer[i]) /\ toServer[i] = Request(toServer[i].call))'
      BY <1>9, <1>13 DEF Matches
    <3>2. \A p \in pending' : (Matches(p) /\ p = Request(p.call))' /\ p.kind # "flush"
      BY <1>6, <1>8, <1>9, <1>19 DEF CallInv, FlightInv
    <3>3. \A i \in 1..Len(toClient) : Matches(toClient[i])'
      BY <1>19 DEF CallInv, FlightInv, Matches
    <3> QED BY <1>19, <3>1, <3>2, <3>3 DEF FlightInv, Matches, Request
  <2>2. OnceInv'
    BY <1>7, <1>13, <1>14, <1>19 DEF CallInv, OnceInv
  <2>3. FlushedInv'
    BY <1>15, <1>16, <1>17, <1>19 DEF FlushedInv
  <2> QED BY <1>10, <2>1, <2>2, <2>3, CallServerStep
<1> QED BY <1>11, <1>18, <1>19

\* Every step keeps CallInv.
LEMMA NextCall == Calm /\ TypeInv /\ CallInv /\ [Next]_vars => CallInv'
<1> SUFFICES ASSUME Calm, TypeInv, CallInv, [Next]_vars PROVE CallInv'
  OBVIOUS
<1>1. ASSUME NEW c \in Calls, CallSend(c) PROVE CallInv'
  BY <1>1, CallGetChannel, CallWrite, CallAwait DEF CallSend, Send
<1>2. CASE FlushAll \/ Stop \/ FlushReturn
  BY <1>2, CallJobStart DEF FlushAll, Stop, FlushReturn, Calm
<1>3. CASE UNCHANGED vars
  <2> USE <1>3 DEF vars, transportVars, chanVars, callVars, serveVars, netVars, clientVars,
                   serverVars
  <2>1. QueueInv' /\ HoldsInv' /\ FlightInv' /\ OnceInv' /\ BrokenInv' /\ JobInv' /\ FlushedInv'
    BY DEF CallInv, QueueInv, HoldsInv, FlightInv, Matches, Request, OnceInv, BrokenInv,
           JobInv, FlushedInv, Over
  <2>2. CountInv'
    BY CountKept DEF InProgress, Over
  <2> QED BY <2>1, <2>2 DEF CallInv
<1> QED BY <1>1, <1>2, <1>3, CallAppCall, CallCallTag, CallGetFid, CallReturn, CallJobNext,
           CallStopReturn, CallFlushDitch, CallServe, CallServerRead, CallServerAnswer, CallBreak
    DEF Next, CallsStep, CallStep, JobStep

\* RightAnswer: the response a Send returns is the answer to its own request, for any number of
\* calls and tags, however the server orders its answers and wherever the connection breaks.
THEOREM ResponsesMatch == ASSUME Calm PROVE Spec => []RightAnswer
<1>1. TypeInv /\ CallInv => RightAnswer
  BY DEF TypeInv, TypeOK, TransportTypeOK, CallInv, HoldsInv, RightAnswer
<1> QED BY <1>1, InitType, NextType, InitCall, NextCall, PTL DEF Spec

\* Only Serve reports a tag that is not in use, and by CallServe it never does.
LEMMA ErrorStep ==
    ASSUME TypeInv, CallInv, [Next]_vars, StaysUp
    PROVE  StaysUp'
<1> USE DEF StaysUp
<1>1. ASSUME NEW c \in Calls, CallTag(c) PROVE error' = error
  BY <1>1, TagSteps DEF serveVars
<1>2. ASSUME NEW c \in Calls, CallSend(c) PROVE StaysUp'
  BY <1>2 DEF CallSend, Send, GetChannel, Write, Await, die, serveVars
<1>3. ASSUME NEW c \in Calls, AppCall(c) \/ FlushNext(c) \/ StopNext(c) PROVE error' = error
  BY <1>3 DEF AppCall, FlushNext, StopNext, serveVars
<1>4. ASSUME NEW c \in Calls, getFid(c) \/ Return(c) PROVE error' = error
  BY <1>4 DEF getFid, Return, serveVars
<1>5. CASE FlushAll \/ Stop \/ FlushDitch \/ FlushReturn \/ StopReturn
  BY <1>5 DEF FlushAll, Stop, FlushDitch, FlushReturn, StopReturn, StopServe, transportVars,
              serveVars
<1>6. CASE ServerRead \/ ServerAnswer \/ Break \/ UNCHANGED vars
  BY <1>6 DEF ServerRead, ServerAnswer, Break, vars, transportVars, serveVars
<1>7. CASE Serve
  BY <1>7, CallServe
<1> QED BY <1>1, <1>2, <1>3, <1>4, <1>5, <1>6, <1>7 DEF Next, CallsStep, CallStep, JobStep

\* StaysUp: Serve never gives up for a tag it does not know.
THEOREM ServeStaysUp == ASSUME Calm PROVE Spec => []StaysUp
<1>1. Init => StaysUp
  BY DEF Init, TransportInit, StaysUp
<1>2. TypeInv /\ CallInv /\ [Next]_vars /\ StaysUp => StaysUp'
  BY ErrorStep
<1> QED BY <1>1, <1>2, InitType, NextType, InitCall, NextCall, PTL DEF Spec

\* TagsHeld: a call has its tag from Tag until the response, and none before or after, on a
\* connection that does not break (a Write that fails keeps its tag).
THEOREM TagsInUse == ASSUME Calm, "breaks" \notin Env PROVE Spec => []TagsHeld
<1> DEFINE Up == conn = "up"
<1>1. Init => Up
  BY DEF Init, TransportInit
<1>2. Up /\ [Next]_vars => Up'
  <2> SUFFICES ASSUME conn = "up", [Next]_vars PROVE conn' = "up"
    OBVIOUS
  <2>1. ASSUME NEW c \in Calls, CallTag(c) \/ CallSend(c) PROVE conn' = conn
    BY <2>1 DEF CallTag, Tag, TakeTag, CallSend, Send, GetChannel, Write, Await, netVars
  <2>2. ASSUME NEW c \in Calls, AppCall(c) \/ FlushNext(c) \/ StopNext(c) PROVE conn' = conn
    BY <2>2 DEF AppCall, FlushNext, StopNext, netVars
  <2>3. ASSUME NEW c \in Calls, getFid(c) \/ Return(c) PROVE conn' = conn
    BY <2>3 DEF getFid, Return, netVars
  <2>4. CASE FlushAll \/ Stop \/ FlushDitch \/ FlushReturn \/ StopReturn
    BY <2>4 DEF FlushAll, Stop, FlushDitch, FlushReturn, StopReturn, transportVars, netVars
  <2>5. CASE Serve \/ ServerRead \/ ServerAnswer \/ Break \/ UNCHANGED vars
    BY <2>5 DEF Serve, ServeLoop, ServeCheck, received, ReadFails, ServerRead, ServerAnswer,
                Break, vars, transportVars, netVars
  <2> QED BY <2>1, <2>2, <2>3, <2>4, <2>5 DEF Next, CallsStep, CallStep, JobStep
<1>3. TypeInv /\ CallInv /\ Up => TagsHeld
  <2> SUFFICES ASSUME TypeInv, CallInv, conn = "up" PROVE TagsHeld
    OBVIOUS
  <2>1. \A c \in Calls : pc[c] \in {"fid", "send", "write"} \/ (pc[c] = "wait" /\ ~closed[c])
                            => queue[tag[c]] = c
    BY DEF CallInv, HoldsInv
  <2>2. ASSUME NEW c \in Calls, NEW t \in Tags, queue[t] = c
        PROVE  pc[c] \in {"fid", "send", "write", "wait"}
    BY <2>2 DEF CallInv, QueueInv
  <2> QED BY <2>1, <2>2 DEF TagsHeld
<1> HIDE DEF Up
<1> QED BY <1>1, <1>2, <1>3, InitType, NextType, InitCall, NextCall, PTL DEF Spec
=============================================================================
