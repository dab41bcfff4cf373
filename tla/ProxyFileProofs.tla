---------------------------- MODULE ProxyFileProofs ----------------------------
(***************************************************************************)
(* ProxyFile for every number of threads, names, ProxyFiles, requests and  *)
(* changes by other programs. caching counts the threads that keep the     *)
(* info in an Open, whoever finds it kept finds the info of such a         *)
(* thread, and info is assigned from the path as it is: so what a request  *)
(* looks at is among what has been under the path since it began, or       *)
(* since the ProxyFile came into use.                                      *)
(***************************************************************************)
EXTENDS ProxyFile, TLAPS, FiniteSetTheorems, SequenceTheorems

\* The rests of a request, by what the proofs tell apart: t is in Open and keeps the cache.
Opening == {<<"OpenFile">>, <<"IsDir", "OpenFile">>}

\* Open has called updateInfo and keeps the cache next.
Updated == {<<"hold", "IsDir", "OpenFile">>}

\* The request is still at the fid it came for, and makes a ProxyFile.
Unbound == {<<"Walk", "Qid", "arrive">>,
            <<"IsDir", "Walk", "Qid", "arrive">>,
            <<"Create", "Qid", "updateInfo", "hold", "IsDir", "OpenFile">>,
            <<"IsDir", "Create", "Qid", "updateInfo", "hold", "IsDir", "OpenFile">>}

\* The request is a wstat.
Renaming == {<<"Rename">>, <<"Stat", "Rename">>}
Rests   == Opening \union Updated \union Unbound \union Renaming \union
           {<<"DirectList">>,
            <<"Stat">>,
            <<"arrive">>,
            <<"IsDir", "DirectList">>,
            <<"Qid", "arrive">>,
            <<"updateInfo", "hold", "IsDir", "OpenFile">>,
            <<"Qid", "updateInfo", "hold", "IsDir", "OpenFile">>,
            <<"IsDir", "Qid", "updateInfo", "hold", "IsDir", "OpenFile">>}

USE ProxyAssumption

\* A request that has ended is none of these.
LEMMA Ended ==
    /\ <<>> \notin Rests /\ <<>> \notin Opening \union Updated \union Unbound \union Renaming
    /\ Opening \union Updated \union Unbound \union Renaming \subseteq Rests
BY DEF Opening, Updated, Unbound, Renaming, Rests

\* What is left of a request after the call it is at.
LEMMA RestsAre ==
    ASSUME NEW s \in Rests
    PROVE  /\ s # <<>> /\ Tail(s) \in Rests \union {<<>>}
           /\ Len(s) = 1 <=> Tail(s) = <<>>
           /\ Head(s) \in {"IsDir", "Qid", "Stat"} =>
                /\ s \notin Updated /\ Tail(s) \notin Updated
                /\ s \in Opening <=> Tail(s) \in Opening
           /\ Head(s) = "updateInfo" => s \notin Opening \union Updated /\ Tail(s) \in Updated
           /\ Head(s) = "hold" <=> s \in Updated
           /\ Head(s) = "hold" => s \notin Opening /\ Tail(s) \in Opening
           /\ Head(s) = "OpenFile" => s \in Opening
           /\ s \in Opening => Head(s) \in {"IsDir", "OpenFile"}
           /\ Head(s) \in {"Walk", "Create"} =>
                /\ s \in Unbound /\ Tail(s) \in Rests
                /\ Tail(s) \notin Opening \union Updated \union Unbound \union Renaming
           /\ Head(s) = "Rename" => s \in Renaming
           /\ Tail(s) \in Unbound => s \in Unbound
           /\ Tail(s) \in Renaming => s \in Renaming
           /\ s \in Opening \union Updated => s \notin Unbound \union Renaming
           /\ s \in Unbound => s \notin Renaming
           /\ s \in Updated => s # <<>> /\ s \notin Opening /\ Head(s) \notin Looks
<1> USE DEF Looks, Opening, Updated, Unbound, Renaming, Rests
<1>1. CASE s = <<"DirectList">>
  <2>1. Head(s) = "DirectList" /\ Tail(s) = <<>> /\ Len(s) = 1
    BY <1>1
  <2> QED BY <2>1, <1>1
<1>2. CASE s = <<"OpenFile">>
  <2>1. Head(s) = "OpenFile" /\ Tail(s) = <<>> /\ Len(s) = 1
    BY <1>2
  <2> QED BY <2>1, <1>2
<1>3. CASE s = <<"Rename">>
  <2>1. Head(s) = "Rename" /\ Tail(s) = <<>> /\ Len(s) = 1
    BY <1>3
  <2> QED BY <2>1, <1>3
<1>4. CASE s = <<"Stat">>
  <2>1. Head(s) = "Stat" /\ Tail(s) = <<>> /\ Len(s) = 1
    BY <1>4
  <2> QED BY <2>1, <1>4
<1>5. CASE s = <<"arrive">>
  <2>1. Head(s) = "arrive" /\ Tail(s) = <<>> /\ Len(s) = 1
    BY <1>5
  <2> QED BY <2>1, <1>5
<1>6. CASE s = <<"IsDir", "DirectList">>
  <2>1. Head(s) = "IsDir" /\ Tail(s) = <<"DirectList">> /\ Len(s) = 2
    BY <1>6
  <2> QED BY <2>1, <1>6
<1>7. CASE s = <<"IsDir", "OpenFile">>
  <2>1. Head(s) = "IsDir" /\ Tail(s) = <<"OpenFile">> /\ Len(s) = 2
    BY <1>7
  <2> QED BY <2>1, <1>7
<1>8. CASE s = <<"Qid", "arrive">>
  <2>1. Head(s) = "Qid" /\ Tail(s) = <<"arrive">> /\ Len(s) = 2
    BY <1>8
  <2> QED BY <2>1, <1>8
<1>9. CASE s = <<"Stat", "Rename">>
  <2>1. Head(s) = "Stat" /\ Tail(s) = <<"Rename">> /\ Len(s) = 2
    BY <1>9
  <2> QED BY <2>1, <1>9
<1>10. CASE s = <<"Walk", "Qid", "arrive">>
  <2>1. Head(s) = "Walk" /\ Tail(s) = <<"Qid", "arrive">> /\ Len(s) = 3
    BY <1>10
  <2> QED BY <2>1, <1>10
<1>11. CASE s = <<"hold", "IsDir", "OpenFile">>
  <2>1. Head(s) = "hold" /\ Tail(s) = <<"IsDir", "OpenFile">> /\ Len(s) = 3
    BY <1>11
  <2> QED BY <2>1, <1>11
<1>12. CASE s = <<"IsDir", "Walk", "Qid", "arrive">>
  <2>1. Head(s) = "IsDir" /\ Tail(s) = <<"Walk", "Qid", "arrive">> /\ Len(s) = 4
    BY <1>12
  <2> QED BY <2>1, <1>12
<1>13. CASE s = <<"updateInfo", "hold", "IsDir", "OpenFile">>
  <2>1. Head(s) = "updateInfo" /\ Tail(s) = <<"hold", "IsDir", "OpenFile">> /\ Len(s) = 4
    BY <1>13
  <2> QED BY <2>1, <1>13
<1>14. CASE s = <<"Qid", "updateInfo", "hold", "IsDir", "OpenFile">>
  <2>1. Head(s) = "Qid" /\ Tail(s) = <<"updateInfo", "hold", "IsDir", "OpenFile">> /\ Len(s) = 5
    BY <1>14
  <2> QED BY <2>1, <1>14
<1>15. CASE s = <<"Create", "Qid", "updateInfo", "hold", "IsDir", "OpenFile">>
  <2>1. Head(s) = "Create" /\ Tail(s) = <<"Qid", "updateInfo", "hold", "IsDir", "OpenFile">> /\ Len(s) = 6
    BY <1>15
  <2> QED BY <2>1, <1>15
<1>16. CASE s = <<"IsDir", "Qid", "updateInfo", "hold", "IsDir", "OpenFile">>
  <2>1. Head(s) = "IsDir" /\ Tail(s) = <<"Qid", "updateInfo", "hold", "IsDir", "OpenFile">> /\ Len(s) = 6
    BY <1>16
  <2> QED BY <2>1, <1>16
<1>17. CASE s = <<"IsDir", "Create", "Qid", "updateInfo", "hold", "IsDir", "OpenFile">>
  <2>1. Head(s) = "IsDir" /\ Tail(s) = <<"Create", "Qid", "updateInfo", "hold", "IsDir", "OpenFile">> /\ Len(s) = 7
    BY <1>17
  <2> QED BY <2>1, <1>17
<1> QED BY <1>1, <1>2, <1>3, <1>4, <1>5, <1>6, <1>7, <1>8, <1>9, <1>10, <1>11, <1>12, <1>13, <1>14, <1>15, <1>16, <1>17

\* The requests at their start.
LEMMA RequestsAre ==
    ASSUME NEW r \in DOMAIN Requests
    PROVE  /\ Requests[r] \in Rests /\ Requests[r] # <<>>
           /\ Requests[r] \notin Opening \union Updated
           /\ Requests[r] \in Unbound => r \in {"walk", "create"}
           /\ Requests[r] \in Renaming => r = "wstat"
<1> USE DEF Opening, Updated, Unbound, Renaming, Rests
<1>1. CASE r = "walk"
  <2>1. Requests[r] = <<"IsDir", "Walk", "Qid", "arrive">>
    BY <1>1 DEF Requests
  <2> QED BY <2>1, <1>1
<1>2. CASE r = "open"
  <2>1. Requests[r] = <<"IsDir", "Qid", "updateInfo", "hold", "IsDir", "OpenFile">>
    BY <1>2 DEF Requests
  <2> QED BY <2>1, <1>2
<1>3. CASE r = "create"
  <2>1. Requests[r] = <<"IsDir", "Create", "Qid", "updateInfo", "hold", "IsDir", "OpenFile">>
    BY <1>3 DEF Requests
  <2> QED BY <2>1, <1>3
<1>4. CASE r = "read"
  <2>1. Requests[r] = <<"IsDir", "DirectList">>
    BY <1>4 DEF Requests
  <2> QED BY <2>1, <1>4
<1>5. CASE r = "stat"
  <2>1. Requests[r] = <<"Stat">>
    BY <1>5 DEF Requests
  <2> QED BY <2>1, <1>5
<1>6. CASE r = "wstat"
  <2>1. Requests[r] = <<"Stat", "Rename">>
    BY <1>6 DEF Requests
  <2> QED BY <2>1, <1>6
<1> QED BY <1>1, <1>2, <1>3, <1>4, <1>5, <1>6 DEF Requests

\* The types.
TypeInv ==
    /\ host \in [Names -> Kinds \union {None}]
    /\ object \in [Objects -> [path : Names \union {None}, caching : Nat,
                               info : Kinds \union {None}]]
    /\ loc \in [Threads -> Objects \union {None}]
    /\ todo \in [Threads -> Rests \union {<<>>}]
    /\ at \in [Threads -> {"load", "update", "read"}]
    /\ on \in [Threads -> Objects \union {None}]
    /\ arg = [t \in Threads |-> arg[t]]
    /\ left \in [calls : Nat, outside : Nat]
    /\ known \in [Objects -> SUBSET (Kinds \union {None})]
    /\ during \in [Threads -> SUBSET (Kinds \union {None})]
    /\ shared \in [Threads -> BOOLEAN]

\* What a request is at: only calls that look at info wait for updateInfo, and a thread that keeps
\* the cache finds it kept.
Stage(t) ==
    /\ Idle(t) <=> on[t] = None
    /\ ~Idle(t) => loc[t] # None
    /\ at[t] # "load" => ~Idle(t) /\ Head(todo[t]) \in Looks
    /\ at[t] = "update" => todo[t] \notin Opening

\* A fid leads to one ProxyFile besides the root's at most.
Place(t) ==
    /\ loc[t] \in {None, Root} \/ on[t] \in {None, loc[t]}
    /\ \A o \in {loc[t], on[t]} : o \notin {None, Root} => object[o].path \in Names
    /\ todo[t] \in Unbound => loc[t] = Root /\ on[t] = Root /\ arg[t] \in Names
    /\ todo[t] \in Renaming => on[t] # Root /\ arg[t] \in Names

\* The threads that keep the info of o for the rest of their Open.
Holders(o) == {t \in Users(o) : todo[t] \in Opening}

\* caching counts them.
CachingInv == \A o \in Objects : object[o].caching = Cardinality(Holders(o))

\* info has been assigned since the request of t came to the ProxyFile.
Fetched(t) == ~Idle(t) /\ (at[t] = "read" \/ todo[t] \in Updated \union Opening)

\* What is under the path now, and the info that t may look at, are among what has been there.
Seen(t) ==
    ~Idle(t) =>
        /\ Kind(on[t]) \in known[on[t]] /\ Kind(on[t]) \in during[t]
        /\ Fetched(t) => object[on[t]].info \in known[on[t]]
        /\ Fetched(t) /\ ~shared[t] => object[on[t]].info \in during[t]

\* t is told of every Open of its ProxyFile by another fid.
Overlap(t) == \A u \in Threads \ {t} : on[u] = on[t] /\ todo[u] \in Opening => shared[t]

\* What holds of each thread.
Local(t) == Stage(t) /\ Place(t) /\ Seen(t) /\ Overlap(t)

\* The inductive invariant.
ProxyInv == TypeInv /\ CachingInv /\ \A t \in Threads : Local(t)

-----------------------------------------------------------------------------
(***************************************************************************)
(* Which thread keeps the cache, and how a look at info begins.            *)
(***************************************************************************)
\* The initial states satisfy ProxyInv.
LEMMA InitProxy == Init => ProxyInv
<1> SUFFICES ASSUME Init PROVE ProxyInv
  OBVIOUS
<1>1. TypeInv
  BY DEF Init, TypeInv, Objects, Root
<1>2. CachingInv
  <2>1. \A o \in Objects : Holders(o) = {}
    BY DEF Init, Holders, Users, Objects
  <2> QED BY <2>1, FS_EmptySet DEF Init, CachingInv
<1>3. \A t \in Threads : Local(t)
  BY DEF Init, Local, Stage, Place, Seen, Overlap, Idle, Objects, Opening, Unbound, Renaming, Root
<1> QED BY <1>1, <1>2, <1>3 DEF ProxyInv

\* A ProxyFile keeps its count when it keeps its holders.
LEMMA CountKept ==
    ASSUME CachingInv, NEW o \in Objects,
           object'[o].caching = object[o].caching, Holders(o)' = Holders(o)
    PROVE  object'[o].caching = Cardinality(Holders(o)')
BY DEF CachingInv

\* Holders are threads.
LEMMA HoldersFinite == \A o : IsFiniteSet(Holders(o)) /\ Holders(o) \subseteq Threads
<1>1. \A o : Holders(o) \subseteq Threads
  BY DEF Holders, Users
<1> QED BY <1>1, FS_Subset

\* The cache is kept exactly if a thread keeps it.
LEMMA CachedHeld ==
    ASSUME ProxyInv, NEW o \in Objects
    PROVE  Cached(o) <=> \E t \in Threads : on[t] = o /\ todo[t] \in Opening
<1>1. object[o].caching = Cardinality(Holders(o)) /\ Cardinality(Holders(o)) \in Nat
  BY HoldersFinite, FS_CardinalityType DEF ProxyInv, CachingInv
<1>2. Cardinality(Holders(o)) = 0 <=> Holders(o) = {}
  BY HoldersFinite, FS_EmptySet
<1>3. Holders(o) = {} <=> ~ \E t \in Threads : on[t] = o /\ todo[t] \in Opening
  BY DEF Holders, Users
<1> QED BY <1>1, <1>2, <1>3 DEF Cached

\* Load: whoever finds the cache kept finds the info of the thread that keeps it.
LEMMA KeepLoad ==
    ASSUME ProxyInv, NEW t \in Threads, Load(t)
    PROVE  ProxyInv'
<1> USE DEF ProxyInv
<1>1. /\ todo[t] # <<>> /\ todo[t] \in Rests /\ Head(todo[t]) \in Looks /\ at[t] = "load"
      /\ on[t] \in Objects /\ loc[t] # None
  BY DEF Load, At, Local, Stage, Idle, TypeInv
<1>2. PICK s : s = todo[t]
  OBVIOUS
<1>3. PICK r : r = Tail(s)
  OBVIOUS
<1>4. /\ Head(s) \in Looks
      /\ Head(s) = "updateInfo" => /\ s \notin Opening \union Updated /\ r \in Updated
                                   /\ r \in Rests /\ Len(s) # 1
                                   /\ r \notin Opening \union Unbound \union Renaming
  <2>1. Head(s) = "updateInfo" => s \notin Opening \union Updated /\ r \in Updated
    BY <1>1, <1>2, <1>3, RestsAre
  <2>2. r \in Updated => r \in Rests /\ r # <<>>
    BY Ended
  <2>3. r \in Updated => r \notin Opening \union Unbound \union Renaming
    BY <2>2, RestsAre
  <2>4. Len(s) = 1 <=> r = <<>>
    BY <1>1, <1>2, <1>3, RestsAre
  <2> QED BY <1>1, <1>2, <2>1, <2>2, <2>3, <2>4
<1>5. /\ UNCHANGED <<host, object, loc, left, history>>
      /\ \A u \in Threads \ {t} : todo'[u] = todo[u] /\ at'[u] = at[u]
      /\ todo' \in [Threads -> Rests \union {<<>>}] /\ at' \in [Threads -> {"load", "update", "read"}]
      /\ on' = on /\ arg' = arg
      /\ \/ Head(s) = "updateInfo" /\ Cached(on[t]) /\ todo'[t] = r /\ at'[t] = "load"
         \/ Head(s) # "updateInfo" /\ Cached(on[t]) /\ todo'[t] = s /\ at'[t] = "read"
         \/ ~Cached(on[t]) /\ todo'[t] = s /\ at'[t] = "update"
  <2>1. CASE Cached(on[t]) /\ Head(s) = "updateInfo"
    <3>1. Done(t, FALSE) /\ UNCHANGED <<host, object, loc, left, history>>
      BY <2>1, <1>2 DEF Load, Look
    <3>2. Len(todo[t]) # 1
      BY <2>1, <1>2, <1>4
    <3>3. /\ todo' = [todo EXCEPT ![t] = r] /\ at' = [at EXCEPT ![t] = "load"]
          /\ on' = on /\ arg' = arg
      BY <3>1, <3>2, <1>2, <1>3 DEF Done
    <3> QED BY <2>1, <3>1, <3>3, <1>1, <1>4 DEF TypeInv
  <2>2. CASE ~(Cached(on[t]) /\ Head(s) = "updateInfo")
    BY <2>2, <1>1, <1>2, <1>3 DEF Load, Look, Step, TypeInv
  <2> QED BY <2>1, <2>2
<1>6. \A u \in Threads : todo'[u] \in Opening <=> todo[u] \in Opening
  BY <1>2, <1>4, <1>5
<1>7. TypeInv'
  BY <1>5 DEF TypeInv, history
<1>8. CachingInv'
  <2>1. \A o \in Objects : Holders(o)' = Holders(o)
    BY <1>5, <1>6 DEF Holders, Users
  <2> QED BY <1>5, <2>1, CountKept DEF CachingInv
<1>9. \A u \in Threads : Overlap(u)'
  BY <1>5, <1>6 DEF Local, Overlap, history
<1>10. ASSUME NEW u \in Threads \ {t} PROVE Stage(u)' /\ Place(u)' /\ Seen(u)'
  BY <1>5 DEF Local, Stage, Place, Seen, Kind, KindIn, Idle, Fetched, history
<1>11. Stage(t)'
  <2>1. Cached(on[t]) <=> \E u \in Threads : on[u] = on[t] /\ todo[u] \in Opening
    BY <1>1, CachedHeld
  <2>2. todo'[t] # <<>> /\ on'[t] = on[t] /\ loc'[t] = loc[t]
    BY <1>1, <1>2, <1>4, <1>5, Ended
  <2> QED BY <1>1, <1>2, <1>4, <1>5, <2>1, <2>2 DEF Local, Stage, Idle
<1>12. Place(t)'
  BY <1>1, <1>2, <1>4, <1>5 DEF Local, Place
<1>13. Seen(t)'
  <2>1. Cached(on[t]) <=> \E u \in Threads : on[u] = on[t] /\ todo[u] \in Opening
    BY <1>1, CachedHeld
  <2>2. \A u \in Threads : todo[u] \in Opening => Fetched(u) /\ ~Idle(u)
    BY Ended DEF Fetched, Idle
  <2>3. Cached(on[t]) => /\ object[on[t]].info \in known[on[t]]
                         /\ ~shared[t] => object[on[t]].info \in during[t]
    BY <1>1, <2>1, <2>2 DEF Local, Seen, Overlap
  <2>4. Kind(on[t])' = Kind(on[t]) /\ Kind(on[t]) \in known[on[t]] /\ Kind(on[t]) \in during[t]
    BY <1>1, <1>5 DEF Local, Seen, Idle, Kind, KindIn
  <2>5. Fetched(t)' => Cached(on[t]) \/ Fetched(t)
    BY <1>1, <1>2, <1>5 DEF Fetched, Idle
  <2> QED BY <1>1, <1>5, <2>3, <2>4, <2>5 DEF Local, Seen, Idle, history
<1> QED BY <1>7, <1>8, <1>9, <1>10, <1>11, <1>12, <1>13 DEF Local

-----------------------------------------------------------------------------
(***************************************************************************)
(* What a step of one thread leaves to the others.                         *)
(***************************************************************************)
\* A step leaves thread u where it is.
Same(u) ==
    /\ loc'[u] = loc[u] /\ on'[u] = on[u] /\ arg'[u] = arg[u]
    /\ todo'[u] = todo[u] /\ at'[u] = at[u]
    /\ \A o \in {loc[u], on[u]} \ {None} : object'[o].path = object[o].path

\* What thread u has seen grows by what the step does under its path, and info stays true.
Grown(u) ==
    ~Idle(u) =>
        /\ known[on[u]] \subseteq known'[on[u]] /\ during[u] \subseteq during'[u]
        /\ Kind(on[u])' \in known'[on[u]] /\ Kind(on[u])' \in during'[u]
        /\ object'[on[u]].info \in {object[on[u]].info, Kind(on[u])'}
        /\ shared[u] => shared'[u]

\* What holds of a thread that another one's step leaves where it is.
LEMMA SameKept ==
    ASSUME NEW u \in Threads, Local(u), Same(u), Grown(u)
    PROVE  Stage(u)' /\ Place(u)' /\ Seen(u)'
<1>1. Stage(u)'
  BY DEF Local, Same, Stage, Idle
<1>2. Place(u)'
  BY DEF Local, Same, Place
<1>3. CASE Idle(u)
  <2>1. Idle(u)'
    BY <1>3 DEF Same, Idle
  <2> QED BY <1>1, <1>2, <2>1 DEF Seen, Idle
<1>4. CASE ~Idle(u)
  <2>1. on'[u] = on[u] /\ Idle(u)' = Idle(u) /\ Fetched(u)' = Fetched(u)
    BY DEF Same, Idle, Fetched
  <2>2. Fetched(u) => /\ object'[on[u]].info \in known'[on[u]]
                      /\ ~shared[u] => object'[on[u]].info \in during'[u]
    BY <1>4 DEF Local, Seen, Grown
  <2> QED BY <1>1, <1>2, <1>4, <2>1, <2>2 DEF Seen, Grown, Idle, Fetched
<1> QED BY <1>1, <1>2, <1>3, <1>4

\* Overlap when no thread begins to keep a cache or comes to a ProxyFile.
LEMMA OverlapKept ==
    ASSUME ProxyInv, NEW t \in Threads, Stage(t)',
           \A u \in Threads \ {t} : Same(u),
           \A u \in Threads : shared[u] => shared'[u],
           todo'[t] \in Opening => todo[t] \in Opening,
           on'[t] \in {on[t], None}
    PROVE  \A u \in Threads : Overlap(u)'
<1>1. \A u \in Threads : todo[u] \in Opening => on[u] # None /\ todo[u] # <<>>
  BY Ended DEF ProxyInv, Local, Stage, Idle
<1>2. todo'[t] \in Opening => on'[t] = on[t]
  BY Ended DEF Stage, Idle
<1>3. \A u \in Threads : /\ on'[u] \in {on[u], None}
                         /\ todo'[u] \in Opening => todo[u] \in Opening /\ on'[u] = on[u]
  BY <1>2 DEF Same
<1> SUFFICES ASSUME NEW u \in Threads, NEW v \in Threads \ {u}, on'[v] = on'[u], todo'[v] \in Opening
             PROVE  shared'[u]
  BY DEF Overlap
<1>4. on[v] = on[u] /\ todo[v] \in Opening
  BY <1>1, <1>3
<1> QED BY <1>4 DEF ProxyInv, Local, Overlap

\* The holders of all ProxyFiles when t does not begin or cease to be one.
LEMMA HoldersKept ==
    ASSUME NEW t \in Threads,
           \A u \in Threads \ {t} : Same(u),
           todo'[t] \in Opening <=> todo[t] \in Opening,
           todo[t] \in Opening => on'[t] = on[t]
    PROVE  \A o : Holders(o)' = Holders(o)
BY DEF Same, Holders, Users

\* The cache that t gives back.
LEMMA Releases ==
    ASSUME ProxyInv, NEW t \in Threads, todo[t] \in Opening, on[t] \in Objects,
           \A u \in Threads \ {t} : Same(u), todo'[t] \notin Opening,
           object' = Released(t)
    PROVE  /\ CachingInv'
           /\ \A o \in Objects : object'[o] = [object[o] EXCEPT !.caching = object'[o].caching]
                                 /\ object'[o].caching \in Nat
           /\ object' = [o \in Objects |-> object'[o]]
<1> USE DEF ProxyInv
<1>1. \A o : Holders(o)' = IF o = on[t] THEN Holders(o) \ {t} ELSE Holders(o)
  BY DEF Same, Holders, Users
<1>2. t \in Holders(on[t])
  BY DEF Holders, Users
<1>3. \A o \in Objects : /\ object[o].caching = Cardinality(Holders(o))
                         /\ Cardinality(Holders(o)) \in Nat
  BY HoldersFinite, FS_CardinalityType DEF CachingInv
<1>4. Cardinality(Holders(on[t]) \ {t}) = Cardinality(Holders(on[t])) - 1
  BY <1>2, HoldersFinite, FS_RemoveElement
<1>5. Cardinality(Holders(on[t]) \ {t}) \in Nat
  BY HoldersFinite, FS_RemoveElement, FS_CardinalityType
<1>6. \A o \in Objects : object'[o] = IF o = on[t]
                                      THEN [object[o] EXCEPT !.caching = object[o].caching - 1]
                                      ELSE object[o]
  BY DEF Released, TypeInv
<1>7. \A o \in Objects : object'[o].caching = Cardinality(Holders(o)')
  <2> TAKE o \in Objects
  <2>1. CASE o = on[t]
    <3>1. object'[o].caching = object[o].caching - 1
      BY <2>1, <1>6 DEF TypeInv
    <3> QED BY <2>1, <3>1, <1>1, <1>3, <1>4
  <2>2. CASE o # on[t]
    BY <2>2, <1>1, <1>3, <1>6
  <2> QED BY <2>1, <2>2
<1>8. CachingInv'
  BY <1>7 DEF CachingInv
<1>9. \A o \in Objects : /\ object'[o] = [object[o] EXCEPT !.caching = object'[o].caching]
                         /\ object'[o].caching \in Nat
  <2> TAKE o \in Objects
  <2>1. object[o] \in [path : Names \union {None}, caching : Nat, info : Kinds \union {None}]
    BY DEF TypeInv
  <2>2. object'[o].caching \in Nat
    BY <1>1, <1>3, <1>5, <1>7
  <2> QED BY <1>6, <2>1, <2>2
<1> QED BY <1>8, <1>9 DEF Released, TypeInv

-----------------------------------------------------------------------------
(***************************************************************************)
(* Requests that end, and steps without a request.                         *)
(***************************************************************************)
\* The end of a request.
LEMMA ReturnStep ==
    ASSUME ProxyInv, NEW t \in Threads, ~Idle(t), Return(t), TypeInv', CachingInv',
           \A u \in Threads \ {t} : loc'[u] = loc[u], loc'[t] \in {loc[t], on[t]},
           \A o \in Objects : object'[o].path = object[o].path,
           \A u \in Threads \ {t} : Grown(u),
           \A u \in Threads : shared[u] => shared'[u]
    PROVE  ProxyInv'
<1> USE DEF ProxyInv
<1>1. /\ todo'[t] = <<>> /\ at'[t] = "load" /\ on'[t] = None
      /\ \A u \in Threads \ {t} : /\ todo'[u] = todo[u] /\ at'[u] = at[u]
                                  /\ on'[u] = on[u] /\ arg'[u] = arg[u]
  BY DEF Return, TypeInv
<1>2. \A u \in Threads \ {t} : Same(u)
  BY <1>1 DEF Same, TypeInv
<1>3. Stage(t)'
  BY <1>1 DEF Stage, Idle
<1>4. Place(t)'
  <2>1. todo'[t] \notin Unbound \union Renaming
    BY <1>1, Ended
  <2> QED BY <1>1, <2>1 DEF Local, Place, TypeInv
<1>5. Seen(t)'
  BY <1>1 DEF Seen, Idle
<1>6. todo'[t] \notin Opening
  BY <1>1, Ended
<1>7. \A u \in Threads : Overlap(u)'
  BY <1>1, <1>2, <1>3, <1>6, OverlapKept
<1>8. \A u \in Threads \ {t} : Stage(u)' /\ Place(u)' /\ Seen(u)'
  BY <1>2, SameKept
<1> QED BY <1>3, <1>4, <1>5, <1>7, <1>8 DEF Local

\* The types at the end of a request, and the threads it leaves where they are.
LEMMA Returned ==
    ASSUME ProxyInv, NEW t \in Threads, ~Idle(t), Return(t),
           \A u \in Threads \ {t} : loc'[u] = loc[u],
           \A o \in Objects : object'[o].path = object[o].path
    PROVE  /\ todo' \in [Threads -> Rests \union {<<>>}]
           /\ at' \in [Threads -> {"load", "update", "read"}]
           /\ on' \in [Threads -> Objects \union {None}]
           /\ arg' = [u \in Threads |-> arg'[u]]
           /\ todo'[t] \notin Opening
           /\ \A u \in Threads \ {t} : Same(u)
<1> USE DEF ProxyInv
<1>1. todo'[t] = <<>>
  BY DEF Return, TypeInv
<1>2. todo'[t] \notin Opening
  BY <1>1, Ended
<1>3. /\ todo' = [todo EXCEPT ![t] = <<>>] /\ at' = [at EXCEPT ![t] = "load"]
      /\ on' = [on EXCEPT ![t] = None] /\ arg' = [arg EXCEPT ![t] = None]
  BY DEF Return
<1>4. ASSUME NEW u \in Threads \ {t} PROVE Same(u)
  <2>1. loc[u] \in Objects \union {None} /\ on[u] \in Objects \union {None}
    BY DEF TypeInv
  <2> QED BY <1>3, <2>1 DEF Same, TypeInv
<1> QED BY <1>2, <1>3, <1>4 DEF TypeInv

\* The end of a request that has changed nothing.
LEMMA QuietReturn ==
    ASSUME ProxyInv, NEW t \in Threads, ~Idle(t), Return(t), todo[t] \notin Opening,
           loc' \in [Threads -> Objects \union {None}],
           \A u \in Threads \ {t} : loc'[u] = loc[u], loc'[t] \in {loc[t], on[t]},
           UNCHANGED <<host, object, left, history>>
    PROVE  ProxyInv'
<1> USE DEF ProxyInv
<1>1. \A o \in Objects : object'[o].path = object[o].path
  OBVIOUS
<1>2. todo'[t] \notin Opening /\ \A u \in Threads \ {t} : Same(u)
  BY <1>1, Returned
<1>3. TypeInv'
  <2>1. /\ todo' \in [Threads -> Rests \union {<<>>}]
        /\ at' \in [Threads -> {"load", "update", "read"}]
        /\ on' \in [Threads -> Objects \union {None}]
        /\ arg' = [u \in Threads |-> arg'[u]]
    BY <1>1, Returned
  <2> QED BY <2>1 DEF TypeInv, history
<1>4. CachingInv'
  <2>1. \A o : Holders(o)' = Holders(o)
    BY <1>2, HoldersKept
  <2> QED BY <2>1 DEF CachingInv
<1>5. \A u \in Threads \ {t} : Grown(u)
  <2> SUFFICES ASSUME NEW u \in Threads \ {t}, ~Idle(u) PROVE Grown(u)
    BY DEF Grown
  <2>1. Kind(on[u])' = Kind(on[u])
    BY <1>2 DEF Same, Kind, KindIn
  <2> QED BY <2>1 DEF Grown, Local, Seen, history
<1>6. \A u \in Threads : shared[u] => shared'[u]
  BY DEF history
<1> QED BY <1>1, <1>3, <1>4, <1>5, <1>6, ReturnStep

\* The end of walk.
LEMMA KeepArrive ==
    ASSUME ProxyInv, NEW t \in Threads, Arrive(t)
    PROVE  ProxyInv'
<1>1. /\ ~Idle(t) /\ Head(todo[t]) = "arrive" /\ Return(t)
      /\ loc' = [loc EXCEPT ![t] = on[t]] /\ UNCHANGED <<host, object, left, history>>
  BY DEF Arrive, At
<1>2. todo[t] \in Rests /\ todo[t] \notin Opening
  BY <1>1, RestsAre DEF Idle, ProxyInv, TypeInv
<1>3. /\ loc' \in [Threads -> Objects \union {None}]
      /\ \A u \in Threads \ {t} : loc'[u] = loc[u]
      /\ loc'[t] = on[t]
  BY <1>1 DEF ProxyInv, TypeInv
<1> QED BY <1>1, <1>2, <1>3, QuietReturn

\* The read of a directory.
LEMMA KeepDirectList ==
    ASSUME ProxyInv, NEW t \in Threads, DirectList(t)
    PROVE  ProxyInv'
<1>1. /\ ~Idle(t) /\ Head(todo[t]) = "DirectList" /\ Return(t)
      /\ UNCHANGED <<host, object, loc, left, history>>
  BY DEF DirectList, At
<1>2. todo[t] \in Rests /\ todo[t] \notin Opening
  BY <1>1, RestsAre DEF Idle, ProxyInv, TypeInv
<1> QED BY <1>1, <1>2, QuietReturn DEF ProxyInv, TypeInv

\* The end of a request that was in Open.
LEMMA ReleasingReturn ==
    ASSUME ProxyInv, NEW t \in Threads, ~Idle(t), Return(t), todo[t] \in Opening,
           loc' \in [Threads -> Objects \union {None}],
           \A u \in Threads \ {t} : loc'[u] = loc[u], loc'[t] \in {loc[t], on[t]},
           object' = Released(t), UNCHANGED <<host, left, history>>
    PROVE  ProxyInv'
<1> USE DEF ProxyInv
<1>1. on[t] \in Objects
  BY DEF Local, Stage, TypeInv
<1>2. \A o \in Objects : object'[o].path = object[o].path /\ object'[o].info = object[o].info
  BY <1>1 DEF Released, TypeInv
<1>3. todo'[t] \notin Opening /\ \A u \in Threads \ {t} : Same(u)
  BY <1>2, Returned
<1>4. /\ CachingInv'
      /\ object' = [o \in Objects |-> object'[o]]
      /\ \A o \in Objects : object'[o] = [object[o] EXCEPT !.caching = object'[o].caching]
                            /\ object'[o].caching \in Nat
  BY <1>1, <1>3, Releases
<1>5. TypeInv'
  <2>1. /\ todo' \in [Threads -> Rests \union {<<>>}]
        /\ at' \in [Threads -> {"load", "update", "read"}]
        /\ on' \in [Threads -> Objects \union {None}]
        /\ arg' = [u \in Threads |-> arg'[u]]
    BY <1>2, Returned
  <2>2. \A o \in Objects : object'[o] \in [path : Names \union {None}, caching : Nat,
                                           info : Kinds \union {None}]
    <3> TAKE o \in Objects
    <3>1. PICK x \in [path : Names \union {None}, caching : Nat, info : Kinds \union {None}] :
                 x = object[o]
      BY DEF TypeInv
    <3>2. PICK c \in Nat : c = object'[o].caching
      BY <1>4
    <3>3. object'[o] = [x EXCEPT !.caching = c]
      BY <1>4, <3>1, <3>2
    <3> QED BY <3>3
  <2>3. object' \in [Objects -> [path : Names \union {None}, caching : Nat,
                                 info : Kinds \union {None}]]
    BY <1>4, <2>2
  <2> QED BY <2>1, <2>3 DEF TypeInv, history
<1>6. \A u \in Threads \ {t} : Grown(u)
  <2> SUFFICES ASSUME NEW u \in Threads \ {t}, ~Idle(u) PROVE Grown(u)
    BY DEF Grown
  <2>1. on[u] \in Objects /\ on'[u] = on[u]
    BY <1>3 DEF Local, Stage, Same, TypeInv
  <2>2. Kind(on[u])' = Kind(on[u])
    BY <1>2, <2>1 DEF Kind, KindIn
  <2> QED BY <1>2, <2>1, <2>2 DEF Grown, Local, Seen, history
<1>7. \A u \in Threads : shared[u] => shared'[u]
  BY DEF history
<1> QED BY <1>2, <1>4, <1>5, <1>6, <1>7, ReturnStep

\* The end of open and create.
LEMMA KeepOpenFile ==
    ASSUME ProxyInv, NEW t \in Threads, OpenFile(t)
    PROVE  ProxyInv'
<1>1. /\ ~Idle(t) /\ Head(todo[t]) = "OpenFile" /\ Return(t)
      /\ object' = Released(t) /\ UNCHANGED <<host, left, history>>
  BY DEF OpenFile, At
<1>2. todo[t] \in Rests /\ todo[t] \in Opening
  BY <1>1, RestsAre DEF Idle, ProxyInv, TypeInv
<1>3. loc' = [loc EXCEPT ![t] = loc[t]] \/ loc' = [loc EXCEPT ![t] = on[t]]
  BY DEF OpenFile
<1>4. /\ loc' \in [Threads -> Objects \union {None}]
      /\ \A u \in Threads \ {t} : loc'[u] = loc[u]
      /\ loc'[t] \in {loc[t], on[t]}
  BY <1>3 DEF ProxyInv, TypeInv
<1> QED BY <1>1, <1>2, <1>4, ReleasingReturn

\* The host changes: what the requests in progress have seen grows by what they would see now.
LEMMA BecomesSeen ==
    ASSUME ProxyInv, NEW h \in [Names -> Kinds \union {None}], Becomes(h), object' = object
    PROVE  /\ host' = h /\ shared' = shared
           /\ known' \in [Objects -> SUBSET (Kinds \union {None})]
           /\ during' \in [Threads -> SUBSET (Kinds \union {None})]
           /\ \A u \in Threads : on'[u] = on[u] => Grown(u)
<1> USE DEF ProxyInv
<1>1. /\ host' = h /\ shared' = shared
      /\ known' = [o \in Objects |-> IF Users(o) = {} THEN known[o]
                                     ELSE known[o] \union {KindIn(h, o)}]
      /\ during' = [t \in Threads |-> IF Idle(t) THEN during[t]
                                      ELSE during[t] \union {KindIn(h, on[t])}]
  BY DEF Becomes
<1>2. \A o \in Objects : KindIn(h, o) \in Kinds \union {None}
  <2> TAKE o \in Objects
  <2>1. object[o].path \in Names \union {None}
    BY DEF TypeInv
  <2> QED BY <2>1 DEF KindIn, Kinds
<1>3. \A u \in Threads : ~Idle(u) => on[u] \in Objects /\ Users(on[u]) # {}
  BY DEF Local, Stage, TypeInv, Users
<1>4. known' \in [Objects -> SUBSET (Kinds \union {None})]
  BY <1>1, <1>2 DEF TypeInv
<1>5. during' \in [Threads -> SUBSET (Kinds \union {None})]
  BY <1>1, <1>2, <1>3 DEF TypeInv
<1>6. ASSUME NEW u \in Threads, on'[u] = on[u], ~Idle(u) PROVE Grown(u)
  <2>1. Kind(on[u])' = KindIn(h, on[u])
    BY <1>1, <1>6 DEF Kind, KindIn
  <2>2. /\ known'[on[u]] = known[on[u]] \union {KindIn(h, on[u])}
        /\ during'[u] = during[u] \union {KindIn(h, on[u])}
    BY <1>1, <1>3, <1>6
  <2> QED BY <1>1, <2>1, <2>2 DEF Grown
<1>7. \A u \in Threads : on'[u] = on[u] => Grown(u)
  BY <1>6 DEF Grown
<1> QED BY <1>1, <1>4, <1>5, <1>7

\* Rename.
LEMMA KeepRename ==
    ASSUME ProxyInv, NEW t \in Threads, Rename(t)
    PROVE  ProxyInv'
<1>1. /\ ~Idle(t) /\ Head(todo[t]) = "Rename" /\ Return(t)
      /\ UNCHANGED <<object, loc, left>>
  BY DEF Rename, At
<1>2. todo[t] \in Rests /\ todo[t] \notin Opening /\ todo[t] \in Renaming
  BY <1>1, RestsAre DEF Idle, ProxyInv, TypeInv
<1>3. CASE UNCHANGED <<host, history>>
  <2>1. loc' \in [Threads -> Objects \union {None}]
    BY <1>1 DEF ProxyInv, TypeInv
  <2> QED BY <1>1, <1>2, <1>3, <2>1, QuietReturn
<1>4. CASE ~ UNCHANGED <<host, history>>
  <2>1. PICK old, new : old = object[on[t]].path /\ new = arg[t]
    OBVIOUS
  <2>2. old \in Names /\ new \in Names
    BY <1>1, <1>2, <2>1 DEF ProxyInv, Local, Stage, Place
  <2>3. PICK h : h = [host EXCEPT ![new] = host[old], ![old] = None]
    OBVIOUS
  <2>4. Becomes(h)
    BY <1>4, <2>1, <2>3 DEF Rename
  <2>5. h \in [Names -> Kinds \union {None}]
    BY <2>2, <2>3 DEF ProxyInv, TypeInv
  <2>6. \A o \in Objects : object'[o].path = object[o].path
    BY <1>1
  <2>7. /\ todo' \in [Threads -> Rests \union {<<>>}]
        /\ at' \in [Threads -> {"load", "update", "read"}]
        /\ on' \in [Threads -> Objects \union {None}]
        /\ arg' = [u \in Threads |-> arg'[u]]
        /\ todo'[t] \notin Opening /\ \A u \in Threads \ {t} : Same(u)
    BY <1>1, <2>6, Returned
  <2>8. /\ host' = h /\ shared' = shared
        /\ known' \in [Objects -> SUBSET (Kinds \union {None})]
        /\ during' \in [Threads -> SUBSET (Kinds \union {None})]
        /\ \A u \in Threads : on'[u] = on[u] => Grown(u)
    BY <1>1, <2>4, <2>5, BecomesSeen
  <2>9. TypeInv'
    BY <1>1, <2>5, <2>7, <2>8 DEF ProxyInv, TypeInv
  <2>10. CachingInv'
    <3>1. \A o : Holders(o)' = Holders(o)
      BY <1>2, <2>7, HoldersKept
    <3> QED BY <1>1, <3>1 DEF ProxyInv, CachingInv
  <2>11. \A u \in Threads \ {t} : Grown(u)
    BY <2>7, <2>8 DEF Same
  <2> QED BY <1>1, <2>6, <2>8, <2>9, <2>10, <2>11, ReturnStep
<1> QED BY <1>3, <1>4

\* A step without a request: the fids of idle threads may go where fids are.
LEMMA StillStep ==
    ASSUME ProxyInv, UNCHANGED <<object, todo, at, on, arg>>, TypeInv',
           \A u \in Threads : Grown(u) /\ (shared[u] => shared'[u]),
           \A u \in Threads : \/ loc'[u] = loc[u]
                              \/ /\ Idle(u)
                                 /\ \/ loc'[u] \in {None, Root}
                                    \/ \E v \in Threads : loc'[u] = loc[v]
    PROVE  ProxyInv'
<1> USE DEF ProxyInv
<1>1. CachingInv'
  BY DEF CachingInv, Holders, Users
<1>2. \A u \in Threads : Overlap(u)'
  BY DEF Local, Overlap
<1>3. ASSUME NEW u \in Threads PROVE Stage(u)' /\ Place(u)' /\ Seen(u)'
  <2>1. CASE Same(u)
    BY <2>1, SameKept
  <2>2. CASE ~Same(u)
    <3>1. /\ Idle(u) /\ Idle(u)' /\ on'[u] = None /\ todo'[u] = <<>>
          /\ \/ loc'[u] \in {None, Root}
             \/ \E v \in Threads : loc'[u] = loc[v]
      BY <2>2 DEF Same, Local, Stage, Idle
    <3>2. Stage(u)'
      BY <3>1 DEF Local, Stage, Idle
    <3>3. Seen(u)'
      BY <3>1 DEF Seen, Idle
    <3>4. Place(u)'
      BY <3>1, Ended DEF Local, Place
    <3> QED BY <3>2, <3>3, <3>4
  <2> QED BY <2>1, <2>2
<1> QED BY <1>1, <1>2, <1>3 DEF Local

\* What was seen when nothing changes.
LEMMA QuietGrown ==
    ASSUME ProxyInv, UNCHANGED <<host, object, on, history>>
    PROVE  \A u \in Threads : Grown(u) /\ (shared[u] => shared'[u])
<1> SUFFICES ASSUME NEW u \in Threads, ~Idle(u) PROVE Grown(u)
  BY DEF Grown, history
<1>1. Kind(on[u])' = Kind(on[u])
  BY DEF Kind, KindIn
<1> QED BY <1>1 DEF Grown, ProxyInv, Local, Seen, history

\* A walk of no names.
LEMMA KeepClone ==
    ASSUME ProxyInv, NEW t \in Threads, Clone(t)
    PROVE  ProxyInv'
<1>1. PICK u \in Threads : loc[u] = None /\ loc' = [loc EXCEPT ![u] = loc[t]]
  BY DEF Clone
<1>2. UNCHANGED <<host, object, todo, at, on, arg, left, history>>
  BY DEF Clone
<1>3. Idle(u)
  BY <1>1 DEF ProxyInv, Local, Stage
<1>4. TypeInv'
  BY <1>1, <1>2 DEF ProxyInv, TypeInv, history
<1>5. /\ loc'[u] = loc[t]
      /\ \A v \in Threads \ {u} : loc'[v] = loc[v]
  BY <1>1 DEF ProxyInv, TypeInv
<1>6. \A v \in Threads : Grown(v) /\ (shared[v] => shared'[v])
  BY <1>2, QuietGrown
<1> QED BY <1>2, <1>3, <1>4, <1>5, <1>6, StillStep

\* The next connection.
LEMMA KeepReconnect ==
    ASSUME ProxyInv, Reconnect
    PROVE  ProxyInv'
<1>1. /\ UNCHANGED <<host, object, todo, at, on, arg, left, history>>
      /\ loc' = [t \in Threads |-> Root] /\ \A t \in Threads : Idle(t)
  BY DEF Reconnect
<1>2. TypeInv'
  BY <1>1 DEF ProxyInv, TypeInv, history, Objects, Root
<1>3. \A v \in Threads : Grown(v) /\ (shared[v] => shared'[v])
  BY <1>1, QuietGrown
<1> QED BY <1>1, <1>2, <1>3, StillStep

\* clunk and remove.
LEMMA KeepClunk ==
    ASSUME ProxyInv, NEW t \in Threads, Clunk(t)
    PROVE  ProxyInv'
<1>1. /\ Idle(t) /\ loc[t] # None /\ loc' = [loc EXCEPT ![t] = None]
      /\ UNCHANGED <<object, todo, at, on, arg, left>>
  BY DEF Clunk
<1>2. /\ loc' \in [Threads -> Objects \union {None}]
      /\ \A u \in Threads : loc'[u] = loc[u] \/ (Idle(u) /\ loc'[u] = None)
  BY <1>1 DEF ProxyInv, TypeInv
<1>3. CASE UNCHANGED <<host, history>>
  <2>1. TypeInv'
    BY <1>1, <1>2, <1>3 DEF ProxyInv, TypeInv, history
  <2>2. \A v \in Threads : Grown(v) /\ (shared[v] => shared'[v])
    BY <1>1, <1>3, QuietGrown
  <2> QED BY <1>1, <1>2, <2>1, <2>2, StillStep
<1>4. CASE ~ UNCHANGED <<host, history>>
  <2>1. PICK h : h = [host EXCEPT ![object[loc[t]].path] = None]
    OBVIOUS
  <2>2. Becomes(h)
    BY <1>4, <2>1 DEF Clunk
  <2>3. h \in [Names -> Kinds \union {None}]
    BY <2>1 DEF ProxyInv, TypeInv
  <2>4. /\ host' = h /\ shared' = shared
        /\ known' \in [Objects -> SUBSET (Kinds \union {None})]
        /\ during' \in [Threads -> SUBSET (Kinds \union {None})]
        /\ \A u \in Threads : Grown(u)
    BY <1>1, <2>2, <2>3, BecomesSeen
  <2>5. TypeInv'
    BY <1>1, <1>2, <2>3, <2>4 DEF ProxyInv, TypeInv
  <2> QED BY <1>1, <1>2, <2>4, <2>5, StillStep
<1> QED BY <1>3, <1>4

\* Another program changes the host.
LEMMA KeepOutside ==
    ASSUME ProxyInv, Outside
    PROVE  ProxyInv'
<1>1. PICK n \in Names, k \in Kinds \union {None} : Becomes([host EXCEPT ![n] = k])
  BY DEF Outside
<1>2. PICK h : h = [host EXCEPT ![n] = k]
  OBVIOUS
<1>3. h \in [Names -> Kinds \union {None}]
  BY <1>2 DEF ProxyInv, TypeInv
<1>4. UNCHANGED <<object, loc, todo, at, on, arg>>
  BY DEF Outside
<1>5. left' \in [calls : Nat, outside : Nat]
  <2>1. left.outside > 0 /\ left' = [left EXCEPT !.outside = left.outside - 1]
    BY DEF Outside
  <2> QED BY <2>1 DEF ProxyInv, TypeInv
<1>6. /\ host' = h /\ shared' = shared
      /\ known' \in [Objects -> SUBSET (Kinds \union {None})]
      /\ during' \in [Threads -> SUBSET (Kinds \union {None})]
      /\ \A u \in Threads : Grown(u)
  BY <1>1, <1>2, <1>3, <1>4, BecomesSeen
<1>7. TypeInv'
  BY <1>3, <1>4, <1>5, <1>6 DEF ProxyInv, TypeInv
<1> QED BY <1>4, <1>6, <1>7, StillStep

-----------------------------------------------------------------------------
(***************************************************************************)
(* Requests that come to a ProxyFile.                                      *)
(***************************************************************************)
\* A request of t comes to the ProxyFile o, which it may be the first to use.
LEMMA ReachStep ==
    ASSUME ProxyInv, NEW t \in Threads, NEW o \in Objects, TypeInv', Place(t)',
           loc' = loc, loc[t] # None,
           todo[t] \notin Opening, todo'[t] \in Rests \ (Opening \union Updated),
           at'[t] = "load", on'[t] = o,
           \A p \in Objects : object'[p].caching = object[p].caching,
           \A u \in Threads \ {t} : Same(u) /\ Grown(u),
           Kind(o)' \in known'[o], Kind(o)' \in during'[t],
           \A u \in Threads \ {t} : on[u] = o /\ todo[u] \in Opening => shared'[t]
    PROVE  ProxyInv'
<1> USE DEF ProxyInv
<1>1. CachingInv'
  <2>1. \A p : Holders(p)' = Holders(p)
    BY HoldersKept
  <2> QED BY <2>1 DEF CachingInv
<1>2. \A u \in Threads \ {t} : Stage(u)' /\ Place(u)' /\ Seen(u)'
  BY SameKept
<1>3. todo'[t] # <<>> /\ o # None
  BY Ended
<1>4. Stage(t)'
  BY <1>3 DEF Stage, Idle
<1>5. Seen(t)'
  BY <1>3 DEF Seen, Idle, Fetched
<1>6. Overlap(t)'
  BY DEF Overlap, Same
<1>7. ASSUME NEW u \in Threads \ {t} PROVE Overlap(u)'
  <2> SUFFICES ASSUME NEW v \in Threads \ {u}, on'[v] = on'[u], todo'[v] \in Opening PROVE shared'[u]
    BY DEF Overlap
  <2>1. v # t
    OBVIOUS
  <2>2. on[v] = on[u] /\ todo[v] \in Opening
    BY <2>1 DEF Same
  <2>3. ~Idle(u)
    BY <2>2, Ended DEF Local, Stage, Idle
  <2> QED BY <2>2, <2>3 DEF Local, Overlap, Grown
<1> QED BY <1>1, <1>2, <1>4, <1>5, <1>6, <1>7 DEF Local

\* The start of a request.
LEMMA KeepCall ==
    ASSUME ProxyInv, NEW t \in Threads, Call(t)
    PROVE  ProxyInv'
<1> USE DEF ProxyInv
<1>1. PICK r \in DOMAIN Requests :
          /\ r \in {"walk", "create"} => loc[t] = Root
          /\ r = "wstat" => loc[t] # Root
          /\ todo' = [todo EXCEPT ![t] = Requests[r]]
          /\ \E a \in CASE r \in {"walk", "create", "wstat"} -> Names
                        [] r = "open" -> {"OREAD", "OWRITE"}
                        [] OTHER -> {None} :
               arg' = [arg EXCEPT ![t] = a]
  BY DEF Call
<1>0. PICK k : k = Kind(loc[t])
  OBVIOUS
<1>2. PICK o \in Objects : o = loc[t] /\ k = Kind(loc[t])
  BY <1>0 DEF Call, TypeInv
<1>3. /\ Idle(t) /\ loc[t] # None /\ UNCHANGED <<host, object, loc, at>>
      /\ on' = [on EXCEPT ![t] = o]
      /\ known' = [known EXCEPT ![o] = IF Users(o) = {} THEN {k} ELSE known[o]]
      /\ during' = [during EXCEPT ![t] = {k}]
      /\ shared' = [shared EXCEPT ![t] = Cached(o) /\ Users(o) # {}]
  BY <1>2 DEF Call, Reach, Cached
<1>4. left' \in [calls : Nat, outside : Nat]
  <2>1. left.calls > 0 /\ left' = [left EXCEPT !.calls = left.calls - 1]
    BY DEF Call
  <2> QED BY SMTT(20), <2>1 DEF TypeInv
<1>5. k \in Kinds \union {None}
  <2>1. object[o].path \in Names \union {None}
    BY DEF TypeInv
  <2> QED BY <1>2, <2>1 DEF Kind, KindIn, Kinds, TypeInv
<1>6. PICK s \in Rests : s = Requests[r] /\ s \notin Opening \union Updated
  BY RequestsAre
<1>7. /\ todo' = [todo EXCEPT ![t] = s]
      /\ s \in Unbound => r \in {"walk", "create"}
      /\ s \in Renaming => r = "wstat"
  BY <1>1, <1>6, RequestsAre
<1>8. arg' = [arg EXCEPT ![t] = arg'[t]] /\ (r \in {"walk", "create", "wstat"} => arg'[t] \in Names)
  BY <1>1 DEF TypeInv
<1>9. TypeInv'
  BY <1>3, <1>4, <1>5, <1>7, <1>8 DEF TypeInv
<1>10. /\ todo'[t] = s /\ at'[t] = "load" /\ on'[t] = o /\ loc'[t] = o
       /\ known'[o] = (IF Users(o) = {} THEN {k} ELSE known[o])
       /\ during'[t] = {k} /\ (shared'[t] <=> Cached(o) /\ Users(o) # {})
  BY <1>2, <1>3, <1>7 DEF TypeInv, Local, Stage
<1>11. Place(t)'
  BY <1>1, <1>2, <1>3, <1>7, <1>8, <1>10 DEF Local, Place
<1>12. Kind(o)' = k
  BY <1>2, <1>3 DEF Kind, KindIn
<1>13. ASSUME NEW u \in Threads \ {t} PROVE Same(u) /\ Grown(u)
  <2>1. Same(u) /\ on'[u] = on[u] /\ during'[u] = during[u] /\ shared'[u] = shared[u]
    BY <1>3, <1>7, <1>8 DEF Same, TypeInv
  <2>2. CASE ~Idle(u)
    <3>1. on[u] \in Objects /\ Users(on[u]) # {}
      BY <2>2 DEF Local, Stage, TypeInv, Users
    <3>2. known'[on[u]] = known[on[u]]
      BY <1>3, <3>1 DEF TypeInv
    <3>3. Kind(on[u])' = Kind(on[u])
      BY <1>3, <2>1 DEF Kind, KindIn
    <3> QED BY <1>3, <2>1, <2>2, <3>2, <3>3 DEF Grown, Local, Seen
  <2> QED BY <2>1, <2>2 DEF Grown
<1>14. k \in known'[o]
  <2>1. CASE Users(o) # {}
    <3>1. PICK u \in Threads : on[u] = o
      BY <2>1 DEF Users
    <3>2. ~Idle(u)
      BY <3>1 DEF Local, Stage, TypeInv
    <3> QED BY <1>2, <1>10, <2>1, <3>1, <3>2 DEF Local, Seen
  <2> QED BY <1>10, <2>1
<1>15. \A u \in Threads \ {t} : on[u] = o /\ todo[u] \in Opening => shared'[t]
  <2>1. Cached(o) <=> \E u \in Threads : on[u] = o /\ todo[u] \in Opening
    BY CachedHeld
  <2> QED BY <1>10, <2>1 DEF Users
<1>16. todo[t] \notin Opening
  BY <1>3, Ended DEF Idle
<1> QED BY <1>3, <1>6, <1>9, <1>10, <1>11, <1>12, <1>13, <1>14, <1>15, <1>16, ReachStep

\* A walk or a create finds a ProxyFile that nothing leads to: each other fid leads to one at most.
LEMMA NewFree ==
    ASSUME ProxyInv, NEW t \in Threads, loc[t] = Root, on[t] = Root
    PROVE  New \in Free
<1> USE DEF ProxyInv
<1> SUFFICES ASSUME Free = {} PROVE FALSE
  BY DEF New
<1> DEFINE Others == Threads \ {t}
           At1(u, o) == on[u] = o \/ loc[u] = o
           f == [o \in 1..MaxObject |-> CHOOSE u \in Others : At1(u, o)]
<1>1. IsFiniteSet(Others) /\ Cardinality(Others) = Cardinality(Threads) - 1
  BY FS_RemoveElement
<1>2. IsFiniteSet(1..MaxObject) /\ Cardinality(1..MaxObject) = MaxObject
  BY FS_Interval
<1>3. ASSUME NEW o \in 1..MaxObject PROVE \E u \in Others : At1(u, o)
  <2>1. o \in Objects \ {Root} /\ o # None
    BY DEF Objects, Root
  <2>2. PICK u \in Threads : on[u] = o \/ loc[u] = o
    BY <2>1 DEF Free, Users
  <2> QED BY <2>1, <2>2
<1>4. \A o \in 1..MaxObject : f[o] \in Others /\ At1(f[o], o)
  BY <1>3
<1>5. f \in [1..MaxObject -> Others]
  BY <1>4
<1>6. Cardinality(Others) < Cardinality(1..MaxObject)
  BY <1>1, <1>2, FS_CardinalityType
<1> HIDE DEF f
<1>7. PICK o, p \in 1..MaxObject : o # p /\ f[o] = f[p]
  BY <1>1, <1>2, <1>5, <1>6, FS_PigeonHole
<1>8. PICK u \in Others : At1(u, o) /\ At1(u, p)
  BY <1>4, <1>7
<1>9. {o, p} \subseteq Objects \ {None, Root}
  BY DEF Objects, Root
<1> QED BY <1>7, <1>8, <1>9 DEF Local, Place

\* Nothing leads to it, and nobody keeps its cache.
LEMMA Unused ==
    ASSUME ProxyInv, New \in Free
    PROVE  /\ New \in Objects \ {None, Root} /\ Users(New) = {}
           /\ \A u \in Threads : loc[u] # New /\ on[u] # New
           /\ object[New].caching = 0
<1> USE DEF ProxyInv
<1>1. Holders(New) = {}
  BY DEF Free, Holders
<1>2. Cardinality(Holders(New)) = 0
  BY <1>1, FS_EmptySet
<1> QED BY <1>2 DEF Free, Users, Objects, CachingInv

\* Making it leaves the others as they are.
LEMMA Made ==
    ASSUME ProxyInv, NEW t \in Threads, New \in Free, NEW k, Make(t, k), arg[t] \in Names
    PROVE  /\ object' \in [Objects -> [path : Names \union {None}, caching : Nat,
                                       info : Kinds \union {None}]]
           /\ \A p \in Objects \ {New} : object'[p] = object[p]
           /\ \A p \in Objects : object'[p].caching = object[p].caching
           /\ object'[New].path = arg[t]
<1> USE DEF ProxyInv
<1>1. object' = [object EXCEPT ![New] = [path |-> arg[t], caching |-> 0, info |-> None]]
  BY DEF Make
<1>2. New \in Objects /\ object[New].caching = 0
  BY Unused
<1>3. [path |-> arg[t], caching |-> 0, info |-> None]
        \in [path : Names \union {None}, caching : Nat, info : Kinds \union {None}]
  OBVIOUS
<1> QED BY <1>1, <1>2, <1>3 DEF TypeInv

\* Walk.
LEMMA KeepWalk ==
    ASSUME ProxyInv, NEW t \in Threads, Walk(t)
    PROVE  ProxyInv'
<1> USE DEF ProxyInv
<1>1. ~Idle(t) /\ Head(todo[t]) = "Walk" /\ UNCHANGED <<host, loc, left>>
  BY DEF Walk, At
<1>2. /\ todo[t] \in Rests /\ todo[t] \in Unbound /\ todo[t] \notin Opening
      /\ Tail(todo[t]) \in Rests
      /\ Tail(todo[t]) \notin Opening \union Updated \union Unbound \union Renaming
  BY <1>1, RestsAre DEF Idle, TypeInv
<1>3. loc[t] = Root /\ on[t] = Root /\ arg[t] \in Names
  BY <1>2 DEF Local, Place
<1>4. CASE host[arg[t]] = None
  BY <1>1, <1>2, <1>4, QuietReturn DEF Walk, TypeInv
<1>5. CASE host[arg[t]] # None
  <2>1. New \in Free
    BY <1>3, NewFree
  <2>2. PICK o, k : o = New /\ k = host[arg[t]]
    OBVIOUS
  <2>3. /\ o \in Objects \ {None, Root} /\ Users(o) = {}
        /\ \A u \in Threads : loc[u] # o /\ on[u] # o
    BY <2>1, <2>2, Unused
  <2>4. Make(t, k) /\ Reach(t, o, k) /\ UNCHANGED <<at, arg>>
    BY <1>5, <2>2 DEF Walk
  <2>5. /\ object' \in [Objects -> [path : Names \union {None}, caching : Nat,
                                    info : Kinds \union {None}]]
        /\ \A p \in Objects \ {o} : object'[p] = object[p]
        /\ \A p \in Objects : object'[p].caching = object[p].caching
        /\ object'[o].path = arg[t]
    BY <1>3, <2>1, <2>2, <2>4, Made
  <2>6. /\ todo' = [todo EXCEPT ![t] = Tail(todo[t])] /\ on' = [on EXCEPT ![t] = o]
        /\ known' = [known EXCEPT ![o] = {k}] /\ during' = [during EXCEPT ![t] = {k}]
        /\ shared' = [shared EXCEPT ![t] = FALSE]
    BY <2>3, <2>4 DEF Make, Reach
  <2>7. at[t] = "load"
    BY <1>1 DEF Local, Stage, Looks, TypeInv
  <2>8. TypeInv'
    BY <1>1, <1>2, <1>3, <2>2, <2>3, <2>4, <2>5, <2>6 DEF TypeInv
  <2>9. todo'[t] = Tail(todo[t]) /\ on'[t] = o /\ at'[t] = "load" /\ known'[o] = {k} /\ during'[t] = {k}
    BY <1>1, <2>3, <2>4, <2>6, <2>7 DEF TypeInv
  <2>10. Place(t)'
    BY <1>1, <1>2, <1>3, <2>3, <2>5, <2>9 DEF Place
  <2>11. Kind(o)' = k
    BY <1>1, <1>3, <2>2, <2>5 DEF Kind, KindIn
  <2>12. ASSUME NEW u \in Threads \ {t} PROVE Same(u) /\ Grown(u)
    <3>1. loc[u] # o /\ on[u] # o
      BY <2>3
    <3>2. /\ Same(u) /\ on'[u] = on[u] /\ during'[u] = during[u] /\ shared'[u] = shared[u]
      BY <1>1, <2>4, <2>5, <2>6, <3>1 DEF Same, TypeInv
    <3>3. ~Idle(u) => /\ object'[on[u]] = object[on[u]] /\ known'[on[u]] = known[on[u]]
                      /\ Kind(on[u])' = Kind(on[u])
      BY <1>1, <2>5, <2>6, <3>1, <3>2 DEF Local, Stage, TypeInv, Kind, KindIn
    <3> QED BY <3>2, <3>3 DEF Grown, Local, Seen
  <2>13. /\ loc' = loc /\ loc[t] # None /\ todo'[t] \in Rests \ (Opening \union Updated)
         /\ Kind(o)' \in known'[o] /\ Kind(o)' \in during'[t]
         /\ \A u \in Threads \ {t} : on[u] # o
    <3>1. None # Root /\ loc' = loc /\ \A u \in Threads \ {t} : on[u] # o
      BY <1>1, <2>3 DEF Objects, Root
    <3>2. todo'[t] \in Rests \ (Opening \union Updated)
      BY <1>2, <2>9
    <3> QED BY <1>3, <2>9, <2>11, <3>1, <3>2
  <2> QED BY <1>2, <2>3, <2>5, <2>8, <2>9, <2>10, <2>12, <2>13, ReachStep
<1> QED BY <1>4, <1>5

-----------------------------------------------------------------------------
(***************************************************************************)
(* The calls on it.                                                        *)
(***************************************************************************)
\* cache(true): one more holder, and the others are told.
LEMMA KeepHold ==
    ASSUME ProxyInv, NEW t \in Threads, Hold(t)
    PROVE  ProxyInv'
<1> USE DEF ProxyInv
<1>1. /\ ~Idle(t) /\ Head(todo[t]) = "hold" /\ UNCHANGED <<host, loc, left, known, during>>
      /\ object' = [object EXCEPT ![on[t]].caching = object[on[t]].caching + 1]
      /\ shared' = [u \in Threads |-> shared[u] \/ (u # t /\ on[u] = on[t])]
      /\ Done(t, FALSE)
  BY DEF Hold, At
<1>2. PICK o \in Objects : o = on[t]
  BY <1>1 DEF Local, Stage, TypeInv
<1>3. PICK s : s = todo[t]
  OBVIOUS
<1>4. PICK r : r = Tail(s)
  OBVIOUS
<1>5. /\ s \in Updated /\ s \notin Opening /\ Len(s) # 1
       /\ r \in Opening /\ r \in Rests
  <2>1. todo[t] \in Rests /\ s \in Updated /\ s \notin Opening /\ r \in Opening
    BY <1>1, <1>3, <1>4, RestsAre DEF Idle, TypeInv
  <2>2. r \in Rests /\ r # <<>>
    BY <2>1, Ended
  <2>3. Len(s) # 1
    BY <2>1, <2>2, <1>3, <1>4, RestsAre
  <2> QED BY <2>1, <2>2, <2>3
<1>6. /\ todo' = [todo EXCEPT ![t] = r] /\ at' = [at EXCEPT ![t] = "load"]
      /\ on' = on /\ arg' = arg
  BY <1>1, <1>3, <1>4, <1>5 DEF Done
<1>7. \A p \in Objects : object'[p] = IF p = o THEN [object[p] EXCEPT !.caching = object[p].caching + 1]
                                      ELSE object[p]
  BY <1>1, <1>2 DEF TypeInv
<1>8. ASSUME NEW p \in Objects
      PROVE  /\ object'[p].path = object[p].path /\ object'[p].info = object[p].info
             /\ object'[p].caching = IF p = o THEN object[p].caching + 1 ELSE object[p].caching
             /\ object'[p] \in [path : Names \union {None}, caching : Nat, info : Kinds \union {None}]
  <2>1. PICK x \in [path : Names \union {None}, caching : Nat, info : Kinds \union {None}] :
               x = object[p]
    BY DEF TypeInv
  <2>2. CASE p = o
    <3>1. PICK n \in Nat : n = x.caching + 1
      BY <2>1
    <3>2. object'[p] = [x EXCEPT !.caching = n]
      BY <1>7, <2>1, <2>2, <3>1
    <3> QED BY <2>1, <2>2, <3>1, <3>2
  <2>3. CASE p # o
    BY <1>7, <2>1, <2>3
  <2> QED BY <2>2, <2>3
<1>9. TypeInv'
  <2>1. object' \in [Objects -> [path : Names \union {None}, caching : Nat,
                                 info : Kinds \union {None}]]
    BY <1>1, <1>8 DEF TypeInv
  <2>2. shared' \in [Threads -> BOOLEAN]
    BY <1>1 DEF TypeInv
  <2> QED BY <1>1, <1>3, <1>4, <1>5, <1>6, <2>1, <2>2 DEF TypeInv
<1>10. CachingInv'
  <2>1. \A p : Holders(p)' = IF p = o THEN Holders(p) \union {t} ELSE Holders(p)
    BY <1>2, <1>3, <1>4, <1>5, <1>6 DEF Holders, Users, TypeInv
  <2>2. t \notin Holders(o)
    BY <1>3, <1>4, <1>5 DEF Holders
  <2>3. Cardinality(Holders(o) \union {t}) = Cardinality(Holders(o)) + 1
    BY <2>2, HoldersFinite, FS_AddElement
  <2>4. \A p \in Objects : object'[p].caching = Cardinality(Holders(p)')
    BY <1>8, <2>1, <2>3 DEF CachingInv
  <2> QED BY <2>4 DEF CachingInv
<1>11. ASSUME NEW u \in Threads \ {t} PROVE Same(u) /\ Grown(u)
  <2>1. Same(u) /\ on'[u] = on[u]
    BY <1>1, <1>6, <1>8 DEF Same, TypeInv
  <2>2. ~Idle(u) => on[u] \in Objects
    BY DEF Local, Stage, TypeInv
  <2>3. ~Idle(u) => Kind(on[u])' = Kind(on[u])
    BY <1>1, <1>8, <2>1, <2>2 DEF Kind, KindIn
  <2> QED BY <1>1, <1>8, <2>1, <2>2, <2>3 DEF Grown, Local, Seen, TypeInv
<1>12. todo'[t] = r /\ at'[t] = "load" /\ on'[t] = o /\ loc'[t] = loc[t] /\ r # <<>> /\ o # None
  BY <1>1, <1>2, <1>3, <1>4, <1>5, <1>6, Ended DEF TypeInv
<1>13. Stage(t)'
  BY <1>1, <1>12 DEF Local, Stage, Idle
<1>14. Place(t)'
  <2>1. r \notin Unbound /\ r \notin Renaming
    BY <1>3, <1>4, <1>5, RestsAre
  <2> QED BY <1>1, <1>2, <1>8, <1>12, <2>1 DEF Local, Place, TypeInv
<1>15. Seen(t)'
  <2>1. Kind(o)' = Kind(o)
    BY <1>1, <1>8 DEF Kind, KindIn
  <2>2. Fetched(t)
    BY <1>1, <1>3, <1>4, <1>5 DEF Fetched, Updated
  <2>3. shared'[t] = shared[t] /\ object'[o].info = object[o].info
    BY <1>1, <1>8 DEF TypeInv
  <2> QED BY <1>1, <1>2, <1>12, <2>1, <2>2, <2>3 DEF Local, Seen
<1>16. ASSUME NEW u \in Threads PROVE Overlap(u)'
  <2> SUFFICES ASSUME NEW v \in Threads \ {u}, on'[v] = on'[u], todo'[v] \in Opening PROVE shared'[u]
    BY DEF Overlap
  <2>1. CASE v = t
    BY <1>1, <1>6, <2>1
  <2>2. CASE v # t
    BY <1>1, <1>6, <2>2 DEF Local, Overlap, TypeInv
  <2> QED BY <2>1, <2>2
<1>17. \A u \in Threads \ {t} : Stage(u)' /\ Place(u)' /\ Seen(u)'
  BY <1>11, SameKept
<1> QED BY <1>9, <1>10, <1>13, <1>14, <1>15, <1>16, <1>17 DEF Local

\* updateInfo: info becomes what is under the path now.
LEMMA KeepUpdate ==
    ASSUME ProxyInv, NEW t \in Threads, Update(t)
    PROVE  ProxyInv'
<1> USE DEF ProxyInv
<1>0. PICK k : k = Kind(on[t])
  OBVIOUS
<1>1. PICK o \in Objects : o = on[t] /\ k = Kind(on[t])
  BY <1>0 DEF Update, At, Local, Stage, TypeInv
<1>2. /\ ~Idle(t) /\ at[t] = "update" /\ Head(todo[t]) \in Looks
      /\ object' = [object EXCEPT ![o].info = k]
      /\ IF k = None THEN Return(t) ELSE Look(t)
      /\ UNCHANGED <<host, loc, left, history>>
  BY <1>1 DEF Update, At
<1>3. k \in Kinds \union {None}
  <2>1. object[o].path \in Names \union {None}
    BY DEF TypeInv
  <2> QED BY <1>1, <2>1 DEF Kind, KindIn, Kinds, TypeInv
<1>4. ASSUME NEW p \in Objects
      PROVE  /\ object'[p].path = object[p].path /\ object'[p].caching = object[p].caching
             /\ object'[p].info = IF p = o THEN k ELSE object[p].info
             /\ object'[p] \in [path : Names \union {None}, caching : Nat, info : Kinds \union {None}]
  <2>1. PICK x \in [path : Names \union {None}, caching : Nat, info : Kinds \union {None}] :
               x = object[p]
    BY DEF TypeInv
  <2>2. object'[p] = IF p = o THEN [x EXCEPT !.info = k] ELSE x
    BY <1>2, <2>1 DEF TypeInv
  <2>3. CASE p = o
    BY <1>3, <2>1, <2>2, <2>3
  <2>4. CASE p # o
    BY <2>1, <2>2, <2>4
  <2> QED BY <2>3, <2>4
<1>5. object' \in [Objects -> [path : Names \union {None}, caching : Nat, info : Kinds \union {None}]]
  BY <1>2, <1>4 DEF TypeInv
<1>6. todo[t] \in Rests /\ todo[t] \notin Opening
  BY <1>2 DEF Local, Stage, Idle, TypeInv
<1>7. \A u \in Threads : on'[u] = on[u] => Grown(u)
  <2> SUFFICES ASSUME NEW u \in Threads, on'[u] = on[u], ~Idle(u) PROVE Grown(u)
    BY DEF Grown
  <2>1. on[u] \in Objects
    BY DEF Local, Stage, TypeInv
  <2>2. Kind(on[u])' = Kind(on[u])
    BY <1>2, <1>4, <2>1 DEF Kind, KindIn
  <2>3. object'[on[u]].info \in {object[on[u]].info, Kind(on[u])}
    BY <1>1, <1>4, <2>1
  <2> QED BY <1>2, <2>2, <2>3 DEF Grown, Local, Seen, history
<1>8. CASE k = None
  <2>1. Return(t) /\ \A p \in Objects : object'[p].path = object[p].path
    BY <1>2, <1>4, <1>8
  <2>2. /\ todo' \in [Threads -> Rests \union {<<>>}]
        /\ at' \in [Threads -> {"load", "update", "read"}]
        /\ on' \in [Threads -> Objects \union {None}]
        /\ arg' = [u \in Threads |-> arg'[u]]
        /\ todo'[t] \notin Opening
        /\ \A u \in Threads \ {t} : Same(u)
    BY <1>2, <2>1, Returned
  <2>3. TypeInv'
    BY <1>2, <1>5, <2>2 DEF TypeInv, history
  <2>4. CachingInv'
    <3>1. \A p : Holders(p)' = Holders(p)
      BY <1>6, <2>2, HoldersKept
    <3> QED BY <1>4, <3>1 DEF CachingInv
  <2>5. \A u \in Threads \ {t} : Grown(u)
    BY <1>7, <2>2 DEF Same
  <2>6. \A u \in Threads : loc'[u] = loc[u] /\ (shared[u] => shared'[u])
    BY <1>2 DEF history
  <2> QED BY <1>2, <2>1, <2>3, <2>4, <2>5, <2>6, ReturnStep
<1>9. CASE k # None
  <2>1. PICK s : s = todo[t]
    OBVIOUS
  <2>2. PICK r : r = IF Head(s) = "updateInfo" THEN Tail(s) ELSE s
    OBVIOUS
  <2>3. /\ r \in Rests /\ r \notin Opening /\ r # <<>>
        /\ Head(s) = "updateInfo" => Len(s) # 1
        /\ r \in Unbound => s \in Unbound
        /\ r \in Renaming => s \in Renaming
    <3>1. CASE Head(s) = "updateInfo"
      <4>1. r \in Updated
        BY <1>6, <2>1, <2>2, <3>1, RestsAre
      <4>2. r \in Rests /\ r # <<>>
        BY <4>1, Ended
      <4>3. Len(s) # 1
        BY <1>6, <2>1, <2>2, <3>1, <4>2, RestsAre
      <4>4. r \notin Opening \union Unbound \union Renaming
        BY <4>1, <4>2, RestsAre
      <4> QED BY <4>2, <4>3, <4>4
    <3>2. CASE Head(s) # "updateInfo"
      BY <1>6, <2>1, <2>2, <3>2, Ended
    <3> QED BY <3>1, <3>2
  <2>4. PICK l : /\ todo' = [todo EXCEPT ![t] = r] /\ at' = [at EXCEPT ![t] = l]
                 /\ on' = on /\ arg' = arg
                 /\ l = IF Head(s) = "updateInfo" THEN "load" ELSE "read"
    <3>1. CASE Head(s) = "updateInfo"
      <4>1. Done(t, FALSE)
        BY <1>2, <1>9, <2>1, <3>1 DEF Look
      <4> QED BY <2>1, <2>2, <2>3, <3>1, <4>1 DEF Done
    <3>2. CASE Head(s) # "updateInfo"
      <4>1. Step(t, "read")
        BY <1>2, <1>9, <2>1, <3>2 DEF Look
      <4>2. todo' = [todo EXCEPT ![t] = s]
        BY <2>1, <4>1 DEF Step, TypeInv
      <4> QED BY <2>2, <3>2, <4>1, <4>2 DEF Step
    <3> QED BY <3>1, <3>2
  <2>5. TypeInv'
    BY <1>2, <1>5, <2>3, <2>4 DEF TypeInv, history
  <2>6. \A u \in Threads \ {t} : Same(u)
    BY <1>2, <1>4, <2>4 DEF Same, TypeInv
  <2>7. todo'[t] = r /\ at'[t] = l /\ on'[t] = o /\ loc'[t] = loc[t] /\ arg'[t] = arg[t]
    BY <1>1, <1>2, <2>4 DEF TypeInv
  <2>8. CachingInv'
    <3>1. \A p : Holders(p)' = Holders(p)
      BY <1>6, <2>3, <2>6, <2>7, HoldersKept
    <3> QED BY <1>4, <3>1 DEF CachingInv
  <2>9. Stage(t)'
    <3>1. ~Idle(t)' /\ on'[t] # None
      BY <1>1, <1>2, <2>3, <2>7 DEF Idle, Local, Stage
    <3>2. l = "read" => r = s
      BY <2>2, <2>4
    <3> QED BY <1>2, <2>1, <2>4, <2>7, <3>1, <3>2 DEF Local, Stage, Idle
  <2>10. Place(t)'
    BY <1>1, <1>4, <2>1, <2>3, <2>7 DEF Local, Place, TypeInv
  <2>11. Seen(t)'
    <3>1. Kind(o)' = k
      BY <1>1, <1>2, <1>4 DEF Kind, KindIn
    <3>2. k \in known[o] /\ k \in during[t]
      BY <1>1, <1>2 DEF Local, Seen
    <3> QED BY <1>2, <1>4, <2>7, <3>1, <3>2 DEF Seen, history
  <2>12. \A u \in Threads : Overlap(u)'
    <3>1. on'[t] = on[t] /\ todo'[t] \notin Opening
      BY <1>1, <2>3, <2>7
    <3> QED BY <1>2, <2>6, <2>9, <3>1, OverlapKept DEF history
  <2>13. \A u \in Threads \ {t} : Stage(u)' /\ Place(u)' /\ Seen(u)'
    BY <1>7, <2>6, SameKept DEF Same
  <2> QED BY <2>5, <2>8, <2>9, <2>10, <2>11, <2>12, <2>13 DEF Local
<1> QED BY <1>8, <1>9

\* The look at info.
LEMMA KeepRead ==
    ASSUME ProxyInv, NEW t \in Threads, Read(t)
    PROVE  ProxyInv'
<1> USE DEF ProxyInv
<1>1. /\ ~Idle(t) /\ at[t] = "read" /\ Head(todo[t]) \in Looks
      /\ UNCHANGED <<host, loc, left, history>>
  BY DEF Read, At
<1>2. PICK s : s = todo[t]
  OBVIOUS
<1>3. PICK r : r = Tail(s)
  OBVIOUS
<1>4. /\ s \in Rests /\ (r \in Opening <=> s \in Opening)
      /\ r \in Rests \union {<<>>} /\ (Len(s) = 1 <=> r = <<>>)
      /\ r \in Unbound => s \in Unbound
      /\ r \in Renaming => s \in Renaming
  <2>1. s \in Rests
    BY <1>1, <1>2 DEF Idle, TypeInv
  <2>2. /\ r \in Rests \union {<<>>} /\ (Len(s) = 1 <=> r = <<>>)
        /\ r \in Unbound => s \in Unbound
        /\ r \in Renaming => s \in Renaming
    BY <2>1, <1>3, RestsAre
  <2>3. CASE Head(s) = "updateInfo"
    <3>1. r \in Updated /\ s \notin Opening
      BY <2>1, <2>3, <1>3, RestsAre
    <3>2. r \notin Opening
      BY <3>1, Ended, RestsAre
    <3> QED BY <2>1, <2>2, <3>1, <3>2
  <2>4. CASE Head(s) # "updateInfo"
    <3>1. Head(s) \in {"IsDir", "Qid", "Stat"}
      BY <1>1, <1>2, <2>4 DEF Looks
    <3>2. r \in Opening <=> s \in Opening
      BY <2>1, <3>1, <1>3, RestsAre
    <3> QED BY <2>1, <2>2, <3>2
  <2> QED BY <2>3, <2>4
<1>5. loc' \in [Threads -> Objects \union {None}] /\ \A u \in Threads : loc'[u] = loc[u]
  BY <1>1 DEF TypeInv
<1>6. CASE object[on[t]].info = None
  <2>1. Return(t) /\ object' = IF s \in Opening THEN Released(t) ELSE object
    BY <1>2, <1>6 DEF Read, Holds, Opening
  <2>2. CASE s \in Opening
    BY <1>1, <1>2, <1>5, <2>1, <2>2, ReleasingReturn
  <2>3. CASE s \notin Opening
    BY <1>1, <1>2, <1>5, <2>1, <2>3, QuietReturn
  <2> QED BY <2>2, <2>3
<1>7. CASE object[on[t]].info # None /\ Refused(t)
  <2>1. Return(t) /\ object' = object
    BY <1>7 DEF Read
  <2>2. PICK q \in DOMAIN Requests : s = Requests[q]
    BY <1>2, <1>7 DEF Refused, Requests
  <2>3. s \notin Opening
    BY <2>2, RequestsAre
  <2> QED BY <1>1, <1>2, <1>5, <2>1, <2>3, QuietReturn
<1>8. CASE object[on[t]].info # None /\ ~Refused(t)
  <2>1. Done(t, object[on[t]].info = "dir") /\ object' = object
    BY <1>8 DEF Read
  <2>2. CASE r = <<>>
    <3>1. Return(t)
      BY <1>2, <1>4, <2>1, <2>2 DEF Done
    <3>2. s \notin Opening
      BY <1>4, <2>2, Ended
    <3> QED BY <1>1, <1>2, <1>5, <2>1, <3>1, <3>2, QuietReturn
  <2>3. CASE r # <<>>
    <3>1. /\ todo' = [todo EXCEPT ![t] = r] /\ at' = [at EXCEPT ![t] = "load"]
          /\ on' = on /\ arg' = arg
      BY <1>2, <1>3, <1>4, <2>1, <2>3 DEF Done
    <3>2. TypeInv'
      BY <1>1, <1>4, <2>1, <2>3, <3>1 DEF TypeInv, history
    <3>3. \A u \in Threads \ {t} : Same(u)
      BY <1>1, <2>1, <3>1 DEF Same, TypeInv
    <3>4. todo'[t] = r /\ at'[t] = "load" /\ on'[t] = on[t] /\ loc'[t] = loc[t] /\ arg'[t] = arg[t]
      BY <1>1, <3>1 DEF TypeInv
    <3>5. CachingInv'
      <4>1. \A p : Holders(p)' = Holders(p)
        BY <1>2, <1>4, <3>3, <3>4, HoldersKept
      <4> QED BY <2>1, <4>1 DEF CachingInv
    <3>6. Stage(t)'
      BY <1>1, <2>3, <3>4 DEF Local, Stage, Idle
    <3>7. Place(t)'
      BY <1>1, <1>2, <1>4, <2>1, <3>4 DEF Local, Place
    <3>8. Seen(t)'
      <4>1. Kind(on[t])' = Kind(on[t])
        BY <1>1, <2>1, <3>4 DEF Kind, KindIn
      <4>2. Fetched(t)
        BY <1>1 DEF Fetched
      <4> QED BY <1>1, <2>1, <3>4, <4>1, <4>2 DEF Local, Seen, history
    <3>9. \A u \in Threads : Overlap(u)'
      BY <1>1, <1>2, <1>4, <3>3, <3>4, <3>6, OverlapKept DEF history
    <3>10. \A u \in Threads : Grown(u)
      BY <1>1, <2>1, <3>1, QuietGrown
    <3>11. \A u \in Threads \ {t} : Stage(u)' /\ Place(u)' /\ Seen(u)'
      BY <3>3, <3>10, SameKept
    <3> QED BY <3>2, <3>5, <3>6, <3>7, <3>8, <3>9, <3>11 DEF Local
  <2> QED BY <2>2, <2>3
<1> QED BY <1>6, <1>7, <1>8

\* Create: what it makes on the host is seen by all who have a ProxyFile of that path.
LEMMA KeepCreate ==
    ASSUME ProxyInv, NEW t \in Threads, Create(t)
    PROVE  ProxyInv'
<1> USE DEF ProxyInv
<1>1. ~Idle(t) /\ Head(todo[t]) = "Create" /\ UNCHANGED <<loc, left>>
  BY DEF Create, At
<1>2. /\ todo[t] \in Rests /\ todo[t] \in Unbound /\ todo[t] \notin Opening
      /\ Tail(todo[t]) \in Rests
      /\ Tail(todo[t]) \notin Opening \union Updated \union Unbound \union Renaming
  BY <1>1, RestsAre DEF Idle, TypeInv
<1>3. loc[t] = Root /\ on[t] = Root /\ arg[t] \in Names
  BY <1>2 DEF Local, Place
<1>4. CASE host[arg[t]] # None
  BY <1>1, <1>2, <1>4, QuietReturn DEF Create, TypeInv
<1>5. CASE host[arg[t]] = None
  <2>1. New \in Free
    BY <1>3, NewFree
  <2>2. PICK o, a : o = New /\ a = arg[t]
    OBVIOUS
  <2>3. /\ o \in Objects \ {None, Root} /\ Users(o) = {}
        /\ \A u \in Threads : loc[u] # o /\ on[u] # o
    BY <2>1, <2>2, Unused
  <2>4. PICK k \in Kinds :
          /\ host' = [host EXCEPT ![a] = k] /\ Make(t, k) /\ on' = [on EXCEPT ![t] = o]
          /\ known' = [p \in Objects |-> IF p = o THEN {k}
                         ELSE IF Users(p) # {} /\ object[p].path = a THEN known[p] \union {k}
                         ELSE known[p]]
          /\ during' = [u \in Threads |-> IF u = t THEN {k}
                         ELSE IF ~Idle(u) /\ object[on[u]].path = a THEN during[u] \union {k}
                         ELSE during[u]]
          /\ shared' = [shared EXCEPT ![t] = FALSE]
          /\ UNCHANGED <<at, arg>>
    BY <1>5, <2>2 DEF Create
  <2>5. /\ object' \in [Objects -> [path : Names \union {None}, caching : Nat,
                                    info : Kinds \union {None}]]
        /\ \A p \in Objects \ {o} : object'[p] = object[p]
        /\ \A p \in Objects : object'[p].caching = object[p].caching
        /\ object'[o].path = a
    BY <1>3, <2>1, <2>2, <2>4, Made
  <2>6. todo' = [todo EXCEPT ![t] = Tail(todo[t])]
    BY <2>4 DEF Make
  <2>7. at[t] = "load"
    BY <1>1 DEF Local, Stage, Looks, TypeInv
  <2>8. TypeInv'
    <3>1. host' \in [Names -> Kinds \union {None}]
      BY <1>3, <2>2, <2>4 DEF TypeInv
    <3>2. known' \in [Objects -> SUBSET (Kinds \union {None})]
      BY <2>4 DEF TypeInv
    <3>3. during' \in [Threads -> SUBSET (Kinds \union {None})]
      BY <2>4 DEF TypeInv
    <3> QED BY <1>1, <1>2, <1>3, <2>3, <2>4, <2>5, <2>6, <3>1, <3>2, <3>3 DEF TypeInv
  <2>9. todo'[t] = Tail(todo[t]) /\ on'[t] = o /\ at'[t] = "load" /\ known'[o] = {k} /\ during'[t] = {k}
    BY <1>1, <2>3, <2>4, <2>6, <2>7 DEF TypeInv
  <2>10. Place(t)'
    BY <1>1, <1>2, <1>3, <2>2, <2>3, <2>5, <2>9 DEF Place
  <2>11. Kind(o)' = k
    <3>1. host'[a] = k /\ a # None
      BY <1>3, <2>2, <2>4 DEF TypeInv
    <3> QED BY <2>5, <3>1 DEF Kind, KindIn
  <2>12. ASSUME NEW u \in Threads \ {t} PROVE Same(u) /\ Grown(u)
    <3>1. loc[u] # o /\ on[u] # o
      BY <2>3
    <3>2. Same(u) /\ on'[u] = on[u] /\ shared'[u] = shared[u]
      BY <1>1, <2>4, <2>5, <2>6, <3>1 DEF Same, TypeInv
    <3>3. CASE ~Idle(u)
      <4>1. on[u] \in Objects \ {o} /\ Users(on[u]) # {}
        BY <3>1, <3>3 DEF Local, Stage, TypeInv, Users
      <4>2. PICK p \in Objects : p = on[u] /\ p # o /\ Users(p) # {} /\ object'[p] = object[p]
        BY <2>5, <4>1
      <4>3. Kind(p)' = KindIn(host', p) /\ Kind(p) \in known[p] /\ Kind(p) \in during[u]
        BY <3>3, <4>2 DEF Kind, KindIn, Local, Seen
      <4>4. CASE object[p].path = a
        <5>1. host'[a] = k /\ a # None
          BY <1>3, <2>2, <2>4 DEF TypeInv
        <5>2. Kind(p)' = k
          BY <4>2, <4>4, <5>1 DEF Kind, KindIn
        <5>3. known'[p] = known[p] \union {k} /\ during'[u] = during[u] \union {k}
          BY <2>4, <3>3, <4>2, <4>4
        <5> QED BY <3>2, <4>2, <5>2, <5>3 DEF Grown
      <4>5. CASE object[p].path # a
        <5>1. Kind(p)' = Kind(p)
          BY <2>4, <4>2, <4>5 DEF Kind, KindIn, TypeInv
        <5>2. known'[p] = known[p] /\ during'[u] = during[u]
          BY <2>4, <3>3, <4>2, <4>5
        <5> QED BY <3>2, <4>2, <4>3, <5>1, <5>2 DEF Grown
      <4> QED BY <4>4, <4>5
    <3> QED BY <3>2, <3>3 DEF Grown
  <2>13. /\ loc' = loc /\ loc[t] # None /\ todo'[t] \in Rests \ (Opening \union Updated)
         /\ Kind(o)' \in known'[o] /\ Kind(o)' \in during'[t]
         /\ \A u \in Threads \ {t} : on[u] # o
    <3>1. None # Root /\ loc' = loc /\ \A u \in Threads \ {t} : on[u] # o
      BY <1>1, <2>3 DEF Objects, Root
    <3>2. todo'[t] \in Rests \ (Opening \union Updated)
      BY <1>2, <2>9
    <3> QED BY <1>3, <2>9, <2>11, <3>1, <3>2
  <2> QED BY <1>2, <2>3, <2>5, <2>8, <2>9, <2>10, <2>12, <2>13, ReachStep
<1> QED BY <1>4, <1>5

-----------------------------------------------------------------------------
(***************************************************************************)
(* ProxyInv holds always.                                                  *)
(***************************************************************************)
\* A step that changes nothing.
LEMMA StutterProxy == ProxyInv /\ UNCHANGED vars => ProxyInv'
<1> SUFFICES ASSUME ProxyInv, UNCHANGED vars PROVE ProxyInv'
  OBVIOUS
<1>1. TypeInv'
  BY DEF ProxyInv, TypeInv, vars, history
<1>2. \A u \in Threads : Grown(u) /\ (shared[u] => shared'[u])
  BY QuietGrown DEF vars, history
<1>3. \A u \in Threads : loc'[u] = loc[u]
  BY DEF vars
<1> QED BY <1>1, <1>2, <1>3, StillStep DEF vars

\* Every step keeps ProxyInv.
LEMMA ProxyStep == ProxyInv /\ [Next]_vars => ProxyInv'
<1> SUFFICES ASSUME ProxyInv, [Next]_vars PROVE ProxyInv'
  OBVIOUS
<1>1. ASSUME NEW t \in Threads,
             \/ Call(t) \/ Clone(t) \/ Clunk(t)
             \/ Load(t) \/ Update(t) \/ Read(t)
             \/ Walk(t) \/ Create(t) \/ Arrive(t) \/ Hold(t) \/ OpenFile(t)
             \/ DirectList(t) \/ Rename(t)
      PROVE  ProxyInv'
  BY <1>1, KeepCall, KeepClone, KeepClunk, KeepLoad, KeepUpdate, KeepRead, KeepWalk, KeepCreate,
     KeepArrive, KeepHold, KeepOpenFile, KeepDirectList, KeepRename
<1> QED BY <1>1, KeepReconnect, KeepOutside, StutterProxy DEF Next

\* ProxyInv holds always.
THEOREM ProxyInvariant == Spec => []ProxyInv
BY InitProxy, ProxyStep, PTL DEF Spec

\* Fresh, for any number of fids, names, ProxyFiles, requests and changes from outside: without an Open
\* of a clone of its fid meanwhile, a request goes by what was under the path while it ran.
THEOREM InfoFresh == Spec => []Fresh
<1>1. ProxyInv => Fresh
  BY DEF ProxyInv, Local, Seen, Fetched, Fresh, Looking
<1> QED BY <1>1, ProxyInvariant, PTL

\* Recent, for any number of them: no request goes by what was under the path before the requests
\* that overlap with it began.
THEOREM InfoRecent == Spec => []Recent
<1>1. ProxyInv => Recent
  BY DEF ProxyInv, Local, Seen, Fetched, Recent, Looking
<1> QED BY <1>1, ProxyInvariant, PTL
================================================================================
