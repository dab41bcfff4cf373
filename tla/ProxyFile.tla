------------------------------ MODULE ProxyFile ------------------------------
(***************************************************************************)
(* src/fileserver/trees/proxyfile.go under the handlers of                 *)
(* src/fileserver/fileserver.go, as cmd/exportfs runs them: a directory of *)
(* the host is served, and what the host knows of a path is asked for anew *)
(* in every call and kept in the ProxyFile for the rest of that call.      *)
(*                                                                         *)
(* A ProxyFile is shared by the fids cloned from one another and, for the  *)
(* root, by all.  A thread is a fid; requests on different fids overlap,   *)
(* and a step ends where infoLock is given back.  The served directory has *)
(* files and empty directories (bound: one level).  Modes and times, the   *)
(* content of files and permissions, which are the host's, are left out.   *)
(***************************************************************************)
EXTENDS Naturals, Sequences, FiniteSets

CONSTANTS
    Threads,
    Names,
    MaxObject,  \* bound: ProxyFiles besides the root's that are in use at a time
    MaxCalls,   \* bound: requests
    MaxOutside, \* bound: changes made by other programs of the host
    None

Root    == 0
Objects == 0..MaxObject
Kinds   == {"file", "dir"}

\* Each fid needs a ProxyFile of its own at most.
ASSUMPTION ProxyAssumption ==
    /\ IsFiniteSet(Threads)
    /\ MaxObject \in Nat /\ MaxObject >= Cardinality(Threads)
    /\ MaxCalls \in Nat /\ MaxOutside \in Nat
    /\ None \notin Names /\ None \notin Objects /\ None \notin Kinds

VARIABLES
    host,    \* host[name]: what the served directory has under the name
    object,  \* object[o]: [path, caching, info]; path is None for the served directory itself
    loc,     \* loc[t]: the ProxyFile of t's fid, None without a fid
    handle,  \* handle[t]: "list" a proxyFileListHandle, "host" an os.File, None not open
    todo,    \* todo[t]: what is left of the request in progress, empty when there is none
    at,      \* at[t]: where in the first of these t is
    on,      \* on[t]: the ProxyFile the request is at
    arg,     \* arg[t]: the name or the mode in the request
    isdir,   \* isdir[t]: what the last IsDir, Qid or Stat of the request has found
    left,    \* [calls, outside]: how many may still be made
    dead,    \* a handler has panicked, which ends the connection
    known,   \* history: known[o]: what o's path has been since o was last out of use
    during,  \* history: during[t]: what the path of on[t] has been since the request came to it
    shared   \* history: shared[t]: another fid's Open kept the cache of on[t] meanwhile

vars == <<host, object, loc, handle, todo, at, on, arg, isdir, left, dead, known, during, shared>>
history == <<known, during, shared>>

\* What os.Stat finds under the path of o when the served directory is h.
KindIn(h, o) == IF object[o].path = None THEN "dir" ELSE h[object[o].path]
Kind(o) == KindIn(host, o)

Idle(t)  == todo[t] = <<>>
Users(o) == {t \in Threads : on[t] = o}
\* The ProxyFiles nothing leads to.
Free == {o \in Objects \ {Root} : Users(o) = {} /\ \A t \in Threads : loc[t] # o}
New  == CHOOSE o \in Free : TRUE

\* What the handlers call on a ProxyFile, one after another.
Requests ==
    [walk   |-> <<"IsDir", "Walk", "Qid", "arrive">>,
     open   |-> <<"IsDir", "Qid", "updateInfo", "hold", "IsDir", "OpenFile">>,
     create |-> <<"IsDir", "Create", "Qid", "updateInfo", "hold", "IsDir", "OpenFile">>,
     read   |-> <<"IsDir", "DirectList">>,
     stat   |-> <<"Stat">>,
     wstat  |-> <<"Stat", "Rename">>]
Looks == {"IsDir", "Qid", "Stat", "updateInfo"}

Init ==
    /\ host \in [Names -> Kinds \union {None}]
    /\ object = [o \in Objects |-> [path |-> None, caching |-> 0, info |-> None]]
    /\ loc = [t \in Threads |-> Root]
    /\ handle = [t \in Threads |-> None]
    /\ todo = [t \in Threads |-> <<>>]
    /\ at = [t \in Threads |-> "load"]
    /\ on = [t \in Threads |-> None]
    /\ arg = [t \in Threads |-> None]
    /\ isdir = [t \in Threads |-> FALSE]
    /\ left = [calls |-> MaxCalls, outside |-> MaxOutside]
    /\ dead = FALSE
    /\ known = [o \in Objects |-> {}]
    /\ during = [t \in Threads |-> {}]
    /\ shared = [t \in Threads |-> FALSE]

\* t's request goes to o, whose path leads to kind.
Reach(t, o, kind) ==
    /\ on' = [on EXCEPT ![t] = o]
    /\ known' = [known EXCEPT ![o] = IF Users(o) = {} THEN {kind} ELSE @]
    /\ during' = [during EXCEPT ![t] = {kind}]
    /\ shared' = [shared EXCEPT ![t] = object[o].caching > 0 /\ Users(o) # {}]

\* The first of todo[t] is done, or the handler returns, with a reply or an error.
Return(t) == /\ todo' = [todo EXCEPT ![t] = <<>>]
             /\ at' = [at EXCEPT ![t] = "load"]
             /\ on' = [on EXCEPT ![t] = None]
             /\ arg' = [arg EXCEPT ![t] = None]
             /\ isdir' = [isdir EXCEPT ![t] = FALSE]
Done(t, d) == IF Len(todo[t]) = 1 THEN Return(t)
              ELSE /\ todo' = [todo EXCEPT ![t] = Tail(@)]
                   /\ at' = [at EXCEPT ![t] = "load"]
                   /\ isdir' = [isdir EXCEPT ![t] = d]
                   /\ UNCHANGED <<on, arg>>

\* The served directory becomes h.
Becomes(h) ==
    /\ host' = h
    /\ known' = [o \in Objects |-> IF Users(o) = {} THEN known[o]
                                   ELSE known[o] \union {KindIn(h, o)}]
    /\ during' = [t \in Threads |-> IF Idle(t) THEN during[t]
                                    ELSE during[t] \union {KindIn(h, on[t])}]
    /\ UNCHANGED shared

-----------------------------------------------------------------------------
Call(t) ==
    /\ ~dead /\ Idle(t) /\ loc[t] # None /\ left.calls > 0
    /\ \E r \in DOMAIN Requests :
        /\ r \in {"walk", "open", "create"} => handle[t] = None
        /\ r \in {"walk", "create"} => loc[t] = Root
        /\ r = "wstat" => loc[t] # Root
        /\ r = "read" => handle[t] = "list"
        /\ todo' = [todo EXCEPT ![t] = Requests[r]]
        /\ \E a \in CASE r \in {"walk", "create", "wstat"} -> Names
                      [] r = "open" -> {"OREAD", "OWRITE"}
                      [] OTHER -> {None} :
             arg' = [arg EXCEPT ![t] = a]
    /\ left' = [left EXCEPT !.calls = @ - 1]
    /\ Reach(t, loc[t], Kind(loc[t]))
    /\ UNCHANGED <<host, object, loc, handle, at, isdir, dead>>

\* A walk of no names: the new fid has the same ProxyFile.
Clone(t) ==
    /\ ~dead /\ Idle(t) /\ loc[t] # None /\ handle[t] = None
    /\ \E u \in Threads : /\ loc[u] = None
                          /\ loc' = [loc EXCEPT ![u] = loc[t]]
    /\ UNCHANGED <<host, object, handle, todo, at, on, arg, isdir, left, dead, history>>

\* Clunk, and remove: os.Remove of the path, whose failure is not reported.
Clunk(t) ==
    /\ ~dead /\ Idle(t) /\ loc[t] # None
    /\ loc' = [loc EXCEPT ![t] = None]
    /\ handle' = [handle EXCEPT ![t] = None]
    /\ \/ UNCHANGED <<host, history>>
       \/ /\ loc[t] # Root
          /\ Becomes([host EXCEPT ![object[loc[t]].path] = None])
    /\ UNCHANGED <<object, todo, at, on, arg, isdir, left, dead>>

\* The connection has ended, its last handler has returned and another has been accepted.
Reconnect ==
    /\ dead /\ \A t \in Threads : Idle(t)
    /\ dead' = FALSE
    /\ loc' = [t \in Threads |-> Root]
    /\ handle' = [t \in Threads |-> None]
    /\ UNCHANGED <<host, object, todo, at, on, arg, isdir, left, history>>

\* Other programs write to the directory that is served.
Outside ==
    /\ left.outside > 0
    /\ left' = [left EXCEPT !.outside = @ - 1]
    /\ \E n \in Names, k \in Kinds \union {None} :
         host[n] # k /\ Becomes([host EXCEPT ![n] = k])
    /\ UNCHANGED <<object, loc, handle, todo, at, on, arg, isdir, dead>>

-----------------------------------------------------------------------------
(***************************************************************************)
(* updateInfo, IsDir, Qid and Stat: info is assigned and looked at under   *)
(* infoLock, but not under one hold of it.                                 *)
(***************************************************************************)
At(t, calls) == ~Idle(t) /\ Head(todo[t]) \in calls

\* Mutant of Cached: whoever has some info keeps it.
CachedEver(o) == object[o].caching > 0 \/ object[o].info # None
Cached(o) == object[o].caching > 0

Step(t, l) == at' = [at EXCEPT ![t] = l] /\ UNCHANGED <<todo, on, arg, isdir>>
\* updateInfo has returned: the call of Open is done, the others look at info.
Look(t) == IF Head(todo[t]) = "updateInfo" THEN Done(t, FALSE) ELSE Step(t, "read")

Load(t) ==
    /\ At(t, Looks) /\ at[t] = "load"
    /\ IF Cached(on[t]) THEN Look(t) ELSE Step(t, "update")
    /\ UNCHANGED <<host, object, loc, handle, left, dead, history>>

\* os.Stat and the assignment of its result, which is nil when it fails.
Update(t) ==
    /\ At(t, Looks) /\ at[t] = "update"
    /\ object' = [object EXCEPT ![on[t]].info = Kind(on[t])]
    /\ IF Kind(on[t]) = None THEN Return(t) ELSE Look(t)
    /\ UNCHANGED <<host, loc, handle, left, dead, history>>

\* The deferred cache(false) of Open, if t is in one.
\* Mutant of Released: the cache is kept when the file cannot be opened.
ReleasedIfOpened(t) == IF at[t] = "load" /\ Kind(on[t]) = None THEN object
                       ELSE [object EXCEPT ![on[t]].caching = @ - 1]
Released(t) == [object EXCEPT ![on[t]].caching = @ - 1]
Holds(t) == todo[t] \in {<<"IsDir", "OpenFile">>, <<"OpenFile">>}

\* Without a directory the handler goes no further; with one, not to open it for writing.
Refused(t) ==
    /\ Head(todo[t]) = "IsDir"
    /\ IF object[on[t]].info = "dir" THEN todo[t] = Requests.open /\ arg[t] = "OWRITE"
       ELSE todo[t] \in {Requests.walk, Requests.create, Requests.read}

Read(t) ==
    /\ At(t, Looks) /\ at[t] = "read"
    /\ \/ /\ object[on[t]].info = None
          /\ dead' = TRUE
          /\ object' = IF Holds(t) THEN Released(t) ELSE object
          /\ Return(t)
       \/ /\ object[on[t]].info # None
          /\ IF Refused(t) THEN Return(t) ELSE Done(t, object[on[t]].info = "dir")
          /\ UNCHANGED <<object, dead>>
    /\ UNCHANGED <<host, loc, handle, left, history>>

-----------------------------------------------------------------------------
\* t goes on with a new ProxyFile of the path.
Make(t, kind) ==
    /\ object' = [object EXCEPT ![New] = [path |-> arg[t], caching |-> 0, info |-> None]]
    /\ todo' = [todo EXCEPT ![t] = Tail(@)]

Walk(t) ==
    /\ At(t, {"Walk"})
    /\ \/ /\ host[arg[t]] = None
          /\ Return(t)
          /\ UNCHANGED <<object, history>>
       \/ /\ host[arg[t]] # None
          /\ Make(t, host[arg[t]])
          /\ Reach(t, New, host[arg[t]])
          /\ UNCHANGED <<at, arg, isdir>>
    /\ UNCHANGED <<host, loc, handle, left, dead>>

\* os.Mkdir, or os.OpenFile with O_EXCL.  The new ProxyFile is nobody else's yet.
Create(t) ==
    /\ At(t, {"Create"})
    /\ \/ /\ host[arg[t]] # None
          /\ Return(t)
          /\ UNCHANGED <<host, object, history>>
       \/ \E k \in Kinds :
          /\ host[arg[t]] = None
          /\ host' = [host EXCEPT ![arg[t]] = k]
          /\ Make(t, k)
          /\ on' = [on EXCEPT ![t] = New]
          /\ known' = [o \in Objects |-> IF o = New THEN {k}
                         ELSE IF Users(o) # {} /\ object[o].path = arg[t] THEN known[o] \union {k}
                         ELSE known[o]]
          /\ during' = [u \in Threads |-> IF u = t THEN {k}
                         ELSE IF ~Idle(u) /\ object[on[u]].path = arg[t] THEN during[u] \union {k}
                         ELSE during[u]]
          /\ shared' = [shared EXCEPT ![t] = FALSE]
          /\ UNCHANGED <<at, arg, isdir>>
    /\ UNCHANGED <<loc, handle, left, dead>>

\* The end of walk: the fid is at the file found.
Arrive(t) ==
    /\ At(t, {"arrive"})
    /\ loc' = [loc EXCEPT ![t] = on[t]]
    /\ Return(t)
    /\ UNCHANGED <<host, object, handle, left, dead, history>>

\* cache(true)
Hold(t) ==
    /\ At(t, {"hold"})
    /\ object' = [object EXCEPT ![on[t]].caching = @ + 1]
    /\ shared' = [u \in Threads |-> shared[u] \/ (u # t /\ on[u] = on[t])]
    /\ Done(t, FALSE)
    /\ UNCHANGED <<host, loc, handle, left, dead, known, during>>

\* The end of Open and the rest of the handler.  The host has the last word on the file.
OpenFile(t) ==
    /\ At(t, {"OpenFile"})
    /\ LET opens == Kind(on[t]) = "file" \/ (Kind(on[t]) = "dir" /\ arg[t] # "OWRITE")
           h     == IF isdir[t] THEN "list" ELSE IF opens THEN "host" ELSE None
       IN /\ handle' = [handle EXCEPT ![t] = h]
          /\ loc' = [loc EXCEPT ![t] = IF h = None THEN @ ELSE on[t]]
    /\ object' = Released(t)
    /\ Return(t)
    /\ UNCHANGED <<host, left, dead, history>>

\* The directory is opened and read at once; nothing is kept but the entries.
DirectList(t) ==
    /\ At(t, {"DirectList"})
    /\ Return(t)
    /\ UNCHANGED <<host, object, loc, handle, left, dead, history>>

\* os.Rename of the path in the ProxyFile, which stays what it was: a file at the new name is
\* replaced, a directory is not.
Moves(old, new) == /\ old # new /\ host[old] # None
                   /\ host[new] = None \/ (host[old] = "file" /\ host[new] = "file")
Rename(t) ==
    /\ At(t, {"Rename"})
    /\ LET old == object[on[t]].path IN
       \/ /\ Moves(old, arg[t])
          /\ Becomes([host EXCEPT ![arg[t]] = host[old], ![old] = None])
       \/ ~Moves(old, arg[t]) /\ UNCHANGED <<host, history>>
    /\ Return(t)
    /\ UNCHANGED <<object, loc, handle, left, dead>>

-----------------------------------------------------------------------------
Next ==
    \/ \E t \in Threads :
        \/ Call(t) \/ Clone(t) \/ Clunk(t)
        \/ Load(t) \/ Update(t) \/ Read(t)
        \/ Walk(t) \/ Create(t) \/ Arrive(t) \/ Hold(t) \/ OpenFile(t)
        \/ DirectList(t) \/ Rename(t)
    \/ Reconnect
    \/ Outside

Spec == Init /\ [][Next]_vars

-----------------------------------------------------------------------------
(***************************************************************************)
(* What a request finds in info.                                           *)
(***************************************************************************)
Looking(t) == ~Idle(t) /\ at[t] = "read"

\* Without an Open on a clone of its fid meanwhile, what a request goes by was so of the path at
\* some time since the request came to it: the cache of an Open is not left behind, and an
\* assignment by another request is never an old one.
Fresh == \A t \in Threads :
    Looking(t) /\ ~shared[t] => object[on[t]].info \in during[t]

\* However many calls overlap and keep the cache for each other, none sees what was before the
\* first of them; and info is nil, which ends the connection in a panic, only if the path was
\* missing at some time since.
Recent == \A t \in Threads : Looking(t) => object[on[t]].info \in known[on[t]]

\* "It is used to avoid updating the file information multiple times during a single call":
\* the cache of one call is not seen by another (proxyfile.go 129-130).
WithinCall == \A t \in Threads : Looking(t) => object[on[t]].info \in during[t]

\* SetName is there "to ensure agreement between dir and file" (utils.go 50-51): a file that has
\* been renamed is found by its fid.
PathFollows == [][\A t \in Threads :
    Rename(t) /\ Moves(object[on[t]].path, arg[t]) => Kind(loc[t])' # None]_vars
=============================================================================
