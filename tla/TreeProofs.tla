-------------------------------- MODULE TreeProofs --------------------------------
(***************************************************************************)
(* The tree for every number of threads, nodes and names, and every tree   *)
(* and menu of requests. TreeInv is proved step by step; what the other    *)
(* theorems need besides is a small invariant of their own, about the      *)
(* steps that reach the state in question (Enters) or change the data in   *)
(* question (DirStep, NodeChanges, NamesKept).                             *)
(***************************************************************************)
EXTENDS Tree, TLAPS, FiniteSetTheorems, SequenceTheorems

\* What a thread may be at.
States == {"idle", "walk", "create", "open", "opening", "read", "write", "clunk", "remove",
           "unlink", "unlinking", "wstat", "set", "setting", "panic", "dead"}

\* What a wstat may change.
Fields == {"perm", "uid", "name", "len"}

\* A request of t is in progress.
Working(t) == pc[t] \notin {"idle", "dead"}
Exists(n)  == node[n].name # None

\* The types, as far as the rest needs them.
TypeInv ==
    /\ scene \in Scenes /\ left \in Nat
    /\ node = [n \in Nodes |-> node[n]] /\ \A n \in Nodes : IsNode(node[n])
    /\ tree \in [Nodes -> [Names -> Nodes \union {None}]]
    /\ loc \in [Threads -> Seq(Nodes)] /\ path \in [Threads -> Seq(Nodes)]
    /\ handle \in [Threads -> Modes \union {None}]
    /\ pc \in [Threads -> States]
    /\ op = [t \in Threads |-> op[t]] /\ was = [t \in Threads |-> was[t]]
    /\ part \in [Threads -> {1, 2}]
    /\ todo \in [Threads -> Seq(Names \union {".."} \union Fields)]
    /\ name \in [Threads -> Names \union {None}]
    /\ target \in [Threads -> Nodes \union {None}]
    /\ found \in [Threads -> BOOLEAN] /\ undo \in [Threads -> BOOLEAN]
    /\ alone \in [Threads -> BOOLEAN] /\ renamed \in [Threads -> BOOLEAN]
    /\ removed \subseteq Nodes

\* A file is in a directory, has a name and stays there.
NodesInv ==
    /\ Exists(Root) /\ node[Root].home = None
    /\ \A n \in Nodes :
        /\ node[n].kind \in {"file", "dir", "mix"}
        /\ IsMix(n) => /\ n = Root
                       /\ \A p \in {scene.mix[n].top, scene.mix[n].bottom} :
                            p \in Nodes /\ Exists(p) /\ node[p].kind = "dir"
        /\ node[n].home # None =>
             /\ node[n].name \in Names
             /\ node[n].home \in Nodes \ {n} /\ Exists(node[n].home)
             /\ node[node[n].home].kind = "dir"

\* There is a free node for every create that has begun.
Creating == {t \in Threads : pc[t] = "create"}
CountInv == Cardinality(Creating) <= Cardinality(Fresh)

\* What request a thread is at, and how far.
Stage(t) ==
    /\ Working(t) => op[t] \in scene.menu[t] /\ loc[t] # <<>>
    /\ pc[t] = "walk" => /\ op[t].op = "walk" /\ path[t] # <<>>
                         /\ todo[t] \in Seq(Names \union {".."})
    /\ pc[t] = "create" => op[t].op = "create"
    /\ pc[t] \in {"open", "opening"} => op[t].op \in {"open", "create"}
    /\ pc[t] \in {"unlink", "unlinking"} => name[t] \in Names /\ Len(loc[t]) > 1
    /\ pc[t] \in {"wstat", "set", "setting"} => op[t].op = "wstat"

\* The part of a MixDir that is being searched.
AtPart(t) ==
    /\ pc[t] = "walk" /\ ~IsMix(Current(path[t])) => part[t] = 1
    /\ Working(t) /\ pc[t] # "walk" /\ ~IsMix(Parent(loc[t])) => part[t] = 1

\* The changes of a wstat still to make, and the names it passes to Rename.
Todo(t) ==
    pc[t] \in {"set", "setting"} =>
        /\ todo[t] \in Seq(Fields)
        /\ pc[t] = "setting" => todo[t] # <<>> /\ Head(todo[t]) # "name"
        /\ Len(loc[t]) > 1 => was[t].name \in Names
        /\ ~undo[t] /\ Contains(todo[t], "name") => op[t].stat.name \in Names

\* The node a request works on.
Target(t) ==
    /\ Working(t) => target[t] \in Nodes /\ Exists(target[t])
    /\ Working(t) /\ pc[t] # "unlinking"
         /\ (pc[t] \in {"open", "opening"} => op[t].op = "open")
       => target[t] = Own(Current(loc[t]))
    /\ pc[t] \in {"open", "opening"} /\ op[t].op = "create"
       => node[target[t]].home \in Range(Parts(Current(loc[t])))

\* What holds of each thread.
Local(t) == Stage(t) /\ AtPart(t) /\ Todo(t) /\ Target(t) /\ Chain(loc[t]) /\ Chain(path[t])

\* The inductive invariant.
TreeInv == TypeInv /\ NodesInv /\ NamesAgree /\ CountInv /\ \A t \in Threads : Local(t)

USE TreeAssumption

-----------------------------------------------------------------------------
(***************************************************************************)
(* Paths, and the parts of a node.                                         *)
(***************************************************************************)
\* None is no node, name or mode.
LEMMA Constants == None \notin Nodes /\ None \notin Names /\ None \notin Modes /\ Root \in Nodes
<1>1. Root \in Nodes
  BY DEF Nodes, Root
<1> QED BY <1>1

\* The last two elements of a path.
LEMMA PathEnds ==
    ASSUME NEW p \in Seq(Nodes), p # <<>>
    PROVE  /\ Len(p) \in Nat /\ Len(p) >= 1 /\ Current(p) = p[Len(p)] /\ Current(p) \in Nodes
           /\ Parent(p) \in Nodes
           /\ Len(p) = 1 => Parent(p) = p[1] /\ Current(p) = p[1]
           /\ Len(p) > 1 => Len(p) - 1 \in 1..(Len(p) - 1) /\ Parent(p) = p[Len(p) - 1]
<1>1. PICK m \in Nat : m = Len(p) /\ m >= 1
  <2>1. Len(p) \in Nat /\ Len(p) # 0
    OBVIOUS
  <2> QED BY <2>1
<1>2. \A i \in 1..m : p[i] \in Nodes
  BY <1>1
<1>3. m \in 1..m /\ 1 \in 1..m /\ (m > 1 => m - 1 \in 1..m /\ m - 1 \in 1..(m - 1))
  BY <1>1
<1>4. Current(p) = p[m] /\ Parent(p) = IF m = 1 THEN p[1] ELSE p[m - 1]
  BY <1>1 DEF Current, Parent, Last
<1>5. m # 1 => m > 1
  BY <1>1
<1> QED BY <1>1, <1>2, <1>3, <1>4, <1>5

\* The directories a node is made of.
LEMMA PartsOf ==
    ASSUME NodesInv, NEW n \in Nodes
    PROVE  /\ IsMix(n) => /\ Parts(n) = <<scene.mix[n].top, scene.mix[n].bottom>>
                          /\ Len(Parts(n)) = 2
                          /\ Range(Parts(n)) = {scene.mix[n].top, scene.mix[n].bottom}
                          /\ Own(n) = scene.mix[n].top /\ n = Root
           /\ ~IsMix(n) => /\ Parts(n) = <<n>> /\ Len(Parts(n)) = 1 /\ Range(Parts(n)) = {n}
                           /\ Own(n) = n
           /\ Range(Parts(n)) \subseteq Nodes /\ Own(n) \in Range(Parts(n))
           /\ ~IsMix(Own(n)) /\ (Exists(n) => Exists(Own(n)))
<1>1. CASE IsMix(n)
  <2>1. PICK a \in Nodes, b \in Nodes :
          /\ a = scene.mix[n].top /\ b = scene.mix[n].bottom /\ n = Root
          /\ node[a].kind = "dir" /\ Exists(a) /\ Exists(b)
    BY <1>1 DEF NodesInv
  <2>2. Parts(n) = <<a, b>> /\ Own(n) = a
    BY <1>1, <2>1 DEF Parts, Own
  <2>3. PICK s : s = <<a, b>>
    OBVIOUS
  <2>4. Len(s) = 2 /\ DOMAIN s = {1, 2} /\ s[1] = a /\ s[2] = b
    BY <2>3
  <2>5. Range(s) = {a, b}
    BY <2>4 DEF Range
  <2> QED BY <1>1, <2>1, <2>2, <2>3, <2>4, <2>5 DEF IsMix
<1>2. CASE ~IsMix(n)
  <2>1. Parts(n) = <<n>> /\ Own(n) = n
    BY <1>2 DEF Parts, Own
  <2>2. PICK s : s = <<n>>
    OBVIOUS
  <2>3. Len(s) = 1 /\ DOMAIN s = {1} /\ s[1] = n
    BY <2>2
  <2>4. Range(s) = {n}
    BY <2>3 DEF Range
  <2> QED BY <1>2, <2>1, <2>2, <2>3, <2>4
<1> QED BY <1>1, <1>2

\* What is on a path exists, and below the root is a file of the one before it.
LEMMA OnPath ==
    ASSUME NodesInv, NEW p \in Seq(Nodes), p # <<>>, Chain(p)
    PROVE  /\ \A i \in 1..Len(p) : p[i] \in Nodes /\ Exists(p[i])
           /\ Exists(Current(p)) /\ Exists(Parent(p))
           /\ Len(p) = 1 => Current(p) = Root
           /\ Len(p) > 1 => /\ node[Current(p)].home \in Range(Parts(Parent(p)))
                            /\ Current(p) # Root /\ ~IsMix(Current(p))
                            /\ node[Current(p)].name \in Names
<1>1. /\ p[1] = Root /\ Len(p) \in Nat /\ Len(p) >= 1
      /\ \A i \in 1..(Len(p) - 1) : node[p[i + 1]].home \in Range(Parts(p[i]))
  BY PathEnds DEF Chain
<1>2. ASSUME NEW i \in 1..(Len(p) - 1)
      PROVE  /\ p[i + 1] \in Nodes /\ node[p[i + 1]].home # None /\ Exists(p[i + 1])
             /\ p[i + 1] # Root /\ ~IsMix(p[i + 1]) /\ node[p[i + 1]].name \in Names
  <2>1. p[i] \in Nodes /\ p[i + 1] \in Nodes
    BY <1>1
  <2>2. node[p[i + 1]].home \in Nodes
    BY <1>1, <2>1, PartsOf
  <2>3. node[p[i + 1]].home # None
    BY <2>2, Constants
  <2> QED BY <2>1, <2>3, Constants DEF NodesInv, Exists
<1>3. ASSUME NEW i \in 1..Len(p) PROVE p[i] \in Nodes /\ Exists(p[i])
  <2>1. CASE i = 1
    BY <1>1, <2>1, Constants DEF NodesInv
  <2>2. CASE i # 1
    <3>1. i - 1 \in 1..(Len(p) - 1) /\ (i - 1) + 1 = i
      BY <1>1, <2>2
    <3> QED BY <1>2, <3>1
  <2> QED BY <2>1, <2>2
<1>4. Exists(Current(p)) /\ Exists(Parent(p))
  <2>1. PICK m \in Nat : m = Len(p) /\ m >= 1
    BY PathEnds
  <2>2. m \in 1..m /\ 1 \in 1..m /\ (m # 1 => m - 1 \in 1..m /\ m > 1)
    BY <2>1
  <2> QED BY <1>3, <2>1, <2>2, PathEnds
<1>5. ASSUME Len(p) > 1
      PROVE  /\ node[Current(p)].home \in Range(Parts(Parent(p)))
             /\ Current(p) # Root /\ ~IsMix(Current(p))
             /\ node[Current(p)].name \in Names
  <2>1. Len(p) - 1 \in 1..(Len(p) - 1) /\ (Len(p) - 1) + 1 = Len(p)
    BY <1>1, <1>5
  <2>2. Parent(p) = p[Len(p) - 1] /\ Current(p) = p[(Len(p) - 1) + 1]
    BY <1>5, <2>1, PathEnds
  <2> QED BY <1>1, <1>2, <2>1, <2>2
<1>6. Len(p) = 1 => Current(p) = Root
  BY <1>1, PathEnds
<1> QED BY <1>3, <1>4, <1>5, <1>6

\* ".." leaves a path a path.
LEMMA UpChain ==
    ASSUME NodesInv, NEW p \in Seq(Nodes), p # <<>>, Chain(p)
    PROVE  Up(p) \in Seq(Nodes) /\ Up(p) # <<>> /\ Chain(Up(p))
<1>1. CASE Len(p) > 1
  <2>1. PICK n \in Nat : n + 1 = Len(p) /\ n >= 1
    <3>1. Len(p) - 1 \in Nat
      BY <1>1
    <3> QED BY <1>1, <3>1
  <2>2. PICK q : q = SubSeq(p, 1, n)
    OBVIOUS
  <2>3. q \in Seq(Nodes) /\ Len(q) = n /\ \A i \in 1..n : q[i] = p[i]
    BY <2>1, <2>2
  <2>4. Up(p) = q
    BY <1>1, <2>1, <2>2 DEF Up, Front
  <2>5. q # <<>>
    BY <2>1, <2>3
  <2>6. Chain(q)
    <3>1. q[1] = Root
      BY <2>1, <2>3 DEF Chain
    <3>2. ASSUME NEW i \in 1..(n - 1) PROVE node[q[i + 1]].home \in Range(Parts(q[i]))
      <4>1. i \in 1..n /\ i + 1 \in 1..n /\ i \in 1..(Len(p) - 1)
        BY <2>1
      <4> QED BY <2>3, <4>1 DEF Chain
    <3> QED BY <2>3, <3>1, <3>2 DEF Chain
  <2> QED BY <2>3, <2>4, <2>5, <2>6
<1>2. CASE ~(Len(p) > 1)
  BY <1>2 DEF Up
<1> QED BY <1>1, <1>2

\* So does a file of the last directory.
LEMMA DownChain ==
    ASSUME NodesInv, NEW p \in Seq(Nodes), p # <<>>, Chain(p), NEW n \in Nodes,
           node[n].home \in Range(Parts(Current(p)))
    PROVE  /\ Append(p, n) \in Seq(Nodes) /\ Append(p, n) # <<>> /\ Chain(Append(p, n))
           /\ Current(Append(p, n)) = n
<1>1. PICK m \in Nat : m = Len(p) /\ m >= 1
  BY PathEnds
<1>2. PICK q : q = Append(p, n)
  OBVIOUS
<1>3. /\ q \in Seq(Nodes) /\ Len(q) = m + 1 /\ q[m + 1] = n
      /\ \A i \in 1..m : q[i] = p[i]
  BY <1>1, <1>2
<1>4. q # <<>> /\ Current(q) = n
  BY <1>1, <1>3 DEF Current, Last
<1>5. q[1] = Root
  BY <1>1, <1>3 DEF Chain
<1>6. ASSUME NEW i \in 1..m PROVE node[q[i + 1]].home \in Range(Parts(q[i]))
  <2>1. CASE i = m
    BY <1>1, <1>3, <2>1, PathEnds
  <2>2. CASE i # m
    <3>1. i \in 1..(Len(p) - 1) /\ i + 1 \in 1..m
      BY <1>1, <2>2
    <3> QED BY <1>3, <3>1 DEF Chain
  <2> QED BY <2>1, <2>2
<1>7. Chain(q)
  BY <1>1, <1>3, <1>5, <1>6 DEF Chain
<1> QED BY <1>2, <1>3, <1>4, <1>7

-----------------------------------------------------------------------------
(***************************************************************************)
(* What a step leaves as it is.                                            *)
(***************************************************************************)
\* What no step undoes: a file exists, is of its kind and stays where it was created.
Grows ==
    /\ scene' = scene
    /\ \A n \in Nodes : Exists(n) => /\ Exists(n)' /\ node'[n].kind = node[n].kind
                                     /\ node'[n].home = node[n].home

\* The step is not about thread u.
SameLocal(u) ==
    /\ loc'[u] = loc[u] /\ path'[u] = path[u] /\ pc'[u] = pc[u] /\ op'[u] = op[u]
    /\ part'[u] = part[u] /\ todo'[u] = todo[u] /\ undo'[u] = undo[u] /\ was'[u] = was[u]
    /\ name'[u] = name[u] /\ target'[u] = target[u]

\* What every step of t keeps.
Moves(t) == TreeInv' /\ Grows /\ \A u \in Threads \ {t} : SameLocal(u)

\* A node stays made of the same directories.
LEMMA PartsKept ==
    ASSUME Grows, NEW n \in Nodes, Exists(n)
    PROVE  Parts(n)' = Parts(n) /\ Own(n)' = Own(n) /\ (IsMix(n)' <=> IsMix(n))
BY DEF Grows, Parts, Own, IsMix

\* A path stays a path.
LEMMA ChainKept ==
    ASSUME NodesInv, Grows, NEW p \in Seq(Nodes), Chain(p)
    PROVE  Chain(p)'
<1>1. CASE p = <<>>
  BY <1>1 DEF Chain
<1>2. CASE p # <<>>
  <2>1. ASSUME NEW i \in 1..(Len(p) - 1)
        PROVE  (node[p[i + 1]].home \in Range(Parts(p[i])))'
    <3>1. i \in 1..Len(p) /\ i + 1 \in 1..Len(p)
      BY <1>2, PathEnds
    <3>2. p[i] \in Nodes /\ p[i + 1] \in Nodes /\ Exists(p[i]) /\ Exists(p[i + 1])
      BY <1>2, <3>1, OnPath
    <3>3. node[p[i + 1]].home \in Range(Parts(p[i]))
      BY <1>2 DEF Chain
    <3>4. Parts(p[i])' = Parts(p[i]) /\ node'[p[i + 1]].home = node[p[i + 1]].home
      BY <3>2, PartsKept DEF Grows
    <3> QED BY <3>3, <3>4
  <2>2. p[1] = Root
    BY <1>2 DEF Chain
  <2> QED BY <2>1, <2>2 DEF Chain
<1> QED BY <1>1, <1>2

\* What holds of a thread the step is not about.
LEMMA OthersKept ==
    ASSUME TreeInv, Grows, NEW u \in Threads, SameLocal(u)
    PROVE  Local(u)'
<1>1. Local(u) /\ NodesInv /\ loc[u] \in Seq(Nodes) /\ path[u] \in Seq(Nodes)
  BY DEF TreeInv, TypeInv
<1>2. scene' = scene
  BY DEF Grows
<1>3. Chain(loc[u])' /\ Chain(path[u])'
  <2>1. Chain(loc[u]) /\ Chain(path[u])
    BY <1>1 DEF Local
  <2>2. PICK p \in Seq(Nodes), q \in Seq(Nodes) : p = loc[u] /\ q = path[u]
    BY <1>1
  <2>3. Chain(p)' /\ Chain(q)'
    BY <1>1, <2>1, <2>2, ChainKept
  <2>4. loc'[u] = p /\ path'[u] = q
    BY <2>2 DEF SameLocal
  <2> QED BY <2>3, <2>4 DEF Chain
<1>4. Stage(u)'
  BY <1>1, <1>2 DEF Local, Stage, SameLocal, Working
<1>5. Todo(u)'
  BY <1>1 DEF Local, Todo, SameLocal
<1>6. loc[u] # <<>> => /\ Current(loc[u]) \in Nodes /\ Exists(Current(loc[u]))
                       /\ Parent(loc[u]) \in Nodes /\ Exists(Parent(loc[u]))
  BY <1>1, OnPath, PathEnds DEF Local
<1>7. path[u] # <<>> => Current(path[u]) \in Nodes /\ Exists(Current(path[u]))
  BY <1>1, OnPath, PathEnds DEF Local
<1>8. AtPart(u)'
  <2>1. pc[u] = "walk" => (IsMix(Current(path[u]))' <=> IsMix(Current(path[u])))
    <3>1. pc[u] = "walk" => path[u] # <<>>
      BY <1>1 DEF Local, Stage
    <3>2. Current(path[u])' = Current(path[u])
      BY DEF SameLocal, Current
    <3> QED BY <1>7, <3>1, <3>2 DEF IsMix, Grows
  <2>2. Working(u) => (IsMix(Parent(loc[u]))' <=> IsMix(Parent(loc[u])))
    <3>1. Working(u) => loc[u] # <<>>
      BY <1>1 DEF Local, Stage
    <3>2. Parent(loc[u])' = Parent(loc[u])
      BY DEF SameLocal, Parent
    <3> QED BY <1>6, <3>1, <3>2 DEF IsMix, Grows
  <2> QED BY <1>1, <2>1, <2>2 DEF Local, AtPart, SameLocal, Working
<1>9. Target(u)'
  <2>1. CASE ~Working(u)
    BY <2>1 DEF Target, Working, SameLocal
  <2>2. CASE Working(u)
    <3>1. /\ target[u] \in Nodes /\ Exists(target[u])
          /\ Current(loc[u]) \in Nodes /\ Exists(Current(loc[u]))
      BY <1>1, <1>6, <2>2 DEF Local, Target, Stage
    <3>2. PICK n \in Nodes, c \in Nodes : n = target[u] /\ c = Current(loc[u])
      BY <3>1
    <3>3. Parts(c)' = Parts(c) /\ Own(c)' = Own(c) /\ node'[n].home = node[n].home /\ Exists(n)'
      BY <3>1, <3>2, PartsKept DEF Grows
    <3>4. target'[u] = n /\ Current(loc[u])' = c
      BY <3>2 DEF SameLocal, Current
    <3>5. /\ Own(Current(loc[u]))' = Own(Current(loc[u]))
          /\ Parts(Current(loc[u]))' = Parts(Current(loc[u]))
          /\ node'[target'[u]].home = node[target[u]].home
          /\ target'[u] \in Nodes /\ Exists(target[u])'
      BY <3>2, <3>3, <3>4 DEF Own, Parts, IsMix, Exists
    <3> QED BY <1>1, <2>2, <3>5 DEF Local, Target, SameLocal, Working
  <2> QED BY <2>1, <2>2
<1> QED BY <1>3, <1>4, <1>5, <1>8, <1>9 DEF Local

-----------------------------------------------------------------------------

\* Threads and nodes are finitely many.
LEMMA Finite ==
    /\ IsFiniteSet(Fresh) /\ Cardinality(Fresh) \in Nat
    /\ IsFiniteSet(Creating) /\ Cardinality(Creating) \in Nat
<1>1. IsFiniteSet(Nodes)
  BY FS_Interval DEF Nodes
<1>2. IsFiniteSet(Fresh)
  BY <1>1, FS_Subset DEF Fresh
<1>3. IsFiniteSet(Creating)
  BY FS_Subset DEF Creating
<1> QED BY <1>2, <1>3, FS_CardinalityType

\* There stays a free node for every create when neither changes.
LEMMA CountKept ==
    ASSUME TreeInv, Fresh' = Fresh, Creating' \subseteq Creating
    PROVE  CountInv'
<1>1. Cardinality(Creating') <= Cardinality(Creating)
  BY Finite, FS_Subset
<1>2. Cardinality(Creating') \in Nat
  BY Finite, FS_Subset, FS_CardinalityType
<1>3. Cardinality(Creating) <= Cardinality(Fresh)
  BY DEF TreeInv, CountInv
<1>4. Cardinality(Creating') <= Cardinality(Fresh)
  BY <1>1, <1>2, <1>3, Finite
<1> QED BY <1>4 DEF CountInv, Creating

\* A step that leaves the files alone.
LEMMA NodeKept ==
    ASSUME TreeInv, UNCHANGED <<scene, node>>
    PROVE  Grows /\ NodesInv' /\ Fresh' = Fresh
<1>1. scene' = scene /\ node' = node /\ NodesInv
  BY DEF TreeInv
<1>2. Grows /\ Fresh' = Fresh
  BY <1>1 DEF Grows, Fresh, Exists
<1>3. NodesInv'
  BY <1>1 DEF NodesInv, IsMix, Exists
<1> QED BY <1>2, <1>3

\* A step that leaves the directories alone.
LEMMA TreeKept ==
    ASSUME TreeInv, Grows, tree' = tree,
           \A n \in Nodes : Exists(n) => node'[n].name = node[n].name
    PROVE  NamesAgree'
<1> SUFFICES ASSUME NEW d \in Nodes, NEW nm \in Names, tree[d][nm] # None
             PROVE  (/\ IsDir(d) /\ node[tree[d][nm]].name = nm /\ node[tree[d][nm]].home = d)'
  BY DEF NamesAgree
<1>1. PICK n \in Nodes : n = tree[d][nm]
  BY DEF TreeInv, TypeInv
<1>2. IsDir(d) /\ node[n].name = nm /\ node[n].home = d
  BY <1>1 DEF TreeInv, NamesAgree
<1>3. Exists(n) /\ Exists(d)
  BY <1>2, Constants DEF TreeInv, NodesInv, Exists
<1> QED BY <1>1, <1>2, <1>3 DEF Grows, IsDir

\* A step that changes one file, and not its name.
LEMMA OneNode ==
    ASSUME TreeInv, UNCHANGED <<scene, tree>>, NEW n \in Nodes, Exists(n),
           \A m \in Nodes \ {n} : node'[m] = node[m],
           node'[n].name = node[n].name, node'[n].kind = node[n].kind,
           node'[n].home = node[n].home
    PROVE  Grows /\ NodesInv' /\ NamesAgree' /\ Fresh' = Fresh
<1>1. /\ \A m \in Nodes : /\ node'[m].name = node[m].name /\ node'[m].kind = node[m].kind
                          /\ node'[m].home = node[m].home
      /\ scene' = scene /\ NodesInv
  BY DEF TreeInv
<1>2. Grows
  BY <1>1 DEF Grows, Exists
<1>3. NodesInv'
  BY <1>1, Constants DEF NodesInv, IsMix, Exists
<1>4. NamesAgree'
  BY <1>1, <1>2, TreeKept
<1>5. Fresh' = Fresh
  <2>1. Absent.name = None
    BY DEF Absent, NewFile
  <2>2. n \notin Fresh /\ n \notin Fresh'
    BY <1>1, <2>1 DEF Fresh, Exists
  <2> QED BY <1>1, <2>2 DEF Fresh
<1> QED BY <1>2, <1>3, <1>4, <1>5

\* The paths of a thread whose step leaves them alone.
LEMMA PathsKept ==
    ASSUME TreeInv, Grows, NEW t \in Threads
    PROVE  /\ loc'[t] \in {loc[t], <<>>} => Chain(loc[t])'
           /\ path'[t] \in {path[t], <<>>} => Chain(path[t])'
<1>1. PICK p \in Seq(Nodes), q \in Seq(Nodes) : p = loc[t] /\ q = path[t]
  BY DEF TreeInv, TypeInv
<1>2. Chain(p) /\ Chain(q)
  BY <1>1 DEF TreeInv, Local
<1>3. Chain(p)' /\ Chain(q)'
  BY <1>1, <1>2, ChainKept DEF TreeInv
<1>4. loc'[t] \in {p, <<>>} => Chain(loc[t])'
  BY <1>3 DEF Chain
<1>5. path'[t] \in {q, <<>>} => Chain(path[t])'
  BY <1>3 DEF Chain
<1> QED BY <1>1, <1>4, <1>5

\* What holds of a thread that is idle.
LEMMA IdleLocal ==
    ASSUME NEW t \in Threads, pc'[t] \in {"idle", "dead"}, Chain(loc[t])', Chain(path[t])'
    PROVE  Local(t)'
BY DEF Local, Stage, AtPart, Todo, Target, Working

\* A step keeps the invariant when it does so for its thread and leaves the others alone.
LEMMA StepOf ==
    ASSUME TreeInv, NEW t \in Threads, Grows, TypeInv', NodesInv', NamesAgree', CountInv',
           Local(t)', \A u \in Threads \ {t} : SameLocal(u)
    PROVE  Moves(t)
<1>1. \A u \in Threads \ {t} : Local(u)'
  BY OthersKept
<1> QED BY <1>1 DEF TreeInv, Moves

\* The same for a step that leaves files and directories alone.
LEMMA QuietStep ==
    ASSUME TreeInv, NEW t \in Threads, UNCHANGED <<scene, node, tree>>, TypeInv',
           \A u \in Threads \ {t} : SameLocal(u), pc'[t] # "create", Local(t)'
    PROVE  Moves(t)
<1>1. Grows /\ NodesInv' /\ Fresh' = Fresh
  BY NodeKept
<1>2. NamesAgree'
  BY <1>1, TreeKept
<1>3. Creating' \subseteq Creating
  BY DEF Creating, SameLocal
<1>4. CountInv'
  BY <1>1, <1>3, CountKept
<1> QED BY <1>1, <1>2, <1>4, StepOf

-----------------------------------------------------------------------------
(***************************************************************************)
(* TreeInv holds at the start and every step keeps it.                     *)
(***************************************************************************)
\* The initial states satisfy the invariant.
LEMMA InitTree == Init => TreeInv
<1> SUFFICES ASSUME Init PROVE TreeInv
  OBVIOUS
<1>1. Wellformed(scene) /\ scene \in Scenes
  BY DEF Init
<1>2. /\ node = [n \in Nodes |-> IF n \in DOMAIN scene.node THEN scene.node[n] ELSE Absent]
      /\ tree = [d \in Nodes |-> [nm \in Names |->
                   IF \E n \in DOMAIN scene.node : node[n].home = d /\ node[n].name = nm
                   THEN CHOOSE n \in DOMAIN scene.node : node[n].home = d /\ node[n].name = nm
                   ELSE None]]
      /\ DOMAIN scene.node \subseteq Nodes /\ Root \in DOMAIN scene.node
      /\ \A n \in DOMAIN scene.node : node[n] = scene.node[n]
      /\ \A n \in Nodes \ DOMAIN scene.node : node[n] = Absent
  BY <1>1 DEF Init, Wellformed
<1>3. Absent.name = None /\ Absent.home = None /\ Absent.kind = "file"
  BY DEF Absent, NewFile
<1>4. NodesInv
  <2>1. Exists(Root) /\ node[Root].home = None
    BY <1>1, <1>2 DEF Wellformed, Exists
  <2>2. ASSUME NEW n \in DOMAIN scene.node
        PROVE  /\ node[n].kind \in {"file", "dir", "mix"}
               /\ IsMix(n) => /\ n = Root
                              /\ \A p \in {scene.mix[n].top, scene.mix[n].bottom} :
                                   p \in Nodes /\ Exists(p) /\ node[p].kind = "dir"
               /\ node[n].home # None =>
                    /\ node[n].name \in Names
                    /\ node[n].home \in Nodes \ {n} /\ Exists(node[n].home)
                    /\ node[node[n].home].kind = "dir"
    <3>1. PICK x : x = scene.node[n]
      OBVIOUS
    <3>2. /\ x.kind \in {"file", "dir", "mix"}
          /\ x.kind = "mix" => /\ n = Root
                               /\ \A p \in {scene.mix[n].top, scene.mix[n].bottom} :
                                    p \in DOMAIN scene.node /\ scene.node[p].kind = "dir"
          /\ x.home # None =>
               /\ x.name \in Names /\ x.home # n
               /\ x.home \in DOMAIN scene.node /\ scene.node[x.home].kind = "dir"
      <4>1. x.kind \in {"file", "dir", "mix"}
        BY <1>1, <3>1 DEF Wellformed
      <4>2. x.kind = "mix" => /\ n = Root
                              /\ \A p \in {scene.mix[n].top, scene.mix[n].bottom} :
                                   p \in DOMAIN scene.node /\ scene.node[p].kind = "dir"
        BY <1>1, <3>1 DEF Wellformed
      <4>3. x.home # None =>
               /\ x.name \in Names /\ x.home # n
               /\ x.home \in DOMAIN scene.node /\ scene.node[x.home].kind = "dir"
        BY <1>1, <3>1 DEF Wellformed
      <4> QED BY <4>1, <4>2, <4>3
    <3>3. \A p \in DOMAIN scene.node : p \in Nodes /\ Exists(p)
      BY <1>1, <1>2 DEF Wellformed, Exists
    <3>4. node[n] = x
      BY <1>2, <3>1
    <3> QED BY <1>2, <3>2, <3>3, <3>4 DEF IsMix
  <2>3. ASSUME NEW n \in Nodes \ DOMAIN scene.node
        PROVE  node[n].kind = "file" /\ ~IsMix(n) /\ node[n].home = None
    BY <1>2, <1>3 DEF IsMix
  <2> QED BY <2>1, <2>2, <2>3 DEF NodesInv
<1>5. ASSUME NEW d \in Nodes, NEW nm \in Names
      PROVE  /\ tree[d][nm] \in Nodes \union {None}
             /\ tree[d][nm] # None =>
                  IsDir(d) /\ node[tree[d][nm]].name = nm /\ node[tree[d][nm]].home = d
  <2>1. CASE \E n \in DOMAIN scene.node : node[n].home = d /\ node[n].name = nm
    <3>1. PICK n \in DOMAIN scene.node : n = tree[d][nm] /\ node[n].home = d /\ node[n].name = nm
      BY <1>2, <2>1
    <3>2. n \in Nodes /\ node[n].home = d
      BY <1>2, <3>1
    <3>3. node[n].home # None
      BY <3>2, Constants
    <3>4. node[d].kind = "dir"
      BY <1>4, <3>2, <3>3 DEF NodesInv
    <3> QED BY <1>2, <3>1, <3>2, <3>4 DEF IsDir
  <2>2. CASE ~\E n \in DOMAIN scene.node : node[n].home = d /\ node[n].name = nm
    BY <1>2, <2>2
  <2> QED BY <2>1, <2>2
<1>6. NamesAgree
  BY <1>5 DEF NamesAgree
<1>7. TypeInv
  <2>1. tree \in [Nodes -> [Names -> Nodes \union {None}]]
    BY <1>2, <1>5
  <2>2. <<Root>> \in Seq(Nodes) /\ <<>> \in Seq(Nodes)
        /\ <<>> \in Seq(Names \union {".."} \union Fields)
    BY Constants
  <2>3. node = [n \in Nodes |-> node[n]] /\ \A n \in Nodes : IsNode(node[n])
    <3>1. IsNode(Absent)
      <4>1. Absent = [kind |-> "file", name |-> None, uid |-> None, perm |-> {}, len |-> 0,
                      opens |-> 0, home |-> None]
        BY DEF Absent, NewFile
      <4> QED BY <4>1 DEF IsNode, Attributes
    <3>2. \A n \in DOMAIN scene.node : IsNode(scene.node[n])
      BY <1>1 DEF Wellformed
    <3> QED BY <1>2, <3>1, <3>2
  <2>4. left \in Nat
    BY <1>1 DEF Init, Wellformed
  <2> QED BY <1>1, <2>1, <2>2, <2>3, <2>4 DEF TypeInv, Init, States
<1>8. CountInv
  <2>1. Creating = {}
    BY DEF Init, Creating
  <2> QED BY <2>1, Finite, FS_EmptySet DEF CountInv
<1>9. ASSUME NEW t \in Threads PROVE Local(t)
  <2>1. Chain(<<Root>>) /\ Chain(<<>>)
    BY DEF Chain
  <2> QED BY <2>1 DEF Init, Local, Stage, AtPart, Todo, Target, Working
<1> QED BY <1>4, <1>6, <1>7, <1>8, <1>9 DEF TreeInv

\* The call of an operation: its request is one that the scene has.
LEMMA KeepCall == ASSUME TreeInv, NEW t \in Threads, Call(t) PROVE Moves(t)
<1>1. PICK c \in scene.menu[t] :
        /\ pc[t] = "idle" /\ left > 0 /\ loc[t] # <<>>
        /\ c.op = "create" =>
             Cardinality(Fresh) > Cardinality({u \in Threads : pc[u] = "create"})
        /\ op' = [op EXCEPT ![t] = c] /\ pc' = [pc EXCEPT ![t] = c.op]
        /\ path' = [path EXCEPT ![t] = IF c.op = "walk" THEN loc[t] ELSE <<>>]
        /\ todo' = [todo EXCEPT ![t] = IF c.op = "walk" THEN c.names ELSE <<>>]
        /\ target' = [target EXCEPT ![t] = Own(Current(loc[t]))]
  BY DEF Call, Goto
<1>2. /\ left' = left - 1 /\ part' = [part EXCEPT ![t] = 1]
      /\ found' = [found EXCEPT ![t] = FALSE] /\ undo' = [undo EXCEPT ![t] = FALSE]
      /\ was' = [was EXCEPT ![t] = None] /\ name' = [name EXCEPT ![t] = None]
      /\ alone' = [u \in Threads |-> IF u = t THEN \A v \in Threads : pc[v] = "idle"
                                     ELSE alone[u] /\ pc[u] = "idle"]
      /\ renamed' = [renamed EXCEPT ![t] = FALSE] /\ removed' = removed
      /\ scene' = scene /\ node' = node /\ tree' = tree /\ loc' = loc /\ handle' = handle
  BY DEF Call
<1>3. Request(c) /\ scene \in Scenes
  BY DEF TreeInv, TypeInv
<1>4. PICK p \in Seq(Nodes), n \in Nodes :
        /\ p = loc[t] /\ p # <<>> /\ Chain(p) /\ n = Current(p) /\ Own(n) \in Nodes
        /\ Exists(Own(n))
  <2>1. loc[t] \in Seq(Nodes) /\ Chain(loc[t]) /\ NodesInv
    BY DEF TreeInv, TypeInv, Local
  <2>2. Current(loc[t]) \in Nodes /\ Exists(Current(loc[t]))
    BY <1>1, <2>1, OnPath, PathEnds
  <2> QED BY <1>1, <2>1, <2>2, PartsOf
<1>5. TypeInv'
  <2>1. /\ path' \in [Threads -> Seq(Nodes)] /\ target' \in [Threads -> Nodes \union {None}]
    BY <1>1, <1>4 DEF TreeInv, TypeInv
  <2>2. todo' \in [Threads -> Seq(Names \union {".."} \union Fields)]
    <3>1. c.op = "walk" => c.names \in Seq(Names \union {".."} \union Fields)
      BY <1>3 DEF Request
    <3> QED BY <1>1, <3>1 DEF TreeInv, TypeInv
  <2>3. pc' \in [Threads -> States]
    BY <1>1, <1>3 DEF TreeInv, TypeInv, States, Request
  <2>4. op' = [u \in Threads |-> op'[u]] /\ was' = [u \in Threads |-> was'[u]]
    BY <1>1, <1>2 DEF TreeInv, TypeInv
  <2>5. /\ alone' \in [Threads -> BOOLEAN] /\ undo' \in [Threads -> BOOLEAN]
        /\ found' \in [Threads -> BOOLEAN] /\ renamed' \in [Threads -> BOOLEAN]
        /\ removed' \subseteq Nodes
    BY <1>2 DEF TreeInv, TypeInv
  <2>6. left' \in Nat
    BY <1>1, <1>2 DEF TreeInv, TypeInv
  <2> QED BY <1>2, <2>1, <2>2, <2>3, <2>4, <2>5, <2>6 DEF TreeInv, TypeInv
<1>6. \A u \in Threads \ {t} : SameLocal(u)
  BY <1>1, <1>2 DEF TreeInv, TypeInv, SameLocal
<1>7. /\ pc'[t] = c.op /\ op'[t] = c /\ loc'[t] = p /\ part'[t] = 1 /\ target'[t] = Own(n)
      /\ path'[t] = IF c.op = "walk" THEN p ELSE <<>>
  BY <1>1, <1>2, <1>4 DEF TreeInv, TypeInv
<1>8. Grows /\ NodesInv' /\ Fresh' = Fresh
  BY <1>2, NodeKept
<1>9. Local(t)'
  <2>1. Chain(loc[t])' /\ Chain(path[t])'
    <3>1. Chain(p)'
      BY <1>4, <1>8, ChainKept DEF TreeInv
    <3> QED BY <1>7, <3>1 DEF Chain
  <2>2. c.op \in {"walk", "create", "open", "read", "write", "clunk", "remove", "wstat"}
    BY <1>3 DEF Request
  <2>3. Stage(t)'
    <3>1. c.op = "walk" => todo'[t] = c.names /\ c.names \in Seq(Names \union {".."})
      BY <1>1, <1>3 DEF TreeInv, TypeInv, Request
    <3> QED BY <1>1, <1>2, <1>4, <1>7, <2>2, <3>1 DEF Stage, Working
  <2>4. AtPart(t)' /\ Todo(t)'
    BY <1>7, <2>2 DEF AtPart, Todo
  <2>5. Target(t)'
    <3>1. Own(n)' = Own(n) /\ Exists(Own(n))' /\ Current(loc[t])' = n
      BY <1>2, <1>4, <1>7 DEF Own, Parts, IsMix, Exists, Current
    <3> QED BY <1>4, <1>7, <2>2, <3>1 DEF Target, Own, Parts, IsMix
  <2> QED BY <2>1, <2>3, <2>4, <2>5 DEF Local
<1>10. NamesAgree'
  BY <1>2, <1>8, TreeKept
<1>11. CountInv'
  <2>1. CASE c.op = "create"
    <3>1. Creating' = Creating \union {t} /\ t \notin Creating
      BY <1>1, <1>6, <1>7, <2>1 DEF Creating, SameLocal
    <3>2. Cardinality(Creating') = Cardinality(Creating) + 1
      BY <3>1, Finite, FS_AddElement
    <3>3. Cardinality(Fresh) > Cardinality(Creating)
      BY <1>1, <2>1 DEF Creating
    <3>4. Cardinality(Creating') <= Cardinality(Fresh)
      BY <3>2, <3>3, Finite
    <3> QED BY <1>8, <3>4 DEF CountInv
  <2>2. CASE c.op # "create"
    <3>1. Creating' \subseteq Creating
      BY <1>6, <1>7, <2>2 DEF Creating, SameLocal
    <3> QED BY <1>8, <3>1, CountKept
  <2> QED BY <2>1, <2>2
<1> QED BY <1>5, <1>6, <1>8, <1>9, <1>10, <1>11, StepOf

\* attach.
LEMMA KeepAttach == ASSUME TreeInv, NEW t \in Threads, Attach(t) PROVE Moves(t)
<1>1. /\ pc[t] = "idle" /\ loc' = [loc EXCEPT ![t] = <<Root>>]
      /\ UNCHANGED <<scene, left, node, tree, handle, pc, op, part, found, path, undo, was, name,
                     todo, target, alone, renamed, removed>>
  BY DEF Attach, local
<1>2. <<Root>> \in Seq(Nodes)
  BY Constants
<1>3. TypeInv'
  BY <1>1, <1>2 DEF TreeInv, TypeInv
<1>4. \A u \in Threads \ {t} : SameLocal(u)
  BY <1>1 DEF TreeInv, TypeInv, SameLocal
<1>5. Local(t)'
  <2>1. loc'[t] = <<Root>> /\ pc'[t] = "idle" /\ path'[t] = path[t]
    BY <1>1 DEF TreeInv, TypeInv
  <2>2. Chain(loc[t])'
    BY <2>1 DEF Chain
  <2>3. Chain(path[t])'
    BY <1>1, <2>1, NodeKept, PathsKept
  <2> QED BY <2>1, <2>2, <2>3, IdleLocal
<1> QED BY <1>1, <1>3, <1>4, <1>5, QuietStep

-----------------------------------------------------------------------------

\* The end of a request, or of a connection.
LEMMA EndStep ==
    ASSUME TreeInv, NEW t \in Threads, NEW l \in {"idle", "dead"}, End(t, l),
           Grows, NodesInv', NamesAgree', Fresh' = Fresh,
           scene' = scene, left' = left, path' = path, found' = found, undo' = undo, was' = was,
           alone' = alone, part' = part, name' = name,
           renamed' \in [Threads -> BOOLEAN], removed' \subseteq Nodes,
           node' = [n \in Nodes |-> node'[n]], \A n \in Nodes : IsNode(node'[n]),
           tree' \in [Nodes -> [Names -> Nodes \union {None}]],
           handle' \in [Threads -> Modes \union {None}],
           loc' \in [Threads -> Seq(Nodes)], Chain(loc[t])',
           \A u \in Threads \ {t} : loc'[u] = loc[u]
    PROVE  Moves(t)
<1>1. /\ pc' = [pc EXCEPT ![t] = l] /\ op' = [op EXCEPT ![t] = None]
      /\ todo' = [todo EXCEPT ![t] = <<>>] /\ target' = [target EXCEPT ![t] = None]
  BY DEF End, Goto
<1>2. TypeInv'
  <2>1. pc' \in [Threads -> States] /\ op' = [u \in Threads |-> op'[u]]
    BY <1>1 DEF TreeInv, TypeInv, States
  <2>2. todo' \in [Threads -> Seq(Names \union {".."} \union Fields)]
    <3>1. <<>> \in Seq(Names \union {".."} \union Fields)
      OBVIOUS
    <3> QED BY <1>1, <3>1 DEF TreeInv, TypeInv
  <2>3. target' \in [Threads -> Nodes \union {None}]
    BY <1>1 DEF TreeInv, TypeInv
  <2> QED BY <2>1, <2>2, <2>3 DEF TreeInv, TypeInv
<1>3. \A u \in Threads \ {t} : SameLocal(u)
  BY <1>1 DEF TreeInv, TypeInv, SameLocal
<1>4. pc'[t] = l
  BY <1>1 DEF TreeInv, TypeInv
<1>5. Local(t)'
  <2>1. Chain(path[t])'
    BY PathsKept
  <2> QED BY <1>4, <2>1, IdleLocal
<1>6. Creating' \subseteq Creating
  BY <1>3, <1>4 DEF Creating, SameLocal
<1>7. CountInv'
  BY <1>6, CountKept
<1> QED BY <1>2, <1>3, <1>5, <1>7, StepOf

\* The same for a step that leaves files and directories alone.
LEMMA EndQuiet ==
    ASSUME TreeInv, NEW t \in Threads, NEW l \in {"idle", "dead"}, End(t, l),
           scene' = scene, node' = node, tree' = tree,
           left' = left, path' = path, found' = found, undo' = undo, was' = was,
           alone' = alone, part' = part, name' = name,
           renamed' = renamed, removed' = removed,
           handle' \in [Threads -> Modes \union {None}],
           loc' \in [Threads -> Seq(Nodes)], loc'[t] \in {loc[t], path[t], <<>>},
           \A u \in Threads \ {t} : loc'[u] = loc[u]
    PROVE  Moves(t)
<1>1. Grows /\ NodesInv' /\ Fresh' = Fresh
  BY NodeKept
<1>2. NamesAgree'
  BY <1>1, TreeKept
<1>3. Chain(loc[t])'
  <2>1. PICK q \in Seq(Nodes) : q = path[t] /\ Chain(q)
    BY DEF TreeInv, TypeInv, Local
  <2>2. Chain(q)'
    BY <1>1, <2>1, ChainKept DEF TreeInv
  <2>3. loc'[t] = q => Chain(loc[t])'
    BY <2>2 DEF Chain
  <2> QED BY <1>1, <2>1, <2>3, PathsKept
<1>4. /\ renamed' \in [Threads -> BOOLEAN] /\ removed' \subseteq Nodes
      /\ node' = [n \in Nodes |-> node'[n]]
      /\ tree' \in [Nodes -> [Names -> Nodes \union {None}]]
      /\ \A n \in Nodes : IsNode(node'[n])
  BY DEF TreeInv, TypeInv
<1> QED BY <1>1, <1>2, <1>3, <1>4, EndStep

\* The end of a request.
LEMMA ReturnStep ==
    ASSUME TreeInv, NEW t \in Threads, Return(t), Grows, NodesInv', NamesAgree', Fresh' = Fresh,
           scene' = scene, left' = left, path' = path, found' = found, undo' = undo, was' = was,
           alone' = alone, part' = part, name' = name,
           renamed' \in [Threads -> BOOLEAN], removed' \subseteq Nodes,
           node' = [n \in Nodes |-> node'[n]], \A n \in Nodes : IsNode(node'[n]),
           tree' \in [Nodes -> [Names -> Nodes \union {None}]],
           handle' \in [Threads -> Modes \union {None}],
           loc' \in [Threads -> Seq(Nodes)], Chain(loc[t])',
           \A u \in Threads \ {t} : loc'[u] = loc[u]
    PROVE  Moves(t)
<1>1. End(t, "idle")
  BY DEF Return, End
<1> QED BY <1>1, EndStep

\* The end of a request that leaves files and directories alone.
LEMMA ReturnQuiet ==
    ASSUME TreeInv, NEW t \in Threads, Return(t),
           scene' = scene, node' = node, tree' = tree,
           left' = left, path' = path, found' = found, undo' = undo, was' = was,
           alone' = alone, part' = part, name' = name,
           renamed' = renamed, removed' = removed,
           handle' \in [Threads -> Modes \union {None}],
           loc' \in [Threads -> Seq(Nodes)], loc'[t] \in {loc[t], path[t], <<>>},
           \A u \in Threads \ {t} : loc'[u] = loc[u]
    PROVE  Moves(t)
<1>1. End(t, "idle")
  BY DEF Return, End
<1> QED BY <1>1, EndQuiet

\* Where a thread is that is at work.
LEMMA Here ==
    ASSUME TreeInv, NEW t \in Threads, Working(t)
    PROVE  /\ loc[t] \in Seq(Nodes) /\ loc[t] # <<>> /\ Chain(loc[t])
           /\ Current(loc[t]) \in Nodes /\ Exists(Current(loc[t]))
           /\ Parent(loc[t]) \in Nodes /\ Exists(Parent(loc[t]))
           /\ target[t] \in Nodes /\ Exists(target[t])
           /\ op[t] \in scene.menu[t] /\ Request(op[t])
<1>1. loc[t] \in Seq(Nodes) /\ NodesInv /\ Local(t) /\ scene \in Scenes
  BY DEF TreeInv, TypeInv
<1>2. loc[t] # <<>> /\ Chain(loc[t]) /\ op[t] \in scene.menu[t]
  BY <1>1 DEF Local, Stage
<1>3. Request(op[t])
  BY <1>1, <1>2
<1>4. target[t] \in Nodes /\ Exists(target[t])
  BY <1>1 DEF Local, Target
<1> QED BY <1>1, <1>2, <1>3, <1>4, OnPath, PathEnds

\* The directory a thread searches.
LEMMA AtDir ==
    ASSUME TreeInv, NEW t \in Threads, NEW d \in Nodes, IsMix(d) \/ part[t] = 1
    PROVE  Part(t, d) \in Range(Parts(d)) /\ Part(t, d) \in Nodes /\ ~IsMix(Part(t, d))
<1>1. part[t] \in {1, 2} /\ NodesInv
  BY DEF TreeInv, TypeInv
<1>2. CASE IsMix(d)
  <2>1. PICK a \in Nodes, b \in Nodes : Parts(d) = <<a, b>> /\ Range(Parts(d)) = {a, b}
                                        /\ ~IsMix(a) /\ ~IsMix(b)
    BY <1>1, <1>2, PartsOf DEF NodesInv, IsMix
  <2>2. Part(t, d) = a \/ Part(t, d) = b
    BY <1>1, <2>1 DEF Part
  <2> QED BY <2>1, <2>2
<1>3. CASE ~IsMix(d)
  <2>1. Parts(d) = <<d>> /\ Range(Parts(d)) = {d} /\ part[t] = 1
    BY <1>1, <1>3, PartsOf
  <2>2. Part(t, d) = d
    BY <2>1 DEF Part
  <2> QED BY <1>3, <2>1, <2>2
<1> QED BY <1>2, <1>3

\* A step of walkTo.
LEMMA KeepWalk == ASSUME TreeInv, NEW t \in Threads, Walk(t) PROVE Moves(t)
<1> DEFINE here == Current(path[t])
           d    == Part(t, here)
           nm   == Head(todo[t])
<1>1. /\ pc[t] = "walk"
      /\ scene' = scene /\ left' = left /\ node' = node /\ tree' = tree /\ handle' = handle
      /\ found' = found /\ undo' = undo /\ was' = was /\ name' = name /\ alone' = alone
      /\ renamed' = renamed /\ removed' = removed
  BY DEF Walk
<1>2. /\ path[t] \in Seq(Nodes) /\ path[t] # <<>> /\ Chain(path[t]) /\ Working(t)
      /\ here \in Nodes /\ Exists(here) /\ (~IsMix(here) => part[t] = 1) /\ NodesInv
      /\ Stage(t) /\ AtPart(t) /\ Target(t)
  <2>1. path[t] \in Seq(Nodes) /\ path[t] # <<>> /\ Chain(path[t]) /\ NodesInv
    BY <1>1 DEF TreeInv, TypeInv, Local, Stage
  <2> QED BY <1>1, <2>1, OnPath, PathEnds DEF TreeInv, Local, AtPart, Working
<1>3. ASSUME NEW p \in Seq(Nodes), NEW k \in {1, 2}, NEW s \in Seq(Names \union {".."}),
             path' = [path EXCEPT ![t] = p], part' = [part EXCEPT ![t] = k],
             todo' = [todo EXCEPT ![t] = s],
             loc' = loc, pc' = pc, op' = op, target' = target,
             p # <<>>, Chain(p), ~IsMix(Current(p)) => k = 1
      PROVE  Moves(t)
  <2> s \in Seq(Names \union {".."} \union Fields)
    OBVIOUS
  <2>1. TypeInv'
    BY <1>1, <1>3 DEF TreeInv, TypeInv
  <2>2. \A u \in Threads \ {t} : SameLocal(u)
    BY <1>1, <1>3 DEF TreeInv, TypeInv, SameLocal
  <2>3. path'[t] = p /\ part'[t] = k /\ todo'[t] = s
    BY <1>3 DEF TreeInv, TypeInv
  <2>4. Grows
    BY <1>1, NodeKept
  <2>5. Chain(loc[t])' /\ Chain(path[t])'
    <3>1. Chain(p)'
      BY <1>2, <1>3, <2>4, ChainKept
    <3>2. Chain(path[t])'
      BY <2>3, <3>1 DEF Chain
    <3> QED BY <1>3, <2>4, <3>2, PathsKept
  <2>6. Stage(t)'
    BY <1>1, <1>2, <1>3, <2>3 DEF Stage, Working
  <2>7. AtPart(t)'
    BY <1>1, <1>3, <2>3 DEF AtPart, IsMix, Current
  <2>8. Todo(t)'
    BY <1>1, <1>3 DEF Todo
  <2>9. Target(t)'
    BY <1>1, <1>2, <1>3 DEF Target, Working, Own, Parts, IsMix, Exists, Current
  <2>10. Local(t)'
    BY <2>5, <2>6, <2>7, <2>8, <2>9 DEF Local
  <2> QED BY <1>1, <1>3, <2>1, <2>2, <2>10, QuietStep
<1>4. ASSUME Return(t), path' = path, part' = part, loc' = loc PROVE Moves(t)
  BY <1>1, <1>4, ReturnQuiet DEF TreeInv, TypeInv
<1>5. todo[t] \in Seq(Names \union {".."}) /\ part[t] \in {1, 2}
  BY <1>1, <1>2 DEF TreeInv, TypeInv, Stage
<1>6. todo[t] # <<>> => /\ Tail(todo[t]) \in Seq(Names \union {".."})
                        /\ nm # ".." => nm \in Names
  BY <1>5
<1>7. CASE todo[t] = <<>> /\ loc' = [loc EXCEPT ![t] = path[t]] /\ Return(t)
           /\ UNCHANGED <<path, part>>
  <2>1. loc' \in [Threads -> Seq(Nodes)] /\ loc'[t] = path[t]
        /\ \A u \in Threads \ {t} : loc'[u] = loc[u]
    BY <1>2, <1>7 DEF TreeInv, TypeInv
  <2> QED BY <1>1, <1>7, <2>1, ReturnQuiet DEF TreeInv, TypeInv
<1>8. CASE /\ todo[t] # <<>> /\ nm = ".."
           /\ path' = [path EXCEPT ![t] = Up(path[t])] /\ todo' = [todo EXCEPT ![t] = Tail(@)]
           /\ part' = [part EXCEPT ![t] = 1] /\ UNCHANGED <<loc, pc, op, target>>
  <2>1. Up(path[t]) \in Seq(Nodes) /\ Up(path[t]) # <<>> /\ Chain(Up(path[t]))
    BY <1>2, UpChain
  <2>2. todo' = [todo EXCEPT ![t] = Tail(todo[t])]
    BY <1>8
  <2> QED BY <1>3, <1>6, <1>8, <2>1, <2>2
<1>9. CASE /\ todo[t] # <<>> /\ nm # ".." /\ IsDir(here) /\ tree[d][nm] # None
           /\ path' = [path EXCEPT ![t] = Append(path[t], tree[d][nm])]
           /\ todo' = [todo EXCEPT ![t] = Tail(@)]
           /\ part' = [part EXCEPT ![t] = 1] /\ UNCHANGED <<loc, pc, op, target>>
  <2>1. d \in Range(Parts(here)) /\ d \in Nodes /\ nm \in Names
    BY <1>2, <1>6, <1>9, AtDir
  <2>2. tree[d][nm] \in Nodes /\ node[tree[d][nm]].home = d
    BY <1>9, <2>1 DEF TreeInv, TypeInv, NamesAgree
  <2>3. PICK n, p : n \in Nodes /\ n = tree[d][nm] /\ p = Append(path[t], n)
    BY <2>2
  <2>4. p \in Seq(Nodes) /\ p # <<>> /\ Chain(p)
    BY <1>2, <2>1, <2>2, <2>3, DownChain
  <2>5. todo' = [todo EXCEPT ![t] = Tail(todo[t])] /\ path' = [path EXCEPT ![t] = p]
    BY <1>9, <2>3
  <2> QED BY <1>3, <1>6, <1>9, <2>4, <2>5
<1>10. CASE /\ todo[t] # <<>> /\ part[t] # Len(Parts(here))
            /\ part' = [part EXCEPT ![t] = @ + 1]
            /\ UNCHANGED <<path, todo, loc, pc, op, target>>
  <2>1. IsMix(here) /\ part[t] + 1 \in {1, 2}
    <3>1. IsMix(here) => Len(Parts(here)) = 2
      BY <1>2, PartsOf
    <3>2. ~IsMix(here) => Len(Parts(here)) = 1
      BY <1>2, PartsOf
    <3>3. IsMix(here) /\ part[t] = 1
      BY <1>2, <1>5, <1>10, <3>1, <3>2
    <3> QED BY <3>3
  <2>2. /\ path' = [path EXCEPT ![t] = path[t]] /\ todo' = [todo EXCEPT ![t] = todo[t]]
        /\ part' = [part EXCEPT ![t] = part[t] + 1]
    BY <1>10 DEF TreeInv, TypeInv
  <2> QED BY <1>2, <1>3, <1>5, <1>10, <2>1, <2>2
<1>11. \/ todo[t] = <<>> /\ loc' = [loc EXCEPT ![t] = path[t]] /\ Return(t)
          /\ UNCHANGED <<path, part>>
       \/ /\ todo[t] # <<>> /\ nm = ".."
          /\ path' = [path EXCEPT ![t] = Up(path[t])] /\ todo' = [todo EXCEPT ![t] = Tail(@)]
          /\ part' = [part EXCEPT ![t] = 1] /\ UNCHANGED <<loc, pc, op, target>>
       \/ Return(t) /\ UNCHANGED <<path, loc, part>>
       \/ /\ todo[t] # <<>> /\ nm # ".." /\ IsDir(here) /\ tree[d][nm] # None
          /\ path' = [path EXCEPT ![t] = Append(path[t], tree[d][nm])]
          /\ todo' = [todo EXCEPT ![t] = Tail(@)]
          /\ part' = [part EXCEPT ![t] = 1] /\ UNCHANGED <<loc, pc, op, target>>
       \/ /\ todo[t] # <<>> /\ part[t] # Len(Parts(here))
          /\ part' = [part EXCEPT ![t] = @ + 1]
          /\ UNCHANGED <<path, todo, loc, pc, op, target>>
  BY DEF Walk
<1> QED BY <1>4, <1>7, <1>8, <1>9, <1>10, <1>11

\* The history of renames keeps its type.
LEMMA FlagsKept == TreeInv => \A n : Outdate(n) => renamed' \in [Threads -> BOOLEAN]
BY DEF TreeInv, TypeInv, Outdate

\* The directory a file is created in is no MixDir.
LEMMA CreateDirOf ==
    ASSUME NodesInv, NEW n \in Nodes
    PROVE  CreateDir(n) \in Range(Parts(n)) /\ CreateDir(n) \in Nodes /\ ~IsMix(CreateDir(n))
BY PartsOf DEF CreateDir, NodesInv, IsMix

\* Create: the new file takes a free node and a free name.
LEMMA KeepCreate == ASSUME TreeInv, NEW t \in Threads, Create(t) PROVE Moves(t)
<1> DEFINE d == CreateDir(Current(loc[t]))
           c == op[t]
<1>1. /\ pc[t] = "create"
      /\ scene' = scene /\ left' = left /\ loc' = loc /\ handle' = handle /\ part' = part
      /\ found' = found /\ path' = path /\ undo' = undo /\ was' = was /\ name' = name
      /\ alone' = alone /\ renamed' = renamed /\ removed' = removed
  BY DEF Create, local
<1>2. /\ Working(t) /\ NodesInv /\ Stage(t) /\ AtPart(t)
      /\ Current(loc[t]) \in Nodes /\ loc[t] # <<>>
      /\ d \in Range(Parts(Current(loc[t]))) /\ d \in Nodes /\ ~IsMix(d)
      /\ c.op = "create" /\ c.name \in Names
  <2>1. Working(t) /\ NodesInv /\ Stage(t) /\ AtPart(t)
    BY <1>1 DEF TreeInv, Local, Working
  <2>2. c.op = "create"
    BY <1>1, <2>1 DEF Stage
  <2>3. c.name \in Names
    BY <2>1, <2>2, Here DEF Request
  <2> QED BY <2>1, <2>2, <2>3, Here, CreateDirOf
<1>3. CASE Return(t) /\ UNCHANGED <<node, tree>>
  <2>1. handle' \in [Threads -> Modes \union {None}] /\ loc' \in [Threads -> Seq(Nodes)]
    BY <1>1, <1>3 DEF TreeInv, TypeInv
  <2> QED BY <1>1, <1>3, <2>1, ReturnQuiet
<1>4. ASSUME IsDir(d),
             NEW n, n = CHOOSE m \in Fresh : TRUE,
             NEW new, new = IF c.dir THEN NewDir(c.name, CreatePerm(d, c), node[d].uid, d)
                                     ELSE NewFile(c.name, CreatePerm(d, c), node[d].uid, d),
             ~Taken(d, c.name),
             node' = [node EXCEPT ![n] = new], tree' = [tree EXCEPT ![d][c.name] = n],
             target' = [target EXCEPT ![t] = n],
             pc' = [pc EXCEPT ![t] = "open"], UNCHANGED <<op, todo>>
      PROVE  Moves(t)
  <2>1. n \in Nodes /\ n \in Fresh /\ ~Exists(n) /\ n # d /\ n # Root
    <3>1. Creating # {}
      BY <1>1 DEF Creating
    <3>2. Fresh # {}
      <4>1. Cardinality(Creating) # 0
        BY <3>1, Finite, FS_EmptySet
      <4>2. Cardinality(Fresh) # 0
        BY <4>1, Finite DEF TreeInv, CountInv
      <4> QED BY <4>2, FS_EmptySet
    <3>3. n \in Fresh
      BY <1>4, <3>2
    <3>4. ~Exists(n)
      BY <3>3 DEF Fresh, Exists, Absent, NewFile
    <3>5. Exists(d)
      BY <1>1, <1>2, Here, PartsOf DEF NodesInv, CreateDir
    <3> QED BY <1>2, <3>3, <3>4, <3>5 DEF Fresh, NodesInv
  <2>2. new.name = c.name /\ new.home = d /\ new.kind \in {"file", "dir"}
    BY <1>4 DEF NewDir, NewFile
  <2>3. node'[n] = new /\ \A m \in Nodes \ {n} : node'[m] = node[m]
    BY <1>4, <2>1 DEF TreeInv, TypeInv
  <2>4. /\ tree'[d][c.name] = n
        /\ \A e \in Nodes, nm \in Names : e # d \/ nm # c.name => tree'[e][nm] = tree[e][nm]
    BY <1>2, <1>4 DEF TreeInv, TypeInv
  <2>5. node[d].kind = "dir" /\ Exists(d)
    BY <1>1, <1>2, <1>4, Here, PartsOf DEF IsDir, IsMix, CreateDir, NodesInv
  <2>6. Grows
    BY <1>1, <2>1, <2>3 DEF Grows, Exists
  <2>7. NodesInv'
    <3>1. (Exists(Root) /\ node[Root].home = None)'
      BY <1>2, <2>1, <2>3, Constants DEF NodesInv, Exists
    <3>2. ASSUME NEW m \in Nodes
          PROVE  /\ node'[m].kind \in {"file", "dir", "mix"}
                 /\ IsMix(m)' => /\ m = Root
                                 /\ \A p \in {scene.mix[m].top, scene.mix[m].bottom} :
                                      p \in Nodes /\ Exists(p)' /\ node'[p].kind = "dir"
                 /\ node'[m].home # None =>
                      /\ node'[m].name \in Names
                      /\ node'[m].home \in Nodes \ {m}
                      /\ node'[node'[m].home].name # None
                      /\ node'[node'[m].home].kind = "dir"
      <4>1. CASE m = n
        BY <1>2, <2>1, <2>2, <2>3, <2>5, <4>1 DEF IsMix, Exists
      <4>2. CASE m # n
        <5>1. node'[m] = node[m]
          BY <2>3, <4>2
        <5>2. IsMix(m) => /\ m = Root
                          /\ \A p \in {scene.mix[m].top, scene.mix[m].bottom} :
                               p \in Nodes /\ Exists(p)' /\ node'[p].kind = "dir"
          BY <1>2, <2>6 DEF NodesInv, Grows
        <5>3. node[m].home # None =>
                      /\ node[m].name \in Names
                      /\ node[m].home \in Nodes \ {m} /\ node'[node[m].home].name # None
                      /\ node'[node[m].home].kind = "dir"
          BY <1>2, <2>6 DEF NodesInv, Grows, Exists
        <5>4. node[m].kind \in {"file", "dir", "mix"}
          BY <1>2 DEF NodesInv
        <5>5. IsMix(m)' <=> IsMix(m)
          BY <5>1 DEF IsMix
        <5> QED BY <5>1, <5>2, <5>3, <5>4, <5>5
      <4> QED BY <4>1, <4>2
    <3> QED BY <1>1, <3>1, <3>2 DEF NodesInv, Exists
  <2>8. NamesAgree'
    <3> SUFFICES ASSUME NEW e \in Nodes, NEW nm \in Names, tree'[e][nm] # None
                 PROVE  (/\ IsDir(e) /\ node[tree[e][nm]].name = nm
                         /\ node[tree[e][nm]].home = e)'
      BY DEF NamesAgree
    <3>1. CASE e = d /\ nm = c.name
      BY <2>1, <2>2, <2>3, <2>4, <2>5, <3>1 DEF IsDir
    <3>2. CASE ~(e = d /\ nm = c.name)
      <4>1. PICK m \in Nodes : /\ m = tree[e][nm] /\ m = tree'[e][nm]
                               /\ IsDir(e) /\ node[m].name = nm /\ node[m].home = e
        BY <2>4, <3>2 DEF TreeInv, TypeInv, NamesAgree
      <4>2. Exists(m) /\ Exists(e) /\ m # n
        BY <1>2, <2>1, <4>1, Constants DEF NodesInv, Exists
      <4>3. node'[m] = node[m] /\ IsDir(e)'
        BY <2>3, <2>6, <4>1, <4>2 DEF Grows, IsDir
      <4> QED BY <4>1, <4>3
    <3> QED BY <3>1, <3>2
  <2>9. \A u \in Threads \ {t} : SameLocal(u)
    BY <1>1, <1>4 DEF TreeInv, TypeInv, SameLocal
  <2>10. pc'[t] = "open" /\ target'[t] = n
    BY <1>4 DEF TreeInv, TypeInv
  <2>11. CountInv'
    <3>1. Creating' = Creating \ {t} /\ t \in Creating
      BY <1>1, <2>9, <2>10 DEF Creating, SameLocal
    <3>2. Fresh' = Fresh \ {n}
      <4>1. node'[n] # Absent
        BY <1>2, <2>2, <2>3, Constants DEF Absent, NewFile
      <4> QED BY <1>1, <2>3, <4>1 DEF Fresh, Absent, NewFile
    <3>3. /\ Cardinality(Creating') = Cardinality(Creating) - 1
          /\ Cardinality(Fresh') = Cardinality(Fresh) - 1
      BY <2>1, <3>1, <3>2, Finite, FS_RemoveElement
    <3> QED BY <3>3, Finite DEF TreeInv, CountInv
  <2>12. Local(t)'
    <3>1. Chain(loc[t])' /\ Chain(path[t])'
      BY <1>1, <2>6, PathsKept
    <3>2. Stage(t)' /\ Todo(t)'
      BY <1>1, <1>2, <1>4, <2>10 DEF Stage, Todo, Working
    <3>3. AtPart(t)'
      <4>1. IsMix(Parent(loc[t]))' <=> IsMix(Parent(loc[t]))
        BY <1>1, <1>2, <2>6, Here DEF IsMix, Grows
      <4> QED BY <1>1, <1>2, <2>10, <4>1 DEF AtPart, Working
    <3>4. Target(t)'
      <4>1. Exists(n)' /\ node'[n].home = d
        BY <1>2, <2>2, <2>3, Constants DEF Exists
      <4>2. Parts(Current(loc[t]))' = Parts(Current(loc[t]))
        BY <1>1, <1>2, <2>6, Here DEF Parts, IsMix, Grows
      <4> QED BY <1>2, <1>4, <2>1, <2>10, <4>1, <4>2 DEF Target, Working
    <3> QED BY <3>1, <3>2, <3>3, <3>4 DEF Local
  <2>13. TypeInv'
    <3>1. node' = [m \in Nodes |-> node'[m]] /\ \A m \in Nodes : IsNode(node'[m])
      <4>1. IsNode(new)
        <5>1. CASE c.dir
          <6>1. new = [kind |-> "dir", name |-> c.name, uid |-> node[d].uid,
                       perm |-> CreatePerm(d, c), len |-> 0, opens |-> 0, home |-> d]
            BY <1>4, <5>1 DEF NewDir, NewFile
          <6> QED BY <6>1 DEF IsNode, Attributes
        <5>2. CASE ~c.dir
          <6>1. new = [kind |-> "file", name |-> c.name, uid |-> node[d].uid,
                       perm |-> CreatePerm(d, c), len |-> 0, opens |-> 0, home |-> d]
            BY <1>4, <5>2 DEF NewFile
          <6> QED BY <6>1 DEF IsNode, Attributes
        <5> QED BY <5>1, <5>2
      <4>2. node' = [m \in Nodes |-> node'[m]]
        BY <1>4 DEF TreeInv, TypeInv
      <4>3. \A m \in Nodes : IsNode(node[m])
        BY DEF TreeInv, TypeInv
      <4> QED BY <2>3, <4>1, <4>2, <4>3
    <3>2. tree' \in [Nodes -> [Names -> Nodes \union {None}]]
      BY <1>2, <1>4, <2>1 DEF TreeInv, TypeInv
    <3>3. pc' \in [Threads -> States] /\ target' \in [Threads -> Nodes \union {None}]
      BY <1>4, <2>1 DEF TreeInv, TypeInv, States
    <3> QED BY <1>1, <1>4, <3>1, <3>2, <3>3 DEF TreeInv, TypeInv
  <2> QED BY <2>6, <2>7, <2>8, <2>9, <2>11, <2>12, <2>13, StepOf
<1> QED BY <1>3, <1>4 DEF Create, Goto

\* A file with one attribute changed.
LEMMA OneAttribute ==
    ASSUME NEW x, IsNode(x), NEW f \in Attributes, NEW v
    PROVE  /\ IsNode([x EXCEPT ![f] = v]) /\ [x EXCEPT ![f] = v][f] = v
           /\ \A h \in Attributes \ {f} : [x EXCEPT ![f] = v][h] = x[h]
<1>1. PICK y : y = [x EXCEPT ![f] = v]
  OBVIOUS
<1>2. y = [h \in Attributes |-> IF h = f THEN v ELSE x[h]]
  BY <1>1 DEF IsNode
<1>3. y = [h \in Attributes |-> y[h]]
  BY <1>2
<1>4. y[f] = v /\ \A h \in Attributes \ {f} : y[h] = x[h]
  BY <1>2
<1> QED BY <1>1, <1>3, <1>4 DEF IsNode

\* A step that changes at most the mode, owner, length or opens of one file.
LEMMA AttributeStep ==
    ASSUME TreeInv, scene' = scene, tree' = tree, NEW n \in Nodes, Exists(n),
           node' = [m \in Nodes |-> node'[m]],
           \A m \in Nodes \ {n} : node'[m] = node[m], IsNode(node'[n]),
           \A h \in {"kind", "name", "home"} : node'[n][h] = node[n][h]
    PROVE  /\ Grows /\ NodesInv' /\ NamesAgree' /\ Fresh' = Fresh
           /\ \A m \in Nodes : IsNode(node'[m])
<1>1. Grows /\ NodesInv' /\ NamesAgree' /\ Fresh' = Fresh
  <2>1. /\ node'[n].name = node[n].name /\ node'[n].kind = node[n].kind
        /\ node'[n].home = node[n].home
    OBVIOUS
  <2> QED BY <2>1, OneNode
<1>2. \A m \in Nodes : IsNode(node[m])
  BY DEF TreeInv, TypeInv
<1> QED BY <1>1, <1>2

\* CanOpen.
LEMMA KeepCanOpen == ASSUME TreeInv, NEW t \in Threads, CanOpen(t) PROVE Moves(t)
<1>1. /\ pc[t] = "open"
      /\ scene' = scene /\ left' = left /\ node' = node /\ tree' = tree /\ loc' = loc
      /\ handle' = handle /\ part' = part /\ found' = found /\ path' = path /\ undo' = undo
      /\ was' = was /\ name' = name /\ alone' = alone
      /\ renamed' = renamed /\ removed' = removed
  BY DEF CanOpen, local
<1>2. CASE Return(t)
  BY <1>1, <1>2, ReturnQuiet DEF TreeInv, TypeInv
<1>3. CASE pc' = [pc EXCEPT ![t] = "opening"] /\ UNCHANGED <<op, todo, target>>
  <2>1. TypeInv'
    BY <1>1, <1>3 DEF TreeInv, TypeInv, States
  <2>2. \A u \in Threads \ {t} : SameLocal(u)
    BY <1>1, <1>3 DEF TreeInv, TypeInv, SameLocal
  <2>3. pc'[t] = "opening"
    BY <1>3 DEF TreeInv, TypeInv
  <2>4. Stage(t) /\ AtPart(t) /\ Target(t) /\ Chain(loc[t]) /\ Chain(path[t])
    BY DEF TreeInv, Local
  <2>5. Chain(loc[t])' /\ Chain(path[t])'
    BY <1>1, NodeKept, PathsKept
  <2>6. Stage(t)' /\ Todo(t)' /\ AtPart(t)'
    BY <1>1, <1>3, <2>3, <2>4 DEF Stage, Todo, AtPart, Working, IsMix, Parent
  <2>7. Target(t)'
    BY <1>1, <1>3, <2>3, <2>4 DEF Target, Working, Own, Parts, IsMix, Exists, Current
  <2>8. Local(t)'
    BY <2>5, <2>6, <2>7 DEF Local
  <2> QED BY <1>1, <2>1, <2>2, <2>3, <2>8, QuietStep
<1> QED BY <1>2, <1>3 DEF CanOpen, Goto

\* Open: after a create the path grows by the new file.
LEMMA KeepOpen == ASSUME TreeInv, NEW t \in Threads, Open(t) PROVE Moves(t)
<1>1. /\ pc[t] = "opening" /\ Return(t)
      /\ handle' = [handle EXCEPT ![t] = op[t].mode]
      /\ scene' = scene /\ left' = left /\ tree' = tree
      /\ part' = part /\ found' = found /\ path' = path /\ undo' = undo
      /\ was' = was /\ name' = name /\ alone' = alone /\ renamed' = renamed /\ removed' = removed
  BY DEF Open, local
<1>2. PICK n \in Nodes : n = target[t] /\ Exists(n)
  BY <1>1, Here DEF Working
<1>3. PICK v, w : /\ loc' = [loc EXCEPT ![t] = IF op[t].op = "create" THEN Append(loc[t], n)
                                               ELSE loc[t]]
                  /\ node' = IF Uncounted(t) THEN node
                             ELSE [node EXCEPT ![n] = [[node[n] EXCEPT !.opens = v] EXCEPT !.len = w]]
  BY <1>2 DEF Open
<1>4. /\ node' = [m \in Nodes |-> node'[m]] /\ \A m \in Nodes \ {n} : node'[m] = node[m]
      /\ IsNode(node'[n]) /\ \A h \in {"kind", "name", "home"} : node'[n][h] = node[n][h]
  <2>1. IsNode(node[n]) /\ node = [m \in Nodes |-> node[m]]
    BY DEF TreeInv, TypeInv
  <2>2. CASE Uncounted(t)
    BY <1>3, <2>1, <2>2
  <2>3. CASE ~Uncounted(t)
    <3>1. PICK x : x = [node[n] EXCEPT !.opens = v]
      OBVIOUS
    <3>2. PICK y : y = [x EXCEPT !.len = w]
      OBVIOUS
    <3>3. IsNode(x) /\ \A h \in {"kind", "name", "home"} : x[h] = node[n][h]
      BY <2>1, <3>1, OneAttribute DEF Attributes
    <3>4. IsNode(y) /\ \A h \in {"kind", "name", "home"} : y[h] = node[n][h]
      BY <3>2, <3>3, OneAttribute DEF Attributes
    <3>5. node' = [node EXCEPT ![n] = y]
      BY <1>3, <2>3, <3>1, <3>2
    <3>6. node'[n] = y
      BY <2>1, <3>5
    <3> QED BY <2>1, <3>4, <3>5, <3>6
  <2> QED BY <2>2, <2>3
<1>5. /\ Grows /\ NodesInv' /\ NamesAgree' /\ Fresh' = Fresh
      /\ \A m \in Nodes : IsNode(node'[m])
  BY <1>1, <1>2, <1>4, AttributeStep
<1>6. /\ loc[t] \in Seq(Nodes) /\ loc[t] # <<>> /\ Chain(loc[t])
      /\ op[t].op \in {"open", "create"} /\ op[t].mode \in Modes
  <2>1. op[t].op \in {"open", "create"}
    BY <1>1 DEF TreeInv, Local, Stage
  <2> QED BY <1>1, <2>1, Here DEF Working, Request
<1>7. PICK p \in Seq(Nodes) : /\ p = IF op[t].op = "create" THEN Append(loc[t], n) ELSE loc[t]
                              /\ Chain(p)
  <2>1. CASE op[t].op = "create"
    <3>1. node[n].home \in Range(Parts(Current(loc[t])))
      BY <1>1, <1>2, <2>1 DEF TreeInv, Local, Target
    <3> QED BY <1>6, <2>1, <3>1, DownChain DEF TreeInv
  <2>2. CASE op[t].op # "create"
    BY <1>6, <2>2
  <2> QED BY <2>1, <2>2
<1>8. loc' = [loc EXCEPT ![t] = p]
  BY <1>3, <1>7
<1>9. loc' \in [Threads -> Seq(Nodes)] /\ loc'[t] = p /\ \A u \in Threads \ {t} : loc'[u] = loc[u]
  BY <1>8 DEF TreeInv, TypeInv
<1>10. Chain(loc[t])'
  <2>1. Chain(p)'
    BY <1>5, <1>7, ChainKept DEF TreeInv
  <2> QED BY <1>9, <2>1 DEF Chain
<1>11. handle' \in [Threads -> Modes \union {None}]
  BY <1>1, <1>6 DEF TreeInv, TypeInv
<1> QED BY <1>1, <1>4, <1>5, <1>9, <1>10, <1>11, ReturnStep DEF TreeInv, TypeInv

\* A step of t that keeps the invariant of files and directories.
LEMMA MoveStep ==
    ASSUME TreeInv, NEW t \in Threads, Working(t),
           pc[t] \notin {"walk", "open", "opening", "unlinking"},
           Grows, NodesInv', NamesAgree', Fresh' = Fresh, TypeInv',
           pc'[t] \in {"unlink", "unlinking", "set", "setting", "panic"},
           loc' = loc, path' = path, op' = op,
           \A u \in Threads \ {t} : SameLocal(u),
           pc'[t] \in {"unlink", "unlinking"} => name'[t] \in Names /\ Len(loc[t]) > 1,
           pc'[t] \in {"set", "setting"} => op[t].op = "wstat",
           part'[t] = part[t] \/ part'[t] = 1 \/ IsMix(Parent(loc[t])),
           \/ target'[t] = target[t]
           \/ pc'[t] = "unlinking" /\ target'[t] \in Nodes /\ Exists(target'[t]),
           Todo(t)'
    PROVE  Moves(t)
<1>1. /\ Stage(t) /\ AtPart(t) /\ Target(t) /\ loc[t] # <<>>
      /\ Current(loc[t]) \in Nodes /\ Exists(Current(loc[t]))
      /\ Parent(loc[t]) \in Nodes /\ Exists(Parent(loc[t]))
      /\ target[t] \in Nodes /\ Exists(target[t])
  BY Here DEF TreeInv, Local
<1>2. Chain(loc[t])' /\ Chain(path[t])'
  BY PathsKept
<1>3. Stage(t)'
  <2>1. scene' = scene
    BY DEF Grows
  <2> QED BY <1>1, <2>1 DEF Stage, Working
<1>4. AtPart(t)'
  <2>1. IsMix(Parent(loc[t]))' <=> IsMix(Parent(loc[t]))
    BY <1>1 DEF IsMix, Grows
  <2> QED BY <1>1, <2>1 DEF AtPart, Working
<1>5. Target(t)'
  <2>1. PICK c \in Nodes : c = Current(loc[t]) /\ Exists(c)
    BY <1>1
  <2>2. Own(c)' = Own(c)
    BY <2>1, PartsKept
  <2>3. PICK n \in Nodes : n = target'[t] /\ Exists(n)
    BY <1>1
  <2>4. Exists(n)'
    BY <2>3 DEF Grows
  <2>5. target'[t] \in Nodes /\ Exists(target[t])'
    BY <2>3, <2>4 DEF Exists
  <2>6. pc'[t] # "unlinking" => target'[t] = Own(c)
    BY <1>1, <2>1 DEF Target
  <2>7. Own(Current(loc[t]))' = Own(c)
    BY <2>1, <2>2 DEF Own, Parts, IsMix
  <2> QED BY <2>5, <2>6, <2>7 DEF Target, Working
<1>6. Local(t)'
  BY <1>2, <1>3, <1>4, <1>5 DEF Local
<1>7. Creating' \subseteq Creating
  BY DEF Creating, SameLocal
<1>8. CountInv'
  BY <1>7, CountKept
<1> QED BY <1>6, <1>8, StepOf

\* Read and Write: a panic leaves the request where it is.
LEMMA KeepAccess == ASSUME TreeInv, NEW t \in Threads, Read(t) \/ Write(t) PROVE Moves(t)
<1>1. /\ pc[t] \in {"read", "write"} /\ Working(t)
      /\ scene' = scene /\ left' = left /\ tree' = tree /\ loc' = loc /\ handle' = handle
      /\ part' = part /\ found' = found /\ path' = path /\ undo' = undo
      /\ was' = was /\ name' = name /\ alone' = alone /\ renamed' = renamed /\ removed' = removed
  BY DEF Read, Write, local, Working
<1>2. PICK n \in Nodes : n = Current(loc[t]) /\ Exists(n)
  BY <1>1, Here
<1>3. \/ node' = node
      \/ \E l : node' = [node EXCEPT ![n] = [node[n] EXCEPT !.len = l]]
  BY <1>2 DEF Read, Write
<1>4. /\ node' = [m \in Nodes |-> node'[m]] /\ \A m \in Nodes \ {n} : node'[m] = node[m]
      /\ IsNode(node'[n]) /\ \A h \in {"kind", "name", "home"} : node'[n][h] = node[n][h]
  <2>1. IsNode(node[n]) /\ node = [m \in Nodes |-> node[m]]
    BY DEF TreeInv, TypeInv
  <2>2. CASE node' = node
    BY <2>1, <2>2
  <2>3. ASSUME NEW l, node' = [node EXCEPT ![n] = [node[n] EXCEPT !.len = l]]
        PROVE  /\ node' = [m \in Nodes |-> node'[m]] /\ \A m \in Nodes \ {n} : node'[m] = node[m]
               /\ IsNode(node'[n])
               /\ \A h \in {"kind", "name", "home"} : node'[n][h] = node[n][h]
    <3>1. PICK y : y = [node[n] EXCEPT !.len = l]
      OBVIOUS
    <3>2. IsNode(y) /\ \A h \in {"kind", "name", "home"} : y[h] = node[n][h]
      BY <2>1, <3>1, OneAttribute DEF Attributes
    <3>3. node' = [node EXCEPT ![n] = y]
      BY <2>3, <3>1
    <3>4. node'[n] = y
      BY <2>1, <3>3
    <3> QED BY <2>1, <3>2, <3>3, <3>4
  <2> QED BY <1>3, <2>2, <2>3
<1>5. /\ Grows /\ NodesInv' /\ NamesAgree' /\ Fresh' = Fresh
      /\ \A m \in Nodes : IsNode(node'[m])
  BY <1>1, <1>2, <1>4, AttributeStep
<1>6. CASE Return(t)
  <2>1. Chain(loc[t])'
    BY <1>1, <1>5, PathsKept
  <2> QED BY <1>1, <1>4, <1>5, <1>6, <2>1, ReturnStep DEF TreeInv, TypeInv
<1>7. CASE pc' = [pc EXCEPT ![t] = "panic"] /\ UNCHANGED <<op, todo, target>>
  <2>1. TypeInv'
    BY <1>1, <1>4, <1>5, <1>7 DEF TreeInv, TypeInv, States
  <2>2. \A u \in Threads \ {t} : SameLocal(u)
    BY <1>1, <1>7 DEF TreeInv, TypeInv, SameLocal
  <2>3. pc'[t] = "panic"
    BY <1>7 DEF TreeInv, TypeInv
  <2>4. Todo(t)'
    BY <2>3 DEF Todo
  <2> QED BY <1>1, <1>5, <1>7, <2>1, <2>2, <2>3, <2>4, MoveStep
<1> QED BY <1>6, <1>7 DEF Read, Write, Goto

\* The close of a handle changes the opens of the file at most.
LEMMA Closing ==
    ASSUME TreeInv, NEW t \in Threads, Working(t), CloseHandle(t), scene' = scene, tree' = tree
    PROVE  /\ Grows /\ NodesInv' /\ NamesAgree' /\ Fresh' = Fresh
           /\ node' = [m \in Nodes |-> node'[m]] /\ \A m \in Nodes : IsNode(node'[m])
           /\ handle' = [handle EXCEPT ![t] = None] /\ handle' \in [Threads -> Modes \union {None}]
           /\ \A m \in Nodes : \A h \in Attributes \ {"opens"} : node'[m][h] = node[m][h]
<1>1. PICK n \in Nodes : n = Current(loc[t]) /\ Exists(n)
  BY Here
<1>2. handle' = [handle EXCEPT ![t] = None] /\ handle' \in [Threads -> Modes \union {None}]
  BY DEF CloseHandle, TreeInv, TypeInv
<1>3. /\ node = [m \in Nodes |-> node[m]] /\ \A m \in Nodes : IsNode(node[m])
  BY DEF TreeInv, TypeInv
<1>4. CASE node' = node
  <2>1. Grows /\ NodesInv' /\ Fresh' = Fresh
    BY <1>4, NodeKept
  <2>2. NamesAgree'
    BY <1>4, <2>1, TreeKept
  <2> QED BY <1>2, <1>3, <1>4, <2>1, <2>2
<1>5. CASE node' # node
  <2>1. PICK v : node' = [node EXCEPT ![n] = [node[n] EXCEPT !.opens = v]]
    BY <1>1, <1>5 DEF CloseHandle
  <2>2. PICK y : y = [node[n] EXCEPT !.opens = v]
    OBVIOUS
  <2>3. IsNode(y) /\ \A h \in Attributes \ {"opens"} : y[h] = node[n][h]
    <3>1. "opens" \in Attributes
      BY DEF Attributes
    <3> QED BY SMTT(20), <1>3, <2>2, <3>1, OneAttribute
  <2>4. node'[n] = y /\ \A m \in Nodes \ {n} : node'[m] = node[m]
    BY <1>3, <2>1, <2>2
  <2>5. node' = [m \in Nodes |-> node'[m]]
    BY <1>3, <2>1
  <2>6. \A h \in {"kind", "name", "home"} : node'[n][h] = node[n][h]
    BY <2>3, <2>4 DEF Attributes
  <2>7. /\ Grows /\ NodesInv' /\ NamesAgree' /\ Fresh' = Fresh
        /\ \A m \in Nodes : IsNode(node'[m])
    BY <1>1, <2>3, <2>4, <2>5, <2>6, AttributeStep
  <2> QED BY <1>2, <2>3, <2>4, <2>5, <2>7
<1> QED BY <1>4, <1>5

\* clunk, and the end of a connection after a panic.
LEMMA KeepClunk == ASSUME TreeInv, NEW t \in Threads, Clunk(t) \/ Die(t) PROVE Moves(t)
<1>1. /\ Working(t) /\ CloseHandle(t) /\ loc' = [loc EXCEPT ![t] = <<>>]
      /\ scene' = scene /\ left' = left /\ tree' = tree
      /\ part' = part /\ found' = found /\ path' = path /\ undo' = undo
      /\ was' = was /\ name' = name /\ alone' = alone /\ renamed' = renamed /\ removed' = removed
  BY DEF Clunk, Die, local, Working
<1>2. PICK l \in {"idle", "dead"} : End(t, l)
  BY DEF Clunk, Die, Return, End
<1>3. /\ loc' \in [Threads -> Seq(Nodes)] /\ loc'[t] = <<>>
      /\ \A u \in Threads \ {t} : loc'[u] = loc[u]
  BY <1>1 DEF TreeInv, TypeInv
<1>4. Chain(loc[t])'
  BY <1>3 DEF Chain
<1> QED BY <1>1, <1>2, <1>3, <1>4, Closing, EndStep DEF TreeInv, TypeInv

\* The start of remove: below the root the file has a name.
LEMMA KeepRemoveFid == ASSUME TreeInv, NEW t \in Threads, RemoveFid(t) PROVE Moves(t)
<1>1. /\ pc[t] = "remove" /\ Working(t) /\ CloseHandle(t)
      /\ scene' = scene /\ left' = left /\ tree' = tree /\ part' = part /\ found' = found
      /\ path' = path /\ undo' = undo /\ was' = was /\ alone' = alone
      /\ renamed' = renamed /\ removed' = removed
  BY DEF RemoveFid, Working
<1>2. /\ Grows /\ NodesInv' /\ NamesAgree' /\ Fresh' = Fresh
      /\ node' = [m \in Nodes |-> node'[m]] /\ \A m \in Nodes : IsNode(node'[m])
      /\ handle' \in [Threads -> Modes \union {None}]
  BY <1>1, Closing
<1>3. CASE Return(t) /\ loc' = [loc EXCEPT ![t] = <<>>] /\ UNCHANGED name
  <2>1. /\ loc' \in [Threads -> Seq(Nodes)] /\ loc'[t] = <<>>
        /\ \A u \in Threads \ {t} : loc'[u] = loc[u]
    BY <1>3 DEF TreeInv, TypeInv
  <2>2. Chain(loc[t])'
    BY <2>1 DEF Chain
  <2> QED BY <1>1, <1>2, <1>3, <2>1, <2>2, ReturnStep DEF TreeInv, TypeInv
<1>4. ASSUME Len(loc[t]) # 1,
             name' = [name EXCEPT ![t] = node[Own(Current(loc[t]))].name],
             pc' = [pc EXCEPT ![t] = "unlink"], UNCHANGED <<loc, op, todo, target>>
      PROVE  Moves(t)
  <2>1. Len(loc[t]) > 1 /\ node[Own(Current(loc[t]))].name \in Names
    <3>1. PICK p \in Seq(Nodes) : p = loc[t] /\ p # <<>> /\ Chain(p) /\ NodesInv
      BY <1>1, Here DEF TreeInv
    <3>2. Len(p) > 1
      <4>1. PICK m : m = Len(p) /\ m \in Nat /\ m >= 1
        BY <3>1, PathEnds
      <4>2. m # 1
        BY <1>4, <3>1, <4>1
      <4> QED BY <4>1, <4>2
    <3>3. ~IsMix(Current(p)) /\ node[Current(p)].name \in Names /\ Current(p) \in Nodes
      BY <3>1, <3>2, OnPath, PathEnds
    <3> QED BY <3>1, <3>2, <3>3, PartsOf
  <2>2. name' \in [Threads -> Names \union {None}] /\ name'[t] \in Names
    BY <1>4, <2>1 DEF TreeInv, TypeInv
  <2>3. TypeInv'
    BY <1>1, <1>2, <1>4, <2>2 DEF TreeInv, TypeInv, States
  <2>4. \A u \in Threads \ {t} : SameLocal(u)
    BY <1>1, <1>4 DEF TreeInv, TypeInv, SameLocal
  <2>5. pc'[t] = "unlink"
    BY <1>4 DEF TreeInv, TypeInv
  <2>6. Todo(t)'
    BY <2>5 DEF Todo
  <2> QED BY <1>1, <1>2, <1>4, <2>1, <2>2, <2>3, <2>4, <2>5, <2>6, MoveStep
<1> QED BY <1>3, <1>4 DEF RemoveFid, Goto

\* The part of its parent that a thread has found.
LEMMA InParent ==
    ASSUME TreeInv, NEW t \in Threads, Working(t), pc[t] # "walk"
    PROVE  /\ Part(t, Parent(loc[t])) \in Range(Parts(Parent(loc[t])))
           /\ Part(t, Parent(loc[t])) \in Nodes /\ ~IsMix(Part(t, Parent(loc[t])))
<1>1. AtPart(t) /\ Parent(loc[t]) \in Nodes
  BY Here DEF TreeInv, Local
<1> QED BY <1>1, AtDir DEF AtPart

\* The checks of Remove.
LEMMA KeepUnlink == ASSUME TreeInv, NEW t \in Threads, Unlink(t) PROVE Moves(t)
<1> DEFINE d == Part(t, Parent(loc[t]))
           n == tree[d][name[t]]
<1>1. /\ pc[t] = "unlink" /\ Working(t)
      /\ scene' = scene /\ left' = left /\ node' = node /\ tree' = tree /\ handle' = handle
      /\ part' = part /\ found' = found /\ path' = path /\ undo' = undo
      /\ was' = was /\ name' = name /\ alone' = alone /\ renamed' = renamed /\ removed' = removed
  BY DEF Unlink, local, Working
<1>2. CASE Return(t) /\ loc' = [loc EXCEPT ![t] = <<>>]
  <2>1. /\ loc' \in [Threads -> Seq(Nodes)] /\ loc'[t] = <<>>
        /\ \A u \in Threads \ {t} : loc'[u] = loc[u]
    BY <1>2 DEF TreeInv, TypeInv
  <2> QED BY <1>1, <1>2, <2>1, ReturnQuiet DEF TreeInv, TypeInv
<1>3. ASSUME n # None, target' = [target EXCEPT ![t] = n],
             pc' = [pc EXCEPT ![t] = "unlinking"], UNCHANGED <<loc, op, todo>>
      PROVE  Moves(t)
  <2>1. name[t] \in Names /\ Len(loc[t]) > 1
    BY <1>1 DEF TreeInv, Local, Stage
  <2>2. d \in Nodes
    BY <1>1, InParent
  <2>3. n \in Nodes /\ Exists(n)
    BY <1>3, <2>1, <2>2, Constants DEF TreeInv, TypeInv, NamesAgree, Exists
  <2>4. TypeInv'
    BY <1>1, <1>3, <2>3 DEF TreeInv, TypeInv, States
  <2>5. \A u \in Threads \ {t} : SameLocal(u)
    BY <1>1, <1>3 DEF TreeInv, TypeInv, SameLocal
  <2>6. pc'[t] = "unlinking" /\ target'[t] = n
    BY <1>3 DEF TreeInv, TypeInv
  <2>7. Todo(t)'
    BY <2>6 DEF Todo
  <2>8. Grows /\ NodesInv' /\ Fresh' = Fresh
    BY <1>1, NodeKept
  <2>9. NamesAgree'
    BY <1>1, <2>8, TreeKept
  <2> QED BY <1>1, <1>3, <2>1, <2>3, <2>4, <2>5, <2>6, <2>7, <2>8, <2>9, MoveStep
<1>4. \/ Return(t) /\ loc' = [loc EXCEPT ![t] = <<>>]
      \/ /\ n # None /\ target' = [target EXCEPT ![t] = n]
         /\ pc' = [pc EXCEPT ![t] = "unlinking"] /\ UNCHANGED <<loc, op, todo>>
  BY DEF Unlink, Goto
<1> QED BY <1>2, <1>3, <1>4

\* The end of Remove.
LEMMA KeepUnlinked == ASSUME TreeInv, NEW t \in Threads, Unlinked(t) PROVE Moves(t)
<1> DEFINE d == Part(t, Parent(loc[t]))
<1>1. /\ pc[t] = "unlinking" /\ Working(t) /\ Return(t)
      /\ tree' = [tree EXCEPT ![d][name[t]] = None]
      /\ removed' = removed \union {target[t]}
      /\ loc' = [loc EXCEPT ![t] = <<>>]
      /\ scene' = scene /\ left' = left /\ node' = node /\ handle' = handle
      /\ part' = part /\ found' = found /\ path' = path /\ undo' = undo
      /\ was' = was /\ name' = name /\ alone' = alone /\ renamed' = renamed
  BY DEF Unlinked, local, Working
<1>2. d \in Nodes /\ name[t] \in Names
  BY <1>1, InParent DEF TreeInv, Local, Stage
<1>3. /\ tree' \in [Nodes -> [Names -> Nodes \union {None}]]
      /\ \A e \in Nodes, nm \in Names : tree'[e][nm] # None => tree'[e][nm] = tree[e][nm]
  BY <1>1, <1>2 DEF TreeInv, TypeInv
<1>4. NamesAgree'
  BY <1>1, <1>3 DEF TreeInv, NamesAgree, IsDir
<1>5. Grows /\ NodesInv' /\ Fresh' = Fresh
  BY <1>1, NodeKept
<1>6. /\ loc' \in [Threads -> Seq(Nodes)] /\ loc'[t] = <<>>
      /\ \A u \in Threads \ {t} : loc'[u] = loc[u]
  BY <1>1 DEF TreeInv, TypeInv
<1>7. Chain(loc[t])'
  BY <1>6 DEF Chain
<1>8. renamed' \in [Threads -> BOOLEAN] /\ removed' \subseteq Nodes
  BY <1>1, Here DEF TreeInv, TypeInv
<1> QED BY <1>1, <1>3, <1>4, <1>5, <1>6, <1>7, <1>8, ReturnStep DEF TreeInv, TypeInv

-----------------------------------------------------------------------------

\* Two lists of changes, one after the other.
LEMMA ListOfFields ==
    ASSUME NEW a \in Seq(Fields), NEW b \in Seq(Fields)
    PROVE  /\ a \o b \in Seq(Fields)
           /\ \A x : Contains(a \o b, x) => Contains(a, x) \/ Contains(b, x)
<1>1. PICK m, n, c : m \in Nat /\ n \in Nat /\ m = Len(a) /\ n = Len(b) /\ c = a \o b
  <2>1. Len(a) \in Nat /\ Len(b) \in Nat
    OBVIOUS
  <2> QED BY <2>1
<1>2. c \in Seq(Fields) /\ Len(c) = m + n
  BY <1>1, ConcatProperties
<1>3. \A i \in 1..(m + n) : c[i] = IF i <= m THEN a[i] ELSE b[i - m]
  BY <1>1, ConcatProperties
<1>4. ASSUME NEW x, Contains(c, x) PROVE Contains(a, x) \/ Contains(b, x)
  <2>1. PICK i \in 1..(m + n) : c[i] = x
    BY <1>2, <1>4 DEF Contains
  <2>2. CASE i <= m
    BY <1>1, <1>3, <2>1, <2>2 DEF Contains
  <2>3. CASE ~(i <= m)
    <3>1. i - m \in 1..n
      BY <1>1, <2>1, <2>3
    <3> QED BY <1>1, <1>3, <2>1, <2>3, <3>1 DEF Contains
  <2> QED BY <2>2, <2>3
<1> QED BY <1>1, <1>2, <1>4

\* A wstat makes the changes it is asked for.
LEMMA ChangesOf ==
    ASSUME NEW c, NEW st
    PROVE  Changes(c, st) \in Seq(Fields) /\ \A f : Contains(Changes(c, st), f) => Wanted(c, st, f)
<1> DEFINE If(f) == IF Wanted(c, st, f) THEN <<f>> ELSE <<>>
<1>1. ASSUME NEW f \in Fields
      PROVE  If(f) \in Seq(Fields) /\ \A x : Contains(If(f), x) => Wanted(c, st, x)
  <2>1. CASE Wanted(c, st, f)
    <3>1. PICK s : s = <<f>>
      OBVIOUS
    <3>2. s \in Seq(Fields) /\ Len(s) = 1 /\ s[1] = f
      BY <3>1
    <3>3. \A x : Contains(s, x) => x = f
      BY <3>2 DEF Contains
    <3> QED BY <2>1, <3>1, <3>2, <3>3
  <2>2. CASE ~Wanted(c, st, f)
    BY <2>2 DEF Contains
  <2> QED BY <2>1, <2>2
<1>2. PICK a, b, g, l : a = If("perm") /\ b = If("uid") /\ g = If("name") /\ l = If("len")
  OBVIOUS
<1>3. /\ a \in Seq(Fields) /\ \A x : Contains(a, x) => Wanted(c, st, x)
      /\ b \in Seq(Fields) /\ \A x : Contains(b, x) => Wanted(c, st, x)
      /\ g \in Seq(Fields) /\ \A x : Contains(g, x) => Wanted(c, st, x)
      /\ l \in Seq(Fields) /\ \A x : Contains(l, x) => Wanted(c, st, x)
  <2> HIDE DEF If
  <2>1. "perm" \in Fields /\ "uid" \in Fields /\ "name" \in Fields /\ "len" \in Fields
    BY DEF Fields
  <2> QED BY <1>1, <1>2, <2>1
<1>4. Changes(c, st) = a \o b \o g \o l
  BY <1>2 DEF Changes
<1>5. PICK ab : ab = a \o b /\ ab \in Seq(Fields) /\ \A x : Contains(ab, x) => Wanted(c, st, x)
  <2>1. a \o b \in Seq(Fields) /\ \A x : Contains(a \o b, x) => Contains(a, x) \/ Contains(b, x)
    BY <1>3, ListOfFields
  <2> QED BY <1>3, <2>1
<1>6. PICK abg : abg = ab \o g /\ abg \in Seq(Fields) /\ \A x : Contains(abg, x) => Wanted(c, st, x)
  <2>1. ab \o g \in Seq(Fields) /\ \A x : Contains(ab \o g, x) => Contains(ab, x) \/ Contains(g, x)
    BY <1>3, <1>5, ListOfFields
  <2> QED BY <1>3, <1>5, <2>1
<1>7. abg \o l \in Seq(Fields) /\ \A x : Contains(abg \o l, x) => Wanted(c, st, x)
  BY <1>3, <1>6, ListOfFields
<1> QED BY <1>4, <1>5, <1>6, <1>7

\* What is taken back is a list of changes.
LEMMA UndoOf == ASSUME NEW f \in Fields PROVE Undo(f) \in Seq(Fields)
<1>1. /\ <<>> \in Seq(Fields) /\ <<"perm">> \in Seq(Fields) /\ <<"perm", "uid">> \in Seq(Fields)
      /\ <<"perm", "uid", "name">> \in Seq(Fields)
  BY DEF Fields
<1>2. f = "perm" \/ f = "uid" \/ f = "name" \/ f = "len"
  BY DEF Fields
<1> QED BY <1>1, <1>2 DEF Undo

\* The rest of a list has nothing that the list has not.
LEMMA RestOf ==
    ASSUME NEW s \in Seq(Fields), s # <<>>
    PROVE  /\ Tail(s) \in Seq(Fields) /\ Head(s) \in Fields /\ Contains(s, Head(s))
           /\ \A x : Contains(Tail(s), x) => Contains(s, x)
<1>1. PICK n, r : n \in Nat /\ n + 1 = Len(s) /\ r = Tail(s)
  <2>1. PICK m \in Nat : m = Len(s) /\ m # 0
    <3>1. Len(s) \in Nat /\ Len(s) # 0
      OBVIOUS
    <3> QED BY <3>1
  <2>2. m - 1 \in Nat /\ (m - 1) + 1 = m
    BY <2>1
  <2> QED BY <2>1, <2>2
<1>2. r \in Seq(Fields) /\ Len(r) = n /\ \A i \in 1..n : r[i] = s[i + 1]
  BY <1>1
<1>3. Head(s) = s[1] /\ 1 \in 1..Len(s) /\ Head(s) \in Fields
  BY <1>1
<1>4. ASSUME NEW x, Contains(r, x) PROVE Contains(s, x)
  <2>1. PICK i \in 1..n : r[i] = x
    BY <1>2, <1>4 DEF Contains
  <2>2. i + 1 \in 1..Len(s) /\ s[i + 1] = x
    BY <1>1, <1>2, <2>1
  <2> QED BY <2>2 DEF Contains
<1> QED BY <1>1, <1>2, <1>3, <1>4 DEF Contains

\* What a thread in setStat works on: below the root, the file of its fid.
LEMMA InSetStat ==
    ASSUME TreeInv, NEW t \in Threads, pc[t] \in {"wstat", "set", "setting"}
    PROVE  /\ Working(t) /\ op[t].op = "wstat" /\ op[t].stat.name \in Names \union {None}
           /\ target[t] = Own(Current(loc[t])) /\ Todo(t)
           /\ pc[t] # "wstat" => todo[t] \in Seq(Fields)
           /\ Len(loc[t]) > 1 => target[t] = Current(loc[t]) /\ node[target[t]].name \in Names
<1>1. Working(t) /\ Stage(t) /\ Target(t) /\ Todo(t)
  BY DEF Working, TreeInv, Local
<1>2. op[t].op = "wstat" /\ target[t] = Own(Current(loc[t]))
  BY <1>1 DEF Stage, Target
<1>3. op[t].stat.name \in Names \union {None}
  BY <1>1, <1>2, Here DEF Request
<1>4. ASSUME Len(loc[t]) > 1
      PROVE  target[t] = Current(loc[t]) /\ node[target[t]].name \in Names
  <2>1. PICK p \in Seq(Nodes) : p = loc[t] /\ p # <<>> /\ Chain(p) /\ NodesInv
    BY <1>1, Here DEF TreeInv
  <2>2. ~IsMix(Current(p)) /\ node[Current(p)].name \in Names /\ Current(p) \in Nodes
    BY <1>4, <2>1, OnPath, PathEnds
  <2> QED BY <1>2, <2>1, <2>2, PartsOf
<1>5. pc[t] # "wstat" => todo[t] \in Seq(Fields)
  BY <1>1 DEF Todo
<1> QED BY <1>1, <1>2, <1>3, <1>4, <1>5

\* The start of setStat.
LEMMA KeepWriteStat == ASSUME TreeInv, NEW t \in Threads, WriteStat(t) PROVE Moves(t)
<1> DEFINE st == node[target[t]]
<1>1. /\ pc[t] = "wstat" /\ Working(t)
      /\ scene' = scene /\ left' = left /\ node' = node /\ tree' = tree /\ handle' = handle
      /\ loc' = loc /\ part' = part /\ found' = found /\ path' = path /\ undo' = undo
      /\ name' = name /\ alone' = alone /\ renamed' = renamed /\ removed' = removed
  BY DEF WriteStat, Working
<1>2. CASE Return(t) /\ was' = was
  BY <1>1, <1>2, ReturnQuiet DEF TreeInv, TypeInv
<1>3. ASSUME was' = [was EXCEPT ![t] = st], todo' = [todo EXCEPT ![t] = Changes(op[t], st)],
             pc' = [pc EXCEPT ![t] = "set"], UNCHANGED <<op, target>>
      PROVE  Moves(t)
  <2>1. PICK s \in Seq(Fields) : /\ s = Changes(op[t], st)
                                 /\ \A f : Contains(s, f) => Wanted(op[t], st, f)
    BY ChangesOf
  <2>2. s \in Seq(Names \union {".."} \union Fields)
    OBVIOUS
  <2>3. todo' = [todo EXCEPT ![t] = s]
    BY <1>3, <2>1
  <2>4. TypeInv'
    <3>1. /\ todo' \in [Threads -> Seq(Names \union {".."} \union Fields)]
          /\ pc' \in [Threads -> States]
      BY <1>3, <2>2, <2>3 DEF TreeInv, TypeInv, States
    <3>2. was' = [u \in Threads |-> was'[u]]
      <4>1. was = [u \in Threads |-> was[u]]
        BY DEF TreeInv, TypeInv
      <4> HIDE DEF st
      <4> QED BY <1>3, <4>1
    <3> QED BY <1>1, <1>3, <3>1, <3>2 DEF TreeInv, TypeInv
  <2>5. \A u \in Threads \ {t} : SameLocal(u)
    BY <1>1, <1>3 DEF TreeInv, TypeInv, SameLocal
  <2>6. pc'[t] = "set" /\ todo'[t] = s /\ was'[t] = st
    BY <1>3, <2>3 DEF TreeInv, TypeInv
  <2>7. Todo(t)'
    <3>1. Contains(s, "name") => op[t].stat.name # None
      BY <2>1 DEF Wanted
    <3>2. Contains(todo[t], "name")' => Contains(s, "name")
      BY <2>6 DEF Contains
    <3>3. Len(loc[t]) > 1 => was'[t].name \in Names
      BY <1>1, <2>6, InSetStat
    <3>4. op[t].stat.name \in Names \union {None}
      BY <1>1, InSetStat
    <3> QED BY <1>1, <1>3, <2>6, <3>1, <3>2, <3>3, <3>4 DEF Todo
  <2>8. Grows /\ NodesInv' /\ Fresh' = Fresh
    BY <1>1, NodeKept
  <2>9. NamesAgree'
    BY <1>1, <2>8, TreeKept
  <2>10. op[t].op = "wstat"
    BY <1>1, InSetStat
  <2> QED BY <1>1, <1>3, <2>4, <2>5, <2>6, <2>7, <2>8, <2>9, <2>10, MoveStep
<1> QED BY <1>2, <1>3 DEF WriteStat, Goto

\* The end of one change of setStat, or its failure.
LEMMA SetStep ==
    ASSUME TreeInv, NEW t \in Threads, pc[t] \in {"set", "setting"}, todo[t] # <<>>,
           Done(t) \/ Failed(t),
           scene' = scene, left' = left, loc' = loc, handle' = handle, op' = op, path' = path,
           was' = was, name' = name, target' = target, alone' = alone,
           Grows, NodesInv', NamesAgree', Fresh' = Fresh,
           node' = [m \in Nodes |-> node'[m]], \A m \in Nodes : IsNode(node'[m]),
           tree' \in [Nodes -> [Names -> Nodes \union {None}]],
           renamed' \in [Threads -> BOOLEAN], removed' \subseteq Nodes
    PROVE  Moves(t)
<1>1. PICK s \in Seq(Fields) : s = todo[t] /\ s # <<>>
  BY InSetStat
<1>2. PICK r \in Seq(Fields), v \in BOOLEAN :
        /\ todo' = [todo EXCEPT ![t] = r] /\ undo' = [undo EXCEPT ![t] = v]
        /\ pc' = [pc EXCEPT ![t] = "set"]
        /\ part' = [part EXCEPT ![t] = 1] /\ found' = [found EXCEPT ![t] = FALSE]
        /\ ~v => ~undo[t] /\ r = Tail(s)
  <2>1. CASE Done(t)
    <3>1. /\ todo' = [todo EXCEPT ![t] = Tail(s)] /\ undo' = [undo EXCEPT ![t] = undo[t]]
          /\ undo[t] \in BOOLEAN
      BY <1>1, <2>1 DEF Done, TreeInv, TypeInv
    <3>2. /\ pc' = [pc EXCEPT ![t] = "set"]
          /\ part' = [part EXCEPT ![t] = 1] /\ found' = [found EXCEPT ![t] = FALSE]
      BY <2>1 DEF Done, Goto, Restart
    <3>3. Tail(s) \in Seq(Fields)
      BY <1>1, RestOf
    <3> QED BY <3>1, <3>2, <3>3
  <2>2. CASE Failed(t)
    <3>1. /\ pc' = [pc EXCEPT ![t] = "set"] /\ undo' = [undo EXCEPT ![t] = TRUE]
          /\ part' = [part EXCEPT ![t] = 1] /\ found' = [found EXCEPT ![t] = FALSE]
          /\ todo' = [todo EXCEPT ![t] = IF undo[t] THEN Tail(s) ELSE Undo(Head(s))]
      BY <1>1, <2>2 DEF Failed, Goto, Restart
    <3>2. Tail(s) \in Seq(Fields) /\ Undo(Head(s)) \in Seq(Fields)
      BY <1>1, RestOf, UndoOf
    <3> QED BY <3>1, <3>2
  <2> QED BY <2>1, <2>2
<1>3. TypeInv'
  <2>1. r \in Seq(Names \union {".."} \union Fields)
    OBVIOUS
  <2>2. /\ todo' \in [Threads -> Seq(Names \union {".."} \union Fields)]
        /\ undo' \in [Threads -> BOOLEAN] /\ found' \in [Threads -> BOOLEAN]
        /\ pc' \in [Threads -> States] /\ part' \in [Threads -> {1, 2}]
    BY <1>2, <2>1 DEF TreeInv, TypeInv, States
  <2> QED BY <2>2 DEF TreeInv, TypeInv
<1>4. \A u \in Threads \ {t} : SameLocal(u)
  BY <1>2 DEF TreeInv, TypeInv, SameLocal
<1>5. pc'[t] = "set" /\ todo'[t] = r /\ undo'[t] = v /\ part'[t] = 1
  BY <1>2 DEF TreeInv, TypeInv
<1>6. Todo(t)'
  <2>1. Todo(t)
    BY InSetStat
  <2>2. ~v => (Contains(todo[t], "name")' => Contains(todo[t], "name"))
    <3>1. ~v => (Contains(r, "name") => Contains(s, "name"))
      BY <1>1, <1>2, RestOf
    <3> QED BY <1>1, <1>5, <3>1 DEF Contains
  <2> QED BY <1>2, <1>5, <2>1, <2>2 DEF Todo
<1>7. Working(t) /\ op[t].op = "wstat"
  BY InSetStat
<1> QED BY <1>3, <1>4, <1>5, <1>6, <1>7, MoveStep

\* The permission check of a change.
LEMMA KeepSetCheck == ASSUME TreeInv, NEW t \in Threads, SetCheck(t) PROVE Moves(t)
<1>1. /\ pc[t] = "set" /\ todo[t] # <<>> /\ Head(todo[t]) # "name"
      /\ scene' = scene /\ left' = left /\ node' = node /\ tree' = tree /\ handle' = handle
      /\ loc' = loc /\ op' = op /\ path' = path /\ was' = was /\ name' = name
      /\ target' = target /\ alone' = alone /\ renamed' = renamed /\ removed' = removed
  BY DEF SetCheck
<1>2. /\ Grows /\ NodesInv' /\ Fresh' = Fresh /\ NamesAgree'
      /\ node' = [m \in Nodes |-> node'[m]] /\ \A m \in Nodes : IsNode(node'[m])
      /\ tree' \in [Nodes -> [Names -> Nodes \union {None}]]
      /\ renamed' \in [Threads -> BOOLEAN] /\ removed' \subseteq Nodes
  BY <1>1, NodeKept, TreeKept DEF TreeInv, TypeInv
<1>3. CASE Failed(t)
  BY <1>1, <1>2, <1>3, SetStep
<1>4. CASE pc' = [pc EXCEPT ![t] = "setting"] /\ UNCHANGED <<todo, undo, part, found>>
  <2>1. TypeInv'
    BY <1>1, <1>2, <1>4 DEF TreeInv, TypeInv, States
  <2>2. \A u \in Threads \ {t} : SameLocal(u)
    BY <1>1, <1>4 DEF TreeInv, TypeInv, SameLocal
  <2>3. pc'[t] = "setting"
    BY <1>4 DEF TreeInv, TypeInv
  <2>4. Todo(t) /\ Working(t) /\ op[t].op = "wstat"
    BY <1>1, InSetStat
  <2>5. Todo(t)'
    BY <1>1, <1>4, <2>3, <2>4 DEF Todo
  <2> QED BY <1>1, <1>2, <1>4, <2>1, <2>2, <2>3, <2>4, <2>5, MoveStep
<1> QED BY <1>3, <1>4 DEF SetCheck, Goto

\* A change of mode, owner or length.
LEMMA KeepSet == ASSUME TreeInv, NEW t \in Threads, Set(t) PROVE Moves(t)
<1> DEFINE f == Head(todo[t])
<1>1. /\ pc[t] = "setting"
      /\ scene' = scene /\ left' = left /\ tree' = tree /\ handle' = handle
      /\ loc' = loc /\ op' = op /\ path' = path /\ was' = was /\ name' = name
      /\ target' = target /\ alone' = alone /\ renamed' = renamed /\ removed' = removed
  BY DEF Set
<1>2. /\ todo[t] # <<>> /\ f \in {"perm", "uid", "len"}
      /\ target[t] \in Nodes /\ Exists(target[t])
  <2>1. todo[t] \in Seq(Fields) /\ todo[t] # <<>> /\ f # "name" /\ Working(t)
    BY <1>1, InSetStat DEF Todo
  <2>2. f \in Fields
    BY <2>1, RestOf
  <2> QED BY <2>1, <2>2, Here DEF Fields
<1>3. CASE Failed(t) /\ UNCHANGED node
  <2>1. /\ Grows /\ NodesInv' /\ Fresh' = Fresh /\ NamesAgree'
        /\ node' = [m \in Nodes |-> node'[m]] /\ \A m \in Nodes : IsNode(node'[m])
        /\ tree' \in [Nodes -> [Names -> Nodes \union {None}]]
        /\ renamed' \in [Threads -> BOOLEAN] /\ removed' \subseteq Nodes
    BY <1>1, <1>3, NodeKept, TreeKept DEF TreeInv, TypeInv
  <2> QED BY <1>1, <1>2, <1>3, <2>1, SetStep
<1>4. ASSUME NEW v, node' = [node EXCEPT ![target[t]] = [node[target[t]] EXCEPT ![f] = v]],
             Done(t)
      PROVE  Moves(t)
  <2>1. PICK n, y : n \in Nodes /\ n = target[t] /\ Exists(n) /\ y = [node[n] EXCEPT ![f] = v]
    BY <1>2
  <2>2. node' = [node EXCEPT ![n] = y]
    BY <1>4, <2>1
  <2>3. IsNode(y) /\ \A h \in {"kind", "name", "home"} : y[h] = node[n][h]
    <3>1. IsNode(node[n])
      BY <2>1 DEF TreeInv, TypeInv
    <3>2. f \in Attributes /\ {"kind", "name", "home"} \subseteq Attributes \ {f}
      BY <1>2 DEF Attributes
    <3> HIDE DEF f
    <3> QED BY <2>1, <3>1, <3>2, OneAttribute
  <2>4. /\ node' = [m \in Nodes |-> node'[m]] /\ \A m \in Nodes \ {n} : node'[m] = node[m]
        /\ node'[n] = y
    BY <2>1, <2>2 DEF TreeInv, TypeInv
  <2>5. /\ Grows /\ NodesInv' /\ NamesAgree' /\ Fresh' = Fresh
        /\ \A m \in Nodes : IsNode(node'[m])
    BY <1>1, <2>1, <2>3, <2>4, AttributeStep
  <2>6. /\ tree' \in [Nodes -> [Names -> Nodes \union {None}]]
        /\ renamed' \in [Threads -> BOOLEAN] /\ removed' \subseteq Nodes
    BY <1>1, <1>4, FlagsKept DEF TreeInv, TypeInv
  <2> QED BY <1>1, <1>2, <1>4, <2>4, <2>5, <2>6, SetStep
<1>5. \/ Failed(t) /\ UNCHANGED node
      \/ \E v : /\ node' = [node EXCEPT ![target[t]] = [node[target[t]] EXCEPT ![f] = v]]
                /\ Done(t)
  BY DEF Set
<1> QED BY <1>3, <1>4, <1>5

\* The names a rename is given.
LEMMA NamesOf ==
    ASSUME TreeInv, NEW t \in Threads, Renaming(t), Len(loc[t]) > 1
    PROVE  Value(t, "name") \in Names /\ OldName(t) \in Names \union {None}
<1>1. /\ Todo(t) /\ op[t].stat.name \in Names \union {None} /\ pc[t] = "set"
      /\ todo[t] \in Seq(Fields) /\ todo[t] # <<>> /\ Head(todo[t]) = "name"
  BY InSetStat DEF Renaming
<1>2. Contains(todo[t], "name")
  BY <1>1, RestOf
<1>3. was[t].name \in Names /\ (~undo[t] => op[t].stat.name \in Names)
  BY <1>1, <1>2 DEF Todo
<1> QED BY <1>1, <1>3 DEF Value, OldName

\* A file of d is given a name that d does not have.
LEMMA Renamed ==
    ASSUME TreeInv, NEW d \in Nodes, NEW old \in Names, NEW new \in Names, NEW n,
           n = tree[d][old], n # None, tree[d][new] = None, SetName(n, new), scene' = scene,
           tree' = [tree EXCEPT ![d][old] = None, ![d][new] = n]
    PROVE  /\ Grows /\ NodesInv' /\ NamesAgree' /\ Fresh' = Fresh
           /\ node' = [m \in Nodes |-> node'[m]] /\ \A m \in Nodes : IsNode(node'[m])
           /\ tree' \in [Nodes -> [Names -> Nodes \union {None}]]
           /\ n \in Nodes /\ Exists(n) /\ node'[n].name = new /\ old # new
           /\ \A m \in Nodes \ {n} : node'[m] = node[m]
           /\ \A h \in Attributes \ {"name"} : node'[n][h] = node[n][h]
           /\ tree'[d][new] = n /\ tree'[d][old] = None
           /\ \A e \in Nodes, nm \in Names :
                e # d \/ nm \notin {old, new} => tree'[e][nm] = tree[e][nm]
<1>1. /\ n \in Nodes /\ node[n].name = old /\ node[n].home = d /\ IsDir(d) /\ old # new
      /\ Exists(n) /\ IsNode(node[n]) /\ NodesInv
  BY Constants DEF TreeInv, TypeInv, NamesAgree, Exists
<1>2. PICK y : y = [node[n] EXCEPT !.name = new]
  OBVIOUS
<1>3. node' = [node EXCEPT ![n] = y]
  BY <1>2 DEF SetName
<1>4. IsNode(y) /\ y.name = new /\ \A h \in Attributes \ {"name"} : y[h] = node[n][h]
  <2>1. "name" \in Attributes
    BY DEF Attributes
  <2>2. y["name"] = new
    BY <1>1, <1>2, <2>1, OneAttribute
  <2> QED BY SMTT(20), <1>1, <1>2, <2>1, <2>2, OneAttribute
<1>5. /\ node' = [m \in Nodes |-> node'[m]] /\ \A m \in Nodes \ {n} : node'[m] = node[m]
      /\ node'[n] = y /\ \A m \in Nodes : IsNode(node'[m])
  <2>1. /\ node' = [m \in Nodes |-> node'[m]] /\ \A m \in Nodes \ {n} : node'[m] = node[m]
        /\ node'[n] = y
    BY <1>1, <1>3 DEF TreeInv, TypeInv
  <2>2. \A m \in Nodes : IsNode(node[m])
    BY DEF TreeInv, TypeInv
  <2> QED BY <1>4, <2>1, <2>2
<1>6. y.kind = node[n].kind /\ y.home = node[n].home
  BY <1>4 DEF Attributes
<1>7. Grows
  BY <1>4, <1>5, <1>6, Constants DEF Grows, Exists
<1>8. \A m \in Nodes : /\ node'[m].kind = node[m].kind /\ node'[m].home = node[m].home
                       /\ node'[m].name # node[m].name => m = n /\ node'[m].name = new
  BY <1>4, <1>5, <1>6
<1>9. NodesInv'
  <2>1. \A m \in Nodes : Exists(m) => Exists(m)'
    BY <1>7 DEF Grows
  <2> QED BY <1>1, <1>8, <2>1, Constants DEF NodesInv, IsMix, Exists
<1>10. Fresh' = Fresh
  <2>1. Absent.name = None
    BY DEF Absent, NewFile
  <2>2. n \notin Fresh /\ n \notin Fresh'
    BY <1>1, <1>4, <1>5, <2>1, Constants DEF Fresh, Exists
  <2> QED BY <1>5, <2>2 DEF Fresh
<1>11. /\ tree'[d][new] = n /\ tree'[d][old] = None
       /\ tree' \in [Nodes -> [Names -> Nodes \union {None}]]
       /\ \A e \in Nodes, nm \in Names :
            e # d \/ nm \notin {old, new} => tree'[e][nm] = tree[e][nm]
  <2>1. tree \in [Nodes -> [Names -> Nodes \union {None}]]
    BY DEF TreeInv, TypeInv
  <2>2. PICK row \in [Names -> Nodes \union {None}] :
          row = [[tree[d] EXCEPT ![old] = None] EXCEPT ![new] = n]
    BY <1>1, <2>1
  <2>3. tree' = [tree EXCEPT ![d] = row]
    BY <2>1, <2>2
  <2>4. row[new] = n /\ row[old] = None /\ \A nm \in Names \ {old, new} : row[nm] = tree[d][nm]
    BY <1>1, <2>1, <2>2
  <2> QED BY <2>1, <2>3, <2>4
<1>12. NamesAgree'
  <2> SUFFICES ASSUME NEW e \in Nodes, NEW nm \in Names, tree'[e][nm] # None
               PROVE  (/\ IsDir(e) /\ node[tree[e][nm]].name = nm
                       /\ node[tree[e][nm]].home = e)'
    BY ZenonT(20) DEF NamesAgree
  <2>1. CASE e = d /\ nm = new
    BY <1>1, <1>4, <1>5, <1>6, <1>8, <1>11, <2>1 DEF IsDir
  <2>2. CASE ~(e = d /\ nm = new)
    <3>1. tree'[e][nm] = tree[e][nm] /\ ~(e = d /\ nm = old)
      BY <1>11, <2>2
    <3>2. PICK m \in Nodes : /\ m = tree[e][nm] /\ IsDir(e) /\ node[m].name = nm
                             /\ node[m].home = e
      BY <3>1 DEF TreeInv, TypeInv, NamesAgree
    <3>3. m # n
      BY <1>1, <3>1, <3>2
    <3> QED BY <1>5, <1>8, <3>1, <3>2, <3>3 DEF IsDir
  <2> QED BY <2>1, <2>2
<1> QED BY <1>1, <1>4, <1>5, <1>7, <1>9, <1>10, <1>11, <1>12

\* A path that is not the root is longer.
LEMMA BelowRoot ==
    ASSUME TreeInv, NEW t \in Threads, Working(t), Len(loc[t]) # 1
    PROVE  Len(loc[t]) > 1
<1>1. PICK m \in Nat : m = Len(loc[t]) /\ m >= 1
  BY Here, PathEnds
<1>2. \A k \in Nat : k >= 1 /\ k # 1 => k > 1
  OBVIOUS
<1>3. m # 1
  BY <1>1
<1> QED BY <1>1, <1>2, <1>3

\* Rename.
LEMMA KeepRename == ASSUME TreeInv, NEW t \in Threads, Rename(t) PROVE Moves(t)
<1> DEFINE d   == Part(t, Parent(loc[t]))
           old == OldName(t)
           new == Value(t, "name")
           n   == tree[d][old]
<1>1. /\ Renaming(t) /\ pc[t] = "set" /\ todo[t] # <<>> /\ Working(t)
      /\ scene' = scene /\ left' = left /\ handle' = handle
      /\ loc' = loc /\ op' = op /\ path' = path /\ was' = was /\ name' = name
      /\ target' = target /\ alone' = alone /\ removed' = removed
  BY DEF Rename, Renaming, Working
<1>2. ASSUME node' = node, tree' = tree, renamed' = renamed
      PROVE  /\ Grows /\ NodesInv' /\ Fresh' = Fresh /\ NamesAgree'
             /\ node' = [m \in Nodes |-> node'[m]] /\ \A m \in Nodes : IsNode(node'[m])
             /\ tree' \in [Nodes -> [Names -> Nodes \union {None}]]
             /\ renamed' \in [Threads -> BOOLEAN] /\ removed' \subseteq Nodes
  BY <1>1, <1>2, NodeKept, TreeKept DEF TreeInv, TypeInv
<1>3. CASE pc' = [pc EXCEPT ![t] = "panic"] /\ UNCHANGED <<node, tree, todo, undo, part, found, renamed>>
  <2>1. TypeInv'
    BY <1>1, <1>2, <1>3 DEF TreeInv, TypeInv, States
  <2>2. \A u \in Threads \ {t} : SameLocal(u)
    BY <1>1, <1>3 DEF TreeInv, TypeInv, SameLocal
  <2>3. pc'[t] = "panic"
    BY <1>3 DEF TreeInv, TypeInv
  <2>4. Todo(t)'
    BY <2>3 DEF Todo
  <2> QED BY <1>1, <1>2, <1>3, <2>1, <2>2, <2>3, <2>4, MoveStep
<1>4. CASE Failed(t) /\ UNCHANGED <<node, tree, renamed>>
  BY <1>1, <1>2, <1>4, SetStep
<1>5. ASSUME Len(loc[t]) # 1, old # None, n # None, ~Taken(d, new), SetName(n, new),
             tree' = [tree EXCEPT ![d][old] = None, ![d][new] = n], Outdate(n), Done(t)
      PROVE  Moves(t)
  <2>1. Len(loc[t]) > 1
    BY <1>1, <1>5, BelowRoot
  <2>2. new \in Names /\ old \in Names /\ d \in Nodes
    BY <1>1, <1>5, <2>1, NamesOf, InParent
  <2>3. tree[d][new] = None
    BY <1>5 DEF Taken
  <2> HIDE DEF d, old, new, n
  <2>4. PICK d1, o1, w1, n1 :
          /\ d1 \in Nodes /\ o1 \in Names /\ w1 \in Names
          /\ d1 = d /\ o1 = old /\ w1 = new /\ n1 = n
    BY <2>2
  <2>5. /\ n1 = tree[d1][o1] /\ n1 # None /\ tree[d1][w1] = None /\ SetName(n1, w1)
        /\ tree' = [tree EXCEPT ![d1][o1] = None, ![d1][w1] = n1]
    BY <1>5, <2>3, <2>4 DEF n
  <2>6. /\ Grows /\ NodesInv' /\ NamesAgree' /\ Fresh' = Fresh
        /\ node' = [m \in Nodes |-> node'[m]] /\ \A m \in Nodes : IsNode(node'[m])
        /\ tree' \in [Nodes -> [Names -> Nodes \union {None}]]
    BY <1>1, <2>4, <2>5, Renamed
  <2>7. renamed' \in [Threads -> BOOLEAN] /\ removed' \subseteq Nodes
    BY <1>1, <1>5, FlagsKept DEF TreeInv, TypeInv
  <2> QED BY <1>1, <1>5, <2>6, <2>7, SetStep
<1> QED BY <1>3, <1>4, <1>5 DEF Rename, Goto

\* The search of a MixDir.
LEMMA KeepFind == ASSUME TreeInv, NEW t \in Threads, Find(t) PROVE Moves(t)
<1> DEFINE d == Part(t, Parent(loc[t]))
<1>1. /\ pc[t] = "unlink" \/ (Renaming(t) /\ pc[t] = "set" /\ todo[t] # <<>>)
      /\ ~Located(t) /\ Working(t)
      /\ scene' = scene /\ left' = left /\ node' = node /\ tree' = tree /\ handle' = handle
      /\ path' = path /\ was' = was /\ name' = name /\ alone' = alone
      /\ renamed' = renamed /\ removed' = removed
  BY DEF Find, Renaming, Working
<1>2. /\ Grows /\ NodesInv' /\ Fresh' = Fresh /\ NamesAgree'
      /\ node' = [m \in Nodes |-> node'[m]] /\ \A m \in Nodes : IsNode(node'[m])
      /\ tree' \in [Nodes -> [Names -> Nodes \union {None}]]
      /\ renamed' \in [Threads -> BOOLEAN] /\ removed' \subseteq Nodes
  BY <1>1, NodeKept, TreeKept DEF TreeInv, TypeInv
<1>3. IsMix(Parent(loc[t])) /\ Len(Parts(Parent(loc[t]))) = 2
  BY <1>1, Here, PartsOf DEF Located, TreeInv
<1>4. CASE Return(t) /\ loc' = [loc EXCEPT ![t] = <<>>] /\ UNCHANGED <<undo, part, found>>
  <2>1. /\ loc' \in [Threads -> Seq(Nodes)] /\ loc'[t] = <<>>
        /\ \A u \in Threads \ {t} : loc'[u] = loc[u]
    BY <1>4 DEF TreeInv, TypeInv
  <2> QED BY <1>1, <1>4, <2>1, ReturnQuiet DEF TreeInv, TypeInv
<1>5. CASE pc[t] # "unlink" /\ (Done(t) \/ Failed(t)) /\ UNCHANGED <<loc, op, target>>
  <2>1. pc[t] \in {"set", "setting"} /\ todo[t] # <<>>
    BY <1>1, <1>5
  <2> QED BY <1>1, <1>2, <1>5, <2>1, SetStep
<1>6. CASE /\ UNCHANGED <<loc, pc, op, todo, target, undo>>
           /\ \/ part' = [part EXCEPT ![t] = @ + 1] /\ found' = found /\ part[t] # 2
              \/ found' = [found EXCEPT ![t] = TRUE] /\ part' = part
  <2>1. part' \in [Threads -> {1, 2}] /\ found' \in [Threads -> BOOLEAN]
    <3>1. /\ part \in [Threads -> {1, 2}] /\ found \in [Threads -> BOOLEAN]
          /\ part[t] # 2 => part[t] + 1 \in {1, 2}
      BY DEF TreeInv, TypeInv
    <3> QED BY <1>6, <3>1
  <2>2. TypeInv'
    BY <1>1, <1>2, <1>6, <2>1 DEF TreeInv, TypeInv
  <2>3. \A u \in Threads \ {t} : SameLocal(u)
    BY <1>1, <1>6 DEF TreeInv, TypeInv, SameLocal
  <2>4. Stage(t) /\ Todo(t)
    BY DEF TreeInv, Local
  <2>5. Todo(t)'
    BY <1>1, <1>6, <2>4 DEF Todo
  <2>6. /\ pc'[t] \in {"unlink", "set"}
        /\ pc'[t] \in {"unlink", "unlinking"} => name'[t] \in Names /\ Len(loc[t]) > 1
        /\ pc'[t] \in {"set", "setting"} => op[t].op = "wstat"
    BY <1>1, <1>6, <2>4 DEF Stage
  <2> QED BY <1>1, <1>2, <1>3, <1>6, <2>2, <2>3, <2>5, <2>6, MoveStep
<1>7. \/ Return(t) /\ loc' = [loc EXCEPT ![t] = <<>>] /\ UNCHANGED <<undo, part, found>>
      \/ pc[t] # "unlink" /\ (Done(t) \/ Failed(t)) /\ UNCHANGED <<loc, op, target>>
      \/ /\ UNCHANGED <<loc, pc, op, todo, target, undo>>
         /\ \/ part' = [part EXCEPT ![t] = @ + 1] /\ found' = found /\ part[t] # 2
            \/ found' = [found EXCEPT ![t] = TRUE] /\ part' = part
  BY <1>3 DEF Find
<1> QED BY <1>4, <1>5, <1>6, <1>7

\* The end of setStat.
LEMMA KeepWstat == ASSUME TreeInv, NEW t \in Threads, Wstat(t) PROVE Moves(t)
<1>1. /\ Return(t)
      /\ scene' = scene /\ left' = left /\ node' = node /\ tree' = tree /\ handle' = handle
      /\ loc' = loc /\ part' = part /\ found' = found /\ path' = path /\ undo' = undo
      /\ was' = was /\ name' = name /\ alone' = alone /\ renamed' = renamed /\ removed' = removed
  BY DEF Wstat, local
<1> QED BY <1>1, ReturnQuiet DEF TreeInv, TypeInv

\* Every step keeps the invariant.
LEMMA NextTree == TreeInv /\ [Next]_vars => TreeInv'
<1>1. ASSUME TreeInv, NEW t \in Threads, Call(t) \/ Attach(t) \/ Step(t) PROVE Moves(t)
  BY <1>1, KeepCall, KeepAttach, KeepWalk, KeepCreate, KeepCanOpen, KeepOpen, KeepAccess,
     KeepClunk, KeepRemoveFid, KeepFind, KeepUnlink, KeepUnlinked, KeepWriteStat, KeepSetCheck,
     KeepSet, KeepRename, KeepWstat DEF Step
<1>2. ASSUME TreeInv, UNCHANGED vars PROVE TreeInv'
  <2>1. /\ scene' = scene /\ left' = left /\ node' = node /\ tree' = tree /\ loc' = loc
        /\ handle' = handle /\ pc' = pc /\ op' = op /\ part' = part /\ found' = found
        /\ path' = path /\ todo' = todo /\ undo' = undo /\ was' = was /\ name' = name
        /\ target' = target /\ alone' = alone /\ renamed' = renamed /\ removed' = removed
    BY <1>2 DEF vars
  <2>2. Grows /\ NodesInv' /\ Fresh' = Fresh
    BY <1>2, <2>1, NodeKept
  <2>3. NamesAgree'
    BY <1>2, <2>1, <2>2, TreeKept
  <2>4. CountInv'
    BY <1>2, <2>1, <2>2, CountKept DEF Creating
  <2>5. \A t \in Threads : Local(t)'
    BY <1>2, <2>1, <2>2, OthersKept DEF SameLocal
  <2>6. TypeInv'
    BY <1>2, <2>1 DEF TreeInv, TypeInv
  <2> QED BY <2>2, <2>3, <2>4, <2>5, <2>6 DEF TreeInv
<1> QED BY <1>1, <1>2 DEF Next, Moves

\* TreeInv, for any tree, threads and requests.
THEOREM TreeInvariant == Spec => []TreeInv
BY InitTree, NextTree, PTL DEF Spec

\* NamesAgree, for any tree, threads and requests: whatever creates, removes and renames are
\* interleaved, a directory and its files agree on names.
THEOREM NamesHold == Spec => []NamesAgree
<1>1. TreeInv => NamesAgree
  BY DEF TreeInv
<1> QED BY <1>1, TreeInvariant, PTL

\* PathShape, for any tree, threads and requests.
THEOREM PathsHold == Spec => []PathShape
<1>1. TreeInv => PathShape
  BY DEF TreeInv, Local, PathShape
<1> QED BY <1>1, TreeInvariant, PTL

-----------------------------------------------------------------------------

\* A fid is not open while it walks, creates, opens or removes.
HandleInv ==
    \A t \in Threads :
        /\ pc[t] \in {"walk", "create", "open", "opening", "unlink", "unlinking"}
             => handle[t] = None
        /\ handle[t] # None => loc[t] # <<>>

\* The threads with n open.
Openers(n) == {t \in Threads : handle[t] # None /\ Current(loc[t]) = n}

\* The inductive form of OpensCounted.
OpensInv == HandleInv /\ OpensCounted

-----------------------------------------------------------------------------
(***************************************************************************)
(* Opens are counted.                                                      *)
(***************************************************************************)
\* What every step keeps, of the files and of the threads it is not about.
LEMMA StepMoves ==
    ASSUME TreeInv, NEW t \in Threads, Call(t) \/ Attach(t) \/ Step(t)
    PROVE  Moves(t)
BY KeepCall, KeepAttach, KeepWalk, KeepCreate, KeepCanOpen, KeepOpen, KeepAccess,
   KeepClunk, KeepRemoveFid, KeepFind, KeepUnlink, KeepUnlinked, KeepWriteStat, KeepSetCheck,
   KeepSet, KeepRename, KeepWstat DEF Step

\* Every step keeps HandleInv.
LEMMA NextHandle ==
    ASSUME TreeInv, HandleInv, NEW t \in Threads, Call(t) \/ Attach(t) \/ Step(t)
    PROVE  HandleInv'
<1>1. Moves(t)
  BY StepMoves
<1>2. ASSUME NEW u \in Threads \ {t}, handle'[u] = handle[u]
      PROVE  /\ pc'[u] \in {"walk", "create", "open", "opening", "unlink", "unlinking"}
                  => handle'[u] = None
             /\ handle'[u] # None => loc'[u] # <<>>
  BY <1>1, <1>2 DEF Moves, SameLocal, HandleInv
<1>3. ASSUME \A u \in Threads \ {t} : handle'[u] = handle[u],
             pc'[t] \in {"walk", "create", "open", "opening", "unlink", "unlinking"}
               => handle'[t] = None,
             handle'[t] # None => loc'[t] # <<>>
      PROVE  HandleInv'
  BY <1>2, <1>3 DEF HandleInv
<1>4. /\ pc \in [Threads -> States] /\ loc \in [Threads -> Seq(Nodes)]
      /\ handle \in [Threads -> Modes \union {None}] /\ path \in [Threads -> Seq(Nodes)]
      /\ Working(t) => loc[t] # <<>> /\ loc[t] \in Seq(Nodes)
      /\ pc[t] = "walk" => path[t] # <<>>
      /\ pc[t] \in {"walk", "create", "open", "opening", "unlink", "unlinking"}
           => handle[t] = None
      /\ handle[t] # None => loc[t] # <<>>
  BY Here DEF TreeInv, TypeInv, HandleInv, Local, Stage
<1>5. CASE Call(t)
  <2>1. PICK c \in scene.menu[t] :
          /\ c.op \in {"walk", "create", "open"} => handle[t] = None
          /\ pc' = [pc EXCEPT ![t] = c.op] /\ handle' = handle /\ loc' = loc /\ loc[t] # <<>>
    BY <1>5 DEF Call, Goto
  <2>2. c.op \notin {"opening", "unlink", "unlinking"}
    <3>1. Request(c)
      BY <2>1 DEF TreeInv, TypeInv
    <3> QED BY <3>1 DEF Request
  <2>3. pc'[t] = c.op
    BY <1>4, <2>1
  <2> QED BY <1>3, <2>1, <2>2, <2>3
<1>6. CASE Attach(t)
  <2>1. /\ pc' = pc /\ handle' = handle /\ loc' = [loc EXCEPT ![t] = <<Root>>] /\ loc[t] = <<>>
    BY <1>6 DEF Attach
  <2>2. handle'[t] = None /\ pc'[t] = pc[t]
    BY <1>4, <2>1
  <2> QED BY <1>3, <2>1, <2>2
<1>7. CASE Walk(t)
  <2>1. /\ handle' = handle /\ pc[t] = "walk"
    BY <1>7 DEF Walk
  <2>2. handle'[t] = None
    BY <1>4, <2>1
  <2> QED BY <1>3, <2>1, <2>2
<1>8. CASE Create(t) \/ CanOpen(t)
  <2>1. handle' = handle /\ pc[t] \in {"create", "open"}
    BY <1>8 DEF Create, CanOpen
  <2>2. handle'[t] = None
    BY <1>4, <2>1
  <2> QED BY <1>3, <2>1, <2>2
<1>9. CASE Open(t)
  <2>1. /\ handle' = [handle EXCEPT ![t] = op[t].mode] /\ pc' = [pc EXCEPT ![t] = "idle"]
        /\ loc' = [loc EXCEPT ![t] = IF op[t].op = "create" THEN Append(loc[t], target[t])
                                     ELSE loc[t]]
    BY <1>9 DEF Open, Return, End, Goto
  <2>2. pc'[t] = "idle" /\ \A u \in Threads \ {t} : handle'[u] = handle[u]
    BY <1>4, <2>1
  <2>3. loc'[t] # <<>>
    <3>1. loc[t] # <<>> /\ loc[t] \in Seq(Nodes)
      BY <1>4, <1>9 DEF Open, Working
    <3>2. Append(loc[t], target[t]) # <<>>
      BY <3>1
    <3>3. loc'[t] \in {loc[t], Append(loc[t], target[t])}
      BY <1>4, <2>1
    <3> QED BY <3>1, <3>2, <3>3
  <2> QED BY <1>3, <2>2, <2>3
<1>10. CASE Clunk(t) \/ Die(t)
  <2>1. CloseHandle(t)
    BY <1>10 DEF Clunk, Die
  <2>2. handle' = [handle EXCEPT ![t] = None]
    BY <1>4, <2>1 DEF CloseHandle
  <2>3. handle'[t] = None /\ \A u \in Threads \ {t} : handle'[u] = handle[u]
    BY <1>4, <2>2
  <2> QED BY <1>3, <2>3
<1>11. CASE RemoveFid(t)
  <2>1. CloseHandle(t)
    BY <1>11 DEF RemoveFid
  <2>2. handle' = [handle EXCEPT ![t] = None]
    BY <1>4, <2>1 DEF CloseHandle
  <2>3. handle'[t] = None /\ \A u \in Threads \ {t} : handle'[u] = handle[u]
    BY <1>4, <2>2
  <2> QED BY <1>3, <2>3
<1>12. CASE Unlink(t) \/ Unlinked(t)
  <2>1. handle' = handle /\ pc[t] \in {"unlink", "unlinking"}
    BY <1>12 DEF Unlink, Unlinked
  <2>2. handle'[t] = None
    BY <1>4, <2>1
  <2> QED BY <1>3, <2>1, <2>2
<1>13. CASE \/ Read(t) \/ Write(t) \/ WriteStat(t) \/ SetCheck(t) \/ Set(t) \/ Rename(t)
            \/ Wstat(t)
  <2>1. handle' = handle /\ loc' = loc
    BY <1>13 DEF Read, Write, WriteStat, SetCheck, Set, Rename, Wstat
  <2>2. pc'[t] \in {"idle", "set", "setting", "panic"}
    <3>1. PICK l \in {"idle", "set", "setting", "panic"} : pc' = [pc EXCEPT ![t] = l]
      BY <1>13 DEF Read, Write, WriteStat, SetCheck, Set, Rename, Wstat, Return, End, Goto, Done,
                   Failed
    <3> QED BY <1>4, <3>1
  <2> QED BY <1>3, <1>4, <2>1, <2>2
<1>14. CASE Find(t)
  <2>1. handle' = handle
    BY <1>14 DEF Find
  <2>2. CASE pc[t] = "unlink"
    <3>1. handle'[t] = None
      BY <1>4, <2>1, <2>2
    <3> QED BY <1>3, <2>1, <3>1
  <2>3. CASE pc[t] # "unlink"
    <3>1. pc[t] = "set" /\ loc' = loc /\ (pc' = pc \/ pc' = [pc EXCEPT ![t] = "set"])
      BY <1>14, <2>3 DEF Find, Renaming, Done, Failed, Goto
    <3>2. pc'[t] = "set"
      BY <1>4, <3>1
    <3> QED BY <1>3, <1>4, <2>1, <3>1, <3>2
  <2> QED BY <2>2, <2>3
<1> QED BY <1>5, <1>6, <1>7, <1>8, <1>9, <1>10, <1>11, <1>12, <1>13, <1>14 DEF Step

\* A step that opens and closes nothing keeps the count.
LEMMA SameOpens ==
    ASSUME TreeInv, OpensCounted, Grows,
           \A n \in Nodes : ~IsMix(n) => node'[n].opens = node[n].opens /\ Openers(n)' = Openers(n)
    PROVE  OpensCounted'
<1> SUFFICES ASSUME NEW n \in Nodes, ~IsMix(n)' PROVE node'[n].opens = Cardinality(Openers(n)')
  BY DEF OpensCounted, Openers
<1>1. ~IsMix(n)
  <2>1. IsMix(n) => Exists(n)
    BY DEF TreeInv, NodesInv
  <2> QED BY <2>1 DEF IsMix, Grows
<1> QED BY <1>1 DEF OpensCounted, Openers

\* A thread whose handle and file stay the same.
LEMMA SameOpeners ==
    ASSUME NEW t \in Threads, \A u \in Threads \ {t} : handle'[u] = handle[u] /\ SameLocal(u),
           \/ handle[t] = None /\ handle'[t] = None
           \/ handle'[t] = handle[t] /\ loc'[t] = loc[t]
    PROVE  \A n : Openers(n)' = Openers(n)
<1>1. ASSUME NEW u \in Threads
      PROVE  /\ handle'[u] # None <=> handle[u] # None
             /\ handle[u] # None => Current(loc[u])' = Current(loc[u])
  BY DEF SameLocal, Current
<1> QED BY <1>1 DEF Openers

\* A close takes one from the count and one from the open fids.
LEMMA ClosesOne ==
    ASSUME TreeInv, OpensInv, NEW t \in Threads, Working(t), CloseHandle(t), Moves(t)
    PROVE  OpensCounted'
<1>1. /\ handle' = [handle EXCEPT ![t] = None] /\ handle'[t] = None
      /\ \A u \in Threads \ {t} : handle'[u] = handle[u] /\ SameLocal(u)
  <2>1. handle' = [handle EXCEPT ![t] = None] /\ handle \in [Threads -> Modes \union {None}]
    BY DEF CloseHandle, TreeInv, TypeInv
  <2> QED BY <2>1 DEF Moves
<1>2. /\ TreeInv /\ OpensCounted /\ Grows
  BY DEF OpensInv, Moves
<1>3. CASE handle[t] = None
  <2>1. node' = node
    BY <1>3 DEF CloseHandle
  <2>2. \A n : Openers(n)' = Openers(n)
    BY <1>1, <1>3, SameOpeners
  <2> QED BY <1>2, <2>1, <2>2, SameOpens
<1>4. CASE handle[t] # None
  <2>1. PICK n \in Nodes : n = Current(loc[t]) /\ Exists(n) /\ IsNode(node[n])
    BY Here DEF TreeInv, TypeInv
  <2>2. \A m \in Nodes : m # n => Openers(m)' = Openers(m)
    <3>1. ASSUME NEW m \in Nodes, m # n, NEW u \in Threads
          PROVE  /\ handle'[u] # None /\ Current(loc[u])' = m <=> handle[u] # None /\ Current(loc[u]) = m
      BY <1>1, <2>1, <3>1 DEF SameLocal, Current
    <3> QED BY <3>1 DEF Openers
  <2>3. Openers(n)' = Openers(n) \ {t} /\ t \in Openers(n)
    <3>1. ASSUME NEW u \in Threads \ {t}
          PROVE  /\ handle'[u] # None /\ Current(loc[u])' = n <=> handle[u] # None /\ Current(loc[u]) = n
      BY <1>1 DEF SameLocal, Current
    <3> QED BY <1>1, <1>4, <2>1, <3>1 DEF Openers
  <2>4. CASE IsMix(n)
    <3>1. node' = node
      BY <1>4, <2>1, <2>4 DEF CloseHandle
    <3>2. \A m \in Nodes : ~IsMix(m) => node'[m].opens = node[m].opens /\ Openers(m)' = Openers(m)
      BY <2>2, <2>4, <3>1
    <3> QED BY <1>2, <3>2, SameOpens
  <2>5. CASE ~IsMix(n)
    <3>1. node' = [node EXCEPT ![n] = [node[n] EXCEPT !.opens = node[n].opens - 1]]
      BY <1>4, <2>1, <2>5 DEF CloseHandle
    <3>2. node = [m \in Nodes |-> node[m]] /\ "opens" \in Attributes
      BY DEF TreeInv, TypeInv, Attributes
    <3>3. node'[n].opens = node[n].opens - 1 /\ \A m \in Nodes \ {n} : node'[m] = node[m]
      <4>1. PICK y : y = [node[n] EXCEPT !.opens = node[n].opens - 1]
        OBVIOUS
      <4>2. y.opens = node[n].opens - 1
        BY <2>1, <3>2, <4>1, OneAttribute
      <4>3. node'[n] = y /\ \A m \in Nodes \ {n} : node'[m] = node[m]
        BY <3>1, <3>2, <4>1
      <4> QED BY <4>2, <4>3
    <3>4. /\ IsFiniteSet(Openers(n)) /\ Cardinality(Openers(n)) \in Nat
          /\ Cardinality(Openers(n)') = Cardinality(Openers(n)) - 1
      <4>1. IsFiniteSet(Openers(n))
        BY FS_Subset DEF Openers
      <4> QED BY <2>3, <4>1, FS_RemoveElement, FS_CardinalityType
    <3>5. node[n].opens = Cardinality(Openers(n))
      BY <1>2, <2>5 DEF OpensCounted, Openers
    <3>6. node'[n].opens = Cardinality(Openers(n)')
      BY <3>3, <3>4, <3>5
    <3>7. ASSUME NEW m \in Nodes, m # n, ~IsMix(m)'
          PROVE  node'[m].opens = Cardinality(Openers(m)')
      <4>1. node'[m] = node[m] /\ ~IsMix(m)
        BY <3>3, <3>7 DEF IsMix
      <4> QED BY <1>2, <2>2, <3>7, <4>1 DEF OpensCounted, Openers
    <3> QED BY <3>6, <3>7 DEF OpensCounted, Openers
  <2> QED BY <2>4, <2>5
<1> QED BY <1>3, <1>4

\* An open adds one to both.
LEMMA OpensOne ==
    ASSUME TreeInv, OpensInv, NEW t \in Threads, Open(t), Moves(t)
    PROVE  OpensCounted'
<1>1. /\ pc[t] = "opening" /\ Working(t) /\ handle[t] = None
      /\ handle' = [handle EXCEPT ![t] = op[t].mode]
  BY DEF Open, Working, OpensInv, HandleInv
<1>2. /\ TreeInv /\ OpensCounted /\ Grows /\ Stage(t) /\ Target(t) /\ NodesInv
  BY DEF OpensInv, Moves, TreeInv, Local
<1>3. /\ loc[t] \in Seq(Nodes) /\ loc[t] # <<>> /\ Current(loc[t]) \in Nodes
      /\ op[t].op \in {"open", "create"} /\ op[t].mode \in Modes
  <2>1. op[t].op \in {"open", "create"}
    BY <1>1, <1>2 DEF Stage
  <2> QED BY <1>1, <2>1, Here DEF Request
<1>4. /\ handle'[t] # None /\ \A u \in Threads \ {t} : handle'[u] = handle[u] /\ SameLocal(u)
  BY <1>1, <1>3, Constants DEF Moves, TreeInv, TypeInv
<1>5. PICK n \in Nodes : n = target[t] /\ Exists(n) /\ IsNode(node[n])
  BY <1>1, Here DEF TreeInv, TypeInv
<1>6. loc' = [loc EXCEPT ![t] = IF op[t].op = "create" THEN Append(loc[t], n) ELSE loc[t]]
  BY <1>5 DEF Open
<1>7. CASE Uncounted(t)
  <2>1. /\ node' = node /\ loc'[t] = loc[t] /\ IsMix(Current(loc[t]))
    BY <1>6, <1>7 DEF Open, Uncounted, TreeInv, TypeInv
  <2>2. ASSUME NEW m \in Nodes, ~IsMix(m), NEW u \in Threads
        PROVE  handle'[u] # None /\ Current(loc[u])' = m <=> handle[u] # None /\ Current(loc[u]) = m
    BY <1>4, <2>1, <2>2 DEF SameLocal, Current
  <2>3. \A m \in Nodes : ~IsMix(m) => node'[m].opens = node[m].opens /\ Openers(m)' = Openers(m)
    BY <2>1, <2>2 DEF Openers
  <2> QED BY <1>2, <2>3, SameOpens
<1>8. CASE ~Uncounted(t)
  <2>1. Current(loc[t])' = n /\ ~IsMix(n)
    <3>1. CASE op[t].op = "create"
      <4>1. node[n].home \in Range(Parts(Current(loc[t])))
        BY <1>1, <1>2, <1>5, <3>1 DEF Target
      <4>2. node[n].home \in Nodes /\ node[n].home # None
        BY <1>2, <1>3, <4>1, PartsOf, Constants
      <4>3. ~IsMix(n)
        BY <1>2, <4>2 DEF NodesInv
      <4>4. PICK p \in Seq(Nodes) : p = loc[t] /\ p # <<>> /\ Chain(p)
        BY <1>1, Here
      <4>5. Current(Append(p, n)) = n
        BY <1>2, <4>1, <4>4, DownChain
      <4>6. loc'[t] = Append(p, n)
        BY <1>6, <3>1, <4>4 DEF TreeInv, TypeInv
      <4> QED BY <4>3, <4>5, <4>6 DEF Current
    <3>2. CASE op[t].op # "create"
      <4>1. op[t].op = "open"
        BY <1>3, <3>2
      <4>2. ~IsMix(Current(loc[t])) /\ n = Own(Current(loc[t]))
        BY <1>1, <1>2, <1>5, <1>8, <4>1 DEF Uncounted, Target
      <4>3. n = Current(loc[t])
        BY <1>2, <1>3, <4>2, PartsOf
      <4>4. loc'[t] = loc[t]
        BY <1>6, <3>2 DEF TreeInv, TypeInv
      <4> QED BY <4>2, <4>3, <4>4 DEF Current
    <3> QED BY <3>1, <3>2
  <2>2. PICK w : node' = [node EXCEPT ![n] = [[node[n] EXCEPT !.opens = node[n].opens + 1] EXCEPT !.len = w]]
    BY <1>5, <1>8 DEF Open
  <2>3. node'[n].opens = node[n].opens + 1 /\ \A m \in Nodes \ {n} : node'[m] = node[m]
    <3>1. PICK x : x = [node[n] EXCEPT !.opens = node[n].opens + 1]
      OBVIOUS
    <3>2. PICK y : y = [x EXCEPT !.len = w]
      OBVIOUS
    <3>3. "opens" \in Attributes /\ "len" \in Attributes /\ "opens" # "len"
      BY DEF Attributes
    <3>4. IsNode(x) /\ x.opens = node[n].opens + 1
      BY <1>5, <3>1, <3>3, OneAttribute
    <3>5. y.opens = x.opens
      BY <3>2, <3>3, <3>4, OneAttribute
    <3>6. node = [m \in Nodes |-> node[m]]
      BY DEF TreeInv, TypeInv
    <3>7. node'[n] = y /\ \A m \in Nodes \ {n} : node'[m] = node[m]
      BY <2>2, <3>1, <3>2, <3>6
    <3> QED BY <3>4, <3>5, <3>7
  <2>4. ASSUME NEW m \in Nodes, m # n PROVE Openers(m)' = Openers(m)
    <3>1. ASSUME NEW u \in Threads
          PROVE  handle'[u] # None /\ Current(loc[u])' = m <=> handle[u] # None /\ Current(loc[u]) = m
      BY <1>1, <1>4, <2>1, <2>4 DEF SameLocal, Current
    <3> QED BY <3>1 DEF Openers
  <2>5. Openers(n)' = Openers(n) \union {t} /\ t \notin Openers(n)
    <3>1. ASSUME NEW u \in Threads \ {t}
          PROVE  handle'[u] # None /\ Current(loc[u])' = n <=> handle[u] # None /\ Current(loc[u]) = n
      BY <1>4 DEF SameLocal, Current
    <3> QED BY <1>1, <1>4, <2>1, <3>1 DEF Openers
  <2>6. /\ Cardinality(Openers(n)) \in Nat
        /\ Cardinality(Openers(n)') = Cardinality(Openers(n)) + 1
    <3>1. IsFiniteSet(Openers(n))
      BY FS_Subset DEF Openers
    <3> QED BY <2>5, <3>1, FS_AddElement, FS_CardinalityType
  <2>7. node[n].opens = Cardinality(Openers(n))
    BY <1>2, <2>1 DEF OpensCounted, Openers
  <2>8. node'[n].opens = Cardinality(Openers(n)')
    BY <2>3, <2>6, <2>7
  <2>9. ASSUME NEW m \in Nodes, m # n, ~IsMix(m)'
        PROVE  node'[m].opens = Cardinality(Openers(m)')
    <3>1. node'[m] = node[m] /\ ~IsMix(m)
      BY <2>3, <2>9 DEF IsMix
    <3> QED BY <1>2, <2>4, <2>9, <3>1 DEF OpensCounted, Openers
  <2> QED BY <2>8, <2>9 DEF OpensCounted, Openers
<1> QED BY <1>7, <1>8

\* create finds a free node.
LEMMA FreshNode ==
    ASSUME TreeInv, NEW t \in Threads, pc[t] = "create", NEW n, n = CHOOSE m \in Fresh : TRUE
    PROVE  n \in Nodes /\ node[n] = Absent /\ ~Exists(n)
<1>1. Creating # {}
  BY DEF Creating
<1>2. Cardinality(Creating) # 0
  BY <1>1, Finite, FS_EmptySet
<1>3. Cardinality(Fresh) # 0
  BY <1>2, Finite DEF TreeInv, CountInv
<1>4. n \in Fresh
  BY <1>3, FS_EmptySet
<1> QED BY <1>4 DEF Fresh, Exists, Absent, NewFile

\* Steps that change a file and not its opens.
LEMMA NodeChanges ==
    ASSUME TreeInv, NEW t \in Threads, Write(t) \/ Set(t) \/ Rename(t) \/ Create(t)
    PROVE  \A m \in Nodes : node'[m].opens = node[m].opens
<1>1. node = [m \in Nodes |-> node[m]] /\ \A m \in Nodes : IsNode(node[m])
  BY DEF TreeInv, TypeInv
<1>2. CASE node' = node
  BY <1>2
<1>3. CASE Write(t)
  <2>1. PICK n, l, y : /\ n \in Nodes /\ y = [node[n] EXCEPT !.len = l]
                       /\ node' = [node EXCEPT ![n] = y]
    <3>1. Current(loc[t]) \in Nodes
      BY <1>3, Here DEF Write, Working
    <3> QED BY <1>3, <3>1 DEF Write
  <2>2. y.opens = node[n].opens
    <3>1. "opens" \in Attributes \ {"len"} /\ "len" \in Attributes
      BY DEF Attributes
    <3> QED BY <1>1, <2>1, <3>1, OneAttribute
  <2> QED BY <1>1, <2>1, <2>2
<1>4. CASE Set(t)
  <2>1. /\ pc[t] = "setting" /\ target[t] \in Nodes /\ todo[t] # <<>>
        /\ Head(todo[t]) \in {"perm", "uid", "len"}
    <3>1. pc[t] = "setting"
      BY <1>4 DEF Set
    <3>2. todo[t] \in Seq(Fields) /\ todo[t] # <<>> /\ Head(todo[t]) # "name" /\ Working(t)
      BY <3>1, InSetStat DEF Todo
    <3>3. Head(todo[t]) \in Fields
      BY <3>2, RestOf
    <3> QED BY <3>1, <3>2, <3>3, Here DEF Fields
  <2>2. CASE node' # node
    <3>1. PICK n, f, v, y :
            /\ n \in Nodes /\ n = target[t] /\ f = Head(todo[t]) /\ f \in {"perm", "uid", "len"}
            /\ y = [node[n] EXCEPT ![f] = v] /\ node' = [node EXCEPT ![n] = y]
      BY <1>4, <2>1, <2>2 DEF Set
    <3>2. f \in Attributes /\ "opens" \in Attributes \ {f}
      BY <3>1 DEF Attributes
    <3>3. \A h \in Attributes \ {f} : y[h] = node[n][h]
      BY <1>1, <3>1, <3>2, OneAttribute
    <3>4. y.opens = node[n].opens
      BY <3>1, <3>2, <3>3
    <3>5. node'[n] = y /\ \A m \in Nodes \ {n} : node'[m] = node[m]
      BY <1>1, <3>1
    <3> QED BY <1>4, <2>1, <3>1, <3>4, <3>5
  <2> QED BY <1>2, <2>2
<1>5. CASE Rename(t)
  <2>1. CASE node' # node
    <3>1. PICK n, new, y : y = [node[n] EXCEPT !.name = new] /\ node' = [node EXCEPT ![n] = y]
      BY <1>5, <2>1 DEF Rename, SetName
    <3>2. CASE n \in Nodes
      <4>1. y.opens = node[n].opens
        <5>1. "opens" \in Attributes \ {"name"} /\ "name" \in Attributes
          BY DEF Attributes
        <5> QED BY <1>1, <3>1, <3>2, <5>1, OneAttribute
      <4> QED BY <1>1, <3>1, <3>2, <4>1
    <3>3. CASE n \notin Nodes
      BY <1>1, <2>1, <3>1, <3>3
    <3> QED BY <3>2, <3>3
  <2> QED BY <1>2, <2>1
<1>6. CASE Create(t)
  <2>1. CASE node' # node
    <3>1. PICK n : n = CHOOSE m \in Fresh : TRUE
      OBVIOUS
    <3>2. n \in Nodes /\ node[n] = Absent /\ ~Exists(n)
      BY <1>6, <3>1, FreshNode DEF Create
    <3>3. PICK new : node' = [node EXCEPT ![n] = new] /\ new.opens = 0
      <4>1. PICK nm, p, u, d : node' = [node EXCEPT ![n] = NewDir(nm, p, u, d)]
                               \/ node' = [node EXCEPT ![n] = NewFile(nm, p, u, d)]
        <5> DEFINE d == CreateDir(Current(loc[t]))
                   c == op[t]
        <5>1. node' = [node EXCEPT ![n] =
                IF c.dir THEN NewDir(c.name, CreatePerm(d, c), node[d].uid, d)
                         ELSE NewFile(c.name, CreatePerm(d, c), node[d].uid, d)]
          BY <1>6, <2>1, <3>1 DEF Create
        <5> QED BY <5>1
      <4>2. NewDir(nm, p, u, d).opens = 0 /\ NewFile(nm, p, u, d).opens = 0
        BY DEF NewDir, NewFile
      <4> QED BY <4>1, <4>2
    <3>4. node[n].opens = 0
      BY <3>2 DEF Absent, NewFile
    <3> QED BY <1>1, <3>2, <3>3, <3>4
  <2> QED BY <1>2, <2>1
<1> QED BY <1>3, <1>4, <1>5, <1>6

\* Every step keeps the count.
LEMMA NextOpens ==
    ASSUME TreeInv, OpensInv, NEW t \in Threads, Call(t) \/ Attach(t) \/ Step(t)
    PROVE  OpensInv'
<1>1. Moves(t) /\ HandleInv' /\ Grows /\ TreeInv /\ OpensCounted
  BY StepMoves, NextHandle DEF OpensInv, Moves
<1>2. ASSUME handle' = handle, loc'[t] = loc[t] \/ handle[t] = None,
             node' = node \/ Write(t) \/ Set(t) \/ Rename(t) \/ Create(t)
      PROVE  OpensCounted'
  <2>1. \A n : Openers(n)' = Openers(n)
    BY <1>1, <1>2, SameOpeners DEF Moves
  <2>2. \A n \in Nodes : node'[n].opens = node[n].opens
    BY <1>2, NodeChanges
  <2> QED BY <1>1, <2>1, <2>2, SameOpens
<1>3. /\ pc[t] \in {"walk", "create", "open", "opening", "unlink", "unlinking"} => handle[t] = None
      /\ handle[t] # None => loc[t] # <<>>
  BY DEF OpensInv, HandleInv
<1> SUFFICES OpensCounted'
  BY <1>1 DEF OpensInv
<1>4. CASE \/ Call(t) \/ Create(t) \/ CanOpen(t) \/ Read(t) \/ Write(t) \/ WriteStat(t) \/ SetCheck(t)
           \/ Set(t) \/ Rename(t) \/ Wstat(t)
  <2>1. handle' = handle /\ loc' = loc
    BY <1>4 DEF Call, Create, CanOpen, Read, Write, WriteStat, SetCheck, Set, Rename, Wstat
  <2>2. node' = node \/ Write(t) \/ Set(t) \/ Rename(t) \/ Create(t)
    BY <1>4 DEF Call, CanOpen, Read, WriteStat, SetCheck, Wstat
  <2> QED BY <1>2, <2>1, <2>2
<1>5. CASE Attach(t) \/ Walk(t) \/ Unlink(t) \/ Unlinked(t)
  <2>1. handle' = handle /\ node' = node /\ handle[t] = None
    BY <1>3, <1>5 DEF Attach, Walk, Unlink, Unlinked
  <2> QED BY <1>2, <2>1
<1>6. CASE Find(t)
  <2>1. /\ handle' = handle /\ node' = node
        /\ pc[t] = "unlink" \/ loc' = loc
    BY <1>6 DEF Find
  <2> QED BY <1>2, <1>3, <2>1
<1>7. CASE Open(t)
  BY <1>1, <1>7, OpensOne
<1>8. CASE Clunk(t) \/ Die(t) \/ RemoveFid(t)
  <2>1. CloseHandle(t) /\ Working(t)
    BY <1>8 DEF Clunk, Die, RemoveFid, Working
  <2> QED BY <1>1, <2>1, ClosesOne
<1> QED BY <1>4, <1>5, <1>6, <1>7, <1>8 DEF Step

\* OpensCounted, for any tree, threads and requests.
THEOREM OpensRight == Spec => []OpensCounted
<1>1. Init => OpensInv
  <2> SUFFICES ASSUME Init PROVE OpensInv
    OBVIOUS
  <2>1. HandleInv
    BY DEF Init, HandleInv
  <2>2. ASSUME NEW n \in Nodes PROVE node[n].opens = Cardinality(Openers(n))
    <3>1. node[n].opens = 0
      <4>1. Wellformed(scene) /\ Absent.opens = 0
        BY DEF Init, Absent, NewFile
      <4>2. \A m \in DOMAIN scene.node : scene.node[m].opens = 0
        BY <4>1 DEF Wellformed
      <4> QED BY <4>1, <4>2 DEF Init
    <3>2. Openers(n) = {}
      BY DEF Init, Openers
    <3> QED BY <3>1, <3>2, FS_EmptySet
  <2> QED BY <2>1, <2>2 DEF OpensInv, OpensCounted, Openers
<1>2. TreeInv /\ OpensInv /\ [Next]_vars => OpensInv'
  <2>1. ASSUME TreeInv, OpensInv, UNCHANGED vars PROVE OpensInv'
    BY <2>1 DEF vars, OpensInv, HandleInv, OpensCounted, IsMix
  <2> QED BY <2>1, NextOpens DEF Next
<1>3. OpensInv => OpensCounted
  BY DEF OpensInv
<1> QED BY <1>1, <1>2, <1>3, TreeInvariant, PTL DEF Spec

-----------------------------------------------------------------------------

\* Which step brings a thread where.
LEMMA Enters ==
    ASSUME TreeInv, NEW t \in Threads, Call(t) \/ Attach(t) \/ Step(t)
    PROVE  /\ pc'[t] = "setting" => SetCheck(t) /\ MaySet(t, Head(todo[t])) /\ todo' = todo
           /\ pc'[t] = "unlink" => RemoveFid(t) \/ (Find(t) /\ pc[t] = "unlink")
           /\ pc'[t] = "unlinking" => Unlink(t)
           /\ pc'[t] = "panic" => \/ (Read(t) \/ Write(t)) /\ op[t].negative
                                  \/ Rename(t) /\ Len(loc[t]) = 1
           /\ pc'[t] = "set" => WriteStat(t) \/ pc[t] \in {"set", "setting"}
           /\ pc'[t] \in {"read", "write", "remove", "wstat"} => Call(t)
<1>1. pc \in [Threads -> States] /\ pc[t] \in States
  BY DEF TreeInv, TypeInv
<1>2. ASSUME NEW l, pc' = [pc EXCEPT ![t] = l] PROVE pc'[t] = l
  BY <1>1, <1>2
<1>3. CASE Call(t)
  <2>1. PICK c \in scene.menu[t] : pc' = [pc EXCEPT ![t] = c.op]
    BY <1>3 DEF Call, Goto
  <2>2. Request(c)
    BY <2>1 DEF TreeInv, TypeInv
  <2>3. pc'[t] = c.op
    BY <1>2, <2>1
  <2> QED BY <1>3, <2>2, <2>3 DEF Request
<1>4. CASE Attach(t)
  BY <1>4 DEF Attach
<1>5. CASE Walk(t)
  <2>1. pc[t] = "walk" /\ (pc' = pc \/ pc' = [pc EXCEPT ![t] = "idle"])
    BY <1>5 DEF Walk, Return, End, Goto
  <2> QED BY <1>1, <2>1
<1>6. CASE Create(t)
  <2>1. pc' = [pc EXCEPT ![t] = "idle"] \/ pc' = [pc EXCEPT ![t] = "open"]
    BY <1>6 DEF Create, Return, End, Goto
  <2> QED BY <1>1, <2>1
<1>7. CASE CanOpen(t)
  <2>1. pc' = [pc EXCEPT ![t] = "idle"] \/ pc' = [pc EXCEPT ![t] = "opening"]
    BY <1>7 DEF CanOpen, Return, End, Goto
  <2> QED BY <1>1, <1>7, <2>1
<1>8. CASE Open(t) \/ Clunk(t) \/ Die(t) \/ Unlinked(t) \/ Wstat(t)
  <2>1. pc' = [pc EXCEPT ![t] = "idle"] \/ pc' = [pc EXCEPT ![t] = "dead"]
    BY <1>8 DEF Open, Clunk, Die, Unlinked, Wstat, Return, End, Goto
  <2> QED BY <1>1, <2>1
<1>9. CASE RemoveFid(t)
  <2>1. pc' = [pc EXCEPT ![t] = "idle"] \/ pc' = [pc EXCEPT ![t] = "unlink"]
    BY <1>9 DEF RemoveFid, Return, End, Goto
  <2>2. pc'[t] \in {"idle", "unlink"}
    BY <1>1, <2>1
  <2> QED BY <1>9, <2>2
<1>10. CASE Unlink(t)
  <2>1. pc' = [pc EXCEPT ![t] = "idle"] \/ pc' = [pc EXCEPT ![t] = "unlinking"]
    BY <1>10 DEF Unlink, Return, End, Goto
  <2> QED BY <1>1, <1>10, <2>1
<1>11. CASE WriteStat(t)
  <2>1. pc' = [pc EXCEPT ![t] = "idle"] \/ pc' = [pc EXCEPT ![t] = "set"]
    BY <1>11 DEF WriteStat, Return, End, Goto
  <2> QED BY <1>1, <1>11, <2>1
<1>12. CASE SetCheck(t)
  <2>1. /\ pc[t] = "set"
        /\ \/ pc' = [pc EXCEPT ![t] = "set"]
           \/ pc' = [pc EXCEPT ![t] = "setting"] /\ MaySet(t, Head(todo[t])) /\ todo' = todo
    BY <1>12 DEF SetCheck, Failed, Goto
  <2> QED BY <1>1, <1>12, <2>1
<1>13. CASE Set(t)
  <2>1. pc[t] = "setting" /\ pc' = [pc EXCEPT ![t] = "set"]
    BY <1>13 DEF Set, Failed, Done, Goto
  <2> QED BY <1>1, <2>1
<1>14. CASE Rename(t)
  <2>1. /\ pc[t] = "set"
        /\ pc' = [pc EXCEPT ![t] = "set"] \/ (pc' = [pc EXCEPT ![t] = "panic"] /\ Len(loc[t]) = 1)
    BY <1>14 DEF Rename, Renaming, Failed, Done, Goto
  <2> QED BY <1>1, <1>14, <2>1
<1>15. CASE Find(t)
  <2>1. \/ pc[t] = "unlink" /\ (pc' = pc \/ pc' = [pc EXCEPT ![t] = "idle"])
        \/ pc[t] = "set" /\ (pc' = pc \/ pc' = [pc EXCEPT ![t] = "set"])
    BY <1>15 DEF Find, Renaming, Failed, Done, Goto, Return, End
  <2> QED BY <1>1, <1>15, <2>1
<1>16. CASE Read(t) \/ Write(t)
  <2>1. \/ pc' = [pc EXCEPT ![t] = "idle"]
        \/ pc' = [pc EXCEPT ![t] = "panic"] /\ op[t].negative
    BY <1>16 DEF Read, Write, Return, End, Goto
  <2> QED BY <1>1, <1>16, <2>1
<1> QED BY <1>3, <1>4, <1>5, <1>6, <1>7, <1>8, <1>9, <1>10, <1>11, <1>12, <1>13, <1>14, <1>15,
           <1>16 DEF Step

-----------------------------------------------------------------------------
(***************************************************************************)
(* The requests that panic.                                                *)
(***************************************************************************)
\* How the list of changes still to make gets shorter or is replaced.
LEMMA TodoStep ==
    ASSUME TreeInv, NEW t \in Threads, Call(t) \/ Attach(t) \/ Step(t),
           pc[t] \in {"set", "setting"}, pc'[t] \in {"set", "setting", "panic"}
    PROVE  /\ loc'[t] = loc[t] /\ op'[t] = op[t] /\ was'[t] = was[t]
           /\ \/ todo'[t] = todo[t] /\ undo'[t] = undo[t]
              \/ todo[t] # <<>> /\ todo'[t] = Tail(todo[t]) /\ (undo[t] => undo'[t])
              \/ todo[t] # <<>> /\ ~undo[t] /\ undo'[t] /\ todo'[t] = Undo(Head(todo[t]))
           /\ pc'[t] = "panic" => undo'[t] = undo[t]
<1>1. /\ pc \in [Threads -> States] /\ todo = [u \in Threads |-> todo[u]]
      /\ undo \in [Threads -> BOOLEAN]
  BY DEF TreeInv, TypeInv
<1>2. CASE SetCheck(t) \/ Set(t) \/ Rename(t) \/ (Find(t) /\ Renaming(t))
  <2>1. loc' = loc /\ op' = op /\ was' = was
    BY <1>2 DEF SetCheck, Set, Rename, Find, Renaming
  <2>2. \/ todo' = todo /\ undo' = undo
        \/ todo[t] # <<>> /\ (Done(t) \/ Failed(t))
    <3>1. CASE SetCheck(t)
      BY <3>1 DEF SetCheck
    <3>2. CASE Set(t)
      <4>1. todo[t] # <<>>
        BY <3>2 DEF Set, TreeInv, Local, Todo
      <4> QED BY <3>2, <4>1 DEF Set
    <3>3. CASE Rename(t)
      BY <3>3 DEF Rename, Renaming
    <3>4. CASE Find(t) /\ Renaming(t)
      BY <3>4 DEF Find, Renaming
    <3> QED BY <1>2, <3>1, <3>2, <3>3, <3>4
  <2>3. \/ todo' = todo /\ undo' = undo
        \/ /\ todo[t] # <<>> /\ todo' = [todo EXCEPT ![t] = Tail(todo[t])]
           /\ undo' = undo \/ undo' = [undo EXCEPT ![t] = TRUE]
           /\ pc' = [pc EXCEPT ![t] = "set"]
        \/ /\ todo[t] # <<>> /\ ~undo[t] /\ todo' = [todo EXCEPT ![t] = Undo(Head(todo[t]))]
           /\ undo' = [undo EXCEPT ![t] = TRUE]
           /\ pc' = [pc EXCEPT ![t] = "set"]
    BY <2>2 DEF Done, Failed, Goto
  <2> QED BY <1>1, <2>1, <2>3
<1>3. CASE Wstat(t)
  <2>1. pc' = [pc EXCEPT ![t] = "idle"]
    BY <1>3 DEF Wstat, Return, End, Goto
  <2> QED BY <1>1, <2>1
<1> QED BY <1>2, <1>3 DEF Step, Call, Attach, Walk, Create, CanOpen, Open, Read, Write, Clunk, Die,
               RemoveFid, Find, Unlink, Unlinked, WriteStat

\* What PanicsKnown says of a thread.
Known(t) ==
    \/ op[t].op \in {"read", "write"} /\ op[t].negative /\ ~IsDir(Current(loc[t]))
    \/ /\ op[t].op = "wstat" /\ op[t].stat.len # None /\ undo[t]
       /\ Len(loc[t]) = 1 /\ ~IsDir(Root)

(***************************************************************************)
(* A root whose rename is still to come is a file, and its length was to   *)
(* be changed; the rename is one that takes changes back.                  *)
(***************************************************************************)
RenamesRoot(t) ==
    pc[t] \in {"set", "setting"} /\ Len(loc[t]) = 1 =>
        /\ \A f \in {"name", "len"} :
             Contains(todo[t], f) => ~IsDir(Root) /\ op[t].stat.len # None
        /\ ~undo[t] => ~Contains(todo[t], "name")

\* A thread that may panic soon, or has.
PanicAt(t) ==
    /\ RenamesRoot(t)
    /\ pc[t] = "read" => op[t].op = "read"
    /\ pc[t] = "write" => op[t].op = "write" /\ ~IsDir(Current(loc[t]))
    /\ pc[t] = "panic" => Known(t)

\* The inductive form of PanicsKnown.
PanicInv == \A t \in Threads : PanicAt(t)

\* The order in which a wstat makes its changes.
Earlier == {<<"perm", "uid">>, <<"perm", "name">>, <<"perm", "len">>,
            <<"uid", "name">>, <<"uid", "len">>, <<"name", "len">>}

\* What is taken back is what comes before the change that failed.
LEMMA UndoIs ==
    ASSUME NEW f \in Fields
    PROVE  \A g : Contains(Undo(f), g) <=> <<g, f>> \in Earlier
<1>1. f = "perm" \/ f = "uid" \/ f = "name" \/ f = "len"
  BY DEF Fields
<1>2. CASE f = "perm"
  BY <1>2 DEF Undo, Contains, Earlier
<1>3. CASE f = "uid"
  <2>1. PICK s : s = <<"perm">>
    OBVIOUS
  <2>2. 1..Len(s) = {1} /\ s[1] = "perm" /\ Undo(f) = s
    BY <1>3, <2>1 DEF Undo
  <2>3. \A g : Contains(s, g) <=> g = "perm"
    BY <2>2 DEF Contains
  <2> QED BY <1>3, <2>2, <2>3 DEF Earlier
<1>4. CASE f = "name"
  <2>1. PICK s : s = <<"perm", "uid">>
    OBVIOUS
  <2>2. 1..Len(s) = {1, 2} /\ s[1] = "perm" /\ s[2] = "uid" /\ Undo(f) = s
    BY <1>4, <2>1 DEF Undo
  <2>3. \A g : Contains(s, g) <=> g = "perm" \/ g = "uid"
    BY <2>2 DEF Contains
  <2> QED BY <1>4, <2>2, <2>3 DEF Earlier
<1>5. CASE f = "len"
  <2>1. PICK s : s = <<"perm", "uid", "name">>
    OBVIOUS
  <2>2. 1..Len(s) = {1, 2, 3} /\ s[1] = "perm" /\ s[2] = "uid" /\ s[3] = "name" /\ Undo(f) = s
    BY <1>5, <2>1 DEF Undo
  <2>3. \A g : Contains(s, g) <=> g = "perm" \/ g = "uid" \/ g = "name"
    BY <2>2 DEF Contains
  <2> QED BY <1>5, <2>2, <2>3 DEF Earlier
<1> QED BY <1>1, <1>2, <1>3, <1>4, <1>5

\* A read or write is one that was asked for, a write one of a file.
LEMMA CallIs ==
    ASSUME TreeInv, NEW t \in Threads, Call(t), pc'[t] \in {"read", "write"}
    PROVE  op'[t].op = pc'[t] /\ (pc'[t] = "write" => ~IsDir(Current(loc[t])))
<1>1. PICK c \in scene.menu[t] :
        /\ op' = [op EXCEPT ![t] = c] /\ pc' = [pc EXCEPT ![t] = c.op]
        /\ c.op = "write" => ~IsDir(Current(loc[t]))
  BY DEF Call, Goto
<1> QED BY <1>1 DEF TreeInv, TypeInv

\* A read or write that panics.
LEMMA EndsPanic ==
    ASSUME TreeInv, NEW t \in Threads, Read(t) \/ Write(t), pc'[t] = "panic"
    PROVE  /\ loc' = loc /\ op' = op /\ op[t].negative
           /\ pc[t] = "write" \/ (pc[t] = "read" /\ ~IsDir(Current(loc[t])))
<1>1. \/ pc' = [pc EXCEPT ![t] = "idle"]
      \/ /\ loc' = loc /\ op' = op /\ op[t].negative
         /\ pc[t] = "write" \/ (pc[t] = "read" /\ ~IsDir(Current(loc[t])))
  BY DEF Read, Write, Return, End, Goto
<1> QED BY <1>1 DEF TreeInv, TypeInv

\* A directory stays one, a file a file.
LEMMA SameKind ==
    ASSUME Grows, NEW n \in Nodes, Exists(n)
    PROVE  IsDir(n)' <=> IsDir(n)
BY DEF Grows, IsDir

\* The changes of a wstat of the root still to make.
LEMMA NextRenamesRoot ==
    ASSUME TreeInv, PanicInv, Grows, NEW t \in Threads, Call(t) \/ Attach(t) \/ Step(t)
    PROVE  RenamesRoot(t)'
<1>1. IsDir(Root)' <=> IsDir(Root)
  BY SameKind, Constants DEF TreeInv, NodesInv
<1>2. CASE pc'[t] \in {"set", "setting"} /\ pc[t] \in {"set", "setting"}
  <2>1. /\ loc'[t] = loc[t] /\ op'[t] = op[t]
        /\ \/ todo'[t] = todo[t] /\ undo'[t] = undo[t]
           \/ todo[t] # <<>> /\ todo'[t] = Tail(todo[t]) /\ (undo[t] => undo'[t])
           \/ todo[t] # <<>> /\ ~undo[t] /\ undo'[t] /\ todo'[t] = Undo(Head(todo[t]))
    BY <1>2, TodoStep
  <2>2. todo[t] \in Seq(Fields)
    BY <1>2, InSetStat
  <2>3. ASSUME NEW f \in {"name", "len"}, Contains(todo'[t], f)
        PROVE  Contains(todo[t], f) \/ (undo'[t] /\ Contains(todo[t], "len"))
    <3>1. CASE todo'[t] = todo[t]
      BY <2>3, <3>1
    <3>2. CASE todo[t] # <<>> /\ todo'[t] = Tail(todo[t])
      BY <2>2, <2>3, <3>2, RestOf
    <3>3. CASE todo[t] # <<>> /\ undo'[t] /\ todo'[t] = Undo(Head(todo[t]))
      <4>1. Head(todo[t]) \in Fields /\ Contains(todo[t], Head(todo[t]))
        BY <2>2, <3>3, RestOf
      <4>2. Head(todo[t]) = "len"
        BY <2>3, <3>3, <4>1, UndoIs DEF Earlier
      <4> QED BY <3>3, <4>1, <4>2
    <3> QED BY <2>1, <3>1, <3>2, <3>3
  <2>4. RenamesRoot(t)
    BY DEF PanicInv, PanicAt
  <2>5. Len(loc[t]) = 1 =>
          \A f \in {"name", "len"} : Contains(todo'[t], f) => ~IsDir(Root) /\ op[t].stat.len # None
    BY <1>2, <2>3, <2>4 DEF RenamesRoot
  <2>6. Len(loc[t]) = 1 /\ ~undo'[t] => ~Contains(todo'[t], "name")
    BY <1>2, <2>1, <2>3, <2>4 DEF RenamesRoot
  <2> QED BY <1>1, <2>1, <2>5, <2>6 DEF RenamesRoot
<1>3. CASE pc'[t] \in {"set", "setting"} /\ pc[t] \notin {"set", "setting"}
  <2>1. WriteStat(t) /\ pc[t] = "wstat" /\ loc' = loc
    BY <1>3, Enters DEF SetCheck, WriteStat
  <2>2. PICK st : st = node[target[t]]
    OBVIOUS
  <2>3. \/ pc' = [pc EXCEPT ![t] = "idle"]
        \/ /\ ~Illegal(op[t], st, loc[t]) /\ todo' = [todo EXCEPT ![t] = Changes(op[t], st)]
           /\ op' = op
    BY <2>1, <2>2 DEF WriteStat, Return, End, Goto
  <2>4. ~Illegal(op[t], st, loc[t]) /\ todo'[t] = Changes(op[t], st) /\ op' = op
    BY <1>3, <2>3 DEF TreeInv, TypeInv
  <2>5. ASSUME Len(loc[t]) = 1, NEW f \in {"name", "len"}, Contains(todo'[t], f)
        PROVE  f # "name" /\ ~IsDir(Root) /\ op[t].stat.len # None
    <3>1. Wanted(op[t], st, f)
      BY <2>4, <2>5, ChangesOf
    <3>2. f = "len" /\ st.kind # "dir"
      BY <2>4, <2>5, <3>1 DEF Illegal
    <3>3. Current(loc[t]) = Root /\ target[t] = Own(Root) /\ NodesInv
      BY <2>1, <2>5, InSetStat, Here, OnPath DEF TreeInv
    <3>4. ~IsMix(Root)
      BY <2>2, <3>2, <3>3, PartsOf, Constants DEF NodesInv
    <3>5. Own(Root) = Root /\ node[Root].kind # "mix"
      BY <3>3, <3>4, PartsOf, Constants DEF IsMix
    <3> QED BY <2>2, <3>1, <3>2, <3>3, <3>5 DEF Wanted, IsDir
  <2> QED BY <1>1, <1>3, <2>1, <2>4, <2>5 DEF RenamesRoot
<1> QED BY <1>2, <1>3 DEF RenamesRoot

\* Every step keeps PanicInv.
LEMMA NextPanic ==
    ASSUME TreeInv, PanicInv, NEW t \in Threads, Call(t) \/ Attach(t) \/ Step(t)
    PROVE  PanicInv'
<1>1. Moves(t) /\ Grows /\ TreeInv'
  BY StepMoves DEF Moves
<1>2. \A n \in Nodes : Exists(n) => (IsDir(n)' <=> IsDir(n))
  BY <1>1, SameKind
<1>3. IsDir(Root)' <=> IsDir(Root)
  BY <1>2, Constants DEF TreeInv, NodesInv
<1>4. ASSUME NEW u \in Threads \ {t} PROVE PanicAt(u)'
  <2>1. PanicAt(u) /\ SameLocal(u)
    BY <1>1 DEF PanicInv, Moves
  <2>2. Working(u) => (IsDir(Current(loc[u]))' <=> IsDir(Current(loc[u])))
    <3>1. Working(u) => /\ Current(loc[u]) \in Nodes /\ Exists(Current(loc[u]))
                        /\ Current(loc'[u]) = Current(loc[u])
      BY <2>1, Here DEF SameLocal
    <3> QED BY <1>2, <3>1 DEF IsDir
  <2> QED BY <1>3, <2>1, <2>2 DEF PanicAt, RenamesRoot, Known, SameLocal, Working
<1>5. RenamesRoot(t)'
  BY <1>1, NextRenamesRoot
<1>6. pc'[t] = "read" => op'[t].op = "read"
  BY Enters, CallIs
<1>7. pc'[t] = "write" => op'[t].op = "write" /\ ~IsDir(Current(loc[t]))'
  <2>1. ASSUME pc'[t] = "write"
        PROVE  /\ op'[t].op = "write" /\ loc' = loc /\ node' = node /\ ~IsDir(Current(loc[t]))
    BY <2>1, Enters, CallIs DEF Call
  <2> QED BY <2>1 DEF IsDir
<1>8. pc'[t] = "panic" => Known(t)'
  <2>1. CASE (Read(t) \/ Write(t)) /\ pc'[t] = "panic"
    <3>1. pc[t] \in {"read", "write"} /\ loc' = loc /\ op' = op /\ op[t].negative
      BY <2>1, EndsPanic
    <3>2. op[t].op \in {"read", "write"} /\ ~IsDir(Current(loc[t]))
      BY <2>1, EndsPanic DEF PanicInv, PanicAt
    <3>3. Current(loc[t]) \in Nodes /\ Exists(Current(loc[t]))
      BY <3>1, Here DEF Working
    <3>4. ~IsDir(Current(loc[t]))'
      BY <1>2, <3>1, <3>2, <3>3 DEF IsDir
    <3> QED BY <3>1, <3>2, <3>4 DEF Known
  <2>2. CASE Rename(t) /\ Len(loc[t]) = 1 /\ pc'[t] = "panic"
    <3>1. pc[t] = "set" /\ todo[t] # <<>> /\ Head(todo[t]) = "name"
      BY <2>2 DEF Rename, Renaming
    <3>2. loc'[t] = loc[t] /\ op'[t] = op[t] /\ undo'[t] = undo[t]
      BY <2>2, <3>1, TodoStep
    <3>3. Contains(todo[t], "name") /\ op[t].op = "wstat"
      BY <3>1, InSetStat, RestOf
    <3>4. ~IsDir(Root) /\ op[t].stat.len # None /\ undo[t]
      BY <2>2, <3>1, <3>3 DEF PanicInv, PanicAt, RenamesRoot
    <3> QED BY <1>3, <2>2, <3>2, <3>3, <3>4 DEF Known
  <2> QED BY <2>1, <2>2, Enters
<1>9. PanicAt(t)'
  BY <1>5, <1>6, <1>7, <1>8 DEF PanicAt
<1> QED BY <1>4, <1>9 DEF PanicInv

\* PanicsKnown, for any tree, threads and requests.
THEOREM KnownPanics == Spec => []PanicsKnown
<1>1. Init => PanicInv
  BY DEF Init, PanicInv, PanicAt, RenamesRoot
<1>2. TreeInv /\ PanicInv /\ [Next]_vars => PanicInv'
  <2>1. ASSUME PanicInv, UNCHANGED vars PROVE PanicInv'
    BY <2>1 DEF vars, PanicInv, PanicAt, RenamesRoot, Known, IsDir
  <2> QED BY <2>1, NextPanic DEF Next
<1>3. PanicInv => PanicsKnown
  BY DEF PanicInv, PanicAt, Known, PanicsKnown
<1> QED BY <1>1, <1>2, <1>3, TreeInvariant, PTL DEF Spec

-----------------------------------------------------------------------------
(***************************************************************************)
(* A SyntheticDir is a Directory.                                          *)
(***************************************************************************)
\* A step changes one directory at most, in a way that Directory allows.
LEMMA DirStep ==
    ASSUME TreeInv, NEW t \in Threads, Call(t) \/ Attach(t) \/ Step(t), tree' # tree
    PROVE  \E d \in Nodes :
             /\ ~IsMix(d) /\ \A m \in Nodes \ {d} : tree'[m] = tree[m]
             /\ \/ Free(d) /\ Dir!Create(tree[d], tree'[d])
                \/ Free(d) /\ Dir!Rename(tree[d], tree'[d])
                \/ /\ pc[t] = "unlinking" /\ pc'[t] = "idle" /\ d = Part(t, Parent(loc[t]))
                   /\ tree'[d] = [tree[d] EXCEPT ![name[t]] = None]
<1>1. CASE Create(t)
  <2>1. PICK n, c : n = (CHOOSE m \in Fresh : TRUE) /\ c = op[t].name
    OBVIOUS
  <2>2. PICK d \in Nodes : d = CreateDir(Current(loc[t]))
    <3>1. Working(t)
      BY <1>1 DEF Create, Working
    <3> QED BY <3>1, Here, CreateDirOf DEF TreeInv
  <2>3. /\ pc[t] = "create" /\ IsDir(d) /\ Free(d) /\ ~Taken(d, c)
        /\ tree' = [tree EXCEPT ![d][c] = n]
    BY <1>1, <2>1, <2>2 DEF Create
  <2>4. n \in Nodes /\ ~Exists(n)
    BY <2>1, <2>3, FreshNode
  <2>5. c \in Names
    <3>1. Working(t) /\ op[t].op = "create"
      BY <2>3 DEF Working, TreeInv, Local, Stage
    <3> QED BY <2>1, <3>1, Here DEF Request
  <2>6. ~IsMix(d)
    <3>1. Working(t)
      BY <2>3 DEF Working
    <3> QED BY <2>2, <3>1, Here, CreateDirOf DEF TreeInv
  <2>7. tree'[d] = [tree[d] EXCEPT ![c] = n] /\ \A m \in Nodes \ {d} : tree'[m] = tree[m]
    BY <2>3 DEF TreeInv, TypeInv
  <2>8. \A other \in Names : tree[d][other] # n
    BY <2>4, Constants DEF TreeInv, NamesAgree, Exists
  <2>9. Dir!Create(tree[d], tree'[d])
    BY <2>3, <2>4, <2>5, <2>7, <2>8 DEF Dir!Create, Taken
  <2> QED BY <2>3, <2>6, <2>7, <2>9
<1>2. CASE Rename(t)
  <2>1. PICK d, old, new, n :
          /\ d = Part(t, Parent(loc[t])) /\ old = OldName(t) /\ new = Value(t, "name")
          /\ n = tree[d][old]
    OBVIOUS
  <2>2. /\ Renaming(t) /\ Len(loc[t]) # 1 /\ Free(d) /\ old # None /\ n # None /\ ~Taken(d, new)
        /\ Located(t) /\ SetName(n, new) /\ scene' = scene
        /\ tree' = [tree EXCEPT ![d][old] = None, ![d][new] = n]
    BY <1>2, <2>1 DEF Rename
  <2>3. Working(t) /\ Len(loc[t]) > 1
    <3>1. Working(t)
      BY <2>2 DEF Renaming, Working
    <3> QED BY <2>2, <3>1, BelowRoot
  <2>4. d \in Nodes /\ ~IsMix(d) /\ new \in Names /\ old \in Names
    BY <2>1, <2>2, <2>3, NamesOf, InParent DEF Renaming
  <2>5. tree[d][new] = None
    BY <2>2 DEF Taken
  <2>6. old # new
    BY <2>1, <2>2, <2>5
  <2>7. /\ tree'[d] = [tree[d] EXCEPT ![new] = tree[d][old], ![old] = None]
        /\ \A m \in Nodes \ {d} : tree'[m] = tree[m]
    <3>1. tree[d] \in [Names -> Nodes \union {None}] /\ DOMAIN tree = Nodes
      BY <2>4 DEF TreeInv, TypeInv
    <3>2. PICK row : row = tree[d]
      OBVIOUS
    <3>3. tree'[d] = [row EXCEPT ![old] = None, ![new] = n]
      BY <2>2, <2>4, <3>1, <3>2
    <3>4. [row EXCEPT ![old] = None, ![new] = n] = [row EXCEPT ![new] = n, ![old] = None]
      BY <2>6
    <3> QED BY <2>1, <2>2, <2>4, <3>1, <3>2, <3>3, <3>4
  <2>8. Dir!Rename(tree[d], tree'[d])
    BY ZenonT(20), <2>1, <2>2, <2>4, <2>5, <2>7 DEF Dir!Rename
  <2> QED BY <2>2, <2>4, <2>7, <2>8
<1>3. CASE Unlinked(t)
  <2>1. PICK d : d = Part(t, Parent(loc[t]))
    OBVIOUS
  <2>2. /\ pc[t] = "unlinking" /\ Working(t)
        /\ tree' = [tree EXCEPT ![d][name[t]] = None] /\ pc' = [pc EXCEPT ![t] = "idle"]
    BY <1>3, <2>1 DEF Unlinked, Return, End, Goto, Working
  <2>3. d \in Nodes /\ ~IsMix(d)
    BY <2>1, <2>2, InParent
  <2>4. /\ pc'[t] = "idle" /\ tree'[d] = [tree[d] EXCEPT ![name[t]] = None]
        /\ \A m \in Nodes \ {d} : tree'[m] = tree[m]
    BY <2>2, <2>3 DEF TreeInv, TypeInv
  <2> QED BY <2>1, <2>2, <2>3, <2>4
<1>4. Create(t) \/ Rename(t) \/ Unlinked(t)
  BY DEF Call, Attach, Step, Walk, CanOpen, Open, Read, Write, Clunk, Die, RemoveFid, Find,
         Unlink, WriteStat, SetCheck, Set, Wstat
<1> QED BY <1>1, <1>2, <1>3, <1>4

\* The entry that is being removed leads to the file until its directory lets go of it.
LockAt(t) ==
    pc[t] = "unlinking" =>
        /\ tree[Part(t, Parent(loc[t]))][name[t]] = target[t]
        /\ \A u \in Threads \ {t} :
             pc[u] = "unlinking" => Part(u, Parent(loc[u])) # Part(t, Parent(loc[t]))

\* It holds of every thread.
LockInv == \A t \in Threads : LockAt(t)

\* The directory that a thread has found stays the one.
LEMMA PlaceKept ==
    ASSUME TreeInv, Grows, NEW u \in Threads, Working(u), loc'[u] = loc[u], part'[u] = part[u]
    PROVE  Part(u, Parent(loc[u]))' = Part(u, Parent(loc[u]))
<1>1. PICK d \in Nodes : d = Parent(loc[u]) /\ Exists(d)
  BY Here
<1>2. Parts(d)' = Parts(d)
  BY <1>1, PartsKept
<1>3. Parent(loc[u])' = d
  BY <1>1 DEF Parent
<1> QED BY <1>1, <1>2, <1>3 DEF Part, Parts, IsMix

\* Every step keeps LockInv: a directory is changed by whoever has its lock.
LEMMA NextLock ==
    ASSUME TreeInv, LockInv, NEW t \in Threads, Call(t) \/ Attach(t) \/ Step(t)
    PROVE  LockInv'
<1>1. Moves(t) /\ Grows
  BY StepMoves DEF Moves
<1>2. ASSUME NEW u \in Threads \ {t}, pc[u] = "unlinking"
      PROVE  /\ Part(u, Parent(loc[u]))' = Part(u, Parent(loc[u])) /\ name'[u] = name[u]
             /\ (tree[Part(u, Parent(loc[u]))][name[u]])' = target'[u]
  <2>1. SameLocal(u) /\ Working(u)
    BY <1>1, <1>2 DEF Moves, Working
  <2>2. PICK d \in Nodes : d = Part(u, Parent(loc[u]))
    BY <2>1, <1>2, InParent
  <2>3. Part(u, Parent(loc[u]))' = d /\ name'[u] = name[u] /\ target'[u] = target[u]
    BY <1>1, <2>1, <2>2, PlaceKept DEF SameLocal
  <2>4. tree[d][name[u]] = target[u] /\ ~Free(d)
    BY <1>2, <2>2 DEF LockInv, LockAt, Free
  <2>5. tree' # tree => tree'[d] = tree[d]
    <3>1. SUFFICES ASSUME tree' # tree PROVE tree'[d] = tree[d]
      OBVIOUS
    <3>2. PICK e \in Nodes : /\ \A m \in Nodes \ {e} : tree'[m] = tree[m]
                            /\ \/ Free(e)
                               \/ pc[t] = "unlinking" /\ e = Part(t, Parent(loc[t]))
      BY <3>1, DirStep
    <3>3. e # d
      BY <1>2, <2>2, <2>4, <3>2 DEF LockInv, LockAt
    <3> QED BY <3>2, <3>3
  <2>6. tree'[d][name[u]] = target[u]
    BY <2>4, <2>5
  <2> QED BY <2>2, <2>3, <2>6
<1>3. ASSUME pc'[t] = "unlinking"
      PROVE  /\ (tree[Part(t, Parent(loc[t]))][name[t]])' = target'[t]
             /\ \A u \in Threads \ {t} :
                  pc[u] = "unlinking" => Part(u, Parent(loc[u])) # Part(t, Parent(loc[t]))'
  <2>1. PICK d : d = Part(t, Parent(loc[t]))
    OBVIOUS
  <2>2. Unlink(t) /\ Working(t) /\ Free(d)
    BY <1>3, <2>1, Enters DEF Unlink, Working
  <2>3. /\ \/ pc' = [pc EXCEPT ![t] = "idle"]
           \/ target' = [target EXCEPT ![t] = tree[d][name[t]]] /\ loc' = loc
        /\ tree' = tree /\ name' = name /\ part' = part
    BY <2>1, <2>2 DEF Unlink, Return, End, Goto, local
  <2>4. target'[t] = tree[d][name[t]] /\ loc' = loc
    BY <1>3, <2>3 DEF TreeInv, TypeInv
  <2>5. Part(t, Parent(loc[t]))' = d
    BY <1>1, <2>1, <2>2, <2>3, <2>4, PlaceKept
  <2> QED BY <2>2, <2>3, <2>4, <2>5 DEF Free
<1>4. \A u \in Threads \ {t} : pc'[u] = pc[u]
  BY <1>1 DEF Moves, SameLocal
<1>5. ASSUME NEW u \in Threads PROVE LockAt(u)'
  <2>1. CASE u = t
    BY <1>2, <1>3, <1>4, <2>1 DEF LockAt
  <2>2. CASE u # t
    <3>1. ASSUME pc[u] = "unlinking", NEW v \in Threads \ {u}, pc'[v] = "unlinking"
          PROVE  Part(v, Parent(loc[v]))' # Part(u, Parent(loc[u]))'
      <4>1. CASE v = t
        BY <1>2, <1>3, <2>2, <3>1, <4>1
      <4>2. CASE v # t
        BY <1>2, <1>4, <2>2, <3>1, <4>2 DEF LockInv, LockAt
      <4> QED BY <4>1, <4>2
    <3> QED BY <1>2, <1>4, <2>2, <3>1 DEF LockAt
  <2> QED BY <2>1, <2>2
<1> QED BY <1>5 DEF LockInv

\* LockInv, for any tree, threads and requests.
LEMMA LockHolds == Spec => []LockInv
<1>1. Init => LockInv
  BY DEF Init, LockInv, LockAt
<1>2. TreeInv /\ LockInv /\ [Next]_vars => LockInv'
  <2>1. ASSUME LockInv, UNCHANGED vars PROVE LockInv'
    <3>1. scene' = scene /\ node' = node /\ tree' = tree /\ loc' = loc /\ pc' = pc /\ part' = part
          /\ name' = name /\ target' = target
      BY <2>1 DEF vars
    <3>2. \A u \in Threads : Part(u, Parent(loc[u]))' = Part(u, Parent(loc[u]))
      BY <3>1 DEF Part, Parts, Parent, IsMix
    <3> QED BY <2>1, <3>1, <3>2 DEF LockInv, LockAt
  <2> QED BY <2>1, NextLock DEF Next
<1> QED BY <1>1, <1>2, TreeInvariant, PTL DEF Spec

\* Where a MixDir is part of what is promised, there is none.
PlainScenes ==
    \A s \in Scenes : s.apart => \A n \in DOMAIN s.node : s.node[n].kind # "mix"

\* The same, of the scene at hand.
Plain == scene.apart => \A n \in Nodes : ~IsMix(n)

\* Nothing becomes a MixDir, or stops being one.
LEMMA MixesStay ==
    ASSUME TreeInv, TreeInv', Grows, NEW n \in Nodes
    PROVE  IsMix(n)' <=> IsMix(n)
<1>1. CASE n = Root
  BY <1>1, Constants DEF TreeInv, NodesInv, Grows, IsMix
<1>2. CASE n # Root
  BY <1>2 DEF TreeInv, NodesInv
<1> QED BY <1>1, <1>2

\* Plain always holds when no scene speaks against it.
LEMMA PlainHolds == ASSUME PlainScenes PROVE Spec => []Plain
<1>1. Init => Plain
  <2> SUFFICES ASSUME Init, scene.apart, NEW n \in Nodes PROVE ~IsMix(n)
    BY DEF Plain
  <2>1. scene \in Scenes /\ node[n] = IF n \in DOMAIN scene.node THEN scene.node[n] ELSE Absent
    BY DEF Init
  <2>2. CASE n \in DOMAIN scene.node
    BY <2>1, <2>2 DEF PlainScenes, IsMix
  <2>3. CASE n \notin DOMAIN scene.node
    BY <2>1, <2>3 DEF IsMix, Absent, NewFile
  <2> QED BY <2>2, <2>3
<1>2. TreeInv /\ TreeInv' /\ Plain /\ [Next]_vars => Plain'
  <2>1. ASSUME Plain, UNCHANGED vars PROVE Plain'
    BY <2>1 DEF vars, Plain, IsMix
  <2>2. ASSUME TreeInv, TreeInv', Plain, Next PROVE Plain'
    <3>1. Grows
      BY <2>2, StepMoves DEF Next, Moves
    <3>2. scene' = scene
      BY <3>1 DEF Grows
    <3> QED BY <2>2, <3>1, <3>2, MixesStay DEF Plain
  <2> QED BY <2>1, <2>2
<1> QED BY <1>1, <1>2, TreeInvariant, PTL DEF Spec

\* What is promised of a MixDir whose parts share names.
Nothing == [nm \in Names |-> None]

\* What is promised of a directory: its entries.
LEMMA PromisedOf ==
    ASSUME TreeInv, Plain, NEW d \in Nodes
    PROVE  Promised(d) = IF IsMix(d) THEN Nothing ELSE tree[d]
<1>1. CASE IsMix(d)
  BY <1>1 DEF Plain, Promised, Nothing
<1>2. CASE ~IsMix(d)
  <2>1. Own(d) = d
    BY <1>2 DEF Own, Parts
  <2>2. View(d) = [nm \in Names |-> tree[d][nm]]
    BY <1>2, <2>1 DEF View, Shows
  <2>3. tree[d] \in [Names -> Nodes \union {None}]
    BY DEF TreeInv, TypeInv
  <2>4. tree[d] = [nm \in Names |-> tree[d][nm]]
    BY <2>3
  <2> QED BY <1>2, <2>2, <2>4 DEF Promised
<1> QED BY <1>1, <1>2

\* The value that the refinement gives to the variable of Directory.
Shown == [d \in Nodes |-> Promised(d)]

\* It is as PromisedOf says, and a listing for each directory.
ShownRight ==
    /\ \A d \in Nodes : Shown[d] = IF IsMix(d) THEN Nothing ELSE tree[d]
    /\ Shown \in [Nodes -> Dir!Listing]

\* ShownRight follows from the invariants.
LEMMA ShownIs == TreeInv /\ Plain => ShownRight
<1> SUFFICES ASSUME TreeInv, Plain PROVE ShownRight
  OBVIOUS
<1>1. \A d \in Nodes : Shown[d] = IF IsMix(d) THEN Nothing ELSE tree[d]
  BY PromisedOf DEF Shown
<1>2. \A d \in Nodes : tree[d] \in Dir!Listing /\ Nothing \in Dir!Listing
  BY DEF TreeInv, TypeInv, Dir!Listing, Nothing
<1>3. Shown \in [Nodes -> Dir!Listing]
  BY <1>1, <1>2 DEF Shown
<1> QED BY <1>1, <1>3 DEF ShownRight

\* And after a step.
LEMMA ShownNext == TreeInv' /\ Plain' => ShownRight'
BY ShownIs, PTL

\* Every step is one of Directory.
LEMMA NextMaps ==
    ASSUME TreeInv, TreeInv', LockInv, Plain, Plain', Next
    PROVE  Dir!Next
<1>1. PICK t \in Threads : Call(t) \/ Attach(t) \/ Step(t)
  BY DEF Next
<1>2. Grows
  BY <1>1, StepMoves DEF Moves
<1>3. /\ Shown \in [Nodes -> Dir!Listing] /\ Shown' \in [Nodes -> Dir!Listing]
      /\ \A d \in Nodes : /\ Shown[d] = IF IsMix(d) THEN Nothing ELSE tree[d]
                          /\ Shown'[d] = IF IsMix(d) THEN Nothing ELSE tree'[d]
  BY <1>2, ShownIs, ShownNext, MixesStay DEF ShownRight
<1>4. ASSUME NEW m \in Nodes
      PROVE  \/ Shown'[m] = Shown[m]
             \/ Dir!Create(Shown[m], Shown'[m])
             \/ Dir!Remove(Shown[m], Shown'[m])
             \/ Dir!Rename(Shown[m], Shown'[m])
  <2>1. CASE tree' = tree
    BY <1>3, <2>1
  <2>2. CASE tree' # tree
    <3>1. PICK d \in Nodes :
             /\ ~IsMix(d) /\ \A e \in Nodes \ {d} : tree'[e] = tree[e]
             /\ \/ Dir!Create(tree[d], tree'[d])
                \/ Dir!Rename(tree[d], tree'[d])
                \/ /\ pc[t] = "unlinking" /\ d = Part(t, Parent(loc[t]))
                   /\ tree'[d] = [tree[d] EXCEPT ![name[t]] = None]
      BY <1>1, <2>2, DirStep
    <3>2. CASE m # d
      BY <1>3, <3>1, <3>2
    <3>3. CASE m = d /\ pc[t] = "unlinking"
      <4>1. name[t] \in Names
        BY <3>3 DEF TreeInv, Local, Stage
      <4>2. pc[t] = "unlinking" /\ d = Part(t, Parent(loc[t])) => tree[d][name[t]] # None
        BY Here, Constants DEF LockInv, LockAt, Working
      <4>3. pc[t] = "unlinking" /\ tree'[d] = [tree[d] EXCEPT ![name[t]] = None]
              /\ d = Part(t, Parent(loc[t])) => Dir!Remove(tree[d], tree'[d])
        BY <4>1, <4>2 DEF Dir!Remove
      <4> QED BY <1>3, <3>1, <3>3, <4>3
    <3>4. CASE m = d /\ pc[t] # "unlinking"
      BY <1>3, <3>1, <3>4
    <3> QED BY <3>2, <3>3, <3>4
  <2> QED BY <2>1, <2>2
<1> QED BY <1>3, <1>4 DEF Dir!Next, Shown

\* IsDirectory, for any threads and requests and any tree in which no MixDir is promised to be a
\* Directory; the parts of a MixDir, as any SyntheticDir, are one in every tree.
THEOREM TreeIsDirectory == ASSUME PlainScenes PROVE Spec => IsDirectory
<1>1. TreeInv /\ Plain => Dir!Init
  BY ShownIs DEF ShownRight, Shown, Dir!Init
<1>2. TreeInv /\ TreeInv' /\ LockInv /\ Plain /\ Plain' /\ [Next]_vars
        => [Dir!Next]_[d \in Nodes |-> Promised(d)]
  <2>1. ASSUME UNCHANGED vars PROVE UNCHANGED [d \in Nodes |-> Promised(d)]
    BY <2>1 DEF vars, Promised, View, Shows, Own, Parts, IsMix
  <2> QED BY <2>1, NextMaps
<1> QED BY <1>1, <1>2, TreeInvariant, LockHolds, PlainHolds, PTL DEF Spec, IsDirectory, Dir!Spec

-----------------------------------------------------------------------------
(***************************************************************************)
(* A remove takes its own file.                                            *)
(***************************************************************************)
\* A file that no remove has taken is in its directory, below its name.
LiveInv ==
    \A n \in Nodes :
        node[n].home # None /\ n \notin removed => tree[node[n].home][node[n].name] = n

\* The name a remove has read, and what RemovesItsOwn says of a thread.
RemovesAt(t) ==
    /\ pc[t] = "unlink" /\ ~renamed[t] => name[t] = node[Current(loc[t])].name
    /\ pc[t] = "unlinking" =>
         \/ target[t] = Current(loc[t])
         \/ Current(loc[t]) \in removed \/ renamed[t]
         \/ IsMix(Parent(loc[t])) /\ ~scene.apart

\* The inductive form of RemovesItsOwn.
RemoveInv == LiveInv /\ \A t \in Threads : RemovesAt(t)

\* At the start every file is in its directory.
LEMMA InitLive == Init => LiveInv
<1> SUFFICES ASSUME Init, NEW n \in Nodes, node[n].home # None
             PROVE  tree[node[n].home][node[n].name] = n
  BY DEF LiveInv
<1>1. Wellformed(scene)
  BY DEF Init
<1>2. /\ \A m \in Nodes : node[m] = IF m \in DOMAIN scene.node THEN scene.node[m] ELSE Absent
      /\ DOMAIN scene.node \subseteq Nodes /\ Absent.home = None
  BY <1>1 DEF Init, Wellformed, Absent, NewFile
<1>3. n \in DOMAIN scene.node /\ node[n] = scene.node[n]
  BY <1>2
<1>4. PICK d, nm : d = node[n].home /\ nm = node[n].name
  OBVIOUS
<1>5. /\ nm \in Names /\ d \in Nodes
      /\ \A m \in DOMAIN scene.node \ {n} : ~(scene.node[m].home = d /\ scene.node[m].name = nm)
  BY <1>1, <1>2, <1>3, <1>4 DEF Wellformed
<1>6. \A m \in DOMAIN scene.node : node[m].home = d /\ node[m].name = nm <=> m = n
  BY <1>2, <1>3, <1>4, <1>5
<1>7. tree[d][nm] = IF \E m \in DOMAIN scene.node : node[m].home = d /\ node[m].name = nm
                    THEN CHOOSE m \in DOMAIN scene.node : node[m].home = d /\ node[m].name = nm
                    ELSE None
  BY <1>5 DEF Init
<1>8. PICK m : m = CHOOSE k \in DOMAIN scene.node : node[k].home = d /\ node[k].name = nm
  OBVIOUS
<1>9. m \in DOMAIN scene.node /\ node[m].home = d /\ node[m].name = nm
  BY <1>3, <1>4, <1>8
<1>10. m = n
  BY <1>6, <1>9
<1> QED BY <1>3, <1>4, <1>6, <1>7, <1>8, <1>10

\* A change of other attributes of a file.
LEMMA NameKept ==
    ASSUME TreeInv, NEW n \in Nodes, NEW f \in Attributes \ {"name", "home"}, NEW v, NEW y,
           y = [node[n] EXCEPT ![f] = v], node' = [node EXCEPT ![n] = y]
    PROVE  \A m \in Nodes : node'[m].name = node[m].name /\ node'[m].home = node[m].home
<1>1. node = [m \in Nodes |-> node[m]] /\ IsNode(node[n])
  BY DEF TreeInv, TypeInv
<1>2. "name" \in Attributes \ {f} /\ "home" \in Attributes \ {f}
  BY DEF Attributes
<1>3. \A h \in Attributes \ {f} : y[h] = node[n][h]
  BY <1>1, OneAttribute
<1>4. y.name = node[n].name /\ y.home = node[n].home
  BY <1>2, <1>3
<1> QED BY <1>1, <1>4

\* What closing a handle leaves as it is.
LEMMA CloseKeepsNames ==
    ASSUME TreeInv, NEW t \in Threads, Working(t), CloseHandle(t)
    PROVE  \A m \in Nodes : node'[m].name = node[m].name /\ node'[m].home = node[m].home
<1>1. CASE node' = node
  BY <1>1
<1>2. CASE node' # node
  <2>1. PICK n, y, v : /\ n = Current(loc[t]) /\ y = [node[n] EXCEPT !["opens"] = v]
                       /\ node' = [node EXCEPT ![n] = y]
    BY <1>2 DEF CloseHandle
  <2>2. n \in Nodes /\ "opens" \in Attributes \ {"name", "home"}
    BY <2>1, Here DEF Attributes
  <2> QED BY <2>1, <2>2, NameKept
<1> QED BY <1>1, <1>2

\* Only Rename and Create change what a file is called and where it is.
LEMMA NamesKept ==
    ASSUME TreeInv, NEW t \in Threads, Call(t) \/ Attach(t) \/ Step(t), ~Rename(t), ~Create(t)
    PROVE  \A m \in Nodes : node'[m].name = node[m].name /\ node'[m].home = node[m].home
<1>1. "len" \in Attributes \ {"name", "home"} /\ "opens" \in Attributes \ {"name", "home"}
  BY DEF Attributes
<1>2. CASE Open(t) /\ node' # node
  <2>1. PICK n, l, o, y, z :
          /\ n = target[t] /\ y = [node[n] EXCEPT !["opens"] = o] /\ z = [y EXCEPT !["len"] = l]
          /\ node' = [node EXCEPT ![n] = z]
    <3>1. PICK o, l :
            node' = [node EXCEPT ![target[t]] = [[node[target[t]] EXCEPT !.opens = o] EXCEPT !.len = l]]
      BY <1>2, Zenon DEF Open
    <3> QED BY <3>1
  <2>2. n \in Nodes /\ IsNode(node[n])
    BY <1>2, <2>1, Here DEF Open, Working, TreeInv, TypeInv
  <2>3. IsNode(y) /\ \A h \in Attributes \ {"opens"} : y[h] = node[n][h]
    BY <1>1, <2>1, <2>2, OneAttribute
  <2>4. \A h \in Attributes \ {"len"} : z[h] = y[h]
    BY <1>1, <2>1, <2>3, OneAttribute
  <2>5. z.name = node[n].name /\ z.home = node[n].home
    BY <2>3, <2>4 DEF Attributes
  <2> QED BY <2>1, <2>2, <2>5 DEF TreeInv, TypeInv
<1>3. CASE Write(t)
  <2>1. PICK n, l, y : /\ n = Current(loc[t]) /\ y = [node[n] EXCEPT !["len"] = l]
                       /\ node' = [node EXCEPT ![n] = y]
    BY <1>3 DEF Write
  <2>2. n \in Nodes
    BY <1>3, <2>1, Here DEF Write, Working
  <2> QED BY <1>1, <2>1, <2>2, NameKept
<1>4. CASE Clunk(t) \/ Die(t) \/ RemoveFid(t)
  BY <1>4, CloseKeepsNames DEF Clunk, Die, RemoveFid, Working
<1>5. CASE Set(t) /\ node' # node
  <2>1. pc[t] = "setting"
    BY <1>5 DEF Set
  <2>2. todo[t] \in Seq(Fields) /\ todo[t] # <<>> /\ Head(todo[t]) # "name" /\ target[t] \in Nodes
    BY <2>1, InSetStat, Here DEF Todo
  <2>3. Head(todo[t]) \in Attributes \ {"name", "home"}
    BY <2>2, RestOf DEF Fields, Attributes
  <2>4. PICK n, f, v, y : /\ n = target[t] /\ f = Head(todo[t]) /\ y = [node[n] EXCEPT ![f] = v]
                          /\ node' = [node EXCEPT ![n] = y]
    BY <1>5 DEF Set
  <2> QED BY <2>2, <2>3, <2>4, NameKept
<1>6. CASE node' = node
  BY <1>6
<1>7. \/ Open(t) \/ Write(t) \/ Clunk(t) \/ Die(t) \/ RemoveFid(t) \/ Set(t) \/ node' = node
  BY DEF Step, Call, Attach, Walk, CanOpen, Read, Find, Unlink, Unlinked, WriteStat, SetCheck, Wstat
<1> QED BY <1>2, <1>3, <1>4, <1>5, <1>6, <1>7

\* What the histories do: renamed is forgotten by the thread itself, at its next request.
LEMMA HistoriesGrow ==
    ASSUME TreeInv, NEW t \in Threads, Call(t) \/ Attach(t) \/ Step(t)
    PROVE  /\ removed \subseteq removed'
           /\ \A u \in Threads \ {t} : renamed[u] => renamed'[u]
           /\ ~Call(t) => (renamed[t] => renamed'[t])
           /\ ~Call(t) /\ ~Rename(t) => renamed' = renamed
           /\ ~Unlinked(t) => removed' = removed
<1>1. renamed \in [Threads -> BOOLEAN]
  BY DEF TreeInv, TypeInv
<1>2. CASE Call(t)
  BY <1>1, <1>2 DEF Call, Unlinked
<1>3. CASE Rename(t)
  BY <1>1, <1>3 DEF Rename, Outdate, Renaming, Unlinked, Call
<1>4. CASE ~Call(t) /\ ~Rename(t)
  BY <1>4 DEF Attach, Step, Walk, Create, CanOpen, Open, Read, Write, Clunk, Die, RemoveFid, Find,
              Unlink, Unlinked, WriteStat, SetCheck, Set, Wstat
<1> QED BY <1>2, <1>3, <1>4

\* A create makes one file, below a name that was free.
LEMMA CreateLives == ASSUME TreeInv, LiveInv, NEW t \in Threads, Create(t) PROVE LiveInv'
<1>1. PICK n, d, c, new :
        /\ n = (CHOOSE m \in Fresh : TRUE) /\ d = CreateDir(Current(loc[t])) /\ c = op[t].name
        /\ new = IF op[t].dir
                 THEN NewDir(c, CreatePerm(d, op[t]), node[d].uid, d)
                 ELSE NewFile(c, CreatePerm(d, op[t]), node[d].uid, d)
  OBVIOUS
<1>2. /\ pc[t] = "create" /\ removed' = removed
      /\ \/ node' = node /\ tree' = tree
         \/ /\ ~Taken(d, c) /\ node' = [node EXCEPT ![n] = new]
            /\ tree' = [tree EXCEPT ![d][c] = n]
  BY <1>1 DEF Create
<1>3. CASE node' = node /\ tree' = tree
  BY <1>2, <1>3 DEF LiveInv
<1>4. CASE /\ ~Taken(d, c) /\ node' = [node EXCEPT ![n] = new]
           /\ tree' = [tree EXCEPT ![d][c] = n]
  <2>1. n \in Nodes /\ d \in Nodes /\ c \in Names
    <3>1. Working(t) /\ op[t].op = "create"
      BY <1>2 DEF Working, TreeInv, Local, Stage
    <3> QED BY <1>1, <1>2, <3>1, FreshNode, Here, CreateDirOf DEF TreeInv, Request
  <2>2. new.name = c /\ new.home = d
    BY <1>1 DEF NewDir, NewFile
  <2>3. node'[n] = new /\ \A m \in Nodes \ {n} : node'[m] = node[m]
    BY <1>4, <2>1 DEF TreeInv, TypeInv
  <2>4. /\ tree'[d][c] = n
        /\ \A e \in Nodes, nm \in Names : e # d \/ nm # c => tree'[e][nm] = tree[e][nm]
    BY <1>4, <2>1 DEF TreeInv, TypeInv
  <2>5. ASSUME NEW m \in Nodes \ {n}, node[m].home # None, m \notin removed
        PROVE  tree'[node[m].home][node[m].name] = m
    <3>1. tree[node[m].home][node[m].name] = m /\ m # None
      BY <2>5, Constants DEF LiveInv
    <3>2. node[m].home \in Nodes /\ node[m].name \in Names
      BY <2>5 DEF TreeInv, NodesInv
    <3> QED BY <1>4, <2>4, <3>1, <3>2 DEF Taken
  <2> QED BY <1>2, <2>2, <2>3, <2>4, <2>5 DEF LiveInv
<1> QED BY <1>2, <1>3, <1>4

\* A rename takes the file along.
LEMMA RenameLives == ASSUME TreeInv, LiveInv, NEW t \in Threads, Rename(t) PROVE LiveInv'
<1>1. PICK d, old, new, n :
        /\ d = Part(t, Parent(loc[t])) /\ old = OldName(t) /\ new = Value(t, "name")
        /\ n = tree[d][old]
  OBVIOUS
<1>2. /\ Renaming(t) /\ removed' = removed /\ scene' = scene
      /\ \/ node' = node /\ tree' = tree
         \/ /\ Len(loc[t]) # 1 /\ Located(t) /\ old # None /\ n # None /\ ~Taken(d, new)
            /\ SetName(n, new) /\ tree' = [tree EXCEPT ![d][old] = None, ![d][new] = n]
  BY <1>1 DEF Rename
<1>3. CASE node' = node /\ tree' = tree
  BY <1>2, <1>3 DEF LiveInv
<1>4. CASE /\ Len(loc[t]) # 1 /\ Located(t) /\ old # None /\ n # None /\ ~Taken(d, new)
           /\ SetName(n, new) /\ tree' = [tree EXCEPT ![d][old] = None, ![d][new] = n]
  <2>1. Working(t) /\ Len(loc[t]) > 1
    <3>1. Working(t)
      BY <1>2 DEF Renaming, Working
    <3> QED BY <1>4, <3>1, BelowRoot
  <2>2. d \in Nodes /\ new \in Names /\ old \in Names /\ tree[d][new] = None
    BY <1>1, <1>2, <1>4, <2>1, NamesOf, InParent DEF Renaming, Taken
  <2>3. /\ n \in Nodes /\ node'[n].name = new /\ tree'[d][new] = n
        /\ \A m \in Nodes \ {n} : node'[m] = node[m]
        /\ node'[n].home = node[n].home /\ node[n].home = d
        /\ \A e \in Nodes, nm \in Names :
             e # d \/ nm \notin {old, new} => tree'[e][nm] = tree[e][nm]
    <3>1. /\ n \in Nodes /\ node'[n].name = new /\ tree'[d][new] = n
          /\ \A m \in Nodes \ {n} : node'[m] = node[m]
          /\ \A h \in Attributes \ {"name"} : node'[n][h] = node[n][h]
          /\ \A e \in Nodes, nm \in Names :
               e # d \/ nm \notin {old, new} => tree'[e][nm] = tree[e][nm]
      <4>1. PICK o \in Names, w \in Names : o = old /\ w = new
        BY <2>2
      <4>2. /\ n = tree[d][o] /\ n # None /\ tree[d][w] = None /\ SetName(n, w)
            /\ tree' = [tree EXCEPT ![d][o] = None, ![d][w] = n]
        BY <1>1, <1>4, <2>2, <4>1
      <4>3. d \in Nodes /\ scene' = scene
        BY <1>2, <2>2
      <4>4. n \in Nodes /\ node'[n].name = w /\ o # w
        BY <4>1, <4>2, <4>3, Renamed
      <4>5. PICK x, y : x = node[n] /\ IsNode(x) /\ y = [x EXCEPT !["name"] = w]
        BY <4>4 DEF TreeInv, TypeInv
      <4>6. \A h \in Attributes \ {"name"} : y[h] = x[h]
        BY <4>5, OneAttribute DEF Attributes
      <4>7. node'[n] = y /\ \A k \in Nodes \ {n} : node'[k] = node[k]
        BY <4>2, <4>4, <4>5 DEF SetName, TreeInv, TypeInv
      <4>8. /\ tree'[d][w] = n
            /\ \A e \in Nodes, nm \in Names :
                 e # d \/ nm \notin {o, w} => tree'[e][nm] = tree[e][nm]
        BY <4>1, <4>2, <4>3, <4>4 DEF TreeInv, TypeInv
      <4> QED BY <4>1, <4>4, <4>5, <4>6, <4>7, <4>8
    <3>2. node[n].home = d
      BY <1>1, <1>4, <2>2 DEF TreeInv, NamesAgree
    <3> QED BY <3>1, <3>2 DEF Attributes
  <2>4. ASSUME NEW m \in Nodes \ {n}, node[m].home # None, m \notin removed
        PROVE  tree'[node[m].home][node[m].name] = m
    <3>1. tree[node[m].home][node[m].name] = m /\ m # None
      BY <2>4, Constants DEF LiveInv
    <3>2. node[m].home \in Nodes /\ node[m].name \in Names
      BY <2>4 DEF TreeInv, NodesInv
    <3> QED BY <1>1, <2>2, <2>3, <3>1, <3>2
  <2> QED BY <1>2, <2>3, <2>4 DEF LiveInv
<1> QED BY <1>2, <1>3, <1>4

\* A remove takes one entry away, that of the file it names.
LEMMA UnlinkLives == ASSUME TreeInv, LiveInv, LockInv, NEW t \in Threads, Unlinked(t) PROVE LiveInv'
<1>1. PICK d, nm : d = Part(t, Parent(loc[t])) /\ nm = name[t]
  OBVIOUS
<1>2. /\ pc[t] = "unlinking" /\ tree' = [tree EXCEPT ![d][nm] = None] /\ node' = node
      /\ removed' = removed \union {target[t]} /\ tree[d][nm] = target[t]
  BY <1>1 DEF Unlinked, LockInv, LockAt
<1>3. d \in Nodes /\ nm \in Names
  BY <1>1, <1>2, InParent DEF Working, TreeInv, Local, Stage
<1>4. \A e \in Nodes, x \in Names : e # d \/ x # nm => tree'[e][x] = tree[e][x]
  BY <1>2, <1>3 DEF TreeInv, TypeInv
<1>5. ASSUME NEW m \in Nodes, node[m].home # None, m \notin removed'
      PROVE  tree'[node[m].home][node[m].name] = m
  <2>1. tree[node[m].home][node[m].name] = m /\ m # target[t]
    BY <1>2, <1>5 DEF LiveInv
  <2>2. node[m].home \in Nodes /\ node[m].name \in Names
    BY <1>5 DEF TreeInv, NodesInv
  <2> QED BY <1>2, <1>4, <2>1, <2>2
<1> QED BY <1>2, <1>5 DEF LiveInv

\* Every step keeps LiveInv.
LEMMA NextLive ==
    ASSUME TreeInv, LiveInv, LockInv, NEW t \in Threads, Call(t) \/ Attach(t) \/ Step(t)
    PROVE  LiveInv'
<1>1. CASE ~Create(t) /\ ~Rename(t) /\ ~Unlinked(t)
  <2>1. tree' = tree
    BY <1>1 DEF Call, Attach, Step, Walk, CanOpen, Open, Read, Write, Clunk, Die, RemoveFid, Find,
                Unlink, WriteStat, SetCheck, Set, Wstat
  <2>2. removed' = removed
    BY <1>1, HistoriesGrow
  <2>3. \A m \in Nodes : node'[m].name = node[m].name /\ node'[m].home = node[m].home
    BY <1>1, NamesKept
  <2> QED BY <2>1, <2>2, <2>3 DEF LiveInv
<1> QED BY <1>1, CreateLives, RenameLives, UnlinkLives

\* The name a remove has read stays that of its file, or the file counts as renamed.
LEMMA NameStays ==
    ASSUME TreeInv, NEW t \in Threads, Call(t) \/ Attach(t) \/ Step(t),
           NEW u \in Threads, pc[u] = "unlink", ~renamed'[u], u # t \/ ~Rename(t),
           NEW n \in Nodes, n = Current(loc[u]), Exists(n)
    PROVE  node'[n].name = node[n].name
<1>1. CASE Create(t)
  <2>1. PICK m : m = CHOOSE k \in Fresh : TRUE
    OBVIOUS
  <2>2. node' = node \/ \E new : node' = [node EXCEPT ![m] = new]
    BY <1>1, <2>1 DEF Create
  <2>3. m # n
    BY <1>1, <2>1, FreshNode DEF Create
  <2> QED BY <2>2, <2>3 DEF TreeInv, TypeInv
<1>2. CASE Rename(t)
  <2>1. node' = node \/ \E m : SetName(m, Value(t, "name")) /\ Outdate(m)
    BY <1>2 DEF Rename
  <2>2. ASSUME NEW m, SetName(m, Value(t, "name")), Outdate(m) PROVE m # n
    BY <2>2 DEF Outdate
  <2>3. ASSUME NEW m, SetName(m, Value(t, "name")), m # n PROVE node'[n] = node[n]
    BY <2>3 DEF SetName, TreeInv, TypeInv
  <2> QED BY <2>1, <2>2, <2>3
<1>3. CASE ~Create(t) /\ ~Rename(t)
  BY <1>3, NamesKept
<1> QED BY <1>1, <1>2, <1>3

\* What a step does for the thread that takes it.
LEMMA OwnRemove ==
    ASSUME TreeInv, RemoveInv, Plain, NEW t \in Threads, Call(t) \/ Attach(t) \/ Step(t), Grows
    PROVE  RemovesAt(t)'
<1>1. ASSUME pc'[t] = "unlink", ~renamed'[t] PROVE name'[t] = node'[Current(loc'[t])].name
  <2>1. CASE RemoveFid(t)
    <3>1. PICK n : n = Current(loc[t])
      OBVIOUS
    <3>2. /\ pc[t] = "remove" /\ Working(t) /\ CloseHandle(t)
          /\ \/ pc' = [pc EXCEPT ![t] = "idle"]
             \/ /\ Len(loc[t]) # 1 /\ loc' = loc
                /\ name' = [name EXCEPT ![t] = node[Own(n)].name]
      BY <2>1, <3>1 DEF RemoveFid, Return, End, Goto, Working
    <3>3. Len(loc[t]) # 1 /\ loc' = loc /\ name'[t] = node[Own(n)].name
      BY <1>1, <3>2 DEF TreeInv, TypeInv
    <3>4. Len(loc[t]) > 1 /\ n \in Nodes
      BY <3>1, <3>2, <3>3, BelowRoot, Here
    <3>5. ~IsMix(n)
      BY <3>1, <3>2, <3>4, Here, OnPath DEF TreeInv
    <3>6. Own(n) = n
      BY <3>4, <3>5, PartsOf DEF TreeInv
    <3>7. node'[n].name = node[n].name
      BY <3>2, <3>4, CloseKeepsNames
    <3> QED BY <3>1, <3>3, <3>6, <3>7
  <2>2. CASE Find(t) /\ pc[t] = "unlink"
    <3>1. /\ node' = node /\ name' = name /\ renamed' = renamed
          /\ pc' = [pc EXCEPT ![t] = "idle"] \/ loc' = loc
      BY <2>2 DEF Find, Renaming, Return, End, Goto
    <3>2. loc' = loc
      BY <1>1, <3>1 DEF TreeInv, TypeInv
    <3> QED BY <1>1, <2>2, <3>1, <3>2 DEF RemoveInv, RemovesAt
  <2> QED BY <1>1, <2>1, <2>2, Enters
<1>2. ASSUME pc'[t] = "unlinking"
      PROVE  \/ target'[t] = Current(loc'[t])
             \/ Current(loc'[t]) \in removed' \/ renamed'[t]
             \/ IsMix(Parent(loc[t]))' /\ ~scene'.apart
  <2>1. PICK d, n, up : d = Part(t, Parent(loc[t])) /\ n = Current(loc[t]) /\ up = Parent(loc[t])
    OBVIOUS
  <2>2. /\ Unlink(t) /\ pc[t] = "unlink" /\ Working(t)
        /\ renamed' = renamed /\ removed' = removed /\ scene' = scene /\ node' = node
        /\ \/ pc' = [pc EXCEPT ![t] = "idle"]
           \/ target' = [target EXCEPT ![t] = tree[d][name[t]]] /\ loc' = loc
    BY <1>2, <2>1, Enters DEF Unlink, Return, End, Goto, Working
  <2>3. target'[t] = tree[d][name[t]] /\ loc' = loc
    BY <1>2, <2>2 DEF TreeInv, TypeInv
  <2>4. CASE IsMix(up)
    <3>1. ~scene.apart
      BY <2>1, <2>2, <2>4, Here DEF Plain
    <3>2. IsMix(Parent(loc[t]))'
      BY <2>1, <2>2, <2>3, <2>4 DEF IsMix, Parent
    <3> QED BY <2>2, <3>1, <3>2
  <2>5. CASE ~IsMix(up) /\ n \notin removed /\ ~renamed[t]
    <3>1. name[t] = node[n].name /\ up \in Nodes /\ n \in Nodes
      BY <2>1, <2>2, <2>5, Here DEF RemoveInv, RemovesAt
    <3>2. node[n].home \in Range(Parts(up))
      <4>1. Len(loc[t]) > 1
        BY <2>2 DEF TreeInv, Local, Stage
      <4> QED BY <2>1, <2>2, <4>1, Here, OnPath DEF TreeInv
    <3>3. node[n].home = up /\ d = up
      <4>1. part[t] = 1
        BY <2>1, <2>2, <2>5 DEF TreeInv, Local, AtPart
      <4>2. Parts(up) = <<up>> /\ Range(Parts(up)) = {up}
        BY <2>5, <3>1, PartsOf DEF TreeInv
      <4> QED BY <2>1, <3>2, <4>1, <4>2 DEF Part
    <3>4. tree[up][node[n].name] = n
      BY <2>5, <3>1, <3>3, Constants DEF RemoveInv, LiveInv
    <3> QED BY <2>1, <2>3, <3>1, <3>3, <3>4
  <2> QED BY <2>1, <2>2, <2>3, <2>4, <2>5
<1> QED BY <1>1, <1>2 DEF RemovesAt

\* Every step keeps RemoveInv.
LEMMA NextRemove ==
    ASSUME TreeInv, TreeInv', LockInv, Plain, RemoveInv,
           NEW t \in Threads, Call(t) \/ Attach(t) \/ Step(t)
    PROVE  RemoveInv'
<1>1. Moves(t) /\ Grows
  BY StepMoves DEF Moves
<1>2. LiveInv'
  BY NextLive DEF RemoveInv
<1>3. ASSUME NEW u \in Threads \ {t} PROVE RemovesAt(u)'
  <2>1. SameLocal(u) /\ RemovesAt(u)
    BY <1>1 DEF Moves, RemoveInv
  <2>2. removed \subseteq removed' /\ (renamed[u] => renamed'[u]) /\ scene' = scene
    BY <1>1, HistoriesGrow DEF Grows
  <2>3. ASSUME pc[u] = "unlink", ~renamed'[u] PROVE name[u] = node'[Current(loc[u])].name
    <3>1. PICK n \in Nodes : n = Current(loc[u]) /\ Exists(n)
      BY <2>3, Here DEF Working
    <3>2. node'[n].name = node[n].name
      BY <2>3, <3>1, NameStays
    <3> QED BY <2>1, <2>2, <2>3, <3>1, <3>2 DEF RemovesAt
  <2>4. ASSUME pc[u] = "unlinking" PROVE IsMix(Parent(loc[u]))' <=> IsMix(Parent(loc[u]))
    <3>1. PICK d \in Nodes : d = Parent(loc[u])
      BY <2>4, Here DEF Working
    <3>2. Parent(loc[u])' = d
      BY <2>1, <3>1 DEF SameLocal, Parent
    <3>3. IsMix(d)' <=> IsMix(d)
      BY <1>1, MixesStay
    <3> QED BY <3>1, <3>2, <3>3 DEF IsMix
  <2> QED BY <2>1, <2>2, <2>3, <2>4 DEF RemovesAt, SameLocal
<1>4. RemovesAt(t)'
  BY <1>1, OwnRemove
<1> QED BY <1>2, <1>3, <1>4 DEF RemoveInv

\* RemovesItsOwn, for any threads and requests and any tree of SyntheticDirs: a remove that goes
\* by a name it has read takes its own file, unless that was renamed since or had been removed.
THEOREM RemovesRight == ASSUME PlainScenes PROVE Spec => []RemovesItsOwn
<1>1. Init => RemoveInv
  <2>1. Init => \A t \in Threads : RemovesAt(t)
    BY DEF Init, RemovesAt
  <2> QED BY <2>1, InitLive DEF RemoveInv
<1>2. TreeInv /\ TreeInv' /\ LockInv /\ Plain /\ RemoveInv /\ [Next]_vars => RemoveInv'
  <2>1. ASSUME RemoveInv, UNCHANGED vars PROVE RemoveInv'
    BY <2>1 DEF vars, RemoveInv, LiveInv, RemovesAt, IsMix, Parent
  <2> QED BY <2>1, NextRemove DEF Next
<1>3. RemoveInv => RemovesItsOwn
  BY DEF RemoveInv, RemovesAt, RemovesItsOwn
<1> QED BY <1>1, <1>2, <1>3, TreeInvariant, LockHolds, PlainHolds, PTL DEF Spec

-----------------------------------------------------------------------------
(***************************************************************************)
(* Lists of changes, in order, and what is left to do about them.          *)
(***************************************************************************)
\* A list of changes in that order.
Sorted(s) == \A i, j \in 1..Len(s) : i < j => <<s[i], s[j]>> \in Earlier

\* The list s, of changes to make or to take back, when those in wrote have been made.
Pending(s, wrote, back, c) ==
    /\ back => wrote \subseteq {f \in Fields : Contains(s, f)} /\ ~Contains(s, "len")
    /\ ~back => /\ Sorted(s)
                /\ \A f \in wrote : \A g : Contains(s, g) => <<f, g>> \in Earlier
                /\ ~Contains(s, "uid")
                /\ Contains(s, "perm") => c.stat.perm # None

\* The rest of a list has what the list has but for its head, and is sorted as that is.
LEMMA SortedRest ==
    ASSUME NEW s \in Seq(Fields), s # <<>>
    PROVE  /\ \A g : Contains(s, g) => g = Head(s) \/ Contains(Tail(s), g)
           /\ Sorted(s) => /\ Sorted(Tail(s))
                           /\ \A g : Contains(Tail(s), g) => <<Head(s), g>> \in Earlier
<1>1. PICK n, r : n \in Nat /\ n + 1 = Len(s) /\ r = Tail(s)
  <2>1. PICK m \in Nat : m = Len(s) /\ m # 0
    <3>1. Len(s) \in Nat /\ Len(s) # 0
      OBVIOUS
    <3> QED BY <3>1
  <2>2. m - 1 \in Nat /\ (m - 1) + 1 = m
    BY <2>1
  <2> QED BY <2>1, <2>2
<1>2. r \in Seq(Fields) /\ Len(r) = n /\ \A i \in 1..n : r[i] = s[i + 1]
  BY <1>1
<1>3. Head(s) = s[1] /\ 1 \in 1..Len(s)
  BY <1>1
<1>4. ASSUME NEW g, Contains(s, g) PROVE g = Head(s) \/ Contains(r, g)
  <2>1. PICK i \in 1..(n + 1) : s[i] = g
    BY <1>1, <1>4 DEF Contains
  <2>2. CASE i = 1
    BY <1>3, <2>1, <2>2
  <2>3. CASE i # 1
    <3>1. i - 1 \in 1..n /\ (i - 1) + 1 = i
      BY <1>1, <2>3
    <3>2. r[i - 1] = s[(i - 1) + 1]
      BY <1>2, <3>1
    <3>3. r[i - 1] = g
      BY <2>1, <3>1, <3>2
    <3> QED BY <1>2, <3>1, <3>3 DEF Contains
  <2> QED BY <2>2, <2>3
<1>5. ASSUME Sorted(s), NEW i \in 1..n, NEW j \in 1..n, i < j PROVE <<r[i], r[j]>> \in Earlier
  <2>1. i + 1 \in 1..Len(s) /\ j + 1 \in 1..Len(s) /\ i + 1 < j + 1
    BY <1>1, <1>5
  <2>2. <<s[i + 1], s[j + 1]>> \in Earlier
    BY <1>5, <2>1 DEF Sorted
  <2> QED BY <1>2, <2>2
<1>6. ASSUME Sorted(s), NEW g, Contains(r, g) PROVE <<Head(s), g>> \in Earlier
  <2>1. PICK i \in 1..n : r[i] = g
    BY <1>2, <1>6 DEF Contains
  <2>2. i + 1 \in 1..Len(s) /\ 1 < i + 1 /\ s[i + 1] = g
    BY <1>1, <1>2, <2>1
  <2>3. <<s[1], s[i + 1]>> \in Earlier
    BY <1>3, <1>6, <2>2 DEF Sorted
  <2> QED BY <1>3, <2>2, <2>3
<1> QED BY <1>1, <1>2, <1>4, <1>5, <1>6 DEF Sorted

\* No change comes before itself, and none after that of the length.
LEMMA EarlierIs == \A f : <<f, f>> \notin Earlier /\ <<"len", f>> \notin Earlier
BY DEF Earlier

\* The head of the list has been dealt with.
LEMMA PendingDone ==
    ASSUME NEW s \in Seq(Fields), s # <<>>, NEW was1, NEW now, NEW back \in BOOLEAN, NEW c,
           Pending(s, was1, back, c),
           back => now \subseteq was1 \ {Head(s)}, ~back => now \subseteq was1 \union {Head(s)}
    PROVE  Pending(Tail(s), now, back, c)
<1>1. \A g : Contains(Tail(s), g) => Contains(s, g)
  BY RestOf
<1>2. CASE back
  BY <1>1, <1>2, SortedRest DEF Pending
<1>3. CASE ~back
  BY <1>1, <1>3, SortedRest DEF Pending
<1> QED BY <1>2, <1>3

\* A change that has not been made yet is the first to fail.
LEMMA PendingFails ==
    ASSUME NEW s \in Seq(Fields), s # <<>>, NEW wrote, wrote \subseteq Fields, NEW c,
           Pending(s, wrote, FALSE, c)
    PROVE  Pending(Undo(Head(s)), wrote, TRUE, c) /\ Head(s) \notin wrote
<1>1. Head(s) \in Fields /\ Contains(s, Head(s))
  BY RestOf
<1>2. \A f \in wrote : <<f, Head(s)>> \in Earlier
  BY <1>1 DEF Pending
<1>3. \A g : Contains(Undo(Head(s)), g) <=> <<g, Head(s)>> \in Earlier
  BY <1>1, UndoIs
<1>4. ~Contains(Undo(Head(s)), "len")
  BY <1>3, EarlierIs
<1> QED BY <1>2, <1>3, <1>4, EarlierIs DEF Pending

\* Two sorted lists, the second with later changes.
LEMMA SortedConcat ==
    ASSUME NEW a \in Seq(Fields), NEW b \in Seq(Fields), Sorted(a), Sorted(b),
           \A f, g : Contains(a, f) /\ Contains(b, g) => <<f, g>> \in Earlier
    PROVE  Sorted(a \o b)
<1>1. PICK m, n, c : m \in Nat /\ n \in Nat /\ m = Len(a) /\ n = Len(b) /\ c = a \o b
  <2>1. Len(a) \in Nat /\ Len(b) \in Nat
    OBVIOUS
  <2> QED BY <2>1
<1>2. Len(c) = m + n /\ \A i \in 1..(m + n) : c[i] = IF i <= m THEN a[i] ELSE b[i - m]
  BY <1>1, ConcatProperties
<1>3. ASSUME NEW i \in 1..(m + n), NEW j \in 1..(m + n), i < j
      PROVE  <<c[i], c[j]>> \in Earlier
  <2>1. CASE j <= m
    <3>1. i \in 1..m /\ j \in 1..m /\ i <= m
      BY <1>1, <1>3, <2>1
    <3>2. c[i] = a[i] /\ c[j] = a[j]
      BY <1>2, <2>1, <3>1
    <3> QED BY <1>1, <1>3, <3>1, <3>2 DEF Sorted
  <2>2. CASE i <= m /\ ~(j <= m)
    <3>1. i \in 1..m /\ j - m \in 1..n
      BY <1>1, <1>3, <2>2
    <3>2. c[i] = a[i] /\ c[j] = b[j - m]
      BY <1>2, <2>2
    <3> QED BY <1>1, <3>1, <3>2 DEF Contains
  <2>3. CASE ~(i <= m)
    <3>1. i - m \in 1..n /\ j - m \in 1..n /\ i - m < j - m /\ ~(j <= m)
      BY <1>1, <1>3, <2>3
    <3>2. c[i] = b[i - m] /\ c[j] = b[j - m]
      BY <1>2, <2>3, <3>1
    <3> QED BY <1>1, <3>1, <3>2 DEF Sorted
  <2> QED BY <2>1, <2>2, <2>3
<1> QED BY <1>1, <1>2, <1>3 DEF Sorted

\* A wstat makes its changes in order.
LEMMA ChangesSorted == ASSUME NEW c, NEW st PROVE Sorted(Changes(c, st))
<1> DEFINE If(f) == IF Wanted(c, st, f) THEN <<f>> ELSE <<>>
<1>1. ASSUME NEW f \in Fields
      PROVE  If(f) \in Seq(Fields) /\ Sorted(If(f)) /\ \A x : Contains(If(f), x) => x = f
  <2>1. CASE Wanted(c, st, f)
    <3>1. PICK s : s = <<f>>
      OBVIOUS
    <3>2. s \in Seq(Fields) /\ 1..Len(s) = {1} /\ s[1] = f
      BY <3>1
    <3>3. \A x : Contains(s, x) => x = f
      BY <3>2 DEF Contains
    <3>4. Sorted(s)
      BY <3>2 DEF Sorted
    <3> QED BY <2>1, <3>1, <3>2, <3>3, <3>4
  <2>2. CASE ~Wanted(c, st, f)
    BY <2>2 DEF Contains, Sorted
  <2> QED BY <2>1, <2>2
<1>2. PICK a, b, g, l : a = If("perm") /\ b = If("uid") /\ g = If("name") /\ l = If("len")
  OBVIOUS
<1>3. /\ a \in Seq(Fields) /\ Sorted(a) /\ \A x : Contains(a, x) => x = "perm"
      /\ b \in Seq(Fields) /\ Sorted(b) /\ \A x : Contains(b, x) => x = "uid"
      /\ g \in Seq(Fields) /\ Sorted(g) /\ \A x : Contains(g, x) => x = "name"
      /\ l \in Seq(Fields) /\ Sorted(l) /\ \A x : Contains(l, x) => x = "len"
  <2>1. "perm" \in Fields /\ "uid" \in Fields /\ "name" \in Fields /\ "len" \in Fields
    BY DEF Fields
  <2> HIDE DEF If
  <2> QED BY <1>1, <1>2, <2>1
<1>4. Changes(c, st) = ((a \o b) \o g) \o l
  BY <1>2 DEF Changes
<1> HIDE DEF If
<1>5. a \o b \in Seq(Fields) /\ \A x : Contains(a \o b, x) => x = "perm" \/ x = "uid"
  BY <1>3, ListOfFields
<1>6. Sorted(a \o b)
  BY <1>3, SortedConcat DEF Earlier
<1>7. PICK ab \in Seq(Fields) : ab = a \o b /\ Sorted(ab)
                                /\ \A x : Contains(ab, x) => x = "perm" \/ x = "uid"
  BY <1>5, <1>6
<1>8. /\ ab \o g \in Seq(Fields) /\ Sorted(ab \o g)
      /\ \A x : Contains(ab \o g, x) => x = "perm" \/ x = "uid" \/ x = "name"
  <2>1. \A x, y : Contains(ab, x) /\ Contains(g, y) => <<x, y>> \in Earlier
    BY <1>3, <1>7 DEF Earlier
  <2> QED BY <1>3, <1>7, <2>1, ListOfFields, SortedConcat
<1>9. PICK abg \in Seq(Fields) : abg = ab \o g /\ Sorted(abg)
                                 /\ \A x : Contains(abg, x) => x = "perm" \/ x = "uid" \/ x = "name"
  BY <1>8
<1>10. \A x, y : Contains(abg, x) /\ Contains(l, y) => <<x, y>> \in Earlier
  BY <1>3, <1>9 DEF Earlier
<1>11. Sorted(abg \o l)
  BY <1>3, <1>9, <1>10, SortedConcat
<1> QED BY <1>4, <1>7, <1>9, <1>11

\* At the start nothing has been changed.
LEMMA PendingStarts ==
    ASSUME NEW c, NEW st, c.stat.uid = None
    PROVE  Pending(Changes(c, st), {}, FALSE, c)
BY ChangesSorted, ChangesOf DEF Pending, Wanted

-----------------------------------------------------------------------------
(***************************************************************************)
(* A wstat that no other call overlaps can be taken back.                  *)
(***************************************************************************)
\* A request that no other overlaps.
AloneInv == \A t \in Threads : alone[t] /\ Working(t) => \A u \in Threads \ {t} : pc[u] = "idle"

\* What a step does to the history of overlaps.
LEMMA AloneKept ==
    ASSUME TreeInv, NEW t \in Threads, Call(t) \/ Attach(t) \/ Step(t)
    PROVE  \/ /\ Call(t) /\ pc[t] = "idle"
              /\ alone'[t] => \A u \in Threads : pc[u] = "idle"
              /\ \A u \in Threads \ {t} : alone'[u] => pc[u] = "idle"
           \/ ~Call(t) /\ alone' = alone /\ (Working(t) \/ Attach(t))
<1>1. CASE Call(t)
  BY <1>1 DEF Call
<1>2. CASE ~Call(t)
  BY <1>2 DEF Attach, Step, Walk, Create, CanOpen, Open, Read, Write, Clunk, Die, RemoveFid,
              Find, Unlink, Unlinked, WriteStat, SetCheck, Set, Rename, Renaming, Wstat, Working
<1> QED BY <1>1, <1>2

\* AloneInv, for any tree, threads and requests.
LEMMA AloneHolds == Spec => []AloneInv
<1>1. Init => AloneInv
  BY DEF Init, AloneInv, Working
<1>2. TreeInv /\ AloneInv /\ [Next]_vars => AloneInv'
  <2>1. ASSUME AloneInv, UNCHANGED vars PROVE AloneInv'
    BY <2>1 DEF vars, AloneInv, Working
  <2>2. ASSUME TreeInv, AloneInv, NEW t \in Threads, Call(t) \/ Attach(t) \/ Step(t)
        PROVE  AloneInv'
    <3>1. \A u \in Threads \ {t} : pc'[u] = pc[u]
      BY <2>2, StepMoves DEF Moves, SameLocal
    <3>2. Attach(t) => pc' = pc
      BY DEF Attach
    <3> QED BY <2>2, <3>1, <3>2, AloneKept DEF AloneInv, Working
  <2> QED BY <2>1, <2>2 DEF Next
<1> QED BY <1>1, <1>2, TreeInvariant, PTL DEF Spec

\* What setStat remembers.
WasAt(t) ==
    /\ pc[t] = "wstat" => ~undo[t]
    /\ pc[t] \in {"set", "setting"} => IsNode(was[t])

\* It holds of every thread.
WasInv == \A t \in Threads : WasAt(t)

\* WasInv, for any tree, threads and requests.
LEMMA WasHolds == Spec => []WasInv
<1>1. Init => WasInv
  BY DEF Init, WasInv, WasAt
<1>2. TreeInv /\ WasInv /\ [Next]_vars => WasInv'
  <2>1. ASSUME WasInv, UNCHANGED vars PROVE WasInv'
    BY <2>1 DEF vars, WasInv, WasAt
  <2>2. ASSUME TreeInv, WasInv, NEW t \in Threads, Call(t) \/ Attach(t) \/ Step(t)
        PROVE  WasInv'
    <3>1. \A u \in Threads \ {t} : WasAt(u)'
      BY <2>2, StepMoves DEF Moves, SameLocal, WasInv, WasAt
    <3>2. pc'[t] = "wstat" => ~undo'[t]
      BY ZenonT(20), <2>2, Enters DEF Call, TreeInv, TypeInv
    <3>3. ASSUME pc'[t] \in {"set", "setting"} PROVE IsNode(was'[t])
      <4>1. CASE pc[t] \in {"set", "setting"}
        BY <2>2, <3>3, <4>1, TodoStep DEF WasInv, WasAt
      <4>2. CASE WriteStat(t)
        <5>1. pc[t] = "wstat" /\ Working(t)
          BY <4>2 DEF WriteStat, Working
        <5>2. IsNode(node[target[t]])
          BY <2>2, <5>1, Here DEF TreeInv, TypeInv
        <5>3. \/ pc' = [pc EXCEPT ![t] = "idle"]
              \/ was' = [was EXCEPT ![t] = node[target[t]]]
          BY <4>2 DEF WriteStat, Return, End, Goto
        <5>4. pc'[t] = "idle" \/ was'[t] = node[target[t]]
          BY <2>2, <5>3 DEF TreeInv, TypeInv
        <5> QED BY <3>3, <5>2, <5>4
      <4> QED BY <2>2, <3>3, <4>1, <4>2, Enters DEF SetCheck
    <3> QED BY <3>1, <3>2, <3>3 DEF WasInv, WasAt
  <2> QED BY <2>1, <2>2 DEF Next
<1> QED BY <1>1, <1>2, TreeInvariant, PTL DEF Spec

\* Wrote(t, f): field f of the file is not as t found it; Written(t): all such fields.
\* Lone(t): t is changing a file, alone, and may expect to take it back.
Wrote(t, f) == node[target[t]][f] # was[t][f]
Written(t)  == {f \in Fields : Wrote(t, f)}
Lone(t)     == pc[t] \in {"set", "setting"} /\ alone[t] /\ Undoable(t)

\* What t has changed it may change back.
Able(t) ==
    /\ pc[t] = "setting" => MaySet(t, Head(todo[t]))
    /\ Wrote(t, "perm") => MaySet(t, "perm")
    /\ Wrote(t, "name") =>
         /\ Len(loc[t]) > 1 /\ op[t].stat.name \in Names
         /\ tree[Parent(loc[t])][op[t].stat.name] = target[t]
         /\ tree[Parent(loc[t])][was[t].name] = None
         /\ May(User(t), Parent(loc[t]), "OWRITE")

\* A wstat alone has changed what is before the list, or is on the list to take back.
LoneAt(t) ==
    Lone(t) => /\ \A f \in {"kind", "opens", "home", "uid"} : ~Wrote(t, f)
               /\ Pending(todo[t], Written(t), undo[t], op[t])
               /\ Able(t)

\* It holds of every thread.
LoneInv == \A t \in Threads : LoneAt(t)

\* The start of setStat.
LEMMA LoneWriteStat ==
    ASSUME TreeInv, WasInv, NEW t \in Threads, WriteStat(t) PROVE LoneAt(t)'
<1> SUFFICES ASSUME Lone(t)' PROVE LoneAt(t)'
  BY DEF LoneAt
<1>1. PICK n, st : n = target[t] /\ st = node[n]
  OBVIOUS
<1>2. /\ pc[t] = "wstat" /\ node' = node /\ undo' = undo /\ scene' = scene
      /\ \/ pc' = [pc EXCEPT ![t] = "idle"]
         \/ /\ was' = [was EXCEPT ![t] = st] /\ todo' = [todo EXCEPT ![t] = Changes(op[t], st)]
            /\ pc' = [pc EXCEPT ![t] = "set"] /\ op' = op /\ target' = target
  BY <1>1 DEF WriteStat, Return, End, Goto
<1>3. /\ was'[t] = st /\ todo'[t] = Changes(op[t], st) /\ pc'[t] = "set" /\ op' = op
      /\ target' = target /\ undo'[t] = FALSE
  <2>1. pc'[t] # "idle"
    BY DEF Lone
  <2>2. undo[t] = FALSE
    BY <1>2 DEF WasInv, WasAt, TreeInv, TypeInv
  <2> QED BY <1>2, <2>1, <2>2 DEF TreeInv, TypeInv
<1>4. op[t].stat.uid = None
  BY <1>3 DEF Lone, Undoable
<1>5. \A f : ~Wrote(t, f)'
  BY <1>1, <1>2, <1>3 DEF Wrote
<1>6. Written(t)' = {}
  BY <1>5 DEF Written
<1>7. Pending(Changes(op[t], st), {}, FALSE, op[t])
  BY <1>4, PendingStarts
<1>8. Pending(todo[t], Written(t), undo[t], op[t])'
  BY <1>3, <1>6, <1>7 DEF Pending, Sorted
<1> QED BY <1>3, <1>5, <1>8 DEF LoneAt, Able

\* The failure of a change leaves a list of all that has been changed.
LEMMA LoneFails ==
    ASSUME TreeInv, NEW t \in Threads, pc[t] \in {"set", "setting"}, todo[t] # <<>>,
           Pending(todo[t], Written(t), undo[t], op[t]), Failed(t),
           undo[t] => Head(todo[t]) \notin Written(t)
    PROVE  Pending(todo'[t], Written(t), undo'[t], op[t]) /\ pc'[t] = "set"
<1>1. PICK s \in Seq(Fields) : s = todo[t] /\ s # <<>>
  BY InSetStat
<1>2. /\ todo'[t] = IF undo[t] THEN Tail(s) ELSE Undo(Head(s))
      /\ undo'[t] = TRUE /\ pc'[t] = "set" /\ undo[t] \in BOOLEAN
  BY <1>1 DEF Failed, Goto, TreeInv, TypeInv
<1>3. CASE undo[t] = TRUE
  <2>1. Written(t) \subseteq Written(t) \ {Head(s)}
    BY <1>1, <1>3
  <2>2. Pending(s, Written(t), TRUE, op[t])
    BY <1>1, <1>3
  <2>3. Pending(Tail(s), Written(t), TRUE, op[t])
    BY <1>1, <2>1, <2>2, PendingDone
  <2> QED BY <1>2, <1>3, <2>3
<1>4. CASE undo[t] = FALSE
  <2>1. Pending(s, Written(t), FALSE, op[t]) /\ Written(t) \subseteq Fields
    BY <1>1, <1>4 DEF Written
  <2>2. Pending(Undo(Head(s)), Written(t), TRUE, op[t])
    BY <1>1, <2>1, PendingFails
  <2> QED BY <1>2, <1>4, <2>2
<1> QED BY <1>2, <1>3, <1>4

\* The check of a change that is taken back does not fail.
LEMMA LoneSetCheck ==
    ASSUME TreeInv, NEW t \in Threads, LoneAt(t), SetCheck(t) PROVE LoneAt(t)'
<1> SUFFICES ASSUME Lone(t)' PROVE LoneAt(t)'
  BY DEF LoneAt
<1>1. /\ pc[t] = "set" /\ todo[t] # <<>> /\ node' = node /\ tree' = tree /\ was' = was /\ loc' = loc
      /\ target' = target /\ op' = op /\ scene' = scene /\ alone' = alone
      /\ \/ pc' = [pc EXCEPT ![t] = "setting"] /\ todo' = todo /\ undo' = undo
            /\ MaySet(t, Head(todo[t]))
         \/ ~MaySet(t, Head(todo[t])) /\ Failed(t)
  BY DEF SetCheck, Goto
<1>2. Lone(t)
  BY <1>1 DEF Lone, Undoable
<1>3. /\ \A f \in {"kind", "opens", "home", "uid"} : ~Wrote(t, f)
      /\ Pending(todo[t], Written(t), undo[t], op[t]) /\ Able(t)
  BY <1>2 DEF LoneAt
<1>4. /\ \A f : Wrote(t, f)' = Wrote(t, f) /\ MaySet(t, f)' = MaySet(t, f)
      /\ Parent(loc[t])' = Parent(loc[t])
      /\ May(User(t), Parent(loc[t]), "OWRITE")' = May(User(t), Parent(loc[t]), "OWRITE")
  BY <1>1 DEF Wrote, MaySet, May, User, Parent
<1>5. Written(t)' = Written(t)
  BY <1>4 DEF Written
<1>6. /\ Wrote(t, "perm")' => MaySet(t, "perm")'
      /\ Wrote(t, "name")' =>
           /\ Len(loc'[t]) > 1 /\ op'[t].stat.name \in Names
           /\ tree'[Parent(loc[t])'][op'[t].stat.name] = target'[t]
           /\ tree'[Parent(loc[t])'][was'[t].name] = None
           /\ May(User(t), Parent(loc[t]), "OWRITE")'
  BY <1>1, <1>3, <1>4 DEF Able
<1>7. CASE pc' = [pc EXCEPT ![t] = "setting"] /\ todo' = todo /\ undo' = undo
           /\ MaySet(t, Head(todo[t]))
  <2>1. MaySet(t, Head(todo[t]))'
    BY <1>1, <1>7 DEF MaySet, May, User
  <2>2. Able(t)'
    BY <1>6, <2>1 DEF Able
  <2>3. Pending(todo[t], Written(t), undo[t], op[t])'
    BY <1>1, <1>3, <1>5, <1>7 DEF Pending, Sorted
  <2> QED BY <1>3, <1>4, <2>2, <2>3 DEF LoneAt
<1>8. CASE ~MaySet(t, Head(todo[t])) /\ Failed(t)
  <2>1. todo[t] \in Seq(Fields) /\ Head(todo[t]) \in Fields /\ Head(todo[t]) # "name"
        /\ Contains(todo[t], Head(todo[t]))
    BY <1>1, InSetStat, RestOf DEF SetCheck
  <2>2. undo[t] => Head(todo[t]) \notin Written(t)
    <3>1. ~Wrote(t, "uid") /\ (Wrote(t, "perm") => MaySet(t, "perm"))
      BY <1>3 DEF Able
    <3>2. undo[t] => Head(todo[t]) # "len"
      BY <1>3, <2>1 DEF Pending
    <3> QED BY <1>8, <2>1, <3>1, <3>2 DEF Written, Fields
  <2>3. Pending(todo'[t], Written(t), undo'[t], op[t]) /\ pc'[t] = "set"
    BY <1>1, <1>3, <1>8, <2>2, LoneFails
  <2>4. Pending(todo[t], Written(t), undo[t], op[t])'
    BY <1>1, <1>5, <2>3 DEF Pending, Sorted
  <2>5. Able(t)'
    BY <1>6, <2>3 DEF Able
  <2> QED BY <1>3, <1>4, <2>4, <2>5 DEF LoneAt
<1> QED BY <1>1, <1>7, <1>8

\* Where a file is that a wstat renames.
LEMMA LoneDir ==
    ASSUME TreeInv, Plain, scene.apart, NEW t \in Threads, pc[t] \in {"set", "setting"},
           Len(loc[t]) > 1
    PROVE  /\ Parent(loc[t]) \in Nodes /\ Part(t, Parent(loc[t])) = Parent(loc[t]) /\ Located(t)
           /\ target[t] \in Nodes /\ node[target[t]].home = Parent(loc[t])
           /\ target[t] # Parent(loc[t])
<1>1. PICK p \in Seq(Nodes) : p = loc[t] /\ p # <<>> /\ Chain(p)
  BY Here DEF Working
<1>2. PICK d, n : /\ d = Parent(p) /\ n = Current(p) /\ d \in Nodes /\ n \in Nodes
                  /\ node[n].home \in Range(Parts(d))
  BY <1>1, OnPath, PathEnds DEF TreeInv
<1>3. ~IsMix(d)
  BY <1>2 DEF Plain
<1>4. node[n].home = d /\ Parts(d) = <<d>>
  BY <1>2, <1>3, PartsOf DEF TreeInv
<1>5. target[t] = n
  BY <1>1, <1>2, InSetStat
<1>6. part[t] = 1
  BY <1>1, <1>2, <1>3 DEF TreeInv, Local, AtPart, Working
<1>7. n # d
  BY <1>2, <1>4, Constants DEF TreeInv, NodesInv
<1> QED BY <1>1, <1>2, <1>3, <1>4, <1>5, <1>6, <1>7 DEF Part, Located

\* A change of mode or length, or taking one back.
LEMMA LoneSet ==
    ASSUME TreeInv, Plain, NEW t \in Threads, LoneAt(t), Set(t) PROVE LoneAt(t)'
<1> SUFFICES ASSUME Lone(t)' PROVE LoneAt(t)'
  BY DEF LoneAt
<1>1. PICK n, f, v : n = target[t] /\ f = Head(todo[t]) /\ v = Value(t, f)
  OBVIOUS
<1>2. /\ pc[t] = "setting" /\ tree' = tree /\ was' = was /\ loc' = loc
      /\ target' = target /\ op' = op /\ scene' = scene /\ alone' = alone
      /\ \/ f = "len" /\ Failed(t) /\ node' = node
         \/ node' = [node EXCEPT ![n] = [node[n] EXCEPT ![f] = v]] /\ Done(t)
  BY <1>1 DEF Set
<1>3. Lone(t)
  BY <1>2 DEF Lone, Undoable
<1>4. /\ \A h \in {"kind", "opens", "home", "uid"} : ~Wrote(t, h)
      /\ Pending(todo[t], Written(t), undo[t], op[t]) /\ Able(t)
  BY <1>3 DEF LoneAt
<1>5. PICK s \in Seq(Fields) : s = todo[t] /\ s # <<>>
  BY <1>2, InSetStat DEF TreeInv, Local, Todo
<1>6. f \in {"perm", "uid", "len"} /\ Contains(s, f) /\ n \in Nodes /\ undo[t] \in BOOLEAN
  <2>1. f \in Fields /\ Contains(s, f)
    BY <1>1, <1>5, RestOf
  <2>2. f # "name" /\ n \in Nodes
    BY <1>1, <1>2, Here DEF TreeInv, Local, Todo, Working
  <2> QED BY <2>1, <2>2 DEF Fields, TreeInv, TypeInv
<1>7. ASSUME f = "len", Failed(t), node' = node PROVE LoneAt(t)'
  <2>1. undo[t] => Head(todo[t]) \notin Written(t)
    BY <1>1, <1>4, <1>5, <1>6, <1>7 DEF Pending
  <2>2. Pending(todo'[t], Written(t), undo'[t], op[t]) /\ pc'[t] = "set"
    BY <1>2, <1>4, <1>5, <1>7, <2>1, LoneFails
  <2>3. /\ \A h : Wrote(t, h)' = Wrote(t, h) /\ MaySet(t, h)' = MaySet(t, h)
        /\ Parent(loc[t])' = Parent(loc[t])
        /\ May(User(t), Parent(loc[t]), "OWRITE")' = May(User(t), Parent(loc[t]), "OWRITE")
    BY <1>2, <1>7 DEF Wrote, MaySet, May, User, Parent
  <2>4. Written(t)' = Written(t)
    BY <2>3 DEF Written
  <2>5. Pending(todo[t], Written(t), undo[t], op[t])'
    BY <1>2, <2>2, <2>4 DEF Pending, Sorted
  <2>6. Able(t)'
    BY <1>2, <1>4, <2>2, <2>3 DEF Able
  <2> QED BY <1>4, <2>3, <2>5, <2>6 DEF LoneAt
<1>8. ASSUME node' = [node EXCEPT ![n] = [node[n] EXCEPT ![f] = v]], Done(t) PROVE LoneAt(t)'
  <2>1. /\ node'[n][f] = v /\ \A h \in Attributes \ {f} : node'[n][h] = node[n][h]
        /\ \A m \in Nodes \ {n} : node'[m] = node[m]
    <3>1. IsNode(node[n]) /\ f \in Attributes
      BY <1>6 DEF TreeInv, TypeInv, Attributes
    <3>2. PICK x, y : x = node[n] /\ IsNode(x) /\ y = [x EXCEPT ![f] = v]
      BY <3>1
    <3>3. y[f] = v /\ \A h \in Attributes \ {f} : y[h] = x[h]
      BY <3>1, <3>2, OneAttribute
    <3>4. node'[n] = y /\ \A m \in Nodes \ {n} : node'[m] = node[m]
      BY <1>6, <1>8, <3>2 DEF TreeInv, TypeInv
    <3> QED BY <3>2, <3>3, <3>4
  <2>2. todo'[t] = Tail(s) /\ undo' = undo /\ pc'[t] = "set"
    BY <1>5, <1>8 DEF Done, Goto, TreeInv, TypeInv
  <2>3. \A h : Wrote(t, h)' <=> node'[n][h] # was[t][h]
    BY <1>1, <1>2 DEF Wrote
  <2>4. \A h \in Attributes \ {f} : Wrote(t, h)' <=> Wrote(t, h)
    BY <1>1, <2>1, <2>3 DEF Wrote
  <2>5. undo[t] => ~Wrote(t, f)'
    BY <1>1, <2>1, <2>3 DEF Value
  <2>6. f = "uid" => undo[t]
    BY <1>4, <1>5, <1>6 DEF Pending
  <2>7. \A h \in {"kind", "opens", "home", "uid"} : ~Wrote(t, h)'
    <3>1. {"kind", "opens", "home"} \subseteq Attributes \ {f} /\ (f # "uid" => "uid" \in Attributes \ {f})
      BY <1>6 DEF Attributes
    <3> QED BY <1>4, <2>4, <2>5, <2>6, <3>1
  <2>8. /\ undo[t] => Written(t)' \subseteq Written(t) \ {Head(s)}
        /\ ~undo[t] => Written(t)' \subseteq Written(t) \union {Head(s)}
    <3>1. Fields \ {f} \subseteq Attributes \ {f}
      BY DEF Fields, Attributes
    <3> QED BY <1>1, <1>5, <2>4, <2>5, <3>1 DEF Written
  <2>9. Pending(Tail(s), Written(t)', undo[t], op[t])
    BY <1>4, <1>5, <1>6, <2>8, PendingDone
  <2>10. Pending(todo[t], Written(t), undo[t], op[t])'
    BY <1>2, <2>2, <2>9 DEF Pending, Sorted
  <2>11. node'[n].uid = node[n].uid
    <3>1. "uid" \in Attributes
      BY DEF Attributes
    <3>2. was[t]["uid"] = node[n]["uid"] /\ (~Wrote(t, "uid")' => node'[n]["uid"] = was[t]["uid"])
      BY <1>1, <1>4, <2>3 DEF Wrote
    <3> QED BY <2>7, <3>2
  <2>12. Wrote(t, "perm")' => MaySet(t, "perm")'
    <3>1. CASE f = "perm"
      <4>1. SUFFICES ASSUME ~undo[t] PROVE MaySet(t, "perm")'
        BY <2>5, <3>1
      <4>2. MaySet(t, "perm") /\ op[t].stat.perm # None
        BY <1>1, <1>2, <1>4, <1>5, <1>6, <3>1, <4>1 DEF Able, Pending
      <4>3. <<"owner", "w">> \in v /\ node[n].uid = User(t)
        BY <1>1, <1>3, <3>1, <4>1, <4>2 DEF Lone, Undoable, Value, MaySet
      <4>4. node'[n].perm = v
        BY <2>1, <3>1
      <4> QED BY <1>1, <1>2, <2>11, <4>3, <4>4 DEF MaySet, May, PermCheck, Needs, User
    <3>2. CASE f # "perm"
      <4>1. "perm" \in Attributes \ {f}
        BY <3>2 DEF Attributes
      <4>2. node'[n].perm = node[n].perm /\ (Wrote(t, "perm")' <=> Wrote(t, "perm"))
        BY <2>1, <2>4, <4>1
      <4> QED BY <1>1, <1>2, <1>4, <2>11, <4>2 DEF Able, MaySet, May, User
    <3> QED BY <3>1, <3>2
  <2>13. Wrote(t, "name")' =>
           /\ Len(loc'[t]) > 1 /\ op'[t].stat.name \in Names
           /\ tree'[Parent(loc[t])'][op'[t].stat.name] = target'[t]
           /\ tree'[Parent(loc[t])'][was'[t].name] = None
           /\ May(User(t), Parent(loc[t]), "OWRITE")'
    <3>1. SUFFICES ASSUME Wrote(t, "name")
                   PROVE  /\ Len(loc[t]) > 1 /\ op[t].stat.name \in Names
                          /\ tree[Parent(loc[t])][op[t].stat.name] = target[t]
                          /\ tree[Parent(loc[t])][was[t].name] = None
                          /\ May(User(t), Parent(loc[t]), "OWRITE")'
      <4>1. "name" \in Attributes \ {f}
        BY <1>6 DEF Attributes
      <4> QED BY <1>2, <2>4, <4>1 DEF Parent
    <3>2. /\ Len(loc[t]) > 1 /\ op[t].stat.name \in Names
          /\ tree[Parent(loc[t])][op[t].stat.name] = target[t]
          /\ tree[Parent(loc[t])][was[t].name] = None
          /\ May(User(t), Parent(loc[t]), "OWRITE")
      BY <1>4, <3>1 DEF Able
    <3>3. Parent(loc[t]) \in Nodes /\ n # Parent(loc[t])
      BY <1>1, <1>2, <1>3, <3>2, LoneDir DEF Lone, Undoable
    <3>4. node'[Parent(loc[t])] = node[Parent(loc[t])] /\ Parent(loc[t])' = Parent(loc[t])
      BY <1>2, <2>1, <3>3 DEF Parent
    <3> QED BY <3>2, <3>4 DEF May, User
  <2>14. Able(t)'
    BY <2>2, <2>12, <2>13 DEF Able
  <2> QED BY <2>7, <2>10, <2>14 DEF LoneAt
<1> QED BY <1>2, <1>7, <1>8

\* A rename, or taking it back: the name left is free and the name taken leads to the file.
LEMMA LoneRename ==
    ASSUME TreeInv, Plain, NEW t \in Threads, LoneAt(t), Rename(t) PROVE LoneAt(t)'
<1> SUFFICES ASSUME Lone(t)' PROVE LoneAt(t)'
  BY DEF LoneAt
<1>1. PICK n, d, old, new, m :
        /\ n = target[t] /\ d = Parent(loc[t]) /\ old = OldName(t) /\ new = Value(t, "name")
        /\ m = tree[d][old]
  OBVIOUS
<1>2. /\ pc[t] = "set" /\ todo[t] # <<>> /\ Head(todo[t]) = "name" /\ Renaming(t)
      /\ was' = was /\ loc' = loc
      /\ target' = target /\ op' = op /\ scene' = scene /\ alone' = alone
  BY DEF Rename, Renaming
<1>3. Lone(t) /\ scene.apart
  BY <1>2 DEF Lone, Undoable
<1>4. /\ \A h \in {"kind", "opens", "home", "uid"} : ~Wrote(t, h)
      /\ Pending(todo[t], Written(t), undo[t], op[t]) /\ Able(t)
  BY <1>3 DEF LoneAt
<1>5. PICK s \in Seq(Fields) : s = todo[t] /\ s # <<>>
  BY <1>2, InSetStat
<1>6. Len(loc[t]) > 1 /\ Len(loc[t]) # 1
  <2>1. Len(loc[t]) = 1 => pc' = [pc EXCEPT ![t] = "panic"]
    BY DEF Rename, Goto
  <2>2. Len(loc[t]) # 1
    BY <2>1 DEF Lone, TreeInv, TypeInv
  <2> QED BY <1>2, <2>2, BelowRoot DEF Working
<1>7. /\ d \in Nodes /\ Part(t, d) = d /\ Located(t) /\ n \in Nodes /\ node[n].home = d /\ n # d
      /\ new \in Names /\ old \in Names \union {None} /\ undo[t] \in BOOLEAN
  BY <1>1, <1>2, <1>3, <1>6, LoneDir, NamesOf DEF TreeInv, TypeInv
<1>8. IF old # None /\ m # None /\ tree[d][new] = None /\ May(User(t), d, "OWRITE")
      THEN /\ SetName(m, new) /\ Done(t)
           /\ tree' = [tree EXCEPT ![d][old] = None, ![d][new] = m]
      ELSE Failed(t) /\ node' = node /\ tree' = tree
  <2>1. Part(t, Parent(loc[t])) = d
    BY <1>1, <1>7
  <2> QED BY <1>1, <1>6, <2>1 DEF Rename, Taken
<1>9. undo[t] => old = op[t].stat.name /\ new = was[t].name
  BY <1>1 DEF OldName, Value
<1>10. ~undo[t] => old = was[t].name /\ new = op[t].stat.name /\ "name" \notin Written(t)
  <2>1. ~undo[t] => "name" \notin Written(t)
    <3>1. SUFFICES ASSUME ~undo[t] PROVE "name" \notin Written(t)
      OBVIOUS
    <3>2. Pending(s, Written(t), FALSE, op[t]) /\ Written(t) \subseteq Fields
      BY <1>4, <1>5, <1>7, <3>1 DEF Written
    <3> QED BY <1>2, <1>5, <3>2, PendingFails
  <2> QED BY <1>1, <2>1 DEF OldName, Value
<1>11. ASSUME ~(old # None /\ m # None /\ tree[d][new] = None /\ May(User(t), d, "OWRITE")),
              Failed(t), node' = node, tree' = tree
       PROVE  LoneAt(t)'
  <2>1. undo[t] => Head(todo[t]) \notin Written(t)
    <3>1. SUFFICES ASSUME undo[t], Wrote(t, "name") PROVE FALSE
      BY <1>2 DEF Written
    <3>2. /\ tree[d][op[t].stat.name] = n /\ tree[d][was[t].name] = None
          /\ May(User(t), d, "OWRITE") /\ op[t].stat.name # None
      BY <1>1, <1>4, <3>1, Constants DEF Able
    <3>3. m = n /\ tree[d][new] = None /\ old # None /\ n # None
      BY <1>1, <1>7, <1>9, <3>1, <3>2, Constants
    <3> QED BY <1>11, <3>2, <3>3
  <2>2. Pending(todo'[t], Written(t), undo'[t], op[t]) /\ pc'[t] = "set"
    BY <1>2, <1>4, <1>5, <1>11, <2>1, LoneFails
  <2>3. /\ \A h : Wrote(t, h)' = Wrote(t, h) /\ MaySet(t, h)' = MaySet(t, h)
        /\ Parent(loc[t])' = Parent(loc[t])
        /\ May(User(t), Parent(loc[t]), "OWRITE")' = May(User(t), Parent(loc[t]), "OWRITE")
    BY <1>2, <1>11 DEF Wrote, MaySet, May, User, Parent
  <2>4. Written(t)' = Written(t)
    BY <2>3 DEF Written
  <2>5. Pending(todo[t], Written(t), undo[t], op[t])'
    BY <1>2, <2>2, <2>4 DEF Pending, Sorted
  <2>6. Able(t)'
    BY <1>2, <1>4, <1>11, <2>2, <2>3 DEF Able
  <2> QED BY <1>4, <2>3, <2>5, <2>6 DEF LoneAt
<1>12. ASSUME old # None, m # None, tree[d][new] = None, May(User(t), d, "OWRITE"),
              SetName(m, new), Done(t), tree' = [tree EXCEPT ![d][old] = None, ![d][new] = m]
       PROVE  LoneAt(t)'
  <2>1. old \in Names
    BY <1>7, <1>12
  <2>2. /\ m \in Nodes /\ node'[m].name = new /\ old # new
        /\ \A k \in Nodes \ {m} : node'[k] = node[k]
        /\ \A h \in Attributes \ {"name"} : node'[m][h] = node[m][h]
        /\ tree'[d][new] = m /\ tree'[d][old] = None
    <3>1. PICK o \in Names, w \in Names : o = old /\ w = new
      BY <1>7, <2>1
    <3>2. /\ m = tree[d][o] /\ m # None /\ tree[d][w] = None /\ SetName(m, w)
          /\ tree' = [tree EXCEPT ![d][o] = None, ![d][w] = m]
      BY <1>1, <1>12, <3>1
    <3>3. d \in Nodes /\ scene' = scene
      BY <1>2, <1>7
    <3>4. m \in Nodes /\ node'[m].name = w /\ o # w
      BY <3>1, <3>2, <3>3, Renamed
    <3>5. PICK x, y : x = node[m] /\ IsNode(x) /\ y = [x EXCEPT !["name"] = w]
      BY <3>4 DEF TreeInv, TypeInv
    <3>6. \A h \in Attributes \ {"name"} : y[h] = x[h]
      BY <3>5, OneAttribute DEF Attributes
    <3>7. node'[m] = y /\ \A k \in Nodes \ {m} : node'[k] = node[k]
      BY <3>2, <3>4, <3>5 DEF SetName, TreeInv, TypeInv
    <3>8. tree'[d][w] = m /\ tree'[d][o] = None
      BY <3>1, <3>2, <3>3, <3>4 DEF TreeInv, TypeInv
    <3> QED BY <3>1, <3>4, <3>5, <3>6, <3>7, <3>8
  <2>3. todo'[t] = Tail(s) /\ undo' = undo /\ pc'[t] = "set"
    BY <1>5, <1>12 DEF Done, Goto, TreeInv, TypeInv
  <2>4. \A h : Wrote(t, h)' <=> node'[n][h] # was[t][h]
    BY <1>1, <1>2 DEF Wrote
  <2>5. \A h \in Attributes \ {"name"} : node'[n][h] = node[n][h] /\ (Wrote(t, h)' <=> Wrote(t, h))
    BY <1>1, <1>7, <2>2, <2>4 DEF Wrote
  <2>6. m # n => node'[n] = node[n] /\ (Wrote(t, "name")' <=> Wrote(t, "name"))
    BY <1>1, <1>7, <2>2, <2>4 DEF Wrote
  <2>7. undo[t] => ~Wrote(t, "name")'
    <3>1. CASE m = n
      BY <1>9, <2>2, <2>4, <3>1
    <3>2. CASE m # n
      <4>1. Wrote(t, "name") /\ undo[t] => tree[d][old] = n
        BY <1>1, <1>4, <1>9 DEF Able
      <4> QED BY <1>1, <2>6, <3>2, <4>1
    <3> QED BY <3>1, <3>2
  <2>8. \A h \in {"kind", "opens", "home", "uid"} : ~Wrote(t, h)'
    BY <1>4, <2>5 DEF Attributes
  <2>9. /\ undo[t] => Written(t)' \subseteq Written(t) \ {Head(s)}
        /\ ~undo[t] => Written(t)' \subseteq Written(t) \union {Head(s)}
    <3>1. Fields \ {"name"} \subseteq Attributes \ {"name"}
      BY DEF Fields, Attributes
    <3> QED BY <1>2, <1>5, <2>5, <2>7, <3>1 DEF Written
  <2>10. Pending(Tail(s), Written(t)', undo[t], op[t])
    BY <1>4, <1>5, <1>7, <2>9, PendingDone
  <2>11. Pending(todo[t], Written(t), undo[t], op[t])'
    BY <1>2, <2>3, <2>10 DEF Pending, Sorted
  <2>12. node'[n].uid = node[n].uid /\ node'[n].perm = node[n].perm
         /\ (Wrote(t, "perm")' <=> Wrote(t, "perm"))
    BY <2>5 DEF Attributes
  <2>13. Wrote(t, "perm")' => MaySet(t, "perm")'
    BY <1>1, <1>2, <1>4, <2>12 DEF Able, MaySet, May, User
  <2>14. Wrote(t, "name")' =>
           /\ Len(loc'[t]) > 1 /\ op'[t].stat.name \in Names
           /\ tree'[Parent(loc[t])'][op'[t].stat.name] = target'[t]
           /\ tree'[Parent(loc[t])'][was'[t].name] = None
           /\ May(User(t), Parent(loc[t]), "OWRITE")'
    <3>1. SUFFICES ASSUME Wrote(t, "name")', ~undo[t]
                   PROVE  /\ Len(loc[t]) > 1 /\ op[t].stat.name \in Names
                          /\ tree'[d][op[t].stat.name] = n
                          /\ tree'[d][was[t].name] = None
                          /\ May(User(t), d, "OWRITE")'
      <4>1. Parent(loc[t])' = d
        BY <1>1, <1>2 DEF Parent
      <4> QED BY <1>1, <1>2, <2>7, <4>1 DEF May
    <3>2. m = n
      BY <1>10, <2>6, <3>1 DEF Written, Fields
    <3>3. node'[d] = node[d]
      BY <1>7, <2>2, <3>2
    <3>4. May(User(t), d, "OWRITE")'
      BY <1>12, <3>3 DEF May, User
    <3> QED BY <1>6, <1>7, <1>10, <2>2, <3>1, <3>2, <3>4
  <2>15. Able(t)'
    BY <2>3, <2>13, <2>14 DEF Able
  <2> QED BY <2>8, <2>11, <2>15 DEF LoneAt
<1> QED BY <1>8, <1>11, <1>12

\* Every step keeps LoneInv.
LEMMA NextLone ==
    ASSUME TreeInv, Plain, AloneInv, WasInv, LoneInv, NEW t \in Threads,
           Call(t) \/ Attach(t) \/ Step(t)
    PROVE  LoneInv'
<1>1. Moves(t) /\ scene' = scene
  BY StepMoves DEF Moves, Grows
<1>2. ASSUME NEW u \in Threads \ {t} PROVE LoneAt(u)'
  <2> SUFFICES ASSUME Lone(u)' PROVE LoneAt(u)'
    BY DEF LoneAt
  <2>1. SameLocal(u) /\ pc[u] \in {"set", "setting"} /\ LoneAt(u)
    BY <1>1 DEF Moves, SameLocal, Lone, LoneInv
  <2>2. alone' = alone /\ Attach(t)
    BY <2>1, AloneKept DEF Lone, AloneInv, Working
  <2>3. /\ node' = node /\ tree' = tree /\ pc' = pc /\ op' = op /\ was' = was /\ target' = target
        /\ todo' = todo /\ undo' = undo /\ scene' = scene
    BY <2>2 DEF Attach, local
  <2>4. Lone(u) /\ loc'[u] = loc[u]
    BY <2>1, <2>2, <2>3 DEF Lone, Undoable, SameLocal
  <2>5. /\ \A h \in {"kind", "opens", "home", "uid"} : ~Wrote(u, h)
        /\ Pending(todo[u], Written(u), undo[u], op[u]) /\ Able(u)
    BY <2>1, <2>4 DEF LoneAt
  <2>6. /\ \A h : Wrote(u, h)' = Wrote(u, h) /\ MaySet(u, h)' = MaySet(u, h)
        /\ Parent(loc[u])' = Parent(loc[u])
        /\ May(User(u), Parent(loc[u]), "OWRITE")' = May(User(u), Parent(loc[u]), "OWRITE")
    BY <2>3, <2>4 DEF Wrote, MaySet, May, User, Parent
  <2>7. Written(u)' = Written(u)
    BY <2>6 DEF Written
  <2>8. Pending(todo[u], Written(u), undo[u], op[u])'
    BY <2>3, <2>5, <2>7 DEF Pending, Sorted
  <2>9. Able(u)'
    BY <2>3, <2>4, <2>5, <2>6 DEF Able
  <2> QED BY <2>5, <2>6, <2>8, <2>9 DEF LoneAt
<1>3. LoneAt(t)'
  <2> SUFFICES ASSUME Lone(t)' PROVE LoneAt(t)'
    BY DEF LoneAt
  <2>1. LoneAt(t)
    BY DEF LoneInv
  <2>2. CASE WriteStat(t)
    BY <2>2, LoneWriteStat
  <2>3. CASE pc[t] \in {"set", "setting"}
    <3>1. scene.apart
      BY <1>1 DEF Lone, Undoable
    <3>2. CASE SetCheck(t)
      BY <2>1, <3>2, LoneSetCheck
    <3>3. CASE Set(t)
      BY <2>1, <3>3, LoneSet
    <3>4. CASE Rename(t)
      BY <2>1, <3>4, LoneRename
    <3>5. CASE Find(t)
      <4>1. pc[t] = "set" /\ Len(loc[t]) > 1 /\ ~Located(t)
        BY <2>3, <3>5 DEF Find, Renaming
      <4> QED BY <3>1, <4>1, LoneDir
    <3>6. CASE Wstat(t)
      <4>1. pc' = [pc EXCEPT ![t] = "idle"]
        BY <3>6 DEF Wstat, Return, End, Goto
      <4> QED BY <4>1 DEF Lone, TreeInv, TypeInv
    <3> QED BY <2>3, <3>2, <3>3, <3>4, <3>5, <3>6 DEF Step, Call, Attach, Walk, Create, CanOpen,
               Open, Read, Write, Clunk, Die, RemoveFid, Unlink, Unlinked, WriteStat
  <2> QED BY <2>2, <2>3, Enters DEF Lone, SetCheck
<1> QED BY <1>2, <1>3 DEF LoneInv

\* WstatUndone, for any threads and requests and any tree of SyntheticDirs: a wstat that fails
\* alone has changed nothing, however many of its changes had been made.
THEOREM WstatTakenBack == ASSUME PlainScenes PROVE Spec => []WstatUndone
<1>1. Init => LoneInv
  BY DEF Init, LoneInv, LoneAt, Lone
<1>2. TreeInv /\ Plain /\ AloneInv /\ WasInv /\ LoneInv /\ [Next]_vars => LoneInv'
  <2>1. ASSUME LoneInv, UNCHANGED vars PROVE LoneInv'
    <3> SUFFICES ASSUME NEW u \in Threads PROVE LoneAt(u)'
      BY DEF LoneInv
    <3>1. LoneAt(u)
      BY <2>1 DEF LoneInv
    <3>2. /\ node' = node /\ tree' = tree /\ pc' = pc /\ op' = op /\ was' = was /\ target' = target
          /\ todo' = todo /\ undo' = undo /\ scene' = scene /\ loc' = loc /\ alone' = alone
      BY <2>1 DEF vars
    <3>3. /\ \A h : Wrote(u, h)' = Wrote(u, h) /\ MaySet(u, h)' = MaySet(u, h)
          /\ Parent(loc[u])' = Parent(loc[u]) /\ Lone(u)' = Lone(u)
          /\ May(User(u), Parent(loc[u]), "OWRITE")' = May(User(u), Parent(loc[u]), "OWRITE")
      BY <3>2 DEF Wrote, MaySet, May, User, Parent, Lone, Undoable
    <3>4. Written(u)' = Written(u)
      BY <3>3 DEF Written
    <3>5. Pending(todo[u], Written(u), undo[u], op[u])' = Pending(todo[u], Written(u), undo[u], op[u])
      BY <3>2, <3>4 DEF Pending, Sorted
    <3>6. Able(u) => Able(u)'
      BY <3>2, <3>3 DEF Able
    <3> QED BY <3>1, <3>3, <3>5, <3>6 DEF LoneAt
  <2> QED BY <2>1, NextLone DEF Next
<1>3. TreeInv /\ WasInv /\ LoneInv => WstatUndone
  <2> SUFFICES ASSUME TreeInv, WasInv, LoneInv, NEW t \in Threads,
                      pc[t] = "set", todo[t] = <<>>, undo[t], alone[t], Undoable(t)
               PROVE  node[target[t]] = was[t]
    BY DEF WstatUndone
  <2>1. /\ \A h \in {"kind", "opens", "home", "uid"} : ~Wrote(t, h)
        /\ Pending(todo[t], Written(t), undo[t], op[t])
    BY DEF LoneInv, LoneAt, Lone
  <2>2. \A h \in Fields : ~Wrote(t, h)
    <3>1. \A h \in Written(t) : Contains(todo[t], h)
      BY <2>1 DEF Pending
    <3>2. \A h : ~Contains(todo[t], h)
      BY DEF Contains
    <3> QED BY <3>1, <3>2 DEF Written
  <2>3. PICK x, y : x = node[target[t]] /\ y = was[t] /\ IsNode(x) /\ IsNode(y)
    BY Here DEF Working, TreeInv, TypeInv, WasInv, WasAt
  <2>4. \A h \in Attributes : x[h] = y[h]
    BY <2>1, <2>2, <2>3 DEF Wrote, Attributes, Fields
  <2> QED BY <2>3, <2>4 DEF IsNode
<1> QED BY <1>1, <1>2, <1>3, TreeInvariant, PlainHolds, AloneHolds, WasHolds, PTL DEF Spec
====
