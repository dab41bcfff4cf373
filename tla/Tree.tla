--------------------------------- MODULE Tree ---------------------------------
(***************************************************************************)
(* src/fileserver/trees/synthetic*.go and mixdir.go under the handlers of  *)
(* src/fileserver/fileserver.go, as cmd/ramfs runs them: every connection  *)
(* has the same root, a tree kept in memory.  A thread is a connection     *)
(* with one fid, so that what is shared is the tree, and a step ends where *)
(* the lock of a node is given back: what a handler has seen of a node may *)
(* have changed before its next step.                                      *)
(*                                                                         *)
(* A MixDir shows two directories as one.  It keeps no state: it looks for *)
(* a name in Top and then in Bottom, and acts where it has found it.       *)
(*                                                                         *)
(* Requests the file server refuses before it reaches the tree are those   *)
(* of FileServer.  Times, versions, groups (never consulted: the tree has  *)
(* no group database), append-only files and the bytes of a file are left  *)
(* out.                                                                    *)
(***************************************************************************)
EXTENDS Naturals, Sequences, SequencesExt, FiniteSets

CONSTANTS
    Threads,
    UserOf,  \* UserOf[t]: the user t attached as
    Names,
    MaxNode, \* bound: nodes besides the root (scene.nodes of them in a scene)
    Scenes,  \* records: the tree at the start, what each thread may call, how many calls in all
    None

Root  == 0
Nodes == 0..MaxNode
Size  == 2    \* bound: the bytes one write leaves in a file

\* A FileMode: the bits of the owner and those of everyone else.
Perms == SUBSET ({"owner", "other"} \X {"r", "w", "x"})

Needs == [OREAD |-> {"r"}, OWRITE |-> {"w"}, ORDWR |-> {"r", "w"}, OEXEC |-> {"x"}]
Modes == DOMAIN Needs

\* What a client may send.  An offset of 2^63 or more is negative as the int64 it is converted to.
Request(c) ==
    /\ c.op \in {"walk", "create", "open", "read", "write", "clunk", "remove", "wstat"}
    /\ c.op = "walk" => c.names \in Seq(Names \union {".."})
    /\ c.op = "create" => c.name \in Names /\ c.dir \in BOOLEAN /\ c.mode \in Modes
    /\ c.op = "open" => c.mode \in Modes
    /\ c.op \in {"read", "write"} => c.negative \in BOOLEAN
    /\ c.op = "wstat" => c.stat.name \in Names \union {None}

\* What the server keeps of a file.
Attributes == {"kind", "name", "uid", "perm", "len", "opens", "home"}
IsNode(x)  == x = [f \in Attributes |-> x[f]]

(***************************************************************************)
(* A tree a server may start with.  A file has a name of its own in the    *)
(* directory that holds it; a MixDir is the root, and shows directories.   *)
(***************************************************************************)
Wellformed(s) ==
    LET Is(n, k) == n \in DOMAIN s.node /\ s.node[n].kind = k IN
    /\ s.calls \in Nat
    /\ DOMAIN s.node \subseteq Nodes
    /\ Root \in DOMAIN s.node /\ s.node[Root].home = None
    /\ \A n \in DOMAIN s.node :
        LET x == s.node[n] IN
        /\ IsNode(x)
        /\ x.kind \in {"file", "dir", "mix"} /\ x.name # None /\ x.opens = 0
        /\ x.kind = "mix" => /\ n = Root
                             /\ Is(s.mix[n].top, "dir") /\ Is(s.mix[n].bottom, "dir")
        /\ x.home # None =>
            /\ x.name \in Names /\ x.home # n /\ Is(x.home, "dir")
            /\ \A m \in DOMAIN s.node \ {n} :
                 s.node[m].home = x.home => s.node[m].name # x.name

ASSUMPTION TreeAssumption ==
    /\ IsFiniteSet(Threads) /\ MaxNode \in Nat
    /\ None \notin Nodes /\ None \notin Names \union Modes
    /\ \A s \in Scenes :
        Wellformed(s) /\ \A t \in Threads : \A c \in s.menu[t] : Request(c)

VARIABLES
    scene,  \* the element of Scenes, left the number of calls that may still be made
    left,
    node,   \* node[n]: what a SyntheticFile or a SyntheticDir keeps
    tree,   \* tree[d]: SyntheticDir.Tree
    loc,    \* loc[t]: fidState.location, empty without a fid
    handle, \* handle[t]: what the fid is open for, None when it is not open
    pc,
    op,     \* op[t]: the request in progress
    part,   \* part[t]: which directory of a MixDir t is at
    found,  \* found[t]: that directory has the name a MixDir was asked to remove or rename
    path,   \* path[t]: newloc of walkTo
    todo,   \* todo[t]: the names still to walk, or the changes still to make
    undo,   \* undo[t]: setStat has failed and takes its changes back
    was,    \* was[t]: ostat of setStat
    name,   \* name[t]: the name remove has read
    target, \* target[t]: the node being opened or removed
    alone,  \* history: no other call overlapped the one in progress
    renamed, \* history: renamed[t]: the file of t's fid was renamed after remove had read its name
    removed \* history: the files and directories that a remove has taken away

vars == <<scene, left, node, tree, loc, handle, pc, op, part, found, path, todo, undo, was, name,
          target, alone, renamed, removed>>
local == <<part, found, path, undo, was, name>>

User(t)     == UserOf[t]
Current(fp) == Last(fp)
Parent(fp) == IF Len(fp) = 1 THEN fp[1] ELSE fp[Len(fp) - 1]
IsMix(n)    == node[n].kind = "mix"
IsDir(n)    == node[n].kind \in {"dir", "mix"}

\* The directories a name is looked for in, and what answers for the attributes of a node.
Parts(n) == IF IsMix(n) THEN <<scene.mix[n].top, scene.mix[n].bottom>> ELSE <<n>>
Own(n)   == Parts(n)[1]

PermCheck(owner, perms, mode) ==
    (IF owner THEN {"owner"} ELSE {"other"}) \X Needs[mode] \subseteq perms
May(u, n, mode) == PermCheck(node[n].uid = u, node[n].perm, mode)

\* The directory that t searches, or has found, below d.
Part(t, d) == Parts(d)[part[t]]

\* Nobody keeps the lock of d over several steps.
Free(d) == \A t \in Threads : pc[t] = "unlinking" => Part(t, Parent(loc[t])) # d

NewFile(nm, perm, uid, d) ==
    [kind |-> "file", name |-> nm, uid |-> uid, perm |-> perm, len |-> 0, opens |-> 0, home |-> d]
NewDir(nm, perm, uid, d) == [NewFile(nm, perm, uid, d) EXCEPT !.kind = "dir"]
Absent == NewFile(None, {}, None, None)
Fresh  == {n \in Nodes : n <= scene.nodes /\ node[n] = Absent}

Init ==
    /\ scene \in Scenes
    /\ left = scene.calls
    /\ node = [n \in Nodes |-> IF n \in DOMAIN scene.node THEN scene.node[n] ELSE Absent]
    /\ tree = [d \in Nodes |-> [nm \in Names |->
                 IF \E n \in DOMAIN scene.node : node[n].home = d /\ node[n].name = nm
                 THEN CHOOSE n \in DOMAIN scene.node : node[n].home = d /\ node[n].name = nm
                 ELSE None]]
    /\ loc = [t \in Threads |-> <<Root>>]
    /\ handle = [t \in Threads |-> None]
    /\ pc = [t \in Threads |-> "idle"]
    /\ op = [t \in Threads |-> None]
    /\ part = [t \in Threads |-> 1]
    /\ found = [t \in Threads |-> FALSE]
    /\ path = [t \in Threads |-> <<>>]
    /\ todo = [t \in Threads |-> <<>>]
    /\ undo = [t \in Threads |-> FALSE]
    /\ was = [t \in Threads |-> None]
    /\ name = [t \in Threads |-> None]
    /\ target = [t \in Threads |-> None]
    /\ alone = [t \in Threads |-> FALSE]
    /\ renamed = [t \in Threads |-> FALSE]
    /\ removed = {}

Goto(t, l) == pc' = [pc EXCEPT ![t] = l]
End(t, l) ==
    /\ Goto(t, l)
    /\ op' = [op EXCEPT ![t] = None]
    /\ todo' = [todo EXCEPT ![t] = <<>>]
    /\ target' = [target EXCEPT ![t] = None]
Return(t) == End(t, "idle")

\* The names in d and what they lead to, when the directories are tr.
Shows(tr, d) == [nm \in Names |-> IF IsMix(d) /\ tr[Own(d)][nm] = None
                                  THEN tr[scene.mix[d].bottom][nm] ELSE tr[Own(d)][nm]]
View(d) == Shows(tree, d)

\* Whoever has read the name of n and is about to have the parent remove what has that name.
Outdate(n) == renamed' = [u \in Threads |->
    renamed[u] \/ (pc[u] = "unlink" /\ Current(loc[u]) = n)]

-----------------------------------------------------------------------------
Call(t) ==
    /\ pc[t] = "idle" /\ left > 0
    /\ loc[t] # <<>>
    /\ left' = left - 1
    /\ \E c \in scene.menu[t] :
        /\ c.op \in {"walk", "create", "open"} => handle[t] = None
        /\ c.op = "open" /\ IsDir(Current(loc[t])) => c.mode \notin {"OWRITE", "ORDWR"}
        /\ c.op = "write" => handle[t] \in {"OWRITE", "ORDWR"} /\ ~IsDir(Current(loc[t]))
        /\ c.op = "read" => handle[t] \in {"OREAD", "ORDWR", "OEXEC"}
        /\ c.op = "create" =>
             Cardinality(Fresh) > Cardinality({u \in Threads : pc[u] = "create"})
        /\ op' = [op EXCEPT ![t] = c]
        /\ Goto(t, c.op)
        /\ path' = [path EXCEPT ![t] = IF c.op = "walk" THEN loc[t] ELSE <<>>]
        /\ todo' = [todo EXCEPT ![t] = IF c.op = "walk" THEN c.names ELSE <<>>]
        /\ target' = [target EXCEPT ![t] = Own(Current(loc[t]))]
    /\ part' = [part EXCEPT ![t] = 1]
    /\ found' = [found EXCEPT ![t] = FALSE]
    /\ undo' = [undo EXCEPT ![t] = FALSE]
    /\ was' = [was EXCEPT ![t] = None]
    /\ name' = [name EXCEPT ![t] = None]
    /\ alone' = [u \in Threads |-> IF u = t THEN \A v \in Threads : pc[v] = "idle"
                                   ELSE alone[u] /\ pc[u] = "idle"]
    /\ renamed' = [renamed EXCEPT ![t] = FALSE]
    /\ UNCHANGED <<scene, node, tree, loc, handle, removed>>

Attach(t) ==
    /\ pc[t] = "idle" /\ loc[t] = <<>>
    /\ loc' = [loc EXCEPT ![t] = <<Root>>]
    /\ UNCHANGED <<scene, left, node, tree, handle, pc, op, local, todo, target, alone,
                   renamed, removed>>

-----------------------------------------------------------------------------
(***************************************************************************)
(* walkTo, one name in one directory a step.  A walk that stops short      *)
(* leaves the fid where it was.                                            *)
(***************************************************************************)
\* Mutant of Up: the directory above is added to the path.
UpAdded(p) == Append(p, Parent(p))
Up(p) == IF Len(p) > 1 THEN Front(p) ELSE p

Walk(t) ==
    LET here == Current(path[t])
        d    == Part(t, here)
        nm   == Head(todo[t])
        Step(p) == /\ path' = [path EXCEPT ![t] = p]
                   /\ todo' = [todo EXCEPT ![t] = Tail(@)]
                   /\ part' = [part EXCEPT ![t] = 1]
                   /\ UNCHANGED <<loc, pc, op, target>>
        Stop    == Return(t) /\ UNCHANGED <<path, loc, part>>
    IN
    /\ pc[t] = "walk"
    /\ \/ /\ todo[t] = <<>>
          /\ loc' = [loc EXCEPT ![t] = path[t]]
          /\ Return(t)
          /\ UNCHANGED <<path, part>>
       \/ /\ todo[t] # <<>> /\ nm = ".."
          /\ Step(Up(path[t]))
       \/ /\ todo[t] # <<>> /\ nm # ".." /\ ~IsDir(here)
          /\ Stop
       \/ /\ todo[t] # <<>> /\ nm # ".." /\ IsDir(here) /\ Free(d)
          /\ \/ ~May(User(t), d, "OEXEC") /\ Stop
             \/ /\ May(User(t), d, "OEXEC") /\ tree[d][nm] # None
                /\ Step(Append(path[t], tree[d][nm]))
             \/ /\ May(User(t), d, "OEXEC") /\ tree[d][nm] = None
                /\ IF part[t] = Len(Parts(here)) THEN Stop
                   ELSE /\ part' = [part EXCEPT ![t] = @ + 1]
                        /\ UNCHANGED <<path, todo, loc, pc, op, target>>
    /\ UNCHANGED <<scene, left, node, tree, handle, found, undo, was, name, alone, renamed, removed>>

\* Mutant of Taken: a name may be given twice.
TakenNever(d, nm) == nm \notin Names
Taken(d, nm) == tree[d][nm] # None

(***************************************************************************)
(* create: the new file belongs to the owner of the directory, with the    *)
(* permissions asked for that the directory has too.  It is opened by a    *)
(* second call, and stays when that is denied.                             *)
(***************************************************************************)
CreatePerm(d, c) == {b \in c.perm : b \in node[d].perm \/ (~c.dir /\ b[2] = "x")}

\* Create of a MixDir does not look into the other directory.
CreateDir(d) == IF IsMix(d) /\ scene.mix[d].createAtBottom THEN scene.mix[d].bottom ELSE Own(d)

Create(t) ==
    LET d == CreateDir(Current(loc[t]))
        c == op[t]
        n == CHOOSE n \in Fresh : TRUE
        New == IF c.dir THEN NewDir(c.name, CreatePerm(d, c), node[d].uid, d)
                        ELSE NewFile(c.name, CreatePerm(d, c), node[d].uid, d)
    IN
    /\ pc[t] = "create"
    /\ IF ~IsDir(d) THEN Return(t) /\ UNCHANGED <<node, tree>>
       ELSE /\ Free(d)
            /\ IF May(User(t), d, "OWRITE") /\ ~Taken(d, c.name)
               THEN /\ node' = [node EXCEPT ![n] = New]
                    /\ tree' = [tree EXCEPT ![d][c.name] = n]
                    /\ target' = [target EXCEPT ![t] = n]
                    /\ Goto(t, "open")
                    /\ UNCHANGED <<op, todo>>
               ELSE Return(t) /\ UNCHANGED <<node, tree>>
    /\ UNCHANGED <<scene, left, loc, handle, local, alone, renamed, removed>>

\* CanOpen, then the body of Open under the lock it takes anew.  A MixDir opens for anyone
\* and counts nothing.
Uncounted(t) == IsMix(Current(loc[t])) /\ op[t].op = "open"

CanOpen(t) ==
    /\ pc[t] = "open"
    /\ Free(target[t])
    /\ IF Uncounted(t) \/ May(User(t), target[t], op[t].mode)
       THEN Goto(t, "opening") /\ UNCHANGED <<op, todo, target>>
       ELSE Return(t)
    /\ UNCHANGED <<scene, left, node, tree, loc, handle, local, alone, renamed, removed>>

\* OTRUNC takes effect with the bit of OWRITE, which OEXEC has too and ORDWR has not.
Truncates(c) == c.op = "open" /\ c.trunc /\ c.mode \in {"OWRITE", "OEXEC"}

Open(t) ==
    LET n == target[t] IN
    /\ pc[t] = "opening"
    /\ Free(n)
    /\ node' = IF Uncounted(t) THEN node
               ELSE [node EXCEPT ![n].opens = @ + 1, ![n].len = IF Truncates(op[t]) THEN 0 ELSE @]
    /\ handle' = [handle EXCEPT ![t] = op[t].mode]
    /\ loc' = [loc EXCEPT ![t] = IF op[t].op = "create" THEN Append(@, n) ELSE @]
    /\ Return(t)
    /\ UNCHANGED <<scene, left, tree, local, alone, renamed, removed>>

(***************************************************************************)
(* ReadAt and WriteAt of an open file panic when they slice its content at *)
(* a negative offset.  WriteAt has extended the content by then if what it *)
(* writes ends behind it.                                                  *)
(***************************************************************************)
Extended(len) == {len} \union {l \in 1..(Size - 1) : l > len}

Read(t) ==
    LET n == Current(loc[t]) IN
    /\ pc[t] = "read"
    /\ \A d \in Range(Parts(n)) : Free(d)
    /\ IF op[t].negative /\ ~IsDir(n) THEN Goto(t, "panic") /\ UNCHANGED <<op, todo, target>>
       ELSE Return(t)
    /\ UNCHANGED <<scene, left, node, tree, loc, handle, local, alone, renamed, removed>>

Write(t) ==
    LET n == Current(loc[t]) IN
    /\ pc[t] = "write"
    /\ IF op[t].negative
       THEN /\ \E l \in Extended(node[n].len) : node' = [node EXCEPT ![n].len = l]
            /\ Goto(t, "panic")
            /\ UNCHANGED <<op, todo, target>>
       ELSE node' = [node EXCEPT ![n].len = Size] /\ Return(t)
    /\ UNCHANGED <<scene, left, tree, loc, handle, local, alone, renamed, removed>>

-----------------------------------------------------------------------------
(***************************************************************************)
(* clunk and remove close the handle.  remove asks the file for its name   *)
(* and then has its parent remove what has that name.                      *)
(***************************************************************************)
\* Mutant of CloseHandle: the handle is dropped and not closed.
DropHandle(t) == handle' = [handle EXCEPT ![t] = None] /\ UNCHANGED node

CloseHandle(t) ==
    IF handle[t] = None THEN UNCHANGED <<node, handle>>
    ELSE /\ node' = IF IsMix(Current(loc[t])) THEN node
                    ELSE [node EXCEPT ![Current(loc[t])].opens = @ - 1]
         /\ handle' = [handle EXCEPT ![t] = None]

Clunk(t) ==
    /\ pc[t] = "clunk"
    /\ handle[t] # None => Free(Own(Current(loc[t])))
    /\ CloseHandle(t)
    /\ loc' = [loc EXCEPT ![t] = <<>>]
    /\ Return(t)
    /\ UNCHANGED <<scene, left, tree, local, alone, renamed, removed>>

\* handlePanic: die and cleanup close the handle and end the connection.
Die(t) ==
    /\ pc[t] = "panic"
    /\ handle[t] # None => Free(Own(Current(loc[t])))
    /\ CloseHandle(t)
    /\ loc' = [loc EXCEPT ![t] = <<>>]
    /\ End(t, "dead")
    /\ UNCHANGED <<scene, left, tree, local, alone, renamed, removed>>

RemoveFid(t) ==
    LET cur == Current(loc[t]) IN
    /\ pc[t] = "remove"
    /\ Free(Own(cur))
    /\ CloseHandle(t)
    /\ IF Len(loc[t]) = 1
       THEN Return(t) /\ loc' = [loc EXCEPT ![t] = <<>>] /\ UNCHANGED name
       ELSE /\ name' = [name EXCEPT ![t] = node[Own(cur)].name]
            /\ Goto(t, "unlink")
            /\ UNCHANGED <<loc, op, todo, target>>
    /\ UNCHANGED <<scene, left, tree, part, found, path, undo, was, alone, renamed, removed>>

\* Remove of the directory looks into a child directory without the lock of that child.
Empty(n) == \A p \in Range(Parts(n)) : \A nm \in Names : tree[p][nm] = None
CanRemove(n) == IsDir(n) => Empty(n)

\* A MixDir walks to the name before it passes the call on.
Located(t) == found[t] \/ ~IsMix(Parent(loc[t]))

Unlink(t) ==
    LET d == Part(t, Parent(loc[t]))
        n == tree[d][name[t]]
    IN
    /\ pc[t] = "unlink" /\ Located(t)
    /\ Free(d)
    /\ IF May(User(t), d, "OWRITE") /\ n # None /\ CanRemove(n)
       THEN /\ target' = [target EXCEPT ![t] = n]
            /\ Goto(t, "unlinking")
            /\ UNCHANGED <<loc, op, todo>>
       ELSE Return(t) /\ loc' = [loc EXCEPT ![t] = <<>>]
    /\ UNCHANGED <<scene, left, node, tree, handle, local, alone, renamed, removed>>

Unlinked(t) ==
    /\ pc[t] = "unlinking"
    /\ tree' = [tree EXCEPT ![Part(t, Parent(loc[t]))][name[t]] = None]
    /\ removed' = removed \union {target[t]}
    /\ loc' = [loc EXCEPT ![t] = <<>>]
    /\ Return(t)
    /\ UNCHANGED <<scene, left, node, handle, local, alone, renamed>>

-----------------------------------------------------------------------------
(***************************************************************************)
(* setStat: the changes are made one after another, each with a permission *)
(* check of its own; when one fails those before it are taken back by the  *)
(* same calls, whose results are ignored.                                  *)
(***************************************************************************)
Wanted(c, st, f) == c.stat[f] # None /\ c.stat[f] # st[f]
Changes(c, st) ==
    LET If(f) == IF Wanted(c, st, f) THEN <<f>> ELSE <<>>
    IN  If("perm") \o If("uid") \o If("name") \o If("len")

\* Mutant of Illegal: the root may be renamed.
IllegalLength(c, st, p) == Wanted(c, st, "len") /\ (st.kind = "dir" \/ c.stat.len > st.len)
Illegal(c, st, p) ==
    \/ Len(p) = 1 /\ Wanted(c, st, "name")
    \/ Wanted(c, st, "len") /\ (st.kind = "dir" \/ c.stat.len > st.len)

\* Mutant of Undo: after a failed rename the mode is not set back.
UndoButMode(f) == CASE f \in {"perm", "uid"} -> <<>>
                    [] f = "name" -> <<"uid">>
                    [] f = "len"  -> <<"uid", "name">>
\* What is called after the change of a field has failed.
Undo(f) == CASE f = "perm" -> <<>>
             [] f = "uid"  -> <<"perm">>
             [] f = "name" -> <<"perm", "uid">>
             [] f = "len"  -> <<"perm", "uid", "name">>

WriteStat(t) ==
    LET st == node[target[t]] IN
    /\ pc[t] = "wstat"
    /\ Free(target[t])
    /\ IF Illegal(op[t], st, loc[t]) THEN Return(t) /\ UNCHANGED was
       ELSE /\ was' = [was EXCEPT ![t] = st]
            /\ todo' = [todo EXCEPT ![t] = Changes(op[t], st)]
            /\ Goto(t, "set")
            /\ UNCHANGED <<op, target>>
    /\ UNCHANGED <<scene, left, node, tree, loc, handle, part, found, path, undo, name, alone,
                   renamed, removed>>

\* The next call on the parent looks for its name anew.
Restart(t) ==
    /\ part' = [part EXCEPT ![t] = 1]
    /\ found' = [found EXCEPT ![t] = FALSE]

Done(t) ==
    /\ todo' = [todo EXCEPT ![t] = Tail(@)]
    /\ Goto(t, "set")
    /\ Restart(t)
    /\ UNCHANGED undo
Failed(t) ==
    /\ todo' = [todo EXCEPT ![t] = IF undo[t] THEN Tail(@) ELSE Undo(Head(@))]
    /\ undo' = [undo EXCEPT ![t] = TRUE]
    /\ Goto(t, "set")
    /\ Restart(t)
Value(t, f) == IF undo[t] THEN was[t][f] ELSE op[t].stat[f]

\* SetMode is for the owner; all three need CanOpen for writing.
MaySet(t, f) ==
    /\ f = "perm" => node[target[t]].uid = User(t)
    /\ May(User(t), target[t], "OWRITE")

SetCheck(t) ==
    /\ pc[t] = "set" /\ todo[t] # <<>> /\ Head(todo[t]) # "name"
    /\ Free(target[t])
    /\ IF MaySet(t, Head(todo[t])) THEN Goto(t, "setting") /\ UNCHANGED <<todo, undo, part, found>>
       ELSE Failed(t)
    /\ UNCHANGED <<scene, left, node, tree, loc, handle, op, path, was, name, target, alone,
                   renamed, removed>>

Set(t) ==
    LET f == Head(todo[t])
        n == target[t]
    IN
    /\ pc[t] = "setting"
    /\ Free(n)
    /\ IF f = "len" /\ Value(t, f) > node[n].len
       THEN Failed(t) /\ UNCHANGED node
       ELSE /\ node' = [node EXCEPT ![n][f] = Value(t, f)]
            /\ Done(t)
    /\ UNCHANGED <<scene, left, tree, loc, handle, op, path, was, name, target, alone, renamed,
                   removed>>

\* SetName of the renamed file.  Mutant: the file keeps its old name.
SetNameNot(n, new) == node' = node
SetName(n, new) == node' = [node EXCEPT ![n].name = new]

OldName(t) == IF undo[t] THEN op[t].stat.name ELSE was[t].name
Renaming(t) == pc[t] = "set" /\ todo[t] # <<>> /\ Head(todo[t]) = "name"

\* Rename of the parent.  setStat has none for the root, and calls it all the same.
Rename(t) ==
    LET d   == Part(t, Parent(loc[t]))
        old == OldName(t)
        new == Value(t, "name")
        n   == tree[d][old]
    IN
    /\ Renaming(t)
    /\ IF Len(loc[t]) = 1
       THEN Goto(t, "panic") /\ UNCHANGED <<node, tree, todo, undo, part, found, renamed>>
       ELSE /\ Located(t) /\ Free(d)
            /\ IF old # None /\ n # None /\ ~Taken(d, new) /\ May(User(t), d, "OWRITE")
               THEN /\ Free(n)
                    /\ SetName(n, new)
                    /\ tree' = [tree EXCEPT ![d][old] = None, ![d][new] = n]
                    /\ Outdate(n)
                    /\ Done(t)
               ELSE Failed(t) /\ UNCHANGED <<node, tree, renamed>>
    /\ UNCHANGED <<scene, left, loc, handle, op, path, was, name, target, alone, removed>>

\* The search of a MixDir before Remove and Rename.  A name it does not find is no error.
Find(t) ==
    LET d  == Part(t, Parent(loc[t]))
        nm == IF pc[t] = "unlink" THEN name[t] ELSE OldName(t)
        Answer  == Return(t) /\ loc' = [loc EXCEPT ![t] = <<>>] /\ UNCHANGED <<undo, part, found>>
        Missing == IF pc[t] = "unlink" THEN Answer ELSE Done(t) /\ UNCHANGED <<loc, op, target>>
        Denied  == IF pc[t] = "unlink" THEN Answer ELSE Failed(t) /\ UNCHANGED <<loc, op, target>>
    IN
    /\ pc[t] = "unlink" \/ (Renaming(t) /\ Len(loc[t]) > 1)
    /\ ~Located(t) /\ Free(d)
    /\ \/ ~May(User(t), d, "OEXEC") /\ Denied
       \/ /\ May(User(t), d, "OEXEC") /\ (nm = None \/ tree[d][nm] = None)
          /\ IF part[t] = Len(Parts(Parent(loc[t]))) THEN Missing
             ELSE /\ part' = [part EXCEPT ![t] = @ + 1]
                  /\ UNCHANGED <<loc, pc, op, todo, target, undo, found>>
       \/ /\ May(User(t), d, "OEXEC") /\ nm # None /\ tree[d][nm] # None
          /\ found' = [found EXCEPT ![t] = TRUE]
          /\ UNCHANGED <<loc, pc, op, todo, target, undo, part>>
    /\ UNCHANGED <<scene, left, node, tree, handle, path, was, name, alone, renamed, removed>>

Wstat(t) ==
    /\ pc[t] = "set" /\ todo[t] = <<>>
    /\ Return(t)
    /\ UNCHANGED <<scene, left, node, tree, loc, handle, local, alone, renamed, removed>>

Step(t) ==
    \/ Walk(t) \/ Create(t) \/ CanOpen(t) \/ Open(t) \/ Read(t) \/ Write(t) \/ Clunk(t) \/ Die(t)
    \/ RemoveFid(t) \/ Find(t) \/ Unlink(t) \/ Unlinked(t)
    \/ WriteStat(t) \/ SetCheck(t) \/ Set(t) \/ Rename(t) \/ Wstat(t)

Next == \E t \in Threads : Call(t) \/ Attach(t) \/ Step(t)

Spec == Init /\ [][Next]_vars

-----------------------------------------------------------------------------
(***************************************************************************)
(* An entry of a directory leads to a node that has the entry's name and   *)
(* was created in that directory: Rename and SetName, Remove and Create    *)
(* never leave a directory and its files in disagreement (the promise of   *)
(* SetName, trees/utils.go:49), whichever file a stale name reached.       *)
(***************************************************************************)
NamesAgree ==
    \A d \in Nodes : \A nm \in Names :
        tree[d][nm] # None =>
            /\ IsDir(d)
            /\ node[tree[d][nm]].name = nm
            /\ node[tree[d][nm]].home = d

(***************************************************************************)
(* A SyntheticDir is a Directory, whatever calls and half-done calls are   *)
(* interleaved, and a MixDir is one as long as no name is made in one of   *)
(* its directories that the other has (scene.apart): the search and the    *)
(* call that follows it are not one step, and the file found may be gone.  *)
(***************************************************************************)
Promised(d) == IF IsMix(d) /\ ~scene.apart THEN [nm \in Names |-> None] ELSE View(d)
Dir == INSTANCE Directory WITH
           entries <- [d \in Nodes |-> Promised(d)], Dirs <- Nodes, Files <- Nodes
IsDirectory == Dir!Spec

(***************************************************************************)
(* The path of a fid, and that of a walk under way, starts at the root and *)
(* each of its elements was found in the one before it, after any mixture  *)
(* of names, ".." and creates, also when the tree changes meanwhile.       *)
(***************************************************************************)
Chain(fp) ==
    fp # <<>> =>
        /\ fp[1] = Root
        /\ \A i \in 1..(Len(fp) - 1) : node[fp[i + 1]].home \in Range(Parts(fp[i]))
PathShape == \A t \in Threads : Chain(loc[t]) /\ Chain(path[t])

(***************************************************************************)
(* Opens of a node is the number of open fids on it: every way an open fid *)
(* ends, and an open after create that is denied, keeps the count.         *)
(***************************************************************************)
OpensCounted ==
    \A n \in Nodes :
        ~IsMix(n) => node[n].opens =
            Cardinality({t \in Threads : handle[t] # None /\ Current(loc[t]) = n})

(***************************************************************************)
(* A wstat that fails, that no other call overlapped, that left the owner  *)
(* alone and the owner's right to write in place, has changed nothing.     *)
(* With another owner, or without that right, the calls that should take   *)
(* the changes back are denied and half of the wstat stays.  And where the *)
(* parts of a MixDir share names, the one that takes a rename back reaches *)
(* the file of Top, though the one of Bottom was renamed.                  *)
(***************************************************************************)
Undoable(t) ==
    /\ scene.apart
    /\ op[t].stat.uid = None
    /\ op[t].stat.perm = None \/ <<"owner", "w">> \in op[t].stat.perm
WstatUndone ==
    \A t \in Threads :
        pc[t] = "set" /\ todo[t] = <<>> /\ undo[t] /\ alone[t] /\ Undoable(t)
            => node[target[t]] = was[t]

(***************************************************************************)
(* A remove takes away the file of its fid or nothing, although it goes by *)
(* a name it has read before, unless another remove has taken that file,   *)
(* or it was renamed after its name was read.  What was renamed before, or *)
(* has had files created around it, does not matter.  Where the parts of a *)
(* MixDir share names it may also take the file that one part has below    *)
(* the name of the other's.                                                *)
(***************************************************************************)
RemovesItsOwn ==
    \A t \in Threads :
        pc[t] = "unlinking" =>
            \/ target[t] = Current(loc[t])
            \/ Current(loc[t]) \in removed \/ renamed[t]
            \/ IsMix(Parent(loc[t])) /\ ~scene.apart

(***************************************************************************)
(* Two requests panic once they have got to the tree.  Reading or writing  *)
(* a file at an offset of 2^63 or more slices its content at a negative    *)
(* index.  And a wstat of a root that is a file, whose change of length is *)
(* denied after the checks have let it pass, takes it back by a rename in  *)
(* a parent that does not exist.                                           *)
(***************************************************************************)
PanicsKnown ==
    \A t \in Threads :
        pc[t] = "panic" =>
            \/ op[t].op \in {"read", "write"} /\ op[t].negative /\ ~IsDir(Current(loc[t]))
            \/ /\ op[t].op = "wstat" /\ op[t].stat.len # None /\ undo[t]
               /\ Len(loc[t]) = 1 /\ ~IsDir(Root)
=============================================================================
