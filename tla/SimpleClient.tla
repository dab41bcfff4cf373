---------------------------- MODULE SimpleClient ----------------------------
(***************************************************************************)
(* The programs above client.Fid: src/client/simple.go, the read and write *)
(* loops of src/client/wrapper.go, and the commands of src/cmd/9pc/main.go.*)
(* One command runs at a time, and each request it makes is answered       *)
(* before the next (what may happen to a request is in Client); between    *)
(* them another client of the same server may change the tree.             *)
(*                                                                         *)
(* The server is fileserver.go over a tree of SyntheticDir and             *)
(* SyntheticFile in which everything is permitted.  A byte of a file and   *)
(* the stat of an entry of a directory are what a message counts.          *)
(***************************************************************************)
EXTENDS Naturals, Sequences, SequencesExt, FiniteSets

CONSTANTS
    Names,
    Args,       \* the paths given to commands: [abs |-> BOOLEAN, names |-> a sequence]
    Contents,   \* what Write, put and stuff are given: sequences of bytes
    Tree0,      \* the nodes of the tree at the start
    MaxNode,    \* bound: nodes besides the root
    MaxFid,     \* bound: fids in use at a time
    MaxCalls,   \* bound: commands
    MaxOther,   \* bound: changes by another client
    MessageData, \* the bytes, or entries, that one message carries
    None

Fids  == 0..MaxFid
Nodes == 0..MaxNode
Top   == 0
Bytes == Nat
Junk  == 99 \* a byte beyond the end of a slice, within its capacity
Kinds == {"dir", "file"}

\* A tree of directories and files; the root alone has a name that is no file's.
ASSUME SimpleAssumption ==
    /\ MaxFid \in Nat /\ MaxNode \in Nat /\ MessageData \in Nat \ {0}
    /\ IsFiniteSet(Names)
    /\ None \notin Nodes \union Fids /\ None \notin Kinds
    /\ Contents \subseteq Seq(Bytes)
    /\ Top \in DOMAIN Tree0 /\ DOMAIN Tree0 \subseteq Nodes
    /\ Tree0 \in [DOMAIN Tree0 ->
                   [kind : Kinds, name : Names \union {"/"}, data : Seq(Bytes),
                    entries : [Names -> (DOMAIN Tree0 \ {Top}) \union {None}]]]
    /\ \A n \in DOMAIN Tree0 \ {Top} : Tree0[n].name \in Names

VARIABLES
    app,     \* "simple" or "9pc"
    node,    \* node[n]: [kind, name, data, entries]
    fids,    \* the server's fids: a function from those in use to their fidStates
    pool,    \* the keys of Client.fids
    root, cwd, held, \* the fids 9pc keeps; SimpleClient keeps root
    run,     \* the command in progress
    crashed, \* the program has panicked
    left,    \* [calls, other]: how many may still be made
    lost,    \* history: the fids of a cd to something that is no directory
    quiet,   \* history: no one else changed the tree since the command began
    before   \* history: the data of the file, or the entries, when the command had opened it

vars == <<app, node, fids, pool, root, cwd, held, run, crashed, left, lost, quiet, before>>

NoPath == [abs |-> FALSE, names |-> <<>>] \* a command without an argument
NewNode(nm, kind) ==
    [kind |-> kind, name |-> nm, data |-> <<>>, entries |-> [x \in Names |-> None]]
NoNode == NewNode(None, None)
NoRun  == [cmd |-> None]
Unused == {n \in Nodes \ {Top} : node[n].kind = None}
Entries(n) == {nm \in Names : node[n].entries[nm] # None}

Init ==
    /\ app \in {"simple", "9pc"}
    /\ node = [n \in Nodes |-> IF n \in DOMAIN Tree0 THEN Tree0[n] ELSE NoNode]
    /\ fids = [i \in {0} |-> [loc |-> <<Top>>, open |-> None, list |-> <<>>]]
    /\ pool = {0}
    /\ root = 0 /\ cwd = 0 /\ held = None
    /\ run = NoRun
    /\ crashed = FALSE
    /\ left = [calls |-> MaxCalls, other |-> MaxOther]
    /\ lost = {}
    /\ quiet = TRUE
    /\ before = <<>>

-----------------------------------------------------------------------------
(***************************************************************************)
(* Commands as the requests they make.                                     *)
(***************************************************************************)
Commands ==
    [Stat   |-> <<"walk", "stat">>,
     Read   |-> <<"walk", "open", "readall">>,
     Write  |-> <<"walk", "open", "writeat">>,
     List   |-> <<"walk", "open", "readall", "decode">>,
     Create |-> <<"walk", "create">>,
     Rename |-> <<"walk", "wstat">>,
     Remove |-> <<"walk", "remove">>,
     stat   |-> <<"walk", "stat">>,
     ls     |-> <<"walk", "open", "readall", "decode">>,
     cd     |-> <<"walk", "chdir">>,
     cat    |-> <<"walk", "open", "readall">>,
     get    |-> <<"walk", "isfile", "open", "readall">>,
     put    |-> <<"walk", "create", "writeat">>,
     stuff  |-> <<"walk", "open", "writeat">>,
     mkdir  |-> <<"walk", "create">>,
     rm     |-> <<"walk", "remove">>,
     hold   |-> <<"walk", "hold">>,
     unhold |-> <<"unhold">>]
Simple == {"Stat", "Read", "Write", "List", "Create", "Rename", "Remove"}
InParent  == {"Create", "put", "mkdir"}
Writing   == {"Write", "put", "stuff"}
Unguarded == {"Remove", "rm", "cd", "hold"} \* without a deferred Clunk
NeedsName == {"put", "stuff", "mkdir", "rm"}

parsepath(names) == FoldLeft(
    LAMBDA strs, str : CASE str = "." -> strs
                         [] str = ".." /\ strs # <<>> /\ Last(strs) # ".." -> Front(strs)
                         [] OTHER -> Append(strs, str), <<>>, names)

\* The names a command walks, and the fid it walks from.
Path(cmd, a) == IF cmd \in Simple THEN a.names ELSE parsepath(a.names)
Walked(cmd, a) ==
    LET names == Path(cmd, a)
    IN CASE cmd = "Create" /\ Len(names) = 1 -> IF a.abs THEN <<>> ELSE <<".">>
         [] cmd \in InParent /\ names # <<>> -> Front(names)
         [] OTHER -> names
From(cmd, a) == IF cmd \in Simple \/ a.abs THEN root ELSE cwd

\* The commands that end before they ask the server for anything.
Refused(cmd, a) ==
    \/ cmd \in NeedsName /\ Path(cmd, a) = <<>>
    \/ cmd \in Simple /\ Walked(cmd, a) = <<>>
    \/ cmd = "hold" /\ held # None
    \/ cmd = "unhold" /\ held = None

Call ==
    /\ ~crashed /\ run = NoRun /\ left.calls > 0
    /\ Cardinality(Fids \ pool) > 1
    /\ \E cmd \in DOMAIN Commands, a \in Args, nm \in Names :
        /\ (cmd \in Simple) = (app = "simple")
        /\ ~Refused(cmd, a)
        /\ cmd # "Rename" => nm = CHOOSE n \in Names : TRUE
        /\ cmd = "unhold" => a = CHOOSE x \in Args : TRUE
        /\ \E p \in IF cmd \in Writing THEN Contents ELSE {<<>>} :
           \E spare \in IF cmd \in Writing THEN {0, 1} ELSE {0} :
           \E dir \in IF cmd = "Create" THEN BOOLEAN ELSE {cmd = "mkdir"} :
             run' = [cmd |-> cmd, f |-> From(cmd, a), walk |-> Walked(cmd, a),
                     todo |-> IF cmd = "stat" /\ a = NoPath THEN <<"stat">> ELSE Commands[cmd],
                     name |-> IF cmd \in InParent THEN Last(Path(cmd, a)) ELSE nm,
                     dir |-> dir, given |-> p, p |-> p, spare |-> spare,
                     at |-> <<>>, names |-> <<>>, o |-> 0, got |-> <<>>, clunks |-> {},
                     ok |-> TRUE]
    /\ left' = [left EXCEPT !.calls = @ - 1]
    /\ quiet' = TRUE
    /\ before' = <<>>
    /\ UNCHANGED <<app, node, fids, pool, root, cwd, held, crashed, lost>>

Doing(step) == ~crashed /\ run # NoRun /\ run.todo # <<>> /\ Head(run.todo) = step
Onwards     == [run EXCEPT !.todo = Tail(@)]
Failed      == [run EXCEPT !.todo = <<>>, !.ok = FALSE, !.at = <<>>]
\* The file of the command's fid, and its directory.
Here  == Last(fids[run.f].loc)
Above == LET l == fids[run.f].loc IN IF Len(l) > 1 THEN l[Len(l) - 1] ELSE l[1]
IsDir(n) == node[n].kind = "dir"
\* The server's table with i bound to a file, and without i.
Bound(i, loc) == [j \in DOMAIN fids \union {i} |->
                    IF j = i THEN [loc |-> loc, open |-> None, list |-> <<>>] ELSE fids[j]]
Unbound(i) == [j \in DOMAIN fids \ {i} |-> fids[j]]

\* Go panics: the program ends, and the server clunks what it had.
Crash ==
    /\ crashed' = TRUE
    /\ fids' = [i \in {} |-> None]
    /\ pool' = {}

-----------------------------------------------------------------------------
(***************************************************************************)
(* Fid.Walk: the lowest number that is free, given back when the walk does *)
(* not get to the end.  The server takes one name at a time.               *)
(***************************************************************************)
WalkStart ==
    /\ Doing("walk") /\ run.at = <<>>
    /\ run' = IF run.f \in DOMAIN fids /\ fids[run.f].open = None
              THEN [run EXCEPT !.at = fids[run.f].loc, !.names = run.walk]
              ELSE Failed
    /\ UNCHANGED <<app, node, fids, pool, root, cwd, held, crashed, left, lost, quiet, before>>

\* The path that a name leads to from path l; <<>> when it does not lead on.
WalkTo(l, nm) == CASE nm = "." -> l
                   [] nm = ".." -> IF Len(l) > 1 THEN Front(l) ELSE l
                   [] OTHER -> IF nm \in Names /\ IsDir(Last(l)) /\ node[Last(l)].entries[nm] # None
                               THEN Append(l, node[Last(l)].entries[nm]) ELSE <<>>

WalkName ==
    /\ Doing("walk") /\ run.at # <<>> /\ run.names # <<>>
    /\ LET l == WalkTo(run.at, Head(run.names))
       IN run' = IF l = <<>> THEN Failed ELSE [run EXCEPT !.at = l, !.names = Tail(@)]
    /\ UNCHANGED <<app, node, fids, pool, root, cwd, held, crashed, left, lost, quiet, before>>

\* Mutant of Deferred: put does not clunk the second of its fids.
DeferredOnce(i) ==
    IF run.cmd \in Unguarded \/ run.clunks # {} THEN run.clunks ELSE run.clunks \union {i}
\* The fids to be clunked when the command returns.
Deferred(i) == IF run.cmd \in Unguarded THEN run.clunks ELSE run.clunks \union {i}

Walk ==
    /\ Doing("walk") /\ run.at # <<>> /\ run.names = <<>>
    /\ \E newfid \in Fids \ pool :
        /\ \A i \in Fids \ pool : newfid <= i
        /\ fids' = Bound(newfid, run.at)
        /\ pool' = pool \union {newfid}
        /\ run' = [Onwards EXCEPT !.f = newfid, !.clunks = Deferred(newfid), !.at = <<>>]
    /\ UNCHANGED <<app, node, root, cwd, held, crashed, left, lost, quiet, before>>

Stat ==
    /\ \E step \in {"stat", "isfile"} :
        /\ Doing(step)
        /\ run' = IF step = "isfile" /\ IsDir(Here) THEN Failed ELSE Onwards
    /\ UNCHANGED <<app, node, fids, pool, root, cwd, held, crashed, left, lost, quiet, before>>

\* OREAD; OWRITE, for which put also asks for OTRUNC.
Open ==
    /\ Doing("open")
    /\ LET mode == IF run.cmd \in Writing THEN "OWRITE" ELSE "OREAD" IN
       IF mode = "OWRITE" /\ IsDir(Here)
       THEN run' = Failed /\ UNCHANGED <<node, fids, before>>
       ELSE /\ fids' = [fids EXCEPT ![run.f].open = mode]
            /\ node' = IF run.cmd = "put" THEN [node EXCEPT ![Here].data = <<>>] ELSE node
            /\ before' = node'[Here].data
            /\ run' = Onwards
    /\ UNCHANGED <<app, pool, root, cwd, held, crashed, left, lost, quiet>>

\* Not "." and not "..".
Creatable == IsDir(Here) /\ run.name \in Names /\ node[Here].entries[run.name] = None

\* Fid.Create moves the fid to the file it makes.  put walks to the name when it cannot make it.
Create ==
    /\ Doing("create")
    /\ \/ /\ ~Creatable
          /\ run' = IF run.cmd = "put"
                    THEN [run EXCEPT !.todo = <<"walk", "open", "writeat">>, !.walk = <<run.name>>]
                    ELSE Failed
          /\ UNCHANGED <<node, fids, before>>
       \/ /\ Creatable
          /\ \E n \in Unused :
               /\ \A m \in Unused : n <= m
               /\ node' = [node EXCEPT ![Here].entries[run.name] = n,
                             ![n] = NewNode(run.name, IF run.dir THEN "dir" ELSE "file")]
               /\ fids' = [fids EXCEPT ![run.f].loc = Append(@, n),
                         ![run.f].open = IF run.cmd = "put" THEN "OWRITE" ELSE "OREAD"]
          /\ before' = <<>>
          /\ run' = Onwards
    /\ UNCHANGED <<app, pool, root, cwd, held, crashed, left, lost, quiet>>

-----------------------------------------------------------------------------
(***************************************************************************)
(* ReadAll, and the loop of cat.  SyntheticHandle.ReadAt gives what there  *)
(* is from the offset on; ListHandle.ReadAt takes a new list at offset 0   *)
(* and from then on what is left of it, whatever the offset.               *)
(***************************************************************************)
Chunk(s) == SubSeq(s, 1, IF Len(s) < MessageData THEN Len(s) ELSE MessageData)
Listing(n) == SetToSeq(Entries(n))

\* Mutant of Advance: the offset stays.
AdvanceNot(n) == run.o
Advance(n) == run.o + n

\* What there is to be read yet.
Source == IF ~IsDir(Here) THEN SubSeq(node[Here].data, run.o + 1, Len(node[Here].data))
          ELSE IF run.o = 0 THEN Listing(Here) ELSE fids[run.f].list

ReadAll ==
    /\ Doing("readall")
    /\ LET b == Chunk(Source)
       IN /\ fids' = IF IsDir(Here)
                     THEN [fids EXCEPT ![run.f].list = SubSeq(Source, Len(b) + 1, Len(Source))]
                     ELSE fids
          /\ before' = IF IsDir(Here) /\ run.o = 0 THEN Source ELSE before
          /\ run' = IF b = <<>> THEN Onwards
                    ELSE [run EXCEPT !.got = @ \o b, !.o = Advance(Len(b))]
    /\ UNCHANGED <<app, node, pool, root, cwd, held, crashed, left, lost, quiet>>

\* readdir of 9pc, and the loop of List: the bytes of a file are no directory, and the two bytes
\* that a length takes may not be there.
Decode ==
    /\ Doing("decode")
    /\ \/ /\ IsDir(Here) \/ run.got = <<>>
          /\ run' = Onwards
          /\ UNCHANGED <<fids, pool, crashed>>
       \/ /\ ~IsDir(Here) /\ run.got # <<>>
          /\ \/ run' = Failed /\ UNCHANGED <<fids, pool, crashed>>
             \/ Crash /\ UNCHANGED run
    /\ UNCHANGED <<app, node, root, cwd, held, left, lost, quiet, before>>

\* SyntheticHandle.WriteAt: no hole is left before the offset.
Put(data, o, b) ==
    LET at == IF o > Len(data) THEN Len(data) ELSE o
    IN SubSeq(data, 1, at) \o b \o SubSeq(data, at + Len(b) + 1, Len(data))

\* WriteAt: p[:ms] reaches beyond the end of p into its capacity, or panics; so does p[n:] then.
ms == IF MessageData > Len(run.given) THEN Len(run.given) ELSE MessageData
WriteAt ==
    /\ Doing("writeat")
    /\ LET cap  == Len(run.p) + run.spare
           sent == IF ms <= Len(run.p) THEN SubSeq(run.p, 1, ms) ELSE Append(run.p, Junk)
       IN \/ /\ run.p = <<>>
             /\ run' = Onwards
             /\ UNCHANGED <<node, fids, pool, crashed>>
          \/ /\ run.p # <<>> /\ ms > cap
             /\ Crash
             /\ UNCHANGED <<node, run>>
          \/ /\ run.p # <<>> /\ ms <= cap
             /\ node' = [node EXCEPT ![Here].data = Put(@, run.o, sent)]
             /\ IF ms > Len(run.p) THEN Crash /\ UNCHANGED run
                ELSE /\ run' = [run EXCEPT !.p = SubSeq(@, ms + 1, Len(@)), !.o = Advance(ms)]
                     /\ UNCHANGED <<fids, pool, crashed>>
    /\ UNCHANGED <<app, root, cwd, held, left, lost, quiet, before>>

-----------------------------------------------------------------------------
\* Rename: the server refuses the root, and a name in use.
Rename ==
    /\ Doing("wstat")
    /\ LET old == node[Here].name
           ok  == Len(fids[run.f].loc) > 1 /\ node[Above].entries[old] # None
                  /\ node[Above].entries[run.name] = None
       IN \/ run.name = old /\ run' = Onwards /\ UNCHANGED node
          \/ run.name # old /\ ~ok /\ run' = Failed /\ UNCHANGED node
          \/ /\ run.name # old /\ ok
             /\ node' = [node EXCEPT ![Above].entries[run.name] = node[Above].entries[old],
                                     ![Above].entries[old] = None,
                                     ![node[Above].entries[old]].name = run.name]
             /\ run' = Onwards
    /\ UNCHANGED <<app, fids, pool, root, cwd, held, crashed, left, lost, quiet, before>>

\* A file may be removed while it is open.
CanRemove(n) == IsDir(n) => Entries(n) = {}

\* Tremove: the fid is gone and the reply is good, whether the file goes or not.
RemoveFile ==
    /\ Doing("remove")
    /\ LET nm == node[Here].name
           n  == node[Above].entries[nm]
       IN /\ fids' = Unbound(run.f)
          /\ node' = IF Len(fids[run.f].loc) > 1 /\ n # None /\ CanRemove(n)
                     THEN [node EXCEPT ![Above].entries[nm] = None] ELSE node
    /\ pool' = pool \ {run.f}
    /\ run' = Onwards
    /\ UNCHANGED <<app, root, cwd, held, crashed, left, lost, quiet, before>>

\* cd: the type of the last qid of the walk, which has none when there were no names.
Chdir ==
    /\ Doing("chdir")
    /\ \/ /\ run.walk = <<>>
          /\ Crash
          /\ UNCHANGED <<cwd, run, lost>>
       \/ /\ run.walk # <<>> /\ ~IsDir(Here)
          /\ run' = Failed
          /\ lost' = lost \union {run.f}
          /\ UNCHANGED <<cwd, fids, pool, crashed>>
       \/ /\ run.walk # <<>> /\ IsDir(Here)
          /\ fids' = Unbound(cwd)
          /\ pool' = IF cwd \in DOMAIN fids THEN pool \ {cwd} ELSE pool
          /\ cwd' = run.f
          /\ run' = Onwards
          /\ UNCHANGED <<lost, crashed>>
    /\ UNCHANGED <<app, node, root, held, left, quiet, before>>

Hold ==
    /\ Doing("hold")
    /\ held' = run.f
    /\ run' = Onwards
    /\ UNCHANGED <<app, node, fids, pool, root, cwd, crashed, left, lost, quiet, before>>

Unhold ==
    /\ Doing("unhold")
    /\ fids' = Unbound(held)
    /\ pool' = pool \ {held}
    /\ held' = None
    /\ run' = Onwards
    /\ UNCHANGED <<app, node, root, cwd, crashed, left, lost, quiet, before>>

\* The deferred clunks, and the end of the command.
Return ==
    /\ ~crashed /\ run # NoRun /\ run.todo = <<>>
    /\ \/ /\ run.clunks = {}
          /\ run' = NoRun
          /\ UNCHANGED <<fids, pool>>
       \/ \E i \in run.clunks :
          /\ \A j \in run.clunks : j <= i
          /\ fids' = Unbound(i)
          /\ pool' = pool \ {i}
          /\ run' = [run EXCEPT !.clunks = @ \ {i}]
    /\ UNCHANGED <<app, node, root, cwd, held, crashed, left, lost, quiet, before>>

\* Another client writes to a file, makes one, or removes one that it may remove.
Other ==
    /\ left.other > 0 /\ ~crashed
    /\ \E d \in Nodes, nm \in Names :
        LET n == node[d].entries[nm] IN
        /\ IsDir(d)
        /\ \/ /\ n # None /\ node[n].kind = "file"
              /\ \E b \in Contents : node' = [node EXCEPT ![n].data = b]
           \/ /\ n # None /\ CanRemove(n)
              /\ node' = [node EXCEPT ![d].entries[nm] = None]
           \/ /\ n = None
              /\ \E m \in Unused : /\ \A k \in Unused : m <= k
                                   /\ node' = [node EXCEPT ![d].entries[nm] = m,
                                        ![m] = NewNode(nm, "file")]
    /\ left' = [left EXCEPT !.other = @ - 1]
    /\ quiet' = FALSE
    /\ UNCHANGED <<app, fids, pool, root, cwd, held, run, crashed, lost, before>>

Next == \/ Call \/ WalkStart \/ WalkName \/ Walk \/ Stat \/ Open \/ Create
        \/ ReadAll \/ Decode \/ WriteAt \/ Rename
        \/ RemoveFile \/ Chdir \/ Hold \/ Unhold \/ Return \/ Other

Spec == Init /\ [][Next]_vars

-----------------------------------------------------------------------------
\* Between commands the fids in use are those the program keeps: of the working directory, which
\* is the root's at first, of hold, and of each cd to something that was no directory (cd does not
\* clunk it).  A fid that is kept is not clunked under another name for it, and the numbers taken
\* at the client are the fids of the server.
FidsReturned ==
    run = NoRun /\ ~crashed =>
        /\ pool = ({cwd, held} \ {None}) \union lost
        /\ pool = DOMAIN fids

Succeeds == ~crashed /\ run # NoRun /\ run.todo = <<>> /\ run.ok /\ quiet /\ run.f \in run.clunks

\* A command that reports success, while nobody else wrote, has read the whole file or directory,
\* or has written all it was given over the start of the file, whatever the number of messages.
Whole ==
    Succeeds =>
        /\ run.cmd \in {"Read", "cat", "get", "List", "ls"} => run.got = before
        /\ run.cmd \in Writing => node[Here].data = Put(before, 0, run.given)

\* "Write writes the content specified" (simple.go 134), and nothing else.
OnlyContent == \A n \in Nodes : ~Contains(node[n].data, Junk)

\* "/" is the root of the server.
RootStays == root \in DOMAIN fids /\ fids[root].loc = <<Top>>
=============================================================================
