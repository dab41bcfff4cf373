------------------------- MODULE SimpleClientProofs -------------------------
(***************************************************************************)
(* Theorems about SimpleClient: no fid is left behind by a command, and a  *)
(* command that succeeds has read or written all.                          *)
(***************************************************************************)
EXTENDS SimpleClient, SequenceTheorems, FiniteSetTheorems, TLAPS

-----------------------------------------------------------------------------
(***************************************************************************)
(* Fids: whose they are.                                                   *)
(***************************************************************************)
Steps == {"walk", "stat", "isfile", "open", "create", "readall", "decode", "writeat", "wstat",
          "remove", "chdir", "hold", "unhold"}
\* The steps that take the fid of the command from it.
Passing == {"remove", "chdir", "hold"}

\* What may be left to do of a command: one without deferred clunks walks and then passes its fid
\* on or removes it.
FidSteps(cmd, t) ==
    /\ t \in Seq(Steps)
    /\ \A i \in 1..Len(t) :
        /\ t[i] \in Passing <=> cmd \in Unguarded /\ i = Len(t)
        /\ t[i] = "hold" => cmd = "hold"
        /\ t[i] = "unhold" <=> cmd = "unhold"
    /\ cmd = "unhold" => Len(t) <= 1
    /\ cmd \in Unguarded => Len(t) <= 2 /\ (Len(t) = 2 => t[1] = "walk")

\* The fields of a command in progress.
Fields == {"cmd", "f", "walk", "todo", "name", "dir", "given", "p", "spare", "at", "names",
           "o", "got", "clunks", "ok"}
\* The command in progress makes one of these steps next.
At(steps) == run # NoRun /\ run.todo # <<>> /\ Head(run.todo) \in steps

\* The command in progress: one of the commands, at one of its steps, with fids.
RunInv ==
    run # NoRun =>
        /\ DOMAIN run = Fields
        /\ run.cmd \in DOMAIN Commands /\ FidSteps(run.cmd, run.todo)
        /\ run.f \in Fids /\ run.clunks \subseteq Fids
        /\ run.cmd \in Unguarded \union {"unhold"} => run.clunks = {}

\* The fids the program keeps from one command to the next.
Kept == ({cwd, held} \ {None}) \union lost
\* The fid of a command that passes it on or removes it.
Own == IF At(Passing) THEN {run.f} ELSE {}
\* What the command will clunk as it returns.
Clunks == IF run = NoRun THEN {} ELSE run.clunks

\* The fids in use are those kept and those the command will clunk, pass on or remove; none is
\* counted twice.
PoolInv ==
    /\ pool = DOMAIN fids /\ pool \subseteq Fids
    /\ root \in Fids /\ cwd \in Fids /\ held \in Fids \union {None}
    /\ ~crashed =>
        /\ pool = Kept \union Clunks \union Own
        /\ cwd # held /\ cwd \notin lost /\ held \notin lost
        /\ Kept \intersect (Clunks \union Own) = {}
        /\ run # NoRun /\ run.todo # <<>> =>
            /\ run.cmd = "hold" => held = None
            /\ run.cmd = "unhold" => held # None

\* The inductive invariant of FidsReturned.
FidInv == RunInv /\ PoolInv

-----------------------------------------------------------------------------
(***************************************************************************)
(* The tree, and what a command has read or written.                       *)
(***************************************************************************)
\* The commands that read.
Reading == {"Read", "cat", "get", "List", "ls"}
\* What a node may be; no entry leads to the root.
NodeSet == [kind : Kinds \union {None}, name : Names \union {"/", None}, data : Seq(Bytes),
            entries : [Names -> (Nodes \ {Top}) \union {None}]]

\* The root is no entry; an entry leads to a file, which has a name.
TreeInv ==
    /\ node \in [Nodes -> NodeSet]
    /\ \A n \in Nodes, nm \in Names :
        node[n].entries[nm] # None => node[node[n].entries[nm]].kind # None
    /\ \A n \in Nodes \ {Top} : node[n].kind # None => node[n].name \in Names

\* Files, of which the first alone may be the root.
IsPath(tree, l) ==
    /\ l \in Seq(Nodes) /\ l # <<>>
    /\ \A k \in 1..Len(l) : tree[l[k]].kind # None /\ (k > 1 => l[k] # Top)

\* Every fid, and a walk on its way, leads to files.
PathInv ==
    /\ \A i \in DOMAIN fids :
        /\ DOMAIN fids[i] = {"loc", "open", "list"}
        /\ IsPath(node, fids[i].loc) /\ fids[i].list \in Seq(Names)
    /\ run # NoRun /\ run.at # <<>> => IsPath(node, run.at)

\* The order in which a command reads, or writes.
DataStep(cmd, t, i) ==
    /\ t[i] = "stat" => i = Len(t)
    /\ t[i] = "wstat" => cmd = "Rename"
    /\ cmd \in Reading =>
        /\ t[i] \in {"walk", "isfile", "open", "readall", "decode"}
        /\ t[i] = "decode" => i = Len(t)
        /\ t[i] = "readall" => i = Len(t) \/ t[i + 1] = "decode"
        /\ t[i] = "open" => i # Len(t) /\ t[i + 1] = "readall"
        /\ t[i] \in {"walk", "isfile"} => i # Len(t) /\ t[i + 1] \in {"isfile", "open"}
    /\ cmd \in Writing =>
        /\ t[i] \in {"walk", "create", "open", "writeat"}
        /\ t[i] = "writeat" => i = Len(t)
        /\ t[i] \in {"create", "open"} => i # Len(t) /\ t[i + 1] = "writeat"
        /\ t[i] = "walk" => i # Len(t) /\ t[i + 1] \in {"create", "open"}
\* What may be left to do of a command, as to its data.
DataSteps(cmd, t) == t \in Seq(Steps) /\ \A i \in 1..Len(t) : DataStep(cmd, t, i)

\* The fid of a command is its own once it has walked; what it is given is bytes.
CommandInv ==
    run # NoRun =>
        /\ DataSteps(run.cmd, run.todo)
        /\ run.o \in Nat /\ run.p \in Seq(Bytes) /\ run.given \in Seq(Bytes)
        /\ run.cmd = "Rename" => run.name \in Names
        /\ run.todo # <<>> /\ Head(run.todo) \notin {"walk", "unhold", "stat"} =>
            run.f \in run.clunks \union Own

\* What has been read is the start of what there was.
HasRead ==
    /\ At({"walk", "isfile", "open"}) => run.o = 0 /\ run.got = <<>>
    /\ At({"readall"}) =>
        /\ IsDir(Here) => \/ run.o = 0 /\ run.got = <<>>
                          \/ /\ run.o > 0 /\ run.got \in Seq(Names)
                             /\ before = run.got \o fids[run.f].list
        /\ ~IsDir(Here) => /\ run.o <= Len(before) /\ run.got = SubSeq(before, 1, run.o)
                           /\ before = node[Here].data
    /\ At({"decode"}) \/ (run.todo = <<>> /\ run.ok) => run.got = before
\* A command that reads, as long as no other client changes the tree.
ReadInv == run # NoRun /\ ~crashed /\ quiet /\ run.cmd \in Reading => HasRead

\* What has been written is the start of what the command was given.
HasWritten ==
    /\ At({"walk", "create", "open"}) => run.o = 0 /\ run.p = run.given
    /\ At({"writeat"}) =>
        /\ before \in Seq(Bytes) /\ run.o <= Len(run.given)
        /\ run.p = SubSeq(run.given, run.o + 1, Len(run.given))
        /\ node[Here].data = Put(before, 0, SubSeq(run.given, 1, run.o))
    /\ run.todo = <<>> /\ run.ok /\ run.f \in run.clunks =>
        node[Here].data = Put(before, 0, run.given)
\* A command that writes, likewise.
WriteInv == run # NoRun /\ ~crashed /\ quiet /\ run.cmd \in Writing => HasWritten

-----------------------------------------------------------------------------
(***************************************************************************)
(* Parts of sequences.                                                     *)
(***************************************************************************)
\* A part of a sequence.
LEMMA PartOf ==
    ASSUME NEW S, NEW s \in Seq(S), NEW m \in Nat \ {0}, NEW n \in Nat, n <= Len(s)
    PROVE  /\ SubSeq(s, m, n) \in Seq(S)
           /\ Len(SubSeq(s, m, n)) = IF m <= n THEN n - m + 1 ELSE 0
           /\ \A i \in 1..Len(SubSeq(s, m, n)) : SubSeq(s, m, n)[i] = s[m + i - 1]
<1>1. m \in Int /\ n \in Int /\ \A i \in m..n : s[i] \in S
  BY ElementOfSeq
<1>2. /\ SubSeq(s, m, n) \in Seq(S)
      /\ Len(SubSeq(s, m, n)) = IF m <= n THEN n - m + 1 ELSE 0
      /\ \A i \in 1..(n - m + 1) : SubSeq(s, m, n)[i] = s[m + i - 1]
  BY <1>1, SubSeqProperties
<1> QED BY <1>2

\* A chunk and what is left of the sequence are the sequence.
LEMMA ChunkFacts ==
    ASSUME NEW S, NEW s \in Seq(S)
    PROVE  /\ Chunk(s) \in Seq(S) /\ Len(Chunk(s)) <= Len(s)
           /\ Chunk(s) = SubSeq(s, 1, Len(Chunk(s)))
           /\ Chunk(s) = <<>> <=> s = <<>>
           /\ SubSeq(s, Len(Chunk(s)) + 1, Len(s)) \in Seq(S)
           /\ s = Chunk(s) \o SubSeq(s, Len(Chunk(s)) + 1, Len(s))
<1> DEFINE n == IF Len(s) < MessageData THEN Len(s) ELSE MessageData
           rest == SubSeq(s, n + 1, Len(s))
<1>1. n \in Nat /\ n <= Len(s) /\ (n = 0 <=> Len(s) = 0) /\ Len(s) \in Nat
  BY SimpleAssumption
<1>2. Chunk(s) = SubSeq(s, 1, n)
  BY DEF Chunk
<1> HIDE DEF n
<1>3. /\ Chunk(s) \in Seq(S) /\ Len(Chunk(s)) = n
      /\ \A i \in 1..n : Chunk(s)[i] = s[i]
  BY <1>1, <1>2, PartOf
<1>4. rest \in Seq(S)
  BY <1>1, PartOf
<1>5. Chunk(s) \o rest = s
  <2>1. 1 \in 1..Len(s) + 1 /\ n \in (1 - 1)..Len(s) /\ Len(s) \in n..Len(s)
    BY <1>1
  <2>2. SubSeq(s, 1, n) \o SubSeq(s, n + 1, Len(s)) = SubSeq(s, 1, Len(s))
    BY <2>1, ConcatAdjacentSubSeq, Zenon
  <2> QED BY <1>2, <2>2, SubSeqFull
<1>6. Chunk(s) = <<>> <=> s = <<>>
  BY <1>1, <1>3, EmptySeq
<1> QED BY <1>1, <1>2, <1>3, <1>4, <1>5, <1>6

\* What a write leaves: the bytes written, and what was beyond them.
LEMMA PutFacts ==
    ASSUME NEW S, NEW b \in Seq(S), NEW x \in Seq(S)
    PROVE  /\ Put(b, 0, x) = x \o SubSeq(b, Len(x) + 1, Len(b))
           /\ Put(b, 0, x) \in Seq(S)
           /\ Len(Put(b, 0, x)) = IF Len(x) < Len(b) THEN Len(b) ELSE Len(x)
           /\ SubSeq(Put(b, 0, x), 1, Len(x)) = x
<1> DEFINE rest == SubSeq(b, Len(x) + 1, Len(b))
<1>1. Len(b) \in Nat /\ Len(x) \in Nat
  BY LenProperties
<1>2. /\ rest \in Seq(S)
      /\ Len(rest) = IF Len(x) < Len(b) THEN Len(b) - Len(x) ELSE 0
  BY <1>1, PartOf
<1>3. SubSeq(b, 1, 0) = <<>>
  BY SubSeqEmpty
<1>4. Put(b, 0, x) = x \o rest
  <2>1. (IF 0 > Len(b) THEN Len(b) ELSE 0) = 0
    BY <1>1
  <2>5. Put(b, 0, x) = SubSeq(b, 1, 0) \o x \o SubSeq(b, 0 + Len(x) + 1, Len(b))
    BY <2>1, Zenon DEF Put
  <2>2. 0 + Len(x) + 1 = Len(x) + 1
    BY <1>1
  <2>3. <<>> \o x = x
    BY ConcatEmptySeq
  <2> QED BY <2>5, <2>2, <2>3, <1>3
<1> HIDE DEF rest
<1>5. /\ x \o rest \in Seq(S) /\ Len(x \o rest) = Len(x) + Len(rest)
      /\ \A i \in 1..Len(x) : (x \o rest)[i] = x[i]
  <2>1. rest \in Seq(S)
    BY <1>2
  <2> QED BY <1>1, <2>1, ConcatProperties, LenProperties
<1>6. SubSeq(x \o rest, 1, Len(x)) = x
  <2>1. /\ SubSeq(x \o rest, 1, Len(x)) \in Seq(S)
        /\ Len(SubSeq(x \o rest, 1, Len(x))) = Len(x)
        /\ \A i \in 1..Len(x) : SubSeq(x \o rest, 1, Len(x))[i] = (x \o rest)[i]
    BY <1>1, <1>2, <1>5, PartOf
  <2> QED BY <2>1, <1>5, SeqEqual
<1>7. Len(x \o rest) = IF Len(x) < Len(b) THEN Len(b) ELSE Len(x)
  BY <1>1, <1>2, <1>5
<1> QED BY <1>4, <1>5, <1>6, <1>7 DEF rest

\* A write at the start.
LEMMA PutStart ==
    ASSUME NEW S, NEW b \in Seq(S), NEW x \in Seq(S)
    PROVE  Put(b, 0, x) = x \o SubSeq(b, Len(x) + 1, Len(b))
BY PutFacts

\* What a write leaves is a sequence of the same kind.
LEMMA PutType ==
    ASSUME NEW S, NEW b \in Seq(S), NEW x \in Seq(S), NEW o \in Nat
    PROVE  Put(b, o, x) \in Seq(S)
<1> DEFINE at == IF o > Len(b) THEN Len(b) ELSE o
<1>1. Len(b) \in Nat /\ Len(x) \in Nat
  BY LenProperties
<1>2. at \in Nat /\ at <= Len(b)
  BY <1>1
<1> HIDE DEF at
<1>3. SubSeq(b, 1, at) \in Seq(S) /\ SubSeq(b, at + Len(x) + 1, Len(b)) \in Seq(S)
  BY <1>1, <1>2, PartOf
<1>4. Put(b, o, x) = SubSeq(b, 1, at) \o x \o SubSeq(b, at + Len(x) + 1, Len(b))
  BY DEF Put, at
<1> QED BY <1>3, <1>4, ConcatProperties

\* Two writes, one after the other, are the write of both.
LEMMA PutTwice ==
    ASSUME NEW S, NEW b \in Seq(S), NEW x \in Seq(S), NEW y \in Seq(S)
    PROVE  Put(Put(b, 0, x), Len(x), y) = Put(b, 0, x \o y)
<1> DEFINE D == Put(b, 0, x)
           k == Len(x)
           m == Len(y)
           r == SubSeq(b, k + 1, Len(b))
<1>1. Len(b) \in Nat /\ k \in Nat /\ m \in Nat
  BY LenProperties
<1>2. /\ D = x \o r /\ D \in Seq(S) /\ SubSeq(D, 1, k) = x
      /\ Len(D) = IF k < Len(b) THEN Len(b) ELSE k
  BY PutFacts
<1>3. /\ r \in Seq(S) /\ Len(r) = IF k < Len(b) THEN Len(b) - k ELSE 0
      /\ \A i \in 1..Len(r) : r[i] = b[k + i]
  BY <1>1, PartOf
<1> HIDE DEF D, r
<1>4. \A i \in 1..Len(r) : D[k + i] = b[k + i]
  BY <1>1, <1>2, <1>3, ConcatProperties
<1> DEFINE u == SubSeq(D, k + m + 1, Len(D))
           v == SubSeq(b, k + m + 1, Len(b))
<1>5. u = v
  <2>1. /\ u \in Seq(S) /\ Len(u) = IF k + m < Len(D) THEN Len(D) - (k + m) ELSE 0
        /\ \A i \in 1..Len(u) : u[i] = D[k + m + i]
    BY <1>1, <1>2, PartOf
  <2>2. /\ v \in Seq(S) /\ Len(v) = IF k + m < Len(b) THEN Len(b) - (k + m) ELSE 0
        /\ \A i \in 1..Len(v) : v[i] = b[k + m + i]
    BY <1>1, PartOf
  <2> HIDE DEF u, v
  <2>3. Len(u) = Len(v)
    BY <1>1, <1>2, <2>1, <2>2
  <2>4. \A i \in 1..Len(u) : m + i \in 1..Len(r)
    BY <1>1, <1>2, <1>3, <2>1
  <2>5. \A i \in 1..Len(u) : u[i] = v[i]
    BY <1>1, <1>4, <2>1, <2>2, <2>3, <2>4
  <2> QED BY <2>1, <2>2, <2>3, <2>5, SeqEqual
<1>6. Put(D, k, y) = x \o y \o u
  <2>1. (IF k > Len(D) THEN Len(D) ELSE k) = k
    BY <1>1, <1>2
  <2>2. Put(D, k, y) = SubSeq(D, 1, k) \o y \o SubSeq(D, k + Len(y) + 1, Len(D))
    BY <2>1, Zenon DEF Put
  <2> QED BY <1>2, <2>2
<1>7. x \o y \in Seq(S) /\ Len(x \o y) = k + m
  BY ConcatProperties
<1>8. Put(b, 0, x \o y) = x \o y \o v
  <2>1. Put(b, 0, x \o y) = (x \o y) \o SubSeq(b, Len(x \o y) + 1, Len(b))
    BY <1>7, PutStart, Zenon
  <2> QED BY <1>7, <2>1
<1> QED BY <1>5, <1>6, <1>8 DEF D

\* A name for SubSeq, of which the provers see only what is said.
Part(s, m, n) == SubSeq(s, m, n)

\* What is left of a part of what is left.
LEMMA RestOn ==
    ASSUME NEW S, NEW g \in Seq(S), NEW o \in Nat, NEW n \in Nat, o + n <= Len(g),
           NEW p, NEW i, NEW j, NEW k, i = o + 1, j = n + 1, k = o + n + 1,
           p = Part(g, i, Len(g))
    PROVE  Part(p, j, Len(p)) = Part(g, k, Len(g))
<1> DEFINE z == Part(p, j, Len(p))
           v == Part(g, k, Len(g))
<1>1. Len(g) \in Nat
  BY LenProperties
<1>2. /\ p \in Seq(S) /\ Len(p) = Len(g) - o
      /\ \A x \in 1..(Len(g) - o) : p[x] = g[o + x]
  BY <1>1, PartOf DEF Part
<1>3. /\ z \in Seq(S) /\ Len(z) = IF n < Len(p) THEN Len(p) - n ELSE 0
      /\ \A x \in 1..Len(z) : z[x] = p[n + x]
  BY <1>1, <1>2, PartOf DEF Part
<1>4. /\ v \in Seq(S) /\ Len(v) = IF o + n < Len(g) THEN Len(g) - (o + n) ELSE 0
      /\ \A x \in 1..Len(v) : v[x] = g[o + n + x]
  BY <1>1, PartOf DEF Part
<1> HIDE DEF z, v
<1>5. Len(z) = Len(v)
  BY <1>1, <1>2, <1>3, <1>4
<1>6. \A x \in 1..Len(z) : p[n + x] = g[o + n + x]
  BY <1>1, <1>2, <1>3
<1>7. \A x \in 1..Len(z) : z[x] = v[x]
  BY <1>3, <1>4, <1>5, <1>6
<1>8. z = v
  BY <1>3, <1>4, <1>5, <1>7, SeqEqual
<1> QED BY <1>8 DEF z, v

\* A write goes on where the last one stopped.
LEMMA WriteOn ==
    ASSUME NEW S, NEW b \in Seq(S), NEW g \in Seq(S), NEW o \in Nat, NEW n \in Nat,
           o + n <= Len(g)
    PROVE  Put(Put(b, 0, Part(g, 1, o)), o, Part(Part(g, o + 1, Len(g)), 1, n))
             = Put(b, 0, Part(g, 1, o + n))
<1> DEFINE p == Part(g, o + 1, Len(g))
           x == Part(g, 1, o)
           y == Part(p, 1, n)
           w == Part(g, 1, o + n)
<1>1. Len(g) \in Nat
  BY LenProperties
<1>2. /\ p \in Seq(S) /\ Len(p) = Len(g) - o
      /\ \A i \in 1..(Len(g) - o) : p[i] = g[o + i]
  BY <1>1, PartOf DEF Part
<1> HIDE DEF p
<1>3. /\ x \in Seq(S) /\ Len(x) = o
  BY <1>1, PartOf DEF Part
<1>4. /\ y \in Seq(S) /\ Len(y) = n
      /\ \A i \in 1..n : y[i] = p[i]
  BY <1>1, <1>2, PartOf DEF Part
<1> HIDE DEF x, y, w
<1>5. x \o y = w
  <2>1. y = SubSeq(g, o + 1, o + n)
    <3>1. /\ SubSeq(g, o + 1, o + n) \in Seq(S) /\ Len(SubSeq(g, o + 1, o + n)) = n
          /\ \A i \in 1..n : SubSeq(g, o + 1, o + n)[i] = g[o + i]
      BY <1>1, PartOf
    <3>2. \A i \in 1..n : y[i] = g[o + i]
      <4>1. \A i \in 1..n : i \in 1..(Len(g) - o)
        BY <1>1
      <4> QED BY <1>2, <1>4, <4>1
    <3> QED BY <1>4, <3>1, <3>2, SeqEqual
  <2>2. 1 \in 1..Len(g) + 1 /\ o \in (1 - 1)..Len(g) /\ o + n \in o..Len(g)
    BY <1>1
  <2>3. SubSeq(g, 1, o) \o SubSeq(g, o + 1, o + n) = SubSeq(g, 1, o + n)
    BY <2>2, ConcatAdjacentSubSeq, Zenon
  <2> QED BY <2>1, <2>3 DEF x, w, Part
<1>6. Put(Put(b, 0, x), o, y) = Put(b, 0, x \o y)
  BY <1>3, <1>4, PutTwice
<1> QED BY <1>5, <1>6 DEF p, x, y, w

\* A list that has been read in part, and read on.
LEMMA ReadOn ==
    ASSUME NEW S, NEW g \in Seq(S), NEW s \in Seq(S)
    PROVE  g \o s = (g \o Chunk(s)) \o SubSeq(s, Len(Chunk(s)) + 1, Len(s))
<1> DEFINE c == Chunk(s)
           r == SubSeq(s, Len(c) + 1, Len(s))
<1>1. c \in Seq(S) /\ r \in Seq(S)
  BY ChunkFacts
<1>2. s = c \o r
  BY ChunkFacts
<1> HIDE DEF c, r
<1>3. (g \o c) \o r = g \o (c \o r)
  BY <1>1, ConcatAssociative
<1> QED BY <1>2, <1>3 DEF c, r

\* The bytes of a file that have been read, and the next of them.
LEMMA ReadBytes ==
    ASSUME NEW S, NEW d \in Seq(S), NEW o \in Nat, o <= Len(d)
    PROVE  LET b == Chunk(SubSeq(d, o + 1, Len(d))) IN
           /\ b \in Seq(S) /\ o + Len(b) <= Len(d)
           /\ SubSeq(d, 1, o) \o b = SubSeq(d, 1, o + Len(b))
           /\ b = <<>> => o = Len(d)
<1> DEFINE s == SubSeq(d, o + 1, Len(d))
           b == Chunk(s)
<1>1. Len(d) \in Nat
  BY LenProperties
<1>2. s \in Seq(S) /\ Len(s) = Len(d) - o /\ \A i \in 1..(Len(d) - o) : s[i] = d[o + i]
  BY <1>1, PartOf
<1> HIDE DEF s
<1>3. /\ b \in Seq(S) /\ Len(b) <= Len(s) /\ b = SubSeq(s, 1, Len(b))
      /\ b = <<>> <=> s = <<>>
  BY <1>2, ChunkFacts
<1>4. Len(b) \in Nat
  BY <1>3, LenProperties
<1> HIDE DEF b
<1>5. \A i \in 1..Len(b) : b[i] = s[i]
  BY <1>2, <1>3, <1>4, PartOf
<1>6. b = SubSeq(d, o + 1, o + Len(b))
  <2>1. /\ SubSeq(d, o + 1, o + Len(b)) \in Seq(S) /\ Len(SubSeq(d, o + 1, o + Len(b))) = Len(b)
        /\ \A i \in 1..Len(b) : SubSeq(d, o + 1, o + Len(b))[i] = d[o + i]
    BY <1>1, <1>2, <1>3, <1>4, PartOf
  <2>2. \A i \in 1..Len(b) : i \in 1..(Len(d) - o)
    BY <1>1, <1>2, <1>3, <1>4
  <2>3. \A i \in 1..Len(b) : b[i] = d[o + i]
    BY <1>2, <1>5, <2>2
  <2> QED BY <1>3, <2>1, <2>3, SeqEqual
<1>7. SubSeq(d, 1, o) \o SubSeq(d, o + 1, o + Len(b)) = SubSeq(d, 1, o + Len(b))
  <2>1. 1 \in 1..Len(d) + 1 /\ o \in (1 - 1)..Len(d) /\ o + Len(b) \in o..Len(d)
    BY <1>1, <1>2, <1>3, <1>4
  <2> QED BY <2>1, ConcatAdjacentSubSeq, Zenon
<1>8. s = <<>> => o = Len(d)
  BY <1>1, <1>2, EmptySeq
<1>9. o + Len(b) <= Len(d)
  BY <1>1, <1>2, <1>3, <1>4
<1> QED BY <1>3, <1>6, <1>7, <1>8, <1>9 DEF b, s

-----------------------------------------------------------------------------
(***************************************************************************)
(* The steps of a command, and the fids.                                   *)
(***************************************************************************)
\* A command that has only plain steps passes no fid on.
LEMMA PlainSteps ==
    ASSUME NEW cmd, cmd \notin Unguarded \union {"unhold"},
           NEW t \in Seq(Steps \ (Passing \union {"unhold"}))
    PROVE  FidSteps(cmd, t)
<1>1. t \in Seq(Steps) /\ \A i \in 1..Len(t) : t[i] \notin Passing /\ t[i] # "unhold"
  OBVIOUS
<1> QED BY <1>1 DEF FidSteps, Passing

\* Every command walks first, and passes its fid on in the last step if at all.
LEMMA CommandSteps ==
    ASSUME NEW cmd \in DOMAIN Commands
    PROVE  /\ FidSteps(cmd, Commands[cmd]) /\ Commands[cmd] # <<>>
           /\ Head(Commands[cmd]) \in {"walk", "unhold"}
<1>0. DOMAIN Commands = {"Stat", "Read", "Write", "List", "Create", "Rename", "Remove", "stat",
        "ls", "cd", "cat", "get", "put", "stuff", "mkdir", "rm", "hold", "unhold"}
  BY DEF Commands
<1> DEFINE Plain == Steps \ (Passing \union {"unhold"})
<1>1. {"walk", "stat", "isfile", "open", "create", "readall", "decode", "writeat", "wstat"}
        \subseteq Plain
  BY DEF Steps, Passing
<1> HIDE DEF Plain
<1>3. CASE cmd \in {"Read", "cat"}
  <2>1. Commands[cmd] = <<"walk", "open", "readall">>
    BY <1>3 DEF Commands
  <2>2. Commands[cmd] \in Seq(Plain) /\ Commands[cmd] # <<>> /\ Head(Commands[cmd]) = "walk"
    BY <2>1, <1>1
  <2> QED BY <2>2, <1>3, PlainSteps DEF Unguarded, Plain, Passing
<1>4. CASE cmd \in {"Write", "stuff"}
  <2>1. Commands[cmd] = <<"walk", "open", "writeat">>
    BY <1>4 DEF Commands
  <2>2. Commands[cmd] \in Seq(Plain) /\ Commands[cmd] # <<>> /\ Head(Commands[cmd]) = "walk"
    BY <2>1, <1>1
  <2> QED BY <2>2, <1>4, PlainSteps DEF Unguarded, Plain, Passing
<1>5. CASE cmd = "put"
  <2>1. Commands[cmd] = <<"walk", "create", "writeat">>
    BY <1>5 DEF Commands
  <2>2. Commands[cmd] \in Seq(Plain) /\ Commands[cmd] # <<>> /\ Head(Commands[cmd]) = "walk"
    BY <2>1, <1>1
  <2> QED BY <2>2, <1>5, PlainSteps DEF Unguarded, Plain, Passing
<1>6. CASE cmd \in {"List", "ls"}
  <2>1. Commands[cmd] = <<"walk", "open", "readall", "decode">>
    BY <1>6 DEF Commands
  <2>2. Commands[cmd] \in Seq(Plain) /\ Commands[cmd] # <<>> /\ Head(Commands[cmd]) = "walk"
    BY <2>1, <1>1
  <2> QED BY <2>2, <1>6, PlainSteps DEF Unguarded, Plain, Passing
<1>7. CASE cmd = "get"
  <2>1. Commands[cmd] = <<"walk", "isfile", "open", "readall">>
    BY <1>7 DEF Commands
  <2>2. Commands[cmd] \in Seq(Plain) /\ Commands[cmd] # <<>> /\ Head(Commands[cmd]) = "walk"
    BY <2>1, <1>1
  <2> QED BY <2>2, <1>7, PlainSteps DEF Unguarded, Plain, Passing
<1>8. CASE cmd \in {"Stat", "stat"}
  <2>1. Commands[cmd] = <<"walk", "stat">>
    BY <1>8 DEF Commands
  <2>2. Commands[cmd] \in Seq(Plain) /\ Commands[cmd] # <<>> /\ Head(Commands[cmd]) = "walk"
    BY <2>1, <1>1
  <2> QED BY <2>2, <1>8, PlainSteps DEF Unguarded, Plain, Passing
<1>9. CASE cmd \in {"Create", "mkdir"}
  <2>1. Commands[cmd] = <<"walk", "create">>
    BY <1>9 DEF Commands
  <2>2. Commands[cmd] \in Seq(Plain) /\ Commands[cmd] # <<>> /\ Head(Commands[cmd]) = "walk"
    BY <2>1, <1>1
  <2> QED BY <2>2, <1>9, PlainSteps DEF Unguarded, Plain, Passing
<1>10. CASE cmd = "Rename"
  <2>1. Commands[cmd] = <<"walk", "wstat">>
    BY <1>10 DEF Commands
  <2>2. Commands[cmd] \in Seq(Plain) /\ Commands[cmd] # <<>> /\ Head(Commands[cmd]) = "walk"
    BY <2>1, <1>1
  <2> QED BY <2>2, <1>10, PlainSteps DEF Unguarded, Plain, Passing
<1>11. CASE cmd \in {"Remove", "rm", "cd", "hold"}
  <2>1. PICK b \in Passing : Commands[cmd] = <<"walk", b>> /\ (b = "hold" => cmd = "hold")
    BY <1>11 DEF Commands, Passing
  <2>2. /\ Commands[cmd] \in Seq(Steps) /\ Len(Commands[cmd]) = 2
        /\ Commands[cmd][1] = "walk" /\ Commands[cmd][2] = b
        /\ Head(Commands[cmd]) = "walk"
    BY <2>1 DEF Steps, Passing
  <2>3. cmd \in Unguarded /\ cmd # "unhold" /\ b # "unhold" /\ "walk" \notin Passing
    BY <1>11 DEF Unguarded, Passing
  <2> QED BY <2>1, <2>2, <2>3 DEF FidSteps
<1>12. CASE cmd = "unhold"
  <2>1. Commands[cmd] = <<"unhold">>
    BY <1>12 DEF Commands
  <2>2. /\ Commands[cmd] \in Seq(Steps) /\ Len(Commands[cmd]) = 1
        /\ Commands[cmd][1] = "unhold" /\ Head(Commands[cmd]) = "unhold"
    BY <2>1 DEF Steps
  <2>3. cmd \notin Unguarded /\ "unhold" \notin Passing
    BY <1>12 DEF Unguarded, Passing
  <2> QED BY <1>12, <2>2, <2>3 DEF FidSteps
<1> QED BY <1>0, <1>3, <1>4, <1>5, <1>6, <1>7, <1>8, <1>9, <1>10, <1>11, <1>12

\* What is left after a step keeps to that.
LEMMA TailSteps ==
    ASSUME NEW cmd, NEW t, FidSteps(cmd, t), t # <<>>
    PROVE  FidSteps(cmd, Tail(t))
<1>1. /\ t \in Seq(Steps) /\ Len(t) \in Nat /\ Len(t) >= 1
      /\ cmd = "unhold" => Len(t) <= 1
      /\ cmd \in Unguarded => Len(t) <= 2
  BY DEF FidSteps
<1>2. /\ Tail(t) \in Seq(Steps) /\ Len(Tail(t)) = Len(t) - 1
      /\ \A i \in 1..Len(Tail(t)) : i + 1 \in 1..Len(t) /\ Tail(t)[i] = t[i + 1]
  BY <1>1
<1>3. \A i \in 1..Len(Tail(t)) : i = Len(Tail(t)) <=> i + 1 = Len(t)
  BY <1>1, <1>2
<1> HIDE DEF FidSteps
<1>4. \A i \in 1..Len(Tail(t)) :
        /\ Tail(t)[i] \in Passing <=> cmd \in Unguarded /\ i = Len(Tail(t))
        /\ Tail(t)[i] = "hold" => cmd = "hold"
        /\ Tail(t)[i] = "unhold" <=> cmd = "unhold"
  BY <1>2, <1>3 DEF FidSteps
<1>5. /\ cmd = "unhold" => Len(Tail(t)) <= 1
      /\ cmd \in Unguarded => Len(Tail(t)) <= 1
  BY <1>1, <1>2
<1>6. Len(Tail(t)) \in Nat
  BY <1>2, LenProperties
<1>7. /\ cmd = "unhold" => Len(Tail(t)) <= 1
      /\ cmd \in Unguarded => Len(Tail(t)) <= 2 /\ (Len(Tail(t)) = 2 => Tail(t)[1] = "walk")
  BY <1>5, <1>6
<1> QED BY <1>2, <1>4, <1>7 DEF FidSteps

\* A command in progress is not none.
LEMMA RunRecord == \A r : DOMAIN r = Fields => r # NoRun
<1>1. \A r : DOMAIN r = Fields => "f" \in DOMAIN r
  BY DEF Fields
<1>2. "f" \notin DOMAIN NoRun
  BY DEF NoRun
<1> QED BY <1>1, <1>2

\* A step that is done, and a command that has failed.
LEMMA OnwardsFacts ==
    ASSUME RunInv, run # NoRun, run.todo # <<>>
    PROVE  /\ DOMAIN Onwards = Fields
           /\ Onwards.todo = Tail(run.todo) /\ FidSteps(run.cmd, Onwards.todo)
           /\ \A x \in Fields \ {"todo"} : Onwards[x] = run[x]
<1>1. FidSteps(run.cmd, Tail(run.todo))
  BY TailSteps DEF RunInv
<1> QED BY <1>1 DEF RunInv, Onwards, Fields

\* A command that fails has nothing left to do, and what it is to clunk is unchanged.
LEMMA FailedFacts ==
    ASSUME RunInv, run # NoRun
    PROVE  /\ DOMAIN Failed = Fields /\ Failed.todo = <<>> /\ FidSteps(run.cmd, Failed.todo)
           /\ \A x \in Fields \ {"todo", "ok", "at"} : Failed[x] = run[x]
<1>1. FidSteps(run.cmd, <<>>)
  BY DEF FidSteps
<1> QED BY <1>1 DEF RunInv, Failed, Fields

\* Where a command passes its fid on.
LEMMA HeadSteps ==
    ASSUME NEW cmd, NEW t, FidSteps(cmd, t), t # <<>>
    PROVE  /\ Head(t) \in Passing => cmd \in Unguarded /\ Tail(t) = <<>>
           /\ Head(t) = "hold" => cmd = "hold"
           /\ Head(t) = "unhold" <=> cmd = "unhold"
           /\ cmd = "unhold" => Tail(t) = <<>>
           /\ cmd \in Unguarded /\ Head(t) \notin Passing =>
                Head(t) = "walk" /\ Tail(t) # <<>> /\ Head(Tail(t)) \in Passing
           /\ cmd \notin Unguarded /\ Tail(t) # <<>> => Head(Tail(t)) \notin Passing
<1>1. /\ t \in Seq(Steps) /\ Len(t) \in Nat /\ Len(t) >= 1 /\ Head(t) = t[1]
      /\ Tail(t) \in Seq(Steps) /\ Len(Tail(t)) = Len(t) - 1
  BY DEF FidSteps
<1>2. /\ Tail(t) = <<>> <=> Len(t) = 1
      /\ Tail(t) # <<>> => 2 \in 1..Len(t) /\ Head(Tail(t)) = t[2]
  <2>1. Tail(t) = <<>> <=> Len(Tail(t)) = 0
    BY <1>1, EmptySeq
  <2>2. ASSUME Tail(t) # <<>> PROVE 2 \in 1..Len(t) /\ Head(Tail(t)) = t[2]
    <3>1. 1 \in 1..Len(Tail(t))
      BY <1>1, <2>1, <2>2
    <3>2. Tail(t)[1] = t[2]
      BY <3>1, <1>1, HeadTailProperties
    <3> QED BY <1>1, <2>1, <2>2, <3>2
  <2> QED BY <1>1, <2>1, <2>2
<1>3. 1 \in 1..Len(t)
  BY <1>1
<1>4. /\ cmd = "unhold" => Len(t) <= 1
      /\ cmd \in Unguarded => Len(t) <= 2 /\ (Len(t) = 2 => t[1] = "walk")
      /\ t[1] \in Passing <=> cmd \in Unguarded /\ 1 = Len(t)
      /\ t[1] = "hold" => cmd = "hold"
      /\ t[1] = "unhold" <=> cmd = "unhold"
      /\ 2 \in 1..Len(t) => (t[2] \in Passing <=> cmd \in Unguarded /\ 2 = Len(t))
  BY <1>3 DEF FidSteps
<1> QED BY <1>1, <1>2, <1>4

\* At first the fid of the root is the only one, and the program keeps it.
LEMMA FidInit == Init => FidInv
<1> SUFFICES ASSUME Init PROVE FidInv
  OBVIOUS
<1>1. 0 \in Fids /\ None \notin Fids
  BY SimpleAssumption DEF Fids
<1> QED BY <1>1 DEF Init, FidInv, RunInv, PoolInv, Kept, Own, Clunks, At

\* A command keeps to its steps.
LEMMA RunStep ==
    ASSUME FidInv, [Next]_vars
    PROVE  RunInv'
<1> USE RunRecord DEF FidInv
<1>1. CASE Call
  <2>1. PICK cmd \in DOMAIN Commands, a \in Args :
            /\ DOMAIN run' = Fields
            /\ run'.cmd = cmd /\ run'.f = From(cmd, a) /\ run'.clunks = {}
            /\ run'.todo = IF cmd = "stat" /\ a = NoPath THEN <<"stat">> ELSE Commands[cmd]
    BY <1>1 DEF Call, Fields
  <2>2. From(cmd, a) \in Fids
    BY DEF From, PoolInv
  <2>3. FidSteps("stat", <<"stat">>)
    <3>1. <<"stat">> \in Seq(Steps \ (Passing \union {"unhold"}))
      BY DEF Steps, Passing
    <3> QED BY <3>1, PlainSteps DEF Unguarded
  <2> QED BY <2>1, <2>2, <2>3, CommandSteps DEF RunInv
<1>2. CASE WalkStart \/ WalkName \/ Stat \/ Open \/ Decode \/ Rename \/ RemoveFile \/ Chdir \/ Hold
           \/ Unhold
  <2>1. run # NoRun /\ run.todo # <<>>
    BY <1>2
       DEF WalkStart, WalkName, Stat, Open, Decode, Rename, RemoveFile, Chdir, Hold, Unhold, Doing
  <2>2. \/ UNCHANGED run \/ run' = Onwards \/ run' = Failed
        \/ run' = [run EXCEPT !.at = fids[run.f].loc, !.names = run.walk]
        \/ \E l : run' = [run EXCEPT !.at = l, !.names = Tail(@)]
    BY <1>2 DEF WalkStart, WalkName, Stat, Open, Decode, Rename, RemoveFile, Chdir, Hold, Unhold
  <2> QED BY <2>1, <2>2, OnwardsFacts, FailedFacts DEF RunInv, Fields
<1>3. CASE Walk
  <2>1. PICK n \in Fids :
            run' = [Onwards EXCEPT !.f = n, !.clunks = Deferred(n), !.at = <<>>]
    BY <1>3 DEF Walk
  <2>2. run # NoRun /\ run.todo # <<>> /\ Head(run.todo) = "walk"
    BY <1>3 DEF Walk, Doing
  <2>3. /\ DOMAIN run' = Fields /\ run'.cmd = run.cmd /\ run'.todo = Onwards.todo /\ run'.f = n
        /\ run'.clunks = Deferred(n)
    BY <2>1, <2>2, OnwardsFacts DEF Fields
  <2>4. run.cmd # "unhold"
    BY <2>2, HeadSteps DEF RunInv
  <2> QED BY <2>2, <2>3, <2>4, OnwardsFacts DEF RunInv, Deferred
<1>4. CASE Create
  <2>1. run # NoRun /\ run.todo # <<>> /\ Head(run.todo) = "create"
    BY <1>4 DEF Create, Doing
  <2>2. CASE run' = Onwards \/ run' = Failed
    BY <2>1, <2>2, OnwardsFacts, FailedFacts DEF RunInv, Fields
  <2>3. CASE run.cmd = "put" /\
            run' = [run EXCEPT !.todo = <<"walk", "open", "writeat">>, !.walk = <<run.name>>]
    <3>1. <<"walk", "open", "writeat">> \in Seq(Steps \ (Passing \union {"unhold"}))
      BY DEF Steps, Passing
    <3> QED BY <2>1, <2>3, <3>1, PlainSteps DEF RunInv, Fields, Unguarded
  <2> QED BY <1>4, <2>2, <2>3 DEF Create
<1>5. CASE ReadAll \/ WriteAt
  <2>1. run # NoRun /\ run.todo # <<>>
    BY <1>5 DEF ReadAll, WriteAt, Doing
  <2>2. \/ UNCHANGED run \/ run' = Onwards
        \/ \E b, o : run' = [run EXCEPT !.got = @ \o b, !.o = o]
        \/ \E q, o : run' = [run EXCEPT !.p = q, !.o = o]
    BY <1>5 DEF ReadAll, WriteAt
  <2> QED BY <2>1, <2>2, OnwardsFacts DEF RunInv, Fields
<1>6. CASE Return
  BY <1>6 DEF Return, RunInv, Fields
<1>7. CASE Other \/ UNCHANGED vars
  BY <1>7 DEF Other, vars, RunInv
<1> QED BY <1>1, <1>2, <1>3, <1>4, <1>5, <1>6, <1>7 DEF Next

\* A step that leaves the fids to whom they belong.
LEMMA SameFids ==
    ASSUME FidInv, run # NoRun, run.todo # <<>>, Head(run.todo) \notin Passing,
           DOMAIN fids' = DOMAIN fids, UNCHANGED <<pool, root, cwd, held, crashed, lost>>,
           run' # NoRun, run'.cmd = run.cmd, run'.clunks = run.clunks,
           run'.todo # <<>> => Head(run'.todo) \notin Passing
    PROVE  PoolInv'
BY DEF FidInv, PoolInv, Kept, Own, Clunks, At

\* A command that goes on, fails or stays.
LEMMA SameCommand ==
    ASSUME FidInv, run # NoRun, run.todo # <<>>,
           \/ UNCHANGED run \/ run' = Onwards \/ run' = Failed
           \/ \E l, ns : run' = [run EXCEPT !.at = l, !.names = ns]
           \/ \E b, o : run' = [run EXCEPT !.got = b, !.o = o]
           \/ \E q, o : run' = [run EXCEPT !.p = q, !.o = o]
    PROVE  /\ run' # NoRun /\ run'.cmd = run.cmd /\ run'.clunks = run.clunks /\ run'.f = run.f
           /\ run'.todo \in {<<>>, run.todo, Tail(run.todo)}
BY OnwardsFacts, FailedFacts, RunRecord DEF FidInv, RunInv, Fields

\* A step leaves every fid with one owner: the program, or the command in progress.
LEMMA PoolStep ==
    ASSUME FidInv, [Next]_vars
    PROVE  PoolInv'
<1> USE RunRecord DEF FidInv
<1>0. None \notin Fids
  BY SimpleAssumption
<1>1. CASE Call
  <2>1. PICK cmd \in DOMAIN Commands, a \in Args :
            /\ ~Refused(cmd, a)
            /\ DOMAIN run' = Fields
            /\ run'.cmd = cmd /\ run'.clunks = {}
            /\ run'.todo = IF cmd = "stat" /\ a = NoPath THEN <<"stat">> ELSE Commands[cmd]
    BY <1>1 DEF Call, Fields
  <2>2. run'.todo # <<>> /\ Head(run'.todo) \notin Passing
    BY <2>1, CommandSteps DEF Passing
  <2>3. ~At(Passing)' /\ run' # NoRun /\ run = NoRun
    BY <1>1, <2>1, <2>2 DEF At, Call
  <2> QED BY <1>1, <2>1, <2>3 DEF Call, PoolInv, Kept, Own, Clunks, At, Refused
<1>2. CASE WalkStart \/ WalkName
  <2>1. run # NoRun /\ run.todo # <<>> /\ Head(run.todo) \notin Passing
    BY <1>2 DEF WalkStart, WalkName, Doing, Passing
  <2>2. DOMAIN fids' = DOMAIN fids /\ UNCHANGED <<pool, root, cwd, held, crashed, lost>>
    BY <1>2 DEF WalkStart, WalkName
  <2>3. run' = Failed \/ \E l, ns : run' = [run EXCEPT !.at = l, !.names = ns]
    BY <1>2 DEF WalkStart, WalkName
  <2>4. /\ run' # NoRun /\ run'.cmd = run.cmd /\ run'.clunks = run.clunks
        /\ run'.todo \in {<<>>, run.todo}
    BY <2>1, <2>3, FailedFacts DEF RunInv, Fields
  <2> QED BY <2>1, <2>2, <2>4, SameFids
<1>3. CASE Walk
  <2>1. PICK n \in Fids \ pool :
            /\ fids' = Bound(n, run.at) /\ pool' = pool \union {n}
            /\ run' = [Onwards EXCEPT !.f = n, !.clunks = Deferred(n), !.at = <<>>]
    BY <1>3 DEF Walk
  <2>2. /\ run # NoRun /\ run.todo # <<>> /\ Head(run.todo) = "walk" /\ ~crashed
        /\ UNCHANGED <<root, cwd, held, crashed, lost>>
    BY <1>3 DEF Walk, Doing
  <2>3. /\ DOMAIN run' = Fields /\ run'.cmd = run.cmd /\ run'.todo = Tail(run.todo)
        /\ run'.f = n /\ run'.clunks = Deferred(n)
    BY <2>1, <2>2, OnwardsFacts DEF Fields
  <2>4. DOMAIN fids' = DOMAIN fids \union {n}
    BY <2>1 DEF Bound
  <2>5. ~At(Passing)
    BY <2>2 DEF At, Passing
  <2>6. CASE run.cmd \in Unguarded
    <3>1. At(Passing)' /\ run.clunks = {} /\ run'.clunks = {}
      BY <2>2, <2>3, <2>6, HeadSteps DEF At, RunInv, Deferred, Passing
    <3>2. Own' = {n} /\ Own = {} /\ Clunks' = {} /\ Clunks = {} /\ Kept' = Kept
      BY <2>2, <2>3, <2>5, <3>1 DEF Own, Clunks, Kept
    <3>3. run'.todo # <<>> => run.cmd # "hold" \/ held = None
      BY <2>2 DEF PoolInv
    <3> QED BY <2>1, <2>2, <2>3, <2>4, <3>2, <3>3 DEF PoolInv
  <2>7. CASE run.cmd \notin Unguarded
    <3>1. ~At(Passing)' /\ run'.clunks = run.clunks \union {n}
      BY <2>2, <2>3, <2>7, HeadSteps DEF At, RunInv, Deferred
    <3>2. Own' = {} /\ Own = {} /\ Clunks' = Clunks \union {n} /\ Kept' = Kept
      BY <2>2, <2>3, <2>5, <3>1 DEF Own, Clunks, Kept
    <3> QED BY <2>1, <2>2, <2>3, <2>4, <3>2 DEF PoolInv
  <2> QED BY <2>6, <2>7
<1>4. CASE Stat \/ Open \/ Rename \/ ReadAll
  <2>1. /\ run # NoRun /\ run.todo # <<>> /\ Head(run.todo) \notin Passing
        /\ Head(run.todo) # "walk"
    BY <1>4 DEF Stat, Open, Rename, ReadAll, Doing, Passing
  <2>2. DOMAIN fids' = DOMAIN fids /\ UNCHANGED <<pool, root, cwd, held, crashed, lost>>
    BY <1>4 DEF Stat, Open, Rename, ReadAll
  <2>3. /\ run' # NoRun /\ run'.cmd = run.cmd /\ run'.clunks = run.clunks
        /\ run'.todo \in {<<>>, run.todo, Tail(run.todo)}
    BY <1>4, <2>1, SameCommand DEF Stat, Open, Rename, ReadAll
  <2> QED BY <2>1, <2>2, <2>3, SameFids, HeadSteps DEF RunInv
<1>5. CASE Create
  <2>1. /\ run # NoRun /\ run.todo # <<>> /\ Head(run.todo) \notin Passing
        /\ Head(run.todo) # "walk"
    BY <1>5 DEF Create, Doing, Passing
  <2>2. DOMAIN fids' = DOMAIN fids /\ UNCHANGED <<pool, root, cwd, held, crashed, lost>>
    BY <1>5 DEF Create
  <2>3. CASE run' = Onwards \/ run' = Failed
    <3>1. /\ run' # NoRun /\ run'.cmd = run.cmd /\ run'.clunks = run.clunks
          /\ run'.todo \in {<<>>, run.todo, Tail(run.todo)}
      BY <2>1, <2>3, SameCommand
    <3> QED BY <2>1, <2>2, <3>1, SameFids, HeadSteps DEF RunInv
  <2>4. CASE run' = [run EXCEPT !.todo = <<"walk", "open", "writeat">>, !.walk = <<run.name>>]
    <3>1. Head(<<"walk", "open", "writeat">>) \notin Passing
      BY DEF Passing
    <3>2. /\ run' # NoRun /\ run'.cmd = run.cmd /\ run'.clunks = run.clunks
          /\ run'.todo = <<"walk", "open", "writeat">>
      BY <2>1, <2>4 DEF RunInv, Fields
    <3> QED BY <2>1, <2>2, <3>1, <3>2, SameFids
  <2> QED BY <1>5, <2>3, <2>4 DEF Create
<1>6. CASE Decode \/ WriteAt
  <2>1. /\ run # NoRun /\ run.todo # <<>> /\ Head(run.todo) \notin Passing
        /\ Head(run.todo) # "walk" /\ UNCHANGED <<root, cwd, held, lost>>
    BY <1>6 DEF Decode, WriteAt, Doing, Passing
  <2>2. CASE Crash
    BY <2>1, <2>2 DEF Crash, PoolInv
  <2>3. CASE ~Crash
    <3>1. UNCHANGED <<fids, pool, crashed>>
      BY <1>6, <2>3 DEF Decode, WriteAt
    <3>2. /\ run' # NoRun /\ run'.cmd = run.cmd /\ run'.clunks = run.clunks
          /\ run'.todo \in {<<>>, run.todo, Tail(run.todo)}
      BY <1>6, <2>1, SameCommand DEF Decode, WriteAt
    <3> QED BY <2>1, <3>1, <3>2, SameFids, HeadSteps DEF RunInv
  <2> QED BY <2>2, <2>3
<1>7. CASE RemoveFile
  <2>1. /\ At(Passing) /\ ~crashed /\ run # NoRun /\ run.todo # <<>>
        /\ UNCHANGED <<root, cwd, held, lost, crashed>>
    BY <1>7 DEF RemoveFile, Doing, At, Passing
  <2>2. fids' = Unbound(run.f) /\ pool' = pool \ {run.f} /\ run' = Onwards
    BY <1>7 DEF RemoveFile
  <2>3. run'.todo = <<>> /\ run'.clunks = {} /\ run.clunks = {} /\ run' # NoRun
    BY <2>1, <2>2, OnwardsFacts, HeadSteps DEF RunInv, At, Fields
  <2>4. DOMAIN fids' = DOMAIN fids \ {run.f}
    BY <2>2 DEF Unbound
  <2> QED BY <2>1, <2>2, <2>3, <2>4 DEF PoolInv, Kept, Own, Clunks, At
<1>8. CASE Chdir
  <2>1. /\ At(Passing) /\ ~crashed /\ run # NoRun /\ run.todo # <<>>
        /\ UNCHANGED <<root, held>>
    BY <1>8 DEF Chdir, Doing, At, Passing
  <2>2. CASE Crash /\ UNCHANGED <<cwd, run, lost>>
    BY <2>1, <2>2 DEF Crash, PoolInv
  <2>3. CASE run' = Failed /\ lost' = lost \union {run.f} /\ UNCHANGED <<cwd, fids, pool, crashed>>
    <3>1. run'.todo = <<>> /\ run'.clunks = {} /\ run.clunks = {} /\ run' # NoRun
      BY <2>1, <2>3, FailedFacts, HeadSteps DEF RunInv, At, Fields
    <3>2. /\ Own = {run.f} /\ Own' = {} /\ Clunks = {} /\ Clunks' = {}
          /\ Kept' = Kept \union {run.f} /\ run.f \in Fids
      BY <2>1, <2>3, <3>1 DEF Own, Clunks, Kept, At, RunInv
    <3>3. run.f # cwd /\ run.f # held
      BY <2>1, <3>2, <1>0 DEF PoolInv, Kept
    <3> QED BY <2>1, <2>3, <3>1, <3>2, <3>3 DEF PoolInv
  <2>4. CASE /\ fids' = Unbound(cwd) /\ cwd' = run.f /\ run' = Onwards
             /\ pool' = IF cwd \in DOMAIN fids THEN pool \ {cwd} ELSE pool
             /\ UNCHANGED <<lost, crashed>>
    <3>1. run'.todo = <<>> /\ run'.clunks = {} /\ run.clunks = {} /\ run' # NoRun
      BY <2>1, <2>4, OnwardsFacts, HeadSteps DEF RunInv, At, Fields
    <3>2. DOMAIN fids' = DOMAIN fids \ {cwd}
      BY <2>4 DEF Unbound
    <3>3. run.f \in Fids
      BY <2>1 DEF RunInv
    <3>4. pool' = pool \ {cwd} /\ pool = {cwd, run.f} \union lost \union ({held} \ {None})
      BY <2>1, <2>4, <3>1, <1>0 DEF PoolInv, Kept, Own, Clunks
    <3> QED BY <2>1, <2>4, <3>1, <3>2, <3>3, <3>4, <1>0 DEF PoolInv, Kept, Own, Clunks, At
  <2> QED BY <1>8, <2>2, <2>3, <2>4 DEF Chdir
<1>9. CASE Hold
  <2>1. /\ At(Passing) /\ ~crashed /\ run # NoRun /\ run.todo # <<>> /\ run.cmd = "hold"
        /\ UNCHANGED <<root, cwd, fids, pool, lost, crashed>> /\ held' = run.f
    BY <1>9, HeadSteps DEF Hold, Doing, At, Passing, RunInv
  <2>2. run'.todo = <<>> /\ run'.clunks = {} /\ run.clunks = {} /\ run' # NoRun
    BY <2>1, <1>9, OnwardsFacts, HeadSteps DEF RunInv, At, Fields, Hold
  <2>3. held = None /\ run.f \in Fids
    BY <2>1 DEF PoolInv, RunInv
  <2> QED BY <2>1, <2>2, <2>3, <1>0 DEF PoolInv, Kept, Own, Clunks, At
<1>10. CASE Unhold
  <2>1. /\ ~At(Passing) /\ ~crashed /\ run # NoRun /\ run.todo # <<>> /\ run.cmd = "unhold"
        /\ UNCHANGED <<root, cwd, lost, crashed>> /\ held' = None
        /\ fids' = Unbound(held) /\ pool' = pool \ {held} /\ run' = Onwards
    BY <1>10, HeadSteps DEF Unhold, Doing, At, Passing, RunInv
  <2>2. run'.todo = <<>> /\ run'.clunks = {} /\ run.clunks = {} /\ run' # NoRun
    BY <2>1, OnwardsFacts, HeadSteps DEF RunInv, Fields
  <2>3. DOMAIN fids' = DOMAIN fids \ {held} /\ held # None
    BY <2>1 DEF Unbound, PoolInv
  <2> QED BY <2>1, <2>2, <2>3, <1>0 DEF PoolInv, Kept, Own, Clunks, At
<1>11. CASE Return
  <2>1. ~crashed /\ run # NoRun /\ run.todo = <<>> /\ UNCHANGED <<root, cwd, held, crashed, lost>>
    BY <1>11 DEF Return
  <2>2. CASE run.clunks = {} /\ run' = NoRun /\ UNCHANGED <<fids, pool>>
    BY <2>1, <2>2 DEF PoolInv, Kept, Own, Clunks, At
  <2>3. ASSUME NEW i \in run.clunks, fids' = Unbound(i), pool' = pool \ {i},
               run' = [run EXCEPT !.clunks = @ \ {i}]
        PROVE  PoolInv'
    <3>1. /\ DOMAIN fids' = DOMAIN fids \ {i} /\ run' # NoRun
          /\ run'.todo = <<>> /\ run'.clunks = run.clunks \ {i}
      BY <2>1, <2>3 DEF Unbound, RunInv, Fields
    <3> QED BY <2>1, <2>3, <3>1 DEF PoolInv, Kept, Own, Clunks, At
  <2> QED BY <1>11, <2>2, <2>3 DEF Return
<1>12. CASE Other \/ UNCHANGED vars
  BY <1>12 DEF Other, vars, PoolInv, Kept, Own, Clunks, At
<1> QED BY <1>1, <1>2, <1>3, <1>4, <1>5, <1>6, <1>7, <1>8, <1>9, <1>10, <1>11, <1>12 DEF Next

\* FidsReturned: between two commands the fids of Client.fids are those the server has and those
\* that 9pc keeps (the root, the directory of cd, the fid of hold, and what a failed cd lost): the
\* deferred clunks give back every fid that a command took, whether it succeeded or not.
THEOREM FidsAreReturned == Spec => []FidsReturned
<1>1. FidInv /\ [Next]_vars => FidInv'
  BY RunStep, PoolStep DEF FidInv
<1>2. FidInv => FidsReturned
  BY DEF FidInv, PoolInv, FidsReturned, Kept, Own, Clunks, At
<1> QED BY <1>1, <1>2, FidInit, PTL DEF Spec

-----------------------------------------------------------------------------
(***************************************************************************)
(* The tree.                                                               *)
(***************************************************************************)
\* Every command reads, or writes, in order.
LEMMA CommandData ==
    ASSUME NEW cmd \in DOMAIN Commands
    PROVE  DataSteps(cmd, Commands[cmd])
<1>0. DOMAIN Commands = {"Stat", "Read", "Write", "List", "Create", "Rename", "Remove", "stat",
        "ls", "cd", "cat", "get", "put", "stuff", "mkdir", "rm", "hold", "unhold"}
  BY DEF Commands
<1>1. CASE cmd \in {"Read", "cat"}
  <2>1. Commands[cmd] = <<"walk", "open", "readall">>
    BY <1>1 DEF Commands
  <2>2. /\ Commands[cmd] \in Seq(Steps) /\ Len(Commands[cmd]) = 3
        /\ Commands[cmd][1] = "walk" /\ Commands[cmd][2] = "open" /\ Commands[cmd][3] = "readall"
    BY <2>1 DEF Steps
  <2> QED BY <1>1, <2>2 DEF DataSteps, DataStep, Reading, Writing
<1>2. CASE cmd \in {"Write", "stuff"}
  <2>1. Commands[cmd] = <<"walk", "open", "writeat">>
    BY <1>2 DEF Commands
  <2>2. /\ Commands[cmd] \in Seq(Steps) /\ Len(Commands[cmd]) = 3
        /\ Commands[cmd][1] = "walk" /\ Commands[cmd][2] = "open" /\ Commands[cmd][3] = "writeat"
    BY <2>1 DEF Steps
  <2> QED BY <1>2, <2>2 DEF DataSteps, DataStep, Reading, Writing
<1>3. CASE cmd = "put"
  <2>1. Commands[cmd] = <<"walk", "create", "writeat">>
    BY <1>3 DEF Commands
  <2>2. /\ Commands[cmd] \in Seq(Steps) /\ Len(Commands[cmd]) = 3
        /\ Commands[cmd][1] = "walk" /\ Commands[cmd][2] = "create" /\ Commands[cmd][3] = "writeat"
    BY <2>1 DEF Steps
  <2> QED BY <1>3, <2>2 DEF DataSteps, DataStep, Reading, Writing
<1>4. CASE cmd \in {"List", "ls"}
  <2>1. Commands[cmd] = <<"walk", "open", "readall", "decode">>
    BY <1>4 DEF Commands
  <2>2. /\ Commands[cmd] \in Seq(Steps) /\ Len(Commands[cmd]) = 4
        /\ Commands[cmd][1] = "walk" /\ Commands[cmd][2] = "open"
        /\ Commands[cmd][3] = "readall" /\ Commands[cmd][4] = "decode"
    BY <2>1 DEF Steps
  <2> QED BY <1>4, <2>2 DEF DataSteps, DataStep, Reading, Writing
<1>5. CASE cmd = "get"
  <2>1. Commands[cmd] = <<"walk", "isfile", "open", "readall">>
    BY <1>5 DEF Commands
  <2>2. /\ Commands[cmd] \in Seq(Steps) /\ Len(Commands[cmd]) = 4
        /\ Commands[cmd][1] = "walk" /\ Commands[cmd][2] = "isfile"
        /\ Commands[cmd][3] = "open" /\ Commands[cmd][4] = "readall"
    BY <2>1 DEF Steps
  <2> QED BY <1>5, <2>2 DEF DataSteps, DataStep, Reading, Writing
<1>6. CASE cmd \in {"Stat", "stat"}
  <2>1. Commands[cmd] = <<"walk", "stat">>
    BY <1>6 DEF Commands
  <2>2. /\ Commands[cmd] \in Seq(Steps) /\ Len(Commands[cmd]) = 2
        /\ Commands[cmd][1] = "walk" /\ Commands[cmd][2] = "stat"
    BY <2>1 DEF Steps
  <2> QED BY <1>6, <2>2 DEF DataSteps, DataStep, Reading, Writing
<1>7. CASE cmd \in {"Create", "mkdir"}
  <2>1. Commands[cmd] = <<"walk", "create">>
    BY <1>7 DEF Commands
  <2>2. /\ Commands[cmd] \in Seq(Steps) /\ Len(Commands[cmd]) = 2
        /\ Commands[cmd][1] = "walk" /\ Commands[cmd][2] = "create"
    BY <2>1 DEF Steps
  <2> QED BY <1>7, <2>2 DEF DataSteps, DataStep, Reading, Writing
<1>8. CASE cmd = "Rename"
  <2>1. Commands[cmd] = <<"walk", "wstat">>
    BY <1>8 DEF Commands
  <2>2. /\ Commands[cmd] \in Seq(Steps) /\ Len(Commands[cmd]) = 2
        /\ Commands[cmd][1] = "walk" /\ Commands[cmd][2] = "wstat"
    BY <2>1 DEF Steps
  <2> QED BY <1>8, <2>2 DEF DataSteps, DataStep, Reading, Writing
<1>9. CASE cmd \in {"Remove", "rm"}
  <2>1. Commands[cmd] = <<"walk", "remove">>
    BY <1>9 DEF Commands
  <2>2. /\ Commands[cmd] \in Seq(Steps) /\ Len(Commands[cmd]) = 2
        /\ Commands[cmd][1] = "walk" /\ Commands[cmd][2] = "remove"
    BY <2>1 DEF Steps
  <2> QED BY <1>9, <2>2 DEF DataSteps, DataStep, Reading, Writing
<1>10. CASE cmd = "cd"
  <2>1. Commands[cmd] = <<"walk", "chdir">>
    BY <1>10 DEF Commands
  <2>2. /\ Commands[cmd] \in Seq(Steps) /\ Len(Commands[cmd]) = 2
        /\ Commands[cmd][1] = "walk" /\ Commands[cmd][2] = "chdir"
    BY <2>1 DEF Steps
  <2> QED BY <1>10, <2>2 DEF DataSteps, DataStep, Reading, Writing
<1>11. CASE cmd = "hold"
  <2>1. Commands[cmd] = <<"walk", "hold">>
    BY <1>11 DEF Commands
  <2>2. /\ Commands[cmd] \in Seq(Steps) /\ Len(Commands[cmd]) = 2
        /\ Commands[cmd][1] = "walk" /\ Commands[cmd][2] = "hold"
    BY <2>1 DEF Steps
  <2> QED BY <1>11, <2>2 DEF DataSteps, DataStep, Reading, Writing
<1>12. CASE cmd = "unhold"
  <2>1. Commands[cmd] = <<"unhold">>
    BY <1>12 DEF Commands
  <2>2. /\ Commands[cmd] \in Seq(Steps) /\ Len(Commands[cmd]) = 1
        /\ Commands[cmd][1] = "unhold"
    BY <2>1 DEF Steps
  <2> QED BY <1>12, <2>2 DEF DataSteps, DataStep, Reading, Writing
<1> QED BY <1>0, <1>1, <1>2, <1>3, <1>4, <1>5, <1>6, <1>7, <1>8, <1>9, <1>10, <1>11, <1>12

\* What is left after a step is in that order too.
LEMMA TailData ==
    ASSUME NEW cmd, NEW t, DataSteps(cmd, t), t # <<>>
    PROVE  DataSteps(cmd, Tail(t))
<1>1. t \in Seq(Steps) /\ Len(t) \in Nat /\ Len(t) >= 1
  BY DEF DataSteps
<1>2. /\ Tail(t) \in Seq(Steps) /\ Len(Tail(t)) = Len(t) - 1
      /\ \A i \in 1..Len(Tail(t)) : i + 1 \in 1..Len(t) /\ Tail(t)[i] = t[i + 1]
  BY <1>1
<1>3. \A i \in 1..Len(Tail(t)) :
        /\ i = Len(Tail(t)) <=> i + 1 = Len(t)
        /\ i # Len(Tail(t)) => Tail(t)[i + 1] = t[(i + 1) + 1]
  <2> SUFFICES ASSUME NEW i \in 1..Len(Tail(t))
               PROVE  /\ i = Len(Tail(t)) <=> i + 1 = Len(t)
                      /\ i # Len(Tail(t)) => Tail(t)[i + 1] = t[(i + 1) + 1]
    OBVIOUS
  <2>1. i \in Nat /\ Len(Tail(t)) \in Nat /\ i <= Len(Tail(t)) /\ i >= 1
    BY <1>1, <1>2
  <2>2. i # Len(Tail(t)) => i + 1 \in 1..Len(Tail(t))
    BY <2>1
  <2>3. i # Len(Tail(t)) => Tail(t)[i + 1] = t[(i + 1) + 1]
    BY <1>2, <2>2
  <2>4. i = Len(Tail(t)) <=> i + 1 = Len(t)
    BY <1>1, <1>2, <2>1
  <2> QED BY <2>3, <2>4
<1>4. ASSUME NEW i \in 1..Len(Tail(t)) PROVE DataStep(cmd, Tail(t), i)
  <2>1. DataStep(cmd, t, i + 1)
    BY <1>2 DEF DataSteps
  <2> QED BY <1>2, <1>3, <2>1 DEF DataStep
<1> QED BY <1>2, <1>4 DEF DataSteps

\* What comes next.
LEMMA HeadData ==
    ASSUME NEW cmd, NEW t, DataSteps(cmd, t), t # <<>>
    PROVE  /\ Head(t) = "stat" => Tail(t) = <<>>
           /\ Head(t) = "wstat" => cmd = "Rename"
           /\ cmd \in Reading =>
                /\ Head(t) \in {"walk", "isfile", "open", "readall", "decode"}
                /\ Head(t) = "decode" => Tail(t) = <<>>
                /\ Head(t) = "readall" => Tail(t) = <<>> \/ Head(Tail(t)) = "decode"
                /\ Head(t) = "open" => Tail(t) # <<>> /\ Head(Tail(t)) = "readall"
                /\ Head(t) \in {"walk", "isfile"} =>
                    Tail(t) # <<>> /\ Head(Tail(t)) \in {"isfile", "open"}
           /\ cmd \in Writing =>
                /\ Head(t) \in {"walk", "create", "open", "writeat"}
                /\ Head(t) = "writeat" => Tail(t) = <<>>
                /\ Head(t) \in {"create", "open"} => Tail(t) # <<>> /\ Head(Tail(t)) = "writeat"
                /\ Head(t) = "walk" => Tail(t) # <<>> /\ Head(Tail(t)) \in {"create", "open"}
<1>1. /\ t \in Seq(Steps) /\ Len(t) \in Nat /\ Len(t) >= 1 /\ Head(t) = t[1]
      /\ Tail(t) \in Seq(Steps) /\ Len(Tail(t)) = Len(t) - 1
  BY DEF DataSteps
<1>2. /\ Tail(t) = <<>> <=> 1 = Len(t)
      /\ Tail(t) # <<>> => Head(Tail(t)) = t[1 + 1]
  <2>1. Tail(t) = <<>> <=> Len(Tail(t)) = 0
    BY <1>1, EmptySeq
  <2>2. ASSUME Tail(t) # <<>> PROVE Head(Tail(t)) = t[1 + 1]
    <3>1. 1 \in 1..Len(Tail(t))
      BY <1>1, <2>1, <2>2
    <3>2. Tail(t)[1] = t[1 + 1]
      BY <3>1, <1>1, HeadTailProperties
    <3> QED BY <1>1, <2>2, <3>2
  <2> QED BY <1>1, <2>1, <2>2
<1>3. 1 \in 1..Len(t)
  BY <1>1
<1>4. DataStep(cmd, t, 1)
  BY <1>3 DEF DataSteps
<1> QED BY <1>1, <1>2, <1>4 DEF DataStep

\* A file that there is stays what it is.
KindsKept == \A n \in Nodes : node[n].kind # None => node'[n].kind = node[n].kind

\* The step that comes next.
LEMMA HeadIs ==
    ASSUME NEW step, Doing(step), CommandInv
    PROVE  /\ ~crashed /\ run # NoRun /\ run.todo # <<>> /\ Head(run.todo) = step
           /\ DataSteps(run.cmd, run.todo)
BY DEF Doing, CommandInv

\* The file that a command has come to.
LEMMA HereIs ==
    ASSUME FidInv, TreeInv, PathInv, CommandInv, ~crashed, run # NoRun, run.todo # <<>>,
           Head(run.todo) \notin {"walk", "unhold", "stat"}
    PROVE  /\ run.f \in DOMAIN fids
           /\ Here \in Nodes /\ node[Here].kind # None /\ Above \in Nodes
           /\ Len(fids[run.f].loc) > 1 => Here # Top
<1>1. run.f \in DOMAIN fids
  BY DEF CommandInv, FidInv, PoolInv, Clunks
<1> DEFINE l == fids[run.f].loc
<1>2. IsPath(node, l)
  BY <1>1 DEF PathInv
<1>3. l \in Seq(Nodes) /\ Len(l) \in Nat /\ Len(l) >= 1
  BY <1>2, EmptySeq, LenProperties DEF IsPath
<1>4. Len(l) \in 1..Len(l) /\ 1 \in 1..Len(l) /\ (Len(l) > 1 => Len(l) - 1 \in 1..Len(l))
  BY <1>3
<1>5. Here = l[Len(l)]
  BY DEF Here, Last
<1>6. Here \in Nodes /\ node[Here].kind # None /\ (Len(l) > 1 => Here # Top)
  BY <1>2, <1>4, <1>5, ElementOfSeq DEF IsPath
<1>7. Above \in Nodes
  BY <1>3, <1>4, ElementOfSeq DEF Above
<1> QED BY <1>1, <1>6, <1>7

\* Data is written to a file.
LEMMA SetData ==
    ASSUME TreeInv, NEW n \in Nodes, NEW d \in Seq(Bytes), node' = [node EXCEPT ![n].data = d]
    PROVE  TreeInv' /\ KindsKept /\ node'[n].data = d
<1>1. node \in [Nodes -> NodeSet]
  BY DEF TreeInv
<1>2. \A m \in Nodes : node'[m] = IF m = n THEN [node[n] EXCEPT !.data = d] ELSE node[m]
  BY <1>1
<1>3. [node[n] EXCEPT !.data = d] \in NodeSet
  BY <1>1 DEF NodeSet
<1>4. node' \in [Nodes -> NodeSet]
  BY <1>1, <1>3
<1>5. \A m \in Nodes : /\ node'[m].kind = node[m].kind /\ node'[m].name = node[m].name
                       /\ node'[m].entries = node[m].entries
  BY <1>1, <1>2 DEF NodeSet
<1>6. \A m \in Nodes, x \in Names : node[m].entries[x] \in Nodes \union {None}
  BY <1>1 DEF NodeSet
<1>7. \A m \in Nodes, x \in Names :
        node'[m].entries[x] # None => node'[node'[m].entries[x]].kind # None
  BY <1>5, <1>6 DEF TreeInv
<1>8. \A m \in Nodes \ {Top} : node'[m].kind # None => node'[m].name \in Names
  BY <1>5 DEF TreeInv
<1>9. node'[n].data = d
  BY <1>1, <1>2 DEF NodeSet
<1> QED BY <1>4, <1>5, <1>7, <1>8, <1>9 DEF TreeInv, KindsKept

\* An entry is removed.
LEMMA DropEntry ==
    ASSUME TreeInv, NEW d \in Nodes, NEW nm \in Names,
           node' = [node EXCEPT ![d].entries[nm] = None]
    PROVE  TreeInv' /\ KindsKept
<1>1. node \in [Nodes -> NodeSet]
  BY DEF TreeInv
<1> DEFINE e == [node[d].entries EXCEPT ![nm] = None]
<1>2. node[d].entries \in [Names -> (Nodes \ {Top}) \union {None}]
  BY <1>1 DEF NodeSet
<1>3. /\ e \in [Names -> (Nodes \ {Top}) \union {None}]
      /\ \A x \in Names : e[x] \in {None, node[d].entries[x]}
  BY <1>2
<1>4. node' = [node EXCEPT ![d] = [node[d] EXCEPT !.entries = e]]
  OBVIOUS
<1> HIDE DEF e
<1>5. \A m \in Nodes : node'[m] = IF m = d THEN [node[d] EXCEPT !.entries = e] ELSE node[m]
  BY <1>1, <1>4
<1>6. [node[d] EXCEPT !.entries = e] \in NodeSet
  BY <1>1, <1>3 DEF NodeSet
<1>7. node' \in [Nodes -> NodeSet]
  BY <1>1, <1>4, <1>6
<1>8. \A m \in Nodes : /\ node'[m].kind = node[m].kind /\ node'[m].name = node[m].name
                       /\ node'[m].entries = IF m = d THEN e ELSE node[m].entries
  BY <1>1, <1>5 DEF NodeSet
<1>9. \A m \in Nodes, x \in Names :
        /\ node'[m].entries[x] \in {None, node[m].entries[x]}
        /\ node[m].entries[x] \in Nodes \union {None}
  BY <1>1, <1>3, <1>8 DEF NodeSet
<1>10. \A m \in Nodes, x \in Names :
         node'[m].entries[x] # None => node'[node'[m].entries[x]].kind # None
  BY <1>8, <1>9 DEF TreeInv
<1>11. \A m \in Nodes \ {Top} : node'[m].kind # None => node'[m].name \in Names
  BY <1>8 DEF TreeInv
<1> QED BY <1>7, <1>8, <1>10, <1>11 DEF TreeInv, KindsKept

\* A file n of kind k is made, with the name nm in d.
Makes(d, nm, n, k) == node' = [node EXCEPT ![d].entries[nm] = n, ![n] = NewNode(nm, k)]

\* Making a file leaves a tree, with the file in it.
LEMMA MakeEntry ==
    ASSUME TreeInv, NEW d \in Nodes, node[d].kind # None, NEW nm \in Names, NEW n \in Unused,
           NEW k \in Kinds, Makes(d, nm, n, k)
    PROVE  /\ TreeInv' /\ KindsKept
           /\ n \in Nodes \ {Top} /\ node'[n].kind = k /\ node'[n].data = <<>>
<1> DEFINE new == NewNode(nm, k)
           e == [node[d].entries EXCEPT ![nm] = n]
           rec == [node[d] EXCEPT !.entries = e]
<1>0. n \in Nodes /\ n # Top /\ node[n].kind = None /\ n # d /\ k # None
  BY SimpleAssumption DEF Unused
<1>1. node \in [Nodes -> NodeSet]
  BY DEF TreeInv
<1>3. new \in NodeSet
  BY <1>0, EmptySeq DEF NodeSet, NewNode
<1>4. node[d].entries \in [Names -> (Nodes \ {Top}) \union {None}]
  BY <1>1 DEF NodeSet
<1>5. /\ e \in [Names -> (Nodes \ {Top}) \union {None}]
      /\ \A x \in Names : e[x] \in {n, node[d].entries[x]}
  BY <1>0, <1>4
<1>6. node' = [node EXCEPT ![d] = rec, ![n] = new]
  BY DEF Makes
<1>7. new.kind = k /\ new.name = nm /\ new.data = <<>> /\ \A x \in Names : new.entries[x] = None
  BY DEF NewNode
<1> HIDE DEF e, new
<1>8. rec \in NodeSet
  BY <1>1, <1>5 DEF NodeSet
<1>9. rec.kind = node[d].kind /\ rec.name = node[d].name /\ rec.entries = e
  BY <1>1 DEF NodeSet
<1> HIDE DEF rec
<1>10. node' \in [Nodes -> NodeSet]
  BY <1>1, <1>3, <1>6, <1>8
<1>11. \A m \in Nodes : node'[m] = IF m = n THEN new ELSE IF m = d THEN rec ELSE node[m]
  BY <1>0, <1>1, <1>6
<1>12. \A m \in Nodes \ {n} :
         /\ node'[m].kind = node[m].kind /\ node'[m].name = node[m].name
         /\ \A x \in Names : node'[m].entries[x] \in {n, node[m].entries[x]}
  BY <1>5, <1>9, <1>11
<1>13. node'[n] = new
  BY <1>0, <1>11
<1>14. \A m \in Nodes : node[m].kind # None => node'[m].kind = node[m].kind
  BY <1>0, <1>12
<1>15. \A m \in Nodes, x \in Names :
         node'[m].entries[x] # None => node'[node'[m].entries[x]].kind # None
  <2> SUFFICES ASSUME NEW m \in Nodes, NEW x \in Names, node'[m].entries[x] # None
               PROVE  node'[node'[m].entries[x]].kind # None
    OBVIOUS
  <2>1. node'[m].entries[x] = n \/ (node'[m].entries[x] = node[m].entries[x] /\ m # n)
    BY <1>7, <1>12, <1>13
  <2>2. CASE node'[m].entries[x] = n
    BY <2>2, <1>0, <1>7, <1>13
  <2>3. CASE node'[m].entries[x] = node[m].entries[x] /\ m # n
    <3>1. node[m].entries[x] \in Nodes \union {None}
      BY <1>1 DEF NodeSet
    <3>2. node[m].entries[x] \in Nodes /\ node[node[m].entries[x]].kind # None
      BY <2>3, <3>1 DEF TreeInv
    <3> QED BY <2>3, <3>2, <1>14
  <2> QED BY <2>1, <2>2, <2>3
<1>16. \A m \in Nodes \ {Top} : node'[m].kind # None => node'[m].name \in Names
  BY <1>7, <1>12, <1>13 DEF TreeInv
<1>17. TreeInv'
  BY <1>10, <1>15, <1>16 DEF TreeInv
<1>18. KindsKept
  BY <1>14 DEF KindsKept
<1> QED BY <1>0, <1>7, <1>13, <1>17, <1>18

\* The file that a command makes.
LEMMA MadeFile ==
    ASSUME FidInv, TreeInv, PathInv, CommandInv, Doing("create"), Creatable, NEW n \in Unused,
           node' = [node EXCEPT ![Here].entries[run.name] = n,
                                ![n] = NewNode(run.name, IF run.dir THEN "dir" ELSE "file")]
    PROVE  /\ TreeInv' /\ KindsKept
           /\ n \in Nodes \ {Top} /\ node'[n].kind \in Kinds /\ node'[n].data = <<>>
<1>1. Here \in Nodes /\ node[Here].kind # None
  BY HeadIs, HereIs
<1>2. run.name \in Names
  BY DEF Creatable
<1>3. PICK k \in Kinds : Makes(Here, run.name, n, k)
  BY DEF Makes, Kinds
<1> QED BY <1>1, <1>2, <1>3, MakeEntry

\* A file is renamed.
LEMMA MoveEntry ==
    ASSUME TreeInv, NEW d \in Nodes, NEW old \in Names, NEW new \in Names,
           node[d].entries[old] # None,
           node' = [node EXCEPT ![d].entries[new] = node[d].entries[old],
                                ![d].entries[old] = None,
                                ![node[d].entries[old]].name = new]
    PROVE  TreeInv' /\ KindsKept
<1> DEFINE n == node[d].entries[old]
           e == [[node[d].entries EXCEPT ![new] = n] EXCEPT ![old] = None]
           rec == [node[d] EXCEPT !.entries = e]
           mid == [node EXCEPT ![d] = rec]
<1>1. node \in [Nodes -> NodeSet]
  BY DEF TreeInv
<1>2. node[d].entries \in [Names -> (Nodes \ {Top}) \union {None}]
  BY <1>1 DEF NodeSet
<1>3. n \in Nodes \ {Top} /\ node[n].kind # None
  BY <1>2 DEF TreeInv
<1>4. /\ e \in [Names -> (Nodes \ {Top}) \union {None}]
      /\ \A x \in Names : e[x] \in {None, n, node[d].entries[x]}
  BY <1>2, <1>3
<1>5. node' = [mid EXCEPT ![n].name = new]
  BY <1>1 DEF NodeSet
<1> HIDE DEF n, e
<1>6. rec \in NodeSet
  BY <1>1, <1>4 DEF NodeSet
<1>7. rec.kind = node[d].kind /\ rec.name = node[d].name /\ rec.entries = e
  BY <1>1 DEF NodeSet
<1> HIDE DEF rec
<1>8. mid \in [Nodes -> NodeSet] /\ \A m \in Nodes : mid[m] = IF m = d THEN rec ELSE node[m]
  BY <1>1, <1>6
<1> HIDE DEF mid
<1>9. [mid[n] EXCEPT !.name = new] \in NodeSet
  BY <1>3, <1>8 DEF NodeSet
<1>10. node' \in [Nodes -> NodeSet]
  BY <1>3, <1>5, <1>8, <1>9
<1>11. \A m \in Nodes : node'[m] = IF m = n THEN [mid[n] EXCEPT !.name = new] ELSE mid[m]
  BY <1>3, <1>5, <1>8
<1>12. \A m \in Nodes : /\ node'[m].kind = mid[m].kind /\ node'[m].name \in {new, mid[m].name}
                        /\ node'[m].entries = mid[m].entries
  <2>1. mid[n] \in NodeSet
    BY <1>3, <1>8
  <2>2. LET r == [mid[n] EXCEPT !.name = new]
        IN r.kind = mid[n].kind /\ r.name = new /\ r.entries = mid[n].entries
    BY <2>1 DEF NodeSet
  <2> QED BY <1>11, <2>2
<1>13. \A m \in Nodes : /\ node'[m].kind = node[m].kind /\ node'[m].name \in {new, node[m].name}
                        /\ \A x \in Names : node'[m].entries[x] \in {None, n, node[m].entries[x]}
  <2>1. \A m \in Nodes : mid[m].kind = node[m].kind /\ mid[m].name = node[m].name
    BY <1>7, <1>8
  <2>2. \A m \in Nodes, x \in Names : mid[m].entries[x] \in {None, n, node[m].entries[x]}
    BY <1>4, <1>7, <1>8
  <2> QED BY <1>12, <2>1, <2>2
<1>14. \A m \in Nodes, x \in Names :
         node'[m].entries[x] # None => node'[node'[m].entries[x]].kind # None
  <2> SUFFICES ASSUME NEW m \in Nodes, NEW x \in Names, node'[m].entries[x] # None
               PROVE  node'[node'[m].entries[x]].kind # None
    OBVIOUS
  <2>1. node[m].entries[x] \in Nodes \union {None}
    BY <1>1 DEF NodeSet
  <2>2. node[m].entries[x] # None =>
          node[m].entries[x] \in Nodes /\ node[node[m].entries[x]].kind # None
    BY <2>1 DEF TreeInv
  <2>3. node'[m].entries[x] \in {n, node[m].entries[x]}
    BY <1>13
  <2>4. node'[m].entries[x] \in Nodes /\ node[node'[m].entries[x]].kind # None
    BY <1>3, <2>2, <2>3
  <2> QED BY <2>4, <1>13
<1>15. \A m \in Nodes \ {Top} : node'[m].kind # None => node'[m].name \in Names
  BY <1>13 DEF TreeInv
<1> QED BY <1>10, <1>13, <1>14, <1>15 DEF TreeInv, KindsKept

\* The tree stays a tree.
LEMMA TreeStep ==
    ASSUME FidInv, TreeInv, PathInv, CommandInv, [Next]_vars
    PROVE  TreeInv' /\ KindsKept
<1>0. /\ node \in [Nodes -> NodeSet]
      /\ \A n \in Nodes : /\ node[n].data \in Seq(Bytes)
                          /\ \A nm \in Names : node[n].entries[nm] \in Nodes \union {None}
                          /\ node[n].kind \in Kinds \union {None}
  BY DEF TreeInv, NodeSet
<1>1. CASE UNCHANGED node
  BY <1>1 DEF TreeInv, KindsKept
<1>2. CASE Open
  <2>1. Doing("open")
    BY <1>2 DEF Open
  <2>2. Here \in Nodes
    BY <2>1, HeadIs, HereIs
  <2>3. <<>> \in Seq(Bytes)
    BY EmptySeq
  <2>4. UNCHANGED node \/ node' = [node EXCEPT ![Here].data = <<>>]
    BY <1>2 DEF Open
  <2> HIDE DEF Here
  <2> QED BY <1>1, <2>2, <2>3, <2>4, SetData
<1>3. CASE Create
  <2>1. CASE Creatable /\ ~UNCHANGED node
    <3>1. Doing("create")
      BY <1>3 DEF Create
    <3>2. PICK n \in Unused :
            node' = [node EXCEPT ![Here].entries[run.name] = n,
                                 ![n] = NewNode(run.name, IF run.dir THEN "dir" ELSE "file")]
      BY <1>3, <2>1 DEF Create
    <3> QED BY <2>1, <3>1, <3>2, MadeFile
  <2> QED BY <1>1, <1>3, <2>1 DEF Create
<1>4. CASE WriteAt
  <2>1. CASE ~UNCHANGED node
    <3>1. Doing("writeat") /\ run # NoRun
      BY <1>4 DEF WriteAt, Doing
    <3>2. Here \in Nodes
      BY <3>1, HeadIs, HereIs
    <3>3. run.p \in Seq(Bytes) /\ run.given \in Seq(Bytes) /\ run.o \in Nat
      BY <3>1 DEF CommandInv
    <3> DEFINE sent == IF ms <= Len(run.p) THEN SubSeq(run.p, 1, ms) ELSE Append(run.p, Junk)
    <3>4. node' = [node EXCEPT ![Here].data = Put(@, run.o, sent)]
      BY <1>4, <2>1 DEF WriteAt
    <3>5. sent \in Seq(Bytes)
      <4>1. ms \in Nat /\ Len(run.p) \in Nat
        BY <3>3, LenProperties, SimpleAssumption DEF ms
      <4>2. ms <= Len(run.p) => SubSeq(run.p, 1, ms) \in Seq(Bytes)
        BY <3>3, <4>1, PartOf
      <4>3. Append(run.p, Junk) \in Seq(Bytes)
        BY <3>3, AppendProperties DEF Bytes, Junk
      <4> QED BY <4>2, <4>3
    <3> HIDE DEF sent, Here
    <3>6. node[Here].data \in Seq(Bytes)
      BY <1>0, <3>2
    <3>7. Put(node[Here].data, run.o, sent) \in Seq(Bytes)
      BY <3>3, <3>5, <3>6, PutType
    <3>8. node' = [node EXCEPT ![Here].data = Put(node[Here].data, run.o, sent)]
      BY <3>4
    <3> QED BY <3>2, <3>7, <3>8, SetData
  <2> QED BY <1>1, <2>1
<1>5. CASE Rename
  <2>1. CASE ~UNCHANGED node
    <3> DEFINE old == node[Here].name
    <3>1. Doing("wstat") /\ run # NoRun
      BY <1>5 DEF Rename, Doing
    <3>2. /\ Len(fids[run.f].loc) > 1 /\ node[Above].entries[old] # None
          /\ node' = [node EXCEPT ![Above].entries[run.name] = node[Above].entries[old],
                                  ![Above].entries[old] = None,
                                  ![node[Above].entries[old]].name = run.name]
      BY <1>5, <2>1 DEF Rename
    <3>3. run.name \in Names
      BY <3>1, HeadIs, HeadData DEF CommandInv
    <3>4. Above \in Nodes /\ Here \in Nodes \ {Top} /\ node[Here].kind # None
      <4>1. Len(fids[run.f].loc) > 1
        BY <3>2
      <4> QED BY <3>1, <4>1, HeadIs, HereIs
    <3>5. old \in Names
      BY <3>4 DEF TreeInv
    <3> HIDE DEF old, Above
    <3> QED BY <3>2, <3>3, <3>4, <3>5, MoveEntry
  <2> QED BY <1>1, <2>1
<1>6. CASE RemoveFile
  <2>1. CASE ~UNCHANGED node
    <3>1. Doing("remove")
      BY <1>6 DEF RemoveFile
    <3>2. /\ Len(fids[run.f].loc) > 1
          /\ node' = [node EXCEPT ![Above].entries[node[Here].name] = None]
      BY <1>6, <2>1 DEF RemoveFile
    <3>3. Above \in Nodes /\ Here \in Nodes \ {Top} /\ node[Here].kind # None
      BY <3>1, <3>2, HeadIs, HereIs
    <3>4. node[Here].name \in Names
      BY <3>3 DEF TreeInv
    <3> HIDE DEF Above
    <3> QED BY <3>2, <3>3, <3>4, DropEntry
  <2> QED BY <1>1, <2>1
<1>7. CASE Other
  <2>1. PICK d \in Nodes, nm \in Names :
          LET n == node[d].entries[nm] IN
          /\ IsDir(d)
          /\ \/ /\ n # None
                /\ \E b \in Contents : node' = [node EXCEPT ![n].data = b]
             \/ node' = [node EXCEPT ![d].entries[nm] = None]
             \/ \E m \in Unused : node' = [node EXCEPT ![d].entries[nm] = m,
                                                       ![m] = NewNode(nm, "file")]
    BY <1>7 DEF Other
  <2>2. node[d].kind # None /\ "file" \in Kinds
    BY <2>1, SimpleAssumption DEF IsDir, Kinds
  <2>3. Contents \subseteq Seq(Bytes)
    BY SimpleAssumption
  <2>4. node[d].entries[nm] \in Nodes \union {None}
    BY <1>0
  <2>5. CASE \E n \in Nodes, b \in Seq(Bytes) : node' = [node EXCEPT ![n].data = b]
    BY <2>5, SetData
  <2>6. CASE node' = [node EXCEPT ![d].entries[nm] = None]
    BY <2>6, DropEntry
  <2>7. CASE \E m \in Unused : Makes(d, nm, m, "file")
    BY <2>2, <2>7, MakeEntry
  <2> QED BY <2>1, <2>3, <2>4, <2>5, <2>6, <2>7 DEF Makes
<1>8. CASE \/ Call \/ WalkStart \/ WalkName \/ Walk \/ Stat
           \/ ReadAll \/ Decode \/ Chdir \/ Hold \/ Unhold
           \/ Return \/ UNCHANGED vars
  <2>1. UNCHANGED node
    BY <1>8 DEF Call, WalkStart, WalkName, Walk, Stat, ReadAll, Decode, Chdir, Hold, Unhold,
                Return, vars
  <2> QED BY <1>1, <2>1
<1> QED BY <1>2, <1>3, <1>4, <1>5, <1>6, <1>7, <1>8 DEF Next

-----------------------------------------------------------------------------
(***************************************************************************)
(* The paths of fids.                                                      *)
(***************************************************************************)
\* A path leads to where it led as long as files stay what they are.
LEMMA PathKept ==
    ASSUME TreeInv, KindsKept, NEW l, IsPath(node, l)
    PROVE  IsPath(node', l)
<1>1. \A k \in 1..Len(l) : l[k] \in Nodes
  BY ElementOfSeq DEF IsPath
<1> QED BY <1>1 DEF IsPath, KindsKept

\* A path with a file appended, and without its last, is a path.
LEMMA PathAppend ==
    ASSUME NEW tree, NEW l, IsPath(tree, l), NEW n \in Nodes \ {Top}, tree[n].kind # None
    PROVE  IsPath(tree, Append(l, n))
<1>1. l \in Seq(Nodes) /\ Len(l) \in Nat
  BY LenProperties DEF IsPath
<1>2. /\ Append(l, n) \in Seq(Nodes) /\ Append(l, n) # <<>> /\ Len(Append(l, n)) = Len(l) + 1
      /\ \A i \in 1..Len(l) : Append(l, n)[i] = l[i]
      /\ Append(l, n)[Len(l) + 1] = n
  BY <1>1, AppendProperties
<1>3. \A k \in 1..Len(Append(l, n)) : k \in 1..Len(l) \/ k = Len(l) + 1
  BY <1>1, <1>2
<1> QED BY <1>2, <1>3 DEF IsPath

\* The path to the parent.
LEMMA PathFront ==
    ASSUME NEW tree, NEW l, IsPath(tree, l), Len(l) > 1
    PROVE  IsPath(tree, Front(l))
<1>1. l \in Seq(Nodes) /\ Len(l) \in Nat
  BY LenProperties DEF IsPath
<1>2. /\ Front(l) \in Seq(Nodes) /\ Len(Front(l)) = Len(l) - 1
      /\ \A i \in 1..Len(Front(l)) : Front(l)[i] = l[i]
  BY <1>1, PartOf DEF Front
<1>3. Front(l) # <<>>
  BY <1>1, <1>2, EmptySeq
<1> QED BY <1>1, <1>2, <1>3 DEF IsPath

\* Where a name leads.
LEMMA WalkToFacts ==
    ASSUME TreeInv, NEW l, IsPath(node, l), NEW nm
    PROVE  WalkTo(l, nm) = <<>> \/ IsPath(node, WalkTo(l, nm))
<1>1. l \in Seq(Nodes) /\ Len(l) \in Nat /\ Len(l) >= 1
  BY LenProperties, EmptySeq DEF IsPath
<1>2. Last(l) \in Nodes
  <2>1. Len(l) \in 1..Len(l)
    BY <1>1
  <2> QED BY <1>1, <2>1, ElementOfSeq DEF Last
<1>3. ASSUME nm \in Names, node[Last(l)].entries[nm] # None
      PROVE  IsPath(node, Append(l, node[Last(l)].entries[nm]))
  <2>1. node[Last(l)].entries[nm] \in Nodes \ {Top}
    BY <1>2, <1>3 DEF TreeInv, NodeSet
  <2>2. node[node[Last(l)].entries[nm]].kind # None
    BY <1>2, <1>3 DEF TreeInv
  <2> QED BY <2>1, <2>2, PathAppend
<1>4. Len(l) > 1 => IsPath(node, Front(l))
  BY PathFront
<1> QED BY <1>3, <1>4 DEF WalkTo

\* The entries of a directory, in some order.
LEMMA ListingFacts ==
    ASSUME NEW n
    PROVE  Listing(n) \in Seq(Names)
<1> DEFINE S == Entries(n)
           c == Cardinality(S)
<1>1. S \subseteq Names
  BY DEF Entries
<1>2. IsFiniteSet(S)
  BY <1>1, FS_Subset, SimpleAssumption
<1> HIDE DEF S
<1>3. c \in Nat /\ ExistsBijection(1..c, S)
  BY <1>2, FS_CardinalityType
<1>4. \E f \in [1..c -> S] : IsInjective(f)
  BY <1>3 DEF ExistsBijection, Bijection, Injection, IsInjective
<1>5. SetToSeq(S) \in [1..c -> S]
  BY <1>4 DEF SetToSeq
<1>6. SetToSeq(S) \in Seq(Names)
  BY <1>1, <1>3, <1>5
<1> QED BY <1>6 DEF Listing, S

\* What a read gives: bytes of a file, or entries of a directory.
LEMMA SourceType ==
    ASSUME FidInv, TreeInv, PathInv, CommandInv, Doing("readall")
    PROVE  Source \in IF IsDir(Here) THEN Seq(Names) ELSE Seq(Bytes)
<1>1. run.f \in DOMAIN fids /\ Here \in Nodes /\ run.o \in Nat
  BY HeadIs, HereIs DEF CommandInv
<1>2. CASE ~IsDir(Here)
  <2>1. node[Here].data \in Seq(Bytes)
    BY <1>1 DEF TreeInv, NodeSet
  <2>2. Len(node[Here].data) \in Nat /\ run.o + 1 \in Nat \ {0}
    BY <1>1, <2>1, LenProperties
  <2>3. SubSeq(node[Here].data, run.o + 1, Len(node[Here].data)) \in Seq(Bytes)
    BY <2>1, <2>2, PartOf
  <2> QED BY <1>2, <2>3 DEF Source
<1>3. CASE IsDir(Here)
  BY <1>1, <1>3, ListingFacts DEF Source, PathInv
<1> QED BY <1>2, <1>3

\* Fids lead to files, and so does the path of a walk.
LEMMA PathStep ==
    ASSUME FidInv, TreeInv, PathInv, CommandInv, [Next]_vars
    PROVE  PathInv'
<1>1. TreeInv' /\ KindsKept
  BY TreeStep
<1> DEFINE Good(fid) == /\ DOMAIN fid = {"loc", "open", "list"}
                        /\ IsPath(node', fid.loc) /\ fid.list \in Seq(Names)
<1>2. \A i \in DOMAIN fids : Good(fids[i])
  BY <1>1, PathKept DEF PathInv
<1>3. \A i \in DOMAIN fids' : Good(fids'[i])
  <2>1. CASE UNCHANGED fids
    BY <2>1, <1>2
  <2>2. CASE \E x : fids' = Unbound(x)
    BY <2>2, <1>2 DEF Unbound
  <2>3. CASE Crash
    BY <2>3 DEF Crash
  <2>4. CASE Walk
    <3>1. PICK newfid \in Fids : fids' = Bound(newfid, run.at)
      BY <2>4 DEF Walk
    <3>2. IsPath(node', run.at)
      <4>1. IsPath(node, run.at)
        BY <2>4 DEF Walk, Doing, PathInv
      <4> QED BY <1>1, <4>1, PathKept
    <3> DEFINE r == [loc |-> run.at, open |-> None, list |-> <<>>]
    <3>3. Good(r)
      BY <3>2, EmptySeq
    <3>4. \A i \in DOMAIN fids' : fids'[i] = r \/ (i \in DOMAIN fids /\ fids'[i] = fids[i])
      BY <3>1 DEF Bound
    <3> HIDE DEF Good, r
    <3> QED BY <1>2, <3>3, <3>4
  <2>5. CASE Open
    <3>1. CASE ~UNCHANGED fids
      <4>1. PICK mode : fids' = [fids EXCEPT ![run.f].open = mode]
        BY <2>5, <3>1 DEF Open
      <4>2. \A i \in DOMAIN fids' :
              /\ i \in DOMAIN fids /\ DOMAIN fids'[i] = DOMAIN fids[i]
              /\ fids'[i].loc = fids[i].loc /\ fids'[i].list = fids[i].list
        BY <1>2, <4>1
      <4> QED BY <1>2, <4>2
    <3> QED BY <2>1, <3>1
  <2>6. CASE Create
    <3>1. CASE ~UNCHANGED fids
      <4>1. PICK n \in Unused : \E mode :
              /\ node' = [node EXCEPT ![Here].entries[run.name] = n,
                            ![n] = NewNode(run.name, IF run.dir THEN "dir" ELSE "file")]
              /\ fids' = [fids EXCEPT ![run.f].loc = Append(@, n), ![run.f].open = mode]
        BY <2>6, <3>1 DEF Create
      <4>2. n \in Nodes \ {Top} /\ node'[n].kind # None
        <5>1. Doing("create") /\ Creatable
          BY <2>6, <3>1 DEF Create
        <5>2. node'[n].kind \in Kinds /\ n \in Nodes \ {Top}
          BY <4>1, <5>1, MadeFile
        <5> QED BY <5>2, SimpleAssumption
      <4>3. run.f \in DOMAIN fids
        BY <2>6, HeadIs, HereIs DEF Create
      <4>4. IsPath(node', Append(fids[run.f].loc, n))
        BY <1>2, <4>2, <4>3, PathAppend
      <4>5. \A i \in DOMAIN fids' :
              /\ i \in DOMAIN fids /\ DOMAIN fids'[i] = DOMAIN fids[i]
              /\ fids'[i].loc = IF i = run.f THEN Append(fids[i].loc, n) ELSE fids[i].loc
              /\ fids'[i].list = fids[i].list
        BY <1>2, <4>1
      <4> QED BY <1>2, <4>4, <4>5
    <3> QED BY <2>1, <3>1
  <2>7. CASE ReadAll
    <3>1. CASE ~UNCHANGED fids
      <4> DEFINE rest == SubSeq(Source, Len(Chunk(Source)) + 1, Len(Source))
      <4>1. IsDir(Here) /\ fids' = [fids EXCEPT ![run.f].list = rest]
        BY <2>7, <3>1 DEF ReadAll
      <4>4. rest \in Seq(Names)
        BY <2>7, <4>1, SourceType, ChunkFacts DEF ReadAll
      <4> HIDE DEF rest
      <4>5. \A i \in DOMAIN fids' :
              /\ i \in DOMAIN fids /\ DOMAIN fids'[i] = DOMAIN fids[i]
              /\ fids'[i].loc = fids[i].loc
              /\ fids'[i].list = IF i = run.f THEN rest ELSE fids[i].list
        BY <1>2, <4>1
      <4> QED BY <1>2, <4>4, <4>5
    <3> QED BY <2>1, <3>1
  <2>8. CASE Call \/ WalkStart \/ WalkName \/ Stat \/ Decode \/ WriteAt \/ Rename \/ RemoveFile
             \/ Chdir \/ Hold \/ Unhold \/ Return \/ Other \/ UNCHANGED vars
    <3>1. UNCHANGED fids \/ Crash \/ \E x : fids' = Unbound(x)
      BY <2>8 DEF Call, WalkStart, WalkName, Stat, Decode, WriteAt, Rename, RemoveFile, Chdir,
                  Hold, Unhold, Return, Other, vars
    <3> QED BY <2>1, <2>2, <2>3, <3>1
  <2> QED BY <2>4, <2>5, <2>6, <2>7, <2>8 DEF Next
<1>4. run' # NoRun /\ run'.at # <<>> => IsPath(node', run'.at)
  <2>1. CASE run # NoRun /\ run' # NoRun /\ run'.at \in {<<>>, run.at}
    BY <1>1, <2>1, PathKept DEF PathInv
  <2>2. CASE Call
    <3>1. run'.at = <<>>
      BY <2>2 DEF Call
    <3> QED BY <3>1
  <2>3. CASE WalkStart
    <3>1. run # NoRun /\ DOMAIN run = Fields
      BY <2>3 DEF WalkStart, Doing, FidInv, RunInv
    <3>2. run'.at = <<>> \/ (run.f \in DOMAIN fids /\ run'.at = fids[run.f].loc)
      BY <2>3, <3>1 DEF WalkStart, Failed, Fields
    <3> QED BY <1>2, <3>2
  <2>4. CASE WalkName
    <3>1. run # NoRun /\ DOMAIN run = Fields /\ run.at # <<>>
      BY <2>4 DEF WalkName, Doing, FidInv, RunInv
    <3> DEFINE l == WalkTo(run.at, Head(run.names))
    <3>2. l = <<>> \/ IsPath(node, l)
      BY <3>1, WalkToFacts DEF PathInv
    <3> HIDE DEF l
    <3>3. run'.at = <<>> \/ run'.at = l
      BY <2>4, <3>1 DEF WalkName, Failed, Fields, l
    <3> QED BY <1>1, <3>2, <3>3, PathKept
  <2>5. CASE Walk \/ Stat \/ Open \/ Create \/ ReadAll \/ Decode \/ WriteAt \/ Rename \/ RemoveFile
             \/ Chdir \/ Hold \/ Unhold
    <3>1. run # NoRun /\ run.todo # <<>>
      BY <2>5 DEF Walk, Stat, Open, Create, ReadAll, Decode, WriteAt, Rename, RemoveFile, Chdir,
                  Hold, Unhold, Doing
    <3>2. DOMAIN run = Fields
      BY <3>1 DEF FidInv, RunInv
    <3>3. run'.at \in {<<>>, run.at}
      BY <2>5, <3>2 DEF Walk, Stat, Open, Create, ReadAll, Decode, WriteAt, Rename, RemoveFile,
                        Chdir, Hold, Unhold, Onwards, Failed, Fields
    <3> QED BY <2>1, <3>1, <3>3
  <2>6. CASE Return \/ Other \/ UNCHANGED vars
    <3>1. run' = NoRun \/ (run # NoRun /\ \E c : run' = [run EXCEPT !.clunks = c]) \/ UNCHANGED run
      BY <2>6 DEF Return, Other, vars
    <3>2. run # NoRun => DOMAIN run = Fields
      BY DEF FidInv, RunInv
    <3>3. run' # NoRun => run # NoRun /\ run'.at = run.at
      BY <3>1, <3>2 DEF Fields
    <3> QED BY <2>1, <3>3
  <2> QED BY <2>2, <2>3, <2>4, <2>5, <2>6 DEF Next
<1> HIDE DEF Good
<1> QED BY <1>3, <1>4 DEF PathInv, Good

-----------------------------------------------------------------------------
(***************************************************************************)
(* The command in progress.                                                *)
(***************************************************************************)
\* What a step leaves as it was of the command.
Steady == /\ DOMAIN run' = Fields
          /\ run'.cmd = run.cmd /\ run'.f = run.f /\ run'.clunks = run.clunks
          /\ run'.name = run.name /\ run'.given = run.given

\* Most steps leave the command what it is.
LEMMA SteadyFacts ==
    ASSUME FidInv, run # NoRun, run.todo # <<>>,
           \/ UNCHANGED run \/ run' = Onwards \/ run' = Failed
           \/ \E l, ns : run' = [run EXCEPT !.at = l, !.names = ns]
           \/ \E b, o : run' = [run EXCEPT !.got = b, !.o = o]
           \/ \E q, o : run' = [run EXCEPT !.p = q, !.o = o]
    PROVE  Steady /\ run' # NoRun /\ run'.todo \in {<<>>, run.todo, Tail(run.todo)}
BY RunRecord DEF FidInv, RunInv, Fields, Steady, Onwards, Failed

\* Such a step keeps to the order, and to the command's fid.
LEMMA SteadyCommand ==
    ASSUME FidInv, CommandInv, run # NoRun, run.todo # <<>>, run' # NoRun, Steady,
           run'.todo \in {<<>>, run.todo, Tail(run.todo)},
           run'.todo = Tail(run.todo) => Head(run.todo) # "walk" \/ Tail(run.todo) = <<>>,
           run'.o \in Nat, run'.p \in Seq(Bytes)
    PROVE  CommandInv'
<1>1. FidSteps(run.cmd, run.todo) /\ DataSteps(run.cmd, run.todo)
  BY DEF FidInv, RunInv, CommandInv
<1>2. CASE run'.todo = <<>>
  <2>1. DataSteps(run.cmd, <<>>)
    <3>1. <<>> \in Seq(Steps) /\ Len(<<>>) = 0
      BY EmptySeq
    <3>2. 1..Len(<<>>) = {}
      BY <3>1
    <3> QED BY <3>1, <3>2 DEF DataSteps
  <2> QED BY <1>2, <2>1 DEF CommandInv, Steady
<1>3. CASE run'.todo = run.todo
  BY <1>3 DEF CommandInv, Steady, Own, At
<1>4. CASE run'.todo = Tail(run.todo) /\ run'.todo # <<>>
  <2>1. DataSteps(run.cmd, Tail(run.todo))
    BY <1>1, TailData
  <2>2. Head(run.todo) \notin {"walk", "stat", "unhold"} \union Passing
    BY <1>1, <1>4, HeadData, HeadSteps
  <2>3. run.f \in run.clunks
    BY <2>2 DEF CommandInv, Own, At
  <2> QED BY <1>4, <2>1, <2>3 DEF CommandInv, Steady
<1> QED BY <1>2, <1>3, <1>4

\* The command keeps to its order, and to its fid once it has one.
LEMMA CommandStep ==
    ASSUME FidInv, TreeInv, PathInv, CommandInv, [Next]_vars
    PROVE  CommandInv'
<1>1. CASE Call
  <2>1. PICK cmd \in DOMAIN Commands, a \in Args, nm \in Names :
          \E p \in IF cmd \in Writing THEN Contents ELSE {<<>>} :
            /\ DOMAIN run' = Fields
            /\ run'.cmd = cmd /\ run'.given = p /\ run'.p = p /\ run'.o = 0
            /\ run'.name = IF cmd \in InParent THEN Last(Path(cmd, a)) ELSE nm
            /\ run'.todo = IF cmd = "stat" /\ a = NoPath THEN <<"stat">> ELSE Commands[cmd]
    BY <1>1 DEF Call, Fields
  <2>2. run'.given \in Seq(Bytes) /\ run'.p \in Seq(Bytes) /\ run'.o \in Nat
    <3>1. <<>> \in Seq(Bytes) /\ Contents \subseteq Seq(Bytes)
      BY SimpleAssumption, EmptySeq
    <3>2. PICK p \in IF cmd \in Writing THEN Contents ELSE {<<>>} :
            run'.given = p /\ run'.p = p /\ run'.o = 0
      BY <2>1
    <3>3. p \in Seq(Bytes)
      BY <3>1, <3>2
    <3> QED BY <3>2, <3>3
  <2>3. cmd = "Rename" => run'.name \in Names
    BY <2>1 DEF InParent
  <2>4. DataSteps(cmd, run'.todo) /\ Head(run'.todo) \in {"walk", "unhold", "stat"}
    <3>1. CASE run'.todo = Commands[cmd]
      BY <3>1, CommandData, CommandSteps
    <3>2. CASE run'.todo = <<"stat">> /\ cmd = "stat"
      <4>1. <<"stat">> \in Seq(Steps) /\ Len(<<"stat">>) = 1 /\ <<"stat">>[1] = "stat"
        BY DEF Steps
      <4> QED BY <3>2, <4>1 DEF DataSteps, DataStep, Reading, Writing
    <3> QED BY <2>1, <3>1, <3>2
  <2> QED BY <2>1, <2>2, <2>3, <2>4 DEF CommandInv
<1>2. CASE WalkStart \/ WalkName
  <2>1. run # NoRun /\ run.todo # <<>>
    BY <1>2 DEF WalkStart, WalkName, Doing
  <2>2. run' = Failed \/ \E l, ns : run' = [run EXCEPT !.at = l, !.names = ns]
    BY <1>2 DEF WalkStart, WalkName
  <2>3. DOMAIN run = Fields
    BY <2>1 DEF FidInv, RunInv
  <2>4. run'.todo \in {<<>>, run.todo} /\ run'.o = run.o /\ run'.p = run.p
    BY <2>2, <2>3 DEF Failed, Fields
  <2>5. Steady /\ run' # NoRun
    BY <2>1, <2>2, SteadyFacts
  <2>6. Tail(run.todo) \in {<<>>, run.todo} => Tail(run.todo) = <<>>
    <3>1. run.todo \in Seq(Steps)
      BY <2>1 DEF CommandInv, DataSteps
    <3> QED BY <2>1, <3>1, HeadTailProperties, LenProperties
  <2> QED BY <2>1, <2>4, <2>5, <2>6, SteadyCommand DEF CommandInv
<1>3. CASE Walk
  <2>1. PICK n : run' = [Onwards EXCEPT !.f = n, !.clunks = Deferred(n), !.at = <<>>]
    BY <1>3 DEF Walk
  <2>2. /\ run # NoRun /\ run.todo # <<>> /\ Head(run.todo) = "walk"
        /\ FidSteps(run.cmd, run.todo) /\ DataSteps(run.cmd, run.todo)
    BY <1>3 DEF Walk, Doing, FidInv, RunInv, CommandInv
  <2>3. /\ DOMAIN run' = Fields /\ run'.cmd = run.cmd /\ run'.f = n /\ run'.clunks = Deferred(n)
        /\ run'.name = run.name /\ run'.given = run.given /\ run'.p = run.p /\ run'.o = run.o
        /\ run'.todo = Tail(run.todo)
    BY <2>1, <2>2, OnwardsFacts DEF Fields, FidInv
  <2>4. DataSteps(run.cmd, run'.todo)
    BY <2>2, <2>3, TailData
  <2>5. run'.todo # <<>> => n \in run'.clunks \union Own'
    <3>1. CASE run.cmd \notin Unguarded
      BY <2>3, <3>1 DEF Deferred
    <3>2. CASE run.cmd \in Unguarded /\ run'.todo # <<>>
      <4>1. Head(run'.todo) \in Passing
        BY <2>2, <2>3, <3>2, HeadSteps DEF Passing
      <4>2. run' # NoRun
        BY <2>3, RunRecord
      <4> QED BY <2>3, <3>2, <4>1, <4>2 DEF Own, At
    <3> QED BY <3>1, <3>2
  <2> QED BY <2>2, <2>3, <2>4, <2>5 DEF CommandInv
<1>4. CASE Stat \/ Open \/ Decode \/ Rename \/ RemoveFile \/ Chdir \/ Hold \/ Unhold
  <2>1. run # NoRun /\ run.todo # <<>> /\ Head(run.todo) # "walk" /\ DOMAIN run = Fields
    BY <1>4 DEF Stat, Open, Decode, Rename, RemoveFile, Chdir, Hold, Unhold, Doing, FidInv, RunInv
  <2>2. UNCHANGED run \/ run' = Onwards \/ run' = Failed
    BY <1>4 DEF Stat, Open, Decode, Rename, RemoveFile, Chdir, Hold, Unhold
  <2>3. run'.o = run.o /\ run'.p = run.p
    BY <2>1, <2>2 DEF Onwards, Failed, Fields
  <2>4. Steady /\ run' # NoRun /\ run'.todo \in {<<>>, run.todo, Tail(run.todo)}
    BY <2>1, <2>2, SteadyFacts
  <2> QED BY <2>1, <2>3, <2>4, SteadyCommand DEF CommandInv
<1>5. CASE Create
  <2>1. run # NoRun /\ run.todo # <<>> /\ Head(run.todo) # "walk" /\ DOMAIN run = Fields
    BY <1>5 DEF Create, Doing, FidInv, RunInv
  <2>2. CASE run' = Onwards \/ run' = Failed
    <3>1. run'.o = run.o /\ run'.p = run.p
      BY <2>1, <2>2 DEF Onwards, Failed, Fields
    <3>2. Steady /\ run' # NoRun /\ run'.todo \in {<<>>, run.todo, Tail(run.todo)}
      BY <2>1, <2>2, SteadyFacts
    <3> QED BY <2>1, <3>1, <3>2, SteadyCommand DEF CommandInv
  <2>3. CASE run.cmd = "put" /\
             run' = [run EXCEPT !.todo = <<"walk", "open", "writeat">>, !.walk = <<run.name>>]
    <3> DEFINE t == <<"walk", "open", "writeat">>
    <3>1. t \in Seq(Steps) /\ Len(t) = 3 /\ t[1] = "walk" /\ t[2] = "open" /\ t[3] = "writeat"
      BY DEF Steps
    <3>2. Head(t) = "walk"
      OBVIOUS
    <3> HIDE DEF t
    <3>3. DataSteps("put", t)
      BY <3>1 DEF DataSteps, DataStep, Reading, Writing
    <3>4. /\ DOMAIN run' = Fields /\ run'.cmd = "put" /\ run'.todo = t
          /\ run'.given = run.given /\ run'.p = run.p /\ run'.o = run.o
      BY <2>1, <2>3 DEF Fields, t
    <3> QED BY <2>1, <3>2, <3>3, <3>4 DEF CommandInv
  <2> QED BY <1>5, <2>2, <2>3 DEF Create
<1>6. CASE ReadAll
  <2>1. run # NoRun /\ run.todo # <<>> /\ Head(run.todo) # "walk" /\ DOMAIN run = Fields
    BY <1>6 DEF ReadAll, Doing, FidInv, RunInv
  <2>2. Len(Chunk(Source)) \in Nat
    BY <1>6, SourceType, ChunkFacts, LenProperties DEF ReadAll
  <2>5. \/ run' = Onwards
        \/ run' = [run EXCEPT !.got = @ \o Chunk(Source), !.o = run.o + Len(Chunk(Source))]
    BY <1>6 DEF ReadAll, Advance
  <2>3. run'.o \in Nat /\ run'.p = run.p
    <3> DEFINE n == run.o + Len(Chunk(Source))
               got == run.got \o Chunk(Source)
    <3>1. n \in Nat /\ run.o \in Nat
      BY <2>1, <2>2 DEF CommandInv
    <3>2. run' = Onwards \/ run' = [run EXCEPT !.got = got, !.o = n]
      BY <2>5
    <3> HIDE DEF n, got
    <3> QED BY <2>1, <3>1, <3>2 DEF Onwards, Fields
  <2>4. Steady /\ run' # NoRun /\ run'.todo \in {<<>>, run.todo, Tail(run.todo)}
    BY <2>1, <2>5, SteadyFacts
  <2> QED BY <2>1, <2>3, <2>4, SteadyCommand DEF CommandInv
<1>7. CASE WriteAt
  <2>1. run # NoRun /\ run.todo # <<>> /\ Head(run.todo) # "walk" /\ DOMAIN run = Fields
    BY <1>7 DEF WriteAt, Doing, FidInv, RunInv
  <2>2. run.p \in Seq(Bytes) /\ run.given \in Seq(Bytes) /\ run.o \in Nat
    BY <2>1 DEF CommandInv
  <2>3. ms \in Nat /\ Len(run.p) \in Nat
    BY <2>2, LenProperties, SimpleAssumption DEF ms
  <2>4. SubSeq(run.p, ms + 1, Len(run.p)) \in Seq(Bytes)
    BY <2>2, <2>3, PartOf
  <2>5. \/ UNCHANGED run \/ run' = Onwards
        \/ run' = [run EXCEPT !.p = SubSeq(run.p, ms + 1, Len(run.p)), !.o = run.o + ms]
    BY <1>7 DEF WriteAt, Advance
  <2>6. run'.o \in Nat /\ run'.p \in Seq(Bytes)
    <3> DEFINE n == run.o + ms
               rest == SubSeq(run.p, ms + 1, Len(run.p))
    <3>1. n \in Nat /\ rest \in Seq(Bytes)
      BY <2>2, <2>3, <2>4
    <3>2. UNCHANGED run \/ run' = Onwards \/ run' = [run EXCEPT !.p = rest, !.o = n]
      BY <2>5
    <3> HIDE DEF n, rest
    <3> QED BY <2>1, <2>2, <3>1, <3>2 DEF Onwards, Fields
  <2>7. Steady /\ run' # NoRun /\ run'.todo \in {<<>>, run.todo, Tail(run.todo)}
    BY <2>1, <2>5, SteadyFacts
  <2> QED BY <2>1, <2>6, <2>7, SteadyCommand
<1>8. CASE Return
  <2>1. run # NoRun /\ run.todo = <<>> /\ DOMAIN run = Fields
    BY <1>8 DEF Return, FidInv, RunInv
  <2>2. run' = NoRun \/ \E c : run' = [run EXCEPT !.clunks = c]
    BY <1>8 DEF Return
  <2> QED BY <2>1, <2>2 DEF CommandInv, Fields
<1>9. CASE Other \/ UNCHANGED vars
  BY <1>9 DEF Other, vars, CommandInv, Own, At
<1> QED BY <1>1, <1>2, <1>3, <1>4, <1>5, <1>6, <1>7, <1>8, <1>9 DEF Next

\* A command that reads has the start of what there was.
LEMMA ReadStep ==
    ASSUME FidInv, TreeInv, PathInv, CommandInv, ReadInv, [Next]_vars
    PROVE  ReadInv'
<1> SUFFICES ASSUME run' # NoRun, ~crashed', quiet', run'.cmd \in Reading PROVE HasRead'
  BY DEF ReadInv
<1>0. run # NoRun => DOMAIN run = Fields /\ DataSteps(run.cmd, run.todo) /\ run.o \in Nat
  BY DEF FidInv, RunInv, CommandInv
\* A command that has failed, or that is yet to begin.
<1>1. ASSUME run'.todo = <<>>, ~run'.ok PROVE HasRead'
  BY <1>1 DEF HasRead, At
<1>2. ASSUME run'.todo # <<>>, Head(run'.todo) \in {"walk", "isfile", "open"},
             run'.o = 0, run'.got = <<>>
      PROVE  HasRead'
  BY <1>2 DEF HasRead, At
<1>3. CASE Call
  <2>1. PICK cmd \in DOMAIN Commands, a \in Args :
          /\ DOMAIN run' = Fields
          /\ run'.cmd = cmd /\ run'.got = <<>> /\ run'.o = 0
          /\ run'.todo = IF cmd = "stat" /\ a = NoPath THEN <<"stat">> ELSE Commands[cmd]
    BY <1>3 DEF Call, Fields
  <2>2. run'.todo = Commands[cmd] /\ cmd \in Reading
    BY <2>1 DEF Reading
  <2>3. FidSteps(cmd, Commands[cmd]) /\ Commands[cmd] # <<>> /\ cmd # "unhold"
    BY <2>2, CommandSteps DEF Reading
  <2>4. Head(Commands[cmd]) = "walk"
    BY <2>3, CommandSteps, HeadSteps
  <2> QED BY <1>2, <2>1, <2>2, <2>3, <2>4
<1>4. CASE WalkStart \/ WalkName
  <2>1. /\ run # NoRun /\ run.todo # <<>> /\ Head(run.todo) = "walk" /\ ~crashed
        /\ UNCHANGED quiet
    BY <1>4 DEF WalkStart, WalkName, Doing
  <2>2. run' = Failed \/ \E l, ns : run' = [run EXCEPT !.at = l, !.names = ns]
    BY <1>4 DEF WalkStart, WalkName
  <2>3. /\ run'.cmd = run.cmd
        /\ \/ run'.todo = <<>> /\ ~run'.ok
           \/ run'.todo = run.todo /\ run'.o = run.o /\ run'.got = run.got
    BY <1>0, <2>1, <2>2 DEF Failed, Fields
  <2>4. run.o = 0 /\ run.got = <<>>
    BY <2>1, <2>3 DEF ReadInv, HasRead, At
  <2> QED BY <1>1, <1>2, <2>1, <2>3, <2>4
<1>5. CASE Walk \/ Stat
  <2>1. /\ run # NoRun /\ run.todo # <<>> /\ Head(run.todo) \in {"walk", "stat", "isfile"}
        /\ ~crashed /\ UNCHANGED quiet
    BY <1>5 DEF Walk, Stat, Doing
  <2>2. run' = Failed \/ run' = Onwards
          \/ \E n : run' = [Onwards EXCEPT !.f = n, !.clunks = Deferred(n), !.at = <<>>]
    BY <1>5 DEF Walk, Stat
  <2>3. /\ run'.cmd = run.cmd
        /\ \/ run'.todo = <<>> /\ ~run'.ok
           \/ run'.todo = Tail(run.todo) /\ run'.o = run.o /\ run'.got = run.got
    BY <1>0, <2>1, <2>2 DEF Onwards, Failed, Fields
  <2>4. /\ Head(run.todo) \in {"walk", "isfile"}
        /\ Tail(run.todo) # <<>> /\ Head(Tail(run.todo)) \in {"isfile", "open"}
    BY <1>0, <2>1, <2>3, HeadData
  <2>5. run.o = 0 /\ run.got = <<>>
    BY <2>1, <2>3, <2>4 DEF ReadInv, HasRead, At
  <2> QED BY <1>1, <1>2, <2>3, <2>4, <2>5
<1>6. CASE Open
  <2>1. /\ run # NoRun /\ run.todo # <<>> /\ Head(run.todo) = "open" /\ ~crashed
        /\ UNCHANGED quiet
    BY <1>6 DEF Open, Doing
  <2>2. CASE run' = Failed
    BY <1>0, <1>1, <2>1, <2>2 DEF Failed, Fields
  <2>3. CASE run' = Onwards /\ run' # Failed
    <3>1. /\ run'.cmd = run.cmd /\ run'.todo = Tail(run.todo) /\ run'.o = run.o
          /\ run'.got = run.got /\ run'.f = run.f
      BY <1>0, <2>1, <2>3 DEF Onwards, Fields
    <3>2. run.o = 0 /\ run.got = <<>>
      BY <2>1, <3>1 DEF ReadInv, HasRead, At
    <3>3. Tail(run.todo) # <<>> /\ Head(Tail(run.todo)) = "readall"
      BY <1>0, <2>1, <3>1, HeadData
    <3>4. run.f \in DOMAIN fids /\ Here \in Nodes
      BY <1>6, HeadIs, HereIs DEF Open
    <3>5. PICK mode : fids' = [fids EXCEPT ![run.f].open = mode] /\ before' = node'[Here].data
      BY <1>6, <2>3 DEF Open
    <3>6. fids'[run.f].loc = fids[run.f].loc
      BY <3>4, <3>5 DEF PathInv
    <3>7. Here' = Here
      BY <3>1, <3>6 DEF Here
    <3>8. node'[Here].data \in Seq(Bytes)
      BY <3>4, TreeStep DEF TreeInv, NodeSet
    <3>9. run'.o <= Len(before') /\ run'.got = SubSeq(before', 1, run'.o)
      BY <3>1, <3>2, <3>5, <3>8, LenProperties, SubSeqEmpty
    <3> QED BY <3>1, <3>2, <3>3, <3>5, <3>7, <3>9 DEF HasRead, At
  <2> QED BY <1>6, <2>2, <2>3 DEF Open
<1>7. CASE ReadAll
  <2> DEFINE b == Chunk(Source)
             rest == SubSeq(Source, Len(b) + 1, Len(Source))
  <2>1. /\ run # NoRun /\ run.todo # <<>> /\ Head(run.todo) = "readall" /\ ~crashed
        /\ UNCHANGED <<quiet, node>>
        /\ run' = IF b = <<>> THEN Onwards
                  ELSE [run EXCEPT !.got = @ \o b, !.o = run.o + Len(b)]
        /\ fids' = IF IsDir(Here) THEN [fids EXCEPT ![run.f].list = rest] ELSE fids
        /\ before' = IF IsDir(Here) /\ run.o = 0 THEN Source ELSE before
    BY <1>7 DEF ReadAll, Doing, Advance
  <2>2. run'.cmd = run.cmd /\ run'.f = run.f /\ run.o \in Nat
    BY <1>0, <2>1 DEF Onwards, Fields
  <2>3. run.f \in DOMAIN fids /\ Here \in Nodes
    BY <1>7, HeadIs, HereIs DEF ReadAll
  <2>4. fids'[run.f].loc = fids[run.f].loc /\ (IsDir(Here) => fids'[run.f].list = rest)
    BY <2>1, <2>3 DEF PathInv
  <2>5. Here' = Here /\ IsDir(Here)' = IsDir(Here)
    BY <2>1, <2>2, <2>4 DEF Here, IsDir
  <2>6. HasRead
    BY <2>1, <2>2 DEF ReadInv
  <2>7. Source \in IF IsDir(Here) THEN Seq(Names) ELSE Seq(Bytes)
    BY <1>7, SourceType DEF ReadAll
  <2>8. \/ run'.todo = Tail(run.todo) /\ run'.got = run.got /\ b = <<>>
        \/ /\ run'.todo = run.todo /\ run'.got = run.got \o b /\ run'.o = run.o + Len(b)
           /\ b # <<>>
    BY <1>0, <2>1 DEF Onwards, Fields
  <2>9. Tail(run.todo) = <<>> \/ Head(Tail(run.todo)) = "decode"
    BY <1>0, <2>1, <2>2, HeadData
  <2>10. CASE IsDir(Here)
    <3>1. /\ b \in Seq(Names) /\ rest \in Seq(Names) /\ Source = b \o rest
          /\ b = <<>> <=> Source = <<>>
      BY <2>7, <2>10, ChunkFacts
    <3>2. Len(b) \in Nat /\ (b # <<>> => Len(b) > 0)
      BY <3>1, LenProperties, EmptySeq
    <3> HIDE DEF b, rest
    <3>3. /\ run.got \in Seq(Names)
          /\ before' = run.got \o Source
      <4>1. CASE run.o = 0 /\ run.got = <<>>
        <5>1. <<>> \o Source = Source
          BY <2>7, <2>10, ConcatEmptySeq
        <5>2. <<>> \in Seq(Names)
          BY EmptySeq
        <5> QED BY <2>1, <2>10, <4>1, <5>1, <5>2
      <4>2. CASE run.o > 0 /\ run.got \in Seq(Names) /\ before = run.got \o fids[run.f].list
        <5>1. run.o # 0
          BY <2>2, <4>2
        <5> QED BY <2>1, <2>10, <4>2, <5>1 DEF Source
      <4> QED BY <2>1, <2>6, <2>10, <4>1, <4>2 DEF HasRead, At
    <3>4. CASE b = <<>>
      <4>1. before' = run.got
        <5>1. before' = run.got \o <<>>
          BY <3>1, <3>3, <3>4
        <5>2. run.got \o <<>> = run.got
          BY <3>3, ConcatEmptySeq
        <5> QED BY <5>1, <5>2
      <4>2. run'.got = before' /\ run'.todo = Tail(run.todo)
        BY <2>8, <3>4, <4>1
      <4> QED BY <2>9, <4>2 DEF HasRead, At
    <3>5. CASE b # <<>>
      <4>1. run'.got \in Seq(Names) /\ run'.o > 0
        <5>1. run'.got = run.got \o b /\ run'.o = run.o + Len(b)
          BY <2>8, <3>5
        <5>2. run.got \o b \in Seq(Names)
          BY <3>1, <3>3, ConcatProperties
        <5>3. run.o + Len(b) > 0
          BY <2>2, <3>2, <3>5
        <5> QED BY <5>1, <5>2, <5>3
      <4>2. before' = run'.got \o rest
        BY <2>7, <2>8, <2>10, <3>3, <3>5, ReadOn DEF b, rest
      <4>3. before' = run'.got \o fids'[run'.f].list
        BY <2>2, <2>4, <2>10, <4>2
      <4>4. run'.todo = run.todo
        BY <2>8, <3>5
      <4> QED BY <2>1, <2>5, <2>10, <4>1, <4>3, <4>4 DEF HasRead, At
    <3> QED BY <3>4, <3>5
  <2>11. CASE ~IsDir(Here)
    <3> DEFINE d == node[Here].data
    <3>1. /\ run.o <= Len(d) /\ run.got = SubSeq(d, 1, run.o) /\ before = d
      BY <2>1, <2>6, <2>11 DEF HasRead, At
    <3>2. d \in Seq(Bytes) /\ Source = SubSeq(d, run.o + 1, Len(d))
      BY <2>3, <2>11 DEF Source, TreeInv, NodeSet
    <3>3. before' = d /\ node'[Here'].data = d
      BY <2>1, <2>5, <2>11, <3>1
    <3> HIDE DEF d
    <3>4. /\ b \in Seq(Bytes) /\ run.o + Len(b) <= Len(d)
          /\ run.got \o b = SubSeq(d, 1, run.o + Len(b))
          /\ b = <<>> => run.o = Len(d)
      BY <2>2, <3>1, <3>2, ReadBytes
    <3> HIDE DEF b, rest
    <3>5. CASE b = <<>>
      <4>1. run.got = d
        BY <3>1, <3>2, <3>4, <3>5, SubSeqFull
      <4>2. run'.got = before' /\ run'.todo = Tail(run.todo)
        BY <2>8, <3>3, <3>5, <4>1
      <4> QED BY <2>9, <4>2 DEF HasRead, At
    <3>6. CASE b # <<>>
      <4>1. run'.o <= Len(before') /\ run'.got = SubSeq(before', 1, run'.o)
        BY <2>8, <3>3, <3>4, <3>6
      <4>2. run'.todo = run.todo
        BY <2>8, <3>6
      <4> QED BY <2>1, <2>5, <2>11, <3>3, <4>1, <4>2 DEF HasRead, At
    <3> QED BY <3>5, <3>6
  <2> HIDE DEF b, rest
  <2> QED BY <2>10, <2>11
<1>8. CASE Decode
  <2>1. /\ run # NoRun /\ run.todo # <<>> /\ Head(run.todo) = "decode" /\ ~crashed
        /\ UNCHANGED <<quiet, before>>
        /\ run' = Failed \/ run' = Onwards
    BY <1>8 DEF Decode, Doing, Crash
  <2>2. CASE run' = Failed
    BY <1>0, <1>1, <2>1, <2>2 DEF Failed, Fields
  <2>3. CASE run' = Onwards
    <3>1. run'.cmd = run.cmd /\ run'.todo = Tail(run.todo) /\ run'.got = run.got
      BY <1>0, <2>1, <2>3 DEF Onwards, Fields
    <3>2. Tail(run.todo) = <<>>
      BY <1>0, <2>1, <3>1, HeadData
    <3>3. run.got = before
      BY <2>1, <3>1 DEF ReadInv, HasRead, At
    <3> QED BY <2>1, <3>1, <3>2, <3>3 DEF HasRead, At
  <2> QED BY <2>1, <2>2, <2>3
<1>9. CASE Return
  <2>1. /\ run # NoRun /\ run.todo = <<>> /\ ~crashed /\ UNCHANGED <<quiet, before>>
        /\ \E c : run' = [run EXCEPT !.clunks = c]
    BY <1>9 DEF Return
  <2>2. /\ run'.cmd = run.cmd /\ run'.todo = <<>> /\ run'.got = run.got /\ run'.ok = run.ok
    BY <1>0, <2>1 DEF Fields
  <2>3. run.ok => run.got = before
    BY <2>1, <2>2 DEF ReadInv, HasRead
  <2> QED BY <2>1, <2>2, <2>3 DEF HasRead, At
<1>10. CASE Create \/ WriteAt \/ Rename \/ RemoveFile \/ Chdir \/ Hold \/ Unhold
  <2>1. /\ run # NoRun /\ run.todo # <<>>
        /\ Head(run.todo) \in {"create", "writeat", "wstat", "remove", "chdir", "hold", "unhold"}
    BY <1>10 DEF Create, WriteAt, Rename, RemoveFile, Chdir, Hold, Unhold, Doing
  <2>2. run.cmd \notin Reading
    BY <1>0, <2>1, HeadData
  <2>3. \/ UNCHANGED run \/ run' = Onwards \/ run' = Failed
        \/ \E t, w : run' = [run EXCEPT !.todo = t, !.walk = w]
        \/ \E q, o : run' = [run EXCEPT !.p = q, !.o = o]
    BY <1>10 DEF Create, WriteAt, Rename, RemoveFile, Chdir, Hold, Unhold
  <2>4. run'.cmd = run.cmd
    BY <1>0, <2>1, <2>3 DEF Onwards, Failed, Fields
  <2> QED BY <2>2, <2>4
<1>11. CASE Other
  BY <1>11 DEF Other
<1>12. CASE UNCHANGED vars
  BY <1>12 DEF vars, ReadInv, HasRead, At, Here, IsDir
<1> QED BY <1>3, <1>4, <1>5, <1>6, <1>7, <1>8, <1>9, <1>10, <1>11, <1>12 DEF Next

\* A command that writes has written the start of what it was given.
LEMMA WriteStep ==
    ASSUME FidInv, TreeInv, PathInv, CommandInv, WriteInv, [Next]_vars
    PROVE  WriteInv'
<1> SUFFICES ASSUME run' # NoRun, ~crashed', quiet', run'.cmd \in Writing PROVE HasWritten'
  BY DEF WriteInv
<1>0. run # NoRun => /\ DOMAIN run = Fields /\ DataSteps(run.cmd, run.todo) /\ run.o \in Nat
                     /\ run.p \in Seq(Bytes) /\ run.given \in Seq(Bytes)
  BY DEF FidInv, RunInv, CommandInv
\* A command that has failed, or that is yet to begin.
<1>1. ASSUME run'.todo = <<>>, ~run'.ok PROVE HasWritten'
  BY <1>1 DEF HasWritten, At
<1>2. ASSUME run'.todo # <<>>, Head(run'.todo) \in {"walk", "create", "open"},
             run'.o = 0, run'.p = run'.given
      PROVE  HasWritten'
  BY <1>2 DEF HasWritten, At
\* The file is open, and what was in it is known.
<1>3. ASSUME run # NoRun, run'.todo # <<>>, Head(run'.todo) = "writeat", run'.o = 0,
             run'.p = run.given, run'.given = run.given,
             before' \in Seq(Bytes), node'[Here'].data = before'
      PROVE  HasWritten'
  <2>1. SubSeq(run.given, 1, 0) = <<>>
    BY SubSeqEmpty
  <2>2. SubSeq(run.given, 0 + 1, Len(run.given)) = run.given
    BY <1>0, <1>3, SubSeqFull
  <2>3. Put(before', 0, <<>>) = before'
    <3>1. <<>> \in Seq(Bytes) /\ Len(<<>>) = 0
      BY EmptySeq
    <3>2. Put(before', 0, <<>>) = <<>> \o SubSeq(before', 0 + 1, Len(before'))
      <4>1. Put(before', 0, <<>>) = <<>> \o SubSeq(before', Len(<<>>) + 1, Len(before'))
        BY <1>3, <3>1, PutStart, Zenon
      <4> QED BY <3>1, <4>1
    <3>3. SubSeq(before', 1, Len(before')) = before'
      BY <1>3, SubSeqFull
    <3>4. <<>> \o before' = before'
      BY <1>3, ConcatEmptySeq
    <3> QED BY <3>2, <3>3, <3>4
  <2>4. 0 <= Len(run.given)
    BY <1>0, <1>3, LenProperties
  <2> QED BY <1>3, <2>1, <2>2, <2>3, <2>4 DEF HasWritten, At
<1>4. CASE Call
  <2>1. PICK cmd \in DOMAIN Commands, a \in Args :
          /\ DOMAIN run' = Fields
          /\ run'.cmd = cmd /\ run'.p = run'.given /\ run'.o = 0
          /\ run'.todo = IF cmd = "stat" /\ a = NoPath THEN <<"stat">> ELSE Commands[cmd]
    BY <1>4 DEF Call, Fields
  <2>2. run'.todo = Commands[cmd] /\ cmd \in Writing
    BY <2>1 DEF Writing
  <2>3. FidSteps(cmd, Commands[cmd]) /\ Commands[cmd] # <<>> /\ cmd # "unhold"
    BY <2>2, CommandSteps DEF Writing
  <2>4. Head(Commands[cmd]) = "walk"
    BY <2>3, CommandSteps, HeadSteps
  <2> QED BY <1>2, <2>1, <2>2, <2>3, <2>4
<1>5. CASE WalkStart \/ WalkName
  <2>1. /\ run # NoRun /\ run.todo # <<>> /\ Head(run.todo) = "walk" /\ ~crashed
        /\ UNCHANGED quiet
    BY <1>5 DEF WalkStart, WalkName, Doing
  <2>2. run' = Failed \/ \E l, ns : run' = [run EXCEPT !.at = l, !.names = ns]
    BY <1>5 DEF WalkStart, WalkName
  <2>3. /\ run'.cmd = run.cmd
        /\ \/ run'.todo = <<>> /\ ~run'.ok
           \/ run'.todo = run.todo /\ run'.o = run.o /\ run'.p = run.p /\ run'.given = run.given
    BY <1>0, <2>1, <2>2 DEF Failed, Fields
  <2>4. run.o = 0 /\ run.p = run.given
    BY <2>1, <2>3 DEF WriteInv, HasWritten, At
  <2> QED BY <1>1, <1>2, <2>1, <2>3, <2>4
<1>6. CASE Walk
  <2>1. /\ run # NoRun /\ run.todo # <<>> /\ Head(run.todo) = "walk" /\ ~crashed
        /\ UNCHANGED quiet
        /\ \E n : run' = [Onwards EXCEPT !.f = n, !.clunks = Deferred(n), !.at = <<>>]
    BY <1>6 DEF Walk, Doing
  <2>2. /\ run'.cmd = run.cmd /\ run'.todo = Tail(run.todo)
        /\ run'.o = run.o /\ run'.p = run.p /\ run'.given = run.given
    BY <1>0, <2>1 DEF Onwards, Fields
  <2>3. Tail(run.todo) # <<>> /\ Head(Tail(run.todo)) \in {"create", "open"}
    BY <1>0, <2>1, <2>2, HeadData
  <2>4. run.o = 0 /\ run.p = run.given
    BY <2>1, <2>2 DEF WriteInv, HasWritten, At
  <2> QED BY <1>2, <2>2, <2>3, <2>4
<1>7. CASE Open
  <2>1. /\ run # NoRun /\ run.todo # <<>> /\ Head(run.todo) = "open" /\ ~crashed
        /\ UNCHANGED quiet
    BY <1>7 DEF Open, Doing
  <2>2. CASE run' = Failed
    BY <1>0, <1>1, <2>1, <2>2 DEF Failed, Fields
  <2>3. CASE run' = Onwards /\ run' # Failed
    <3>1. /\ run'.cmd = run.cmd /\ run'.todo = Tail(run.todo) /\ run'.o = run.o
          /\ run'.p = run.p /\ run'.given = run.given /\ run'.f = run.f
      BY <1>0, <2>1, <2>3 DEF Onwards, Fields
    <3>2. run.o = 0 /\ run.p = run.given
      BY <2>1, <3>1 DEF WriteInv, HasWritten, At
    <3>3. Tail(run.todo) # <<>> /\ Head(Tail(run.todo)) = "writeat"
      BY <1>0, <2>1, <3>1, HeadData
    <3>4. run.f \in DOMAIN fids /\ Here \in Nodes
      BY <1>7, HeadIs, HereIs DEF Open
    <3>5. PICK mode : fids' = [fids EXCEPT ![run.f].open = mode] /\ before' = node'[Here].data
      BY <1>7, <2>3 DEF Open
    <3>6. fids'[run.f].loc = fids[run.f].loc
      BY <3>4, <3>5 DEF PathInv
    <3>7. Here' = Here
      BY <3>1, <3>6 DEF Here
    <3>8. node'[Here].data \in Seq(Bytes)
      BY <3>4, TreeStep DEF TreeInv, NodeSet
    <3> QED BY <1>3, <2>1, <3>1, <3>2, <3>3, <3>5, <3>7, <3>8
  <2> QED BY <1>7, <2>2, <2>3 DEF Open
<1>8. CASE Create
  <2>1. /\ run # NoRun /\ run.todo # <<>> /\ Head(run.todo) = "create" /\ ~crashed
        /\ UNCHANGED quiet /\ Doing("create")
    BY <1>8 DEF Create, Doing
  <2>2. CASE run' = Failed
    BY <1>0, <1>1, <2>1, <2>2 DEF Failed, Fields
  <2>3. CASE run' = [run EXCEPT !.todo = <<"walk", "open", "writeat">>, !.walk = <<run.name>>]
    <3> DEFINE t == <<"walk", "open", "writeat">>
    <3>1. t # <<>> /\ Head(t) = "walk"
      OBVIOUS
    <3> HIDE DEF t
    <3>2. /\ run'.cmd = run.cmd /\ run'.todo = t
          /\ run'.o = run.o /\ run'.p = run.p /\ run'.given = run.given
      BY <1>0, <2>1, <2>3 DEF Fields, t
    <3>3. run.o = 0 /\ run.p = run.given
      BY <2>1, <3>2 DEF WriteInv, HasWritten, At
    <3> QED BY <1>2, <3>1, <3>2, <3>3
  <2>4. CASE Creatable /\ run' = Onwards
    <3>1. /\ run'.cmd = run.cmd /\ run'.todo = Tail(run.todo) /\ run'.o = run.o
          /\ run'.p = run.p /\ run'.given = run.given /\ run'.f = run.f
      BY <1>0, <2>1, <2>4 DEF Onwards, Fields
    <3>2. run.o = 0 /\ run.p = run.given
      BY <2>1, <3>1 DEF WriteInv, HasWritten, At
    <3>3. Tail(run.todo) # <<>> /\ Head(Tail(run.todo)) = "writeat"
      BY <1>0, <2>1, <3>1, HeadData
    <3>4. run.f \in DOMAIN fids
      BY <2>1, HeadIs, HereIs
    <3>5. PICK n \in Unused : \E mode :
            /\ node' = [node EXCEPT ![Here].entries[run.name] = n,
                          ![n] = NewNode(run.name, IF run.dir THEN "dir" ELSE "file")]
            /\ fids' = [fids EXCEPT ![run.f].loc = Append(@, n), ![run.f].open = mode]
            /\ before' = <<>>
      BY <1>8, <2>4 DEF Create
    <3>6. node'[n].data = <<>> /\ n \in Nodes
      BY <2>1, <2>4, <3>5, MadeFile
    <3>7. fids'[run.f].loc = Append(fids[run.f].loc, n)
      BY <3>4, <3>5 DEF PathInv
    <3>8. Here' = n
      <4>1. fids[run.f].loc \in Seq(Nodes)
        BY <3>4 DEF PathInv, IsPath
      <4>2. Last(Append(fids[run.f].loc, n)) = n
        BY <3>6, <4>1, AppendProperties DEF Last
      <4> QED BY <3>1, <3>7, <4>2 DEF Here
    <3>9. <<>> \in Seq(Bytes)
      BY EmptySeq
    <3> QED BY <1>3, <2>1, <3>1, <3>2, <3>3, <3>5, <3>6, <3>8, <3>9
  <2> QED BY <1>8, <2>2, <2>3, <2>4 DEF Create
<1>9. CASE WriteAt
  <2> DEFINE g == run.given
             d == node[Here].data
  <2>1. /\ run # NoRun /\ run.todo # <<>> /\ Head(run.todo) = "writeat" /\ ~crashed
        /\ UNCHANGED <<quiet, before>> /\ Doing("writeat")
    BY <1>9 DEF WriteAt, Doing
  <2>2. \/ run.p = <<>> /\ run' = Onwards /\ UNCHANGED <<node, fids>>
        \/ /\ run.p # <<>> /\ ms <= Len(run.p) /\ UNCHANGED fids
           /\ node' = [node EXCEPT ![Here].data = Put(@, run.o, SubSeq(run.p, 1, ms))]
           /\ run' = [run EXCEPT !.p = SubSeq(run.p, ms + 1, Len(run.p)), !.o = run.o + ms]
    <3>1. ms \in Nat /\ Len(run.p) \in Nat
      BY <1>0, <2>1, LenProperties, SimpleAssumption DEF ms
    <3>2. ms <= Len(run.p) <=> ~(ms > Len(run.p))
      BY <3>1
    <3>4. CASE ms <= Len(run.p)
      BY <1>9, <3>2, <3>4 DEF WriteAt, Crash, Advance
    <3>5. CASE ms > Len(run.p)
      BY <1>9, <3>2, <3>5 DEF WriteAt, Crash
    <3> QED BY <3>2, <3>4, <3>5
  <2>3. /\ run'.cmd = run.cmd /\ run'.f = run.f /\ run'.given = g
    BY <1>0, <2>1, <2>2 DEF Onwards, Fields
  <2>4. /\ before \in Seq(Bytes) /\ run.o <= Len(g) /\ run.o \in Nat
        /\ run.p = SubSeq(g, run.o + 1, Len(g))
        /\ d = Put(before, 0, SubSeq(g, 1, run.o))
    BY <1>0, <2>1, <2>3 DEF WriteInv, HasWritten, At
  <2>5. g \in Seq(Bytes) /\ Len(g) \in Nat /\ ms \in Nat
    BY <1>0, <2>1, LenProperties, SimpleAssumption DEF ms
  <2>6. run.p \in Seq(Bytes) /\ Len(run.p) = Len(g) - run.o
    <3>1. Len(SubSeq(g, run.o + 1, Len(g))) = Len(g) - run.o
      BY <2>4, <2>5, PartOf
    <3> QED BY <1>0, <2>1, <2>4, <3>1
  <2>7. Here \in Nodes /\ run.f \in DOMAIN fids
    BY <2>1, HeadIs, HereIs
  <2>8. Here' = Here
    BY <2>2, <2>3 DEF Here
  <2>9. CASE run.p = <<>> /\ run' = Onwards /\ UNCHANGED <<node, fids>>
    <3>1. run'.todo = <<>>
      <4>1. Tail(run.todo) = <<>>
        BY <1>0, <2>1, <2>3, HeadData
      <4> HIDE DEF g, d
      <4> QED BY <1>0, <2>1, <2>9, <4>1 DEF Onwards, Fields
    <3>2. run.o = Len(g)
      BY <2>4, <2>5, <2>6, <2>9
    <3>3. SubSeq(g, 1, run.o) = g
      BY <2>5, <3>2, SubSeqFull
    <3>4. node'[Here'].data = Put(before', 0, run'.given)
      BY <2>1, <2>3, <2>4, <2>8, <2>9, <3>3
    <3> QED BY <3>1, <3>4 DEF HasWritten, At
  <2>10. CASE /\ run.p # <<>> /\ ms <= Len(run.p)
              /\ node' = [node EXCEPT ![Here].data = Put(@, run.o, SubSeq(run.p, 1, ms))]
              /\ run' = [run EXCEPT !.p = SubSeq(run.p, ms + 1, Len(run.p)), !.o = run.o + ms]
    <3> DEFINE q == SubSeq(run.p, ms + 1, Len(run.p))
               o == run.o + ms
               e == Put(d, run.o, SubSeq(run.p, 1, ms))
    <3>1. o <= Len(g)
      BY <2>4, <2>5, <2>6, <2>10
    <3>2. q = SubSeq(g, o + 1, Len(g)) /\ e = Put(before, 0, SubSeq(g, 1, o))
      <4>1. /\ before \in Seq(Bytes) /\ g \in Seq(Bytes) /\ run.o \in Nat /\ ms \in Nat
            /\ run.o + ms <= Len(g) /\ run.p = Part(g, run.o + 1, Len(g))
        BY <2>4, <2>5, <3>1 DEF Part
      <4>2. /\ d = Put(before, 0, Part(g, 1, run.o)) /\ e = Put(d, run.o, Part(run.p, 1, ms))
            /\ q = Part(run.p, ms + 1, Len(run.p))
        BY <2>4 DEF Part
      <4> HIDE DEF g, d, q, e
      <4>3. Put(Put(before, 0, Part(g, 1, run.o)), run.o, Part(run.p, 1, ms))
              = Put(before, 0, Part(g, 1, run.o + ms))
        BY <4>1, WriteOn
      <4>5. Part(run.p, ms + 1, Len(run.p)) = Part(g, run.o + ms + 1, Len(g))
        BY <4>1, RestOn, Z3
      <4>4. q = Part(g, o + 1, Len(g)) /\ e = Put(before, 0, Part(g, 1, o))
        BY <4>2, <4>3, <4>5, Zenon
      <4> QED BY <4>4, Zenon DEF Part
    <3>3. node' = [node EXCEPT ![Here].data = e] /\ run' = [run EXCEPT !.p = q, !.o = o]
      BY <2>10
    <3> HIDE DEF q, o, e, g, d
    <3>4. run'.todo = run.todo /\ run'.p = q /\ run'.o = o
      BY <1>0, <2>1, <3>3 DEF Fields
    <3>5. node'[Here].data = e
      BY <2>7, <3>3 DEF TreeInv, NodeSet
    <3> QED BY <2>1, <2>3, <2>4, <2>8, <3>1, <3>2, <3>4, <3>5 DEF HasWritten, At
  <2> QED BY <2>2, <2>9, <2>10
<1>10. CASE Return
  <2>1. /\ run # NoRun /\ run.todo = <<>> /\ ~crashed /\ UNCHANGED <<quiet, before, node>>
        /\ \E i : /\ run' = [run EXCEPT !.clunks = @ \ {i}] /\ fids' = Unbound(i)
    BY <1>10 DEF Return
  <2>2. PICK i : run' = [run EXCEPT !.clunks = @ \ {i}] /\ fids' = Unbound(i)
    BY <2>1
  <2>3. /\ run'.cmd = run.cmd /\ run'.todo = <<>> /\ run'.given = run.given /\ run'.ok = run.ok
        /\ run'.f = run.f /\ run'.clunks = run.clunks \ {i}
    BY <1>0, <2>1, <2>2 DEF Fields
  <2>4. CASE run.ok /\ run.f \in run'.clunks
    <3>1. node[Here].data = Put(before, 0, run.given)
      BY <2>1, <2>3, <2>4 DEF WriteInv, HasWritten
    <3>2. run.f # i /\ run.f \in DOMAIN fids
      BY <2>1, <2>3, <2>4 DEF FidInv, PoolInv, Clunks
    <3>3. Here' = Here
      BY <2>2, <2>3, <3>2 DEF Here, Unbound
    <3> QED BY <2>1, <2>3, <3>1, <3>3 DEF HasWritten, At
  <2> QED BY <2>1, <2>3, <2>4 DEF HasWritten, At
<1>11. CASE Stat \/ ReadAll \/ Decode \/ Rename \/ RemoveFile \/ Chdir \/ Hold \/ Unhold
  <2>1. /\ run # NoRun /\ run.todo # <<>>
        /\ Head(run.todo) \in {"stat", "isfile", "readall", "decode", "wstat", "remove", "chdir",
                               "hold", "unhold"}
    BY <1>11 DEF Stat, ReadAll, Decode, Rename, RemoveFile, Chdir, Hold, Unhold, Doing
  <2>2. run.cmd \notin Writing
    BY <1>0, <2>1, HeadData
  <2>3. \/ UNCHANGED run \/ run' = Onwards \/ run' = Failed
        \/ \E b, o : run' = [run EXCEPT !.got = b, !.o = o]
    BY <1>11 DEF Stat, ReadAll, Decode, Rename, RemoveFile, Chdir, Hold, Unhold
  <2>4. run'.cmd = run.cmd
    BY <1>0, <2>1, <2>3 DEF Onwards, Failed, Fields
  <2> QED BY <2>2, <2>4
<1>12. CASE Other
  BY <1>12 DEF Other
<1>13. CASE UNCHANGED vars
  BY <1>13 DEF vars, WriteInv, HasWritten, At, Here
<1> QED BY <1>4, <1>5, <1>6, <1>7, <1>8, <1>9, <1>10, <1>11, <1>12, <1>13 DEF Next

\* The inductive invariant of Whole.
WholeInv == FidInv /\ TreeInv /\ PathInv /\ CommandInv /\ ReadInv /\ WriteInv

\* The invariant holds at first.
LEMMA WholeInit == Init => WholeInv
<1> SUFFICES ASSUME Init PROVE WholeInv
  OBVIOUS
<1>1. \A n \in Nodes : node[n] = IF n \in DOMAIN Tree0 THEN Tree0[n] ELSE NoNode
  BY DEF Init
<1>2. Top \in Nodes /\ Top \in DOMAIN Tree0 /\ DOMAIN Tree0 \subseteq Nodes
  BY SimpleAssumption
<1>3. \A n \in DOMAIN Tree0 :
        /\ Tree0[n] \in NodeSet /\ Tree0[n].kind # None
        /\ \A nm \in Names : Tree0[n].entries[nm] # None => Tree0[n].entries[nm] \in DOMAIN Tree0
  <2>1. ASSUME NEW n \in DOMAIN Tree0
        PROVE  Tree0[n] \in [kind : Kinds, name : Names \union {"/"}, data : Seq(Bytes),
                             entries : [Names -> (DOMAIN Tree0 \ {Top}) \union {None}]]
    BY SimpleAssumption
  <2>2. [Names -> (DOMAIN Tree0 \ {Top}) \union {None}]
          \subseteq [Names -> (Nodes \ {Top}) \union {None}]
    BY <1>2
  <2>3. None \notin Kinds
    BY SimpleAssumption
  <2> QED BY <2>1, <2>2, <2>3 DEF NodeSet
<1>4. NoNode \in NodeSet /\ NoNode.kind = None /\ \A nm \in Names : NoNode.entries[nm] = None
  BY EmptySeq DEF NoNode, NewNode, NodeSet
<1>5. TreeInv
  <2>1. node \in [Nodes -> NodeSet]
    BY <1>3, <1>4 DEF Init
  <2>2. \A n \in Nodes, nm \in Names :
          node[n].entries[nm] # None => node[node[n].entries[nm]].kind # None
    BY <1>1, <1>2, <1>3, <1>4
  <2>3. \A n \in Nodes \ {Top} : node[n].kind # None => node[n].name \in Names
    BY <1>1, <1>4, SimpleAssumption
  <2> QED BY <2>1, <2>2, <2>3 DEF TreeInv
<1>6. PathInv
  <2>1. <<Top>> \in Seq(Nodes) /\ <<Top>> # <<>> /\ Len(<<Top>>) = 1 /\ <<Top>>[1] = Top
    BY <1>2
  <2>2. IsPath(node, <<Top>>)
    BY <1>1, <1>2, <1>3, <2>1 DEF IsPath
  <2>3. <<>> \in Seq(Names)
    BY EmptySeq
  <2>4. \A i \in DOMAIN fids : fids[i] = [loc |-> <<Top>>, open |-> None, list |-> <<>>]
    BY DEF Init
  <2> QED BY <2>2, <2>3, <2>4 DEF PathInv, Init
<1>7. CommandInv /\ ReadInv /\ WriteInv
  BY DEF Init, CommandInv, ReadInv, WriteInv
<1> QED BY <1>5, <1>6, <1>7, FidInit DEF WholeInv

\* Whole: a command that succeeds while no other client changes the tree has read all that was in
\* the file or directory, or has written all it was given, however many messages ReadAll and
\* WriteAt had to send for it.
THEOREM AllIsMoved == Spec => []Whole
<1>1. WholeInv /\ [Next]_vars => WholeInv'
  BY RunStep, PoolStep, TreeStep, PathStep, CommandStep, ReadStep, WriteStep DEF WholeInv, FidInv
<1>2. WholeInv => Whole
  BY DEF WholeInv, ReadInv, WriteInv, HasRead, HasWritten, Whole, Succeeds, Reading
<1> QED BY WholeInit, <1>1, <1>2, PTL DEF Spec
=============================================================================
