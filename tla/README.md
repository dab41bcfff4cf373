# Verification of qptools

TLA+ models, TLC runs and TLAPS proofs for the 9P tools in `src/`: a file
server library (`src/fileserver`), file trees to serve with it
(`src/fileserver/trees`) and a client library (`src/client`). The codec, `qp`,
is an external dependency.

Contents: [the system](#the-system), [the modules](#the-modules),
[the runs](#the-runs), [fairness](#fairness), [what is proved](#what-is-proved),
[where code and comments disagree](#where-code-and-comments-disagree),
[what is left out](#what-is-left-out), [the plan](#the-plan).

## The system

```
 application -> SimpleClient/WrappedFid -> Client -> Transport ==9P==> FileServer -> file tree
  (9pc)                                   (fids)    (tags)            (fids, tags)  (Broadcast-, Locked-,
                                                                                     Synthetic-, ProxyFile, MixDir)
```

| part | state | operations | what makes it hard | what makes it correct |
|---|---|---|---|---|
| **FileServer** `fileserver.go` | table of fids (`fids`, each a `fidState` with location, handle, mode and a lock), table of tags (`tags`, each a `requestState` that may be cancelled), `fidLock`, `tagLock`, `errorLock`, `configLock`, the negotiated protocol, the first error | `Serve` reads messages and runs version, auth, attach and flush itself; walk, open, create, read, write, clunk, remove, stat and wstat each run in a goroutine; `respond`, `die`, `cleanup` | handlers interleave and hold locks over blocking calls; a fid found under one lock is used under another; Tflush and Tversion overtake running handlers; a failed write is noticed deep inside a handler | each handle has one owner and is closed once; no reply for a tag that is not queued, or after its Rflush; a Tversion leaves nothing behind; every request is answered; `Serve` returns with all files closed |
| **BroadcastFile** `trees/broadcastfile.go` | list of open reading handles; per handle a queue, a condition variable, `unwanted` | `Open`, `ReadAt`, `WriteAt` (push to each handle), `Close` | two levels of locks; wait, signal and broadcast; close during reads and pushes, twice, or at the same time | every reader gets each message once and in order; no lost wakeup; close releases the readers; a closed handle is not kept |
| **Transport** `client/transport.go` | `queue` from tags to channels, `nextTag`, error | `Tag`, `TakeTag`, `Send`, `Ditch`, `PendingTags`, `Serve`, `received`, `Stop` | a tag is free before its caller has read the answer; `Send` uses a channel it looked up earlier; answers arrive in any order | an answer goes to its request; tags are neither leaked nor given out twice; every `Send` returns |
| **Client** `client/client.go` | pool of fid numbers, message size | Auth, Attach, Walk, Clunk, Remove, calls on a fid, Version, `FlushAll`, `Stop` | each failure must give back what the call took; client and server must agree about fids they each keep a table of; `FlushAll` and `Stop` run beside calls | the pool and the server's fids agree; `FlushAll` and `Stop` return and release everything |
| **FilePath, setStat** `fileserver/utils.go` | the path of a fid, copied by walk; the attributes of a node before a wstat | wstat: a list of changes, taken back when one fails | one change of several fails, and so may its undoing | a wstat that fails has changed nothing |
| **SyntheticFile, SyntheticDir** `trees/synthetic*.go` | attributes, contents, opens; a map from names to files; a lock for each node | `Open`, `Create`, `Rename`, `Remove`, `Walk`, `List`, `SetMode` and the other setters | tests and what they allow run under different holds of the lock; a name is kept in the directory and in the file | a directory and its files agree; remove takes the file of the fid; no request panics; opens are counted |
| **LockedFile** `trees/lockedfile.go` | an RWMutex over opens | an open waits for the writer, or for everyone | blocks inside `Open`, where the server holds the `fidState` | one writer or readers; who has gone holds no lock; every open returns once the others have closed |
| **MixDir** `trees/mixdir.go` | two directories, no lock | `Walk`, `List`, `Create`, `Rename`, `Remove` over their union | a search, then a call where the name was found; names shadow each other | changes as one directory does |
| **ListHandle** `trees/listhandle.go` | the list and what is left to give | sequential reads | lists of more than one message; entries made and removed meanwhile | a listing is what the directory had when it was begun |
| **ProxyFile** `trees/proxyfile.go` | a path, the `os.FileInfo` last seen of it, a count of the calls that keep it | system calls | `info` is assigned and looked at under different holds of `infoLock`; one object serves many fids; other programs change the host | what a request goes by was so of the path while it ran |
| **SimpleClient, WrappedFid** `client/simple.go`, `wrapper.go` | the root fid; an offset | operations on paths; reads and writes in chunks | fids on error paths; the last chunk | every fid comes back; what was read or written is whole |
| **9pc** `cmd/9pc` | fids of the root, of the working directory and of `hold` | commands | each command keeps, replaces or gives up fids in a way of its own | the fids in use are those it keeps |
| **ramfs, exportfs** `cmd/` | a root shared by all connections | accept and serve | connections share the tree | - |

How they interact: `Transport` and `FileServer` share only the byte stream.
`FileServer` calls the tree from many goroutines at once, and so do the servers
of other connections with the same root: with a `fidState` locked during `Open`,
`Create` and wstat, without a lock of theirs during `ReadAt` and `WriteAt`.
`Client` calls `Transport` from as many goroutines as the application has; the goroutine of `Transport.Serve` hands answers over through channels.

`PROJECT.json` lists every part with its status, and the hazards of the code at
their lines. Those without a property say why in their note.

## The modules

| module | models |
|---|---|
| `FileServer` | `fileserver.go`: one connection, every handler |
| `FileServerProofs` | theorems about `FileServer` |
| `BroadcastFile` | `trees/broadcastfile.go` |
| `BroadcastFileProofs` | theorems about `BroadcastFile` |
| `Transport` | `client/transport.go`, for a module that says what the calls are |
| `Client` | `client/client.go` and `connection.go` over `Transport` (which it EXTENDS), with a 9P server at the other end |
| `ClientProofs` | theorems about `Transport` and the calls of `Client` |
| `ClientFidProofs` | theorems about the fids of `Client`, from those of `ClientProofs` |
| `Directory` | what the interface `trees.Dir` promises (abstract) |
| `Tree` | `trees/synthetic*.go`, `mixdir.go` and `fileserver/utils.go` under the handlers that use them |
| `TreeProofs` | theorems about `Tree` |
| `OpenLock` | what `LockedFile` promises (abstract) |
| `LockedFile` | `trees/lockedfile.go` under open, clunk, `die` and `cleanup` |
| `LockedFileProofs` | theorems about `LockedFile` |
| `ProxyFile` | `trees/proxyfile.go` over a directory of the host |
| `ProxyFileProofs` | theorems about `ProxyFile` |
| `SimpleClient` | `client/simple.go`, the loops of `client/wrapper.go`, `trees/listhandle.go` and the commands of `cmd/9pc` |
| `SimpleClientProofs` | theorems about `SimpleClient` |
| `MC...` | instances for TLC |

Each module has a `pc` per goroutine, or what stands for one. A step ends where
the code acquires a lock it may have to wait for, gives back a lock under which
it has looked at something it will use later, or makes a call that may block. A
critical section without any of these is one step: it cannot be told from its
atomic form. An operator that no specification uses, next to one of which it is a
variant ("Mutant of", `XKeeps...`, `X...Only`), is a plausible mistake in the
code; a property is known to reject it.

### FileServer

Thread 0 is the goroutine of `Serve`, thread `r` the handler of the `r`-th
request. What the handlers allocate is named after the request: the `fidState`
that handler `r` makes is `r`, the handle it opens is `r`. So `fids[f]` is the
`fidState` in `FileServer.fids`, `handle[s]` its handle, `tags[t]` the request
queued under `t`; `hstat[h]` records whether handle `h` is open, closed, or was
closed twice.

| action | code |
|---|---|
| `ServeTop`, `ReadError`, `Receive` | one turn of the loop of `Serve`: errorCnt, `ReadMessage`, `received` with `register` |
| `Version`, `VersionLock`, `VersionReset` | `version`, which waits for `errorLock` and calls `cleanup` |
| `Auth`, `Attach`, `AttachReturn`, `Flush`, `Unsupported` | the handlers on the `Serve` goroutine |
| `Lookup` | the lookup under `fidLock.RLock` that every handler of a fid starts with |
| `WalkTo`, `WalkShort`, `WalkBind`, `WalkPanic` | `walkTo`, and the second critical section of `walk`; `WalkPanic` is the nil dereference of a walk whose newfid is its fid and is gone |
| `OpenStart`, `OpenReturn` | `open`, `create` (and the end of `auth`): before and after the call of the tree |
| `IOStart`, `StatStart`, `CallReturn` | `read`, `write`, `stat`, `wstat` |
| `Unbind`, `CloseFid` | `clunk`, `remove`: the fid leaves the table, then its handle is closed |
| `Respond`, `RespondCancelled`, `RespondTooBig`, `RespondFails`, `RespondPanics` | the ways out of `respond` |
| `Die`, `Cleanup`, `Sweep`, `CleanupDone` | `die`, `cleanup` and its loop over the fids; the handler unwinds and its deferred unlocks run |
| `Hangup`, `Quiescent` | the connection breaks; nothing is left to do |

The data is reduced to what the handlers branch on: a location is "none"
(an auth fid), "dir" or "file"; the tree may answer anything, and with
"treeerrors" it may fail; names, offsets and contents are left out. Details:

- The client's messages come from `Script`, and the constant `Client` lists the
  rules it obeys: it does not reuse tags ("tags"), does not name one fid in two
  pending requests ("fids"), sends Tversion alone ("version"). Each property is
  checked for the weakest client for which it holds.
- `VersionFirst`: the first message is a Tversion. Before it `proto` is nil and
  every other reply panics in `serialize`.
- `walk` reads `state.handle` without the state's lock. The read is taken as
  atomic.
- `read` takes `configLock.RLock` to size its buffer; that can only delay it,
  and is left out. `respond` holds `configLock.RLock` while it dies
  (`configRead`), which matters to `version`.
- "blocking" lets a read wait until its handle is closed, and "blockingopen" an
  open or create wait for ever, as that of a LockedFile may (`MayBlock`). The
  first keeps no lock meanwhile, the second that of its `fidState`.
- "quiethangup" is a connection that breaks when no handler that answers under a
  lock is running; "hangup" one that breaks at any time. The difference is what
  `FileServerBroken` shows.
- `Sweep` visits the fids in any order, and one whose lock is free first. Where
  connections break in the runs, a `fidState` is locked only by handlers that
  return by themselves, so the order makes no difference to where the loop ends;
  `LockedFile`, where it does, has the order of the loop.

### BroadcastFile

Threads are goroutines of a server that call `Open`, `ReadAt`, `WriteAt` and
`Close` as they like (`Call`). `fWriter` and `fReaders` are the RWMutex of the
file: a writer shuts out new readers first and then waits for those inside, as
`sync.RWMutex` does, which is what the lock order disagreement needs. `hLock[h]`
is the mutex of a handle when it is held from one step to the next, which only
`Close` does. `waiters[h]` is the queue of its condition variable, first in first
out. `sent`, `since` and `got` are history variables: the messages each thread
has pushed, how many of them each handle missed by opening late, and what its
reads returned. The permission checks of the embedded `SyntheticFile` are left
out. `Overlap` says whether a handle may be closed during a push, `SmallReads`
whether a read may ask for less than the next message holds.

### Transport and Client

A call has one tag, one channel and one answer, so the channel is named after
the call, and a channel that the server loop has filled is closed and keeps its
message in `buf`. `Tag` searches the `NOTAG` tags from `nextTag` on, as the code
does. `Send` is `GetChannel`, `Write` and `Await`: between the first and the
second its tag may be ditched. On a connection that is broken a write fails or
succeeds: `Serve` may have ended by an error while the other direction still
works, or the peer has closed only half. What is written then is lost, and `Send`
waits for an answer until its tag is ditched.

In `Client`, `AppCall` starts a call; `CallTag`, `getFid`, `CallSend` and
`Return` carry it out, where `Forgotten(c)` says which fid goes, call by call and
result by result, as the error paths of `client.go` have it. "attach" stands for
Attach and Auth, "io" for the calls that leave the fids as they are. `FlushAll`
and `Stop` are jobs that make calls one after another. The application uses a fid
in several calls at a time, and clunks or removes one that is in no other call. It
negotiates ("version") while it has no fid and no call in progress.

The server is a 9P server and not `FileServer`: it takes requests in order,
answers in any order, once each, and may have carried out a request that it
flushes; a Tversion ends all work. With "removefails" a Tremove may be answered
by an error, by a server that has removed the fid nevertheless. The model names
what it does not bound: the fid pool is never used up; a call after `Stop`
panics (`getFid`, assignment to a nil map).

### Tree, with SyntheticFile, SyntheticDir, MixDir and setStat

`ramfs` gives all its connections one root, so a thread is a connection, with a
user and one fid, and the threads share the tree: `node[n]` is what a
`SyntheticFile` or `SyntheticDir` keeps, `tree[d]` the map of a directory,
`loc[t]` and `handle[t]` are the `fidState` of the thread. Each request is a
sequence of steps, and a step ends where the lock of a node is given back.

| action | code |
|---|---|
| `Walk` | `walkTo`: one name in one directory a step |
| `Create`, `CanOpen`, `Open` | create and open; `SyntheticFile.CanOpen` and `Open` lock one after the other |
| `Read`, `Write`, `Die` | `ReadAt` and `WriteAt`, as far as the length of the file and the sign of the offset go; a panic, on which `handlePanic` ends the connection |
| `Clunk`, `RemoveFid`, `Unlink`, `Unlinked` | clunk; remove, which asks the file for its name and then its parent to remove that name; `SyntheticDir.Remove` asks the child whether it is empty under the lock of the parent only |
| `WriteStat`, `SetCheck`, `Set`, `Rename`, `Wstat` | `setStat`: what is to be changed, then each change, permission first; `Failed` turns `todo` into the calls that take back what was changed |
| `Find` | `MixDir.Rename` and `Remove` look for the name in one directory and then in the other |

`part[t]` is the directory of a MixDir a thread is at. A MixDir has no state, and
`View(d)` is what it shows. The history variables say what a thread could not
know: `removed`, the files that some remove has taken; `renamed[t]`, that the file
of the fid was renamed after remove had read its name; `alone[t]`, that no other
request overlapped.

A *scene* is a tree and the requests each thread may make in it. The scenes of
`MCTree` share a run: making names, rights and wstat, a root that is a file, two
directories of a MixDir with different names, and with the same names.

`Tree` implements `Directory`: mapped through `View`, every step creates one
name, removes one, renames one, or changes nothing.

### LockedFile

A connection (`conn`) has fids, each opened at most once (`pc[f]`), and a
goroutine that runs clunk or, once the connection is lost, `die` and `cleanup`,
over the locks of the file server: the open keeps the `fidState` locked from its
lookup (`Open`) through the wait for `OpenLock` until it has replied (`Reply`),
and what closes a fid waits for its `fidState` with `fidLock` held. A client may
clunk a fid it is still opening, `cleanup` visits the fids in any order and waits
for the one it has come to (`doing[c]`), and a connection of `Frail` may break at
any time (`Lose`, then `Break`). When a reply cannot be written, open (`Die`) and
clunk ("stuck") call `die` with their locks held. `Announce` and `Lock` are the
two halves of `RWMutex.Lock`: new readers are shut out, then those inside are
waited for. `opens` counts the opens of the file inside, which come before the
wait. `missed` is a history variable: the fids that clunk or `cleanup` passed
after their open had looked them up and before it locked them. The refinement
mapping takes the fids that have a handle, by their mode, for the `reading` and
`writing` of `OpenLock`.

### ProxyFile

The threads are fids; `object[o]` is a ProxyFile, shared by the fids cloned from
one another. A request is the sequence of calls the handler makes (`Requests`),
and a call that needs the `os.FileInfo` is `Load` (is it kept?), `Update`
(`os.Stat` and the assignment), `Read` (the look at it), each under a hold of
`infoLock` of its own. `Outside` is what other programs do to the directory that
is served. A nil `info` is a panic that ends the connection (`dead`); the clients
come back (`Reconnect`) to the same root. `during[t]` and `known[o]` are
histories of what the path has been. The served directory is one level deep.

### SimpleClient, with 9pc and ListHandle

A command is the sequence of requests it makes (`Commands`), carried out one at a
time against a server over a tree where everything is permitted; `Other` is
another client. A walk takes one name at a time (`WalkStart`, `WalkName`, `Walk`),
with the path so far in `run.at`, since another client may change the tree between
two names. `app` says which of the two programs runs. `run.clunks` are the
fids with a deferred `Clunk`, `pool` the numbers the client has taken and `fids`
what the server has, a function of the fids in use. A message carries `MessageData` bytes or directory entries,
so reads, writes and listings take several; `Source`
is what is left to read. `run.spare` is the capacity of the
slice beyond its end, which `WriteAt` slices into. `crashed` is a panic of the
client program. Calls within one client are not concurrent here; `Client` is
about that.

## The runs

Passing runs (the states are distinct ones):

| run | instance | states | properties |
|---|---|---|---|
| `session` | 7 requests, 2 tags, 3 fids; a client that obeys all rules, behind an AuthFile; tree errors, partial walks, buffered data, a connection that may break quietly | 265,986 | `NoLeak`, `VersionClears`, `Answered`, `ServeReturns` |
| `pipelined` | 6 requests on one fid at a time, raced and flushed, by a client that reuses tags and walks a fid to itself; reads that block until their handle is closed, opens that block for ever, replies over the message size | 283,939 | `TypeOK`, `TagOwned`, `ReplyQueued`, `HandleOwned`, `ReplyExpected`, `ClunkHandled` |
| `broadcast` | 3 threads, 2 handles, 3 messages, closing during a push | 1,192,602 | `Delivered`, `Deregistered`, `NoLostWakeup` |
| `broadcast_live` | 3 threads, 1 handle, 2 messages, short reads, no close during a push | 11,042 | `CloseWakes`, `WriteReturns` |
| `client_calls` | 4 calls, version requests among them, 3 at a time, 2 tags and NOTAG | 4,028,250 | `RightAnswer`, `TagsHeld`, `FidsAgree`, `NoFidLeak`, `StaysUp` |
| `client_tags` | 4 calls of attach and version at any time, 3 at a time, 1 tag and NOTAG | 1,044,508 | `TagPoolUsed` |
| `client_live` | 4 calls, 2 at a time, 3 tags, FlushAll, Stop, a connection that may break | 440,445 | `Answered`, `FlushUnblocks`, `FlushAllReturns`, `StopReturns` |
| `tree` | 2 users, 6 scenes, 3 to 5 requests, at most 6 nodes | 576,840 | `NamesAgree`, `PathShape`, `OpensCounted`, `WstatUndone`, `RemovesItsOwn`, `PanicsKnown`, `IsDirectory` |
| `locked` | 2 connections, one of which may break, 3 fids, opens for reading and for both | 463,764 | `NothingLeft`, `IsOpenLock`, `OpenReturns` |
| `proxy` | 2 fids, 2 names, 3 ProxyFiles, 5 requests, 1 change by another program | 7,158,473 | `Fresh`, `Recent` |
| `simple` | 3 commands of either program, files of up to 4 bytes, 2 bytes a message, 1 change by another client | 1,988,393 | `FidsReturned`, `Whole` |

`broadcast_close` ends in a violation and is
[below](#where-code-and-comments-disagree), with the configurations that
reproduce others: `FileServerReset`, `FileServerBroken`, `ClientFlushRace`,
`LockedKnot`, `ProxyShared`, `ProxyRename`, `SimpleWrite` and `SimpleRoot`.

Why the bounds are enough:

- `session`: authenticate, attach, walk or create, and open take four requests
  after the Tversion; the last two race with the open or with each other, and one
  of them may be a second Tversion. A third request in flight adds no new pair of
  handlers, and no property is about three. A client that obeys "fids" needs two
  fids for two requests in flight, and the third is that of the AuthFile.
- `pipelined`: two requests race on one fid, and the sixth flushes or clunks
  while they do, or comes under the tag of one of them. Two tags suffice since a
  third request waits for one of them or reuses it. An open that blocks takes one
  fid, a clunk of it and a request behind the clunk.
- `broadcast`: a lost wakeup takes two sleeping readers and a writer; a delivery
  out of order takes two writers and a reader, or one that opens between two
  pushes; a wrong entry removed from the list takes two handles. `SYMMETRY`
  permutes threads and handles, in this run of invariants only.
- `client_calls`: with two tags and four calls tags are reused, the search wraps
  around, and fid numbers are given back and taken again; three calls at a time
  use both tags and find none left. A Version is alone here, as in the code that
  uses `Client`; in `client_tags` it is not, so that the pool is counted while
  Version holds NOTAG and the one tag is in use or is not (`Depleted`): at one
  tag in the queue with NOTAG and without, and at two. `client_live`
  leaves the calls enough numbers for the flushes and clunks it counts on
  (`EnoughCalls`).
- `tree`: what goes wrong takes one request that has looked and another that
  changes what it saw; two users do, with the three to five requests it takes to
  bring them there. Each scene has room for the files its requests make.
- `locked`: a writer that waits for a reader while another reader is shut out
  takes three fids. Two of them in one connection let its clunk or `cleanup` wait
  for the one that waits for the other, with `fidLock` held, and the third in a
  connection of its own shows whom that keeps waiting. OEXEC locks as OREAD and
  OWRITE as ORDWR (`Writes`), so two modes suffice; one connection that may break
  does too, since the other waits for it either way.
- `proxy`: an `info` that is not that of the request takes a second fid on the
  same ProxyFile and a change of the path. Five requests open a file twice with
  a walk before and a read or a rename between. `SYMMETRY` permutes fids and
  names, in a run of invariants only.
- `simple`: files and directories of one message, of a whole number of messages
  and of a message and a part. `cd` and `hold` change what later commands start
  from and give back, which the third command shows.

`CHECK_DEADLOCK FALSE` is set where the system may stop: `pipelined` (an open
that blocks for ever, or a panic with `fidLock` held after a walk of a fid to
itself, stops the server), BroadcastFile (a read waits for a message that nobody
writes), LockedFile (all fids are closed, or the connections are stuck as
`OpenReturns` says), and Client, Tree, ProxyFile and SimpleClient (the calls are
used up, or the program has panicked). `session` checks for deadlock: `Quiescent`
is the only way to stop.

The properties, and what could break them:

- `NoLeak`, `VersionClears`: a handle stored in a `fidState`
  that has left the table, or a fid installed behind the back of `cleanup`. They
  hold for a client that has one request per fid in flight and flushes none: a
  flushed handler goes on, and the client does not wait for it.
- `HandleOwned`: clunk, remove, open, create and cleanup all move handles, under
  different locks.
- `ReplyQueued`, `ReplyExpected`, `TagOwned`: `respond`, `flush`, `register` and
  `version` race over the tag table.
- `Answered`, `ServeReturns`: a lock that is not given back.
- `ClunkHandled`: a clunk that is queued behind a call that blocks. The comment
  on `fidState` (`fileserver.go:88`) says what the locks are for; the property
  says that a blocking read never keeps a clunk waiting, and that an open that
  blocks does, for ever, when it is of the fid that is clunked (`BehindOpen`);
  with `fidLock` held, the clunk then stops every request that names a fid.
- `RightAnswer`, `TagsHeld`, `StaysUp`: a tag is reused while something about its
  former use is under way.
- `TagPoolUsed`: a count of the queue that is off by the one of NOTAG.
- `FidsAgree`, `NoFidLeak`: an error path that keeps or gives back the wrong fid.
- `FlushUnblocks`, `FlushAllReturns`, `StopReturns`: calls that wait for ever.
  `FlushAll` itself waits for ever when its Tflush is written on a connection that
  is broken and so lost (`FlushLost`); `Stop` is checked on a connection that
  stays up.
- `NamesAgree`, `IsDirectory`: a rename or remove by a name that is stale, or half
  done, in one of the two places that keep it. For a MixDir `IsDirectory` is
  checked in the scene whose two directories share no name; the other scenes
  check the rest of the properties.
- `PathShape`: `..` above the root, a walk in a tree that changes.
- `OpensCounted`: a way to lose an open fid without closing it, or an open counted
  and then denied.
- `WstatUndone`: a change that is not taken back, or to something else. It leaves
  out what the code cannot take back: once the owner is changed, or the owner's
  right to write is gone, the calls that should undo it are denied.
- `RemovesItsOwn`: a name that is read under one hold of a lock and used under
  another. Whatever renames, removes and creates came before the name was read, a
  remove takes its own file, or none; only another remove of the file, or a
  rename of it between the two holds, lets it take another.
- `PanicsKnown`: a call on a parent that does not exist, and a slice at a negative
  offset. Any other way to either is excluded.
- `NothingLeft`, `IsOpenLock`: a lock kept by what is gone, given back twice or
  never. `NothingLeft` says who holds the lock (fids for which the file is open),
  and where each of them is: in the table, or in the hands of clunk or `cleanup`,
  or in the one window in which they pass it by.
- `OpenReturns`: an open behind a clunk or a `cleanup` that is behind the open. It
  names what an open may wait for without end (`Knot`, `Stray`): a fid that has
  the file and is never closed, because what would close it waits for another fid
  of its connection, or has passed it.
- `Fresh`, `Recent`: an `info` that is not of this time: kept too long, or assigned
  late by another request.
- `FidsReturned`, `Whole`: an error path that keeps a fid or gives one back twice;
  a chunk lost, repeated or at the wrong offset.

## Fairness

`FileServer`: weak fairness of each handler, of each dying thread and of the
loop of `Serve`, since Go runs every goroutine that can run. Two exceptions: a
blocking read is not obliged to return while its handle is open, nor a blocking
open ever (`MayBlock`), and `Receive` is not fair, since nothing obliges the client to send. `Hangup` is
not fair either.

`BroadcastFile`: strong fairness of each thread's steps. A thread that waits
for a mutex others keep taking is enabled again and again and not for ever, and
`sync.Mutex` hands the lock over to a waiter that has starved. `Call` is not
fair: no operation has to be started.

`Client`: weak fairness of the calls, of the job, of the server loop and of the
9P server. One condition for all calls together is as strong as one for each,
because there are finitely many calls and each has finitely many steps. The
application need not call anything and the connection need not break; a server
that is connected answers every request it has not dropped.

`LockedFile`: strong fairness of each open, whose steps wait for locks that are
given back and taken again; `sync.RWMutex` does not starve a writer. Weak
fairness of the server's clunk, `die` and `cleanup`, also on a lost connection,
from which `Serve` fails to read at last, and of the client's decision to clunk: an open waits for ever if whoever has the file open keeps it, and that is
no fault of the code.

`Tree`, `ProxyFile` and `SimpleClient` state no fairness: nothing in them waits
but for a lock held over one step or two.

## What is proved

In `FileServerProofs`, for every number of requests, all sets of tags and fids
and every script:

| theorem | for | says |
|---|---|---|
| `TypeCorrect` | every client | `[]TypeOK` |
| `HandlesOwned` | every client | `[]HandleOwned`: every open handle has one owner, and none is closed twice |
| `TagsOwned` | every client | `[]TagOwned`: a queued tag stands for a live request with that tag |
| `RepliesQueued` | a client that sends Tversion alone | `[]ReplyQueued`: a reply is sent on a queued tag only |
| `RepliesExpected` | a client that sends Tversion alone | `ReplyExpected`: no reply after an Rflush or an Rversion |
| `NoFileLost` | `Orderly` | `[]NoLeak`: an open handle is one that a fid reaches, or a handler about to close it |
| `VersionResets` | `Orderly` | `VersionClears`: an Rversion leaves no fid and no open handle of the session before |

They assume `ConstantsAssumption` (the constants have their types and None is
none of the values) and `VersionFirst`. `RepliesQueued` and `RepliesExpected`
take `"version" \in Client` as a hypothesis: `FileServerReset.cfg` shows that
`ReplyQueued` fails without it. `Orderly` is a client that also has one request
for each fid in flight and flushes none, on a connection that breaks only when
no handler holds a lock; `session` is an instance of it. It need not keep its
tags apart. What goes wrong without each part is in
[the list below](#where-code-and-comments-disagree).

No theorem is inductive as it stands; the invariants build on each other.

- `HandleInv` is `TypeOK` and `HandleOwned` with five facts about handlers.
  `HandleOwned` alone does not survive `OpenReturn`, which overwrites
  `handle[s]`: `OpenInv` says that open and create hold the lock of a `fidState`
  without a handle while they call the tree, and `FreshInv` that the handle and
  the `fidState` named after a handler are unused before it makes them.
  `AllocInv` ties the fids in the table to allocated `fidState`s; `KindInv` and
  `ReadInv` say where a handler of each kind can be.
- `TagInv` adds `TagOwned` and that only requests with a tag are cancelled.
- `SessionInv` adds what a reply depends on: `QueuedInv` (an uncancelled request
  in progress is queued under its tag), `AwaitInv` (the client waits for what
  may still be answered), `AloneInv` (a Tversion is pending alone), `SyncInv`
  (one handler on the `Serve` goroutine at a time), `VersionInv` (a handler that
  dies and answers is a Tversion) and `FlushInv` (when a flush answers, every
  other request with the old tag is cancelled). `ReplyQueued` is `QueuedInv` at
  the moment of the reply, and needs the others because version replaces the
  table and flush empties an entry of it.
- `OrderInv` adds to `SessionInv` what an orderly client gives the server: it
  waits for every request in progress (`PendingInv`), no two of them name the
  same fid (`DisjointInv`), the first is a Tversion alone (`StartInv`), a broken
  connection leaves only handlers without locks (`QuietInv`), and a thread
  cleans up for one of these two reasons or has panicked with `fidLock`
  (`CauseInv`). So a sweep of the table meets no handler that is about to bind or
  open a fid (`SweepAlone`).
- `LeakInv` is `NoLeak` with the reasons that the table is right when a handler
  uses what it read there before it gave `fidLock` back: the fid that attach or
  auth binds is still free (`TableInv`, `NewInv`), and the `fidState` that open
  or create found is still that of its fid (`BoundInv`). `SweepInv` says that what
  a sweep has passed has no handle, and `ClearInv` that nothing is bound or opened
  between the sweep of a Tversion and its Rversion.

Each invariant has a lemma per group of actions, with a step per action and
under it one for each conjunct the action can disturb.

In `LockedFileProofs`, for any connections and fids:

| theorem | for | says |
|---|---|---|
| `LockedFileImplementsOpenLock` | every behaviour | `IsOpenLock`: one writer or readers, each open and close a step of `OpenLock` |
| `NothingStaysLocked` | every behaviour | `[]NothingLeft`: who holds the lock has the file inside open, and can still be closed, but for what was passed in the window |

They assume `LockedFileAssumption`, and hold for clunks of fids that are being
opened and for connections that break at any time. `LockInv` says that a fid with
a handle is past the wait of its open (so `RLock` and `Lock` never give it a
second one), that the readers are the fids with a handle for reading, and that the
writer is the fid that has announced itself or has a handle for writing. It makes
the step that stores a handle the `Open` of `OpenLock` and the one that closes it
its `Close`; all others are stuttering. `LeftInv` adds that what is open inside is
what waits or has a handle (`OpensInv`), and that each such fid, and each whose
open has looked it up, is in the table, in the hands of clunk or `cleanup`, or
missed (`KeptInv`): the step from the lookup on is where a fid may be passed, so
the invariant has to begin there.

In `BroadcastFileProofs`, for any threads, handles and messages:

| theorem | for | says |
|---|---|---|
| `ClosedForgotten` | every behaviour | `[]Deregistered`: no push reaches a handle after its `Close` |
| `ReadersWoken` | every behaviour | `[]NoLostWakeup`: one `Signal` a message is enough |
| `MessagesDelivered` | reads with room for a message (`~SmallReads`) | `[]Delivered`: each message once and in order |

They assume `BroadcastAssumption`, and build on each other in this order.
`BroadcastInv` says who holds the lock of the file and of a handle (`LockInv`),
that no handle is registered twice (`FilesInv`) or visited twice by a push
(`RestInv`), and that the threads asleep are those the condition lists
(`WaitInv`). The second adds the count of the readers that have been woken and
have not got the lock yet: they may find the message gone, and still there is
one of them for each message. `DeliveredInv` says of each handle and each writer
that what was read and what is queued has the writer's messages without a gap
(`Gapless`), up to the last one, or the one before while a push has the handle
still to visit.

In `ClientProofs` and `ClientFidProofs`, for any number of calls, of tags and of
fid numbers:

| theorem | for | says |
|---|---|---|
| `TypeCorrect` | every application and server | `[]TypeOK` |
| `TagsExhausted` | every application and server | `TagPoolUsed`: `Tag` fails only when every tag is in the queue, wherever `nextTag` stands |
| `ResponsesMatch` | `Calm` | `[]RightAnswer`: a call returns with the answer to its request |
| `ServeStaysUp` | `Calm` | `[]StaysUp`: no response comes for a tag without a channel |
| `TagsInUse` | `Calm`, a connection that does not break | `[]TagsHeld` |
| `FidsKept` | `Steady` | `[]FidsAgree`: the client counts no number as free that the server has bound |
| `NothingLeaks` | `Env = {}` | `[]NoFidLeak`: between calls, the numbers in use are the application's |

They assume `TransportAssumption` and `ClientAssumption`. The hypotheses are the
weakest found, and each that is left out is in
[the list below](#where-code-and-comments-disagree) or a variant of it:

- `Calm` is an application that waits until its calls are sent before `FlushAll`
  and answered before `Version` and `Stop` and, if it uses `FlushAll`, makes
  fewer calls at a time than there are tags. With as many, `Tag` fails in
  `Flush`; `FlushAll` ditches the tag of the call all the same, and the response
  that comes for it ends `Serve`.
- `Steady` allows a connection that breaks and removes that fail, and neither
  `FlushAll` nor `Stop`, which take fids from under the application.
- `Env = {}`: after a walk whose connection broke, or a remove that failed, the
  number stays in the pool for good.

`TypeInv` is `TypeOK` with what makes it inductive: the channel of a call that
waits, no outcome before the end, one fid number a call (`PoolInv`, which shows
that a free one exists). `CallInv` follows a request: the tag in the queue is
that of a call that waits or whose write failed (`QueueInv`, `HoldsInv`); every
message in flight is about the call it was sent by (`FlightInv`), one for each
call (`OnceInv`); no call steps while a job could race it (`JobInv`,
`CountInv`); and when a flush is answered nothing with the flushed tag is left
in flight (`FlushedInv`, which is why the `Ditch` of `FlushAll` leaves no
response behind). `FidInv` says at each step of a call which of the application,
the client's pool and the server have the fid that it introduces (`NewInv`) or
ends (`EndInv`).

In `TreeProofs`, for any threads, users, nodes and names, and every tree and
menu of requests:

| theorem | for | says |
|---|---|---|
| `NamesHold` | every scene | `[]NamesAgree` |
| `PathsHold` | every scene | `[]PathShape` |
| `OpensRight` | every scene | `[]OpensCounted` |
| `KnownPanics` | every scene | `[]PanicsKnown` |
| `RemovesRight` | `PlainScenes` | `[]RemovesItsOwn` |
| `TreeIsDirectory` | `PlainScenes` | `IsDirectory`: every step creates, removes or renames one name, or changes nothing that is seen |
| `WstatTakenBack` | `PlainScenes` | `[]WstatUndone` |

They assume `TreeAssumption`: finitely many threads, scenes that are trees and
requests with their fields. `PlainScenes` says that a scene in which
directories are promised to act as one (`apart`) has no MixDir: for a MixDir
whose parts share no name the three properties are model-checked only. `TreeInv` is
`NamesAgree` with the shape of the tree: a file in a directory has that
directory for its home (`NodesInv`; without it a rename could not find the entry
to change), there is a node for every create that has begun (`CountInv`), and
each thread's path is one that existed, its target the file of its fid and its
list of changes one of `Changes` (`Local`). What the other theorems need besides
is about the step that reaches the state in question, and an invariant for each:
`PanicAt` (what a thread that may still panic has asked for), `LockAt` (an entry
being removed leads to its target, and one thread removes in a directory),
`LiveInv` with `RemovesAt` (a file that no remove has taken is in its directory
below its name, and the name remove has read is still that name unless the file
was renamed since: so what it finds is its own file) and, for wstat, `LoneAt`: what has been changed is what
comes before the rest of the list, or what is on the list to take back, and the
user may change it back.

In `ProxyFileProofs`, for any fids, names and requests, and any changes by other
programs:

| theorem | for | says |
|---|---|---|
| `InfoFresh` | every behaviour | `[]Fresh`: without an open of another fid of the same ProxyFile meanwhile, a request goes by what was under the path while it ran |
| `InfoRecent` | every behaviour | `[]Recent`: none goes by what was there before the requests that overlap with it began |

They assume `ProxyAssumption`, which gives the model as many ProxyFiles as there
are fids. `ProxyInv` says that `caching` counts the threads that keep the info in
an open (`CachingInv`), that what a thread may look at and what is under the path
now are among what has been there since it began (`Seen`), and that a thread is
told of every open of its ProxyFile by another (`Overlap`). An `Update` of one
thread between the `Update` and the `Read` of another is the step that needs all
three.

In `SimpleClientProofs`, for any number of commands with any arguments, any tree
and any changes by another client:

| theorem | for | says |
|---|---|---|
| `FidsAreReturned` | every behaviour | `[]FidsReturned`: between two commands the client and the server agree on the fids in use, and they are those that 9pc keeps |
| `AllIsMoved` | every behaviour | `[]Whole`: a command that succeeds while no one else changes the tree has read all, or written all it was given |

They assume `SimpleAssumption`: the tree the program starts with is a tree of
directories and files, in which no entry is the root, and what is written is
bytes, and a message carries at least one. `FidInv` gives each fid in use one owner: the program keeps it, the command
will clunk it, or the command's last step passes it on or removes it (`PoolInv`);
that there is such a last step, and no deferred clunk besides, is what `RunInv`
says of the rest of a command. `WholeInv` adds that entries lead to files
(`TreeInv`), that fids and unfinished walks do (`PathInv`), that a command opens
before it reads and has a fid of its own by then (`CommandInv`), and how far it
has come: what it has read is the start of what there was (`ReadInv`), what is in
the file is what the start of its data makes of it (`WriteInv`). A step reads on
(`ReadBytes`, `ReadOn`) or writes on (`WriteOn`, from `PutTwice`: two adjoining
writes are one of both).

Only model-checked: the liveness properties (`Answered`, `ServeReturns`,
`ClunkHandled`, `OpenReturns`, and all of those of `broadcast_live` and
`client_live`), which the prover does not do; and `IsDirectory`, `WstatUndone`
and `RemovesItsOwn` for a MixDir.

## Where code and comments disagree

`broadcast_close` is a run: `CloseWakes` is refuted. `Close` locks the handle and
then the file, `Push` the file and then the handle; a close during a push
deadlocks both, and the readers `Close` woke cannot take the handle's lock.
"waking up any blocked reads" (`broadcastfile.go:84`).

TLC refutes the following too, with the configuration named:

| configuration | property | what the code does | what is said |
|---|---|---|---|
| `FileServerReset` | `ReplyQueued` | `version` replaces the tag table and leaves the requests in it uncancelled; they answer afterwards, on a tag that is not queued or belongs to a new request | "respond sends a response if the tag is still queued" (`fileserver.go:280`) |
| `FileServerBroken` | `ServeReturns` | a write of a reply fails in a handler that holds `fidLock` or a `fidState`; `respond` calls `die`, and `cleanup` waits for its own goroutine | "die stops the server" (`fileserver.go:205`) |
| `ClientFlushRace` | `StaysUp` | `FlushAll` ditches a tag whose request has not been written yet; the answer to it finds no channel and ends `Serve` for all requests | "FlushAll flushes all current requests" (`client.go:102`) |
| `LockedKnot` | `TableFreed` | clunk and `cleanup` hold `fidLock` while they wait for a fid that is being opened. When that waits for a LockedFile that another fid of the same connection has open, the other is never closed, the lock never given back, and the connection, with all that wait for the file, stands still | "the locks below are only held during the immediate manipulation of the maps they are associated with" (`fileserver.go:146`) |
| `ProxyShared` | `WithinCall` | while one fid opens a ProxyFile, a request on another fid of it goes by what the open has cached | "during a single call to ProxyFile" (`proxyfile.go:130`) |
| `ProxyRename` | `PathFollows` | `Rename` renames on the host and never calls `SetName`; the fid keeps a path that leads to nothing | "to ensure agreement between dir and file" (`trees/utils.go:50`) |
| `SimpleWrite` | `OnlyContent` | the last chunk of `WriteAt` is sliced with the full size: it sends what lies beyond the content, and panics | "writes the content specified" (`simple.go:134`) |
| `SimpleRoot` | `RootStays` | the first `cd` of 9pc clunks the fid of the root, which absolute paths start from | - |

Others are in the models and need no run, because one line shows them or because
they are an instance of a hazard that a property above is about.

File server:

- A flushed walk or open that finishes after a Tversion leaves its fid in the
  table, or its file open for ever (`session` with a script of a walk or an open,
  a flush of it and a Tversion: `VersionClears`, `NoLeak`).
- An open that has found its fid when the connection breaks opens it after
  `cleanup` has dropped the table (`fileserver.go:169`, then `:766`), and nobody
  closes the handle (`session` with "hangup" in Env: `NoLeak`). In `locked` such a
  fid keeps a LockedFile (`missed`).
- A connection may break while one of its fids has a LockedFile open and another
  waits for it. If `cleanup` comes to the one that waits first, it waits for it
  with `fidLock` held and never closes the one that has the file
  (`fileserver.go:174`; the order is that of a range over a map). A client that
  clunks the one that waits has the same effect (`fileserver.go:947`); `Knot` in
  `OpenReturns`.
- A walk of a fid to itself, raced by a clunk of it, panics with `fidLock` held
  (`WalkPanic`; `fileserver.go:694` does not look at `existsNew`).
- A reply over the message size is not sent at all, not even as an error, and its
  tag stays (`RespondTooBig`, `fileserver.go:289`; add "oversize" to `session`:
  `Answered`).
- A request before the first Tversion panics in `serialize` (`fileserver.go:253`);
  the models begin with a Tversion.
- `attach` installs the fid before it asks the root for its qid, and keeps it when
  that fails (`fileserver.go:507`).
- A write to an auth fid is always refused, because `auth` sets no mode
  (`fileserver.go:912`).
- `create` leaves the file when its open is denied (`fileserver.go:828`).

Trees:

- A read too small for a message loses it (`SmallReads` in `broadcast`:
  `Delivered`).
- `setStat` cannot take back a change of owner, or of the mode when the owner
  may no longer write (`WstatUndone` leaves these out).
- A wstat of a root that is a file may call `Rename` of a nil parent
  (`utils.go:113`, `PanicsKnown`).
- A read or write at an offset of 2^63 or more is negative as an `int64`
  (`fileserver.go:883`, `:924`), passes the test against the length and panics
  when the content is sliced (`syntheticfile.go:37`, `:66`; `PanicsKnown`).
- Between the test for permission, or for emptiness, and what it allows, a
  SyntheticFile or SyntheticDir may change (`syntheticfile.go:226`,
  `syntheticdir.go:307`); no property says what should be then.
- OTRUNC truncates with OWRITE and OEXEC, and not with ORDWR
  (`syntheticfile.go:235`, `Truncates`).
- `MixDir.Create` and `Rename` do not look into the other directory and make two
  files of one name (`SameScene`: `IsDirectory` with `apart` set); `Rename` and
  `Remove` of a name that neither has succeed.
- A ProxyFile missing on the host leaves a nil `info` for the next look at it: a
  panic that ends the connection (`Read`). `os.Rename` replaces a file that has
  the new name, which `trees/utils.go:93` rules out.

Client:

- A message written after the connection has broken in the other direction is
  lost, and `Send` waits for ever (`transport.go:170-175`, `FlushLost`).
- `Remove` keeps the fid in the pool when the server answers by an error
  ("removefails" and "remove" in `client_calls`: `NoFidLeak`).
- `Version` keeps the message size it asked for (`Negotiated`, `client.go:155`).
- Requests that are pending at a `Version` wait for ever (`client.go:133`;
  "version" and "racing" in `client_live`: `Answered`).
- `Transport.Stop` is noticed after the next message only (`transport.go:238`).
- `SimpleClient.Create("/name")` fails: it walks to "/" as to a name
  (`Walked`).
- `cd` without a name that is left after `parsepath`, as in `cd /`, indexes an
  empty list of qids (`main.go:264`); `cd` to a file does not clunk its fid.
- `ls` and `List` of a file decode its bytes as directory entries, and may panic
  (`Decode`); `2 + l` in that loop is computed in 16 bits.
- `get` creates, and truncates, the local file before it has found the remote one.

## What is left out

- The wire format, qids, times, versions and, but for `SimpleClient`, contents:
  nothing above branches on them. The codec is external. `Transport.SetProtocol`,
  `SetReadWriter` and `SetGreedyDecoding` configure it.
- `cmd/9pc/parse.go`, which splits a line into arguments, and what the commands
  print; flags, listening and accepting in `ramfs` and `exportfs`.
- Code without a user in the repository: `DetachedHandle`, `Seek`, `Read`,
  `ReadAt`, `Write` and `Readdir` of `WrappedFid` (which use the copy of the
  decoding loop in `utils/utils.go`), `List` and `SetName` of `ProxyFile`.
- Append-only files, whose writes go to the end whatever the offset: no command
  of the repository makes one.
- Concurrent reads of one directory handle, which share its list: no client in
  the repository makes them.
- Groups: the trees have no group database. Permissions, modes and contents in
  `ProxyFile`, which are the host's, and directories below the served one.
- Fids on several names of one connection in `Tree`: the file server keeps
  requests on one fid apart by its own locks, which `FileServer` is about.

## Not modelled

Nothing else changes state. The components that `PROJECT.json` calls "partly" are
so for the operations listed above.

## The plan

1. done: `FileServer`, `BroadcastFile`, `Transport`, `Client`, and the proofs
   about `FileServer`.
2. done: `Tree` with `MixDir` and `setStat`, implementing `Directory`;
   `LockedFile`, implementing `OpenLock`, with the proof; `ProxyFile`;
   `SimpleClient` with 9pc.
3. done: proofs about `Transport` and `Client`, `BroadcastFile`, `Tree`,
   `ProxyFile` and `SimpleClient`, and that of `NoLeak` and `VersionClears` of
   `FileServer`. Every invariant of a run is
   a theorem, some for a part of the scenes or clients only.
4. `FidTable`, an abstract session (fids are bound, opened and unbound, each in
   one step) that `FileServer` implements for such clients, and a composition of
   `Client` with it, where a flushed walk meets the fid pool.
