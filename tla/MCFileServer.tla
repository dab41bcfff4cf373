----------------------------- MODULE MCFileServer -----------------------------
(***************************************************************************)
(* Instances of FileServer for TLC: what the client may send as its first, *)
(* second, ... request in each run.                                        *)
(***************************************************************************)
EXTENDS FileServer

CONSTANTS t1, t2, f1, f2, f3

Req(k, t, f) == [kind |-> k, tag |-> t, fid |-> f, fid2 |-> NOFID, oldtag |-> NOTAG,
                 mode |-> OREAD]
Walk(t, f, g)   == [Req("walk", t, f) EXCEPT !.fid2 = g]
OpenAs(t, f, m) == [Req("open", t, f) EXCEPT !.mode = m]
CreateAs(t, f, m) == [Req("create", t, f) EXCEPT !.mode = m]
FlushOf(t, old) == [Req("flush", t, NOFID) EXCEPT !.oldtag = old]
AttachWith(t, f, a) == [Req("attach", t, f) EXCEPT !.fid2 = a]
TVersion == Req("version", NOTAG, NOFID)

\* A session in order, authenticated first, at most two requests unanswered and on
\* different fids, on a connection that may break.
SessionScript ==
    << {TVersion, Req("version", t1, NOFID)}, {Req("auth", t2, f3), Req("auth", t2, NOFID)},
       {AttachWith(t1, f1, f3), AttachWith(t1, f1, NOFID)},
       {Walk(t2, f1, f2), CreateAs(t2, f1, ORDWR), Req("write", t2, f3)},
       {OpenAs(t1, f1, OREAD), OpenAs(t1, f2, ORDWR), CreateAs(t1, f1, OWRITE),
        Req("remove", t1, f2)},
       {Req("read", t2, f1), Req("write", t2, f2), Req("clunk", t2, f1),
        Req("wstat", t2, f1)},
       {TVersion, Req("remove", t1, f1), Req("read", t1, f2)} >>

\* Requests on one fid at a time, answered or not, and flushes of them, by a client that
\* reuses tags that are not free and walks a fid to itself.
PipelinedScript ==
    << {TVersion}, {Req("attach", t1, f1), Req("other", t1, f1)},
       {OpenAs(t1, f1, ORDWR), CreateAs(t1, f1, ORDWR), Walk(t1, f1, f2), Walk(t1, f1, f1)},
       {Req("read", t2, f1), Req("wstat", t2, f1), Req("clunk", t2, f1),
        OpenAs(t2, f1, OREAD), Walk(t2, f1, f2), FlushOf(t2, t1)},
       {Req("clunk", t1, f1), Req("remove", t1, f2), FlushOf(t1, t2), Req("stat", t1, f1),
        OpenAs(t1, f2, OREAD)},
       {FlushOf(t1, t2), FlushOf(t2, t1), FlushOf(t2, t2), Req("clunk", t2, f1),
        Req("attach", t2, f1), TVersion} >>

\* Requests pending at a Tversion.
ResetScript ==
    << {TVersion}, {Req("attach", t1, f1)}, {Req("stat", t1, f1)}, {TVersion} >>
\* A connection that breaks while a fid is attached.
BrokenScript == << {TVersion}, {Req("attach", t1, f1)} >>
=============================================================================
