---------------------------- MODULE MCHttpServer ----------------------------
(* Small workloads of HttpServer.  Each one lets two clients meet over what *)
(* its properties are about.                                                *)
EXTENDS HttpServer, TLC

CONSTANTS c1, c2

MCWorkers == {c1, c2}
A == <<"home", "a">>
M == <<"tmp", "m">>
N == <<"sys", "n">>
MCDurableWorlds == {A}
MCMemoryWorlds == {M, N}
MCShard == [w \in MCMemoryWorlds |-> "shard"]
MCTokens == [read |-> NoToken, write |-> "w", approve |-> "a"]

Ask ==
    [verb |-> "GET", path |-> A, auth |-> [scheme |-> "Bearer", credential |-> "a"],
     query |-> [long |-> FALSE, keys |-> <<>>, mode |-> "", coordinate |-> NoCoordinate],
     ifMatch |-> "none", ifNoneMatch |-> "none", range |-> NoRange,
     ifRange |-> "none", body |-> <<>>, hdrs |-> {}]

Get == Ask
Put(b) == [Ask EXCEPT !.verb = "PUT", !.body = b]
Post(b) == [Ask EXCEPT !.verb = "POST", !.body = b]
Delete == [Ask EXCEPT !.verb = "DELETE"]
At(r, p) == [r EXCEPT !.path = p]
Match(r, m) == [r EXCEPT !.ifMatch = m]
NoneMatch(r, m) == [r EXCEPT !.ifNoneMatch = m]

Here(b) == [gen |-> 1, rows |-> <<FormatRow, [kind |-> "PUT", body |-> b, hdrs |-> {}]>>]
Empty == [w \in MCDurableWorlds |-> NoWorld]
Full == [w \in MCDurableWorlds |-> Here(<<1, 1>>)]

NoPolicies == {}
Workload ==
    [start |-> Empty, memory |-> 9, asks |-> [c \in MCWorkers |-> {}],
     budget |-> [c \in MCWorkers |-> 2], faults |-> 1, policies |-> NoPolicies,
     stops |-> FALSE]

\* Two clients read, then write or delete under conditions.
ConditionalAsks ==
    {Get, Match(Put(<<2, 2>>), "seen"), NoneMatch(Put(<<3>>), "any"),
     Match(Post(<<4>>), "seen"), Match(Delete, "seen")}
Conditional ==
    [Workload EXCEPT !.asks = (c1 :> ConditionalAsks)
                           @@ (c2 :> ConditionalAsks \cup {Match(Put(<<1>>), "any")}),
                     !.budget = (c1 :> 2) @@ (c2 :> 3), !.start = Full]

\* Two memory worlds of one shard compete for the memory quota.
Memory ==
    [Workload EXCEPT !.asks = (c1 :> {At(r, M) : r \in {Put(<<1, 1>>), Post(<<3>>), Delete}})
                           @@ (c2 :> {At(r, N) : r \in {Put(<<2>>), Post(<<3>>), Delete}}
                                     \cup {At(Match(Put(<<2>>), "seen"), M), At(Get, M)}),
                     !.budget = (c1 :> 3) @@ (c2 :> 2), !.memory = 6]

\* One client assembles a body from two ranges while the other replaces it.
Remainder(r) == [r EXCEPT !.range = [form |-> "from", first |-> 1], !.ifRange = "seen"]
First(r) == [r EXCEPT !.range = [form |-> "span", first |-> 0, last |-> 0]]
Ranges(w) ==
    [Workload EXCEPT
        !.asks = (c1 :> {First(At(Get, w)), Remainder(At(Get, w))})
              @@ (c2 :> {At(Put(<<1, 1>>), w), At(Put(<<2, 2>>), w), At(Delete, w)}),
        !.budget = (c1 :> 3) @@ (c2 :> 3), !.faults = 0]

\* A cached body is revalidated while the world is replaced or recreated.
Revalidate(w) ==
    [Workload EXCEPT
        !.asks = (c1 :> {At(Get, w), NoneMatch(At(Get, w), "seen"),
                         NoneMatch(At(Get, w), "weak")})
              @@ (c2 :> {At(Put(<<1, 1>>), w), At(Put(<<2, 2>>), w), At(Delete, w)}),
        !.budget = (c1 :> 2) @@ (c2 :> 3), !.faults = 0]

\* Headers stored under one policy are read under another.
HeaderAsks ==
    {[Put(<<1>>) EXCEPT !.hdrs = {"authorization", "cache-control", "x-author"}],
     Post(<<2>>), Get, NoneMatch(Get, "seen")}
Policies == [allow : {{}, {"x-author", "etag"}}, deny : {{}, {"cache-control"}}]
Headers ==
    [Workload EXCEPT !.asks = [c \in MCWorkers |-> HeaderAsks], !.policies = Policies,
                     !.budget = (c1 :> 3) @@ (c2 :> 1), !.faults = 2]

\* Requests that are refused on the way, and timeline coordinates.
Query(keys, coordinate) ==
    [long |-> FALSE, keys |-> keys, mode |-> "1", coordinate |-> coordinate]
FullKeys == <<"timeline", "timeline-generation", "timeline-seq", "timeline-body-sha256">>
Coordinate(g, s, b) == [gen |-> g, seq |-> s, body |-> b]
Coordinates ==
    {Coordinate(1, 2, <<1, 1>>), Coordinate(1, 2, <<2>>), Coordinate(1, 1, <<1, 1>>),
     Coordinate(1, 3, <<2>>), Coordinate(2, 2, <<2>>)}
Timelines == {[Get EXCEPT !.query = Query(FullKeys, k)] : k \in Coordinates}
Auth(r, scheme, cred) == [r EXCEPT !.auth = [scheme |-> scheme, credential |-> cred]]
Odd ==
    {[Get EXCEPT !.verb = v] : v \in {"OPTIONS", "PATCH", "HEAD"}}
    \cup {At(Get, p) : p \in {<<"a">>, <<"home">>, <<"home", "Dot">>}}
    \cup {[Get EXCEPT !.query = q] :
            q \in {Query(<<"x">>, NoCoordinate), Query(<<"%bad">>, NoCoordinate),
                   Query(Append(FullKeys, "x"), Coordinate(1, 2, <<1, 1>>)),
                   [Query(<<>>, NoCoordinate) EXCEPT !.long = TRUE]}}
    \cup {[Delete EXCEPT !.query = Query(FullKeys, Coordinate(1, 2, <<1, 1>>))],
          At(Put(<<2>>), DeleteLedger), At(Delete, DeleteLedger),
          Auth(Put(<<2>>), "Basic", "w"), Auth(Put(<<2>>), "Digest", "w"),
          Auth(At(Put(<<2>>), <<"etc", "x">>), "Bearer", "w"), Auth(Delete, "Bearer", "w"),
          Put(<<1, 1, 1, 1>>), Post(<<1, 1>>),
          Match(Put(<<2>>), "invalid"), NoneMatch(Put(<<2>>), "invalid")}
    \cup {[Get EXCEPT !.range = r] :
            r \in {[form |-> "unit"], [form |-> "multi"], [form |-> "suffix", count |-> 1],
                   [form |-> "suffix", count |-> 9], [form |-> "from", first |-> 5]}}
Refusals ==
    [Workload EXCEPT !.asks = (c1 :> Odd \cup Timelines) @@ (c2 :> {Put(<<2>>), Delete}),
                     !.budget = (c1 :> 2) @@ (c2 :> 2), !.start = Full, !.stops = TRUE]

MCScopes ==
    {Conditional, Memory, Ranges(A), Ranges(M), Revalidate(A), Revalidate(M), Headers,
     Refusals}
=============================================================================
