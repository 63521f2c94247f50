----------------------------- MODULE MCDataRoot -----------------------------
(* Small workloads of DataRoot.  The first is about the counters alone: no  *)
(* report, creation in one step, two worlds and every size.  The others let *)
(* one report meet a creation statement by statement, operations on two     *)
(* worlds, storage failures, and a shutdown.                                *)
EXTENDS DataRoot, TLC

CONSTANTS w1, w2, ledger, stray, memory, c1

MCTokens == [read |-> "r", write |-> "w", approve |-> "a"]
MCWorlds == {w1, w2}
MCName == (w1 :> <<"home", "sensor", "a">> @@ w2 :> <<"home", "sent">> @@ ledger :> <<"var", "log", "deletes">>
            @@ memory :> <<"tmp", "sensor">>)
MCBegins == {<<"sen", "sensor">>, <<"sen", "sent">>}

Report(door, method, what) ==
    [door |-> door, method |-> method, tier |-> Tier.Read, what |-> what, prefix |-> <<"">>]
Get(what) == Report("http", "GET", what)
Python(what) == Report("sdk", "", what)
Rust(what, prefix) == [Report("rust", "", what) EXCEPT !.prefix = prefix]

Workload ==
    [worlds |-> MCWorlds, kinds |-> {"put", "delete"}, lengths |-> {1}, quotas |-> {5}, rows |-> 4,
     starts |-> 1, stops |-> {Complete}, fresh |-> {TRUE}, prunes |-> FALSE, fails |-> FALSE, memory |-> FALSE, stray |-> FALSE,
     stops_engine |-> FALSE, faults |-> FALSE, asks |-> {}]

MCScopes ==
    { \* The counters.
      [Workload EXCEPT !.kinds = {"put", "append", "delete"}, !.lengths = {0, 2}, !.fresh = BOOLEAN,
                       !.prunes = TRUE, !.quotas = {3, 5}, !.starts = 2, !.fails = TRUE],
      \* One world and the ledger, created statement by statement.
      [Workload EXCEPT !.worlds = {w1}, !.rows = 2, !.stops = 1..Complete, !.fails = TRUE,
                       !.asks = {Get("du"), Get("list")}],
      \* One world that is written, removed and written again.
      [Workload EXCEPT !.worlds = {w1}, !.lengths = {0, 2}, !.asks = {Get("du"), Python("du")}],
      \* Two worlds that come and go; one and a world in memory.
      [Workload EXCEPT !.rows = 2, !.stops = {EmptyDb, Complete}, !.asks = {Get("list"), Get("du")}],
      [Workload EXCEPT !.worlds = {w1}, !.rows = 2, !.stops = {Directory, Complete}, !.memory = TRUE,
                       !.asks = {Rust("prefix", <<"home", "sen">>), Rust("bounded", <<"">>), Rust("prefix", <<"tmp">>),
                                 Python("list"), Python("du"), Get("df")}],
      \* df beside writes and deletes, with failures; beside a second write.
      [Workload EXCEPT !.worlds = {w1}, !.rows = 2, !.fails = TRUE,
                       !.asks = {Get("df"), Python("df"), Rust("df", <<"">>)}],
      [Workload EXCEPT !.worlds = {w1}, !.kinds = {"put"}, !.asks = {Get("df"), Python("df"), Rust("df", <<"">>)}],
      \* Failures, a stray directory, methods and tiers, a shutdown.
      [Workload EXCEPT !.worlds = {w1}, !.rows = 2, !.faults = TRUE, !.stray = TRUE, !.stops_engine = TRUE,
                       !.asks = {Get("du"), Get("list"), Report("http", "HEAD", "du"),
                                 Report("http", "OPTIONS", "du"), Report("http", "DELETE", "df"),
                                 Python("list"), Python("df"), Rust("bounded", <<"home", "sensor", "">>),
                                 Rust("prefix", <<"home", "Hidden">>),
                                 [Get("du") EXCEPT !.tier = Tier.Anon],
                                 [Python("df") EXCEPT !.tier = Tier.Anon]}] }
=============================================================================
