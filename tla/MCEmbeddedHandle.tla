--------------------------- MODULE MCEmbeddedHandle ---------------------------
(* Workloads for EmbeddedHandle. *)
EXTENDS EmbeddedHandle, TLC

MCDefaults == [world |-> 3, memory |-> 3, listen |-> 1, replay |-> 2, cache |-> 2]

\* What processes are started with: each configuration differs from the plain
\* one in one place.
Embedded(config) == [kind |-> "python", given |-> config]
Served(env) == [kind |-> "server", given |-> env]
Unset == [is |-> "unset"]
Text(x) == [is |-> "text", value |-> x]
Number(n) == [is |-> "number", n |-> n]
Limits == {"world", "memory", "storage", "listen", "replay", "cache"}
PlainEnv ==
    [port |-> Unset, key |-> Text("key"), read |-> Unset, write |-> Text("w"), approve |-> Text("a"),
     world |-> Unset, memory |-> Unset, storage |-> Unset, listen |-> Unset, replay |-> Unset,
     cache |-> Unset]
Environments ==
    {[PlainEnv EXCEPT ![f] = v] :
        f \in Limits \cup {"port"},
        v \in {Unset, [is |-> "notUnicode"], [is |-> "blank"], Text("x"), Number(0), Number(2),
               Number(9)}}
    \cup {[PlainEnv EXCEPT ![f] = v] :
        f \in {"key", "read", "write", "approve"},
        v \in {Unset, [is |-> "notUnicode"], [is |-> "blank"], Text("short"), Text("r")}}
Records ==
    {[SdkConfig("key") EXCEPT ![f] = {v}] : f \in Limits, v \in {0, 2, 9}}
    \cup {[SdkConfig("key") EXCEPT ![f] = {v}] : f \in {"read", "write", "approve"}, v \in {"blank", "t"}}
    \cup {SdkConfig(k) : k \in {"blank", "short"}}

Base == [handles |-> {"h1"}, opened |-> {"h1"}, of |-> ("t1" :> "h1" @@ "t2" :> "h1"),
         subs |-> {}, ops |-> {}, calls |-> 1, conditions |-> FALSE, faults |-> FALSE, failures |-> FALSE,
         forget |-> FALSE, interrupts |-> FALSE, world |-> Missing,
         configs |-> {Embedded(SdkConfig("key"))}, signals |-> FALSE]
Written == [exists |-> TRUE, body |-> <<"old">>, version |-> 1]

\* Three processes race to open one root, fail and crash.
Opening == [Base EXCEPT !.handles = {"h1", "h2", "h3"}, !.opened = {},
                        !.of = ("t1" :> "h1"), !.faults = TRUE]
\* One process, started in every way.
Configured == [Base EXCEPT !.opened = {}, !.of = ("t1" :> "h1"), !.ops = {"put"}, !.signals = TRUE,
                           !.configs = {Served(env) : env \in Environments}
                                       \cup {Embedded(c) : c \in Records}]
\* A server and an embedded engine take turns on one root.
Servers == [Base EXCEPT !.handles = {"h1", "h2"}, !.opened = {},
                        !.of = ("t1" :> "h1" @@ "t2" :> "h2"),
                        !.ops = {"delete", "close"}, !.faults = TRUE, !.signals = TRUE,
                        !.configs = {Served(PlainEnv), Embedded(SdkConfig("key"))}, !.world = Written]
\* Requests meet the signal that stops their server.
Serving == [Base EXCEPT !.opened = {}, !.ops = {"append", "delete", "get"}, !.failures = TRUE,
                        !.signals = TRUE, !.configs = {Served(PlainEnv)}, !.world = Written]
\* Two processes open one root, write, close, drop the engine and crash.
Roots == [Base EXCEPT !.handles = {"h1", "h2"}, !.opened = {},
                      !.of = ("t1" :> "h1" @@ "t2" :> "h2"), !.calls = 2,
                      !.ops = {"append", "close"}, !.faults = TRUE, !.forget = TRUE]
\* One engine, one world: every verb, with and without conditions, against a
\* close that may be interrupted.
VerbsAndClose == [Base EXCEPT !.of = ("t1" :> "h1" @@ "t2" :> "h1" @@ "t3" :> "h1"),
                              !.ops = {"put", "append", "delete", "get", "close"},
                              !.interrupts = TRUE]
Conditional == [Base EXCEPT !.ops = {"put", "append", "delete"}, !.conditions = TRUE,
                            !.world = Written]
\* The storage fails under every verb.
Failing == [Base EXCEPT !.ops = {"put", "append", "delete", "get"}, !.failures = TRUE]
\* Events reach the callers of next while writes go on.
Listening == [Base EXCEPT !.subs = {"s1"}, !.ops = {"put", "subscribe", "next"},
                          !.calls = 3, !.forget = TRUE]
\* Subscriptions and the engine are closed under the callers of next.
Closing == [Base EXCEPT !.of = ("t1" :> "h1" @@ "t2" :> "h1" @@ "t3" :> "h1"),
                        !.subs = {"s1"}, !.ops = {"subscribe", "next", "closeSub", "close"},
                        !.calls = 2, !.interrupts = TRUE]
ClosingWrites == [Base EXCEPT !.subs = {"s1", "s2"}, !.calls = 2, !.interrupts = TRUE, !.forget = TRUE,
                              !.ops = {"put", "subscribe", "next", "closeSub", "close"}]

MCScopes == {Opening, Configured, Servers, Serving, Roots, VerbsAndClose, Conditional, Failing, Listening, Closing, ClosingWrites}
AppendScopes == {[Base EXCEPT !.ops = {"append"}]}
===============================================================================
