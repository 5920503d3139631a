----------------------------- MODULE MCPipeline -----------------------------
(* One instance, two documents, two backends and two requests at a time.   *)
(* Each deployment is one kind of route: a cached read, a validated write  *)
(* that is retried on a second backend, an event stream behind an OAuth    *)
(* token, a socket, a sampled upload, an RPC endpoint.                     *)
EXTENDS Pipeline

MCActiveIn == "d1" :> {"s1", "s2"} @@ "d2" :> {"s1"}
MCLimits == "d1" :> [total |-> 2, budget |-> 1, streams |-> 2]
         @@ "d2" :> [total |-> 1, budget |-> 1, streams |-> 1]

Plain == [key |-> FALSE, calls |-> 0, body |-> "stream", reply |-> "stream",
          maxInFlight |-> 1, attempts |-> 0, oauth |-> FALSE, cache |-> FALSE,
          varyBySubscription |-> FALSE, connections |-> 1,
          pool |-> <<"b1">>, rule |-> "failover"]
Read == [Plain EXCEPT !.key = TRUE, !.reply = "buffer", !.cache = TRUE,
                      !.varyBySubscription = TRUE]
Write == [Plain EXCEPT !.body = "buffer", !.reply = "blocking", !.attempts = 1,
                       !.pool = <<"b1", "b2">>]
Events == [Plain EXCEPT !.reply = "sse", !.oauth = TRUE, !.attempts = 1,
                        !.pool = <<"b1", "b2">>, !.rule = "round-robin"]
Socket == [Plain EXCEPT !.reply = "websocket", !.key = TRUE, !.calls = 1]
Upload == [Plain EXCEPT !.body = "sample"]
Rpc == [Plain EXCEPT !.body = "rpc", !.reply = "buffer", !.maxInFlight = 2]
MCDeployments ==
    {"r1" :> Read, "r1" :> Write, "r1" :> Upload, "r1" :> Socket,
     "r1" :> Rpc, "r1" :> Events}
RequestSymmetry == Permutations(Requests)
MCWeight == "b1" :> 2 @@ "b2" :> 1
=============================================================================
