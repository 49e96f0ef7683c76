---------------------------- MODULE MCToolCalls ----------------------------
(* Instances of ToolCalls for TLC.                                         *)
EXTENDS ToolCalls, TLC

\* The order NewServer's package asks for: a middleware before the routes it serves.
MiddlewareFirst ==
    <<"limiter", "IdempotencyKey", "RequestLogger", "RequireJSON",
      "/health", "/ready", "/tools/:name">>

\* The order of main: NewServer registers the routes, then main adds the middleware.
MainStack ==
    <<"limiter", "/health", "/ready", "/tools/:name",
      "IdempotencyKey", "RequestLogger", "RequireJSON">>

MCFaults == {"database", "crash"}
MCNoFaults == {}

MCSymmetry == Permutations(Attempts) \cup Permutations(Tools)
=============================================================================
