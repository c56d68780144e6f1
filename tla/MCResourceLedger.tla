--------------------------- MODULE MCResourceLedger ---------------------------
(* Two runtimes and a request under a budget of seven.  Of a runtime only the    *)
(* margin, the context and so on may be known, and there is a configuration per  *)
(* way of estimating the input and the output of a request.                      *)
EXTENDS ResourceLedger

Resident(weights, bundle, override, rest, mmproj) ==
    [override |-> override, weights |-> weights, bundle |-> bundle, size |-> -1, file |-> -1,
     overhead |-> rest, context |-> rest, prompt |-> -1, cacheRam |-> -1, projector |-> -1,
     mmprojFile |-> mmproj, mmproj |-> mmproj # -1, margin |-> rest]

Transient(base, multiplier, perToken, maxTokens) ==
    [override |-> -1, base |-> base, multiplier |-> multiplier, bytes |-> 1,
     perToken |-> perToken, maxTokens |-> maxTokens, margin |-> -1]

MCRuntimeConfigs ==
    {Resident(2, <<>>, -1, 0, -1), Resident(-1, <<1, 2>>, -1, -1, 1),
     Resident(-1, <<1, -1>>, -1, -1, -1), Resident(-1, <<>>, 3, -1, -1)}

MCRequestConfigs ==
    {Transient(-1, 1, 1, 1), Transient(1, 1, 1, -1), Transient(-1, -1, -1, -1)}

===============================================================================
