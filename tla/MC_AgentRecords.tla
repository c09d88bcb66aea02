---------------------------- MODULE MC_AgentRecords ----------------------------
(* Small instances of AgentRecords: exchanges of concurrent requests, and    *)
(* one request after the other with tools and more faults.                   *)
EXTENDS AgentRecords

CONSTANTS a, b

S(who, requests, nodes, faulty, read) ==
    [clients |-> who, requests |-> requests, nodes |-> nodes, faults |-> faulty, reads |-> read]

Settings ==
    {S({a, b}, 2, 0, 1, FALSE), S({a, b}, 2, 0, 0, TRUE), S({a}, 3, 0, 0, TRUE),
     S({a}, 1, 2, 2, FALSE), S({a}, 1, 3, 1, FALSE)}
=============================================================================
