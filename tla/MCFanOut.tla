------------------------------ MODULE MCFanOut ------------------------------
(* Fan-outs of up to three branches: with a branch gated or gone, with a     *)
(* concurrency of one and two, with a list longer than maxItems.             *)
EXTENDS FanOut

Plan(map, size, limit, maxItems, missing, gated, gatedJoin) ==
    [map |-> map, size |-> size, limit |-> limit, maxItems |-> maxItems,
     missing |-> missing, gated |-> gated, gatedJoin |-> gatedJoin]

MCPlans ==
    {Plan(FALSE, 0, 1, 1, {}, {}, FALSE),
     Plan(FALSE, 3, 1, 1, {}, {}, FALSE),
     Plan(FALSE, 3, 1, 1, {}, {2}, TRUE),
     Plan(FALSE, 2, 1, 1, {1}, {}, FALSE),
     Plan(TRUE, 3, 1, 3, {}, {}, TRUE),
     Plan(TRUE, 3, 2, 3, {}, {}, FALSE),
     Plan(TRUE, 1, 2, 3, {}, {}, FALSE),
     Plan(TRUE, 3, 2, 2, {}, {}, FALSE),
     Plan(TRUE, 2, 2, 3, 1..2, {}, FALSE),
     Plan(TRUE, 2, 2, 3, {}, 1..2, FALSE)}
=============================================================================
