--------------------------- MODULE MCConfigCache ---------------------------
(* Two files that may hold any of five texts: a service a without          *)
(* dependencies, a after b, b needing a, b with a readiness path that      *)
(* validate refuses, and a text that does not parse.                       *)
EXTENDS ConfigCache, TLC

Service(n, needs, after) ==
    [parses |-> TRUE, valid |-> TRUE,
     name |-> n, needs |-> needs, after |-> after]

MCTexts ==
    {Service("a", {}, {}), Service("a", {}, {"b"}), Service("b", {"a"}, {}),
     [Service("b", {"a"}, {}) EXCEPT !.valid = FALSE], Torn}

Alike == Permutations(Files)
=============================================================================
