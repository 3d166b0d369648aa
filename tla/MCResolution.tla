---------------------------- MODULE MCResolution ----------------------------
(* Two sources, two fields, and bundles that use every operator, with all of *)
(* their rules required or one of them.                                      *)
EXTENDS ResolutionFlow

MCValue == {True, Number(1), Text(1)}
MCWorlds == {[f \in {"a", "b"} |-> True],
             [f \in {"a", "b"} |-> IF f = "a" THEN Number(2) ELSE Text(1)]}

MCRule(id, field, operator, expected, refs) ==
    [id |-> id, field |-> field, operator |-> operator, expected |-> expected,
     refs |-> refs]

MCBundle ==
    {[reference |-> "eq", require_all |-> TRUE,
      rules |-> <<MCRule("r1", "a", "eq", True, {"s1", "s2"}),
                  MCRule("r2", "b", "ne", Text(1), {"s1"})>>],
     [reference |-> "any", require_all |-> FALSE,
      rules |-> <<MCRule("r1", "a", "gt", Number(1), {"s1"}),
                  MCRule("r2", "a", "lte", Number(1), {"s2"}),
                  MCRule("r3", "b", "exists", True, {"s2"})>>],
     [reference |-> "lists", require_all |-> TRUE,
      rules |-> <<MCRule("r1", "a", "in", Items({Number(1), Number(2)}), {"s1"}),
                  MCRule("r2", "b", "contains", Text(1), {"s2"})>>],
     [reference |-> "absent", require_all |-> TRUE,
      rules |-> <<MCRule("r1", "a", "exists", False, {"s1"}),
                  MCRule("r2", "b", "gte", Number(0), {"s2"})>>],
     [reference |-> "less", require_all |-> FALSE,
      rules |-> <<MCRule("r1", "b", "lt", Number(2), {"s1", "s2"})>>]}
=============================================================================
