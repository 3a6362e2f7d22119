------------------------------ MODULE MCTuning ------------------------------
EXTENDS Tuning

Row(wns, endpoints, setupViolations, holdViolations) ==
    [wns |-> wns, tns |-> wns * endpoints, fmax |-> None, failing_endpoints |-> endpoints,
     setup_violations |-> setupViolations, hold_violations |-> holdViolations]

\* Clean; marginal, in an Innovus report without violation counts; far off.
MCTimings == {Row(0, 0, 0, 0), Row(-2, 5, None, None), Row(-6, 30, 12, 2)}

MCCongestions == {[h |-> 0, v |-> 0, total |-> 0], [h |-> 3, v |-> 1, total |-> 9],
                  [h |-> None, v |-> None, total |-> 9]}

MCReplies ==
    {[place_cong_effort |-> Word("high"), cts_ppa_2 |-> SpeltBool(TRUE)],
     [route_ppa_2 |-> Num(1000), place_max_density |-> SpeltNum(800)],
     [design_flow_effort_3 |-> Word("insane"), CORE_UTILIZATION |-> SpeltNum(12000),
      CLOCK_PERIOD |-> Num(4000)]}

Call(kind, backend, stage_, conditions, objective) ==
    [kind |-> kind, backend |-> backend, ssh |-> objective # "leakage", stage |-> stage_, conditions |-> conditions,
     objective |-> objective, threshold |-> 2]

Wns      == {[metric |-> "wns", op |-> ">=", threshold |-> 0]}
Overflow2 == {[metric |-> "overflow", op |-> "<", threshold |-> 2]}
Strict   == {[metric |-> "overflow_h_pct", op |-> "<=", threshold |-> 2],
             [metric |-> "hold_violations", op |-> "==", threshold |-> 0]}

MCSetups ==
    {Call("ppa", "innovus", "place", Wns, "setup"),
     Call("ppa", "innovus", "cts", {}, "leakage"),
     Call("ppa", "innovus", "place", Overflow2, "congestion"),
     Call("ppa", "orfs", "place", Strict, "congestion"),
     Call("multistage", "orfs", "finish", Wns, "setup"),
     Call("multistage", "innovus", "cts", {}, "setup"),
     Call("congestion", "orfs", "place", {}, "congestion"),
     Call("congestion", "innovus", "place", {}, "congestion")}
=============================================================================
