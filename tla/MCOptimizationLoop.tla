------------------------- MODULE MCOptimizationLoop -------------------------
EXTENDS OptimizationLoop

Row(changes) == changes @@ NoFigures

\* A congested placement; the same, eased so that only its slack still tells; a crowded
\* one that violates design rules; a high fanout and skew; nothing wrong that can be read.
MCFigures ==
    [congested |-> Row([wns |-> -30, tns |-> -150, hold |-> 0, setup |-> 9, skew |-> 7,
                        hotspots |-> 6, overflow |-> 80, utilization |-> 7800]),
     eased     |-> Row([wns |-> -25, tns |-> -90, hold |-> 0, setup |-> 7, skew |-> 7,
                        hotspots |-> 2]),
     crowded   |-> Row([wns |-> 0, hold |-> 0, setup |-> 6, skew |-> 7, hotspots |-> 4,
                        utilization |-> 6200, drc |-> 9]),
     buffered  |-> Row([wns |-> -40, hold |-> 2, setup |-> 1, skew |-> 12, fanout |-> 3,
                        power |-> 40, drc |-> 9]),
     clean     |-> Row([wns |-> 0, tns |-> 0, hold |-> 0, setup |-> 0, skew |-> 7,
                        hotspots |-> 0, utilization |-> 6000, power |-> 40, drc |-> 9])]

MCTargetWns == -30

MCStarts == {"congested", NoReport, NoRun}
MCOtherRules == {"routing_detour", "density_saturation"}
=============================================================================
