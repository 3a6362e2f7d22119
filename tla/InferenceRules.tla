--------------------------- MODULE InferenceRules ---------------------------
(***************************************************************************)
(* The rules of the root-cause inference, how they score the figures of a  *)
(* run, and what is tried against the cause that leads.  Times are in      *)
(* hundredths of ns, shares, weights and overflows in hundredths.          *)
(***************************************************************************)
EXTENDS Integers, Sequences, FiniteSetsExt, ParamCatalog

CONSTANT Absent             \* None: a figure the database does not have

Condition(feature, op, threshold, weight) ==
    [feature |-> feature, op |-> op, threshold |-> threshold, weight |-> weight]

Experiment(risk, hint) == [risk |-> risk, hint |-> hint]

Rule(conditions, antiConditions, minScore, experiments) ==
    [conditions |-> conditions, antiConditions |-> antiConditions, minScore |-> minScore,
     experiments |-> experiments]

NoHint == NoParams

RoutingDetour ==
    Rule(<<Condition("wns", "<", -20, 35), Condition("hotspots", ">", 3, 30),
          Condition("utilization", ">", 6500, 20), Condition("tns", "<", -100, 15)>>,
         <<Condition("hold", ">", 10, 15)>>, 30,
         <<Experiment("low", [CORE_UTILIZATION |-> Word("-5%")]),
           Experiment("low", [MAX_ROUTING_LAYER_ADJUSTMENT |-> SpeltNum(1000)]),
           Experiment("medium", [PLACE_DENSITY |-> SpeltNum(20)])>>)

CtsSkew ==
    Rule(<<Condition("hold", ">", 0, 40), Condition("skew", ">", 8, 40),
          Condition("setup", "<", 5, 20)>>,
         <<Condition("wns", "<", -50, 20)>>, 30,
         <<Experiment("low", [CTS_MAX_SLEW |-> Word("+10%")]),
           Experiment("low", [TNS_END_PERCENT |-> SpeltNum(0)])>>)

OverBuffering ==
    Rule(<<Condition("fanout", ">", 0, 35), Condition("power", ">", 0, 20),
          Condition("slew", ">", 0, 30), Condition("hotspots", ">", 2, 15)>>,
         <<Condition("wns", "<", -100, 15)>>, 25,
         <<Experiment("low", [MAX_FANOUT |-> Word("+20%")]), Experiment("medium", NoHint)>>)

DensitySaturation ==
    Rule(<<Condition("utilization", ">", 7500, 45), Condition("hotspots", ">", 5, 30),
          Condition("overflow", ">", 50, 25)>>,
         <<>>, 30,
         <<Experiment("low", [CORE_UTILIZATION |-> SpeltNum(70000)]),
           Experiment("medium", [DIE_AREA |-> Word("expand")])>>)

HoldMarginTight ==
    Rule(<<Condition("hold", ">", 3, 50), Condition("skew", "<", 6, 30),
          Condition("wns", ">", -10, 20)>>,
         <<Condition("skew", ">", 10, 25)>>, 30,
         <<Experiment("low", [HOLD_SLACK_MARGIN |-> SpeltNum(50)]), Experiment("low", NoHint)>>)

DrcRoutingCongestion ==
    Rule(<<Condition("drc", ">", 5, 45), Condition("hotspots", ">", 3, 35),
          Condition("utilization", ">", 6000, 20)>>,
         <<>>, 30,
         <<Experiment("low", [GRT_OVERFLOW_ITERS |-> SpeltNum(40000)]),
           Experiment("low", [CORE_UTILIZATION |-> Word("-5%")]),
           Experiment("medium", [ENABLE_MULTI_CUT_VIA |-> SpeltNum(1000)])>>)

\* RULES in their order, which decides between equal scores: the sort is stable.
RuleOrder == <<"routing_detour", "cts_skew", "over_buffering", "density_saturation",
               "hold_margin_tight", "drc_routing_congestion">>

Catalog == [routing_detour         |-> RoutingDetour,
            cts_skew               |-> CtsSkew,
            over_buffering         |-> OverBuffering,
            density_saturation     |-> DensitySaturation,
            hold_margin_tight      |-> HoldMarginTight,
            drc_routing_congestion |-> DrcRoutingCongestion]

Rules == DOMAIN Catalog

----------------------------------------------------------------------------
\* The features: five queries, each of one table

Timing == {"wns", "tns", "hold", "setup", "skew", "fanout", "slew"}
Tables == <<Timing, {"hotspots", "overflow"}, {"utilization"}, {"power"}, {"drc"}>>
Features == UNION {Tables[i] : i \in DOMAIN Tables}

\* What a run that has no rows in these tables has.
NoFigures == [f \in Features |-> Absent]

\* Faulty variant: what is missing counts as 0.
ExtractZero(figures, answered) ==
    Only(figures, {f \in Features : figures[f] # Absent}) @@ [f \in Features |-> 0]

\* The query of power names columns that power_summary does not have: it always raises,
\* and that of drc, after it, is never made.
Readable == 3

\* extract_features, when as many queries are answered before one fails: hotspots are
\* counted, so that a run without any has 0.
Extract(figures, answered) ==
    LET read == UNION {Tables[i] : i \in 1 .. answered}
    IN [f \in Features |->
           IF f \in read
             THEN IF f = "hotspots" /\ figures[f] = Absent THEN 0 ELSE figures[f]
             ELSE Absent]

----------------------------------------------------------------------------
\* Scores

\* A feature that is absent meets no condition.
Met(c, features) ==
    LET value == features[c.feature]
    IN value # Absent /\ IF c.op = ">" THEN value > c.threshold ELSE value < c.threshold

Weight(conditions, features) ==
    LET sum[i \in 0 .. Len(conditions)] ==
            IF i = 0 THEN 0
            ELSE sum[i - 1] + (IF Met(conditions[i], features) THEN conditions[i].weight ELSE 0)
    IN sum[Len(conditions)]

\* The weights of each rule's conditions add up to 100.
RawScore(rule, features) ==
    Max({0, Weight(Catalog[rule].conditions, features)
              - Weight(Catalog[rule].antiConditions, features)})

RawScores(features) == {<<r, RawScore(r, features)>> : r \in Rules}

\* Weights are in hundredths and multipliers in fortieths, so that a score of 1.0, where it
\* is capped, is 4000.
Adjusted(raw, multiplier) ==
    IF raw * multiplier < 4000 THEN raw * multiplier ELSE 4000

NoCause == "none"

\* The rules that fire.
Hypotheses(raw, multipliers) ==
    {h \in {[cause |-> s[1], score |-> Adjusted(s[2], multipliers[s[1]])] : s \in raw} :
        h.score >= Catalog[h.cause].minScore * 40}

Position(cause) == CHOOSE i \in DOMAIN RuleOrder : RuleOrder[i] = cause

\* The top hypothesis.  What is below it, and the cut at three, is RuleFeedback's.
Leading(hypotheses) ==
    IF hypotheses = {}
      THEN [cause |-> NoCause, score |-> 0]
      ELSE CHOOSE h \in hypotheses : \A g \in hypotheses :
               \/ g.score < h.score
               \/ g.score = h.score /\ Position(h.cause) <= Position(g.cause)

----------------------------------------------------------------------------
\* From a cause to the parameters of the next run

\* The first of low risk, else the first.
SelectExperiment(cause) ==
    LET experiments == Catalog[cause].experiments
        low == {i \in DOMAIN experiments : experiments[i].risk = "low"}
    IN experiments[IF low = {} THEN 1 ELSE Min(low)]

\* A hint that spells a number becomes one; a relative one stays the text it is.
ExperimentToParams(experiment) ==
    [p \in DOMAIN experiment.hint |->
        IF experiment.hint[p][1] = "spelt number" THEN Num(experiment.hint[p][2])
        ELSE experiment.hint[p]]
=============================================================================
