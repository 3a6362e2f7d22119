---------------------------- MODULE ParamCatalog ----------------------------
(***************************************************************************)
(* The tunable parameters of the Innovus flow, what may be suggested for   *)
(* which stage, and the filter between a suggestion and the next run.      *)
(***************************************************************************)
EXTENDS Integers, TLC

\* A value of a parameter: a word, a number in thousandths, a boolean, or a JSON
\* string that spells a number or a boolean.
Word(w)     == <<"word", w>>
Num(n)      == <<"number", n>>
Bool(b)     == <<"boolean", IF b THEN 1000 ELSE 0>>
SpeltNum(n) == <<"spelt number", n>>
SpeltBool(b) == <<"spelt boolean", IF b THEN 1000 ELSE 0>>

\* Python's ==, under which True is 1.
Same(v, w) ==
    \/ v = w
    \/ /\ v[1] \in {"number", "boolean"} /\ w[1] \in {"number", "boolean"}
       /\ v[2] = w[2]

Words(S) == {Word(w) : w \in S}
Nums(S)  == {Num(n) : n \in S}
Switch   == {Bool(FALSE), Bool(TRUE)}

\* ParameterSpec: the family, the flow stages named, the sample values.  Commands,
\* impacts, defaults and texts decide nothing here.
Param(family, flow, samples) == [family |-> family, flow |-> flow, samples |-> samples]

----------------------------------------------------------------------------
\* The catalog

Place(samples) == Param("prects", {"place"}, samples)
Flow(samples)  == Param("prects", {"place", "cts", "route"}, samples)

\* The pre-CTS family: congestion, placement and flow efforts; optimisation.
PlacementParams ==
    [design_cong_effort                  |-> Place(Words({"auto", "high"})),
     place_global_cong_effort            |-> Place(Words({"base", "auto", "high", "extreme"})),
     place_cong_effort                   |-> Place(Words({"auto", "low", "high"})),
     place_ppa_2                         |-> Place(Nums({500, 1000, 2000, 3000, 5000, 6000, 10000})),
     place_global_SPP_enhancement        |-> Place(Switch),
     place_global_spp_multipass          |-> Place(Switch),
     place_detail_wire_length_opt_effort |-> Place(Words({"none", "medium", "high"})),
     design_flow_effort_3                |-> Flow(Words({"standard", "extreme"})),
     design_power_effort                 |-> Flow(Words({"base"}) \cup Nums({1, 200, 500, 999})),
     place_ppa_1                         |-> Place(Nums({500, 1000, 1500, 2000})),
     place_max_density                   |-> Place(Nums({750, 800, 850, 900}))]

OptimizationParams ==
    [opt_all_end_points    |-> Place(Switch),
     opt_fix_fanout_load   |-> Place(Switch),
     opt_max_length        |-> Place(Nums({-1000})),
     opt_podv2_flow_effort |-> Place(Words({"auto", "standard", "extreme"})),
     opt_skew_pre_cts      |-> Place(Switch),
     prects_multibit       |-> Place(Nums({0, 1000, 2000, 3000})),
     prects_usk            |-> Place(Switch)]

CtsParams ==
    LET Cts(samples) == Param("cts", {"cts"}, samples)
    IN [cts_clone_clock_gates |-> Cts(Switch),
        cts_ppa_2             |-> Cts(Switch),
        cts_target_skew_1     |-> Cts(Words({"base", "v0", "v1", "v2", "v3"})),
        cts_use_inverters     |-> Cts({Word("auto"), Bool(TRUE)}),
        postcts_multibit_1    |-> Cts(Nums({0, 1000, 2000, 3000}))]

PostctsParams == [postcts_ppa_2 |-> Param("postcts", {"cts"}, Switch)]

RouteParams ==
    [route_ppa_2 |-> Param("route", {"route"}, Switch),
     route_ppa_3 |-> Param("route", {"route"}, Switch)]

PostrouteParams ==
    [design_flow_effort_2 |-> Param("postroute", {"route", "signoff"}, Words({"standard", "extreme"})),
     route_timing_driven  |-> Param("global", {"route"}, Switch)]

Params == PlacementParams @@ OptimizationParams @@ CtsParams @@ PostctsParams
              @@ RouteParams @@ PostrouteParams

StageAliases ==
    [synth     |-> {"global"},
     floorplan |-> {"global"},
     powerplan |-> {"global"},
     place     |-> {"prects", "global"},
     cts       |-> {"cts", "postcts", "global"},
     route     |-> {"route", "postroute", "global"},
     signoff   |-> {"postroute", "global"}]

\* get_flow_stage_params: names only.
FlowStageParams(stage) ==
    {p \in DOMAIN Params :
        /\ stage \in DOMAIN StageAliases
        /\ Params[p].family \in StageAliases[stage] \/ stage \in Params[p].flow}

----------------------------------------------------------------------------
\* Rule-based suggestions

NoParams == [p \in {} |-> Word("none")]

SuggestFor(objective) ==
    CASE objective = "setup" ->
            [place_cong_effort     |-> Word("high"),
             design_flow_effort_3  |-> Word("extreme"),
             opt_all_end_points    |-> Bool(TRUE),
             cts_clone_clock_gates |-> Bool(TRUE),
             postcts_ppa_2         |-> Bool(TRUE),
             design_flow_effort_2  |-> Word("extreme")]
      [] objective = "leakage" ->
            [design_power_effort   |-> Num(999),
             opt_podv2_flow_effort |-> Word("extreme"),
             cts_clone_clock_gates |-> Bool(FALSE),
             postcts_ppa_2         |-> Bool(FALSE)]
      [] objective = "dynamic" ->
            [design_power_effort          |-> Num(1),
             place_global_SPP_enhancement |-> Bool(TRUE),
             cts_clone_clock_gates        |-> Bool(FALSE)]
      [] objective = "area" ->
            [cts_clone_clock_gates |-> Bool(FALSE),
             design_flow_effort_3  |-> Word("standard"),
             postcts_ppa_2         |-> Bool(FALSE),
             opt_fix_fanout_load   |-> Bool(FALSE)]
      [] objective = "congestion" ->
            [design_cong_effort       |-> Word("high"),
             place_global_cong_effort |-> Word("extreme"),
             route_ppa_2              |-> Bool(TRUE),
             route_ppa_3              |-> Bool(TRUE)]

Only(raw, names) == [p \in DOMAIN raw \cap names |-> raw[p]]

\* suggest_params without an answer of the LLM: the Innovus branch goes by the
\* stage of the run, the other by the figures, in tenths of a nanosecond, and the
\* parameters of the run.  An absent figure counts as 0.
HeuristicInnovus(stage, objective) == Only(SuggestFor(objective), FlowStageParams(stage))

\* What Python's float() accepts.
Numeric == {"number", "boolean", "spelt number"}

Known(params, p) == p \in DOMAIN params /\ params[p][1] \in Numeric

HeuristicOrfs(wns, fep, params) ==
    LET period == IF wns < -5 /\ Known(params, "CLOCK_PERIOD")
                    THEN [CLOCK_PERIOD |-> Num(params.CLOCK_PERIOD[2] + 500)]
                    ELSE IF wns >= -5 /\ wns < -1
                           THEN [TNS_END_PERCENT |-> Num(20000)]
                           ELSE NoParams
        lower  == params.CORE_UTILIZATION[2] - 5000
        area   == IF fep > 10 /\ Known(params, "CORE_UTILIZATION")
                    THEN [CORE_UTILIZATION |-> Num(IF lower < 10000 THEN 10000 ELSE lower)]
                    ELSE NoParams
    IN period @@ area

----------------------------------------------------------------------------
\* The filter

Coerce(value, samples) ==
    CASE value[1] = "spelt boolean" -> <<"boolean", value[2]>>
      [] /\ value[1] = "spelt number"
         /\ \E s \in samples : s[1] = "number" -> Num(value[2])
      [] OTHER -> value

InSamples(value, samples) == \E s \in samples : Same(value, s)

\* Faulty variant: the stage is not looked at.
FilterAnyStage(raw, backend, stage) ==
    IF backend = "innovus"
      THEN [p \in {q \in DOMAIN raw \cap DOMAIN Params :
                      InSamples(Coerce(raw[q], Params[q].samples), Params[q].samples)} |->
                Coerce(raw[p], Params[p].samples)]
      ELSE Only(raw, {p \in DOMAIN raw : raw[p][1] \in Numeric})

Filter(raw, backend, stage) ==
    IF backend = "innovus"
      THEN [p \in {q \in DOMAIN raw \cap FlowStageParams(stage) :
                      InSamples(Coerce(raw[q], Params[q].samples), Params[q].samples)} |->
                Coerce(raw[p], Params[p].samples)]
      ELSE Only(raw, {p \in DOMAIN raw : raw[p][1] \in Numeric})

\* What a stage of a backend may be run with.
Admissible(params, backend, stage) ==
    \A p \in DOMAIN params :
        IF backend = "innovus"
          THEN p \in FlowStageParams(stage) /\ InSamples(params[p], Params[p].samples)
          ELSE params[p][1] \in Numeric
=============================================================================
