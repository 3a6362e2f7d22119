----------------------- MODULE OptimizationLoopProofs -----------------------
(***************************************************************************)
(* For any figures, thresholds, multipliers moved by others, iterations    *)
(* and failures: the types of OptimizationLoop and its safety properties.  *)
(* A cause is confirmed several steps after the inference that named it,   *)
(* so the invariant says what the diagnosis, the run and the verdict of    *)
(* an iteration refer to at each step.  That a partial reading never       *)
(* invents evidence is a fact about the rules: counter-evidence comes from *)
(* the table that is read first.                                           *)
(***************************************************************************)
EXTENDS OptimizationLoop, FiniteSetTheorems, WellFoundedInduction, TLAPS

Looping == {"infer", "skip", "run", "save", "verify", "target", "trace", "confirm", "next"}
Tried   == {"run", "save", "verify", "target", "trace", "confirm"}
Judging == {"target", "trace", "confirm"}

\* How runs are numbered: each starts from the one before it.
Numbered ==
    /\ pc = "create" => iteration = 0 /\ current = 0
    /\ pc \in Looping => current + 1 = iteration
    /\ \A r \in runs : /\ r.parent + 1 = r.id /\ r.id <= iteration
                       /\ pc \in {"infer", "skip", "run", "save"} => r.id < iteration
    /\ \A r, s \in runs : r.id = s.id => r = s

\* The rows of runs and the reports of runs go together; a failed run has none.
Kept ==
    /\ \A n \in DOMAIN stored : n = 0 \/ \E r \in runs : r.id = n
    /\ \A r \in runs : /\ r.id \in DOMAIN stored
                       /\ r.status = "failed" => stored[r.id] = NoReport

\* What the current diagnosis rests on.
Diagnosed ==
    pc \in Tried =>
        /\ inference.run = current /\ inference.cause \in Rules
        /\ RawScore(inference.cause, FiguresOf(ReportOf(current))) > 0
        /\ inference.id # NoId =>
              /\ inference.id = [run |-> current, purpose |-> "diagnose"]
              /\ [id |-> inference.id, cause |-> inference.cause] \in rows

\* What the run of the current iteration is, once it was saved.
Made ==
    /\ pc \in {"verify", "target"} => result = "success"
    /\ pc \in Judging \cup {"verify"} =>
        \A r \in runs : r.id = iteration =>
            /\ r.inference = inference.id /\ r.cause = inference.cause
            /\ r.status = result

\* What a verdict rests on: unless something failed or moved the multipliers, no score
\* below the threshold hides a cause that has not subsided.
Judged ==
    /\ others = 0 /\ chosen = {} => multipliers = NoMultipliers
    /\ converged => result = "success" /\ pc \in {"trace", "confirm"} \cup Ended
    /\ pc = "confirm" => converged
    /\ pc \in {"trace", "confirm"} /\ converged => ScoreDropped
    /\ pc \in Judging /\ result = "success" /\ others = 0 /\ faults = 0 /\ ScoreDropped =>
           \A cause \in Rules : Subsided(cause, ReportOf(iteration))
    /\ chosen # {} => pc = "done"

Safe == ExperimentOnEvidence /\ LineageAgrees /\ RewardEarned
IndInv == TypeOK /\ Numbered /\ Kept /\ Diagnosed /\ Made /\ Judged /\ Safe

----------------------------------------------------------------------------
\* Weights: what a list of at most four conditions adds up to

Part(C, f, i) == IF i <= Len(C) /\ Met(C[i], f) THEN C[i].weight ELSE 0

\* The partial sums of Weight.
Sums(C, f) ==
    CHOOSE sum : sum = [i \in 0 .. Len(C) |->
        IF i = 0 THEN 0
        ELSE sum[i - 1] + (IF Met(C[i], f) THEN C[i].weight ELSE 0)]

LEMMA WeightUnrolled ==
    ASSUME NEW C, NEW f, Len(C) \in 0 .. 4, \A i \in 1 .. Len(C) : C[i].weight \in Nat
    PROVE  Weight(C, f) = Part(C, f, 1) + Part(C, f, 2) + Part(C, f, 3) + Part(C, f, 4)
  <1> DEFINE w(i) == IF Met(C[i], f) THEN C[i].weight ELSE 0
             s == [i \in 0 .. Len(C) |->
                      IF i = 0 THEN 0
                      ELSE IF i = 1 THEN w(1)
                      ELSE IF i = 2 THEN w(1) + w(2)
                      ELSE IF i = 3 THEN w(1) + w(2) + w(3)
                      ELSE w(1) + w(2) + w(3) + w(4)]
             t == Sums(C, f)
  <1>1. \A i \in 1 .. Len(C) : w(i) \in Nat
    OBVIOUS
  <1>2. s = [i \in 0 .. Len(C) |-> IF i = 0 THEN 0 ELSE s[i - 1] + w(i)]
    <2> HIDE DEF w
    <2> SUFFICES ASSUME NEW i \in 0 .. Len(C)
                 PROVE  s[i] = IF i = 0 THEN 0 ELSE s[i - 1] + w(i)
      OBVIOUS
    <2>1. i = 0 \/ i = 1 \/ i = 2 \/ i = 3 \/ i = 4
      OBVIOUS
    <2>2. \A j \in 0 .. Len(C) :
             s[j] = IF j = 0 THEN 0
                    ELSE IF j = 1 THEN w(1)
                    ELSE IF j = 2 THEN w(1) + w(2)
                    ELSE IF j = 3 THEN w(1) + w(2) + w(3)
                    ELSE w(1) + w(2) + w(3) + w(4)
      OBVIOUS
    <2> HIDE DEF s
    <2>3. CASE i = 0
      BY <2>2, <2>3
    <2>4. CASE i = 1
      <3>1. s[1] = w(1) /\ s[0] = 0
        BY <2>2, <2>4
      <3> QED
        BY <1>1, <2>4, <3>1
    <2>5. CASE i = 2
      <3>1. s[2] = w(1) + w(2) /\ s[1] = w(1)
        BY <2>2, <2>5
      <3> QED
        BY <1>1, <2>5, <3>1
    <2>6. CASE i = 3
      <3>1. s[3] = w(1) + w(2) + w(3) /\ s[2] = w(1) + w(2)
        BY <2>2, <2>6
      <3> QED
        BY <1>1, <2>6, <3>1
    <2>7. CASE i = 4
      <3>1. s[4] = w(1) + w(2) + w(3) + w(4) /\ s[3] = w(1) + w(2) + w(3)
        BY <2>2, <2>7
      <3> QED
        BY <1>1, <2>7, <3>1
    <2> QED
      BY <2>1, <2>3, <2>4, <2>5, <2>6, <2>7
  <1>3. Weight(C, f) = t[Len(C)]
    BY DEF Weight, Sums
  <1>4. t = [i \in 0 .. Len(C) |-> IF i = 0 THEN 0 ELSE t[i - 1] + w(i)]
    BY <1>2 DEF Sums
  <1>5. \A i \in 1 .. 4 : Part(C, f, i) = IF i <= Len(C) THEN w(i) ELSE 0
    BY DEF Part
  <1> HIDE DEF w, s, t
  <1>6. t[0] = 0
    BY <1>4
  <1>7. Len(C) >= 1 => t[1] = w(1)
    BY <1>1, <1>4, <1>6
  <1>8. Len(C) >= 2 => t[2] = w(1) + w(2)
    BY <1>1, <1>4, <1>7
  <1>9. Len(C) >= 3 => t[3] = w(1) + w(2) + w(3)
    BY <1>1, <1>4, <1>8
  <1>10. Len(C) >= 4 => t[4] = w(1) + w(2) + w(3) + w(4)
    BY <1>1, <1>4, <1>9
  <1>11. CASE Len(C) = 0
    BY <1>3, <1>5, <1>6, <1>11
  <1>12. CASE Len(C) = 1
    BY <1>1, <1>3, <1>5, <1>7, <1>12
  <1>13. CASE Len(C) = 2
    BY <1>1, <1>3, <1>5, <1>8, <1>13
  <1>14. CASE Len(C) = 3
    BY <1>1, <1>3, <1>5, <1>9, <1>14
  <1>15. CASE Len(C) = 4
    BY <1>1, <1>3, <1>5, <1>10, <1>15
  <1> QED
    BY <1>11, <1>12, <1>13, <1>14, <1>15

\* The more conditions are met, the greater the weight.
LEMMA WeightMonotone ==
    ASSUME NEW C, NEW f, NEW g, Len(C) \in 0 .. 4, \A i \in 1 .. Len(C) : C[i].weight \in Nat,
           \A i \in 1 .. Len(C) : Met(C[i], f) => Met(C[i], g)
    PROVE  Weight(C, f) \in Nat /\ Weight(C, g) \in Nat /\ Weight(C, f) <= Weight(C, g)
  <1>1. \A i \in 1 .. 4 : /\ Part(C, f, i) \in Nat /\ Part(C, g, i) \in Nat
                          /\ Part(C, f, i) <= Part(C, g, i)
    BY DEF Part
  <1>2. Weight(C, f) = Part(C, f, 1) + Part(C, f, 2) + Part(C, f, 3) + Part(C, f, 4)
    BY WeightUnrolled
  <1>3. Weight(C, g) = Part(C, g, 1) + Part(C, g, 2) + Part(C, g, 3) + Part(C, g, 4)
    BY WeightUnrolled
  <1>4. \A a, b, c, d, p, q, r, s \in Nat :
            a <= p /\ b <= q /\ c <= r /\ d <= s => a + b + c + d <= p + q + r + s
    OBVIOUS
  <1>5. 1 \in 1 .. 4 /\ 2 \in 1 .. 4 /\ 3 \in 1 .. 4 /\ 4 \in 1 .. 4
    OBVIOUS
  <1>6. Weight(C, f) \in Nat /\ Weight(C, g) \in Nat
    BY <1>1, <1>2, <1>3, <1>5
  <1>7. Weight(C, f) <= Weight(C, g)
    BY <1>1, <1>2, <1>3, <1>4, <1>5
  <1> QED
    BY <1>6, <1>7

\* Nothing met weighs nothing.
LEMMA WeightNone ==
    ASSUME NEW C, NEW f, Len(C) \in 0 .. 4, \A i \in 1 .. Len(C) : C[i].weight \in Nat,
           \A i \in 1 .. Len(C) : ~Met(C[i], f)
    PROVE  Weight(C, f) = 0
  <1>1. \A i \in 1 .. 4 : Part(C, f, i) = 0
    BY DEF Part
  <1> QED
    BY <1>1, WeightUnrolled

----------------------------------------------------------------------------
\* The rules

\* A condition that a partial reading can only lose: hotspots are counted, so that it
\* must not be met by the 0 of a reading without any.
Fit(c) ==
    /\ c.weight \in Nat /\ c.feature \in Features
    /\ c.feature = "hotspots" => c.op = ">" /\ c.threshold \in Nat

Sound(C) == Len(C) \in 0 .. 4 /\ \A i \in 1 .. Len(C) : Fit(C[i])

Early(C) == \A i \in 1 .. Len(C) : C[i].feature \in Timing

Plain == Timing \cup {"utilization", "power", "drc", "overflow"}

LEMMA FeatureNames ==
    /\ Timing \subseteq Features /\ "hotspots" \in Features /\ "hotspots" \notin Timing
    /\ {"utilization", "power", "drc", "overflow"} \subseteq Features
    /\ Len(Tables) = 5 /\ Tables[1] = Timing
    /\ UNION {Tables[i] : i \in 1 .. 5} = Features
  <1>1. Len(Tables) = 5 /\ DOMAIN Tables = 1 .. 5 /\ Tables[1] = Timing
    BY DEF Tables
  <1>2. /\ Tables[2] = {"hotspots", "overflow"} /\ Tables[3] = {"utilization"}
        /\ Tables[4] = {"power"} /\ Tables[5] = {"drc"}
    BY DEF Tables
  <1>3. UNION {Tables[i] : i \in 1 .. 5} = Features
    BY <1>1 DEF Features
  <1>4. \A i \in 1 .. 5 : Tables[i] \subseteq Features
    BY <1>3
  <1> HIDE DEF Tables
  <1>5. /\ Timing \subseteq Features /\ {"hotspots", "overflow"} \subseteq Features
        /\ {"utilization"} \subseteq Features /\ {"power"} \subseteq Features
        /\ {"drc"} \subseteq Features
    BY <1>1, <1>2, <1>4
  <1>6. "hotspots" \notin Timing
    BY DEF Timing
  <1> QED
    BY <1>1, <1>3, <1>5, <1>6

LEMMA SoundLists ==
    /\ Sound(<<>>) /\ Early(<<>>)
    /\ \A a : Fit(a) => Sound(<<a>>) /\ (a.feature \in Timing => Early(<<a>>))
    /\ \A a, b, c : Fit(a) /\ Fit(b) /\ Fit(c) => Sound(<<a, b, c>>)
    /\ \A a, b, c, d : Fit(a) /\ Fit(b) /\ Fit(c) /\ Fit(d) => Sound(<<a, b, c, d>>)
  BY DEF Sound, Early

LEMMA Fits ==
    ASSUME NEW feature \in Plain,
           NEW op, NEW threshold, NEW weight \in Nat
    PROVE  /\ Fit(Condition(feature, op, threshold, weight))
           /\ Condition(feature, op, threshold, weight).feature = feature
  BY FeatureNames DEF Fit, Condition, Plain

LEMMA HotspotsFit ==
    ASSUME NEW threshold \in Nat, NEW weight \in Nat
    PROVE  Fit(Condition("hotspots", ">", threshold, weight))
  BY FeatureNames DEF Fit, Condition

LEMMA CatalogSound ==
    ASSUME NEW r \in Rules
    PROVE  /\ Sound(Catalog[r].conditions) /\ Sound(Catalog[r].antiConditions)
           /\ Early(Catalog[r].antiConditions)
           /\ Catalog[r].minScore \in Nat
           /\ 1 <= Catalog[r].minScore /\ Catalog[r].minScore <= 100
  <1>1. /\ "wns" \in Plain /\ "tns" \in Plain /\ "hold" \in Plain /\ "setup" \in Plain
        /\ "skew" \in Plain /\ "fanout" \in Plain /\ "slew" \in Plain
        /\ "utilization" \in Plain /\ "power" \in Plain /\ "drc" \in Plain
        /\ "overflow" \in Plain
        /\ {"wns", "hold", "skew"} \subseteq Timing
    BY DEF Plain, Timing
  <1>2. CASE r = "routing_detour"
    <2> DEFINE C == <<Condition("wns", "<", -20, 35),
                  Condition("hotspots", ">", 3, 30),
                  Condition("utilization", ">", 6500, 20),
                  Condition("tns", "<", -100, 15)>>
               A == <<Condition("hold", ">", 10, 15)>>
    <2>1. Catalog[r].conditions = C /\ Catalog[r].antiConditions = A /\ Catalog[r].minScore = 30
      BY <1>2 DEF Catalog, RoutingDetour, Rule
    <2>2. Sound(C)
      <3>1. /\ Fit(Condition("wns", "<", -20, 35))
            /\ Fit(Condition("hotspots", ">", 3, 30))
            /\ Fit(Condition("utilization", ">", 6500, 20))
            /\ Fit(Condition("tns", "<", -100, 15))
        BY Fits, HotspotsFit, <1>1
      <3> QED
        BY <3>1, SoundLists
    <2>3. Sound(A) /\ Early(A)
      BY Fits, SoundLists, <1>1
    <2> HIDE DEF C, A
    <2> QED
      BY <2>1, <2>2, <2>3
  <1>3. CASE r = "cts_skew"
    <2> DEFINE C == <<Condition("hold", ">", 0, 40),
                  Condition("skew", ">", 8, 40),
                  Condition("setup", "<", 5, 20)>>
               A == <<Condition("wns", "<", -50, 20)>>
    <2>1. Catalog[r].conditions = C /\ Catalog[r].antiConditions = A /\ Catalog[r].minScore = 30
      BY <1>3 DEF Catalog, CtsSkew, Rule
    <2>2. Sound(C)
      <3>1. /\ Fit(Condition("hold", ">", 0, 40))
            /\ Fit(Condition("skew", ">", 8, 40))
            /\ Fit(Condition("setup", "<", 5, 20))
        BY Fits, HotspotsFit, <1>1
      <3> QED
        BY <3>1, SoundLists
    <2>3. Sound(A) /\ Early(A)
      BY Fits, SoundLists, <1>1
    <2> HIDE DEF C, A
    <2> QED
      BY <2>1, <2>2, <2>3
  <1>4. CASE r = "over_buffering"
    <2> DEFINE C == <<Condition("fanout", ">", 0, 35),
                  Condition("power", ">", 0, 20),
                  Condition("slew", ">", 0, 30),
                  Condition("hotspots", ">", 2, 15)>>
               A == <<Condition("wns", "<", -100, 15)>>
    <2>1. Catalog[r].conditions = C /\ Catalog[r].antiConditions = A /\ Catalog[r].minScore = 25
      BY <1>4 DEF Catalog, OverBuffering, Rule
    <2>2. Sound(C)
      <3>1. /\ Fit(Condition("fanout", ">", 0, 35))
            /\ Fit(Condition("power", ">", 0, 20))
            /\ Fit(Condition("slew", ">", 0, 30))
            /\ Fit(Condition("hotspots", ">", 2, 15))
        BY Fits, HotspotsFit, <1>1
      <3> QED
        BY <3>1, SoundLists
    <2>3. Sound(A) /\ Early(A)
      BY Fits, SoundLists, <1>1
    <2> HIDE DEF C, A
    <2> QED
      BY <2>1, <2>2, <2>3
  <1>5. CASE r = "density_saturation"
    <2> DEFINE C == <<Condition("utilization", ">", 7500, 45),
                  Condition("hotspots", ">", 5, 30),
                  Condition("overflow", ">", 50, 25)>>
               A == <<>>
    <2>1. Catalog[r].conditions = C /\ Catalog[r].antiConditions = A /\ Catalog[r].minScore = 30
      BY <1>5 DEF Catalog, DensitySaturation, Rule
    <2>2. Sound(C)
      <3>1. /\ Fit(Condition("utilization", ">", 7500, 45))
            /\ Fit(Condition("hotspots", ">", 5, 30))
            /\ Fit(Condition("overflow", ">", 50, 25))
        BY Fits, HotspotsFit, <1>1
      <3> QED
        BY <3>1, SoundLists
    <2>3. Sound(A) /\ Early(A)
      BY Fits, SoundLists, <1>1
    <2> HIDE DEF C, A
    <2> QED
      BY <2>1, <2>2, <2>3
  <1>6. CASE r = "hold_margin_tight"
    <2> DEFINE C == <<Condition("hold", ">", 3, 50),
                  Condition("skew", "<", 6, 30),
                  Condition("wns", ">", -10, 20)>>
               A == <<Condition("skew", ">", 10, 25)>>
    <2>1. Catalog[r].conditions = C /\ Catalog[r].antiConditions = A /\ Catalog[r].minScore = 30
      BY <1>6 DEF Catalog, HoldMarginTight, Rule
    <2>2. Sound(C)
      <3>1. /\ Fit(Condition("hold", ">", 3, 50))
            /\ Fit(Condition("skew", "<", 6, 30))
            /\ Fit(Condition("wns", ">", -10, 20))
        BY Fits, HotspotsFit, <1>1
      <3> QED
        BY <3>1, SoundLists
    <2>3. Sound(A) /\ Early(A)
      BY Fits, SoundLists, <1>1
    <2> HIDE DEF C, A
    <2> QED
      BY <2>1, <2>2, <2>3
  <1>7. CASE r = "drc_routing_congestion"
    <2> DEFINE C == <<Condition("drc", ">", 5, 45),
                  Condition("hotspots", ">", 3, 35),
                  Condition("utilization", ">", 6000, 20)>>
               A == <<>>
    <2>1. Catalog[r].conditions = C /\ Catalog[r].antiConditions = A /\ Catalog[r].minScore = 30
      BY <1>7 DEF Catalog, DrcRoutingCongestion, Rule
    <2>2. Sound(C)
      <3>1. /\ Fit(Condition("drc", ">", 5, 45))
            /\ Fit(Condition("hotspots", ">", 3, 35))
            /\ Fit(Condition("utilization", ">", 6000, 20))
        BY Fits, HotspotsFit, <1>1
      <3> QED
        BY <3>1, SoundLists
    <2>3. Sound(A) /\ Early(A)
      BY Fits, SoundLists, <1>1
    <2> HIDE DEF C, A
    <2> QED
      BY <2>1, <2>2, <2>3
  <1> QED
    BY <1>2, <1>3, <1>4, <1>5, <1>6, <1>7 DEF Rules, Catalog

----------------------------------------------------------------------------
\* Scores

LEMMA MaxZero ==
    ASSUME NEW x \in Int
    PROVE  Max({0, x}) = IF x > 0 THEN x ELSE 0
  <1> DEFINE P(m) == m \in {0, x} /\ \A y \in {0, x} : m >= y
  <1>1. P(IF x > 0 THEN x ELSE 0)
    OBVIOUS
  <1>2. \A m, n : P(m) /\ P(n) => m = n
    OBVIOUS
  <1>3. Max({0, x}) = CHOOSE m : P(m)
    BY DEF Max
  <1> HIDE DEF P
  <1>4. P(CHOOSE m : P(m))
    BY <1>1
  <1> QED
    BY <1>1, <1>2, <1>3, <1>4

\* A score is the weight of the evidence less that of the counter-evidence, or 0.
LEMMA ScoreIsWeights ==
    ASSUME NEW r \in Rules, NEW f
    PROVE  /\ Weight(Catalog[r].conditions, f) \in Nat
           /\ Weight(Catalog[r].antiConditions, f) \in Nat
           /\ RawScore(r, f) =
                 IF Weight(Catalog[r].conditions, f) > Weight(Catalog[r].antiConditions, f)
                   THEN Weight(Catalog[r].conditions, f) - Weight(Catalog[r].antiConditions, f)
                   ELSE 0
           /\ RawScore(r, f) \in Nat
  <1> DEFINE a == Weight(Catalog[r].conditions, f)
             b == Weight(Catalog[r].antiConditions, f)
  <1>1. a \in Nat /\ b \in Nat
    BY CatalogSound, WeightMonotone DEF Sound, Fit
  <1>2. RawScore(r, f) = Max({0, a - b})
    BY DEF RawScore
  <1> HIDE DEF a, b
  <1>3. RawScore(r, f) = IF a - b > 0 THEN a - b ELSE 0
    BY <1>1, <1>2, MaxZero
  <1> QED
    BY <1>1, <1>3 DEF a, b

\* Where there are no figures nothing scores.
LEMMA NothingScores ==
    ASSUME NEW r \in Rules
    PROVE  RawScore(r, NoFigures) = 0
  <1> DEFINE C == Catalog[r].conditions
  <1>1. Sound(C)
    BY CatalogSound
  <1> HIDE DEF C
  <1>2. \A i \in 1 .. Len(C) : ~Met(C[i], NoFigures)
    BY <1>1 DEF Sound, Fit, Met, NoFigures
  <1>3. Weight(C, NoFigures) = 0
    BY <1>1, <1>2, WeightNone DEF Sound, Fit
  <1> QED
    BY <1>3, ScoreIsWeights DEF C

AllFigures == [Features -> Int \cup {Absent}]

\* What is read of a figure.
LEMMA Reading ==
    ASSUME NEW f \in AllFigures, NEW n \in 0 .. 5, NEW c, Fit(c)
    PROVE  /\ Met(c, Extract(f, n)) => n > 0 /\ Met(c, f)
           /\ n > 0 /\ c.feature \in Timing => (Met(c, Extract(f, n)) <=> Met(c, f))
  <1> DEFINE read == UNION {Tables[i] : i \in 1 .. n}
             x == f[c.feature]
             y == Extract(f, n)[c.feature]
  <1>1. y = IF c.feature \in read
              THEN IF c.feature = "hotspots" /\ x = Absent THEN 0 ELSE x
              ELSE Absent
    BY DEF Extract, Fit
  <1>2. n = 0 => c.feature \notin read
    OBVIOUS
  <1>3. n > 0 => Timing \subseteq read
    BY FeatureNames
  <1>4. c.feature \in Timing => c.feature # "hotspots"
    BY FeatureNames
  <1>5. /\ Met(c, f) <=> x # Absent /\ IF c.op = ">" THEN x > c.threshold
                                                    ELSE x < c.threshold
        /\ Met(c, Extract(f, n)) <=> y # Absent /\ IF c.op = ">" THEN y > c.threshold
                                                                ELSE y < c.threshold
    BY DEF Met
  <1>6. c.feature \notin read => y = Absent
    BY <1>1
  <1>7. \/ y = x
        \/ y = Absent /\ c.feature \notin read
        \/ y = 0 /\ x = Absent /\ c.feature = "hotspots" /\ c.op = ">" /\ c.threshold \in Nat
    BY <1>1 DEF Fit
  <1> HIDE DEF read, x, y
  <1> QED
    BY <1>2, <1>3, <1>4, <1>5, <1>6, <1>7

\* A partial reading never invents evidence.
LEMMA ReadingScores ==
    ASSUME NEW r \in Rules, NEW f \in AllFigures, NEW n \in 0 .. 5
    PROVE  RawScore(r, Extract(f, n)) <= RawScore(r, f)
  <1> DEFINE C == Catalog[r].conditions
             A == Catalog[r].antiConditions
             e == Extract(f, n)
  <1>1. Sound(C) /\ Sound(A) /\ Early(A)
    BY CatalogSound
  <1>2. /\ Weight(C, e) \in Nat /\ Weight(A, e) \in Nat
        /\ Weight(C, f) \in Nat /\ Weight(A, f) \in Nat
        /\ RawScore(r, e) = IF Weight(C, e) > Weight(A, e) THEN Weight(C, e) - Weight(A, e)
                                                           ELSE 0
        /\ RawScore(r, f) = IF Weight(C, f) > Weight(A, f) THEN Weight(C, f) - Weight(A, f)
                                                           ELSE 0
    BY ScoreIsWeights
  <1> HIDE DEF C, A
  <1>3. /\ \A i \in 1 .. Len(C) : Met(C[i], e) => n > 0 /\ Met(C[i], f)
        /\ n > 0 => \A i \in 1 .. Len(A) : Met(A[i], f) <=> Met(A[i], e)
    BY <1>1, Reading DEF Sound, Early
  <1> HIDE DEF e
  <1>4. Weight(C, e) <= Weight(C, f)
    BY <1>1, <1>3, WeightMonotone DEF Sound, Fit
  <1>5. n > 0 => Weight(A, f) = Weight(A, e)
    <2> SUFFICES ASSUME n > 0 PROVE Weight(A, f) = Weight(A, e)
      OBVIOUS
    <2>1. Weight(A, f) <= Weight(A, e)
      BY <1>1, <1>3, WeightMonotone DEF Sound, Fit
    <2>2. Weight(A, e) <= Weight(A, f)
      BY <1>1, <1>3, WeightMonotone DEF Sound, Fit
    <2> QED
      BY <1>2, <2>1, <2>2
  <1>6. n = 0 => Weight(C, e) = 0
    BY <1>1, <1>3, WeightNone DEF Sound, Fit
  <1>7. CASE n = 0
    BY <1>2, <1>6, <1>7 DEF e
  <1>8. CASE n > 0
    BY <1>2, <1>4, <1>5, <1>8 DEF e
  <1> QED
    BY <1>7, <1>8

----------------------------------------------------------------------------
\* Findings

LEMMA LeastExists ==
    ASSUME NEW K, K \subseteq Nat, K # {}
    PROVE  \E k \in K : \A j \in K : k <= j
  <1>1. PICK k \in K : \A j \in K : ~(<<j, k>> \in OpToRel(<, Nat))
    BY NatLessThanWellFounded, WFMin
  <1>2. \A j \in K : ~(j < k)
    BY <1>1 DEF OpToRel
  <1> QED
    BY <1>2

LEMMA LeastValue ==
    ASSUME NEW S, S # {}, NEW f \in [S -> Nat]
    PROVE  \E x \in S : \A y \in S : f[x] <= f[y]
  <1> DEFINE K == {f[x] : x \in S}
  <1>1. K \subseteq Nat /\ K # {}
    OBVIOUS
  <1> HIDE DEF K
  <1>2. PICK k \in K : \A j \in K : k <= j
    BY <1>1, LeastExists
  <1> QED
    BY <1>2 DEF K

LEMMA Positions == \A r \in Rules : Position(r) \in 1 .. 6
  <1>1. /\ DOMAIN RuleOrder = 1 .. 6
        /\ RuleOrder[1] = "routing_detour" /\ RuleOrder[2] = "cts_skew"
        /\ RuleOrder[3] = "over_buffering" /\ RuleOrder[4] = "density_saturation"
        /\ RuleOrder[5] = "hold_margin_tight" /\ RuleOrder[6] = "drc_routing_congestion"
    BY DEF RuleOrder
  <1>2. Rules = {"routing_detour", "cts_skew", "over_buffering", "density_saturation",
                 "hold_margin_tight", "drc_routing_congestion"}
    BY DEF Rules, Catalog
  <1>3. \A r \in Rules : \E i \in 1 .. 6 : RuleOrder[i] = r
    BY <1>1, <1>2
  <1> QED
    BY <1>1, <1>3 DEF Position

\* The top hypothesis is one that fired, and none scores higher.
LEMMA LeadingIsBest ==
    ASSUME NEW H, H # {},
           \A h \in H : h.cause \in Rules /\ h.score \in Nat /\ h.score <= 4000
    PROVE  Leading(H) \in H /\ \A g \in H : g.score <= Leading(H).score
  <1> DEFINE Best(h) == \A g \in H :
                 \/ g.score < h.score
                 \/ g.score = h.score /\ Position(h.cause) <= Position(g.cause)
             Gap(h) == 4000 - h.score
             Rank(h) == Position(h.cause)
  <1>1. \A h \in H : Gap(h) \in Nat /\ Rank(h) \in Nat /\ h.score \in Int
    <2> SUFFICES ASSUME NEW h \in H
                 PROVE  Gap(h) \in Nat /\ Rank(h) \in Nat /\ h.score \in Int
      OBVIOUS
    <2>1. h.cause \in Rules /\ h.score \in Nat /\ h.score <= 4000
      OBVIOUS
    <2>2. Position(h.cause) \in 1 .. 6
      BY <2>1, Positions
    <2>3. Rank(h) \in Nat
      BY <2>2
    <2>4. Gap(h) \in Nat /\ h.score \in Int
      BY <2>1
    <2> QED
      BY <2>3, <2>4
  <1>2. PICK top \in H : \A g \in H : Gap(top) <= Gap(g)
    <2> DEFINE f == [h \in H |-> Gap(h)]
    <2>1. f \in [H -> Nat]
      BY <1>1
    <2> HIDE DEF f
    <2>2. PICK top \in H : \A g \in H : f[top] <= f[g]
      BY <2>1, LeastValue
    <2> QED
      BY <2>2 DEF f
  <1>3. \A g \in H : g.score <= top.score
    BY <1>1, <1>2
  <1>4. PICK first \in H : /\ first.score = top.score
                           /\ \A g \in H : g.score = top.score => Rank(first) <= Rank(g)
    <2> DEFINE T == {h \in H : h.score = top.score}
               f == [h \in T |-> Rank(h)]
    <2>1. f \in [T -> Nat] /\ T # {}
      BY <1>1
    <2> HIDE DEF f, T
    <2>2. PICK first \in T : \A g \in T : f[first] <= f[g]
      BY <2>1, LeastValue
    <2> QED
      BY <2>2 DEF f, T
  <1>5. Best(first)
    BY <1>1, <1>3, <1>4
  <1>6. Leading(H) = CHOOSE h \in H : Best(h)
    BY DEF Leading
  <1> HIDE DEF Best
  <1>7. Leading(H) \in H /\ Best(Leading(H))
    BY <1>5, <1>6
  <1>8. \A h, g : Best(h) /\ h \in H /\ g \in H => g.score <= h.score
    BY <1>1 DEF Best
  <1> QED
    BY <1>7, <1>8

LEMMA Ranges ==
    /\ \A v : v \in MultiplierRange <=> v \in Int /\ 4 <= v /\ v <= 80
    /\ \A v : v \in ScoreRange <=> v \in Int /\ 0 <= v /\ v <= 4000
  <1>1. \A v : v \in MultiplierRange <=> v \in Int /\ 4 <= v /\ v <= 80
    BY DEF MultiplierRange
  <1>2. \A v : v \in ScoreRange <=> v \in Int /\ 0 <= v /\ v <= 4000
    <2>1. ASSUME NEW v \in ScoreRange PROVE v \in Int /\ 0 <= v /\ v <= 4000
      BY DEF ScoreRange
    <2>2. ASSUME NEW v \in Int, 0 <= v, v <= 4000 PROVE v \in ScoreRange
      BY <2>2 DEF ScoreRange
    <2> QED
      BY <2>1, <2>2
  <1> QED
    BY <1>1, <1>2

LEMMA AdjustedBounds ==
    ASSUME NEW raw \in Nat, NEW m \in MultiplierRange
    PROVE  /\ Adjusted(raw, m) \in Nat /\ Adjusted(raw, m) <= 4000
           /\ raw = 0 => Adjusted(raw, m) = 0
           /\ Adjusted(raw, 40) = IF raw * 40 < 4000 THEN raw * 40 ELSE 4000
  <1>1. raw * m \in Nat
    BY DEF MultiplierRange
  <1>2. raw = 0 => raw * m = 0
    BY DEF MultiplierRange
  <1> QED
    BY <1>1, <1>2 DEF Adjusted

\* The rules that fire, and how they score.
LEMMA HypothesesAre ==
    ASSUME NEW e, NEW m \in [Rules -> MultiplierRange]
    PROVE  /\ \A h \in Hypotheses(RawScores(e), m) :
                 /\ h.cause \in Rules
                 /\ h.score = Adjusted(RawScore(h.cause, e), m[h.cause])
                 /\ h.score >= Catalog[h.cause].minScore * 40
           /\ \A r \in Rules :
                 Adjusted(RawScore(r, e), m[r]) >= Catalog[r].minScore * 40 =>
                     \E h \in Hypotheses(RawScores(e), m) :
                         h.cause = r /\ h.score = Adjusted(RawScore(r, e), m[r])
  <1> DEFINE Hyp(r) == [cause |-> r, score |-> Adjusted(RawScore(r, e), m[r])]
             Fires(h) == h.score >= Catalog[h.cause].minScore * 40
  <1>1. Hypotheses(RawScores(e), m) = {h \in {Hyp(r) : r \in Rules} : Fires(h)}
    <2> DEFINE raw == RawScores(e)
               Of(s) == [cause |-> s[1], score |-> Adjusted(s[2], m[s[1]])]
    <2>1. Hypotheses(raw, m) = {h \in {Of(s) : s \in raw} : Fires(h)}
      BY DEF Hypotheses
    <2>2. \A r \in Rules : Of(<<r, RawScore(r, e)>>) = Hyp(r)
      OBVIOUS
    <2>3. raw = {<<r, RawScore(r, e)>> : r \in Rules}
      BY DEF RawScores
    <2> HIDE DEF raw, Of, Hyp, Fires
    <2>4. {Of(s) : s \in raw} = {Hyp(r) : r \in Rules}
      BY <2>2, <2>3
    <2> QED
      BY <2>1, <2>4 DEF raw
  <1>2. \A r \in Rules : Hyp(r).cause = r /\ Hyp(r).score = Adjusted(RawScore(r, e), m[r])
    OBVIOUS
  <1>3. \A h : Fires(h) <=> h.score >= Catalog[h.cause].minScore * 40
    OBVIOUS
  <1> HIDE DEF Hyp, Fires
  <1> QED
    BY <1>1, <1>2, <1>3

LEMMA ReportFigures ==
    ASSUME NEW report \in Reports
    PROVE  FiguresOf(report) \in AllFigures
  BY FiguresAssumption DEF Reports, FiguresOf, NoFigures, AllFigures

\* What infer finds: evidence in the figures of the run, however little of them it read;
\* and when it read all it can, with untouched multipliers, every cause they tell of.
LEMMA FindingsHold ==
    ASSUME multipliers \in [Rules -> MultiplierRange], NEW run, NEW f \in Findings(run)
    PROVE  /\ f.top \in [cause : Causes, score : ScoreRange]
           /\ f.fault \in BOOLEAN
           /\ f.top.cause # NoCause =>
                 /\ f.top.cause \in Rules
                 /\ RawScore(f.top.cause, FiguresOf(ReportOf(run))) > 0
           /\ ~f.fault /\ multipliers = NoMultipliers =>
                 (f.top.cause = NoCause \/ f.top.score < Threshold =>
                     \A r \in Rules : Subsided(r, ReportOf(run)))
  <1> DEFINE F == FiguresOf(ReportOf(run))
  <1>1. PICK x \in Readings, m \in {multipliers, NoMultipliers} :
            /\ x.report = ReportOf(run)
            /\ f = [top |-> Leading(Hypotheses(x.raw, m)),
                    fault |-> ~(x.whole /\ m = multipliers)]
    BY DEF Findings
  <1>2. PICK report \in Reports, n \in 0 .. Readable :
            x = [report |-> report, whole |-> n = Readable,
                 raw |-> RawScores(Extract(FiguresOf(report), n))]
    BY DEF Readings
  <1> DEFINE e == Extract(F, n)
             H == Hypotheses(RawScores(e), m)
  <1>3. /\ n \in 0 .. 5 /\ (x.whole <=> n = Readable)
        /\ ReportOf(run) \in Reports /\ x.raw = RawScores(e)
    <2>1. n \in 0 .. 5
      BY DEF Readable
    <2>2. x.report = report /\ (x.whole <=> n = Readable)
          /\ x.raw = RawScores(Extract(FiguresOf(report), n))
      BY <1>2
    <2> QED
      BY <1>1, <2>1, <2>2
  <1>4. f.top = Leading(H) /\ f.fault = ~(n = Readable /\ m = multipliers)
    BY <1>1, <1>3
  <1>5. F \in AllFigures
    BY <1>3, ReportFigures
  <1>6. m \in [Rules -> MultiplierRange]
    <2>1. NoMultipliers \in [Rules -> MultiplierRange]
      BY Ranges DEF NoMultipliers
    <2> QED
      BY <2>1
  <1>7. \A r \in Rules : /\ RawScore(r, e) \in Nat /\ RawScore(r, F) \in Nat
                         /\ RawScore(r, e) <= RawScore(r, F)
    BY <1>3, <1>5, ReadingScores, ScoreIsWeights
  <1> HIDE DEF e, F
  <1>8. /\ \A h \in H : /\ h.cause \in Rules
                        /\ h.score = Adjusted(RawScore(h.cause, e), m[h.cause])
                        /\ h.score >= Catalog[h.cause].minScore * 40
        /\ \A r \in Rules :
              Adjusted(RawScore(r, e), m[r]) >= Catalog[r].minScore * 40 =>
                  \E h \in H : h.cause = r /\ h.score = Adjusted(RawScore(r, e), m[r])
    BY <1>6, HypothesesAre
  <1>9. \A r \in Rules : m[r] \in MultiplierRange /\ Catalog[r].minScore \in Nat
                         /\ 1 <= Catalog[r].minScore /\ Catalog[r].minScore <= 100
    BY <1>6, CatalogSound
  <1> HIDE DEF H
  <1>10. \A h \in H : h.score \in Nat /\ h.score <= 4000 /\ RawScore(h.cause, e) > 0
    <2> SUFFICES ASSUME NEW h \in H
                 PROVE  h.score \in Nat /\ h.score <= 4000 /\ RawScore(h.cause, e) > 0
      OBVIOUS
    <2> DEFINE raw == RawScore(h.cause, e)
               mh  == m[h.cause]
               min == Catalog[h.cause].minScore
    <2>1. raw \in Nat /\ mh \in MultiplierRange /\ min \in Nat /\ 1 <= min /\ min <= 100
      BY <1>7, <1>8, <1>9
    <2>2. h.score = Adjusted(raw, mh) /\ h.score >= min * 40
      BY <1>8
    <2> HIDE DEF raw, mh, min
    <2>3. Adjusted(raw, mh) \in Nat /\ Adjusted(raw, mh) <= 4000
          /\ (raw = 0 => Adjusted(raw, mh) = 0)
      BY <2>1, AdjustedBounds
    <2> QED
      BY <2>1, <2>2, <2>3 DEF raw
  <1>11. H # {} => f.top \in H /\ \A g \in H : g.score <= f.top.score
    BY <1>4, <1>8, <1>10, LeadingIsBest
  <1>12. H = {} => f.top = [cause |-> NoCause, score |-> 0]
    BY <1>4 DEF Leading
  <1>13. NoCause \notin Rules
    BY DEF NoCause, Rules, Catalog
  <1>14. f.top \in [cause : Causes, score : ScoreRange]
    <2>1. CASE H = {}
      BY <1>12, <2>1, Ranges DEF Causes
    <2>2. CASE H # {}
      <3>1. f.top \in H
        BY <1>11, <2>2
      <3>2. PICK r, v : f.top = [cause |-> r, score |-> v]
        <4>1. Leading(H) \in Hypotheses(RawScores(e), m)
          BY <1>4, <3>1 DEF H
        <4> QED
          BY <1>4, <4>1 DEF Hypotheses
      <3>3. r \in Rules /\ v \in Nat /\ v <= 4000
        BY <1>8, <1>10, <3>1, <3>2
      <3> QED
        BY <3>2, <3>3, Ranges DEF Causes
    <2> QED
      BY <2>1, <2>2
  <1>15. ASSUME f.top.cause # NoCause
         PROVE  f.top.cause \in Rules /\ RawScore(f.top.cause, F) > 0
    <2>1. f.top \in H
      BY <1>11, <1>12, <1>15
    <2> QED
      BY <1>7, <1>8, <1>10, <2>1
  <1>16. ASSUME ~f.fault, multipliers = NoMultipliers,
                f.top.cause = NoCause \/ f.top.score < Threshold,
                NEW r \in Rules
         PROVE  Subsided(r, ReportOf(run))
    <2> DEFINE s == RawScore(r, Extract(F, Readable))
               min == Catalog[r].minScore
    <2>1. n = Readable /\ m[r] = 40
      <3>1. n = Readable /\ m = multipliers
        BY <1>4, <1>16
      <3> QED
        BY <1>16, <3>1 DEF NoMultipliers
    <2>2. s \in Nat /\ RawScore(r, e) = s /\ min \in Nat /\ 1 <= min /\ min <= 100
      BY <1>7, <1>9, <2>1 DEF e
    <2>3. SUFFICES ASSUME ~(s * 40 < Threshold), ~(s < min)
                   PROVE  FALSE
      BY DEF Subsided, F
    <2> HIDE DEF s, min
    <2>4. Adjusted(s, 40) = IF s * 40 < 4000 THEN s * 40 ELSE 4000
      BY <2>2 DEF Adjusted
    <2>5. Adjusted(s, 40) >= min * 40 /\ Adjusted(s, 40) >= Threshold
      BY <2>2, <2>3, <2>4, BoundsAssumption
    <2>6. PICK h \in H : h.score = Adjusted(s, 40)
      BY <1>8, <2>1, <2>2, <2>5 DEF min
    <2>7. f.top \in H /\ Adjusted(s, 40) <= f.top.score
      BY <1>11, <2>6
    <2>8. f.top.cause # NoCause /\ f.top.score \in Nat
      BY <1>8, <1>10, <1>13, <2>7
    <2> QED
      BY <1>16, <2>4, <2>2, <2>5, <2>7, <2>8, BoundsAssumption
  <1> QED
    BY <1>4, <1>14, <1>15, <1>16 DEF F

----------------------------------------------------------------------------
\* What several steps leave as it was

\* Nothing moved the tables of runs and reports.
LEMMA Frame ==
    ASSUME Kept, ExperimentOnEvidence, UNCHANGED made
    PROVE  /\ Kept' /\ ExperimentOnEvidence'
           /\ \A n : ReportOf(n)' = ReportOf(n) /\ Exists(n)' = Exists(n)
  <1>1. runs' = runs /\ stored' = stored
    BY DEF made
  <1>2. \A n : ReportOf(n)' = ReportOf(n) /\ Exists(n)' = Exists(n)
    BY <1>1 DEF ReportOf, Exists
  <1>3. Kept'
    BY <1>1 DEF Kept
  <1>4. ExperimentOnEvidence'
    BY <1>1, <1>2 DEF ExperimentOnEvidence
  <1> QED
    BY <1>2, <1>3, <1>4

LEMMA LineageFrame ==
    ASSUME LineageAgrees, UNCHANGED made, UNCHANGED recorded, rows \subseteq rows'
    PROVE  LineageAgrees'
  BY DEF LineageAgrees, made, recorded

LEMMA FewChosen ==
    ASSUME NEW S, NEW x, S \subseteq {x}
    PROVE  Cardinality(S) <= 1
  <1>1. S = {} \/ S = {x}
    OBVIOUS
  <1>2. Cardinality({}) = 0
    BY FS_EmptySet
  <1>3. Cardinality({x}) = 1
    BY FS_Singleton
  <1> QED
    BY <1>1, <1>2, <1>3

\* Before the end nothing is confirmed.
LEMMA NoReward ==
    ASSUME chosen' = {}
    PROVE  RewardEarned'
  <1>1. Cardinality(chosen') <= 1
    BY FewChosen
  <1> QED
    BY <1>1 DEF RewardEarned

LEMMA Rewards ==
    ASSUME multipliers \in [Rules -> MultiplierRange], NEW rule \in Rules
    PROVE  Rewarded(rule) \in [Rules -> MultiplierRange]
  <1>1. multipliers[rule] \in MultiplierRange
    OBVIOUS
  <1>2. Clamped(multipliers[rule] + 2) \in MultiplierRange
    BY <1>1 DEF Clamped, MultiplierRange
  <1> QED
    BY <1>2 DEF Rewarded

LEMMA Inferred ==
    ASSUME TypeOK, NEW run \in 0 .. MaxIterations, NEW purpose \in {"diagnose", "verify", "final"},
           NEW f \in Findings(run), NEW saved \in BOOLEAN, Infer(run, purpose, f, saved)
    PROVE  /\ rows' \subseteq [id : Ids, cause : Causes] /\ rows \subseteq rows'
           /\ saved => [id |-> [run |-> run, purpose |-> purpose], cause |-> f.top.cause] \in rows'
           /\ faults' \in 0 .. MaxFaults
           /\ faults' = 0 => ~f.fault /\ faults = 0
  <1>1. f.top.cause \in Causes
    BY FindingsHold DEF TypeOK
  <1>2. [run |-> run, purpose |-> purpose] \in Ids
    BY DEF Ids
  <1>3. /\ rows' \subseteq [id : Ids, cause : Causes] /\ rows \subseteq rows'
        /\ saved => [id |-> [run |-> run, purpose |-> purpose], cause |-> f.top.cause] \in rows'
    BY <1>1, <1>2 DEF Infer, SaveInference, TypeOK
  <1>4. faults \in 0 .. MaxFaults /\ MaxFaults \in Nat
    BY BoundsAssumption DEF TypeOK
  <1>5. (f.fault /\ Fault) \/ (~f.fault /\ (Fault \/ UNCHANGED faults))
    BY DEF Infer
  <1> QED
    BY <1>3, <1>4, <1>5 DEF Fault

----------------------------------------------------------------------------
\* The steps of the call

LEMMA InitHolds == Init => IndInv
  <1> SUFFICES ASSUME Init PROVE IndInv
    OBVIOUS
  <1>1. MaxIterations \in Nat \ {0} /\ MaxFaults \in Nat /\ MaxOthers \in Nat
    BY BoundsAssumption
  <1>2. stored = [r \in {} |-> NoReport] \/ \E start \in Reports : stored = [r \in {0} |-> start]
    BY StartsAssumption DEF Init
  <1>3. /\ DOMAIN stored \subseteq {0}
        /\ \A r \in DOMAIN stored : stored[r] \in Reports
    BY <1>2
  <1>4. NoMultipliers \in [Rules -> MultiplierRange] /\ multipliers = NoMultipliers
    BY Ranges DEF NoMultipliers, Init
  <1>5. verified \in [cause : Causes, score : ScoreRange]
    BY Ranges DEF Init, Nothing, Causes
  <1>6. inference \in [run : 0 .. MaxIterations, cause : Causes, id : Ids \cup {NoId}]
    BY <1>1 DEF Init, Causes
  <1>7. TypeOK
    <2>1. DOMAIN stored \subseteq 0 .. MaxIterations
      BY <1>1, <1>3
    <2>2. /\ pc = "create" /\ iteration = 0 /\ current = 0 /\ result = "success"
          /\ targetMet \in BOOLEAN /\ converged \in BOOLEAN
          /\ runs = {} /\ rows = {} /\ chosen = {} /\ known = {} /\ others = 0 /\ faults = 0
      BY DEF Init
    <2> QED
      BY <1>1, <1>3, <1>4, <1>5, <1>6, <2>1, <2>2 DEF TypeOK
  <1>8. Numbered /\ Kept /\ Diagnosed /\ Made /\ Judged
    BY <1>3, <1>4 DEF Init, Numbered, Kept, Diagnosed, Made, Judged, Looping, Tried, Judging
  <1>9. ExperimentOnEvidence /\ LineageAgrees
    BY DEF Init, ExperimentOnEvidence, LineageAgrees
  <1>10. RewardEarned
    <2>1. Cardinality(chosen) <= 1
      BY FewChosen DEF Init
    <2> QED
      BY <2>1 DEF Init, RewardEarned
  <1> QED
    BY <1>7, <1>8, <1>9, <1>10 DEF IndInv, Safe

LEMMA CreateHolds == IndInv /\ Create => IndInv'
  <1> SUFFICES ASSUME IndInv, Create PROVE IndInv'
    OBVIOUS
  <1> USE DEF Create, Go
  <1>1. /\ TypeOK /\ Numbered /\ Kept /\ Diagnosed /\ Made /\ Judged
        /\ ExperimentOnEvidence /\ LineageAgrees /\ RewardEarned
    BY DEF IndInv, Safe
  <1>2. /\ UNCHANGED made /\ UNCHANGED recorded /\ UNCHANGED rows /\ UNCHANGED feedback
        /\ UNCHANGED found
    OBVIOUS
  <1>3. TypeOK'
    BY <1>1, <1>2, BoundsAssumption
       DEF TypeOK, made, recorded, feedback, found, verdict, Ended
  <1>4. Numbered'
    BY <1>1, <1>2, BoundsAssumption DEF Numbered, TypeOK, made, Looping
  <1>5. Diagnosed' /\ Made'
    BY DEF Diagnosed, Made, Tried, Judging
  <1>6. Judged'
    BY <1>1, <1>2 DEF Judged, verdict, found, feedback, Judging, Ended
  <1>7. chosen' = {}
    BY <1>1, <1>2 DEF Judged, feedback
  <1> QED
    BY <1>1, <1>2, <1>3, <1>4, <1>5, <1>6, <1>7, Frame, LineageFrame, NoReward
       DEF IndInv, Safe

LEMMA DiagnoseHolds == IndInv /\ Diagnose => IndInv'
  <1> SUFFICES ASSUME IndInv, Diagnose PROVE IndInv'
    OBVIOUS
  <1>1. /\ TypeOK /\ Numbered /\ Kept /\ Diagnosed /\ Made /\ Judged
        /\ ExperimentOnEvidence /\ LineageAgrees /\ RewardEarned
    BY DEF IndInv, Safe
  <1>2. PICK f \in Findings(current), saved \in BOOLEAN :
            /\ Infer(current, "diagnose", f, saved)
            /\ inference' = [run |-> current, cause |-> f.top.cause,
                             id |-> IF saved THEN [run |-> current, purpose |-> "diagnose"] ELSE NoId]
    BY DEF Diagnose
  <1>3. /\ pc = "infer" /\ pc' = IF inference'.cause = NoCause THEN "skip" ELSE "run"
        /\ UNCHANGED <<iteration, current, verified, result, targetMet, converged, runs, stored,
                       outcomes, traces, chosen, multipliers, known, others>>
    BY DEF Diagnose, here, verdict, made, recorded, feedback
  <1>4. current \in 0 .. MaxIterations /\ multipliers \in [Rules -> MultiplierRange]
    BY <1>1 DEF TypeOK
  <1>5. /\ f.top.cause \in Causes
        /\ f.top.cause # NoCause =>
              f.top.cause \in Rules /\ RawScore(f.top.cause, FiguresOf(ReportOf(current))) > 0
    BY <1>4, FindingsHold
  <1>6. /\ rows' \subseteq [id : Ids, cause : Causes] /\ rows \subseteq rows'
        /\ saved => [id |-> [run |-> current, purpose |-> "diagnose"],
                     cause |-> f.top.cause] \in rows'
        /\ faults' \in 0 .. MaxFaults
        /\ faults' = 0 => faults = 0
    BY <1>1, <1>2, <1>4, Inferred
  <1>7. inference' \in [run : 0 .. MaxIterations, cause : Causes, id : Ids \cup {NoId}]
    <2>1. [run |-> current, purpose |-> "diagnose"] \in Ids
      BY <1>4 DEF Ids
    <2> QED
      BY <1>2, <1>4, <1>5, <2>1
  <1>8. TypeOK'
    BY <1>1, <1>3, <1>6, <1>7 DEF TypeOK
  <1>9. Numbered'
    BY <1>1, <1>3 DEF Numbered, Looping
  <1>10. Kept' /\ ExperimentOnEvidence' /\ ReportOf(current)' = ReportOf(current)
    BY <1>1, <1>3, Frame DEF made
  <1>11. Diagnosed'
    <2> SUFFICES ASSUME pc' \in Tried
                 PROVE  /\ inference'.run = current' /\ inference'.cause \in Rules
                        /\ RawScore(inference'.cause, FiguresOf(ReportOf(current)')) > 0
                        /\ inference'.id # NoId =>
                              /\ inference'.id = [run |-> current', purpose |-> "diagnose"]
                              /\ [id |-> inference'.id, cause |-> inference'.cause] \in rows'
      BY DEF Diagnosed, FiguresOf, NoFigures
    <2>1. inference'.cause # NoCause
      BY <1>3 DEF Tried
    <2> QED
      BY <1>2, <1>3, <1>5, <1>6, <1>10, <2>1
  <1>12. Made'
    BY <1>3 DEF Made, Judging
  <1>13. Judged'
    BY <1>1, <1>3, <1>6 DEF Judged, Judging, Ended
  <1>14. LineageAgrees'
    BY <1>1, <1>3, <1>6, LineageFrame DEF made, recorded
  <1>15. RewardEarned'
    BY <1>1, <1>3, NoReward DEF Judged
  <1> QED
    BY <1>8, <1>9, <1>10, <1>11, <1>12, <1>13, <1>14, <1>15 DEF IndInv, Safe

LEMMA SkipHolds == IndInv /\ Skip => IndInv'
  <1> SUFFICES ASSUME IndInv, Skip PROVE IndInv'
    OBVIOUS
  <1> USE DEF Skip, Go
  <1>1. /\ TypeOK /\ Numbered /\ Kept /\ Diagnosed /\ Made /\ Judged
        /\ ExperimentOnEvidence /\ LineageAgrees /\ RewardEarned
    BY DEF IndInv, Safe
  <1>2. /\ UNCHANGED made /\ UNCHANGED recorded /\ UNCHANGED rows /\ UNCHANGED feedback
        /\ UNCHANGED found /\ UNCHANGED here
    OBVIOUS
  <1>3. TypeOK'
    BY <1>1, <1>2 DEF TypeOK, here, made, recorded, feedback, found, verdict, Ended
  <1>4. Numbered'
    BY <1>1, <1>2 DEF Numbered, made, here, Looping
  <1>5. Diagnosed' /\ Made'
    BY DEF Diagnosed, Made, Tried, Judging
  <1>6. Judged'
    BY <1>1, <1>2 DEF Judged, verdict, found, feedback, Judging, Ended
  <1>7. chosen' = {}
    BY <1>1, <1>2 DEF Judged, feedback
  <1> QED
    BY <1>1, <1>2, <1>3, <1>4, <1>5, <1>6, <1>7, Frame, LineageFrame, NoReward
       DEF IndInv, Safe

LEMMA RunStageHolds == IndInv /\ RunStage => IndInv'
  <1> SUFFICES ASSUME IndInv, RunStage PROVE IndInv'
    OBVIOUS
  <1> USE DEF RunStage, Go
  <1>1. /\ TypeOK /\ Numbered /\ Kept /\ Diagnosed /\ Made /\ Judged
        /\ ExperimentOnEvidence /\ LineageAgrees /\ RewardEarned
    BY DEF IndInv, Safe
  <1>2. /\ UNCHANGED made /\ UNCHANGED recorded /\ UNCHANGED rows /\ UNCHANGED feedback
        /\ UNCHANGED found /\ UNCHANGED here
    OBVIOUS
  <1>3. TypeOK'
    BY <1>1, <1>2 DEF TypeOK, here, made, recorded, feedback, found, verdict, Ended
  <1>4. Numbered'
    BY <1>1, <1>2 DEF Numbered, made, here, Looping
  <1>5. ReportOf(current)' = ReportOf(current) /\ Kept' /\ ExperimentOnEvidence'
    <2>1. current' = current
      BY <1>2 DEF here
    <2> QED
      BY <1>1, <1>2, <2>1, Frame
  <1>6. Diagnosed'
    BY <1>1, <1>2, <1>5 DEF Diagnosed, Tried, here, found, FiguresOf, NoFigures
  <1>7. Made'
    BY DEF Made, Judging
  <1>8. Judged'
    BY <1>1, <1>2 DEF Judged, verdict, found, feedback, Judging, Ended
  <1>9. chosen' = {}
    BY <1>1, <1>2 DEF Judged, feedback
  <1> QED
    BY <1>1, <1>2, <1>3, <1>4, <1>5, <1>6, <1>7, <1>8, <1>9, LineageFrame, NoReward
       DEF IndInv, Safe

\* The run of an iteration is new, and so is its report.
LEMMA NewRun ==
    ASSUME IndInv, pc = "save"
    PROVE  /\ iteration \notin DOMAIN stored /\ \A r \in runs : r.id # iteration
           /\ current + 1 = iteration /\ iteration \in 1 .. MaxIterations
           /\ current \in 0 .. MaxIterations
           /\ \A r \in runs : r.parent # iteration /\ r.id \in Int /\ r.parent \in Int
  <1>1. TypeOK /\ Numbered /\ Kept
    BY DEF IndInv
  <1>2. /\ current + 1 = iteration /\ iteration \in 0 .. MaxIterations
        /\ current \in 0 .. MaxIterations
    BY <1>1 DEF Numbered, TypeOK, Looping
  <1>3. \A r \in runs : /\ r.id < iteration /\ r.parent + 1 = r.id
                        /\ r.id \in Int /\ r.parent \in Int
    BY <1>1 DEF Numbered, TypeOK
  <1>4. iteration \notin DOMAIN stored
    BY <1>1, <1>2, <1>3 DEF Kept
  <1> QED
    BY <1>2, <1>3, <1>4

LEMMA SaveHolds == IndInv /\ Save => IndInv'
  <1> SUFFICES ASSUME IndInv, Save PROVE IndInv'
    OBVIOUS
  <1>1. /\ TypeOK /\ Numbered /\ Kept /\ Diagnosed /\ Made /\ Judged
        /\ ExperimentOnEvidence /\ LineageAgrees /\ RewardEarned
    BY DEF IndInv, Safe
  <1>2. /\ pc = "save" /\ Exists(current)
        /\ pc' = IF result = "success" THEN "verify" ELSE "trace"
        /\ targetMet' = FALSE /\ converged' = FALSE
        /\ UNCHANGED <<iteration, current, inference, verified, result, rows, traces, chosen,
                       multipliers, known, others>>
    BY DEF Save, here, found, feedback
  <1>3. /\ iteration \notin DOMAIN stored /\ \A r \in runs : r.id # iteration
        /\ current + 1 = iteration /\ iteration \in 1 .. MaxIterations
        /\ current \in 0 .. MaxIterations
        /\ \A r \in runs : r.parent # iteration /\ r.id \in Int /\ r.parent \in Int
    BY <1>2, NewRun
  <1>4. faults \in 0 .. MaxFaults /\ MaxFaults \in Nat
    BY <1>1, BoundsAssumption DEF TypeOK
  <1>5. faults' \in 0 .. MaxFaults /\ (faults' = 0 => faults = 0)
    BY <1>4 DEF Save, Fault
  <1>6. /\ inference.run = current /\ inference.cause \in Rules
        /\ RawScore(inference.cause, FiguresOf(ReportOf(current))) > 0
        /\ inference.id # NoId =>
              /\ inference.id = [run |-> current, purpose |-> "diagnose"]
              /\ [id |-> inference.id, cause |-> inference.cause] \in rows
        /\ inference.id \in Ids \cup {NoId} /\ result \in {"success", "failed"}
    BY <1>1, <1>2 DEF Diagnosed, Tried, TypeOK
  <1>7. chosen' = {}
    BY <1>1, <1>2 DEF Judged
  <1>8. RewardEarned'
    BY <1>7, NoReward
  <1>9. Judged'
    BY <1>1, <1>2, <1>5, <1>7 DEF Judged, Judging, Ended
  <1>10. CASE UNCHANGED made /\ UNCHANGED outcomes /\ result = "success"
    <2>1. TypeOK'
      BY <1>1, <1>2, <1>5, <1>10 DEF TypeOK, made
    <2>2. Numbered'
      BY <1>1, <1>2, <1>10 DEF Numbered, made, Looping
    <2>3. Kept' /\ ExperimentOnEvidence' /\ ReportOf(current)' = ReportOf(current)
      BY <1>1, <1>2, <1>10, Frame
    <2>4. Diagnosed'
      BY <1>2, <1>6, <2>3 DEF Diagnosed, FiguresOf, NoFigures
    <2>5. Made'
      BY <1>1, <1>2, <1>3, <1>10 DEF Made, made
    <2>6. LineageAgrees'
      BY <1>1, <1>2, <1>10, LineageFrame DEF recorded
    <2> QED
      BY <2>1, <2>2, <2>3, <2>4, <2>5, <2>6, <1>8, <1>9 DEF IndInv, Safe
  <1>11. ASSUME NEW report \in Reports, AddRun(report), result = "failed" => report = NoReport,
                outcomes' = outcomes \/ (inference.id # NoId /\ AddOutcome)
         PROVE  IndInv'
    <2> DEFINE new == [id |-> iteration, parent |-> current, inference |-> inference.id,
                       cause |-> inference.cause, status |-> result,
                       hinted |-> ExperimentToParams(SelectExperiment(inference.cause))]
    <2>1. /\ runs' = runs \cup {new}
          /\ DOMAIN stored' = DOMAIN stored \cup {iteration}
          /\ \A n \in DOMAIN stored : n # iteration => stored'[n] = stored[n]
          /\ stored'[iteration] = report
      BY <1>11 DEF AddRun
    <2>2. /\ new.id = iteration /\ new.parent = current /\ new.inference = inference.id
          /\ new.cause = inference.cause /\ new.status = result
      OBVIOUS
    <2> HIDE DEF new
    <2>3. \A n : n # iteration => /\ ReportOf(n)' = ReportOf(n)
                                  /\ Exists(n)' = Exists(n)
      BY <2>1 DEF ReportOf, Exists
    <2>4. TypeOK'
      <3>1. \A r \in runs' :
               /\ r.id \in 1 .. MaxIterations /\ r.parent \in 0 .. MaxIterations
               /\ r.inference \in Ids \cup {NoId} /\ r.cause \in Rules
               /\ r.status \in {"success", "failed"}
        BY <1>1, <1>3, <1>6, <2>1, <2>2 DEF TypeOK
      <3>2. /\ DOMAIN stored' \subseteq 0 .. MaxIterations
            /\ \A r \in DOMAIN stored' : stored'[r] \in Reports
        BY <1>1, <1>3, <2>1, <1>11 DEF TypeOK
      <3> QED
        BY <1>1, <1>2, <1>5, <3>1, <3>2 DEF TypeOK
    <2>5. Numbered'
      BY <1>1, <1>2, <1>3, <2>1, <2>2 DEF Numbered, Looping
    <2>6. Kept'
      BY <1>1, <1>3, <1>11, <2>1, <2>2 DEF Kept
    <2>7. current # iteration /\ ReportOf(current)' = ReportOf(current) /\ Exists(current)'
      <3>1. current # iteration
        BY <1>3
      <3> QED
        BY <1>2, <2>3, <3>1
    <2>8. Diagnosed'
      BY <1>2, <1>6, <2>7 DEF Diagnosed, FiguresOf, NoFigures
    <2>9. Made'
      BY <1>1, <1>2, <1>3, <2>1, <2>2 DEF Made
    <2>10. ExperimentOnEvidence'
      <3> SUFFICES ASSUME NEW r \in runs'
                   PROVE  /\ Exists(r.parent)'
                          /\ \A p \in runs' : p.id = r.parent => p.status = "success"
                          /\ RawScore(r.cause, FiguresOf(ReportOf(r.parent)'))  > 0
        BY DEF ExperimentOnEvidence, FiguresOf, NoFigures
      <3>1. CASE r \in runs
        <4>1. r.parent # iteration
          BY <1>3, <3>1
        <4>2. /\ Exists(r.parent) /\ \A p \in runs : p.id = r.parent => p.status = "success"
              /\ RawScore(r.cause, FiguresOf(ReportOf(r.parent))) > 0
          BY <1>1, <3>1 DEF ExperimentOnEvidence
        <4> QED
          BY <2>1, <2>2, <2>3, <4>1, <4>2
      <3>2. CASE r = new
        <4>1. ASSUME NEW p \in runs, p.id = current, p.status # "success"
              PROVE  FALSE
          <5>1. p.status = "failed" /\ p.id \in DOMAIN stored /\ stored[p.id] = NoReport
            BY <1>1, <4>1 DEF TypeOK, Kept
          <5>2. FiguresOf(ReportOf(current)) = NoFigures
            BY <4>1, <5>1 DEF ReportOf, Exists, FiguresOf
          <5> QED
            BY <1>6, <5>2, NothingScores
        <4>2. \A p \in runs' : p.id = current => p.status = "success"
          BY <2>1, <2>2, <2>7, <4>1
        <4>3. r.parent = current /\ r.cause = inference.cause /\ current' = current
          BY <1>2, <2>2, <3>2
        <4> QED
          BY <1>6, <2>7, <4>2, <4>3
      <3> QED
        BY <2>1, <3>1, <3>2
    <2>11. LineageAgrees'
      <3>1. \A r \in runs' : r.inference # NoId =>
               /\ r.inference.run = r.parent
               /\ [id |-> r.inference, cause |-> r.cause] \in rows
        <4>1. inference.id # NoId => inference.id.run = current
          BY <1>6
        <4> QED
          BY <1>1, <1>6, <2>1, <2>2, <4>1 DEF LineageAgrees
      <3>2. \A o \in outcomes' : \E r \in runs' : r.id = o.run /\ r.inference = o.inference
        BY <1>1, <1>11, <2>1, <2>2 DEF LineageAgrees, AddOutcome
      <3> QED
        BY <1>1, <1>2, <2>1, <3>1, <3>2 DEF LineageAgrees
    <2> QED
      BY <2>4, <2>5, <2>6, <2>8, <2>9, <2>10, <2>11, <1>8, <1>9 DEF IndInv, Safe
  <1>12. \/ UNCHANGED made /\ UNCHANGED outcomes /\ result = "success"
         \/ \E report \in Reports :
               /\ AddRun(report) /\ (result = "failed" => report = NoReport)
               /\ outcomes' = outcomes \/ (inference.id # NoId /\ AddOutcome)
    BY DEF Save, Reports
  <1> QED
    BY <1>10, <1>11, <1>12

LEMMA VerifyHolds == IndInv /\ Verify => IndInv'
  <1> SUFFICES ASSUME IndInv, Verify PROVE IndInv'
    OBVIOUS
  <1>1. /\ TypeOK /\ Numbered /\ Kept /\ Diagnosed /\ Made /\ Judged
        /\ ExperimentOnEvidence /\ LineageAgrees /\ RewardEarned
    BY DEF IndInv, Safe
  <1>2. /\ pc = "verify" /\ pc' = "target"
        /\ UNCHANGED <<iteration, current, inference, result, targetMet, converged, runs, stored,
                       outcomes, traces, chosen, multipliers, known, others>>
    BY DEF Verify, Go, here, verdict, made, recorded, feedback
  <1>3. PICK f \in Findings(iteration), saved \in BOOLEAN :
            Infer(iteration, "verify", f, saved) /\ verified' = f.top
    BY DEF Verify
  <1>4. iteration \in 0 .. MaxIterations /\ multipliers \in [Rules -> MultiplierRange]
    BY <1>1 DEF TypeOK
  <1>5. /\ f.top \in [cause : Causes, score : ScoreRange]
        /\ ~f.fault /\ multipliers = NoMultipliers =>
              (f.top.cause = NoCause \/ f.top.score < Threshold =>
                  \A r \in Rules : Subsided(r, ReportOf(iteration)))
    BY <1>4, FindingsHold
  <1>6. /\ rows' \subseteq [id : Ids, cause : Causes] /\ rows \subseteq rows'
        /\ faults' \in 0 .. MaxFaults
        /\ faults' = 0 => ~f.fault
    BY <1>1, <1>3, <1>4, Inferred
  <1>7. TypeOK'
    BY <1>1, <1>2, <1>3, <1>5, <1>6 DEF TypeOK
  <1>8. Numbered'
    BY <1>1, <1>2 DEF Numbered, Looping
  <1>9. /\ Kept' /\ ExperimentOnEvidence' /\ \A n : ReportOf(n)' = ReportOf(n)
    BY <1>1, <1>2, Frame DEF made
  <1>10. ReportOf(current)' = ReportOf(current) /\ ReportOf(iteration)' = ReportOf(iteration)
    BY <1>2, <1>9
  <1>11. Diagnosed'
    BY <1>1, <1>2, <1>6, <1>10 DEF Diagnosed, Tried, FiguresOf, NoFigures
  <1>12. Made'
    BY <1>1, <1>2 DEF Made, Judging
  <1>13. chosen = {} /\ ~converged /\ (others = 0 => multipliers = NoMultipliers)
    BY <1>1, <1>2 DEF Judged, Ended
  <1>14. ASSUME others' = 0, faults' = 0, ScoreDropped', NEW cause \in Rules
         PROVE  Subsided(cause, ReportOf(iteration)')
    <2>1. f.top.cause = NoCause \/ f.top.score < Threshold
      BY <1>3, <1>14 DEF ScoreDropped
    <2>2. ~f.fault /\ multipliers = NoMultipliers
      BY <1>2, <1>6, <1>13, <1>14
    <2> QED
      BY <1>5, <1>10, <2>1, <2>2
  <1>15. Judged'
    <2>1. \A cause : Subsided(cause, ReportOf(iteration))' <=> Subsided(cause, ReportOf(iteration)')
      BY DEF Subsided, FiguresOf, NoFigures, Extract
    <2> QED
      BY <1>2, <1>13, <1>14, <2>1 DEF Judged
  <1>16. LineageAgrees'
    BY <1>1, <1>2, <1>6, LineageFrame DEF made, recorded
  <1>17. RewardEarned'
    BY <1>2, <1>13, NoReward
  <1> QED
    BY <1>7, <1>8, <1>9, <1>11, <1>12, <1>15, <1>16, <1>17 DEF IndInv, Safe

\* The loop asks for the target of a design without a name.
LEMMA TargetNeverMet == \A run : ~TargetMet(run)
  BY NamesAssumption DEF TargetMet, QueryTiming

LEMMA CheckTargetHolds == IndInv /\ CheckTarget => IndInv'
  <1> SUFFICES ASSUME IndInv, CheckTarget PROVE IndInv'
    OBVIOUS
  <1>1. /\ TypeOK /\ Numbered /\ Kept /\ Diagnosed /\ Made /\ Judged
        /\ ExperimentOnEvidence /\ LineageAgrees /\ RewardEarned
    BY DEF IndInv, Safe
  <1>2. /\ pc = "target" /\ pc' = "trace"
        /\ UNCHANGED <<iteration, current, inference, verified, result, runs, stored, rows,
                       outcomes, traces, chosen, multipliers, known, others>>
    BY DEF CheckTarget, Go, here, found, made, recorded, feedback
  <1>3. ~TargetMet(iteration)
    BY TargetNeverMet
  <1>4. UNCHANGED faults /\ targetMet' = FALSE
    BY <1>3 DEF CheckTarget
  <1>5. converged' = (FALSE \/ ScoreDropped)
    BY <1>4 DEF CheckTarget
  <1>6. ScoreDropped' <=> ScoreDropped
    BY <1>2 DEF ScoreDropped
  <1>7. converged' \in BOOLEAN /\ (converged' <=> ScoreDropped)
    BY <1>5
  <1>8. TypeOK'
    BY <1>1, <1>2, <1>4, <1>7 DEF TypeOK
  <1>9. Numbered'
    BY <1>1, <1>2 DEF Numbered, Looping
  <1>10. /\ Kept' /\ ExperimentOnEvidence' /\ \A n : ReportOf(n)' = ReportOf(n)
    BY <1>1, <1>2, Frame DEF made
  <1>11. ReportOf(current)' = ReportOf(current) /\ ReportOf(iteration)' = ReportOf(iteration)
    BY <1>2, <1>10
  <1>12. Diagnosed'
    BY <1>1, <1>2, <1>11 DEF Diagnosed, Tried, FiguresOf, NoFigures
  <1>13. Made'
    BY <1>1, <1>2 DEF Made, Judging
  <1>14. Judged'
    <2>1. \A cause : Subsided(cause, ReportOf(iteration))' <=> Subsided(cause, ReportOf(iteration))
      BY <1>11 DEF Subsided, FiguresOf, NoFigures, Extract
    <2>2. result = "success" /\ chosen = {}
      BY <1>1, <1>2 DEF Made, Judged
    <2> QED
      BY <1>1, <1>2, <1>4, <1>6, <1>7, <2>1, <2>2 DEF Judged, Judging
  <1>15. LineageAgrees'
    BY <1>1, <1>2, LineageFrame DEF made, recorded
  <1>16. RewardEarned'
    BY <1>1, <1>2, NoReward DEF Judged
  <1> QED
    BY <1>8, <1>9, <1>10, <1>12, <1>13, <1>14, <1>15, <1>16 DEF IndInv, Safe

LEMMA RecordIterationHolds == IndInv /\ RecordIteration => IndInv'
  <1> SUFFICES ASSUME IndInv, RecordIteration PROVE IndInv'
    OBVIOUS
  <1>1. /\ TypeOK /\ Numbered /\ Kept /\ Diagnosed /\ Made /\ Judged
        /\ ExperimentOnEvidence /\ LineageAgrees /\ RewardEarned
    BY DEF IndInv, Safe
  <1>2. /\ pc = "trace" /\ pc' = IF converged THEN "confirm" ELSE "next"
        /\ UNCHANGED <<iteration, current, inference, verified, result, targetMet, converged,
                       runs, stored, rows, outcomes, chosen, multipliers, known, others>>
    BY DEF RecordIteration, Go, here, found, verdict, made, feedback
  <1>3. faults' \in 0 .. MaxFaults /\ (faults' = 0 => faults = 0)
    <2>1. faults \in 0 .. MaxFaults /\ MaxFaults \in Nat
      BY <1>1, BoundsAssumption DEF TypeOK
    <2> QED
      BY <2>1 DEF RecordIteration, Fault
  <1>4. TypeOK'
    BY <1>1, <1>2, <1>3 DEF TypeOK
  <1>5. Numbered'
    BY <1>1, <1>2 DEF Numbered, Looping
  <1>6. /\ Kept' /\ ExperimentOnEvidence' /\ \A n : ReportOf(n)' = ReportOf(n)
    BY <1>1, <1>2, Frame DEF made
  <1>7. ReportOf(current)' = ReportOf(current) /\ ReportOf(iteration)' = ReportOf(iteration)
    BY <1>2, <1>6
  <1>8. Diagnosed'
    BY <1>1, <1>2, <1>7 DEF Diagnosed, Tried, FiguresOf, NoFigures
  <1>9. Made'
    BY <1>1, <1>2 DEF Made, Judging
  <1>10. Judged'
    <2>1. \A cause : Subsided(cause, ReportOf(iteration))' <=> Subsided(cause, ReportOf(iteration))
      BY <1>7 DEF Subsided, FiguresOf, NoFigures, Extract
    <2>2. ScoreDropped' <=> ScoreDropped
      BY <1>2 DEF ScoreDropped
    <2> QED
      BY <1>1, <1>2, <1>3, <2>1, <2>2 DEF Judged, Judging
  <1>11. LineageAgrees'
    <2> DEFINE new == [source |-> inference.run, target |-> iteration,
                       inference |-> inference.id, rule |-> inference.cause]
    <2>1. CASE UNCHANGED traces
      BY <1>1, <1>2, <2>1, LineageFrame DEF made, recorded
    <2>2. CASE TraceAllowed /\ AddTrace
      <3>1. /\ current + 1 = iteration /\ current \in Nat /\ inference.run = current
        BY <1>1, <1>2 DEF Numbered, Looping, TypeOK, Diagnosed, Tried
      <3>2. PICK r \in runs : r.id = iteration
        BY <1>1, <2>2, <3>1 DEF TraceAllowed, Exists, Kept
      <3>3. /\ r.inference = inference.id /\ r.cause = inference.cause
        BY <1>1, <1>2, <3>2 DEF Made, Judging
      <3>4. r.parent = inference.run
        <4>1. r.parent + 1 = r.id /\ r.parent \in Int
          BY <1>1 DEF Numbered, TypeOK
        <4> QED
          BY <3>1, <3>2, <4>1
      <3>5. traces' = traces \cup {new}
        BY <2>2 DEF AddTrace
      <3>6. /\ new.target = iteration /\ new.source = inference.run
            /\ new.inference = inference.id /\ new.rule = inference.cause
        OBVIOUS
      <3> HIDE DEF new
      <3> QED
        BY <1>1, <1>2, <3>2, <3>3, <3>4, <3>5, <3>6 DEF LineageAgrees
    <2> QED
      BY <2>1, <2>2 DEF RecordIteration
  <1>12. RewardEarned'
    BY <1>1, <1>2, NoReward DEF Judged
  <1> QED
    BY <1>4, <1>5, <1>6, <1>8, <1>9, <1>10, <1>11, <1>12 DEF IndInv, Safe

LEMMA ConfirmHolds == IndInv /\ Confirm => IndInv'
  <1> SUFFICES ASSUME IndInv, Confirm PROVE IndInv'
    OBVIOUS
  <1>1. /\ TypeOK /\ Numbered /\ Kept /\ Diagnosed /\ Made /\ Judged
        /\ ExperimentOnEvidence /\ LineageAgrees /\ RewardEarned
    BY DEF IndInv, Safe
  <1>2. /\ pc = "confirm" /\ pc' = "done"
        /\ UNCHANGED <<iteration, current, inference, verified, result, targetMet, converged,
                       runs, stored, rows, outcomes, traces, others>>
    BY DEF Confirm, Go, here, found, verdict, made, recorded
  <1>3. faults \in 0 .. MaxFaults /\ MaxFaults \in Nat
    BY <1>1, BoundsAssumption DEF TypeOK
  <1>4. /\ inference.run = current /\ inference.cause \in Rules
        /\ inference.id # NoId => inference.id = [run |-> current, purpose |-> "diagnose"]
        /\ inference.id \in Ids \cup {NoId}
        /\ current + 1 = iteration /\ current \in Nat
    BY <1>1, <1>2 DEF Diagnosed, Tried, TypeOK, Numbered, Looping
  <1>5. /\ chosen = {} /\ converged /\ result = "success" /\ ScoreDropped
        /\ others = 0 => multipliers = NoMultipliers
        /\ others = 0 /\ faults = 0 => \A cause \in Rules : Subsided(cause, ReportOf(iteration))
    BY <1>1, <1>2 DEF Judged, Judging, Ended
  <1>6. /\ faults' \in 0 .. MaxFaults /\ (faults' = 0 => faults = 0)
        /\ chosen' = {} \/ (inference.id # NoId /\ chosen' = {inference.id})
        /\ chosen' = {} => multipliers' = multipliers
    BY <1>3, <1>5 DEF Confirm, feedback, Fault
  <1>7. multipliers' \in [Rules -> MultiplierRange] /\ known' \subseteq Rules
    <2>1. multipliers \in [Rules -> MultiplierRange] /\ known \subseteq Rules
      BY <1>1 DEF TypeOK
    <2>2. Rewarded(inference.cause) \in [Rules -> MultiplierRange]
      BY <1>4, <2>1, Rewards
    <2> QED
      BY <1>4, <2>1, <2>2 DEF Confirm, feedback
  <1>8. TypeOK'
    BY <1>1, <1>2, <1>4, <1>6, <1>7 DEF TypeOK, Ended
  <1>9. Numbered'
    BY <1>1, <1>2 DEF Numbered, Looping
  <1>10. /\ Kept' /\ ExperimentOnEvidence' /\ \A n : ReportOf(n)' = ReportOf(n)
    BY <1>1, <1>2, Frame DEF made
  <1>11. Diagnosed' /\ Made'
    BY <1>2 DEF Diagnosed, Made, Tried, Judging
  <1>12. Judged'
    BY <1>1, <1>2, <1>5, <1>6 DEF Judged, Judging, Ended
  <1>13. LineageAgrees'
    BY <1>1, <1>2, LineageFrame DEF made, recorded
  <1>14. RewardEarned'
    <2>1. CASE chosen' = {}
      BY <2>1, NoReward
    <2>2. CASE inference.id # NoId /\ chosen' = {inference.id}
      <3> DEFINE c == inference.id
      <3>1. Cardinality(chosen') <= 1
        BY <2>2, FewChosen
      <3>2. c.purpose = "diagnose" /\ c.run = current /\ result' = "success"
        BY <1>2, <1>4, <1>5, <2>2
      <3>3. ASSUME Exists(iteration)
            PROVE  \E r \in runs : r.id = iteration /\ r.inference = c
        <4>1. PICK r \in runs : r.id = iteration
          BY <1>1, <1>4, <3>3 DEF Exists, Kept
        <4> QED
          BY <1>1, <1>2, <4>1 DEF Made, Judging
      <3>4. ASSUME others = 0, faults = 0, NEW r \in runs, r.inference = c
            PROVE  Subsided(r.cause, ReportOf(r.id))
        <4>1. r.parent = current /\ r.cause \in Rules
          BY <1>1, <2>2, <3>2, <3>4 DEF LineageAgrees, TypeOK
        <4>2. r.id = iteration
          BY <1>1, <1>4, <4>1 DEF Numbered
        <4> QED
          BY <1>5, <3>4, <4>1, <4>2
      <3>5. \A cause, n : Subsided(cause, ReportOf(n))' <=> Subsided(cause, ReportOf(n))
        BY <1>10 DEF Subsided, FiguresOf, NoFigures, Extract
      <3>6. Exists(iteration)' <=> Exists(iteration)
        BY <1>2 DEF Exists
      <3> QED
        BY <1>2, <1>6, <2>2, <3>1, <3>2, <3>3, <3>4, <3>5, <3>6 DEF RewardEarned
    <2> QED
      BY <1>6, <2>1, <2>2
  <1> QED
    BY <1>8, <1>9, <1>10, <1>11, <1>12, <1>13, <1>14 DEF IndInv, Safe

LEMMA NextIterationHolds == IndInv /\ NextIteration => IndInv'
  <1> SUFFICES ASSUME IndInv, NextIteration PROVE IndInv'
    OBVIOUS
  <1>1. /\ TypeOK /\ Numbered /\ Kept /\ Diagnosed /\ Made /\ Judged
        /\ ExperimentOnEvidence /\ LineageAgrees /\ RewardEarned
    BY DEF IndInv, Safe
  <1>2. /\ pc = "next" /\ current' = iteration /\ iteration \in 0 .. MaxIterations
        /\ \/ pc' = "infer" /\ iteration' = iteration + 1 /\ iteration' \in 0 .. MaxIterations
           \/ pc' = "final" /\ iteration' = iteration
    BY <1>1, BoundsAssumption DEF NextIteration, MoreIterations, TypeOK
  <1>3. UNCHANGED <<inference, verified, result, targetMet, converged, runs, stored, rows,
                    outcomes, traces, chosen, multipliers, known, others, faults>>
    BY DEF NextIteration, found, verdict, made, recorded, feedback
  <1>4. TypeOK'
    BY <1>1, <1>2, <1>3 DEF TypeOK
  <1>5. Numbered'
    BY <1>1, <1>2, <1>3 DEF Numbered, Looping, TypeOK
  <1>6. Kept' /\ ExperimentOnEvidence'
    BY <1>1, <1>3, Frame DEF made
  <1>7. Diagnosed' /\ Made'
    BY <1>2 DEF Diagnosed, Made, Tried, Judging
  <1>8. Judged'
    BY <1>1, <1>2, <1>3 DEF Judged, Judging, Ended
  <1>9. LineageAgrees'
    BY <1>1, <1>3, LineageFrame DEF made, recorded
  <1>10. RewardEarned'
    BY <1>1, <1>2, <1>3, NoReward DEF Judged
  <1> QED
    BY <1>4, <1>5, <1>6, <1>7, <1>8, <1>9, <1>10 DEF IndInv, Safe

LEMMA FinalInferenceHolds == IndInv /\ FinalInference => IndInv'
  <1> SUFFICES ASSUME IndInv, FinalInference PROVE IndInv'
    OBVIOUS
  <1>1. /\ TypeOK /\ Numbered /\ Kept /\ Diagnosed /\ Made /\ Judged
        /\ ExperimentOnEvidence /\ LineageAgrees /\ RewardEarned
    BY DEF IndInv, Safe
  <1>2. /\ pc = "final" /\ pc' = "done"
        /\ UNCHANGED <<iteration, current, inference, verified, result, targetMet, converged,
                       runs, stored, outcomes, traces, chosen, multipliers, known, others>>
    BY DEF FinalInference, Go, here, found, verdict, made, recorded, feedback
  <1>3. PICK f \in Findings(current), saved \in BOOLEAN : Infer(current, "final", f, saved)
    BY DEF FinalInference
  <1>4. current \in 0 .. MaxIterations
    BY <1>1 DEF TypeOK
  <1>5. /\ rows' \subseteq [id : Ids, cause : Causes] /\ rows \subseteq rows'
        /\ faults' \in 0 .. MaxFaults
    BY <1>1, <1>3, <1>4, Inferred
  <1>6. TypeOK'
    BY <1>1, <1>2, <1>5 DEF TypeOK, Ended
  <1>7. Numbered'
    BY <1>1, <1>2 DEF Numbered, Looping
  <1>8. Kept' /\ ExperimentOnEvidence'
    BY <1>1, <1>2, Frame DEF made
  <1>9. Diagnosed' /\ Made'
    BY <1>2 DEF Diagnosed, Made, Tried, Judging
  <1>10. Judged'
    BY <1>1, <1>2 DEF Judged, Judging, Ended
  <1>11. LineageAgrees'
    BY <1>1, <1>2, <1>5, LineageFrame DEF made, recorded
  <1>12. RewardEarned'
    BY <1>1, <1>2, NoReward DEF Judged
  <1> QED
    BY <1>6, <1>7, <1>8, <1>9, <1>10, <1>11, <1>12 DEF IndInv, Safe

----------------------------------------------------------------------------
\* How it breaks off, and what others do

LEMMA BreakHolds == IndInv /\ (CallRaises \/ Die) => IndInv'
  <1> SUFFICES ASSUME IndInv, CallRaises \/ Die PROVE IndInv'
    OBVIOUS
  <1>1. /\ TypeOK /\ Numbered /\ Kept /\ Diagnosed /\ Made /\ Judged
        /\ ExperimentOnEvidence /\ LineageAgrees /\ RewardEarned
    BY DEF IndInv, Safe
  <1>2. /\ pc # "done" /\ pc' \in {"raised", "dead"}
        /\ UNCHANGED <<iteration, current, inference, verified, result, targetMet, converged,
                       runs, stored, rows, outcomes, traces, chosen, multipliers, known, others>>
    BY DEF CallRaises, Die, Ended, here, found, verdict, made, recorded, feedback
  <1>3. faults' \in 0 .. MaxFaults
    <2>1. faults \in 0 .. MaxFaults /\ MaxFaults \in Nat
      BY <1>1, BoundsAssumption DEF TypeOK
    <2> QED
      BY <2>1 DEF CallRaises, Die, Fault
  <1>4. TypeOK'
    BY <1>1, <1>2, <1>3 DEF TypeOK, Ended
  <1>5. Numbered'
    BY <1>1, <1>2 DEF Numbered, Looping
  <1>6. Kept' /\ ExperimentOnEvidence'
    BY <1>1, <1>2, Frame DEF made
  <1>7. Diagnosed' /\ Made'
    BY <1>2 DEF Diagnosed, Made, Tried, Judging
  <1>8. Judged'
    BY <1>1, <1>2 DEF Judged, Judging, Ended
  <1>9. LineageAgrees'
    BY <1>1, <1>2, LineageFrame DEF made, recorded
  <1>10. RewardEarned'
    BY <1>1, <1>2, NoReward DEF Judged
  <1> QED
    BY <1>4, <1>5, <1>6, <1>7, <1>8, <1>9, <1>10 DEF IndInv, Safe

LEMMA OthersConfirmHolds ==
    ASSUME IndInv, NEW rule \in OtherRules, NEW ranked \in SUBSET OtherRules,
           NEW step \in {1, 2}, OthersConfirm(rule, ranked, step)
    PROVE  IndInv'
  <1>1. /\ TypeOK /\ Numbered /\ Kept /\ Diagnosed /\ Made /\ Judged
        /\ ExperimentOnEvidence /\ LineageAgrees /\ RewardEarned
    BY DEF IndInv, Safe
  <1>2. /\ pc \notin Ended
        /\ UNCHANGED <<pc, iteration, current, inference, verified, result, targetMet, converged,
                       runs, stored, rows, outcomes, traces, chosen, faults>>
    BY DEF OthersConfirm, here, found, verdict, made, recorded
  <1>3. others' \in 0 .. MaxOthers /\ others' # 0
    BY <1>1, BoundsAssumption DEF OthersConfirm, TypeOK
  <1>4. rule \in Rules /\ ranked \subseteq Rules
    BY NamesAssumption
  <1>5. multipliers' \in [Rules -> MultiplierRange] /\ known' \subseteq Rules
    <2>1. multipliers \in [Rules -> MultiplierRange] /\ known \subseteq Rules
      BY <1>1 DEF TypeOK
    <2>2. Rewarded(rule) \in [Rules -> MultiplierRange]
      BY <1>4, <2>1, Rewards
    <2>3. \A r \in Rules : Lowered(multipliers[r], step) \in MultiplierRange
      <3> SUFFICES ASSUME NEW r \in Rules PROVE Lowered(multipliers[r], step) \in MultiplierRange
        OBVIOUS
      <3>1. multipliers[r] \in MultiplierRange
        BY <2>1
      <3> QED
        BY <3>1 DEF Lowered, MultiplierRange
    <2>4. multipliers' = [r \in Rules |-> IF r \in ranked THEN Lowered(multipliers[r], step)
                                                         ELSE Rewarded(rule)[r]]
      BY DEF OthersConfirm
    <2>5. multipliers' \in [Rules -> MultiplierRange]
      BY <2>2, <2>3, <2>4
    <2> QED
      BY <1>4, <2>1, <2>5 DEF OthersConfirm
  <1>6. TypeOK'
    BY <1>1, <1>2, <1>3, <1>5 DEF TypeOK
  <1>7. Numbered'
    BY <1>1, <1>2 DEF Numbered
  <1>8. Kept' /\ ExperimentOnEvidence' /\ \A n : ReportOf(n)' = ReportOf(n)
    BY <1>1, <1>2, Frame DEF made
  <1>9. ReportOf(current)' = ReportOf(current)
    BY <1>2, <1>8
  <1>10. Diagnosed'
    BY <1>1, <1>2, <1>9 DEF Diagnosed, FiguresOf, NoFigures
  <1>11. Made'
    BY <1>1, <1>2 DEF Made
  <1>12. chosen = {}
    BY <1>1, <1>2 DEF Judged, Ended
  <1>13. Judged'
    <2>1. ScoreDropped' <=> ScoreDropped
      BY <1>2 DEF ScoreDropped
    <2> QED
      BY <1>1, <1>2, <1>3, <1>12, <2>1 DEF Judged
  <1>14. LineageAgrees'
    BY <1>1, <1>2, LineageFrame DEF made, recorded
  <1>15. RewardEarned'
    BY <1>2, <1>12, NoReward
  <1> QED
    BY <1>6, <1>7, <1>8, <1>10, <1>11, <1>13, <1>14, <1>15 DEF IndInv, Safe

LEMMA StutterHolds == IndInv /\ UNCHANGED vars => IndInv'
  <1> SUFFICES ASSUME IndInv, UNCHANGED vars PROVE IndInv'
    OBVIOUS
  <1>1. /\ TypeOK /\ Numbered /\ Kept /\ Diagnosed /\ Made /\ Judged
        /\ ExperimentOnEvidence /\ LineageAgrees /\ RewardEarned
    BY DEF IndInv, Safe
  <1>2. UNCHANGED <<pc, iteration, current, inference, verified, result, targetMet, converged,
                    runs, stored, rows, outcomes, traces, chosen, multipliers, known, others,
                    faults>>
    BY DEF vars, here, found, verdict, made, recorded, feedback
  <1>3. TypeOK'
    BY <1>1, <1>2 DEF TypeOK
  <1>4. Numbered'
    BY <1>1, <1>2 DEF Numbered
  <1>5. Kept' /\ ExperimentOnEvidence' /\ \A n : ReportOf(n)' = ReportOf(n) /\ Exists(n)' = Exists(n)
    BY <1>1, <1>2, Frame DEF made
  <1>6. ReportOf(current)' = ReportOf(current) /\ ReportOf(iteration)' = ReportOf(iteration)
    BY <1>2, <1>5
  <1>7. Diagnosed' /\ Made'
    BY <1>1, <1>2, <1>6 DEF Diagnosed, Made, FiguresOf, NoFigures
  <1>8. \A cause, n : Subsided(cause, ReportOf(n))' <=> Subsided(cause, ReportOf(n))
    BY <1>5 DEF Subsided, FiguresOf, NoFigures, Extract
  <1>9. Judged'
    <2>1. ScoreDropped' <=> ScoreDropped
      BY <1>2 DEF ScoreDropped
    <2> QED
      BY <1>1, <1>2, <1>6, <1>8, <2>1 DEF Judged
  <1>10. LineageAgrees'
    BY <1>1, <1>2, LineageFrame DEF made, recorded
  <1>11. RewardEarned'
    <2>1. Exists(iteration)' <=> Exists(iteration)
      BY <1>2 DEF Exists
    <2> QED
      BY <1>1, <1>2, <1>8, <2>1 DEF RewardEarned
  <1> QED
    BY <1>3, <1>4, <1>5, <1>7, <1>9, <1>10, <1>11 DEF IndInv, Safe

----------------------------------------------------------------------------
\* The theorems

\* The invariant of a call of optimize_with_inference, whatever fails or is confirmed by
\* others meanwhile.
THEOREM IndInvCorrect == Spec => []IndInv
  <1>1. Init => IndInv
    BY InitHolds
  <1>2. IndInv /\ [Next]_vars => IndInv'
    <2> SUFFICES ASSUME IndInv, [Next]_vars PROVE IndInv'
      OBVIOUS
    <2>1. CASE Step
      BY <2>1, CreateHolds, DiagnoseHolds, SkipHolds, RunStageHolds, SaveHolds, VerifyHolds,
         CheckTargetHolds, RecordIterationHolds, ConfirmHolds, NextIterationHolds,
         FinalInferenceHolds DEF Step
    <2>2. CASE CallRaises \/ Die
      BY <2>2, BreakHolds
    <2>3. CASE \E rule \in OtherRules, ranked \in SUBSET OtherRules, step \in {1, 2} :
                   OthersConfirm(rule, ranked, step)
      BY <2>3, OthersConfirmHolds
    <2>4. CASE UNCHANGED vars
      BY <2>4, StutterHolds
    <2> QED
      BY <2>1, <2>2, <2>3, <2>4 DEF Next, Finished
  <1> QED
    BY <1>1, <1>2, PTL DEF Spec

\* Every variable stays in its range: no iteration beyond max_iterations, and multipliers
\* between 0.1 and 2.0.
THEOREM TypeCorrect == Spec => []TypeOK
  <1>1. IndInv => TypeOK
    BY DEF IndInv
  <1> QED
    BY <1>1, IndInvCorrect, PTL

\* An experiment is only run on top of a stored run that did not fail and whose figures
\* are evidence of its cause: neither a query that fails nor a multiplier invents any.
THEOREM ExperimentOnEvidenceCorrect == Spec => []ExperimentOnEvidence
  <1>1. IndInv => ExperimentOnEvidence
    BY DEF IndInv, Safe
  <1> QED
    BY <1>1, IndInvCorrect, PTL

\* The parent, the inference, the outcome and the trace of a run agree across the tables.
THEOREM LineageAgreesCorrect == Spec => []LineageAgrees
  <1>1. IndInv => LineageAgrees
    BY DEF IndInv, Safe
  <1> QED
    BY <1>1, IndInvCorrect, PTL

\* confirm_root_cause is called once at most, for the experiment just run, and unless
\* something failed or moved the multipliers its cause has subsided in the new figures.
THEOREM RewardEarnedCorrect == Spec => []RewardEarned
  <1>1. IndInv => RewardEarned
    BY DEF IndInv, Safe
  <1> QED
    BY <1>1, IndInvCorrect, PTL
=============================================================================
