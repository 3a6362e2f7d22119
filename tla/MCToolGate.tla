------------------------------ MODULE MCToolGate ------------------------------
(***************************************************************************)
(* Two custom names and three built-in tools; files and entry points that  *)
(* declare a name twice, declare one of the others' names, or are broken.  *)
(***************************************************************************)
EXTENDS ToolGate

CONSTANTS flow, tune, agents, note, scan

MCTools   == {flow, tune, agents, note, scan}
MCBuiltin == {flow, tune, agents}
MCLong    == {tune}

It(t, risk, confirm, valid) ==
    [name |-> t, risk |-> risk, confirm |-> confirm, valid |-> valid]

MCFiles == {<<>>,
            <<It(note, "warn", FALSE, TRUE), It(note, "safe", TRUE, TRUE)>>,
            <<It(flow, "safe", FALSE, TRUE), It(note, "block", FALSE, TRUE)>>,
            <<It(note, "safe", FALSE, TRUE), It(scan, "safe", FALSE, FALSE)>>}

Ep(loads, spec) == [loads |-> loads, shaped |-> TRUE, spec |-> spec]

MCPackages == {<<>>,
               <<Ep(TRUE, It(scan, "warn", FALSE, TRUE)), Ep(TRUE, It(scan, "safe", TRUE, TRUE))>>,
               <<Ep(TRUE, It(note, "safe", FALSE, TRUE)), Ep(FALSE, It(scan, "safe", FALSE, FALSE))>>,
               <<Ep(TRUE, It(note, "warn", TRUE, TRUE)), Ep(TRUE, It(scan, "safe", FALSE, FALSE))>>,
               <<Ep(TRUE, It(scan, "safe", FALSE, TRUE)),
                 [Ep(TRUE, It(flow, "safe", FALSE, TRUE)) EXCEPT !.shaped = FALSE]>>}

\* What only an experiment looks at varies only where one may run.
MCRequests ==
    {r \in [agents : {{"sta", "experiment"}, {"unknown", "signoff"}},
            high : BOOLEAN, execute : BOOLEAN,
            experiment : {"none", "unresolved", "ready"},
            clean : BOOLEAN, util : {0, 96},
            session : {"none", "stored", "unknown"}, run : BOOLEAN] :
        /\ ~r.execute => r.experiment = "none"
        /\ r.experiment # "ready" => r.session = "none" /\ ~r.clean /\ r.util = 0
        /\ r.clean => r.util = 0
        /\ r.run => r.session = "stored"}
=============================================================================
