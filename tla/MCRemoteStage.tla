--------------------------- MODULE MCRemoteStage ---------------------------
(***************************************************************************)
(* Two flows: one of two stages, one of a single stage.                    *)
(***************************************************************************)
EXTENDS RemoteStage, TLC

CONSTANTS f1, f2

MCFlows == {f1, f2}
MCMixes == {(f1 :> k[1]) @@ (f2 :> k[2]) :
               k \in {<<"ssh", "ssh">>, <<"orfs", "orfs">>, <<"local", "bsub">>}}
\* The patterns of the first stage match every report ("*.rpt").
MCMatches == <<{1, 2}, {2}>>
MCLast  == (f1 :> 2) @@ (f2 :> 1)
=============================================================================
