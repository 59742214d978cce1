----------------------------- MODULE MCPaperRuns -----------------------------
(***************************************************************************)
(* PaperExperiment for TLC, in two parts too large together: a behaviour   *)
(* is one of `part`.                                                       *)
(*                                                                         *)
(*   experiments  two of them one after the other, refused or begun,       *)
(*                crashed, failed or stopped, over a row of any kind       *)
(*   loop         one run over the rows of two markets, which nobody       *)
(*                stops and which does not die                             *)
(***************************************************************************)
EXTENDS MCPaperExperiment

VARIABLE part

allVars == <<vars, part>>

\* One row, of one market, and a shorter time.
FewRows ==
    /\ \A i \in DOMAIN feed' : i = 1 /\ feed[i]'.ticker = "early"
    /\ clock' < MaxTime /\ loopEnd' < MaxTime
\* One experiment on paper, which is not refused, stopped or killed, does not fail
\* and lasts to MaxTime; two kinds of rows, none recorded when it is over.
OneRun ==
    /\ stopping' = 0
    /\ pc = "idle" => manifests' = manifests /\ (pc' = "idle" \/ manifests = <<>>)
    /\ pc # "idle" /\ pc' = "idle" => manifests' # manifests
    /\ loopEnd' \in {0, MaxTime} /\ problem' # "error"
    /\ pc' # "idle" => mode' = "paper"
    /\ \A i \in DOMAIN feed' : feed[i]'.kind \in GoodAndStale
    /\ feed' # feed => manifests = <<>> \/ exp # 0

In(A) ==
    \/ part = "experiments" /\ A /\ FewRows /\ UNCHANGED part
    \/ part = "loop" /\ A /\ OneRun /\ UNCHANGED part

AllInit == Init /\ part \in {"experiments", "loop"}
AllNext == In(Next)

\* The fairness of PaperExperiment.
AllSpec ==
    /\ AllInit /\ [][AllNext]_allVars
    /\ WF_allVars(In(Process))
    /\ WF_allVars(In(Tick /\ UNCHANGED experimentVars))
=============================================================================
