---------------------------- MODULE MCProduction ----------------------------
(***************************************************************************)
(* The components around a production run, for TLC: each behaviour runs    *)
(* one of them, the one named by part, while the others rest. They share   *)
(* no variable, so nothing is lost: one state space holds theirs side by   *)
(* side.                                                                   *)
(***************************************************************************)
EXTENDS Labels, Gate, Removal, Logs, Printer

CONSTANT Parts

VARIABLE part

partsVars == <<part, labelVars, gtVars, rmVars, logVars, ptVars>>

\* The variables of the part that runs.
partVars ==
  CASE part = "labels" -> labelVars
    [] part = "gate" -> gtVars
    [] part = "removal" -> rmVars
    [] part = "logs" -> logVars
    [] part = "printer" -> ptVars

Others(p) ==
  /\ IF p = "labels" THEN TRUE ELSE UNCHANGED labelVars
  /\ IF p = "gate" THEN TRUE ELSE UNCHANGED gtVars
  /\ IF p = "removal" THEN TRUE ELSE UNCHANGED rmVars
  /\ IF p = "logs" THEN TRUE ELSE UNCHANGED logVars
  /\ IF p = "printer" THEN TRUE ELSE UNCHANGED ptVars

PartsInit ==
  /\ part \in Parts
  /\ LabelsInit /\ GateInit /\ RemovalInit /\ LogsInit /\ PrinterInit

PartsNext ==
  /\ UNCHANGED part
  /\ \/ part = "labels" /\ LabelsNext /\ Others("labels")
     \/ part = "gate" /\ GateNext /\ Others("gate")
     \/ part = "removal" /\ RemovalNext /\ Others("removal")
     \/ part = "logs" /\ LogsNext /\ Others("logs")
     \/ part = "printer" /\ PrinterNext /\ Others("printer")

PartsSpec == PartsInit /\ [][PartsNext]_partsVars

\* The fairness of each part's own specification, one condition of each part in
\* each of the following.
Weak1 ==
  /\ UNCHANGED part
  /\ \/ part = "labels" /\ PushLabel(TRUE)
     \/ part = "gate" /\ (PushStep(TRUE) \/ PushStep(FALSE))
     \/ part = "logs" /\ ~logState.active /\ AskManifest
     \/ part = "printer" /\ SyncStep("start")

Weak2 ==
  /\ UNCHANGED part
  /\ \/ part = "labels" /\ DispatchLabel
     \/ part = "gate" /\ (RefStep(TRUE) \/ RefStep(FALSE))
     \/ part = "logs" /\ CommandStep
     \/ part = "printer" /\ SyncStep("w1")

Weak3 ==
  /\ UNCHANGED part
  /\ \/ part = "labels" /\ LabelHandlerStep("push")
     \/ part = "gate" /\ MarkAges(1)
     \/ part = "logs" /\ LogStep("poll")
     \/ part = "printer" /\ SyncStep("w2")

Weak4 ==
  /\ UNCHANGED part
  /\ \/ part = "labels" /\ LabelHandlerStep("fetch")
     \/ part = "gate" /\ MarkAges(2)
     \/ part = "logs" /\ DownloadStep
     \/ part = "printer" /\ StartRuns

Weak5 ==
  /\ UNCHANGED part
  /\ \/ part = "gate" /\ GraceOver(1)
     \/ part = "printer" /\ (ptState = "stopping" /\ \E w \in Workers : StateRests(w))

Weak6 ==
  /\ UNCHANGED part
  /\ \/ part = "gate" /\ GraceOver(2)

Strong1 ==
  /\ UNCHANGED part
  /\ \/ part = "gate" /\ RefDiag(FALSE)

Strong2 ==
  /\ UNCHANGED part
  /\ \/ part = "gate" /\ RefPrepare(TRUE)

Strong3 ==
  /\ UNCHANGED part
  /\ \/ part = "gate" /\ RefReady(TRUE)

PartsFair ==
  /\ PartsSpec
  /\ WF_partVars(Weak1) /\ WF_partVars(Weak2) /\ WF_partVars(Weak3)
  /\ WF_partVars(Weak4) /\ WF_partVars(Weak5) /\ WF_partVars(Weak6)
  /\ SF_partVars(Strong1) /\ SF_partVars(Strong2) /\ SF_partVars(Strong3)

-----------------------------------------------------------------------------
(* Properties                                                              *)

\* What holds in every state at the gate and among the log files.
ProductionInv == GateInv /\ LogsTypeOK
=============================================================================
