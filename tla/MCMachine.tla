----------------------------- MODULE MCMachine ------------------------------
(***************************************************************************)
(* The components of the machine's states, its devices and its messages,   *)
(* for TLC: each behaviour runs one of them, the one named by part, while  *)
(* the others rest. They share no variable, so nothing is lost: one state  *)
(* space holds theirs side by side.                                        *)
(***************************************************************************)
EXTENDS Start, Setup, Recovery, Curtain, Panel, Leds, Outputs, SeaReady,
        Broker, Faults, Inbox, Settings

CONSTANT Parts

VARIABLE part

partsVars == <<part, stVars, suVars, rcVars, cuVars, pnVars, ldVars, ioVars, srVars,
                     brVars, ftVars, vars, seVars>>

\* The variables of the part that runs.
partVars ==
  CASE part = "start" -> stVars
    [] part = "setup" -> suVars
    [] part = "recovery" -> rcVars
    [] part = "curtain" -> cuVars
    [] part = "panel" -> pnVars
    [] part = "leds" -> ldVars
    [] part = "outputs" -> ioVars
    [] part = "sea" -> srVars
    [] part = "broker" -> brVars
    [] part = "faults" -> ftVars
    [] part = "inbox" -> vars
    [] part = "settings" -> seVars

Others(p) ==
  /\ IF p = "start" THEN TRUE ELSE UNCHANGED stVars
  /\ IF p = "setup" THEN TRUE ELSE UNCHANGED suVars
  /\ IF p = "recovery" THEN TRUE ELSE UNCHANGED rcVars
  /\ IF p = "curtain" THEN TRUE ELSE UNCHANGED cuVars
  /\ IF p = "panel" THEN TRUE ELSE UNCHANGED pnVars
  /\ IF p = "leds" THEN TRUE ELSE UNCHANGED ldVars
  /\ IF p = "outputs" THEN TRUE ELSE UNCHANGED ioVars
  /\ IF p = "sea" THEN TRUE ELSE UNCHANGED srVars
  /\ IF p = "broker" THEN TRUE ELSE UNCHANGED brVars
  /\ IF p = "faults" THEN TRUE ELSE UNCHANGED ftVars
  /\ IF p = "inbox" THEN TRUE ELSE UNCHANGED vars
  /\ IF p = "settings" THEN TRUE ELSE UNCHANGED seVars

PartsInit ==
  /\ part \in Parts
  /\ StartInit /\ SetupInit /\ RecoveryInit /\ CurtainInit /\ PanelInit
  /\ LedsInit /\ IoInit /\ SeaReadyInit /\ BrokerInit /\ FaultsInit /\ Init
  /\ SettingsInit
  \* a part that does not run has one initial state
  /\ part # "start" => stMap = 0
  /\ part # "broker" => brPersistent
  /\ part # "curtain" => cuRow = CuStart("idle")
  /\ part # "leds" => ldWant = {} /\ ldReal = {}
  /\ part # "faults" => ftKind = "plain"
  /\ part # "settings" => seRoute = "esp"

PartsNext ==
  /\ UNCHANGED part
  /\ \/ part = "start" /\ StartNext /\ Others("start")
     \/ part = "setup" /\ SetupNext /\ Others("setup")
     \/ part = "recovery" /\ RecoveryNext /\ Others("recovery")
     \/ part = "curtain" /\ CurtainNext /\ Others("curtain")
     \/ part = "panel" /\ PanelNext /\ Others("panel")
     \/ part = "leds" /\ LedsNext /\ Others("leds")
     \/ part = "outputs" /\ IoNext /\ Others("outputs")
     \/ part = "sea" /\ SeaReadyNext /\ Others("sea")
     \/ part = "broker" /\ BrokerNext /\ Others("broker")
     \/ part = "faults" /\ FaultsNext /\ Others("faults")
     \/ part = "inbox" /\ Next /\ Others("inbox")
     \/ part = "settings" /\ SettingsNext /\ Others("settings")

PartsSpec == PartsInit /\ [][PartsNext]_partsVars

\* The fairness of each part's own specification, one condition of each part in
\* each of the following.
Weak1 ==
  /\ UNCHANGED part
  /\ \/ part = "start" /\ RefreshStep(TRUE)
     \/ part = "setup" /\ Procedure
     \/ part = "recovery" /\ RefreshWorks
     \/ part = "curtain" /\ CuRefresh
     \/ part = "panel" /\ SampleReads
     \/ part = "leds" /\ ((\E c \in Colours : LedWrites(c)) \/ LedEnds)
     \/ part = "outputs" /\ LampStep
     \/ part = "sea" /\ RefreshDrives
     \/ part = "broker" /\ BrokerStep
     \/ part = "faults" /\ HandlerStep("runtime")
     \/ part = "inbox" /\ RouterStep
     \/ part = "settings" /\ SettingStep("router")

Weak2 ==
  /\ UNCHANGED part
  /\ \/ part = "start" /\ PauseTimeout
     \/ part = "setup" /\ AxesThread
     \/ part = "recovery" /\ ThreadWorks
     \/ part = "curtain" /\ CuThread
     \/ part = "panel" /\ HandleEvent
     \/ part = "leds" /\ LedTick(FALSE)
     \/ part = "outputs" /\ LampRenew
     \/ part = "sea" /\ PollStores
     \/ part = "broker" /\ PassDeadline("s")
     \/ part = "faults" /\ (\E c \in Conns : DeviceReports(c))
     \/ part = "settings" /\ SettingStep("page")

Weak3 ==
  /\ UNCHANGED part
  /\ \/ part = "recovery" /\ PendingAges
     \/ part = "curtain" /\ FiveSeconds("retry")
     \/ part = "outputs" /\ PageStep
     \/ part = "broker" /\ PassDeadline("p")
     \/ part = "faults" /\ MicrotomReceives

Weak4 ==
  /\ UNCHANGED part
  /\ \/ part = "outputs" /\ CoolEnds
     \/ part = "broker" /\ CallerStep("s")
     \/ part = "faults" /\ HandlerStep("a")

Weak5 ==
  /\ UNCHANGED part
  /\ \/ part = "broker" /\ CallerStep("p")
     \/ part = "faults" /\ HandlerStep("b")

Strong1 ==
  /\ UNCHANGED part
  /\ \/ part = "curtain" /\ CuWicklers(TRUE)
     \/ part = "leds" /\ LedTick(TRUE)
     \/ part = "sea" /\ RenewedRuntime
     \/ part = "settings" /\ MicrotomWrites

PartsFair ==
  /\ PartsSpec
  /\ WF_partVars(Weak1) /\ WF_partVars(Weak2) /\ WF_partVars(Weak3)
  /\ WF_partVars(Weak4) /\ WF_partVars(Weak5) /\ SF_partVars(Strong1)

-----------------------------------------------------------------------------
(* Properties                                                              *)

\* What holds in every state of the parts that have no property of their own for it:
\* panel, LEDs, outputs, ready line and fault reports.
MachineInv == PanelInv /\ LedsInv /\ OutputsInv /\ SeaReadyTypeOK /\ FaultsInv

\* What is asked comes about in the end, after failures and lost answers: the LEDs' and
\* the ready line's level, the end of a setup, the value of a repeated write.
MachineSettles == LedsFollow /\ SeaFollows /\ SetupEnds /\ RepeatHeals
=============================================================================
