-------------------------------- MODULE Leds --------------------------------
(***************************************************************************)
(* The thread that drives the two colours of the pause button, Q0.0 and    *)
(* Q0.2 (service.button_led_loop, MachineRuntime.                          *)
(* refresh_button_led_outputs and _apply_button_led_plan).  Production (5) *)
(* lights both, the safety latch one after the other, most states none.    *)
(* The thread remembers the plan it has shown and writes only the          *)
(* differences, except when a tick is forced (every 10 s) or the           *)
(* MachineRuntime is new (every 5 s) and remembers nothing.                *)
(***************************************************************************)
EXTENDS Naturals

CONSTANT MaxLedErrors  \* bound on failed writes

ASSUME LedsAssumption == MaxLedErrors \in Nat

VARIABLES
  ldWant,   \* the colours the state asks for
  ldReal,   \* the colours that are lit
  ldPlan,   \* _button_led_last_plan
  ldTick,   \* the tick: the colours still to be written
  ldStuck,  \* history: since all was last written well, a colour could not be switched
            \* off, or a plan of both colours was shown by half
  ldErrors

ldVars == <<ldWant, ldReal, ldPlan, ldTick, ldStuck, ldErrors>>

Colours == {"red", "blue"}
Plans == {{}, {"red"}, {"blue"}, Colours}
\* all: the tick writes every colour; was (history): what was lit when it began.
TickIdle == [busy |-> FALSE, aim |-> {}, off |-> {}, on |-> {}, all |-> FALSE, bad |-> FALSE,
             was |-> {}]

LedsInit ==
  /\ ldWant \in Plans /\ ldReal \in Plans /\ ldPlan = {"none"}
  /\ ldTick = TickIdle /\ ldStuck = FALSE /\ ldErrors = 0

WantOther ==
  /\ ldWant' \in Plans \ {ldWant}
  /\ UNCHANGED <<ldReal, ldPlan, ldTick, ldStuck, ldErrors>>

\* The next round of the loop has a MachineRuntime that knows no plan.
NewRuntime ==
  /\ ~ldTick.busy /\ ldPlan' = {"none"}
  /\ UNCHANGED <<ldWant, ldReal, ldTick, ldStuck, ldErrors>>

\* What a tick writes: everything when it is forced or knows no plan, otherwise the
\* differences.
ToWriteBug(force, plan) ==
  IF plan = {"none"} THEN Colours
  ELSE {c \in Colours : (c \in plan) # (c \in ldWant)}

ToWrite(force, plan) ==
  IF force \/ plan = {"none"} THEN Colours
  ELSE {c \in Colours : (c \in plan) # (c \in ldWant)}

LedTick(force) ==
  /\ ~ldTick.busy
  /\ ldTick' = [busy |-> TRUE, aim |-> ldWant,
                off |-> ToWrite(force, ldPlan) \ ldWant,
                on |-> ToWrite(force, ldPlan) \cap ldWant,
                all |-> ToWrite(force, ldPlan) = Colours, bad |-> FALSE, was |-> ldReal]
  /\ UNCHANGED <<ldWant, ldReal, ldPlan, ldStuck, ldErrors>>

\* Colours that go off are written before the one that goes on.
MayWrite(c) == c \in ldTick.off \/ (ldTick.off = {} /\ c \in ldTick.on)

LedWrites(c) ==
  /\ MayWrite(c)
  /\ ldReal' = IF c \in ldTick.off THEN ldReal \ {c} ELSE ldReal \cup {c}
  /\ ldTick' = [ldTick EXCEPT !.off = @ \ {c}, !.on = @ \ {c}]
  /\ UNCHANGED <<ldWant, ldPlan, ldStuck, ldErrors>>

\* A failed write is logged and the next one is done all the same.
LedFails(c) ==
  /\ MayWrite(c) /\ ldErrors < MaxLedErrors /\ ldErrors' = ldErrors + 1
  /\ ldTick' = [ldTick EXCEPT !.off = @ \ {c}, !.on = @ \ {c}, !.bad = TRUE]
  /\ ldStuck' = (ldStuck \/ c \in ldTick.off \/ ldTick.aim = Colours)
  /\ UNCHANGED <<ldWant, ldReal, ldPlan>>

LedEnds ==
  /\ ldTick.busy /\ ldTick.off = {} /\ ldTick.on = {}
  /\ ldPlan' = IF ldTick.bad THEN ldPlan ELSE ldTick.aim
  /\ ldTick' = TickIdle
  /\ ldStuck' = (ldStuck /\ (ldTick.bad \/ ~ldTick.all))
  /\ UNCHANGED <<ldWant, ldReal, ldErrors>>

LedStep == LedTick(FALSE) \/ (\E c \in Colours : LedWrites(c)) \/ LedEnds

-----------------------------------------------------------------------------
LedsNext ==
  WantOther \/ NewRuntime \/ LedTick(TRUE) \/ LedStep \/ \E c \in Colours : LedFails(c)

LedsSpec == LedsInit /\ [][LedsNext]_ldVars

\* The thread runs on, and again and again a tick is forced.
LedsFair ==
  /\ LedsSpec
  /\ WF_ldVars((\E c \in Colours : LedWrites(c)) \/ LedEnds)
  /\ WF_ldVars(LedTick(FALSE)) /\ SF_ldVars(LedTick(TRUE))

-----------------------------------------------------------------------------
(* Properties                                                              *)

\* Every variable keeps its shape, the plan that is remembered is one that was
\* written, and a tick carries nothing into the next one.
LedsTypeOK ==
  /\ ldWant \in Plans /\ ldReal \subseteq Colours /\ ldStuck \in BOOLEAN
  /\ ldPlan \in Plans \cup {{"none"}}
  /\ ldTick.aim \in Plans /\ ldTick.on \subseteq ldTick.aim
  /\ ldTick.off \cap ldTick.aim = {}
  /\ ldTick.was \subseteq Colours
  /\ ldTick.busy \/ ldTick = TickIdle
  /\ ldErrors \in 0 .. MaxLedErrors

\* No tick mixes an old plan with a new one: while it writes, what is lit is part of what
\* was lit when it began, or part of what it has to show.  Both colours come on only where
\* the plan asks for both.  Excepted is the time from a colour that could not be switched
\* off, or a plan of both that was shown by half, to the next tick that writes every colour:
\* the remembered plan is an older one then, and the differences are taken from it.
NeverMixed ==
  ldTick.busy => ldStuck \/ ldReal \subseteq ldTick.aim \/ ldReal \subseteq ldTick.was

\* The LEDs end up as the state asks, also after a tick that failed half way
\* and left the remembered plan behind.
LedsFollow == \A p \in Plans : <>[](ldWant = p) => <>[](ldReal = p)

\* What holds of the button LEDs in every state.
LedsInv == LedsTypeOK /\ NeverMixed
=============================================================================
