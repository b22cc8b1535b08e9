--------------------------- MODULE HeatingSystem ---------------------------
(***************************************************************************)
(* The heating controller in a closed loop with the zone relays, over a    *)
(* network that loses commands and reports.  The relays and the broker are *)
(* external: a relay obeys the command that reaches it, reports its state  *)
(* after a command and when asked (the GETs of handle_heating_tick), and   *)
(* may be switched by hand.  At most one command and one report per zone   *)
(* are in flight; a newer one replaces it, which is a loss of the older.   *)
(***************************************************************************)
EXTENDS Heating

VARIABLES physical,   \* the contact of each relay
          wire,       \* command in flight to each relay
          echo,       \* report in flight from each relay
          gen         \* heating_tick_gen, modulo 2

network == <<physical, wire, echo>>
sysVars == <<vars, network, gen>>

SysInit == /\ Init
           /\ physical \in [Zones -> Reports]
           /\ wire = [z \in Zones |-> None]
           /\ echo = [z \in Zones |-> None]
           /\ gen = 0

\* A tick and the publication of the relay commands it decides
SysTick ==
  \E temp \in [Trvs -> Temps], open \in SUBSET WindowTrvs :
    LET told == Decision(WithOpenWindows(ScheduledValves(temp), open)).told
    IN  /\ Tick(temp, open)
        /\ wire' = [z \in Zones |-> IF told[z] # None THEN told[z] ELSE wire[z]]
        /\ gen' = 1 - gen
        /\ UNCHANGED <<physical, echo>>

Deliver(z) ==
  /\ wire[z] # None
  /\ physical' = [physical EXCEPT ![z] = wire[z]]
  /\ echo' = [echo EXCEPT ![z] = wire[z]]
  /\ wire' = [wire EXCEPT ![z] = None]
  /\ UNCHANGED <<vars, gen>>

LoseCommand(z) ==
  /\ wire[z] # None
  /\ wire' = [wire EXCEPT ![z] = None]
  /\ UNCHANGED <<vars, physical, echo, gen>>

\* The relay answers a GET.
Report(z) ==
  /\ echo' = [echo EXCEPT ![z] = physical[z]]
  /\ UNCHANGED <<vars, physical, wire, gen>>

LoseReport(z) ==
  /\ echo[z] # None
  /\ echo' = [echo EXCEPT ![z] = None]
  /\ UNCHANGED <<vars, physical, wire, gen>>

HandleReport(z) ==
  /\ echo[z] # None
  /\ WallThermostatState(z, echo[z])
  /\ echo' = [echo EXCEPT ![z] = None]
  /\ UNCHANGED <<physical, wire, gen>>

SwitchedByHand(z) ==
  /\ physical' = [physical EXCEPT ![z] = IF @ = "On" THEN "Off" ELSE "On"]
  /\ UNCHANGED <<vars, wire, echo, gen>>

Valve == /\ \E t \in Trvs, demand \in BOOLEAN, setpoint \in SetpointReports :
              TrvState(t, demand, setpoint)
         /\ UNCHANGED <<network, gen>>

SysAdvance == Advance /\ UNCHANGED <<network, gen>>

SysRestart == Restart /\ UNCHANGED <<network, gen>>

SysNext ==
  \/ SysTick
  \/ \E z \in Zones : \/ Deliver(z) \/ LoseCommand(z) \/ Report(z)
                      \/ LoseReport(z) \/ HandleReport(z) \/ SwitchedByHand(z)
  \/ Valve
  \/ SysAdvance
  \/ SysRestart

\* A tick is always enabled, so weak fairness of it says that ticks never end.
TicksForEver == []<><<gen' # gen>>_sysVars

\* The interval timer keeps ticking; the refresh GETs are answered; a message
\* sent again and again is delivered again and again.
SysSpec ==
  /\ SysInit /\ [][SysNext]_sysVars
  /\ TicksForEver /\ WF_sysVars(SysAdvance)
  /\ \A z \in Zones : /\ SF_sysVars(Deliver(z)) /\ WF_sysVars(Report(z))
                      /\ SF_sysVars(HandleReport(z))

-----------------------------------------------------------------------------
(* Properties *)

Undisturbed == <>[][~SysRestart /\ \A z \in Zones : ~SwitchedByHand(z)]_sysVars

\* When no valve demands heat any more, the pump comes to rest: every relay
\* ends up off and stays off, whatever was lost and wherever a restart or a
\* hand on a relay left the controller (cancellation, min_cycle hold, retries
\* and re-dirtied targets together).
PumpStops ==
  Undisturbed /\ <>[](\A t \in Trvs : ~raw[t]) =>
    <>[](\A z \in Zones : physical[z] = "Off")

\* An ON that was commanded is not forgotten: it reaches the relay, or the
\* controller withdraws it, however many commands and reports are lost
\* (reconcile_relays).
OnCommandLands ==
  \A z \in Zones :
    (target[z].value = "Heating" /\ target[z].phase \in {"Commanded", "Stale"})
      ~> (physical[z] = "On" \/ target[z].value # "Heating")

\* A zone whose valves demand heat for ever gets its relay on, again and again
\* if need be: past min_pause, lost commands and reports, and OFF echoes that
\* make the controller give an ON up.  The exception is a zone that keeps a
\* Heating target seeded as confirmed while its relay is off: no pass
\* of the tick ever commands that relay.
SeededCold(z) == target[z].value = "Heating" /\ target[z].phase = "Confirmed"
                   /\ relay[z] = "Off"

DemandServed ==
  \A z \in Zones :
    Undisturbed /\ <>[](z \in Known /\ z \in Demand(valve)) =>
      []<>(physical[z] = "On") \/ <>[]SeededCold(z)
=============================================================================
