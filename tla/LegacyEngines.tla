--------------------------- MODULE LegacyEngines ----------------------------
(***************************************************************************)
(* One account of the archived tree and the engine it is given: the api    *)
(* starts the modular engine or the runner, as use_modular_engine says, or *)
(* the autopilot.  The plan of the runner is checked apart from what the   *)
(* runner does with it.  One of the four a behaviour.                      *)
(***************************************************************************)
EXTENDS LegacyRunner, LegacyAutopilot, LegacyModular, LegacySizing

VARIABLE engine   \* which one

legacyVars == <<engine, runnerVars, autopilotVars, modularVars, sizingVars>>

Engines == {"runner", "autopilot", "modular", "planner"}

\* The state the others keep.
onlyRunner    == <<at, running, mode, objects, current, tick, fill, stream, messages, starts, ordered>>
onlyAutopilot == <<on, stopping, step, entryType, pending, seen, cooling, counted, since, cycle, cycles>>

LegacyInit ==
  /\ engine \in Engines
  /\ RunnerInit /\ AutopilotInit /\ ModularInit /\ SizingInit
  /\ engine # "runner" => mode = CHOOSE m \in OrderModes : TRUE
  /\ engine # "autopilot" => entryType = CHOOSE e \in EntryTypes : TRUE

RunnerStep ==
  engine = "runner" /\ RunnerNext /\ UNCHANGED <<engine, onlyAutopilot, modularVars, sizingVars>>
AutopilotStep ==
  engine = "autopilot" /\ AutopilotNext /\ UNCHANGED <<engine, onlyRunner, modularVars, sizingVars>>
ModularStep ==
  engine = "modular" /\ ModularNext /\ UNCHANGED <<engine, runnerVars, onlyAutopilot, sizingVars>>
PlannerStep ==
  engine = "planner" /\ SizingNext /\ UNCHANGED <<engine, runnerVars, onlyAutopilot, modularVars>>

LegacyNext == RunnerStep \/ AutopilotStep \/ ModularStep \/ PlannerStep

LegacySpec == LegacyInit /\ [][LegacyNext]_legacyVars

=============================================================================
