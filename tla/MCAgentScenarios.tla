-------------------------- MODULE MCAgentScenarios --------------------------
(***************************************************************************)
(* Small instances of Agent in one state graph: parallel tools; messages   *)
(* and clears without rejections, and fewer messages with one; sequential  *)
(* tools with queues that give one message at a time.                      *)
(***************************************************************************)
EXTENDS Agent, TLC

CONSTANTS ToolMsgs, QueueMsgs

BothModes == {"all", "one-at-a-time"}
OneAtATime == {"one-at-a-time"}

VARIABLE scenario

Tools == INSTANCE Agent WITH
  Msgs <- ToolMsgs, ToolExecution <- "parallel", MaxCalls <- 2, MaxToolTurns <- 2, MaxClears <- 0
Queues == INSTANCE Agent WITH
  Msgs <- QueueMsgs, ToolExecution <- "sequential", MaxCalls <- 0, MaxToolTurns <- 0,
  MaxFaults <- 0, MaxClears <- 1
Clears == INSTANCE Agent WITH
  Msgs <- ToolMsgs, ToolExecution <- "sequential", MaxCalls <- 0, MaxToolTurns <- 0, MaxClears <- 1
Turns == INSTANCE Agent WITH
  Msgs <- QueueMsgs, Modes <- OneAtATime, ToolExecution <- "sequential",
  MaxBatch <- 1, MaxCalls <- 1, MaxToolTurns <- 1, MaxClears <- 0

ScenarioInit ==
  \/ scenario \in {"tools", "queues", "clears"} /\ Init
  \/ scenario = "turns" /\ Turns!Init

ScenarioNext ==
  \/ scenario = "tools" /\ Tools!Next /\ UNCHANGED scenario
  \/ scenario = "queues" /\ Queues!Next /\ UNCHANGED scenario
  \/ scenario = "clears" /\ Clears!Next /\ UNCHANGED scenario
  \/ scenario = "turns" /\ Turns!Next /\ UNCHANGED scenario

ScenarioSpec == ScenarioInit /\ [][ScenarioNext]_<<vars, scenario>>

\* What is set to go one at a time does: two steering messages never go into one
\* request, not even when continue() has drained the first itself, and no sequential
\* tool outlives its run, whichever hook rejects.
NothingOverlaps == scenario = "turns" => Turns!OneSteeringPerRequest /\ ToolsSettledWhenIdle

AllMsgs == ToolMsgs \union QueueMsgs
MsgSymmetry == Permutations(ToolMsgs) \union Permutations(QueueMsgs)
=============================================================================
