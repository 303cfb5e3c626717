------------------------- MODULE MCSessionScenarios -------------------------
(***************************************************************************)
(* Small instances of SessionManager in one state graph: sessions with     *)
(* compactions and branch summaries but neither bookmarks nor crashes, and *)
(* saved or in-memory ones with bookmarks and a crash.                     *)
(***************************************************************************)
EXTENDS SessionManager

CONSTANT bookmark

Bookmarks == {bookmark}
Either == BOOLEAN
Chat == {"user", "assistant"}
ChatAndMore == Chat \union {"model_change", "branch_summary", "compaction"}

ASSUME ChatAssumption == Chat \subseteq Kinds

VARIABLE scenario

ScenarioInit ==
  /\ Init
  /\ scenario \in {"plain", "marked"}
  /\ scenario = "plain" => sm.persist

ScenarioNext ==
  /\ UNCHANGED scenario
  /\ \/ scenario = "plain" /\ Operate(Kinds)
     \/ scenario = "marked" /\ (Operate(Chat) \/ Mark \/ Crash(Chat))

ScenarioSpec == ScenarioInit /\ [][ScenarioNext]_<<vars, scenario>>

----------------------------------------------------------------------------
(* What holds without bookmarks and crashes only. *)

\* With an answer in it a file holds what memory holds; no entry is written twice and no
\* file has two headers.
FileIsMemory ==
  /\ SavedIsReloadable
  /\ scenario = "plain" => OneHeaderNoDuplicates

\* What an entry refers to is in its session, after forks too: its parent, and the first
\* entry a compaction has kept.
ReferencesResolve == scenario = "plain" => ParentsPresent /\ CompactionKeepsItsTail

\* A fork starts from the context of the branch it was made from.
ForkKeepsContext == [][scenario = "plain" => AnsweredForkKeeps]_vars

\* The session store keeps the promise of ConversationLog: a conversation is the
\* entries in memory, what is durable of it is what opening its file would load.
IsAssistant(l) == l.kind = "assistant"
Store ==
  INSTANCE ConversationLog WITH
    Logs <- Files, IsAnswer <- IsAssistant,
    current <- IF scenario = "plain" THEN sm.file ELSE 1,
    live <- IF scenario = "plain" THEN Tail(sm.fileEntries) ELSE <<>>,
    durable <- [f \in Files |->
                 IF scenario = "plain" /\ HasHeader(disk[f]) THEN Tail(Loaded(disk[f])) ELSE <<>>]
LogSpec == Store!Spec
=============================================================================
