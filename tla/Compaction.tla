----------------------------- MODULE Compaction -----------------------------
(***************************************************************************)
(* What a compaction keeps, summarises and forgets                         *)
(* (packages/coding-agent/src/core/compaction/compaction.ts), over a       *)
(* branch that grows between compactions.  The branch is the path from the *)
(* root to the leaf; an entry is named by its place on it.                 *)
(***************************************************************************)
EXTENDS Naturals, Sequences, FiniteSets, FiniteSetsExt

CONSTANTS
  Types,            \* the entries a run appends, of those below
  Sizes,            \* estimateTokens of a message
  keepRecentTokens,
  CallCounts,       \* bound: tool calls of an answer
  MaxLength         \* bound: entries of the branch

MessageTypes == {"user", "assistant", "toolResult", "bashExecution"} \* entry.type = "message"
UserLike == {"custom_message", "branch_summary"}
NoteTypes == {"note"}  \* model and level changes, labels, names, extension state

ASSUME TypesAssumption == Types \subseteq MessageTypes \union UserLike \union NoteTypes
ASSUME SizesAssumption == Sizes \subseteq Nat \ {0} /\ keepRecentTokens \in Nat \ {0}

VARIABLES
  entries,    \* the branch
  forgotten   \* history: what a summary covered and the one after it did not

compactionVars == <<entries, forgotten>>

\* first and covers are those of a compaction: where what it keeps begins, and the
\* entries its summary tells of, itself or through the summary before it.
Entry(type, tokens, calls, first, covers) ==
  [type |-> type, tokens |-> tokens, calls |-> calls, first |-> first, covers |-> covers]

CompactionInit == entries = <<>> /\ forgotten = {}

Places == DOMAIN entries
Is(i, types) == entries[i].type \in types
LastOf(S) == IF S = {} THEN 0 ELSE Max(S)

----------------------------------------------------------------------------
(* The branch grows *)

\* The answer whose call is still without a result, if the branch ends in one.
Calling ==
  LET a == LastOf({i \in Places : Is(i, MessageTypes \ {"toolResult"})})
      results == {i \in Places : i > a /\ Is(i, {"toolResult"})}
  IN  a # 0 /\ entries[a].type = "assistant" /\ Cardinality(results) < entries[a].calls

Grow(e) ==
  /\ Len(entries) < MaxLength
  /\ entries' = Append(entries, e)

AppendMessage(type, size, calls) ==
  /\ type \in Types \intersect MessageTypes
  /\ (type = "toolResult") => Calling
  /\ type # "assistant" => calls = 0
  /\ Grow(Entry(type, size, calls, 0, {}))
  /\ UNCHANGED forgotten

\* Custom messages come between the runs of the agent, notes at any time.
AppendOther(type) ==
  /\ type \in Types \ MessageTypes
  /\ type \in UserLike => ~Calling
  /\ Grow(Entry(type, 0, 0, 0, {}))
  /\ UNCHANGED forgotten

----------------------------------------------------------------------------
(* findCutPoint, for the entries from start on *)

\* Seeded fault: any message may be the first one that is kept.
ValidCutPointsAnywhere(start) == {i \in Places : i >= start /\ Is(i, MessageTypes \union UserLike)}

\* findValidCutPoints: tool results stay behind their call.
ValidCutPoints(start) ==
  {i \in Places : i >= start /\ Is(i, (MessageTypes \ {"toolResult"}) \union UserLike)}

\* findTurnStartIndex; 0 is none.
TurnStart(i, start) ==
  LastOf({j \in start .. i : Is(j, {"user", "bashExecution"} \union UserLike)})

\* What the messages from i on amount to, accumulated from the newest one back.
TokensFrom(i) ==
  LET accumulated[j \in 1 .. Len(entries) + 1] ==
        IF j > Len(entries) THEN 0
        ELSE accumulated[j + 1] + (IF Is(j, MessageTypes) THEN entries[j].tokens ELSE 0)
  IN  accumulated[i]

\* The newest message with which the budget is used up; 0 when everything fits.
BudgetEnd(start) ==
  LastOf({i \in Places : i >= start /\ Is(i, MessageTypes) /\ TokensFrom(i) >= keepRecentTokens})

\* The first valid cut from there on, or else the very first.
Cut(start) ==
  LET cuts == ValidCutPoints(start)
      after == {c \in cuts : c >= BudgetEnd(start)}
  IN  IF BudgetEnd(start) = 0 \/ after = {} THEN Min(cuts) ELSE Min(after)

\* Entries before the cut that are no messages are kept as well.
ScannedBack(cut, start) ==
  Min({i \in start .. cut : \A j \in i .. cut - 1 : ~Is(j, MessageTypes \union {"compaction"})})

CutPoint(start) ==
  IF ValidCutPoints(start) = {} THEN [firstKept |-> start, turnStart |-> 0, isSplitTurn |-> FALSE]
  ELSE LET first == ScannedBack(Cut(start), start)
           turn == IF Is(first, {"user"}) THEN 0 ELSE TurnStart(first, start)
       IN  [firstKept |-> first, turnStart |-> turn, isSplitTurn |-> turn # 0]

----------------------------------------------------------------------------
(* prepareCompaction and compact *)

\* The entries that have a message for the model.
Shown(from, to) == {i \in Places : i \in from .. to /\ Is(i, MessageTypes \union UserLike)}

LastCompaction == LastOf({i \in Places : Is(i, {"compaction"})})
BoundaryStart == IF LastCompaction = 0 THEN 1 ELSE entries[LastCompaction].first

\* Two summaries when a turn is split: the prefix of the turn has one of its own,
\* and what came before is "No prior history." when no message did.
Summarised(point) ==
  LET previous == IF LastCompaction = 0 THEN {} ELSE entries[LastCompaction].covers
      historyEnd == IF point.isSplitTurn THEN point.turnStart ELSE point.firstKept
      history == Shown(BoundaryStart, historyEnd - 1)
      prefix == IF point.isSplitTurn THEN Shown(point.turnStart, point.firstKept - 1) ELSE {}
  IN  IF prefix # {} /\ history = {} THEN prefix ELSE previous \union history \union prefix

Compact ==
  LET point == CutPoint(BoundaryStart) IN
  /\ entries # <<>> /\ LastCompaction # Len(entries)
  /\ Grow(Entry("compaction", 0, 0, point.firstKept, Summarised(point)))
  /\ forgotten' = forgotten \union
       (IF LastCompaction = 0 THEN {} ELSE entries[LastCompaction].covers \ Summarised(point))

CompactionNext ==
  \/ \E type \in Types, size \in Sizes, calls \in CallCounts : AppendMessage(type, size, calls)
  \/ \E type \in Types : AppendOther(type)
  \/ Compact

CompactionSpec == CompactionInit /\ [][CompactionNext]_compactionVars

----------------------------------------------------------------------------
(* Properties *)

\* buildSessionContext: what follows the first kept entry, or everything.
Kept == Shown(BoundaryStart, Len(entries))
Covered == IF LastCompaction = 0 THEN {} ELSE entries[LastCompaction].covers

\* The model sees every message of the branch, or a summary of it ("passing the
\* previous summary as iterative context when present", "History summary: Previous
\* context (if any)").
NothingForgotten == Shown(1, Len(entries)) \subseteq Kept \union Covered

\* A result is kept only together with the answer that called for it.
ResultsFollowCalls ==
  \A i \in Kept : Is(i, {"toolResult"}) =>
    LastOf({j \in Places : j < i /\ Is(j, {"assistant"})}) \in Kept

\* A compaction keeps no more than the budget and one message, unless the branch
\* ends in results that use it up.
KeepsTheRecent ==
  LastCompaction # 0 /\ LastCompaction = Len(entries) =>
    LET first == entries[LastCompaction].first
    IN  \/ TokensFrom(first) < keepRecentTokens + Max(Sizes)
        \/ LET answer == LastOf({i \in Places : Is(i, (MessageTypes \ {"toolResult"}) \union UserLike)})
           IN  TokensFrom(answer + 1) >= keepRecentTokens

\* Whatever is compacted and how often: every message is kept or summarised but for
\* what "No prior history." has replaced, results stay with their calls, and the
\* branch shrinks to what is recent.
CompactionKeeps ==
  /\ Shown(1, Len(entries)) \subseteq Kept \union Covered \union forgotten
  /\ ResultsFollowCalls
  /\ KeepsTheRecent
=============================================================================
