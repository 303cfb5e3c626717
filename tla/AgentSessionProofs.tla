------------------------- MODULE AgentSessionProofs -------------------------
(***************************************************************************)
(* Theorems about AgentSession for any number of prompts, troubles and     *)
(* retries: an overflow is recovered from once, every variable keeps its   *)
(* kind, and what the agent shows is what the saved branch would show.     *)
(***************************************************************************)
EXTENDS AgentSession, SequenceTheorems, FiniteSetTheorems, TLAPS

----------------------------------------------------------------------------
(* What is on its way to the session *)

Phases == {"off", "auth", "summary"}
Compactions == [phase : Phases, keep : Nat, retry : BOOLEAN]
UserMessages == {m \in Messages : m.role = "user"}
Spoken == {m \in Messages : m.role \in {"user", "assistant"}}
Commands == {m \in Messages : m.role = "bash"}
Events == [type : {"message", "agent_end"}, msg : Spoken]

\* Where messages wait is one kind of message, and an answer that is asked for is one.
FlowOK ==
  /\ inbox \in Seq(UserMessages) /\ queued \in Seq(UserMessages)
  /\ pendingBash \in Seq(Commands) /\ entries \in Seq(Messages) /\ events \in Seq(Events)
  /\ reply \in Messages /\ (run \in {"asking", "ending"} => reply.role = "assistant")
  /\ nextId \in Nat /\ compactions \in [Owners -> Compactions]
  /\ overflowRecoveryAttempted \in BOOLEAN /\ overtaken \in BOOLEAN

\* A recovery under way: the compaction after which the session asks again.
Recovers(o) == compactions[o].retry
IsRecovery(e) == e.role = "compaction" /\ e.stop = "overflow"
\* What lets the session recover once more.
IsProgress(e) == e.role = "user" \/ (IsAssistant(e) /\ ~IsError(e))

\* Behind every recovery there is progress; between any two there is.
Covered(es) ==
  \A i \in DOMAIN es : IsRecovery(es[i]) =>
    \E k \in DOMAIN es : i < k /\ IsProgress(es[k])
Separated(es) ==
  \A i, j \in DOMAIN es :
    i < j /\ IsRecovery(es[i]) /\ IsRecovery(es[j]) => \E k \in i .. j : IsProgress(es[k])

\* Until the session and the agent change the conversation at the same time: a recovery runs
\* alone, with nothing to be saved behind it, and whenever another may begin there is
\* progress behind the last.
UndisturbedInv ==
  /\ \A o \in Owners : Recovers(o) => overflowRecoveryAttempted /\ ~Overtakes
  /\ \A o, p \in Owners : Recovers(o) /\ Recovers(p) => o = p
  /\ ~overflowRecoveryAttempted \/ (\E o \in Owners : Recovers(o)) => Covered(entries)
  /\ Separated(entries)

RecoveryInv ==
  /\ \A o \in Owners : Recovers(o) => Compacting(o)
  /\ ~overtaken => UndisturbedInv
----------------------------------------------------------------------------
(* What is on its way keeps its kind *)

\* What a sequence of the elements of S keeps.
LEMMA Sequences ==
  ASSUME NEW S, NEW s \in Seq(S)
  PROVE  /\ <<>> \in Seq(S)
         /\ \A x \in S : Append(s, x) \in Seq(S) /\ <<x>> \in Seq(S)
         /\ s # <<>> => Head(s) \in S /\ Tail(s) \in Seq(S)
         /\ \A t \in Seq(S) : s \o t \in Seq(S)
         /\ s # <<>> => Len(s) \in DOMAIN s /\ s[Len(s)] \in S
OBVIOUS

\* Every operation, and every step of a run, puts on each of the ways only what belongs there.
LEMMA FlowStep == FlowOK /\ [Next]_vars => FlowOK'
<1> SUFFICES ASSUME FlowOK, [Next]_vars PROVE FlowOK'
  OBVIOUS
<1> USE DEF FlowOK
<1>a. /\ UserMessages \subseteq Spoken /\ Spoken \subseteq Messages /\ Commands \subseteq Messages
      /\ \A m \in Spoken : MessageEvent(m) \in Events /\ AgentEnd(m) \in Events
      /\ \A e \in Events : e.msg \in Spoken
      /\ User(nextId) \in UserMessages /\ Msg("bash", nextId, "none", 0) \in Commands
      /\ None \in Messages /\ NoCompaction \in Compactions
  BY DEF UserMessages, Spoken, Commands, Messages, MessageEvent, AgentEnd, Events, User, Msg, None,
         NoCompaction, Compactions, Phases
<1>b. \A stop \in Outcomes \union Throws \union {"none", "stop", "full", "aborted", "aborted full"} :
        Assistant(nextId, stop) \in Spoken /\ Assistant(nextId, stop).role = "assistant"
  BY KindsAssumption DEF Assistant, Msg, Spoken, Messages, Failures
<1>c. \A o \in Owners, c \in Compactions : [compactions EXCEPT ![o] = c] \in [Owners -> Compactions]
  OBVIOUS
<1>d. ASSUME NEW o \in Owners, NEW v PROVE Started(o, v, compactions) \in [Owners -> Compactions]
  BY DEF Started, Compactions, Phases
<1>e. 0 \in Owners /\ Manual \in Owners /\ Callers \subseteq Owners
  BY BoundsAssumption DEF Owners, Manual, Callers
<1>f. ASSUME NEW e \in Events, Emit(e) PROVE events' \in Seq(Events) /\ overtaken' \in BOOLEAN
  BY <1>f, Sequences DEF Emit
<1>g. ASSUME pendingBash' = <<>>, entries' = entries \o pendingBash
      PROVE  pendingBash' \in Seq(Commands) /\ entries' \in Seq(Messages)
  <2>1. pendingBash \in Seq(Messages)
    BY <1>a
  <2> QED BY <1>g, <2>1, Sequences
<1>1. CASE RunInject
  <2>1. Head(inbox) \in Spoken /\ Tail(inbox) \in Seq(UserMessages)
    BY <1>1, <1>a, Sequences DEF RunInject
  <2>2. events' \in Seq(Events) /\ overtaken' \in BOOLEAN
    BY <1>1, <1>a, <1>f, <2>1 DEF RunInject
  <2> QED BY <1>1, <2>1, <2>2 DEF RunInject
<1>2. CASE RunAsk
  <2>1. Assistant(nextId, "none") \in Messages /\ Assistant(nextId, "none").role = "assistant"
    BY <1>a, <1>b
  <2>2. reply' \in Messages /\ reply'.role = "assistant" /\ nextId' \in Nat
    BY <1>2, <2>1 DEF RunAsk
  <2> QED BY <1>2, <2>2 DEF RunAsk, ghostVars
<1>3. ASSUME NEW stop \in Stops, RunReply(stop) PROVE FlowOK'
  <2> DEFINE m == [reply EXCEPT !.stop = stop]
  <2>1. m \in Spoken /\ m.role = "assistant"
    BY <1>3, KindsAssumption DEF RunReply, Stops, Spoken, Messages, Failures
  <2>2. events' \in Seq(Events) /\ overtaken' \in BOOLEAN
    BY <1>3, <1>a, <1>f, <2>1 DEF RunReply
  <2>3. inbox' \in Seq(UserMessages) /\ queued' \in Seq(UserMessages)
    BY <1>3, Sequences DEF RunReply
  <2> QED BY <1>3, <1>a, <2>1, <2>2, <2>3 DEF RunReply
<1>4. CASE RunEnd
  <2>1. reply \in Spoken
    BY <1>4 DEF RunEnd, Spoken
  <2>2. events' \in Seq(Events) /\ overtaken' \in BOOLEAN
    BY <1>4, <1>a, <1>f, <2>1 DEF RunEnd
  <2> QED BY <1>4, <2>2 DEF RunEnd
<1>5. ASSUME NEW stop \in Throws, RunThrow(stop) PROVE FlowOK'
  <2> DEFINE m == Assistant(nextId, IF stopping THEN "aborted" ELSE stop)
  <2>1. m \in Spoken
    BY <1>b
  <2>2. events' \in Seq(Events) /\ overtaken' \in BOOLEAN
    BY <1>5, <1>a, <1>f, <2>1 DEF RunThrow
  <2> QED BY <1>5, <1>a, <2>1, <2>2 DEF RunThrow
<1>6. CASE SaveMessage
  <2>1. Head(events).msg \in Messages /\ Tail(events) \in Seq(Events)
    BY <1>6, <1>a, Sequences DEF SaveMessage
  <2>2. entries' \in Seq(Messages)
    BY <1>6, <2>1, Sequences DEF SaveMessage
  <2> QED BY <1>6, <2>1, <2>2 DEF SaveMessage, agentVars, runVars, ghostVars
<1>7. CASE EndUnanswered
  BY <1>7, Sequences DEF EndUnanswered, agentVars, runVars, ghostVars
<1>8. CASE EndBacksOff
  BY <1>8, Sequences DEF EndBacksOff, EndOfRun, agentVars, runVars, ghostVars
<1>9. CASE EndChecks
  <2>1. /\ compactions' \in [Owners -> Compactions] /\ overtaken' \in BOOLEAN
        /\ overflowRecoveryAttempted' \in BOOLEAN
    BY <1>9, <1>d, <1>e DEF EndChecks, CheckAfterRun, CheckCompaction, EventHandler
  <2>2. events' \in Seq(Events)
    BY <1>9, Sequences DEF EndChecks, EndOfRun
  <2> QED BY <1>9, <2>1, <2>2 DEF EndChecks, agentVars, runVars, ghostVars
<1>10. CASE BackoffEnds \/ ManualReady \/ UNCHANGED vars
  BY <1>10, <1>d, <1>e DEF BackoffEnds, ManualReady, agentVars, runVars, ghostVars, vars
<1>11. CASE TimerFires
  BY <1>11, <1>a, Sequences DEF TimerFires, Begin, runVars
<1>12. ASSUME NEW o \in Owners, Compaction(o) PROVE FlowOK'
  <2>1. CASE Prepare(o)
    <3>1. Len(entries) \in Nat
      OBVIOUS
    <3>2. [compactions[o] EXCEPT !.phase = "summary", !.keep = Len(entries)] \in Compactions
      BY <3>1 DEF Compactions, Phases
    <3>3. [compactions EXCEPT ![o].phase = "summary", ![o].keep = Len(entries)]
            \in [Owners -> Compactions]
      BY <3>1, <3>2 DEF Compactions, Phases
    <3>4. compactions' \in [Owners -> Compactions]
      BY <2>1, <1>a, <1>c, <3>3 DEF Prepare
    <3> QED BY <2>1, <3>4 DEF Prepare, agentVars, runVars, ghostVars
  <2>2. CASE FinishCompaction(o)
    <3> DEFINE c == compactions[o]
               m == Msg("compaction", nextId, IF c.retry THEN "overflow" ELSE "none", c.keep)
    <3>1. m \in Messages
      BY DEF Msg, Messages, Compactions, Failures
    <3>2. entries' \in Seq(Messages)
      BY <2>2, <3>1, Sequences DEF FinishCompaction
    <3> QED BY <2>2, <1>a, <1>c, <3>2 DEF FinishCompaction, runVars
  <2>3. CASE FailCompaction(o)
    BY <2>3, <1>a, <1>c DEF FailCompaction, agentVars, runVars, ghostVars
  <2> QED BY <1>12, <2>1, <2>2, <2>3 DEF Compaction
<1>13. ASSUME NEW c \in Callers, PromptCalled(c) \/ Prompt(c) PROVE FlowOK'
  <2>1. CASE PromptCalled(c) \/ PromptRejected(c) \/ PromptWaits(c)
    BY <2>1 DEF PromptCalled, PromptRejected, PromptWaits, agentVars, runVars, ghostVars
  <2>2. CASE PromptQueues(c)
    BY <2>2, <1>a, Sequences DEF PromptQueues, runVars, ghostVars
  <2>3. CASE PromptChecks(c)
    <3>1. compactions' \in [Owners -> Compactions] /\ overflowRecoveryAttempted' \in BOOLEAN
      BY <2>3, <1>d, <1>e DEF PromptChecks, CheckCompaction
    <3>2. /\ pendingBash' \in Seq(Commands) /\ entries' \in Seq(Messages)
          /\ overtaken' \in BOOLEAN
      BY <2>3, <1>g DEF PromptChecks, FlushPendingBash
    <3> QED BY <2>3, <3>1, <3>2 DEF PromptChecks, runVars
  <2>4. CASE PromptRefused(c)
    <3>1. /\ pendingBash' \in Seq(Commands) /\ entries' \in Seq(Messages)
          /\ overtaken' \in BOOLEAN
      BY <2>4, <1>g DEF PromptRefused, FlushPendingBash
    <3> QED BY <2>4, <3>1 DEF PromptRefused, runVars
  <2>5. CASE PromptRuns(c)
    <3>1. <<User(nextId)>> \in Seq(UserMessages)
      BY <1>a, Sequences
    <3> QED BY <2>5, <1>a, <3>1 DEF PromptRuns, Begin
  <2> QED BY <1>13, <2>1, <2>2, <2>3, <2>4, <2>5 DEF Prompt
<1>14. CASE Queue
  BY <1>14, <1>a, Sequences DEF Queue, runVars, ghostVars
<1>15. CASE RecordBash
  <2>1. pendingBash' \in Seq(Commands) /\ entries' \in Seq(Messages) /\ overtaken' \in BOOLEAN
    BY <1>15, <1>a, Sequences DEF RecordBash
  <2> QED BY <1>15, <2>1 DEF RecordBash, runVars
<1>16. CASE Abort \/ ManualCompaction
  <2>1. /\ compactions' \in [Owners -> Compactions] /\ overtaken' \in BOOLEAN
        /\ overflowRecoveryAttempted' \in BOOLEAN
    BY <1>16, <1>d, <1>e
       DEF Abort, ManualCompaction, AbortRetry, CheckAfterRun, CheckCompaction, EventHandler
  <2> QED BY <1>16, <2>1 DEF Abort, ManualCompaction
<1> QED
  BY <1>1, <1>2, <1>3, <1>4, <1>5, <1>6, <1>7, <1>8, <1>9, <1>10, <1>11, <1>12, <1>13, <1>14,
     <1>15, <1>16 DEF Next, Running, Handler

----------------------------------------------------------------------------
(* An overflow is recovered from once *)

\* What is saved without a recovery in it keeps the recoveries apart; a recovery saved behind
\* progress does too.
LEMMA Saved ==
  ASSUME NEW es \in Seq(Messages), Separated(es)
  PROVE  /\ \A t \in Seq(Messages) :
              (\A i \in DOMAIN t : ~IsRecovery(t[i])) =>
                Separated(es \o t) /\ (Covered(es) => Covered(es \o t))
         /\ \A m \in Messages :
              /\ ~IsRecovery(m) => Separated(Append(es, m))
              /\ ~IsRecovery(m) /\ (Covered(es) \/ IsProgress(m)) => Covered(Append(es, m))
              /\ Covered(es) => Separated(Append(es, m))
<1>1. ASSUME NEW t \in Seq(Messages), \A i \in DOMAIN t : ~IsRecovery(t[i])
      PROVE  Separated(es \o t) /\ (Covered(es) => Covered(es \o t))
  <2>1. /\ Len(es) \in Nat /\ Len(t) \in Nat /\ DOMAIN es = 1 .. Len(es)
        /\ DOMAIN t = 1 .. Len(t) /\ DOMAIN (es \o t) = 1 .. Len(es) + Len(t)
        /\ \A i \in 1 .. Len(es) : (es \o t)[i] = es[i]
        /\ \A i \in 1 .. Len(es) + Len(t) : i > Len(es) =>
             (es \o t)[i] = t[i - Len(es)] /\ i - Len(es) \in 1 .. Len(t)
    OBVIOUS
  <2>2. \A i \in DOMAIN (es \o t) : IsRecovery((es \o t)[i]) => i \in 1 .. Len(es)
    BY <1>1, <2>1
  <2>3. Separated(es \o t)
    <3> SUFFICES ASSUME NEW i \in 1 .. Len(es), NEW j \in 1 .. Len(es), i < j,
                        IsRecovery(es[i]), IsRecovery(es[j])
                 PROVE  \E k \in i .. j : IsProgress((es \o t)[k])
      BY <2>1, <2>2 DEF Separated
    <3>1. PICK k \in i .. j : IsProgress(es[k])
      BY <2>1 DEF Separated
    <3>2. (es \o t)[k] = es[k]
      BY <2>1
    <3> QED BY <3>1, <3>2
  <2>4. ASSUME Covered(es) PROVE Covered(es \o t)
    <3> SUFFICES ASSUME NEW i \in 1 .. Len(es), IsRecovery(es[i])
                 PROVE  \E k \in DOMAIN (es \o t) : i < k /\ IsProgress((es \o t)[k])
      BY <2>1, <2>2 DEF Covered
    <3>1. PICK k \in 1 .. Len(es) : i < k /\ IsProgress(es[k])
      BY <2>1, <2>4 DEF Covered
    <3>2. (es \o t)[k] = es[k] /\ k \in DOMAIN (es \o t)
      BY <2>1
    <3> QED BY <3>1, <3>2
  <2> QED BY <2>3, <2>4
<1>2. ASSUME NEW m \in Messages
      PROVE  /\ ~IsRecovery(m) => Separated(Append(es, m))
             /\ ~IsRecovery(m) /\ (Covered(es) \/ IsProgress(m)) => Covered(Append(es, m))
             /\ Covered(es) => Separated(Append(es, m))
  <2> DEFINE n == Len(es) + 1
             new == Append(es, m)
  <2>1. /\ Len(es) \in Nat /\ DOMAIN es = 1 .. Len(es) /\ DOMAIN new = 1 .. n
        /\ n \in Nat /\ n = Len(es) + 1 /\ \A i \in 1 .. n : i = n \/ i \in 1 .. Len(es)
        /\ \A i \in 1 .. Len(es) : new[i] = es[i] /\ i \in 1 .. n /\ i < n
        /\ new[n] = m /\ n \in 1 .. n
    OBVIOUS
  <2> HIDE DEF n, new
  <2>2. \A i, j \in 1 .. Len(es) : i < j /\ IsRecovery(es[i]) /\ IsRecovery(es[j]) =>
          \E k \in i .. j : IsProgress(new[k])
    <3> SUFFICES ASSUME NEW i \in 1 .. Len(es), NEW j \in 1 .. Len(es), i < j,
                        IsRecovery(es[i]), IsRecovery(es[j])
                 PROVE  \E k \in i .. j : IsProgress(new[k])
      OBVIOUS
    <3>1. PICK k \in i .. j : IsProgress(es[k])
      BY <2>1 DEF Separated
    <3>2. new[k] = es[k]
      BY <2>1
    <3> QED BY <3>1, <3>2
  <2>3. Covered(es) => \A i \in 1 .. Len(es) : IsRecovery(es[i]) =>
          \E k \in i .. n : k \in 1 .. n /\ i < k /\ IsProgress(new[k])
    <3> SUFFICES ASSUME Covered(es), NEW i \in 1 .. Len(es), IsRecovery(es[i])
                 PROVE  \E k \in i .. n : k \in 1 .. n /\ i < k /\ IsProgress(new[k])
      OBVIOUS
    <3>1. PICK k \in 1 .. Len(es) : i < k /\ IsProgress(es[k])
      BY <2>1 DEF Covered
    <3>2. new[k] = es[k] /\ k \in i .. n
      BY <2>1, <3>1
    <3> QED BY <2>1, <3>1, <3>2
  <2>4. ~IsRecovery(m) => Separated(new)
    BY <2>1, <2>2 DEF Separated
  <2>5. Covered(es) => Separated(new)
    BY <2>1, <2>2, <2>3 DEF Separated
  <2>6. ~IsRecovery(m) /\ Covered(es) => Covered(new)
    BY <2>1, <2>3 DEF Covered
  <2>7. ~IsRecovery(m) /\ IsProgress(m) => Covered(new)
    BY <2>1 DEF Covered
  <2> QED BY <2>4, <2>5, <2>6, <2>7 DEF new
<1> QED BY <1>1, <1>2

\* A recovery is started only when none has been tried.
LEMMA RecoveryVerdict ==
  ASSUME NEW m, NEW skip, Verdict(m, skip) = "overflow" PROVE ~overflowRecoveryAttempted
BY DEF Verdict

\* Where a check for compaction leads, of a run or of a prompt.
LEMMA CheckRecovers ==
  ASSUME FlowOK, RecoveryInv, NEW o \in Owners, NEW v, NEW ms, CheckCompaction(o, v, ms),
         v = "overflow" => ~overflowRecoveryAttempted,
         overtaken => overtaken', v = "overflow" /\ Overtakes => overtaken',
         Overtakes' => Overtakes, ~overtaken' /\ Covered(entries) => Covered(entries)',
         ~overtaken' => Separated(entries)'
  PROVE  RecoveryInv'
<1>1. /\ compactions \in [Owners -> Compactions]
      /\ overflowRecoveryAttempted' = (overflowRecoveryAttempted \/ v = "overflow")
      /\ overflowRecoveryAttempted \in BOOLEAN /\ overtaken \in BOOLEAN
  BY DEF FlowOK, CheckCompaction
<1>2. /\ \A p \in Owners : Recovers(p)' => Recovers(p) \/ (p = o /\ v = "overflow")
      /\ v = "overflow" => \A p \in Owners : Recovers(p)' => Recovers(p) \/ p = o
      /\ \A p \in Owners : Recovers(p)' => Compacting(p)'
  BY <1>1 DEF CheckCompaction, Started, Recovers, Compacting, RecoveryInv
<1>3. ASSUME ~overtaken' PROVE UndisturbedInv'
  <2>1. UndisturbedInv
    BY <1>3 DEF RecoveryInv
  <2>2. v = "overflow" => (\A p \in Owners : ~Recovers(p)) /\ ~Overtakes
    BY <1>3, <2>1 DEF UndisturbedInv
  <2>3. \A p \in Owners : Recovers(p)' => overflowRecoveryAttempted' /\ ~Overtakes'
    BY <1>1, <1>2, <2>1, <2>2 DEF UndisturbedInv
  <2>4. \A p, q \in Owners : Recovers(p)' /\ Recovers(q)' => p = q
    BY <1>2, <2>1, <2>2 DEF UndisturbedInv
  <2>5. ~overflowRecoveryAttempted' \/ (\E p \in Owners : Recovers(p)') => Covered(entries)
    BY <1>1, <1>2, <2>1, <2>2 DEF UndisturbedInv
  <2> QED BY <1>3, <2>3, <2>4, <2>5 DEF UndisturbedInv
<1> QED BY <1>2, <1>3 DEF RecoveryInv

\* Every operation keeps the recoveries apart, until the session and the agent change the
\* conversation at once.
LEMMA RecoveryStep == FlowOK /\ FlowOK' /\ RecoveryInv /\ [Next]_vars => RecoveryInv'
<1> SUFFICES ASSUME FlowOK, FlowOK', RecoveryInv, [Next]_vars PROVE RecoveryInv'
  OBVIOUS
<1>a. /\ entries \in Seq(Messages) /\ pendingBash \in Seq(Commands) /\ events \in Seq(Events)
      /\ compactions \in [Owners -> Compactions] /\ overtaken \in BOOLEAN
      /\ overflowRecoveryAttempted \in BOOLEAN /\ overtaken' \in BOOLEAN
  BY DEF FlowOK
<1>b. 0 \in Owners /\ Manual \in Owners /\ Callers \subseteq Owners
  BY BoundsAssumption DEF Owners, Manual, Callers
<1>c. ~overtaken => UndisturbedInv
  BY DEF RecoveryInv
<1>d. ~overtaken /\ run # "off" => \A o \in Owners : ~Recovers(o)
  BY <1>c DEF UndisturbedInv, Overtakes
\* Steps that leave the conversation and the compactions alone.
<1>q. ASSUME UNCHANGED <<entries, compactions, overflowRecoveryAttempted>>, overtaken => overtaken',
             ~overtaken' /\ (\E o \in Owners : Recovers(o)) => (Overtakes' => Overtakes)
      PROVE  RecoveryInv'
  <2>1. ASSUME ~overtaken' PROVE UndisturbedInv'
    BY <1>q, <1>c, <2>1 DEF UndisturbedInv, Recovers
  <2> QED BY <1>q, <2>1 DEF RecoveryInv, Recovers, Compacting
\* Steps that end a compaction, or go on with it.
<1>r. ASSUME NEW o \in Owners, NEW c \in Compactions, compactions' = [compactions EXCEPT ![o] = c],
             UNCHANGED <<entries, overflowRecoveryAttempted, overtaken, run, events>>,
             c.retry => Recovers(o) /\ c.phase # "off"
      PROVE  RecoveryInv'
  <2>1. \A p \in Owners : /\ Recovers(p)' => Recovers(p)
                          /\ Recovers(p)' => Compacting(p)'
    BY <1>r, <1>a DEF Recovers, Compacting, RecoveryInv
  <2>2. Overtakes' => Overtakes
    BY <1>r DEF Overtakes, UnsavedMessages
  <2> QED BY <1>r, <1>c, <2>1, <2>2 DEF RecoveryInv, UndisturbedInv
<1>e. events # <<>> /\ events' = Tail(events) => (UnsavedMessages' => UnsavedMessages)
  <2> SUFFICES ASSUME events # <<>>, events' = Tail(events), NEW i \in DOMAIN events',
                      events'[i].type = "message"
               PROVE  UnsavedMessages
    BY DEF UnsavedMessages
  <2>1. i + 1 \in DOMAIN events /\ events[i + 1] = events'[i]
    BY <1>a
  <2> QED BY <2>1 DEF UnsavedMessages
<1>1. CASE Running
  <2>1. UNCHANGED <<entries, compactions, overflowRecoveryAttempted>> /\ (overtaken => overtaken')
        /\ run # "off"
    <3>1. CASE RunInject
      BY <3>1 DEF RunInject, Emit
    <3>2. CASE RunAsk
      BY <3>2 DEF RunAsk, ghostVars
    <3>3. ASSUME NEW stop \in Stops, RunReply(stop)
          PROVE  /\ UNCHANGED <<entries, compactions, overflowRecoveryAttempted>>
                 /\ (overtaken => overtaken') /\ run # "off"
      BY <3>3 DEF RunReply, Emit
    <3>4. CASE RunEnd
      BY <3>4 DEF RunEnd, Emit
    <3>5. ASSUME NEW stop \in Throws, RunThrow(stop)
          PROVE  /\ UNCHANGED <<entries, compactions, overflowRecoveryAttempted>>
                 /\ (overtaken => overtaken') /\ run # "off"
      BY <3>5 DEF RunThrow, Emit
    <3> QED BY <1>1, <3>1, <3>2, <3>3, <3>4, <3>5 DEF Running
  <2> QED BY <1>a, <1>d, <1>q, <2>1
<1>2. CASE SaveMessage
  <2> DEFINE m == Head(events).msg
  <2>1. /\ events # <<>> /\ Head(events).type = "message" /\ entries' = Append(entries, m)
        /\ overflowRecoveryAttempted' = (overflowRecoveryAttempted /\ IsError(m))
        /\ UNCHANGED <<compactions, overtaken>>
    BY <1>2 DEF SaveMessage, ghostVars
  <2>2. m \in Spoken /\ m \in Messages /\ ~IsRecovery(m) /\ UnsavedMessages
    <3>1. Head(events) \in Events /\ 1 \in DOMAIN events /\ events[1] = Head(events)
      BY <1>a, <2>1
    <3> QED BY <2>1, <3>1 DEF Events, Spoken, IsRecovery, UnsavedMessages
  <2>3. IsProgress(m) \/ IsError(m)
    BY <2>2 DEF Spoken, IsProgress, IsAssistant
  <2> HIDE DEF m
  <2>4. ASSUME ~overtaken PROVE UndisturbedInv'
    <3>1. Separated(entries) /\ \A o \in Owners : ~Recovers(o)
      BY <1>c, <2>2, <2>4 DEF UndisturbedInv, Overtakes
    <3>2. \A o \in Owners : ~Recovers(o)'
      BY <2>1, <3>1 DEF Recovers
    <3>3. Separated(entries)'
      BY <1>a, <2>1, <2>2, <3>1, Saved
    <3>4. ~overflowRecoveryAttempted' => Covered(entries) \/ IsProgress(m)
      BY <1>a, <1>c, <2>1, <2>3, <2>4 DEF UndisturbedInv
    <3>5. ~overflowRecoveryAttempted' => Covered(entries)'
      BY <1>a, <2>1, <2>2, <3>1, <3>4, Saved
    <3> QED BY <3>2, <3>3, <3>5 DEF UndisturbedInv
  <2> QED BY <2>1, <2>4 DEF RecoveryInv, Recovers, Compacting
<1>3. CASE EndUnanswered \/ EndBacksOff
  <2>1. /\ UNCHANGED <<entries, compactions, overflowRecoveryAttempted, run>>
        /\ events # <<>> /\ events' = Tail(events)
    BY <1>3 DEF EndUnanswered, EndBacksOff, EndOfRun, agentVars, runVars
  <2>2. overtaken => overtaken'
    BY <1>3 DEF EndUnanswered, EndBacksOff, ghostVars
  <2> QED BY <1>e, <1>q, <2>1, <2>2 DEF Overtakes
<1>4. CASE EndChecks
  <2> DEFINE v == Verdict(lastAssistant, TRUE)
  <2>1. /\ CheckCompaction(0, v, transcript) /\ events # <<>> /\ events' = Tail(events)
        /\ overtaken' = (overtaken \/ (v = "overflow" /\ Overtakes))
        /\ UNCHANGED <<entries, run>>
    BY <1>4 DEF EndChecks, CheckAfterRun, EndOfRun, EventHandler, agentVars, runVars
  <2>2. v = "overflow" => ~overflowRecoveryAttempted
    BY RecoveryVerdict
  <2> HIDE DEF v
  <2>3. (Overtakes' => Overtakes) /\ (overtaken => overtaken')
    BY <1>a, <1>e, <2>1 DEF Overtakes
  <2>4. ~overtaken' => Separated(entries)' /\ (Covered(entries) => Covered(entries)')
    BY <1>a, <1>c, <2>1, <2>3 DEF UndisturbedInv
  <2> QED BY <1>b, <2>1, <2>2, <2>3, <2>4, CheckRecovers
<1>5. CASE Abort \/ ManualCompaction
  <2> DEFINE v == Verdict(LastWhere(entries, IsAssistant), TRUE)
  <2>1. UNCHANGED <<entries, events, run>>
    BY <1>5 DEF Abort, ManualCompaction
  <2>2. CASE handling = "backoff"
    <3>1. /\ CheckCompaction(0, v, transcript)
          /\ overtaken' = (overtaken \/ (v = "overflow" /\ Overtakes))
      BY <1>5, <2>2 DEF Abort, ManualCompaction, AbortRetry, CheckAfterRun, EventHandler
    <3>2. v = "overflow" => ~overflowRecoveryAttempted
      BY RecoveryVerdict
    <3> HIDE DEF v
    <3>3. (Overtakes' => Overtakes) /\ (overtaken => overtaken')
      BY <1>a, <2>1, <3>1 DEF Overtakes, UnsavedMessages
    <3>4. ~overtaken' => Separated(entries)' /\ (Covered(entries) => Covered(entries)')
      BY <1>a, <1>c, <2>1, <3>3 DEF UndisturbedInv
    <3> QED BY <1>b, <3>1, <3>2, <3>3, <3>4, CheckRecovers
  <2>3. CASE handling # "backoff"
    <3>1. UNCHANGED <<compactions, overflowRecoveryAttempted, overtaken>>
      BY <1>5, <2>3 DEF Abort, ManualCompaction, AbortRetry
    <3> QED BY <1>q, <2>1, <3>1 DEF Overtakes, UnsavedMessages
  <2> QED BY <2>2, <2>3
<1>6. CASE BackoffEnds \/ Queue \/ UNCHANGED vars
  <2>1. UNCHANGED <<entries, compactions, overflowRecoveryAttempted, overtaken, run, events>>
    BY <1>6 DEF BackoffEnds, Queue, vars, agentVars, runVars, ghostVars
  <2> QED BY <1>q, <2>1 DEF Overtakes, UnsavedMessages
\* A run that begins under a compaction overtakes it.
<1>7. ASSUME NEW ms, Begin(ms), UNCHANGED <<entries, compactions, overflowRecoveryAttempted>>
      PROVE  RecoveryInv'
  <2>1. (overtaken => overtaken') /\ (~overtaken' => \A o \in Owners : ~Recovers(o))
    BY <1>a, <1>7 DEF Begin, RecoveryInv
  <2> QED BY <1>7, <1>q, <2>1
<1>8. CASE TimerFires
  <2>1. UNCHANGED <<entries, compactions, overflowRecoveryAttempted>>
    BY <1>8 DEF TimerFires
  <2>2. CASE Begin(<<>>) \/ Begin(queued)
    BY <1>7, <2>1, <2>2
  <2>3. CASE UNCHANGED <<runVars, queued, overtaken>>
    <3>1. UNCHANGED <<run, events, overtaken>>
      BY <1>8, <2>3 DEF TimerFires, runVars
    <3> QED BY <1>q, <2>1, <3>1 DEF Overtakes, UnsavedMessages
  <2> QED BY <1>8, <2>2, <2>3 DEF TimerFires
<1>9. CASE RecordBash
  <2> DEFINE m == Msg("bash", nextId, "none", 0)
  <2>1. CASE run # "off"
    <3>1. UNCHANGED <<entries, compactions, overflowRecoveryAttempted, overtaken>>
      BY <1>9, <2>1 DEF RecordBash
    <3> QED BY <1>d, <1>q, <2>1, <3>1
  <2>2. CASE run = "off"
    <3>1. /\ m \in Messages /\ ~IsRecovery(m) /\ entries' = Append(entries, m)
          /\ UNCHANGED <<compactions, overflowRecoveryAttempted, run, events>>
          /\ (overtaken => overtaken')
      BY <1>9, <2>2 DEF RecordBash, FlowOK, Msg, Messages, IsRecovery, runVars
    <3> HIDE DEF m
    <3>2. ASSUME ~overtaken' PROVE UndisturbedInv'
      <4>1. Separated(entries)' /\ (Covered(entries) => Covered(entries)')
        BY <1>a, <1>c, <3>1, <3>2, Saved DEF UndisturbedInv
      <4>2. Overtakes' => Overtakes
        BY <3>1 DEF Overtakes, UnsavedMessages
      <4> QED BY <1>c, <3>1, <3>2, <4>1, <4>2 DEF UndisturbedInv, Recovers
    <3> QED BY <3>1, <3>2 DEF RecoveryInv, Recovers, Compacting
  <2> QED BY <2>1, <2>2
<1>10. CASE ManualReady
  <2> DEFINE c == [phase |-> "auth", keep |-> 0, retry |-> FALSE]
  <2>1. /\ compactions' = [compactions EXCEPT ![Manual] = c] /\ c \in Compactions /\ ~c.retry
        /\ UNCHANGED <<entries, overflowRecoveryAttempted, overtaken, run, events>>
    BY <1>10 DEF ManualReady, Started, agentVars, runVars, ghostVars, Compactions, Phases
  <2> QED BY <1>b, <1>r, <2>1
<1>11. ASSUME NEW o \in Owners, Prepare(o) \/ FailCompaction(o) PROVE RecoveryInv'
  <2>1. UNCHANGED <<entries, overflowRecoveryAttempted, overtaken, run, events>>
    BY <1>11 DEF Prepare, FailCompaction, agentVars, runVars, ghostVars
  <2>2. CASE compactions' = [compactions EXCEPT ![o] = NoCompaction]
    BY <1>r, <2>1, <2>2 DEF NoCompaction, Compactions, Phases
  <2>3. CASE compactions' = [compactions EXCEPT ![o].phase = "summary",
                                                ![o].keep = Len(entries)]
    <3> DEFINE c == compactions'[o]
    <3>1. /\ compactions' = [compactions EXCEPT ![o] = c] /\ c \in Compactions
          /\ c.retry = compactions[o].retry /\ c.phase = "summary"
      BY <1>a, <2>3 DEF FlowOK, Compactions, Phases
    <3> HIDE DEF c
    <3> QED BY <1>r, <2>1, <3>1 DEF Recovers
  <2> QED BY <1>11, <2>2, <2>3 DEF Prepare, FailCompaction
<1>12. ASSUME NEW o \in Owners, FinishCompaction(o) PROVE RecoveryInv'
  <2> DEFINE m == Msg("compaction", nextId, IF compactions[o].retry THEN "overflow" ELSE "none",
                      compactions[o].keep)
  <2>1. /\ entries' = Append(entries, m) /\ compactions' = [compactions EXCEPT ![o] = NoCompaction]
        /\ UNCHANGED <<overflowRecoveryAttempted, run, events>> /\ (overtaken => overtaken')
    BY <1>12 DEF FinishCompaction, runVars
  <2>2. /\ m \in Messages /\ (Recovers(o) <=> IsRecovery(m))
        /\ m.role = "compaction"
    BY <1>a DEF FlowOK, Msg, Messages, Recovers, IsRecovery, Compactions, Failures
  <2>3. \A p \in Owners : Recovers(p)' => Recovers(p) /\ p # o /\ Compacting(p)'
    BY <1>a, <2>1 DEF Recovers, NoCompaction, Compacting, RecoveryInv
  <2> HIDE DEF m
  <2>4. ASSUME ~overtaken' PROVE UndisturbedInv'
    <3>1. UndisturbedInv /\ (Recovers(o) => Covered(entries))
      BY <1>c, <2>1, <2>4 DEF UndisturbedInv
    <3>2. Separated(entries)'
      BY <1>a, <2>1, <2>2, <3>1, Saved DEF UndisturbedInv
    <3>3. Recovers(o) => overflowRecoveryAttempted' /\ \A p \in Owners : ~Recovers(p)'
      BY <2>1, <2>3, <3>1 DEF UndisturbedInv
    <3>4. ~Recovers(o) /\ Covered(entries) => Covered(entries)'
      BY <1>a, <2>1, <2>2, <3>1, Saved DEF UndisturbedInv
    <3>5. Overtakes' => Overtakes
      BY <2>1 DEF Overtakes, UnsavedMessages
    <3> QED BY <2>1, <2>3, <3>1, <3>2, <3>3, <3>4, <3>5 DEF UndisturbedInv
  <2> QED BY <2>3, <2>4 DEF RecoveryInv
<1>13. ASSUME FlushPendingBash
       PROVE  /\ overtaken => overtaken'
              /\ UnsavedMessages => overtaken'
              /\ ~overtaken' => Separated(entries)' /\ (Covered(entries) => Covered(entries)')
  <2>1. pendingBash \in Seq(Messages) /\ \A i \in DOMAIN pendingBash : ~IsRecovery(pendingBash[i])
    BY <1>a DEF Commands, IsRecovery
  <2>2. overtaken' = (overtaken \/ UnsavedMessages) /\ entries' = entries \o pendingBash
    BY <1>13 DEF FlushPendingBash
  <2> QED BY <1>a, <1>c, <2>1, <2>2, Saved DEF UndisturbedInv
<1>14. ASSUME NEW c \in Callers, PromptChecks(c) PROVE RecoveryInv'
  <2> DEFINE v == Verdict(LastWhere(transcript, IsAssistant), FALSE)
  <2>1. /\ CheckCompaction(c, v, transcript \o pendingBash) /\ FlushPendingBash
        /\ run = "off" /\ UNCHANGED <<run, events>>
    BY <1>14 DEF PromptChecks, runVars
  <2>2. v = "overflow" => ~overflowRecoveryAttempted
    BY RecoveryVerdict
  <2> HIDE DEF v
  <2>3. (Overtakes' => Overtakes) /\ (Overtakes => overtaken')
    BY <1>13, <2>1 DEF Overtakes, UnsavedMessages
  <2> QED BY <1>b, <1>13, <2>1, <2>2, <2>3, CheckRecovers
<1>15. ASSUME NEW c \in Callers, PromptRefused(c) PROVE RecoveryInv'
  <2>1. /\ FlushPendingBash /\ UNCHANGED <<run, events, compactions, overflowRecoveryAttempted>>
    BY <1>15 DEF PromptRefused, runVars
  <2>2. Overtakes' => Overtakes
    BY <2>1 DEF Overtakes, UnsavedMessages
  <2>3. ASSUME ~overtaken' PROVE UndisturbedInv'
    BY <1>c, <1>13, <2>1, <2>2, <2>3 DEF UndisturbedInv, Recovers
  <2> QED BY <2>1, <2>3 DEF RecoveryInv, Recovers, Compacting
<1>16. ASSUME NEW c \in Callers,
              PromptCalled(c) \/ PromptQueues(c) \/ PromptRejected(c) \/ PromptWaits(c)
       PROVE  RecoveryInv'
  <2>1. UNCHANGED <<entries, compactions, overflowRecoveryAttempted, overtaken, run, events>>
    BY <1>16
       DEF PromptCalled, PromptQueues, PromptRejected, PromptWaits, agentVars, runVars, ghostVars
  <2> QED BY <1>q, <2>1 DEF Overtakes, UnsavedMessages
<1>17. ASSUME NEW c \in Callers, PromptRuns(c) PROVE RecoveryInv'
  BY <1>7, <1>17 DEF PromptRuns
<1> QED
  BY <1>1, <1>2, <1>3, <1>4, <1>5, <1>6, <1>8, <1>9, <1>10, <1>11, <1>12, <1>14, <1>15, <1>16,
     <1>17 DEF Next, Handler, Compaction, Prompt

\* An overflow is recovered from once, however many prompts, aborts and compactions there are:
\* OneOverflowRecovery.
THEOREM RecoveryTheorem == Spec => []OneOverflowRecovery
<1>1. Init => FlowOK /\ RecoveryInv
  <2> SUFFICES ASSUME Init PROVE FlowOK /\ RecoveryInv
    OBVIOUS
  <2>1. NoCompaction \in Compactions /\ ~NoCompaction.retry /\ None \in Messages
    BY DEF NoCompaction, Compactions, Phases, None, Msg, Messages
  <2>2. FlowOK
    <3>1. \A S : <<>> \in Seq(S)
      OBVIOUS
    <3> QED BY <2>1, <3>1 DEF Init, FlowOK
  <2>3. RecoveryInv
    BY <2>1 DEF Init, RecoveryInv, UndisturbedInv, Recovers, Covered, Separated
  <2> QED BY <2>2, <2>3
<1>2. RecoveryInv => OneOverflowRecovery
  BY DEF RecoveryInv, UndisturbedInv, Separated, IsRecovery, IsProgress, OneOverflowRecovery
<1> QED BY <1>1, <1>2, FlowStep, RecoveryStep, PTL DEF Spec

----------------------------------------------------------------------------

(* Induction *)

\* Induction on the naturals, for a set: were k not in T, adding one would map the elements
\* of T up to k one to one into those that are not 0, which are fewer.
LEMMA Induct ==
  ASSUME NEW T, 0 \in T, \A n \in Nat : n \in T => n + 1 \in T
  PROVE  \A n \in Nat : n \in T
<1> SUFFICES ASSUME NEW k \in Nat, k \notin T PROVE FALSE
  OBVIOUS
<1> DEFINE S == {n \in 0 .. k : n \in T}
           f == [n \in S |-> n + 1]
<1>1. IsFiniteSet(S) /\ 0 \in S
  <2>1. IsFiniteSet(0 .. k) /\ S \in SUBSET (0 .. k)
    BY FS_Interval
  <2>2. IsFiniteSet(S)
    BY <2>1, FS_Subset
  <2> QED BY <2>2
<1>2. IsFiniteSet(S \ {0}) /\ Cardinality(S \ {0}) = Cardinality(S) - 1
  BY <1>1, FS_RemoveElement
<1>3. Cardinality(S) \in Nat
  BY <1>1, FS_CardinalityType
<1>4. f \in [S -> S \ {0}]
  OBVIOUS
<1>5. \E x, y \in S : x # y /\ f[x] = f[y]
  <2> HIDE DEF S, f
  <2> QED BY <1>1, <1>2, <1>3, <1>4, FS_PigeonHole
<1> QED BY <1>5

\* The same up to a bound.
LEMMA Upwards ==
  ASSUME NEW N \in Nat, NEW T, 0 \in T, \A n \in 0 .. N - 1 : n \in T => n + 1 \in T
  PROVE  \A n \in 0 .. N : n \in T
<1> DEFINE R == {n \in Nat : n <= N => n \in T}
<1>1. 0 \in R
  OBVIOUS
<1>2. ASSUME NEW n \in Nat, n \in R PROVE n + 1 \in R
  BY <1>2
<1>3. \A n \in Nat : n \in R
  <2> HIDE DEF R
  <2> QED BY <1>1, <1>2, Induct
<1> QED BY <1>3

\* A sequence of values, each made of the one before it by the step of its number.
Steps(S) == [Nat -> [S -> S]]
Iterates(g, S, a, F, N) ==
  g \in [0 .. N -> S] /\ g[0] = a /\ \A i \in 1 .. N : g[i] = F[i][g[i - 1]]

\* There is one, whatever the steps.
LEMMA Recursion ==
  ASSUME NEW S, NEW a \in S, NEW F \in Steps(S), NEW N \in Nat
  PROVE  \E g : Iterates(g, S, a, F, N)
<1> DEFINE T == {n \in Nat : \E g : Iterates(g, S, a, F, n)}
<1>1. 0 \in T
  <2>1. Iterates([i \in 0 .. 0 |-> a], S, a, F, 0)
    BY DEF Iterates
  <2> QED BY <2>1
<1>2. ASSUME NEW n \in Nat, n \in T PROVE n + 1 \in T
  <2>1. PICK g : Iterates(g, S, a, F, n)
    BY <1>2
  <2> DEFINE h == [i \in 0 .. n + 1 |-> IF i <= n THEN g[i] ELSE F[i][g[i - 1]]]
  <2>2. F[n + 1][g[n]] \in S
    BY <2>1 DEF Steps, Iterates
  <2>3. Iterates(h, S, a, F, n + 1)
    BY <2>1, <2>2 DEF Iterates
  <2> QED BY <2>3
<1>3. N \in T
  <2> HIDE DEF T
  <2> QED BY <1>1, <1>2, Induct
<1> QED BY <1>3

----------------------------------------------------------------------------
(* The messages of a sequence that are in a set *)

\* x when it is in T, and nothing when it is not.
Only(x, T) == IF x \in T THEN <<x>> ELSE <<>>

\* What Within finds in the first messages.
IsFirst(g, s, T) ==
  g = [n \in 0 .. Len(s) |-> IF n = 0 THEN <<>> ELSE g[n - 1] \o Only(s[n], T)]
First(s, T) == CHOOSE g : IsFirst(g, s, T)

\* There is such a function, of sequences of those elements.
LEMMA FirstIs ==
  ASSUME NEW X, NEW s \in Seq(X), NEW T
  PROVE  /\ First(s, T) \in [0 .. Len(s) -> Seq(T)]
         /\ First(s, T)[0] = <<>>
         /\ \A n \in 1 .. Len(s) : First(s, T)[n] = First(s, T)[n - 1] \o Only(s[n], T)
<1> DEFINE F == [n \in Nat |-> [p \in Seq(T) |-> p \o Only(s[n], T)]]
<1>1. Len(s) \in Nat /\ <<>> \in Seq(T) /\ \A n \in Nat : Only(s[n], T) \in Seq(T)
  BY DEF Only
<1>2. F \in Steps(Seq(T))
  BY <1>1 DEF Steps
<1>3. PICK g : Iterates(g, Seq(T), <<>>, F, Len(s))
  <2> HIDE DEF F
  <2> QED BY <1>1, <1>2, Recursion
<1>4. /\ g \in [0 .. Len(s) -> Seq(T)] /\ g[0] = <<>>
      /\ \A i \in 1 .. Len(s) : g[i] = F[i][g[i - 1]]
  <2> HIDE DEF F
  <2> QED BY <1>3 DEF Iterates
<1>5. \A i \in 1 .. Len(s) : g[i] = g[i - 1] \o Only(s[i], T)
  <2> SUFFICES ASSUME NEW i \in 1 .. Len(s) PROVE g[i] = g[i - 1] \o Only(s[i], T)
    OBVIOUS
  <2>1. i \in Nat /\ i - 1 \in 0 .. Len(s)
    BY <1>1
  <2>2. g[i - 1] \in Seq(T) /\ g[i] = F[i][g[i - 1]]
    <3> HIDE DEF F
    <3> QED BY <1>4, <2>1, Zenon
  <2> QED BY <2>1, <2>2
<1>6. IsFirst(g, s, T)
  <2> DEFINE r == [n \in 0 .. Len(s) |-> IF n = 0 THEN <<>> ELSE g[n - 1] \o Only(s[n], T)]
  <2> HIDE DEF F
  <2>1. \A n \in 0 .. Len(s) : n = 0 \/ n \in 1 .. Len(s)
    BY <1>1
  <2>2. \A n \in 0 .. Len(s) : r[n] = g[n]
    BY <1>4, <1>5, <2>1, Zenon
  <2>3. r = [n \in 0 .. Len(s) |-> r[n]] /\ g = [n \in 0 .. Len(s) |-> g[n]]
    BY <1>4
  <2> HIDE DEF r
  <2>4. r = g
    BY <2>2, <2>3
  <2> QED BY <2>4 DEF r, IsFirst
<1>7. IsFirst(First(s, T), s, T)
  BY <1>6 DEF First
<1> DEFINE f == First(s, T)
<1> HIDE DEF f, F
<1>8. f = [n \in 0 .. Len(s) |-> IF n = 0 THEN <<>> ELSE f[n - 1] \o Only(s[n], T)]
  BY <1>7 DEF IsFirst, f
<1>9. /\ f = [n \in 0 .. Len(s) |-> f[n]] /\ f[0] = <<>>
      /\ \A n \in 1 .. Len(s) : f[n] = f[n - 1] \o Only(s[n], T)
  <2>1. \A n \in 0 .. Len(s) : f[n] = IF n = 0 THEN <<>> ELSE f[n - 1] \o Only(s[n], T)
    BY <1>8
  <2>2. f = [n \in 0 .. Len(s) |-> f[n]]
    BY <1>8
  <2>3. 0 \in 0 .. Len(s) /\ \A n \in 1 .. Len(s) : n \in 0 .. Len(s) /\ n # 0
    BY <1>1
  <2> QED BY <2>1, <2>2, <2>3, Zenon
<1>10. \A n \in 0 .. Len(s) : n \in {k \in 0 .. Len(s) : f[k] \in Seq(T)}
  <2> DEFINE D == {k \in 0 .. Len(s) : f[k] \in Seq(T)}
  <2>1. 0 \in D
    <3>1. 0 \in 0 .. Len(s)
      BY <1>1
    <3> QED BY <1>1, <1>9, <3>1, Zenon
  <2>2. ASSUME NEW n \in 0 .. Len(s) - 1, n \in D PROVE n + 1 \in D
    <3>1. /\ n + 1 \in 1 .. Len(s) /\ n + 1 \in 0 .. Len(s)
          /\ (n + 1) - 1 = n /\ n + 1 \in Nat
      BY <1>1, <2>2
    <3>2. f[n] \in Seq(T)
      BY <2>2
    <3>3. f[n + 1] = f[n] \o Only(s[n + 1], T)
      <4>1. f[n + 1] = f[(n + 1) - 1] \o Only(s[n + 1], T)
        BY <1>9, <3>1, Zenon
      <4> QED BY <3>1, <4>1, Zenon
    <3>4. f[n + 1] \in Seq(T)
      <4>1. Only(s[n + 1], T) \in Seq(T)
        BY <1>1, <3>1, Zenon
      <4> QED BY <3>2, <3>3, <4>1
    <3> QED BY <3>1, <3>4, Zenon
  <2> HIDE DEF D
  <2>3. \A n \in 0 .. Len(s) : n \in D
    BY <1>1, <2>1, <2>2, Upwards
  <2> QED BY <2>3 DEF D
<1>11. f \in [0 .. Len(s) -> Seq(T)]
  BY <1>9, <1>10
<1> QED BY <1>9, <1>11 DEF f

\* Within is the last of what it finds.
LEMMA WithinIs ==
  ASSUME NEW X, NEW s \in Seq(X), NEW T
  PROVE  /\ Within(s, T) = First(s, T)[Len(s)]
         /\ Within(s, T) \in Seq(T) /\ Len(s) \in Nat
<1>1. Within(s, T) = First(s, T)[Len(s)]
  BY Zenon DEF Within, First, IsFirst, Only
<1>2. Len(s) \in Nat /\ Len(s) \in 0 .. Len(s)
  OBVIOUS
<1>3. First(s, T)[Len(s)] \in Seq(T)
  BY <1>2, FirstIs, Zenon
<1> QED BY <1>1, <1>2, <1>3

\* One more message is found if it is in the set.
LEMMA WithinAppend ==
  ASSUME NEW X, NEW s \in Seq(X), NEW x \in X, NEW T
  PROVE  Within(Append(s, x), T) = Within(s, T) \o Only(x, T)
<1> DEFINE u == Append(s, x)
           f == First(s, T)
           g == First(u, T)
           N == Len(s)
<1>1. /\ N \in Nat /\ u \in Seq(X) /\ Len(u) = N + 1 /\ u[N + 1] = x
      /\ \A n \in 1 .. N : u[n] = s[n]
  OBVIOUS
<1>2. f[0] = <<>> /\ \A n \in 1 .. N : f[n] = f[n - 1] \o Only(s[n], T)
  BY FirstIs, Zenon
<1>3. g[0] = <<>> /\ \A n \in 1 .. Len(u) : g[n] = g[n - 1] \o Only(u[n], T)
  <2> HIDE DEF u
  <2> QED BY <1>1, FirstIs, Zenon
<1>4. \A n \in 0 .. N : n \in {k \in 0 .. N : g[k] = f[k]}
  <2> DEFINE D == {k \in 0 .. N : g[k] = f[k]}
  <2> HIDE DEF u, f, g, N
  <2>1. 0 \in D
    <3>1. 0 \in 0 .. N
      BY <1>1
    <3> QED BY <1>2, <1>3, <3>1, Zenon
  <2>2. ASSUME NEW n \in 0 .. N - 1, n \in D PROVE n + 1 \in D
    <3>1. /\ n + 1 \in 1 .. N /\ n + 1 \in 0 .. N /\ n + 1 \in 1 .. Len(u)
          /\ (n + 1) - 1 = n
      BY <1>1, <2>2
    <3>2. g[n] = f[n]
      BY <2>2
    <3>3. /\ f[n + 1] = f[(n + 1) - 1] \o Only(s[n + 1], T)
          /\ g[n + 1] = g[(n + 1) - 1] \o Only(u[n + 1], T)
      BY <1>2, <1>3, <3>1, Zenon
    <3>4. u[n + 1] = s[n + 1]
      BY <1>1, <3>1, Zenon
    <3>5. g[n + 1] = f[n + 1]
      BY <3>1, <3>2, <3>3, <3>4, Zenon
    <3> QED BY <3>1, <3>5, Zenon
  <2> HIDE DEF D
  <2>3. \A n \in 0 .. N : n \in D
    BY <1>1, <2>1, <2>2, Upwards
  <2> QED BY <2>3 DEF D
<1>5. Within(u, T) = g[Len(u)] /\ Within(s, T) = f[N]
  <2> HIDE DEF u
  <2> QED BY <1>1, WithinIs
<1> HIDE DEF u, f, g, N
<1>6. g[N] = f[N]
  BY <1>1, <1>4
<1>7. g[N + 1] = g[N] \o Only(u[N + 1], T)
  <2>1. N + 1 \in 1 .. Len(u) /\ (N + 1) - 1 = N
    BY <1>1
  <2> QED BY <1>3, <2>1
<1> QED BY <1>1, <1>5, <1>6, <1>7 DEF u

\* Induction on sequences.
LEMMA SequenceInduct ==
  ASSUME NEW X, NEW R, <<>> \in R,
         \A s \in Seq(X), x \in X : s \in R => Append(s, x) \in R
  PROVE  \A s \in Seq(X) : s \in R
<1> DEFINE D == {n \in Nat : \A s \in Seq(X) : Len(s) = n => s \in R}
<1>1. 0 \in D
  <2>1. \A s \in Seq(X) : Len(s) = 0 => s = <<>>
    OBVIOUS
  <2> QED BY <2>1, Zenon
<1>2. ASSUME NEW n \in Nat, n \in D PROVE n + 1 \in D
  <2> SUFFICES ASSUME NEW s \in Seq(X), Len(s) = n + 1 PROVE s \in R
    OBVIOUS
  <2> DEFINE t == SubSeq(s, 1, n)
  <2>1. t \in Seq(X) /\ Len(t) = n /\ s[n + 1] \in X
    OBVIOUS
  <2>2. s = Append(t, s[n + 1])
    OBVIOUS
  <2> HIDE DEF t
  <2> QED BY <1>2, <2>1, <2>2
<1>3. \A n \in Nat : n \in D
  <2> HIDE DEF D
  <2> QED BY <1>1, <1>2, Induct
<1> QED
  <2>1. \A s \in Seq(X) : Len(s) \in Nat
    OBVIOUS
  <2> QED BY <1>3, <2>1, Zenon

\* Nothing is found in an empty sequence, and one message if it is in the set.
LEMMA WithinNone == ASSUME NEW T PROVE Within(<<>>, T) = <<>>
<1> DEFINE e == <<>>
<1>1. e \in Seq({}) /\ Len(e) = 0
  OBVIOUS
<1> HIDE DEF e
<1>2. Within(e, T) = First(e, T)[Len(e)] /\ First(e, T)[0] = <<>>
  BY <1>1, WithinIs, FirstIs
<1> QED BY <1>1, <1>2 DEF e

LEMMA WithinOne == ASSUME NEW T, NEW x PROVE Within(<<x>>, T) = Only(x, T)
<1> DEFINE e == <<>>
<1>1. e \in Seq({x}) /\ <<x>> = Append(e, x)
  OBVIOUS
<1> HIDE DEF e
<1>2. Within(Append(e, x), T) = Within(e, T) \o Only(x, T)
  <2>1. x \in {x}
    OBVIOUS
  <2> QED BY <1>1, <2>1, WithinAppend
<1>3. e \o Only(x, T) = Only(x, T)
  BY DEF Only, e
<1>4. Within(e, T) = e
  BY WithinNone DEF e
<1> QED BY <1>1, <1>2, <1>3, <1>4

\* What is found in two sequences is found in the one made of them.
LEMMA WithinConcat ==
  ASSUME NEW X, NEW s \in Seq(X), NEW T
  PROVE  \A t \in Seq(X) : Within(s \o t, T) = Within(s, T) \o Within(t, T)
<1> DEFINE R == {t \in Seq(X) : Within(s \o t, T) = Within(s, T) \o Within(t, T)}
<1>0. \A t \in Seq(X) : Within(t, T) \in Seq(T)
  BY WithinIs
<1>1. <<>> \in R
  <2>1. s \o <<>> = s /\ <<>> \in Seq(X)
    BY ConcatEmptySeq
  <2>2. Within(s, T) \o <<>> = Within(s, T)
    BY <1>0, ConcatEmptySeq
  <2> QED BY <2>1, <2>2, WithinNone
<1>2. ASSUME NEW t \in Seq(X), NEW x \in X, t \in R PROVE Append(t, x) \in R
  <2>1. s \o Append(t, x) = Append(s \o t, x) /\ Append(t, x) \in Seq(X) /\ s \o t \in Seq(X)
    OBVIOUS
  <2>2. Within(Append(s \o t, x), T) = Within(s \o t, T) \o Only(x, T)
    BY <2>1, WithinAppend
  <2>3. Within(Append(t, x), T) = Within(t, T) \o Only(x, T)
    BY WithinAppend
  <2>4. /\ Within(s, T) \in Seq(T) /\ Within(t, T) \in Seq(T) /\ Only(x, T) \in Seq(T)
    BY <1>0 DEF Only
  <2>5. (Within(s, T) \o Within(t, T)) \o Only(x, T) = Within(s, T) \o (Within(t, T) \o Only(x, T))
    BY <2>4, ConcatAssociative
  <2>6. Within(s \o t, T) = Within(s, T) \o Within(t, T)
    BY <1>2
  <2> QED BY <2>1, <2>2, <2>3, <2>5, <2>6, Zenon
<1> HIDE DEF R
<1>3. \A t \in Seq(X) : t \in R
  BY <1>1, <1>2, SequenceInduct
<1> QED BY <1>3 DEF R

\* Only what is in the sequence counts.
LEMMA WithinSame ==
  ASSUME NEW X, NEW A, NEW B, A \cap X = B \cap X
  PROVE  \A s \in Seq(X) : Within(s, A) = Within(s, B)
<1> DEFINE R == {s \in Seq(X) : Within(s, A) = Within(s, B)}
<1>1. <<>> \in R
  <2>1. <<>> \in Seq(X)
    OBVIOUS
  <2> QED BY <2>1, WithinNone
<1>2. ASSUME NEW s \in Seq(X), NEW x \in X, s \in R PROVE Append(s, x) \in R
  <2>1. Only(x, A) = Only(x, B)
    BY DEF Only
  <2>2. Within(Append(s, x), A) = Within(s, A) \o Only(x, A)
    BY WithinAppend
  <2>3. Within(Append(s, x), B) = Within(s, B) \o Only(x, B)
    BY WithinAppend
  <2>4. Append(s, x) \in Seq(X) /\ Within(s, A) = Within(s, B)
    BY <1>2
  <2> QED BY <2>1, <2>2, <2>3, <2>4
<1> HIDE DEF R
<1>3. \A s \in Seq(X) : s \in R
  BY <1>1, <1>2, SequenceInduct
<1> QED BY <1>3 DEF R

\* Nothing is left out when everything is in the set; what is found is in both.
LEMMA WithinRange ==
  ASSUME NEW X, NEW T
  PROVE  /\ \A s \in Seq(X) : Within(s, T) \in Seq(T \cap X)
         /\ X \subseteq T => \A s \in Seq(X) : Within(s, T) = s
<1>1. ASSUME NEW s \in Seq(X) PROVE Within(s, T) \in Seq(T \cap X)
  <2>1. T \cap X = (T \cap X) \cap X
    OBVIOUS
  <2>2. Within(s, T) = Within(s, T \cap X)
    BY <2>1, WithinSame
  <2> QED BY <2>2, WithinIs
<1>2. ASSUME X \subseteq T, NEW s \in Seq(X) PROVE Within(s, T) = s
  <2> DEFINE R == {u \in Seq(X) : Within(u, T) = u}
  <2>1. <<>> \in R
    <3>1. <<>> \in Seq(X)
      OBVIOUS
    <3> QED BY <3>1, WithinNone
  <2>2. ASSUME NEW u \in Seq(X), NEW x \in X, u \in R PROVE Append(u, x) \in R
    <3>1. Within(Append(u, x), T) = Within(u, T) \o Only(x, T)
      BY WithinAppend
    <3>2. Only(x, T) = <<x>> /\ u \o <<x>> = Append(u, x) /\ Append(u, x) \in Seq(X)
      BY <1>2 DEF Only
    <3> QED BY <2>2, <3>1, <3>2
  <2> HIDE DEF R
  <2>3. \A u \in Seq(X) : u \in R
    BY <2>1, <2>2, SequenceInduct
  <2> QED BY <2>3 DEF R
<1> QED BY <1>1, <1>2

\* To look for two things, one after the other, is to look for both.
LEMMA WithinWithin ==
  ASSUME NEW X, NEW A, NEW B
  PROVE  \A s \in Seq(X) : Within(Within(s, A), B) = Within(s, A \cap B)
<1> DEFINE R == {s \in Seq(X) : Within(Within(s, A), B) = Within(s, A \cap B)}
<1>1. <<>> \in R
  <2>1. <<>> \in Seq(X)
    OBVIOUS
  <2> QED BY <2>1, WithinNone
<1>2. ASSUME NEW s \in Seq(X), NEW x \in X, s \in R PROVE Append(s, x) \in R
  <2>1. /\ Within(Append(s, x), A) = Within(s, A) \o Only(x, A)
        /\ Within(s, A) \in Seq(A) /\ Append(s, x) \in Seq(X)
    <3>1. Append(s, x) \in Seq(X)
      OBVIOUS
    <3> QED BY <3>1, WithinAppend, WithinIs
  <2>2. Within(Append(s, x), A \cap B) = Within(s, A \cap B) \o Only(x, A \cap B)
    BY WithinAppend
  <2>3. Only(x, A) \in Seq(A)
    BY DEF Only
  <2>4. Within(Within(s, A) \o Only(x, A), B) = Within(Within(s, A), B) \o Within(Only(x, A), B)
    BY <2>1, <2>3, WithinConcat
  <2>5. Within(Only(x, A), B) = Only(x, A \cap B)
    BY WithinNone, WithinOne DEF Only
  <2>6. Within(Within(s, A), B) = Within(s, A \cap B)
    BY <1>2
  <2> QED BY <2>1, <2>2, <2>4, <2>5, <2>6
<1> HIDE DEF R
<1>3. \A s \in Seq(X) : s \in R
  BY <1>1, <1>2, SequenceInduct
<1> QED BY <1>3 DEF R

\* The last that is found is the last of the sequence that is in the set.
LastFound(s, T, k) ==
  /\ k \in DOMAIN s /\ s[k] \in T
  /\ \A j \in DOMAIN s : k < j => s[j] \notin T
  /\ Within(s, T) # <<>> /\ LastOf(Within(s, T)) = s[k]
NoneFound(s, T) == Within(s, T) = <<>> /\ \A j \in DOMAIN s : s[j] \notin T

\* Some element is found, and then there is a last, or none is.
LEMMA WithinLast ==
  ASSUME NEW X, NEW T
  PROVE  \A s \in Seq(X) : NoneFound(s, T) \/ \E k \in DOMAIN s : LastFound(s, T, k)
<1> DEFINE R == {s \in Seq(X) : NoneFound(s, T) \/ \E k \in DOMAIN s : LastFound(s, T, k)}
<1>1. <<>> \in R
  <2>1. <<>> \in Seq(X) /\ DOMAIN <<>> = {}
    OBVIOUS
  <2> QED BY <2>1, WithinNone DEF NoneFound
<1>2. ASSUME NEW s \in Seq(X), NEW x \in X, s \in R PROVE Append(s, x) \in R
  <2> DEFINE u == Append(s, x)
             N == Len(s)
  <2>1. /\ N \in Nat /\ DOMAIN s = 1 .. N /\ DOMAIN u = 1 .. N + 1 /\ u \in Seq(X)
        /\ u[N + 1] = x /\ \A i \in 1 .. N : u[i] = s[i]
    OBVIOUS
  <2>2. Within(u, T) = Within(s, T) \o Only(x, T) /\ Within(s, T) \in Seq(T)
    BY WithinAppend, WithinIs
  <2> HIDE DEF u, N
  <2>3. CASE x \in T
    <3>1. Within(u, T) = Append(Within(s, T), x)
      BY <2>2, <2>3 DEF Only
    <3>2. Within(u, T) # <<>> /\ LastOf(Within(u, T)) = x
      BY <2>2, <2>3, <3>1 DEF LastOf
    <3>3. LastFound(u, T, N + 1)
      BY <2>1, <2>3, <3>2 DEF LastFound
    <3> QED BY <2>1, <3>3 DEF u
  <2>4. CASE x \notin T
    <3>1. Within(u, T) = Within(s, T)
      BY <2>2, <2>4, ConcatEmptySeq DEF Only
    <3>2. NoneFound(s, T) => NoneFound(u, T)
      BY <2>1, <2>4, <3>1 DEF NoneFound
    <3>3. ASSUME NEW k \in DOMAIN s, LastFound(s, T, k) PROVE k \in DOMAIN u /\ LastFound(u, T, k)
      BY <2>1, <2>4, <3>1, <3>3 DEF LastFound
    <3> QED BY <1>2, <2>1, <3>2, <3>3 DEF u
  <2> QED BY <2>3, <2>4
<1> HIDE DEF R
<1>3. \A s \in Seq(X) : s \in R
  BY <1>1, <1>2, SequenceInduct
<1> QED BY <1>3 DEF R

\* The greatest of some numbers.
LEMMA Greatest ==
  ASSUME NEW N \in Nat, NEW I \in SUBSET (1 .. N), I # {}
  PROVE  Max(I) \in I /\ \A j \in I : j <= Max(I)
<1> DEFINE D == {n \in 0 .. N : (\E i \in I : i <= n) => \E m \in I : \A j \in I : j <= n => j <= m}
<1>1. 0 \in D
  OBVIOUS
<1>2. ASSUME NEW n \in 0 .. N - 1, n \in D PROVE n + 1 \in D
  <2>1. CASE n + 1 \in I
    BY <2>1
  <2>2. CASE n + 1 \notin I
    BY <1>2, <2>2
  <2> QED BY <2>1, <2>2
<1>3. \A n \in 0 .. N : n \in D
  <2> HIDE DEF D
  <2> QED BY <1>1, <1>2, Upwards
<1>4. \E m \in I : \A j \in I : m >= j
  <2>1. N \in 0 .. N /\ \A i \in I : i \in Int /\ i <= N
    OBVIOUS
  <2>2. N \in D
    <3> HIDE DEF D
    <3> QED BY <1>3, <2>1
  <2> QED BY <2>1, <2>2
<1>5. Max(I) \in I /\ \A j \in I : Max(I) >= j
  BY <1>4 DEF Max
<1> QED BY <1>5

----------------------------------------------------------------------------
(* The kinds of messages, and the context of a branch *)

\* What the agent says and hears: answers, what is asked, and the compactions of a branch.  What
\* joins a transcript is an answer or is asked; an aborted answer without a word is not shown.
Answers == {m \in Messages : m.role = "assistant" /\ (m.stop = "silent" => "silent" \in Outcomes)}
Asked == {m \in Messages : m.role \in {"user", "bash"} /\ m.stop = "none"}
Summaries == {m \in Messages : m.role = "compaction"}
Kept == Answers \union Asked
Branches == Seq(Kept \union Summaries)
Hidden == Msg("none", 0, "aborted", 0)

\* The last element of s that is in T.
IsLast(s, T, k) == k \in DOMAIN s /\ s[k] \in T /\ \A j \in DOMAIN s : k < j => s[j] \notin T
Assistants == {m \in Messages : m.role = "assistant"}

\* The last answer of a sequence.
LEMMA LastAnswer ==
  ASSUME NEW s \in Seq(Messages)
  PROVE  /\ \/ \A i \in DOMAIN s : ~IsAssistant(s[i])
            \/ \E k \in DOMAIN s : IsLast(s, Assistants, k)
         /\ (\A i \in DOMAIN s : ~IsAssistant(s[i])) => LastWhere(s, IsAssistant) = None
         /\ \A k \in DOMAIN s : IsLast(s, Assistants, k) => LastWhere(s, IsAssistant) = s[k]
<1> DEFINE N == Len(s)
           I == {i \in 1 .. N : IsAssistant(s[i])}
<1>1. N \in Nat /\ DOMAIN s = 1 .. N /\ \A i \in 1 .. N : s[i] \in Messages
  OBVIOUS
<1>2. \A i \in 1 .. N : s[i] \in Assistants <=> IsAssistant(s[i])
  BY <1>1 DEF Assistants, IsAssistant
<1>3. I \in SUBSET (1 .. N)
  OBVIOUS
<1>4. I # {} => Max(I) \in I /\ \A j \in I : j <= Max(I)
  <2> HIDE DEF I, N
  <2> QED BY <1>1, <1>3, Greatest
<1>5. LastWhere(s, IsAssistant) = IF I # {} THEN IF Max(I) = 0 THEN None ELSE s[Max(I)] ELSE None
  BY DEF LastWhere, SelectLastInSeq
<1> HIDE DEF I, N
<1>6. I = {i \in 1 .. N : IsAssistant(s[i])}
  BY DEF I, N
<1>7. ASSUME I # {} PROVE IsLast(s, Assistants, Max(I)) /\ Max(I) \in 1 .. N /\ Max(I) # 0
  <2>1. Max(I) \in 1 .. N /\ IsAssistant(s[Max(I)]) /\ \A j \in I : j <= Max(I)
    BY <1>4, <1>6, <1>7
  <2>2. \A j \in 1 .. N : Max(I) < j => ~IsAssistant(s[j])
    BY <1>1, <1>6, <2>1
  <2> QED BY <1>1, <1>2, <2>1, <2>2 DEF IsLast
<1>8. I = {} => \A i \in DOMAIN s : ~IsAssistant(s[i])
  BY <1>1, <1>6
<1>9. (\A i \in DOMAIN s : ~IsAssistant(s[i])) => I = {}
  BY <1>1, <1>6
<1>10. ASSUME NEW k \in DOMAIN s, IsLast(s, Assistants, k) PROVE I # {} /\ Max(I) = k
  <2>1. k \in I
    BY <1>1, <1>2, <1>6, <1>10 DEF IsLast
  <2>2. Max(I) \in 1 .. N /\ s[Max(I)] \in Assistants /\ k <= Max(I)
    BY <1>1, <1>4, <1>7, <2>1 DEF IsLast
  <2> QED BY <1>1, <1>10, <2>1, <2>2 DEF IsLast
<1> QED BY <1>1, <1>5, <1>7, <1>8, <1>9, <1>10

\* What a context keeps behind its summary.
NotSummary == {m \in Messages : m.role # "compaction"}

\* The context of a branch without a compaction, and of one with a last compaction.
LEMMA ContextIs ==
  ASSUME NEW es \in Seq(Messages)
  PROVE  /\ \/ \A i \in DOMAIN es : es[i] \notin Summaries
            \/ \E b \in DOMAIN es : IsLast(es, Summaries, b)
         /\ (\A i \in DOMAIN es : es[i] \notin Summaries) => Context(es) = es
         /\ \A b \in DOMAIN es : IsLast(es, Summaries, b) =>
              Context(es) = <<es[b]>> \o Within(SubSeq(es, es[b].ref, Len(es)), NotSummary)
<1> DEFINE N == Len(es)
           I == {i \in 1 .. N : es[i].role = "compaction"}
<1>1. N \in Nat /\ DOMAIN es = 1 .. N /\ \A i \in 1 .. N : es[i] \in Messages
  OBVIOUS
<1>2. \A i \in 1 .. N : es[i] \in Summaries <=> es[i].role = "compaction"
  BY <1>1 DEF Summaries
<1>3. I \in SUBSET (1 .. N)
  OBVIOUS
<1>4. I # {} => Max(I) \in I /\ \A j \in I : j <= Max(I)
  <2> HIDE DEF I, N
  <2> QED BY <1>1, <1>3, Greatest
<1>5. Context(es) = LET b == IF I # {} THEN Max(I) ELSE 0
                    IN  IF b = 0 THEN es
                        ELSE <<es[b]>> \o Within(SubSeq(es, es[b].ref, Len(es)), NotSummary)
  BY DEF Context, SelectLastInSeq, NotSummary
<1> HIDE DEF I, N
<1>6. I = {i \in 1 .. N : es[i].role = "compaction"}
  BY DEF I, N
<1>7. ASSUME I # {} PROVE IsLast(es, Summaries, Max(I)) /\ Max(I) \in 1 .. N /\ Max(I) # 0
  <2>1. Max(I) \in 1 .. N /\ es[Max(I)].role = "compaction" /\ \A j \in I : j <= Max(I)
    BY <1>4, <1>6, <1>7
  <2>2. \A j \in 1 .. N : Max(I) < j => es[j].role # "compaction"
    BY <1>1, <1>6, <2>1
  <2> QED BY <1>1, <1>2, <2>1, <2>2 DEF IsLast
<1>8. (\A i \in DOMAIN es : es[i] \notin Summaries) <=> I = {}
  BY <1>1, <1>2, <1>6
<1>10. ASSUME NEW k \in DOMAIN es, IsLast(es, Summaries, k) PROVE I # {} /\ Max(I) = k /\ k # 0
  <2>1. k \in I
    BY <1>1, <1>2, <1>6, <1>10 DEF IsLast
  <2>2. Max(I) \in 1 .. N /\ es[Max(I)] \in Summaries /\ k <= Max(I)
    BY <1>1, <1>4, <1>7, <2>1 DEF IsLast
  <2> QED BY <1>1, <1>10, <2>1, <2>2 DEF IsLast
<1>11. (\A i \in DOMAIN es : es[i] \notin Summaries) => Context(es) = es
  BY <1>5, <1>8
<1>12. \A b \in DOMAIN es : IsLast(es, Summaries, b) =>
              Context(es) = <<es[b]>> \o Within(SubSeq(es, es[b].ref, Len(es)), NotSummary)
  BY <1>5, <1>10
<1>13. \/ \A i \in DOMAIN es : es[i] \notin Summaries
       \/ \E b \in DOMAIN es : IsLast(es, Summaries, b)
  BY <1>1, <1>7, <1>8
<1> QED BY <1>11, <1>12, <1>13

\* What a request shows of the conversation.
Visible == {m \in Kept : IsShown(m)}
ShownAnswers == {m \in Answers : IsShown(m)}

\* A branch: every compaction keeps from an earlier entry on that is no compaction.
Whole(es) ==
  /\ es \in Branches
  /\ \A i \in DOMAIN es : es[i] \in Summaries =>
       es[i].ref \in 1 .. i - 1 /\ es[es[i].ref] \in Kept

\* How the kinds of messages lie to each other.
LEMMA Kinds ==
  /\ Kept \subseteq NotSummary /\ Kept \subseteq Messages /\ Summaries \subseteq Messages
  /\ Kept \cap Summaries = {} /\ NotSummary \cap (Kept \union Summaries) = Kept
  /\ Asked \subseteq Visible /\ Visible \subseteq Kept
  /\ Visible = Asked \union ShownAnswers /\ Asked \cap Answers = {}
  /\ (NotSummary \cap {m \in Messages : IsShown(m)}) \cap (Kept \union Summaries) = Visible
  /\ Answers \cap Summaries = {} /\ Answers \subseteq Kept /\ Asked \subseteq Kept
  /\ \A m \in Kept \union Summaries : IsAssistant(m) <=> m \in Answers
  /\ \A m \in Kept \union Summaries : m \in Assistants <=> m \in Answers
BY DEF Kept, Answers, Asked, Summaries, NotSummary, Visible, ShownAnswers, IsShown, IsError,
       IsAborted, Messages, Failures, IsAssistant, Assistants

\* What is saved behind the last entry comes last in the context.
LEMMA ContextConcat ==
  ASSUME NEW es, Whole(es), NEW t \in Seq(Kept)
  PROVE  Context(es \o t) = Context(es) \o t
<1> DEFINE u == es \o t
<1>1. /\ es \in Seq(Messages) /\ es \in Seq(Kept \union Summaries) /\ t \in Seq(Messages)
      /\ t \in Seq(NotSummary) /\ t \in Seq(Kept \union Summaries)
  BY Kinds DEF Whole, Branches
<1>2. /\ u \in Seq(Messages) /\ Len(es) \in Nat /\ Len(t) \in Nat
      /\ Len(u) = Len(es) + Len(t) /\ DOMAIN u = 1 .. Len(es) + Len(t)
      /\ \A i \in 1 .. Len(es) : u[i] = es[i] /\ i \in DOMAIN u
      /\ \A i \in DOMAIN u : i > Len(es) => u[i] = t[i - Len(es)] /\ i - Len(es) \in 1 .. Len(t)
      /\ DOMAIN es = 1 .. Len(es)
  BY <1>1
<1>3. \A i \in DOMAIN u : i > Len(es) => u[i] \notin Summaries
  <2>1. \A i \in 1 .. Len(t) : t[i] \in Kept
    OBVIOUS
  <2> QED BY <1>2, <2>1, Kinds
<1> HIDE DEF u
<1>4. CASE \A i \in DOMAIN es : es[i] \notin Summaries
  <2>1. \A i \in DOMAIN u : u[i] \notin Summaries
    BY <1>2, <1>3, <1>4
  <2> QED BY <1>1, <1>2, <1>4, <2>1, ContextIs DEF u
<1>5. ASSUME NEW b \in DOMAIN es, IsLast(es, Summaries, b) PROVE Context(u) = Context(es) \o t
  <2> DEFINE r == es[b].ref
             p == SubSeq(es, r, Len(es))
             w == Within(p, NotSummary)
  <2>1. b \in DOMAIN u /\ u[b] = es[b] /\ IsLast(u, Summaries, b)
    BY <1>2, <1>3, <1>5 DEF IsLast
  <2>2. r \in 1 .. Len(es) /\ es[b] \in Summaries
    BY <1>2, <1>5 DEF IsLast, Whole
  <2>3. /\ Context(es) = <<es[b]>> \o w
        /\ Context(u) = <<es[b]>> \o Within(SubSeq(u, r, Len(u)), NotSummary)
    BY <1>1, <1>2, <1>5, <2>1, ContextIs
  <2>4. p \in Seq(Kept \union Summaries) /\ Len(p) = Len(es) - r + 1
        /\ \A i \in 1 .. Len(es) - r + 1 : p[i] = es[r + i - 1]
    BY <1>1, <2>2, SubSeqProperties
  <2> HIDE DEF r
  <2>5. SubSeq(u, r, Len(u)) = p \o t
    <3> DEFINE q == SubSeq(u, r, Len(u))
    <3>1. /\ q \in Seq(Messages) /\ Len(q) = Len(u) - r + 1
          /\ \A i \in 1 .. Len(u) - r + 1 : q[i] = u[r + i - 1]
      BY <1>2, <2>2, SubSeqProperties
    <3>2. p \o t \in Seq(Kept \union Summaries) /\ Len(p \o t) = Len(p) + Len(t)
          /\ \A i \in 1 .. Len(p) + Len(t) : (p \o t)[i] = IF i <= Len(p) THEN p[i] ELSE t[i - Len(p)]
      BY <1>1, <2>4, ConcatProperties
    <3> HIDE DEF p, q
    <3>3. p \o t \in Seq(Messages)
      BY <3>2, Kinds
    <3>4. Len(q) = Len(p \o t)
      BY <1>2, <2>2, <2>4, <3>1, <3>2
    <3>5. \A i \in 1 .. Len(q) : q[i] = (p \o t)[i]
      <4> SUFFICES ASSUME NEW i \in 1 .. Len(q) PROVE q[i] = (p \o t)[i]
        OBVIOUS
      <4>1. /\ i \in 1 .. Len(u) - r + 1 /\ i \in 1 .. Len(p) + Len(t) /\ i \in Nat
            /\ Len(p) \in Nat /\ r \in Nat
        BY <1>2, <2>2, <2>4, <3>1
      <4>2. q[i] = u[r + i - 1] /\ (p \o t)[i] = IF i <= Len(p) THEN p[i] ELSE t[i - Len(p)]
        BY <3>1, <3>2, <4>1, Zenon
      <4>3. CASE i <= Len(p)
        <5>1. r + i - 1 \in 1 .. Len(es) /\ i \in 1 .. Len(es) - r + 1
          BY <1>2, <2>2, <2>4, <4>1, <4>3
        <5>2. p[i] = es[r + i - 1] /\ u[r + i - 1] = es[r + i - 1]
          BY <1>2, <2>4, <5>1, Zenon
        <5> QED BY <4>2, <4>3, <5>2, Zenon
      <4>4. CASE ~(i <= Len(p))
        <5>1. r + i - 1 \in DOMAIN u /\ r + i - 1 > Len(es) /\ (r + i - 1) - Len(es) = i - Len(p)
          BY <1>2, <2>2, <2>4, <4>1, <4>4
        <5>2. u[r + i - 1] = t[i - Len(p)]
          BY <1>2, <5>1, Zenon
        <5> QED BY <4>2, <4>4, <5>2, Zenon
      <4> QED BY <4>3, <4>4
    <3>6. q = p \o t
      BY <3>1, <3>3, <3>4, <3>5, SeqEqual
    <3> QED BY <3>6 DEF q
  <2>6. Within(p \o t, NotSummary) = w \o Within(t, NotSummary)
    <3> HIDE DEF p
    <3> QED BY <1>1, <2>4, WithinConcat
  <2>7. Within(t, NotSummary) = t
    BY <1>1, WithinRange
  <2>8. w \in Seq(NotSummary) /\ es[b] \in Messages /\ NotSummary \subseteq Messages
    BY <2>2, <2>4, WithinIs, Kinds DEF NotSummary
  <2> HIDE DEF p, w
  <2>9. <<es[b]>> \in Seq(Messages) /\ w \in Seq(Messages)
    BY <2>8
  <2>10. <<es[b]>> \o (w \o t) = (<<es[b]>> \o w) \o t
    BY <1>1, <2>9, ConcatAssociative
  <2> QED BY <2>3, <2>5, <2>6, <2>7, <2>10
<1> QED BY <1>1, <1>4, <1>5, ContextIs DEF u

\* One more message comes last.
LEMMA ContextAppend ==
  ASSUME NEW es, Whole(es), NEW m \in Kept
  PROVE  Context(Append(es, m)) = Append(Context(es), m)
<1>1. <<m>> \in Seq(Kept) /\ Append(es, m) = es \o <<m>>
  BY DEF Whole, Branches
<1>2. Context(es) \o <<m>> = Append(Context(es), m)
  OBVIOUS
<1> QED BY <1>1, <1>2, ContextConcat

\* The context is a summary, if there is one, and messages.
LEMMA ContextKind ==
  ASSUME NEW es, Whole(es)
  PROVE  Context(es) \in Branches
<1>1. es \in Seq(Messages) /\ es \in Seq(Kept \union Summaries)
  BY Kinds DEF Whole, Branches
<1>2. ASSUME NEW b \in DOMAIN es, IsLast(es, Summaries, b) PROVE Context(es) \in Branches
  <2> DEFINE p == SubSeq(es, es[b].ref, Len(es))
  <2>1. p \in Seq(Kept \union Summaries)
    BY <1>1, <1>2 DEF IsLast, Whole
  <2>2. Within(p, NotSummary) \in Seq(Kept)
    BY <2>1, WithinRange, Kinds
  <2>3. Context(es) = <<es[b]>> \o Within(p, NotSummary)
    BY <1>1, <1>2, ContextIs
  <2> HIDE DEF p
  <2>4. <<es[b]>> \in Branches /\ Within(p, NotSummary) \in Branches
    BY <1>2, <2>2 DEF IsLast, Branches
  <2> QED BY <2>3, <2>4, ConcatProperties DEF Branches
<1> QED BY <1>1, <1>2, ContextIs DEF Branches

\* What a compaction leaves.
LEMMA ContextSummary ==
  ASSUME NEW es, Whole(es), NEW c \in Summaries, c.ref \in DOMAIN es, es[c.ref] \in Kept
  PROVE  /\ Whole(Append(es, c))
         /\ Context(Append(es, c)) \in Branches /\ Context(Append(es, c)) # <<>>
         /\ \A i \in 2 .. Len(Context(Append(es, c))) : Context(Append(es, c))[i] \in Kept
<1> DEFINE u == Append(es, c)
           p == SubSeq(u, c.ref, Len(u))
           w == Within(p, NotSummary)
<1>1. es \in Seq(Kept \union Summaries) /\ c \in Kept \union Summaries
  BY DEF Whole, Branches
<1>2. /\ u \in Seq(Kept \union Summaries) /\ Len(es) \in Nat /\ Len(u) = Len(es) + 1
      /\ DOMAIN u = 1 .. Len(es) + 1 /\ DOMAIN es = 1 .. Len(es)
      /\ u[Len(es) + 1] = c /\ \A i \in 1 .. Len(es) : u[i] = es[i]
  BY <1>1
<1> HIDE DEF u
<1>3. Whole(u)
  <2>1. ASSUME NEW i \in DOMAIN u, u[i] \in Summaries
        PROVE  u[i].ref \in 1 .. i - 1 /\ u[u[i].ref] \in Kept
    <3>1. CASE i \in 1 .. Len(es)
      <4>1. es[i].ref \in 1 .. i - 1 /\ es[es[i].ref] \in Kept /\ u[i] = es[i]
        BY <1>2, <2>1, <3>1 DEF Whole
      <4>2. es[i].ref \in 1 .. Len(es)
        BY <1>2, <3>1, <4>1
      <4> QED BY <1>2, <4>1, <4>2
    <3>2. CASE i = Len(es) + 1
      BY <1>2, <3>2
    <3> QED BY <1>2, <3>1, <3>2
  <2> QED BY <1>2, <2>1 DEF Whole, Branches
<1>4. IsLast(u, Summaries, Len(es) + 1)
  BY <1>2 DEF IsLast
<1>5. p \in Seq(Kept \union Summaries)
  BY <1>2
<1>6. w \in Seq(Kept)
  BY <1>5, WithinRange, Kinds
<1>7. u \in Seq(Messages)
  BY <1>2, Kinds
<1>8. Context(u) = <<c>> \o w
  <2>1. Len(es) + 1 \in DOMAIN u
    BY <1>2
  <2>2. Context(u) = <<u[Len(es) + 1]>> \o Within(SubSeq(u, u[Len(es) + 1].ref, Len(u)), NotSummary)
    BY <1>4, <1>7, <2>1, ContextIs
  <2> QED BY <1>2, <2>2
<1> HIDE DEF w
<1>9. <<c>> \o w # <<>> /\ \A i \in 2 .. Len(<<c>> \o w) : (<<c>> \o w)[i] \in Kept
  BY <1>6
<1> QED BY <1>3, <1>8, <1>9, ContextKind DEF u

\* Where the conversation a reload shows comes to an end: at the last entry that is shown, or,
\* with nothing behind the summary, at an answer that is not shown.
EndsAt(es, k) ==
  /\ IsLast(es, Visible, k)
  /\ Shown(Context(es)) # <<>> /\ LastOf(Shown(Context(es))) = es[k]
EndsEarly(es) ==
  /\ Shown(Context(es)) = <<>> \/ LastOf(Shown(Context(es))) \in Summaries
  /\ \/ \A j \in DOMAIN es : es[j] \notin Visible
     \/ \E r \in DOMAIN es : es[r] \in Answers /\ \A j \in DOMAIN es : r <= j => es[j] \notin Visible

\* One of the two is the end of every branch.
LEMMA ContextEnds ==
  ASSUME NEW es, Whole(es)
  PROVE  EndsEarly(es) \/ \E k \in DOMAIN es : EndsAt(es, k)
<1> DEFINE V == {m \in Messages : IsShown(m)}
<1>1. es \in Seq(Messages) /\ es \in Seq(Kept \union Summaries) /\ DOMAIN es = 1 .. Len(es)
      /\ Len(es) \in Nat
  BY Kinds DEF Whole, Branches
<1>2. CASE \A i \in DOMAIN es : es[i] \notin Summaries
  <2>1. Context(es) = es
    BY <1>1, <1>2, ContextIs
  <2>2. es \in Seq(Kept)
    BY <1>1, <1>2
  <2>3. Within(es, V) = Within(es, Visible)
    <3>1. V \cap Kept = Visible \cap Kept
      BY Kinds DEF Visible
    <3> QED BY <2>2, <3>1, WithinSame
  <2>4. NoneFound(es, Visible) \/ \E k \in DOMAIN es : LastFound(es, Visible, k)
    BY <1>1, WithinLast
  <2> QED BY <2>1, <2>3, <2>4 DEF Shown, NoneFound, LastFound, EndsEarly, EndsAt, IsLast
<1>3. ASSUME NEW b \in DOMAIN es, IsLast(es, Summaries, b)
      PROVE  EndsEarly(es) \/ \E k \in DOMAIN es : EndsAt(es, k)
  <2> DEFINE r == es[b].ref
             p == SubSeq(es, r, Len(es))
             w == Within(p, NotSummary)
  <2>1. r \in 1 .. Len(es) /\ es[r] \in Kept /\ es[b] \in Summaries
    BY <1>1, <1>3 DEF IsLast, Whole
  <2>2. Context(es) = <<es[b]>> \o w
    BY <1>1, <1>3, ContextIs
  <2> HIDE DEF r
  <2>3. p \in Seq(Kept \union Summaries) /\ Len(p) = Len(es) - r + 1
        /\ \A i \in 1 .. Len(es) - r + 1 : p[i] = es[r + i - 1]
    BY <1>1, <2>1, SubSeqProperties
  <2> HIDE DEF p
  <2>4. w \in Seq(Kept)
    BY <2>3, WithinRange, Kinds
  <2>5. Shown(Context(es)) = Only(es[b], V) \o Within(w, V)
    <3>1. <<es[b]>> \in Seq(Kept \union Summaries) /\ w \in Seq(Kept \union Summaries)
      BY <2>1, <2>4
    <3>2. Within(<<es[b]>> \o w, V) = Within(<<es[b]>>, V) \o Within(w, V)
      <4> DEFINE q == <<es[b]>>
      <4> HIDE DEF q, w, V
      <4>1. q \in Seq(Kept \union Summaries)
        BY <3>1 DEF q
      <4>2. \A t \in Seq(Kept \union Summaries) : Within(q \o t, V) = Within(q, V) \o Within(t, V)
        <5> DEFINE K == Kept \union Summaries
        <5>1. q \in Seq(K)
          BY <4>1
        <5> HIDE DEF K
        <5>2. \A t \in Seq(K) : Within(q \o t, V) = Within(q, V) \o Within(t, V)
          BY <5>1, WithinConcat
        <5> QED BY <5>2 DEF K
      <4> QED BY <3>1, <4>2 DEF q
    <3> HIDE DEF w, V
    <3> QED BY <2>2, <3>2, WithinOne DEF Shown, V
  <2>6. Within(w, V) = Within(p, Visible)
    <3>1. Within(w, V) = Within(p, NotSummary \cap V)
      BY <2>3, WithinWithin
    <3>2. (NotSummary \cap V) \cap (Kept \union Summaries) = Visible \cap (Kept \union Summaries)
      BY Kinds
    <3> HIDE DEF V, w
    <3>3. Within(p, NotSummary \cap V) = Within(p, Visible)
      BY <2>3, <3>2, WithinSame
    <3> QED BY <3>1, <3>3
  <2>7. Only(es[b], V) \in Seq(Messages) /\ Within(p, Visible) \in Seq(Messages)
    <3>1. Within(p, Visible) \in Seq(Visible)
      BY <2>3, WithinIs
    <3>2. Visible \subseteq Messages
      BY Kinds
    <3> QED BY <2>1, <3>1, <3>2, Kinds DEF Only
  <2>8. CASE NoneFound(p, Visible)
    <3>1. Shown(Context(es)) = Only(es[b], V)
      BY <2>5, <2>6, <2>7, <2>8, ConcatEmptySeq DEF NoneFound
    <3>2. Shown(Context(es)) = <<>> \/ LastOf(Shown(Context(es))) \in Summaries
      BY <2>1, <3>1 DEF Only, LastOf
    <3>3. \A j \in DOMAIN es : r <= j => es[j] \notin Visible
      <4> TAKE j \in DOMAIN es
      <4>1. ASSUME r <= j PROVE j - r + 1 \in 1 .. Len(es) - r + 1 /\ r + (j - r + 1) - 1 = j
        BY <1>1, <2>1, <4>1
      <4>2. \A i \in 1 .. Len(es) - r + 1 : p[i] \notin Visible
        BY <2>3, <2>8 DEF NoneFound
      <4> QED BY <1>1, <2>1, <2>3, <4>1, <4>2
    <3>4. es[r] \in Answers
      BY <1>1, <2>1, <3>3, Kinds DEF Kept
    <3> QED BY <1>1, <2>1, <3>2, <3>3, <3>4 DEF EndsEarly
  <2>9. ASSUME NEW i \in DOMAIN p, LastFound(p, Visible, i) PROVE \E k \in DOMAIN es : EndsAt(es, k)
    <3> DEFINE k == r + i - 1
    <3>1. k \in DOMAIN es /\ p[i] = es[k]
      BY <1>1, <2>1, <2>3
    <3>2. \A j \in DOMAIN es : k < j => es[j] \notin Visible
      <4> SUFFICES ASSUME NEW j \in DOMAIN es, k < j PROVE es[j] \notin Visible
        OBVIOUS
      <4>1. j - r + 1 \in DOMAIN p /\ i < j - r + 1 /\ r + (j - r + 1) - 1 = j
        BY <1>1, <2>1, <2>3
      <4>2. p[j - r + 1] = es[j]
        <5>1. j - r + 1 \in 1 .. Len(es) - r + 1
          BY <1>1, <2>1, <2>3, <4>1
        <5>2. p[j - r + 1] = es[r + (j - r + 1) - 1]
          BY <2>3, <5>1, Zenon
        <5> QED BY <4>1, <5>2, Zenon
      <4> QED BY <2>9, <4>1, <4>2 DEF LastFound
    <3>3. /\ Within(p, Visible) # <<>> /\ LastOf(Within(p, Visible)) = es[k] /\ es[k] \in Visible
      BY <2>9, <3>1 DEF LastFound
    <3> DEFINE x == Only(es[b], V)
               y == Within(p, Visible)
    <3>4. x \o y # <<>> /\ LastOf(x \o y) = LastOf(y)
      <4> HIDE DEF x, y
      <4>1. x \in Seq(Messages) /\ y \in Seq(Messages) /\ y # <<>>
        BY <2>7, <3>3 DEF x, y
      <4> QED BY <4>1 DEF LastOf
    <3> HIDE DEF k
    <3> QED BY <2>5, <2>6, <3>1, <3>2, <3>3, <3>4 DEF EndsAt, IsLast
  <2> QED BY <2>3, <2>8, <2>9, WithinLast
<1> QED BY <1>1, <1>2, <1>3, ContextIs

----------------------------------------------------------------------------
(* Turns: between two answers something was asked *)

\* Between an answer that is shown and a later one something was asked.
Turns(s) ==
  \A i, j \in DOMAIN s :
    i < j /\ s[i] \in ShownAnswers /\ s[j] \in Answers => \E k \in i .. j : s[k] \in Asked
\* Something was asked behind every answer that is shown.
Open(s) ==
  \A i \in DOMAIN s : s[i] \in ShownAnswers => \E k \in DOMAIN s : i < k /\ s[k] \in Asked

\* One more message.
LEMMA TurnsAppend ==
  ASSUME NEW s \in Branches, Turns(s), NEW m
  PROVE  /\ m \notin Answers \/ Open(s) => Turns(Append(s, m))
         /\ m \in Asked => Open(Append(s, m))
<1> DEFINE u == Append(s, m)
           N == Len(s)
<1>1. /\ N \in Nat /\ DOMAIN s = 1 .. N /\ DOMAIN u = 1 .. N + 1
      /\ u[N + 1] = m /\ \A i \in 1 .. N : u[i] = s[i]
      /\ \A i \in 1 .. N + 1 : i = N + 1 \/ i \in 1 .. N
  BY DEF Branches
<1>2. ShownAnswers \subseteq Answers /\ Asked \cap Answers = {}
  BY Kinds DEF ShownAnswers
<1> HIDE DEF u, N
<1>3. ASSUME m \notin Answers \/ Open(s) PROVE Turns(u)
  <2> SUFFICES ASSUME NEW i \in 1 .. N + 1, NEW j \in 1 .. N + 1, i < j,
                      u[i] \in ShownAnswers, u[j] \in Answers
               PROVE  \E k \in i .. j : u[k] \in Asked
    BY <1>1 DEF Turns
  <2>1. i \in 1 .. N /\ u[i] = s[i]
    BY <1>1
  <2>2. CASE j = N + 1
    <3>1. Open(s)
      BY <1>1, <1>3, <2>2
    <3>2. PICK k \in 1 .. N : i < k /\ s[k] \in Asked
      BY <1>1, <2>1, <3>1 DEF Open
    <3> QED BY <1>1, <2>2, <3>2
  <2>3. CASE j \in 1 .. N
    <3>1. PICK k \in i .. j : s[k] \in Asked
      BY <1>1, <2>1, <2>3 DEF Turns
    <3> QED BY <1>1, <2>3, <3>1
  <2> QED BY <1>1, <2>2, <2>3
<1>4. ASSUME m \in Asked PROVE Open(u)
  <2>1. N + 1 \in 1 .. N + 1 /\ \A i \in 1 .. N : i < N + 1
    BY <1>1
  <2> QED BY <1>1, <1>2, <1>4, <2>1 DEF Open
<1> QED BY <1>3, <1>4 DEF u

\* Bash results in a row.
LEMMA TurnsConcat ==
  ASSUME NEW s \in Branches, Turns(s)
  PROVE  \A t \in Seq(Asked) : Turns(s \o t)
<1> DEFINE R == {t \in Seq(Asked) : Turns(s \o t)}
<1>1. <<>> \in R
  <2>1. s \o <<>> = s /\ <<>> \in Seq(Asked)
    BY ConcatEmptySeq DEF Branches
  <2> QED BY <2>1
<1>2. ASSUME NEW t \in Seq(Asked), NEW x \in Asked, t \in R PROVE Append(t, x) \in R
  <2>1. t \in Branches
    BY Kinds DEF Branches
  <2>2. s \o t \in Branches /\ s \o Append(t, x) = Append(s \o t, x) /\ Append(t, x) \in Seq(Asked)
    BY <2>1 DEF Branches
  <2>3. Turns(s \o t) /\ x \notin Answers
    BY <1>2, Kinds
  <2> QED BY <2>2, <2>3, TurnsAppend
<1> HIDE DEF R
<1>3. \A t \in Seq(Asked) : t \in R
  BY <1>1, <1>2, SequenceInduct
<1> QED BY <1>3 DEF R

\* The next request is asked for when the last message shown is no answer: something was asked
\* behind every answer that is shown.
LEMMA AskOpens ==
  ASSUME NEW es, Whole(es), NEW u \in Seq(Kept), Turns(es \o u),
         \/ Shown(Context(es)) \o Shown(u) = <<>>
         \/ LastOf(Shown(Context(es)) \o Shown(u)) \notin Answers
  PROVE  Open(es \o u)
<1> DEFINE V == {m \in Messages : IsShown(m)}
           s == es \o u
           c == Shown(Context(es))
           d == Shown(u)
           N == Len(es)
           M == Len(u)
<1>1. /\ es \in Seq(Messages) /\ u \in Seq(Messages) /\ N \in Nat /\ M \in Nat
      /\ DOMAIN es = 1 .. N /\ DOMAIN u = 1 .. M /\ DOMAIN s = 1 .. N + M
      /\ \A i \in 1 .. N : s[i] = es[i] /\ i \in DOMAIN s
      /\ \A i \in 1 .. M : s[N + i] = u[i] /\ N + i \in DOMAIN s
      /\ \A i \in DOMAIN s : i > N => i - N \in 1 .. M /\ s[i] = u[i - N] /\ N + (i - N) = i
      /\ \A i \in DOMAIN s : i \in 1 .. N \/ i > N
  BY Kinds DEF Whole, Branches
<1>2. ShownAnswers \subseteq Visible /\ Visible = Asked \union ShownAnswers /\ ShownAnswers \subseteq Answers
      /\ Asked \cap Answers = {}
  BY Kinds DEF ShownAnswers
<1>3. d = Within(u, Visible)
  <2>1. V \cap Kept = Visible \cap Kept
    BY Kinds DEF Visible
  <2> HIDE DEF V
  <2>2. Within(u, V) = Within(u, Visible)
    BY <2>1, WithinSame
  <2> QED BY <2>2 DEF Shown, V
<1>4. c \in Seq(Messages) /\ d \in Seq(Messages)
  <2>1. Context(es) \in Seq(Kept \union Summaries)
    BY ContextKind DEF Branches
  <2>2. c \in Seq(V) /\ d \in Seq(V)
    BY <2>1, WithinIs DEF Shown
  <2> QED BY <2>2
<1>5. c \o d = <<>> \/ LastOf(c \o d) \notin Answers
  OBVIOUS
<1> HIDE DEF V, s, c, d, N, M
<1>6. ASSUME NEW k \in DOMAIN u, LastFound(u, Visible, k) PROVE Open(s)
  <2>1. c \o d # <<>> /\ LastOf(c \o d) = LastOf(d)
    <3>1. d # <<>>
      BY <1>3, <1>6 DEF LastFound
    <3> QED BY <1>4, <3>1 DEF LastOf
  <2>2. u[k] \in Asked
    BY <1>2, <1>3, <1>5, <1>6, <2>1 DEF LastFound
  <2>3. \A i \in DOMAIN s : s[i] \in ShownAnswers => i < N + k
    <3> SUFFICES ASSUME NEW i \in DOMAIN s, s[i] \in ShownAnswers PROVE i < N + k
      OBVIOUS
    <3>1. CASE i \in 1 .. N
      BY <1>1, <1>6, <3>1
    <3>2. CASE i > N
      <4>1. i - N \in DOMAIN u /\ u[i - N] \in Visible
        BY <1>1, <1>2, <3>2
      <4>2. ~(k < i - N) /\ i - N # k
        BY <1>1, <1>2, <1>6, <2>2, <3>2, <4>1 DEF LastFound
      <4> QED BY <1>1, <1>6, <4>1, <4>2
    <3> QED BY <1>1, <3>1, <3>2
  <2>4. N + k \in DOMAIN s /\ s[N + k] \in Asked
    BY <1>1, <1>6, <2>2
  <2> QED BY <2>3, <2>4 DEF Open
<1>7. ASSUME NoneFound(u, Visible) PROVE Open(s)
  <2>1. c = <<>> \/ LastOf(c) \notin Answers
    BY <1>3, <1>4, <1>5, <1>7, ConcatEmptySeq DEF NoneFound
  <2>2. \A i \in DOMAIN s : s[i] \in ShownAnswers => i \in 1 .. N /\ es[i] \in ShownAnswers
    BY <1>1, <1>2, <1>7 DEF NoneFound
  <2>3. ASSUME NEW k \in DOMAIN es, EndsAt(es, k) PROVE Open(s)
    <3>1. es[k] \in Asked
      BY <1>2, <2>1, <2>3 DEF EndsAt, IsLast, c
    <3>2. \A i \in 1 .. N : es[i] \in ShownAnswers => i < k
      BY <1>1, <1>2, <2>3, <3>1 DEF EndsAt, IsLast
    <3>3. k \in DOMAIN s /\ s[k] \in Asked
      BY <1>1, <2>3, <3>1
    <3> QED BY <2>2, <3>2, <3>3 DEF Open
  <2>4. ASSUME \A j \in DOMAIN es : es[j] \notin Visible PROVE Open(s)
    BY <1>1, <1>2, <2>2, <2>4 DEF Open
  <2>5. ASSUME NEW r \in DOMAIN es, es[r] \in Answers, \A j \in DOMAIN es : r <= j => es[j] \notin Visible
        PROVE  Open(s)
    <3> SUFFICES ASSUME NEW i \in 1 .. N, es[i] \in ShownAnswers
                 PROVE  \E k \in DOMAIN s : i < k /\ s[k] \in Asked
      BY <2>2 DEF Open
    <3>1. i < r
      BY <1>1, <1>2, <2>5
    <3>2. i \in DOMAIN s /\ r \in DOMAIN s /\ s[i] \in ShownAnswers /\ s[r] \in Answers
      BY <1>1, <2>5
    <3>3. PICK k \in i .. r : s[k] \in Asked
      BY <3>1, <3>2 DEF Turns, s
    <3>4. k # i /\ k \in DOMAIN s
      BY <1>1, <1>2, <2>5, <3>2, <3>3
    <3> QED BY <1>1, <3>3, <3>4
  <2> QED BY <2>3, <2>4, <2>5, ContextEnds DEF EndsEarly
<1> QED BY <1>6, <1>7, WithinLast DEF s

\* The last answer of a branch is not shown: no answer comes last in what a reload shows.
LEMMA LastHidden ==
  ASSUME NEW es, Whole(es), Turns(es), NEW j \in DOMAIN es, IsLast(es, Assistants, j),
         es[j] \notin ShownAnswers
  PROVE  Shown(Context(es)) = <<>> \/ LastOf(Shown(Context(es))) \notin Answers
<1>1. Asked \cap Answers = {} /\ Asked \subseteq Visible /\ Visible = Asked \union ShownAnswers
      /\ ShownAnswers \subseteq Answers /\ Answers \cap Summaries = {}
      /\ DOMAIN es = 1 .. Len(es) /\ Len(es) \in Nat
      /\ es[j] \in Answers /\ \A i \in DOMAIN es : j < i => es[i] \notin Answers
  BY Kinds DEF ShownAnswers, Whole, Branches, IsLast
<1>2. ASSUME NEW k \in DOMAIN es, EndsAt(es, k) PROVE LastOf(Shown(Context(es))) \notin Answers
  <2> SUFFICES ASSUME es[k] \in ShownAnswers PROVE FALSE
    BY <1>1, <1>2 DEF EndsAt, IsLast, Visible, ShownAnswers
  <2>1. k < j
    BY <1>1
  <2>2. PICK i \in k .. j : es[i] \in Asked
    BY <1>1, <2>1 DEF Turns
  <2>3. i # k /\ i \in DOMAIN es /\ k < i
    BY <1>1, <2>2
  <2> QED BY <1>1, <1>2, <2>2, <2>3 DEF EndsAt, IsLast
<1> QED BY <1>1, <1>2, ContextEnds DEF EndsEarly

\* Then the answer at the end of the transcript is not shown either, and may be dropped.
LEMMA DropHidden ==
  ASSUME NEW s \in Branches, s # <<>> /\ IsAssistant(LastOf(s)) => LastOf(s) \notin ShownAnswers
  PROVE  DropLastAssistant(s) \in Branches /\ Shown(DropLastAssistant(s)) = Shown(s)
<1> SUFFICES ASSUME s # <<>>, IsAssistant(LastOf(s))
             PROVE  Front(s) \in Branches /\ Shown(Front(s)) = Shown(s)
  BY DEF DropLastAssistant
<1> DEFINE m == s[Len(s)]
           V == {x \in Messages : IsShown(x)}
<1>1. /\ m \in Kept \union Summaries /\ Front(s) \in Seq(Kept \union Summaries)
      /\ s = Append(Front(s), m) /\ LastOf(s) = m
  BY DEF Branches, Front, LastOf
<1> HIDE DEF m
<1>2. m \in Answers /\ ~IsShown(m)
  BY <1>1, Kinds DEF ShownAnswers
<1>3. Within(s, V) = Within(Front(s), V) \o Only(m, V)
  <2> HIDE DEF V
  <2> QED BY <1>1, WithinAppend
<1>4. Only(m, V) = <<>> /\ Within(Front(s), V) \in Seq(V)
  BY <1>1, <1>2, WithinIs DEF Only
<1>5. Within(Front(s), V) \o <<>> = Within(Front(s), V)
  <2> HIDE DEF V
  <2> QED BY <1>4, ConcatEmptySeq
<1> QED BY <1>1, <1>3, <1>4, <1>5 DEF Shown, Branches

----------------------------------------------------------------------------
(* The transcript and the branch with what is not saved yet *)

\* The messages the session has yet to save.
Said(e) == IF e.type = "message" THEN e.msg ELSE Hidden
Unsaved(ev) == Within([i \in DOMAIN ev |-> Said(ev[i])], Kept)

\* An event that joins adds its message, and the one that is handled takes its message away.
LEMMA UnsavedMoves ==
  ASSUME NEW ev \in Seq(Events)
  PROVE  /\ Unsaved(ev) \in Seq(Kept)
         /\ \A e \in Events : Unsaved(Append(ev, e)) = Unsaved(ev) \o Only(Said(e), Kept)
         /\ ev # <<>> => Unsaved(ev) = Only(Said(Head(ev)), Kept) \o Unsaved(Tail(ev))
         /\ (\A i \in DOMAIN ev : ev[i].type # "message") => Unsaved(ev) = <<>>
<1> DEFINE S(q) == [i \in DOMAIN q |-> Said(q[i])]
<1>1. \A e \in Events : Said(e) \in Messages
  BY DEF Events, Said, Spoken, Messages, Hidden, Msg
<1>2. \A q \in Seq(Events) : S(q) \in Seq(Messages) /\ Len(S(q)) = Len(q)
  <2> SUFFICES ASSUME NEW q \in Seq(Events) PROVE S(q) \in Seq(Messages) /\ Len(S(q)) = Len(q)
    OBVIOUS
  <2>1. Len(q) \in Nat /\ DOMAIN q = 1 .. Len(q) /\ \A i \in 1 .. Len(q) : q[i] \in Events
    OBVIOUS
  <2>2. S(q) \in [1 .. Len(q) -> Messages]
    BY <1>1, <2>1
  <2> HIDE DEF S
  <2> QED BY <2>1, <2>2
<1>3. Unsaved(ev) \in Seq(Kept)
  BY <1>2, WithinIs DEF Unsaved
<1>4. ASSUME NEW e \in Events PROVE Unsaved(Append(ev, e)) = Unsaved(ev) \o Only(Said(e), Kept)
  <2>1. Append(ev, e) \in Seq(Events)
    OBVIOUS
  <2>2. S(Append(ev, e)) = Append(S(ev), Said(e))
    <3>1. /\ Len(S(Append(ev, e))) = Len(Append(S(ev), Said(e)))
          /\ S(Append(ev, e)) \in Seq(Messages) /\ Append(S(ev), Said(e)) \in Seq(Messages)
      <4>1. S(ev) \in Seq(Messages) /\ Len(S(ev)) = Len(ev) /\ S(Append(ev, e)) \in Seq(Messages)
            /\ Len(S(Append(ev, e))) = Len(Append(ev, e))
        BY <1>2, <2>1
      <4> HIDE DEF S
      <4> QED BY <1>1, <4>1
    <3>2. \A i \in 1 .. Len(S(Append(ev, e))) : S(Append(ev, e))[i] = Append(S(ev), Said(e))[i]
      <4>1. Len(S(Append(ev, e))) = Len(ev) + 1 /\ Len(S(ev)) = Len(ev) /\ S(ev) \in Seq(Messages)
            /\ Len(ev) \in Nat /\ DOMAIN ev = 1 .. Len(ev) /\ DOMAIN Append(ev, e) = 1 .. Len(ev) + 1
        BY <1>2, <2>1
      <4> SUFFICES ASSUME NEW i \in 1 .. Len(ev) + 1 PROVE S(Append(ev, e))[i] = Append(S(ev), Said(e))[i]
        BY <4>1
      <4>2. S(Append(ev, e))[i] = Said(Append(ev, e)[i])
        BY <4>1
      <4>3. CASE i \in 1 .. Len(ev)
        <5>1. Append(ev, e)[i] = ev[i] /\ S(ev)[i] = Said(ev[i])
          BY <4>1, <4>3
        <5> HIDE DEF S
        <5>2. Append(S(ev), Said(e))[i] = S(ev)[i]
          BY <4>1, <4>3
        <5> QED BY <4>2, <5>1, <5>2
      <4>4. CASE i = Len(ev) + 1
        <5>1. Append(ev, e)[i] = e
          BY <4>1, <4>4
        <5> HIDE DEF S
        <5>2. Append(S(ev), Said(e))[i] = Said(e)
          BY <4>1, <4>4
        <5> QED BY <4>2, <5>1, <5>2
      <4> QED BY <4>1, <4>3, <4>4
    <3> HIDE DEF S
    <3> QED BY <3>1, <3>2, SeqEqual
  <2>3. S(ev) \in Seq(Messages) /\ Said(e) \in Messages
    BY <1>1, <1>2
  <2> DEFINE a == S(ev)
             x == Said(e)
  <2> HIDE DEF a, x
  <2>4. Within(Append(a, x), Kept) = Within(a, Kept) \o Only(x, Kept)
    BY <2>3, WithinAppend DEF a, x
  <2> QED BY <2>2, <2>4 DEF Unsaved, a, x
<1>5. ASSUME ev # <<>> PROVE Unsaved(ev) = Only(Said(Head(ev)), Kept) \o Unsaved(Tail(ev))
  <2> DEFINE a == <<Said(Head(ev))>>
             b == S(Tail(ev))
  <2>1. Head(ev) \in Events /\ Tail(ev) \in Seq(Events) /\ Len(Tail(ev)) = Len(ev) - 1
        /\ Len(ev) \in Nat /\ Len(ev) > 0 /\ DOMAIN ev = 1 .. Len(ev) /\ DOMAIN Tail(ev) = 1 .. Len(ev) - 1
        /\ Head(ev) = ev[1] /\ \A i \in 1 .. Len(ev) - 1 : Tail(ev)[i] = ev[i + 1]
    BY <1>5
  <2>2. /\ a \in Seq(Messages) /\ b \in Seq(Messages) /\ S(ev) \in Seq(Messages)
        /\ Len(a) = 1 /\ Len(b) = Len(ev) - 1 /\ Len(S(ev)) = Len(ev) /\ a[1] = Said(ev[1])
    BY <1>1, <1>2, <2>1
  <2>3. \A i \in 1 .. Len(ev) - 1 : b[i] = Said(ev[i + 1])
    BY <2>1
  <2>4. \A i \in 1 .. Len(ev) : S(ev)[i] = Said(ev[i])
    BY <2>1
  <2> DEFINE c == S(ev)
  <2> HIDE DEF a, b, c
  <2>5. c = a \o b
    <3>0. /\ a \o b \in Seq(Messages) /\ Len(a \o b) = Len(a) + Len(b)
          /\ \A i \in 1 .. Len(a) + Len(b) :
                (a \o b)[i] = IF i <= Len(a) THEN a[i] ELSE b[i - Len(a)]
      <4>1. a \in Seq(Messages) /\ b \in Seq(Messages)
        BY <2>2
      <4> QED BY <4>1, ConcatProperties, Zenon
    <3>1. a \o b \in Seq(Messages) /\ Len(a \o b) = Len(c)
      BY <2>1, <2>2, <3>0 DEF c
    <3>2. \A i \in 1 .. Len(c) : c[i] = (a \o b)[i]
      <4> SUFFICES ASSUME NEW i \in 1 .. Len(ev) PROVE c[i] = (a \o b)[i]
        BY <2>2 DEF c
      <4>1. CASE i = 1
        <5>1. (a \o b)[1] = a[1]
          BY <2>1, <2>2, <3>0
        <5> QED BY <2>2, <2>4, <4>1, <5>1 DEF c
      <4>2. CASE i # 1
        <5>1. i - 1 \in 1 .. Len(ev) - 1 /\ (i - 1) + 1 = i
          BY <2>1, <4>2
        <5>2. (a \o b)[i] = b[i - 1]
          BY <2>1, <2>2, <3>0, <4>2
        <5>3. b[i - 1] = Said(ev[(i - 1) + 1])
          BY <2>3, <5>1, Zenon
        <5> QED BY <2>4, <5>1, <5>2, <5>3 DEF c
      <4> QED BY <4>1, <4>2
    <3> QED BY <2>2, <3>1, <3>2, SeqEqual DEF c
  <2>6. Within(a \o b, Kept) = Within(a, Kept) \o Within(b, Kept)
    BY <2>2, WithinConcat
  <2>7. Within(a, Kept) = Only(Said(Head(ev)), Kept)
    BY WithinOne DEF a
  <2> QED BY <2>5, <2>6, <2>7 DEF Unsaved, b, c
<1>6. ASSUME \A i \in DOMAIN ev : ev[i].type # "message" PROVE Unsaved(ev) = <<>>
  <2>1. Hidden \notin Kept
    BY DEF Hidden, Msg, Kept, Answers, Asked
  <2>2. S(ev) \in Seq(Messages) /\ \A i \in DOMAIN S(ev) : S(ev)[i] \notin Kept
    BY <1>2, <1>6, <2>1 DEF Said
  <2> DEFINE c == S(ev)
  <2> HIDE DEF c
  <2>3. NoneFound(c, Kept)
    <3>1. NoneFound(c, Kept) \/ \E k \in DOMAIN c : LastFound(c, Kept, k)
      BY <2>2, WithinLast DEF c
    <3> QED BY <2>2, <3>1 DEF LastFound, c
  <2> QED BY <2>3 DEF NoneFound, Unsaved, c
<1> QED BY <1>3, <1>4, <1>5, <1>6

----------------------------------------------------------------------------
(* What a request shows, and what a reload would *)

\* The transcript shows what a reload would and the messages still to be saved.
Agrees(t, es, u) == Shown(t) = Shown(Context(es)) \o Shown(u)

\* What is shown of two parts is shown of the whole.
LEMMA ShownMoves ==
  ASSUME NEW s \in Branches, NEW t \in Branches
  PROVE  /\ Shown(s \o t) = Shown(s) \o Shown(t)
         /\ Shown(s) \in Seq(Messages) /\ Shown(<<>>) = <<>>
<1> DEFINE V == {x \in Messages : IsShown(x)}
           K == Kept \union Summaries
<1>1. s \in Seq(K) /\ t \in Seq(K) /\ V \subseteq Messages
  BY DEF Branches
<1> HIDE DEF K
<1>2. Within(s \o t, V) = Within(s, V) \o Within(t, V)
  <2> HIDE DEF V
  <2> QED BY <1>1, WithinConcat
<1>3. Within(s, V) \in Seq(V)
  <2> HIDE DEF V
  <2> QED BY <1>1, WithinIs
<1>4. Within(s, V) \in Seq(Messages)
  <2> HIDE DEF V
  <2> QED BY <1>1, <1>3
<1> QED BY <1>2, <1>4, WithinNone DEF Shown

\* The agent takes a message to its transcript, and the session has yet to save it.
LEMMA AgreesSaid ==
  ASSUME NEW t \in Branches, NEW es, Whole(es), NEW u \in Seq(Kept), Agrees(t, es, u), NEW m \in Kept
  PROVE  /\ Agrees(Append(t, m), es, u \o <<m>>)
         /\ ~IsShown(m) => Agrees(Append(t, m), es, u)
<1> DEFINE q == <<m>>
<1>1. q \in Branches /\ u \in Branches /\ Context(es) \in Branches /\ Append(t, m) = t \o q
  BY ContextKind DEF Branches
<1>2. Shown(q) = IF IsShown(m) THEN q ELSE <<>>
  BY WithinOne, Kinds DEF Shown, Only
<1> HIDE DEF q
<1>3. /\ Shown(t \o q) = Shown(t) \o Shown(q)
      /\ Shown(u \o q) = Shown(u) \o Shown(q)
      /\ Shown(t) \in Seq(Messages) /\ Shown(u) \in Seq(Messages) /\ Shown(q) \in Seq(Messages)
      /\ Shown(Context(es)) \in Seq(Messages)
  BY <1>1, ShownMoves
<1>4. (Shown(Context(es)) \o Shown(u)) \o Shown(q) = Shown(Context(es)) \o (Shown(u) \o Shown(q))
  BY <1>3, ConcatAssociative
<1>5. Agrees(t \o q, es, u \o q)
  BY <1>3, <1>4 DEF Agrees
<1>6. ~IsShown(m) => Agrees(t \o q, es, u)
  <2>1. Shown(t) \o <<>> = Shown(t)
    BY <1>3, ConcatEmptySeq
  <2> QED BY <1>2, <1>3, <2>1 DEF Agrees
<1> QED BY <1>1, <1>5, <1>6 DEF q

\* The session saves the first of the messages.
LEMMA AgreesSaved ==
  ASSUME NEW t \in Branches, NEW es, Whole(es), NEW v \in Seq(Kept), NEW m \in Kept,
         Agrees(t, es, <<m>> \o v)
  PROVE  Agrees(t, Append(es, m), v)
<1> DEFINE q == <<m>>
<1>1. q \in Branches /\ v \in Branches /\ Context(es) \in Branches
      /\ Append(Context(es), m) = Context(es) \o q
  BY ContextKind DEF Branches
<1> HIDE DEF q
<1>2. Context(Append(es, m)) = Context(es) \o q
  BY <1>1, ContextAppend
<1>3. /\ Shown(Context(es) \o q) = Shown(Context(es)) \o Shown(q)
      /\ Shown(q \o v) = Shown(q) \o Shown(v)
      /\ Shown(v) \in Seq(Messages) /\ Shown(q) \in Seq(Messages)
      /\ Shown(Context(es)) \in Seq(Messages)
  BY <1>1, ShownMoves
<1>4. (Shown(Context(es)) \o Shown(q)) \o Shown(v) = Shown(Context(es)) \o (Shown(q) \o Shown(v))
  BY <1>3, ConcatAssociative
<1>5. Shown(t) = Shown(Context(es)) \o Shown(q \o v)
  BY DEF Agrees, q
<1> QED BY <1>2, <1>3, <1>4, <1>5 DEF Agrees

\* Messages are added on both sides at once, with nothing to be saved in between.
LEMMA AgreesBoth ==
  ASSUME NEW t \in Branches, NEW es, Whole(es), Agrees(t, es, <<>>), NEW p \in Seq(Kept)
  PROVE  Agrees(t \o p, es \o p, <<>>)
<1>1. p \in Branches /\ Context(es) \in Branches
  BY ContextKind DEF Branches
<1>2. Context(es \o p) = Context(es) \o p
  BY ContextConcat
<1>3. /\ Shown(Context(es) \o p) = Shown(Context(es)) \o Shown(p)
      /\ Shown(t \o p) = Shown(t) \o Shown(p)
      /\ Shown(p) \in Seq(Messages) /\ Shown(<<>>) = <<>> /\ Shown(t) \in Seq(Messages)
      /\ Shown(Context(es)) \in Seq(Messages)
  BY <1>1, ShownMoves
<1>4. Shown(t) = Shown(Context(es))
  BY <1>3, ConcatEmptySeq DEF Agrees
<1>5. (Shown(Context(es)) \o Shown(p)) \o <<>> = Shown(Context(es)) \o Shown(p)
  BY <1>3, ConcatProperties, ConcatEmptySeq
<1> QED BY <1>2, <1>3, <1>4, <1>5 DEF Agrees

----------------------------------------------------------------------------
(* What is on its way, and what a branch may hold *)

\* The messages to be saved are asked or answers.
ToSaveOK(ev) == \A i \in DOMAIN ev : ev[i].type = "message" => ev[i].msg \in Kept
\* What is on its way is asked or an answer.
WaitingOK ==
  /\ inbox \in Seq(Asked) /\ queued \in Seq(Asked) /\ pendingBash \in Seq(Asked)
  /\ ToSaveOK(events)
  /\ run \in {"asking", "ending"} => reply \in Answers
\* Only the first message of the transcript may be a summary.
TranscriptOK(s) == s \in Branches /\ \A i \in 2 .. Len(s) : s[i] \in Kept
\* The branch is whole, lastAssistant is its last answer, and a compaction under way keeps
\* from one of its messages on.
LastOK ==
  \/ lastAssistant = None
  \/ \E k \in DOMAIN entries : IsLast(entries, Assistants, k) /\ lastAssistant = entries[k]
KeepsOK ==
  \A o \in Owners : compactions[o].phase = "summary" =>
    compactions[o].keep \in DOMAIN entries /\ entries[compactions[o].keep] \in Kept
BranchOK == Whole(entries) /\ LastOK /\ KeepsOK
KindInv == WaitingOK /\ TranscriptOK(transcript) /\ BranchOK

\* A compaction that has its cut point keeps it.
Carries == \A o \in Owners : compactions'[o].phase = "summary" => compactions'[o] = compactions[o]

\* Messages join the transcript, and its last answer leaves it.
LEMMA TranscriptKeeps ==
  ASSUME NEW s, TranscriptOK(s)
  PROVE  /\ \A m \in Kept : TranscriptOK(Append(s, m))
         /\ \A t \in Seq(Kept) : TranscriptOK(s \o t)
         /\ s # <<>> => TranscriptOK(Front(s))
         /\ TranscriptOK(DropLastAssistant(s))
<1>1. s \in Seq(Kept \union Summaries) /\ \A i \in 2 .. Len(s) : s[i] \in Kept
  BY DEF TranscriptOK, Branches
<1>2. ASSUME NEW t \in Seq(Kept) PROVE TranscriptOK(s \o t)
  <2>1. t \in Seq(Kept \union Summaries)
    OBVIOUS
  <2>2. s \o t \in Seq(Kept \union Summaries) /\ Len(s \o t) = Len(s) + Len(t)
        /\ \A i \in 1 .. Len(s) + Len(t) : (s \o t)[i] = IF i <= Len(s) THEN s[i] ELSE t[i - Len(s)]
    BY <1>1, <2>1, ConcatProperties
  <2>3. ASSUME NEW i \in 2 .. Len(s \o t) PROVE (s \o t)[i] \in Kept
    <3>1. i \in 1 .. Len(s) + Len(t) /\ Len(s) \in Nat /\ Len(t) \in Nat
      BY <1>1, <2>2
    <3>2. CASE i <= Len(s)
      BY <1>1, <2>2, <3>1, <3>2
    <3>3. CASE ~(i <= Len(s))
      <4>1. i - Len(s) \in 1 .. Len(t)
        BY <3>1, <3>3
      <4> QED BY <2>2, <3>1, <3>3, <4>1
    <3> QED BY <3>2, <3>3
  <2> QED BY <2>2, <2>3 DEF TranscriptOK, Branches
<1>3. ASSUME NEW m \in Kept PROVE TranscriptOK(Append(s, m))
  <2>1. <<m>> \in Seq(Kept) /\ Append(s, m) = s \o <<m>>
    BY <1>1
  <2> QED BY <1>2, <2>1
<1>4. ASSUME s # <<>> PROVE TranscriptOK(Front(s))
  BY <1>1, <1>4 DEF TranscriptOK, Front, Branches
<1>5. TranscriptOK(DropLastAssistant(s))
  BY <1>4 DEF DropLastAssistant
<1> QED BY <1>2, <1>3, <1>4, <1>5

\* A message joins those to be saved, and one is handled.
LEMMA ToSaveKeeps ==
  ASSUME events \in Seq(Events), ToSaveOK(events)
  PROVE  /\ \A e \in Events : Emit(e) /\ (e.type = "message" => e.msg \in Kept) => ToSaveOK(events')
         /\ events # <<>> => ToSaveOK(Tail(events))
<1>1. ASSUME NEW e \in Events, Emit(e), e.type = "message" => e.msg \in Kept PROVE ToSaveOK(events')
  BY <1>1 DEF Emit, ToSaveOK
<1>2. ASSUME events # <<>> PROVE ToSaveOK(Tail(events))
  <2>1. Tail(events) \in Seq(Events) /\ \A i \in DOMAIN Tail(events) :
          i + 1 \in DOMAIN events /\ Tail(events)[i] = events[i + 1]
    BY <1>2
  <2> QED BY <2>1 DEF ToSaveOK
<1> QED BY <1>1, <1>2

\* The branch stays as it is.
LEMMA BranchKept ==
  ASSUME BranchOK, UNCHANGED entries, lastAssistant' \in {lastAssistant, None}, Carries
  PROVE  BranchOK'
BY DEF BranchOK, LastOK, KeepsOK, Carries

\* Messages join the branch.
LEMMA BranchExtends ==
  ASSUME BranchOK, NEW t \in Seq(Kept), entries' = entries \o t, Carries
  PROVE  /\ Whole(entries)' /\ KeepsOK'
         /\ t \in Seq(Asked) /\ UNCHANGED lastAssistant => LastOK'
<1> DEFINE N == Len(entries)
<1>1. /\ entries \in Seq(Kept \union Summaries) /\ t \in Seq(Kept \union Summaries)
      /\ \A i \in DOMAIN entries : entries[i] \in Summaries =>
           entries[i].ref \in 1 .. i - 1 /\ entries[entries[i].ref] \in Kept
  BY DEF BranchOK, Whole, Branches
<1>2. entries' \in Seq(Kept \union Summaries) /\ Len(entries') = N + Len(t)
        /\ \A i \in 1 .. N + Len(t) : entries'[i] = IF i <= N THEN entries[i] ELSE t[i - N]
  BY <1>1, ConcatProperties
<1>3. /\ N \in Nat /\ Len(t) \in Nat /\ DOMAIN entries = 1 .. N /\ DOMAIN entries' = 1 .. N + Len(t)
      /\ \A i \in 1 .. N : i \in 1 .. N + Len(t) /\ entries'[i] = entries[i]
  BY <1>1, <1>2
<1>4. ASSUME NEW i \in DOMAIN entries', ~(i <= N)
      PROVE  i - N \in 1 .. Len(t) /\ entries'[i] = t[i - N]
  BY <1>2, <1>3, <1>4
<1>5. \A i \in DOMAIN entries' : i > N => entries'[i] \in Kept
  BY <1>3, <1>4
<1> HIDE DEF N
<1>6. Whole(entries)'
  <2>1. ASSUME NEW i \in DOMAIN entries', entries'[i] \in Summaries
        PROVE  entries'[i].ref \in 1 .. i - 1 /\ entries'[entries'[i].ref] \in Kept
    <3>1. i \in 1 .. N
      BY <1>3, <1>5, <2>1, Kinds
    <3>2. entries[i].ref \in 1 .. i - 1 /\ entries[entries[i].ref] \in Kept /\ entries'[i] = entries[i]
      BY <1>1, <1>3, <2>1, <3>1
    <3>3. entries[i].ref \in 1 .. N
      BY <1>3, <3>1, <3>2
    <3> QED BY <1>3, <3>2, <3>3
  <2> QED BY <1>2, <2>1 DEF Whole, Branches
<1>7. KeepsOK'
  BY <1>3 DEF BranchOK, KeepsOK, Carries
<1>8. ASSUME t \in Seq(Asked), UNCHANGED lastAssistant PROVE LastOK'
  <2>1. \A i \in DOMAIN entries' : i > N => entries'[i] \notin Assistants
    <3>1. \A i \in 1 .. Len(t) : t[i] \in Asked
      BY <1>8
    <3>2. Asked \cap Assistants = {}
      BY DEF Asked, Assistants
    <3> QED BY <1>3, <1>4, <3>1, <3>2
  <2>2. ASSUME NEW k \in DOMAIN entries, IsLast(entries, Assistants, k), lastAssistant = entries[k]
        PROVE  k \in DOMAIN entries' /\ IsLast(entries, Assistants, k)' /\ lastAssistant' = entries'[k]
    BY <1>3, <1>8, <2>1, <2>2 DEF IsLast
  <2> QED BY <1>8, <2>2 DEF BranchOK, LastOK
<1> QED BY <1>6, <1>7, <1>8

\* Every operation keeps what is on its way, the transcript and the branch.
LEMMA KindStep ==
  ASSUME FlowOK, KindInv, [Next]_vars
  PROVE  KindInv'
<1>a. /\ events \in Seq(Events) /\ compactions \in [Owners -> Compactions] /\ nextId \in Nat
      /\ entries \in Seq(Messages) /\ pendingBash \in Seq(Commands) /\ reply \in Messages
  BY DEF FlowOK
<1>b. /\ inbox \in Seq(Asked) /\ queued \in Seq(Asked) /\ pendingBash \in Seq(Asked)
      /\ ToSaveOK(events) /\ (run \in {"asking", "ending"} => reply \in Answers)
      /\ TranscriptOK(transcript) /\ BranchOK
  BY DEF KindInv, WaitingOK
<1>c. 0 \in Owners /\ Manual \in Owners /\ Callers \subseteq Owners
  BY BoundsAssumption DEF Owners, Manual, Callers
<1>d. /\ User(nextId) \in Asked /\ Msg("bash", nextId, "none", 0) \in Asked
      /\ \A stop \in {"none", "stop", "full", "aborted", "aborted full", "error", "overflow", "fatal"} :
           Assistant(nextId, stop) \in Answers
  BY <1>a DEF User, Assistant, Msg, Asked, Answers, Messages, Failures
<1>e. /\ Asked \subseteq Kept /\ Answers \subseteq Kept /\ Kept \subseteq Messages
      /\ pendingBash \in Seq(Kept)
  BY <1>b, Kinds
<1>f. ASSUME NEW o \in Owners, NEW v, compactions' = Started(o, v, compactions) PROVE Carries
  BY <1>a, <1>f DEF Started, Carries, Compactions
<1>g. ASSUME NEW o \in Owners, NEW v, NEW ms, TranscriptOK(ms), CheckCompaction(o, v, ms)
      PROVE  TranscriptOK(transcript') /\ Carries
  BY <1>f, <1>g, TranscriptKeeps DEF CheckCompaction
<1>h. ASSUME NEW o \in Owners, compactions' = [compactions EXCEPT ![o] = NoCompaction] PROVE Carries
  BY <1>a, <1>h DEF NoCompaction, Carries
<1>i. UNCHANGED compactions => Carries
  BY DEF Carries
<1>k. UNCHANGED <<entries, lastAssistant>> /\ Carries => BranchOK'
  BY <1>b, BranchKept
<1>m. \A m \in Asked : MessageEvent(m).type = "message" /\ MessageEvent(m).msg = m
  BY DEF MessageEvent
<1>w. UNCHANGED <<inbox, queued, pendingBash, events, run, reply>> => WaitingOK'
  BY <1>b DEF WaitingOK
<1>1. CASE RunInject
  <2>1. Head(inbox) \in Asked /\ Tail(inbox) \in Seq(Asked) /\ inbox # <<>>
    BY <1>b, <1>1, Sequences DEF RunInject
  <2>2. Head(inbox) \in Spoken
    <3>1. Head(inbox) \in UserMessages
      BY <1>1, Sequences DEF RunInject, FlowOK
    <3> QED BY <3>1 DEF UserMessages, Spoken
  <2>3. MessageEvent(Head(inbox)) \in Events /\ MessageEvent(Head(inbox)).msg = Head(inbox)
    BY <2>2 DEF MessageEvent, Events
  <2>4. ToSaveOK(events')
    BY <1>1, <1>a, <1>b, <1>e, <2>1, <2>3, ToSaveKeeps DEF RunInject
  <2>5. TranscriptOK(transcript')
    BY <1>1, <1>b, <1>e, <2>1, TranscriptKeeps DEF RunInject
  <2>6. WaitingOK'
    BY <1>1, <1>b, <2>1, <2>4 DEF RunInject, WaitingOK
  <2>7. BranchOK'
    BY <1>1, <1>i, <1>k DEF RunInject
  <2> QED BY <2>5, <2>6, <2>7 DEF KindInv
<1>2. CASE RunAsk
  <2>1. WaitingOK'
    BY <1>2, <1>b, <1>d DEF RunAsk, WaitingOK
  <2>2. BranchOK'
    BY <1>2, <1>i, <1>k DEF RunAsk
  <2> QED BY <1>2, <1>b, <2>1, <2>2 DEF RunAsk, KindInv
<1>3. ASSUME NEW stop \in Stops, RunReply(stop) PROVE KindInv'
  <2> DEFINE m == [reply EXCEPT !.stop = stop]
  <2>1. m \in Answers /\ m \in Kept
    <3>1. /\ stop \in Failures \union {"none", "stop", "full", "aborted", "aborted full"}
          /\ stop = "silent" => "silent" \in Outcomes
      BY <1>3, KindsAssumption DEF Stops, Failures
    <3>2. reply \in Answers
      BY <1>3, <1>b DEF RunReply
    <3> QED BY <1>e, <3>1, <3>2 DEF Answers, Messages, Failures
  <2>2. /\ transcript' = Append(transcript, m) /\ reply' = m /\ Emit(MessageEvent(m))
        /\ UNCHANGED <<entries, lastAssistant, compactions, pendingBash>>
        /\ inbox' \in {inbox, queued} /\ queued' \in {queued, <<>>}
    BY <1>3 DEF RunReply
  <2> HIDE DEF m
  <2>3. MessageEvent(m) \in Events /\ MessageEvent(m).msg = m
    BY <2>1 DEF MessageEvent, Events, Answers, Spoken
  <2>4. ToSaveOK(events')
    BY <1>a, <1>b, <2>1, <2>2, <2>3, ToSaveKeeps
  <2>5. TranscriptOK(transcript')
    BY <1>b, <2>1, <2>2, TranscriptKeeps
  <2>6. WaitingOK'
    <3>1. inbox' \in Seq(Asked) /\ queued' \in Seq(Asked)
      <4>1. <<>> \in Seq(Asked)
        OBVIOUS
      <4> QED BY <1>b, <2>2, <4>1, Zenon
    <3> QED BY <1>b, <2>1, <2>2, <2>4, <3>1 DEF WaitingOK
  <2>7. BranchOK'
    BY <1>i, <1>k, <2>2
  <2> QED BY <2>5, <2>6, <2>7 DEF KindInv
<1>4. CASE RunEnd
  <2>1. AgentEnd(reply) \in Events /\ AgentEnd(reply).type # "message"
    BY <1>4, <1>a, <1>b DEF RunEnd, AgentEnd, Events, Answers, Spoken
  <2>2. ToSaveOK(events')
    BY <1>4, <1>a, <1>b, <2>1, ToSaveKeeps DEF RunEnd
  <2>3. WaitingOK'
    BY <1>4, <1>b, <2>2 DEF RunEnd, WaitingOK
  <2>4. BranchOK'
    BY <1>4, <1>i, <1>k DEF RunEnd
  <2> QED BY <1>4, <1>b, <2>3, <2>4 DEF RunEnd, KindInv
<1>5. ASSUME NEW stop \in Throws, RunThrow(stop) PROVE KindInv'
  <2> DEFINE m == Assistant(nextId, IF stopping THEN "aborted" ELSE stop)
  <2>1. m \in Answers /\ m \in Kept
    <3>1. stop \in {"error", "fatal"}
      BY <1>5, KindsAssumption
    <3> QED BY <1>d, <1>e, <3>1
  <2>2. /\ transcript' = Append(transcript, m) /\ reply' = m /\ Emit(AgentEnd(m)) /\ run' = "off"
        /\ UNCHANGED <<entries, lastAssistant, compactions, pendingBash, inbox, queued>>
    BY <1>5 DEF RunThrow
  <2> HIDE DEF m
  <2>3. AgentEnd(m) \in Events /\ AgentEnd(m).type # "message"
    BY <2>1 DEF AgentEnd, Events, Answers, Spoken
  <2>4. ToSaveOK(events')
    BY <1>a, <1>b, <2>2, <2>3, ToSaveKeeps
  <2>5. TranscriptOK(transcript')
    BY <1>b, <2>1, <2>2, TranscriptKeeps
  <2>6. WaitingOK'
    BY <1>b, <2>2, <2>4 DEF WaitingOK
  <2>7. BranchOK'
    BY <1>i, <1>k, <2>2
  <2> QED BY <2>5, <2>6, <2>7 DEF KindInv
<1>6. CASE SaveMessage
  <2> DEFINE m == Head(events).msg
  <2>1. /\ events # <<>> /\ Head(events).type = "message" /\ events' = Tail(events)
        /\ entries' = Append(entries, m) /\ lastAssistant' = IF IsAssistant(m) THEN m ELSE lastAssistant
        /\ UNCHANGED <<compactions, transcript, inbox, queued, pendingBash, run, reply>>
    BY <1>6 DEF SaveMessage, agentVars, runVars
  <2>2. m \in Kept
    <3>1. 1 \in DOMAIN events /\ events[1] = Head(events)
      BY <1>a, <2>1
    <3> QED BY <1>b, <2>1, <3>1 DEF ToSaveOK
  <2> HIDE DEF m
  <2>3. ToSaveOK(events')
    BY <1>a, <1>b, <2>1, ToSaveKeeps
  <2>4. <<m>> \in Seq(Kept) /\ entries' = entries \o <<m>>
    <3>1. Append(entries, m) = entries \o <<m>>
      BY <1>a, <1>e, <2>2
    <3> QED BY <2>1, <2>2, <3>1
  <2>5. Whole(entries)' /\ KeepsOK'
    BY <1>b, <1>i, <2>1, <2>4, BranchExtends
  <2>6. CASE IsAssistant(m)
    <3>1. /\ Len(entries) + 1 \in DOMAIN entries' /\ entries'[Len(entries) + 1] = m
          /\ \A j \in DOMAIN entries' : ~(Len(entries) + 1 < j)
      BY <1>a, <2>1
    <3>2. m \in Assistants
      BY <1>e, <2>2, <2>6 DEF Assistants, IsAssistant
    <3>3. LastOK'
      <4> DEFINE n == Len(entries) + 1
      <4>1. n \in DOMAIN entries' /\ lastAssistant' = entries'[n]
        BY <2>1, <2>6, <3>1
      <4>2. \A j \in DOMAIN entries' : n < j => entries'[j] \notin Assistants
        BY <3>1
      <4> HIDE DEF n
      <4> QED BY <2>1, <2>6, <3>1, <3>2, <4>1, <4>2 DEF LastOK, IsLast
    <3> QED BY <1>b, <2>1, <2>3, <2>5, <3>3 DEF KindInv, WaitingOK, BranchOK
  <2>7. CASE ~IsAssistant(m)
    <3>1. m \in Asked
      BY <2>2, <2>7, Kinds DEF Kept
    <3>2. LastOK'
      <4>1. <<m>> \in Seq(Asked) /\ UNCHANGED lastAssistant
        BY <2>1, <2>7, <3>1
      <4> QED BY <1>b, <1>i, <2>1, <2>4, <4>1, BranchExtends
    <3> QED BY <1>b, <2>1, <2>3, <2>5, <3>2 DEF KindInv, WaitingOK, BranchOK
  <2> QED BY <2>6, <2>7
<1>n. ASSUME events # <<>>, events' = Tail(events), lastAssistant' \in {lastAssistant, None}, Carries,
             UNCHANGED <<entries, inbox, queued, pendingBash, run, reply>>, TranscriptOK(transcript')
      PROVE  KindInv'
  <2>1. ToSaveOK(events')
    BY <1>a, <1>b, <1>n, ToSaveKeeps
  <2>2. BranchOK'
    BY <1>b, <1>n, BranchKept
  <2> QED BY <1>b, <1>n, <2>1, <2>2 DEF KindInv, WaitingOK
<1>7. CASE EndUnanswered
  <2>1. /\ events # <<>> /\ events' = Tail(events)
        /\ UNCHANGED <<entries, inbox, queued, pendingBash, run, reply, transcript, compactions, lastAssistant>>
    BY <1>7 DEF EndUnanswered, agentVars, runVars
  <2> QED BY <1>b, <1>i, <1>n, <2>1
<1>8. CASE EndBacksOff
  <2>1. /\ events # <<>> /\ events' = Tail(events) /\ lastAssistant' = None
        /\ UNCHANGED <<entries, inbox, queued, pendingBash, run, reply, compactions>>
        /\ transcript' = DropLastAssistant(transcript)
    BY <1>8 DEF EndBacksOff, EndOfRun, runVars
  <2> QED BY <1>b, <1>i, <1>n, <2>1, TranscriptKeeps
<1>9. CASE EndChecks
  <2> DEFINE v == Verdict(lastAssistant, TRUE)
  <2>1. /\ events # <<>> /\ events' = Tail(events) /\ lastAssistant' = None
        /\ UNCHANGED <<entries, inbox, queued, pendingBash, run, reply>>
        /\ CheckCompaction(0, v, transcript)
    BY <1>9 DEF EndChecks, EndOfRun, CheckAfterRun, runVars, EventHandler
  <2> HIDE DEF v
  <2>2. TranscriptOK(transcript') /\ Carries
    BY <1>b, <1>c, <1>g, <2>1
  <2> QED BY <1>n, <2>1, <2>2
<1>p. ASSUME UNCHANGED <<inbox, queued, pendingBash, events, run, reply, entries, lastAssistant, transcript>>,
             Carries
      PROVE  KindInv'
  BY <1>b, <1>k, <1>p, <1>w DEF KindInv
<1>10. CASE BackoffEnds \/ ManualReady \/ UNCHANGED vars
  <2>1. CASE BackoffEnds \/ UNCHANGED vars
    BY <1>i, <1>p, <2>1 DEF BackoffEnds, agentVars, runVars, vars
  <2>2. CASE ManualReady
    BY <1>c, <1>f, <1>p, <2>2 DEF ManualReady, agentVars, runVars
  <2> QED BY <1>10, <2>1, <2>2
<1>q. ASSUME NEW ms \in Seq(Asked), Begin(ms), queued' \in Seq(Asked),
             UNCHANGED <<pendingBash, events, entries, lastAssistant, transcript, compactions>>
      PROVE  KindInv'
  <2>1. inbox' = ms /\ run' = "on"
    BY <1>q DEF Begin
  <2>2. WaitingOK'
    BY <1>b, <1>q, <2>1 DEF WaitingOK
  <2> QED BY <1>b, <1>i, <1>k, <1>q, <2>2 DEF KindInv
<1>11. CASE TimerFires
  <2>1. UNCHANGED <<pendingBash, events, entries, lastAssistant, transcript, compactions>>
    BY <1>11 DEF TimerFires
  <2>2. <<>> \in Seq(Asked)
    OBVIOUS
  <2>3. \/ Begin(<<>>) /\ UNCHANGED queued
        \/ Begin(queued) /\ queued' = <<>>
        \/ UNCHANGED <<runVars, queued>>
    BY <1>11 DEF TimerFires
  <2>4. CASE Begin(<<>>) /\ UNCHANGED queued
    BY <1>b, <1>q, <2>1, <2>2, <2>4
  <2>5. CASE Begin(queued) /\ queued' = <<>>
    BY <1>b, <1>q, <2>1, <2>2, <2>5
  <2>6. CASE UNCHANGED <<runVars, queued>>
    BY <1>i, <1>p, <2>1, <2>6 DEF runVars
  <2> QED BY <2>3, <2>4, <2>5, <2>6
<1>12. ASSUME NEW o \in Owners, Compaction(o) PROVE KindInv'
  <2>1. CASE Prepare(o)
    <3>1. UNCHANGED <<inbox, queued, pendingBash, events, run, reply, entries, lastAssistant, transcript>>
      BY <2>1 DEF Prepare, agentVars, runVars
    <3>2. CASE compactions' = [compactions EXCEPT ![o] = NoCompaction]
      BY <1>h, <1>p, <3>1, <3>2
    <3>3. CASE /\ LastOf(entries).role \notin {"none", "compaction"}
               /\ compactions' = [compactions EXCEPT ![o].phase = "summary", ![o].keep = Len(entries)]
      <4>1. /\ compactions'[o].keep = Len(entries)
            /\ \A p \in Owners : p # o => compactions'[p] = compactions[p]
        BY <1>a, <3>3 DEF Compactions
      <4>2. Len(entries) \in DOMAIN entries /\ entries[Len(entries)] \in Kept
        <5>1. entries # <<>>
          BY <3>3 DEF LastOf, None, Msg
        <5>2. Len(entries) \in DOMAIN entries /\ LastOf(entries) = entries[Len(entries)]
          BY <1>a, <5>1 DEF LastOf
        <5>3. entries \in Seq(Kept \union Summaries)
          BY <1>b DEF BranchOK, Whole, Branches
        <5>4. entries[Len(entries)] \in Kept \union Summaries
          BY <5>2, <5>3
        <5> QED BY <3>3, <5>2, <5>4 DEF Summaries
      <4>3. KeepsOK'
        BY <1>b, <3>1, <4>1, <4>2 DEF KeepsOK, BranchOK
      <4>4. BranchOK'
        BY <1>b, <3>1, <4>3 DEF BranchOK, LastOK
      <4> QED BY <1>b, <1>w, <3>1, <4>4 DEF KindInv
    <3> QED BY <2>1, <3>2, <3>3 DEF Prepare
  <2>2. CASE FinishCompaction(o)
    <3> DEFINE c == compactions[o]
               m == Msg("compaction", nextId, IF c.retry THEN "overflow" ELSE "none", c.keep)
               es == Append(entries, m)
    <3>1. /\ c.phase = "summary" /\ entries' = es
          /\ transcript' = IF c.retry /\ IsError(LastOf(Context(es))) THEN Front(Context(es))
                           ELSE Context(es)
          /\ compactions' = [compactions EXCEPT ![o] = NoCompaction]
          /\ UNCHANGED <<inbox, queued, pendingBash, events, run, reply, lastAssistant>>
      BY <2>2 DEF FinishCompaction, runVars
    <3>2. m \in Summaries /\ m.ref = c.keep
      BY <1>a DEF Msg, Summaries, Messages, Compactions, Failures
    <3>3. m.ref \in DOMAIN entries /\ entries[m.ref] \in Kept /\ Whole(entries)
      BY <1>b, <3>1, <3>2 DEF BranchOK, KeepsOK
    <3> HIDE DEF m
    <3>4. Whole(es) /\ TranscriptOK(Context(es)) /\ Context(es) # <<>>
      BY <3>2, <3>3, ContextSummary DEF TranscriptOK
    <3>5. TranscriptOK(transcript')
      BY <3>1, <3>4, TranscriptKeeps
    <3>6. /\ DOMAIN entries \subseteq DOMAIN es /\ \A i \in DOMAIN entries : es[i] = entries[i]
          /\ \A i \in DOMAIN es : i \notin DOMAIN entries => es[i] = m
      BY <1>a
    <3>7. KeepsOK'
      BY <1>a, <1>b, <1>h, <3>1, <3>6 DEF KeepsOK, BranchOK, Carries
    <3>8. LastOK'
      <4>1. m \notin Assistants
        BY <3>2 DEF Summaries, Assistants
      <4>2. ASSUME NEW k \in DOMAIN entries, IsLast(entries, Assistants, k), lastAssistant = entries[k]
            PROVE  k \in DOMAIN entries' /\ IsLast(entries, Assistants, k)' /\ lastAssistant' = entries'[k]
        BY <3>1, <3>6, <4>1, <4>2 DEF IsLast
      <4> QED BY <1>b, <3>1, <4>2 DEF BranchOK, LastOK
    <3> QED BY <1>w, <3>1, <3>4, <3>5, <3>7, <3>8 DEF KindInv, BranchOK
  <2>3. CASE FailCompaction(o)
    BY <1>h, <1>p, <2>3 DEF FailCompaction, agentVars, runVars
  <2> QED BY <1>12, <2>1, <2>2, <2>3 DEF Compaction
<1>r. ASSUME NEW p \in Seq(Asked), entries' = entries \o p, TranscriptOK(transcript'), Carries,
             UNCHANGED <<inbox, queued, events, run, reply, lastAssistant>>, pendingBash' \in Seq(Asked)
      PROVE  KindInv'
  <2>1. p \in Seq(Kept)
    BY <1>e, <1>r
  <2>2. BranchOK'
    BY <1>b, <1>r, <2>1, BranchExtends DEF BranchOK
  <2> QED BY <1>b, <1>r, <2>2 DEF KindInv, WaitingOK
<1>13. ASSUME NEW c \in Callers, PromptCalled(c) \/ Prompt(c) PROVE KindInv'
  <2>0. <<>> \in Seq(Asked) /\ c \in Owners
    BY <1>c
  <2>1. CASE PromptCalled(c) \/ PromptRejected(c) \/ PromptWaits(c)
    BY <1>i, <1>p, <2>1 DEF PromptCalled, PromptRejected, PromptWaits, agentVars, runVars
  <2>2. CASE PromptQueues(c)
    <3>1. queued' \in Seq(Asked)
      BY <1>b, <1>d, <2>2, Sequences DEF PromptQueues
    <3>2. WaitingOK'
      BY <1>b, <2>2, <3>1 DEF PromptQueues, WaitingOK, runVars
    <3>3. BranchOK'
      BY <1>i, <1>k, <2>2 DEF PromptQueues
    <3> QED BY <1>b, <2>2, <3>2, <3>3 DEF PromptQueues, KindInv
  <2>3. CASE PromptChecks(c)
    <3> DEFINE v == Verdict(LastWhere(transcript, IsAssistant), FALSE)
    <3>1. /\ CheckCompaction(c, v, transcript \o pendingBash) /\ entries' = entries \o pendingBash
          /\ pendingBash' = <<>> /\ UNCHANGED <<inbox, queued, events, run, reply, lastAssistant>>
      BY <2>3 DEF PromptChecks, FlushPendingBash, runVars
    <3> HIDE DEF v
    <3>2. TranscriptOK(transcript \o pendingBash)
      BY <1>b, <1>e, TranscriptKeeps
    <3>3. TranscriptOK(transcript') /\ Carries
      BY <1>g, <2>0, <3>1, <3>2
    <3> QED BY <1>b, <1>r, <2>0, <3>1, <3>3
  <2>4. CASE PromptRefused(c)
    <3>1. /\ transcript' = transcript \o pendingBash /\ entries' = entries \o pendingBash
          /\ pendingBash' = <<>> /\ UNCHANGED <<inbox, queued, events, run, reply, lastAssistant, compactions>>
      BY <2>4 DEF PromptRefused, FlushPendingBash, runVars
    <3>2. TranscriptOK(transcript')
      BY <1>b, <1>e, <3>1, TranscriptKeeps
    <3> QED BY <1>b, <1>i, <1>r, <2>0, <3>1, <3>2
  <2>5. CASE PromptRuns(c)
    <3>1. <<User(nextId)>> \in Seq(Asked)
      <4> DEFINE m == User(nextId)
      <4>1. m \in Asked
        BY <1>d
      <4> HIDE DEF m
      <4>2. <<m>> \in Seq(Asked)
        BY <4>1
      <4> QED BY <4>2 DEF m
    <3> QED BY <1>b, <1>q, <2>5, <3>1 DEF PromptRuns
  <2> QED BY <1>13, <2>1, <2>2, <2>3, <2>4, <2>5 DEF Prompt
<1>14. CASE Queue
  <2>1. queued' \in Seq(Asked)
    BY <1>b, <1>d, <1>14, Sequences DEF Queue
  <2>2. WaitingOK'
    BY <1>b, <1>14, <2>1 DEF Queue, WaitingOK, runVars
  <2>3. BranchOK'
    BY <1>i, <1>k, <1>14 DEF Queue
  <2> QED BY <1>b, <1>14, <2>2, <2>3 DEF Queue, KindInv
<1>15. CASE RecordBash
  <2> DEFINE m == Msg("bash", nextId, "none", 0)
  <2>1. UNCHANGED <<inbox, queued, events, run, reply, lastAssistant, compactions>>
    BY <1>15 DEF RecordBash, runVars
  <2>2. CASE run # "off"
    <3>1. UNCHANGED <<transcript, entries>> /\ pendingBash' = Append(pendingBash, m)
      BY <1>15, <2>2 DEF RecordBash
    <3> HIDE DEF m
    <3>2. pendingBash' \in Seq(Asked)
      BY <1>b, <1>d, <3>1, Sequences DEF m
    <3>3. WaitingOK'
      BY <1>b, <2>1, <3>2 DEF WaitingOK
    <3> QED BY <1>b, <1>i, <1>k, <2>1, <3>1, <3>3 DEF KindInv
  <2>3. CASE run = "off"
    <3>1. /\ transcript' = Append(transcript, m) /\ entries' = Append(entries, m)
          /\ UNCHANGED pendingBash
      BY <1>15, <2>3 DEF RecordBash
    <3> HIDE DEF m
    <3>2. m \in Asked /\ m \in Kept
      BY <1>d, <1>e DEF m
    <3>3. <<m>> \in Seq(Asked) /\ entries' = entries \o <<m>>
      BY <1>a, <3>1, <3>2
    <3>4. TranscriptOK(transcript')
      BY <1>b, <3>1, <3>2, TranscriptKeeps
    <3> QED BY <1>b, <1>i, <1>r, <2>1, <3>1, <3>3, <3>4
  <2> QED BY <2>2, <2>3
<1>16. CASE Abort \/ ManualCompaction
  <2>1. /\ UNCHANGED <<inbox, queued, pendingBash, events, run, reply, entries, lastAssistant>>
        /\ AbortRetry
    BY <1>16 DEF Abort, ManualCompaction
  <2>2. TranscriptOK(transcript') /\ Carries
    <3>1. CASE handling = "backoff"
      <4> DEFINE v == Verdict(LastWhere(entries, IsAssistant), TRUE)
      <4>1. CheckCompaction(0, v, transcript)
        BY <2>1, <3>1 DEF AbortRetry, CheckAfterRun, EventHandler
      <4> HIDE DEF v
      <4> QED BY <1>b, <1>c, <1>g, <4>1
    <3>2. CASE handling # "backoff"
      BY <1>b, <1>i, <2>1, <3>2 DEF AbortRetry
    <3> QED BY <3>1, <3>2
  <2> QED BY <1>k, <1>w, <2>1, <2>2 DEF KindInv
<1> QED
  BY <1>1, <1>2, <1>3, <1>4, <1>5, <1>6, <1>7, <1>8, <1>9, <1>10, <1>11, <1>12, <1>13, <1>14,
     <1>15, <1>16 DEF Next, Running, Handler

----------------------------------------------------------------------------
(* The conversation *)

\* The branch as it will be when everything is saved.
Conversation == entries \o Unsaved(events)
\* The run is about to ask, or waits for the answer.
Asking == run = "asking" \/ (run = "on" /\ inbox = <<>>)

\* Until the session and the agent change the conversation at the same time: the transcript shows
\* what a reload and the messages to be saved show, something is asked between two answers, and
\* behind the last before the next.
ConvInv ==
  ~overtaken =>
    /\ Agrees(transcript, entries, Unsaved(events))
    /\ Turns(Conversation)
    /\ Asking => Open(Conversation)

\* A message joins the conversation, and is saved in its place.
LEMMA ConversationMoves ==
  ASSUME NEW es \in Branches, NEW u \in Seq(Kept), NEW m \in Kept
  PROVE  /\ es \o u \in Branches /\ es \o (u \o <<m>>) = Append(es \o u, m)
         /\ Append(es, m) \o u = es \o (<<m>> \o u)
         /\ es \o <<>> = es /\ u \o <<>> = u /\ <<>> \o u = u
<1> DEFINE K == Kept \union Summaries
           q == <<m>>
<1>1. es \in Seq(K) /\ u \in Seq(K) /\ q \in Seq(K)
  BY DEF Branches
<1>2. Append(es, m) = es \o q
  BY DEF Branches
<1>3. es \o u \in Seq(K)
  <2> HIDE DEF K, q
  <2> QED BY <1>1, ConcatProperties
<1>4. Append(es \o u, m) = (es \o u) \o q
  <2> DEFINE s == es \o u
  <2> HIDE DEF s, K
  <2>1. s \in Seq(K)
    BY <1>3 DEF s
  <2>2. Append(s, m) = s \o q
    BY <2>1
  <2> QED BY <2>2 DEF s
<1> HIDE DEF K, q
<1>5. es \o (u \o q) = (es \o u) \o q /\ (es \o q) \o u = es \o (q \o u)
  BY <1>1, ConcatAssociative
<1>6. es \o <<>> = es /\ u \o <<>> = u /\ <<>> \o u = u
  BY <1>1, ConcatEmptySeq
<1>7. es \o u \in Branches
  BY <1>3 DEF Branches, K
<1>8. es \o (u \o <<m>>) = Append(es \o u, m)
  BY <1>4, <1>5 DEF q
<1>9. Append(es, m) \o u = es \o (<<m>> \o u)
  BY <1>2, <1>5 DEF q
<1> QED BY <1>6, <1>7, <1>8, <1>9

\* The last message is shown: it is the last that is shown.
LEMMA LastShown ==
  ASSUME NEW s \in Branches, s # <<>>, IsShown(LastOf(s))
  PROVE  Shown(s) # <<>> /\ LastOf(Shown(s)) = LastOf(s)
<1> DEFINE m == s[Len(s)]
           V == {x \in Messages : IsShown(x)}
<1>1. /\ m \in Kept \union Summaries /\ Front(s) \in Seq(Kept \union Summaries)
      /\ s = Append(Front(s), m) /\ LastOf(s) = m
  BY DEF Branches, Front, LastOf
<1> HIDE DEF m
<1>2. m \in V
  BY <1>1, Kinds
<1> HIDE DEF V
<1>3. Within(s, V) = Within(Front(s), V) \o Only(m, V)
  BY <1>1, WithinAppend
<1>4. Only(m, V) = <<m>> /\ Within(Front(s), V) \in Seq(V)
  BY <1>1, <1>2, WithinIs DEF Only
<1> DEFINE w == Within(Front(s), V)
<1> HIDE DEF w
<1>5. w \o <<m>> # <<>> /\ LastOf(w \o <<m>>) = m
  BY <1>4 DEF LastOf, w
<1> QED BY <1>1, <1>3, <1>4, <1>5 DEF Shown, V, w

\* The answer at the end of the transcript may be dropped when the last that was saved is an
\* error.
LEMMA ErrorDropped ==
  ASSUME NEW t \in Branches, NEW es, Whole(es), Turns(es), Agrees(t, es, <<>>),
         NEW k \in DOMAIN es, IsLast(es, Assistants, k), ~IsShown(es[k])
  PROVE  Agrees(DropLastAssistant(t), es, <<>>)
<1>1. Shown(Context(es)) = <<>> \/ LastOf(Shown(Context(es))) \notin Answers
  BY LastHidden DEF ShownAnswers
<1>2. Shown(t) = Shown(Context(es))
  <2>1. Context(es) \in Branches
    BY ContextKind
  <2>2. Shown(<<>>) = <<>> /\ Shown(Context(es)) \in Seq(Messages)
    BY <2>1, ShownMoves
  <2> QED BY <2>2, ConcatEmptySeq DEF Agrees
<1>3. t # <<>> /\ IsAssistant(LastOf(t)) => LastOf(t) \notin ShownAnswers
  BY <1>1, <1>2, LastShown DEF ShownAnswers
<1> QED BY <1>3, DropHidden DEF Agrees

\* An overflow is no answer that is shown.
LEMMA OverflowHidden ==
  ASSUME "silent" \notin Outcomes, NEW m, m \in Kept \union Summaries \union {None}, NEW skip, Verdict(m, skip) = "overflow"
  PROVE  m # None /\ (m \in Answers => ~IsShown(m))
<1>1. m # None /\ m.stop \in {"overflow", "silent"}
  BY DEF Verdict
<1> QED BY <1>1 DEF Answers, IsShown, IsError

\* Every operation keeps them together, until the session and the agent change the conversation
\* at once.
LEMMA ConvStep ==
  ASSUME "silent" \notin Outcomes, FlowOK, KindInv, ConvInv, [Next]_vars
  PROVE  ConvInv'
<1> DEFINE u == Unsaved(events)
<1>a. /\ events \in Seq(Events) /\ nextId \in Nat /\ Whole(entries) /\ entries \in Branches
      /\ transcript \in Branches /\ inbox \in Seq(Asked) /\ pendingBash \in Seq(Asked)
      /\ ToSaveOK(events) /\ LastOK /\ overtaken \in BOOLEAN
      /\ (run \in {"asking", "ending"} => reply \in Answers)
  BY DEF FlowOK, KindInv, WaitingOK, TranscriptOK, BranchOK, Whole
<1>b. /\ u \in Seq(Kept)
      /\ \A e \in Events : Unsaved(Append(events, e)) = u \o Only(Said(e), Kept)
      /\ events # <<>> => u = Only(Said(Head(events)), Kept) \o Unsaved(Tail(events))
      /\ events # <<>> => Unsaved(Tail(events)) \in Seq(Kept)
  <2>1. events # <<>> => Tail(events) \in Seq(Events)
    BY <1>a
  <2> QED BY <1>a, <2>1, UnsavedMoves
<1>c. ~UnsavedMessages => u = <<>>
  BY <1>a, UnsavedMoves DEF UnsavedMessages
<1>d. Hidden \notin Kept /\ Asked \subseteq Kept /\ Answers \subseteq Kept
  BY Kinds DEF Hidden, Msg, Kept, Answers, Asked
<1>e. ASSUME ~overtaken
      PROVE  /\ Agrees(transcript, entries, u) /\ Turns(entries \o u)
             /\ Asking => Open(entries \o u)
  BY <1>e DEF ConvInv, Conversation
<1>f. entries \o u \in Branches /\ entries \o <<>> = entries
  BY <1>a, <1>b, <1>d, ConversationMoves, Kinds DEF Branches
<1>v. /\ \A m \in Kept : entries \o (u \o <<m>>) = Append(entries \o u, m)
      /\ \A m \in Kept, w \in Seq(Kept) : Append(entries, m) \o w = entries \o (<<m>> \o w)
  <2> HIDE DEF u
  <2>1. \A m \in Kept : entries \o (u \o <<m>>) = Append(entries \o u, m)
    <3>1. u \in Seq(Kept)
      BY <1>b
    <3> QED BY <1>a, <3>1, ConversationMoves
  <2>2. \A m \in Kept, w \in Seq(Kept) : Append(entries, m) \o w = entries \o (<<m>> \o w)
    BY <1>a, ConversationMoves, Zenon
  <2> QED BY <2>1, <2>2
\* Steps that leave the conversation alone.
<1>s. ASSUME UNCHANGED <<transcript, entries>>, Unsaved(events)' = u, overtaken => overtaken',
             ~overtaken' => (Asking' => Asking)
      PROVE  ConvInv'
  BY <1>e, <1>s DEF ConvInv, Conversation
<1>t. ASSUME UNCHANGED <<transcript, entries, events>>, overtaken => overtaken',
             ~overtaken' => (Asking' => Asking)
      PROVE  ConvInv'
  BY <1>s, <1>t
\* The end of a run is no message.
<1>g. ASSUME NEW m \in Spoken, Emit(AgentEnd(m)) PROVE Unsaved(events)' = u /\ (overtaken => overtaken')
  <2>1. AgentEnd(m) \in Events /\ Only(Said(AgentEnd(m)), Kept) = <<>>
    BY <1>d, <1>g DEF AgentEnd, Events, Said, Only
  <2>2. u \o <<>> = u
    BY <1>b, ConcatEmptySeq
  <2>3. Unsaved(Append(events, AgentEnd(m))) = u
    BY <1>b, <2>1, <2>2
  <2>4. events' = events \/ events' = Append(events, AgentEnd(m))
    BY <1>g DEF Emit
  <2>5. overtaken => overtaken'
    BY <1>g DEF Emit
  <2> QED BY <2>3, <2>4, <2>5
<1>h. ASSUME events # <<>>, Head(events).type = "agent_end"
      PROVE  Unsaved(Tail(events)) = u
  <2>1. Only(Said(Head(events)), Kept) = <<>>
    BY <1>d, <1>h DEF Said, Only
  <2>2. <<>> \o Unsaved(Tail(events)) = Unsaved(Tail(events))
    BY <1>b, <1>h, ConcatEmptySeq
  <2> QED BY <1>b, <1>h, <2>1, <2>2
\* A message of the run is emitted.
<1>i. ASSUME NEW m \in Kept, m \in Spoken, Emit(MessageEvent(m))
      PROVE  /\ overtaken => overtaken'
             /\ connected => Unsaved(events)' = u \o <<m>>
             /\ ~connected => Unsaved(events)' = u
             /\ ~overtaken' => connected \/ ~IsShown(m)
  <2>1. MessageEvent(m) \in Events /\ Said(MessageEvent(m)) = m /\ Only(m, Kept) = <<m>>
        /\ MessageEvent(m).type = "message" /\ MessageEvent(m).msg = m
    BY <1>i DEF MessageEvent, Events, Said, Only
  <2>2. Unsaved(Append(events, MessageEvent(m))) = u \o <<m>>
    BY <1>b, <2>1
  <2>3. connected => Unsaved(events)' = u \o <<m>>
    BY <1>i, <2>2 DEF Emit
  <2>4. ~connected => Unsaved(events)' = u
    BY <1>i DEF Emit
  <2>5. (overtaken => overtaken') /\ (~overtaken' => connected \/ ~IsShown(m))
    BY <1>i, <2>1 DEF Emit
  <2> QED BY <2>3, <2>4, <2>5
<1> HIDE DEF u
\* The last answer is dropped, with nothing to be saved.
<1>j. ASSUME ~overtaken, u = <<>>, NEW k \in DOMAIN entries, IsLast(entries, Assistants, k),
             ~IsShown(entries[k])
      PROVE  Agrees(DropLastAssistant(transcript), entries, <<>>) /\ Turns(entries)
  <2>1. Agrees(transcript, entries, <<>>) /\ Turns(entries)
    BY <1>e, <1>f, <1>j
  <2> QED BY <1>a, <1>j, <2>1, ErrorDropped
\* A check for compaction after a run: of the last answer of the branch.
<1>k. ASSUME NEW o, NEW v, NEW k \in DOMAIN entries, CheckCompaction(o, v, transcript),
             UNCHANGED <<entries, run>>, Unsaved(events)' = u,
             v = "overflow" => IsLast(entries, Assistants, k) /\ ~IsShown(entries[k]),
             overtaken' = (overtaken \/ (v = "overflow" /\ Overtakes)),
             ~overtaken' => (Asking' => Asking)
      PROVE  ConvInv'
  <2>1. CASE v # "overflow"
    <3>1. UNCHANGED transcript
      BY <1>k, <2>1 DEF CheckCompaction
    <3> QED BY <1>k, <1>s, <2>1, <3>1
  <2>2. CASE v = "overflow"
    <3> SUFFICES ASSUME ~overtaken'
                 PROVE  Agrees(transcript', entries', Unsaved(events)') /\ Turns(Conversation') /\ ~Asking'
      BY DEF ConvInv
    <3>1. ~overtaken /\ run = "off" /\ u = <<>>
      BY <1>a, <1>c, <1>k, <2>2 DEF Overtakes
    <3>2. transcript' = DropLastAssistant(transcript)
      BY <1>k, <2>2 DEF CheckCompaction
    <3>3. Agrees(DropLastAssistant(transcript), entries, <<>>) /\ Turns(entries)
      BY <1>j, <1>k, <2>2, <3>1
    <3>4. Conversation' = entries
      BY <1>f, <1>k, <3>1 DEF Conversation
    <3> QED BY <1>k, <3>1, <3>2, <3>3, <3>4 DEF Asking
  <2> QED BY <2>1, <2>2
<1>1. CASE RunInject
  <2> DEFINE m == Head(inbox)
  <2>1. m \in Asked /\ m \in Kept /\ m \in Spoken
    <3>1. inbox # <<>> /\ inbox \in Seq(UserMessages)
      BY <1>1 DEF RunInject, FlowOK
    <3>2. m \in UserMessages /\ m \in Asked
      BY <1>a, <3>1
    <3> QED BY <1>d, <3>2 DEF UserMessages, Spoken
  <2>2. transcript' = Append(transcript, m) /\ Emit(MessageEvent(m)) /\ UNCHANGED <<entries, connected>>
    BY <1>1 DEF RunInject
  <2> HIDE DEF m
  <2>3. IsShown(m)
    BY <2>1, Kinds DEF Visible
  <2> SUFFICES ASSUME ~overtaken'
               PROVE  Agrees(transcript', entries', Unsaved(events)') /\ Turns(Conversation')
                      /\ Open(Conversation')
    BY DEF ConvInv
  <2>4. ~overtaken /\ Unsaved(events)' = u \o <<m>>
    BY <1>i, <2>1, <2>2, <2>3
  <2>5. Agrees(Append(transcript, m), entries, u \o <<m>>)
    BY <1>a, <1>b, <1>e, <2>1, <2>4, AgreesSaid
  <2>6. Conversation' = Append(entries \o u, m)
    BY <1>v, <2>1, <2>2, <2>4, Zenon DEF Conversation
  <2>7. Turns(Append(entries \o u, m)) /\ Open(Append(entries \o u, m))
    <3>1. m \notin Answers
      BY <2>1, Kinds
    <3> QED BY <1>e, <1>f, <2>1, <2>4, <3>1, TurnsAppend
  <2> QED BY <2>2, <2>4, <2>5, <2>6, <2>7
<1>2. CASE RunAsk
  BY <1>2, <1>t DEF RunAsk, Asking, ghostVars
<1>3. ASSUME NEW stop \in Stops, RunReply(stop) PROVE ConvInv'
  <2> DEFINE m == [reply EXCEPT !.stop = stop]
  <2>1. m \in Answers /\ m \in Kept /\ m \in Spoken
    <3>1. stop \in {"stop", "full", "aborted", "aborted full", "error", "overflow", "fatal"}
      BY <1>3, KindsAssumption DEF Stops, Failures
    <3>2. reply \in Answers
      BY <1>3, <1>a DEF RunReply
    <3>3. m \in Answers
      BY <3>1, <3>2 DEF Answers, Messages, Failures
    <3> QED BY <1>d, <3>3 DEF Answers, Spoken
  <2>2. /\ transcript' = Append(transcript, m) /\ Emit(MessageEvent(m)) /\ UNCHANGED <<entries, connected>>
        /\ run = "asking" /\ (run' = "ending" \/ (run' = "on" /\ inbox' # <<>>))
    BY <1>3 DEF RunReply
  <2> HIDE DEF m
  <2> SUFFICES ASSUME ~overtaken'
               PROVE  Agrees(transcript', entries', Unsaved(events)') /\ Turns(Conversation') /\ ~Asking'
    BY DEF ConvInv
  <2>3. ~Asking' /\ Asking
    BY <2>2 DEF Asking
  <2>4. /\ connected => Unsaved(events)' = u \o <<m>>
        /\ ~connected => Unsaved(events)' = u
        /\ connected \/ ~IsShown(m)
        /\ ~overtaken
    BY <1>i, <2>1, <2>2
  <2>5. /\ Agrees(Append(transcript, m), entries, u \o <<m>>)
        /\ ~IsShown(m) => Agrees(Append(transcript, m), entries, u)
    BY <1>a, <1>b, <1>e, <2>1, <2>4, AgreesSaid
  <2>6. CASE connected
    <3>1. Conversation' = Append(entries \o u, m)
      BY <1>v, <2>1, <2>2, <2>4, <2>6, Zenon DEF Conversation
    <3>2. Turns(Append(entries \o u, m))
      BY <1>e, <1>f, <2>3, <2>4, TurnsAppend
    <3> QED BY <2>2, <2>3, <2>4, <2>5, <2>6, <3>1, <3>2
  <2>7. CASE ~connected
    <3>1. Conversation' = entries \o u
      BY <2>2, <2>4, <2>7 DEF Conversation
    <3> QED BY <1>e, <2>2, <2>3, <2>4, <2>5, <2>7, <3>1
  <2> QED BY <2>6, <2>7
<1>4. CASE RunEnd
  <2>1. reply \in Spoken
    BY <1>4, <1>a DEF RunEnd, Answers, Spoken
  <2>2. Unsaved(events)' = u /\ (overtaken => overtaken')
    BY <1>4, <1>g, <2>1 DEF RunEnd
  <2>3. ~Asking' /\ UNCHANGED <<transcript, entries>>
    BY <1>4 DEF RunEnd, Asking
  <2> QED BY <1>s, <2>2, <2>3
<1>5. ASSUME NEW stop \in Throws, RunThrow(stop) PROVE ConvInv'
  <2> DEFINE m == Assistant(nextId, IF stopping THEN "aborted" ELSE stop)
  <2>1. m \in Kept /\ m \in Spoken /\ ~IsShown(m)
    <3>1. stop \in {"error", "fatal"}
      BY <1>5, KindsAssumption
    <3> QED BY <1>a, <3>1 DEF Assistant, Msg, Kept, Answers, Messages, Failures, Spoken, IsShown, IsError,
                             IsAborted
  <2>2. transcript' = Append(transcript, m) /\ Emit(AgentEnd(m)) /\ run' = "off" /\ UNCHANGED entries
    BY <1>5 DEF RunThrow
  <2> HIDE DEF m
  <2>3. Unsaved(events)' = u /\ (overtaken => overtaken')
    BY <1>g, <2>1, <2>2
  <2> SUFFICES ASSUME ~overtaken'
               PROVE  Agrees(transcript', entries', Unsaved(events)') /\ Turns(Conversation') /\ ~Asking'
    BY DEF ConvInv
  <2>4. Agrees(transcript', entries, u)
    BY <1>a, <1>b, <1>e, <2>1, <2>2, <2>3, AgreesSaid
  <2>5. Conversation' = entries \o u
    BY <2>2, <2>3 DEF Conversation
  <2> QED BY <1>e, <2>2, <2>3, <2>4, <2>5 DEF Asking
<1>6. CASE SaveMessage
  <2> DEFINE m == Head(events).msg
             v == Unsaved(Tail(events))
  <2>1. /\ events # <<>> /\ Head(events).type = "message" /\ events' = Tail(events)
        /\ entries' = Append(entries, m) /\ UNCHANGED <<transcript, run, inbox, overtaken>>
    BY <1>6 DEF SaveMessage, agentVars, runVars, ghostVars
  <2>2. m \in Kept
    <3>1. 1 \in DOMAIN events /\ events[1] = Head(events)
      BY <1>a, <2>1
    <3> QED BY <1>a, <2>1, <3>1 DEF ToSaveOK
  <2>3. u = <<m>> \o v /\ v \in Seq(Kept)
    BY <1>b, <2>1, <2>2 DEF Said, Only
  <2>4. Unsaved(events)' = v
    BY <2>1
  <2> HIDE DEF m, v
  <2>5. Conversation' = entries \o u
    BY <1>v, <2>1, <2>2, <2>3, <2>4, Zenon DEF Conversation
  <2> SUFFICES ASSUME ~overtaken'
               PROVE  Agrees(transcript', entries', Unsaved(events)') /\ Turns(Conversation')
                      /\ (Asking' => Open(Conversation'))
    BY DEF ConvInv
  <2>6. Agrees(transcript, Append(entries, m), v)
    BY <1>a, <1>e, <2>1, <2>2, <2>3, AgreesSaved
  <2> QED BY <1>e, <2>1, <2>4, <2>5, <2>6 DEF Asking
<1>7. CASE EndUnanswered
  <2>1. /\ Unsaved(events)' = u /\ UNCHANGED <<transcript, entries, run, inbox, overtaken>>
    BY <1>7, <1>h DEF EndUnanswered, agentVars, runVars, ghostVars
  <2> QED BY <1>s, <2>1 DEF Asking
<1>8. CASE EndBacksOff
  <2>1. /\ Unsaved(events)' = u /\ UNCHANGED <<entries, run>> /\ lastAssistant # None
        /\ transcript' = DropLastAssistant(transcript) /\ lastAssistant.stop = "error"
        /\ overtaken' = (overtaken \/ Overtakes)
    BY <1>8, <1>h DEF EndBacksOff, EndOfRun, MayRetry, Retryable, runVars
  <2> SUFFICES ASSUME ~overtaken'
               PROVE  Agrees(transcript', entries', Unsaved(events)') /\ Turns(Conversation') /\ ~Asking'
    BY DEF ConvInv
  <2>2. ~overtaken /\ run = "off" /\ u = <<>>
    BY <1>a, <1>c, <2>1 DEF Overtakes
  <2>3. PICK k \in DOMAIN entries : IsLast(entries, Assistants, k) /\ lastAssistant = entries[k]
    BY <1>a, <2>1 DEF LastOK
  <2>4. Agrees(DropLastAssistant(transcript), entries, <<>>) /\ Turns(entries)
    <3>1. ~IsShown(entries[k])
      BY <2>1, <2>3 DEF IsShown, IsError
    <3> QED BY <1>j, <2>2, <2>3, <3>1
  <2>5. Conversation' = entries
    BY <1>f, <2>1, <2>2 DEF Conversation
  <2> QED BY <2>1, <2>2, <2>4, <2>5 DEF Asking
<1>9. CASE EndChecks
  <2> DEFINE v == Verdict(lastAssistant, TRUE)
  <2>1. /\ Unsaved(events)' = u /\ UNCHANGED <<entries, run, inbox>> /\ lastAssistant # None
        /\ CheckCompaction(0, v, transcript)
        /\ overtaken' = (overtaken \/ (v = "overflow" /\ Overtakes))
    BY <1>9, <1>h DEF EndChecks, EndOfRun, CheckAfterRun, runVars, EventHandler
  <2>2. PICK k \in DOMAIN entries : IsLast(entries, Assistants, k) /\ lastAssistant = entries[k]
    BY <1>a, <2>1 DEF LastOK
  <2>3. v = "overflow" => ~IsShown(entries[k])
    <3>1. entries[k] \in Kept \union Summaries /\ entries[k] \in Answers
      BY <1>a, <2>2, Kinds DEF IsLast, Branches
    <3> QED BY <2>2, <3>1, OverflowHidden
  <2> HIDE DEF v
  <2>4. Asking' => Asking
    BY <2>1 DEF Asking
  <2> QED BY <1>k, <2>1, <2>2, <2>3, <2>4
<1>10. CASE BackoffEnds \/ ManualReady \/ Queue \/ UNCHANGED vars
  BY <1>10, <1>t DEF BackoffEnds, ManualReady, Queue, Asking, agentVars, runVars, ghostVars, vars
<1>11. CASE TimerFires
  <2>1. UNCHANGED <<transcript, entries, events>>
    BY <1>11 DEF TimerFires
  <2>2. CASE transcript # <<>> /\ ~IsAssistant(LastOf(transcript)) /\ Begin(<<>>)
    <3> SUFFICES ASSUME ~overtaken, ~overtaken'
                 PROVE  Agrees(transcript, entries, u) /\ Turns(entries \o u) /\ Open(entries \o u)
      BY <2>1, <2>2 DEF ConvInv, Conversation, u, Begin
    <3> DEFINE c == Shown(Context(entries)) \o Shown(u)
    <3>1. c = Shown(transcript)
      BY <1>e DEF Agrees
    <3>2. Shown(transcript) = <<>> \/ LastOf(Shown(transcript)) \notin Answers
      <4>1. CASE IsShown(LastOf(transcript))
        <5>1. LastOf(Shown(transcript)) = LastOf(transcript)
          BY <1>a, <2>2, <4>1, LastShown
        <5>2. LastOf(transcript) \notin Answers
          BY <2>2 DEF Answers, IsAssistant
        <5> QED BY <5>1, <5>2
      <4>2. CASE ~IsShown(LastOf(transcript))
        \* A summary with nothing behind it.
        <5>1. transcript \in Seq(Kept \union Summaries) /\ \A i \in 2 .. Len(transcript) : transcript[i] \in Kept
          BY DEF KindInv, TranscriptOK, Branches
        <5>2. Len(transcript) \in Nat /\ LastOf(transcript) = transcript[Len(transcript)] /\ Len(transcript) # 0
              /\ LastOf(transcript) \in Kept \union Summaries
          BY <2>2, <5>1 DEF LastOf
        <5>3. LastOf(transcript) \notin Kept
          <6>1. LastOf(transcript) \notin Answers
            BY <2>2 DEF Answers, IsAssistant
          <6>2. LastOf(transcript) \notin Asked
            BY <4>2, Kinds DEF Visible
          <6> QED BY <6>1, <6>2 DEF Kept
        <5>4. Len(transcript) = 1
          <6>1. Len(transcript) > 1 => Len(transcript) \in 2 .. Len(transcript)
            BY <5>2
          <6>2. ~(Len(transcript) > 1)
            BY <5>1, <5>2, <5>3, <6>1, Zenon
          <6> DEFINE n == Len(transcript)
          <6>3. n \in Nat /\ n # 0 /\ ~(n > 1)
            BY <5>2, <6>2, Zenon
          <6> HIDE DEF n
          <6>4. n = 1
            BY <6>3
          <6> QED BY <6>4 DEF n
        <5>5. Shown(transcript) = <<>>
          <6> DEFINE m == LastOf(transcript)
          <6>1. transcript = <<m>>
            BY <5>1, <5>2, <5>4
          <6> HIDE DEF m
          <6>2. Within(<<m>>, {x \in Messages : IsShown(x)}) = <<>>
            BY <4>2, WithinOne DEF Only, m
          <6> QED BY <6>1, <6>2 DEF Shown
        <5> QED BY <5>5
      <4> QED BY <4>1, <4>2
    <3>3. Open(entries \o u)
      BY <1>a, <1>b, <1>e, <3>1, <3>2, AskOpens
    <3> QED BY <1>e, <3>3
  <2>3. CASE queued # <<>> /\ Begin(queued)
    BY <1>t, <2>1, <2>3 DEF Begin, Asking
  <2>4. CASE UNCHANGED <<runVars, overtaken>>
    BY <1>t, <2>1, <2>4 DEF runVars, Asking
  <2>5. \/ transcript # <<>> /\ ~IsAssistant(LastOf(transcript)) /\ Begin(<<>>)
        \/ queued # <<>> /\ Begin(queued)
        \/ UNCHANGED <<runVars, overtaken>>
    BY <1>11 DEF TimerFires
  <2> QED BY <1>a, <2>2, <2>3, <2>4, <2>5
<1>12. ASSUME NEW o \in Owners, Compaction(o) PROVE ConvInv'
  <2>1. CASE Prepare(o) \/ FailCompaction(o)
    BY <1>t, <2>1 DEF Prepare, FailCompaction, agentVars, runVars, ghostVars, Asking
  <2>2. CASE FinishCompaction(o)
    <3> DEFINE c == compactions[o]
               m == Msg("compaction", nextId, IF c.retry THEN "overflow" ELSE "none", c.keep)
               es == Append(entries, m)
    <3>1. /\ c.phase = "summary" /\ entries' = es
          /\ transcript' = IF c.retry /\ IsError(LastOf(Context(es))) THEN Front(Context(es))
                           ELSE Context(es)
          /\ overtaken' = (overtaken \/ Overtakes) /\ UNCHANGED <<run, events>>
      BY <2>2 DEF FinishCompaction, runVars
    <3>2. m \in Summaries /\ m.ref = c.keep
      BY <1>a DEF Msg, Summaries, Messages, FlowOK, Compactions, Failures
    <3>3. m.ref \in DOMAIN entries /\ entries[m.ref] \in Kept
      BY <3>1, <3>2 DEF KindInv, BranchOK, KeepsOK
    <3> HIDE DEF m
    <3>4. Whole(es) /\ Context(es) \in Branches /\ Context(es) # <<>>
      BY <1>a, <3>2, <3>3, ContextSummary
    <3> HIDE DEF es
    <3> SUFFICES ASSUME ~overtaken'
                 PROVE  Agrees(transcript', entries', Unsaved(events)') /\ Turns(Conversation') /\ ~Asking'
      BY DEF ConvInv
    <3>5. ~overtaken /\ run = "off" /\ u = <<>>
      BY <1>a, <1>c, <3>1 DEF Overtakes
    <3>6. Shown(transcript') = Shown(Context(es))
      <4>1. ASSUME IsError(LastOf(Context(es))) PROVE Shown(Front(Context(es))) = Shown(Context(es))
        <5> DEFINE s == Context(es)
                   x == s[Len(s)]
        <5> HIDE DEF s
        <5>1. /\ x \in Kept \union Summaries /\ Front(s) \in Seq(Kept \union Summaries)
              /\ s = Append(Front(s), x) /\ LastOf(s) = x
          BY <3>4 DEF Branches, Front, LastOf, s
        <5> HIDE DEF x
        <5> DEFINE V == {y \in Messages : IsShown(y)}
        <5>2. x \notin V
          BY <4>1, <5>1 DEF IsShown, s
        <5> HIDE DEF V
        <5>3. Within(s, V) = Within(Front(s), V) \o Only(x, V)
          BY <5>1, WithinAppend
        <5>4. Within(Front(s), V) \in Seq(V)
          BY <5>1, WithinIs
        <5>5. Within(Front(s), V) \o <<>> = Within(Front(s), V)
          BY <5>4, ConcatEmptySeq
        <5> QED BY <5>2, <5>3, <5>5 DEF Only, Shown, s, V
      <4> QED BY <3>1, <4>1
    <3>7. Agrees(transcript', es, <<>>)
      <4>1. Shown(<<>>) = <<>> /\ Shown(Context(es)) \in Seq(Messages)
        BY <3>4, ShownMoves
      <4> QED BY <3>6, <4>1, ConcatEmptySeq DEF Agrees
    <3>8. Turns(es)
      <4>1. Turns(entries) /\ m \notin Answers
        BY <1>e, <1>f, <3>2, <3>5, Kinds
      <4> QED BY <1>a, <4>1, TurnsAppend DEF es
    <3>9. Unsaved(events)' = <<>> /\ Conversation' = es
      <4>1. Unsaved(events)' = <<>>
        BY <3>1, <3>5 DEF u
      <4>2. es \o <<>> = es
        BY <3>4, ConcatEmptySeq DEF Whole, Branches
      <4> QED BY <3>1, <4>1, <4>2 DEF Conversation
    <3> QED BY <3>1, <3>5, <3>7, <3>8, <3>9 DEF Asking
  <2> QED BY <1>12, <2>1, <2>2 DEF Compaction
\* Bash results join both sides.
<1>p. ASSUME NEW p \in Seq(Asked), ~overtaken, u = <<>>
      PROVE  Agrees(transcript \o p, entries \o p, <<>>) /\ Turns(entries \o p)
             /\ (entries \o p) \o <<>> = entries \o p
  <2>1. Agrees(transcript, entries, <<>>) /\ Turns(entries)
    BY <1>e, <1>f, <1>p
  <2>2. p \in Seq(Kept)
    BY <1>d, <1>p
  <2>3. Agrees(transcript \o p, entries \o p, <<>>)
    BY <1>a, <2>1, <2>2, AgreesBoth
  <2>4. Turns(entries \o p)
    BY <1>a, <2>1, TurnsConcat
  <2>5. p \in Branches
    BY <2>2 DEF Branches
  <2>6. entries \o p \in Branches
    BY <1>a, <2>5, ConcatProperties DEF Branches
  <2>7. (entries \o p) \o <<>> = entries \o p
    BY <2>6, ConcatEmptySeq DEF Branches
  <2> QED BY <2>3, <2>4, <2>7
<1>13. ASSUME NEW c \in Callers, PromptCalled(c) \/ Prompt(c) PROVE ConvInv'
  <2>1. CASE PromptCalled(c) \/ PromptRejected(c) \/ PromptWaits(c) \/ PromptQueues(c)
    BY <1>t, <2>1
       DEF PromptCalled, PromptRejected, PromptWaits, PromptQueues, agentVars, runVars, ghostVars,
                      Asking
  <2>2. CASE PromptChecks(c)
    <3> DEFINE a == LastWhere(transcript, IsAssistant)
               v == Verdict(a, FALSE)
               t == transcript \o pendingBash
    <3>1. /\ entries' = entries \o pendingBash /\ overtaken' = (overtaken \/ UnsavedMessages)
          /\ transcript' = (IF v = "overflow" THEN DropLastAssistant(t) ELSE t)
          /\ run = "off" /\ UNCHANGED <<run, events>>
      BY <2>2 DEF PromptChecks, FlushPendingBash, CheckCompaction, runVars
    <3> SUFFICES ASSUME ~overtaken'
                 PROVE  Agrees(transcript', entries', Unsaved(events)') /\ Turns(Conversation') /\ ~Asking'
      BY DEF ConvInv
    <3>2. ~overtaken /\ u = <<>>
      BY <1>a, <1>c, <3>1
    <3>3. Agrees(t, entries \o pendingBash, <<>>) /\ Turns(entries \o pendingBash)
          /\ (entries \o pendingBash) \o <<>> = entries \o pendingBash
      BY <1>a, <1>p, <3>2
    <3>4. Unsaved(events)' = <<>> /\ Conversation' = entries \o pendingBash
      <4>1. Unsaved(events)' = <<>>
        BY <3>1, <3>2 DEF u
      <4> QED BY <3>1, <3>3, <4>1 DEF Conversation
    <3>5. ASSUME v = "overflow" PROVE Shown(DropLastAssistant(t)) = Shown(t)
      <4>1. transcript \in Seq(Kept \union Summaries) /\ pendingBash \in Seq(Kept \union Summaries)
            /\ transcript \in Seq(Messages)
        BY <1>a, <1>d, Kinds DEF Branches
      <4>2. t \in Branches
        BY <4>1, ConcatProperties DEF Branches
      <4>3. ASSUME t # <<>>, IsAssistant(LastOf(t)) PROVE LastOf(t) \notin ShownAnswers
        <5>1. pendingBash = <<>>
          <6> SUFFICES ASSUME pendingBash # <<>> PROVE FALSE
            OBVIOUS
          <6>1. LastOf(t) = pendingBash[Len(pendingBash)] /\ pendingBash[Len(pendingBash)] \in Asked
            BY <1>a, <4>1 DEF LastOf
          <6> QED BY <4>3, <6>1 DEF Asked, IsAssistant
        <5>2. t = transcript
          BY <4>1, <5>1, ConcatEmptySeq
        <5> HIDE DEF t, v, a
        <5>3. /\ Len(transcript) \in DOMAIN transcript /\ LastOf(transcript) = transcript[Len(transcript)]
              /\ \A j \in DOMAIN transcript : ~(Len(transcript) < j)
              /\ LastOf(transcript) \in Kept \union Summaries
          BY <4>1, <4>3, <5>2 DEF LastOf
        <5>4. LastOf(transcript) \in Assistants /\ LastOf(transcript) \in Answers
          BY <4>3, <5>2, <5>3, Kinds
        <5>5. IsLast(transcript, Assistants, Len(transcript))
          BY <5>3, <5>4 DEF IsLast
        <5>6. a = LastOf(transcript)
          BY <4>1, <5>3, <5>5, LastAnswer DEF a
        <5>7. a \in Answers => ~IsShown(a)
          BY <3>5, <5>3, <5>6, OverflowHidden DEF v
        <5> QED BY <5>2, <5>4, <5>6, <5>7 DEF ShownAnswers
      <4> HIDE DEF t
      <4> QED BY <4>2, <4>3, DropHidden
    <3> HIDE DEF t, v
    <3>6. Agrees(transcript', entries \o pendingBash, <<>>)
      BY <3>1, <3>3, <3>5 DEF Agrees
    <3> QED BY <3>1, <3>3, <3>4, <3>6 DEF Asking
  <2>3. CASE PromptRefused(c)
    <3>1. /\ entries' = entries \o pendingBash /\ overtaken' = (overtaken \/ UnsavedMessages)
          /\ transcript' = transcript \o pendingBash /\ run = "off" /\ UNCHANGED <<run, events>>
      BY <2>3 DEF PromptRefused, FlushPendingBash, runVars
    <3> SUFFICES ASSUME ~overtaken'
                 PROVE  Agrees(transcript', entries', Unsaved(events)') /\ Turns(Conversation') /\ ~Asking'
      BY DEF ConvInv
    <3>2. ~overtaken /\ u = <<>>
      BY <1>a, <1>c, <3>1
    <3>3. /\ Agrees(transcript', entries', <<>>) /\ Turns(entries') /\ entries' \o <<>> = entries'
      BY <1>a, <1>p, <3>1, <3>2
    <3>4. Unsaved(events)' = <<>>
      BY <3>1, <3>2 DEF u
    <3> QED BY <3>1, <3>3, <3>4 DEF Asking, Conversation
  <2>4. CASE PromptRuns(c)
    <3>1. UNCHANGED <<transcript, entries, events>> /\ (overtaken => overtaken') /\ inbox' = <<User(nextId)>>
          /\ run' = "on"
      BY <2>4 DEF PromptRuns, Begin
    <3>2. <<User(nextId)>> # <<>>
      OBVIOUS
    <3> QED BY <1>t, <3>1, <3>2 DEF Asking
  <2> QED BY <1>13, <2>1, <2>2, <2>3, <2>4 DEF Prompt
<1>15. CASE RecordBash
  <2> DEFINE m == Msg("bash", nextId, "none", 0)
  <2>1. CASE run # "off"
    BY <1>15, <1>t, <2>1 DEF RecordBash, runVars, Asking
  <2>2. CASE run = "off"
    <3>1. /\ transcript' = Append(transcript, m) /\ entries' = Append(entries, m)
          /\ overtaken' = (overtaken \/ UnsavedMessages) /\ UNCHANGED <<run, events>>
      BY <1>15, <2>2 DEF RecordBash, runVars
    <3>2. m \in Asked
      BY <1>a DEF Msg, Asked, Messages
    <3> HIDE DEF m
    <3> DEFINE p == <<m>>
    <3>3. p \in Seq(Asked) /\ transcript' = transcript \o p /\ entries' = entries \o p
      <4>1. Append(transcript, m) = transcript \o p /\ Append(entries, m) = entries \o p
        BY <1>a DEF Branches
      <4> QED BY <3>1, <3>2, <4>1
    <3> HIDE DEF p
    <3> SUFFICES ASSUME ~overtaken'
                 PROVE  Agrees(transcript', entries', Unsaved(events)') /\ Turns(Conversation') /\ ~Asking'
      BY DEF ConvInv
    <3>4. ~overtaken /\ u = <<>>
      BY <1>a, <1>c, <3>1
    <3>5. /\ Agrees(transcript', entries', <<>>) /\ Turns(entries') /\ entries' \o <<>> = entries'
      BY <1>p, <3>3, <3>4
    <3>6. Unsaved(events)' = <<>>
      BY <3>1, <3>4 DEF u
    <3> QED BY <2>2, <3>1, <3>5, <3>6 DEF Asking, Conversation
  <2> QED BY <2>1, <2>2
<1>16. CASE Abort \/ ManualCompaction
  <2>1. UNCHANGED <<entries, events, run, inbox>> /\ AbortRetry
    BY <1>16 DEF Abort, ManualCompaction
  <2>2. CASE handling # "backoff"
    <3>1. UNCHANGED <<transcript, overtaken>>
      BY <2>1, <2>2 DEF AbortRetry
    <3> QED BY <1>t, <2>1, <3>1 DEF Asking
  <2>3. CASE handling = "backoff"
    <3> DEFINE a == LastWhere(entries, IsAssistant)
               v == Verdict(a, TRUE)
    <3>1. CheckCompaction(0, v, transcript) /\ overtaken' = (overtaken \/ (v = "overflow" /\ Overtakes))
      BY <2>1, <2>3 DEF AbortRetry, CheckAfterRun, EventHandler
    <3>2. entries \in Seq(Messages)
      BY DEF FlowOK
    <3>3. Unsaved(events)' = u /\ (Asking' => Asking)
      BY <2>1 DEF u, Asking
    <3>4. CASE v # "overflow"
      <4>1. UNCHANGED transcript /\ overtaken' = overtaken
        BY <1>a, <3>1, <3>4 DEF CheckCompaction
      <4> QED BY <1>t, <2>1, <3>3, <4>1
    <3>5. CASE v = "overflow"
      <4>1. a # None
        BY <3>5 DEF Verdict
      <4>2. PICK k \in DOMAIN entries : IsLast(entries, Assistants, k)
        BY <3>2, <4>1, LastAnswer
      <4>3. a = entries[k] /\ entries[k] \in Kept \union Summaries /\ entries[k] \in Answers
        <5>1. a = entries[k]
          BY <3>2, <4>2, LastAnswer
        <5>2. entries[k] \in Kept \union Summaries
          BY <1>a DEF Branches
        <5> HIDE DEF a, v
        <5> QED BY <4>2, <5>1, <5>2, Kinds DEF IsLast
      <4>4. ~IsShown(entries[k])
        BY <3>5, <4>3, OverflowHidden
      <4> HIDE DEF v
      <4> QED BY <1>k, <2>1, <3>1, <3>3, <4>2, <4>4
    <3> QED BY <3>4, <3>5
  <2> QED BY <2>2, <2>3
<1> QED
  BY <1>1, <1>2, <1>3, <1>4, <1>5, <1>6, <1>7, <1>8, <1>9, <1>10, <1>11, <1>12, <1>13,
     <1>15, <1>16 DEF Next, Running, Handler

----------------------------------------------------------------------------
(* What the session waits for *)

\* What the event handler and the calls of prompt() wait for.
ControlOK ==
  /\ run \in {"off", "on", "asking", "ending"}
  /\ stopping \in BOOLEAN /\ connected \in BOOLEAN /\ retryPending \in BOOLEAN
  /\ handling \in {"no", "backoff", "compacting"}
  /\ retryAttempt \in 0 .. MaxRetries /\ timers \in Nat
  /\ prompts \in [Callers -> {"idle", "input", "checking", "ready", "running", "ended", "retry",
                              "settle", "done"}]
  /\ (handling = "compacting") = Compacting(EventHandler)
  /\ \A c \in Callers : (prompts[c] = "checking") = Compacting(c)

\* Every operation keeps them: a compaction runs for an owner that waits for it.
LEMMA ControlStep ==
  ASSUME FlowOK, ControlOK, [Next]_vars PROVE ControlOK'
<1> DEFINE Places == {"idle", "input", "checking", "ready", "running", "ended", "retry", "settle", "done"}
           Waits == /\ (handling = "compacting") = Compacting(EventHandler)
                    /\ \A c \in Callers : (prompts[c] = "checking") = Compacting(c)
           Switches == /\ run \in {"off", "on", "asking", "ending"}
                       /\ stopping \in BOOLEAN /\ connected \in BOOLEAN /\ retryPending \in BOOLEAN
                       /\ retryAttempt \in 0 .. MaxRetries /\ timers \in Nat
           Kinded == handling \in {"no", "backoff", "compacting"} /\ prompts \in [Callers -> Places]
<1>a. ControlOK <=> Switches /\ Kinded /\ Waits
  BY DEF ControlOK
<1>b. ControlOK' <=> Switches' /\ Kinded' /\ Waits'
  BY DEF ControlOK
<1>c. /\ compactions \in [Owners -> Compactions] /\ MaxRetries \in Nat /\ MaxPrompts \in Nat
      /\ Callers \subseteq Owners /\ EventHandler \in Owners /\ Manual \in Owners
      /\ EventHandler \notin Callers /\ Manual \notin Callers /\ Manual # EventHandler
  BY BoundsAssumption DEF FlowOK, Owners, Callers, Manual, EventHandler
<1>d. Switches /\ Kinded /\ Waits
  BY <1>a
<1> USE DEF Compacting
<1>e. UNCHANGED <<handling, prompts, compactions>> => Kinded' /\ Waits'
  BY <1>d
<1>f. prompts' = Ended /\ UNCHANGED <<handling, compactions>> => Kinded' /\ Waits'
  BY <1>d DEF Ended
\* An owner's compaction ends.
<1>g. ASSUME NEW o \in Owners, Compacting(o), compactions' = [compactions EXCEPT ![o] = NoCompaction],
             Release(o)
      PROVE  Kinded' /\ Waits' /\ connected' \in BOOLEAN
  <2>1. /\ compactions'[o].phase = "off" /\ \A p \in Owners : p # o => compactions'[p] = compactions[p]
    BY <1>c, <1>g DEF NoCompaction
  <2>2. handling' = (IF o = EventHandler THEN "no" ELSE handling)
        /\ prompts' = (IF o \in Callers THEN [prompts EXCEPT ![o] = "ready"] ELSE prompts)
        /\ connected' = (connected \/ o = Manual)
    BY <1>g DEF Release
  <2>3. Kinded'
    BY <1>d, <2>2
  <2>4. (handling' = "compacting") = (compactions'[EventHandler].phase # "off")
    BY <1>c, <1>d, <2>1, <2>2
  <2>5. \A c \in Callers : (prompts'[c] = "checking") = (compactions'[c].phase # "off")
    <3> SUFFICES ASSUME NEW c \in Callers
                 PROVE  (prompts'[c] = "checking") = (compactions'[c].phase # "off")
      OBVIOUS
    <3>1. CASE c = o
      BY <1>d, <2>1, <2>2, <3>1
    <3>2. CASE c # o
      BY <1>c, <1>d, <2>1, <2>2, <3>2
    <3> QED BY <3>1, <3>2
  <2>6. connected' \in BOOLEAN
    BY <1>d, <2>2
  <2> QED BY <2>3, <2>4, <2>5, <2>6
\* A compaction starts for an owner that then waits.
<1>h. ASSUME NEW o \in Owners, NEW v, ~Compacting(o), compactions' = Started(o, v, compactions)
      PROVE  /\ (v # "no") = Compacting(o)'
             /\ \A p \in Owners : p # o => compactions'[p] = compactions[p]
  BY <1>c, <1>h DEF Started
\* A check after a run.
<1>k. ASSUME NEW m, handling # "compacting", CheckAfterRun(m)
      PROVE  Kinded' /\ Waits' /\ retryPending' \in BOOLEAN
  <2> DEFINE v == Verdict(m, TRUE)
  <2>1. /\ retryPending' = FALSE /\ prompts' = Resolved
        /\ compactions' = Started(EventHandler, v, compactions)
        /\ handling' = IF v = "no" THEN "no" ELSE "compacting"
    BY <1>k DEF CheckAfterRun, ResolveRetry, CheckCompaction
  <2> HIDE DEF v
  <2>2. /\ (v # "no") = (compactions'[EventHandler].phase # "off")
        /\ \A p \in Owners : p # EventHandler => compactions'[p] = compactions[p]
    BY <1>c, <1>d, <1>h, <1>k, <2>1
  <2>3. Kinded'
    BY <1>d, <2>1 DEF Resolved
  <2>4. Waits'
    <3>1. (handling' = "compacting") = (compactions'[EventHandler].phase # "off")
      BY <2>1, <2>2
    <3>2. \A c \in Callers : (prompts'[c] = "checking") = (compactions'[c].phase # "off")
      BY <1>c, <1>d, <2>1, <2>2 DEF Resolved
    <3> QED BY <3>1, <3>2
  <2> QED BY <2>1, <2>3, <2>4
<1> HIDE DEF Kinded, Waits, Switches
<1>1. CASE Running
  <2>1. CASE RunInject \/ RunAsk
    <3>1. /\ run' \in {run, "asking"} /\ UNCHANGED <<stopping, connected, retryPending, retryAttempt, timers>>
          /\ UNCHANGED <<handling, prompts, compactions>>
      BY <2>1 DEF RunInject, RunAsk, retryVars
    <3>2. Switches'
      BY <1>d, <3>1 DEF Switches
    <3> QED BY <1>b, <1>e, <3>1, <3>2
  <2>2. ASSUME NEW stop \in Stops, RunReply(stop) PROVE ControlOK'
    <3>1. /\ run' \in {"on", "ending"} /\ UNCHANGED <<stopping, connected, retryPending, retryAttempt, timers>>
          /\ UNCHANGED <<handling, prompts, compactions>>
      BY <2>2 DEF RunReply, retryVars
    <3>2. Switches'
      BY <1>d, <3>1 DEF Switches
    <3> QED BY <1>b, <1>e, <3>1, <3>2
  <2>3. CASE RunEnd
    <3>1. /\ run' = "off" /\ UNCHANGED <<stopping, connected, retryAttempt, timers>>
          /\ prompts' = Ended /\ UNCHANGED <<handling, compactions>> /\ retryPending' \in BOOLEAN
      BY <2>3 DEF RunEnd, AwaitRetry, retryVars
    <3>2. Switches'
      BY <1>d, <3>1 DEF Switches
    <3> QED BY <1>b, <1>f, <3>1, <3>2
  <2>4. ASSUME NEW stop \in Throws, RunThrow(stop) PROVE ControlOK'
    <3>1. /\ run' = "off" /\ UNCHANGED <<stopping, connected, retryAttempt, timers>>
          /\ prompts' = Ended /\ UNCHANGED <<handling, compactions>> /\ retryPending' \in BOOLEAN
      BY <2>4 DEF RunThrow, AwaitRetry, retryVars
    <3>2. Switches'
      BY <1>d, <3>1 DEF Switches
    <3> QED BY <1>b, <1>f, <3>1, <3>2
  <2> QED BY <1>1, <2>1, <2>2, <2>3, <2>4 DEF Running
<1>2. CASE SaveMessage
  <2>1. /\ UNCHANGED <<run, stopping, connected, retryPending, timers, handling, prompts, compactions>>
        /\ retryAttempt' \in {0, retryAttempt}
    BY <1>2 DEF SaveMessage, agentVars, runVars
  <2>2. Switches'
    BY <1>c, <1>d, <2>1 DEF Switches
  <2> QED BY <1>b, <1>e, <2>1, <2>2
<1>3. CASE EndUnanswered
  <2>1. UNCHANGED <<run, stopping, connected, retryPending, retryAttempt, timers, handling, prompts, compactions>>
    BY <1>3 DEF EndUnanswered, agentVars, runVars, retryVars
  <2>2. Switches'
    BY <1>d, <2>1 DEF Switches
  <2> QED BY <1>b, <1>e, <2>1, <2>2
<1>4. CASE EndBacksOff
  <2>1. /\ handling = "no" /\ handling' = "backoff" /\ UNCHANGED <<prompts, compactions>>
        /\ retryAttempt < MaxRetries /\ retryAttempt' = retryAttempt + 1 /\ retryPending' = TRUE
        /\ UNCHANGED <<run, stopping, connected, timers>>
    BY <1>4 DEF EndBacksOff, EndOfRun, MayRetry, runVars
  <2>2. Kinded' /\ Waits'
    BY <1>d, <2>1 DEF Kinded, Waits
  <2>3. Switches'
    BY <1>c, <1>d, <2>1 DEF Switches
  <2> QED BY <1>b, <2>2, <2>3
<1>5. CASE EndChecks
  <2>1. /\ handling = "no" /\ CheckAfterRun(lastAssistant) /\ retryAttempt' \in {0, retryAttempt}
        /\ UNCHANGED <<run, stopping, connected, timers>>
    BY <1>5 DEF EndChecks, EndOfRun, runVars
  <2>2. Kinded' /\ Waits' /\ retryPending' \in BOOLEAN
    BY <1>k, <2>1
  <2>3. Switches'
    BY <1>c, <1>d, <2>1, <2>2 DEF Switches
  <2> QED BY <1>b, <2>2, <2>3
<1>6. CASE BackoffEnds
  <2>1. /\ handling = "backoff" /\ handling' = "no" /\ UNCHANGED <<prompts, compactions>>
        /\ timers' = timers + 1
        /\ UNCHANGED <<run, stopping, connected, retryPending, retryAttempt>>
    BY <1>6 DEF BackoffEnds, agentVars, runVars, retryVars
  <2>2. Kinded' /\ Waits'
    BY <1>d, <2>1 DEF Kinded, Waits
  <2>3. Switches'
    BY <1>d, <2>1 DEF Switches
  <2> QED BY <1>b, <2>2, <2>3
<1>7. CASE TimerFires
  <2>1. /\ run' \in {run, "on"} /\ stopping' \in {stopping, FALSE} /\ timers > 0 /\ timers' = timers - 1
        /\ UNCHANGED <<connected, retryPending, retryAttempt, handling, prompts, compactions>>
    BY <1>7 DEF TimerFires, Begin, runVars, retryVars
  <2>2. Switches'
    <3>1. stopping' \in BOOLEAN
      BY <1>d, <2>1, Zenon DEF Switches
    <3>2. timers' \in Nat /\ run' \in {"off", "on", "asking", "ending"}
      BY <1>d, <2>1 DEF Switches
    <3> QED BY <1>d, <2>1, <3>1, <3>2 DEF Switches
  <2> QED BY <1>b, <1>e, <2>1, <2>2
<1>8. ASSUME NEW o \in Owners, Compaction(o) PROVE ControlOK'
  <2>1. CASE Prepare(o)
    <3>1. Compacting(o) /\ UNCHANGED <<run, stopping, retryPending, retryAttempt, timers>>
      BY <2>1 DEF Prepare, agentVars, runVars, retryVars
    <3>2. CASE compactions' = [compactions EXCEPT ![o] = NoCompaction] /\ Release(o)
      <4>1. Kinded' /\ Waits' /\ connected' \in BOOLEAN
        BY <1>g, <3>1, <3>2
      <4>2. Switches'
        BY <1>d, <3>1, <4>1 DEF Switches
      <4> QED BY <1>b, <4>1, <4>2
    <3>3. CASE /\ compactions' = [compactions EXCEPT ![o].phase = "summary", ![o].keep = Len(entries)]
               /\ UNCHANGED <<handling, prompts, connected>>
      <4>1. \A p \in Owners : (compactions'[p].phase # "off") = (compactions[p].phase # "off")
        BY <1>c, <3>1, <3>3 DEF Compactions
      <4>2. Kinded' /\ Waits'
        BY <1>c, <1>d, <3>3, <4>1 DEF Kinded, Waits
      <4>3. Switches'
        BY <1>d, <3>1, <3>3 DEF Switches
      <4> QED BY <1>b, <4>2, <4>3
    <3> QED BY <2>1, <3>2, <3>3 DEF Prepare
  <2>2. CASE FinishCompaction(o)
    <3>1. /\ Compacting(o) /\ UNCHANGED <<run, stopping, retryPending, retryAttempt>>
          /\ compactions' = [compactions EXCEPT ![o] = NoCompaction] /\ Release(o)
          /\ timers' \in {timers, timers + 1}
      BY <2>2 DEF FinishCompaction, runVars, retryVars
    <3>2. Kinded' /\ Waits' /\ connected' \in BOOLEAN
      BY <1>g, <3>1
    <3>3. Switches'
      BY <1>d, <3>1, <3>2 DEF Switches
    <3> QED BY <1>b, <3>2, <3>3
  <2>3. CASE FailCompaction(o)
    <3>1. /\ Compacting(o) /\ UNCHANGED <<run, stopping, retryPending, retryAttempt, timers>>
          /\ compactions' = [compactions EXCEPT ![o] = NoCompaction] /\ Release(o)
      BY <2>3 DEF FailCompaction, agentVars, runVars, retryVars
    <3>2. Kinded' /\ Waits' /\ connected' \in BOOLEAN
      BY <1>g, <3>1
    <3>3. Switches'
      BY <1>d, <3>1, <3>2 DEF Switches
    <3> QED BY <1>b, <3>2, <3>3
  <2> QED BY <1>8, <2>1, <2>2, <2>3 DEF Compaction
\* A call of prompt() goes on, without a compaction before or after.
<1>p. ASSUME NEW c \in Callers, NEW q \in Places \ {"checking"}, prompts[c] # "checking",
             prompts' = [prompts EXCEPT ![c] = q], UNCHANGED <<handling, compactions>>
      PROVE  Kinded' /\ Waits'
  BY <1>d, <1>p DEF Kinded, Waits
<1>9. ASSUME NEW c \in Callers, PromptCalled(c) \/ Prompt(c) PROVE ControlOK'
  <2>1. CASE PromptCalled(c) \/ PromptQueues(c) \/ PromptRejected(c) \/ PromptWaits(c) \/ PromptRefused(c)
    <3>1. /\ UNCHANGED <<run, stopping, connected, retryPending, retryAttempt, timers, handling, compactions>>
          /\ prompts[c] # "checking"
          /\ \E q \in Places \ {"checking"} : prompts' = [prompts EXCEPT ![c] = q]
      BY <2>1
         DEF PromptCalled, PromptQueues, PromptRejected, PromptWaits, PromptRefused, agentVars,
             runVars,
                  retryVars
    <3> QED BY <1>b, <1>d, <1>p, <3>1 DEF Switches
  <2>2. CASE PromptChecks(c)
    <3> DEFINE v == Verdict(LastWhere(transcript, IsAssistant), FALSE)
    <3>1. /\ UNCHANGED <<run, stopping, connected, retryPending, retryAttempt, timers, handling>>
          /\ prompts[c] = "input" /\ compactions' = Started(c, v, compactions)
          /\ prompts' = [prompts EXCEPT ![c] = IF v = "no" THEN "ready" ELSE "checking"]
      BY <2>2 DEF PromptChecks, CheckCompaction, runVars, retryVars
    <3> HIDE DEF v
    <3>2. ~Compacting(c) /\ c # EventHandler /\ c \in Owners
      BY <1>c, <1>d, <3>1 DEF Waits
    <3>3. /\ (v # "no") = (compactions'[c].phase # "off")
          /\ \A p \in Owners : p # c => compactions'[p] = compactions[p]
      BY <1>h, <3>1, <3>2
    <3>4. Kinded' /\ Waits'
      <4>1. Kinded'
        BY <1>d, <3>1 DEF Kinded
      <4>2. (handling' = "compacting") = (compactions'[EventHandler].phase # "off")
        BY <1>c, <1>d, <3>1, <3>2, <3>3 DEF Waits
      <4>3. \A d \in Callers : (prompts'[d] = "checking") = (compactions'[d].phase # "off")
        <5> SUFFICES ASSUME NEW d \in Callers
                     PROVE  (prompts'[d] = "checking") = (compactions'[d].phase # "off")
          OBVIOUS
        <5>1. CASE d = c
          BY <1>d, <3>1, <3>3, <5>1 DEF Kinded
        <5>2. CASE d # c
          BY <1>c, <1>d, <3>1, <3>3, <5>2 DEF Kinded, Waits
        <5> QED BY <5>1, <5>2
      <4> QED BY <4>1, <4>2, <4>3 DEF Waits
    <3> QED BY <1>b, <1>d, <3>1, <3>4 DEF Switches
  <2>3. CASE PromptRuns(c)
    <3>1. /\ UNCHANGED <<connected, retryPending, retryAttempt, timers, handling, compactions>>
          /\ run' = "on" /\ stopping' = FALSE
          /\ prompts[c] = "ready" /\ prompts' = [prompts EXCEPT ![c] = "running"]
      BY <2>3 DEF PromptRuns, Begin, retryVars
    <3>2. Kinded' /\ Waits'
      BY <1>p, <3>1
    <3> QED BY <1>b, <1>d, <3>1, <3>2 DEF Switches
  <2> QED BY <1>9, <2>1, <2>2, <2>3 DEF Prompt
<1>10. CASE Queue \/ RecordBash \/ UNCHANGED vars
  BY <1>10, <1>b, <1>d, <1>e DEF Queue, RecordBash, vars, agentVars, runVars, retryVars, Switches
<1>11. CASE Abort \/ ManualCompaction
  <2>1. /\ AbortRetry /\ stopping' = (run # "off") /\ UNCHANGED <<run, timers>>
        /\ connected' \in {connected, FALSE}
    BY <1>11 DEF Abort, ManualCompaction
  <2>2. /\ Kinded' /\ Waits' /\ retryPending' \in BOOLEAN /\ retryAttempt' \in {0, retryAttempt}
    <3>1. CASE handling = "backoff"
      BY <1>k, <2>1, <3>1 DEF AbortRetry
    <3>2. CASE handling # "backoff"
      <4>1. /\ prompts' = Resolved /\ retryPending' = FALSE /\ UNCHANGED <<handling, compactions, retryAttempt>>
        BY <2>1, <3>2 DEF AbortRetry, ResolveRetry
      <4>2. Kinded' /\ Waits'
        BY <1>d, <4>1 DEF Kinded, Waits, Resolved
      <4> QED BY <4>1, <4>2
    <3> QED BY <3>1, <3>2
  <2>3. Switches'
    <3>1. stopping' \in BOOLEAN /\ connected' \in BOOLEAN
      BY <1>d, <2>1, Zenon DEF Switches
    <3>2. retryAttempt' \in 0 .. MaxRetries
      BY <1>c, <1>d, <2>2 DEF Switches
    <3> QED BY <1>d, <2>1, <2>2, <3>1, <3>2 DEF Switches
  <2> QED BY <1>b, <2>2, <2>3
<1>12. CASE ManualReady
  <2>1. /\ ~Compacting(Manual) /\ compactions' = Started(Manual, "manual", compactions)
        /\ UNCHANGED <<run, stopping, connected, retryPending, retryAttempt, timers, handling, prompts>>
    BY <1>12 DEF ManualReady, agentVars, runVars, retryVars
  <2>2. \A p \in Owners : p # Manual => compactions'[p] = compactions[p]
    BY <1>c, <1>h, <2>1
  <2>3. Kinded' /\ Waits'
    BY <1>c, <1>d, <2>1, <2>2 DEF Kinded, Waits
  <2> QED BY <1>b, <1>d, <2>1, <2>3 DEF Switches
<1> QED
  BY <1>1, <1>2, <1>3, <1>4, <1>5, <1>6, <1>7, <1>8, <1>9, <1>10, <1>11, <1>12 DEF Next, Handler

\* Nothing is unsaved of no events, and nothing is in the context of no entries.
LEMMA FromNothing == ASSUME NEW e, e = <<>> PROVE Unsaved(e) = <<>> /\ Context(e) = <<>> /\ Shown(e) = <<>>
<1>1. e \in Seq(Events) /\ e \in Seq(Messages) /\ e \in Branches /\ DOMAIN e = {}
  BY DEF Branches
<1>2. Unsaved(e) = <<>>
  <2>1. \A i \in DOMAIN e : e[i].type # "message"
    BY <1>1, Zenon
  <2> QED BY <1>1, <2>1, UnsavedMoves, Zenon
<1>3. Context(e) = <<>>
  <2>1. \A i \in DOMAIN e : e[i] \notin Summaries
    BY <1>1, Zenon
  <2>2. Context(e) = e
    BY <1>1, <2>1, ContextIs, Zenon
  <2> QED BY <2>2
<1>4. Shown(e) = <<>>
  <2>1. Shown(<<>>) = <<>>
    BY <1>1, ShownMoves, Zenon
  <2> QED BY <2>1
<1> QED BY <1>2, <1>3, <1>4

\* It holds at the start.
LEMMA SessionStart == Init => FlowOK /\ KindInv /\ ConvInv /\ ControlOK
<1> SUFFICES ASSUME Init PROVE FlowOK /\ KindInv /\ ConvInv /\ ControlOK
  OBVIOUS
<1>0. \A S : <<>> \in Seq(S)
  OBVIOUS
<1>1. NoCompaction \in Compactions /\ NoCompaction.phase = "off" /\ None \in Messages
  BY DEF NoCompaction, Compactions, Phases, None, Msg, Messages
<1>2. FlowOK
  BY <1>0, <1>1 DEF Init, FlowOK
<1>3. KindInv
  <2>1. WaitingOK
    BY <1>0 DEF Init, WaitingOK, ToSaveOK
  <2>2. TranscriptOK(transcript)
    BY <1>0 DEF Init, TranscriptOK, Branches
  <2>3. BranchOK
    BY <1>0, <1>1 DEF Init, BranchOK, Whole, Branches, LastOK, KeepsOK
  <2> QED BY <2>1, <2>2, <2>3 DEF KindInv
<1>4. ConvInv
  <2> DEFINE e == <<>>
  <2>1. /\ Whole(e) /\ e \in Branches /\ e \in Seq(Events) /\ e \in Seq(Messages)
        /\ transcript = e /\ entries = e /\ events = e /\ inbox = e /\ e = <<>> /\ Len(e) = 0
    BY <1>0 DEF Init, Whole, Branches
  <2>5. e \o e = e
    OBVIOUS
  <2> HIDE DEF e
  <2>2. Unsaved(e) = e
    BY <2>1, FromNothing, Zenon
  <2>3. Shown(e) = e
    BY <2>1, FromNothing, Zenon
  <2>4. Context(e) = e
    BY <2>1, FromNothing, Zenon
  <2>6. Agrees(transcript, entries, Unsaved(events))
    BY <2>1, <2>2, <2>3, <2>4, <2>5 DEF Agrees
  <2>7. Turns(Conversation)
    BY <2>1, <2>2, <2>5 DEF Conversation, Turns
  <2>8. ~Asking
    BY DEF Init, Asking
  <2> QED BY <2>6, <2>7, <2>8 DEF ConvInv
<1>5. ControlOK
  <2>1. Callers \subseteq Owners /\ EventHandler \in Owners /\ MaxRetries \in Nat
    BY BoundsAssumption DEF Owners, Callers, EventHandler, Manual
  <2>2. compactions = [o \in Owners |-> NoCompaction] /\ prompts = [c \in Callers |-> "idle"] /\ handling = "no"
    BY DEF Init
  <2>3. \A o \in Owners : ~Compacting(o)
    BY <1>1, <2>2 DEF Compacting
  <2>4. (handling = "compacting") = Compacting(EventHandler)
    BY <2>1, <2>2, <2>3 DEF Compacting
  <2>5. \A c \in Callers : (prompts[c] = "checking") = Compacting(c)
    <3> SUFFICES ASSUME NEW c \in Callers PROVE (prompts[c] = "checking") = Compacting(c)
      OBVIOUS
    <3>1. prompts[c] = "idle" /\ ~Compacting(c)
      BY <2>1, <2>2, <2>3
    <3> QED BY <3>1 DEF Compacting
  <2>6. prompts \in [Callers -> {"idle", "input", "checking", "ready", "running", "ended", "retry",
                                 "settle", "done"}]
    BY <2>2
  <2>7. /\ run \in {"off", "on", "asking", "ending"} /\ handling \in {"no", "backoff", "compacting"}
        /\ stopping \in BOOLEAN /\ connected \in BOOLEAN /\ retryPending \in BOOLEAN
        /\ retryAttempt \in 0 .. MaxRetries /\ timers \in Nat
    <3>1. run = "off" /\ handling = "no" /\ stopping = FALSE /\ connected = TRUE /\ retryPending = FALSE
      BY DEF Init
    <3>2. retryAttempt = 0 /\ timers = 0
      BY DEF Init
    <3>3. stopping \in BOOLEAN /\ connected \in BOOLEAN /\ retryPending \in BOOLEAN
      BY <3>1, Zenon
    <3>4. retryAttempt \in 0 .. MaxRetries /\ timers \in Nat
      BY <2>1, <3>2
    <3> QED BY <3>1, <3>3, <3>4
  <2> QED BY <2>4, <2>5, <2>6, <2>7 DEF ControlOK
<1> QED BY <1>2, <1>3, <1>4, <1>5

\* Every variable holds a value of its kind, for any number of prompts, retries and troubles:
\* AgentSession's TypeOK.
THEOREM SessionTypeTheorem == Spec => []TypeOK
<1>1. Init => FlowOK /\ KindInv /\ ControlOK
  BY SessionStart
<1>2. FlowOK /\ KindInv /\ ControlOK /\ [Next]_vars => FlowOK' /\ KindInv' /\ ControlOK'
  BY FlowStep, KindStep, ControlStep
<1>3. FlowOK /\ KindInv /\ ControlOK => TypeOK
  <2> SUFFICES ASSUME FlowOK, KindInv, ControlOK PROVE TypeOK
    OBVIOUS
  <2>1. /\ UserMessages \subseteq Messages /\ Commands \subseteq Messages /\ None \in Messages
        /\ Kept \union Summaries \subseteq Messages
    BY Kinds DEF UserMessages, Commands, None, Msg, Messages
  <2>2. transcript \in Seq(Messages) /\ inbox \in Seq(Messages) /\ queued \in Seq(Messages)
        /\ pendingBash \in Seq(Messages) /\ entries \in Seq(Messages)
    BY <2>1 DEF FlowOK, KindInv, TranscriptOK, Branches
  <2>3. lastAssistant \in Messages
    BY <2>1, <2>2 DEF KindInv, BranchOK, LastOK
  <2> QED BY <2>2, <2>3 DEF TypeOK, FlowOK, ControlOK
<1> QED BY <1>1, <1>2, <1>3, PTL DEF Spec

\* What the next request shows is what the session would show after a reload, for any number of
\* prompts, retries and troubles: TranscriptIsContext.  Were an answer ever to overflow in
\* silence, its compaction could fail after the transcript has lost it.
THEOREM ContextTheorem ==
  ASSUME "silent" \notin Outcomes
  PROVE  Spec => []TranscriptIsContext
<1>1. Init => FlowOK /\ KindInv /\ ConvInv
  BY SessionStart
<1>2. FlowOK /\ KindInv /\ ConvInv /\ [Next]_vars => FlowOK' /\ KindInv' /\ ConvInv'
  BY FlowStep, KindStep, ConvStep
<1>3. FlowOK /\ KindInv /\ ConvInv => TranscriptIsContext
  <2> SUFFICES ASSUME FlowOK, KindInv, ConvInv, AtRest, ~overtaken
               PROVE  Shown(transcript) = Shown(Context(entries))
    BY DEF TranscriptIsContext
  <2>1. Unsaved(events) = <<>>
    <3>1. events = <<>>
      BY DEF AtRest
    <3> QED BY <3>1, FromNothing, Zenon
  <2>2. Context(entries) \in Branches
    BY ContextKind DEF KindInv, BranchOK
  <2>3. Shown(<<>>) = <<>> /\ Shown(Context(entries)) \in Seq(Messages)
    BY <2>2, ShownMoves
  <2>4. Shown(transcript) = Shown(Context(entries)) \o <<>>
    BY <2>1, <2>3 DEF ConvInv, Agrees
  <2> QED BY <2>3, <2>4, ConcatEmptySeq
<1> QED BY <1>1, <1>2, <1>3, PTL DEF Spec
=============================================================================
