--------------------------- MODULE SessionManager ---------------------------
(***************************************************************************)
(* A conversation kept as an append-only tree of entries in a JSONL file:  *)
(* packages/coding-agent/src/core/session-manager.ts, with the fork that   *)
(* agent-session-runtime.ts builds from it.                                *)
(*                                                                         *)
(* The tree lives in memory as the list of the file's lines.  It reaches   *)
(* the disk only once it holds an assistant message; until then nothing is *)
(* written, and the first assistant message writes everything.  A process  *)
(* may die between or inside those writes and another one reopens a file.  *)
(***************************************************************************)
EXTENDS Integers, Sequences, SequencesExt

CONSTANTS
  Kinds,        \* the entry types a run appends, of those appendXxx offers
  LabelNames,   \* the labels a user gives
  NoLabel,      \* "no label": undefined in appendLabelChange
  Persists,     \* the values of the persist flag: SessionManager.create, inMemory
  Absent,       \* the content of a file that does not exist
  MaxEntries,   \* bound: entries ever created
  MaxFiles,     \* bound: session files ever named
  MaxCrashes    \* bound: crashes in the middle of a write

PlainKinds == {"user", "assistant", "custom_message", "branch_summary",
               "model_change", "thinking_level_change", "note"}

ASSUME KindsAssumption == Kinds \subseteq PlainKinds \union {"compaction"}
ASSUME PersistsAssumption == Persists \subseteq BOOLEAN
ASSUME LabelAssumption == NoLabel \notin LabelNames
ASSUME BoundsAssumption ==
  MaxEntries \in Nat /\ MaxFiles \in Nat \ {0} /\ MaxCrashes \in Nat

Null == 0                      \* parentId === null, leafId === null
Ids == 1 .. MaxEntries
Files == 1 .. MaxFiles

\* A line of a session file.  "torn" is a partial last line without its
\* newline; "garbage" is a line no JSON parser accepts.
LineKinds == PlainKinds \union {"session", "label", "compaction", "torn", "garbage"}
Line == [kind : LineKinds, id : Ids \union {Null}, parent : Ids \union {Null},
         ref : Ids \union Files \union {Null}, label : LabelNames \union {NoLabel}]

ASSUME AbsentAssumption == Absent \notin Seq(Line)

VARIABLES
  disk,      \* the session directory: the lines of each file, or Absent
  sm,        \* the SessionManager of the running process
  nextId,    \* generateId: ids are fresh
  nextFile,  \* session files are named by time and uuid: names are fresh
  crashes

vars == <<disk, sm, nextId, nextFile, crashes>>

-----------------------------------------------------------------------------
(* Lines and what a reader of the file makes of them. *)

Entry(kind, id, parent, ref, label) ==
  [kind |-> kind, id |-> id, parent |-> parent, ref |-> ref, label |-> label]
Header(f) == Entry("session", Null, Null, f, NoLabel)
Torn == Entry("torn", Null, Null, Null, NoLabel)
Garbage == Entry("garbage", Null, Null, Null, NoLabel)

IsLabel(l) == l.kind = "label"
IsMessage(l) == l.kind \in {"user", "assistant"}

\* The lines of some kinds, in their order: most often all of them.
OfKinds(lines, kinds) ==
  LET first[n \in 0 .. Len(lines)] ==
        IF n = 0 THEN <<>>
        ELSE first[n - 1] \o IF lines[n].kind \in kinds THEN <<lines[n]>> ELSE <<>>
  IN  IF \A i \in DOMAIN lines : lines[i].kind \in kinds THEN lines ELSE first[Len(lines)]

ReadableKinds == LineKinds \ {"torn", "garbage"}
Readable(lines) == OfKinds(lines, ReadableKinds)
EntriesOf(lines) == OfKinds(lines, LineKinds \ {"session"})
WithoutLabels(lines) == OfKinds(lines, LineKinds \ {"label"})

\* loadEntriesFromFile: malformed lines are skipped, and a file that does not
\* start with a session header is as good as empty.
HasHeader(content) ==
  /\ content # Absent
  /\ \E i \in DOMAIN content :
       content[i].kind = "session" /\ \A j \in 1 .. i - 1 : content[j].kind \notin ReadableKinds

Loaded(content) == IF HasHeader(content) THEN Readable(content) ELSE <<>>

\* appendFileSync of some lines: the first one ends up on the end of a torn line.
Written(content, lines) ==
  IF content = Absent THEN lines
  ELSE IF lines # <<>> /\ content # <<>> /\ content[Len(content)].kind = "torn"
       THEN SubSeq(content, 1, Len(content) - 1) \o <<Garbage>> \o Tail(lines)
  ELSE content \o lines

HasAssistant(lines) == \E i \in DOMAIN lines : lines[i].kind = "assistant"
IdsOf(lines) == {lines[i].id : i \in DOMAIN lines} \ {Null}
EntryOf(lines, id) == lines[CHOOSE i \in DOMAIN lines : lines[i].id = id]

\* _buildIndex: the last label change of an entry wins, the last entry is the leaf.
LabelsIn(lines) ==
  [i \in Ids |->
    LET changes == {k \in DOMAIN lines : IsLabel(lines[k]) /\ lines[k].ref = i}
    IN  IF changes = {} THEN NoLabel ELSE lines[Max(changes)].label]
LastId(lines) == lines[Len(lines)].id

\* getBranch: from an entry up through the parents that are found, root first.
Branch(lines, from) ==
  LET up[n \in 0 .. Len(lines)] ==
        IF n = 0 THEN IF from \in IdsOf(lines) THEN <<EntryOf(lines, from)>> ELSE <<>>
        ELSE LET path == up[n - 1]
             IN  IF path # <<>> /\ Head(path).parent \in IdsOf(lines)
                 THEN <<EntryOf(lines, Head(path).parent)>> \o path
                 ELSE path
  IN  up[Len(lines)]

-----------------------------------------------------------------------------
(* buildSessionContext: what the model sees at a leaf. *)

ContextKinds == {"user", "assistant", "custom_message", "branch_summary"}
IdSeq(lines) == [i \in DOMAIN lines |-> lines[i].id]

LastIdOf(path, kinds) ==
  LET hits == {k \in DOMAIN path : path[k].kind \in kinds}
  IN  IF hits = {} THEN Null ELSE path[Max(hits)].id

KeptOf(path, compaction) ==
  LET at == SelectInSeq(path, LAMBDA l : l.id = compaction)
      first == SelectInSeq(SubSeq(path, 1, at - 1), LAMBDA l : l.id = path[at].ref)
      before == IF first = 0 THEN <<>> ELSE SubSeq(path, first, at - 1)
  IN  before \o SubSeq(path, at + 1, Len(path))

Messages(path) ==
  LET compaction == LastIdOf(path, {"compaction"})
  IN  IF compaction = Null THEN IdSeq(OfKinds(path, ContextKinds))
      ELSE <<compaction>> \o IdSeq(OfKinds(KeptOf(path, compaction), ContextKinds))

Context(lines, leaf) ==
  LET path == Branch(lines, leaf)
  IN  [messages |-> Messages(path),
       thinkingLevel |-> LastIdOf(path, {"thinking_level_change"}),
       model |-> LastIdOf(path, {"model_change", "assistant"})]

-----------------------------------------------------------------------------
(* The manager. *)

Fresh(f, persist) ==
  [persist |-> persist, file |-> f, fileEntries |-> <<Header(f)>>,
   labels |-> [i \in Ids |-> NoLabel], leafId |-> Null, flushed |-> FALSE]

Indexed(f, persist, lines, flushed) ==
  [persist |-> persist, file |-> f, fileEntries |-> lines,
   labels |-> LabelsIn(lines), leafId |-> LastId(lines), flushed |-> flushed]

\* setSessionFile and the constructor: the manager of file f and the disk after it.
OpenedManager(d, f) ==
  IF d[f] = Absent THEN Fresh(f, TRUE)
  ELSE IF Loaded(d[f]) = <<>> THEN [Fresh(f, TRUE) EXCEPT !.flushed = TRUE]
  ELSE Indexed(f, TRUE, Loaded(d[f]), TRUE)

\* Seeded fault: one malformed line makes the file start afresh.
OpenedDiskAfresh(d, f) ==
  IF d[f] # Absent /\ Readable(d[f]) # d[f] THEN [d EXCEPT ![f] = <<Header(f)>>] ELSE d

OpenedDisk(d, f) ==
  IF d[f] # Absent /\ Loaded(d[f]) = <<>> THEN [d EXCEPT ![f] = <<Header(f)>>] ELSE d

\* _appendEntry up to the write.
Pushed(s, e) == [s EXCEPT !.fileEntries = Append(@, e), !.leafId = e.id]

\* Seeded fault: the first assistant message writes only itself.
ToWriteLastOnly(s) ==
  IF ~s.persist \/ ~HasAssistant(s.fileEntries) THEN <<>>
  ELSE <<s.fileEntries[Len(s.fileEntries)]>>

\* Seeded fault: nothing holds the write back before the first assistant message.
ToWriteAtOnce(s) ==
  IF ~s.persist THEN <<>>
  ELSE IF s.flushed THEN <<s.fileEntries[Len(s.fileEntries)]>>
  ELSE s.fileEntries

\* _persist: nothing before the first assistant message, then all of it, then each entry.
ToWrite(s) ==
  IF ~s.persist \/ ~HasAssistant(s.fileEntries) THEN <<>>
  ELSE IF s.flushed THEN <<s.fileEntries[Len(s.fileEntries)]>>
  ELSE s.fileEntries

\* Seeded fault: flushed is not set once everything is written.
PersistedNeverFlushed(s) == [s EXCEPT !.flushed = FALSE]

Persisted(s) == [s EXCEPT !.flushed = IF s.persist THEN HasAssistant(s.fileEntries) ELSE @]

DiskAfter(s) ==
  IF ToWrite(s) = <<>> THEN disk
  ELSE [disk EXCEPT ![s.file] = Written(@, ToWrite(s))]

NewEntry(kind, ref, label) == Entry(kind, nextId, sm.leafId, ref, label)

Save(s) ==
  /\ nextId <= MaxEntries
  /\ sm' = Persisted(s)
  /\ disk' = DiskAfter(s)
  /\ nextId' = nextId + 1
  /\ UNCHANGED <<nextFile, crashes>>

-----------------------------------------------------------------------------
(* Operations of the running session. *)

\* appendMessage, appendCustomMessageEntry, appendModelChange, appendThinkingLevelChange,
\* appendCustomEntry and appendSessionInfo.
AppendEntry(kind) == Save(Pushed(sm, NewEntry(kind, Null, NoLabel)))

\* The first entry compaction keeps: a cut at a message-like entry, moved back
\* over the entries before it that are neither messages nor compactions.
KeptFrom(path) ==
  {i \in DOMAIN path :
     /\ i = 1 \/ IsMessage(path[i - 1]) \/ path[i - 1].kind = "compaction"
     /\ \E c \in i .. Len(path) :
          /\ path[c].kind \in ContextKinds
          /\ \A j \in i .. c - 1 : ~IsMessage(path[j]) /\ path[j].kind # "compaction"}

\* appendCompaction, for the cut prepareCompaction makes on the current branch.
AppendCompaction ==
  LET path == Branch(sm.fileEntries, sm.leafId)
  IN  /\ path # <<>>
      /\ path[Len(path)].kind # "compaction"
      /\ \E i \in KeptFrom(path) :
           Save(Pushed(sm, NewEntry("compaction", path[i].id, NoLabel)))

\* Seeded fault: clearing a label leaves the old one in the map.
LabelledKeepsOld(s, target, label) ==
  [s EXCEPT !.labels[target] = IF label = NoLabel THEN @ ELSE label]

Labelled(s, target, label) == [s EXCEPT !.labels[target] = label]

AppendLabelChange(target, label) ==
  /\ target \in IdsOf(sm.fileEntries)
  /\ Save(Labelled(Pushed(sm, NewEntry("label", target, label)), target, label))

MoveLeaf(id) ==
  /\ sm' = [sm EXCEPT !.leafId = id]
  /\ UNCHANGED <<disk, nextId, nextFile, crashes>>

\* Seeded fault: branch() does not look the entry up.
BranchToAnything(id) == MoveLeaf(id)

BranchTo(id) == id \in IdsOf(sm.fileEntries) /\ MoveLeaf(id)

ResetLeaf == MoveLeaf(Null)

BranchWithSummary(id) ==
  /\ id \in IdsOf(sm.fileEntries) \union {Null}
  /\ Save(Pushed(sm, Entry("branch_summary", nextId, id, Null, NoLabel)))

-----------------------------------------------------------------------------
(* Changing sessions. *)

FreshSession(persist) ==
  /\ nextFile <= MaxFiles
  /\ sm' = Fresh(nextFile, persist)
  /\ nextFile' = nextFile + 1
  /\ UNCHANGED <<disk, nextId, crashes>>

\* SessionManager.create makes a saved session, after an in-memory one too.
NewSession == FreshSession(TRUE)

\* fork before the first message: a new session of the same kind.
ForkAtRoot(id) ==
  /\ id \in IdsOf(sm.fileEntries)
  /\ EntryOf(sm.fileEntries, id).kind = "user" /\ EntryOf(sm.fileEntries, id).parent = Null
  /\ FreshSession(sm.persist)

\* SessionManager.open and continueRecent on a file that is there.
Resume(f) ==
  /\ disk[f] # Absent
  /\ sm' = OpenedManager(disk, f)
  /\ disk' = OpenedDisk(disk, f)
  /\ UNCHANGED <<nextId, nextFile, crashes>>

\* forkFrom: the entries of a file under a header of their own.
ForkFrom(f) ==
  LET copy == <<Header(nextFile)>> \o EntriesOf(Loaded(disk[f]))
      d == [disk EXCEPT ![nextFile] = copy]
  IN  /\ sm.persist
      /\ nextFile <= MaxFiles
      /\ Loaded(disk[f]) # <<>>
      /\ sm' = OpenedManager(d, nextFile)
      /\ disk' = d
      /\ nextFile' = nextFile + 1
      /\ UNCHANGED <<nextId, crashes>>

\* createBranchedSession: the branch without its label entries, and after it a
\* label entry for each label that is set on it (in some order).
LabelTargets(s, kept) ==
  SetToSeq({i \in Ids : s.labels[i] # NoLabel /\ i \in IdsOf(kept)})

LabelEntries(s, kept) ==
  LET targets == LabelTargets(s, kept)
  IN  [k \in DOMAIN targets |->
        Entry("label", nextId + k - 1,
              IF k > 1 THEN nextId + k - 2 ELSE IF kept = <<>> THEN Null ELSE LastId(kept),
              targets[k], s.labels[targets[k]])]

\* Seeded fault: the branch leaves the entries out that no context shows.
BranchedEntriesShownOnly(s, path, f) ==
  LET kept == OfKinds(path, ContextKinds \union {"compaction"})
  IN  <<Header(f)>> \o kept \o LabelEntries(s, kept)

\* Seeded fault: the last entry of the branch is left behind.
BranchedEntriesOffByOne(s, path, f) ==
  LET kept == WithoutLabels(SubSeq(path, 1, Len(path) - 1))
  IN  <<Header(f)>> \o kept \o LabelEntries(s, kept)

\* Seeded fault: the labels are not written again.
BranchedEntriesNoLabels(s, path, f) == <<Header(f)>> \o WithoutLabels(path)

BranchedEntries(s, path, f) ==
  LET kept == WithoutLabels(path)
  IN  <<Header(f)>> \o kept \o LabelEntries(s, kept)

\* The file is written now only when the branch holds an assistant message.
BranchedDisk(d, f, lines) == IF HasAssistant(lines) THEN [d EXCEPT ![f] = lines] ELSE d

ForkPoint(id) ==
  /\ nextFile <= MaxFiles
  /\ id \in IdsOf(sm.fileEntries)
  /\ EntryOf(sm.fileEntries, id).kind = "user"
  /\ EntryOf(sm.fileEntries, id).parent # Null

\* AgentSessionRuntime.fork of a saved session before the user message id: the
\* file is opened again, branched, and the branch opened in turn.
ForkSaved(id) ==
  LET parent == EntryOf(sm.fileEntries, id).parent
      source == OpenedManager(disk, sm.file)
      path == Branch(source.fileEntries, parent)
      lines == BranchedEntries(source, path, nextFile)
      d == BranchedDisk(OpenedDisk(disk, sm.file), nextFile, lines)
  IN  /\ sm.persist
      /\ ForkPoint(id)
      /\ path # <<>>
      /\ nextId + Len(LabelTargets(source, path)) - 1 <= MaxEntries
      /\ sm' = OpenedManager(d, nextFile)
      /\ disk' = d
      /\ nextFile' = nextFile + 1
      /\ nextId' = nextId + Len(LabelTargets(source, path))
      /\ UNCHANGED crashes

\* The same of an in-memory session, which is branched in place.
ForkInMemory(id) ==
  LET parent == EntryOf(sm.fileEntries, id).parent
      path == Branch(sm.fileEntries, parent)
      lines == BranchedEntries(sm, path, nextFile)
  IN  /\ ~sm.persist
      /\ ForkPoint(id)
      /\ path # <<>>
      /\ nextId + Len(LabelTargets(sm, path)) - 1 <= MaxEntries
      /\ sm' = Indexed(sm.file, FALSE, lines, sm.flushed)
      /\ nextFile' = nextFile + 1
      /\ nextId' = nextId + Len(LabelTargets(sm, path))
      /\ UNCHANGED <<disk, crashes>>

-----------------------------------------------------------------------------
(* The process dies while it appends: the first n lines of the write are on  *)
(* the disk, perhaps with a piece of the next one.  A new process opens one  *)
(* of the files, or starts a session.                                        *)

Interrupted(content, lines, n, torn) ==
  LET whole == Written(content, SubSeq(lines, 1, n))
      endsTorn == whole # <<>> /\ whole[Len(whole)].kind = "torn"
  IN  IF torn /\ ~endsTorn THEN Append(whole, Torn) ELSE whole

CrashWhileAppending(kind) ==
  LET s == Pushed(sm, NewEntry(kind, Null, NoLabel))
  IN  /\ sm.persist
      /\ crashes < MaxCrashes
      /\ nextId <= MaxEntries
      /\ ToWrite(s) # <<>>
      /\ \E n \in 0 .. Len(ToWrite(s)) - 1, torn \in BOOLEAN :
           LET d == [disk EXCEPT ![sm.file] = Interrupted(@, ToWrite(s), n, torn)]
           IN  \E f \in Files :
                 \/ /\ d[f] # Absent
                    /\ sm' = OpenedManager(d, f)
                    /\ disk' = OpenedDisk(d, f)
                    /\ UNCHANGED nextFile
                 \/ /\ f = nextFile
                    /\ sm' = Fresh(f, TRUE)
                    /\ disk' = d
                    /\ nextFile' = nextFile + 1
      /\ nextId' = nextId + 1
      /\ crashes' = crashes + 1

-----------------------------------------------------------------------------
Init ==
  /\ disk = [f \in Files |-> Absent]
  /\ \E persist \in Persists : sm = Fresh(1, persist)
  /\ nextId = 1
  /\ nextFile = 2
  /\ crashes = 0

\* An operation with entries of some kinds, or a change of session.
Operate(kinds) ==
  \/ \E kind \in kinds \ {"compaction", "branch_summary"} : AppendEntry(kind)
  \/ "compaction" \in kinds /\ AppendCompaction
  \/ \E id \in Ids : BranchTo(id)
  \/ \E id \in Ids \union {Null} : "branch_summary" \in kinds /\ BranchWithSummary(id)
  \/ ResetLeaf
  \/ \E id \in Ids : ForkSaved(id) \/ ForkInMemory(id) \/ ForkAtRoot(id)
  \/ NewSession
  \/ \E f \in Files : Resume(f) \/ ForkFrom(f)

\* A user sets or clears a bookmark.
Mark ==
  \E id \in Ids, label \in LabelNames \union {NoLabel} :
    LabelNames # {} /\ AppendLabelChange(id, label)

Crash(kinds) ==
  \E kind \in kinds \ {"compaction", "branch_summary"} : CrashWhileAppending(kind)

Next == Operate(Kinds) \/ Mark \/ Crash(Kinds)

Spec == Init /\ [][Next]_vars

-----------------------------------------------------------------------------
(* Properties. *)

Manager == [persist : BOOLEAN, file : Files, fileEntries : Seq(Line),
            labels : [Ids -> LabelNames \union {NoLabel}],
            leafId : Ids \union {Null}, flushed : BOOLEAN]

\* The types of the variables, and a leaf that is one of the entries.
TypeOK ==
  /\ disk \in [Files -> Seq(Line) \union {Absent}]
  /\ sm \in Manager
  /\ nextId \in 1 .. MaxEntries + 1
  /\ nextFile \in 2 .. MaxFiles + 1
  /\ crashes \in 0 .. MaxCrashes
  /\ sm.leafId \in IdsOf(sm.fileEntries) \union {Null}

\* Once a saved session holds an assistant message, opening its file gives back
\* every entry it has in memory, whatever was deferred before and however the
\* session came about: flushed, the _persist guard and createBranchedSession agree.
SavedIsReloadable ==
  (crashes = 0 /\ sm.persist /\ HasAssistant(sm.fileEntries))
    => Loaded(disk[sm.file]) = sm.fileEntries

\* What test/session-manager/tree-traversal.test.ts expects of a file: one
\* header, and no entry written twice.
OneHeaderNoDuplicates ==
  \A f \in Files :
    LET lines == Loaded(disk[f])
    IN  \A i, j \in DOMAIN lines : i # j => lines[i].id # lines[j].id

\* The bookmarks the manager shows are the ones its entries record, so a reload
\* shows the same ones.
LabelsAreRecorded == sm.labels = LabelsIn(sm.fileEntries)

\* The first kept entry of a compaction is an ancestor of it: otherwise the
\* context loses every message the compaction meant to keep.
CompactionKeepsItsTail ==
  \A i \in DOMAIN sm.fileEntries :
    LET e == sm.fileEntries[i]
    IN  e.kind = "compaction" => e.ref \in IdsOf(Branch(sm.fileEntries, e.parent))

\* Every parent is in the session, so a branch reaches the root of its tree.
ParentsPresent ==
  crashes = 0 =>
    \A i \in DOMAIN sm.fileEntries :
      sm.fileEntries[i].parent \in IdsOf(sm.fileEntries) \union {Null}

\* No step, a crash included, takes a saved entry away or reorders what is saved.
NothingSavedIsLost ==
  [][\A f \in Files :
       disk'[f] # disk[f] => IsPrefix(Loaded(disk[f]), Loaded(disk'[f]))]_vars

\* The fork at the user message id starts from the context before that message.
ForkKeeps(id) ==
  Context(sm'.fileEntries, sm'.leafId) =
    Context(sm.fileEntries, EntryOf(sm.fileEntries, id).parent)

\* A fork of a branch that holds an assistant message starts from the context
\* the branch had ("Create a new session file containing only the path from root
\* to the specified leaf").
AnsweredForkKeeps ==
  nextFile' # nextFile =>
    \A id \in Ids :
      /\ ForkSaved(id) \/ ForkInMemory(id) \/ ForkAtRoot(id)
      /\ HasAssistant(Branch(sm.fileEntries, EntryOf(sm.fileEntries, id).parent))
      => ForkKeeps(id)
AnsweredForkKeepsContext == [][AnsweredForkKeeps]_vars

\* A fork carries over the labels of the entries it keeps.
ForkKeepsLabels ==
  [][nextFile' # nextFile => \A id \in Ids : ForkInMemory(id) =>
       \A i \in IdsOf(sm'.fileEntries) \ {sm'.fileEntries[j].id : j \in
            {k \in DOMAIN sm'.fileEntries : IsLabel(sm'.fileEntries[k])}} :
         sm'.labels[i] = sm.labels[i]]_vars
=============================================================================
