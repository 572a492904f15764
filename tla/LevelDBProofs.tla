--------------------------- MODULE LevelDBProofs ----------------------------
(***************************************************************************)
(* Theorems about LevelDB, for any number of writes, faults, crashes,      *)
(* readers and any buffer and triggers.  IInv is the inductive invariant:  *)
(* what the flush, the compaction and the opening of the database hold     *)
(* while their steps interleave with the writers and with each other.      *)
(***************************************************************************)
EXTENDS LevelDB, FiniteSetTheorems, SequenceTheorems, WellFoundedInduction, TLAPS

\* The database is up: open, or waiting for the background thread to be closed.
Up == status \in {"open", "closing"}

\* An edit is about to be written to the manifest, or it is there and is about to
\* be installed in memory.
Applying == flush.step = "apply" \/ compaction.step = "apply" \/ status = "logging"

Installing == flush.step = "install" \/ compaction.step = "install" \/ status = "installing"

\* The writes in a set of tables.
Held(S) == UNION {tables[t] : t \in S}

\* The tables that reads under way hold.
Read == UNION {DOMAIN v : v \in readers}

\* Types, the shape of records, and writers that are numbered as they come.
Types ==
    /\ TypeOK
    /\ DOMAIN leader = {"step", "count"}
    /\ DOMAIN compaction = {"step", "inputs", "base", "output"}
    /\ DOMAIN edit = {"added", "deleted", "log", "next"}
    /\ DOMAIN manifest = {"tables", "log", "next", "end"}
    /\ \A i \in 1..Len(writers) : writers[i] < nextWrite

\* What can be under way at the same time.
Control ==
    /\ ~Up => /\ flush = NoFlush /\ compaction = NoCompaction /\ ~bgError
              /\ pending = {} /\ readers = {}
              /\ writers = << >> /\ leader = NoLeader /\ mem = {} /\ imm = {}
    /\ status = "down" => current = << >> /\ edit = NoEdit
    /\ status # "recovering" => toRecover = {}
    /\ flush.step = "none" => flush = NoFlush
    /\ compaction.step = "none" => compaction = NoCompaction
    /\ flush.step # "none" => imm # {} /\ compaction.step \in {"none", "work", "output"}
    /\ Up /\ flush.step \in {"none", "build"}
          /\ compaction.step \in {"none", "work", "output"} => edit = NoEdit

\* The manifest says what memory says, up to the edit that is being installed,
\* unless there was an error.
Agreement ==
    status # "down" /\ ~bgError =>
        /\ manifest.tables = IF Installing THEN Apply(current, edit) ELSE current
        /\ manifest.log = IF Installing THEN edit.log ELSE logNumber

\* Besides the files needed: the flush's table is nobody else's, and the output
\* of a compaction is held until it is in a version.
Files ==
    /\ NeededFilesExist
    /\ flush.step = "build" =>
          /\ flush.table \in pending
          /\ flush.table \notin DOMAIN manifest.tables \cup DOMAIN current
                \cup DOMAIN compaction.base \cup Read \cup {compaction.output}
    /\ compaction.step = "output" => compaction.output # 0
    /\ compaction.output # 0 => compaction.output \in pending
    /\ toRecover \subseteq DOMAIN logs

\* The numbers of files in use are behind the next number, in memory and in the manifest,
\* and no log in use is before the ones that memory and the manifest start from.
Numbers ==
    /\ manifest.log <= manifest.next /\ edit.log <= edit.next
    /\ \A t \in DOMAIN manifest.tables : t < manifest.next
    /\ status # "down" =>
          /\ manifest.next <= nextFile /\ edit.next <= nextFile
          /\ \A t \in DOMAIN current \cup DOMAIN compaction.base \cup Read \cup pending
                          \cup DOMAIN edit.added : t < nextFile
          /\ \A n \in DOMAIN logs \ toRecover : n < nextFile
    /\ Applying => manifest.next <= edit.next /\ \A t \in DOMAIN edit.added : t < edit.next
    /\ status \in {"logging", "installing"} =>
          edit.log = logfileNumber /\ logfileNumber \in DOMAIN logs
    /\ Up => logNumber <= logfileNumber /\ manifest.log <= logfileNumber
    /\ flush.step \in {"apply", "install"} => edit.log = logfileNumber
    /\ compaction.step \in {"apply", "install"} => edit.log = logNumber

\* What the edit under way adds and deletes.
Edits ==
    /\ flush.step \in {"apply", "install"} =>
          DOMAIN edit.added = {flush.table} /\ edit.deleted = {}
    /\ flush.step = "install" => flush.table \in DOMAIN manifest.tables
    /\ compaction.step \in {"apply", "install"} =>
          /\ edit.deleted = compaction.inputs
          /\ DOMAIN edit.added = IF compaction.output = 0 THEN compaction.inputs
                                                          ELSE {compaction.output}
    /\ status \in {"recovering", "logging", "installing"} => edit.deleted = {}

\* A flush's table holds what its memtable holds, the output of a compaction what its
\* inputs hold together.
Outputs ==
    /\ flush.step # "none" => tables[flush.table] = imm
    /\ compaction.output # 0 => tables[compaction.output] = Held(compaction.inputs)

\* Where a write that was reported done is found, before any crash.
Found ==
    /\ Up => /\ acked \subseteq mem \cup imm \cup Held(DOMAIN current)
             /\ acked \subseteq mem \cup imm \cup Held(DOMAIN manifest.tables)
    /\ ~Up => acked \subseteq Recoverable(Lengths)
    /\ status = "recovering" =>
          acked \subseteq Held(DOMAIN current \cup DOMAIN edit.added)
                            \cup UNION {ReadLog(n, Len(logs[n])) : n \in toRecover}
    /\ status \in {"logging", "installing"} =>
          acked \subseteq Held(DOMAIN current \cup DOMAIN edit.added)

\* Write w is in a whole record of log n, and of its synced part.
InLog(w, n) ==
    /\ n \in DOMAIN logs
    /\ \E i \in 1..Len(logs[n]) : logs[n][i].whole /\ w \in logs[n][i].writes

InSynced(w, n) ==
    /\ n \in DOMAIN logs
    /\ \E i \in 1..synced[n] : logs[n][i].whole /\ w \in logs[n][i].writes

\* What is in a memtable is in a log that the manifest does not pass over yet, or
\* in one of its tables.
Logged ==
    Up => /\ \A w \in mem : InLog(w, logfileNumber)
          /\ \A w \in imm : \E n \in DOMAIN logs : n >= logNumber /\ InLog(w, n)
          /\ manifest.log <= logNumber \/ imm \subseteq Held(DOMAIN manifest.tables)
          /\ leader.step \in {"sync", "insert"} =>
                \A i \in 1..leader.count : InLog(writers[i], logfileNumber)

\* ProcessMayDie and MachineMayDie, of what the records of a damaged manifest say too.
ProcessFinds == \A w \in acked : w \in Recoverable(Lengths) \/ BehindTorn(w)

MachineFinds == \A w \in acked \cap SyncWrites : w \in Recoverable(synced) \/ BehindTorn(w)

\* The same of the writes that asked for a sync and the synced part of the logs.
Synced ==
    /\ ~Up => MachineFinds
    /\ Up => /\ \A w \in mem \cap SyncWrites : InSynced(w, logfileNumber)
             /\ \A w \in imm \cap SyncWrites :
                    \E n \in DOMAIN logs : n >= logNumber /\ InSynced(w, n)
             /\ leader.step = "insert" =>
                    \A i \in 1..leader.count :
                        writers[i] \in SyncWrites => InSynced(writers[i], logfileNumber)

\* The inductive invariant.
IInv ==
    /\ Types /\ Control /\ Agreement /\ Files /\ Numbers
    /\ Edits /\ Outputs /\ Found /\ Logged /\ Synced

-----------------------------------------------------------------------------
(* Lemmas about the operators of the model.                                *)

\* Min picks an element.
LEMMA MinIsIn ==
    ASSUME NEW S \in SUBSET Nat, S # {}
    PROVE  Min(S) \in S
<1>1. \E x \in S : \A y \in S : ~(<<y, x>> \in OpToRel(<, Nat))
    BY NatLessThanWellFounded, WFMin, Zenon
<1>2. \A x, y \in Nat : y < x => <<y, x>> \in OpToRel(<, Nat)
    BY Zenon DEF OpToRel
<1>3. \E x \in S : \A y \in S : ~(y < x)
    BY <1>1, <1>2, Zenon
<1>4. \E x \in S : \A y \in S : x <= y
    BY <1>3
<1> QED
    BY <1>4 DEF Min

\* The tables of the next version, at levels 0 or 1.
LEMMA VersionApply ==
    ASSUME NEW v, NEW e, IsVersion(v), IsEdit(e)
    PROVE  /\ IsVersion(Apply(v, e))
           /\ DOMAIN Apply(v, e) = DOMAIN e.added \cup (DOMAIN v \ e.deleted)
    BY DEF IsVersion, IsEdit, Apply

\* What a log holds are writes.
LEMMA ReadLogWrites ==
    ASSUME NEW n, NEW len, logs[n] \in Seq(Record), len \in 0..Len(logs[n])
    PROVE  ReadLog(n, len) \subseteq Writes
<1>1. \A i \in 1..len : logs[n][i] \in Record
    BY ElementOfSeq
<1> QED
    BY <1>1 DEF ReadLog, Record

\* The first writers of the queue, and the ones behind them.
LEMMA QueueSplits ==
    ASSUME NEW S, NEW q \in Seq(S), NEW n \in 0..Len(q)
    PROVE  /\ ToSet(SubSeq(q, 1, n)) = {q[i] : i \in 1..n}
           /\ SubSeq(q, n + 1, Len(q)) \in Seq(S)
           /\ Len(SubSeq(q, n + 1, Len(q))) = Len(q) - n
           /\ \A i \in 1..(Len(q) - n) : SubSeq(q, n + 1, Len(q))[i] = q[n + i]
<1> DEFINE group == SubSeq(q, 1, n)
           rest == SubSeq(q, n + 1, Len(q))
<1>0. Len(q) \in Nat /\ \A i \in 1..Len(q) : q[i] \in S
    BY LenProperties, ElementOfSeq
<1>1. group \in Seq(S) /\ Len(group) = n /\ \A i \in 1..n : group[i] = q[i]
  <2>1. \A i \in 1..n : q[i] \in S
    BY <1>0
  <2> QED
    BY <1>0, <2>1, SubSeqProperties
<1>2. rest \in Seq(S) /\ Len(rest) = Len(q) - n /\ \A i \in 1..(Len(q) - n) : rest[i] = q[n + i]
  <2>1. \A i \in (n + 1)..Len(q) : q[i] \in S
    BY <1>0
  <2>2. /\ rest \in Seq(S)
        /\ Len(rest) = IF n + 1 <= Len(q) THEN Len(q) - (n + 1) + 1 ELSE 0
        /\ \A i \in 1..(Len(q) - (n + 1) + 1) : rest[i] = q[(n + 1) + i - 1]
    BY <1>0, <2>1, SubSeqProperties
  <2> QED
    BY <1>0, <2>2
<1> HIDE DEF group
<1>3. DOMAIN group = 1..n
    BY <1>1, LenProperties
<1>4. ToSet(group) = {q[i] : i \in 1..n}
    BY <1>1, <1>3 DEF ToSet
<1> QED
    BY <1>2, <1>4 DEF group

-----------------------------------------------------------------------------
(* Types.                                                                  *)

\* The parts of Types: the logs, the tables, the writers and their memtables, the versions
\* and numbers, the work under way, the flags.
LogsOK ==
    /\ DOMAIN logs \subseteq Nat /\ DOMAIN synced = DOMAIN logs
    /\ \A n \in DOMAIN logs : logs[n] \in Seq(Record) /\ synced[n] \in 0..Len(logs[n])

TablesOK == DOMAIN tables \subseteq Nat /\ \A t \in DOMAIN tables : tables[t] \subseteq Writes

WritersOK ==
    /\ writers \in Seq(Writes)
    /\ DOMAIN leader = {"step", "count"}
    /\ leader.step \in {"none", "sync", "insert", "failed", "syncFailed"}
    /\ leader.count \in 0..Len(writers)
    /\ mem \subseteq Writes /\ imm \subseteq Writes
    /\ nextWrite \in 1..(MaxWrites + 1)
    /\ acked \subseteq 1..(nextWrite - 1)
    /\ \A i \in 1..Len(writers) : writers[i] < nextWrite

VersionsOK ==
    /\ IsVersion(manifest.tables) /\ manifest.log \in Nat /\ manifest.next \in Nat
    /\ manifest.end \in Ends /\ DOMAIN manifest = {"tables", "log", "next", "end"}
    /\ logfileNumber \in Nat /\ logNumber \in Nat /\ nextFile \in Nat
    /\ IsVersion(current) /\ (\A v \in readers : IsVersion(v))
    /\ IsEdit(edit)
    /\ DOMAIN edit = {"added", "deleted", "log", "next"}
    /\ pending \subseteq Nat /\ toRecover \subseteq Nat

ThreadOK ==
    /\ status \in {"down", "recovering", "logging", "installing", "open", "closing"}
    /\ flush \in Flush
    /\ compaction.step \in {"none", "work", "output", "apply", "install"}
    /\ IsVersion(compaction.base) /\ compaction.inputs \subseteq DOMAIN compaction.base
    /\ compaction.output \in Nat
    /\ DOMAIN compaction = {"step", "inputs", "base", "output"}
    /\ faults \in 0..MaxFaults /\ crashes \in 0..MaxCrashes

FlagsOK == scheduled \in BOOLEAN /\ bgError \in BOOLEAN

\* Types is its parts.
LEMMA TypesParts ==
    Types <=> LogsOK /\ TablesOK /\ WritersOK /\ VersionsOK /\ ThreadOK /\ FlagsOK
  BY DEF Types, TypeOK, LogsOK, TablesOK, WritersOK, VersionsOK, ThreadOK, FlagsOK

\* The queue and the memtables keep their types, and the next write is behind all
\* writers.
LEMMA WritersKept == ASSUME Types, Control, Works PROVE WritersOK'
<1> USE DEF WritersOK, NoLeader
<1>0. WritersOK /\ MaxWrites \in Nat
    BY TypesParts, LevelDBAssumption
<1>1. ASSUME Write PROVE WritersOK'
    BY <1>0, <1>1 DEF Write, Writes
<1>2. ASSUME SwitchMemTable PROVE WritersOK'
    BY <1>0, <1>2 DEF SwitchMemTable
<1>3. ASSUME RefuseWrite PROVE WritersOK'
    BY <1>0, <1>3 DEF RefuseWrite, MayLead, disk, background, versions
<1>4. ASSUME AddRecord PROVE WritersOK'
    BY <1>0, <1>4 DEF AddRecord, MayLead, BuildBatchGroup
<1>5. ASSUME SyncLog PROVE WritersOK'
    BY <1>0, <1>5 DEF SyncLog
<1>6. ASSUME FinishWrite PROVE WritersOK'
  <2> DEFINE group == ToSet(SubSeq(writers, 1, leader.count))
  <2>1. group \subseteq 1..(nextWrite - 1) /\ group \subseteq Writes
    <3>1. group = {writers[i] : i \in 1..leader.count}
      BY <1>0, QueueSplits
    <3>2. \A i \in 1..leader.count : writers[i] \in 1..(nextWrite - 1) /\ writers[i] \in Writes
      BY <1>0 DEF Writes
    <3> QED
      BY <3>1, <3>2
  <2> HIDE DEF group
  <2>2. /\ writers' = SubSeq(writers, leader.count + 1, Len(writers))
        /\ leader' = NoLeader /\ nextWrite' = nextWrite /\ imm' = imm
        /\ mem' \in {mem, mem \cup group} /\ acked' \in {acked, acked \cup group}
    BY <1>6 DEF FinishWrite, group
  <2>3. /\ writers' \in Seq(Writes)
        /\ \A i \in 1..Len(writers') : writers'[i] < nextWrite
    <3>1. leader.count \in 0..Len(writers) /\ Len(writers) \in Nat
      BY <1>0
    <3>2. /\ writers' \in Seq(Writes) /\ Len(writers') = Len(writers) - leader.count
          /\ \A i \in 1..(Len(writers) - leader.count) :
                writers'[i] = writers[leader.count + i]
      BY <1>0, <2>2, QueueSplits
    <3> QED
      BY <1>0, <3>1, <3>2
  <2>4. mem' \subseteq Writes /\ acked' \subseteq 1..(nextWrite - 1)
    BY <1>0, <2>1, <2>2
  <2>5. leader'.count \in 0..Len(writers')
    BY <2>2, <2>3
  <2> QED
    BY <1>0, <2>2, <2>3, <2>4, <2>5
<1>7. ASSUME Background \/ ReadBegins \/ ReadEnds \/ Close PROVE WritersOK'
    BY <1>0, <1>7 DEF Background, BackgroundIdle, CompactMemTable, WriteLevel0Table, FlushLogged,
        FlushInstalled, StartCompaction, OpenCompactionOutputFile, InstallCompactionResults,
        CompactionFails, CompactionLogged, CompactionInstalled, ReadBegins, ReadEnds, Close, writing
<1>8. ASSUME Closed \/ ProcessCrash \/ MachineCrash PROVE WritersOK'
  <2>1. MemoryLost
    BY <1>8 DEF Closed, ProcessCrash, MachineCrash
  <2>2. /\ writers' = << >> /\ leader' = NoLeader /\ mem' = {} /\ imm' = {}
        /\ nextWrite' = nextWrite /\ acked' \subseteq acked
    BY <2>1 DEF MemoryLost
  <2>3. leader'.count \in 0..Len(writers') /\ writers' \in Seq(Writes)
    BY <2>2
  <2> QED
    BY <1>0, <2>2, <2>3
<1>9. ASSUME Recover \/ RecoverLogFile \/ NewLog \/ OpenLogged \/ Opened PROVE WritersOK'
    BY <1>0, <1>9 DEF Recover, RecoverLogFile, NewLog, OpenLogged, Opened, writing
<1> QED
    BY <1>1, <1>2, <1>3, <1>4, <1>5, <1>6, <1>7, <1>8, <1>9 DEF Works, FirstWriter

\* What a deletion leaves: all logs from number log on, and all tables in live.
FilesLeft(log, live) ==
    /\ DOMAIN logs' \subseteq DOMAIN logs /\ DOMAIN synced' = DOMAIN logs'
    /\ \A n \in DOMAIN logs' : logs'[n] = logs[n] /\ synced'[n] = synced[n]
    /\ \A n \in DOMAIN logs : n < log \/ n \in DOMAIN logs'
    /\ DOMAIN tables' \subseteq DOMAIN tables
    /\ \A t \in DOMAIN tables' : tables'[t] = tables[t]
    /\ DOMAIN tables \cap live \subseteq DOMAIN tables'

\* DeleteObsoleteFiles leaves the files of live versions and outputs, and all of them after
\* an error.
LEMMA DeletionLeaves ==
    ASSUME NEW v, NEW base, NEW out, NEW log, NEW error, DOMAIN synced = DOMAIN logs,
           DeleteObsoleteFiles(v, base, out, log, error)
    PROVE  FilesLeft(log, IF error THEN DOMAIN tables ELSE Live(v, base, out))
<1>1. CASE error
    BY <1>1 DEF DeleteObsoleteFiles, FilesLeft
<1>2. CASE ~error
    BY <1>2 DEF DeleteObsoleteFiles, FilesLeft, Without
<1> QED
    BY <1>1, <1>2

\* So does the end of a flush: the version a compaction holds is live,
LEMMA FlushInstalledLeaves ==
    ASSUME Types, FlushInstalled
    PROVE  FilesLeft(edit.log, IF bgError THEN DOMAIN tables
                               ELSE Live(current', compaction.base, pending))
<1> QED
    BY DeletionLeaves DEF FlushInstalled, Types, TypeOK

\* so does the end of a compaction,
LEMMA CompactionInstalledLeaves ==
    ASSUME Types, CompactionInstalled
    PROVE  /\ FilesLeft(edit.log, IF bgError \/ compaction.output = 0 THEN DOMAIN tables
                                  ELSE Live(current', << >>, pending'))
           /\ compaction' = NoCompaction /\ edit' = NoEdit
           /\ pending' = pending \ {compaction.output}
           /\ bgError' = bgError
<1>1. EndCompaction(current', edit.log, bgError) /\ DOMAIN synced = DOMAIN logs
    BY DEF CompactionInstalled, Types, TypeOK
<1>2. CASE compaction.output = 0
  <2>1. UNCHANGED <<logs, synced, tables>>
    BY <1>1, <1>2 DEF EndCompaction
  <2> QED
    BY <1>1, <1>2, <2>1 DEF EndCompaction, FilesLeft
<1>3. CASE compaction.output # 0
  <2>1. DeleteObsoleteFiles(current', << >>, pending', edit.log, bgError)
    BY <1>1, <1>3 DEF EndCompaction
  <2>2. FilesLeft(edit.log, IF bgError THEN DOMAIN tables ELSE Live(current', << >>, pending'))
    BY <1>1, <2>1, DeletionLeaves
  <2> QED
    BY <1>1, <1>3, <2>2 DEF EndCompaction
<1> QED
    BY <1>2, <1>3

\* and the end of the opening.
LEMMA OpenedLeaves ==
    ASSUME Types, Opened
    PROVE  FilesLeft(edit.log, Live(current', << >>, {}))
<1> QED
    BY DeletionLeaves DEF Opened, Types, TypeOK

\* A compaction that fails touches no file.
LEMMA ErrorLeavesAll ==
    ASSUME NEW v, NEW log, EndCompaction(v, log, TRUE)
    PROVE  /\ UNCHANGED <<logs, synced, tables>>
           /\ compaction' = NoCompaction /\ edit' = NoEdit
           /\ pending' = pending \ {compaction.output}
           /\ bgError' = TRUE
    BY DEF EndCompaction, DeleteObsoleteFiles

\* The next manifest says what it said before, however it ends, or what the edit makes
\* of that.
SameFiles ==
    /\ manifest'.tables = manifest.tables /\ manifest'.log = manifest.log
    /\ manifest'.next = manifest.next /\ manifest'.end \in Ends
    /\ DOMAIN manifest' = {"tables", "log", "next", "end"}

EditRecorded ==
    /\ manifest'.tables = Apply(manifest.tables, edit) /\ manifest'.log = edit.log
    /\ manifest'.next = edit.next /\ manifest'.end \in Ends
    /\ DOMAIN manifest' = {"tables", "log", "next", "end"}

\* A manifest that is left alone says what it said.
LEMMA ManifestLeft == ASSUME VersionsOK, UNCHANGED manifest PROVE SameFiles
    BY DEF VersionsOK, SameFiles

\* What writing to the manifest comes to.
LEMMA ManifestWritten ==
    ASSUME VersionsOK, NEW outcome, WriteManifest(outcome)
    PROVE  /\ EditRecorded \/ (outcome = "failed" /\ SameFiles)
           /\ outcome = "install" => UNCHANGED faults
           /\ outcome = "failed" => Fault
<1> DEFINE Recorded ==
            \E end \in EndAfterRecord(manifest.end) :
                manifest' = [tables |-> Apply(manifest.tables, edit), log |-> edit.log,
                             next |-> edit.next, end |-> end]
<1>1. /\ Recorded \/ (outcome = "failed"
                        /\ manifest' = [manifest EXCEPT !.end = IF @ = "whole" THEN "torn" ELSE @])
      /\ outcome = "install" => UNCHANGED faults
      /\ outcome = "failed" => Fault
    BY DEF WriteManifest
<1>2. Recorded => EditRecorded
    BY DEF EndAfterRecord, EditRecorded, Ends, VersionsOK
<1>3. manifest' = [manifest EXCEPT !.end = IF @ = "whole" THEN "torn" ELSE @] => SameFiles
    BY DEF SameFiles, Ends, VersionsOK
<1> QED
    BY <1>1, <1>2, <1>3

\* What CompactionLogged may come to.
LEMMA CompactionLoggedCases ==
    ASSUME Types, CompactionLogged
    PROVE  /\ UNCHANGED <<logs, synced, tables>>
           /\ \/ /\ EditRecorded
                 /\ compaction'.step = "install" /\ compaction'.inputs = compaction.inputs
                 /\ compaction'.base = compaction.base
                 /\ compaction'.output = compaction.output
                 /\ DOMAIN compaction' = {"step", "inputs", "base", "output"}
                 /\ UNCHANGED <<pending, edit, bgError, scheduled, faults>>
              \/ /\ Fault
                 /\ SameFiles \/ EditRecorded
                 /\ compaction' = NoCompaction /\ edit' = NoEdit
                 /\ pending' = pending \ {compaction.output}
                 /\ bgError' = TRUE
<1>0. VersionsOK /\ DOMAIN compaction = {"step", "inputs", "base", "output"}
    BY TypesParts DEF Types
<1>1. CASE WriteManifest("install") /\ compaction' = [compaction EXCEPT !.step = "install"]
           /\ UNCHANGED <<logs, synced, tables, pending, edit, bgError, scheduled>>
    BY <1>0, <1>1, ManifestWritten
<1>2. CASE WriteManifest("failed") /\ EndCompaction(current, logNumber, TRUE)
    BY <1>0, <1>2, ManifestWritten, ErrorLeavesAll
<1> QED
    BY <1>1, <1>2 DEF CompactionLogged

\* And what FlushLogged may come to.
LEMMA FlushLoggedCases ==
    ASSUME Types, FlushLogged
    PROVE  \/ /\ EditRecorded
              /\ flush' = [flush EXCEPT !.step = "install"]
              /\ UNCHANGED <<compaction, edit, scheduled, bgError>>
           \/ (SameFiles \/ EditRecorded) /\ FlushFails
<1>0. VersionsOK
    BY TypesParts
<1>1. CASE /\ WriteManifest("install")
           /\ flush' = [flush EXCEPT !.step = "install"]
           /\ UNCHANGED <<compaction, edit, scheduled, bgError>>
    BY <1>0, <1>1, ManifestWritten
<1>2. CASE WriteManifest("failed") /\ FlushFails
    BY <1>0, <1>2, ManifestWritten
<1> QED
    BY <1>1, <1>2 DEF FlushLogged

\* A new manifest says what the edit makes of the old one.
LEMMA NewManifest == ASSUME OpenLogged PROVE EditRecorded
    BY DEF OpenLogged, EditRecorded, Ends

\* What WriteLevel0Table may come to.
LEMMA WriteLevel0TableCases ==
    ASSUME flush \in Flush, WriteLevel0Table
    PROVE  \/ /\ status = "open" /\ UNCHANGED <<tables, bgError>>
              /\ flush'.step = "apply" /\ flush'.table = flush.table
              /\ DOMAIN edit'.added = {flush.table} /\ edit'.deleted = {}
              /\ edit'.log = logfileNumber /\ edit'.next = nextFile
           \/ /\ flush' = NoFlush /\ edit' = NoEdit /\ bgError' = TRUE
              /\ tables' = tables \/ tables' = Without(tables, {flush.table})
<1>1. ASSUME status = "open", flush' = [flush EXCEPT !.step = "apply"],
             UNCHANGED <<tables, bgError>>,
             NEW level \in {0, 1},
             LogAndApply([t \in {flush.table} |-> level], {}, logfileNumber)
      PROVE  /\ status = "open" /\ UNCHANGED <<tables, bgError>>
             /\ flush'.step = "apply" /\ flush'.table = flush.table
             /\ DOMAIN edit'.added = {flush.table} /\ edit'.deleted = {}
             /\ edit'.log = logfileNumber /\ edit'.next = nextFile
    BY <1>1 DEF LogAndApply, Flush
<1>2. ASSUME FlushFails, tables' = tables \/ tables' = Without(tables, {flush.table})
      PROVE  /\ flush' = NoFlush /\ edit' = NoEdit /\ bgError' = TRUE
             /\ tables' = tables \/ tables' = Without(tables, {flush.table})
    BY <1>2 DEF FlushFails
<1> QED
    BY <1>1, <1>2 DEF WriteLevel0Table

\* A compaction that fails before its edit is written touches no file either.
LEMMA CompactionFailsLeaves ==
    ASSUME CompactionFails
    PROVE  /\ UNCHANGED <<logs, synced, tables>>
           /\ compaction' = NoCompaction /\ edit' = NoEdit
           /\ pending' = pending \ {compaction.output}
           /\ bgError' = TRUE
    BY ErrorLeavesAll DEF CompactionFails

\* The logs are sequences of records, synced to somewhere within.
LEMMA LogsKept == ASSUME Types, Works PROVE LogsOK'
<1>0. LogsOK /\ nextFile \in Nat
    BY TypesParts DEF VersionsOK
<1>1. ASSUME SwitchMemTable \/ NewLog PROVE LogsOK'
  <2>1. logs' = With(logs, nextFile, << >>) /\ synced' = With(synced, nextFile, 0)
    BY <1>1 DEF SwitchMemTable, NewLog
  <2> QED
    BY <1>0, <2>1 DEF LogsOK, With
<1>2. ASSUME AddRecord PROVE LogsOK'
  <2>1. synced' = synced
    BY <1>2 DEF AddRecord
  <2>2. CASE UNCHANGED logs
    BY <1>0, <2>1, <2>2 DEF LogsOK
  <2>3. CASE logs' # logs
    <3>1. PICK n \in BuildBatchGroup, whole \in BOOLEAN :
            logs' = [logs EXCEPT ![logfileNumber] =
                        Append(@, [writes |-> ToSet(SubSeq(writers, 1, n)), whole |-> whole])]
      BY <1>2, <2>3 DEF AddRecord
    <3>2. [writes |-> ToSet(SubSeq(writers, 1, n)), whole |-> whole] \in Record
      <4>1. writers \in Seq(Writes) /\ n \in 0..Len(writers) /\ n \in 1..Len(writers)
        BY TypesParts DEF WritersOK, BuildBatchGroup
      <4>2. ToSet(SubSeq(writers, 1, n)) = {writers[i] : i \in 1..n}
        BY <4>1, QueueSplits
      <4>3. \A i \in 1..n : writers[i] \in Writes
        BY <4>1, ElementOfSeq
      <4> QED
        BY <4>2, <4>3 DEF Record
    <3> DEFINE r == [writes |-> ToSet(SubSeq(writers, 1, n)), whole |-> whole]
    <3> HIDE DEF r
    <3>3. \A m \in DOMAIN logs :
            logs'[m] = IF m = logfileNumber THEN Append(logs[m], r) ELSE logs[m]
      BY <3>1 DEF r
    <3>4. DOMAIN logs' = DOMAIN logs
      BY <3>1
    <3>5. ASSUME NEW m \in DOMAIN logs
          PROVE  logs'[m] \in Seq(Record) /\ synced[m] \in 0..Len(logs'[m])
      <4>1. logs[m] \in Seq(Record) /\ synced[m] \in 0..Len(logs[m])
        BY <1>0 DEF LogsOK
      <4>2. Append(logs[m], r) \in Seq(Record) /\ Len(Append(logs[m], r)) = Len(logs[m]) + 1
        BY <3>2, <4>1, AppendProperties DEF r
      <4>3. logs'[m] \in {logs[m], Append(logs[m], r)}
        BY <3>3
      <4>4. Len(logs[m]) \in Nat
        BY <4>1, LenProperties
      <4>5. CASE logs'[m] = logs[m]
        BY <4>1, <4>5
      <4>6. CASE logs'[m] = Append(logs[m], r)
        BY <4>1, <4>2, <4>4, <4>6
      <4> QED
        BY <4>3, <4>5, <4>6
    <3> QED
      BY <1>0, <2>1, <3>4, <3>5 DEF LogsOK
  <2> QED
    BY <2>2, <2>3
<1>3. ASSUME SyncLog PROVE LogsOK'
    BY <1>0, <1>3 DEF SyncLog, LogsOK
<1>4. ASSUME NEW log, NEW live, FilesLeft(log, live) PROVE LogsOK'
    BY <1>0, <1>4 DEF LogsOK, FilesLeft
<1>5. ASSUME FlushInstalled \/ CompactionInstalled \/ Opened PROVE LogsOK'
    BY <1>4, <1>5, FlushInstalledLeaves, CompactionInstalledLeaves, OpenedLeaves
<1>6. ASSUME MachineCrash PROVE LogsOK'
  <2>1. /\ DOMAIN synced' = DOMAIN logs /\ DOMAIN logs' = DOMAIN logs
        /\ \A n \in DOMAIN logs : /\ synced'[n] \in synced[n]..Len(logs[n])
                                  /\ logs'[n] = SubSeq(logs[n], 1, synced'[n])
    BY <1>6 DEF MachineCrash
  <2>2. ASSUME NEW n \in DOMAIN logs
        PROVE  logs'[n] \in Seq(Record) /\ synced'[n] \in 0..Len(logs'[n])
    <3>1. logs[n] \in Seq(Record) /\ synced[n] \in 0..Len(logs[n])
      BY <1>0 DEF LogsOK
    <3>2. synced'[n] \in 0..Len(logs[n])
      BY <2>1, <3>1
    <3>3. \A i \in 1..synced'[n] : logs[n][i] \in Record
      BY <3>1, <3>2, ElementOfSeq
    <3> QED
      BY <2>1, <3>2, <3>3, SubSeqProperties
  <2> QED
    BY <1>0, <2>1, <2>2 DEF LogsOK
<1>7. ASSUME CompactionFails \/ CompactionLogged PROVE LogsOK'
  <2>1. UNCHANGED <<logs, synced>>
    BY <1>7, CompactionFailsLeaves, CompactionLoggedCases DEF Types
  <2> QED
    BY <1>0, <2>1 DEF LogsOK
<1>8. ASSUME UNCHANGED <<logs, synced>> PROVE LogsOK'
    BY <1>0, <1>8 DEF LogsOK
<1>9. ASSUME Write \/ RefuseWrite \/ FinishWrite \/ BackgroundIdle \/ CompactMemTable
             \/ WriteLevel0Table \/ FlushLogged \/ StartCompaction \/ OpenCompactionOutputFile
             \/ InstallCompactionResults \/ ReadBegins \/ ReadEnds \/ Close \/ Closed
             \/ ProcessCrash \/ Recover \/ RecoverLogFile \/ OpenLogged
      PROVE  UNCHANGED <<logs, synced>>
    BY <1>9 DEF Write, RefuseWrite, FinishWrite, BackgroundIdle, CompactMemTable,
        WriteLevel0Table, FlushLogged, StartCompaction, OpenCompactionOutputFile,
        InstallCompactionResults, ReadBegins, ReadEnds, Close, Closed, ProcessCrash, Recover,
        RecoverLogFile, OpenLogged, disk
<1> QED
    BY <1>1, <1>2, <1>3, <1>5, <1>6, <1>7, <1>8, <1>9 DEF Works, FirstWriter, Background

\* The log that is read next is one of those to be read.
LEMMA NextLogToRecover ==
    ASSUME Types, Files, toRecover # {}
    PROVE  Min(toRecover) \in toRecover /\ Min(toRecover) \in DOMAIN logs
           /\ Min(toRecover) \in Nat
    BY MinIsIn, TypesParts DEF Files, VersionsOK

\* Tables hold writes, whatever writes a table.
LEMMA TablesKept == ASSUME IInv, Works PROVE TablesOK'
<1>0. TablesOK /\ nextFile \in Nat /\ imm \subseteq Writes /\ Types /\ Files
    BY TypesParts DEF IInv, VersionsOK, WritersOK
<1>1. ASSUME NEW contents \in SUBSET Writes, tables' = With(tables, nextFile, contents)
      PROVE  TablesOK'
    BY <1>0, <1>1 DEF TablesOK, With
<1>2. ASSUME CompactMemTable PROVE TablesOK'
    BY <1>0, <1>1, <1>2 DEF CompactMemTable
<1>3. ASSUME OpenCompactionOutputFile PROVE TablesOK'
  <2>1. compaction.inputs \subseteq DOMAIN tables
    BY <1>0, TypesParts DEF Files, NeededFilesExist, ThreadOK
  <2>2. UNION {tables[t] : t \in compaction.inputs} \subseteq Writes
    BY <1>0, <2>1 DEF TablesOK
  <2> QED
    BY <1>1, <1>3, <2>2 DEF OpenCompactionOutputFile
<1>4. ASSUME RecoverLogFile PROVE TablesOK'
  <2> DEFINE n == Min(toRecover)
  <2>1. \A found \in MayBeFound(n) : found \subseteq Writes
    <3>1. n \in DOMAIN logs
      BY <1>0, <1>4, NextLogToRecover DEF RecoverLogFile
    <3>2. logs[n] \in Seq(Record)
      BY <1>0, <3>1, TypesParts DEF LogsOK
    <3>3. ReadLog(n, Len(logs[n])) \subseteq Writes
      BY <3>2, ReadLogWrites, LenProperties
    <3>4. \A i \in DOMAIN logs[n] : logs[n][i].writes \subseteq Writes
      <4>1. DOMAIN logs[n] = 1..Len(logs[n])
        BY <3>2, LenProperties
      <4>2. \A i \in 1..Len(logs[n]) : logs[n][i] \in Record
        BY <3>2, ElementOfSeq
      <4> QED
        BY <4>1, <4>2 DEF Record
    <3> HIDE DEF n
    <3> QED
      BY <3>3, <3>4 DEF MayBeFound
  <2> HIDE DEF n
  <2>2. tables' = tables \/ \E found \in MayBeFound(n) : tables' = With(tables, nextFile, found)
    BY <1>4 DEF RecoverLogFile, n
  <2> QED
    BY <1>0, <1>1, <2>1, <2>2 DEF TablesOK
<1>5. ASSUME WriteLevel0Table PROVE TablesOK'
  <2>1. tables' = tables \/ tables' = Without(tables, {flush.table})
    BY <1>5 DEF WriteLevel0Table
  <2> QED
    BY <1>0, <2>1 DEF TablesOK, Without
<1>6. ASSUME NEW log, NEW live, FilesLeft(log, live) PROVE TablesOK'
    BY <1>0, <1>6 DEF TablesOK, FilesLeft
<1>7. ASSUME FlushInstalled \/ CompactionInstalled \/ Opened PROVE TablesOK'
    BY <1>0, <1>6, <1>7, FlushInstalledLeaves, CompactionInstalledLeaves, OpenedLeaves
<1>8. ASSUME CompactionFails \/ CompactionLogged PROVE TablesOK'
  <2>1. UNCHANGED tables
    BY <1>0, <1>8, CompactionFailsLeaves, CompactionLoggedCases DEF Types
  <2> QED
    BY <1>0, <2>1 DEF TablesOK
<1>9. ASSUME Write \/ FirstWriter \/ BackgroundIdle \/ FlushLogged \/ StartCompaction
             \/ InstallCompactionResults \/ ReadBegins \/ ReadEnds \/ Close \/ Closed
             \/ ProcessCrash \/ MachineCrash \/ Recover \/ NewLog \/ OpenLogged
      PROVE  TablesOK'
  <2>1. UNCHANGED tables
    BY <1>9 DEF Write, FirstWriter, SwitchMemTable, RefuseWrite, AddRecord, SyncLog,
        FinishWrite, BackgroundIdle, FlushLogged, StartCompaction, InstallCompactionResults,
        ReadBegins, ReadEnds, Close, Closed, ProcessCrash, MachineCrash, MemoryLost, Recover,
        NewLog, OpenLogged, disk
  <2> QED
    BY <1>0, <2>1 DEF TablesOK
<1> QED
    BY <1>2, <1>3, <1>4, <1>5, <1>7, <1>8, <1>9 DEF Works, Background

\* Versions, edits and numbers keep their types.
LEMMA VersionsKept == ASSUME IInv, Works PROVE VersionsOK'
<1>0. /\ VersionsOK /\ ThreadOK /\ Types /\ Files
      /\ IsVersion(<< >>) /\ IsEdit(NoEdit) /\ DOMAIN NoEdit = {"added", "deleted", "log", "next"}
    BY TypesParts DEF IInv, IsVersion, IsEdit, NoEdit
<1>1. IsVersion(Apply(current, edit)) /\ IsVersion(Apply(manifest.tables, edit))
    BY <1>0, VersionApply DEF VersionsOK
<1>2. ASSUME Write \/ RefuseWrite \/ AddRecord \/ SyncLog \/ FinishWrite \/ BackgroundIdle
             \/ Close
      PROVE  VersionsOK'
  <2>1. UNCHANGED <<manifest, logfileNumber, versions, readers, edit, toRecover>>
    BY <1>2 DEF Write, RefuseWrite, AddRecord, SyncLog, FinishWrite, BackgroundIdle, Close,
        disk, background, versions
  <2> QED
    BY <1>0, <2>1 DEF VersionsOK, versions
<1>3. ASSUME SwitchMemTable PROVE VersionsOK'
    BY <1>0, <1>3 DEF SwitchMemTable, NewFileNumber, VersionsOK
<1>4. ASSUME CompactMemTable PROVE VersionsOK'
  <2>1. /\ UNCHANGED <<manifest, logfileNumber, current, logNumber, readers, edit, toRecover>>
        /\ nextFile' = nextFile + 1 /\ pending' = pending \cup {nextFile}
    BY <1>4 DEF CompactMemTable, NewFileNumber
  <2>2. nextFile' \in Nat /\ pending' \subseteq Nat
    <3>1. nextFile \in Nat /\ pending \subseteq Nat
      BY <1>0 DEF VersionsOK
    <3>2. nextFile' = nextFile + 1 /\ pending' = pending \cup {nextFile}
      BY <2>1
    <3> QED  BY ONLY <3>1, <3>2
  <2>3. UNCHANGED <<manifest, logfileNumber, current, logNumber, readers, edit, toRecover>>
    BY <2>1
  <2> QED
    BY <1>0, <2>2, <2>3 DEF VersionsOK
<1>5. ASSUME WriteLevel0Table PROVE VersionsOK'
  <2>1. /\ UNCHANGED <<manifest, logfileNumber, current, logNumber, nextFile, readers, toRecover>>
        /\ pending' \subseteq pending
    BY <1>5 DEF WriteLevel0Table
  <2>2. edit' = NoEdit
        \/ \E level \in {0, 1} : edit' = [added |-> [t \in {flush.table} |-> level],
                            deleted |-> {}, log |-> logfileNumber, next |-> nextFile]
    BY <1>5 DEF WriteLevel0Table, FlushFails, LogAndApply
  <2>3. IsEdit(edit') /\ DOMAIN edit' = {"added", "deleted", "log", "next"}
    BY <1>0, <2>2 DEF IsEdit, IsVersion, VersionsOK, ThreadOK, Flush
  <2> QED
    BY <1>0, <2>1, <2>3 DEF VersionsOK
<1>6. ASSUME FlushLogged PROVE VersionsOK'
  <2>1. /\ UNCHANGED <<logfileNumber, versions, readers, toRecover>>
        /\ SameFiles \/ EditRecorded
        /\ edit' \in {edit, NoEdit}
    BY <1>0, <1>6, FlushLoggedCases DEF FlushLogged, FlushFails
  <2> QED
    BY <1>0, <1>1, <2>1 DEF VersionsOK, versions, IsEdit, SameFiles, EditRecorded
<1>7. ASSUME FlushInstalled \/ CompactionInstalled \/ Opened PROVE VersionsOK'
  <2>1. /\ UNCHANGED <<manifest, logfileNumber, nextFile, readers, toRecover>>
        /\ pending' \subseteq pending
        /\ current' = Apply(current, edit) /\ logNumber' = edit.log /\ edit' = NoEdit
    BY <1>7 DEF FlushInstalled, CompactionInstalled, Opened, EndCompaction, NoEdit
  <2> QED
    BY <1>0, <1>1, <2>1 DEF VersionsOK, IsEdit
<1>8. ASSUME StartCompaction PROVE VersionsOK'
  <2>1. UNCHANGED <<manifest, logfileNumber, versions, readers, toRecover>>
    BY <1>8 DEF StartCompaction, disk
  <2>2. UNCHANGED edit \/ \E S \in PickCompaction(current) :
            edit' = [added |-> [t \in S |-> 1], deleted |-> S, log |-> logNumber, next |-> nextFile]
    BY <1>8 DEF StartCompaction, LogAndApply
  <2>3. \A S \in PickCompaction(current) : S \subseteq Nat
    BY <1>0 DEF PickCompaction, VersionsOK, IsVersion
  <2>4. IsEdit(edit') /\ DOMAIN edit' = {"added", "deleted", "log", "next"}
    BY <1>0, <2>2, <2>3 DEF IsEdit, IsVersion, VersionsOK
  <2> QED
    BY <1>0, <2>1, <2>4 DEF VersionsOK, versions
<1>9. ASSUME OpenCompactionOutputFile PROVE VersionsOK'
    BY <1>0, <1>9 DEF OpenCompactionOutputFile, NewFileNumber, VersionsOK
<1>10. ASSUME InstallCompactionResults PROVE VersionsOK'
  <2>1. /\ UNCHANGED <<manifest, logfileNumber, versions, readers, toRecover>>
        /\ edit' = [added |-> [t \in {compaction.output} |-> 1], deleted |-> compaction.inputs,
                    log |-> logNumber, next |-> nextFile]
    BY <1>10 DEF InstallCompactionResults, LogAndApply, disk
  <2>2. IsEdit(edit') /\ DOMAIN edit' = {"added", "deleted", "log", "next"}
    BY <1>0, <2>1 DEF IsEdit, IsVersion, VersionsOK, ThreadOK
  <2> QED
    BY <1>0, <2>1, <2>2 DEF VersionsOK, versions
<1>11. ASSUME CompactionFails PROVE VersionsOK'
  <2>1. /\ UNCHANGED <<manifest, logfileNumber, current, logNumber, nextFile, readers, toRecover>>
        /\ pending' \subseteq pending /\ edit' = NoEdit
    BY <1>11, CompactionFailsLeaves DEF CompactionFails
  <2> QED
    BY <1>0, <2>1 DEF VersionsOK
<1>12. ASSUME CompactionLogged PROVE VersionsOK'
  <2>1. /\ UNCHANGED <<logfileNumber, current, logNumber, nextFile, readers, toRecover>>
    BY <1>12 DEF CompactionLogged
  <2>2. /\ SameFiles \/ EditRecorded
        /\ edit' \in {edit, NoEdit} /\ pending' \subseteq pending
    BY <1>0, <1>12, CompactionLoggedCases
  <2> QED
    BY <1>0, <1>1, <2>1, <2>2 DEF VersionsOK, IsEdit, SameFiles, EditRecorded
<1>13. ASSUME ReadBegins PROVE VersionsOK'
    BY <1>0, <1>13 DEF ReadBegins, VersionsOK, disk, background, versions
<1>14. ASSUME ReadEnds PROVE VersionsOK'
    BY <1>0, <1>14 DEF ReadEnds, VersionsOK, disk, background, versions
<1>15. ASSUME MemoryLost PROVE VersionsOK'
    BY <1>0, <1>15 DEF MemoryLost, VersionsOK
<1>16. ASSUME Recover PROVE VersionsOK'
  <2>1. /\ UNCHANGED <<manifest, logfileNumber, readers, pending>>
        /\ current' = manifest.tables /\ logNumber' = manifest.log /\ edit' = NoEdit
        /\ nextFile' = manifest.next + 1
        /\ toRecover' \subseteq DOMAIN logs
    BY <1>16 DEF Recover, disk
  <2>2. DOMAIN logs \subseteq Nat
    BY <1>0, TypesParts DEF LogsOK
  <2> QED
    BY <1>0, <2>1, <2>2 DEF VersionsOK
<1>17. ASSUME RecoverLogFile PROVE VersionsOK'
  <2> DEFINE n == Min(toRecover)
  <2>1. n \in Nat
    BY <1>0, <1>17, NextLogToRecover DEF RecoverLogFile
  <2> HIDE DEF n
  <2>2. /\ UNCHANGED <<manifest, logfileNumber, current, logNumber, readers, pending>>
        /\ toRecover' \subseteq toRecover
        /\ \/ nextFile' = MarkFileNumberUsed(nextFile, n) /\ UNCHANGED edit
           \/ /\ nextFile' = MarkFileNumberUsed(nextFile + 1, n)
              /\ edit' = [edit EXCEPT !.added = With(@, nextFile, 0)]
    BY <1>17 DEF RecoverLogFile, n
  <2>3. nextFile' \in Nat
    BY <1>0, <2>1, <2>2 DEF VersionsOK, MarkFileNumberUsed
  <2>4. IsEdit(edit') /\ DOMAIN edit' = {"added", "deleted", "log", "next"}
    BY <1>0, <2>2 DEF IsEdit, IsVersion, VersionsOK, With
  <2> QED
    BY <1>0, <2>2, <2>3, <2>4 DEF VersionsOK
<1>18. ASSUME NewLog PROVE VersionsOK'
  <2>1. IsEdit(edit') /\ DOMAIN edit' = {"added", "deleted", "log", "next"}
    BY <1>0, <1>18 DEF NewLog, IsEdit, VersionsOK
  <2> QED
    BY <1>0, <1>18, <2>1 DEF NewLog, VersionsOK
<1>19. ASSUME OpenLogged PROVE VersionsOK'
  <2>1. /\ UNCHANGED <<logfileNumber, versions, readers, toRecover, edit>>
        /\ EditRecorded
    BY <1>19, NewManifest DEF OpenLogged, background
  <2> QED
    BY <1>0, <1>1, <2>1 DEF VersionsOK, versions, IsEdit, EditRecorded
<1> QED
    BY <1>2, <1>3, <1>4, <1>5, <1>6, <1>7, <1>8, <1>9, <1>10, <1>11, <1>12, <1>13, <1>14,
       <1>15, <1>16, <1>17, <1>18, <1>19
       DEF Works, FirstWriter, Background, Closed, ProcessCrash, MachineCrash

\* The status, the flush and the compaction keep their types, and the bounds hold.
LEMMA ThreadKept == ASSUME IInv, Works PROVE ThreadOK'
<1>0. /\ ThreadOK /\ Types /\ Files /\ VersionsOK
      /\ IsVersion(<< >>) /\ DOMAIN << >> = {}
    BY TypesParts DEF IInv, IsVersion
<1>1. faults' \in 0..MaxFaults /\ crashes' \in 0..MaxCrashes
  <2>1. UNCHANGED faults \/ Fault
    BY DEF Works, FirstWriter, Background, Write, SwitchMemTable, RefuseWrite, AddRecord, SyncLog,
        FinishWrite, BackgroundIdle, CompactMemTable, WriteLevel0Table, FlushLogged,
        FlushInstalled, StartCompaction, OpenCompactionOutputFile, InstallCompactionResults,
        CompactionFails, CompactionLogged, CompactionInstalled, WriteManifest, ReadBegins,
        ReadEnds, Close, Closed, ProcessCrash, MachineCrash, MemoryLost, Recover,
        RecoverLogFile, NewLog, OpenLogged, Opened, bounds
  <2>2. UNCHANGED crashes \/ GoesDown
    BY DEF Works, FirstWriter, Background, Write, SwitchMemTable, RefuseWrite, AddRecord, SyncLog,
        FinishWrite, BackgroundIdle, CompactMemTable, WriteLevel0Table, FlushLogged,
        FlushInstalled, StartCompaction, OpenCompactionOutputFile, InstallCompactionResults,
        CompactionFails, CompactionLogged, CompactionInstalled, WriteManifest, ReadBegins,
        ReadEnds, Close, Closed, ProcessCrash, MachineCrash, MemoryLost, Recover,
        RecoverLogFile, NewLog, OpenLogged, Opened, bounds
  <2> QED
    BY <1>0, <2>1, <2>2, LevelDBAssumption DEF Fault, GoesDown, ThreadOK
<1>2. status' \in {"down", "recovering", "logging", "installing", "open", "closing"}
    BY <1>0 DEF ThreadOK, Works, FirstWriter, Background, Write, SwitchMemTable, RefuseWrite,
        AddRecord, SyncLog, FinishWrite, BackgroundIdle, CompactMemTable, WriteLevel0Table,
        FlushLogged, FlushInstalled, StartCompaction, OpenCompactionOutputFile,
        InstallCompactionResults, CompactionFails, CompactionLogged, CompactionInstalled,
        ReadBegins, ReadEnds, Close, Closed, ProcessCrash, MachineCrash, MemoryLost, Recover,
        RecoverLogFile, NewLog, OpenLogged, Opened
<1>3. flush' \in Flush
  <2>1. NoFlush \in Flush /\ flush \in Flush /\ nextFile \in Nat
    BY <1>0 DEF Flush, NoFlush, ThreadOK, VersionsOK
  <2>2. CASE CompactMemTable
    BY <2>1, <2>2 DEF CompactMemTable, Flush
  <2>3. CASE WriteLevel0Table \/ FlushLogged
    BY <2>1, <2>3 DEF WriteLevel0Table, FlushLogged, FlushFails, Flush
  <2>4. CASE FlushInstalled \/ MemoryLost
    BY <2>1, <2>4 DEF FlushInstalled, MemoryLost
  <2>5. CASE Works /\ ~(CompactMemTable \/ WriteLevel0Table \/ FlushLogged \/ FlushInstalled
                       \/ MemoryLost)
    <3>1. flush' = flush
      BY <2>5 DEF Works, FirstWriter, Background, Write, SwitchMemTable, RefuseWrite, AddRecord,
        SyncLog, FinishWrite, BackgroundIdle, StartCompaction, OpenCompactionOutputFile,
        InstallCompactionResults, CompactionFails, CompactionLogged, CompactionInstalled,
        ReadBegins, ReadEnds, Close, Closed, ProcessCrash, MachineCrash, Recover,
        RecoverLogFile, NewLog, OpenLogged, Opened, background
    <3> QED
      BY <2>1, <3>1
  <2> QED
    BY <2>2, <2>3, <2>4, <2>5
<1> DEFINE CompactionOK ==
        /\ compaction.step \in {"none", "work", "output", "apply", "install"}
        /\ IsVersion(compaction.base) /\ compaction.inputs \subseteq DOMAIN compaction.base
        /\ compaction.output \in Nat
        /\ DOMAIN compaction = {"step", "inputs", "base", "output"}
<1>4. CompactionOK'
  <2>1. CompactionOK
    BY <1>0 DEF ThreadOK
  <2>2. ASSUME compaction' = NoCompaction PROVE CompactionOK'
    BY <1>0, <2>2 DEF NoCompaction
  <2>3. CASE StartCompaction
    <3>1. PICK S \in PickCompaction(current) :
            \E s \in {"work", "apply"} :
                compaction' = [step |-> s, inputs |-> S, base |-> current, output |-> 0]
      BY <2>3 DEF StartCompaction
    <3>2. S \subseteq DOMAIN current
      BY <3>1 DEF PickCompaction
    <3> QED
      BY <1>0, <3>1, <3>2 DEF VersionsOK
  <2>4. CASE OpenCompactionOutputFile
    BY <1>0, <2>1, <2>4 DEF OpenCompactionOutputFile, VersionsOK
  <2>5. CASE InstallCompactionResults
    BY <2>1, <2>5 DEF InstallCompactionResults
  <2>6. CASE CompactionFails \/ CompactionInstalled \/ MemoryLost
    BY <1>0, <2>2, <2>6, CompactionFailsLeaves, CompactionInstalledLeaves DEF MemoryLost
  <2>7. CASE CompactionLogged
    <3>1. \/ compaction' = NoCompaction
          \/ /\ compaction'.step = "install" /\ compaction'.inputs = compaction.inputs
             /\ compaction'.base = compaction.base
             /\ compaction'.output = compaction.output
             /\ DOMAIN compaction' = {"step", "inputs", "base", "output"}
      BY <1>0, <2>1, <2>7, CompactionLoggedCases
    <3> QED
      BY <2>1, <2>2, <3>1
  <2>8. CASE ~(StartCompaction \/ OpenCompactionOutputFile \/ InstallCompactionResults
               \/ CompactionFails \/ CompactionInstalled \/ MemoryLost \/ CompactionLogged)
    <3>1. compaction' = compaction
      BY <2>8 DEF Works, FirstWriter, Background, Write, SwitchMemTable, RefuseWrite, AddRecord,
        SyncLog, FinishWrite, BackgroundIdle, CompactMemTable, WriteLevel0Table, FlushLogged,
        FlushInstalled, FlushFails, ReadBegins, ReadEnds, Close, Closed, ProcessCrash,
        MachineCrash, Recover, RecoverLogFile, NewLog, OpenLogged, Opened, background
    <3> QED
      BY <2>1, <3>1
  <2> QED
    BY <2>3, <2>4, <2>5, <2>6, <2>7, <2>8
<1> QED
    BY <1>1, <1>2, <1>3, <1>4 DEF ThreadOK

\* The flags are Boolean.
LEMMA FlagsKept == ASSUME IInv, Works PROVE FlagsOK'
<1>0. scheduled \in BOOLEAN /\ bgError \in BOOLEAN /\ Types
    BY TypesParts DEF IInv, FlagsOK
<1>1. bgError' \in BOOLEAN
  <2>1. CASE FinishWrite
    <3>1. bgError' = (bgError \/ leader.step = "syncFailed")
      BY <2>1 DEF FinishWrite
    <3> QED
      BY <3>1
  <2>2. CASE CompactionLogged
    BY <1>0, <2>2, CompactionLoggedCases DEF Types
  <2>3. CASE ~FinishWrite /\ ~CompactionLogged
    <3>1. UNCHANGED bgError \/ bgError' = TRUE \/ bgError' = FALSE
      BY <1>0, <2>3, CompactionFailsLeaves, CompactionInstalledLeaves
         DEF Works, FirstWriter, Background, Write, SwitchMemTable, RefuseWrite, AddRecord,
        SyncLog, BackgroundIdle, CompactMemTable, WriteLevel0Table, FlushLogged,
        FlushFails, FlushInstalled, StartCompaction, OpenCompactionOutputFile,
        InstallCompactionResults, ReadBegins, ReadEnds, Close, Closed, ProcessCrash,
        MachineCrash, MemoryLost, Recover, RecoverLogFile, NewLog, OpenLogged, Opened
    <3> QED
      BY <1>0, <3>1
  <2> QED
    BY <2>1, <2>2, <2>3
<1>2. scheduled' \in BOOLEAN
  <2>1. ASSUME NEW im, NEW v, NEW error
        PROVE  WorkToDo(im, v, error) \in BOOLEAN
    BY Zenon DEF WorkToDo
  <2>2. CASE SwitchMemTable
    <3>1. scheduled' = (scheduled \/ WorkToDo(imm', current, bgError))
      BY <2>2 DEF SwitchMemTable
    <3> QED
      BY <3>1, Zenon
  <2>3. ASSUME NEW im, NEW v, NEW error, Reschedule(im, v, error)
        PROVE  scheduled' \in BOOLEAN
    <3>1. scheduled' = scheduled \/ scheduled' = WorkToDo(im, v, error)
      BY <2>3 DEF Reschedule
    <3> QED
      BY <1>0, <2>1, <3>1
  <2>4. CASE Opened
    <3>1. scheduled' = NeedsCompaction(current')
      BY <2>4 DEF Opened
    <3> QED
      BY <3>1 DEF NeedsCompaction
  <2>5. CASE ~SwitchMemTable /\ ~Opened
    <3>1. \/ scheduled' \in {scheduled, FALSE}
          \/ \E im, v, error : Reschedule(im, v, error)
      <4>1. CASE WriteLevel0Table \/ FlushLogged
        BY <4>1 DEF WriteLevel0Table, FlushLogged, FlushFails
      <4>2. CASE FlushInstalled
        BY <4>2 DEF FlushInstalled
      <4>3. CASE CompactionFails \/ CompactionLogged \/ CompactionInstalled
        BY <4>3 DEF CompactionFails, CompactionLogged, CompactionInstalled, EndCompaction
      <4>4. CASE ~(WriteLevel0Table \/ FlushLogged \/ FlushInstalled \/ CompactionFails
                   \/ CompactionLogged \/ CompactionInstalled)
        BY <2>5, <4>4 DEF Works, FirstWriter, Background, Write, RefuseWrite, AddRecord, SyncLog,
            FinishWrite, BackgroundIdle, CompactMemTable, StartCompaction,
            OpenCompactionOutputFile, InstallCompactionResults, ReadBegins, ReadEnds, Close,
            Closed, ProcessCrash, MachineCrash, MemoryLost, Recover, RecoverLogFile, NewLog,
            OpenLogged, background
      <4> QED
        BY <4>1, <4>2, <4>3, <4>4
    <3> QED
      BY <1>0, <2>3, <3>1
  <2> QED
    BY <2>2, <2>4, <2>5
<1> QED
    BY <1>1, <1>2 DEF FlagsOK

\* All of Types is kept.
LEMMA TypesKept == ASSUME IInv, Works PROVE Types'
<1>1. LogsOK' /\ TablesOK' /\ WritersOK' /\ VersionsOK' /\ ThreadOK' /\ FlagsOK'
    BY LogsKept, TablesKept, WritersKept, VersionsKept, ThreadKept, FlagsKept DEF IInv
<1> QED
    BY <1>1 DEF Types, TypeOK, LogsOK, TablesOK, WritersOK, VersionsOK, ThreadOK, FlagsOK

-----------------------------------------------------------------------------
(* What is under way, and what the manifest says.                          *)

\* A flush may run within a compaction but not while that one writes its edit; nothing but
\* the opening runs while the database is not up.
LEMMA ControlKept == ASSUME IInv, Works PROVE Control'
<1> USE DEF Control, Up, NoFlush, NoCompaction, NoEdit, NoLeader
<1>0. /\ Types /\ Control /\ flush \in Flush
      /\ DOMAIN compaction = {"step", "inputs", "base", "output"}
      /\ DOMAIN edit = {"added", "deleted", "log", "next"}
    BY DEF IInv, Types, TypeOK
<1>1. CASE Write \/ Close
    BY <1>0, <1>1 DEF Write, Close, background, versions
<1>2. CASE SwitchMemTable
    BY <1>0, <1>2 DEF SwitchMemTable, MayLead
<1>3. CASE RefuseWrite
    BY <1>0, <1>3 DEF RefuseWrite, MayLead, background, versions
<1>4. CASE AddRecord
    BY <1>0, <1>4 DEF AddRecord, MayLead, background, versions
<1>5. CASE SyncLog
    BY <1>0, <1>5 DEF SyncLog, background, versions
<1>6. CASE FinishWrite
    BY <1>0, <1>6 DEF FinishWrite, background, versions
<1>7. CASE BackgroundIdle
    BY <1>0, <1>7 DEF BackgroundIdle, writing, versions
<1>8. CASE CompactMemTable
    BY <1>0, <1>8 DEF CompactMemTable, MayWork, MayInterrupt, Flush, writing
<1>9. CASE WriteLevel0Table
    BY <1>0, <1>9 DEF WriteLevel0Table, FlushFails, LogAndApply, Flush, writing
<1>10. CASE FlushLogged
    BY <1>0, <1>10 DEF FlushLogged, FlushFails, Flush, writing, versions
<1>11. CASE FlushInstalled
    BY <1>0, <1>11 DEF FlushInstalled, writing
<1>12. CASE StartCompaction
    BY <1>0, <1>12 DEF StartCompaction, MayWork, LogAndApply, writing, versions
<1>13. CASE OpenCompactionOutputFile
    BY <1>0, <1>13 DEF OpenCompactionOutputFile, writing
<1>14. CASE InstallCompactionResults
    BY <1>0, <1>14 DEF InstallCompactionResults, LogAndApply, writing, versions
<1>15. CASE CompactionFails
  <2>1. /\ UNCHANGED <<writing, flush, current, status, imm, readers, toRecover>>
        /\ compaction.step # "none" /\ flush = NoFlush
    BY <1>15 DEF CompactionFails
  <2>2. compaction' = NoCompaction /\ edit' = NoEdit
    BY <1>15, CompactionFailsLeaves
  <2> QED
    BY <1>0, <2>1, <2>2 DEF writing
<1>16. CASE CompactionLogged
  <2>1. /\ UNCHANGED <<writing, flush, current, status, imm, readers, toRecover>>
        /\ compaction.step = "apply" /\ flush = NoFlush
    BY <1>0, <1>16 DEF CompactionLogged
  <2>2. \/ /\ compaction'.step = "install"
           /\ UNCHANGED <<pending, edit, bgError>>
        \/ compaction' = NoCompaction /\ edit' = NoEdit
    BY <1>0, <1>16, CompactionLoggedCases
  <2> QED
    BY <1>0, <2>1, <2>2 DEF writing
<1>17. CASE CompactionInstalled
    BY <1>0, <1>17, CompactionInstalledLeaves DEF CompactionInstalled, writing, IInv
<1>18. CASE ReadBegins \/ ReadEnds
    BY <1>0, <1>18 DEF ReadBegins, ReadEnds, writing, background, versions
<1>19. CASE MemoryLost
    BY <1>0, <1>19 DEF MemoryLost
<1>20. CASE Recover
    BY <1>0, <1>20 DEF Recover, writing
<1>21. CASE RecoverLogFile
    BY <1>0, <1>21 DEF RecoverLogFile, writing
<1>22. CASE NewLog
    BY <1>0, <1>22 DEF NewLog, writing
<1>23. CASE OpenLogged
    BY <1>0, <1>23 DEF OpenLogged, writing, background, versions
<1>24. CASE Opened
    BY <1>0, <1>24 DEF Opened, writing
<1> QED
    BY <1>1, <1>2, <1>3, <1>4, <1>5, <1>6, <1>7, <1>8, <1>9, <1>10, <1>11, <1>12, <1>13, <1>14,
       <1>15, <1>16, <1>17, <1>18, <1>19, <1>20, <1>21, <1>22, <1>23, <1>24
       DEF Works, FirstWriter, Background, Closed, ProcessCrash, MachineCrash


\* Memory and manifest agree up to the edit under way: it is in the manifest first, then in
\* memory, and no other edit is made in between.
LEMMA AgreementKept == ASSUME IInv, Works PROVE Agreement'
<1> USE DEF Up, NoFlush, NoCompaction, NoEdit, Installing, Control, Agreement
<1>0. /\ Types /\ Agreement /\ Control /\ flush \in Flush
      /\ DOMAIN compaction = {"step", "inputs", "base", "output"}
      /\ DOMAIN edit = {"added", "deleted", "log", "next"}
    BY DEF IInv, Types, TypeOK
<1>1. CASE Write \/ RefuseWrite \/ AddRecord \/ SyncLog \/ ReadBegins \/ ReadEnds \/ Close
           \/ BackgroundIdle
  <2>1. /\ UNCHANGED <<manifest, flush, compaction, edit, current, logNumber, bgError>>
        /\ status' = status \/ (status = "open" /\ status' = "closing")
    BY <1>1 DEF Write, RefuseWrite, AddRecord, SyncLog, ReadBegins, ReadEnds, Close,
        BackgroundIdle, disk, background, versions
  <2> QED
    BY <1>0, <2>1
<1>2. CASE SwitchMemTable \/ CompactMemTable \/ OpenCompactionOutputFile
  <2>1. /\ UNCHANGED <<manifest, edit, current, logNumber, bgError, status>>
        /\ compaction'.step = "install" <=> compaction.step = "install"
        /\ flush'.step = "install" <=> flush.step = "install"
    <3>1. CASE SwitchMemTable
      BY <3>1 DEF SwitchMemTable
    <3>2. CASE CompactMemTable
      BY <3>2 DEF CompactMemTable, MayWork, MayInterrupt
    <3>3. CASE OpenCompactionOutputFile
      BY <1>0, <3>3 DEF OpenCompactionOutputFile
    <3> QED
      BY <1>2, <3>1, <3>2, <3>3
  <2> QED
    BY <1>0, <2>1
<1>3. CASE FinishWrite
  <2>1. /\ UNCHANGED <<manifest, flush, compaction, edit, current, logNumber, status>>
        /\ ~bgError' => ~bgError
    BY <1>3 DEF FinishWrite, disk, background, versions
  <2> QED
    BY <1>0, <2>1
<1>4. CASE WriteLevel0Table
  <2>1. /\ UNCHANGED <<manifest, current, logNumber, status, compaction>>
        /\ \/ bgError' = TRUE
           \/ /\ UNCHANGED bgError
              /\ status = "open" /\ flush.step = "build" /\ flush'.step = "apply"
    BY <1>0, <1>4 DEF WriteLevel0Table, FlushFails, Flush
  <2> QED
    BY <1>0, <2>1
<1>5. CASE FlushLogged
  <2>1. /\ UNCHANGED <<current, logNumber, status, compaction>>
        /\ flush.step = "apply"
        /\ \/ bgError' = TRUE
           \/ /\ UNCHANGED <<bgError, edit>> /\ flush'.step = "install"
              /\ EditRecorded
    BY <1>0, <1>5, FlushLoggedCases DEF FlushLogged, FlushFails, versions, Flush
  <2> QED
    BY <1>0, <2>1 DEF EditRecorded
<1>6. CASE FlushInstalled
    BY <1>0, <1>6 DEF FlushInstalled
<1>7. CASE StartCompaction
    BY <1>0, <1>7 DEF StartCompaction, MayWork, LogAndApply, disk, versions
<1>8. CASE InstallCompactionResults
    BY <1>0, <1>8 DEF InstallCompactionResults, LogAndApply, disk, versions
<1>9. CASE CompactionFails
    BY <1>9, CompactionFailsLeaves
<1>10. CASE CompactionLogged
  <2>1. /\ UNCHANGED <<current, logNumber, status, flush>>
        /\ compaction.step = "apply"
    BY <1>10 DEF CompactionLogged
  <2>2. \/ bgError' = TRUE
        \/ /\ UNCHANGED <<bgError, edit>> /\ compaction'.step = "install"
           /\ EditRecorded
    BY <1>0, <1>10, CompactionLoggedCases
  <2> QED
    BY <1>0, <2>1, <2>2 DEF EditRecorded
<1>11. CASE CompactionInstalled
    BY <1>0, <1>11, CompactionInstalledLeaves DEF CompactionInstalled, IInv
<1>12. CASE MemoryLost
    BY <1>12 DEF MemoryLost
<1>13. CASE Recover
    BY <1>0, <1>13 DEF Recover, disk
<1>14. CASE RecoverLogFile \/ NewLog
    BY <1>0, <1>14 DEF RecoverLogFile, NewLog
<1>15. CASE OpenLogged
    BY <1>0, <1>15, NewManifest DEF OpenLogged, EditRecorded, background, versions
<1>16. CASE Opened
    BY <1>0, <1>16 DEF Opened
<1> QED
    BY <1>1, <1>2, <1>3, <1>4, <1>5, <1>6, <1>7, <1>8, <1>9, <1>10, <1>11, <1>12, <1>13, <1>14,
       <1>15, <1>16
       DEF Works, FirstWriter, Background, Closed, ProcessCrash, MachineCrash

-----------------------------------------------------------------------------
(* The files.                                                              *)

\* All tables anybody needs.
Used ==
    DOMAIN current \cup DOMAIN compaction.base \cup Read \cup DOMAIN manifest.tables
        \cup DOMAIN edit.added \cup pending

\* The parts of Files.
LogInUse == Up => logfileNumber \in DOMAIN logs

Private ==
    flush.step = "build" =>
        /\ flush.table \in pending
        /\ flush.table \notin DOMAIN manifest.tables \cup DOMAIN current
              \cup DOMAIN compaction.base \cup Read \cup {compaction.output}

OutputHeld ==
    /\ compaction.step = "output" => compaction.output # 0
    /\ compaction.output # 0 => compaction.output \in pending

\* Files is its parts.
LEMMA FilesParts ==
    Files <=> Used \subseteq DOMAIN tables /\ LogInUse /\ Private /\ OutputHeld
                /\ toRecover \subseteq DOMAIN logs
<1>1. NeededFilesExist <=> Used \subseteq DOMAIN tables /\ LogInUse
  <2>1. DOMAIN current \cup DOMAIN compaction.base \cup (UNION {DOMAIN v : v \in readers})
            \cup DOMAIN manifest.tables \cup DOMAIN edit.added \cup pending = Used
    BY DEF Used, Read
  <2> QED
    BY <2>1 DEF NeededFilesExist, LogInUse, Up
<1> QED
    BY <1>1 DEF Files, Private, OutputHeld

\* The same of the next state.
LEMMA FilesPartsNext ==
    (Used \subseteq DOMAIN tables /\ LogInUse /\ Private /\ OutputHeld
        /\ toRecover \subseteq DOMAIN logs)' => Files'
  BY FilesParts, PTL

\* The next number is that of no table in use, and not 0.
LEMMA NextFileIsNew ==
    ASSUME IInv, status # "down"
    PROVE  nextFile \in Nat /\ (Up => nextFile # 0 /\ nextFile # compaction.output)
           /\ \A t \in Used : t < nextFile /\ t # nextFile
<1>0. /\ Types /\ Control /\ Files /\ Numbers /\ VersionsOK /\ ThreadOK
    BY TypesParts DEF IInv
<1>1. /\ nextFile \in Nat /\ manifest.next \in Nat /\ manifest.next <= nextFile
      /\ DOMAIN manifest.tables \subseteq Nat
    BY <1>0 DEF VersionsOK, Numbers, IsVersion
<1>2. \A t \in DOMAIN manifest.tables : t < nextFile
    BY <1>0, <1>1 DEF Numbers
<1>3. \A t \in DOMAIN current \cup DOMAIN compaction.base \cup Read \cup pending
                          \cup DOMAIN edit.added : t < nextFile
    BY <1>0 DEF Numbers
<1>4. Used \subseteq Nat
  <2>1. Used \subseteq DOMAIN tables /\ DOMAIN tables \subseteq Nat
    BY <1>0, FilesParts, TypesParts DEF TablesOK
  <2> QED
    BY <2>1
<1>5. \A t \in Used : t < nextFile /\ t # nextFile
    BY <1>1, <1>2, <1>3, <1>4 DEF Used
<1>6. ASSUME Up PROVE nextFile # 0 /\ nextFile # compaction.output
  <2>1. logfileNumber \in DOMAIN logs \ toRecover
    BY <1>0, <1>6, FilesParts DEF LogInUse, Control, Up
  <2>2. logfileNumber < nextFile /\ logfileNumber \in Nat
    BY <1>0, <2>1 DEF Numbers, VersionsOK, Up
  <2>3. compaction.output # 0 => compaction.output \in Used
    BY <1>0, FilesParts DEF OutputHeld, Used
  <2> QED
    BY <1>1, <1>5, <2>2, <2>3
<1> QED
    BY <1>1, <1>5, <1>6

\* No file that is needed is deleted, and none is needed that was never made.
LEMMA UsedKept == ASSUME IInv, Works PROVE Used' \subseteq DOMAIN tables'
<1>0. /\ Types /\ Control /\ Agreement /\ Files /\ Numbers /\ VersionsOK /\ ThreadOK
      /\ Used \subseteq DOMAIN tables
      /\ IsEdit(edit) /\ IsVersion(current) /\ IsVersion(manifest.tables)
    BY TypesParts, FilesParts DEF IInv, VersionsOK
<1>1. /\ DOMAIN Apply(current, edit) = DOMAIN edit.added \cup (DOMAIN current \ edit.deleted)
      /\ DOMAIN Apply(manifest.tables, edit)
            = DOMAIN edit.added \cup (DOMAIN manifest.tables \ edit.deleted)
      /\ DOMAIN NoEdit.added = {} /\ DOMAIN << >> = {} /\ DOMAIN NoCompaction.base = {}
  <2>1. DOMAIN << >> = {}
    OBVIOUS
  <2>2. NoEdit.added = << >> /\ NoCompaction.base = << >>
    BY DEF NoEdit, NoCompaction
  <2> QED
    BY <1>0, <2>1, <2>2, VersionApply
<1>2. (Up /\ ~bgError) \/ status \in {"recovering", "logging", "installing"} =>
        DOMAIN manifest.tables \subseteq DOMAIN current \cup DOMAIN edit.added
    BY <1>0, <1>1 DEF Agreement, Control, Up
<1>3. CASE Write \/ FirstWriter \/ BackgroundIdle \/ Close
  <2>1. UNCHANGED <<tables, manifest, current, compaction, readers, edit, pending>>
    BY <1>3 DEF Write, FirstWriter, SwitchMemTable, RefuseWrite, AddRecord, SyncLog,
        FinishWrite, BackgroundIdle, Close, disk, background, versions
  <2> QED
    BY <1>0, <2>1 DEF Used, Read
<1>4. CASE CompactMemTable
  <2>1. /\ UNCHANGED <<manifest, current, compaction, readers, edit>>
        /\ pending' = pending \cup {nextFile} /\ DOMAIN tables' = DOMAIN tables \cup {nextFile}
    BY <1>4 DEF CompactMemTable, With
  <2> QED
    BY <1>0, <2>1 DEF Used, Read
<1>5. CASE WriteLevel0Table
  <2>1. /\ UNCHANGED <<manifest, current, compaction, readers>>
        /\ pending' = pending \ {flush.table} /\ flush.step = "build"
    BY <1>5 DEF WriteLevel0Table, FlushFails
  <2>3. \/ UNCHANGED tables /\ edit' = NoEdit
        \/ UNCHANGED tables /\ DOMAIN edit'.added = {flush.table}
        \/ DOMAIN tables' = DOMAIN tables \ {flush.table} /\ edit' = NoEdit
    BY <1>0, <1>5, WriteLevel0TableCases DEF ThreadOK, Without
  <2>2. Private
    BY <1>0, FilesParts
  <2> QED
    BY <1>0, <1>1, <2>1, <2>2, <2>3 DEF Used, Read, Private
<1>6. CASE FlushLogged
  <2>1. /\ UNCHANGED <<tables, current, pending, compaction, readers>>
        /\ edit' \in {edit, NoEdit}
        /\ SameFiles \/ EditRecorded
    BY <1>0, <1>6, FlushLoggedCases DEF FlushLogged, FlushFails, versions
  <2> QED
    BY <1>0, <1>1, <2>1 DEF Used, Read, SameFiles, EditRecorded
<1>7. CASE FlushInstalled
  <2>1. /\ UNCHANGED <<manifest, pending, compaction, readers>>
        /\ current' = Apply(current, edit) /\ edit' = NoEdit
        /\ flush.step = "install"
    BY <1>7 DEF FlushInstalled
  <2>2. FilesLeft(edit.log, IF bgError THEN DOMAIN tables
                               ELSE Live(current', compaction.base, pending))
    BY <1>0, <1>7, FlushInstalledLeaves
  <2>3. Up
    BY <1>0, <2>1 DEF Control, NoFlush
  <2>4. ~bgError => manifest.tables = current'
    BY <1>0, <2>1, <2>3 DEF Agreement, Installing, Up
  <2> QED
    BY <1>0, <1>1, <2>1, <2>2, <2>4 DEF Used, Read, FilesLeft, Live
<1>8. CASE StartCompaction
  <2>1. /\ UNCHANGED <<tables, manifest, current, pending, readers>>
        /\ compaction'.base = current
        /\ \/ edit' = edit
           \/ \E S \in PickCompaction(current) : DOMAIN edit'.added = S
    BY <1>8 DEF StartCompaction, LogAndApply, disk, versions
  <2>2. \A S \in PickCompaction(current) : S \subseteq DOMAIN current
    BY DEF PickCompaction
  <2> QED
    BY <1>0, <2>1, <2>2 DEF Used, Read
<1>9. CASE OpenCompactionOutputFile
  <2>1. /\ UNCHANGED <<manifest, current, readers, edit>>
        /\ compaction'.base = compaction.base
        /\ pending' = pending \cup {nextFile} /\ DOMAIN tables' = DOMAIN tables \cup {nextFile}
    BY <1>0, <1>9 DEF OpenCompactionOutputFile, With, ThreadOK
  <2> QED
    BY <1>0, <2>1 DEF Used, Read
<1>10. CASE InstallCompactionResults
  <2>1. /\ UNCHANGED <<tables, manifest, current, readers, pending>>
        /\ compaction'.base = compaction.base
        /\ DOMAIN edit'.added = {compaction.output} /\ compaction.step = "output"
    BY <1>0, <1>10 DEF InstallCompactionResults, LogAndApply, ThreadOK, disk, versions
  <2>2. compaction.output \in pending
    BY <1>0, <2>1, FilesParts DEF OutputHeld
  <2> QED
    BY <1>0, <2>1, <2>2 DEF Used, Read
<1>11. CASE CompactionFails
  <2>1. UNCHANGED <<manifest, current, readers>>
    BY <1>11 DEF CompactionFails
  <2>2. /\ UNCHANGED tables /\ compaction' = NoCompaction /\ edit' = NoEdit
        /\ pending' = pending \ {compaction.output}
    BY <1>11, CompactionFailsLeaves
  <2> QED
    BY <1>0, <1>1, <2>1, <2>2 DEF Used, Read
<1>12. CASE CompactionLogged
  <2>1. UNCHANGED <<current, readers>>
    BY <1>12 DEF CompactionLogged
  <2>2. /\ UNCHANGED tables /\ edit' \in {edit, NoEdit} /\ pending' \subseteq pending
        /\ compaction'.base = compaction.base \/ compaction' = NoCompaction
        /\ SameFiles \/ EditRecorded
    BY <1>0, <1>12, CompactionLoggedCases DEF ThreadOK
  <2> QED
    BY <1>0, <1>1, <2>1, <2>2 DEF Used, Read, SameFiles, EditRecorded
<1>13. CASE CompactionInstalled
  <2>1. /\ UNCHANGED <<manifest, readers>> /\ current' = Apply(current, edit)
        /\ compaction.step = "install"
    BY <1>13 DEF CompactionInstalled
  <2>2. /\ FilesLeft(edit.log, IF bgError \/ compaction.output = 0 THEN DOMAIN tables
                                  ELSE Live(current', << >>, pending'))
        /\ compaction' = NoCompaction /\ edit' = NoEdit
        /\ pending' = pending \ {compaction.output}
    BY <1>0, <1>13, CompactionInstalledLeaves
  <2>3. Up
    BY <1>0, <2>1 DEF Control, NoCompaction
  <2>4. ~bgError => manifest.tables = current'
    BY <1>0, <2>1, <2>3 DEF Agreement, Installing, Up
  <2> QED
    BY <1>0, <1>1, <2>1, <2>2, <2>4 DEF Used, Read, FilesLeft, Live
<1>14. CASE ReadBegins
  <2>1. /\ UNCHANGED <<tables, manifest, current, compaction, edit, pending>>
        /\ readers' = readers \cup {current}
    BY <1>14 DEF ReadBegins, disk, background, versions
  <2>2. Read' = Read \cup DOMAIN current
    BY <2>1 DEF Read
  <2> QED
    BY <1>0, <2>1, <2>2 DEF Used
<1>15. CASE ReadEnds
  <2>1. /\ UNCHANGED <<tables, manifest, current, compaction, edit, pending>>
        /\ readers' \subseteq readers
    BY <1>15 DEF ReadEnds, disk, background, versions
  <2>2. Read' \subseteq Read
    BY <2>1 DEF Read
  <2> QED
    BY <1>0, <2>1, <2>2 DEF Used
<1>16. CASE MemoryLost
  <2>1. /\ UNCHANGED <<tables, manifest>> /\ current' = << >> /\ compaction' = NoCompaction
        /\ edit' = NoEdit /\ readers' = {} /\ pending' = {}
    BY <1>16 DEF MemoryLost
  <2> QED
    BY <1>0, <1>1, <2>1 DEF Used, Read
<1>17. CASE Recover
  <2>1. /\ UNCHANGED <<tables, manifest, compaction, readers, pending>>
        /\ current' = manifest.tables /\ edit' = NoEdit
    BY <1>17 DEF Recover, disk
  <2> QED
    BY <1>0, <1>1, <2>1 DEF Used, Read
<1>18. CASE RecoverLogFile
  <2>1. /\ UNCHANGED <<manifest, current, compaction, readers, pending>>
        /\ \/ UNCHANGED <<tables, edit>>
           \/ /\ DOMAIN tables' = DOMAIN tables \cup {nextFile}
              /\ DOMAIN edit'.added = DOMAIN edit.added \cup {nextFile}
    BY <1>0, <1>18 DEF RecoverLogFile, With, VersionsOK
  <2> QED
    BY <1>0, <2>1 DEF Used, Read
<1>19. CASE NewLog
  <2>1. /\ UNCHANGED <<tables, manifest, current, compaction, readers, pending>>
        /\ edit'.added = edit.added
    BY <1>0, <1>19 DEF NewLog, VersionsOK
  <2> QED
    BY <1>0, <2>1 DEF Used, Read
<1>20. CASE OpenLogged
  <2>1. /\ UNCHANGED <<tables, current, compaction, edit, readers, pending>>
        /\ manifest'.tables = Apply(manifest.tables, edit)
    BY <1>20, NewManifest DEF OpenLogged, EditRecorded, background, versions
  <2> QED
    BY <1>0, <1>1, <2>1 DEF Used, Read
<1>21. CASE Opened
  <2>1. /\ UNCHANGED <<manifest, compaction, readers, pending>> /\ status = "installing"
        /\ current' = Apply(current, edit) /\ edit' = NoEdit
    BY <1>21 DEF Opened
  <2>2. FilesLeft(edit.log, Live(current', << >>, {}))
    BY <1>0, <1>21, OpenedLeaves
  <2>3. manifest.tables = current' /\ compaction = NoCompaction /\ readers = {} /\ pending = {}
    BY <1>0, <2>1 DEF Agreement, Installing, Control, Up
  <2> QED
    BY <1>0, <1>1, <2>1, <2>2, <2>3 DEF Used, Read, FilesLeft, Live
<1> QED
    BY <1>3, <1>4, <1>5, <1>6, <1>7, <1>8, <1>9, <1>10, <1>11, <1>12, <1>13, <1>14, <1>15,
       <1>16, <1>17, <1>18, <1>19, <1>20, <1>21
       DEF Works, Background, Closed, ProcessCrash, MachineCrash

\* The log in use is never deleted, not even by a flush that drops all logs before it.
LEMMA LogInUseKept == ASSUME IInv, Works PROVE LogInUse'
<1>0. /\ Types /\ Control /\ LogInUse /\ Numbers /\ ThreadOK /\ VersionsOK
      /\ \A n \in DOMAIN logs : n \in Nat
    BY TypesParts, FilesParts DEF IInv, LogsOK
<1>1. CASE SwitchMemTable
    BY <1>1 DEF SwitchMemTable, With, LogInUse
<1>2. CASE AddRecord
    BY <1>0, <1>2 DEF AddRecord, LogInUse, Up
<1>3. CASE FlushInstalled
  <2>1. /\ flush.step = "install" /\ UNCHANGED <<logfileNumber, status>>
        /\ \A n \in DOMAIN logs : n < edit.log \/ n \in DOMAIN logs'
    BY <1>0, <1>3, FlushInstalledLeaves DEF FlushInstalled, FilesLeft
  <2> QED
    BY <1>0, <2>1 DEF LogInUse, Numbers, Up
<1>4. CASE CompactionInstalled
  <2>1. /\ compaction.step = "install" /\ UNCHANGED <<logfileNumber, status>>
        /\ \A n \in DOMAIN logs : n < edit.log \/ n \in DOMAIN logs'
    BY <1>0, <1>4, CompactionInstalledLeaves DEF CompactionInstalled, FilesLeft
  <2>2. edit.log = logNumber /\ (Up => logNumber <= logfileNumber)
    BY <1>0, <2>1 DEF Numbers
  <2> QED
    BY <1>0, <2>1, <2>2 DEF LogInUse, Up, VersionsOK
<1>5. CASE Opened
  <2>1. /\ status = "installing" /\ UNCHANGED logfileNumber
        /\ \A n \in DOMAIN logs : n < edit.log \/ n \in DOMAIN logs'
    BY <1>0, <1>5, OpenedLeaves DEF Opened, FilesLeft
  <2> QED
    BY <1>0, <2>1 DEF LogInUse, Numbers, Up
<1>6. CASE CompactionFails \/ CompactionLogged
  <2>1. UNCHANGED <<logs, logfileNumber, status>>
    BY <1>0, <1>6, CompactionFailsLeaves, CompactionLoggedCases
       DEF CompactionFails, CompactionLogged, ThreadOK
  <2> QED
    BY <1>0, <2>1 DEF LogInUse, Up
<1>7. CASE Write \/ RefuseWrite \/ SyncLog \/ FinishWrite \/ BackgroundIdle \/ CompactMemTable
           \/ WriteLevel0Table \/ FlushLogged \/ StartCompaction \/ OpenCompactionOutputFile
           \/ InstallCompactionResults \/ ReadBegins \/ ReadEnds \/ Close
  <2>1. UNCHANGED <<logs, logfileNumber>> /\ (status' = status \/ Up)
    BY <1>7 DEF Write, RefuseWrite, SyncLog, FinishWrite, BackgroundIdle, CompactMemTable,
        WriteLevel0Table, FlushLogged, StartCompaction, OpenCompactionOutputFile,
        InstallCompactionResults, ReadBegins, ReadEnds, Close, Up, disk
  <2> QED
    BY <1>0, <2>1 DEF LogInUse, Up
<1>8. CASE MemoryLost \/ Recover \/ RecoverLogFile \/ NewLog \/ OpenLogged
    BY <1>8 DEF MemoryLost, Recover, RecoverLogFile, NewLog, OpenLogged, LogInUse, Up
<1> QED
    BY <1>1, <1>2, <1>3, <1>4, <1>5, <1>6, <1>7, <1>8
       DEF Works, FirstWriter, Background, Closed, ProcessCrash, MachineCrash

\* The table that a flush writes is pending and in nobody else's hands.
LEMMA PrivateKept == ASSUME IInv, Works PROVE Private'
<1>0. /\ Types /\ Control /\ Private /\ ThreadOK /\ VersionsOK
    BY TypesParts, FilesParts DEF IInv
<1>1. CASE CompactMemTable
  <2>1. /\ UNCHANGED <<manifest, current, compaction, readers>> /\ status = "open"
        /\ pending' = pending \cup {nextFile} /\ flush'.table = nextFile
    BY <1>1 DEF CompactMemTable, MayWork, MayInterrupt
  <2>2. \A t \in Used : t # nextFile
    BY <2>1, NextFileIsNew
  <2>3. nextFile # compaction.output
    BY <2>1, NextFileIsNew DEF Up
  <2> QED
    BY <2>1, <2>2, <2>3 DEF Private, Used, Read
<1>2. CASE Write \/ FirstWriter \/ BackgroundIdle \/ Close
  <2>1. UNCHANGED <<manifest, current, compaction, readers, pending, flush>>
    BY <1>2 DEF Write, FirstWriter, SwitchMemTable, RefuseWrite, AddRecord, SyncLog,
        FinishWrite, BackgroundIdle, Close, disk, background, versions
  <2> QED
    BY <1>0, <2>1 DEF Private, Read
<1>3. CASE ReadBegins
  <2>1. /\ UNCHANGED <<manifest, current, compaction, pending, flush>>
        /\ readers' = readers \cup {current}
    BY <1>3 DEF ReadBegins, disk, background, versions
  <2>2. Read' = Read \cup DOMAIN current
    BY <2>1 DEF Read
  <2> QED
    BY <1>0, <2>1, <2>2 DEF Private
<1>4. CASE ReadEnds
  <2>1. /\ UNCHANGED <<manifest, current, compaction, pending, flush>>
        /\ readers' \subseteq readers
    BY <1>4 DEF ReadEnds, disk, background, versions
  <2>2. Read' \subseteq Read
    BY <2>1 DEF Read
  <2> QED
    BY <1>0, <2>1, <2>2 DEF Private
<1>5. CASE ~(CompactMemTable \/ Write \/ FirstWriter \/ BackgroundIdle \/ Close \/ ReadBegins
             \/ ReadEnds)
  <2>1. flush'.step # "build"
    <3>1. CASE WriteLevel0Table
      <4>1. flush'.step = "apply" \/ flush' = NoFlush
        BY <1>0, <3>1, WriteLevel0TableCases DEF ThreadOK
      <4> QED
        BY <4>1 DEF NoFlush
    <3>2. CASE FlushLogged
      <4>1. flush' = [flush EXCEPT !.step = "install"] \/ flush' = NoFlush
        BY <3>2 DEF FlushLogged, FlushFails
      <4> QED
        BY <1>0, <4>1 DEF NoFlush, ThreadOK, Flush
    <3>3. CASE FlushInstalled \/ MemoryLost
      BY <3>3 DEF FlushInstalled, MemoryLost, NoFlush
    <3>4. CASE StartCompaction \/ OpenCompactionOutputFile \/ InstallCompactionResults
               \/ CompactionFails
      <4>1. flush' = NoFlush
        BY <3>4 DEF StartCompaction, MayWork, OpenCompactionOutputFile,
            InstallCompactionResults, CompactionFails
      <4> QED
        BY <4>1 DEF NoFlush
    <3>5. CASE CompactionLogged \/ CompactionInstalled
      BY <1>0, <3>5 DEF CompactionLogged, CompactionInstalled, Control, ThreadOK, Flush
    <3>6. CASE Recover \/ RecoverLogFile \/ NewLog \/ OpenLogged \/ Opened
      BY <1>0, <3>6 DEF Recover, RecoverLogFile, NewLog, OpenLogged, Opened, background,
          Control, Up, NoFlush
    <3> QED
      BY <1>5, <3>1, <3>2, <3>3, <3>4, <3>5, <3>6
         DEF Works, Background, Closed, ProcessCrash, MachineCrash
  <2> QED
    BY <2>1 DEF Private
<1> QED
    BY <1>1, <1>2, <1>3, <1>4, <1>5

\* The output of a compaction is pending until the compaction ends.
LEMMA OutputHeldKept == ASSUME IInv, Works PROVE OutputHeld'
<1>0. /\ Types /\ Control /\ Private /\ OutputHeld /\ ThreadOK /\ VersionsOK
    BY TypesParts, FilesParts DEF IInv
<1>1. CASE CompactMemTable
    BY <1>0, <1>1 DEF CompactMemTable, OutputHeld
<1>2. CASE WriteLevel0Table
    BY <1>0, <1>2 DEF WriteLevel0Table, FlushFails, OutputHeld, Private
<1>3. CASE StartCompaction
    BY <1>0, <1>3 DEF StartCompaction, OutputHeld
<1>4. CASE OpenCompactionOutputFile
  <2>1. nextFile # 0
    BY <1>4, NextFileIsNew DEF OpenCompactionOutputFile, Up
  <2> QED
    BY <1>0, <1>4, <2>1 DEF OpenCompactionOutputFile, OutputHeld, ThreadOK
<1>5. CASE InstallCompactionResults
    BY <1>0, <1>5 DEF InstallCompactionResults, OutputHeld, ThreadOK, versions
<1>6. CASE CompactionFails \/ CompactionInstalled \/ MemoryLost
  <2>1. compaction' = NoCompaction
    BY <1>0, <1>6, CompactionFailsLeaves, CompactionInstalledLeaves DEF MemoryLost
  <2> QED
    BY <2>1 DEF NoCompaction, OutputHeld
<1>7. CASE CompactionLogged
  <2>1. \/ compaction' = NoCompaction
        \/ /\ compaction'.step = "install" /\ compaction'.output = compaction.output
           /\ UNCHANGED pending
    BY <1>0, <1>7, CompactionLoggedCases DEF ThreadOK
  <2> QED
    BY <1>0, <2>1 DEF NoCompaction, OutputHeld
<1>8. CASE Write \/ FirstWriter \/ BackgroundIdle \/ Close \/ FlushLogged \/ FlushInstalled
           \/ ReadBegins \/ ReadEnds \/ Recover \/ RecoverLogFile \/ NewLog \/ OpenLogged
           \/ Opened
  <2>1. UNCHANGED <<compaction, pending>>
    BY <1>8 DEF Write, FirstWriter, SwitchMemTable, RefuseWrite, AddRecord, SyncLog,
        FinishWrite, BackgroundIdle, Close, FlushLogged, FlushFails, FlushInstalled, ReadBegins,
        ReadEnds, Recover, RecoverLogFile, NewLog, OpenLogged, Opened, background, versions
  <2> QED
    BY <1>0, <2>1 DEF OutputHeld
<1> QED
    BY <1>1, <1>2, <1>3, <1>4, <1>5, <1>6, <1>7, <1>8
       DEF Works, Background, Closed, ProcessCrash, MachineCrash

\* All of Files is kept.
LEMMA FilesKept == ASSUME IInv, Works PROVE Files'
<1>1. /\ Used' \subseteq DOMAIN tables' /\ LogInUse' /\ Private' /\ OutputHeld'
    BY UsedKept, LogInUseKept, PrivateKept, OutputHeldKept
<1>2. toRecover' \subseteq DOMAIN logs'
  <2>1. toRecover \subseteq DOMAIN logs /\ (status # "recovering" => toRecover = {})
    BY DEF IInv, Files, Control
  <2>2. CASE Recover \/ RecoverLogFile
    BY <2>1, <2>2 DEF Recover, RecoverLogFile, disk
  <2>3. CASE FlushInstalled \/ CompactionInstalled \/ Opened \/ MemoryLost
    <3>1. status # "recovering" \/ MemoryLost
      <4>1. Up \/ (flush.step = "none" /\ compaction.step = "none")
        <5>1. ~Up => flush = NoFlush /\ compaction = NoCompaction
          BY DEF IInv, Control
        <5> QED
          BY <5>1 DEF NoFlush, NoCompaction, Up
      <4> QED
        BY <2>3, <4>1 DEF FlushInstalled, CompactionInstalled, Opened, Up
    <3>2. toRecover' = toRecover \/ toRecover' = {}
      BY <2>3 DEF FlushInstalled, CompactionInstalled, Opened, MemoryLost
    <3> QED
      BY <2>1, <3>1, <3>2 DEF MemoryLost
  <2>4. CASE ~(Recover \/ RecoverLogFile \/ FlushInstalled \/ CompactionInstalled \/ Opened
               \/ MemoryLost)
    <3>1. toRecover' = toRecover /\ DOMAIN logs \subseteq DOMAIN logs'
      <4>1. CASE SwitchMemTable \/ AddRecord \/ NewLog
        BY <4>1 DEF SwitchMemTable, AddRecord, NewLog, With
      <4>2. CASE CompactionFails \/ CompactionLogged
        BY <4>2, CompactionFailsLeaves, CompactionLoggedCases
           DEF CompactionFails, CompactionLogged, IInv
      <4>3. CASE ~(SwitchMemTable \/ AddRecord \/ NewLog \/ CompactionFails \/ CompactionLogged)
        BY <2>4, <4>3 DEF Works, FirstWriter, Background, Write, RefuseWrite, SyncLog,
            FinishWrite, BackgroundIdle, CompactMemTable, WriteLevel0Table, FlushLogged,
            StartCompaction, OpenCompactionOutputFile, InstallCompactionResults, ReadBegins,
            ReadEnds, Close, Closed, ProcessCrash, MachineCrash, OpenLogged, disk
      <4> QED
        BY <4>1, <4>2, <4>3
    <3> QED
      BY <2>1, <3>1
  <2> QED
    BY <2>2, <2>3, <2>4
<1> QED
    BY <1>1, <1>2, FilesPartsNext

-----------------------------------------------------------------------------
(* Their numbers.                                                          *)

\* The parts of Numbers.
LogNumbers ==
    /\ status # "down" => \A n \in DOMAIN logs \ toRecover : n < nextFile
    /\ status \in {"logging", "installing"} =>
          edit.log = logfileNumber /\ logfileNumber \in DOMAIN logs
    /\ Up => logNumber <= logfileNumber /\ manifest.log <= logfileNumber
    /\ flush.step \in {"apply", "install"} => edit.log = logfileNumber
    /\ compaction.step \in {"apply", "install"} => edit.log = logNumber

\* The manifest and the edit name logs that come before their next numbers.
LogsOrdered == manifest.log <= manifest.next /\ edit.log <= edit.next

TableNumbers ==
    /\ \A t \in DOMAIN manifest.tables : t < manifest.next
    /\ status # "down" =>
          /\ manifest.next <= nextFile /\ edit.next <= nextFile
          /\ \A t \in DOMAIN current \cup DOMAIN compaction.base \cup Read \cup pending
                          \cup DOMAIN edit.added : t < nextFile
    /\ Applying => manifest.next <= edit.next /\ \A t \in DOMAIN edit.added : t < edit.next

\* Numbers is its parts.
LEMMA NumbersParts == Numbers <=> LogNumbers /\ LogsOrdered /\ TableNumbers
  BY DEF Numbers, LogNumbers, LogsOrdered, TableNumbers

\* The same of the next state.
LEMMA NumbersPartsNext == (LogNumbers /\ LogsOrdered /\ TableNumbers)' => Numbers'
  BY NumbersParts, PTL

\* The manifest changes by the edit under way only.
LEMMA ManifestSteps ==
    ASSUME IInv, Works
    PROVE  \/ SameFiles
           \/ /\ flush.step = "apply" \/ compaction.step = "apply" \/ status = "logging"
              /\ EditRecorded
<1>0. Types /\ VersionsOK
    BY TypesParts DEF IInv
<1>1. CASE FlushLogged
    BY <1>0, <1>1, FlushLoggedCases DEF FlushLogged
<1>2. CASE CompactionLogged
    BY <1>0, <1>2, CompactionLoggedCases DEF CompactionLogged
<1>3. CASE OpenLogged
    BY <1>3, NewManifest DEF OpenLogged
<1>4. CASE ~(FlushLogged \/ CompactionLogged \/ OpenLogged)
  <2>1. UNCHANGED manifest
    BY <1>4 DEF Works, Background, FirstWriter, Write, SwitchMemTable, RefuseWrite, AddRecord,
        SyncLog, FinishWrite, BackgroundIdle, CompactMemTable, WriteLevel0Table,
        FlushInstalled, StartCompaction, OpenCompactionOutputFile, InstallCompactionResults,
        CompactionFails, CompactionInstalled, ReadBegins, ReadEnds, Close, Closed,
        ProcessCrash, MachineCrash, MemoryLost, Recover, RecoverLogFile, NewLog, Opened, disk
  <2> QED
    BY <1>0, <2>1, ManifestLeft
<1> QED
    BY <1>1, <1>2, <1>3, <1>4

\* The edit under way keeps its numbers, is a new one, or is given up.
LEMMA EditSteps ==
    ASSUME IInv, Works
    PROVE  \/ edit' = NoEdit
           \/ edit'.log = edit.log /\ edit'.next = edit.next
           \/ Up /\ edit'.next = nextFile /\ edit'.log \in {logfileNumber, logNumber}
           \/ edit'.next = nextFile + 1 /\ edit'.log = nextFile
<1>0. /\ Types /\ Control /\ flush \in Flush
      /\ DOMAIN edit = {"added", "deleted", "log", "next"}
    BY TypesParts DEF IInv, ThreadOK, VersionsOK
<1>1. CASE WriteLevel0Table
  <2>1. \/ status = "open" /\ edit'.log = logfileNumber /\ edit'.next = nextFile
        \/ edit' = NoEdit
    BY <1>0, <1>1, WriteLevel0TableCases
  <2> QED
    BY <2>1 DEF Up
<1>2. CASE FlushLogged
    BY <1>0, <1>2, FlushLoggedCases DEF FlushFails
<1>3. CASE CompactionLogged
    BY <1>0, <1>3, CompactionLoggedCases
<1>4. CASE StartCompaction \/ InstallCompactionResults
    BY <1>4 DEF StartCompaction, InstallCompactionResults, MayWork, LogAndApply, Up
<1>5. CASE FlushInstalled \/ Opened \/ MemoryLost \/ Recover
    BY <1>5 DEF FlushInstalled, Opened, MemoryLost, Recover
<1>6. CASE CompactionFails \/ CompactionInstalled
    BY <1>6, CompactionFailsLeaves DEF CompactionInstalled, EndCompaction
<1>7. CASE RecoverLogFile
    BY <1>0, <1>7 DEF RecoverLogFile
<1>8. CASE NewLog
    BY <1>0, <1>8 DEF NewLog
<1>9. CASE ~(WriteLevel0Table \/ FlushLogged \/ CompactionLogged \/ StartCompaction
             \/ InstallCompactionResults \/ FlushInstalled \/ Opened \/ MemoryLost \/ Recover
             \/ CompactionFails \/ CompactionInstalled \/ RecoverLogFile \/ NewLog)
    BY <1>9 DEF Works, FirstWriter, Background, Write, SwitchMemTable, RefuseWrite, AddRecord,
        SyncLog, FinishWrite, BackgroundIdle, CompactMemTable, OpenCompactionOutputFile,
        ReadBegins, ReadEnds, Close, Closed, ProcessCrash, MachineCrash, OpenLogged, background
<1> QED
    BY <1>1, <1>2, <1>3, <1>4, <1>5, <1>6, <1>7, <1>8, <1>9

\* A new edit names a log that was given its number before.
LEMMA LogsOrderedKept == ASSUME IInv, Works PROVE LogsOrdered'
<1>0. /\ LogsOrdered /\ LogNumbers /\ LogInUse /\ Control /\ NoEdit.log = 0 /\ NoEdit.next = 0
      /\ nextFile \in Nat /\ logNumber \in Nat /\ logfileNumber \in Nat
      /\ DOMAIN logs \subseteq Nat
    BY TypesParts, NumbersParts, FilesParts DEF IInv, VersionsOK, LogsOK, NoEdit
<1>1. Up => logfileNumber < nextFile /\ logNumber <= logfileNumber
    BY <1>0 DEF LogNumbers, LogInUse, Control, Up
<1>2. manifest'.log <= manifest'.next
    BY <1>0, ManifestSteps DEF LogsOrdered, SameFiles, EditRecorded
<1>3. edit'.log <= edit'.next
    BY <1>0, <1>1, EditSteps DEF LogsOrdered
<1> QED
    BY <1>2, <1>3 DEF LogsOrdered

\* The log files: their numbers are behind the next one, and the log in use is not
\* before the one that memory and the manifest start from.
LEMMA LogNumbersKept == ASSUME IInv, Works PROVE LogNumbers'
<1>0. /\ Types /\ Control /\ Agreement /\ Files /\ LogNumbers /\ VersionsOK /\ ThreadOK
      /\ LogsOrdered
      /\ DOMAIN logs \subseteq Nat /\ LogInUse
    BY TypesParts, NumbersParts, FilesParts DEF IInv, LogsOK
<1>1. /\ nextFile \in Nat /\ logNumber \in Nat /\ logfileNumber \in Nat
      /\ manifest.log \in Nat /\ edit.log \in Nat
    BY <1>0 DEF VersionsOK, IsEdit
<1>2. /\ Up => toRecover = {}
      /\ ~Up => flush.step = "none" /\ compaction.step = "none"
      /\ flush.step # "none" => compaction.step \in {"none", "work", "output"}
      /\ Up => logfileNumber \in DOMAIN logs \ toRecover
      /\ Up => logfileNumber < nextFile
  <2>1. ~Up => flush = NoFlush /\ compaction = NoCompaction
    BY <1>0 DEF Control
  <2>2. Up => toRecover = {}
    BY <1>0 DEF Control, Up
  <2> QED
    BY <1>0, <2>1, <2>2 DEF Control, LogInUse, LogNumbers, Up, NoFlush, NoCompaction
<1>3. CASE Write \/ RefuseWrite \/ AddRecord \/ SyncLog \/ FinishWrite \/ BackgroundIdle
           \/ ReadBegins \/ ReadEnds \/ Close
  <2>1. /\ UNCHANGED <<manifest, flush, compaction, edit, logNumber, logfileNumber, nextFile,
                       toRecover>>
        /\ DOMAIN logs' = DOMAIN logs
        /\ status' = status \/ (status = "open" /\ status' = "closing")
    BY <1>3 DEF Write, RefuseWrite, AddRecord, SyncLog, FinishWrite, BackgroundIdle, ReadBegins,
        ReadEnds, Close, disk, background, versions
  <2> QED
    BY <1>0, <2>1 DEF LogNumbers, Up
<1>4. CASE SwitchMemTable
  <2>1. /\ UNCHANGED <<manifest, flush, compaction, edit, logNumber, toRecover, status>>
        /\ logfileNumber' = nextFile /\ nextFile' = nextFile + 1
        /\ DOMAIN logs' = DOMAIN logs \cup {nextFile}
        /\ imm = {} /\ writers # << >>
    BY <1>4 DEF SwitchMemTable, NewFileNumber, With, MayLead
  <2>2. flush.step = "none" /\ Up
    BY <1>0, <2>1 DEF Control
  <2> QED
    BY <1>0, <1>1, <1>2, <2>1, <2>2 DEF LogNumbers, Up
<1>5. CASE CompactMemTable
  <2>1. /\ UNCHANGED <<manifest, compaction, edit, logNumber, logfileNumber, toRecover, status,
                       logs>>
        /\ nextFile' = nextFile + 1 /\ flush'.step = "build" /\ imm # {}
    BY <1>5 DEF CompactMemTable, NewFileNumber
  <2> QED
    BY <1>0, <1>1, <1>2, <2>1 DEF LogNumbers, Up
<1>6. CASE WriteLevel0Table
  <2>1. /\ UNCHANGED <<manifest, compaction, logNumber, logfileNumber, toRecover, status, logs,
                       nextFile>>
        /\ flush.step = "build"
    BY <1>6 DEF WriteLevel0Table, FlushFails
  <2>2. \/ flush' = NoFlush
        \/ flush'.step = "apply" /\ edit'.log = logfileNumber
    BY <1>0, <1>6, WriteLevel0TableCases DEF ThreadOK
  <2> QED
    BY <1>0, <1>1, <1>2, <2>1, <2>2 DEF LogNumbers, Up, NoFlush
<1>7. CASE FlushLogged
  <2>1. /\ UNCHANGED <<compaction, logNumber, logfileNumber, toRecover, status, logs, nextFile>>
        /\ flush.step = "apply"
        /\ \/ flush' = NoFlush
           \/ flush' = [flush EXCEPT !.step = "install"] /\ edit' = edit
        /\ SameFiles \/ EditRecorded
    BY <1>0, <1>7, FlushLoggedCases DEF FlushLogged, FlushFails, versions
  <2>2. /\ \/ flush'.step = "none"
           \/ flush'.step = "install" /\ edit' = edit
        /\ manifest'.log = manifest.log \/ manifest'.log = edit.log
    BY <1>0, <2>1 DEF ThreadOK, Flush, NoFlush, SameFiles, EditRecorded
  <2> QED
    BY <1>0, <1>1, <1>2, <2>1, <2>2 DEF LogNumbers, Up
<1>8. CASE FlushInstalled
  <2>1. /\ UNCHANGED <<manifest, compaction, logfileNumber, toRecover, status, nextFile>>
        /\ flush.step = "install" /\ flush'.step = "none" /\ logNumber' = edit.log
    BY <1>8 DEF FlushInstalled, NoFlush
  <2>2. DOMAIN logs' \subseteq DOMAIN logs
    BY <1>0, <1>8, FlushInstalledLeaves DEF FilesLeft
  <2> QED
    BY <1>0, <1>1, <1>2, <2>1, <2>2 DEF LogNumbers, Up
<1>9. CASE StartCompaction \/ InstallCompactionResults
  <2>1. /\ UNCHANGED <<manifest, flush, logNumber, logfileNumber, toRecover, status, logs,
                       nextFile>>
        /\ flush = NoFlush /\ status = "open"
        /\ compaction'.step = "work" \/ edit'.log = logNumber
    BY <1>9 DEF StartCompaction, InstallCompactionResults, LogAndApply, MayWork, disk, versions
  <2> QED
    BY <1>0, <1>1, <1>2, <2>1 DEF LogNumbers, Up, NoFlush
<1>10. CASE OpenCompactionOutputFile
  <2>1. /\ UNCHANGED <<manifest, flush, edit, logNumber, logfileNumber, toRecover, status, logs>>
        /\ nextFile' = nextFile + 1 /\ compaction'.step = "output"
    BY <1>0, <1>10 DEF OpenCompactionOutputFile, NewFileNumber, ThreadOK
  <2> QED
    BY <1>0, <1>1, <1>2, <2>1 DEF LogNumbers, Up
<1>11. CASE CompactionFails
  <2>1. /\ UNCHANGED <<manifest, flush, logNumber, logfileNumber, toRecover, status, logs,
                       nextFile>>
        /\ flush = NoFlush /\ compaction.step # "none" /\ compaction' = NoCompaction
    BY <1>11, CompactionFailsLeaves DEF CompactionFails
  <2> QED
    BY <1>0, <1>1, <1>2, <2>1 DEF LogNumbers, Up, NoFlush, NoCompaction
<1>12. CASE CompactionLogged
  <2>1. /\ UNCHANGED <<flush, logNumber, logfileNumber, toRecover, status, logs, nextFile>>
        /\ compaction.step = "apply"
    BY <1>0, <1>12, CompactionLoggedCases DEF CompactionLogged, ThreadOK
  <2>2. /\ \/ compaction' = NoCompaction
           \/ compaction'.step = "install" /\ edit' = edit
        /\ SameFiles \/ EditRecorded
    BY <1>0, <1>12, CompactionLoggedCases DEF ThreadOK
  <2>3. manifest'.log = manifest.log \/ manifest'.log = edit.log
    BY <2>2 DEF SameFiles, EditRecorded
  <2> QED
    BY <1>0, <1>1, <1>2, <2>1, <2>2, <2>3 DEF LogNumbers, Up, NoCompaction
<1>13. CASE CompactionInstalled
  <2>1. /\ UNCHANGED <<manifest, flush, logfileNumber, toRecover, status, nextFile>>
        /\ compaction.step = "install" /\ logNumber' = edit.log
    BY <1>13 DEF CompactionInstalled
  <2>2. DOMAIN logs' \subseteq DOMAIN logs /\ compaction'.step = "none"
    BY <1>0, <1>13, CompactionInstalledLeaves DEF FilesLeft, NoCompaction
  <2> QED
    BY <1>0, <1>1, <1>2, <2>1, <2>2 DEF LogNumbers, Up
<1>14. CASE MemoryLost
    BY <1>14 DEF MemoryLost, LogNumbers, Up, NoFlush, NoCompaction
<1>15. CASE Recover
  <2>1. /\ UNCHANGED <<flush, compaction, logs>>
        /\ status = "down" /\ status' = "recovering"
        /\ toRecover' = {n \in DOMAIN logs : n >= manifest.log}
        /\ nextFile' = manifest.next + 1
    BY <1>15 DEF Recover, disk
  <2>2. nextFile' > manifest.log /\ nextFile' \in Nat
    BY <1>0, <2>1 DEF VersionsOK, LogsOrdered
  <2> QED
    BY <1>0, <1>1, <1>2, <2>1, <2>2 DEF LogNumbers, Up
<1>16. CASE RecoverLogFile
  <2>1. /\ UNCHANGED <<flush, compaction, logs, status>>
        /\ status = "recovering" /\ toRecover # {}
        /\ toRecover' = toRecover \ {Min(toRecover)}
        /\ \/ nextFile' = MarkFileNumberUsed(nextFile, Min(toRecover))
           \/ nextFile' = MarkFileNumberUsed(nextFile + 1, Min(toRecover))
    BY <1>16 DEF RecoverLogFile
  <2>2. Min(toRecover) \in Nat
    BY <1>0, <2>1, NextLogToRecover
  <2>3. nextFile' >= nextFile /\ nextFile' > Min(toRecover) /\ nextFile' \in Nat
    BY <1>1, <2>1, <2>2 DEF MarkFileNumberUsed
  <2> QED
    BY <1>0, <1>1, <1>2, <2>1, <2>3 DEF LogNumbers, Up
<1>17. CASE NewLog
  <2>1. /\ UNCHANGED <<flush, compaction, toRecover>>
        /\ status = "recovering" /\ status' = "logging"
        /\ DOMAIN logs' = DOMAIN logs \cup {nextFile}
        /\ logfileNumber' = nextFile /\ nextFile' = nextFile + 1 /\ edit'.log = nextFile
    BY <1>0, <1>17 DEF NewLog, With, VersionsOK
  <2> QED
    BY <1>0, <1>1, <1>2, <2>1 DEF LogNumbers, Up
<1>18. CASE OpenLogged
  <2>1. /\ UNCHANGED <<flush, compaction, logs, toRecover, edit, logfileNumber, nextFile>>
        /\ status = "logging" /\ status' = "installing"
    BY <1>18 DEF OpenLogged, background, versions
  <2> QED
    BY <1>0, <1>2, <2>1 DEF LogNumbers, Up
<1>19. CASE Opened
  <2>1. /\ UNCHANGED <<flush, compaction, toRecover, logfileNumber, nextFile, manifest>>
        /\ status = "installing" /\ status' = "open" /\ logNumber' = edit.log
    BY <1>19 DEF Opened
  <2>2. DOMAIN logs' \subseteq DOMAIN logs
    BY <1>0, <1>19, OpenedLeaves DEF FilesLeft
  <2>3. manifest.log = edit.log
    BY <1>0, <2>1 DEF Agreement, Installing, Control, Up
  <2> QED
    BY <1>0, <1>1, <1>2, <2>1, <2>2, <2>3 DEF LogNumbers, Up
<1> QED
    BY <1>3, <1>4, <1>5, <1>6, <1>7, <1>8, <1>9, <1>10, <1>11, <1>12, <1>13, <1>14, <1>15, <1>16,
       <1>17, <1>18, <1>19
       DEF Works, FirstWriter, Background, Closed, ProcessCrash, MachineCrash

\* The table files: those named in the manifest are behind its own next number, all
\* others, those of the edit under way too, behind the next number in memory.
LEMMA TableNumbersKept == ASSUME IInv, Works PROVE TableNumbers'
<1>0. /\ Types /\ Control /\ Files /\ TableNumbers /\ VersionsOK /\ ThreadOK
      /\ Used \subseteq Nat
  <2>1. Used \subseteq DOMAIN tables /\ DOMAIN tables \subseteq Nat
    BY TypesParts, FilesParts DEF IInv, TablesOK
  <2> QED
    BY <2>1, TypesParts, NumbersParts DEF IInv
<1>1. /\ nextFile \in Nat /\ manifest.next \in Nat /\ edit.next \in Nat
      /\ IsEdit(edit) /\ IsVersion(current) /\ IsVersion(manifest.tables)
      /\ DOMAIN edit = {"added", "deleted", "log", "next"}
    BY <1>0 DEF VersionsOK, IsEdit
<1>2. /\ DOMAIN Apply(current, edit) \subseteq DOMAIN edit.added \cup DOMAIN current
      /\ DOMAIN Apply(manifest.tables, edit)
            \subseteq DOMAIN edit.added \cup DOMAIN manifest.tables
      /\ DOMAIN NoEdit.added = {} /\ NoEdit.next = 0
      /\ DOMAIN << >> = {} /\ DOMAIN NoCompaction.base = {}
  <2>1. DOMAIN << >> = {}
    OBVIOUS
  <2>2. NoEdit.added = << >> /\ NoEdit.next = 0 /\ NoCompaction.base = << >>
    BY DEF NoEdit, NoCompaction
  <2>3. /\ DOMAIN Apply(current, edit) = DOMAIN edit.added \cup (DOMAIN current \ edit.deleted)
        /\ DOMAIN Apply(manifest.tables, edit)
            = DOMAIN edit.added \cup (DOMAIN manifest.tables \ edit.deleted)
    BY <1>1, VersionApply
  <2>4. DOMAIN NoEdit.added = {} /\ DOMAIN NoCompaction.base = {}
    BY <2>1, <2>2
  <2> QED
    BY <2>1, <2>2, <2>3, <2>4
<1>3. status # "down" => \A t \in Used : t < nextFile
    BY NextFileIsNew
<1>4. /\ Used = DOMAIN current \cup DOMAIN compaction.base \cup Read
                  \cup DOMAIN manifest.tables \cup DOMAIN edit.added \cup pending
      /\ \A t \in DOMAIN manifest.tables : t < manifest.next
      /\ status # "down" => manifest.next <= nextFile /\ edit.next <= nextFile
      /\ Applying => manifest.next <= edit.next /\ \A t \in DOMAIN edit.added : t < edit.next
    BY <1>0 DEF TableNumbers, Used
<1>5. /\ flush.step # "none" => Up /\ compaction.step \in {"none", "work", "output"}
      /\ compaction.step # "none" => Up
      /\ ~Up => flush = NoFlush /\ compaction = NoCompaction
  <2>1. ~Up => flush = NoFlush /\ compaction = NoCompaction
    BY <1>0 DEF Control
  <2> QED
    BY <1>0, <2>1 DEF Control, Up, NoFlush, NoCompaction
<1>6. CASE Write \/ RefuseWrite \/ AddRecord \/ SyncLog \/ FinishWrite \/ BackgroundIdle
           \/ ReadBegins \/ ReadEnds \/ Close
  <2>1. /\ UNCHANGED <<manifest, flush, compaction, edit, current, pending, nextFile>>
        /\ readers' \subseteq readers \cup {current}
        /\ status' = status \/ (status = "open" /\ status' = "closing")
    BY <1>6 DEF Write, RefuseWrite, AddRecord, SyncLog, FinishWrite, BackgroundIdle, ReadBegins,
        ReadEnds, Close, disk, background, versions
  <2> QED
    BY <1>0, <1>3, <1>4, <2>1 DEF TableNumbers, Read, Applying
<1>7. CASE SwitchMemTable
  <2>1. /\ UNCHANGED <<manifest, flush, compaction, edit, current, pending, readers, status>>
        /\ nextFile' = nextFile + 1
    BY <1>7 DEF SwitchMemTable, NewFileNumber
  <2> QED
    BY <1>0, <1>1, <1>3, <1>4, <2>1 DEF TableNumbers, Read, Applying
<1>8. CASE CompactMemTable
  <2>1. /\ UNCHANGED <<manifest, compaction, edit, current, readers, status>>
        /\ nextFile' = nextFile + 1 /\ pending' = pending \cup {nextFile}
        /\ flush'.step = "build"
    BY <1>8 DEF CompactMemTable, NewFileNumber
  <2> QED
    BY <1>0, <1>1, <1>3, <1>4, <2>1 DEF TableNumbers, Read, Applying
<1>9. CASE WriteLevel0Table
  <2>1. /\ UNCHANGED <<manifest, compaction, current, readers, status, nextFile>>
        /\ pending' = pending \ {flush.table} /\ flush.step = "build"
    BY <1>9 DEF WriteLevel0Table, FlushFails
  <2>2. \/ flush' = NoFlush /\ edit' = NoEdit
        \/ DOMAIN edit'.added = {flush.table} /\ edit'.next = nextFile
    BY <1>0, <1>9, WriteLevel0TableCases DEF ThreadOK
  <2>3. flush.table \in pending /\ Up
    BY <1>0, <2>1, FilesParts DEF Private, Control, NoFlush
  <2>4. compaction.step \in {"none", "work", "output"} /\ status \in {"open", "closing"}
    BY <1>0, <2>1, <2>3 DEF Control, Up
  <2> QED
    BY <1>0, <1>1, <1>2, <1>3, <1>4, <2>1, <2>2, <2>3, <2>4
       DEF TableNumbers, Read, Applying, NoFlush
<1>10. CASE FlushLogged
  <2>1. /\ UNCHANGED <<compaction, current, readers, pending, status, nextFile>>
        /\ flush.step = "apply"
        /\ edit' \in {edit, NoEdit}
        /\ SameFiles \/ EditRecorded
    BY <1>0, <1>10, FlushLoggedCases DEF FlushLogged, FlushFails, versions
  <2>2. flush' = NoFlush \/ flush' = [flush EXCEPT !.step = "install"]
    BY <1>10 DEF FlushLogged, FlushFails
  <2>3. ~Applying'
    BY <1>0, <1>5, <2>1, <2>2 DEF Applying, NoFlush, Up, ThreadOK, Flush
  <2> QED
    BY <1>0, <1>1, <1>2, <1>3, <1>4, <2>1, <2>3
       DEF TableNumbers, Read, Applying, SameFiles, EditRecorded
<1>11. CASE FlushInstalled
  <2>1. /\ UNCHANGED <<manifest, compaction, readers, pending, status, nextFile>>
        /\ flush.step = "install" /\ flush' = NoFlush /\ edit' = NoEdit
        /\ current' = Apply(current, edit)
    BY <1>11 DEF FlushInstalled
  <2>2. ~Applying'
    BY <1>5, <2>1 DEF Applying, NoFlush, Up
  <2> QED
    BY <1>0, <1>1, <1>2, <1>3, <1>4, <2>1, <2>2 DEF TableNumbers, Read
<1>12. CASE StartCompaction
  <2>1. /\ UNCHANGED <<manifest, flush, current, readers, pending, status, nextFile>>
        /\ compaction'.base = current
        /\ \/ compaction'.step = "work" /\ edit' = edit
           \/ \E S \in PickCompaction(current) : DOMAIN edit'.added = S /\ edit'.next = nextFile
        /\ status = "open"
    BY <1>12 DEF StartCompaction, LogAndApply, MayWork, disk, versions
  <2>2. \A S \in PickCompaction(current) : S \subseteq DOMAIN current
    BY DEF PickCompaction
  <2> QED
    BY <1>0, <1>1, <1>3, <1>4, <2>1, <2>2 DEF TableNumbers, Read, Applying
<1>13. CASE OpenCompactionOutputFile
  <2>1. /\ UNCHANGED <<manifest, flush, current, readers, edit, status>>
        /\ compaction'.base = compaction.base /\ compaction'.step = "output"
        /\ nextFile' = nextFile + 1 /\ pending' = pending \cup {nextFile}
    BY <1>0, <1>13 DEF OpenCompactionOutputFile, NewFileNumber, ThreadOK
  <2> QED
    BY <1>0, <1>1, <1>3, <1>4, <2>1 DEF TableNumbers, Read, Applying
<1>14. CASE InstallCompactionResults
  <2>1. /\ UNCHANGED <<manifest, flush, current, readers, pending, status, nextFile>>
        /\ compaction'.base = compaction.base /\ compaction.step = "output"
        /\ DOMAIN edit'.added = {compaction.output} /\ edit'.next = nextFile
        /\ status = "open"
    BY <1>0, <1>14 DEF InstallCompactionResults, LogAndApply, ThreadOK, disk, versions
  <2>2. compaction.output \in pending
    BY <1>0, <2>1, FilesParts DEF OutputHeld
  <2> QED
    BY <1>0, <1>1, <1>3, <1>4, <2>1, <2>2 DEF TableNumbers, Read, Applying
<1>15. CASE CompactionFails
  <2>1. /\ UNCHANGED <<manifest, flush, current, readers, status, nextFile>>
        /\ compaction' = NoCompaction /\ edit' = NoEdit
        /\ pending' = pending \ {compaction.output}
        /\ flush = NoFlush /\ compaction.step # "none"
    BY <1>15, CompactionFailsLeaves DEF CompactionFails
  <2>2. ~Applying'
    BY <1>5, <2>1 DEF Applying, NoFlush, NoCompaction, Up
  <2> QED
    BY <1>0, <1>1, <1>2, <1>3, <1>4, <2>1, <2>2 DEF TableNumbers, Read
<1>16. CASE CompactionLogged
  <2>1. /\ UNCHANGED <<flush, current, readers, status, nextFile>>
        /\ compaction.step = "apply"
    BY <1>16 DEF CompactionLogged
  <2>2. /\ SameFiles \/ EditRecorded
        /\ \/ compaction' = NoCompaction /\ edit' = NoEdit
           \/ compaction'.step = "install" /\ edit' = edit /\ compaction'.base = compaction.base
        /\ pending' \subseteq pending
    BY <1>0, <1>16, CompactionLoggedCases DEF ThreadOK
  <2>3. ~Applying'
    BY <1>5, <2>1, <2>2 DEF Applying, NoCompaction, Up
  <2> QED
    BY <1>0, <1>1, <1>2, <1>3, <1>4, <2>1, <2>2, <2>3
       DEF TableNumbers, Read, Applying, SameFiles, EditRecorded
<1>17. CASE CompactionInstalled
  <2>1. /\ UNCHANGED <<manifest, flush, readers, status, nextFile>>
        /\ current' = Apply(current, edit) /\ compaction.step = "install"
    BY <1>17 DEF CompactionInstalled
  <2>2. compaction' = NoCompaction /\ edit' = NoEdit /\ pending' \subseteq pending
    BY <1>0, <1>17, CompactionInstalledLeaves
  <2>3. ~Applying'
    BY <1>5, <2>1, <2>2 DEF Applying, NoCompaction, Up
  <2> QED
    BY <1>0, <1>1, <1>2, <1>3, <1>4, <2>1, <2>2, <2>3 DEF TableNumbers, Read
<1>18. CASE MemoryLost
  <2>1. /\ manifest' = manifest /\ status' = "down"
        /\ flush' = NoFlush /\ compaction' = NoCompaction
    BY <1>18 DEF MemoryLost
  <2> QED
    BY <1>4, <2>1 DEF TableNumbers, Applying, NoFlush, NoCompaction
<1>19. CASE Recover
  <2>1. /\ UNCHANGED <<manifest, flush, compaction, readers, pending>>
        /\ status' = "recovering" /\ status = "down"
        /\ nextFile' = manifest.next + 1
        /\ current' = manifest.tables /\ edit' = NoEdit
    BY <1>19 DEF Recover, disk
  <2>2. nextFile' >= manifest.next /\ nextFile' \in Nat
    BY <1>0, <2>1 DEF VersionsOK
  <2>3. flush = NoFlush /\ compaction = NoCompaction /\ readers = {} /\ pending = {}
    BY <1>0, <2>1 DEF Control, Up
  <2> QED
    BY <1>0, <1>1, <1>2, <1>4, <2>1, <2>2, <2>3
       DEF TableNumbers, Read, Applying, NoFlush, NoCompaction
<1>20. CASE RecoverLogFile
  <2>1. /\ UNCHANGED <<manifest, flush, compaction, current, readers, pending, status>>
        /\ status = "recovering" /\ toRecover # {}
        /\ \/ nextFile' = MarkFileNumberUsed(nextFile, Min(toRecover)) /\ edit' = edit
           \/ /\ nextFile' = MarkFileNumberUsed(nextFile + 1, Min(toRecover))
              /\ edit' = [edit EXCEPT !.added = With(@, nextFile, 0)]
    BY <1>20 DEF RecoverLogFile
  <2>2. Min(toRecover) \in Nat
    BY <1>0, <2>1, NextLogToRecover
  <2>3. /\ nextFile' \in Nat /\ nextFile' >= nextFile
        /\ edit' = edit \/ nextFile' >= nextFile + 1
    BY <1>1, <2>1, <2>2 DEF MarkFileNumberUsed
  <2>4. \/ edit' = edit
        \/ DOMAIN edit'.added = DOMAIN edit.added \cup {nextFile} /\ edit'.next = edit.next
    BY <1>1, <2>1 DEF With
  <2>5. ~Applying'
    BY <1>5, <2>1 DEF Applying, NoFlush, NoCompaction, Up
  <2>6. DOMAIN edit'.added \subseteq DOMAIN edit.added \cup {nextFile} /\ edit'.next = edit.next
    BY <2>4
  <2>7. \A t \in DOMAIN edit'.added : t < nextFile'
    BY <1>0, <1>1, <1>3, <1>4, <2>1, <2>3, <2>4
  <2> QED
    BY <1>0, <1>1, <1>3, <1>4, <2>1, <2>3, <2>5, <2>6, <2>7 DEF TableNumbers, Read
<1>21. CASE NewLog
  <2>1. /\ UNCHANGED <<manifest, flush, compaction, current, readers, pending>>
        /\ status = "recovering" /\ nextFile' = nextFile + 1
        /\ edit'.next = nextFile + 1 /\ edit'.added = edit.added
    BY <1>1, <1>21 DEF NewLog
  <2>2. \A t \in DOMAIN edit'.added : t < edit'.next
    BY <1>0, <1>1, <1>3, <1>4, <2>1
  <2> QED
    BY <1>0, <1>1, <1>3, <1>4, <2>1, <2>2 DEF TableNumbers, Read
<1>22. CASE OpenLogged
  <2>1. /\ UNCHANGED <<flush, compaction, current, readers, pending, edit, nextFile>>
        /\ status = "logging" /\ status' = "installing"
        /\ EditRecorded
    BY <1>22, NewManifest DEF OpenLogged, EditRecorded, background, versions
  <2> QED
    BY <1>0, <1>1, <1>2, <1>3, <1>4, <2>1 DEF TableNumbers, Read, Applying, EditRecorded
<1>23. CASE Opened
  <2>1. /\ UNCHANGED <<manifest, flush, compaction, readers, pending, nextFile>>
        /\ status = "installing" /\ status' = "open"
        /\ current' = Apply(current, edit) /\ edit' = NoEdit
    BY <1>23 DEF Opened
  <2>2. ~Applying'
    BY <1>5, <2>1 DEF Applying, NoFlush, NoCompaction, Up
  <2> QED
    BY <1>0, <1>1, <1>2, <1>3, <1>4, <2>1, <2>2 DEF TableNumbers, Read
<1> QED
    BY <1>6, <1>7, <1>8, <1>9, <1>10, <1>11, <1>12, <1>13, <1>14, <1>15, <1>16, <1>17,
       <1>18, <1>19, <1>20, <1>21, <1>22, <1>23
       DEF Works, FirstWriter, Background, Closed, ProcessCrash, MachineCrash

\* All of Numbers is kept.
LEMMA NumbersKept == ASSUME IInv, Works PROVE Numbers'
  BY LogNumbersKept, LogsOrderedKept, TableNumbersKept, NumbersPartsNext

\* A number given out is new, of whatever kind its file is.
LEMMA NumbersAreFresh == Types /\ Control /\ Numbers => NumbersFresh
<1> SUFFICES ASSUME Types, Control, Numbers,
                    status \in {"logging", "installing", "open", "closing"}
             PROVE  \A n \in DOMAIN manifest.tables \cup DOMAIN current \cup pending
                                \cup DOMAIN logs : n < nextFile
  BY DEF NumbersFresh
<1>1. /\ manifest.next \in Nat /\ nextFile \in Nat /\ DOMAIN manifest.tables \subseteq Nat
      /\ toRecover = {}
    BY TypesParts DEF VersionsOK, IsVersion, Control
<1> QED
    BY <1>1 DEF Numbers

-----------------------------------------------------------------------------
(* Edits and the tables being made.                                        *)

\* Edits are what the flush, the compaction or the opening made them.
LEMMA EditsKept == ASSUME IInv, Works PROVE Edits'
<1>0. /\ Types /\ Control /\ Edits /\ VersionsOK /\ ThreadOK /\ OutputHeld
      /\ IsEdit(edit) /\ IsVersion(manifest.tables)
      /\ DOMAIN edit = {"added", "deleted", "log", "next"}
    BY TypesParts, FilesParts DEF IInv, VersionsOK
<1>1. /\ flush.step # "none" => Up /\ compaction.step \in {"none", "work", "output"}
      /\ compaction.step # "none" => Up
      /\ ~Up => flush.step = "none" /\ compaction.step = "none"
  <2>1. ~Up => flush = NoFlush /\ compaction = NoCompaction
    BY <1>0 DEF Control
  <2> QED
    BY <1>0, <2>1 DEF Control, Up, NoFlush, NoCompaction
<1>2. CASE Write \/ FirstWriter \/ BackgroundIdle \/ ReadBegins \/ ReadEnds \/ Close
  <2>1. /\ UNCHANGED <<manifest, flush, compaction, edit>>
        /\ status' = status \/ (status = "open" /\ status' = "closing")
    BY <1>2 DEF Write, FirstWriter, SwitchMemTable, RefuseWrite, AddRecord, SyncLog,
        FinishWrite, BackgroundIdle, ReadBegins, ReadEnds, Close, disk, background
  <2> QED
    BY <1>0, <2>1 DEF Edits
<1>3. CASE CompactMemTable
  <2>1. /\ UNCHANGED <<manifest, compaction, edit, status>>
        /\ flush'.step = "build"
    BY <1>3 DEF CompactMemTable
  <2> QED
    BY <1>0, <2>1 DEF Edits
<1>4. CASE WriteLevel0Table
  <2>1. UNCHANGED <<manifest, compaction, status>> /\ flush.step = "build"
    BY <1>4 DEF WriteLevel0Table, FlushFails
  <2>2. \/ flush' = NoFlush
        \/ /\ flush'.step = "apply" /\ flush'.table = flush.table
           /\ DOMAIN edit'.added = {flush.table} /\ edit'.deleted = {}
    BY <1>0, <1>4, WriteLevel0TableCases DEF ThreadOK
  <2> QED
    BY <1>0, <1>1, <2>1, <2>2 DEF Edits, NoFlush, Up
<1>5. CASE FlushLogged
  <2>1. UNCHANGED <<compaction, status>> /\ flush.step = "apply"
    BY <1>5 DEF FlushLogged, FlushFails
  <2>2. \/ flush' = NoFlush
        \/ /\ flush' = [flush EXCEPT !.step = "install"]
           /\ edit' = edit /\ manifest'.tables = Apply(manifest.tables, edit)
    BY <1>0, <1>5, FlushLoggedCases DEF FlushFails, EditRecorded
  <2>3. DOMAIN Apply(manifest.tables, edit)
            = DOMAIN edit.added \cup (DOMAIN manifest.tables \ edit.deleted)
    BY <1>0, VersionApply
  <2>4. DOMAIN edit.added = {flush.table} /\ edit.deleted = {}
    BY <1>0, <2>1 DEF Edits
  <2>5. \/ flush'.step = "none"
        \/ /\ flush'.step = "install" /\ flush'.table = flush.table
           /\ edit' = edit /\ flush.table \in DOMAIN manifest'.tables
    BY <1>0, <2>2, <2>3, <2>4 DEF NoFlush, ThreadOK, Flush
  <2> QED
    BY <1>0, <1>1, <2>1, <2>4, <2>5 DEF Edits, Up
<1>6. CASE FlushInstalled
  <2>1. UNCHANGED <<manifest, compaction, status>> /\ flush.step = "install" /\ flush' = NoFlush
    BY <1>6 DEF FlushInstalled
  <2> QED
    BY <1>0, <1>1, <2>1 DEF Edits, NoFlush, Up
<1>7. CASE StartCompaction
  <2>1. /\ UNCHANGED <<manifest, flush, status>> /\ status = "open" /\ flush = NoFlush
        /\ \/ compaction'.step = "work"
           \/ /\ compaction'.output = 0 /\ edit'.deleted = compaction'.inputs
              /\ DOMAIN edit'.added = compaction'.inputs
    BY <1>7 DEF StartCompaction, LogAndApply, MayWork, disk
  <2> QED
    BY <1>0, <2>1 DEF Edits, NoFlush
<1>8. CASE OpenCompactionOutputFile
  <2>1. /\ UNCHANGED <<manifest, flush, status, edit>> /\ flush = NoFlush
        /\ compaction'.step = "output"
    BY <1>0, <1>8 DEF OpenCompactionOutputFile, ThreadOK
  <2> QED
    BY <1>0, <2>1 DEF Edits, NoFlush
<1>9. CASE InstallCompactionResults
  <2>1. /\ UNCHANGED <<manifest, flush, status>> /\ status = "open" /\ flush = NoFlush
        /\ compaction.step = "output" /\ compaction'.inputs = compaction.inputs
        /\ compaction'.output = compaction.output /\ edit'.deleted = compaction.inputs
        /\ DOMAIN edit'.added = {compaction.output}
    BY <1>0, <1>9 DEF InstallCompactionResults, LogAndApply, ThreadOK, disk
  <2>2. compaction.output # 0
    BY <1>0, <2>1 DEF OutputHeld
  <2> QED
    BY <1>0, <2>1, <2>2 DEF Edits, NoFlush
<1>10. CASE CompactionFails
  <2>1. /\ UNCHANGED <<manifest, flush, status>> /\ flush = NoFlush
        /\ compaction.step # "none" /\ compaction' = NoCompaction
    BY <1>10, CompactionFailsLeaves DEF CompactionFails
  <2> QED
    BY <1>1, <2>1 DEF Edits, NoFlush, NoCompaction, Up
<1>11. CASE CompactionLogged
  <2>1. /\ UNCHANGED <<flush, status>> /\ compaction.step = "apply"
    BY <1>11 DEF CompactionLogged
  <2>2. \/ compaction' = NoCompaction
        \/ /\ compaction'.step = "install" /\ edit' = edit
           /\ compaction'.inputs = compaction.inputs
           /\ compaction'.output = compaction.output
    BY <1>0, <1>11, CompactionLoggedCases DEF ThreadOK
  <2>3. Up /\ flush.step = "none"
    BY <1>1, <2>1
  <2>4. CASE compaction' = NoCompaction
    BY <2>1, <2>3, <2>4 DEF Edits, NoCompaction, Up
  <2>5. CASE compaction' # NoCompaction
    <3>1. /\ edit.deleted = compaction.inputs
          /\ DOMAIN edit.added = IF compaction.output = 0 THEN compaction.inputs
                                                          ELSE {compaction.output}
      BY <1>0, <2>1 DEF Edits
    <3> QED
      BY <2>1, <2>2, <2>3, <2>5, <3>1 DEF Edits, Up
  <2> QED
    BY <2>4, <2>5
<1>12. CASE CompactionInstalled
  <2>1. UNCHANGED <<flush, status>> /\ compaction.step = "install" /\ compaction' = NoCompaction
    BY <1>0, <1>12, CompactionInstalledLeaves DEF CompactionInstalled
  <2> QED
    BY <1>1, <2>1 DEF Edits, NoCompaction, Up
<1>13. CASE MemoryLost
    BY <1>13 DEF MemoryLost, Edits, NoFlush, NoCompaction
<1>14. CASE Recover \/ RecoverLogFile \/ NewLog \/ OpenLogged \/ Opened
  <2>1. /\ UNCHANGED <<flush, compaction>> /\ ~Up
    BY <1>14 DEF Recover, RecoverLogFile, NewLog, OpenLogged, Opened, Up, background
  <2>2. \/ edit'.deleted = edit.deleted /\ status \in {"recovering", "logging", "installing"}
        \/ edit'.deleted = {}
    <3>1. CASE Recover \/ Opened
      <4>1. edit' = NoEdit
        BY <3>1 DEF Recover, Opened
      <4> QED
        BY <4>1 DEF NoEdit
    <3>2. CASE RecoverLogFile \/ NewLog \/ OpenLogged
      BY <1>0, <3>2 DEF RecoverLogFile, NewLog, OpenLogged, background
    <3> QED
      BY <1>14, <3>1, <3>2
  <2> QED
    BY <1>0, <1>1, <2>1, <2>2 DEF Edits
<1> QED
    BY <1>2, <1>3, <1>4, <1>5, <1>6, <1>7, <1>8, <1>9, <1>10, <1>11, <1>12, <1>13, <1>14
       DEF Works, Background, Closed, ProcessCrash, MachineCrash

\* The tables that the flush and the compaction work on are in use.
LEMMA WorkIsOnUsed ==
    Types /\ Files /\ Edits =>
        /\ Used \subseteq DOMAIN tables
        /\ flush.step # "none" => flush.table \in Used
        /\ compaction.output # 0 => compaction.output \in Used
        /\ compaction.inputs \subseteq Used
<1> SUFFICES ASSUME Types, Files, Edits
             PROVE  /\ Used \subseteq DOMAIN tables
                    /\ flush.step # "none" => flush.table \in Used
                    /\ compaction.output # 0 => compaction.output \in Used
                    /\ compaction.inputs \subseteq Used
  OBVIOUS
<1>1. Used \subseteq DOMAIN tables /\ Private /\ OutputHeld /\ ThreadOK
    BY TypesParts, FilesParts
<1>2. flush.step # "none" => flush.step = "build" \/ flush.step \in {"apply", "install"}
    BY <1>1 DEF ThreadOK, Flush
<1>3. flush.step # "none" => flush.table \in Used
    BY <1>1, <1>2 DEF Private, Edits, Used
<1> QED
    BY <1>1, <1>3 DEF OutputHeld, ThreadOK, Used

\* The same of the next state.
LEMMA WorkIsOnUsedNext ==
    (Types /\ Files /\ Edits)' =>
        /\ Used' \subseteq DOMAIN tables'
        /\ flush'.step # "none" => flush'.table \in Used'
        /\ compaction'.output # 0 => compaction'.output \in Used'
        /\ compaction'.inputs \subseteq Used'
<1>1. (Types /\ Files /\ Edits)' =>
        (/\ Used \subseteq DOMAIN tables
         /\ flush.step # "none" => flush.table \in Used
         /\ compaction.output # 0 => compaction.output \in Used
         /\ compaction.inputs \subseteq Used)'
    BY WorkIsOnUsed, PTL
<1> QED
    BY <1>1

\* No step writes to a table in use.
LEMMA UsedTablesKept ==
    ASSUME IInv, Works
    PROVE  \A t \in Used \cap DOMAIN tables' : t \in DOMAIN tables /\ tables'[t] = tables[t]
<1>0. /\ Types /\ Files /\ Control /\ Used \subseteq DOMAIN tables
    BY FilesParts DEF IInv
<1>1. ASSUME NEW contents, tables' = With(tables, nextFile, contents), status # "down"
      PROVE  \A t \in Used \cap DOMAIN tables' : t \in DOMAIN tables /\ tables'[t] = tables[t]
    BY <1>0, <1>1, NextFileIsNew DEF With
<1>2. CASE CompactMemTable \/ OpenCompactionOutputFile \/ RecoverLogFile
  <2>1. status # "down"
    <3>1. imm # {} => Up
      BY <1>0 DEF Control
    <3> QED
      BY <1>2, <3>1 DEF CompactMemTable, OpenCompactionOutputFile, RecoverLogFile, Up
  <2>2. UNCHANGED tables \/ \E contents : tables' = With(tables, nextFile, contents)
    BY <1>2 DEF CompactMemTable, OpenCompactionOutputFile, RecoverLogFile
  <2> QED
    BY <1>0, <1>1, <2>1, <2>2
<1>3. CASE WriteLevel0Table
  <2>1. tables' = tables \/ tables' = Without(tables, {flush.table})
    BY <1>3 DEF WriteLevel0Table
  <2> QED
    BY <1>0, <2>1 DEF Without
<1>4. ASSUME NEW log, NEW live, FilesLeft(log, live)
      PROVE  \A t \in Used \cap DOMAIN tables' : t \in DOMAIN tables /\ tables'[t] = tables[t]
    BY <1>0, <1>4 DEF FilesLeft
<1>5. CASE FlushInstalled \/ CompactionInstalled \/ Opened
    BY <1>0, <1>4, <1>5, FlushInstalledLeaves, CompactionInstalledLeaves, OpenedLeaves
<1>6. CASE CompactionFails \/ CompactionLogged
    BY <1>0, <1>6, CompactionFailsLeaves, CompactionLoggedCases DEF Types
<1>7. CASE Write \/ FirstWriter \/ BackgroundIdle \/ FlushLogged \/ StartCompaction
           \/ InstallCompactionResults \/ ReadBegins \/ ReadEnds \/ Close \/ Closed
           \/ ProcessCrash \/ MachineCrash \/ Recover \/ NewLog \/ OpenLogged
  <2>1. UNCHANGED tables
    BY <1>7 DEF Write, FirstWriter, SwitchMemTable, RefuseWrite, AddRecord, SyncLog,
        FinishWrite, BackgroundIdle, FlushLogged, StartCompaction, InstallCompactionResults,
        ReadBegins, ReadEnds, Close, Closed, ProcessCrash, MachineCrash, MemoryLost, Recover,
        NewLog, OpenLogged, disk
  <2> QED
    BY <1>0, <2>1
<1> QED
    BY <1>2, <1>3, <1>5, <1>6, <1>7 DEF Works, Background

\* The tables being made hold what they should.
LEMMA OutputsKept == ASSUME IInv, Works PROVE Outputs'
<1>0. /\ Types /\ Files /\ Control /\ Outputs /\ ThreadOK
      /\ Used \subseteq DOMAIN tables
      /\ flush.step # "none" => flush.table \in Used
      /\ compaction.output # 0 => compaction.output \in Used
      /\ compaction.inputs \subseteq Used
    BY TypesParts, WorkIsOnUsed DEF IInv
<1>1. /\ Used' \subseteq DOMAIN tables'
      /\ flush'.step # "none" => flush'.table \in Used'
      /\ compaction'.output # 0 => compaction'.output \in Used'
      /\ compaction'.inputs \subseteq Used'
    BY TypesKept, FilesKept, EditsKept, WorkIsOnUsedNext
<1>2. \A t \in Used \cap DOMAIN tables' : tables'[t] = tables[t]
    BY UsedTablesKept
<1>3. ASSUME \/ flush'.step = "none"
             \/ flush.step # "none" /\ flush'.table = flush.table /\ imm' = imm
      PROVE  flush'.step # "none" => tables'[flush'.table] = imm'
    BY <1>0, <1>1, <1>2, <1>3 DEF Outputs
<1>4. ASSUME compaction'.inputs = compaction.inputs
      PROVE  Held(compaction.inputs)' = Held(compaction.inputs)
  <2>1. \A t \in compaction.inputs : tables'[t] = tables[t]
    BY <1>0, <1>1, <1>2, <1>4
  <2> QED
    BY <1>4, <2>1 DEF Held
<1>5. ASSUME \/ compaction'.output = 0
             \/ /\ compaction'.output = compaction.output
                /\ compaction'.inputs = compaction.inputs
      PROVE  compaction'.output # 0 => tables'[compaction'.output] = Held(compaction.inputs)'
    BY <1>0, <1>1, <1>2, <1>4, <1>5 DEF Outputs
<1>6. Outputs' = (/\ flush'.step # "none" => tables'[flush'.table] = imm'
                  /\ compaction'.output # 0 =>
                        tables'[compaction'.output] = Held(compaction.inputs)')
    BY DEF Outputs
<1>7. CASE Write \/ FirstWriter \/ BackgroundIdle \/ ReadBegins \/ ReadEnds \/ Close \/ Recover
           \/ RecoverLogFile \/ NewLog \/ OpenLogged \/ Opened
  <2>1. UNCHANGED <<flush, compaction>> /\ (imm' = imm \/ imm = {})
    BY <1>7 DEF Write, FirstWriter, SwitchMemTable, RefuseWrite, AddRecord, SyncLog,
        FinishWrite, BackgroundIdle, ReadBegins, ReadEnds, Close, Recover, RecoverLogFile,
        NewLog, OpenLogged, Opened, background
  <2>2. flush'.step = "none" \/ (flush.step # "none" /\ flush'.table = flush.table /\ imm' = imm)
    BY <1>0, <2>1 DEF Control
  <2> QED
    BY <1>3, <1>5, <1>6, <2>1, <2>2
<1>8. CASE CompactMemTable
  <2>1. /\ UNCHANGED <<compaction, imm>> /\ flush'.table = nextFile
        /\ tables' = With(tables, nextFile, imm)
    BY <1>8 DEF CompactMemTable
  <2>2. tables'[nextFile] = imm
    BY <2>1 DEF With
  <2> QED
    BY <1>5, <1>6, <2>1, <2>2
<1>9. CASE WriteLevel0Table
  <2>1. UNCHANGED <<compaction, imm>> /\ flush.step = "build"
    BY <1>9 DEF WriteLevel0Table, FlushFails
  <2>2. flush' = NoFlush \/ (flush'.step = "apply" /\ flush'.table = flush.table)
    BY <1>0, <1>9, WriteLevel0TableCases DEF ThreadOK
  <2>3. flush'.step = "none" \/ (flush.step # "none" /\ flush'.table = flush.table /\ imm' = imm)
    BY <2>1, <2>2 DEF NoFlush
  <2> QED
    BY <1>3, <1>5, <1>6, <2>1, <2>3
<1>10. CASE FlushLogged
  <2>1. UNCHANGED <<compaction, imm>> /\ flush.step = "apply"
    BY <1>10 DEF FlushLogged, FlushFails
  <2>2. flush' = NoFlush \/ flush' = [flush EXCEPT !.step = "install"]
    BY <1>10 DEF FlushLogged, FlushFails
  <2>3. flush'.step = "none" \/ (flush.step # "none" /\ flush'.table = flush.table /\ imm' = imm)
    BY <1>0, <2>1, <2>2 DEF NoFlush, ThreadOK, Flush
  <2> QED
    BY <1>3, <1>5, <1>6, <2>1, <2>3
<1>11. CASE FlushInstalled
  <2>1. compaction' = compaction /\ flush' = NoFlush
    BY <1>11 DEF FlushInstalled
  <2> QED
    BY <1>5, <1>6, <2>1 DEF NoFlush
<1>12. CASE StartCompaction
  <2>1. UNCHANGED <<flush, imm>> /\ compaction'.output = 0
    BY <1>12 DEF StartCompaction
  <2> QED
    BY <1>3, <1>6, <2>1
<1>13. CASE OpenCompactionOutputFile
  <2>1. /\ UNCHANGED <<flush, imm>> /\ compaction'.output = nextFile
        /\ compaction'.inputs = compaction.inputs
        /\ tables' = With(tables, nextFile, Held(compaction.inputs))
    BY <1>0, <1>13 DEF OpenCompactionOutputFile, ThreadOK, Held
  <2>2. tables'[nextFile] = Held(compaction.inputs)
    BY <2>1 DEF With
  <2> QED
    BY <1>3, <1>4, <1>6, <2>1, <2>2
<1>14. CASE InstallCompactionResults
  <2>1. /\ UNCHANGED <<flush, imm>> /\ compaction'.output = compaction.output
        /\ compaction'.inputs = compaction.inputs
    BY <1>0, <1>14 DEF InstallCompactionResults, ThreadOK
  <2> QED
    BY <1>3, <1>5, <1>6, <2>1
<1>15. CASE CompactionFails
  <2>1. UNCHANGED <<flush, imm>> /\ compaction' = NoCompaction
    BY <1>15, CompactionFailsLeaves DEF CompactionFails
  <2> QED
    BY <1>3, <1>5, <1>6, <2>1 DEF NoCompaction
<1>16. CASE CompactionLogged
  <2>1. UNCHANGED <<flush, imm>>
    BY <1>16 DEF CompactionLogged
  <2>2. \/ compaction' = NoCompaction
        \/ /\ compaction'.output = compaction.output
           /\ compaction'.inputs = compaction.inputs
    BY <1>0, <1>16, CompactionLoggedCases DEF ThreadOK
  <2> QED
    BY <1>3, <1>5, <1>6, <2>1, <2>2 DEF NoCompaction
<1>17. CASE CompactionInstalled
  <2>1. UNCHANGED <<flush, imm>> /\ compaction' = NoCompaction
    BY <1>0, <1>17, CompactionInstalledLeaves DEF CompactionInstalled
  <2> QED
    BY <1>3, <1>5, <1>6, <2>1 DEF NoCompaction
<1>18. CASE MemoryLost
  <2>1. flush' = NoFlush /\ compaction' = NoCompaction
    BY <1>18 DEF MemoryLost
  <2> QED
    BY <1>3, <1>5, <1>6, <2>1 DEF NoFlush, NoCompaction
<1> QED
    BY <1>7, <1>8, <1>9, <1>10, <1>11, <1>12, <1>13, <1>14, <1>15, <1>16, <1>17, <1>18
       DEF Works, Background, Closed, ProcessCrash, MachineCrash

-----------------------------------------------------------------------------
(* Writes in the tables.                                                   *)

\* What the tables of a version hold, the tables of the next version hold too.
LEMMA EditKeepsWrites ==
    ASSUME IInv, Applying \/ Installing, NEW v, IsVersion(v)
    PROVE  /\ Held(DOMAIN v) \subseteq Held(DOMAIN Apply(v, edit))
           /\ Held(DOMAIN edit.added) \subseteq Held(DOMAIN Apply(v, edit))
           /\ DOMAIN Apply(v, edit) \subseteq DOMAIN v \cup DOMAIN edit.added
<1>0. /\ Edits /\ Outputs /\ Control /\ ThreadOK /\ IsEdit(edit)
    BY TypesParts DEF IInv, VersionsOK
<1>1. DOMAIN Apply(v, edit) = DOMAIN edit.added \cup (DOMAIN v \ edit.deleted)
    BY <1>0, VersionApply
<1>2. \/ edit.deleted = {}
      \/ /\ compaction.step \in {"apply", "install"} /\ edit.deleted = compaction.inputs
         /\ DOMAIN edit.added = IF compaction.output = 0 THEN compaction.inputs
                                                         ELSE {compaction.output}
    BY <1>0 DEF Edits, Applying, Installing
<1>3. CASE edit.deleted = {}
    BY <1>1, <1>3 DEF Held
<1>4. CASE edit.deleted # {}
  <2>1. CASE compaction.output = 0
    BY <1>1, <1>2, <1>4, <2>1 DEF Held
  <2>2. CASE compaction.output # 0
    <3>1. tables[compaction.output] = Held(compaction.inputs)
      BY <1>0, <2>2 DEF Outputs
    <3>2. compaction.output \in DOMAIN Apply(v, edit) /\ edit.deleted = compaction.inputs
      BY <1>1, <1>2, <1>4, <2>2
    <3>3. Held(compaction.inputs) \subseteq Held(DOMAIN Apply(v, edit))
      BY <3>1, <3>2 DEF Held
    <3>4. Held(DOMAIN v) \subseteq Held(compaction.inputs) \cup Held(DOMAIN Apply(v, edit))
      BY <1>1, <3>2 DEF Held
    <3> QED
      BY <1>1, <3>3, <3>4 DEF Held
  <2> QED
    BY <2>1, <2>2
<1> QED
    BY <1>3, <1>4

\* So does the current version, until it is lost.
LEMMA CurrentSteps ==
    ASSUME IInv, Works
    PROVE  \/ current' = current
           \/ /\ flush.step = "install" \/ compaction.step = "install" \/ status = "installing"
              /\ current' = Apply(current, edit)
           \/ status' = "down"
           \/ Recover
<1>1. CASE FlushInstalled \/ CompactionInstalled \/ Opened
    BY <1>1 DEF FlushInstalled, CompactionInstalled, Opened
<1>2. CASE Closed \/ ProcessCrash \/ MachineCrash \/ Recover
    BY <1>2 DEF Closed, ProcessCrash, MachineCrash, MemoryLost
<1>3. CASE Works /\ ~(FlushInstalled \/ CompactionInstalled \/ Opened \/ Closed \/ ProcessCrash
                     \/ MachineCrash \/ Recover)
    BY <1>3 DEF Works, Background, FirstWriter, Write, SwitchMemTable, RefuseWrite, AddRecord,
        SyncLog, FinishWrite, BackgroundIdle, CompactMemTable, WriteLevel0Table, FlushLogged,
        StartCompaction, OpenCompactionOutputFile, InstallCompactionResults, CompactionFails,
        CompactionLogged, ReadBegins, ReadEnds, Close, RecoverLogFile, NewLog, OpenLogged, versions
<1> QED
    BY <1>1, <1>2, <1>3

\* No step loses a write from the tables of the manifest, or from those of the
\* current version while there is one.
LEMMA VersionsLoseNothing ==
    ASSUME IInv, Works
    PROVE  /\ Held(DOMAIN manifest.tables) \subseteq Held(DOMAIN manifest.tables)'
           /\ status' # "down" /\ status # "down" =>
                Held(DOMAIN current) \subseteq Held(DOMAIN current)'
<1>0. /\ DOMAIN manifest.tables \cup DOMAIN current \cup DOMAIN edit.added \subseteq Used
      /\ DOMAIN manifest'.tables \cup DOMAIN current' \subseteq Used'
      /\ IsVersion(manifest.tables) /\ IsVersion(current)
    BY TypesParts DEF IInv, VersionsOK, Used
<1>1. \A t \in Used \cap Used' : tables'[t] = tables[t]
    BY UsedKept, UsedTablesKept
<1>2. ASSUME NEW v, NEW next, IsVersion(v), DOMAIN v \subseteq Used, DOMAIN next \subseteq Used',
             next = v \/ ((Applying \/ Installing) /\ next = Apply(v, edit))
      PROVE  Held(DOMAIN v) \subseteq UNION {tables'[t] : t \in DOMAIN next}
  <2>1. Held(DOMAIN v) \subseteq Held(DOMAIN next) /\ DOMAIN next \subseteq Used
    BY <1>0, <1>2, EditKeepsWrites
  <2>2. \A t \in DOMAIN next : tables'[t] = tables[t]
    BY <1>1, <1>2, <2>1
  <2> QED
    BY <2>1, <2>2 DEF Held
<1>3. \/ manifest'.tables = manifest.tables
      \/ Applying /\ manifest'.tables = Apply(manifest.tables, edit)
  <2>1. \/ SameFiles
        \/ /\ Applying
           /\ EditRecorded
    BY ManifestSteps DEF Applying
  <2> QED
    BY <2>1 DEF SameFiles, EditRecorded
<1>4. status' # "down" /\ status # "down" =>
        current' = current \/ (Installing /\ current' = Apply(current, edit))
    BY CurrentSteps DEF Installing, Recover
<1>5. Held(DOMAIN manifest.tables) \subseteq UNION {tables'[t] : t \in DOMAIN manifest'.tables}
    BY <1>0, <1>2, <1>3
<1>6. status' # "down" /\ status # "down" =>
        Held(DOMAIN current) \subseteq UNION {tables'[t] : t \in DOMAIN current'}
    BY <1>0, <1>2, <1>4
<1> QED
    BY <1>5, <1>6 DEF Held

\* A write reported done is in a memtable or a table of the version, and so for the
\* manifest: while the memtable changes hands and while versions are replaced.
LEMMA FoundWhileUp ==
    ASSUME IInv, Works, Up'
    PROVE  /\ acked' \subseteq mem' \cup imm' \cup Held(DOMAIN current)'
           /\ acked' \subseteq mem' \cup imm' \cup Held(DOMAIN manifest.tables)'
<1>0. /\ Found /\ Types /\ Control /\ Edits /\ Outputs /\ Agreement
      /\ flush.step # "none" => flush.table \in Used
      /\ DOMAIN current \cup DOMAIN edit.added \subseteq Used
      /\ IsEdit(edit) /\ IsVersion(current)
    BY WorkIsOnUsed, TypesParts DEF IInv, Used, VersionsOK
<1>1. Held(DOMAIN manifest.tables) \subseteq Held(DOMAIN manifest.tables)'
    BY VersionsLoseNothing
<1>2. Up => Held(DOMAIN current) \subseteq Held(DOMAIN current)'
    BY VersionsLoseNothing DEF Up
<1>3. \A t \in Used \cap Used' : tables'[t] = tables[t]
    BY UsedKept, UsedTablesKept
<1>4. DOMAIN current' \cup DOMAIN manifest'.tables \subseteq Used'
    BY DEF Used
<1>5. Up => /\ acked \subseteq mem \cup imm \cup Held(DOMAIN current)
            /\ acked \subseteq mem \cup imm \cup Held(DOMAIN manifest.tables)
    BY <1>0 DEF Found
<1>6. CASE FinishWrite
  <2>1. /\ UNCHANGED <<imm, status>>
        /\ \/ UNCHANGED <<mem, acked>>
           \/ \E group : mem' = mem \cup group /\ acked' = acked \cup group
    BY <1>6 DEF FinishWrite
  <2> QED
    BY <1>1, <1>2, <1>5, <2>1 DEF Up
<1>7. CASE SwitchMemTable
  <2>1. UNCHANGED <<acked, status>> /\ imm = {} /\ imm' = mem
    BY <1>7 DEF SwitchMemTable
  <2> QED
    BY <1>1, <1>2, <1>5, <2>1 DEF Up
<1>8. CASE FlushInstalled
  <2>1. /\ UNCHANGED <<acked, mem, manifest, status>>
        /\ flush.step = "install" /\ current' = Apply(current, edit)
    BY <1>8 DEF FlushInstalled, writing
  <2>2. flush.table \in DOMAIN edit.added /\ flush.table \in DOMAIN manifest'.tables
    BY <1>0, <2>1 DEF Edits
  <2>3. flush.table \in DOMAIN current'
    <3>1. IsVersion(current) /\ IsEdit(edit)
      BY <1>0
    <3>2. DOMAIN Apply(current, edit) = DOMAIN edit.added \cup (DOMAIN current \ edit.deleted)
      BY <3>1, VersionApply
    <3> QED
      BY <2>1, <2>2, <3>2
  <2>4. tables'[flush.table] = imm
    BY <1>0, <1>3, <1>4, <2>1, <2>2 DEF Outputs
  <2>5. imm \subseteq Held(DOMAIN current)' /\ imm \subseteq Held(DOMAIN manifest.tables)'
    BY <2>2, <2>3, <2>4 DEF Held
  <2> QED
    BY <1>1, <1>2, <1>5, <2>1, <2>5 DEF Up
<1>9. CASE Opened
  <2>1. /\ UNCHANGED <<acked, manifest>>
        /\ status = "installing" /\ current' = Apply(current, edit)
    BY <1>9 DEF Opened, writing
  <2>2. manifest'.tables = current'
    BY <1>0, <2>1 DEF Agreement, Installing, Control, Up
  <2>3. acked \subseteq Held(DOMAIN current \cup DOMAIN edit.added)
    BY <1>0, <2>1 DEF Found
  <2>4. DOMAIN current' = DOMAIN current \cup DOMAIN edit.added
    <3>1. edit.deleted = {}
      BY <1>0, <2>1 DEF Edits
    <3>2. DOMAIN Apply(current, edit) = DOMAIN edit.added \cup (DOMAIN current \ edit.deleted)
      BY <1>0, VersionApply
    <3> QED
      BY <2>1, <3>1, <3>2
  <2>5. acked \subseteq Held(DOMAIN current)'
    BY <1>0, <1>3, <1>4, <2>3, <2>4 DEF Held
  <2> QED
    BY <2>1, <2>2, <2>5
<1>10. CASE Works /\ ~(FinishWrite \/ SwitchMemTable \/ FlushInstalled \/ Opened)
  <2>1. UNCHANGED <<acked, mem, imm>> /\ Up
    <3>1. CASE Recover \/ RecoverLogFile \/ NewLog \/ OpenLogged \/ MemoryLost
      BY <3>1 DEF Recover, RecoverLogFile, NewLog, OpenLogged, MemoryLost, Up
    <3>2. CASE ~(Recover \/ RecoverLogFile \/ NewLog \/ OpenLogged \/ MemoryLost)
      <4>1. UNCHANGED <<acked, mem, imm>> /\ (status' = status \/ status = "open")
        BY <1>10, <3>2 DEF Works, Background, FirstWriter, Write, RefuseWrite, AddRecord, SyncLog,
            BackgroundIdle, CompactMemTable, WriteLevel0Table, FlushLogged, FlushFails,
            StartCompaction, OpenCompactionOutputFile, InstallCompactionResults,
            CompactionFails, CompactionLogged, CompactionInstalled, ReadBegins, ReadEnds,
            Close, Closed, ProcessCrash, MachineCrash, writing
      <4> QED
        BY <4>1 DEF Up
    <3> QED
      BY <3>1, <3>2
  <2> QED
    BY <1>1, <1>2, <1>5, <2>1
<1> QED
    BY <1>6, <1>7, <1>8, <1>9, <1>10

\* Opening the database would find w: what Recoverable says of all logs, and of what
\* is synced of them, for one write.
Kept(w) ==
    \/ w \in Held(DOMAIN manifest.tables)
    \/ \E n \in DOMAIN logs : n >= manifest.log /\ w \in ReadLog(n, Len(logs[n]))

KeptSynced(w) ==
    \/ w \in Held(DOMAIN manifest.tables)
    \/ \E n \in DOMAIN logs : n >= manifest.log /\ w \in ReadLog(n, synced[n])

\* That is what Recoverable says.
LEMMA RecoverableIs ==
    Files => /\ \A w : w \in Recoverable(Lengths) <=> Kept(w)
             /\ \A w : w \in Recoverable(synced) <=> KeptSynced(w)
<1> SUFFICES ASSUME Files
             PROVE  /\ \A w : w \in Recoverable(Lengths) <=> Kept(w)
                    /\ \A w : w \in Recoverable(synced) <=> KeptSynced(w)
  OBVIOUS
<1>1. DOMAIN manifest.tables \cap DOMAIN tables = DOMAIN manifest.tables
    BY FilesParts DEF Used
<1>2. Recoverable(synced) =
        Held(DOMAIN manifest.tables)
            \cup UNION {ReadLog(n, synced[n]) : n \in {m \in DOMAIN logs : m >= manifest.log}}
    BY <1>1 DEF Recoverable, Held
<1>3. Recoverable(Lengths) =
        Held(DOMAIN manifest.tables)
            \cup UNION {ReadLog(n, Lengths[n]) : n \in {m \in DOMAIN logs : m >= manifest.log}}
    BY <1>1 DEF Recoverable, Held
<1>4. \A n \in DOMAIN logs : Lengths[n] = Len(logs[n])
    BY DEF Lengths
<1>5. \A w : w \in Recoverable(Lengths) <=> Kept(w)
    BY <1>3, <1>4 DEF Kept
<1>6. \A w : w \in Recoverable(synced) <=> KeptSynced(w)
    BY <1>2 DEF KeptSynced
<1> QED
    BY <1>5, <1>6

\* The same of the next state.
LEMMA RecoverableIsNext ==
    Files' => /\ \A w : w \in Recoverable(Lengths)' <=> Kept(w)'
              /\ \A w : w \in Recoverable(synced)' <=> KeptSynced(w)'
<1>1. Files' => (/\ \A w : w \in Recoverable(Lengths) <=> Kept(w)
                 /\ \A w : w \in Recoverable(synced) <=> KeptSynced(w))'
    BY RecoverableIs, PTL
<1> QED
    BY <1>1

\* The steps that open the database add to the logs at most a new one, and leave the
\* manifest alone until it names every table made.
LEMMA OpeningLeaves ==
    ASSUME IInv, Recover \/ RecoverLogFile \/ NewLog
    PROVE  /\ UNCHANGED <<manifest, acked>> /\ ~Up
           /\ \A n \in DOMAIN logs :
                n \in DOMAIN logs' /\ logs'[n] = logs[n] /\ synced'[n] = synced[n]
<1>1. CASE Recover \/ RecoverLogFile
    BY <1>1 DEF Recover, RecoverLogFile, Up, disk, writing
<1>2. CASE NewLog
  <2>1. /\ UNCHANGED <<manifest, acked, toRecover>> /\ ~Up
        /\ status = "recovering" /\ toRecover = {}
        /\ logs' = With(logs, nextFile, << >>) /\ synced' = With(synced, nextFile, 0)
    BY <1>2 DEF NewLog, Up, writing
  <2>2. nextFile \notin DOMAIN logs /\ DOMAIN synced = DOMAIN logs
    <3>1. \A n \in DOMAIN logs \ toRecover : n < nextFile
      BY <2>1 DEF IInv, Numbers
    <3>2. nextFile \in Nat /\ DOMAIN logs \subseteq Nat /\ DOMAIN synced = DOMAIN logs
      BY TypesParts DEF IInv, VersionsOK, LogsOK
    <3> QED
      BY <2>1, <3>1, <3>2
  <2> QED
    BY <2>1, <2>2 DEF With
<1> QED
    BY <1>1, <1>2

\* A write that opening would find is still found after such a step.
LEMMA OpeningKeeps ==
    ASSUME IInv, Works, Recover \/ RecoverLogFile \/ NewLog
    PROVE  \A w : (Kept(w) => Kept(w)') /\ (KeptSynced(w) => KeptSynced(w)')
<1>1. /\ UNCHANGED <<manifest, acked>>
      /\ \A n \in DOMAIN logs :
            n \in DOMAIN logs' /\ logs'[n] = logs[n] /\ synced'[n] = synced[n]
    BY OpeningLeaves
<1>2. Held(DOMAIN manifest.tables) \subseteq Held(DOMAIN manifest.tables)'
    BY VersionsLoseNothing
<1>3. ASSUME NEW n \in DOMAIN logs, NEW len
      PROVE  ReadLog(n, len)' = ReadLog(n, len)
    BY <1>1, <1>3 DEF ReadLog
<1>4. ASSUME NEW w, Kept(w) PROVE Kept(w)'
    BY <1>1, <1>2, <1>3, <1>4 DEF Kept
<1>5. ASSUME NEW w, KeptSynced(w) PROVE KeptSynced(w)'
    BY <1>1, <1>2, <1>3, <1>5 DEF KeptSynced
<1> QED
    BY <1>4, <1>5

\* What can happen while the database is not up, or takes it down.
LEMMA StepsWhileNotUp ==
    ASSUME IInv, Works, ~Up'
    PROVE  \/ Recover \/ RecoverLogFile \/ NewLog \/ OpenLogged
           \/ Closed \/ ProcessCrash \/ MachineCrash
           \/ (BackgroundIdle /\ ~Up)
<1>0. Control
    BY DEF IInv
<1>1. CASE ReadEnds
  <2>1. readers # {} /\ status' = status
    BY <1>1 DEF ReadEnds
  <2> QED
    BY <1>0, <2>1 DEF Control, Up
<1>2. CASE Write \/ ReadBegins \/ Close \/ Opened
    BY <1>2 DEF Write, ReadBegins, Close, Opened, Up
<1>3. CASE FirstWriter
  <2>1. status' = status /\ (writers # << >> \/ leader # NoLeader)
    BY <1>3 DEF FirstWriter, SwitchMemTable, RefuseWrite, AddRecord, SyncLog, FinishWrite,
        MayLead, NoLeader
  <2> QED
    BY <1>0, <2>1 DEF Control, Up
<1>4. CASE BackgroundIdle
  <2>1. status' = status
    BY <1>4 DEF BackgroundIdle
  <2> QED
    BY <1>4, <2>1 DEF Up
<1>5. CASE Background /\ ~BackgroundIdle
  <2>1. \/ status = "open" /\ status' = status
        \/ /\ status' = status
           /\ imm # {} \/ flush.step # "none" \/ compaction.step # "none"
    BY <1>5 DEF Background, CompactMemTable, WriteLevel0Table, FlushLogged, FlushInstalled,
        StartCompaction, OpenCompactionOutputFile, InstallCompactionResults, CompactionFails,
        CompactionLogged, CompactionInstalled, MayWork
  <2> QED
    BY <1>0, <2>1 DEF Control, Up, NoFlush, NoCompaction
<1> QED
    BY <1>1, <1>2, <1>3, <1>4, <1>5 DEF Works

\* While the database is opened, a write reported done is in a table of the current
\* version or of the edit, or in a log that is still to be read.
LEMMA FoundWhileOpening ==
    ASSUME IInv, Works
    PROVE  /\ status' = "recovering" =>
                acked' \subseteq Held(DOMAIN current \cup DOMAIN edit.added)'
                    \cup UNION {ReadLog(n, Len(logs[n])) : n \in toRecover}'
           /\ status' \in {"logging", "installing"} =>
                acked' \subseteq Held(DOMAIN current \cup DOMAIN edit.added)'
<1>0. /\ Found /\ Types /\ Files /\ Control
      /\ DOMAIN current \cup DOMAIN edit.added \subseteq Used
      /\ DOMAIN edit = {"added", "deleted", "log", "next"}
    BY TypesParts DEF IInv, Used, VersionsOK
<1>1. \A t \in Used \cap Used' : tables'[t] = tables[t]
    BY UsedKept, UsedTablesKept
<1>2. DOMAIN current' \cup DOMAIN edit'.added \subseteq Used'
    BY DEF Used
<1>3. ASSUME UNCHANGED <<current, acked>>, DOMAIN edit.added \subseteq DOMAIN edit'.added
      PROVE  Held(DOMAIN current \cup DOMAIN edit.added)
                \subseteq Held(DOMAIN current \cup DOMAIN edit.added)'
    BY <1>0, <1>1, <1>2, <1>3 DEF Held
<1>4. CASE Recover
  <2>1. /\ status = "down" /\ status' = "recovering" /\ UNCHANGED <<acked, manifest, logs>>
        /\ current' = manifest.tables
        /\ toRecover' = {n \in DOMAIN logs : n >= manifest.log}
    BY <1>4 DEF Recover, disk, writing
  <2>2. acked \subseteq Recoverable(Lengths)
    BY <1>0, <2>1 DEF Found, Up
  <2>3. \A w \in acked : Kept(w)
    BY <1>0, <2>2, RecoverableIs
  <2>4. Held(DOMAIN manifest.tables) \subseteq Held(DOMAIN manifest.tables)'
    BY VersionsLoseNothing
  <2>5. ASSUME NEW w \in acked
        PROVE  \/ w \in Held(DOMAIN current \cup DOMAIN edit.added)'
               \/ \E n \in toRecover' : w \in ReadLog(n, Len(logs[n]))
    <3>1. CASE w \in Held(DOMAIN manifest.tables)
      BY <2>1, <2>4, <3>1 DEF Held
    <3>2. CASE \E n \in DOMAIN logs : n >= manifest.log /\ w \in ReadLog(n, Len(logs[n]))
      BY <2>1, <3>2
    <3> QED
      BY <2>3, <3>1, <3>2 DEF Kept
  <2>6. UNION {ReadLog(n, Len(logs[n])) : n \in toRecover}'
            = UNION {ReadLog(n, Len(logs[n])) : n \in toRecover'}
    BY <2>1 DEF ReadLog
  <2>7. acked \subseteq Held(DOMAIN current \cup DOMAIN edit.added)'
                    \cup UNION {ReadLog(n, Len(logs[n])) : n \in toRecover'}
    BY <2>5
  <2> QED
    BY <2>1, <2>6, <2>7
<1>5. CASE RecoverLogFile
  <2> DEFINE read == ReadLog(Min(toRecover), Len(logs[Min(toRecover)]))
  <2>1. /\ UNCHANGED <<acked, current, logs, status>> /\ status = "recovering"
        /\ toRecover' = toRecover \ {Min(toRecover)}
    BY <1>5 DEF RecoverLogFile, writing
  <2>2. PICK found \in MayBeFound(Min(toRecover)) :
            \/ found = {} /\ edit' = edit
            \/ /\ tables' = With(tables, nextFile, found)
               /\ edit' = [edit EXCEPT !.added = With(@, nextFile, 0)]
    BY <1>5 DEF RecoverLogFile
  <2>3. /\ DOMAIN edit.added \subseteq DOMAIN edit'.added
        /\ found = {} \/ (nextFile \in DOMAIN edit'.added /\ tables'[nextFile] = found)
    BY <1>0, <2>2 DEF With
  <2>4. read \subseteq Held(DOMAIN current \cup DOMAIN edit.added)'
    <3>1. read \subseteq found
      BY <2>2 DEF MayBeFound
    <3> HIDE DEF read
    <3> QED
      BY <2>3, <3>1 DEF Held
  <2> HIDE DEF read
  <2>5. acked \subseteq Held(DOMAIN current \cup DOMAIN edit.added)
                \cup UNION {ReadLog(n, Len(logs[n])) : n \in toRecover}
    BY <1>0, <2>1 DEF Found
  <2>6. UNION {ReadLog(n, Len(logs[n])) : n \in toRecover}
            \subseteq read \cup UNION {ReadLog(n, Len(logs[n])) : n \in toRecover'}
    BY <2>1 DEF read
  <2>7. UNION {ReadLog(n, Len(logs[n])) : n \in toRecover}'
            = UNION {ReadLog(n, Len(logs[n])) : n \in toRecover'}
    BY <2>1 DEF ReadLog
  <2>8. Held(DOMAIN current \cup DOMAIN edit.added)
                \subseteq Held(DOMAIN current \cup DOMAIN edit.added)'
    BY <1>3, <2>1, <2>3
  <2> QED
    BY <2>1, <2>4, <2>5, <2>6, <2>7, <2>8
<1>6. CASE NewLog \/ OpenLogged
  <2>1. /\ UNCHANGED <<acked, current>> /\ edit'.added = edit.added
        /\ status' \in {"logging", "installing"}
    BY <1>0, <1>6 DEF NewLog, OpenLogged, background, versions, writing
  <2>2. acked \subseteq Held(DOMAIN current \cup DOMAIN edit.added)
    <3>1. CASE NewLog
      <4>1. status = "recovering" /\ toRecover = {}
        BY <3>1 DEF NewLog
      <4> QED
        BY <1>0, <4>1 DEF Found
    <3>2. CASE OpenLogged
      BY <1>0, <3>2 DEF Found, OpenLogged
    <3> QED
      BY <1>6, <3>1, <3>2
  <2>3. Held(DOMAIN current \cup DOMAIN edit.added)
                \subseteq Held(DOMAIN current \cup DOMAIN edit.added)'
    BY <1>3, <2>1
  <2> QED
    BY <2>1, <2>2, <2>3
<1>7. CASE Closed \/ ProcessCrash \/ MachineCrash \/ Up'
  <2>1. status' \in {"open", "closing", "down"}
    BY <1>7 DEF Closed, ProcessCrash, MachineCrash, MemoryLost, Up
  <2> QED
    BY <2>1
<1>8. CASE BackgroundIdle
  <2>1. UNCHANGED <<acked, current, edit, logs, tables, toRecover, status>>
    BY <1>8 DEF BackgroundIdle, disk, writing, versions
  <2>2. \A n, len : ReadLog(n, len)' = ReadLog(n, len)
    BY <2>1 DEF ReadLog
  <2>3. /\ Held(DOMAIN current \cup DOMAIN edit.added)'
                = Held(DOMAIN current \cup DOMAIN edit.added)
        /\ UNION {ReadLog(n, Len(logs[n])) : n \in toRecover}'
              = UNION {ReadLog(n, Len(logs[n])) : n \in toRecover}
    BY <2>1 DEF Held, ReadLog
  <2>4. UNCHANGED <<acked, status>>
    BY <2>1
  <2>5. \/ status = "recovering" /\ acked \subseteq Held(DOMAIN current \cup DOMAIN edit.added)
                \cup UNION {ReadLog(n, Len(logs[n])) : n \in toRecover}
        \/ status \in {"logging", "installing"}
                /\ acked \subseteq Held(DOMAIN current \cup DOMAIN edit.added)
        \/ ~(status \in {"recovering", "logging", "installing"})
    BY <1>0 DEF Found
  <2> QED
    BY <2>3, <2>4, <2>5
<1> QED
    BY <1>4, <1>5, <1>6, <1>7, <1>8, StepsWhileNotUp

\* When the manifest names the tables of the recovered logs it holds every write.
LEMMA OpenedManifestHolds ==
    ASSUME IInv, Works, OpenLogged
    PROVE  acked' \subseteq Held(DOMAIN manifest.tables)'
<1>0. /\ Found /\ Control /\ Agreement /\ IsVersion(current) /\ IsEdit(edit)
    BY TypesParts DEF IInv, VersionsOK
<1>1. status = "logging" /\ acked' = acked /\ UNCHANGED <<flush, compaction, tables>>
    BY DEF OpenLogged, writing, background
<1>2. manifest'.tables = Apply(manifest.tables, edit)
    BY NewManifest DEF EditRecorded
<1>3. manifest.tables = current
  <2>1. flush = NoFlush /\ compaction = NoCompaction /\ ~bgError
    BY <1>0, <1>1 DEF Control, Up
  <2>2. ~Installing
    BY <1>1, <2>1 DEF Installing, NoFlush, NoCompaction
  <2> QED
    BY <1>0, <1>1, <2>1, <2>2 DEF Agreement
<1>4. acked \subseteq Held(DOMAIN current \cup DOMAIN edit.added)
    BY <1>0, <1>1 DEF Found
<1>5. Held(DOMAIN current \cup DOMAIN edit.added) \subseteq Held(DOMAIN manifest'.tables)
    BY <1>0, <1>1, <1>2, <1>3, EditKeepsWrites DEF Applying, Held
<1>6. Held(DOMAIN manifest'.tables) = Held(DOMAIN manifest.tables)'
    BY <1>1 DEF Held
<1> QED
    BY <1>1, <1>4, <1>5, <1>6

\* After a crash and until the database is up again, opening it would find every write
\* reported done.
LEMMA FoundWhileNotUp == ASSUME IInv, Works, ~Up' PROVE acked' \subseteq Recoverable(Lengths)'
<1>0. Found /\ Files
    BY DEF IInv
<1>1. Files'
    BY FilesKept
<1>2. ~Up => \A w \in acked : Kept(w)
    BY <1>0, RecoverableIs DEF Found
<1>3. CASE Closed \/ ProcessCrash \/ MachineCrash
    BY <1>3 DEF Closed, ProcessCrash, MachineCrash, MemoryLost
<1>4. CASE Recover \/ RecoverLogFile \/ NewLog
  <2>1. ~Up /\ acked' = acked
    BY <1>4, OpeningLeaves
  <2>2. \A w \in acked' : Kept(w)'
    BY <1>2, <1>4, <2>1, OpeningKeeps
  <2> QED
    BY <1>1, <2>2, RecoverableIsNext
<1>5. CASE OpenLogged
  <2>1. \A w \in acked' : Kept(w)'
    BY <1>5, OpenedManifestHolds DEF Kept
  <2> QED
    BY <1>1, <2>1, RecoverableIsNext
<1>6. CASE BackgroundIdle /\ ~Up
  <2>1. UNCHANGED <<acked, manifest, logs, tables>>
    BY <1>6 DEF BackgroundIdle, disk, writing
  <2>2. \A w \in acked' : Kept(w)'
    BY <1>2, <1>6, <2>1 DEF Kept, Held, ReadLog
  <2> QED
    BY <1>1, <2>2, RecoverableIsNext
<1> QED
    BY <1>3, <1>4, <1>5, <1>6, StepsWhileNotUp

\* All of Found is kept: up, down and while the database is opened.
LEMMA FoundKept == ASSUME IInv, Works PROVE Found'
<1>1. Up' => /\ acked' \subseteq mem' \cup imm' \cup Held(DOMAIN current)'
             /\ acked' \subseteq mem' \cup imm' \cup Held(DOMAIN manifest.tables)'
    BY FoundWhileUp
<1>2. ~Up' => acked' \subseteq Recoverable(Lengths)'
    BY FoundWhileNotUp
<1> QED
    BY <1>1, <1>2, FoundWhileOpening DEF Found

-----------------------------------------------------------------------------
(* Writes in the logs.                                                     *)

\* A write in a whole record is read, or a torn record is before it.
LEMMA LoggedIsRead ==
    ASSUME NEW n \in DOMAIN logs, logs[n] \in Seq(Record), NEW len \in 0..Len(logs[n]),
           NEW w, NEW i \in 1..len, logs[n][i].whole, w \in logs[n][i].writes
    PROVE  w \in ReadLog(n, len) \/ BehindTorn(w)
<1>0. len \in Nat /\ DOMAIN logs[n] = 1..Len(logs[n]) /\ i \in DOMAIN logs[n]
    BY LenProperties
<1>1. CASE \A k \in 1..i : logs[n][k].whole
    BY <1>1 DEF ReadLog
<1>2. CASE \E k \in 1..i : ~logs[n][k].whole
  <2>1. PICK k \in 1..i : ~logs[n][k].whole
    BY <1>2
  <2>2. k # i /\ k < i /\ k \in DOMAIN logs[n]
    BY <1>0, <2>1
  <2> QED
    BY <1>0, <2>1, <2>2 DEF BehindTorn
<1> QED
    BY <1>1, <1>2

\* Dying now loses no write reported done: none that was synced if the machine dies.
LEMMA NothingIsLost ==
    Types /\ Control /\ Files /\ Numbers /\ Found /\ Logged /\ Synced =>
        ProcessFinds /\ MachineFinds
<1> SUFFICES ASSUME Types, Control, Files, Numbers, Found, Logged, Synced
             PROVE  ProcessFinds /\ MachineFinds
  OBVIOUS
<1>0. /\ \A n \in DOMAIN logs : logs[n] \in Seq(Record) /\ synced[n] \in 0..Len(logs[n])
                                /\ Len(logs[n]) \in Nat
      /\ \A w : w \in Recoverable(Lengths) <=> Kept(w)
      /\ \A w : w \in Recoverable(synced) <=> KeptSynced(w)
      /\ logfileNumber \in Nat /\ logNumber \in Nat /\ manifest.log \in Nat
      /\ DOMAIN logs \subseteq Nat
  <2>1. \A n \in DOMAIN logs : logs[n] \in Seq(Record) /\ synced[n] \in 0..Len(logs[n])
    BY TypesParts DEF LogsOK
  <2>2. \A n \in DOMAIN logs : Len(logs[n]) \in Nat
    BY <2>1, LenProperties
  <2> QED
    BY <2>1, <2>2, RecoverableIs, TypesParts DEF VersionsOK, LogsOK
<1>1. CASE ~Up
    BY <1>1 DEF Found, Synced, ProcessFinds
<1>2. CASE Up
  <2>1. ASSUME NEW w, NEW n \in DOMAIN logs, n >= manifest.log, InLog(w, n)
        PROVE  Kept(w) \/ BehindTorn(w)
    <3>1. PICK i \in 1..Len(logs[n]) : logs[n][i].whole /\ w \in logs[n][i].writes
      BY <2>1 DEF InLog
    <3>2. w \in ReadLog(n, Len(logs[n])) \/ BehindTorn(w)
      BY <1>0, <3>1, LoggedIsRead
    <3> QED
      BY <2>1, <3>2 DEF Kept
  <2>2. ASSUME NEW w, NEW n \in DOMAIN logs, n >= manifest.log, InSynced(w, n)
        PROVE  KeptSynced(w) \/ BehindTorn(w)
    <3>1. PICK i \in 1..synced[n] : logs[n][i].whole /\ w \in logs[n][i].writes
      BY <2>2 DEF InSynced
    <3>2. w \in ReadLog(n, synced[n]) \/ BehindTorn(w)
      BY <1>0, <3>1, LoggedIsRead
    <3> QED
      BY <2>2, <3>2 DEF KeptSynced
  <2>3. logfileNumber >= manifest.log /\ logfileNumber \in DOMAIN logs
    BY <1>0, <1>2, FilesParts DEF Numbers, LogInUse
  <2>4. ASSUME NEW w \in acked
        PROVE  Kept(w) \/ BehindTorn(w)
    <3>1. w \in mem \/ w \in imm \/ w \in Held(DOMAIN manifest.tables)
      BY <1>2 DEF Found
    <3>2. CASE w \in mem
      BY <1>2, <2>1, <2>3, <3>2 DEF Logged
    <3>3. CASE w \in Held(DOMAIN manifest.tables)
      BY <3>3 DEF Kept
    <3>4. CASE w \in imm /\ w \notin Held(DOMAIN manifest.tables)
      <4>1. PICK n \in DOMAIN logs : n >= logNumber /\ InLog(w, n)
        BY <1>2, <3>4 DEF Logged
      <4>2. manifest.log <= logNumber
        BY <1>2, <3>4 DEF Logged
      <4>3. n >= manifest.log
        BY <1>0, <4>1, <4>2
      <4> QED
        BY <2>1, <4>1, <4>3
    <3> QED
      BY <3>1, <3>2, <3>3, <3>4
  <2>5. ASSUME NEW w \in acked \cap SyncWrites
        PROVE  KeptSynced(w) \/ BehindTorn(w)
    <3>1. w \in mem \/ w \in imm \/ w \in Held(DOMAIN manifest.tables)
      BY <1>2 DEF Found
    <3>2. CASE w \in mem
      BY <1>2, <2>2, <2>3, <3>2 DEF Synced
    <3>3. CASE w \in Held(DOMAIN manifest.tables)
      BY <3>3 DEF KeptSynced
    <3>4. CASE w \in imm /\ w \notin Held(DOMAIN manifest.tables)
      <4>1. PICK n \in DOMAIN logs : n >= logNumber /\ InSynced(w, n)
        BY <1>2, <3>4 DEF Synced
      <4>2. manifest.log <= logNumber
        BY <1>2, <3>4 DEF Logged
      <4>3. n >= manifest.log
        BY <1>0, <4>1, <4>2
      <4> QED
        BY <2>2, <4>1, <4>3
    <3> QED
      BY <3>1, <3>2, <3>3, <3>4
  <2> QED
    BY <1>0, <2>4, <2>5 DEF ProcessFinds, MachineFinds
<1> QED
    BY <1>1, <1>2

\* Until the database goes down a log only grows, and so does what is synced of it.
LEMMA LogsOnlyGrow ==
    ASSUME IInv, Works, ~MemoryLost
    PROVE  \A n \in DOMAIN logs \cap DOMAIN logs' :
                /\ Len(logs[n]) \in Nat /\ Len(logs'[n]) \in Nat /\ Len(logs'[n]) >= Len(logs[n])
                /\ \A i \in 1..Len(logs[n]) : logs'[n][i] = logs[n][i]
                /\ synced[n] \in Nat /\ synced'[n] \in Nat /\ synced'[n] >= synced[n]
<1>0. \A n \in DOMAIN logs : /\ logs[n] \in Seq(Record) /\ Len(logs[n]) \in Nat
                             /\ synced[n] \in 0..Len(logs[n])
  <2>1. \A n \in DOMAIN logs : logs[n] \in Seq(Record) /\ synced[n] \in 0..Len(logs[n])
    BY TypesParts DEF IInv, LogsOK
  <2> QED
    BY <2>1, LenProperties
<1>1. ASSUME \A n \in DOMAIN logs \cap DOMAIN logs' : logs'[n] = logs[n] /\ synced'[n] = synced[n]
      PROVE  \A n \in DOMAIN logs \cap DOMAIN logs' :
                /\ Len(logs[n]) \in Nat /\ Len(logs'[n]) \in Nat /\ Len(logs'[n]) >= Len(logs[n])
                /\ \A i \in 1..Len(logs[n]) : logs'[n][i] = logs[n][i]
                /\ synced[n] \in Nat /\ synced'[n] \in Nat /\ synced'[n] >= synced[n]
    BY <1>0, <1>1
<1>2. CASE AddRecord
  <2>1. synced' = synced
    BY <1>2 DEF AddRecord
  <2>2. logs' = logs \/ \E r : logs' = [logs EXCEPT ![logfileNumber] = Append(@, r)]
    BY <1>2 DEF AddRecord
  <2>3. CASE logs' = logs
    BY <1>1, <2>1, <2>3
  <2>4. ASSUME NEW r, logs' = [logs EXCEPT ![logfileNumber] = Append(@, r)]
        PROVE  \A n \in DOMAIN logs \cap DOMAIN logs' :
                /\ Len(logs[n]) \in Nat /\ Len(logs'[n]) \in Nat /\ Len(logs'[n]) >= Len(logs[n])
                /\ \A i \in 1..Len(logs[n]) : logs'[n][i] = logs[n][i]
                /\ synced[n] \in Nat /\ synced'[n] \in Nat /\ synced'[n] >= synced[n]
    <3>1. ASSUME NEW n \in DOMAIN logs
          PROVE  /\ Len(logs'[n]) \in Nat /\ Len(logs'[n]) >= Len(logs[n])
                 /\ \A i \in 1..Len(logs[n]) : logs'[n][i] = logs[n][i]
      <4>1. CASE n = logfileNumber
        <5>1. logs'[n] = Append(logs[n], r)
          BY <2>4, <4>1
        <5> QED
          BY <1>0, <5>1
      <4>2. CASE n # logfileNumber
        BY <1>0, <2>4, <4>2
      <4> QED
        BY <4>1, <4>2
    <3> QED
      BY <1>0, <2>1, <3>1
  <2> QED
    BY <2>2, <2>3, <2>4
<1>3. CASE SyncLog
  <2>1. /\ logs' = logs
        /\ \/ synced' = synced
           \/ synced' = [synced EXCEPT ![logfileNumber] = Len(logs[logfileNumber])]
    BY <1>3 DEF SyncLog
  <2>2. DOMAIN synced = DOMAIN logs
    BY TypesParts DEF IInv, LogsOK
  <2>3. \A n \in DOMAIN logs : synced'[n] = synced[n] \/ synced'[n] = Len(logs[n])
    BY <2>1, <2>2
  <2> QED
    BY <1>0, <2>1, <2>3
<1>4. CASE SwitchMemTable
  <2>1. /\ logs' = With(logs, nextFile, << >>) /\ synced' = With(synced, nextFile, 0)
        /\ status' = status /\ writers # << >>
    BY <1>4 DEF SwitchMemTable, MayLead
  <2>2. nextFile \notin DOMAIN logs /\ DOMAIN synced = DOMAIN logs
    <3>1. Up /\ toRecover = {}
      BY <2>1 DEF IInv, Control, Up
    <3>2. \A n \in DOMAIN logs \ toRecover : n < nextFile
      BY <3>1 DEF IInv, Numbers, Up
    <3>3. nextFile \in Nat /\ DOMAIN logs \subseteq Nat /\ DOMAIN synced = DOMAIN logs
      BY TypesParts DEF IInv, VersionsOK, LogsOK
    <3> QED
      BY <3>1, <3>2, <3>3
  <2> QED
    BY <1>1, <2>1, <2>2 DEF With
<1>5. CASE Recover \/ RecoverLogFile \/ NewLog
    BY <1>1, <1>5, OpeningLeaves
<1>6. ASSUME NEW log, NEW live, FilesLeft(log, live)
      PROVE  \A n \in DOMAIN logs \cap DOMAIN logs' : logs'[n] = logs[n] /\ synced'[n] = synced[n]
    BY <1>6 DEF FilesLeft
<1>7. CASE FlushInstalled \/ CompactionInstalled \/ Opened
    BY <1>1, <1>6, <1>7, FlushInstalledLeaves, CompactionInstalledLeaves, OpenedLeaves DEF IInv
<1>8. CASE CompactionFails \/ CompactionLogged
    BY <1>1, <1>8, CompactionFailsLeaves, CompactionLoggedCases DEF IInv, Types
<1>9. CASE Write \/ RefuseWrite \/ FinishWrite \/ BackgroundIdle \/ CompactMemTable
           \/ WriteLevel0Table \/ FlushLogged \/ StartCompaction \/ OpenCompactionOutputFile
           \/ InstallCompactionResults \/ ReadBegins \/ ReadEnds \/ Close \/ OpenLogged
  <2>1. UNCHANGED <<logs, synced>>
    BY <1>9 DEF Write, RefuseWrite, FinishWrite, BackgroundIdle, CompactMemTable,
        WriteLevel0Table, FlushLogged, StartCompaction, OpenCompactionOutputFile,
        InstallCompactionResults, ReadBegins, ReadEnds, Close, OpenLogged, disk
  <2> QED
    BY <1>1, <2>1
<1> QED
    BY <1>2, <1>3, <1>4, <1>5, <1>7, <1>8, <1>9
       DEF Works, FirstWriter, Background, Closed, ProcessCrash, MachineCrash

\* A write that is in a log stays there while the log is there.
LEMMA InLogKept ==
    ASSUME IInv, Works, ~MemoryLost, NEW w, NEW n \in DOMAIN logs'
    PROVE  (InLog(w, n) => InLog(w, n)') /\ (InSynced(w, n) => InSynced(w, n)')
<1>1. CASE n \in DOMAIN logs
  <2>1. /\ Len(logs[n]) \in Nat /\ Len(logs'[n]) \in Nat /\ Len(logs'[n]) >= Len(logs[n])
        /\ \A i \in 1..Len(logs[n]) : logs'[n][i] = logs[n][i]
        /\ synced[n] \in Nat /\ synced'[n] \in Nat /\ synced'[n] >= synced[n]
    BY <1>1, LogsOnlyGrow
  <2>2. synced[n] <= Len(logs[n])
    BY <1>1, TypesParts DEF IInv, LogsOK
  <2> QED
    BY <2>1, <2>2 DEF InLog, InSynced
<1>2. CASE n \notin DOMAIN logs
    BY <1>2 DEF InLog, InSynced
<1> QED
    BY <1>1, <1>2

\* What can happen while the database is up, or puts it up.
LEMMA StepsWhileUp ==
    ASSUME IInv, Works, Up'
    PROVE  /\ ~MemoryLost
           /\ \/ Opened
              \/ Up /\ (Write \/ FirstWriter)
              \/ /\ Up /\ UNCHANGED <<mem, acked, logfileNumber, writers, leader>>
                 /\ imm' = imm \/ FlushInstalled
                 /\ logNumber' = logNumber \/ FlushInstalled \/ CompactionInstalled
<1>1. ~MemoryLost
    BY DEF MemoryLost, Up
<1>2. ~(Recover \/ RecoverLogFile \/ NewLog \/ OpenLogged)
    BY DEF Recover, RecoverLogFile, NewLog, OpenLogged, Up
<1>3. CASE Opened
    BY <1>1, <1>3
<1>4. CASE Write \/ FirstWriter
  <2>1. status' = status
    BY <1>4 DEF Write, FirstWriter, SwitchMemTable, RefuseWrite, AddRecord, SyncLog, FinishWrite
  <2> QED
    BY <1>1, <1>4, <2>1 DEF Up
<1>5. CASE Background \/ ReadBegins \/ ReadEnds \/ Close
  <2>1. status' = status \/ status = "open"
    BY <1>5 DEF Background, BackgroundIdle, CompactMemTable, WriteLevel0Table, FlushLogged,
        FlushInstalled, StartCompaction, OpenCompactionOutputFile, InstallCompactionResults,
        CompactionFails, CompactionLogged, CompactionInstalled, ReadBegins, ReadEnds, Close
  <2>2. UNCHANGED <<mem, acked, logfileNumber, writers, leader>>
    BY <1>5 DEF Background, BackgroundIdle, CompactMemTable, WriteLevel0Table, FlushLogged,
        FlushInstalled, StartCompaction, OpenCompactionOutputFile, InstallCompactionResults,
        CompactionFails, CompactionLogged, CompactionInstalled, ReadBegins, ReadEnds, Close,
        writing
  <2>3. imm' = imm \/ FlushInstalled
    BY <1>5 DEF Background, BackgroundIdle, CompactMemTable, WriteLevel0Table, FlushLogged,
        StartCompaction, OpenCompactionOutputFile, InstallCompactionResults,
        CompactionFails, CompactionLogged, CompactionInstalled, ReadBegins, ReadEnds, Close
  <2>4. logNumber' = logNumber \/ FlushInstalled \/ CompactionInstalled
    BY <1>5 DEF Background, BackgroundIdle, CompactMemTable, WriteLevel0Table, FlushLogged,
        StartCompaction, OpenCompactionOutputFile, InstallCompactionResults,
        CompactionFails, CompactionLogged, ReadBegins, ReadEnds, Close, versions
  <2> QED
    BY <1>1, <2>1, <2>2, <2>3, <2>4 DEF Up
<1> QED
    BY <1>1, <1>2, <1>3, <1>4, <1>5 DEF Works, Closed, ProcessCrash, MachineCrash

\* What the memtable holds is in the log in use, synced if that was asked for.
LEMMA MemIsLogged ==
    ASSUME IInv, Works, Up'
    PROVE  /\ \A w \in mem' : InLog(w, logfileNumber)'
           /\ \A w \in mem' \cap SyncWrites : InSynced(w, logfileNumber)'
<1>0. /\ Types /\ Files /\ Control /\ Logged /\ Synced /\ WritersOK
      /\ Files' /\ ~MemoryLost
    BY TypesParts, FilesKept, StepsWhileUp DEF IInv
<1>1. logfileNumber' \in DOMAIN logs'
  <2>1. LogInUse'
    BY LogInUseKept
  <2> QED
    BY <2>1 DEF LogInUse
<1>2. ASSUME logfileNumber' = logfileNumber, NEW w
      PROVE  /\ InLog(w, logfileNumber) => InLog(w, logfileNumber)'
             /\ InSynced(w, logfileNumber) => InSynced(w, logfileNumber)'
  <2>1. \A n \in DOMAIN logs' : (InLog(w, n) => InLog(w, n)') /\ (InSynced(w, n) => InSynced(w, n)')
    BY <1>0, InLogKept
  <2> QED
    BY <1>1, <1>2, <2>1 DEF InLog, InSynced
<1>3. CASE mem' = {}
    BY <1>3
<1>4. CASE Up /\ UNCHANGED <<mem, logfileNumber>>
    BY <1>0, <1>2, <1>4 DEF Logged, Synced
<1>5. CASE Up /\ FinishWrite
  <2> DEFINE group == ToSet(SubSeq(writers, 1, leader.count))
  <2>1. logfileNumber' = logfileNumber
    BY <1>5 DEF FinishWrite
  <2>2. mem' = mem \/ (leader.step = "insert" /\ mem' = mem \cup group)
    BY <1>5 DEF FinishWrite
  <2>3. group = {writers[i] : i \in 1..leader.count}
    BY <1>0, QueueSplits DEF WritersOK
  <2> HIDE DEF group
  <2>4. leader.step = "insert" =>
            /\ \A w \in group : InLog(w, logfileNumber)
            /\ \A w \in group \cap SyncWrites : InSynced(w, logfileNumber)
    BY <1>0, <1>5, <2>3 DEF Logged, Synced
  <2>5. \A w \in mem' : InLog(w, logfileNumber)
    BY <1>0, <1>5, <2>2, <2>4 DEF Logged
  <2>6. \A w \in mem' \cap SyncWrites : InSynced(w, logfileNumber)
    BY <1>0, <1>5, <2>2, <2>4 DEF Synced
  <2> QED
    BY <1>2, <2>1, <2>5, <2>6
<1>6. Opened => mem' = {}
    BY <1>0 DEF Opened, Control, Up, writing
<1>7. Write \/ FirstWriter =>
        mem' = {} \/ FinishWrite \/ UNCHANGED <<mem, logfileNumber>>
    BY DEF Write, FirstWriter, SwitchMemTable, RefuseWrite, AddRecord, SyncLog
<1> QED
    BY <1>3, <1>4, <1>5, <1>6, <1>7, StepsWhileUp

\* What the full memtable holds is in logs from the one on that memory starts from.
LEMMA ImmIsLogged ==
    ASSUME IInv, Works, Up'
    PROVE  /\ \A w \in imm' : \E n \in DOMAIN logs' : n >= logNumber' /\ InLog(w, n)'
           /\ \A w \in imm' \cap SyncWrites :
                \E n \in DOMAIN logs' : n >= logNumber' /\ InSynced(w, n)'
<1>0. /\ Types /\ Files /\ Control /\ Logged /\ Synced /\ LogNumbers /\ LogInUse
      /\ ~MemoryLost /\ DOMAIN logs \subseteq Nat /\ logNumber \in Nat /\ logfileNumber \in Nat
    BY TypesParts, FilesParts, NumbersParts, StepsWhileUp DEF IInv, LogsOK, VersionsOK
<1>1. \A w : \A n \in DOMAIN logs' :
        (InLog(w, n) => InLog(w, n)') /\ (InSynced(w, n) => InSynced(w, n)')
    BY <1>0, InLogKept
<1>2. CASE imm' = {}
    BY <1>2
<1>3. CASE /\ Up /\ UNCHANGED <<imm, logNumber>>
           /\ \A n \in DOMAIN logs : n < logNumber \/ n \in DOMAIN logs'
  <2>1. \A n \in DOMAIN logs : n >= logNumber => n \in DOMAIN logs'
    BY <1>0, <1>3
  <2> QED
    BY <1>0, <1>1, <1>3, <2>1 DEF Logged, Synced
<1>4. CASE Up /\ SwitchMemTable
  <2>1. /\ imm' = mem /\ logNumber' = logNumber
        /\ DOMAIN logs \subseteq DOMAIN logs'
    BY <1>4 DEF SwitchMemTable, With
  <2>2. PICK n \in DOMAIN logs : n = logfileNumber
    BY <1>0, <1>4 DEF LogInUse
  <2>3. n >= logNumber' /\ n \in DOMAIN logs'
    BY <1>0, <1>4, <2>1, <2>2 DEF LogNumbers
  <2>4. \A w \in imm' : InLog(w, n)'
    BY <1>0, <1>1, <1>4, <2>1, <2>2, <2>3 DEF Logged
  <2>5. \A w \in imm' \cap SyncWrites : InSynced(w, n)'
    BY <1>0, <1>1, <1>4, <2>1, <2>2, <2>3 DEF Synced
  <2> QED
    BY <2>3, <2>4, <2>5
<1>5. CASE Opened
    BY <1>0, <1>2, <1>5 DEF Opened, Control, Up
<1>6. CASE FlushInstalled
    BY <1>2, <1>6 DEF FlushInstalled
<1>7. CASE Up /\ CompactionInstalled
  <2>1. compaction.step = "install" /\ logNumber' = edit.log /\ imm' = imm
    BY <1>7 DEF CompactionInstalled
  <2>2. edit.log = logNumber
    BY <1>0, <2>1 DEF LogNumbers
  <2>3. \A n \in DOMAIN logs : n < logNumber \/ n \in DOMAIN logs'
    BY <1>0, <1>7, <2>2, CompactionInstalledLeaves DEF FilesLeft
  <2> QED
    BY <1>3, <1>7, <2>1, <2>2, <2>3
<1>8. CASE Up /\ (Write \/ FirstWriter) /\ ~SwitchMemTable
  <2>1. UNCHANGED <<imm, logNumber>> /\ DOMAIN logs' = DOMAIN logs
    BY <1>8 DEF Write, FirstWriter, RefuseWrite, AddRecord, SyncLog, FinishWrite, disk, versions
  <2> QED
    BY <1>3, <1>8, <2>1
<1>9. CASE /\ Up /\ UNCHANGED <<imm, logNumber, logfileNumber>>
           /\ ~(Write \/ FirstWriter \/ Opened \/ FlushInstalled \/ CompactionInstalled)
  <2>1. logs' = logs
    <3>1. CASE CompactionFails \/ CompactionLogged
      BY <1>0, <3>1, CompactionFailsLeaves, CompactionLoggedCases DEF Types
    <3>2. CASE Recover \/ RecoverLogFile \/ NewLog \/ OpenLogged
      BY <1>9, <3>2 DEF Recover, RecoverLogFile, NewLog, OpenLogged, Up
    <3>3. CASE ~(CompactionFails \/ CompactionLogged \/ Recover \/ RecoverLogFile \/ NewLog
                 \/ OpenLogged)
      BY <1>0, <1>9, <3>3 DEF Works, Background, BackgroundIdle, CompactMemTable,
          WriteLevel0Table, FlushLogged, StartCompaction, OpenCompactionOutputFile,
          InstallCompactionResults, ReadBegins, ReadEnds, Close, Closed, ProcessCrash,
          MachineCrash, disk
    <3> QED
      BY <3>1, <3>2, <3>3
  <2> QED
    BY <1>3, <1>9, <2>1
<1> QED
  <2>1. \/ Opened
        \/ Up /\ (Write \/ FirstWriter)
        \/ /\ Up /\ logfileNumber' = logfileNumber
           /\ imm' = imm \/ FlushInstalled
           /\ logNumber' = logNumber \/ FlushInstalled \/ CompactionInstalled
    BY StepsWhileUp
  <2> QED
    BY <1>4, <1>5, <1>6, <1>7, <1>8, <1>9, <2>1

\* The manifest passes over no log whose memtable is in none of its tables.
LEMMA ManifestKeepsLogs ==
    ASSUME IInv, Works, Up'
    PROVE  manifest'.log <= logNumber' \/ imm' \subseteq Held(DOMAIN manifest.tables)'
<1>0. /\ Types /\ Control /\ Edits /\ Outputs /\ Logged /\ LogNumbers /\ Agreement /\ ThreadOK
      /\ logNumber \in Nat /\ manifest.log \in Nat /\ IsEdit(edit) /\ edit.log \in Nat
      /\ IsVersion(manifest.tables)
      /\ flush.step # "none" => flush.table \in Used
    BY TypesParts, NumbersParts, WorkIsOnUsed DEF IInv, VersionsOK, IsEdit
<1>1. Held(DOMAIN manifest.tables) \subseteq Held(DOMAIN manifest.tables)'
    BY VersionsLoseNothing
<1>2. CASE imm' = {}
    BY <1>2
<1>3. CASE Up /\ manifest'.log = manifest.log /\ UNCHANGED <<imm, logNumber>>
    BY <1>0, <1>1, <1>3 DEF Logged
<1>4. CASE Up /\ SwitchMemTable
  <2>1. /\ manifest' = manifest /\ logNumber' = logNumber /\ imm = {} /\ ~bgError
    BY <1>4 DEF SwitchMemTable
  <2>2. flush.step = "none" /\ status # "installing" /\ status # "down"
    BY <1>0, <1>4, <2>1 DEF Control, Up
  <2>3. manifest.log = logNumber
    BY <1>0, <2>1, <2>2 DEF Agreement, Installing, LogNumbers
  <2> QED
    BY <1>0, <2>1, <2>3
<1>5. CASE Up /\ FlushLogged
  <2>1. flush.step = "apply" /\ imm' = imm /\ logNumber' = logNumber
    BY <1>5 DEF FlushLogged, versions
  <2>2. CASE SameFiles
    BY <1>3, <1>5, <2>1, <2>2 DEF SameFiles
  <2>3. CASE ~SameFiles
    <3>1. manifest'.tables = Apply(manifest.tables, edit)
      BY <2>3, ManifestSteps DEF EditRecorded
    <3>2. flush.table \in DOMAIN manifest'.tables
      <4>1. DOMAIN edit.added = {flush.table}
        BY <1>0, <2>1 DEF Edits
      <4>2. DOMAIN Apply(manifest.tables, edit)
                = DOMAIN edit.added \cup (DOMAIN manifest.tables \ edit.deleted)
        BY <1>0, VersionApply
      <4> QED
        BY <3>1, <4>1, <4>2
    <3>3. tables'[flush.table] = imm
      <4>1. tables' = tables
        BY <1>5 DEF FlushLogged
      <4> QED
        BY <1>0, <2>1, <4>1 DEF Outputs
    <3> QED
      BY <2>1, <3>2, <3>3 DEF Held
  <2> QED
    BY <2>2, <2>3
<1>6. CASE Up /\ CompactionLogged
  <2>1. compaction.step = "apply" /\ imm' = imm /\ logNumber' = logNumber
    BY <1>6 DEF CompactionLogged
  <2>2. edit.log = logNumber
    BY <1>0, <2>1 DEF LogNumbers
  <2>3. manifest'.log = manifest.log \/ manifest'.log = logNumber
    BY <2>2, ManifestSteps DEF SameFiles, EditRecorded
  <2> QED
    BY <1>0, <1>3, <1>6, <2>1, <2>3
<1>7. CASE Up /\ CompactionInstalled
  <2>1. /\ compaction.step = "install" /\ logNumber' = edit.log /\ imm' = imm
        /\ manifest' = manifest
    BY <1>7 DEF CompactionInstalled
  <2>2. edit.log = logNumber
    BY <1>0, <2>1 DEF LogNumbers
  <2> QED
    BY <1>3, <1>7, <2>1, <2>2
<1>8. CASE Opened
    BY <1>0, <1>2, <1>8 DEF Opened, Control, Up
<1>9. CASE FlushInstalled
    BY <1>2, <1>9 DEF FlushInstalled
<1>10. CASE /\ Up
            /\ ~(SwitchMemTable \/ FlushLogged \/ CompactionLogged \/ CompactionInstalled
                 \/ Opened \/ FlushInstalled)
  <2>1. manifest' = manifest
    <3>1. CASE OpenLogged
      BY <1>10, <3>1 DEF OpenLogged, Up
    <3>2. CASE ~OpenLogged
      BY <1>10, <3>2 DEF Works, Background, FirstWriter, Write, RefuseWrite, AddRecord,
          SyncLog, FinishWrite, BackgroundIdle, CompactMemTable, WriteLevel0Table,
          StartCompaction, OpenCompactionOutputFile, InstallCompactionResults,
          CompactionFails, ReadBegins, ReadEnds, Close, Closed, ProcessCrash, MachineCrash,
          MemoryLost, Recover, RecoverLogFile, NewLog, disk
    <3> QED
      BY <3>1, <3>2
  <2>2. UNCHANGED <<imm, logNumber>>
    <3>1. Write \/ FirstWriter => UNCHANGED <<imm, logNumber>>
      BY <1>10 DEF FirstWriter, Write, RefuseWrite, AddRecord, SyncLog, FinishWrite, versions
    <3> QED
      BY <1>10, <3>1, StepsWhileUp
  <2> QED
    BY <1>3, <1>10, <2>1, <2>2
<1> QED
    BY <1>4, <1>5, <1>6, <1>7, <1>8, <1>9, <1>10, StepsWhileUp

\* The group of the first writer is in the log before it is put into the memtable, and
\* synced before that if one of them asked for it.
LEMMA GroupIsLogged ==
    ASSUME IInv, Works, Up'
    PROVE  /\ leader'.step \in {"sync", "insert"} =>
                \A i \in 1..leader'.count : InLog(writers[i], logfileNumber)'
           /\ leader'.step = "insert" =>
                \A i \in 1..leader'.count :
                    writers'[i] \in SyncWrites => InSynced(writers[i], logfileNumber)'
<1>0. /\ Types /\ Control /\ Logged /\ Synced /\ WritersOK /\ LogsOK /\ LogInUse
      /\ ~MemoryLost
    BY TypesParts, FilesParts, StepsWhileUp DEF IInv
<1>1. logfileNumber' \in DOMAIN logs'
  <2>1. LogInUse'
    BY LogInUseKept
  <2> QED
    BY <2>1 DEF LogInUse
<1>2. CASE leader'.step \notin {"sync", "insert"}
    BY <1>2
<1>3. ASSUME logfileNumber' = logfileNumber, NEW w
      PROVE  /\ InLog(w, logfileNumber) => InLog(w, logfileNumber)'
             /\ InSynced(w, logfileNumber) => InSynced(w, logfileNumber)'
  <2>1. \A n \in DOMAIN logs' : (InLog(w, n) => InLog(w, n)') /\ (InSynced(w, n) => InSynced(w, n)')
    BY <1>0, InLogKept
  <2> QED
    BY <1>1, <1>3, <2>1 DEF InLog, InSynced
<1>4. CASE /\ Up /\ UNCHANGED <<leader, logfileNumber>>
           /\ \A i \in 1..leader.count : writers'[i] = writers[i]
  <2>1. \A w : /\ InLog(w, logfileNumber) => InLog(w, logfileNumber)'
               /\ InSynced(w, logfileNumber) => InSynced(w, logfileNumber)'
    BY <1>1, <1>4, <1>3
  <2>2. ASSUME NEW i \in 1..leader.count, leader.step \in {"sync", "insert"}
        PROVE  InLog(writers[i], logfileNumber)'
    <3>1. PICK w : w = writers[i]
      OBVIOUS
    <3>2. InLog(w, logfileNumber)'
      BY <1>0, <1>4, <2>1, <2>2, <3>1 DEF Logged
    <3> QED
      BY <1>4, <3>1, <3>2 DEF InLog
  <2>3. ASSUME NEW i \in 1..leader.count, leader.step = "insert", writers'[i] \in SyncWrites
        PROVE  InSynced(writers[i], logfileNumber)'
    <3>1. PICK w : w = writers[i]
      OBVIOUS
    <3>2. InSynced(w, logfileNumber)'
      BY <1>0, <1>4, <2>1, <2>3, <3>1 DEF Synced
    <3> QED
      BY <1>4, <3>1, <3>2 DEF InSynced
  <2> QED
    BY <1>4, <2>2, <2>3
<1>5. CASE Up /\ AddRecord
  <2>1. PICK n \in BuildBatchGroup :
            LET record(whole) == [writes |-> ToSet(SubSeq(writers, 1, n)), whole |-> whole] IN
            \/ /\ logs' = [logs EXCEPT ![logfileNumber] = Append(@, record(TRUE))]
               /\ leader' = [step |-> IF writers[1] \in SyncWrites THEN "sync" ELSE "insert",
                             count |-> n]
            \/ leader' = [step |-> "failed", count |-> n]
    BY <1>5 DEF AddRecord
  <2>2. UNCHANGED <<writers, logfileNumber, synced>>
    BY <1>5 DEF AddRecord
  <2>3. /\ n \in 0..Len(writers) /\ n \in 1..Len(writers)
        /\ writers[1] \in SyncWrites \/ \A i \in 1..n : writers[i] \notin SyncWrites
    BY <1>0 DEF BuildBatchGroup, WritersOK
  <2> DEFINE r == [writes |-> ToSet(SubSeq(writers, 1, n)), whole |-> TRUE]
  <2>4. r.whole = TRUE /\ r.writes = {writers[i] : i \in 1..n}
    BY <1>0, <2>3, QueueSplits DEF WritersOK
  <2>5. \/ /\ logs' = [logs EXCEPT ![logfileNumber] = Append(@, r)]
           /\ leader' = [step |-> IF writers[1] \in SyncWrites THEN "sync" ELSE "insert",
                         count |-> n]
        \/ leader' = [step |-> "failed", count |-> n]
    BY <2>1
  <2> HIDE DEF r
  <2>6. CASE leader' = [step |-> "failed", count |-> n]
    BY <1>2, <2>6
  <2>7. CASE /\ logs' = [logs EXCEPT ![logfileNumber] = Append(@, r)]
             /\ leader' = [step |-> IF writers[1] \in SyncWrites THEN "sync" ELSE "insert",
                           count |-> n]
    <3>1. logs[logfileNumber] \in Seq(Record) /\ logfileNumber \in DOMAIN logs
      BY <1>0, <1>5 DEF LogsOK, LogInUse
    <3>2. Len(logs[logfileNumber]) \in Nat
      BY <3>1, LenProperties
    <3>3. logs'[logfileNumber] = Append(logs[logfileNumber], r)
      BY <2>7, <3>1
    <3> DEFINE last == Len(logs[logfileNumber]) + 1
    <3>4. last \in 1..Len(logs'[logfileNumber]) /\ logs'[logfileNumber][last] = r
      BY <3>1, <3>2, <3>3
    <3>5. ASSUME NEW i \in 1..n PROVE InLog(writers[i], logfileNumber)'
      BY <1>1, <2>2, <2>4, <3>4 DEF InLog
    <3>6. leader'.count = n
      BY <2>7
    <3>7. leader'.step = "insert" => \A i \in 1..n : writers'[i] \notin SyncWrites
      BY <2>2, <2>3, <2>7
    <3> QED
      BY <3>5, <3>6, <3>7
  <2> QED
    BY <2>5, <2>6, <2>7
<1>6. CASE Up /\ SyncLog
  <2>1. UNCHANGED <<logs, logfileNumber, writers>> /\ leader.step = "sync"
    BY <1>6 DEF SyncLog
  <2>2. \/ /\ synced' = [synced EXCEPT ![logfileNumber] = Len(logs[logfileNumber])]
           /\ leader' = [leader EXCEPT !.step = "insert"]
        \/ leader' = [leader EXCEPT !.step = "syncFailed"]
    BY <1>6 DEF SyncLog
  <2>3. CASE leader' = [leader EXCEPT !.step = "syncFailed"]
    <3>1. leader'.step = "syncFailed"
      BY <1>0, <2>3 DEF WritersOK
    <3> QED
      BY <1>2, <3>1
  <2>4. CASE /\ synced' = [synced EXCEPT ![logfileNumber] = Len(logs[logfileNumber])]
             /\ leader' = [leader EXCEPT !.step = "insert"]
    <3>1. leader'.count = leader.count
      BY <1>0, <2>4 DEF WritersOK
    <3>2. synced'[logfileNumber] = Len(logs[logfileNumber])
      BY <1>0, <1>6, <2>4 DEF LogsOK, LogInUse
    <3>3. \A i \in 1..leader.count : InLog(writers[i], logfileNumber)
      BY <1>0, <1>6, <2>1 DEF Logged
    <3>4. \A i \in 1..leader.count :
            InLog(writers[i], logfileNumber)' /\ InSynced(writers[i], logfileNumber)'
      BY <2>1, <3>2, <3>3 DEF InLog, InSynced
    <3> QED
      BY <3>1, <3>4
  <2> QED
    BY <2>2, <2>3, <2>4
<1>7. CASE Up /\ Write
  <2>1. UNCHANGED <<leader, logfileNumber>> /\ writers' = Append(writers, nextWrite)
    BY <1>7 DEF Write
  <2>2. \A i \in 1..leader.count : writers'[i] = writers[i]
    <3>1. Len(writers) \in Nat /\ leader.count <= Len(writers) /\ leader.count \in Nat
      BY <1>0, LenProperties DEF WritersOK
    <3> QED
      BY <1>0, <2>1, <3>1 DEF WritersOK
  <2> QED
    BY <1>4, <1>7, <2>1, <2>2
<1>8. CASE SwitchMemTable \/ RefuseWrite \/ FinishWrite
  <2>1. leader' = NoLeader
    BY <1>8 DEF SwitchMemTable, RefuseWrite, FinishWrite, MayLead
  <2> QED
    BY <1>2, <2>1 DEF NoLeader
<1>9. CASE Opened
  <2>1. leader' = NoLeader
    BY <1>0, <1>9 DEF Opened, Control, Up, writing
  <2> QED
    BY <1>2, <2>1 DEF NoLeader
<1>10. CASE Up /\ UNCHANGED <<leader, logfileNumber, writers>>
    BY <1>4, <1>10
<1> QED
    BY <1>5, <1>6, <1>7, <1>8, <1>9, <1>10, StepsWhileUp DEF FirstWriter

\* All of Logged is kept.
LEMMA LoggedKept == ASSUME IInv, Works PROVE Logged'
<1>1. Up' => /\ \A w \in mem' : InLog(w, logfileNumber)'
             /\ \A w \in imm' : \E n \in DOMAIN logs' : n >= logNumber' /\ InLog(w, n)'
             /\ manifest'.log <= logNumber' \/ imm' \subseteq Held(DOMAIN manifest.tables)'
             /\ leader'.step \in {"sync", "insert"} =>
                    \A i \in 1..leader'.count : InLog(writers[i], logfileNumber)'
    BY MemIsLogged, ImmIsLogged, ManifestKeepsLogs, GroupIsLogged
<1> QED
    BY <1>1 DEF Logged

\* Whatever happens while the database is not up, a write that was synced is found.
LEMMA SyncedWhileNotUp == ASSUME IInv, Works, ~Up' PROVE MachineFinds'
<1>0. /\ Files /\ Found /\ Files' /\ MachineFinds
    BY NothingIsLost, FilesKept DEF IInv
<1>1. \A w \in acked \cap SyncWrites : KeptSynced(w) \/ BehindTorn(w)
    BY <1>0, RecoverableIs DEF MachineFinds
<1>2. ASSUME acked' \subseteq acked,
             \A w \in acked' : KeptSynced(w) => KeptSynced(w)',
             \A n \in DOMAIN logs : n \in DOMAIN logs' /\ logs'[n] = logs[n]
      PROVE  MachineFinds'
  <2>1. \A w : BehindTorn(w) => BehindTorn(w)'
    BY <1>2 DEF BehindTorn
  <2>2. \A w \in acked' \cap SyncWrites : KeptSynced(w)' \/ BehindTorn(w)'
    BY <1>1, <1>2, <2>1
  <2> QED
    BY <1>0, <2>2, RecoverableIsNext DEF MachineFinds
<1>3. ASSUME \A w \in acked' : KeptSynced(w)' PROVE MachineFinds'
    BY <1>0, <1>3, RecoverableIsNext DEF MachineFinds
<1>4. CASE Closed \/ ProcessCrash
  <2>1. UNCHANGED <<logs, synced, tables, manifest>> /\ acked' \subseteq acked
    BY <1>4 DEF Closed, ProcessCrash, MemoryLost
  <2>2. \A w : KeptSynced(w) => KeptSynced(w)'
    BY <2>1 DEF KeptSynced, Held, ReadLog
  <2> QED
    BY <1>2, <2>1, <2>2
<1>5. CASE MachineCrash
  <2>1. acked' \subseteq Recoverable(Lengths)'
    BY <1>5 DEF MachineCrash, MemoryLost
  <2>2. \A w \in acked' : Kept(w)'
    BY <1>0, <2>1, RecoverableIsNext
  <2>3. \A n \in DOMAIN logs' : Len(logs'[n]) = synced'[n]
    <3>1. /\ DOMAIN logs' = DOMAIN logs
          /\ \A n \in DOMAIN logs : /\ synced'[n] \in synced[n]..Len(logs[n])
                                    /\ logs'[n] = SubSeq(logs[n], 1, synced'[n])
      BY <1>5 DEF MachineCrash
    <3>2. ASSUME NEW n \in DOMAIN logs PROVE Len(logs'[n]) = synced'[n]
      <4>1. logs[n] \in Seq(Record) /\ synced[n] \in 0..Len(logs[n])
        BY TypesParts DEF IInv, LogsOK
      <4>2. synced'[n] \in 0..Len(logs[n])
        BY <3>1, <4>1
      <4>3. \A i \in 1..synced'[n] : logs[n][i] \in Record
        BY <4>1, <4>2, ElementOfSeq
      <4> QED
        BY <3>1, <4>2, <4>3, SubSeqProperties
    <3> QED
      BY <3>1, <3>2
  <2>4. \A w : Kept(w)' => KeptSynced(w)'
    BY <2>3 DEF Kept, KeptSynced
  <2> QED
    BY <1>3, <2>2, <2>4
<1>6. CASE Recover \/ RecoverLogFile \/ NewLog
    BY <1>2, <1>6, OpeningLeaves, OpeningKeeps
<1>7. CASE OpenLogged
    BY <1>3, <1>7, OpenedManifestHolds DEF KeptSynced
<1>8. CASE BackgroundIdle
  <2>1. UNCHANGED <<logs, synced, tables, manifest, acked>>
    BY <1>8 DEF BackgroundIdle, disk, writing
  <2>2. \A w : KeptSynced(w) => KeptSynced(w)'
    BY <2>1 DEF KeptSynced, Held, ReadLog
  <2> QED
    BY <1>2, <2>1, <2>2
<1> QED
    BY <1>4, <1>5, <1>6, <1>7, <1>8, StepsWhileNotUp

\* All of Synced is kept.
LEMMA SyncedKept == ASSUME IInv, Works PROVE Synced'
<1>1. Up' => /\ \A w \in mem' \cap SyncWrites : InSynced(w, logfileNumber)'
             /\ \A w \in imm' \cap SyncWrites :
                    \E n \in DOMAIN logs' : n >= logNumber' /\ InSynced(w, n)'
             /\ leader'.step = "insert" =>
                    \A i \in 1..leader'.count :
                        writers'[i] \in SyncWrites => InSynced(writers[i], logfileNumber)'
    BY MemIsLogged, ImmIsLogged, GroupIsLogged
<1> QED
    BY <1>1, SyncedWhileNotUp DEF Synced

-----------------------------------------------------------------------------
(* The invariant.                                                          *)

\* The invariant holds of the new database,
LEMMA InitInvariant == Init => IInv
<1> SUFFICES ASSUME Init PROVE IInv
  OBVIOUS
<1> USE DEF Init
<1>0. /\ DOMAIN << >> = {} /\ IsVersion(<< >>) /\ NoEdit.added = << >>
      /\ NoCompaction.base = << >> /\ status = "open" /\ Up
      /\ MaxWrites \in Nat /\ MaxFaults \in Nat /\ MaxCrashes \in Nat
    BY LevelDBAssumption DEF IsVersion, NoEdit, NoCompaction, Up
<1>1. Types
  <2>1. LogsOK /\ TablesOK
    BY DEF LogsOK, TablesOK
  <2>2. WritersOK
    BY <1>0 DEF WritersOK, NoLeader, Writes
  <2>3. VersionsOK
    BY <1>0 DEF VersionsOK, IsEdit, NoEdit, Ends
  <2>4. ThreadOK
    <3>1. flush \in Flush /\ faults \in 0..MaxFaults /\ crashes \in 0..MaxCrashes
      BY <1>0 DEF NoFlush, Flush
    <3>2. /\ compaction.step = "none" /\ compaction.base = << >> /\ compaction.inputs = {}
          /\ compaction.output = 0 /\ DOMAIN compaction = {"step", "inputs", "base", "output"}
      BY DEF NoCompaction
    <3> QED
      BY <1>0, <3>1, <3>2 DEF ThreadOK
  <2>5. FlagsOK
    BY Zenon DEF FlagsOK
  <2> QED
    BY <2>1, <2>2, <2>3, <2>4, <2>5, TypesParts
<1>2. Control
    BY <1>0 DEF Control, NoFlush, NoCompaction
<1>3. Agreement
    BY <1>0 DEF Agreement, Installing, NoFlush, NoCompaction
<1>4. Files
    BY <1>0 DEF Files, NeededFilesExist, NoFlush, NoCompaction
<1>5. Numbers
    BY <1>0 DEF Numbers, Applying, Read, NoFlush, NoCompaction, NoEdit
<1>6. Edits /\ Outputs
    BY <1>0 DEF Edits, Outputs, NoFlush, NoCompaction
<1>7. Found
    BY <1>0 DEF Found
<1>8. Logged /\ Synced
    BY <1>0 DEF Logged, Synced, NoLeader
<1> QED
    BY <1>1, <1>2, <1>3, <1>4, <1>5, <1>6, <1>7, <1>8 DEF IInv

\* of the same state when something else takes a step,
LEMMA StutterKeepsInvariant == ASSUME IInv, UNCHANGED vars PROVE IInv'
<1>0. /\ UNCHANGED <<logs, synced, tables, manifest, writers, leader, mem, nextWrite, acked>>
      /\ UNCHANGED <<flush, compaction, edit, scheduled, current, logNumber, nextFile, pending>>
      /\ UNCHANGED <<faults, crashes, status, imm, logfileNumber, readers, bgError, toRecover>>
    BY DEF vars, disk, writing, background, versions, bounds
<1>1. Types'
    BY <1>0 DEF IInv, Types, TypeOK
<1>2. Control' /\ Agreement' /\ Numbers' /\ Edits'
    BY <1>0 DEF IInv, Control, Agreement, Numbers, Edits, Up, Installing, Applying, Read
<1>3. Files' /\ Outputs'
    BY <1>0 DEF IInv, Files, NeededFilesExist, Outputs, Held, Read
<1>4. Lengths' = Lengths
    BY <1>0 DEF Lengths
<1>5. Found'
  <2>1. \A n, len : ReadLog(n, len)' = ReadLog(n, len)
    BY <1>0 DEF ReadLog
  <2> QED
    BY <1>0, <1>4 DEF IInv, Found, Held, Up, Recoverable, ReadLog, Lengths
<1>6. Logged'
    BY <1>0 DEF IInv, Logged, InLog, Held, Up
<1>7. Synced'
    BY <1>0 DEF IInv, Synced, InSynced, Up, MachineFinds, Recoverable, BehindTorn, ReadLog
<1> QED
    BY <1>1, <1>2, <1>3, <1>5, <1>6, <1>7 DEF IInv

\* of the state after every step,
LEMMA WorksKeepsInvariant == ASSUME IInv, Works PROVE IInv'
<1> QED
    BY TypesKept, ControlKept, AgreementKept, FilesKept, NumbersKept, EditsKept, OutputsKept,
       FoundKept, LoggedKept, SyncedKept DEF IInv

\* and so always.
LEMMA Invariance == Spec => []IInv
<1>1. IInv /\ [Next]_vars => IInv'
    BY WorksKeepsInvariant, StutterKeepsInvariant DEF Next, OpenFails
<1> QED
    BY <1>1, InitInvariant, PTL DEF Spec

-----------------------------------------------------------------------------
(* Theorems.                                                               *)

\* All variables keep their types.
THEOREM TypeCorrect == Spec => []TypeOK
<1>1. IInv => TypeOK
    BY DEF IInv, Types
<1> QED
    BY <1>1, Invariance, PTL

\* DeleteObsoleteFiles never takes a file that the current version, a read, a
\* compaction, the manifest or an output being written still needs.
THEOREM NeededFilesAlwaysExist == Spec => []NeededFilesExist
<1>1. IInv => NeededFilesExist
    BY DEF IInv, Files
<1> QED
    BY <1>1, Invariance, PTL

\* NewFileNumber never gives out the number of a table in use or of a log, also
\* after a crash, when the manifest may be older than the logs.
THEOREM NumbersAlwaysFresh == Spec => []NumbersFresh
<1>1. IInv => NumbersFresh
    BY NumbersAreFresh DEF IInv
<1> QED
    BY <1>1, Invariance, PTL

\* Get finds every write that Write has reported done, in mem_, imm_ or the current
\* version, while a flush or a compaction moves it.
THEOREM ReadsAlwaysFindWrites == Spec => []ReadsFindWrites
<1>1. IInv => ReadsFindWrites
    BY DEF IInv, Found, ReadsFindWrites, Up, Held
<1> QED
    BY <1>1, Invariance, PTL

\* The process may die in any state, any number of times, with the writers, a flush and
\* a compaction anywhere in their steps: DB::Open finds every write reported done
\* again, but for one behind a log record whose append failed, and unless a compaction
\* went on behind a manifest record whose append failed.
THEOREM ProcessAlwaysMayDie == Spec => []ProcessMayDie
<1>1. IInv => ProcessMayDie
    BY NothingIsLost DEF IInv, ProcessFinds, ProcessMayDie
<1> QED
    BY <1>1, Invariance, PTL

\* The machine may die in any state, whatever part of the logs past the last sync is
\* cut off: DB::Open finds every write reported done with sync again, but for the same
\* two failures.
THEOREM MachineAlwaysMayDie == Spec => []MachineMayDie
<1>1. IInv => MachineMayDie
    BY NothingIsLost DEF IInv, MachineFinds, MachineMayDie
<1> QED
    BY <1>1, Invariance, PTL
=============================================================================
