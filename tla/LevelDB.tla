------------------------------ MODULE LevelDB -------------------------------
(***************************************************************************)
(* The life of writes and files in the storage library of the database     *)
(* pods: DBImpl with its VersionSet.  Writers queue up and the first one   *)
(* logs for the group behind it with the mutex released; one background    *)
(* thread turns full memtables and tables into tables and deletes files;   *)
(* readers pin the version they read; the process or the machine crashes   *)
(* and the database is opened again.                                       *)
(*                                                                         *)
(* A write stands for its key and value, each of its own key, so merging   *)
(* tables drops nothing.  Levels above 0 are one level.  The records of    *)
(* the manifest are summed up in what they say together and in how the     *)
(* file ends, for a failed append leaves part of a record or a shift of    *)
(* all that follows; a manifest that is damaged ends the history.  A log   *)
(* becomes one table however long it is.  A file that is synced is taken   *)
(* to be in its directory.                                                 *)
(***************************************************************************)
EXTENDS SequencesExt, Naturals

CONSTANTS
    MaxWrites,          \* bound: writes in the history
    SyncWrites,         \* those among them that ask for a sync
    BufferSize,         \* writes a memtable holds (write_buffer_size)
    CompactionTrigger,  \* level-0 tables that call for a compaction
    StopTrigger,        \* level-0 tables that stop the writers
    MaxFaults,          \* bound: failed operations on files
    MaxCrashes,         \* bound: times the database goes down, closed or crashed
    MaxTroubles,        \* bound: both together
    MaxReaders          \* bound: versions held by reads under way

ASSUME LevelDBAssumption ==
    /\ MaxWrites \in Nat /\ MaxFaults \in Nat
    /\ MaxCrashes \in Nat /\ MaxTroubles \in Nat /\ MaxReaders \in Nat
    /\ BufferSize \in Nat \ {0} /\ CompactionTrigger \in Nat \ {0}
    /\ StopTrigger \in Nat /\ CompactionTrigger <= StopTrigger
    /\ SyncWrites \subseteq 1..MaxWrites

VARIABLES
    logs,           \* disk: the records of each log file
    synced,         \* disk: how many of them would survive the machine
    tables,         \* disk: the writes in each table file
    manifest,       \* disk: tables and their levels, log number, next number, and
                    \* how the file ends
    status,         \* the database, from DB::Open to its destructor
    writers,        \* writers_
    leader,         \* what its first writer does, and for how many
    mem,
    imm,            \* {} for none
    logfileNumber,
    current,        \* the current version: its tables and their levels
    readers,        \* versions held by reads under way
    logNumber,
    nextFile,
    pending,        \* pending_outputs_
    flush,          \* CompactMemTable under way, and the table it writes
    compaction,     \* compaction under way: its inputs, input version, output
    edit,           \* what LogAndApply is to install
    scheduled,      \* background_compaction_scheduled_
    bgError,
    toRecover,      \* logs DB::Open has still to read
    nextWrite,      \* history: the next write
    acked,          \* history: writes reported done that no crash may have lost
    faults, crashes

disk == <<logs, synced, tables, manifest>>
writing == <<writers, leader, mem, nextWrite, acked>>
background == <<flush, compaction, edit, scheduled>>
versions == <<current, logNumber, nextFile, pending>>
bounds == <<faults, crashes>>

vars == <<disk, writing, background, versions, bounds, status, imm, logfileNumber,
          readers, bgError, toRecover>>

Writes == 1..MaxWrites

Record == [writes : SUBSET Writes, whole : BOOLEAN]

\* The manifest ends with whole records; or part of a record or nothing is where the
\* writer counts a whole one; or it has a record that no reader gets to.
Ends == {"whole", "torn", "damaged"}

IsVersion(v) == DOMAIN v \subseteq Nat /\ \A t \in DOMAIN v : v[t] \in {0, 1}

IsEdit(e) ==
    IsVersion(e.added) /\ e.deleted \subseteq Nat /\ e.log \in Nat /\ e.next \in Nat

Flush == [step : {"none", "build", "apply", "install"}, table : Nat]

NoFlush == [step |-> "none", table |-> 0]

NoCompaction == [step |-> "none", inputs |-> {}, base |-> << >>, output |-> 0]

NoEdit == [added |-> << >>, deleted |-> {}, log |-> 0, next |-> 0]

NoLeader == [step |-> "none", count |-> 0]

TypeOK ==
    /\ DOMAIN logs \subseteq Nat /\ DOMAIN synced = DOMAIN logs
    /\ \A n \in DOMAIN logs : logs[n] \in Seq(Record) /\ synced[n] \in 0..Len(logs[n])
    /\ DOMAIN tables \subseteq Nat
    /\ \A t \in DOMAIN tables : tables[t] \subseteq Writes
    /\ IsVersion(manifest.tables) /\ manifest.log \in Nat /\ manifest.next \in Nat
    /\ manifest.end \in Ends
    /\ status \in {"down", "recovering", "logging", "installing", "open", "closing"}
    /\ writers \in Seq(Writes)
    /\ leader.step \in {"none", "sync", "insert", "failed", "syncFailed"}
    /\ leader.count \in 0..Len(writers)
    /\ mem \subseteq Writes /\ imm \subseteq Writes
    /\ logfileNumber \in Nat
    /\ IsVersion(current) /\ (\A v \in readers : IsVersion(v))
    /\ logNumber \in Nat
    /\ nextFile \in Nat
    /\ pending \subseteq Nat
    /\ flush \in Flush
    /\ compaction.step \in {"none", "work", "output", "apply", "install"}
    /\ IsVersion(compaction.base) /\ compaction.inputs \subseteq DOMAIN compaction.base
    /\ compaction.output \in Nat
    /\ IsEdit(edit)
    /\ scheduled \in BOOLEAN /\ bgError \in BOOLEAN
    /\ toRecover \subseteq Nat
    /\ nextWrite \in 1..(MaxWrites + 1)
    /\ acked \subseteq 1..(nextWrite - 1)
    /\ faults \in 0..MaxFaults /\ crashes \in 0..MaxCrashes

\* A database that was created before and is empty, with the log its manifest names.
Init ==
    /\ logs = [n \in {1} |-> << >>] /\ synced = [n \in {1} |-> 0]
    /\ tables = << >>
    /\ manifest = [tables |-> << >>, log |-> 1, next |-> 2, end |-> "whole"]
    /\ status = "open"
    /\ writers = << >> /\ leader = NoLeader
    /\ mem = {} /\ imm = {}
    /\ logfileNumber = 1 /\ logNumber = 1 /\ nextFile = 2
    /\ current = << >> /\ readers = {} /\ pending = {}
    /\ flush = NoFlush /\ compaction = NoCompaction /\ edit = NoEdit
    /\ scheduled = FALSE /\ bgError = FALSE
    /\ toRecover = {}
    /\ nextWrite = 1 /\ acked = {}
    /\ faults = 0 /\ crashes = 0

-----------------------------------------------------------------------------
(* Helpers.                                                                *)

Fault ==
    faults < MaxFaults /\ faults + crashes < MaxTroubles /\ faults' = faults + 1

NewFileNumber == nextFile' = nextFile + 1

Without(f, S) == [x \in DOMAIN f \ S |-> f[x]]

With(f, x, value) == [y \in DOMAIN f \cup {x} |-> IF y = x THEN value ELSE f[y]]

Level0(v) == Cardinality({t \in DOMAIN v : v[t] = 0})

NeedsCompaction(v) == Level0(v) >= CompactionTrigger

\* The memtable to be written out is overlooked.
WorkOnTables(im, v, error) == status = "open" /\ ~error /\ NeedsCompaction(v)

\* Whether MaybeScheduleCompaction finds work to schedule.
WorkToDo(im, v, error) ==
    status = "open" /\ ~error /\ (im # {} \/ NeedsCompaction(v))

\* AddLiveFiles and the pending outputs: v is current, base the version a
\* compaction holds, out the outputs still being written.
Live(v, base, out) ==
    out \cup DOMAIN v \cup DOMAIN base \cup UNION {DOMAIN r : r \in readers}

\* All tables of no version are deleted, those still being written too.
DeleteAllObsolete(v, base, out, log, error) ==
    IF error
    THEN UNCHANGED <<logs, synced, tables>>
    ELSE /\ logs' = Without(logs, {n \in DOMAIN logs : n < log})
         /\ synced' = Without(synced, {n \in DOMAIN synced : n < log})
         /\ tables' = Without(tables, DOMAIN tables \ Live(v, base, {}))

\* Files nobody needs go, unless after an error nobody can tell which they are.
DeleteObsoleteFiles(v, base, out, log, error) ==
    IF error
    THEN UNCHANGED <<logs, synced, tables>>
    ELSE /\ logs' = Without(logs, {n \in DOMAIN logs : n < log})
         /\ synced' = Without(synced, {n \in DOMAIN synced : n < log})
         /\ tables' = Without(tables, DOMAIN tables \ Live(v, base, out))

\* The edit LogAndApply is about to write, with the mutex released.
LogAndApply(added, deleted, log) ==
    edit' = [added |-> added, deleted |-> deleted, log |-> log, next |-> nextFile]

\* A version and an edit make the next version.
Apply(v, e) ==
    [t \in DOMAIN e.added \cup (DOMAIN v \ e.deleted) |->
        IF t \in DOMAIN e.added THEN e.added[t] ELSE v[t]]

\* What the reader of a log is sure to find in its first len records: behind one
\* that is not whole it may drop what is there.
ReadLog(n, len) ==
    UNION {logs[n][i].writes :
            i \in {j \in 1..len : \A k \in 1..j : logs[n][k].whole}}

\* What it may find: behind a record that is not whole it comes upon those that begin
\* at a block of its own, or that nothing shifted over the end of one.
MayBeFound(n) ==
    LET behind ==
            {i \in DOMAIN logs[n] : logs[n][i].whole /\ \E j \in 1..(i - 1) : ~logs[n][j].whole}
    IN {ReadLog(n, Len(logs[n])) \cup UNION {logs[n][i].writes : i \in S} :
            S \in SUBSET behind}

\* What opening the database is sure to find if the logs were cut to these lengths.
Recoverable(length) ==
    (UNION {tables[t] : t \in DOMAIN manifest.tables \cap DOMAIN tables})
        \cup UNION {ReadLog(n, length[n]) : n \in {m \in DOMAIN logs : m >= manifest.log}}

Lengths == [n \in DOMAIN logs |-> Len(logs[n])]

-----------------------------------------------------------------------------
(* Writers.                                                                *)

\* A call of Write joins the queue.
Write ==
    /\ status = "open"
    /\ nextWrite <= MaxWrites
    /\ writers' = Append(writers, nextWrite)
    /\ nextWrite' = nextWrite + 1
    /\ UNCHANGED <<disk, leader, mem, acked, background, versions, bounds, status, imm,
                   logfileNumber, readers, bgError, toRecover>>

\* The first writer has the mutex and has not begun.
MayLead == writers # << >> /\ leader = NoLeader

Full == Cardinality(mem) >= BufferSize

\* MakeRoomForWrite starts a new log and memtable; it waits while the last full
\* memtable is there or level 0 has too many tables.
SwitchMemTable ==
    /\ MayLead /\ ~bgError /\ Full
    /\ imm = {} /\ Level0(current) < StopTrigger
    /\ NewFileNumber
    /\ logs' = With(logs, nextFile, << >>)
    /\ synced' = With(synced, nextFile, 0)
    /\ logfileNumber' = nextFile
    /\ imm' = mem
    /\ mem' = {}
    /\ scheduled' = (scheduled \/ WorkToDo(imm', current, bgError))
    /\ UNCHANGED <<tables, manifest, writers, leader, nextWrite, acked, flush,
                   compaction, edit, current, logNumber, pending, bounds, status,
                   readers, bgError, toRecover>>

\* The first writer is refused: after a background error, or because the new
\* log could not be created.
RefuseWrite ==
    /\ MayLead
    /\ \/ bgError /\ UNCHANGED faults
       \/ ~bgError /\ Full /\ imm = {} /\ Level0(current) < StopTrigger /\ Fault
    /\ writers' = Tail(writers)
    /\ UNCHANGED <<disk, leader, mem, nextWrite, acked, background, versions,
                   crashes, status, imm, logfileNumber, readers, bgError, toRecover>>

\* How many writers the group of the first one may have, whatever they want.
BuildAnyGroup == 1..Len(writers)

\* How many writers the group of the first one may have, by the size of their
\* batches: one that wants a sync is not led by one that does not.
BuildBatchGroup ==
    {n \in 1..Len(writers) :
        writers[1] \in SyncWrites \/ \A i \in 1..n : writers[i] \notin SyncWrites}

\* The first writer adds the group's record to the log.  If that fails, part of the
\* record or nothing is there, and the writer goes on as if all of it were.
AddRecord ==
    /\ MayLead /\ ~bgError /\ ~Full
    /\ \E n \in BuildBatchGroup :
        LET record(whole) == [writes |-> ToSet(SubSeq(writers, 1, n)), whole |-> whole] IN
        \/ /\ logs' = [logs EXCEPT ![logfileNumber] = Append(@, record(TRUE))]
           /\ leader' = [step |-> IF writers[1] \in SyncWrites THEN "sync" ELSE "insert",
                         count |-> n]
           /\ UNCHANGED faults
        \/ /\ Fault
           /\ logs' = [logs EXCEPT ![logfileNumber] = Append(@, record(FALSE))]
           /\ leader' = [step |-> "failed", count |-> n]
    /\ UNCHANGED <<synced, tables, manifest, writers, mem, nextWrite, acked,
                   background, versions, crashes, status, imm, logfileNumber, readers,
                   bgError, toRecover>>

\* It syncs the log for a group that wants it; if that fails, no one knows how
\* much of the log is safe.
SyncLog ==
    /\ leader.step = "sync"
    /\ \/ /\ synced' = [synced EXCEPT ![logfileNumber] = Len(logs[logfileNumber])]
          /\ leader' = [leader EXCEPT !.step = "insert"]
          /\ UNCHANGED faults
       \/ /\ Fault
          /\ leader' = [leader EXCEPT !.step = "syncFailed"]
          /\ UNCHANGED synced
    /\ UNCHANGED <<logs, tables, manifest, writers, mem, nextWrite, acked,
                   background, versions, crashes, status, imm, logfileNumber, readers,
                   bgError, toRecover>>

\* It puts the group into the memtable and answers all of it; a failed sync
\* stops all later writes, a failed append does not.
FinishWrite ==
    LET group == ToSet(SubSeq(writers, 1, leader.count)) IN
    /\ leader.step \in {"insert", "failed", "syncFailed"}
    /\ IF leader.step = "insert"
       THEN mem' = mem \cup group /\ acked' = acked \cup group
       ELSE UNCHANGED <<mem, acked>>
    /\ bgError' = (bgError \/ leader.step = "syncFailed")
    /\ writers' = SubSeq(writers, leader.count + 1, Len(writers))
    /\ leader' = NoLeader
    /\ UNCHANGED <<disk, nextWrite, background, versions, bounds, status, imm,
                   logfileNumber, readers, toRecover>>

-----------------------------------------------------------------------------
(* The background thread.                                                  *)

\* A call of BackgroundCall ends: a flush within a compaction does not end one.
Reschedule(im, v, error) ==
    scheduled' = IF compaction'.step # "none" THEN scheduled ELSE WorkToDo(im, v, error)

\* BackgroundCall finds nothing to do.
BackgroundIdle ==
    /\ scheduled /\ flush = NoFlush /\ compaction = NoCompaction
    /\ status = "closing" \/ bgError \/ (imm = {} /\ ~NeedsCompaction(current))
    /\ scheduled' = FALSE
    /\ UNCHANGED <<disk, writing, flush, compaction, edit, versions, bounds, status, imm,
                   logfileNumber, readers, bgError, toRecover>>

\* BackgroundCall goes to work.
MayWork == scheduled /\ flush = NoFlush /\ compaction = NoCompaction /\ status = "open" /\ ~bgError

\* A compaction looks at what else there is to do between two keys.
MayInterrupt == flush = NoFlush /\ compaction.step \in {"work", "output"} /\ status = "open"

\* CompactMemTable, in WriteLevel0Table until the mutex is released.
CompactMemTable ==
    /\ imm # {}
    /\ MayWork \/ MayInterrupt
    /\ NewFileNumber
    /\ pending' = pending \cup {nextFile}
    /\ tables' = With(tables, nextFile, imm)
    /\ flush' = [step |-> "build", table |-> nextFile]
    /\ UNCHANGED <<logs, synced, manifest, writing, compaction, edit, scheduled, current,
                   logNumber, bounds, status, imm, logfileNumber, readers, bgError,
                   toRecover>>

\* An error ends the flush and stops all that is not under way.
FlushFails ==
    /\ flush' = NoFlush
    /\ bgError' = TRUE
    /\ edit' = NoEdit
    /\ UNCHANGED compaction
    /\ Reschedule(imm, current, TRUE)

\* The table is on disk, at some level, and the edit drops the logs before the
\* one in use now.
WriteLevel0Table ==
    /\ flush.step = "build"
    /\ pending' = pending \ {flush.table}
    /\ \/ /\ status = "open"
          /\ flush' = [flush EXCEPT !.step = "apply"]
          /\ \E level \in {0, 1} :
                LogAndApply([t \in {flush.table} |-> level], {}, logfileNumber)
          /\ UNCHANGED <<compaction, scheduled, bgError, tables, faults>>
       \/ /\ status = "closing"
          /\ FlushFails
          /\ UNCHANGED <<tables, faults>>
       \/ /\ Fault
          /\ tables' = Without(tables, {flush.table})
          /\ FlushFails
    /\ UNCHANGED <<logs, synced, manifest, writing, current, logNumber, nextFile, crashes,
                   status, imm, logfileNumber, readers, toRecover>>

\* How the manifest ends with a further record.  Behind part of one no reader gets to
\* it; where nothing is, it is read until one lies across the reader's blocks.
EndAfterRecord(end) ==
    CASE end = "whole" -> {"whole"}
      [] end = "torn" -> {"torn", "damaged"}
      [] OTHER -> {"damaged"}

\* LogAndApply's record is in the manifest, and is there too if only the sync fails;
\* a failed append leaves part of it or nothing.
WriteManifest(outcome) ==
    LET Recorded ==
            \E end \in EndAfterRecord(manifest.end) :
                manifest' = [tables |-> Apply(manifest.tables, edit), log |-> edit.log,
                             next |-> edit.next, end |-> end]
    IN
    \/ outcome = "install" /\ Recorded /\ UNCHANGED faults
    \/ /\ outcome = "failed"
       /\ Fault
       /\ \/ Recorded
          \/ manifest' = [manifest EXCEPT !.end = IF @ = "whole" THEN "torn" ELSE @]

\* The memtable is given up as soon as the manifest names its table.
FlushLoggedEarly ==
    /\ flush.step = "apply"
    /\ \/ /\ WriteManifest("install")
          /\ flush' = [flush EXCEPT !.step = "install"]
          /\ imm' = {}
          /\ UNCHANGED <<compaction, edit, scheduled, bgError>>
       \/ WriteManifest("failed") /\ FlushFails /\ UNCHANGED imm
    /\ UNCHANGED <<logs, synced, tables, writing, versions, crashes, status,
                   logfileNumber, readers, toRecover>>

FlushLogged ==
    /\ flush.step = "apply"
    /\ \/ /\ WriteManifest("install")
          /\ flush' = [flush EXCEPT !.step = "install"]
          /\ UNCHANGED <<compaction, edit, scheduled, bgError>>
       \/ WriteManifest("failed") /\ FlushFails
    /\ UNCHANGED <<logs, synced, tables, writing, versions, crashes, status, imm,
                   logfileNumber, readers, toRecover>>

\* The version and log number are installed and the memtable is given up.
FlushInstalled ==
    /\ flush.step = "install"
    /\ current' = Apply(current, edit)
    /\ logNumber' = edit.log
    /\ imm' = {}
    /\ DeleteObsoleteFiles(current', compaction.base, pending, edit.log, bgError)
    /\ flush' = NoFlush
    /\ edit' = NoEdit
    /\ UNCHANGED compaction
    /\ Reschedule({}, current', bgError)
    /\ UNCHANGED <<manifest, writing, nextFile, pending, bounds, status, logfileNumber,
                   readers, bgError, toRecover>>

\* The inputs a compaction of level 0 may have: a table that overlaps no other, or
\* all of them.
PickCompaction(v) ==
    {S \in {{t} : t \in DOMAIN v} \cup {DOMAIN v} : \E t \in S : v[t] = 0}

\* The version of the inputs is not held.
StartUnheld ==
    /\ MayWork /\ imm = {} /\ NeedsCompaction(current)
    /\ \E S \in PickCompaction(current) :
        compaction' = [step |-> "work", inputs |-> S, base |-> << >>, output |-> 0]
    /\ UNCHANGED <<disk, writing, flush, edit, scheduled, versions, bounds, status, imm,
                   logfileNumber, readers, bgError, toRecover>>

\* BackgroundCompaction without a memtable to write out.  A single table may just be
\* moved down.
StartCompaction ==
    /\ MayWork /\ imm = {} /\ NeedsCompaction(current)
    /\ \E S \in PickCompaction(current) :
        \/ /\ compaction' = [step |-> "work", inputs |-> S, base |-> current, output |-> 0]
           /\ UNCHANGED edit
        \/ /\ Cardinality(S) = 1
           /\ compaction' = [step |-> "apply", inputs |-> S, base |-> current, output |-> 0]
           /\ LogAndApply([t \in S |-> 1], S, logNumber)
    /\ UNCHANGED <<disk, writing, flush, scheduled, versions, bounds, status, imm,
                   logfileNumber, readers, bgError, toRecover>>

\* The file of the output is made while memtables are still flushed.
OpenCompactionOutputFile ==
    /\ compaction.step = "work" /\ flush = NoFlush /\ status = "open"
    /\ NewFileNumber
    /\ pending' = pending \cup {nextFile}
    /\ tables' = With(tables, nextFile, UNION {tables[t] : t \in compaction.inputs})
    /\ compaction' = [compaction EXCEPT !.step = "output", !.output = nextFile]
    /\ UNCHANGED <<logs, synced, manifest, writing, flush, edit, scheduled, current,
                   logNumber, bounds, status, imm, logfileNumber, readers, bgError,
                   toRecover>>

\* CleanupCompaction, ReleaseInputs and, unless a table was just moved,
\* DeleteObsoleteFiles; BackgroundCall ends.
EndCompaction(v, log, error) ==
    /\ compaction' = NoCompaction
    /\ pending' = pending \ {compaction.output}
    /\ edit' = NoEdit
    /\ bgError' = error
    /\ IF compaction.output = 0
       THEN UNCHANGED <<logs, synced, tables>>
       ELSE DeleteObsoleteFiles(v, << >>, pending', log, error)
    /\ Reschedule(imm, v, error)

\* The output takes the place of the inputs, and of the logs before the one in use.
InstallAndDropLogs ==
    /\ compaction.step = "output" /\ flush = NoFlush /\ status = "open"
    /\ compaction' = [compaction EXCEPT !.step = "apply"]
    /\ LogAndApply([t \in {compaction.output} |-> 1], compaction.inputs, logfileNumber)
    /\ UNCHANGED <<disk, writing, flush, scheduled, versions, bounds, status, imm,
                   logfileNumber, readers, bgError, toRecover>>

\* InstallCompactionResults: the output takes the place of the inputs.
InstallCompactionResults ==
    /\ compaction.step = "output" /\ flush = NoFlush /\ status = "open"
    /\ compaction' = [compaction EXCEPT !.step = "apply"]
    /\ LogAndApply([t \in {compaction.output} |-> 1], compaction.inputs, logNumber)
    /\ UNCHANGED <<disk, writing, flush, scheduled, versions, bounds, status, imm,
                   logfileNumber, readers, bgError, toRecover>>

\* A file fails or the database is being closed.
CompactionFails ==
    /\ compaction.step \in {"work", "output"} /\ flush = NoFlush
    /\ (status = "closing" /\ UNCHANGED faults) \/ Fault
    /\ EndCompaction(current, logNumber, TRUE)
    /\ UNCHANGED <<manifest, writing, flush, current, logNumber, nextFile, crashes, status,
                   imm, logfileNumber, readers, toRecover>>

CompactionLogged ==
    /\ compaction.step = "apply"
    /\ \/ /\ WriteManifest("install")
          /\ compaction' = [compaction EXCEPT !.step = "install"]
          /\ UNCHANGED <<logs, synced, tables, pending, edit, bgError, scheduled>>
       \/ WriteManifest("failed") /\ EndCompaction(current, logNumber, TRUE)
    /\ UNCHANGED <<writing, flush, current, logNumber, nextFile, crashes, status, imm,
                   logfileNumber, readers, toRecover>>

CompactionInstalled ==
    /\ compaction.step = "install"
    /\ current' = Apply(current, edit)
    /\ logNumber' = edit.log
    /\ EndCompaction(current', edit.log, bgError)
    /\ UNCHANGED <<manifest, writing, flush, nextFile, bounds, status, imm, logfileNumber,
                   readers, toRecover>>

-----------------------------------------------------------------------------
(* Readers.                                                                *)

\* Get or NewIterator takes hold of the current version; the tables are read
\* without the mutex.
ReadBegins ==
    /\ status = "open"
    /\ Cardinality(readers) < MaxReaders
    /\ readers' = readers \cup {current}
    /\ UNCHANGED <<disk, writing, background, versions, bounds, status, imm,
                   logfileNumber, bgError, toRecover>>

ReadEnds ==
    /\ \E v \in readers : readers' = readers \ {v}
    /\ UNCHANGED <<disk, writing, background, versions, bounds, status, imm,
                   logfileNumber, bgError, toRecover>>

-----------------------------------------------------------------------------
(* Closing, crashing and opening.                                          *)

\* The database goes down, within the bounds.
GoesDown ==
    crashes < MaxCrashes /\ faults + crashes < MaxTroubles /\ crashes' = crashes + 1

\* The destructor waits for the background thread; its caller has no call under way.
Close ==
    /\ status = "open" /\ writers = << >> /\ readers = {}
    /\ GoesDown
    /\ status' = "closing"
    /\ UNCHANGED <<disk, writing, background, versions, faults, imm, logfileNumber,
                   readers, bgError, toRecover>>

\* Nothing is left but the files.
MemoryLost ==
    /\ UNCHANGED <<tables, manifest, nextWrite, faults>>
    /\ status' = "down"
    /\ writers' = << >> /\ leader' = NoLeader
    /\ mem' = {} /\ imm' = {}
    /\ current' = << >> /\ readers' = {} /\ pending' = {}
    /\ logfileNumber' = 0 /\ logNumber' = 0 /\ nextFile' = 0
    /\ flush' = NoFlush /\ compaction' = NoCompaction /\ edit' = NoEdit
    /\ scheduled' = FALSE /\ bgError' = FALSE
    /\ toRecover' = {}
    /\ acked' = IF manifest.end = "damaged" THEN {} ELSE acked \cap Recoverable(Lengths)'

Closed ==
    /\ status = "closing" /\ ~scheduled
    /\ UNCHANGED <<logs, synced, crashes>>
    /\ MemoryLost

\* The process dies; the operating system keeps what was written to files.
ProcessCrash ==
    /\ status # "down" /\ GoesDown
    /\ UNCHANGED <<logs, synced>>
    /\ MemoryLost

\* The machine dies: what was not synced of each log may be cut off.
MachineCrash ==
    /\ status # "down" /\ GoesDown
    /\ synced' \in {cut \in [DOMAIN logs -> 0..MaxWrites] :
                        \A n \in DOMAIN logs : cut[n] \in synced[n]..Len(logs[n])}
    /\ logs' = [n \in DOMAIN logs |-> SubSeq(logs[n], 1, synced'[n])]
    /\ MemoryLost

\* The numbers of existing logs are not marked as used.
MarkNone(next, used) == next

MarkFileNumberUsed(next, used) == IF next <= used THEN used + 1 ELSE next

\* DB::Open reads the manifest, whose last part record it passes over, and looks for
\* the logs it must read.
Recover ==
    /\ status = "down"
    /\ manifest.end # "damaged"
    /\ DOMAIN manifest.tables \subseteq DOMAIN tables
    /\ status' = "recovering"
    /\ current' = manifest.tables
    /\ logNumber' = manifest.log
    /\ nextFile' = manifest.next + 1
    /\ edit' = NoEdit
    /\ toRecover' = {n \in DOMAIN logs : n >= manifest.log}
    /\ UNCHANGED <<disk, writing, pending, flush, compaction, scheduled, bounds, imm,
                   logfileNumber, readers, bgError>>

\* A damaged manifest is an error, or part of it is passed over without one and files
\* are missing: the database stays down.
OpenFails == status = "down" /\ manifest.end = "damaged" /\ UNCHANGED vars

\* The oldest log left becomes a table.
RecoverLogFile ==
    /\ status = "recovering" /\ toRecover # {}
    /\ LET n == Min(toRecover) IN
       /\ toRecover' = toRecover \ {n}
       /\ \E found \in MayBeFound(n) :
             IF found = {}
             THEN /\ nextFile' = MarkFileNumberUsed(nextFile, n)
                  /\ UNCHANGED <<tables, edit>>
             ELSE /\ tables' = With(tables, nextFile, found)
                  /\ edit' = [edit EXCEPT !.added = With(@, nextFile, 0)]
                  /\ nextFile' = MarkFileNumberUsed(nextFile + 1, n)
    /\ UNCHANGED <<logs, synced, manifest, writing, flush, compaction, scheduled, current,
                   logNumber, pending, bounds, status, imm, logfileNumber, readers, bgError>>

\* A new log, which takes the place of a file of that name.
NewLog ==
    /\ status = "recovering" /\ toRecover = {}
    /\ logs' = With(logs, nextFile, << >>)
    /\ synced' = With(synced, nextFile, 0)
    /\ logfileNumber' = nextFile
    /\ nextFile' = nextFile + 1
    /\ edit' = [edit EXCEPT !.log = nextFile, !.next = nextFile + 1]
    /\ status' = "logging"
    /\ UNCHANGED <<tables, manifest, writing, flush, compaction, scheduled, current,
                   logNumber, pending, bounds, imm, readers, bgError, toRecover>>

\* A new manifest, with a record of what the old one said, and CURRENT names it.
OpenLogged ==
    /\ status = "logging"
    /\ manifest' = [tables |-> Apply(manifest.tables, edit), log |-> edit.log,
                    next |-> edit.next, end |-> "whole"]
    /\ status' = "installing"
    /\ UNCHANGED <<logs, synced, tables, writing, background, versions, bounds, imm,
                   logfileNumber, readers, bgError, toRecover>>

Opened ==
    /\ status = "installing"
    /\ current' = Apply(current, edit)
    /\ logNumber' = edit.log
    /\ edit' = NoEdit
    /\ DeleteObsoleteFiles(current', << >>, {}, edit.log, FALSE)
    /\ status' = "open"
    /\ scheduled' = NeedsCompaction(current')
    /\ UNCHANGED <<manifest, writing, flush, compaction, nextFile, pending, bounds, imm,
                   logfileNumber, readers, bgError, toRecover>>

-----------------------------------------------------------------------------

FirstWriter == SwitchMemTable \/ RefuseWrite \/ AddRecord \/ SyncLog \/ FinishWrite

Background ==
    \/ BackgroundIdle
    \/ CompactMemTable \/ WriteLevel0Table \/ FlushLogged \/ FlushInstalled
    \/ StartCompaction \/ OpenCompactionOutputFile \/ InstallCompactionResults
    \/ CompactionFails \/ CompactionLogged \/ CompactionInstalled

\* All steps but one that leaves everything as it was.
Works ==
    \/ Write
    \/ FirstWriter
    \/ Background
    \/ ReadBegins \/ ReadEnds
    \/ Close \/ Closed \/ ProcessCrash \/ MachineCrash
    \/ Recover \/ RecoverLogFile \/ NewLog \/ OpenLogged \/ Opened

Next == Works \/ OpenFails

Spec == Init /\ [][Next]_vars

\* The first writer and the background thread run on.
FairSpec == Spec /\ WF_vars(FirstWriter) /\ WF_vars(Background)

-----------------------------------------------------------------------------
(* Properties.                                                             *)

\* Write w is behind a log record whose append failed.
BehindTorn(w) ==
    \E n \in DOMAIN logs : \E i, j \in DOMAIN logs[n] :
        i < j /\ ~logs[n][i].whole /\ w \in logs[n][j].writes

\* Whatever the writers, the flush and the compaction are doing: if the process
\* dies now, every write reported done is found again in the tables of the
\* manifest or in a log it does not pass over.  Two failures the code leaves open:
\* a write behind a failed append to its log, and an edit of a compaction that went
\* on behind a failed append to the manifest.
ProcessMayDie ==
    manifest.end # "damaged" => \A w \in acked : w \in Recoverable(Lengths) \/ BehindTorn(w)

\* If the machine dies now, every write reported done with sync is found again,
\* in a group or alone, before and after its memtable is written out, but for the
\* same two failures.
MachineMayDie ==
    manifest.end # "damaged" =>
        \A w \in acked \cap SyncWrites : w \in Recoverable(synced) \/ BehindTorn(w)

\* A read that begins now finds every write reported done: none is for a moment
\* in neither the memtables nor the tables of the current version.
ReadsFindWrites ==
    status \in {"open", "closing"} =>
        acked \subseteq mem \cup imm \cup UNION {tables[t] : t \in DOMAIN current}

\* No file that is still needed is deleted: by the current version, by a read
\* under way, by a compaction for its inputs, by the manifest, by the flush.
NeededFilesExist ==
    /\ DOMAIN current \cup DOMAIN compaction.base \cup (UNION {DOMAIN v : v \in readers})
            \cup DOMAIN manifest.tables \cup DOMAIN edit.added \cup pending
        \subseteq DOMAIN tables
    /\ status \in {"open", "closing"} => logfileNumber \in DOMAIN logs

\* A number given out now belongs to no table in use and to no log, so that
\* creating a file never empties one that is needed.
NumbersFresh ==
    status \in {"logging", "installing", "open", "closing"} =>
        \A n \in DOMAIN manifest.tables \cup DOMAIN current \cup pending \cup DOMAIN logs :
            n < nextFile

\* Every call of Write returns, unless the process dies: no writer waits for a
\* background thread that has forgotten it.  (The writes are bounded, so the queue
\* runs empty when all of them have returned.)
WritesReturn == writers # << >> ~> writers = << >>

\* As ProcessMayDie, for a write behind a failed append too.
NothingLostWithProcess == acked \subseteq Recoverable(Lengths)
=============================================================================
