----------------------------- MODULE BoardStore -----------------------------
(***************************************************************************)
(* One board of the WBO server: the journal every accepted edit is         *)
(* appended to, the SVG snapshot that is rewritten behind it, and the      *)
(* in-memory BoardData instances that come and go between them: loading,   *)
(* the session queue, saving, unloading, stale drops, crashes.             *)
(*                                                                         *)
(* An edit is an opaque value; the sequence number of an edit is its       *)
(* position in the log of the instance that accepted it.  Items, strokes   *)
(* and board settings are abstracted away: what matters here is which      *)
(* edits are where.  Replay to clients is modelled in BoardReplay.         *)
(***************************************************************************)
EXTENDS Naturals, SequencesExt

CONSTANTS
  Socket,           \* socket connections; a reconnection is a new one
  Edit,             \* edits the clients submit, each at most once
  Import,           \* the edits that arrive by HTTP (archive import), no socket
  Clearing,         \* the edits after which no live item is left on the board
  Instance,         \* BoardData objects the process can create
  None,
  MaxFaults         \* bound on I/O failures and crashes together

\* A task of the session queue: the edit it handles, and how far it is.
Tasks == [edit : Edit, phase : {"prepare", "write", "sync"}]

ASSUME ConstantsAssumption ==
  /\ Import \subseteq Edit
  /\ None \notin Instance \union Seq(Edit) \union Tasks
  /\ MaxFaults \in Nat

VARIABLES
  \* --- files ---
  journal,       \* complete members of <board>.svg.history.jsonl.gz
  synced,        \* how many of them datasync has made durable
  tail,          \* what follows them: nothing, a torn member, or garbage
  svg,           \* <board>.svg: the edits it contains, or None
  backup,        \* <board>.svg.bak on its way to <board>.svg, or None
  \* --- process: registry and instances ---
  loadedBoard,   \* the instance registered under the board's name, or None
  status,        \* how far an instance has been loaded
  disposed,      \* board.disposed
  log,           \* the edits the instance has recorded, oldest first
  persistedSeq,  \* mutationLog.persistedSeq()
  journalFailed, \* history.pending is rejected
  users,         \* board.users
  queue,         \* session tasks that wait, one edit each
  task,          \* the session task that runs, or None
  \* --- saving and unloading ---
  timer,         \* the delayed save is armed
  saveQueue,     \* boardSaveQueue: saves of this board that wait
  job,           \* the save that runs, or None
  resuming,      \* unloads whose save has returned, per instance
  retry,         \* an unload is postponed by a replay pin
  \* --- the outside ---
  socketState,   \* "new", "admitted", "in", "closing" or "gone"
  boundTo,       \* the instance an admitted or a closing socket works with
  outcome,       \* what the client of each edit has been told
  faults,        \* I/O failures and crashes so far
  \* --- history variables: no action looks at them ---
  reader,        \* the registered instance that read the journal last, or None
  late,          \* edits another instance than the reader put into the journal
  orphans,       \* instances whose name was deleted by the unload of another
  misread        \* a snapshot ahead of the journal could not be read

files   == <<journal, synced, tail, svg, backup>>
session == <<queue, task>>
saving  == <<timer, saveQueue, job>>
unloads == <<resuming, retry>>
ghosts  == <<reader, late, orphans, misread>>
vars    == <<files, loadedBoard, status, disposed, log, persistedSeq,
             journalFailed, users, session, saving, unloads, socketState,
             boundTo, outcome, faults, ghosts>>

-----------------------------------------------------------------------------
(* Helpers *)

EditsOf(j) == [k \in DOMAIN j |-> j[k].edit]

\* Live items remain after the edits of s: persistedItemIds is not empty.
HasItems(s) == s # << >> /\ s[Len(s)] \notin Clearing

\* An append that history.append has started and not finished.
Appending(i) == task[i] # None /\ task[i].phase \in {"write", "sync"}

Saving(i) == job # None /\ job.inst = i

Task(e, p)       == [edit |-> e, phase |-> p]
Job(i, b, p, s)  == [inst |-> i, by |-> b, phase |-> p, snap |-> s]
Fault            == faults < MaxFaults /\ faults' = faults + 1

\* What becomes of the tail when a write ends half-way.
TornAt(t) == IF t = "clean" THEN "torn" ELSE "garbled"

\* i has put edits into the journal: late ones, unless it is the reader.
WritesBy(i, edits) == late' = IF i = reader THEN late ELSE late \union edits

\* delaySave: arm the save timer, unless a save of this instance is running.
DelaySave(i) == timer' = [timer EXCEPT ![i] = @ \/ ~(disposed[i] \/ Saving(i))]

\* Mutant: the timers are cleared and the instance is left alive.
DisposeClearsTimersOnly(i) ==
  timer' = [timer EXCEPT ![i] = FALSE] /\ UNCHANGED disposed

\* disposeBoard: no more edits, no more saves, no timer.
Dispose(i) ==
  /\ disposed' = [disposed EXCEPT ![i] = TRUE]
  /\ timer' = [timer EXCEPT ![i] = FALSE]

\* Mutant: only a failed save arms the timer again.
RearmAfterFailureOnly(i, n) ==
  timer' = [timer EXCEPT ![i] = persistedSeq[i] = n /\ ~disposed[i] /\ Len(log[i]) # n]

\* scheduleDirtySave, after a save that wrote the first n edits or none.
Rearm(i, n) ==
  timer' = [timer EXCEPT ![i] = ~disposed[i] /\ Len(log[i]) # n]

\* board.save(): an instance that is disposed is not saved at all, so an
\* unload goes straight on.
RequestSave(i, by) ==
  IF disposed[i]
    THEN /\ resuming' = IF by = "unload" THEN [resuming EXCEPT ![i] = @ + 1]
                                         ELSE resuming
         /\ UNCHANGED saveQueue
    ELSE /\ saveQueue' = Append(saveQueue, [inst |-> i, by |-> by])
         /\ UNCHANGED resuming

-----------------------------------------------------------------------------
Init ==
  /\ journal = << >> /\ synced = 0 /\ tail = "clean"
  /\ svg = None /\ backup = None
  /\ loadedBoard = None
  /\ status = [i \in Instance |-> "unused"]
  /\ disposed = [i \in Instance |-> FALSE]
  /\ log = [i \in Instance |-> << >>]
  /\ persistedSeq = [i \in Instance |-> 0]
  /\ journalFailed = [i \in Instance |-> FALSE]
  /\ users = [i \in Instance |-> {}]
  /\ queue = [i \in Instance |-> << >>]
  /\ task = [i \in Instance |-> None]
  /\ timer = [i \in Instance |-> FALSE]
  /\ saveQueue = << >> /\ job = None
  /\ resuming = [i \in Instance |-> 0] /\ retry = FALSE
  /\ socketState = [s \in Socket |-> "new"]
  /\ boundTo = [s \in Socket |-> None]
  /\ outcome = [e \in Edit |-> "new"]
  /\ faults = 0
  /\ reader = None /\ late = {} /\ orphans = {} /\ misread = FALSE

-----------------------------------------------------------------------------
(* Loading: getBoard, loadBoardData, loadHistory *)

\* A request finds nothing registered and starts to load a new instance,
\* whatever the ones before it have still to finish.
StartLoad(i) ==
  /\ loadedBoard = None /\ status[i] = "unused"
  /\ loadedBoard' = i
  /\ status' = [status EXCEPT ![i] = "loading"]
  /\ UNCHANGED <<files, disposed, log, persistedSeq, journalFailed, users,
                 session, saving, unloads, socketState, boundTo, outcome,
                 faults, ghosts>>

\* The snapshot is read: the SVG, else the backup (which becomes the SVG),
\* else nothing.
StoredSvg == IF svg # None THEN svg ELSE IF backup # None THEN backup ELSE << >>

LoadSvg(i) ==
  /\ status[i] = "loading"
  /\ log' = [log EXCEPT ![i] = StoredSvg]
  /\ persistedSeq' = [persistedSeq EXCEPT ![i] = Len(StoredSvg)]
  /\ status' = [status EXCEPT ![i] = "recovering"]
  /\ IF svg = None /\ backup # None
       THEN svg' = backup /\ backup' = None
       ELSE UNCHANGED <<svg, backup>>
  /\ UNCHANGED <<journal, synced, tail, loadedBoard, disposed, journalFailed,
                 users, session, saving, unloads, socketState, boundTo, outcome,
                 faults, ghosts>>

\* The snapshot cannot be read: loadBoardData logs that and goes on with an
\* empty board, into which loadHistory replays the whole journal.
MisreadSvg(i) ==
  /\ status[i] = "loading" /\ Fault
  /\ log' = [log EXCEPT ![i] = << >>]
  /\ persistedSeq' = [persistedSeq EXCEPT ![i] = 0]
  /\ status' = [status EXCEPT ![i] = "recovering"]
  /\ misread' = (misread \/ Len(StoredSvg) > Len(journal))
  /\ UNCHANGED <<files, loadedBoard, disposed, journalFailed, users, session,
                 saving, unloads, socketState, boundTo, outcome, reader, late,
                 orphans>>

Readable == tail # "garbled" /\ \A k \in DOMAIN journal : journal[k].seq = k

\* Mutant: one edit short.
CheckpointOneShort(s) ==
  [k \in 1..(Len(s) - Len(journal) - 1) |->
     [seq |-> Len(journal) + k, edit |-> s[Len(journal) + k]]]

\* The edits the journal lacks, as the checkpoint written for a newer SVG
\* brings them in.
Checkpoint(s) ==
  [k \in 1..(Len(s) - Len(journal)) |->
     [seq |-> Len(journal) + k, edit |-> s[Len(journal) + k]]]

\* Mutant: the snapshot alone is loaded.
ReplayedNothing(i) == log[i]

\* The edits past the snapshot are replayed.
Replayed(i) ==
  log[i] \o SubSeq(EditsOf(journal), Len(log[i]) + 1, Len(journal))

\* Mutant: the torn member is skipped and stays in the file.
KeepTornMember == UNCHANGED tail

\* truncate(lastOffset)
CutTornMember == tail' = "clean"

\* The journal is read to its end, and one that is older than the snapshot
\* gets a checkpoint.
LoadJournal(i) ==
  /\ status[i] = "recovering" /\ Readable
  /\ CutTornMember
  /\ status' = [status EXCEPT ![i] = "ready"]
  /\ reader' = IF loadedBoard = i THEN i ELSE reader
  /\ \/ /\ Len(log[i]) <= Len(journal)
        /\ log' = [log EXCEPT ![i] = Replayed(i)]
        /\ timer' = [timer EXCEPT ![i] = Len(journal) > persistedSeq[i]]
        /\ UNCHANGED <<journal, synced, late>>
     \/ /\ Len(log[i]) > Len(journal)
        /\ journal' = journal \o Checkpoint(log[i])
        /\ synced' = Len(log[i])
        /\ late' = IF loadedBoard = i THEN late
                   ELSE late \union ToSet(EditsOf(Checkpoint(log[i])))
        /\ UNCHANGED <<log, timer>>
  /\ UNCHANGED <<svg, backup, loadedBoard, disposed, persistedSeq, journalFailed,
                 users, session, saveQueue, job, unloads, socketState, boundTo, outcome,
                 faults, orphans, misread>>

\* Loading fails: an unreadable journal, or an I/O error.  The rejected
\* promise stays registered.
LoadFails(i) ==
  /\ status[i] = "recovering"
  /\ (~Readable /\ UNCHANGED faults) \/ Fault
  /\ status' = [status EXCEPT ![i] = "failed"]
  /\ UNCHANGED <<files, loadedBoard, disposed, log, persistedSeq, journalFailed,
                 users, session, saving, unloads, socketState, boundTo,
                 outcome, ghosts>>

-----------------------------------------------------------------------------
(* Sockets: prepareConnectionReplay, bootstrapSocketBoard, disconnecting *)

Ready(i) == loadedBoard = i /\ status[i] = "ready"

\* The replay is computed in the session queue of a live instance.
Admit(s, i) ==
  /\ socketState[s] = "new"
  /\ Ready(i) /\ ~disposed[i] /\ task[i] = None
  /\ socketState' = [socketState EXCEPT ![s] = "admitted"]
  /\ boundTo' = [boundTo EXCEPT ![s] = i]
  /\ UNCHANGED <<files, loadedBoard, status, disposed, log, persistedSeq,
                 journalFailed, users, session, saving, unloads, outcome,
                 faults, ghosts>>

\* The socket joins the instance of its replay, whatever has become of it.
Join(s) ==
  /\ socketState[s] = "admitted"
  /\ socketState' = [socketState EXCEPT ![s] = "in"]
  /\ users' = [users EXCEPT ![boundTo[s]] = @ \union {s}]
  /\ boundTo' = [boundTo EXCEPT ![s] = None]
  /\ UNCHANGED <<files, loadedBoard, status, disposed, log, persistedSeq,
                 journalFailed, session, saving, unloads, outcome,
                 faults, ghosts>>

\* What a handler that awaits the registered promise gets; a promise that is
\* still loading is waited for, one that has failed yields nothing.
Settled    == loadedBoard \notin {i \in Instance : status[i] \in {"loading", "recovering"}}
Unloadable == IF loadedBoard \in {i \in Instance : status[i] = "ready"}
                THEN loadedBoard ELSE None

\* The socket goes.  It leaves the users of the instance that is registered
\* now; only the one that leaves that instance empty has an unload to start,
\* once the session queue has closed its stroke.
Leave(s) ==
  /\ socketState[s] = "in" /\ Settled
  /\ \/ /\ Unloadable = None
        /\ socketState' = [socketState EXCEPT ![s] = "gone"]
        /\ UNCHANGED <<users, boundTo>>
     \/ /\ Unloadable # None
        /\ users' = [users EXCEPT ![loadedBoard] = @ \ {s}]
        /\ IF users'[loadedBoard] = {}
             THEN /\ socketState' = [socketState EXCEPT ![s] = "closing"]
                  /\ boundTo' = [boundTo EXCEPT ![s] = loadedBoard]
             ELSE /\ socketState' = [socketState EXCEPT ![s] = "gone"]
                  /\ UNCHANGED boundTo
  /\ UNCHANGED <<files, loadedBoard, status, disposed, log, persistedSeq,
                 journalFailed, session, saving, unloads, outcome,
                 faults, ghosts>>

\* unloadBoard: ask for a save of whatever is registered now.
StartUnload ==
  /\ Settled
  /\ IF Unloadable = None
       THEN UNCHANGED <<saveQueue, resuming>>
       ELSE RequestSave(loadedBoard, "unload")

Closed(s) ==
  /\ socketState[s] = "closing"
  /\ task[boundTo[s]] = None /\ queue[boundTo[s]] = << >>
  /\ socketState' = [socketState EXCEPT ![s] = "gone"]
  /\ boundTo' = [boundTo EXCEPT ![s] = None]
  /\ StartUnload
  /\ UNCHANGED <<files, loadedBoard, status, disposed, log, persistedSeq,
                 journalFailed, users, session, timer, job, retry, outcome,
                 faults, ghosts>>

\* The save of an unload has returned "saved" or "skipped".  Users who have
\* joined meanwhile stop the unload, a replay pin postpones it; otherwise the
\* instance is disposed and the board's name is deleted from the registry,
\* whichever instance it stands for by now.
ResumeUnload(i) ==
  /\ resuming[i] > 0
  /\ resuming' = [resuming EXCEPT ![i] = @ - 1]
  /\ \/ /\ users[i] # {}
        /\ UNCHANGED <<loadedBoard, disposed, timer, retry, orphans>>
     \/ /\ users[i] = {} /\ persistedSeq[i] > 0
        /\ retry' = TRUE
        /\ UNCHANGED <<loadedBoard, disposed, timer, orphans>>
     \/ /\ users[i] = {}
        /\ loadedBoard' = None
        /\ Dispose(i)
        /\ orphans' = orphans \union ({loadedBoard} \ {i, None})
        /\ UNCHANGED retry
  /\ UNCHANGED <<files, status, log, persistedSeq, journalFailed, users, session,
                 saveQueue, job, socketState, boundTo, outcome, faults, reader, late,
                 misread>>

\* The pin has expired: setTimeout(() => unloadBoard(boardName)).
RetryUnload ==
  /\ retry /\ retry' = FALSE
  /\ StartUnload
  /\ UNCHANGED <<files, loadedBoard, status, disposed, log, persistedSeq,
                 journalFailed, users, session, timer, job, socketState, boundTo,
                 outcome, faults, ghosts>>

-----------------------------------------------------------------------------
(* Accepting an edit: acceptPersistentMutation, history.append *)

\* An edit reaches the session queue of the registered instance.
Submit(e, i) ==
  /\ outcome[e] = "new" /\ Ready(i)
  /\ e \in Import \/ \E s \in Socket : socketState[s] = "in"
  /\ outcome' = [outcome EXCEPT ![e] = "pending"]
  /\ queue' = [queue EXCEPT ![i] = Append(@, e)]
  /\ UNCHANGED <<files, loadedBoard, status, disposed, log, persistedSeq,
                 journalFailed, users, task, saving, unloads, socketState,
                 boundTo, faults, ghosts>>

\* Mutant: the early return for a disposed instance forgets the answer.
BeginWithoutAnswer(i) ==
  /\ task[i] = None /\ queue[i] # << >>
  /\ queue' = [queue EXCEPT ![i] = Tail(@)]
  /\ IF disposed[i] THEN UNCHANGED task
       ELSE task' = [task EXCEPT ![i] = Task(Head(queue[i]), "prepare")]
  /\ UNCHANGED <<files, loadedBoard, status, disposed, log, persistedSeq,
                 journalFailed, users, saving, unloads, socketState, boundTo,
                 outcome, faults, ghosts>>

\* Its turn comes: a disposed instance takes no more edits.
Begin(i) ==
  /\ task[i] = None /\ queue[i] # << >>
  /\ queue' = [queue EXCEPT ![i] = Tail(@)]
  /\ IF disposed[i]
       THEN /\ outcome' = [outcome EXCEPT ![Head(queue[i])] = "rejected"]
            /\ UNCHANGED task
       ELSE /\ task' = [task EXCEPT ![i] = Task(Head(queue[i]), "prepare")]
            /\ UNCHANGED outcome
  /\ UNCHANGED <<files, loadedBoard, status, disposed, log, persistedSeq,
                 journalFailed, users, saving, unloads, socketState, boundTo,
                 faults, ghosts>>

\* processMessage refuses the edit.
Refuse(i) ==
  /\ task[i] # None /\ task[i].phase = "prepare"
  /\ task' = [task EXCEPT ![i] = None]
  /\ outcome' = [outcome EXCEPT ![task[i].edit] = "rejected"]
  /\ UNCHANGED <<files, loadedBoard, status, disposed, log, persistedSeq,
                 journalFailed, users, queue, saving, unloads, socketState,
                 boundTo, faults, ghosts>>

\* processMessage applies the edit and it is recorded; history.append starts,
\* or throws because the instance was disposed during the preparation.  The
\* error ends in the log of wrapSocketEventHandler: nothing is emitted.
Apply(i) ==
  /\ task[i] # None /\ task[i].phase = "prepare"
  /\ log' = [log EXCEPT ![i] = Append(@, task[i].edit)]
  /\ DelaySave(i)
  /\ IF disposed[i]
       THEN /\ task' = [task EXCEPT ![i] = None]
            /\ outcome' = [outcome EXCEPT ![task[i].edit] = "unanswered"]
            /\ journalFailed' = [journalFailed EXCEPT ![i] = TRUE]
       ELSE /\ task' = [task EXCEPT ![i].phase = "write"]
            /\ UNCHANGED <<outcome, journalFailed>>
  /\ UNCHANGED <<files, loadedBoard, status, disposed, persistedSeq, users,
                 queue, saveQueue, job, unloads, socketState, boundTo,
                 faults, ghosts>>

\* The member reaches the file.  Behind a torn member it is unreadable.
AppendWrite(i) ==
  /\ task[i] # None /\ task[i].phase = "write"
  /\ task' = [task EXCEPT ![i].phase = "sync"]
  /\ IF tail = "clean"
       THEN /\ journal' = Append(journal, [seq  |-> Len(log[i]),
                                           edit |-> task[i].edit])
            /\ UNCHANGED tail
       ELSE tail' = "garbled" /\ UNCHANGED journal
  /\ WritesBy(i, {task[i].edit})
  /\ UNCHANGED <<synced, svg, backup, loadedBoard, status, disposed, log,
                 persistedSeq, journalFailed, users, queue, saving, unloads,
                 socketState, boundTo, outcome, faults, reader, orphans, misread>>

\* Mutant: the edit is acknowledged without a datasync.
AppendWithoutSync(i) ==
  /\ task[i] # None /\ task[i].phase = "sync"
  /\ task' = [task EXCEPT ![i] = None]
  /\ outcome' = [outcome EXCEPT ![task[i].edit] = "acked"]
  /\ UNCHANGED <<files, loadedBoard, status, disposed, log, persistedSeq,
                 journalFailed, users, queue, saving, unloads, socketState,
                 boundTo, faults, ghosts>>

\* datasync returns: the edit is acknowledged and broadcast.
AppendSync(i) ==
  /\ task[i] # None /\ task[i].phase = "sync"
  /\ synced' = Len(journal)
  /\ task' = [task EXCEPT ![i] = None]
  /\ outcome' = [outcome EXCEPT ![task[i].edit] = "acked"]
  /\ UNCHANGED <<journal, tail, svg, backup, loadedBoard, status, disposed, log,
                 persistedSeq, journalFailed, users, queue, saving, unloads,
                 socketState, boundTo, faults, ghosts>>

\* The write or the datasync fails.  A failed write may leave a torn member,
\* a failed datasync leaves a complete one.  The instance is disposed of; the
\* error is only logged, and the client is told nothing.
AppendFail(i) ==
  /\ Appending(i) /\ Fault
  /\ task' = [task EXCEPT ![i] = None]
  /\ outcome' = [outcome EXCEPT ![task[i].edit] = "unanswered"]
  /\ journalFailed' = [journalFailed EXCEPT ![i] = TRUE]
  /\ Dispose(i)
  /\ \/ UNCHANGED <<tail, late>>
     \/ task[i].phase = "write" /\ tail' = TornAt(tail)
        /\ WritesBy(i, {task[i].edit})
  /\ UNCHANGED <<journal, synced, svg, backup, loadedBoard, status, log,
                 persistedSeq, users, queue, saveQueue, job, unloads,
                 socketState, boundTo, reader, orphans, misread>>

-----------------------------------------------------------------------------
(* Saving: unsafeSaveBoard and the files it writes *)

\* The delayed save fires; it does nothing while a save is running.
TimerFires(i) ==
  /\ timer[i]
  /\ timer' = [timer EXCEPT ![i] = FALSE]
  /\ IF Saving(i) THEN UNCHANGED <<saveQueue, resuming>> ELSE RequestSave(i, "timer")
  /\ UNCHANGED <<files, loadedBoard, status, disposed, log, persistedSeq,
                 journalFailed, users, session, job, retry, socketState, boundTo,
                 outcome, faults, ghosts>>

\* The next save starts.  Saves are serialized process-wide, so it may have
\* waited for another board's.
StartSave ==
  /\ job = None /\ saveQueue # << >>
  /\ LET i == Head(saveQueue).inst
     IN /\ job' = Job(i, Head(saveQueue).by, "drain", << >>)
        /\ timer' = [timer EXCEPT ![i] = FALSE]
  /\ saveQueue' = Tail(saveQueue)
  /\ UNCHANGED <<files, loadedBoard, status, disposed, log, persistedSeq,
                 journalFailed, users, session, unloads, socketState, boundTo,
                 outcome, faults, ghosts>>

\* Mutant: an unload goes on only when its save wrote something.
EndSaveWhenSaved(result) ==
  /\ job' = None
  /\ resuming' = IF job.by = "unload" /\ result = "saved"
                   THEN [resuming EXCEPT ![job.inst] = @ + 1]
                   ELSE resuming

\* What the caller of the save that ends does next: an unload goes on after
\* "saved" and "skipped", and gives up after "stale" and "failed".
EndSave(result) ==
  /\ job' = None
  /\ resuming' = IF job.by = "unload" /\ result \in {"saved", "skipped"}
                   THEN [resuming EXCEPT ![job.inst] = @ + 1]
                   ELSE resuming

\* Nothing to save: unsafeSaveBoard returns "skipped".
Skips(i) == disposed[i] \/ Len(log[i]) = persistedSeq[i]

\* await history.pending: the append in flight is waited for.
Drained(i) == ~Appending(i)

\* The pending appends have settled: give up, skip, or take the snapshot.
TakeSnapshot ==
  /\ job # None /\ job.phase = "drain" /\ Drained(job.inst)
  /\ LET i == job.inst
     IN \/ journalFailed[i] /\ EndSave("failed")
        \/ /\ ~journalFailed[i]
           /\ Skips(i)
           /\ EndSave("skipped")
        \/ /\ ~journalFailed[i] /\ ~Skips(i)
           /\ job' = Job(i, job.by, "write", log[i])
           /\ UNCHANGED resuming
  /\ UNCHANGED <<files, loadedBoard, status, disposed, log, persistedSeq,
                 journalFailed, users, session, timer, saveQueue, retry,
                 socketState, boundTo, outcome, faults, ghosts>>

\* The stored SVG is rewritten item by item when the last save left items in
\* it, and written from scratch otherwise.
Rewriting    == HasItems(SubSeq(log[job.inst], 1, persistedSeq[job.inst]))
RewriteInput == IF svg # None THEN svg ELSE backup

\* Only a rewrite looks at what is on disk: it must be what this instance
\* last saved or loaded.
StaleSnapshot ==
  Rewriting /\ ~(RewriteInput # None /\ Len(RewriteInput) = persistedSeq[job.inst])

\* The new snapshot is written to a temporary file and renamed to the backup.
\* A board without items has its files removed instead.
StageSnapshot ==
  /\ job # None /\ job.phase = "write" /\ ~StaleSnapshot
  /\ IF Rewriting \/ HasItems(job.snap)
       THEN /\ backup' = job.snap
            /\ job' = [job EXCEPT !.phase = "staged"]
            /\ UNCHANGED svg
       ELSE /\ svg' = None /\ backup' = None
            /\ job' = [job EXCEPT !.phase = "published"]
  /\ UNCHANGED <<journal, synced, tail, loadedBoard, status, disposed, log,
                 persistedSeq, journalFailed, users, session, timer, saveQueue,
                 unloads, socketState, boundTo, outcome, faults, ghosts>>

\* rename(backupFile, file)
PublishSnapshot ==
  /\ job # None /\ job.phase = "staged" /\ backup # None
  /\ svg' = backup /\ backup' = None
  /\ job' = [job EXCEPT !.phase = "published"]
  /\ UNCHANGED <<journal, synced, tail, loadedBoard, status, disposed, log,
                 persistedSeq, journalFailed, users, session, timer, saveQueue,
                 unloads, socketState, boundTo, outcome, faults, ghosts>>

\* The instance takes note of what was saved, and arms the timer again when
\* edits were accepted meanwhile.
FinishSave ==
  /\ job # None /\ job.phase = "published"
  /\ LET i == job.inst
     IN /\ persistedSeq' = [persistedSeq EXCEPT ![i] = Len(job.snap)]
        /\ Rearm(i, Len(job.snap))
  /\ EndSave("saved")
  /\ UNCHANGED <<files, loadedBoard, status, disposed, log, journalFailed, users,
                 session, saveQueue, retry, socketState, boundTo, outcome,
                 faults, ghosts>>

\* The snapshot on disk is not the one this instance knows (or is gone): the
\* instance is dropped and its sockets are closed.
DropStale ==
  /\ job # None
  /\ \/ job.phase = "write" /\ StaleSnapshot
     \/ job.phase = "staged" /\ backup = None /\ Rewriting
  /\ EndSave("stale")
  /\ IF loadedBoard = job.inst
       THEN /\ loadedBoard' = None
            /\ Dispose(job.inst)
            /\ users' = [users EXCEPT ![job.inst] = {}]
            /\ socketState' = [s \in Socket |->
                 IF s \in users[job.inst] THEN "gone" ELSE socketState[s]]
       ELSE UNCHANGED <<loadedBoard, disposed, timer, users, socketState>>
  /\ UNCHANGED <<files, status, log, persistedSeq, journalFailed, session,
                 saveQueue, retry, boundTo, outcome, faults, ghosts>>

\* Any other error while the file is written: the save is tried again later.
SaveFail ==
  /\ job # None
  /\ \/ job.phase \in {"write", "staged"} /\ Fault
     \/ job.phase = "staged" /\ backup = None /\ ~Rewriting /\ UNCHANGED faults
  /\ EndSave("failed")
  /\ Rearm(job.inst, persistedSeq[job.inst])
  /\ UNCHANGED <<files, loadedBoard, status, disposed, log, persistedSeq,
                 journalFailed, users, session, saveQueue, retry, socketState,
                 boundTo, outcome, ghosts>>

-----------------------------------------------------------------------------
Writers == {i \in Instance : task[i] # None /\ task[i].phase = "write"}

\* The machine stops.  Memory is lost, and any members of the journal that
\* were never synced, the first of them perhaps in part.
Crash ==
  /\ Fault
  /\ \E k \in synced..Len(journal) :
       /\ journal' = SubSeq(journal, 1, k)
       /\ \/ k < Len(journal) /\ tail' \in {"clean", "torn"} /\ UNCHANGED late
          \/ k = Len(journal) /\ UNCHANGED <<tail, late>>
          \/ k = Len(journal) /\ \E i \in Writers :
               tail' = TornAt(tail) /\ WritesBy(i, {task[i].edit})
  /\ status' = [i \in Instance |-> IF status[i] = "unused" THEN "unused" ELSE "dead"]
  /\ disposed' = [i \in Instance |-> status[i] # "unused"]
  /\ loadedBoard' = None
  /\ users' = [i \in Instance |-> {}]
  /\ queue' = [i \in Instance |-> << >>]
  /\ task' = [i \in Instance |-> None]
  /\ timer' = [i \in Instance |-> FALSE]
  /\ saveQueue' = << >> /\ job' = None
  /\ resuming' = [i \in Instance |-> 0] /\ retry' = FALSE
  /\ socketState' = [s \in Socket |->
                      IF socketState[s] = "new" THEN "new" ELSE "gone"]
  /\ boundTo' = [s \in Socket |-> None]
  /\ outcome' = [e \in Edit |-> IF outcome[e] = "pending" THEN "unanswered" ELSE outcome[e]]
  /\ UNCHANGED <<synced, svg, backup, log, persistedSeq, journalFailed, reader,
                 orphans, misread>>

-----------------------------------------------------------------------------
Next ==
  \/ \E i \in Instance :
       \/ StartLoad(i) \/ LoadSvg(i) \/ MisreadSvg(i) \/ LoadJournal(i) \/ LoadFails(i)
       \/ Begin(i) \/ Refuse(i) \/ Apply(i)
       \/ AppendWrite(i) \/ AppendSync(i) \/ AppendFail(i)
       \/ ResumeUnload(i) \/ TimerFires(i)
       \/ \E s \in Socket : Admit(s, i)
       \/ \E e \in Edit : Submit(e, i)
  \/ \E s \in Socket : Join(s) \/ Leave(s) \/ Closed(s)
  \/ RetryUnload
  \/ StartSave \/ TakeSnapshot \/ StageSnapshot \/ PublishSnapshot \/ FinishSave
  \/ DropStale \/ SaveFail
  \/ Crash

Spec == Init /\ [][Next]_vars

(* What is scheduled by the process itself goes on as long as it can: the     *)
(* event loop runs every callback, every started I/O returns, a timer fires.  *)
(* Requests, I/O failures, refusals, crashes and disconnections need not come. *)
(* An unload that finds no users is not postponed for ever: pins expire.      *)
Fairness ==
  /\ \A i \in Instance :
       /\ WF_vars(LoadSvg(i)) /\ WF_vars(LoadJournal(i) \/ LoadFails(i))
       /\ WF_vars(Begin(i)) /\ WF_vars(Refuse(i) \/ Apply(i))
       /\ WF_vars(AppendWrite(i)) /\ WF_vars(AppendSync(i))
       /\ WF_vars(TimerFires(i)) /\ WF_vars(ResumeUnload(i))
       /\ SF_vars(ResumeUnload(i) /\ retry' = retry)
  /\ \A s \in Socket : WF_vars(Closed(s))
  /\ WF_vars(RetryUnload)
  /\ WF_vars(StartSave) /\ WF_vars(TakeSnapshot)
  /\ WF_vars(StageSnapshot \/ DropStale) /\ WF_vars(PublishSnapshot \/ SaveFail)
  /\ WF_vars(FinishSave)

FairSpec == Spec /\ Fairness

-----------------------------------------------------------------------------
(* Properties *)

Members == [seq : Nat, edit : Edit]
Saves == [inst : Instance, by : {"timer", "unload"}]
Jobs  == [inst : Instance, by : {"timer", "unload"},
          phase : {"drain", "write", "staged", "published"}, snap : Seq(Edit)]

FilesTypeOK ==
  /\ journal \in Seq(Members)
  /\ synced \in 0..Len(journal)
  /\ tail \in {"clean", "torn", "garbled"}
  /\ svg \in Seq(Edit) \union {None}
  /\ backup \in Seq(Edit) \union {None}

InstancesTypeOK ==
  /\ loadedBoard \in Instance \union {None}
  /\ status \in [Instance -> {"unused", "loading", "recovering", "ready",
                              "failed", "dead"}]
  /\ disposed \in [Instance -> BOOLEAN]
  /\ log \in [Instance -> Seq(Edit)]
  /\ persistedSeq \in [Instance -> Nat]
  /\ journalFailed \in [Instance -> BOOLEAN]
  /\ users \in [Instance -> SUBSET Socket]
  /\ queue \in [Instance -> Seq(Edit)]
  /\ task \in [Instance -> Tasks \union {None}]

SavingTypeOK ==
  /\ timer \in [Instance -> BOOLEAN]
  /\ saveQueue \in Seq(Saves)
  /\ job \in Jobs \union {None}
  /\ resuming \in [Instance -> Nat]
  /\ retry \in BOOLEAN

OutsideTypeOK ==
  /\ socketState \in [Socket -> {"new", "admitted", "in", "closing", "gone"}]
  /\ boundTo \in [Socket -> Instance \union {None}]
  /\ outcome \in [Edit -> {"new", "pending", "acked", "rejected", "unanswered"}]
  /\ faults \in 0..MaxFaults

GhostsTypeOK ==
  /\ reader \in Instance \union {None}
  /\ late \subseteq Edit
  /\ orphans \subseteq Instance
  /\ misread \in BOOLEAN

TypeOK ==
  FilesTypeOK /\ InstancesTypeOK /\ SavingTypeOK /\ OutsideTypeOK /\ GhostsTypeOK

Acked == {e \in Edit : outcome[e] = "acked"}

\* No acknowledged edit is lost: whatever is acknowledged and broadcast is in
\* the synced part of the journal, through crashes, torn members and the
\* truncation by a later load.  Only an edit written behind a torn member may
\* be acknowledged and unreadable.
AckedEditsAreDurable ==
  tail # "garbled" =>
    \A e \in Acked : \E k \in 1..synced : journal[k].edit = e

\* The journal can always be read back: its sequence numbers have no gap and
\* no repetition, and nothing was written behind a torn member.
JournalIsReadable == Readable

\* Crashes, torn members, failed appends and failed reads never make the
\* journal unreadable.  It takes an instance that writes although another has
\* read the journal since, to take its place.
OnlyLateWritesBreakTheJournal == late = {} => Readable

\* Whoever is served a live instance sees every acknowledged edit, except
\* those that an earlier instance wrote after this one had read the journal.
\* An unreadable snapshot is made up for by the journal, unless it was ahead
\* of it.
LoadedBoardHasAckedEdits ==
  ~misread => \A i \in Instance : Ready(i) => Acked \ late \subseteq ToSet(log[i])

\* The snapshot a load would read, and a readable journal, are prefixes of one
\* history.
SnapshotAgreesWithJournal ==
  Readable /\ ~misread =>
    \/ IsPrefix(StoredSvg, EditsOf(journal))
    \/ IsPrefix(EditsOf(journal), StoredSvg)

Live(i) == status[i] = "ready" /\ ~disposed[i]

\* Of the instances of a board at most one takes edits, although the registry
\* forgets an instance that still has saves and appends to finish: a second one
\* only ever lives on because an unload of another instance deleted its name.
OneLiveInstance ==
  \A i, j \in Instance :
    Live(i) /\ Live(j) /\ i \notin orphans /\ j \notin orphans => i = j

Dirty(i) == Live(i) /\ persistedSeq[i] # Len(log[i])

\* The stored snapshot never goes back: it only gets longer, unless it is
\* removed with the last item; not even when the last save of an instance that
\* is gone and the first save of its successor follow one another.  An instance
\* that lost its name to the unload of another, and one that could not read the
\* snapshot, do replace it by an older one: a first save does not look.
SnapshotNeverGoesBack ==
  [][\/ IsPrefix(StoredSvg, StoredSvg')
     \/ StoredSvg' = << >> /\ job # None /\ ~HasItems(job.snap)
     \/ orphans # {} \/ misread]_vars

\* The board promises one growing history (DurableLog), as long as its journal
\* can be read.
DurableHistory ==
  INSTANCE DurableLog WITH durable <- EditsOf(journal),
                           acked   <- Acked,
                           broken  <- ~Readable

ImplementsDurableLog == DurableHistory!Spec

\* Every submitted edit is answered: acknowledged or rejected.  The one edit
\* that is not is the last that an instance recorded, whose own append failed;
\* those that wait behind it are rejected.  A crash answers none.
EditsAreAnswered ==
  \A e \in Edit :
    outcome[e] = "pending" ~>
      \/ outcome[e] \in {"acked", "rejected"}
      \/ outcome[e] = "unanswered" /\ \E i \in Instance :
           \/ status[i] = "dead"
           \/ journalFailed[i] /\ log[i] # << >> /\ Last(log[i]) = e

\* What a live instance has accepted gets into its snapshot, whatever is
\* accepted while a save runs and however often saves fail; an instance that
\* is disposed of leaves that to its successor.  (One that lost its name to the
\* unload of another finds its successor's snapshot stale, and nobody notices.)
EditsAreSaved ==
  \A i \in Instance : Dirty(i) ~> ~Dirty(i) \/ i \in orphans

\* When the last user leaves, the board is unloaded unless someone joins or a
\* save fails.  After an append failure the board can be used again without a
\* restart: the disposed instance leaves the registry once the connected sockets
\* are gone.
UnusedBoardsAreReleased ==
  \A i \in Instance :
    /\ \A s \in Socket :
         (socketState[s] = "closing" /\ boundTo[s] = i) ~>
           (loadedBoard # i \/ users[i] # {} \/ faults > 0)
    /\ (loadedBoard = i /\ disposed[i]) ~>
         (loadedBoard # i \/ \E s \in Socket : socketState[s] \in {"admitted", "in"})
=============================================================================
