------------------------ MODULE BoardStoreInvariant ------------------------
(***************************************************************************)
(* The inductive invariant behind the safety properties of BoardStore.     *)
(* Each part is preserved only together with the others; TLC checks it on  *)
(* small instances, and BoardStoreProofs proves it.                        *)
(***************************************************************************)
EXTENDS BoardStore

History == EditsOf(journal)

Loading(i) == status[i] \in {"loading", "recovering"}

InPhase(i, p) == task[i] # None /\ task[i].phase = p

Comparable(s, t) == IsPrefix(s, t) \/ IsPrefix(t, s)

\* Only an instance whose load has succeeded has anything to do.
Busy(i) ==
  \/ task[i] # None \/ queue[i] # << >> \/ timer[i] \/ resuming[i] > 0
  \/ Saving(i) \/ \E k \in DOMAIN saveQueue : saveQueue[k].inst = i

BusyInstancesAreReady == \A i \in Instance : Busy(i) => status[i] = "ready"

\* The registry knows the instance that is loading or takes edits, unless the
\* unload of another has deleted its name.
RegistryIsRight ==
  /\ \A i \in Instance : status[i] = "unused" => ~disposed[i]
  /\ \A i \in Instance : Loading(i) => ~disposed[i]
  /\ \A i \in Instance : Loading(i) \/ Live(i) => loadedBoard = i \/ i \in orphans
  /\ \A i \in Instance : Ready(i) => reader = i

\* A journal that no load can read any more, whatever is lost of it.
Hopeless ==
  \/ \E k \in 1..synced : journal[k].seq # k
  \/ tail = "garbled" /\ synced = Len(journal)

\* What a load would find no longer follows from what was recorded.
Lost == misread \/ Hopeless

\* The edit whose append runs is the last that its instance has recorded.
AppendsTheLast ==
  \A i \in Instance : Appending(i) => log[i] # << >> /\ task[i].edit = Last(log[i])

\* What an instance has recorded is in the journal, in the same places, except
\* for the edit whose append has not reached the file; or the journal turns
\* hopeless with the append that found its place taken.
LogIsJournalled ==
  \A i \in Instance : status[i] = "ready" /\ ~journalFailed[i] =>
    \/ Lost
    \/ IsPrefix(log[i], History)
    \/ InPhase(i, "write") /\ IsPrefix(Front(log[i]), History)
    \/ InPhase(i, "sync") /\ ~Readable

\* While all edits come from the instance that read the journal last, each goes
\* to the place it was recorded for, behind a complete member.
ReaderFollowsItself ==
  late = {} =>
    /\ Readable
    /\ \A i \in {reader} \cap Instance :
         /\ Live(i) \/ InPhase(i, "write") => tail = "clean"
         /\ InPhase(i, "write") => Len(log[i]) = Len(journal) + 1
         /\ InPhase(i, "sync") \/ (Live(i) /\ ~InPhase(i, "write")) =>
              Len(log[i]) = Len(journal)

\* A snapshot that is being written holds journalled edits only, and so does
\* the backup it is staged in.
SavesAreJournalled ==
  job # None =>
    /\ Lost \/ IsPrefix(job.snap, History)
    /\ job.phase = "staged" => backup \in {job.snap, None}

\* What a load would read is a prefix of the journal while the board is in
\* use.  Only a crash may leave a snapshot that is ahead of the journal.
SnapshotIsRight ==
  Lost \/
    /\ Comparable(StoredSvg, History)
    /\ \A i \in Instance :
         /\ status[i] = "ready" => IsPrefix(StoredSvg, History)
         /\ status[i] = "recovering" =>
              \/ log[i] = StoredSvg
              \/ IsPrefix(log[i], History) /\ IsPrefix(StoredSvg, History)

\* A save extends the snapshot that it replaces, and is a part of what an
\* instance in use has recorded.
SavesExtendTheSnapshot ==
  orphans = {} /\ ~misread =>
    /\ \A i \in Instance : Live(i) =>
         /\ IsPrefix(StoredSvg, log[i])
         /\ job # None => IsPrefix(job.snap, log[i])
    /\ job # None /\ job.phase \in {"write", "staged"} =>
         IsPrefix(StoredSvg, job.snap)

\* An edit is acknowledged in its place of the synced journal, or behind a torn
\* member of a journal that is beyond repair.
AcksAreRight ==
  /\ \A e \in Acked :
       \/ \E k \in 1..synced : journal[k].edit = e
       \/ tail = "garbled" /\ synced = Len(journal)
  /\ \A i \in Instance : InPhase(i, "sync") =>
       task[i].edit \in ToSet(History) \/ tail = "garbled"

\* The edits that are in the journal, or whose clients think so or soon will.
Recorded ==
  ToSet(History) \union Acked
    \union {task[i].edit : i \in {j \in Instance : InPhase(j, "sync")}}

\* The registered instance lacks late ones only.
NothingIsMissing ==
  ~misread => \A i \in Instance : Ready(i) => Recorded \ late \subseteq ToSet(log[i])

\* Where the session queue of i holds an edit: 0 stands for the running task.
Positions(i) == (IF task[i] = None THEN {} ELSE {0}) \union DOMAIN queue[i]
InHand(i, k) == IF k = 0 THEN task[i].edit ELSE queue[i][k]

\* An edit is in hand in one place only, and not answered while it is.
WorkIsPending ==
  \A i \in Instance : \A k \in Positions(i) :
    /\ outcome[InHand(i, k)] = "pending"
    /\ \A j \in Instance : \A l \in Positions(j) :
         InHand(i, k) = InHand(j, l) => i = j /\ k = l

IInv ==
  /\ TypeOK
  /\ BusyInstancesAreReady
  /\ RegistryIsRight
  /\ AppendsTheLast
  /\ LogIsJournalled
  /\ ReaderFollowsItself
  /\ SavesAreJournalled
  /\ SnapshotIsRight
  /\ SavesExtendTheSnapshot
  /\ AcksAreRight
  /\ NothingIsMissing
  /\ WorkIsPending
=============================================================================
